------------------------- MODULE ReadHorizonProofs -------------------------
(***************************************************************************)
(* Theorems about ReadHorizon for any set of readers, windows and bounds:  *)
(* the pins count the readers, no collect passes a reader, and the index   *)
(* of commit times can be searched.                                        *)
(*                                                                         *)
(* Four invariants, each resting on the ones before it: EpochInv (commits  *)
(* in progress have consecutive epochs and the first is published next),   *)
(* TimeInv (the index ascends up to lastTime), PinInv (the pins are the    *)
(* readers, counted by epoch) and FloorInv (collected, floor, the horizon  *)
(* being collected and the readers are in that order, up to published).    *)
(***************************************************************************)
EXTENDS ReadHorizonPins

\* Zenon proves a step unless the step names another prover.
USE Zenon

Commit == [tx : Reader \cup Outside, epoch : Nat, time : SUBSET Nat]
CommitAt == [epoch : Nat, time : Nat]
CommitSeq == Seq(Commit)
TimeSeq == Seq(CommitAt)

\* The commits in progress have the newest epochs, in order; published is the
\* epoch before the first of them, or its own; one of no transaction is alone.
EpochInv ==
    /\ assigned \in Nat /\ published \in Nat /\ locked \in BOOLEAN
    /\ turn \in {"Waits", "Released", "Published", "Records"}
    /\ commits \in CommitSeq
    /\ \A i \in 1 .. Len(commits) : commits[i].epoch = (assigned - Len(commits)) + i
    /\ published = (assigned - Len(commits)) + (IF turn \in {"Published", "Records"} THEN 1 ELSE 0)
    /\ locked \/ turn # "Waits" => commits # <<>>
    /\ \A i \in 1 .. Len(commits) : commits[i].tx \in Outside => Len(commits) = 1 /\ locked
    /\ turn # "Waits" /\ locked /\ Len(commits) = 1 => commits[1].tx \in Outside

\* The index ascends, and no time in it is past the newest taken.
TimeInv ==
    /\ clock \in Nat /\ lastTime \in Nat /\ retention \in Retentions
    /\ setter.published \in Nat /\ setter.to \in Retentions
    /\ setter = [place |-> setter.place, published |-> setter.published, to |-> setter.to]
    /\ times \in TimeSeq
    /\ TimesAscend
    /\ \A i \in 1 .. Len(times) : times[i].time <= lastTime

\* The pins are the readers, which read at published epochs.
PinInv ==
    /\ reads \in [Reader -> SUBSET Nat]
    /\ \A r \in Reader : reads[r] = {} \/ \E e \in Nat : reads[r] = {e} /\ e <= published
    /\ pins \in PinSeq
    /\ PinsMatch(pins, Readers)

\* What is collected ends before the floor, the floor before every reader.
FloorInv ==
    /\ floor \in Nat /\ collected \in Nat /\ collecting \in SUBSET Nat
    /\ collected <= floor /\ floor <= published
    /\ \A horizon \in collecting : horizon <= published
    /\ ReadersKept
----------------------------------------------------------------------------
(* The epochs and the times *)

\* What the commits in progress are made of.
LEMMA CommitsTyped ==
  ASSUME NEW q \in CommitSeq
  PROVE  /\ Len(q) \in Nat /\ DOMAIN q = 1 .. Len(q) /\ (q = <<>> <=> Len(q) = 0)
         /\ \A i \in 1 .. Len(q) : q[i] \in Commit /\ q[i].epoch \in Nat /\ q[i].time \in SUBSET Nat
<1>1. \A i \in 1 .. Len(q) : q[i] \in Commit
  BY ElementOfSeq DEF CommitSeq
<1>2. \A c \in Commit : c.epoch \in Nat /\ c.time \in SUBSET Nat
  BY DEF Commit
<1>3. Len(q) \in Nat /\ DOMAIN q = 1 .. Len(q) /\ (q = <<>> <=> Len(q) = 0)
  BY EmptySeq, LenProperties DEF CommitSeq
<1>4. QED
  BY <1>1, <1>2, <1>3

\* What the index of times is made of.
LEMMA TimesTyped ==
  ASSUME NEW q \in TimeSeq
  PROVE  /\ Len(q) \in Nat /\ DOMAIN q = 1 .. Len(q) /\ (q = <<>> <=> Len(q) = 0)
         /\ \A i \in 1 .. Len(q) : q[i] \in CommitAt /\ q[i].epoch \in Nat /\ q[i].time \in Nat
<1>1. \A i \in 1 .. Len(q) : q[i] \in CommitAt
  BY ElementOfSeq DEF TimeSeq
<1>2. \A c \in CommitAt : c.epoch \in Nat /\ c.time \in Nat
  BY DEF CommitAt
<1>3. Len(q) \in Nat /\ DOMAIN q = 1 .. Len(q) /\ (q = <<>> <=> Len(q) = 0)
  BY EmptySeq, LenProperties DEF TimeSeq
<1>4. QED
  BY <1>1, <1>2, <1>3

\* The invariant holds of a new database.
LEMMA InitEpochTime ==
  ASSUME Init PROVE EpochInv /\ TimeInv
<1>1. EpochInv
  <2>1. commits = <<>> /\ assigned = 0 /\ published = 0 /\ locked = FALSE /\ turn = "Waits"
    BY DEF Init
  <2>2. commits \in CommitSeq /\ Len(commits) = 0
    BY <2>1, EmptySeq DEF CommitSeq
  <2>3. \A i \in 1 .. Len(commits) : FALSE
    BY <2>2, SMT
  <2>4. published = (assigned - Len(commits)) + (IF turn \in {"Published", "Records"} THEN 1 ELSE 0)
    BY <2>1, <2>2, SMT
  <2>5. assigned \in Nat /\ published \in Nat
    BY <2>1
  <2>6. locked \in BOOLEAN /\ turn \in {"Waits", "Released", "Published", "Records"}
    BY <2>1
  <2>7. ~locked /\ turn = "Waits"
    BY <2>1
  <2>8. QED
    BY <2>2, <2>3, <2>4, <2>5, <2>6, <2>7 DEF EpochInv
<1>2. TimeInv
  <2>1. /\ clock = 0 /\ lastTime = 0 /\ retention \in Retentions
        /\ setter = [place |-> "Idle", published |-> 0, to |-> Off] /\ Off \in Retentions
    BY DEF Init, Retentions
  <2>2. /\ times \in TimeSeq /\ \A i \in 1 .. Len(times) : i = 1 /\ times[i].time = 0
    <3> DEFINE at == [epoch |-> 0, time |-> 0]
    <3>1. CASE on
      <4>1. times = <<at>> /\ at \in CommitAt /\ at.time = 0
        BY <3>1 DEF Init, CommitAt
      <4> HIDE DEF at
      <4>2. QED
        BY <4>1, SMT DEF TimeSeq
    <3>2. CASE ~on
      <4>1. times = <<>>
        BY <3>2 DEF Init
      <4>2. QED
        BY <4>1, EmptySeq, SMT DEF TimeSeq
    <3>3. QED
      BY <3>1, <3>2
  <2>3. TimesAscend
    BY <2>2, TimesTyped, SMT DEF TimesAscend
  <2>4. /\ setter.published \in Nat /\ setter.to \in Retentions
        /\ setter = [place |-> setter.place, published |-> setter.published, to |-> setter.to]
    BY <2>1
  <2>5. QED
    BY <2>1, <2>2, <2>3, <2>4, SMT DEF TimeInv
<1>3. QED
  BY <1>1, <1>2

\* Where a step leaves the epochs alone.
LEMMA EpochFrame ==
  ASSUME EpochInv, UNCHANGED epochs PROVE EpochInv'
BY DEF EpochInv, epochs

\* Where a step leaves the times alone.
LEMMA TimeFrame ==
  ASSUME TimeInv, UNCHANGED <<clock, retention, times, lastTime, setter>> PROVE TimeInv'
BY DEF TimeInv, TimesAscend

\* The newest time may grow.
LEMMA LaterTime ==
  ASSUME TimeInv, UNCHANGED <<clock, retention, times, setter>>,
         lastTime' \in Nat, lastTime <= lastTime'
  PROVE  TimeInv'
<1>1. TimesAscend'
  BY DEF TimeInv, TimesAscend
<1>2. ASSUME NEW i \in 1 .. Len(times) PROVE times[i].time <= lastTime'
  <2>1. times[i].time \in Nat /\ times[i].time <= lastTime /\ lastTime \in Nat
    BY TimesTyped DEF TimeInv
  <2>2. QED
    BY <2>1, SMT
<1>3. QED
  BY <1>1, <1>2 DEF TimeInv

\* A commit's time is a number: the larger of the newest taken and the clock.
LEMMA NextTimeIs ==
  ASSUME TimeInv
  PROVE  NextTime \in Nat /\ lastTime <= NextTime /\ CommitTime \in SUBSET Nat
<1>1. NextTime \in Nat /\ lastTime <= NextTime
  BY MaxOfNats DEF TimeInv, NextTime
<1>2. QED
  BY <1>1 DEF CommitTime

\* Taking an epoch: the newest commit gets the next one.
LEMMA TakeEpochEpoch ==
  ASSUME EpochInv, NEW tx \in Reader \cup Outside, NEW time \in SUBSET Nat, TakeEpoch(tx, time),
         tx \in Outside => commits = <<>>
  PROVE  EpochInv'
<1> DEFINE c == [tx |-> tx, epoch |-> assigned + 1, time |-> time]
           n == Len(commits)
<1>1. c \in Commit /\ c.tx = tx /\ c.epoch = assigned + 1
  BY SMT DEF Commit, EpochInv
<1>2. n \in Nat /\ (commits = <<>> <=> n = 0)
  BY EmptySeq, LenProperties DEF EpochInv, CommitSeq
<1>3. /\ commits' \in CommitSeq /\ Len(commits') = n + 1 /\ commits'[n + 1] = c
      /\ \A i \in 1 .. n : commits'[i] = commits[i]
  BY <1>1, AppendProperties, SMT DEF TakeEpoch, EpochInv, CommitSeq
<1>4. assigned' = assigned + 1 /\ locked' = TRUE /\ ~locked /\ UNCHANGED <<published, turn>>
  BY DEF TakeEpoch
<1>5. commits' # <<>>
  BY <1>2, <1>3, EmptySeq, SMT DEF CommitSeq
<1> HIDE DEF c, n
<1>6. ASSUME NEW i \in 1 .. n + 1 PROVE commits'[i].epoch = ((assigned + 1) - (n + 1)) + i
  <2>1. assigned \in Nat /\ \A j \in 1 .. n : commits[j].epoch = (assigned - n) + j
    BY DEF EpochInv, n
  <2>2. CASE i = n + 1
    BY <1>1, <1>2, <1>3, <2>1, <2>2, SMTT(30)
  <2>3. CASE i \in 1 .. n
    <3>1. commits'[i].epoch = (assigned - n) + i
      BY <1>3, <2>1, <2>3
    <3>2. QED
      BY <1>2, <2>1, <2>3, <3>1, SMTT(30)
  <2>4. QED
    BY <1>2, <2>2, <2>3, SMT
<1>7. \A i \in 1 .. n + 1 : commits'[i].tx \in Outside => n + 1 = 1
  BY <1>1, <1>2, <1>3, <1>4, SMTT(30) DEF EpochInv, n
<1>8. turn # "Waits" => n + 1 # 1
  BY <1>2, SMT DEF EpochInv
<1>9. QED
  BY <1>2, <1>3, <1>4, <1>5, <1>6, <1>7, <1>8, SMT DEF EpochInv, n

\* Taking an epoch: the newest time taken does not go back.
LEMMA TakeEpochTime ==
  ASSUME TimeInv, NEW tx, NEW time \in {CommitTime, {}}, TakeEpoch(tx, time)
  PROVE  TimeInv'
<1>1. UNCHANGED <<clock, retention, times, setter>> /\ lastTime' = Max({lastTime} \cup time)
  BY DEF TakeEpoch
<1>2. lastTime \in Nat /\ NextTime \in Nat /\ lastTime <= NextTime
  BY NextTimeIs DEF TimeInv
<1>3. CASE time = {}
  <2>1. {lastTime} \cup time = {lastTime, lastTime}
    BY <1>3
  <2>2. lastTime' = lastTime
    BY <1>1, <1>2, <2>1, MaxPair, SMTT(30)
  <2>3. QED
    BY <1>1, <2>2, TimeFrame
<1>4. CASE time # {}
  <2>1. {lastTime} \cup time = {lastTime, NextTime}
    BY <1>4 DEF CommitTime
  <2>2. lastTime' \in Nat /\ lastTime <= lastTime'
    BY <1>1, <1>2, <2>1, MaxPair, SMT
  <2>3. QED
    BY <1>1, <1>2, <2>2, LaterTime
<1>5. QED
  BY <1>3, <1>4

\* A transaction's commit leaves the commit lock once it is in the log.
LEMMA WrittenEpoch ==
  ASSUME EpochInv, Written PROVE EpochInv'
<1>1. Len(commits) \in Nat \ {0}
  BY EmptySeq DEF EpochInv, Written, CommitSeq
<1>2. commits[Len(commits)].tx \notin Outside
  BY ReaderAssumption DEF Written, Last, Outside
<1>3. \A i \in 1 .. Len(commits) : commits[i].tx \notin Outside
  BY <1>1, <1>2, SMT DEF EpochInv
<1>4. QED
  BY <1>3 DEF EpochInv, Written

\* The commits without the newest.
LEMMA FrontOfCommits ==
  ASSUME NEW q \in CommitSeq, Len(q) # 0
  PROVE  /\ SubSeq(q, 1, Len(q) - 1) \in CommitSeq /\ Len(SubSeq(q, 1, Len(q) - 1)) = Len(q) - 1
         /\ \A i \in 1 .. Len(q) - 1 : SubSeq(q, 1, Len(q) - 1)[i] = q[i]
<1> DEFINE m == Len(q) - 1
<1>1. m \in Nat /\ m <= Len(q) /\ Len(q) \in Nat
  BY CommitsTyped, SMT
<1>2. \A i \in 1 .. m : q[i] \in Commit /\ (1 + i) - 1 = i
  BY <1>1, CommitsTyped, SMT
<1> HIDE DEF m
<1>3. /\ SubSeq(q, 1, m) \in Seq(Commit) /\ Len(SubSeq(q, 1, m)) = IF 1 <= m THEN (m - 1) + 1 ELSE 0
      /\ \A i \in 1 .. (m - 1) + 1 : SubSeq(q, 1, m)[i] = q[(1 + i) - 1]
  BY <1>1, <1>2, SubSeqProperties, SMT DEF CommitSeq
<1>4. Len(SubSeq(q, 1, m)) = m /\ (m - 1) + 1 = m
  BY <1>1, <1>3, SMT
<1>5. QED
  BY <1>2, <1>3, <1>4 DEF m, CommitSeq

\* CommitGuard::abort gives back the newest epoch.
LEMMA TakeBackEpoch ==
  ASSUME EpochInv, TakeBack PROVE EpochInv'
<1> DEFINE n == Len(commits)
<1>1. n \in Nat \ {0} /\ commits \in CommitSeq /\ locked
  BY CommitsTyped DEF EpochInv, TakeBack
<1>2. commits[n].tx \notin Outside
  BY ReaderAssumption DEF TakeBack, Last, Outside
<1>3. \A i \in 1 .. n : commits[i].tx \notin Outside
  BY <1>1, <1>2, SMT DEF EpochInv
<1>4. /\ commits' \in CommitSeq /\ Len(commits') = n - 1
      /\ \A i \in 1 .. n - 1 : commits'[i] = commits[i]
  <2>1. commits' = SubSeq(commits, 1, n - 1)
    BY DEF TakeBack
  <2>2. QED
    BY <1>1, <2>1, FrontOfCommits
<1>5. turn # "Waits" => n > 1
  <2>1. turn # "Waits" /\ locked /\ n = 1 => commits[1].tx \in Outside
    BY DEF EpochInv
  <2>2. n = 1 => commits[1].tx \notin Outside
    BY <1>2
  <2>3. QED
    BY <1>1, <2>1, <2>2, SMT
<1>6. n > 1 => commits' # <<>>
  BY <1>1, <1>4, EmptySeq, SMT DEF CommitSeq
<1>7. assigned' = assigned - 1 /\ locked' = FALSE /\ UNCHANGED <<published, turn>>
  BY DEF TakeBack
<1>8. /\ assigned \in Nat /\ published \in Nat
      /\ turn \in {"Waits", "Released", "Published", "Records"}
      /\ \A i \in 1 .. n : commits[i].epoch = (assigned - n) + i
      /\ published = (assigned - n) + (IF turn \in {"Published", "Records"} THEN 1 ELSE 0)
  BY DEF EpochInv
<1> HIDE DEF n
<1>9. assigned' \in Nat /\ assigned' - (n - 1) = assigned - n
  <2>1. CASE turn \in {"Published", "Records"}
    <3>1. n > 1 /\ published = (assigned - n) + 1
      BY <1>5, <1>8, <2>1
    <3>2. QED
      BY <1>1, <1>7, <1>8, <3>1, SMT
  <2>2. CASE turn \notin {"Published", "Records"}
    <3>1. published = (assigned - n) + 0
      BY <1>8, <2>2
    <3>2. QED
      BY <1>1, <1>7, <1>8, <3>1, SMT
  <2>3. QED
    BY <2>1, <2>2
<1>10. ASSUME NEW i \in 1 .. n - 1 PROVE commits'[i].epoch = (assigned' - (n - 1)) + i
  <2>1. i \in 1 .. n
    BY <1>1, SMT
  <2>2. commits'[i].epoch = (assigned - n) + i
    BY <1>4, <1>8, <2>1
  <2>3. QED
    BY <1>9, <2>2
<1>11. \A i \in 1 .. n - 1 : commits'[i].tx \notin Outside
  BY <1>1, <1>3, <1>4, SMT
<1>12. QED
  BY <1>4, <1>5, <1>6, <1>7, <1>8, <1>9, <1>10, <1>11 DEF EpochInv

\* The first commit's turn: its snapshot goes.
LEMMA ReleaseSnapshotEpoch ==
  ASSUME EpochInv, ReleaseSnapshot PROVE EpochInv'
BY SMT DEF EpochInv, ReleaseSnapshot

\* The epoch of the first commit is the next to be published.
LEMMA PublishEpochEpoch ==
  ASSUME EpochInv, PublishEpoch PROVE EpochInv' /\ published' = published + 1
<1>1. Len(commits) \in Nat \ {0}
  BY EmptySeq, LenProperties DEF EpochInv, PublishEpoch, IsCommitting, CommitSeq
<1>2. Head(commits) = commits[1]
  BY <1>1, HeadTailProperties, EmptySeq, SMTT(30) DEF EpochInv, CommitSeq
<1>3. published' = (assigned - Len(commits)) + 1 /\ turn' = "Published"
  BY <1>1, <1>2, SMT DEF EpochInv, PublishEpoch
<1>4. UNCHANGED <<assigned, commits, locked>> /\ turn \in {"Released", "Waits"}
  BY DEF PublishEpoch
<1>5. published' = published + 1
  BY <1>1, <1>3, <1>4, SMT DEF EpochInv
<1>6. locked /\ Len(commits) = 1 => commits[1].tx \in Outside
  BY <1>1, LenProperties, SMT DEF EpochInv, PublishEpoch, IsCommitting, CommitSeq
<1>7. commits # <<>>
  BY <1>1, EmptySeq DEF CommitSeq
<1>8. QED
  BY <1>1, <1>3, <1>4, <1>5, <1>6, <1>7, SMT DEF EpochInv

\* Its call returns.
LEMMA ReturnEpoch ==
  ASSUME EpochInv, turn \in {"Published", "Records"}, Return, UNCHANGED <<assigned, published>>
  PROVE  EpochInv'
<1> DEFINE n == Len(commits)
<1>1. n \in Nat \ {0} /\ commits # <<>>
  BY EmptySeq DEF EpochInv, CommitSeq
<1>2. /\ commits' \in CommitSeq /\ Len(commits') = n - 1
      /\ \A i \in 1 .. n - 1 : commits'[i] = commits[i + 1]
  BY <1>1, HeadTailProperties DEF EpochInv, Return, CommitSeq
<1>3. turn' = "Waits" /\ locked' = (locked /\ n > 1)
  BY DEF Return
<1>4. n > 1 => commits' # <<>>
  BY <1>1, <1>2, EmptySeq, SMT DEF CommitSeq
<1> HIDE DEF n
<1>5. \A i \in 1 .. n - 1 : commits'[i].epoch = (assigned - (n - 1)) + i
  <2>1. assigned \in Nat /\ \A i \in 1 .. n : commits[i].epoch = (assigned - n) + i
    BY DEF EpochInv, n
  <2>2. ASSUME NEW i \in 1 .. n - 1
        PROVE  i + 1 \in 1 .. n /\ (assigned - n) + (i + 1) = (assigned - (n - 1)) + i
    BY <1>1, <2>1, <2>2, SMT
  <2>3. QED
    BY <1>2, <2>1, <2>2
<1>6. \A i \in 1 .. n - 1 : commits'[i].tx \notin Outside
  BY <1>1, <1>2, SMTT(30) DEF EpochInv, n
<1>7. published = (assigned - (n - 1)) + 0 /\ assigned \in Nat /\ published \in Nat /\ locked \in BOOLEAN
  BY <1>1, SMT DEF EpochInv, n
<1>8. locked' \in BOOLEAN /\ (locked' => commits' # <<>>)
  BY <1>3, <1>4, <1>7
<1>9. UNCHANGED <<assigned, published>>
  OBVIOUS
<1>10. QED
  BY <1>2, <1>3, <1>5, <1>6, <1>7, <1>8, <1>9 DEF EpochInv

\* A commit that records no time returns, one that does goes on.
LEMMA RecordCheckEpoch ==
  ASSUME EpochInv, RecordCheck PROVE EpochInv'
<1>1. CASE Head(commits).time # {} /\ on
  BY <1>1 DEF EpochInv, RecordCheck
<1>2. CASE ~(Head(commits).time # {} /\ on)
  BY <1>2, ReturnEpoch DEF RecordCheck
<1>3. QED
  BY <1>1, <1>2

\* An entry after the last of the index, no older than it, keeps it ascending.
LEMMA TimesAppended ==
  ASSUME NEW at \in CommitAt, NEW top \in Nat,
         times \in TimeSeq, TimesAscend,
         \A i \in 1 .. Len(times) : times[i].time <= top,
         times # <<>> => Last(times).epoch < at.epoch /\ Last(times).time <= at.time,
         times' = Append(times, at), lastTime' \in Nat, top <= lastTime', at.time <= lastTime'
  PROVE  /\ times' \in TimeSeq /\ TimesAscend'
         /\ \A i \in 1 .. Len(times') : times'[i].time <= lastTime'
<1> DEFINE n == Len(times)
<1>1. /\ n \in Nat /\ (times = <<>> <=> n = 0) /\ at.epoch \in Nat /\ at.time \in Nat
      /\ \A i \in 1 .. n : times[i].epoch \in Nat /\ times[i].time \in Nat
  BY TimesTyped DEF CommitAt
<1>2. /\ times' \in TimeSeq /\ Len(times') = n + 1 /\ times'[n + 1] = at
      /\ \A i \in 1 .. n : times'[i] = times[i]
  BY AppendProperties, SMT DEF TimeSeq
<1>3. DOMAIN times = 1 .. n /\ DOMAIN times' = 1 .. n + 1
  BY <1>2, LenProperties DEF TimeSeq
<1>4. ASSUME NEW i \in 1 .. n PROVE times[i].epoch < at.epoch /\ times[i].time <= at.time
  <2>1. n \in 1 .. n /\ times # <<>> /\ (i = n \/ i < n)
    BY <1>1, SMT
  <2>2. times[n].epoch < at.epoch /\ times[n].time <= at.time
    BY <2>1 DEF Last
  <2>3. CASE i = n
    BY <2>2, <2>3
  <2>4. \A a, b, c \in Nat : (a < b /\ b < c => a < c) /\ (a <= b /\ b <= c => a <= c)
    BY SMT
  <2>5. CASE i < n
    <3>1. times[i].epoch < times[n].epoch /\ times[i].time <= times[n].time
      BY <1>3, <2>1, <2>5 DEF TimesAscend
    <3>2. /\ times[i].epoch \in Nat /\ times[i].time \in Nat
          /\ times[n].epoch \in Nat /\ times[n].time \in Nat
      BY <1>1, <2>1
    <3>3. QED
      BY <1>1, <2>2, <2>4, <3>1, <3>2
  <2>6. QED
    BY <2>1, <2>3, <2>5
<1> HIDE DEF n
<1>5. TimesAscend'
  BY <1>1, <1>2, <1>3, <1>4, SMTT(30) DEF TimesAscend
<1>6. \A i \in 1 .. n + 1 : times'[i].time <= lastTime'
  BY <1>1, <1>2, SMT DEF n
<1>7. QED
  BY <1>2, <1>5, <1>6

\* Recording a commit's time.
LEMMA RecordTime ==
  ASSUME EpochInv, TimeInv, Record PROVE TimeInv'
<1>1. commits # <<>> /\ Head(commits) \in Commit
  BY HeadTailProperties DEF EpochInv, Record, CommitSeq, TimeSeq
<1> DEFINE epoch == Head(commits).epoch
<1>2. PICK time \in Head(commits).time :
        /\ times' = Recorded(epoch, time)
        /\ lastTime' = Max({lastTime, IF times = <<>> THEN time ELSE Max({time, Last(times).time})})
  BY DEF Record
<1>3. epoch \in Nat /\ time \in Nat
  BY <1>1 DEF Commit
<1>4. UNCHANGED <<clock, retention, setter>>
  BY DEF Record
<1>5. lastTime \in Nat /\ times \in TimeSeq
  BY DEF TimeInv
<1> HIDE DEF epoch
<1>6. CASE times = <<>>
  <2> DEFINE at == [epoch |-> epoch, time |-> time]
  <2>1. at \in CommitAt
    BY <1>3 DEF CommitAt
  <2>2. times' = <<at>> /\ lastTime' \in Nat /\ lastTime <= lastTime' /\ time <= lastTime'
    <3>1. times' = <<at>> /\ lastTime' = Max({lastTime, time})
      BY <1>2, <1>6 DEF Recorded
    <3>2. QED
      BY <1>3, <1>5, <3>1, MaxOfNats
  <2>3. times' = Append(times, at)
    BY <2>2, <1>6, SMT
  <2>4. QED
    BY <1>4, <1>5, <1>6, <2>1, <2>2, <2>3, TimesAppended DEF TimeInv
<1>7. CASE times # <<>>
  <2> DEFINE millis == Max({time, Last(times).time})
             at == [epoch |-> epoch, time |-> millis]
  <2>1. Last(times) \in CommitAt
    BY <1>5, <1>7, TimesTyped, SMT DEF Last
  <2>2. millis \in Nat /\ Last(times).time <= millis
    <3>1. Last(times).time \in Nat
      BY <2>1 DEF CommitAt
    <3>2. QED
      BY <1>3, <3>1, MaxOfNats
  <2>3. lastTime' = Max({lastTime, millis})
    BY <1>2, <1>7
  <2> HIDE DEF millis
  <2>4. lastTime' \in Nat /\ lastTime <= lastTime' /\ millis <= lastTime'
    BY <1>5, <2>2, <2>3, MaxOfNats
  <2>5. CASE Last(times).epoch < epoch
    <3>1. at \in CommitAt
      BY <1>3, <2>2 DEF CommitAt
    <3>2. times' = Append(times, at)
      BY <1>2, <1>7, <2>5 DEF Recorded, millis
    <3>3. QED
      BY <1>4, <1>5, <2>2, <2>4, <2>5, <3>1, <3>2, TimesAppended DEF TimeInv
  <2>6. CASE ~(Last(times).epoch < epoch)
    <3>1. times' = times
      BY <1>2, <1>7, <2>6 DEF Recorded
    <3>2. QED
      BY <1>4, <2>4, <3>1, LaterTime
  <2>7. QED
    BY <2>5, <2>6
<1>8. QED
  BY <1>6, <1>7

\* Switching the retention: the index starts again, or is emptied.
LEMMA SetRetentionTime ==
  ASSUME TimeInv, SetRetention PROVE TimeInv'
<1> DEFINE turnedOn == setter.to # Off /\ retention = Off
           at == [epoch |-> setter.published, time |-> NextTime]
           late == times = <<>> \/ Last(times).epoch < setter.published
<1>1. /\ retention' = setter.to /\ setter' = [setter EXCEPT !.place = "Set"] /\ clock' = clock
      /\ lastTime' = IF turnedOn THEN NextTime ELSE lastTime
      /\ times' = IF turnedOn /\ late THEN Append(times, at)
                  ELSE IF setter.to = Off THEN <<>> ELSE times
  BY DEF SetRetention
<1>2. /\ lastTime \in Nat /\ NextTime \in Nat /\ lastTime <= NextTime /\ times \in TimeSeq
      /\ setter.published \in Nat /\ setter.to \in Retentions /\ clock \in Nat
  BY NextTimeIs DEF TimeInv
<1>3. lastTime' \in Nat /\ lastTime <= lastTime' /\ (turnedOn => NextTime <= lastTime')
  BY <1>1, <1>2, SMT
<1>4. \A i \in 1 .. Len(times) : times[i].time \in Nat /\ times[i].time <= lastTime
  BY <1>2, TimesTyped DEF TimeInv
<1>5. /\ clock' \in Nat /\ retention' \in Retentions
      /\ setter'.published \in Nat /\ setter'.to \in Retentions
      /\ setter' = [place |-> setter'.place, published |-> setter'.published, to |-> setter'.to]
  BY <1>1, <1>2 DEF TimeInv
<1>6. /\ times' \in TimeSeq /\ TimesAscend'
      /\ \A i \in 1 .. Len(times') : times'[i].time <= lastTime'
  <2>1. CASE turnedOn /\ late
    <3>1. at \in CommitAt /\ at.epoch = setter.published /\ at.time = NextTime
      BY <1>2 DEF CommitAt
    <3>2. times' = Append(times, at)
      BY <1>1, <2>1
    <3>3. times # <<>> => Last(times).epoch < at.epoch /\ Last(times).time <= at.time
      <4>1. times # <<>> => Len(times) \in 1 .. Len(times)
        BY <1>2, EmptySeq, SMTT(30) DEF TimeSeq
      <4>2. times # <<>> => Last(times).time <= NextTime
        BY <1>2, <1>4, <4>1, SMT DEF Last
      <4>3. QED
        BY <2>1, <3>1, <4>2
    <3> HIDE DEF at
    <3>4. QED
      BY <1>2, <1>3, <1>4, <2>1, <3>1, <3>2, <3>3, TimesAppended DEF TimeInv
  <2>2. CASE ~(turnedOn /\ late) /\ setter.to = Off
    <3>1. times' = <<>>
      BY <1>1, <2>2
    <3>2. QED
      BY <3>1, EmptySeq, SMT DEF TimesAscend, TimeSeq
  <2>3. CASE ~(turnedOn /\ late) /\ setter.to # Off
    <3>1. times' = times
      BY <1>1, <2>3
    <3>2. TimesAscend'
      BY <3>1 DEF TimeInv, TimesAscend
    <3>3. QED
      BY <1>2, <1>3, <1>4, <3>1, <3>2, SMTT(30)
  <2>4. QED
    BY <2>1, <2>2, <2>3
<1>7. QED
  BY <1>3, <1>5, <1>6 DEF TimeInv

\* A collect drops times from the front.
LEMMA CollectedAtTime ==
  ASSUME TimeInv, CollectedAt PROVE TimeInv'
<1>1. UNCHANGED <<clock, retention, lastTime, setter>>
  BY DEF CollectedAt
<1>2. PICK horizon \in collecting : times' = IF on /\ horizon > floor THEN KeptTimes(horizon) ELSE times
  BY DEF CollectedAt
<1>3. CASE times' = times
  BY <1>1, <1>3, TimeFrame
<1>4. CASE times' = KeptTimes(horizon)
  <2> DEFINE n == Len(times)
             upTo == Cardinality({i \in DOMAIN times : times[i].epoch <= horizon})
             m == Max({upTo, 1})
  <2>1. n \in Nat /\ DOMAIN times = 1 .. n /\ \A i \in 1 .. n : times[i] \in CommitAt
    BY LenProperties, ElementOfSeq DEF TimeInv, TimeSeq
  <2>2. upTo \in Nat
    <3>1. IsFiniteSet(1 .. n)
      BY <2>1, FS_Interval, SMT
    <3>2. IsFiniteSet({i \in DOMAIN times : times[i].epoch <= horizon})
      BY <2>1, <3>1, FS_Subset
    <3>3. QED
      BY <3>2, FS_CardinalityType
  <2> HIDE DEF upTo
  <2>3. m \in Nat /\ m >= 1
    BY <2>2, MaxPair, SMTT(30)
  <2>4. times' = SubSeq(times, m, n)
    BY <1>4 DEF KeptTimes, upTo
  <2> HIDE DEF m, n
  <2>5. /\ times' \in TimeSeq /\ Len(times') = IF m <= n THEN (n - m) + 1 ELSE 0
        /\ \A i \in 1 .. (n - m) + 1 : times'[i] = times[(m + i) - 1]
    BY <2>1, <2>3, <2>4, SubSeqProperties, SMTT(30) DEF TimeSeq
  <2>6. \A i \in 1 .. Len(times') : times'[i] = times[(m + i) - 1] /\ (m + i) - 1 \in 1 .. n
    BY <2>1, <2>3, <2>5, SMT
  <2>7. DOMAIN times' = 1 .. Len(times')
    BY <2>5, LenProperties DEF TimeSeq
  <2>8. TimesAscend'
    <3>1. \A i,
    j \in 1 .. n : i < j => times[i].epoch < times[j].epoch /\ times[i].time <= times[j].time
      BY <2>1 DEF TimeInv, TimesAscend
    <3>2. ASSUME NEW i \in 1 .. Len(times'), NEW j \in 1 .. Len(times'), i < j
          PROVE  times'[i].epoch < times'[j].epoch /\ times'[i].time <= times'[j].time
      <4>1. (m + i) - 1 < (m + j) - 1
        BY <2>3, <3>2, SMT
      <4>2. QED
        BY <2>6, <3>1, <4>1
    <3>3. QED
      BY <2>7, <3>2 DEF TimesAscend
  <2>9. \A i \in 1 .. Len(times') : times'[i].time <= lastTime
    BY <2>6 DEF TimeInv, n
  <2>10. QED
    BY <1>1, <2>5, <2>8, <2>9 DEF TimeInv
<1>5. QED
  BY <1>2, <1>3, <1>4

\* Every step keeps the epochs and the times in order.
LEMMA NextEpochTime ==
  ASSUME EpochInv, TimeInv, [Next]_vars
  PROVE  EpochInv' /\ TimeInv'
<1>1. CASE UNCHANGED vars
  BY <1>1, EpochFrame, TimeFrame DEF vars, history
<1>2. ASSUME NEW r \in Reader, StartCommit(r) PROVE EpochInv' /\ TimeInv'
  BY <1>2, NextTimeIs, ReaderAssumption, TakeEpochEpoch, TakeEpochTime DEF StartCommit, Outside
<1>3. CASE DirectWrite
  BY <1>3, NextTimeIs, TakeEpochEpoch, TakeEpochTime DEF DirectWrite, Outside
<1>4. CASE Import
  BY <1>4, TakeEpochEpoch, TakeEpochTime DEF Import, Outside
<1>5. CASE Written
  BY <1>5, WrittenEpoch, TimeFrame DEF Written, history
<1>6. CASE TakeBack
  BY <1>6, TakeBackEpoch, TimeFrame DEF TakeBack, history
<1>7. CASE ReleaseSnapshot
  BY <1>7, ReleaseSnapshotEpoch, TimeFrame DEF ReleaseSnapshot, history
<1>8. CASE PublishEpoch
  BY <1>8, PublishEpochEpoch, TimeFrame DEF PublishEpoch, history
<1>9. CASE RecordCheck
  BY <1>9, RecordCheckEpoch, TimeFrame DEF RecordCheck, history
<1>10. CASE Record
  BY <1>10, ReturnEpoch, RecordTime DEF Record
<1>11. CASE SetRetention
  BY <1>11, EpochFrame, SetRetentionTime DEF SetRetention
<1>12. CASE CollectedAt
  BY <1>12, EpochFrame, CollectedAtTime DEF CollectedAt
<1>13. ASSUME NEW now \in Clock, Tick(now) PROVE EpochInv' /\ TimeInv'
  <2>1. EpochInv'
    BY <1>13, EpochFrame DEF Tick
  <2>2. now \in Nat
    BY BoundsAssumption, SMT DEF Clock
  <2>3. QED
    BY <1>13, <2>1, <2>2 DEF Tick, history, TimeInv, TimesAscend
<1>14. ASSUME NEW to \in Retentions, LoadPublished(to) PROVE EpochInv' /\ TimeInv'
  <2>1. EpochInv'
    BY <1>14, EpochFrame DEF LoadPublished
  <2>2. QED
    BY <1>14, <2>1 DEF LoadPublished, history, EpochInv, TimeInv, TimesAscend
<1>15. CASE SwitchHistory
  <2>1. EpochInv'
    BY <1>15, EpochFrame DEF SwitchHistory
  <2>2. QED
    BY <1>15, <2>1 DEF SwitchHistory, TimeInv, TimesAscend, Retentions
<1>16. CASE UNCHANGED <<epochs, clock, history, setter>>
  BY <1>16, EpochFrame, TimeFrame DEF history
<1>17. QED
  BY <1>1, <1>2, <1>3, <1>4, <1>5, <1>6, <1>7, <1>8, <1>9, <1>10, <1>11, <1>12, <1>13, <1>14,
     <1>15, <1>16 DEF Next, Begin, PinRead, PinReadAt, Again, Release, CollectHorizon
----------------------------------------------------------------------------
(* The readers *)

\* A reader's epoch is one, and published.
LEMMA ReadIs ==
  ASSUME PinInv, NEW r \in Reader, NEW e \in reads[r]
  PROVE  reads[r] = {e} /\ e \in Nat /\ e <= published /\ Readers[e] # 0
<1>1. reads[r] = {e} /\ e \in Nat /\ e <= published
  BY DEF PinInv
<1>2. QED
  BY <1>1, ReadersCount

\* Where a step leaves the pins alone and publishes at most one epoch more.
LEMMA PinFrame ==
  ASSUME PinInv, UNCHANGED <<pins, reads>>, published \in Nat, published' \in Nat,
         published <= published'
  PROVE  PinInv'
<1>1. Readers' = Readers
  BY DEF Readers
<1>2. \A r \in Reader : reads'[r] = {} \/ \E e \in Nat : reads'[r] = {e} /\ e <= published'
  BY SMT DEF PinInv
<1>3. QED
  BY <1>1, <1>2 DEF PinInv

\* A reader pins an epoch.
LEMMA PinHeld ==
  ASSUME PinInv, NEW r \in Reader, reads[r] = {}, NEW e \in Nat, e <= published,
         published \in Nat, published' = published,
         pins' = HoldAt(e) \/ (e = published /\ pins' = HoldPublished),
         reads' = [reads EXCEPT ![r] = {e}]
  PROVE  PinInv'
<1>1. Readers \in Counts /\ \A x \in Nat : Readers[x] # 0 => x <= published
  <2>1. ASSUME NEW x \in Nat, Readers[x] # 0 PROVE x <= published
    <3>1. PICK s \in Reader : reads[s] = {x}
      BY <2>1, ReadersCount
    <3>2. QED
      BY <3>1, ReadIs
  <2>2. QED
    BY <2>1, ReadersCount
<1>2. pins \in PinSeq /\ PinsMatch(pins, Readers) /\ reads \in [Reader -> SUBSET Nat]
  BY DEF PinInv
<1>3. Readers' = [Readers EXCEPT ![e] = @ + 1]
  BY <1>2, ReaderBegins
<1>4. pins' \in PinSeq /\ PinsMatch(pins', [Readers EXCEPT ![e] = @ + 1])
  BY <1>1, <1>2, HoldAtMatches, HoldPublishedMatches
<1>5. reads' \in [Reader -> SUBSET Nat]
  BY <1>2
<1>6. \A s \in Reader : reads'[s] = {} \/ \E x \in Nat : reads'[s] = {x} /\ x <= published'
  BY <1>2 DEF PinInv
<1>7. QED
  BY <1>3, <1>4, <1>5, <1>6 DEF PinInv

\* A reader drops its pin.
LEMMA PinDropped ==
  ASSUME PinInv, NEW r \in Reader, NEW e \in reads[r], published' = published,
         pins' = Released(e), reads' = [reads EXCEPT ![r] = {}]
  PROVE  PinInv'
<1>1. reads[r] = {e} /\ e \in Nat /\ Readers[e] # 0 /\ Readers \in Counts
  BY ReadIs, ReadersCount
<1>2. pins \in PinSeq /\ PinsMatch(pins, Readers) /\ reads \in [Reader -> SUBSET Nat]
  BY DEF PinInv
<1>3. Readers' = [Readers EXCEPT ![e] = @ - 1]
  BY <1>1, <1>2, ReaderEnds
<1>4. pins' \in PinSeq /\ PinsMatch(pins', [Readers EXCEPT ![e] = @ - 1])
  BY <1>1, <1>2, ReleasedMatches
<1>5. reads' \in [Reader -> SUBSET Nat]
  BY <1>2
<1>6. \A s \in Reader : reads'[s] = {} \/ \E x \in Nat : reads'[s] = {x} /\ x <= published'
  BY <1>2 DEF PinInv
<1>7. QED
  BY <1>3, <1>4, <1>5, <1>6 DEF PinInv

\* Where a step changes neither readers nor horizons, or drops readers.
LEMMA FloorFrame ==
  ASSUME FloorInv, UNCHANGED <<floor, collected, collecting>>,
         published \in Nat, published' \in Nat, published <= published',
         \A r \in Reader : reads'[r] \subseteq reads[r]
  PROVE  FloorInv'
BY SMT DEF FloorInv, ReadersKept

\* A reader that pins at or after the floor, while no collect runs, is kept.
LEMMA FloorHeld ==
  ASSUME FloorInv, PinInv, PinsFree, NEW r \in Reader, NEW e \in Nat, collected <= e,
         UNCHANGED <<floor, collected, collecting, published>>,
         reads' = [reads EXCEPT ![r] = {e}]
  PROVE  FloorInv'
<1>1. reads \in [Reader -> SUBSET Nat]
  BY DEF PinInv
<1>2. QED
  BY <1>1 DEF FloorInv, ReadersKept, PinsFree

\* The commit in its turn is a transaction's when it releases a snapshot.
LEMMA HeadIsReader ==
  ASSUME EpochInv, ReleaseSnapshot PROVE Head(commits).tx \in Reader
<1>1. Len(commits) \in Nat \ {0}
  BY EmptySeq DEF EpochInv, ReleaseSnapshot, CommitSeq
<1>2. Head(commits) = commits[1] /\ commits[1] \in Commit
  BY <1>1, HeadTailProperties, ElementOfSeq, SMTT(30) DEF EpochInv, ReleaseSnapshot, CommitSeq
<1>3. commits[1].tx \notin Outside
  BY <1>1, SMTT(30) DEF EpochInv, ReleaseSnapshot
<1>4. QED
  BY <1>2, <1>3 DEF Commit

\* The horizon of a collect is at or before every reader and the published epoch.
LEMMA CollectAtIs ==
  ASSUME EpochInv, TimeInv, PinInv, floor \in Nat
  PROVE  /\ CollectAt \in Nat /\ CollectAt <= published
         /\ \A r \in Reader : \A e \in reads[r] : CollectAt <= e
<1>1. published \in Nat /\ pins \in PinSeq /\ PinsMatch(pins, Readers)
  BY DEF EpochInv, PinInv
<1>2. /\ Horizon \in Nat /\ Horizon <= published
      /\ \A r \in Reader : \A e \in reads[r] : Horizon <= e
  <2>1. CASE pins = <<>>
    <3>1. \A e \in Nat : Readers[e] = 0
      BY <1>1, <2>1, EmptySeq, SMTT(30) DEF PinsMatch, PinSeq
    <3>2. QED
      BY <1>1, <2>1, <3>1, ReadIs, SMTT(30) DEF Horizon
  <2>2. CASE pins # <<>>
    <3>1. Len(pins) \in Nat \ {0} /\ \A i \in 1 .. Len(pins) : pins[i] \in Pin
      BY <1>1, <2>2, EmptySeq, ElementOfSeq DEF PinSeq
    <3>2. pins[1].epoch \in Nat
      BY <3>1, SMTT(30) DEF Pin
    <3>3. Horizon \in Nat /\ Horizon <= published /\ Horizon <= pins[1].epoch
      BY <1>1, <2>2, <3>2, MinPair, SMTT(30) DEF Horizon
    <3>4. ASSUME NEW r \in Reader, NEW e \in reads[r] PROVE pins[1].epoch <= e
      <4>1. e \in Nat /\ Readers[e] # 0
        BY <3>4, ReadIs
      <4>2. PICK i \in 1 .. Len(pins) : pins[i].epoch = e
        BY <1>1, <4>1 DEF PinsMatch
      <4>3. QED
        BY <1>1, <3>1, <3>2, <4>1, <4>2, SMTT(30) DEF PinsMatch
    <3>5. \A r \in Reader : \A e \in reads[r] : e \in Nat
      BY ReadIs
    <3>6. QED
      BY <3>2, <3>3, <3>4, <3>5, SMTT(30)
  <2>3. QED
    BY <2>1, <2>2
<1>3. RetentionHorizon = {} \/ \E x \in Nat : RetentionHorizon = {x}
  <2> DEFINE start == Max({0, clock - retention.window})
             up == UpTo(start)
  <2>1. up \in Nat /\ up <= Len(times)
    <3>1. DOMAIN times = 1 .. Len(times) /\ Len(times) \in Nat
      BY LenProperties DEF TimeInv, TimeSeq
    <3>2. IsFiniteSet(1 .. Len(times)) /\ Cardinality(1 .. Len(times)) = Len(times)
      BY <3>1, UpToCount
    <3>3. {i \in DOMAIN times : times[i].time <= start} \in SUBSET (1 .. Len(times))
      BY <3>1
    <3>4. QED
      BY <3>1, <3>2, <3>3, FS_Subset, FS_CardinalityType, SMTT(30) DEF UpTo
  <2> HIDE DEF up
  <2>2. up # 0 => Max({floor, times[up].epoch}) \in Nat
    <3>1. up # 0 => times[up] \in CommitAt
      BY <2>1, TimesTyped, SMT DEF TimeInv
    <3>2. \A at \in CommitAt : at.epoch \in Nat
      BY DEF CommitAt
    <3>3. QED
      BY <3>1, <3>2, MaxOfNats
  <2>3. \/ RetentionHorizon = {} \/ RetentionHorizon = {floor}
        \/ up # 0 /\ RetentionHorizon = {Max({floor, times[up].epoch})}
    BY DEF RetentionHorizon, up
  <2>4. QED
    BY <2>2, <2>3
<1>4. CASE RetentionHorizon = {}
  <2>1. {Horizon} \cup RetentionHorizon = {Horizon, Horizon}
    BY <1>4
  <2>2. CollectAt = Horizon
    BY <1>2, <2>1, MinPair, SMTT(30) DEF CollectAt
  <2>3. QED
    BY <1>2, <2>2
<1>5. ASSUME NEW x \in Nat, RetentionHorizon = {x} PROVE CollectAt \in Nat /\ CollectAt <= Horizon
  <2>1. {Horizon} \cup RetentionHorizon = {Horizon, x}
    BY <1>5
  <2>2. QED
    BY <1>2, <2>1, MinPair, SMT DEF CollectAt
<1>6. \A r \in Reader : \A e \in reads[r] : e \in Nat
  BY ReadIs
<1>7. QED
  BY <1>1, <1>2, <1>3, <1>4, <1>5, <1>6, SMTT(30)

\* Every step keeps the pins exact and the horizons behind the readers.
LEMMA NextPinFloor ==
  ASSUME EpochInv, EpochInv', TimeInv, PinInv, FloorInv, [Next]_vars
  PROVE  PinInv' /\ FloorInv'
<1>1. published \in Nat /\ published' \in Nat
  BY DEF EpochInv
<1>2. /\ floor \in Nat /\ collected \in Nat /\ collected <= floor /\ floor <= published
      /\ reads \in [Reader -> SUBSET Nat]
  BY DEF FloorInv, PinInv
<1>3. CASE UNCHANGED <<pins, reads, published, floor, collects>>
  BY <1>1, <1>3, PinFrame, FloorFrame, SMTT(30) DEF collects
<1>4. ASSUME NEW r \in Reader, Begin(r) \/ PinRead(r) PROVE PinInv' /\ FloorInv'
  <2>1. /\ reads[r] = {} /\ PinsFree /\ pins' = HoldPublished
        /\ reads' = [reads EXCEPT ![r] = {published}]
        /\ UNCHANGED <<published, floor, collected, collecting>>
    BY <1>4 DEF Begin, PinRead, epochs, history, collects
  <2>2. published <= published /\ collected <= published
    BY <1>1, <1>2, SMTT(30)
  <2>3. PinInv'
    BY <1>1, <2>1, <2>2, PinHeld
  <2>4. FloorInv'
    BY <1>1, <2>1, <2>2, FloorHeld
  <2>5. QED
    BY <2>3, <2>4
<1>5. ASSUME NEW r \in Reader, NEW epoch \in Epochs, PinReadAt(r, epoch) PROVE PinInv' /\ FloorInv'
  <2> DEFINE at == Min({epoch, published})
  <2>1. epoch \in Nat /\ epoch >= floor
    BY <1>5, BoundsAssumption, SMTT(30) DEF PinReadAt, Epochs
  <2>2. at \in Nat /\ at <= published /\ collected <= at
    BY <1>1, <1>2, <2>1, MinPair, SMT
  <2>3. /\ reads[r] = {} /\ PinsFree /\ pins' = HoldAt(at)
        /\ reads' = [reads EXCEPT ![r] = {at}]
        /\ UNCHANGED <<published, floor, collected, collecting>>
    BY <1>5 DEF PinReadAt, epochs, history, collects
  <2> HIDE DEF at
  <2>4. QED
    BY <1>1, <2>2, <2>3, PinHeld, FloorHeld
<1>6. ASSUME NEW r \in Reader, NEW other \in Reader, Again(r, other) PROVE PinInv' /\ FloorInv'
  <2>1. PICK e \in reads[r] : pins' = HoldAt(e)
    BY <1>6 DEF Again
  <2>2. reads[r] = {e} /\ e \in Nat /\ e <= published
    BY ReadIs
  <2>3. /\ reads[other] = {} /\ PinsFree /\ reads' = [reads EXCEPT ![other] = {e}]
        /\ UNCHANGED <<published, floor, collected, collecting>>
    BY <1>6, <2>2 DEF Again, epochs, history, collects
  <2>4. collected <= e
    BY DEF FloorInv, ReadersKept
  <2>5. QED
    BY <1>1, <2>1, <2>2, <2>3, <2>4, PinHeld, FloorHeld
<1>7. ASSUME NEW r \in Reader, NEW e \in reads[r], pins' = Released(e),
             reads' = [reads EXCEPT ![r] = {}], UNCHANGED <<published, floor, collected,
             collecting>>
      PROVE  PinInv' /\ FloorInv'
  <2>1. \A s \in Reader : reads'[s] \subseteq reads[s]
    BY <1>2, <1>7
  <2>2. published <= published' /\ published' = published
    BY <1>1, <1>7, SMT
  <2>3. PinInv'
    BY <1>7, <2>2, PinDropped
  <2>4. FloorInv'
    BY <1>1, <1>7, <2>1, <2>2, FloorFrame
  <2>5. QED
    BY <2>3, <2>4
<1>8. ASSUME NEW r \in Reader, Release(r) PROVE PinInv' /\ FloorInv'
  BY <1>7, <1>8 DEF Release, epochs, history, collects
<1>9. CASE ReleaseSnapshot
  BY <1>7, <1>9, HeadIsReader DEF ReleaseSnapshot, history, collects
<1>10. CASE PublishEpoch
  <2>1. published <= published'
    BY <1>1, <1>10, PublishEpochEpoch, SMT
  <2>2. UNCHANGED <<pins, reads, floor, collected, collecting>>
    BY <1>10 DEF PublishEpoch, readers, history, collects
  <2>3. QED
    BY <1>1, <2>1, <2>2, PinFrame, FloorFrame
<1>11. CASE CollectHorizon
  <2>1. collecting' = {CollectAt} /\ UNCHANGED <<pins, reads, published, floor, collected>>
    BY <1>11 DEF CollectHorizon, epochs, readers, history
  <2>2. PinInv'
    BY <1>1, <2>1, PinFrame, SMTT(30)
  <2>3. FloorInv'
    BY <1>2, <2>1, CollectAtIs DEF FloorInv, ReadersKept
  <2>4. QED
    BY <2>2, <2>3
<1>12. CASE CollectedAt
  <2>1. PICK horizon \in collecting : floor' = Max({floor,
  horizon}) /\ collected' = Max({collected, horizon})
    BY <1>12 DEF CollectedAt
  <2>2. collecting' = {} /\ UNCHANGED <<pins, reads, published>>
    BY <1>12 DEF CollectedAt, epochs, readers
  <2>3. horizon \in Nat /\ horizon <= published
    BY DEF FloorInv
  <2>4. /\ floor' = IF floor >= horizon THEN floor ELSE horizon
        /\ collected' = IF collected >= horizon THEN collected ELSE horizon
    BY <1>2, <2>1, <2>3, MaxPair, SMTT(30)
  <2>5. PinInv'
    BY <1>1, <2>2, PinFrame, SMTT(30)
  <2>6. ReadersKept'
    BY <2>2, <2>4 DEF FloorInv, ReadersKept
  <2>7. QED
    BY <1>1, <1>2, <2>2, <2>3, <2>4, <2>5, <2>6, SMTT(30) DEF FloorInv
<1>13. QED
  BY <1>3, <1>4, <1>5, <1>6, <1>8, <1>9, <1>10, <1>11, <1>12
     DEF Next, vars, epochs, readers, history, Tick, StartCommit, DirectWrite, Import, TakeEpoch,
         Written, TakeBack, RecordCheck, Record, Return, LoadPublished, SetRetention, SwitchHistory

\* The invariant holds of a new database, which nobody reads.
LEMMA InitPinFloor ==
  ASSUME Init PROVE PinInv /\ FloorInv
<1>1. pins = <<>> /\ reads = [r \in Reader |-> {}] /\ published = 0 /\ floor = 0 /\ collected = 0
      /\ collecting = {}
  BY DEF Init
<1>2. \A e \in Nat : Readers[e] = 0
  BY <1>1, ReadersCount
<1>3. PinInv
  BY <1>1, <1>2, EmptySeq, SMTT(30) DEF PinInv, PinsMatch, PinSeq
<1>4. FloorInv
  BY <1>1, SMT DEF FloorInv, ReadersKept
<1>5. QED
  BY <1>3, <1>4

\* In every reachable state the four invariants hold.
THEOREM HorizonInvariant == Spec => [](EpochInv /\ TimeInv /\ PinInv /\ FloorInv)
<1>1. Init => EpochInv /\ TimeInv /\ PinInv /\ FloorInv
  BY InitEpochTime, InitPinFloor
<1>2. EpochInv /\ TimeInv /\ PinInv /\ FloorInv /\ [Next]_vars
        => EpochInv' /\ TimeInv' /\ PinInv' /\ FloorInv'
  BY NextEpochTime, NextPinFloor
<1>3. QED
  BY <1>1, <1>2, PTL DEF Spec
----------------------------------------------------------------------------
(* What the code promises *)

\* No collect ever passes a reader, however commits, pins at past epochs,
\* changes of the retention and collects interleave (collect_horizon,
\* pin_read_at).
THEOREM CollectsSpareReaders == Spec => []ReadersKept
<1>1. FloorInv => ReadersKept
  BY DEF FloorInv
<1>2. QED
  BY <1>1, HorizonInvariant, PTL

\* The deque of pins always counts the readers of each epoch, in order
\* (hold_published, hold_at, release).
THEOREM PinsExact == Spec => []PinsCountReaders
<1>1. ASSUME PinInv PROVE PinsCountReaders
  <2>1. /\ DOMAIN pins = 1 .. Len(pins) /\ \A i \in 1 .. Len(pins) : pins[i] \in Pin
        /\ PinsMatch(pins, Readers) /\ Readers \in Counts
    BY <1>1, LenProperties, ElementOfSeq, ReadersCount DEF PinInv, PinSeq
  <2>2. \A i, j \in DOMAIN pins : i < j => pins[i].epoch < pins[j].epoch
    BY <2>1 DEF PinsMatch
  <2>3. ASSUME NEW epoch \in Epochs
        PROVE  IF Readers[epoch] = 0 THEN ~IsPinned(epoch)
               ELSE \E i \in DOMAIN pins : pins[i] = [epoch |-> epoch, readers |-> Readers[epoch]]
    <3>1. epoch \in Nat
      BY BoundsAssumption, SMT DEF Epochs
    <3>2. CASE Readers[epoch] = 0
      BY <2>1, <3>1, <3>2 DEF PinsMatch, IsPinned
    <3>3. CASE Readers[epoch] # 0
      <4>1. PICK i \in 1 .. Len(pins) : pins[i].epoch = epoch
        BY <2>1, <3>1, <3>3 DEF PinsMatch
      <4>2. pins[i].readers = Readers[epoch] /\ pins[i] \in Pin
        BY <2>1, <4>1 DEF PinsMatch
      <4>3. pins[i] = [epoch |-> epoch, readers |-> Readers[epoch]]
        BY <4>1, <4>2 DEF Pin
      <4>4. QED
        BY <2>1, <3>3, <4>3
    <3>4. QED
      BY <3>2, <3>3
  <2>4. \A epoch \in Epochs : Readers[epoch] = Cardinality({r \in Reader : reads[r] = {epoch}})
    BY BoundsAssumption, SMT DEF Readers, Epochs
  <2>5. QED
    BY <2>2, <2>3, <2>4 DEF PinsCountReaders
<1>2. QED
  BY <1>1, HorizonInvariant, PTL

\* The index of commit times can always be searched, whatever the clock does
\* (History::record, set_retention, collected_at).
THEOREM TimesSearchable == Spec => []TimesAscend
<1>1. TimeInv => TimesAscend
  BY DEF TimeInv
<1>2. QED
  BY <1>1, HorizonInvariant, PTL
=============================================================================
