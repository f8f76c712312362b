---------------------------- MODULE ReadHorizon ----------------------------
(***************************************************************************)
(* What keeps old versions readable: the pins of the readers, the history  *)
(* retention with its index of commit times, and the horizon that garbage  *)
(* collection runs at (grafeo-engine transaction/manager.rs: ReadPins,     *)
(* collect_horizon; transaction/history.rs; database/collect.rs).          *)
(*                                                                         *)
(* An action is one hold of the pins' lock or of the history's locks, or   *)
(* one atomic store: commits publish, record their times, are collected    *)
(* and have the retention changed under them in any order the locks allow. *)
(* Commits are reduced to their epochs and times; a commit that fails is   *)
(* in module TransactionManager, what the stores keep in UpdateChain.      *)
(***************************************************************************)
EXTENDS Integers, FiniteSetsExt, Sequences

CONSTANTS
    Reader,     \* transactions, statements and views that read
    Windows,    \* the retention windows that may be set
    Imports,    \* whether imports write
    EpochMax,   \* bound on the epochs
    ClockMax    \* bound on the clock

ASSUME ReaderAssumption == IsFiniteSet(Reader) /\ Reader \cap {"Direct", "Import"} = {}
ASSUME WindowsAssumption == Windows \subseteq Nat
ASSUME BoundsAssumption == EpochMax \in Nat /\ ClockMax \in Nat /\ Imports \in BOOLEAN

VARIABLES
    clock,                  \* the wall clock, which may go back
    assigned, published,    \* assigned_epoch, published_epoch
    commits,                \* the commits in progress, by epoch
    locked,                 \* whether the newest of them holds the commit lock
    turn,                   \* how far the first of them has published
    pins,                   \* ReadPins::epochs
    reads,                  \* the epoch each reader pinned, if any
    open,                   \* the readers that are transactions
    on, retention, times, lastTime, floor,      \* the fields of History
    setter,                 \* a call of set_retention
    collecting,             \* the horizon of a collect_horizon under the lock
    collected,              \* the newest horizon the stores were told to collect at
    maxClock,               \* history: the latest time of the clock
    recorded                \* history: the times recorded under this retention

history == <<on, retention, times, lastTime, floor>>
readers == <<pins, reads, open>>
epochs == <<assigned, published, commits, locked, turn>>
collects == <<collecting, collected>>
ghosts == <<maxClock, recorded>>
vars == <<clock, epochs, readers, history, setter, collects, ghosts>>

\* HistoryRetention
Off == [kind |-> "Off", window |-> 0]
Forever == [kind |-> "Forever", window |-> 0]
Duration(window) == [kind |-> "Duration", window |-> window]
Retentions == {Off, Forever} \cup {Duration(w) : w \in Windows}

Epochs == 0 .. EpochMax
Clock == 0 .. ClockMax

\* Who writes an epoch without a transaction.
Outside == {"Direct", "Import"}

\* An optional value is a set of at most one member.
Option(S) == {s \in SUBSET S : Cardinality(s) <= 1}

TypeOK ==
    /\ {clock, lastTime, maxClock} \subseteq Clock
    /\ {assigned, published, floor, collected} \subseteq Epochs
    /\ floor <= published /\ published <= assigned
    /\ \A i \in DOMAIN commits :
         commits[i] \in [tx : Reader \cup Outside, epoch : Epochs, time : Option(Clock)]
    /\ turn \in {"Waits", "Released", "Published", "Records"}
    /\ \A i \in DOMAIN pins : pins[i] \in [epoch : Epochs, readers : Nat \ {0}]
    /\ reads \in [Reader -> Option(Epochs)] /\ open \subseteq Reader
    /\ {on, locked} \subseteq BOOLEAN /\ retention \in Retentions
    /\ \A i \in DOMAIN times : times[i] \in [epoch : Epochs, time : Clock]
    /\ setter \in [place : {"Idle", "Loaded", "Set"}, published : Epochs, to : Retentions]
    /\ collecting \in Option(Epochs)

\* A new database: History::anchor records the epoch it starts at.
Init ==
    /\ clock = 0 /\ assigned = 0 /\ published = 0
    /\ commits = <<>> /\ locked = FALSE /\ turn = "Waits"
    /\ pins = <<>> /\ reads = [r \in Reader |-> {}] /\ open = {}
    /\ retention \in Retentions /\ on = (retention # Off)
    /\ times = IF on THEN <<[epoch |-> 0, time |-> 0]>> ELSE <<>>
    /\ lastTime = 0 /\ floor = 0
    /\ setter = [place |-> "Idle", published |-> 0, to |-> Off]
    /\ collecting = {} /\ collected = 0
    /\ maxClock = 0 /\ recorded = [e \in {} |-> 0]

----------------------------------------------------------------------------
(* VecDeque's back, insert and remove. They are operators of SequencesExt, *)
(* stated here because that module (with Bags and TLC, which it extends)   *)
(* would burden every obligation of the proofs.                            *)

Last(s) == s[Len(s)]
InsertAt(s, i, x) == SubSeq(s, 1, i - 1) \o <<x>> \o SubSeq(s, i, Len(s))
RemoveAt(s, i) == SubSeq(s, 1, i - 1) \o SubSeq(s, i + 1, Len(s))

----------------------------------------------------------------------------
(* The pins *)

\* ReadPins::hold_published
HoldPublished ==
    LET n == Len(pins) IN
    IF n > 0 /\ pins[n].epoch = published THEN [pins EXCEPT ![n].readers = @ + 1]
    ELSE Append(pins, [epoch |-> published, readers |-> 1])

\* How many pins lie before an epoch: where the binary search ends.
Before(epoch) == Cardinality({i \in DOMAIN pins : pins[i].epoch < epoch})
IsPinned(epoch) == \E i \in DOMAIN pins : pins[i].epoch = epoch

\* Mutant: a new epoch always goes at the back.
HoldAtBack(epoch) ==
    IF IsPinned(epoch) THEN [pins EXCEPT ![Before(epoch) + 1].readers = @ + 1]
    ELSE Append(pins, [epoch |-> epoch, readers |-> 1])

\* ReadPins::hold_at
HoldAt(epoch) ==
    LET i == Before(epoch) + 1 IN
    IF IsPinned(epoch) THEN [pins EXCEPT ![i].readers = @ + 1]
    ELSE InsertAt(pins, i, [epoch |-> epoch, readers |-> 1])

\* ReadPins::release
Released(epoch) ==
    LET i == Before(epoch) + 1 IN
    IF ~IsPinned(epoch) THEN pins
    ELSE IF pins[i].readers = 1 THEN RemoveAt(pins, i)
    ELSE [pins EXCEPT ![i].readers = @ - 1]

\* collect_horizon holds the pins' lock while it moves the floor.
PinsFree == collecting = {}

\* complete_with holds the transactions' lock from the release to the publish.
TransactionsFree == turn # "Released"
IsCommitting(tx) == \E i \in DOMAIN commits : commits[i].tx = tx

\* TransactionManager::register (a transaction, which waits while a direct
\* call writes) and pin_read (a statement)
Begin(r) ==
    /\ reads[r] = {} /\ PinsFree /\ TransactionsFree /\ ~IsCommitting("Direct")
    /\ pins' = HoldPublished
    /\ reads' = [reads EXCEPT ![r] = {published}]
    /\ open' = open \cup {r}
    /\ UNCHANGED <<clock, epochs, history, setter, collects, ghosts>>

PinRead(r) ==
    /\ reads[r] = {} /\ PinsFree
    /\ pins' = HoldPublished
    /\ reads' = [reads EXCEPT ![r] = {published}]
    /\ UNCHANGED <<clock, epochs, open, history, setter, collects, ghosts>>

\* TransactionManager::pin_read_at: refused below the floor; an epoch to come
\* reads at the published one.
PinReadAt(r, epoch) ==
    /\ reads[r] = {} /\ PinsFree /\ epoch >= floor
    /\ LET at == Min({epoch, published})
       IN  pins' = HoldAt(at) /\ reads' = [reads EXCEPT ![r] = {at}]
    /\ UNCHANGED <<clock, epochs, open, history, setter, collects, ghosts>>

\* ReadPin::again
Again(r, other) ==
    /\ reads[r] # {} /\ r \notin open /\ reads[other] = {} /\ PinsFree
    /\ \E epoch \in reads[r] : pins' = HoldAt(epoch)
    /\ reads' = [reads EXCEPT ![other] = reads[r]]
    /\ UNCHANGED <<clock, epochs, open, history, setter, collects, ghosts>>

\* The drop of a ReadPin, or the abort of a transaction.
Release(r) ==
    /\ reads[r] # {} /\ PinsFree
    /\ r \in open => TransactionsFree /\ ~IsCommitting(r)
    /\ \E epoch \in reads[r] : pins' = Released(epoch)
    /\ reads' = [reads EXCEPT ![r] = {}] /\ open' = open \ {r}
    /\ UNCHANGED <<clock, epochs, history, setter, collects, ghosts>>

----------------------------------------------------------------------------
(* Commits and their times *)

Tick(now) ==
    /\ now # clock
    /\ clock' = now /\ maxClock' = Max({maxClock, now})
    /\ UNCHANGED <<epochs, readers, history, setter, collects, recorded>>

\* History::next_time, called as a commit takes its epoch.
NextTime == Max({lastTime, clock})

\* The newest commit holds the commit lock: a transaction's until it is in the
\* log, a direct call's (which found no transaction open) and an import's, which
\* first wait for every other to publish, until it is done. An import takes no
\* time.
TakeEpoch(tx, time) ==
    /\ ~locked /\ assigned < EpochMax
    /\ assigned' = assigned + 1 /\ locked' = TRUE
    /\ commits' = Append(commits, [tx |-> tx, epoch |-> assigned + 1, time |-> time])
    /\ lastTime' = Max({lastTime} \cup time)
    /\ UNCHANGED <<clock, published, turn, readers, on, retention, times, floor, setter,
                   collects, ghosts>>

\* History::commit_time
CommitTime == IF on THEN {NextTime} ELSE {}

StartCommit(r) ==
    r \in open /\ TransactionsFree /\ ~IsCommitting(r) /\ TakeEpoch(r, CommitTime)
DirectWrite == commits = <<>> /\ open = {} /\ TakeEpoch("Direct", CommitTime)
Import == Imports /\ commits = <<>> /\ TakeEpoch("Import", {})

\* CommitGuard::written
Written ==
    /\ locked /\ Last(commits).tx \in Reader
    /\ locked' = FALSE
    /\ UNCHANGED <<clock, assigned, published, commits, turn, readers, history, setter,
                   collects, ghosts>>

\* CommitGuard::abort
TakeBack ==
    /\ locked /\ Last(commits).tx \in Reader /\ TransactionsFree
    /\ locked' = FALSE /\ assigned' = assigned - 1
    /\ commits' = SubSeq(commits, 1, Len(commits) - 1)
    /\ UNCHANGED <<clock, published, turn, readers, history, setter, collects, ghosts>>

\* Publish::complete_with: the snapshot goes, the epoch is published, the time
\* is recorded, all in the commit's turn.
ReleaseSnapshot ==
    /\ commits # <<>> /\ turn = "Waits" /\ PinsFree
    /\ locked => Len(commits) > 1
    /\ turn' = "Released"
    /\ LET tx == Head(commits).tx IN
       /\ \E epoch \in reads[tx] : pins' = Released(epoch)
       /\ reads' = [reads EXCEPT ![tx] = {}] /\ open' = open \ {tx}
    /\ UNCHANGED <<clock, assigned, published, commits, locked, history, setter, collects,
                   ghosts>>

\* Or TransactionManager::sync_epoch, which has no snapshot to release.
PublishEpoch ==
    /\ \/ turn = "Released"
       \/ turn = "Waits" /\ \E tx \in Outside : IsCommitting(tx)
    /\ published' = Head(commits).epoch /\ turn' = "Published"
    /\ UNCHANGED <<clock, assigned, commits, locked, readers, history, setter, collects,
                   ghosts>>

Return ==
    /\ turn' = "Waits" /\ commits' = Tail(commits)
    /\ locked' = (locked /\ Len(commits) > 1)

\* History::record looks whether history is on, then takes the times' lock.
RecordCheck ==
    /\ turn = "Published"
    /\ IF Head(commits).time # {} /\ on
       THEN turn' = "Records" /\ UNCHANGED <<commits, locked>>
       ELSE Return
    /\ UNCHANGED <<clock, assigned, published, readers, history, setter, collects, ghosts>>

\* Mutant: a time is recorded as it was taken, whatever is recorded before it.
RecordedAsTaken(epoch, time) ==
    IF times = <<>> \/ Last(times).epoch < epoch
    THEN Append(times, [epoch |-> epoch, time |-> time]) ELSE times

\* The index after History::record: no time goes back.
Recorded(epoch, time) ==
    IF times = <<>> THEN <<[epoch |-> epoch, time |-> time]>>
    ELSE IF Last(times).epoch < epoch
    THEN Append(times, [epoch |-> epoch, time |-> Max({time, Last(times).time})])
    ELSE times

Record ==
    /\ turn = "Records"
    /\ \E time \in Head(commits).time :
         LET epoch == Head(commits).epoch
             millis == IF times = <<>> THEN time ELSE Max({time, Last(times).time})
         IN  /\ times' = Recorded(epoch, time)
             /\ lastTime' = Max({lastTime, millis})
             /\ recorded' = [e \in DOMAIN recorded \cup {epoch} |->
                               IF e = epoch THEN millis ELSE recorded[e]]
    /\ Return
    /\ UNCHANGED <<clock, assigned, published, readers, on, retention, floor, setter,
                   collects, maxClock>>

----------------------------------------------------------------------------
(* The retention *)

\* TransactionManager::set_history_retention reads the published epoch first.
LoadPublished(to) ==
    /\ setter.place = "Idle"
    /\ setter' = [place |-> "Loaded", published |-> published, to |-> to]
    /\ UNCHANGED <<clock, epochs, readers, history, collects, ghosts>>

\* History::set_retention holds the retention's lock from here on.
SetRetention ==
    /\ setter.place = "Loaded"
    /\ retention' = setter.to
    /\ LET turnedOn == setter.to # Off /\ retention = Off IN
       /\ lastTime' = IF turnedOn THEN NextTime ELSE lastTime
       /\ times' = IF turnedOn /\ (times = <<>> \/ Last(times).epoch < setter.published)
                   THEN Append(times, [epoch |-> setter.published, time |-> NextTime])
                   ELSE IF setter.to = Off THEN <<>> ELSE times
    /\ setter' = [setter EXCEPT !.place = "Set"]
    /\ UNCHANGED <<clock, epochs, readers, on, floor, collects, ghosts>>

SwitchHistory ==
    /\ setter.place = "Set"
    /\ on' = (setter.to # Off)
    /\ setter' = [place |-> "Idle", published |-> 0, to |-> Off]
    /\ recorded' = [e \in {} |-> 0]
    /\ UNCHANGED <<clock, epochs, readers, retention, times, lastTime, floor, collects,
                   maxClock>>

\* The first entries of the index with a time up to t.
UpTo(t) == Cardinality({i \in DOMAIN times : times[i].time <= t})

\* History::retention_horizon, if history is on.
RetentionHorizon ==
    LET start == Max({0, clock - retention.window}) IN
    CASE ~on \/ retention = Off -> {}
      [] on /\ retention = Forever -> {floor}
      [] OTHER -> {IF UpTo(start) = 0 THEN floor ELSE Max({floor, times[UpTo(start)].epoch})}

\* TransactionManager::read_horizon
Horizon == IF pins = <<>> THEN published ELSE Min({pins[1].epoch, published})

\* Mutant: the retention decides alone.
HorizonOfRetention ==
    IF RetentionHorizon = {} THEN Horizon ELSE CHOOSE h \in RetentionHorizon : TRUE

\* The older of the read horizon and the start of the retention window.
CollectAt == Min({Horizon} \cup RetentionHorizon)

\* TransactionManager::collect_horizon, under the pins' lock: the horizon, then
\* the floor (History::collected_at).
CollectHorizon ==
    /\ PinsFree /\ ~(on /\ setter.place = "Set")
    /\ collecting' = {CollectAt}
    /\ UNCHANGED <<clock, epochs, readers, history, setter, collected, ghosts>>

\* Mutant: every time up to the floor goes.
KeptFromFloor(horizon) == SelectSeq(times, LAMBDA at : at.epoch > horizon)

\* The times a read may need: the newest at or before the floor, and later.
KeptTimes(horizon) ==
    LET upTo == Cardinality({i \in DOMAIN times : times[i].epoch <= horizon})
    IN  SubSeq(times, Max({upTo, 1}), Len(times))

\* AfterWrite::run then has the stores collect at the horizon, without the lock:
\* at any time from now on.
CollectedAt ==
    /\ \E horizon \in collecting :
         /\ floor' = Max({floor, horizon})
         /\ times' = IF on /\ horizon > floor THEN KeptTimes(horizon) ELSE times
         /\ collected' = Max({collected, horizon})
    /\ collecting' = {}
    /\ UNCHANGED <<clock, epochs, readers, on, retention, lastTime, setter, ghosts>>

----------------------------------------------------------------------------

Next ==
    \/ \E r \in Reader :
         \/ Begin(r) \/ PinRead(r) \/ Release(r) \/ StartCommit(r)
         \/ \E epoch \in Epochs : PinReadAt(r, epoch)
         \/ \E other \in Reader : Again(r, other)
    \/ \E now \in Clock : Tick(now)
    \/ DirectWrite \/ Import \/ Written \/ TakeBack
    \/ ReleaseSnapshot \/ PublishEpoch \/ RecordCheck \/ Record
    \/ \E to \in Retentions : LoadPublished(to)
    \/ SetRetention \/ SwitchHistory
    \/ CollectHorizon \/ CollectedAt

Spec == Init /\ [][Next]_vars

----------------------------------------------------------------------------
(* Properties *)

\* History::epoch_at, as the set of its answer: empty when it is refused.
EpochAt(t) ==
    LET at == UpTo(t) IN
    IF ~on \/ at = 0 \/ times[at].epoch < floor THEN {} ELSE {times[at].epoch}

\* No collect passes a reader: what a pinned read, a transaction or a view
\* reads at is at or after every horizon the stores collect at, also when the
\* horizon was computed before it began (collect_horizon, pin_read, pin_read_at).
ReadersKept ==
    \A r \in Reader : \A epoch \in reads[r] :
        \A horizon \in {collected} \cup collecting : horizon <= epoch

\* The pins are sorted and count every reader once: the horizon's oldest epoch
\* is the first, and a release finds its own (ReadPins).
PinsCountReaders ==
    /\ \A i, j \in DOMAIN pins : i < j => pins[i].epoch < pins[j].epoch
    /\ \A epoch \in Epochs :
         LET count == Cardinality({r \in Reader : reads[r] = {epoch}})
         IN  IF count = 0 THEN ~IsPinned(epoch)
             ELSE \E i \in DOMAIN pins : pins[i] = [epoch |-> epoch, readers |-> count]

\* The index can be searched: epochs ascend and no time goes back, whatever
\* the clock does and however often history is switched (History::record).
TimesAscend ==
    \A i, j \in DOMAIN times : i < j =>
        times[i].epoch < times[j].epoch /\ times[i].time <= times[j].time

\* The retention's promise: a time within the window finds the last commit
\* recorded by then under this retention, or a later one, and its versions are
\* kept, however the clock jumped (History::retention_horizon, collected_at,
\* epoch_at).
WindowReadable ==
    on /\ retention # Off /\ setter.place # "Set" =>
        \A t \in Clock :
            LET past == {epoch \in DOMAIN recorded : recorded[epoch] <= t} IN
            /\ past # {}
            /\ retention = Forever \/ t >= maxClock - retention.window
            => \E found \in EpochAt(t) : found >= Max(past) /\ found >= collected

=============================================================================
