---------------------------- MODULE ChangeCapture ----------------------------
(***************************************************************************)
(* Change data capture: the in-memory log of change events (cdc.rs), the    *)
(* hybrid clock that stamps them (types/hlc.rs), the commits that record    *)
(* into it in their turn, the retention that gc() applies, the eviction the *)
(* buffer manager asks for, and consumers that follow the log with          *)
(* changes_between.  Each action is one hold of the log's lock, so the       *)
(* retention and the eviction, which take it several times, interleave with *)
(* one another and with commits.                                            *)
(*                                                                          *)
(* An entity is absent ({}) or holds one optional property: {{}} or {{v}}.   *)
(***************************************************************************)
EXTENDS Integers, SequencesExt

CONSTANTS Entities, Values,
          Keepers,        \* threads in gc() or in an eviction
          Consumers,      \* followers of the log
          MaxEpochs,      \* retention: epochs
          MaxEvents,      \* retention: events
          MaxLogical,     \* the largest logical counter of a timestamp
          ClockMax,       \* bound on the wall clock
          MaxChanges,     \* bound on the writes of a commit
          MaxEpoch        \* bound on the epochs

ASSUME CaptureAssumption ==
  /\ MaxEpochs \in Nat /\ MaxEvents \in Nat /\ MaxLogical \in Nat /\ ClockMax \in Nat
  /\ MaxChanges \in Nat /\ MaxEpoch \in Nat

VARIABLES log,        \* the events of each entity, in the order recorded
          last,       \* the clock's last timestamp
          published,  \* the current epoch
          recorded,   \* the epoch of the commit in its turn, or published
          keeper,     \* where each keeper is
          consumer,   \* the next epoch each consumer asks for, and its poll
          replica,    \* what each consumer made of the events it got
          lost,       \* consumers that events were pruned ahead of (history)
          states      \* the entities after each epoch, 0 first (history)

vars == <<log, last, published, recorded, keeper, consumer, replica, lost, states>>

\* `since` (history): what others did to the log since the keeper counted.
Idle == [step |-> "Idle", arg |-> 0, since |-> "Prune"]
Properties == {{}} \cup {{v} : v \in Values}

Init ==
  /\ log = [e \in Entities |-> <<>>]
  /\ last = 0
  /\ published = 0
  /\ recorded = 0
  /\ keeper = [k \in Keepers |-> Idle]
  /\ consumer = [c \in Consumers |-> [from |-> 1, bound |-> 0]]
  /\ replica = [c \in Consumers |-> [e \in Entities |-> {}]]
  /\ lost = {}
  /\ states = <<[e \in Entities |-> {}]>>
-----------------------------------------------------------------------------
(***************************************************************************)
(* Commits.                                                                *)
(***************************************************************************)
\* A timestamp packs physical milliseconds and the logical counter.
Stamp(physical, logical) == physical * (MaxLogical + 1) + logical

\* Mutant of Tick: a clock that went back is taken as it is.
TickBack(prev, wall) ==
  LET physical == prev \div (MaxLogical + 1)
      logical == prev % (MaxLogical + 1)
  IN IF wall = physical
     THEN Stamp(physical, Min({logical + 1, MaxLogical}))
     ELSE Stamp(wall, 0)

\* HlcClock::now: the wall clock if it advanced, else the next logical count,
\* which stays at its maximum.
Tick(prev, wall) ==
  LET physical == prev \div (MaxLogical + 1)
      logical == prev % (MaxLogical + 1)
  IN IF wall > physical
     THEN Stamp(wall, 0)
     ELSE Stamp(physical, Min({logical + 1, MaxLogical}))

\* What a change leaves of its entity, and whether it can be made.
After(change) == IF change.kind = "Delete" THEN {} ELSE {change.val}
Allowed(change, entity) == (change.kind = "Create") = (entity = {})

Changes ==
  [entity : Entities, kind : {"Create", "Update"}, val : Properties]
    \cup [entity : Entities, kind : {"Delete"}, val : {{}}]

\* The entities after the first n of a commit's changes.
Effect(changes, n, state) ==
  FoldLeft(LAMBDA s, change : [s EXCEPT ![change.entity] = After(change)],
           state, SubSeq(changes, 1, n))

\* The change sets of a commit: each change fits what those before it left, and
\* an id is created once (ids are not handed out again).
ChangeSets(state) ==
  {s \in SeqOf(Changes, MaxChanges) :
     /\ s # <<>>
     /\ \A i \in DOMAIN s : Allowed(s[i], Effect(s, i - 1, state)[s[i].entity])
     /\ \A i, j \in DOMAIN s : s[i].kind = "Create" /\ s[j].kind = "Create" /\ i # j
                                 => s[i].entity # s[j].entity}

\* Mutant of FoldEvent: an update after the create is dropped.
FoldDropped(folded, event) ==
  LET creates == {i \in DOMAIN folded : folded[i].entity = event.entity /\ folded[i].kind = "Create"}
  IN IF event.kind # "Update" \/ creates = {} THEN Append(folded, event) ELSE folded

\* fold_into_creates: an update of an entity that the commit created goes into
\* its create event.
FoldEvent(folded, event) ==
  LET creates == {i \in DOMAIN folded : folded[i].entity = event.entity /\ folded[i].kind = "Create"}
  IN IF event.kind # "Update" \/ creates = {}
     THEN Append(folded, event)
     ELSE [folded EXCEPT ![Min(creates)].val = event.val]

\* events_for_commit: one stamped event per change, in the order made, folded.
EventsForCommit(changes, epoch, wall) ==
  LET stamps == [i \in DOMAIN changes |-> FoldLeft(LAMBDA t, j : Tick(t, wall), last, [j \in 1 .. i |-> j])]
  IN FoldLeft(FoldEvent, <<>>,
              [i \in DOMAIN changes |-> [entity |-> changes[i].entity, kind |-> changes[i].kind,
                                         val |-> changes[i].val, epoch |-> epoch, ts |-> stamps[i]]])

\* In its turn, before its epoch is published, a commit records its events with
\* one hold of the lock.
RecordCommit ==
  /\ recorded = published /\ published < MaxEpoch
  /\ recorded' = published + 1
  /\ \E changes \in ChangeSets(Last(states)), wall \in 0 .. ClockMax :
       LET events == EventsForCommit(changes, recorded', wall) IN
       /\ log' = [e \in Entities |-> log[e] \o SelectSeq(events, LAMBDA ev : ev.entity = e)]
       /\ last' = FoldLeft(LAMBDA t, c : Tick(t, wall), last, changes)
       /\ states' = Append(states, Effect(changes, Len(changes), Last(states)))
  /\ keeper' = [k \in Keepers |-> [keeper[k] EXCEPT !.since = IF @ = "Nothing" THEN "Commit" ELSE @]]
  /\ UNCHANGED <<published, consumer, replica, lost>>

\* An import, or the commit of a session without change data capture, reports
\* nothing.
CommitUnreported ==
  /\ recorded = published /\ published < MaxEpoch
  /\ recorded' = published + 1
  /\ states' = Append(states, Last(states))
  /\ UNCHANGED <<log, last, published, keeper, consumer, replica, lost>>

Publish ==
  /\ recorded > published
  /\ published' = recorded
  /\ UNCHANGED <<log, last, recorded, keeper, consumer, replica, lost, states>>
-----------------------------------------------------------------------------
(***************************************************************************)
(* Retention and eviction.                                                 *)
(***************************************************************************)
EventCount == MapThenSumSet(LAMBDA e : Len(log[e]), Entities)
CountUpTo(epoch) ==
  MapThenSumSet(LAMBDA e : Cardinality({i \in DOMAIN log[e] : log[e][i].epoch <= epoch}), Entities)

\* The epoch of the n-th oldest event.
EpochOfNth(n) == Min({epoch \in 1 .. MaxEpoch : CountUpTo(epoch) >= n})

PruneBefore(epoch) ==
  /\ log' = [e \in Entities |-> SelectSeq(log[e], LAMBDA ev : ev.epoch >= epoch)]
  /\ lost' = lost \cup {c \in Consumers : \E e \in Entities : \E i \in DOMAIN log[e] :
                          consumer[c].from <= log[e][i].epoch /\ log[e][i].epoch < epoch}

Goto(k, step, arg) == keeper' = [keeper EXCEPT ![k] = [step |-> step, arg |-> arg, since |-> @.since]]
Return(k) == keeper' = [keeper EXCEPT ![k] = Idle]
PruneAndGoto(k, epoch, place) ==
  /\ PruneBefore(epoch)
  /\ keeper' = [j \in Keepers |-> IF j = k THEN place
                                  ELSE [keeper[j] EXCEPT !.since = IF log' = log THEN @ ELSE "Prune"]]

\* gc() reads the current epoch; apply_retention derives its cutoff from it.
StartGc(k) ==
  /\ keeper[k] = Idle
  /\ Goto(k, "Window", Max({published - MaxEpochs, 0}))
  /\ UNCHANGED <<log, last, published, recorded, consumer, replica, lost, states>>

PruneWindow(k) ==
  /\ keeper[k].step = "Window"
  /\ PruneAndGoto(k, keeper[k].arg, [Idle EXCEPT !.step = "Count"])
  /\ UNCHANGED <<last, published, recorded, consumer, replica, states>>

\* prune_to_limit counts the events under one hold of the lock, ...
CountEvents(k) ==
  /\ keeper[k].step = "Count"
  /\ IF EventCount <= MaxEvents
     THEN Return(k)
     ELSE keeper' = [keeper EXCEPT ![k] = [step |-> "Collect", arg |-> EventCount - MaxEvents, since |-> "Nothing"]]
  /\ UNCHANGED <<log, last, published, recorded, consumer, replica, lost, states>>

\* Mutant of CollectEpochs: the epoch of the excess event itself is kept.
CollectBelow(k) ==
  /\ keeper[k].step = "Collect"
  /\ IF keeper[k].arg > EventCount
     THEN Return(k)
     ELSE Goto(k, "Prune", EpochOfNth(keeper[k].arg))
  /\ UNCHANGED <<log, last, published, recorded, consumer, replica, lost, states>>

\* ... looks for the epoch of the excess under the next, if there still is one, ...
CollectEpochs(k) ==
  /\ keeper[k].step = "Collect"
  /\ IF keeper[k].arg > EventCount
     THEN Return(k)
     ELSE Goto(k, "Prune", EpochOfNth(keeper[k].arg) + 1)
  /\ UNCHANGED <<log, last, published, recorded, consumer, replica, lost, states>>

\* ... and prunes up to it under a third.
Prune(k) ==
  /\ keeper[k].step \in {"Prune", "PruneEvicted"}
  /\ PruneAndGoto(k, keeper[k].arg, Idle)
  /\ UNCHANGED <<last, published, recorded, consumer, replica, states>>

\* The buffer manager asks for the bytes of n events; an empty log has none.
StartEvict(k, n) ==
  /\ keeper[k] = Idle /\ EventCount > 0
  /\ Goto(k, "Evict", n)
  /\ UNCHANGED <<log, last, published, recorded, consumer, replica, lost, states>>

CollectToEvict(k) ==
  /\ keeper[k].step = "Evict"
  /\ IF EventCount = 0
     THEN Return(k)
     ELSE Goto(k, "PruneEvicted", EpochOfNth(Min({keeper[k].arg, EventCount})) + 1)
  /\ UNCHANGED <<log, last, published, recorded, consumer, replica, lost, states>>
-----------------------------------------------------------------------------
(***************************************************************************)
(* Consumers.                                                              *)
(***************************************************************************)
\* changes_between cuts the range at the current epoch, ...
StartPoll(c) ==
  /\ consumer[c].bound = 0
  /\ published > 0
  /\ consumer' = [consumer EXCEPT ![c].bound = published]
  /\ UNCHANGED <<log, last, published, recorded, keeper, replica, lost, states>>

InRange(e, from, bound) == SelectSeq(log[e], LAMBDA ev : from <= ev.epoch /\ ev.epoch <= bound)

\* ... and reads the log.  The consumer applies the events and goes on after
\* the last one.
ReadLog(c) ==
  /\ consumer[c].bound > 0
  /\ LET events == [e \in Entities |-> InRange(e, consumer[c].from, consumer[c].bound)]
         got == UNION {{events[e][i].epoch : i \in DOMAIN events[e]} : e \in Entities}
     IN /\ replica' = [replica EXCEPT ![c] =
                         [e \in Entities |-> FoldLeft(LAMBDA s, ev : After(ev), @[e], events[e])]]
        /\ consumer' = [consumer EXCEPT ![c] = [from |-> Max({@.from} \cup {epoch + 1 : epoch \in got}),
                                                bound |-> 0]]
  /\ UNCHANGED <<log, last, published, recorded, keeper, lost, states>>

Next ==
  \/ RecordCommit \/ CommitUnreported \/ Publish
  \/ \E k \in Keepers :
       \/ StartGc(k) \/ PruneWindow(k) \/ CountEvents(k) \/ CollectEpochs(k) \/ Prune(k)
       \/ \E n \in 1 .. EventCount : StartEvict(k, n)
       \/ CollectToEvict(k)
  \/ \E c \in Consumers : StartPoll(c) \/ ReadLog(c)

Spec == Init /\ [][Next]_vars
-----------------------------------------------------------------------------
(***************************************************************************)
(* Properties.                                                             *)
(***************************************************************************)
\* The variables have their types: no event is of an epoch that no commit has
\* taken, or stamped past the clock that stamped it (HlcClock::now).
TypeOK ==
  /\ \A e \in Entities : \A i \in DOMAIN log[e] :
       log[e][i].epoch \in 1 .. recorded /\ log[e][i].ts \in 0 .. last
  /\ published \in 0 .. MaxEpoch /\ recorded \in {published, published + 1}
  /\ Len(states) = recorded + 1
  /\ \A k \in Keepers : keeper[k].step \in {"Idle", "Window", "Count", "Collect", "Evict", "Prune", "PruneEvicted"}
  /\ lost \subseteq Consumers

\* A consumer that no pruning overtook holds the entities exactly as they were
\* after the last commit it got, and finds every later published one in the log:
\* events recorded while it polls, folded creates, unreported epochs and prunings
\* behind it neither lose nor repeat a change ("a reader that sees a commit
\* through MVCC also sees its events", cdc.rs).  Nor does it get an event of a
\* commit before the commit is published: events "are recorded before it is
\* complete, and returned once it is" (history()).
ReplicaFollows ==
  \A c \in Consumers \ lost :
    /\ consumer[c].from <= published + 1
    /\ replica[c] = states[consumer[c].from]
    /\ \A n \in consumer[c].from .. published :
         states[n + 1] # states[n] => \E e \in Entities : \E i \in DOMAIN log[e] : log[e][i].epoch = n

\* A later commit's events never carry an earlier timestamp, though the wall
\* clock goes back and the logical counter reaches its end (record_commit).
TimestampsFollowEpochs ==
  \A d, e \in Entities : \A i \in DOMAIN log[d], j \in DOMAIN log[e] :
    log[d][i].epoch < log[e][j].epoch => log[d][i].ts <= log[e][j].ts

\* A gc() drops no epoch that fits, though commits record events between its
\* count and its pruning: the newest epoch it drops would have exceeded
\* max_events.  With nothing in between it leaves the log within max_events
\* (prune_to_limit, "the epoch cutoff that brings the total count at or below
\* the limit").  When another keeper pruned in between it may drop epochs that
\* fit, since it looks up an excess that is no longer there, or none at all.
GcReachesLimit ==
  [][\A k \in Keepers : keeper[k].since # "Prune" /\ keeper'[k] = Idle =>
       /\ keeper[k].since = "Nothing" => EventCount' <= MaxEvents
       /\ \A epoch \in 1 .. MaxEpoch :
            CountUpTo(epoch) > CountUpTo(epoch - 1) /\ CountUpTo(epoch)' = 0
              => EventCount - CountUpTo(epoch - 1) > MaxEvents]_vars
=============================================================================
