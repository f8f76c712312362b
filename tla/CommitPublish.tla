---------------------------- MODULE CommitPublish ----------------------------
(***************************************************************************)
(* The threads around the transaction manager: how commits, checkpoints,   *)
(* direct writes, imports, rollbacks and close() wait for its locks and    *)
(* for the publish turn (crates/grafeo-engine: transaction/manager.rs,     *)
(* session/mod.rs, database/direct.rs).                                    *)
(*                                                                         *)
(* Each thread runs one job, and pc is the place in the code it is at.     *)
(* What happens between two places touches no shared state but the one     *)
(* critical section or atomic store the step stands for.  Loading          *)
(* `poisoned` and taking the epoch are one step: a poison between the two  *)
(* is not told apart from one right after them.                            *)
(***************************************************************************)
EXTENDS Integers, FiniteSets

CONSTANTS
    Proc,       \* the threads; each has at most one transaction
    Jobs,       \* what a thread may do
    Faults,     \* what may fail
    NoProc,     \* the owner of a free lock
    EpochMax    \* u64::MAX

ASSUME JobsAssumption ==
    Jobs \subseteq {"Commit", "Schema", "Processor", "Rollback", "Direct", "Import",
                   "Hold", "Close"}
ASSUME FaultsAssumption ==
    Faults \subseteq {"Refuse", "Conflict", "CutBack", "Sync", "Stamp",
                     "Undo", "Apply"}
ASSUME ProcAssumption == IsFiniteSet(Proc) /\ NoProc \notin Proc
ASSUME EpochAssumption == EpochMax \in Nat /\ EpochMax > Cardinality(Proc) + 1

VARIABLES
    job, pc,
    gate, commitLock, turn,     \* owners of idle_gate, commit_lock, publish_turn
    frozen, writing,            \* the writer and the readers of write_freeze
    sleeping,                   \* threads asleep on the `published` condvar
    assigned, published, poisoned, unpublishableFrom, closed, activeCount,
    state, start, epochOf, private,     \* of the thread's transaction
    committedTx, direct,        \* history, as in TransactionManager
    stamped,                    \* the epochs whose changes the stores hold
    stopped                     \* history: a call of poison() returned

locks == <<gate, commitLock, turn, frozen, writing, sleeping>>
epochs == <<assigned, published, poisoned, unpublishableFrom, closed>>
tx == <<activeCount, state, start, epochOf, private, committedTx>>
store == <<direct, stamped, stopped>>
vars == <<job, pc, locks, epochs, tx, store>>

Places == {"begin", "gate", "write", "writing", "lockCommit", "waitTurn", "waitCheck",
           "waitSleep", "check", "freeze", "image", "apply", "announce", "stamp", "log", "sync",
           "pubTurn", "pubCheck", "pubSleep", "ordered", "publish", "notify", "undo",
           "undoing", "abort", "abortFailed", "poison", "bar", "wakeTurn", "wake",
           "done"}

TypeOK ==
    /\ job \in [Proc -> Jobs] /\ pc \in [Proc -> Places]
    /\ {gate, commitLock, turn, frozen} \subseteq Proc \cup {NoProc}
    /\ writing \subseteq Proc /\ sleeping \subseteq Proc
    /\ {assigned, published, unpublishableFrom} \subseteq 0 .. EpochMax
    /\ poisoned \in BOOLEAN /\ closed \in BOOLEAN
    /\ activeCount \in 0 .. Cardinality(Proc)
    /\ state \in [Proc -> {"Unborn", "Active", "Committing", "Committed", "Aborted",
                           "Removed"}]
    /\ start \in [Proc -> Nat] /\ epochOf \in [Proc -> Nat]
    /\ private \in [Proc -> BOOLEAN]
    /\ committedTx \subseteq Proc /\ stamped \subseteq Nat
    /\ stopped \in BOOLEAN

FirstPlace == [Commit |-> "begin", Schema |-> "begin", Processor |-> "begin",
               Rollback |-> "begin", Direct |-> "gate", Import |-> "lockCommit",
               Hold |-> "lockCommit", Close |-> "lockCommit"]

Init ==
    /\ job \in [Proc -> Jobs]
    /\ pc = [t \in Proc |-> FirstPlace[job[t]]]
    /\ gate = NoProc /\ commitLock = NoProc /\ turn = NoProc /\ frozen = NoProc
    /\ writing = {} /\ sleeping = {}
    /\ assigned = 0 /\ published = 0 /\ poisoned = FALSE
    /\ unpublishableFrom = EpochMax /\ closed = FALSE /\ activeCount = 0
    /\ state = [t \in Proc |-> "Unborn"]
    /\ start = [t \in Proc |-> 0] /\ epochOf = [t \in Proc |-> 0]
    /\ private = [t \in Proc |-> FALSE]
    /\ committedTx = {} /\ direct = {} /\ stamped = {}
    /\ stopped = FALSE

Goto(t, place) == pc' = [pc EXCEPT ![t] = place] /\ UNCHANGED job
Free(lock, t) == IF lock = t THEN NoProc ELSE lock

\* The guards a thread still holds go as its call returns.
ReleaseAll(t) ==
    /\ gate' = Free(gate, t) /\ commitLock' = Free(commitLock, t)
    /\ frozen' = Free(frozen, t) /\ writing' = writing \ {t}

\* Where a thread goes on after an error: a transaction still open is rolled
\* back.
AfterError(t) == IF state[t] = "Active" THEN "undo" ELSE "done"

----------------------------------------------------------------------------
(* Beginning and writing *)

\* begin_with_isolation and begin_private: the gate is held for the register
\* only.
Begin(t) ==
    /\ pc[t] = "begin" /\ gate = NoProc
    /\ job[t] = "Direct" => ~closed
    /\ state' = [state EXCEPT ![t] = "Active"]
    /\ private' = [private EXCEPT ![t] = job[t] = "Direct"]
    /\ start' = [start EXCEPT ![t] = published]
    /\ activeCount' = activeCount + 1
    /\ Goto(t, "write")
    /\ UNCHANGED <<locks, epochs, epochOf, committedTx, store>>

\* begin_private of a closed database.
BeginRefused(t) ==
    /\ pc[t] = "begin" /\ gate = NoProc
    /\ job[t] = "Direct" /\ closed
    /\ Goto(t, "done")
    /\ UNCHANGED <<locks, epochs, tx, store>>

\* write_direct: at once when nobody is open, else as a private transaction.
IdleGate(t) ==
    /\ pc[t] = "gate" /\ gate = NoProc
    /\ gate' = IF activeCount = 0 THEN t ELSE NoProc
    /\ Goto(t, IF activeCount = 0 THEN "lockCommit" ELSE "begin")
    /\ UNCHANGED <<commitLock, turn, frozen, writing, sleeping, epochs, tx, store>>

\* A write of an open transaction, under write_in_progress.
StartWrite(t) ==
    /\ pc[t] = "write" /\ frozen = NoProc
    /\ writing' = writing \cup {t}
    /\ Goto(t, "writing")
    /\ UNCHANGED <<gate, commitLock, turn, frozen, sleeping, epochs, tx, store>>

EndWrite(t) ==
    /\ pc[t] = "writing"
    /\ writing' = writing \ {t}
    /\ Goto(t, IF job[t] = "Rollback" THEN "undo" ELSE "lockCommit")
    /\ UNCHANGED <<gate, commitLock, turn, frozen, sleeping, epochs, tx, store>>

\* The change set refuses a change the store applied.
RefuseRecord(t) ==
    /\ pc[t] = "writing" /\ "Refuse" \in Faults
    /\ Goto(t, "poison")
    /\ UNCHANGED <<locks, epochs, tx, store>>

----------------------------------------------------------------------------
(* The commit lock and wait_for_written_commits *)

\* Mutant: a commit with schema statements does not wait.
OnlyOutsideWaits(t) == state[t] = "Unborn"

\* Mutant: a checkpoint does not wait.
HoldDoesNotWait(t) == job[t] = "Schema" \/ (state[t] = "Unborn" /\ job[t] # "Hold")

\* Everything but a plain commit waits for the commits written before it.
WaitsForWritten(t) == job[t] = "Schema" \/ state[t] = "Unborn"

LockCommit(t) ==
    /\ pc[t] = "lockCommit" /\ commitLock = NoProc
    /\ commitLock' = t
    /\ Goto(t, IF WaitsForWritten(t) THEN "waitTurn" ELSE "check")
    /\ UNCHANGED <<gate, turn, frozen, writing, sleeping, epochs, tx, store>>

\* The turn is taken: at first, or again after the condvar woke the thread.
TakeTurn(t) ==
    /\ pc[t] \in {"waitTurn", "pubTurn"} /\ turn = NoProc /\ t \notin sleeping
    /\ turn' = t
    /\ Goto(t, IF pc[t] = "waitTurn" THEN "waitCheck" ELSE "pubCheck")
    /\ UNCHANGED <<gate, commitLock, frozen, writing, sleeping, epochs, tx, store>>

\* Condvar::wait: the turn goes and the thread sleeps, in one step; a store
\* to the state it checked may have come in between.
Sleep(t) ==
    /\ pc[t] \in {"waitSleep", "pubSleep"}
    /\ turn' = NoProc
    /\ sleeping' = sleeping \cup {t}
    /\ Goto(t, IF pc[t] = "waitSleep" THEN "waitTurn" ELSE "pubTurn")
    /\ UNCHANGED <<gate, commitLock, frozen, writing, epochs, tx, store>>

AllWritten == poisoned \/ published >= assigned

WaitCheck(t) ==
    /\ pc[t] = "waitCheck"
    /\ turn' = IF AllWritten THEN NoProc ELSE turn
    /\ Goto(t, IF AllWritten THEN "check" ELSE "waitSleep")
    /\ UNCHANGED <<gate, commitLock, frozen, writing, sleeping, epochs, tx, store>>

\* check_no_incomplete_commit, check_open and, for a commit, its validation.
CheckRefused(t) ==
    /\ pc[t] = "check" /\ job[t] # "Close"
    /\ \/ poisoned
       \/ closed /\ job[t] # "Hold"
       \/ state[t] = "Active" /\ "Conflict" \in Faults
    /\ ReleaseAll(t)
    /\ Goto(t, AfterError(t))
    /\ UNCHANGED <<turn, sleeping, epochs, tx, store>>

----------------------------------------------------------------------------
(* Checkpoints, close(), and changes outside a transaction *)

\* hold_commits, also the freeze of a commit that drops a graph.
FreezeWrites(t) ==
    /\ pc[t] = "freeze" /\ frozen = NoProc /\ writing = {}
    /\ frozen' = t
    /\ Goto(t, IF job[t] = "Hold" THEN "image" ELSE "log")
    /\ UNCHANGED <<gate, commitLock, turn, writing, sleeping, epochs, tx, store>>

Held(t) ==
    /\ pc[t] = "check" /\ job[t] = "Hold" /\ ~poisoned
    /\ Goto(t, "freeze")
    /\ UNCHANGED <<locks, epochs, tx, store>>

\* The image is taken and the guard dropped.
EndHold(t) ==
    /\ pc[t] = "image"
    /\ ReleaseAll(t)
    /\ Goto(t, "done")
    /\ UNCHANGED <<turn, sleeping, epochs, tx, store>>

CloseForWrites(t) ==
    /\ pc[t] = "check" /\ job[t] = "Close"
    /\ closed' = TRUE
    /\ ReleaseAll(t)
    /\ Goto(t, "done")
    /\ UNCHANGED <<turn, sleeping, assigned, published, poisoned, unpublishableFrom,
                   tx, store>>

\* hold_commits_for_change.
HoldForChange(t) ==
    /\ pc[t] = "check" /\ state[t] = "Unborn" /\ job[t] \in {"Direct", "Import"}
    /\ ~poisoned /\ ~closed
    /\ Goto(t, "apply")
    /\ UNCHANGED <<locks, epochs, tx, store>>

\* The change is applied and logged at the next epoch, then sync_epoch.
Apply(t) ==
    /\ pc[t] = "apply"
    /\ stamped' = stamped \cup {published + 1}
    /\ direct' = IF job[t] = "Direct" THEN direct \cup {<<published + 1, t>>} ELSE direct
    /\ assigned' = IF published + 1 > assigned THEN published + 1 ELSE assigned
    /\ published' = published + 1
    /\ Goto(t, "announce")
    /\ UNCHANGED <<locks, poisoned, unpublishableFrom, closed, tx, stopped>>

\* wake_publish_waiters of sync_epoch; the guards go.
Announce(t) ==
    /\ pc[t] = "announce" /\ turn = NoProc
    /\ sleeping' = {}
    /\ ReleaseAll(t)
    /\ Goto(t, "done")
    /\ UNCHANGED <<turn, epochs, tx, store>>

\* The call fails and leaves nothing, or is applied but not in the log.
ApplyFails(t) ==
    /\ pc[t] = "apply" /\ "Apply" \in Faults
    /\ \/ ReleaseAll(t) /\ Goto(t, "done") /\ UNCHANGED <<turn, sleeping, store>>
       \/ /\ stamped' = stamped \cup {published + 1}
          /\ Goto(t, "poison")
          /\ UNCHANGED <<locks, direct, stopped>>
    /\ UNCHANGED <<epochs, tx>>

----------------------------------------------------------------------------
(* A commit *)

\* start_commit; a commit that drops a graph freezes the writes of the others.
StartCommit(t) ==
    /\ pc[t] = "check" /\ state[t] = "Active"
    /\ ~poisoned /\ ~closed
    /\ assigned' = assigned + 1
    /\ state' = [state EXCEPT ![t] = "Committing"]
    /\ epochOf' = [epochOf EXCEPT ![t] = assigned + 1]
    /\ \/ Goto(t, IF job[t] = "Processor" THEN "stamp" ELSE "log")
       \/ job[t] = "Schema" /\ Goto(t, "freeze")
    /\ UNCHANGED <<locks, published, poisoned, unpublishableFrom, closed, activeCount,
                   start, private, committedTx, store>>

\* TransactionManager::commit, of a write of a QueryProcessor: it stamps the
\* changes before its turn, writes no log and keeps the commit lock.
Stamp(t) ==
    /\ pc[t] = "stamp"
    /\ stamped' = stamped \cup {epochOf[t]}
    /\ \/ Goto(t, "pubTurn")
       \/ "Stamp" \in Faults /\ Goto(t, "poison")
    /\ UNCHANGED <<locks, epochs, tx, direct, stopped>>

\* The group is written; only a commit with schema statements keeps the lock.
LogWritten(t) ==
    /\ pc[t] = "log"
    /\ commitLock' = IF job[t] = "Schema" THEN commitLock ELSE NoProc
    /\ Goto(t, "sync")
    /\ UNCHANGED <<gate, turn, frozen, writing, sleeping, epochs, tx, store>>

\* Mutant: the epoch of a commit taken back is not handed out again.
CutBackKeepsEpoch(t) ==
    /\ pc[t] = "log" /\ "CutBack" \in Faults
    /\ state' = [state EXCEPT ![t] = "Active"]
    /\ ReleaseAll(t)
    /\ Goto(t, "undo")
    /\ UNCHANGED <<turn, sleeping, epochs, activeCount, start, epochOf, private,
                   committedTx, store>>

\* Refused by a new rule, or the group was cut back: CommitGuard::abort.
LogCutBack(t) ==
    /\ pc[t] = "log" /\ "CutBack" \in Faults
    /\ state' = [state EXCEPT ![t] = "Active"]
    /\ assigned' = epochOf[t] - 1
    /\ ReleaseAll(t)
    /\ Goto(t, "undo")
    /\ UNCHANGED <<turn, sleeping, published, poisoned, unpublishableFrom, closed,
                   activeCount, start, epochOf, private, committedTx, store>>

Sync(t) ==
    /\ pc[t] = "sync"
    /\ \/ Goto(t, "pubTurn")
       \/ "Sync" \in Faults /\ Goto(t, "poison")
    /\ UNCHANGED <<locks, epochs, tx, store>>

Barred(t) == epochOf[t] >= unpublishableFrom

\* Mutant: a commit does not wait for the one below it.
InTurnAlways(t) == TRUE

InTurn(t) == published + 1 >= epochOf[t]

\* One pass of the loop of complete_with.
PublishCheck(t) ==
    /\ pc[t] = "pubCheck"
    /\ \/ Barred(t) /\ turn' = NoProc /\ ReleaseAll(t) /\ Goto(t, "done")
       \/ /\ ~Barred(t) /\ Goto(t, IF InTurn(t) THEN "ordered" ELSE "pubSleep")
          /\ UNCHANGED <<gate, commitLock, turn, frozen, writing>>
    /\ UNCHANGED <<sleeping, epochs, tx, store>>

\* The `ordered` closure stamps the changes, or fails half way.
Ordered(t) ==
    /\ pc[t] = "ordered"
    /\ stamped' = stamped \cup {epochOf[t]}
    /\ \/ Goto(t, "publish") /\ UNCHANGED turn
       \/ "Stamp" \in Faults /\ job[t] # "Processor" /\ Goto(t, "poison") /\ turn' = NoProc
    /\ UNCHANGED <<gate, commitLock, frozen, writing, sleeping, epochs, tx, direct,
                   stopped>>

Publish(t) ==
    /\ pc[t] = "publish"
    /\ state' = [state EXCEPT ![t] = IF private[t] /\ activeCount = 1 THEN "Removed"
                                                                   ELSE "Committed"]
    /\ activeCount' = activeCount - 1
    /\ published' = IF epochOf[t] > published THEN epochOf[t] ELSE published
    /\ committedTx' = committedTx \cup {t}
    /\ turn' = NoProc
    /\ Goto(t, "notify")
    /\ UNCHANGED <<gate, commitLock, frozen, writing, sleeping, assigned, poisoned,
                   unpublishableFrom, closed, start, epochOf, private, store>>

Notify(t) ==
    /\ pc[t] = "notify"
    /\ sleeping' = {}
    /\ ReleaseAll(t)
    /\ Goto(t, "done")
    /\ UNCHANGED <<turn, epochs, tx, store>>

----------------------------------------------------------------------------
(* Rollback and poisoning *)

\* The undo of a rollback, a store change in progress.
StartUndo(t) ==
    /\ pc[t] = "undo" /\ frozen = NoProc
    /\ writing' = writing \cup {t}
    /\ Goto(t, "undoing")
    /\ UNCHANGED <<gate, commitLock, turn, frozen, sleeping, epochs, tx, store>>

EndUndo(t) ==
    /\ pc[t] = "undoing"
    /\ writing' = writing \ {t}
    /\ \/ Goto(t, "abort")
       \/ "Undo" \in Faults /\ Goto(t, "abortFailed")
    /\ UNCHANGED <<gate, commitLock, turn, frozen, sleeping, epochs, tx, direct,
                   stamped, stopped>>

\* TransactionManager::abort, after the undo: it takes write_in_progress again
\* for what is left to undo (nothing).  The callers poison after it.
Abort(t) ==
    /\ pc[t] \in {"abort", "abortFailed"} /\ frozen = NoProc
    /\ state' = [state EXCEPT ![t] = IF private[t] THEN "Removed" ELSE "Aborted"]
    /\ activeCount' = activeCount - 1
    /\ Goto(t, IF pc[t] = "abort" THEN "done" ELSE "poison")
    /\ UNCHANGED <<locks, epochs, start, epochOf, private, committedTx, store>>

\* incomplete_from, of the epoch of a commit or of 0 for poison().
SetPoisoned(t) ==
    /\ pc[t] = "poison"
    /\ poisoned' = TRUE
    /\ Goto(t, "bar")
    /\ UNCHANGED <<locks, assigned, published, unpublishableFrom, closed, tx, store>>

BarFrom(t) == IF state[t] = "Committing" THEN epochOf[t] ELSE 0

BarEpochs(t) ==
    /\ pc[t] = "bar"
    /\ unpublishableFrom' = IF BarFrom(t) < unpublishableFrom THEN BarFrom(t)
                                                             ELSE unpublishableFrom
    /\ Goto(t, "wakeTurn")
    /\ UNCHANGED <<locks, assigned, published, poisoned, closed, tx, store>>

\* Mutant: the waiters are woken without taking the turn first.
WakeAtOnce(t) ==
    /\ pc[t] = "wakeTurn"
    /\ Goto(t, "wake")
    /\ UNCHANGED <<locks, epochs, tx, store>>

\* wake_publish_waiters: the turn is taken and dropped, then everybody woken.
WakeTurn(t) ==
    /\ pc[t] = "wakeTurn" /\ turn = NoProc
    /\ Goto(t, "wake")
    /\ UNCHANGED <<locks, epochs, tx, store>>

Wake(t) ==
    /\ pc[t] = "wake"
    /\ sleeping' = {}
    /\ ReleaseAll(t)
    /\ stopped' = (stopped \/ BarFrom(t) = 0)
    /\ Goto(t, AfterError(t))
    /\ UNCHANGED <<turn, epochs, tx, direct, stamped>>

----------------------------------------------------------------------------

Step(t) ==
    \/ Begin(t) \/ BeginRefused(t) \/ IdleGate(t)
    \/ StartWrite(t) \/ EndWrite(t) \/ RefuseRecord(t)
    \/ LockCommit(t) \/ TakeTurn(t) \/ Sleep(t) \/ WaitCheck(t) \/ CheckRefused(t)
    \/ FreezeWrites(t) \/ Held(t) \/ EndHold(t) \/ CloseForWrites(t)
    \/ HoldForChange(t) \/ Apply(t) \/ Announce(t) \/ ApplyFails(t)
    \/ StartCommit(t) \/ Stamp(t) \/ LogWritten(t) \/ LogCutBack(t)
    \/ Sync(t) \/ PublishCheck(t) \/ Ordered(t) \/ Publish(t) \/ Notify(t)
    \/ StartUndo(t) \/ EndUndo(t) \/ Abort(t)
    \/ SetPoisoned(t) \/ BarEpochs(t) \/ WakeTurn(t) \/ Wake(t)

Done == (\A t \in Proc : pc[t] = "done") /\ UNCHANGED vars

Next == (\E t \in Proc : Step(t)) \/ Done

\* A thread that can go on does: the operating system runs every thread, and
\* no lock is held for ever.  A thread's step is one of finitely many, so a
\* lock that is contended is free for the last one waiting.
Spec == Init /\ [][Next]_vars /\ \A t \in Proc : WF_vars(Step(t))

----------------------------------------------------------------------------
(* Properties *)

\* The stores hold the changes of at most one logged commit above the published
\* epoch: the `ordered` step of a commit runs in epoch order, after everything
\* below it is published, also when a commit in between fails.
StampsInOrder ==
    \A e \in stamped : \/ e <= published + 1
                       \/ \E t \in Proc : job[t] = "Processor" /\ epochOf[t] = e

\* A commit with schema statements is alone from its epoch to its end: every
\* commit before it is published and none comes after it (start_commit_when_quiet
\* and WrittenCommit::Held).
SchemaCommitAlone ==
    \A t \in Proc : job[t] = "Schema" /\ state[t] = "Committing"
                     => published + 1 = epochOf[t] /\ assigned = epochOf[t]

\* While a checkpoint or a copy reads the store (hold_commits), the store holds
\* exactly the published commits, and nobody is writing or undoing.
ImageIsWhole ==
    \A t \in Proc : pc[t] = "image" =>
        /\ published = assigned /\ writing = {}
        /\ \A e \in stamped : e <= published
        /\ \A u \in Proc : state[u] # "Committing"

\* Once a call of poison() returned, no transaction is reported committed any
\* more: the wake takes the publish turn, so a commit on its way is done.
PoisonStopsCommits == [][stopped => committedTx' = committedTx]_vars

\* Every call returns: no lock order deadlocks, no wakeup is lost, and a commit
\* that did not complete lets everyone waiting for it go.
EveryCallReturns == \A t \in Proc : <>(pc[t] = "done")
=============================================================================
