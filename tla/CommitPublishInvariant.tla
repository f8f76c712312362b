------------------------ MODULE CommitPublishInvariant -----------------------
(***************************************************************************)
(* The threads of CommitPublish keep its safety properties, for any number *)
(* of threads, any jobs and any faults.  The invariant says, place by      *)
(* place in the code, which locks a thread holds and where its epoch lies. *)
(***************************************************************************)
EXTENDS CommitPublish, TLAPS

\* Zenon proves a step unless the step names another prover.
USE Zenon

\* The types of the variables.
Types ==
    /\ job \in [Proc -> Jobs] /\ pc \in [Proc -> Places]
    /\ gate \in Proc \cup {NoProc} /\ commitLock \in Proc \cup {NoProc}
    /\ turn \in Proc \cup {NoProc} /\ frozen \in Proc \cup {NoProc}
    /\ writing \in SUBSET Proc /\ sleeping \in SUBSET Proc
    /\ assigned \in Nat /\ published \in Nat /\ unpublishableFrom \in Nat
    /\ poisoned \in BOOLEAN /\ closed \in BOOLEAN /\ stopped \in BOOLEAN
    /\ activeCount \in Int
    /\ state \in [Proc -> {"Unborn", "Active", "Committing", "Committed", "Aborted", "Removed"}]
    /\ epochOf \in [Proc -> Nat] /\ start \in [Proc -> Nat] /\ private \in [Proc -> BOOLEAN]
    /\ committedTx \in SUBSET Proc /\ stamped \in SUBSET Nat

\* Where a thread can be, by what became of its transaction and by its job.
PlaceInv ==
    \A t \in Proc :
      /\ state[t] = "Unborn" => epochOf[t] = 0 /\
           pc[t] \in {"begin", "gate", "lockCommit", "waitTurn", "waitCheck", "waitSleep",
                      "check", "freeze", "image", "apply", "announce", "poison", "bar",
                      "wakeTurn", "wake", "done"}
      /\ state[t] = "Active" =>
           pc[t] \in {"write", "writing", "lockCommit", "waitTurn", "waitCheck", "waitSleep",
                      "check", "undo", "undoing", "abort", "abortFailed", "poison", "bar",
                      "wakeTurn", "wake"}
      /\ state[t] = "Committing" =>
           pc[t] \in {"freeze", "stamp", "log", "sync", "pubTurn", "pubCheck", "pubSleep",
                      "ordered", "publish", "poison", "bar", "wakeTurn", "wake", "done"}
      /\ state[t] \in {"Committed", "Aborted", "Removed"} =>
           pc[t] \in {"notify", "poison", "bar", "wakeTurn", "wake", "done"}
      /\ pc[t] \in {"write", "writing", "lockCommit", "waitTurn", "waitCheck", "waitSleep",
                    "check"} => epochOf[t] = 0
      /\ pc[t] = "begin" => job[t] \notin {"Import", "Hold", "Close"} /\ state[t] = "Unborn"
      /\ pc[t] = "gate" => job[t] = "Direct" /\ state[t] = "Unborn"
      /\ job[t] \in {"Import", "Hold", "Close"} => state[t] = "Unborn"
      /\ pc[t] = "image" => job[t] = "Hold"
      /\ pc[t] = "apply" => job[t] \in {"Direct", "Import"}
      /\ pc[t] = "stamp" => job[t] = "Processor"
      /\ pc[t] \in {"log", "sync"} => job[t] # "Processor"
      /\ pc[t] = "freeze" => job[t] = IF state[t] = "Committing" THEN "Schema" ELSE "Hold"

\* The places between a lock and its release.  A commit with schema statements
\* and one of a QueryProcessor keep the commit lock unless they are poisoned.
LockInv ==
    \A t \in Proc :
      /\ pc[t] \in {"waitTurn", "waitCheck", "waitSleep", "check", "freeze", "image", "apply",
                    "announce", "stamp", "log"} => commitLock = t
      /\ pc[t] \in {"waitCheck", "waitSleep", "pubCheck", "pubSleep", "ordered", "publish"}
           => turn = t
      /\ state[t] = "Committing" /\ job[t] \in {"Schema", "Processor"}
           => commitLock = t \/ poisoned

\* active_count counts the open transactions.
OpenTx == {t \in Proc : state[t] \in {"Active", "Committing"}}
CountInv == activeCount = Cardinality(OpenTx)

\* A direct write behind the idle gate has no open transaction beside it.
GateInv ==
    /\ gate # NoProc => activeCount = 0
    /\ \A t \in Proc : job[t] = "Direct" /\ state[t] = "Unborn"
         /\ pc[t] \in {"lockCommit", "waitTurn", "waitCheck", "waitSleep", "check", "apply"}
           => gate = t

\* While writes are frozen, as an image is read, nobody writes.
FreezeInv ==
    /\ \A t \in Proc : pc[t] = "image" => frozen = t
    /\ frozen # NoProc => writing = {}

\* The threads that took an epoch: each takes one at most once.
Spent == {t \in Proc : epochOf[t] # 0 \/ (state[t] = "Unborn" /\ pc[t] \in {"announce", "done"})}
SpentInv == assigned <= Cardinality(Spent)

\* The epochs of commits in progress lie above the published one, apart, and
\* the last one handed out is that of the commit with the commit lock.
EpochInv ==
    /\ published <= assigned
    /\ \A t \in Proc : state[t] = "Committing" => published < epochOf[t] /\ epochOf[t] <= assigned
    /\ \A t \in Proc : state[t] = "Committing" /\ commitLock = t => epochOf[t] = assigned
    /\ \A t, u \in Proc : state[t] = "Committing" /\ state[u] = "Committing"
                          /\ epochOf[t] = epochOf[u] => t = u
    /\ \A t \in Proc : pc[t] \in {"ordered", "publish"} => epochOf[t] = published + 1

\* Who waited for the commits written before it is alone.
WaitInv ==
    \A t \in Proc :
      /\ pc[t] = "check" /\ (job[t] = "Schema" \/ state[t] = "Unborn")
           => poisoned \/ published = assigned
      /\ pc[t] = "apply" \/ (job[t] = "Hold" /\ pc[t] \in {"freeze", "image"})
           => published = assigned
      /\ job[t] = "Schema" /\ state[t] = "Committing"
           => published + 1 = epochOf[t] /\ assigned = epochOf[t]

\* Epochs are barred and waiters woken only once the manager is poisoned.
PoisonInv ==
    /\ unpublishableFrom # EpochMax => poisoned
    /\ \A t \in Proc : pc[t] \in {"bar", "wakeTurn", "wake"} => poisoned

\* What is stamped above the published epoch is a commit in progress, or a
\* change that failed after it was applied.
StampInv ==
    /\ \A e \in stamped :
         \/ e <= published \/ poisoned
         \/ \E t \in Proc : state[t] = "Committing" /\ epochOf[t] = e
         \/ \E t \in Proc : state[t] = "Unborn" /\ pc[t] = "poison" /\ commitLock = t
    /\ \A t \in Proc : state[t] = "Committing" /\ job[t] # "Processor"
         /\ pc[t] \in {"freeze", "log", "sync", "pubTurn", "pubCheck", "pubSleep", "ordered"}
           => epochOf[t] \notin stamped
    /\ \A t \in Proc : job[t] = "Hold" /\ pc[t] \in {"freeze", "image"}
           => \A e \in stamped : e <= published

\* Once poison() took the turn after it barred every epoch, nobody publishes.
Publishing == \E t \in Proc : pc[t] \in {"ordered", "publish"}
StopInv ==
    /\ \A t \in Proc : pc[t] \in {"wakeTurn", "wake"} => unpublishableFrom <= BarFrom(t)
    /\ \A t \in Proc : pc[t] = "wake" /\ BarFrom(t) = 0 => ~Publishing
    /\ stopped => unpublishableFrom = 0 /\ ~Publishing

PublishInv == /\ Types /\ PlaceInv /\ LockInv /\ CountInv /\ GateInv /\ FreezeInv
              /\ SpentInv /\ EpochInv /\ WaitInv /\ PoisonInv /\ StampInv /\ StopInv
              /\ StampsInOrder

-----------------------------------------------------------------------------
(* Where a thread is from where its transaction is. *)

\* A thread between the epoch of its commit and its publication has a
\* transaction that is committing.
LEMMA PlaceOfCommit ==
  ASSUME Types, PlaceInv, NEW t \in Proc,
         pc[t] \in {"stamp", "log", "sync", "pubTurn", "pubCheck", "pubSleep", "ordered",
                    "publish"}
  PROVE  state[t] = "Committing"
BY DEF Types, PlaceInv

\* A thread that writes, undoes or aborts has an active transaction.
LEMMA PlaceOfAbort ==
  ASSUME Types, PlaceInv, NEW t \in Proc,
         pc[t] \in {"write", "writing", "undo", "undoing", "abort", "abortFailed"}
  PROVE  state[t] = "Active"
BY DEF Types, PlaceInv

-----------------------------------------------------------------------------
(* One lemma for each part of the invariant, one step for each action that   *)
(* disturbs it and one for the others of a row of Step.                      *)

\* Every step keeps the types.
LEMMA TypesKept ==
  ASSUME Types, PlaceInv, LockInv, EpochInv, NEW t \in Proc, Step(t)
  PROVE  Types'
<1>1. CASE Begin(t) BY <1>1, SMT DEF Begin, Goto, locks, epochs, store, Types, Places
<1>2. CASE BeginRefused(t) BY <1>2 DEF BeginRefused, Goto, locks, epochs, tx, store, Types, Places
<1>3. CASE IdleGate(t) BY <1>3 DEF IdleGate, Goto, epochs, tx, store, Types, Places
<1>4. CASE StartWrite(t) BY <1>4 DEF StartWrite, Goto, epochs, tx, store, Types, Places
<1>5. CASE EndWrite(t) BY <1>5 DEF EndWrite, Goto, epochs, tx, store, Types, Places
<1>6. CASE RefuseRecord(t) BY <1>6 DEF RefuseRecord, Goto, locks, epochs, tx, store, Types, Places
<1>7. CASE LockCommit(t)
  BY <1>7 DEF LockCommit, Goto, WaitsForWritten, epochs, tx, store, Types, Places
<1>8. CASE TakeTurn(t) BY <1>8 DEF TakeTurn, Goto, epochs, tx, store, Types, Places
<1>9. CASE Sleep(t) BY <1>9 DEF Sleep, Goto, epochs, tx, store, Types, Places
<1>10. CASE WaitCheck(t)
  BY <1>10 DEF WaitCheck, Goto, AllWritten, epochs, tx, store, Types, Places
<1>11. CASE CheckRefused(t)
  BY <1>11 DEF CheckRefused, Goto, ReleaseAll, Free, AfterError, epochs, tx, store, Types, Places
<1>12. CASE FreezeWrites(t) BY <1>12 DEF FreezeWrites, Goto, epochs, tx, store, Types, Places
<1>13. CASE Held(t) BY <1>13 DEF Held, Goto, locks, epochs, tx, store, Types, Places
<1>14. CASE EndHold(t)
  BY <1>14 DEF EndHold, Goto, ReleaseAll, Free, epochs, tx, store, Types, Places
<1>15. CASE CloseForWrites(t)
  BY <1>15 DEF CloseForWrites, Goto, ReleaseAll, Free, tx, store, Types, Places
<1>16. CASE HoldForChange(t)
  BY <1>16 DEF HoldForChange, Goto, locks, epochs, tx, store, Types, Places
<1>17. CASE Apply(t) BY <1>17, SMT DEF Apply, Goto, locks, tx, Types, Places
<1>18. CASE Announce(t)
  BY <1>18 DEF Announce, Goto, ReleaseAll, Free, epochs, tx, store, Types, Places
<1>19. CASE ApplyFails(t)
  <2>1. published + 1 \in Nat
    BY SMT DEF Types
  <2>2. QED
    BY <1>19, <2>1 DEF ApplyFails, Goto, ReleaseAll, Free, locks, epochs, tx, store, Types, Places
<1>20. CASE StartCommit(t)
  <2>1. assigned + 1 \in Nat
    BY SMT DEF Types
  <2>2. QED
    BY <1>20, <2>1 DEF StartCommit, Goto, locks, store, Types, Places
<1>21. CASE Stamp(t)
  <2>1. stamped' \in SUBSET Nat
    BY <1>21 DEF Stamp, Types
  <2>2. QED
    BY <1>21, <2>1, SMT DEF Stamp, Goto, locks, epochs, tx, Types, Places
<1>22. CASE LogWritten(t) BY <1>22 DEF LogWritten, Goto, epochs, tx, store, Types, Places
<1>23. CASE LogCutBack(t)
  <2>1. state[t] = "Committing"
    BY <1>23, PlaceOfCommit DEF LogCutBack
  <2>2. epochOf[t] - 1 \in Nat
    BY <2>1, SMT DEF EpochInv, Types
  <2>3. QED
    BY <1>23, <2>2 DEF LogCutBack, Goto, ReleaseAll, Free, store, Types, Places
<1>24. CASE Sync(t) BY <1>24, SMT DEF Sync, Goto, locks, epochs, tx, store, Types, Places
<1>25. CASE PublishCheck(t)
  BY <1>25, SMT DEF PublishCheck, Goto, ReleaseAll, Free, epochs, tx, store, Types, Places
<1>26. CASE Ordered(t)
  <2>1. stamped' \in SUBSET Nat
    BY <1>26 DEF Ordered, Types
  <2>2. QED
    BY <1>26, <2>1, SMT DEF Ordered, Goto, epochs, tx, Types, Places
<1>27. CASE Publish(t) BY <1>27, SMT DEF Publish, Goto, store, Types, Places
<1>28. CASE Notify(t)
  BY <1>28 DEF Notify, Goto, ReleaseAll, Free, epochs, tx, store, Types, Places
<1>29. CASE StartUndo(t) BY <1>29 DEF StartUndo, Goto, epochs, tx, store, Types, Places
<1>30. CASE EndUndo(t) BY <1>30, SMT DEF EndUndo, Goto, epochs, tx, Types, Places
<1>31. CASE Abort(t) BY <1>31, SMT DEF Abort, Goto, locks, epochs, store, Types, Places
<1>32. CASE SetPoisoned(t) BY <1>32 DEF SetPoisoned, Goto, locks, tx, store, Types, Places
<1>33. CASE BarEpochs(t) BY <1>33 DEF BarEpochs, Goto, locks, tx, store, Types, Places, BarFrom
<1>34. CASE WakeTurn(t) BY <1>34 DEF WakeTurn, Goto, locks, epochs, tx, store, Types, Places
<1>35. CASE Wake(t)
  BY <1>35 DEF Wake, Goto, ReleaseAll, Free, AfterError, epochs, tx, Types, Places
<1>36. QED
  BY <1>1, <1>2, <1>3, <1>4, <1>5, <1>6, <1>7, <1>8, <1>9, <1>10, <1>11, <1>12,
     <1>13, <1>14, <1>15, <1>16, <1>17, <1>18, <1>19, <1>20, <1>21, <1>22, <1>23, <1>24,
     <1>25, <1>26, <1>27, <1>28, <1>29, <1>30, <1>31, <1>32, <1>33, <1>34, <1>35 DEF Step

\* Every step keeps the places.
LEMMA PlaceKept ==
  ASSUME Types, PlaceInv, NEW t \in Proc, Step(t)
  PROVE  PlaceInv'
<1>1. CASE Begin(t) \/ BeginRefused(t) \/ IdleGate(t)
  BY <1>1, SMT DEF Begin, BeginRefused, IdleGate, Goto, locks, epochs, store, tx, Types, PlaceInv
<1>2. CASE StartWrite(t) \/ EndWrite(t) \/ RefuseRecord(t)
  BY <1>2, SMT DEF StartWrite, EndWrite, RefuseRecord, Goto, epochs, tx, store, locks, Types,
     PlaceInv
<1>3. CASE LockCommit(t) \/ TakeTurn(t) \/ Sleep(t) \/ WaitCheck(t) \/ CheckRefused(t)
  BY <1>3, SMT DEF LockCommit, TakeTurn, Sleep, WaitCheck, CheckRefused, Goto, WaitsForWritten,
     epochs,
     tx, store, AllWritten, ReleaseAll, Free, AfterError, Types, PlaceInv
<1>4. CASE FreezeWrites(t) \/ Held(t) \/ EndHold(t) \/ CloseForWrites(t)
  BY <1>4, SMT DEF FreezeWrites, Held, EndHold, CloseForWrites, Goto, epochs, tx, store, locks,
     ReleaseAll, Free, Types, PlaceInv
<1>5. CASE HoldForChange(t) \/ Apply(t) \/ Announce(t) \/ ApplyFails(t)
  BY <1>5, SMT DEF HoldForChange, Apply, Announce, ApplyFails, Goto, locks, epochs, tx, store,
     ReleaseAll, Free, Types, PlaceInv
<1>6. CASE StartCommit(t) \/ Stamp(t) \/ LogWritten(t) \/ LogCutBack(t)
  BY <1>6, SMT DEF StartCommit, Stamp, LogWritten, LogCutBack, Goto, locks, store, epochs, tx,
     ReleaseAll, Free, Types, PlaceInv
<1>7. CASE Sync(t) \/ PublishCheck(t) \/ Ordered(t) \/ Publish(t) \/ Notify(t)
  BY <1>7, SMT DEF Sync, PublishCheck, Ordered, Publish, Notify, Goto, locks, epochs, tx, store,
     ReleaseAll, Free, Types, PlaceInv
<1>8. CASE StartUndo(t) \/ EndUndo(t) \/ Abort(t)
  BY <1>8, SMT DEF StartUndo, EndUndo, Abort, Goto, epochs, tx, store, locks, Types, PlaceInv
<1>9. CASE SetPoisoned(t) \/ BarEpochs(t) \/ WakeTurn(t) \/ Wake(t)
  BY <1>9, SMT DEF SetPoisoned, BarEpochs, WakeTurn, Wake, Goto, locks, tx, store, epochs,
     ReleaseAll,
     Free, AfterError, Types, PlaceInv
<1>10. QED
  BY <1>1, <1>2, <1>3, <1>4, <1>5, <1>6, <1>7, <1>8, <1>9 DEF Step

\* Every step keeps the locks.
LEMMA LockKept ==
  ASSUME Types, PlaceInv, LockInv, PoisonInv, EpochInv, assigned < EpochMax, NEW t \in Proc,
         Step(t)
  PROVE  LockInv'
<1>1. CASE Begin(t) \/ BeginRefused(t) \/ IdleGate(t)
  BY <1>1, ProcAssumption, SMT DEF Begin, BeginRefused, IdleGate, Goto, locks, epochs, store, tx,
     Types, PlaceInv, LockInv
<1>2. CASE StartWrite(t) \/ EndWrite(t) \/ RefuseRecord(t)
  BY <1>2, ProcAssumption, SMT DEF StartWrite, EndWrite, RefuseRecord, Goto, epochs, tx, store,
     locks,
     Types, PlaceInv, LockInv
<1>3. CASE LockCommit(t) \/ TakeTurn(t) \/ Sleep(t) \/ WaitCheck(t) \/ CheckRefused(t)
  BY <1>3, ProcAssumption, SMT DEF LockCommit, TakeTurn, Sleep, WaitCheck, CheckRefused, Goto,
     WaitsForWritten, epochs, tx, store, AllWritten, ReleaseAll, Free, AfterError, Types,
     PlaceInv, LockInv
<1>4. CASE FreezeWrites(t) \/ Held(t) \/ EndHold(t) \/ CloseForWrites(t)
  BY <1>4, ProcAssumption, SMTT(30) DEF FreezeWrites, Held, EndHold, CloseForWrites, Goto, epochs, tx,
     store, locks, ReleaseAll, Free, Types, PlaceInv, LockInv
<1>5. CASE HoldForChange(t) \/ Apply(t) \/ Announce(t) \/ ApplyFails(t)
  BY <1>5, ProcAssumption, SMTT(30) DEF HoldForChange, Apply, Announce, ApplyFails, Goto, locks,
     epochs, tx,
     store, ReleaseAll, Free, Types, PlaceInv, LockInv
<1>6. CASE StartCommit(t) \/ Stamp(t) \/ LogWritten(t) \/ LogCutBack(t)
  BY <1>6, ProcAssumption, SMT DEF StartCommit, Stamp, LogWritten, LogCutBack, Goto, locks, store,
     epochs, tx, ReleaseAll, Free, Types, PlaceInv, LockInv
<1>7. CASE Sync(t) \/ Ordered(t) \/ Publish(t) \/ Notify(t)
  BY <1>7, ProcAssumption, SMT DEF Sync, Ordered, Publish, Notify, Goto, locks, epochs, tx, store,
     ReleaseAll, Free, Types, PlaceInv, LockInv
<1>8. CASE PublishCheck(t)
  <2>1. state[t] = "Committing" /\ turn = t
    BY <1>8, PlaceOfCommit DEF PublishCheck, LockInv
  <2>2. Barred(t) => poisoned
    BY <2>1, EpochAssumption, SMT DEF Barred, PoisonInv, EpochInv, Types
  <2>3. QED
    BY <1>8, <2>1, <2>2, ProcAssumption, SMT DEF PublishCheck, Goto, ReleaseAll, Free, epochs, tx,
       store, Types, LockInv
<1>9. CASE StartUndo(t) \/ EndUndo(t) \/ Abort(t)
  BY <1>9, ProcAssumption, SMT DEF StartUndo, EndUndo, Abort, Goto, epochs, tx, store, locks, Types,
     PlaceInv, LockInv
<1>10. CASE SetPoisoned(t) \/ BarEpochs(t) \/ WakeTurn(t)
  BY <1>10, ProcAssumption, SMT DEF SetPoisoned, BarEpochs, WakeTurn, Goto, locks, tx, store,
     epochs,
     Types, PlaceInv, LockInv
<1>11. CASE Wake(t)
  BY <1>11, ProcAssumption, SMT DEF Wake, Goto, ReleaseAll, Free, AfterError, epochs, tx, Types,
     PlaceInv, LockInv, PoisonInv
<1>12. QED
  BY <1>1, <1>2, <1>3, <1>4, <1>5, <1>6, <1>7, <1>8, <1>9, <1>10, <1>11 DEF Step

\* A step opens at most the transaction of its thread, or ends it.
LEMMA OpenMoves ==
  ASSUME Types, PlaceInv, NEW t \in Proc, Step(t)
  PROVE  \/ activeCount' = activeCount /\ OpenTx' = OpenTx
         \/ activeCount' = activeCount + 1 /\ t \notin OpenTx /\ OpenTx' = OpenTx \cup {t}
         \/ activeCount' = activeCount - 1 /\ t \in OpenTx /\ OpenTx' = OpenTx \ {t}
<1>1. CASE BeginRefused(t) \/ IdleGate(t)
  BY <1>1 DEF BeginRefused, IdleGate, Goto, locks, epochs, tx, store, Types, OpenTx
<1>2. CASE Begin(t) BY <1>2 DEF Begin, Goto, locks, epochs, store, Types, OpenTx, PlaceInv
<1>3. CASE StartWrite(t) \/ EndWrite(t) \/ RefuseRecord(t)
  BY <1>3 DEF StartWrite, EndWrite, RefuseRecord, Goto, epochs, tx, store, locks, Types, OpenTx
<1>4. CASE LockCommit(t) \/ TakeTurn(t) \/ Sleep(t) \/ WaitCheck(t) \/ CheckRefused(t)
  BY <1>4 DEF LockCommit, TakeTurn, Sleep, WaitCheck, CheckRefused, Goto, WaitsForWritten, epochs,
     tx, store, AllWritten, ReleaseAll, Free, AfterError, Types, OpenTx
<1>5. CASE FreezeWrites(t) \/ Held(t) \/ EndHold(t) \/ CloseForWrites(t)
  BY <1>5 DEF FreezeWrites, Held, EndHold, CloseForWrites, Goto, epochs, tx, store, locks,
     ReleaseAll, Free, Types, OpenTx
<1>6. CASE HoldForChange(t) \/ Apply(t) \/ Announce(t) \/ ApplyFails(t)
  BY <1>6 DEF HoldForChange, Apply, Announce, ApplyFails, Goto, locks, epochs, tx, store,
     ReleaseAll, Free, Types, OpenTx
<1>7. CASE StartCommit(t) \/ Stamp(t) \/ LogWritten(t)
  BY <1>7 DEF StartCommit, Stamp, LogWritten, Goto, locks, store, epochs, tx, Types, OpenTx
<1>8. CASE LogCutBack(t)
  BY <1>8, PlaceOfCommit DEF LogCutBack, Goto, ReleaseAll, Free, store, Types, OpenTx
<1>9. CASE Sync(t) \/ PublishCheck(t) \/ Ordered(t) \/ Notify(t)
  BY <1>9 DEF Sync, PublishCheck, Ordered, Notify, Goto, locks, epochs, tx, store, ReleaseAll,
     Free, Types, OpenTx
<1>10. CASE Publish(t) BY <1>10, PlaceOfCommit DEF Publish, Goto, store, Types, OpenTx
<1>11. CASE StartUndo(t) \/ EndUndo(t)
  BY <1>11 DEF StartUndo, EndUndo, Goto, epochs, tx, store, Types, OpenTx
<1>12. CASE Abort(t) BY <1>12, PlaceOfAbort DEF Abort, Goto, locks, epochs, store, Types, OpenTx
<1>13. CASE SetPoisoned(t) \/ BarEpochs(t) \/ WakeTurn(t) \/ Wake(t)
  BY <1>13 DEF SetPoisoned, BarEpochs, WakeTurn, Wake, Goto, locks, tx, store, epochs, ReleaseAll,
     Free, AfterError, Types, OpenTx
<1>14. QED
  BY <1>1, <1>2, <1>3, <1>4, <1>5, <1>6, <1>7, <1>8, <1>9, <1>10, <1>11, <1>12,
     <1>13 DEF Step

\* Every step keeps the idle gate.
LEMMA GateKept ==
  ASSUME Types, PlaceInv, LockInv, GateInv, activeCount = 0 => OpenTx = {}, NEW t \in Proc,
         Step(t)
  PROVE  GateInv'
<1>1. CASE Begin(t) \/ BeginRefused(t)
  BY <1>1, SMT DEF Begin, BeginRefused, Goto, locks, epochs, store, tx, Types, PlaceInv, GateInv
<1>2. CASE IdleGate(t)
  BY <1>2, ProcAssumption DEF IdleGate, Goto, epochs, tx, store, Types, PlaceInv, GateInv
<1>3. CASE StartWrite(t) \/ EndWrite(t) \/ RefuseRecord(t)
  BY <1>3, SMT DEF StartWrite, EndWrite, RefuseRecord, Goto, epochs, tx, store, locks, Types,
     PlaceInv,
     GateInv
<1>4. CASE LockCommit(t) \/ TakeTurn(t) \/ Sleep(t) \/ WaitCheck(t) \/ CheckRefused(t)
  BY <1>4, SMTT(30) DEF LockCommit, TakeTurn, Sleep, WaitCheck, CheckRefused, Goto, WaitsForWritten,
     epochs,
     tx, store, AllWritten, ReleaseAll, Free, AfterError, Types, PlaceInv, GateInv
<1>5. CASE FreezeWrites(t) \/ Held(t) \/ EndHold(t) \/ CloseForWrites(t)
  BY <1>5, SMT DEF FreezeWrites, Held, EndHold, CloseForWrites, Goto, epochs, tx, store, locks,
     ReleaseAll, Free, Types, PlaceInv, GateInv
<1>6. CASE HoldForChange(t) \/ Apply(t) \/ Announce(t) \/ ApplyFails(t)
  BY <1>6, SMT DEF HoldForChange, Apply, Announce, ApplyFails, Goto, locks, epochs, tx, store,
     ReleaseAll, Free, Types, PlaceInv, GateInv
<1>7. CASE StartCommit(t) \/ Stamp(t) \/ LogWritten(t) \/ LogCutBack(t)
  BY <1>7, SMT DEF StartCommit, Stamp, LogWritten, LogCutBack, Goto, locks, store, epochs, tx,
     ReleaseAll, Free, Types, PlaceInv, GateInv
<1>8. CASE Sync(t) \/ PublishCheck(t) \/ Ordered(t) \/ Notify(t)
  BY <1>8, SMT DEF Sync, PublishCheck, Ordered, Notify, Goto, locks, epochs, tx, store, ReleaseAll,
     Free, Types, PlaceInv, GateInv
<1>9. CASE Publish(t)
  BY <1>9, PlaceOfCommit, SMT DEF Publish, Goto, store, Types, PlaceInv, GateInv, OpenTx
<1>10. CASE StartUndo(t) \/ EndUndo(t)
  BY <1>10, SMT DEF StartUndo, EndUndo, Goto, epochs, tx, store, Types, PlaceInv, GateInv
<1>11. CASE Abort(t)
  BY <1>11, PlaceOfAbort, SMT DEF Abort, Goto, locks, epochs, store, Types, PlaceInv, GateInv,
     OpenTx
<1>12. CASE SetPoisoned(t) \/ BarEpochs(t) \/ WakeTurn(t) \/ Wake(t)
  BY <1>12, SMTT(30) DEF SetPoisoned, BarEpochs, WakeTurn, Wake, Goto, locks, tx, store, epochs,
     ReleaseAll,
     Free, AfterError, Types, PlaceInv, GateInv
<1>13. QED
  BY <1>1, <1>2, <1>3, <1>4, <1>5, <1>6, <1>7, <1>8, <1>9, <1>10, <1>11, <1>12 DEF Step

\* Every step keeps the freeze.
LEMMA FreezeKept ==
  ASSUME Types, FreezeInv, NEW t \in Proc, Step(t)
  PROVE  FreezeInv'
<1>1. CASE Begin(t) \/ BeginRefused(t) \/ IdleGate(t)
  BY <1>1, ProcAssumption, SMT DEF Begin, BeginRefused, IdleGate, Goto, locks, epochs, store, tx,
     Types, FreezeInv
<1>2. CASE StartWrite(t) \/ EndWrite(t) \/ RefuseRecord(t)
  BY <1>2, ProcAssumption DEF StartWrite, EndWrite, RefuseRecord, Goto, epochs, tx, store, locks,
     Types, FreezeInv
<1>3. CASE LockCommit(t) \/ TakeTurn(t) \/ Sleep(t) \/ WaitCheck(t) \/ CheckRefused(t)
  BY <1>3, ProcAssumption DEF LockCommit, TakeTurn, Sleep, WaitCheck, CheckRefused, Goto,
     WaitsForWritten, epochs, tx, store, AllWritten, ReleaseAll, Free, AfterError, Types,
     FreezeInv
<1>4. CASE FreezeWrites(t) \/ Held(t) \/ EndHold(t) \/ CloseForWrites(t)
  BY <1>4, ProcAssumption, SMT DEF FreezeWrites, Held, EndHold, CloseForWrites, Goto, epochs, tx,
     store, locks, ReleaseAll, Free, Types, FreezeInv
<1>5. CASE HoldForChange(t) \/ Apply(t) \/ Announce(t) \/ ApplyFails(t)
  BY <1>5, ProcAssumption, SMTT(30) DEF HoldForChange, Apply, Announce, ApplyFails, Goto, locks,
     epochs, tx,
     store, ReleaseAll, Free, Types, FreezeInv
<1>6. CASE StartCommit(t) \/ Stamp(t) \/ LogWritten(t) \/ LogCutBack(t)
  BY <1>6, ProcAssumption, SMT DEF StartCommit, Stamp, LogWritten, LogCutBack, Goto, locks, store,
     epochs, tx, ReleaseAll, Free, Types, FreezeInv
<1>7. CASE Sync(t) \/ PublishCheck(t) \/ Ordered(t) \/ Publish(t) \/ Notify(t)
  BY <1>7, ProcAssumption, SMT DEF Sync, PublishCheck, Ordered, Publish, Notify, Goto, locks,
     epochs,
     tx, store, ReleaseAll, Free, Types, FreezeInv
<1>8. CASE StartUndo(t) \/ EndUndo(t) \/ Abort(t)
  BY <1>8, ProcAssumption DEF StartUndo, EndUndo, Abort, Goto, epochs, tx, store, locks, Types,
     FreezeInv
<1>9. CASE SetPoisoned(t) \/ BarEpochs(t) \/ WakeTurn(t) \/ Wake(t)
  BY <1>9, ProcAssumption DEF SetPoisoned, BarEpochs, WakeTurn, Wake, Goto, locks, tx, store,
     epochs, ReleaseAll, Free, AfterError, Types, FreezeInv
<1>10. QED
  BY <1>1, <1>2, <1>3, <1>4, <1>5, <1>6, <1>7, <1>8, <1>9 DEF Step

\* A step takes an epoch for its thread only, and only its first.
LEMMA SpentMoves ==
  ASSUME Types, PlaceInv, EpochInv, NEW t \in Proc, Step(t)
  PROVE  /\ Spent \subseteq Spent'
         /\ \/ assigned' <= assigned
            \/ assigned' = assigned + 1 /\ t \in Spent' /\ t \notin Spent
<1>1. CASE Begin(t) \/ BeginRefused(t) \/ IdleGate(t)
  BY <1>1, SMT DEF Begin, BeginRefused, IdleGate, Goto, locks, epochs, store, tx, Types, PlaceInv,
     Spent
<1>2. CASE StartWrite(t) \/ EndWrite(t) \/ RefuseRecord(t)
  BY <1>2, SMT DEF StartWrite, EndWrite, RefuseRecord, Goto, epochs, tx, store, locks, Types,
     PlaceInv,
     Spent
<1>3. CASE LockCommit(t) \/ TakeTurn(t) \/ Sleep(t) \/ WaitCheck(t) \/ CheckRefused(t)
  BY <1>3, SMTT(30) DEF LockCommit, TakeTurn, Sleep, WaitCheck, CheckRefused, Goto, WaitsForWritten,
     epochs,
     tx, store, AllWritten, ReleaseAll, Free, AfterError, Types, PlaceInv, Spent
<1>4. CASE FreezeWrites(t) \/ Held(t) \/ EndHold(t) \/ CloseForWrites(t)
  BY <1>4, SMT DEF FreezeWrites, Held, EndHold, CloseForWrites, Goto, epochs, tx, store, locks,
     ReleaseAll, Free, Types, PlaceInv, Spent
<1>5. CASE HoldForChange(t) \/ Announce(t) \/ ApplyFails(t)
  BY <1>5, SMT DEF HoldForChange, Announce, ApplyFails, Goto, locks, epochs, tx, store, ReleaseAll,
     Free, Types, PlaceInv, Spent
<1>6. CASE Apply(t) BY <1>6, SMT DEF Apply, Goto, locks, tx, Types, PlaceInv, Spent, EpochInv
<1>7. CASE StartCommit(t) \/ Stamp(t) \/ LogWritten(t)
  BY <1>7, SMT DEF StartCommit, Stamp, LogWritten, Goto, locks, store, epochs, tx, Types, PlaceInv,
     Spent
<1>8. CASE LogCutBack(t)
  BY <1>8, PlaceOfCommit, SMTT(30) DEF LogCutBack, Goto, ReleaseAll, Free, store, Types, PlaceInv, Spent,
     EpochInv
<1>9. CASE Sync(t) \/ PublishCheck(t) \/ Ordered(t) \/ Publish(t) \/ Notify(t)
  BY <1>9, SMT DEF Sync, PublishCheck, Ordered, Publish, Notify, Goto, locks, epochs, tx, store,
     ReleaseAll, Free, Types, PlaceInv, Spent
<1>10. CASE StartUndo(t) \/ EndUndo(t) \/ Abort(t)
  BY <1>10, SMT DEF StartUndo, EndUndo, Abort, Goto, epochs, tx, store, locks, Types, PlaceInv,
     Spent
<1>11. CASE SetPoisoned(t) \/ BarEpochs(t) \/ WakeTurn(t) \/ Wake(t)
  BY <1>11, SMTT(30) DEF SetPoisoned, BarEpochs, WakeTurn, Wake, Goto, locks, tx, store, epochs,
     ReleaseAll,
     Free, AfterError, Types, PlaceInv, Spent
<1>12. QED
  BY <1>1, <1>2, <1>3, <1>4, <1>5, <1>6, <1>7, <1>8, <1>9, <1>10, <1>11 DEF Step

\* Every step keeps the epochs.
LEMMA EpochKept ==
  ASSUME Types, PlaceInv, LockInv, EpochInv, WaitInv, NEW t \in Proc, Step(t)
  PROVE  EpochInv'
<1>1. CASE Begin(t) \/ BeginRefused(t) \/ IdleGate(t)
  BY <1>1, ProcAssumption, SMTT(30) DEF Begin, BeginRefused, IdleGate, Goto, locks, epochs, store, tx,
     Types, EpochInv
<1>2. CASE StartWrite(t) \/ EndWrite(t) \/ RefuseRecord(t)
  BY <1>2, ProcAssumption, SMT DEF StartWrite, EndWrite, RefuseRecord, Goto, epochs, tx, store,
     locks,
     Types, EpochInv
<1>3. CASE TakeTurn(t) \/ Sleep(t) \/ WaitCheck(t) \/ CheckRefused(t)
  BY <1>3, ProcAssumption, SMT DEF TakeTurn, Sleep, WaitCheck, CheckRefused, Goto, epochs, tx,
     store,
     AllWritten, ReleaseAll, Free, AfterError, Types, EpochInv
<1>4. CASE LockCommit(t)
  BY <1>4, ProcAssumption DEF LockCommit, Goto, WaitsForWritten, epochs, tx, store, Types,
     EpochInv, PlaceInv
<1>5. CASE FreezeWrites(t) \/ Held(t) \/ EndHold(t) \/ CloseForWrites(t)
  BY <1>5, ProcAssumption, SMT DEF FreezeWrites, Held, EndHold, CloseForWrites, Goto, epochs, tx,
     store, locks, ReleaseAll, Free, Types, EpochInv
<1>6. CASE HoldForChange(t) \/ Announce(t) \/ ApplyFails(t)
  BY <1>6, ProcAssumption, SMT DEF HoldForChange, Announce, ApplyFails, Goto, locks, epochs, tx,
     store,
     ReleaseAll, Free, Types, EpochInv
<1>7. CASE Apply(t)
  <2>1. published = assigned
    BY <1>7 DEF Apply, WaitInv
  <2>2. \A u \in Proc : state[u] # "Committing"
    BY <2>1, SMT DEF EpochInv, Types
  <2>3. \A u \in Proc : pc[u] \notin {"ordered", "publish"}
    BY <2>2, PlaceOfCommit
  <2>4. QED
    BY <1>7, <2>1, <2>2, <2>3, SMT DEF Apply, Goto, locks, tx, Types, EpochInv
<1>8. CASE Stamp(t) \/ LogWritten(t)
  BY <1>8, ProcAssumption, SMTT(30) DEF Stamp, LogWritten, Goto, locks, epochs, tx, store, Types,
     EpochInv
<1>9. CASE StartCommit(t)
  BY <1>9, ProcAssumption, SMTT(30) DEF StartCommit, Goto, locks, store, Types, EpochInv, PlaceInv,
     LockInv
<1>10. CASE LogCutBack(t)
  <2>1. state[t] = "Committing"
    BY <1>10, PlaceOfCommit DEF LogCutBack
  <2>2. epochOf[t] = assigned /\ published < assigned /\ commitLock = t
    BY <1>10, <2>1 DEF LogCutBack, EpochInv, LockInv
  <2>3. \A u \in Proc : u # t /\ state[u] = "Committing" => epochOf[u] < assigned
    BY <2>1, <2>2, SMT DEF EpochInv, Types
  <2>4. QED
    BY <1>10, <2>2, <2>3, ProcAssumption, SMT DEF LogCutBack, Goto, ReleaseAll, Free, store, Types,
       EpochInv
<1>11. CASE Sync(t) \/ Ordered(t) \/ Notify(t)
  BY <1>11, ProcAssumption, SMT DEF Sync, Ordered, Notify, Goto, locks, epochs, tx, store,
     ReleaseAll,
     Free, Types, EpochInv
<1>12. CASE PublishCheck(t)
  <2>1. state[t] = "Committing"
    BY <1>12, PlaceOfCommit DEF PublishCheck
  <2>2. InTurn(t) => epochOf[t] = published + 1
    BY <2>1, SMT DEF InTurn, EpochInv, Types
  <2>3. QED
    BY <1>12, <2>1, <2>2, ProcAssumption, SMT DEF PublishCheck, Goto, ReleaseAll, Free, epochs, tx,
       store, Types, EpochInv
<1>13. CASE Publish(t)
  <2>1. state[t] = "Committing"
    BY <1>13, PlaceOfCommit DEF Publish
  <2>2. epochOf[t] = published + 1 /\ published' = published + 1
    BY <1>13, SMT DEF Publish, EpochInv, Types
  <2>3. \A u \in Proc : u # t /\ state[u] = "Committing" => epochOf[u] > published + 1
    BY <2>1, <2>2, SMT DEF EpochInv, Types
  <2>4. \A u \in Proc : u # t => pc[u] \notin {"ordered", "publish"}
    BY <1>13 DEF Publish, LockInv
  <2>5. QED
    BY <1>13, <2>1, <2>2, <2>3, <2>4 DEF Publish, Goto, store, Types, EpochInv
<1>14. CASE StartUndo(t) \/ EndUndo(t) \/ Abort(t)
  BY <1>14, ProcAssumption, SMT DEF StartUndo, EndUndo, Abort, Goto, epochs, tx, store, locks,
     Types,
     EpochInv
<1>15. CASE SetPoisoned(t)
  BY <1>15, ProcAssumption DEF SetPoisoned, Goto, locks, tx, store, Types, EpochInv
<1>16. CASE BarEpochs(t)
  BY <1>16, ProcAssumption DEF BarEpochs, Goto, locks, tx, store, Types, EpochInv
<1>17. CASE WakeTurn(t)
  BY <1>17, ProcAssumption DEF WakeTurn, Goto, locks, epochs, tx, store, Types, EpochInv
<1>18. CASE Wake(t)
  BY <1>18, ProcAssumption DEF Wake, Goto, ReleaseAll, Free, AfterError, epochs, tx, Types,
     EpochInv
<1>19. QED
  BY <1>1, <1>2, <1>3, <1>4, <1>5, <1>6, <1>7, <1>8, <1>9, <1>10, <1>11, <1>12,
     <1>13, <1>14, <1>15, <1>16, <1>17, <1>18 DEF Step

\* Every step keeps alone who waited.
LEMMA WaitKept ==
  ASSUME Types, PlaceInv, LockInv, EpochInv, WaitInv, NEW t \in Proc, Step(t)
  PROVE  WaitInv'
<1>1. CASE Begin(t) \/ BeginRefused(t) \/ IdleGate(t)
  BY <1>1, SMTT(30) DEF Begin, BeginRefused, IdleGate, Goto, locks, epochs, store, tx, Types, PlaceInv,
     LockInv, WaitInv
<1>2. CASE StartWrite(t) \/ EndWrite(t) \/ RefuseRecord(t)
  BY <1>2, SMTT(30) DEF StartWrite, EndWrite, RefuseRecord, Goto, epochs, tx, store, locks, Types,
     PlaceInv,
     LockInv, WaitInv
<1>3. CASE TakeTurn(t) \/ Sleep(t) \/ CheckRefused(t)
  BY <1>3, SMT DEF TakeTurn, Sleep, CheckRefused, Goto, epochs, tx, store, ReleaseAll, Free,
     AfterError, Types, PlaceInv, LockInv, WaitInv
<1>4. CASE LockCommit(t)
  BY <1>4, SMT DEF LockCommit, Goto, WaitsForWritten, epochs, tx, store, Types, PlaceInv, LockInv,
     WaitInv
<1>5. CASE WaitCheck(t)
  BY <1>5, SMTT(30) DEF WaitCheck, Goto, AllWritten, epochs, tx, store, Types, PlaceInv, LockInv,
     WaitInv,
     EpochInv
<1>6. CASE FreezeWrites(t) \/ Held(t) \/ EndHold(t) \/ CloseForWrites(t)
  BY <1>6, SMTT(30) DEF FreezeWrites, Held, EndHold, CloseForWrites, Goto, epochs, tx, store, locks,
     ReleaseAll, Free, Types, PlaceInv, LockInv, WaitInv
<1>7. CASE HoldForChange(t) \/ Announce(t) \/ ApplyFails(t)
  BY <1>7, SMTT(30) DEF HoldForChange, Announce, ApplyFails, Goto, locks, epochs, tx, store, ReleaseAll,
     Free, Types, PlaceInv, LockInv, WaitInv
<1>8. CASE Apply(t)
  BY <1>8, SMTT(30) DEF Apply, Goto, locks, tx, Types, PlaceInv, LockInv, WaitInv, EpochInv
<1>9. CASE Stamp(t) \/ LogWritten(t)
  BY <1>9, SMTT(30) DEF Stamp, LogWritten, Goto, locks, epochs, tx, store, Types, PlaceInv, LockInv,
     WaitInv
<1>10. CASE StartCommit(t)
  BY <1>10, SMT DEF StartCommit, Goto, locks, store, Types, PlaceInv, LockInv, WaitInv, EpochInv
<1>11. CASE LogCutBack(t)
  <2>1. state[t] = "Committing"
    BY <1>11, PlaceOfCommit DEF LogCutBack
  <2>2. epochOf[t] = assigned /\ published < assigned /\ commitLock = t
    BY <1>11, <2>1 DEF LogCutBack, EpochInv, LockInv
  <2>3. \A u \in Proc : u # t /\ state[u] = "Committing" => epochOf[u] # assigned
    BY <2>1, <2>2 DEF EpochInv, Types
  <2>4. QED
    BY <1>11, <2>2, <2>3 DEF LogCutBack, Goto, ReleaseAll, Free, store, Types, WaitInv, LockInv
<1>12. CASE Sync(t) \/ PublishCheck(t) \/ Ordered(t) \/ Notify(t)
  BY <1>12, SMT DEF Sync, PublishCheck, Ordered, Notify, Goto, locks, epochs, tx, store, ReleaseAll,
     Free, Types, PlaceInv, LockInv, WaitInv
<1>13. CASE Publish(t)
  <2>1. state[t] = "Committing"
    BY <1>13, PlaceOfCommit DEF Publish
  <2>2. epochOf[t] = published + 1 /\ published' = published + 1 /\ published < assigned
    BY <1>13, <2>1, SMT DEF Publish, EpochInv, Types
  <2>3. \A u \in Proc : u # t => ~(job[u] = "Schema" /\ state[u] = "Committing")
    BY <2>1, <2>2 DEF EpochInv, Types, WaitInv
  <2>4. QED
    BY <1>13, <2>1, <2>2, <2>3, SMT DEF Publish, Goto, store, Types, WaitInv
<1>14. CASE StartUndo(t) \/ EndUndo(t) \/ Abort(t)
  BY <1>14, SMTT(30) DEF StartUndo, EndUndo, Abort, Goto, epochs, tx, store, locks, Types, PlaceInv,
     LockInv, WaitInv
<1>15. CASE SetPoisoned(t) \/ BarEpochs(t) \/ WakeTurn(t) \/ Wake(t)
  BY <1>15, SMT DEF SetPoisoned, BarEpochs, WakeTurn, Wake, Goto, locks, tx, store, epochs,
     ReleaseAll,
     Free, AfterError, Types, PlaceInv, LockInv, WaitInv
<1>16. QED
  BY <1>1, <1>2, <1>3, <1>4, <1>5, <1>6, <1>7, <1>8, <1>9, <1>10, <1>11, <1>12,
     <1>13, <1>14, <1>15 DEF Step

\* Every step keeps what poisoning says.
LEMMA PoisonKept ==
  ASSUME Types, PoisonInv, NEW t \in Proc, Step(t)
  PROVE  PoisonInv'
<1>1. CASE Begin(t) \/ BeginRefused(t) \/ IdleGate(t)
  BY <1>1 DEF Begin, BeginRefused, IdleGate, Goto, locks, epochs, store, tx, Types, PoisonInv
<1>2. CASE StartWrite(t) \/ EndWrite(t) \/ RefuseRecord(t)
  BY <1>2 DEF StartWrite, EndWrite, RefuseRecord, Goto, epochs, tx, store, locks, Types, PoisonInv
<1>3. CASE LockCommit(t) \/ TakeTurn(t) \/ Sleep(t) \/ WaitCheck(t) \/ CheckRefused(t)
  BY <1>3 DEF LockCommit, TakeTurn, Sleep, WaitCheck, CheckRefused, Goto, WaitsForWritten, epochs,
     tx, store, AllWritten, ReleaseAll, Free, AfterError, Types, PoisonInv
<1>4. CASE FreezeWrites(t) \/ Held(t) \/ EndHold(t) \/ CloseForWrites(t)
  BY <1>4 DEF FreezeWrites, Held, EndHold, CloseForWrites, Goto, epochs, tx, store, locks,
     ReleaseAll, Free, Types, PoisonInv
<1>5. CASE HoldForChange(t) \/ Apply(t) \/ Announce(t) \/ ApplyFails(t)
  BY <1>5 DEF HoldForChange, Apply, Announce, ApplyFails, Goto, locks, epochs, tx, store,
     ReleaseAll, Free, Types, PoisonInv
<1>6. CASE StartCommit(t) \/ Stamp(t) \/ LogWritten(t) \/ LogCutBack(t)
  BY <1>6 DEF StartCommit, Stamp, LogWritten, LogCutBack, Goto, locks, store, epochs, tx,
     ReleaseAll, Free, Types, PoisonInv
<1>7. CASE Sync(t) \/ PublishCheck(t) \/ Ordered(t) \/ Publish(t) \/ Notify(t)
  BY <1>7 DEF Sync, PublishCheck, Ordered, Publish, Notify, Goto, locks, epochs, tx, store,
     ReleaseAll, Free, Types, PoisonInv
<1>8. CASE StartUndo(t) \/ EndUndo(t) \/ Abort(t)
  BY <1>8 DEF StartUndo, EndUndo, Abort, Goto, epochs, tx, store, locks, Types, PoisonInv
<1>9. CASE SetPoisoned(t) \/ BarEpochs(t) \/ WakeTurn(t) \/ Wake(t)
  BY <1>9 DEF SetPoisoned, BarEpochs, WakeTurn, Wake, Goto, locks, tx, store, epochs, ReleaseAll,
     Free, AfterError, Types, PoisonInv
<1>10. QED
  BY <1>1, <1>2, <1>3, <1>4, <1>5, <1>6, <1>7, <1>8, <1>9 DEF Step
=============================================================================
