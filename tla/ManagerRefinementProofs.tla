----------------------- MODULE ManagerRefinementProofs -----------------------
(*****************************************************************************)
(* The threads of CommitPublish implement the manager of TransactionManager: *)
(* every step of a thread is one step of the manager, or one it does not see. *)
(*****************************************************************************)
EXTENDS ManagerRefinement, CommitPublishProofs

\* Zenon proves a step unless the step names another prover.
USE Zenon

\* What the threads hold of the manager, apart from handles, turn and holds.
core == <<assigned, published, activeCount, poisoned, unpublishableFrom, closed, state, private,
          start, epochOf, committedTx, direct>>

\* A step that leaves that alone, and the rest of the mapping, is none of the
\* manager's.
LEMMA Quiet ==
  ASSUME UNCHANGED core, HeldFor' = HeldFor, TurnOf' = TurnOf, HandlesOf' = HandlesOf
  PROVE  UNCHANGED Manager!vars
BY DEF core, Manager!vars, EpochsKept

\* A manager with no transaction is where the threads begin.
LEMMA InitMaps == Init => Manager!Init
<1> SUFFICES ASSUME Init PROVE Manager!Init
  OBVIOUS
<1>1. HeldFor = "No" /\ TurnOf = {}
  BY FirstPlaces DEF HeldFor, TurnOf
<1>2. EpochsKept = {} /\ HandlesOf = [t \in Proc |-> "None"]
  BY DEF Init, EpochsKept, HandlesOf, HandleOf
<1>3. QED
  BY <1>1, <1>2 DEF Init, Manager!Init, NoClaim, Manager!NoClaims

\* The commit lock has one owner, so at most one thread holds for a change.
LEMMA OneHolds ==
  ASSUME Types, PlaceInv, LockInv, NEW t \in Proc, commitLock = t
  PROVE  HeldFor = IF pc[t] # "apply" THEN "No"
                   ELSE IF job[t] = "Direct" THEN "Direct" ELSE "Change"
BY SMT DEF Types, PlaceInv, LockInv, HeldFor

\* A step leaves the handles of the other threads alone.
LEMMA OtherHandles ==
  ASSUME Types, PlaceInv, LockInv, EpochInv, WaitInv, NEW t \in Proc, Step(t),
         NEW u \in Proc \ {t}
  PROVE  HandleOf(u)' = HandleOf(u)
<1>1. CASE Begin(t) \/ BeginRefused(t) \/ IdleGate(t)
  BY <1>1, ProcAssumption, SMT DEF Begin, BeginRefused, IdleGate, Goto, locks, epochs, store, tx,
     Types, HandleOf
<1>2. CASE StartWrite(t) \/ EndWrite(t) \/ RefuseRecord(t)
  BY <1>2, ProcAssumption DEF StartWrite, EndWrite, RefuseRecord, Goto, epochs, tx, store, locks,
     Types, HandleOf
<1>3. CASE LockCommit(t) \/ TakeTurn(t) \/ Sleep(t) \/ WaitCheck(t) \/ CheckRefused(t)
  BY <1>3, ProcAssumption, SMT DEF LockCommit, TakeTurn, Sleep, WaitCheck, CheckRefused, Goto,
     WaitsForWritten, epochs, tx, store, AllWritten, ReleaseAll, Free, AfterError, Types, HandleOf
<1>4. CASE FreezeWrites(t) \/ Held(t) \/ EndHold(t) \/ CloseForWrites(t)
  BY <1>4, ProcAssumption, SMT DEF FreezeWrites, Held, EndHold, CloseForWrites, Goto, epochs, tx,
     store, locks, ReleaseAll, Free, Types, HandleOf
<1>5. CASE HoldForChange(t) \/ Announce(t)
  BY <1>5, ProcAssumption DEF HoldForChange, Announce, Goto, locks, epochs, tx, store, ReleaseAll,
     Free, Types, HandleOf
<1>6. CASE Apply(t)
  BY <1>6, ProcAssumption, SMTT(30) DEF Apply, Goto, locks, tx, Types, HandleOf, WaitInv, EpochInv
<1>7. CASE ApplyFails(t)
  BY <1>7, ProcAssumption, SMTT(30) DEF ApplyFails, Goto, ReleaseAll, Free, locks, epochs, tx, store,
     Types,
     HandleOf, WaitInv, EpochInv
<1>8. CASE StartCommit(t) \/ LogCutBack(t)
  BY <1>8, ProcAssumption, SMT DEF StartCommit, LogCutBack, Goto, locks, store, ReleaseAll, Free,
     Types, HandleOf
<1>9. CASE Stamp(t)
  BY <1>9, ProcAssumption, PlaceOfCommit DEF Stamp, Goto, locks, epochs, tx, Types, HandleOf,
     EpochInv
<1>10. CASE LogWritten(t)
  BY <1>10, ProcAssumption, SMTT(30) DEF LogWritten, Goto, epochs, tx, store, Types, HandleOf, LockInv
<1>11. CASE Sync(t) \/ PublishCheck(t) \/ Publish(t) \/ Notify(t)
  BY <1>11, ProcAssumption, SMTT(30) DEF Sync, PublishCheck, Publish, Notify, Goto, locks, epochs, tx,
     store, ReleaseAll, Free, Types, HandleOf
<1>12. CASE Ordered(t)
  BY <1>12, ProcAssumption, PlaceOfCommit DEF Ordered, Goto, epochs, tx, Types, HandleOf, EpochInv
<1>13. CASE StartUndo(t) \/ EndUndo(t) \/ Abort(t)
  BY <1>13, ProcAssumption DEF StartUndo, EndUndo, Abort, Goto, epochs, tx, store, locks, Types,
     HandleOf
<1>14. CASE SetPoisoned(t) \/ BarEpochs(t) \/ WakeTurn(t) \/ Wake(t)
  BY <1>14, ProcAssumption DEF SetPoisoned, BarEpochs, WakeTurn, Wake, Goto, locks, tx, store,
     epochs, ReleaseAll, Free, AfterError, Types, HandleOf
<1>15. QED
  BY <1>1, <1>2, <1>3, <1>4, <1>5, <1>6, <1>7, <1>8, <1>9, <1>10, <1>11, <1>12,
     <1>13, <1>14 DEF Step

\* So a step changes at most the handle of its thread.
LEMMA HandlesMove ==
  ASSUME Types, PlaceInv, LockInv, EpochInv, WaitInv, NEW t \in Proc, Step(t)
  PROVE  HandlesOf' = [HandlesOf EXCEPT ![t] = HandleOf(t)']
<1>1. \A u \in Proc \ {t} : HandleOf(u)' = HandleOf(u)
  BY OtherHandles
<1>2. QED
  BY <1>1 DEF HandlesOf

\* A step from a place to another without a hold leaves the hold alone.
LEMMA HeldStays ==
  ASSUME Types, NEW t \in Proc, NEW p, Goto(t, p), pc[t] # "apply", p # "apply"
  PROVE  HeldFor' = HeldFor
BY DEF Types, Goto, HeldFor

\* A step between two places that are both in the turn, or both not.
LEMMA TurnStays ==
  ASSUME Types, NEW t \in Proc, NEW p, Goto(t, p),
         pc[t] \in {"ordered", "publish"} <=> p \in {"ordered", "publish"}
  PROVE  TurnOf' = TurnOf
BY DEF Types, Goto, TurnOf

\* A step that changes nothing the manager has.
LEMMA QuietStep ==
  ASSUME Types, PlaceInv, LockInv, EpochInv, WaitInv, NEW t \in Proc, Step(t), UNCHANGED core,
         UNCHANGED job, pc' = [pc EXCEPT ![t] = pc'[t]], pc[t] # "apply", pc'[t] # "apply",
         pc[t] \in {"ordered", "publish"} <=> pc'[t] \in {"ordered", "publish"},
         HandleOf(t)' = HandleOf(t)
  PROVE  UNCHANGED Manager!vars
<1>1. HandlesOf' = HandlesOf
  <2>1. HandlesOf' = [HandlesOf EXCEPT ![t] = HandleOf(t)]
    BY HandlesMove
  <2>2. QED
    BY <2>1 DEF HandlesOf
<1>2. Goto(t, pc'[t])
  BY DEF Goto
<1>3. HeldFor' = HeldFor /\ TurnOf' = TurnOf
  BY <1>2, HeldStays, TurnStays
<1>4. QED
  BY <1>1, <1>3, Quiet

\* The steps of a thread that the manager does not see.
LEMMA QuietSteps ==
  ASSUME Types, PlaceInv, LockInv, EpochInv, WaitInv, NEW t \in Proc, Step(t),
         \/ BeginRefused(t) \/ IdleGate(t) \/ StartWrite(t) \/ EndWrite(t) \/ RefuseRecord(t)
         \/ LockCommit(t) \/ TakeTurn(t) \/ Sleep(t) \/ WaitCheck(t) \/ CheckRefused(t)
         \/ FreezeWrites(t) \/ Held(t) \/ EndHold(t) \/ Announce(t) \/ Notify(t)
         \/ StartUndo(t) \/ EndUndo(t) \/ WakeTurn(t) \/ Wake(t)
  PROVE  UNCHANGED Manager!vars
<1>1. CASE BeginRefused(t) \/ IdleGate(t) \/ StartWrite(t) \/ EndWrite(t) \/ RefuseRecord(t)
  <2>1. UNCHANGED core
    BY <1>1 DEF BeginRefused, IdleGate, StartWrite, EndWrite, RefuseRecord, Goto, locks, epochs,
       tx, store, core
  <2>2. /\ UNCHANGED job /\ pc' = [pc EXCEPT ![t] = pc'[t]] /\ pc[t] # "apply" /\ pc'[t] # "apply"
        /\ pc[t] \notin {"ordered", "publish"} /\ pc'[t] \notin {"ordered", "publish"}
    BY <1>1 DEF BeginRefused, IdleGate, StartWrite, EndWrite, RefuseRecord, Goto, locks, epochs,
       tx, store, Types
  <2>3. HandleOf(t)' = HandleOf(t)
    BY <1>1, ProcAssumption DEF BeginRefused, IdleGate, StartWrite, EndWrite, RefuseRecord, Goto,
       locks, epochs, tx, store, HandleOf, Types, PlaceInv, LockInv
  <2>4. QED
    BY <2>1, <2>2, <2>3, QuietStep
<1>2. CASE LockCommit(t) \/ TakeTurn(t) \/ Sleep(t) \/ WaitCheck(t) \/ CheckRefused(t)
  <2>1. UNCHANGED core
    BY <1>2 DEF LockCommit, TakeTurn, Sleep, WaitCheck, CheckRefused, Goto, WaitsForWritten,
       epochs, tx, store, AllWritten, ReleaseAll, Free, AfterError, core
  <2>2. /\ UNCHANGED job /\ pc' = [pc EXCEPT ![t] = pc'[t]] /\ pc[t] # "apply" /\ pc'[t] # "apply"
        /\ pc[t] \notin {"ordered", "publish"} /\ pc'[t] \notin {"ordered", "publish"}
    BY <1>2 DEF LockCommit, TakeTurn, Sleep, WaitCheck, CheckRefused, Goto, WaitsForWritten,
       epochs, tx, store, AllWritten, ReleaseAll, Free, AfterError, Types
  <2>3. HandleOf(t)' = HandleOf(t)
    BY <1>2, ProcAssumption, SMTT(30) DEF LockCommit, TakeTurn, Sleep, WaitCheck, CheckRefused, Goto,
       WaitsForWritten, epochs, tx, store, AllWritten, ReleaseAll, Free, AfterError, HandleOf,
       Types, PlaceInv, LockInv
  <2>4. QED
    BY <2>1, <2>2, <2>3, QuietStep
<1>3. CASE FreezeWrites(t) \/ Held(t) \/ EndHold(t) \/ Announce(t) \/ Notify(t)
  <2>1. UNCHANGED core
    BY <1>3 DEF FreezeWrites, Held, EndHold, Announce, Notify, Goto, epochs, tx, store, locks,
       ReleaseAll, Free, core
  <2>2. /\ UNCHANGED job /\ pc' = [pc EXCEPT ![t] = pc'[t]] /\ pc[t] # "apply" /\ pc'[t] # "apply"
        /\ pc[t] \notin {"ordered", "publish"} /\ pc'[t] \notin {"ordered", "publish"}
    BY <1>3 DEF FreezeWrites, Held, EndHold, Announce, Notify, Goto, epochs, tx, store, locks,
       ReleaseAll, Free, Types
  <2>3. HandleOf(t)' = HandleOf(t)
    BY <1>3, ProcAssumption, SMTT(30) DEF FreezeWrites, Held, EndHold, Announce, Notify, Goto, epochs,
       tx,
       store, locks, ReleaseAll, Free, HandleOf, Types, PlaceInv, LockInv
  <2>4. QED
    BY <2>1, <2>2, <2>3, QuietStep
<1>4. CASE StartUndo(t) \/ EndUndo(t) \/ WakeTurn(t) \/ Wake(t)
  <2>1. UNCHANGED core
    BY <1>4 DEF StartUndo, EndUndo, WakeTurn, Wake, Goto, epochs, tx, store, locks, ReleaseAll,
       Free, AfterError, core
  <2>2. /\ UNCHANGED job /\ pc' = [pc EXCEPT ![t] = pc'[t]] /\ pc[t] # "apply" /\ pc'[t] # "apply"
        /\ pc[t] \notin {"ordered", "publish"} /\ pc'[t] \notin {"ordered", "publish"}
    BY <1>4 DEF StartUndo, EndUndo, WakeTurn, Wake, Goto, epochs, tx, store, locks, ReleaseAll,
       Free, AfterError, Types
  <2>3. HandleOf(t)' = HandleOf(t)
    BY <1>4, ProcAssumption, SMTT(30) DEF StartUndo, EndUndo, WakeTurn, Wake, Goto, epochs, tx, store,
       locks, ReleaseAll, Free, AfterError, HandleOf, Types, PlaceInv, LockInv
  <2>4. QED
    BY <2>1, <2>2, <2>3, QuietStep
<1>5. QED
  BY <1>1, <1>2, <1>3, <1>4

\* The new transaction of a thread is registered with the manager.
LEMMA BeginMaps ==
  ASSUME Types, PlaceInv, LockInv, EpochInv, WaitInv, GateInv, NEW t \in Proc, Step(t), Begin(t)
  PROVE  Manager!Begin(t) \/ Manager!BeginPrivate(t)
<1>1. HeldFor # "Direct"
  BY ProcAssumption DEF Begin, HeldFor, GateInv, PlaceInv, Types
<1>2. HandlesOf' = HandlesOf
  <2>1. HandleOf(t)' = HandleOf(t)
    BY DEF Begin, Goto, HandleOf, Types, PlaceInv
  <2>2. QED
    BY <2>1, HandlesMove DEF HandlesOf
<1>3. HeldFor' = HeldFor /\ TurnOf' = TurnOf
  BY HeldStays, TurnStays DEF Begin
<1>4. EpochsKept' = EpochsKept
  BY DEF Begin, EpochsKept, PlaceInv, Types
<1>5. Manager!Register(t, "SnapshotIsolation", job[t] = "Direct")
  BY <1>1, <1>2, <1>3, <1>4 DEF Begin, Manager!Register, PlaceInv, Types, epochs, store
<1>6. QED
  BY <1>5 DEF Begin, Manager!Begin, Manager!BeginPrivate

\* close() once the commits written are published.
LEMMA CloseMaps ==
  ASSUME Types, PlaceInv, LockInv, EpochInv, WaitInv, NEW t \in Proc, Step(t), CloseForWrites(t)
  PROVE  Manager!CloseForWrites
<1>1. commitLock = t /\ state[t] = "Unborn" /\ (poisoned \/ published = assigned)
  BY DEF CloseForWrites, PlaceInv, LockInv, WaitInv
<1>2. HandlesOf' = HandlesOf
  <2>1. HandleOf(t)' = HandleOf(t)
    BY <1>1 DEF CloseForWrites, Goto, HandleOf, Types, tx
  <2>2. QED
    BY <2>1, HandlesMove DEF HandlesOf
<1>3. HeldFor' = HeldFor /\ TurnOf' = TurnOf
  BY HeldStays, TurnStays DEF CloseForWrites
<1>4. ~Manager!CommitLocked
  <2>1. HeldFor = "No"
    BY <1>1, OneHolds DEF CloseForWrites
  <2>2. \A u \in Proc : HandleOf(u) # "Guard"
    BY <1>1 DEF HandleOf
  <2>3. QED
    BY <2>1, <2>2 DEF Manager!CommitLocked, HandlesOf
<1>5. EpochsKept' = EpochsKept
  BY DEF CloseForWrites, EpochsKept, tx
<1>6. QED
  BY <1>1, <1>2, <1>3, <1>4, <1>5, SMTT(30) DEF CloseForWrites, Manager!CloseForWrites, Types, tx, store

\* A direct write or an import takes its hold.
LEMMA HoldMaps ==
  ASSUME Types, PlaceInv, LockInv, EpochInv, WaitInv, GateInv, NEW t \in Proc, Step(t),
         HoldForChange(t)
  PROVE  Manager!HoldForDirect \/ Manager!HoldForChange
<1>1. commitLock = t /\ published = assigned
  BY DEF HoldForChange, LockInv, WaitInv
<1>2. HandlesOf' = HandlesOf
  <2>1. HandleOf(t)' = HandleOf(t)
    BY <1>1 DEF HoldForChange, Goto, HandleOf, Types, tx, locks
  <2>2. QED
    BY <2>1, HandlesMove DEF HandlesOf
<1>3. TurnOf' = TurnOf
  BY TurnStays DEF HoldForChange
<1>4. Manager!HoldsForChange
  <2>1. HeldFor = "No"
    BY <1>1, OneHolds DEF HoldForChange
  <2>2. \A u \in Proc : HandleOf(u) # "Guard"
    BY <1>1 DEF HandleOf, HoldForChange
  <2>3. QED
    BY <1>1, <2>1, <2>2, SMTT(30) DEF Manager!HoldsForChange, Manager!CommitLocked, HandlesOf,
       HoldForChange, Types
<1>5. EpochsKept' = EpochsKept
  BY DEF HoldForChange, EpochsKept, tx
<1>6. HeldFor' = IF job[t] = "Direct" THEN "Direct" ELSE "Change"
  BY <1>1 DEF HoldForChange, Goto, HeldFor, LockInv, Types
<1>7. job[t] = "Direct" => activeCount = 0
  BY ProcAssumption DEF HoldForChange, GateInv
<1>8. QED
  BY <1>1, <1>2, <1>3, <1>4, <1>5, <1>6, <1>7
     DEF HoldForChange, Manager!HoldForDirect, Manager!HoldForChange, Types, epochs, tx, store

\* It is applied at the next epoch, which is published at once.
LEMMA ApplyMaps ==
  ASSUME Types, PlaceInv, LockInv, EpochInv, WaitInv, assigned + 1 < EpochMax, NEW t \in Proc,
         Step(t), Apply(t)
  PROVE  Manager!DirectWrite(t) \/ Manager!Import
<1>1. /\ commitLock = t /\ published = assigned
      /\ state[t] = "Unborn" /\ job[t] \in {"Direct", "Import"}
  BY DEF Apply, LockInv, WaitInv, PlaceInv, Types
<1>2. HandlesOf' = HandlesOf
  <2>1. HandleOf(t)' = HandleOf(t)
    BY <1>1 DEF Apply, Goto, HandleOf, Types, tx, locks
  <2>2. QED
    BY <2>1, HandlesMove DEF HandlesOf
<1>3. TurnOf' = TurnOf
  BY TurnStays DEF Apply
<1>4. HeldFor = IF job[t] = "Direct" THEN "Direct" ELSE "Change"
  BY <1>1, OneHolds DEF Apply
<1>5. EpochsKept' = EpochsKept
  BY DEF Apply, EpochsKept, tx
<1>6. HeldFor' = "No"
  BY <1>1 DEF Apply, Goto, HeldFor, LockInv, Types
<1>7. Manager!SyncEpoch
  BY <1>1, <1>2, <1>3, <1>5, <1>6 DEF Apply, Manager!SyncEpoch, Types, tx
<1>8. QED
  BY <1>1, <1>4, <1>7 DEF Apply, Manager!DirectWrite, Manager!Import

\* It fails, before or after it was applied.
LEMMA ApplyFailsMaps ==
  ASSUME Types, PlaceInv, LockInv, EpochInv, WaitInv, NEW t \in Proc, Step(t), ApplyFails(t)
  PROVE  Manager!ReleaseHold
<1>1. commitLock = t /\ state[t] = "Unborn" /\ job[t] \in {"Direct", "Import"} /\ pc[t] = "apply"
  BY DEF ApplyFails, LockInv, PlaceInv, Types
<1>2. PICK p \in {"done", "poison"} : Goto(t, p)
  BY DEF ApplyFails
<1>3. HandlesOf' = HandlesOf
  <2>1. HandleOf(t)' = HandleOf(t)
    BY <1>1, <1>2 DEF ApplyFails, Goto, HandleOf, Types, tx
  <2>2. QED
    BY <2>1, HandlesMove DEF HandlesOf
<1>4. TurnOf' = TurnOf
  BY <1>1, <1>2, TurnStays
<1>5. HeldFor # "No" /\ HeldFor' = "No"
  BY <1>1, <1>2 DEF Goto, HeldFor, LockInv, Types
<1>6. EpochsKept' = EpochsKept /\ UNCHANGED direct
  BY DEF ApplyFails, EpochsKept, tx, store
<1>7. QED
  BY <1>3, <1>4, <1>5, <1>6 DEF ApplyFails, Manager!ReleaseHold, epochs, tx

\* A commit takes its epoch with the commit lock.
LEMMA StartMaps ==
  ASSUME Types, PlaceInv, LockInv, EpochInv, WaitInv, assigned + 1 < EpochMax, NEW t \in Proc,
         Step(t), StartCommit(t)
  PROVE  Manager!StartCommit(t)
<1>1. commitLock = t /\ epochOf[t] = 0 /\ pc[t] = "check"
  BY DEF StartCommit, LockInv, PlaceInv
<1>2. PICK p \in {"stamp", "log", "freeze"} : Goto(t, p)
  BY DEF StartCommit
<1>3. HandlesOf' = [HandlesOf EXCEPT ![t] = "Guard"] /\ HandlesOf[t] = "None"
  <2>1. HandleOf(t)' = "Guard" /\ HandleOf(t) = "None"
    BY <1>1, <1>2 DEF StartCommit, Goto, HandleOf, Types, locks
  <2>2. QED
    BY <2>1, HandlesMove DEF HandlesOf
<1>4. HeldFor' = HeldFor /\ TurnOf' = TurnOf
  BY <1>1, <1>2, HeldStays, TurnStays
<1>5. ~Manager!CommitLocked
  <2>1. HeldFor = "No"
    BY <1>1, OneHolds
  <2>2. \A u \in Proc : HandleOf(u) # "Guard"
    BY <1>1 DEF HandleOf
  <2>3. QED
    BY <2>1, <2>2 DEF Manager!CommitLocked, HandlesOf
<1>6. Manager!Validated(t)
  BY DEF Manager!Validated, Manager!CommittedSince, Manager!ConflictWith, EpochsKept, NoClaim
<1>7. EpochsKept' = EpochsKept \cup {t}
  BY DEF StartCommit, EpochsKept, Types
<1>8. QED
  BY <1>3, <1>4, <1>5, <1>6, <1>7 DEF StartCommit, Manager!StartCommit, store

\* Its group is in the log: the lock goes, unless the commit keeps it.
LEMMA WrittenMaps ==
  ASSUME Types, PlaceInv, LockInv, EpochInv, WaitInv, NEW t \in Proc, Step(t), LogWritten(t)
  PROVE  Manager!Written(t) \/ UNCHANGED Manager!vars
<1>1. commitLock = t /\ state[t] = "Committing" /\ pc[t] = "log" /\ Goto(t, "sync")
  BY PlaceOfCommit DEF LogWritten, LockInv
<1>2. UNCHANGED core
  BY DEF LogWritten, core, epochs, tx, store
<1>3. CASE job[t] = "Schema"
  <2>1. HandleOf(t)' = HandleOf(t)
    BY <1>1, <1>2, <1>3 DEF LogWritten, Goto, HandleOf, Types, core
  <2>2. QED
    BY <1>1, <1>2, <2>1, QuietStep DEF Goto, Types
<1>4. CASE job[t] # "Schema"
  <2>1. HandlesOf' = [HandlesOf EXCEPT ![t] = "Publish"] /\ HandlesOf[t] = "Guard"
    <3>1. HandleOf(t)' = "Publish" /\ HandleOf(t) = "Guard"
      BY <1>1, <1>2, <1>4, ProcAssumption DEF LogWritten, Goto, HandleOf, Types, core
    <3>2. QED
      BY <3>1, HandlesMove DEF HandlesOf
  <2>2. HeldFor' = HeldFor /\ TurnOf' = TurnOf /\ t \notin TurnOf
    BY <1>1, HeldStays, TurnStays DEF TurnOf
  <2>3. EpochsKept' = EpochsKept
    BY <1>2 DEF EpochsKept, core
  <2>4. QED
    BY <1>2, <2>1, <2>2, <2>3 DEF Manager!Written, core
<1>5. QED
  BY <1>3, <1>4

\* Its group was cut back: the epoch is handed out again.
LEMMA CutBackMaps ==
  ASSUME Types, PlaceInv, LockInv, EpochInv, WaitInv, NEW t \in Proc, Step(t), LogCutBack(t)
  PROVE  Manager!GuardAbort(t)
<1>1. /\ commitLock = t /\ state[t] = "Committing" /\ pc[t] = "log" /\ Goto(t, "undo")
      /\ epochOf[t] # 0
  BY PlaceOfCommit, SMTT(30) DEF LogCutBack, LockInv, EpochInv, Types
<1>2. HandlesOf' = [HandlesOf EXCEPT ![t] = "TakenBack"] /\ HandlesOf[t] = "Guard"
  <2>1. HandleOf(t)' = "TakenBack" /\ HandleOf(t) = "Guard"
    BY <1>1 DEF LogCutBack, Goto, HandleOf, Types
  <2>2. QED
    BY <2>1, HandlesMove DEF HandlesOf
<1>3. HeldFor' = HeldFor /\ TurnOf' = TurnOf /\ t \notin TurnOf
  BY <1>1, HeldStays, TurnStays DEF TurnOf
<1>4. EpochsKept' = EpochsKept \ {t}
  BY DEF LogCutBack, EpochsKept, Types
<1>5. QED
  BY <1>2, <1>3, <1>4 DEF LogCutBack, Manager!GuardAbort, store

\* A commit of a QueryProcessor stamps before its turn, another one syncs.
LEMMA StampMaps ==
  ASSUME Types, PlaceInv, LockInv, EpochInv, WaitInv, StampInv, NEW t \in Proc, Step(t),
         Stamp(t) \/ Sync(t)
  PROVE  UNCHANGED Manager!vars
<1>1. state[t] = "Committing" /\ pc[t] \in {"stamp", "sync"}
  BY PlaceOfCommit DEF Stamp, Sync
<1>2. PICK p \in {"pubTurn", "poison"} : Goto(t, p)
  BY DEF Stamp, Sync
<1>3. UNCHANGED core /\ UNCHANGED commitLock
  BY DEF Stamp, Sync, core, epochs, tx, store, locks
<1>4. epochOf[t] \notin stamped' \/ job[t] = "Processor"
  BY <1>1 DEF Stamp, Sync, StampInv, PlaceInv, store
<1>5. HandleOf(t)' = HandleOf(t)
  BY <1>1, <1>2, <1>3, <1>4 DEF Goto, HandleOf, Types, core
<1>6. QED
  BY <1>1, <1>2, <1>3, <1>5, QuietStep DEF Goto, Types

\* The turn comes: the commit publishes next, goes on waiting, or is refused.
LEMMA CheckMaps ==
  ASSUME Types, PlaceInv, LockInv, EpochInv, WaitInv, NEW t \in Proc, Step(t), PublishCheck(t)
  PROVE  Manager!TakeTurn(t) \/ Manager!RefusePublish(t) \/ UNCHANGED Manager!vars
<1>1. state[t] = "Committing" /\ pc[t] = "pubCheck" /\ turn = t
  BY PlaceOfCommit DEF PublishCheck, LockInv
<1>2. UNCHANGED core
  BY DEF PublishCheck, core, epochs, tx, store
<1>3. TurnOf = {} /\ EpochsKept' = EpochsKept /\ HandlesOf[t] \in {"Guard", "Publish"}
  BY <1>1, <1>2 DEF TurnOf, LockInv, EpochsKept, core, HandlesOf, HandleOf
<1>4. CASE Barred(t)
  <2>1. Goto(t, "done")
    BY <1>4 DEF PublishCheck
  <2>2. HandlesOf' = [HandlesOf EXCEPT ![t] = "None"]
    <3>1. HandleOf(t)' = "None"
      BY <1>1, <1>2, <2>1 DEF Goto, HandleOf, Types, core
    <3>2. QED
      BY <3>1, HandlesMove
  <2>3. HeldFor' = HeldFor /\ TurnOf' = TurnOf
    BY <1>1, <2>1, HeldStays, TurnStays
  <2>4. QED
    BY <1>2, <1>3, <1>4, <2>2, <2>3 DEF Manager!RefusePublish, Barred, core
<1>5. CASE ~Barred(t) /\ InTurn(t)
  <2>1. Goto(t, "ordered") /\ UNCHANGED commitLock
    BY <1>5 DEF PublishCheck
  <2>2. HandlesOf' = HandlesOf
    <3>1. HandleOf(t)' = HandleOf(t)
      BY <1>1, <1>2, <2>1 DEF Goto, HandleOf, Types, core
    <3>2. QED
      BY <3>1, HandlesMove DEF HandlesOf
  <2>3. HeldFor' = HeldFor
    BY <1>1, <2>1, HeldStays
  <2>4. TurnOf' = {t}
    BY <1>3, <2>1 DEF Goto, TurnOf, Types
  <2>5. epochOf[t] < unpublishableFrom /\ published + 1 >= epochOf[t]
    BY <1>5, SMTT(30) DEF Barred, InTurn, Types
  <2>6. QED
    BY <1>2, <1>3, <2>2, <2>3, <2>4, <2>5 DEF Manager!TakeTurn, core
<1>6. CASE ~Barred(t) /\ ~InTurn(t)
  <2>1. Goto(t, "pubSleep") /\ UNCHANGED commitLock
    BY <1>6 DEF PublishCheck
  <2>2. HandleOf(t)' = HandleOf(t)
    BY <1>1, <1>2, <2>1 DEF Goto, HandleOf, Types, core
  <2>3. QED
    BY <1>1, <1>2, <2>1, <2>2, QuietStep DEF Goto, Types
<1>7. QED
  BY <1>4, <1>5, <1>6

\* The changes are stamped in the turn, or the stamping fails half way.
LEMMA OrderedMaps ==
  ASSUME Types, PlaceInv, LockInv, EpochInv, WaitInv, NEW t \in Proc, Step(t), Ordered(t)
  PROVE  Manager!OrderedFails(t) \/ UNCHANGED Manager!vars
<1>1. state[t] = "Committing" /\ pc[t] = "ordered" /\ turn = t
  BY PlaceOfCommit DEF Ordered, LockInv
<1>2. UNCHANGED core /\ UNCHANGED commitLock
  BY DEF Ordered, core, epochs, tx
<1>3. CASE Goto(t, "publish")
  <2>1. HandleOf(t)' = HandleOf(t)
    BY <1>1, <1>2, <1>3 DEF Goto, HandleOf, Types, core
  <2>2. QED
    BY <1>1, <1>2, <1>3, <2>1, QuietStep DEF Goto, Types
<1>4. CASE Goto(t, "poison") /\ job[t] # "Processor"
  <2>1. HandlesOf' = [HandlesOf EXCEPT ![t] = "Failed"]
    <3>1. HandleOf(t)' = "Failed"
      BY <1>1, <1>2, <1>4 DEF Ordered, Goto, HandleOf, Types, core
    <3>2. QED
      BY <3>1, HandlesMove
  <2>2. HeldFor' = HeldFor
    BY <1>1, <1>4, HeldStays
  <2>3. t \in TurnOf /\ TurnOf' = {}
    BY <1>1, <1>4 DEF Goto, TurnOf, Types, LockInv
  <2>4. EpochsKept' = EpochsKept
    BY <1>2 DEF EpochsKept, core
  <2>5. QED
    BY <1>2, <2>1, <2>2, <2>3, <2>4 DEF Manager!OrderedFails, core
<1>5. QED
  BY <1>3, <1>4 DEF Ordered

\* The commit is published.
LEMMA PublishMaps ==
  ASSUME Types, PlaceInv, LockInv, EpochInv, WaitInv, NEW t \in Proc, Step(t), Publish(t)
  PROVE  Manager!Complete(t)
<1>1. state[t] = "Committing" /\ pc[t] = "publish" /\ turn = t /\ Goto(t, "notify")
  BY PlaceOfCommit DEF Publish, LockInv
<1>2. HandlesOf' = [HandlesOf EXCEPT ![t] = "None"]
  <2>1. HandleOf(t)' = "None"
    BY <1>1 DEF Publish, Goto, HandleOf, Types
  <2>2. QED
    BY <2>1, HandlesMove
<1>3. HeldFor' = HeldFor
  BY <1>1, HeldStays
<1>4. t \in TurnOf /\ TurnOf' = {}
  BY <1>1 DEF Goto, TurnOf, Types, LockInv
<1>5. EpochsKept' = IF private[t] /\ activeCount = 1 THEN EpochsKept \ {t} ELSE EpochsKept
  BY <1>1 DEF Publish, EpochsKept, Types
<1>6. QED
  BY <1>2, <1>3, <1>4, <1>5 DEF Publish, Manager!Complete, Manager!LeavesAtOnce, store

\* A rollback ends its transaction.
LEMMA AbortMaps ==
  ASSUME Types, PlaceInv, LockInv, EpochInv, WaitInv, NEW t \in Proc, Step(t), Abort(t)
  PROVE  Manager!Abort(t)
<1>1. state[t] = "Active" /\ pc[t] \in {"abort", "abortFailed"}
  BY PlaceOfAbort DEF Abort
<1>2. PICK p \in {"done", "poison"} : Goto(t, p)
  BY <1>1 DEF Abort
<1>3. HandlesOf' = [HandlesOf EXCEPT ![t] = "None"] /\ HandlesOf[t] \in {"None", "TakenBack"}
  <2>1. HandleOf(t)' = "None" /\ HandleOf(t) \in {"None", "TakenBack"}
    BY <1>1 DEF Abort, HandleOf, Types
  <2>2. QED
    BY <2>1, HandlesMove DEF HandlesOf
<1>4. HeldFor' = HeldFor /\ TurnOf' = TurnOf
  BY <1>1, <1>2, HeldStays, TurnStays
<1>5. EpochsKept' = EpochsKept
  BY <1>1 DEF Abort, EpochsKept, Types
<1>6. QED
  BY <1>1, <1>3, <1>4, <1>5 DEF Abort, Manager!Abort, epochs, store

\* The manager is poisoned, by a commit that did not complete or by a call.
LEMMA PoisonMaps ==
  ASSUME Types, PlaceInv, LockInv, EpochInv, WaitInv, NEW t \in Proc, Step(t), SetPoisoned(t)
  PROVE  Manager!DropUnfinished(t) \/ Manager!Poison \/ UNCHANGED Manager!vars
<1>1. /\ pc[t] = "poison" /\ Goto(t, "bar")
      /\ UNCHANGED <<assigned, published, activeCount, unpublishableFrom, closed, state, private,
                     start, epochOf, committedTx, direct>>
      /\ poisoned' = TRUE
  BY DEF SetPoisoned, tx, store
<1>2. HeldFor' = HeldFor /\ TurnOf' = TurnOf /\ EpochsKept' = EpochsKept /\ t \notin TurnOf
  BY <1>1, HeldStays, TurnStays DEF EpochsKept, TurnOf
<1>3. CASE state[t] = "Committing"
  <2>1. /\ HandlesOf' = [HandlesOf EXCEPT ![t] = "Dropping"]
        /\ HandlesOf[t] \in {"Guard", "Publish", "Failed"}
    <3>1. HandleOf(t)' = "Dropping" /\ HandleOf(t) \in {"Guard", "Publish", "Failed"}
      BY <1>1, <1>3 DEF Goto, HandleOf, Types
    <3>2. QED
      BY <3>1, HandlesMove DEF HandlesOf
  <2>2. QED
    BY <1>1, <1>2, <2>1 DEF Manager!DropUnfinished
<1>4. CASE state[t] # "Committing"
  <2>1. HandlesOf' = HandlesOf
    <3>1. HandleOf(t)' = HandleOf(t)
      BY <1>1, <1>4 DEF Goto, HandleOf, Types
    <3>2. QED
      BY <3>1, HandlesMove DEF HandlesOf
  <2>2. CASE poisoned
    BY <1>1, <1>2, <2>1, <2>2, Quiet DEF core
  <2>3. CASE ~poisoned
    BY <1>1, <1>2, <2>1, <2>3 DEF Manager!Poison
  <2>4. QED
    BY <2>2, <2>3
<1>5. QED
  BY <1>3, <1>4

\* The epochs from its own on, or all of them, are barred.
LEMMA BarMaps ==
  ASSUME Types, PlaceInv, LockInv, EpochInv, WaitInv, PoisonInv, NEW t \in Proc, Step(t),
         BarEpochs(t)
  PROVE  Manager!BarEpoch(t) \/ Manager!BarAllEpochs \/ UNCHANGED Manager!vars
<1>1. /\ pc[t] = "bar" /\ Goto(t, "wakeTurn") /\ poisoned
      /\ UNCHANGED <<assigned, published, activeCount, poisoned, closed, state, private,
                     start, epochOf, committedTx, direct>>
  BY DEF BarEpochs, tx, store, PoisonInv
<1>2. HeldFor' = HeldFor /\ TurnOf' = TurnOf /\ EpochsKept' = EpochsKept
  BY <1>1, HeldStays, TurnStays DEF EpochsKept
<1>3. CASE state[t] = "Committing"
  <2>1. HandlesOf' = [HandlesOf EXCEPT ![t] = "None"] /\ HandlesOf[t] = "Dropping"
    <3>1. HandleOf(t)' = "None" /\ HandleOf(t) = "Dropping"
      BY <1>1, <1>3 DEF Goto, HandleOf, Types
    <3>2. QED
      BY <3>1, HandlesMove DEF HandlesOf
  <2>2. QED
    BY <1>1, <1>2, <1>3, <2>1 DEF BarEpochs, BarFrom, Manager!BarEpoch
<1>4. CASE state[t] # "Committing"
  <2>1. HandlesOf' = HandlesOf
    <3>1. HandleOf(t)' = HandleOf(t)
      BY <1>1, <1>4 DEF Goto, HandleOf, Types
    <3>2. QED
      BY <3>1, HandlesMove DEF HandlesOf
  <2>2. CASE unpublishableFrom = 0
    <3>1. UNCHANGED unpublishableFrom
      BY <1>4, <2>2 DEF BarEpochs, BarFrom
    <3>2. QED
      BY <1>1, <1>2, <2>1, <3>1, Quiet DEF core
  <2>3. CASE unpublishableFrom # 0
    <3>1. unpublishableFrom' = 0
      BY <1>4, <2>3, SMTT(30) DEF BarEpochs, BarFrom, Types
    <3>2. QED
      BY <1>1, <1>2, <2>1, <2>3, <3>1 DEF Manager!BarAllEpochs
  <2>4. QED
    BY <2>2, <2>3
<1>5. QED
  BY <1>3, <1>4

-----------------------------------------------------------------------------
(* The refinement. *)

\* Every step of the threads is a step of the manager or none.
LEMMA StepMaps ==
  ASSUME PublishInv, [Next]_vars
  PROVE  [Manager!Next]_Manager!vars
<1>1. /\ Types /\ PlaceInv /\ LockInv /\ GateInv /\ EpochInv /\ WaitInv /\ PoisonInv /\ StampInv
      /\ assigned + 1 < EpochMax
  BY EpochsFit DEF PublishInv
<1>2. CASE UNCHANGED vars
  BY <1>2, SMTT(30) DEF vars, locks, epochs, tx, store, Manager!vars, HeldFor, TurnOf, EpochsKept,
     HandlesOf, HandleOf
<1>3. ASSUME NEW t \in Proc, Step(t) PROVE [Manager!Next]_Manager!vars
  <2>1. CASE Begin(t)
    BY <1>1, <1>3, <2>1, BeginMaps DEF Manager!Next, Manager!TxStep
  <2>2. CASE CloseForWrites(t)
    BY <1>1, <1>3, <2>2, CloseMaps DEF Manager!Next
  <2>3. CASE HoldForChange(t)
    BY <1>1, <1>3, <2>3, HoldMaps DEF Manager!Next
  <2>4. CASE Apply(t)
    BY <1>1, <1>3, <2>4, ApplyMaps DEF Manager!Next
  <2>5. CASE ApplyFails(t)
    BY <1>1, <1>3, <2>5, ApplyFailsMaps DEF Manager!Next
  <2>6. CASE StartCommit(t)
    BY <1>1, <1>3, <2>6, StartMaps DEF Manager!Next, Manager!TxStep
  <2>7. CASE LogWritten(t)
    BY <1>1, <1>3, <2>7, WrittenMaps DEF Manager!Next, Manager!TxStep
  <2>8. CASE LogCutBack(t)
    BY <1>1, <1>3, <2>8, CutBackMaps DEF Manager!Next, Manager!TxStep
  <2>9. CASE Stamp(t) \/ Sync(t)
    BY <1>1, <1>3, <2>9, StampMaps
  <2>10. CASE PublishCheck(t)
    BY <1>1, <1>3, <2>10, CheckMaps DEF Manager!Next, Manager!TxStep
  <2>11. CASE Ordered(t)
    BY <1>1, <1>3, <2>11, OrderedMaps DEF Manager!Next, Manager!TxStep
  <2>12. CASE Publish(t)
    BY <1>1, <1>3, <2>12, PublishMaps DEF Manager!Next, Manager!TxStep
  <2>13. CASE Abort(t)
    BY <1>1, <1>3, <2>13, AbortMaps DEF Manager!Next, Manager!TxStep
  <2>14. CASE SetPoisoned(t)
    BY <1>1, <1>3, <2>14, PoisonMaps DEF Manager!Next, Manager!TxStep
  <2>15. CASE BarEpochs(t)
    BY <1>1, <1>3, <2>15, BarMaps DEF Manager!Next, Manager!TxStep
  <2>16. QED
    BY <1>1, <1>3, <2>1, <2>2, <2>3, <2>4, <2>5, <2>6, <2>7, <2>8, <2>9, <2>10, <2>11, <2>12,
       <2>13, <2>14, <2>15, QuietSteps DEF Step
<1>4. QED
  BY <1>2, <1>3 DEF Next, Done

\* The threads, with the locks they wait for and the steps that fail between
\* two of them, implement the manager whose actions are critical sections.
THEOREM ThreadsImplementManager == Spec => ImplementsManager /\ Manager!Spec
<1>1. ASSUME [Manager!Next]_Manager!vars
      PROVE  [UNCHANGED Manager!vars \/ Manager!Next]_(Manager!vars)
  BY <1>1
<1>2. Spec => Manager!Spec
  BY InitMaps, StepMaps, PublishInvariant, PTL DEF Spec, Manager!Spec
<1>3. Manager!Spec => ImplementsManager
  BY <1>1, PTL DEF ImplementsManager, Manager!Spec
<1>4. QED
  BY <1>2, <1>3
=============================================================================
