------------------------- MODULE CommitPublishProofs -------------------------
(*****************************************************************************)
(* The threads keep the invariant of CommitPublishInvariant, whatever their  *)
(* number: the counts, the initial states, the step, and what follows of the *)
(* properties of CommitPublish.                                              *)
(*****************************************************************************)
EXTENDS CommitPublishInvariant, FiniteSetTheorems

\* Zenon proves a step unless the step names another prover.
USE Zenon

-----------------------------------------------------------------------------
(* What is stamped, and what poison() stops. *)

\* Every step keeps what is stamped.
LEMMA StampKept ==
  ASSUME Types, PlaceInv, LockInv, EpochInv, WaitInv, StampInv, NEW t \in Proc, Step(t)
  PROVE  StampInv'
<1>1. CASE Begin(t)
  BY <1>1, SMTT(30) DEF Begin, Goto, locks, epochs, store, Types, PlaceInv, LockInv, EpochInv, WaitInv,
     StampInv
<1>2. CASE BeginRefused(t)
  BY <1>2, SMT DEF BeginRefused, Goto, locks, epochs, tx, store, Types, PlaceInv, LockInv, EpochInv,
     WaitInv, StampInv
<1>3. CASE IdleGate(t)
  BY <1>3, SMTT(30) DEF IdleGate, Goto, epochs, tx, store, Types, PlaceInv, LockInv, EpochInv, WaitInv,
     StampInv
<1>4. CASE StartWrite(t)
  BY <1>4, SMT DEF StartWrite, Goto, epochs, tx, store, Types, PlaceInv, LockInv, EpochInv, WaitInv,
     StampInv
<1>5. CASE EndWrite(t)
  BY <1>5, SMTT(30) DEF EndWrite, Goto, epochs, tx, store, Types, PlaceInv, LockInv, EpochInv, WaitInv,
     StampInv
<1>6. CASE RefuseRecord(t)
  BY <1>6, SMTT(30) DEF RefuseRecord, Goto, locks, epochs, tx, store, Types, PlaceInv, LockInv, EpochInv,
     WaitInv, StampInv
<1>7. CASE LockCommit(t)
  BY <1>7, ProcAssumption, SMTT(30) DEF LockCommit, Goto, WaitsForWritten, epochs, tx, store, Types,
     PlaceInv, LockInv, EpochInv, WaitInv, StampInv
<1>8. CASE TakeTurn(t)
  BY <1>8, SMT DEF TakeTurn, Goto, epochs, tx, store, Types, PlaceInv, LockInv, EpochInv, WaitInv,
     StampInv
<1>9. CASE Sleep(t)
  BY <1>9, SMTT(30) DEF Sleep, Goto, epochs, tx, store, Types, PlaceInv, LockInv, EpochInv, WaitInv,
     StampInv
<1>10. CASE WaitCheck(t)
  BY <1>10, SMTT(30) DEF WaitCheck, Goto, AllWritten, epochs, tx, store, Types, PlaceInv, LockInv,
     EpochInv,
     WaitInv, StampInv
<1>11. CASE CheckRefused(t)
  BY <1>11, SMT DEF CheckRefused, Goto, ReleaseAll, Free, AfterError, epochs, tx, store, Types,
     PlaceInv, LockInv, EpochInv, WaitInv, StampInv
<1>12. CASE FreezeWrites(t)
  BY <1>12, SMT DEF FreezeWrites, Goto, epochs, tx, store, Types, PlaceInv, LockInv, EpochInv,
     WaitInv,
     StampInv
<1>13. CASE Held(t)
  BY <1>13, SMT DEF Held, Goto, locks, epochs, tx, store, Types, PlaceInv, LockInv, EpochInv,
     WaitInv,
     StampInv
<1>14. CASE EndHold(t)
  BY <1>14 DEF EndHold, Goto, ReleaseAll, Free, epochs, tx, store, Types, PlaceInv, LockInv,
     EpochInv, WaitInv, StampInv
<1>15. CASE CloseForWrites(t)
  BY <1>15, SMT DEF CloseForWrites, Goto, ReleaseAll, Free, tx, store, Types, PlaceInv, LockInv,
     EpochInv, WaitInv, StampInv
<1>16. CASE HoldForChange(t)
  BY <1>16, SMTT(30) DEF HoldForChange, Goto, locks, epochs, tx, store, Types, PlaceInv, LockInv,
     EpochInv,
     WaitInv, StampInv
<1>17. CASE Apply(t)
  BY <1>17, SMT DEF Apply, Goto, locks, tx, Types, PlaceInv, LockInv, EpochInv, WaitInv, StampInv
<1>18. CASE Announce(t)
  BY <1>18, SMT DEF Announce, Goto, ReleaseAll, Free, epochs, tx, store, Types, PlaceInv, LockInv,
     EpochInv, WaitInv, StampInv
<1>19. CASE ApplyFails(t)
  <2>1. published = assigned /\ commitLock = t /\ state[t] = "Unborn"
    BY <1>19 DEF ApplyFails, Types, PlaceInv, LockInv, WaitInv
  <2>2. \A u \in Proc : state[u] # "Committing"
    BY <2>1, SMT DEF EpochInv, Types
  <2>3. \A u \in Proc : pc[u] \notin {"freeze", "image"}
    BY <1>19, <2>1 DEF ApplyFails, LockInv
  <2>4. CASE UNCHANGED stamped
    BY <1>19, <2>1, <2>2, <2>3, <2>4 DEF ApplyFails, Goto, ReleaseAll, Free, locks, epochs, tx,
       store, Types, StampInv
  <2>5. CASE stamped' = stamped \cup {published + 1} /\ Goto(t, "poison") /\ UNCHANGED locks
    BY <1>19, <2>1, <2>2, <2>3, <2>5 DEF ApplyFails, Goto, ReleaseAll, Free, locks, epochs, tx,
       store, Types, StampInv
  <2>6. QED
    BY <1>19, <2>4, <2>5 DEF ApplyFails, store
<1>20. CASE StartCommit(t)
  BY <1>20, SMTT(30) DEF StartCommit, Goto, locks, store, Types, PlaceInv, LockInv, EpochInv, WaitInv,
     StampInv
<1>21. CASE Stamp(t)
  BY <1>21, SMTT(30) DEF Stamp, Goto, locks, epochs, tx, Types, PlaceInv, LockInv, EpochInv, WaitInv,
     StampInv
<1>22. CASE LogWritten(t)
  BY <1>22, SMTT(30) DEF LogWritten, Goto, epochs, tx, store, Types, PlaceInv, LockInv, EpochInv,
     WaitInv,
     StampInv
<1>23. CASE LogCutBack(t)
  BY <1>23, SMTT(30) DEF LogCutBack, Goto, ReleaseAll, Free, store, Types, PlaceInv, LockInv, EpochInv,
     WaitInv, StampInv
<1>24. CASE Sync(t)
  BY <1>24, SMTT(30) DEF Sync, Goto, locks, epochs, tx, store, Types, PlaceInv, LockInv, EpochInv,
     WaitInv,
     StampInv
<1>25. CASE PublishCheck(t)
  BY <1>25, SMT DEF PublishCheck, Goto, ReleaseAll, Free, epochs, tx, store, Types, PlaceInv,
     LockInv,
     EpochInv, WaitInv, StampInv
<1>26. CASE Ordered(t)
  BY <1>26, SMTT(30) DEF Ordered, Goto, epochs, tx, Types, PlaceInv, LockInv, EpochInv, WaitInv, StampInv
<1>27. CASE Publish(t)
  BY <1>27, SMTT(30) DEF Publish, Goto, store, Types, PlaceInv, LockInv, EpochInv, WaitInv, StampInv
<1>28. CASE Notify(t)
  BY <1>28, SMTT(30) DEF Notify, Goto, ReleaseAll, Free, epochs, tx, store, Types, PlaceInv, LockInv,
     EpochInv, WaitInv, StampInv
<1>29. CASE StartUndo(t)
  BY <1>29, SMTT(30) DEF StartUndo, Goto, epochs, tx, store, Types, PlaceInv, LockInv, EpochInv, WaitInv,
     StampInv
<1>30. CASE EndUndo(t)
  BY <1>30, SMTT(30) DEF EndUndo, Goto, epochs, tx, Types, PlaceInv, LockInv, EpochInv, WaitInv, StampInv
<1>31. CASE Abort(t)
  BY <1>31, SMT DEF Abort, Goto, locks, epochs, store, Types, PlaceInv, LockInv, EpochInv, WaitInv,
     StampInv
<1>32. CASE SetPoisoned(t)
  BY <1>32 DEF SetPoisoned, Goto, locks, tx, store, Types, PlaceInv, LockInv, EpochInv, WaitInv,
     StampInv
<1>33. CASE BarEpochs(t)
  BY <1>33, SMT DEF BarEpochs, Goto, locks, tx, store, Types, PlaceInv, LockInv, EpochInv, WaitInv,
     StampInv
<1>34. CASE WakeTurn(t)
  BY <1>34, SMTT(30) DEF WakeTurn, Goto, locks, epochs, tx, store, Types, PlaceInv, LockInv, EpochInv,
     WaitInv, StampInv
<1>35. CASE Wake(t)
  BY <1>35, SMT DEF Wake, Goto, ReleaseAll, Free, AfterError, epochs, tx, Types, PlaceInv, LockInv,
     EpochInv, WaitInv, StampInv
<1>36. QED
  BY <1>1, <1>2, <1>3, <1>4, <1>5, <1>6, <1>7, <1>8, <1>9, <1>10, <1>11, <1>12,
     <1>13, <1>14, <1>15, <1>16, <1>17, <1>18, <1>19, <1>20, <1>21, <1>22, <1>23, <1>24,
     <1>25, <1>26, <1>27, <1>28, <1>29, <1>30, <1>31, <1>32, <1>33, <1>34, <1>35 DEF Step

\* Every step keeps the publish turn away from threads after poison().
LEMMA StopKept ==
  ASSUME Types, PlaceInv, LockInv, StopInv, EpochInv, NEW t \in Proc, Step(t)
  PROVE  StopInv'
<1>1. CASE Begin(t) \/ BeginRefused(t) \/ IdleGate(t)
  BY <1>1, SMT DEF Begin, BeginRefused, IdleGate, Goto, locks, epochs, store, tx, Types, PlaceInv,
     StopInv, Publishing, BarFrom
<1>2. CASE StartWrite(t) \/ EndWrite(t) \/ RefuseRecord(t)
  BY <1>2, SMTT(30) DEF StartWrite, EndWrite, RefuseRecord, Goto, epochs, tx, store, locks, Types,
     PlaceInv,
     StopInv, Publishing, BarFrom
<1>3. CASE LockCommit(t) \/ TakeTurn(t) \/ Sleep(t) \/ WaitCheck(t) \/ CheckRefused(t)
  BY <1>3, SMTT(30) DEF LockCommit, TakeTurn, Sleep, WaitCheck, CheckRefused, Goto, WaitsForWritten,
     epochs,
     tx, store, AllWritten, ReleaseAll, Free, AfterError, Types, PlaceInv, StopInv, Publishing,
     BarFrom
<1>4. CASE FreezeWrites(t) \/ Held(t) \/ EndHold(t) \/ CloseForWrites(t)
  BY <1>4, SMTT(30) DEF FreezeWrites, Held, EndHold, CloseForWrites, Goto, epochs, tx, store, locks,
     ReleaseAll, Free, Types, PlaceInv, StopInv, Publishing, BarFrom
<1>5. CASE HoldForChange(t) \/ Apply(t) \/ Announce(t) \/ ApplyFails(t)
  BY <1>5, SMTT(30) DEF HoldForChange, Apply, Announce, ApplyFails, Goto, locks, epochs, tx, store,
     ReleaseAll, Free, Types, PlaceInv, StopInv, Publishing, BarFrom
<1>6. CASE Stamp(t) \/ LogWritten(t) \/ LogCutBack(t)
  BY <1>6, SMT DEF Stamp, LogWritten, LogCutBack, Goto, locks, epochs, tx, store, ReleaseAll, Free,
     Types, PlaceInv, StopInv, Publishing, BarFrom
<1>7. CASE StartCommit(t)
  BY <1>7, SMTT(30) DEF StartCommit, Goto, locks, store, Types, PlaceInv, StopInv, Publishing, BarFrom
<1>8. CASE Sync(t) \/ Ordered(t) \/ Publish(t) \/ Notify(t)
  BY <1>8, SMTT(30) DEF Sync, Ordered, Publish, Notify, Goto, locks, epochs, tx, store, ReleaseAll, Free,
     Types, PlaceInv, StopInv, Publishing, BarFrom
<1>9. CASE PublishCheck(t)
  BY <1>9, SMTT(30) DEF PublishCheck, Goto, ReleaseAll, Free, epochs, tx, store, Types, PlaceInv,
     StopInv,
     Publishing, BarFrom, Barred, InTurn
<1>10. CASE StartUndo(t) \/ EndUndo(t) \/ Abort(t)
  BY <1>10, SMTT(30) DEF StartUndo, EndUndo, Abort, Goto, epochs, tx, store, locks, Types, PlaceInv,
     StopInv, Publishing, BarFrom
<1>11. CASE SetPoisoned(t) \/ BarEpochs(t)
  BY <1>11, SMT DEF SetPoisoned, BarEpochs, Goto, locks, tx, store, Types, PlaceInv, StopInv,
     Publishing, BarFrom
<1>12. CASE WakeTurn(t)
  BY <1>12, ProcAssumption, SMTT(30) DEF WakeTurn, Goto, locks, epochs, tx, store, Types, PlaceInv,
     StopInv,
     Publishing, BarFrom, LockInv
<1>13. CASE Wake(t)
  BY <1>13, SMTT(30) DEF Wake, Goto, ReleaseAll, Free, AfterError, epochs, tx, Types, PlaceInv, StopInv,
     Publishing, BarFrom, EpochInv
<1>14. QED
  BY <1>1, <1>2, <1>3, <1>4, <1>5, <1>6, <1>7, <1>8, <1>9, <1>10, <1>11, <1>12,
     <1>13 DEF Step

\* Every step keeps the stamps in order.
LEMMA OrderKept ==
  ASSUME Types, PlaceInv, EpochInv, StampsInOrder, NEW t \in Proc, Step(t)
  PROVE  StampsInOrder'
<1>1. CASE UNCHANGED <<stamped, published, epochOf, job>>
  BY <1>1 DEF StampsInOrder
<1>2. CASE Apply(t) BY <1>2, SMT DEF Apply, Goto, locks, tx, Types, PlaceInv, EpochInv,
                       StampsInOrder
<1>3. CASE ApplyFails(t)
  <2>1. stamped' \subseteq stamped \cup {published + 1}
    BY <1>3 DEF ApplyFails, store
  <2>2. UNCHANGED <<published, epochOf, job>>
    BY <1>3 DEF ApplyFails, Goto, ReleaseAll, Free, locks, epochs, tx, store
  <2>3. QED
    BY <2>1, <2>2, SMT DEF StampsInOrder, Types
<1>4. CASE StartCommit(t)
  BY <1>4, SMTT(30) DEF StartCommit, Goto, locks, store, Types, PlaceInv, EpochInv, StampsInOrder
<1>5. CASE Stamp(t)
  BY <1>5, SMTT(30) DEF Stamp, Goto, locks, epochs, tx, Types, PlaceInv, EpochInv, StampsInOrder
<1>6. CASE Ordered(t)
  BY <1>6, SMT DEF Ordered, Goto, epochs, tx, Types, PlaceInv, EpochInv, StampsInOrder
<1>7. CASE Publish(t) BY <1>7, SMT DEF Publish, Goto, store, Types, PlaceInv, EpochInv,
                         StampsInOrder
<1>8. QED
  BY <1>1, <1>2, <1>3, <1>4, <1>5, <1>6, <1>7 DEF Step, Begin, BeginRefused, IdleGate, StartWrite,
     EndWrite, RefuseRecord, LockCommit, TakeTurn, Sleep, WaitCheck, CheckRefused, FreezeWrites,
     Held, EndHold, CloseForWrites, HoldForChange, Announce, LogWritten, LogCutBack, Sync,
     PublishCheck, Notify, StartUndo, EndUndo, Abort, SetPoisoned, BarEpochs, WakeTurn, Wake,
     Goto, epochs, tx, store

-----------------------------------------------------------------------------
(* The counts. *)

\* active_count stays the number of open transactions.
LEMMA CountKept ==
  ASSUME Types, PlaceInv, CountInv, NEW t \in Proc, Step(t)
  PROVE  CountInv'
<1>1. IsFiniteSet(OpenTx)
  BY ProcAssumption, FS_Subset DEF OpenTx
<1>2. CASE activeCount' = activeCount /\ OpenTx' = OpenTx
  BY <1>2 DEF CountInv
<1>3. CASE activeCount' = activeCount + 1 /\ t \notin OpenTx /\ OpenTx' = OpenTx \cup {t}
  BY <1>1, <1>3, FS_AddElement DEF CountInv
<1>4. CASE activeCount' = activeCount - 1 /\ t \in OpenTx /\ OpenTx' = OpenTx \ {t}
  BY <1>1, <1>4, FS_RemoveElement DEF CountInv
<1>5. QED
  BY <1>2, <1>3, <1>4, OpenMoves

\* No epoch is handed out but to a thread that took none.
LEMMA SpentKept ==
  ASSUME Types, Types', PlaceInv, EpochInv, SpentInv, NEW t \in Proc, Step(t)
  PROVE  SpentInv'
<1>1. IsFiniteSet(Spent) /\ IsFiniteSet(Spent')
  BY ProcAssumption, FS_Subset DEF Spent
<1>2. Cardinality(Spent) \in Nat /\ Cardinality(Spent') \in Nat
  BY <1>1, FS_CardinalityType
<1>3. Spent \subseteq Spent'
  BY SpentMoves
<1>4. CASE assigned' <= assigned
  <2>1. Cardinality(Spent) <= Cardinality(Spent')
    BY <1>1, <1>3, FS_Subset
  <2>2. QED
    BY <1>2, <1>4, <2>1, SMTT(30) DEF SpentInv, Types
<1>5. CASE assigned' = assigned + 1 /\ t \in Spent' /\ t \notin Spent
  <2>1. Cardinality(Spent \cup {t}) = Cardinality(Spent) + 1
    BY <1>1, <1>5, FS_AddElement
  <2>2. Cardinality(Spent \cup {t}) <= Cardinality(Spent')
    BY <1>1, <1>3, <1>5, FS_Subset
  <2>3. QED
    BY <1>2, <1>5, <2>1, <2>2, SMT DEF SpentInv, Types
<1>6. QED
  BY <1>4, <1>5, SpentMoves

\* The epochs stay below u64::MAX.
LEMMA EpochsFit ==
  ASSUME Types, SpentInv
  PROVE  assigned + 1 < EpochMax
<1>1. IsFiniteSet(Proc) /\ Spent \subseteq Proc
  BY ProcAssumption DEF Spent
<1>2. /\ Cardinality(Spent) <= Cardinality(Proc)
      /\ Cardinality(Spent) \in Nat /\ Cardinality(Proc) \in Nat
  BY <1>1, FS_Subset, FS_CardinalityType
<1>3. QED
  BY <1>2, EpochAssumption, SMT DEF SpentInv, Types

\* Without a count no transaction is open.
LEMMA NoneOpen ==
  ASSUME CountInv, activeCount = 0
  PROVE  OpenTx = {}
<1>1. IsFiniteSet(OpenTx)
  BY ProcAssumption, FS_Subset DEF OpenTx
<1>2. QED
  BY <1>1, FS_EmptySet DEF CountInv

-----------------------------------------------------------------------------
(* The invariant. *)

\* The first places of the threads.
LEMMA FirstPlaces ==
  ASSUME Init, NEW t \in Proc
  PROVE  /\ pc[t] \in {"begin", "gate", "lockCommit"}
         /\ pc[t] = "begin" => job[t] \notin {"Import", "Hold", "Close"}
         /\ pc[t] = "gate" <=> job[t] = "Direct"
<1>1. job[t] \in {"Commit", "Schema", "Processor", "Rollback", "Direct", "Import", "Hold",
                   "Close"}
  BY JobsAssumption DEF Init
<1>2. /\ FirstPlace["Commit"] = "begin" /\ FirstPlace["Schema"] = "begin"
      /\ FirstPlace["Processor"] = "begin" /\ FirstPlace["Rollback"] = "begin"
      /\ FirstPlace["Direct"] = "gate" /\ FirstPlace["Import"] = "lockCommit"
      /\ FirstPlace["Hold"] = "lockCommit" /\ FirstPlace["Close"] = "lockCommit"
  BY DEF FirstPlace
<1>3. pc[t] = FirstPlace[job[t]]
  BY DEF Init
<1>4. QED
  BY <1>1, <1>2, <1>3

\* The threads begin in the invariant.
LEMMA InitInv == Init => PublishInv
<1> SUFFICES ASSUME Init PROVE PublishInv
  OBVIOUS
<1>1. \A t \in Proc : /\ pc[t] \in {"begin", "gate", "lockCommit"}
                      /\ pc[t] = "begin" => job[t] \notin {"Import", "Hold", "Close"}
                      /\ pc[t] = "gate" <=> job[t] = "Direct"
  BY FirstPlaces
<1>2. Types
  <2>1. pc \in [Proc -> Places]
    BY <1>1 DEF Init, Places
  <2>2. assigned \in Nat /\ published \in Nat /\ unpublishableFrom \in Nat /\ activeCount \in Int
    BY EpochAssumption, SMT DEF Init
  <2>3. QED
    BY <2>1, <2>2 DEF Init, Types
<1>3. PlaceInv
  BY <1>1, SMT DEF Init, PlaceInv
<1>4. CountInv
  <2>1. OpenTx = {}
    BY DEF Init, OpenTx
  <2>2. QED
    BY <2>1, FS_EmptySet DEF Init, CountInv
<1>5. SpentInv
  <2>1. Cardinality(Spent) \in Nat
    BY ProcAssumption, FS_Subset, FS_CardinalityType DEF Spent
  <2>2. QED
    BY <2>1, SMT DEF Init, SpentInv
<1>6. LockInv /\ FreezeInv /\ EpochInv /\ WaitInv
  BY <1>1, SMT DEF Init, LockInv, FreezeInv, EpochInv, WaitInv
<1>7. GateInv
  BY <1>1 DEF Init, GateInv
<1>8. PoisonInv /\ StampInv /\ StopInv /\ StampsInOrder
  BY <1>1 DEF Init, PoisonInv, StampInv, StopInv, StampsInOrder
<1>9. QED
  BY <1>2, <1>3, <1>4, <1>5, <1>6, <1>7, <1>8 DEF PublishInv

\* Every step of every thread keeps it.
LEMMA StepInv == ASSUME PublishInv, [Next]_vars PROVE PublishInv'
<1>1. CASE UNCHANGED vars
  <2> USE <1>1 DEF vars, locks, epochs, tx, store
  <2>1. Types' = Types /\ PlaceInv' = PlaceInv /\ LockInv' = LockInv /\ GateInv' = GateInv
    BY SMT DEF Types, PlaceInv, LockInv, GateInv
  <2>2. CountInv' = CountInv /\ SpentInv' = SpentInv /\ FreezeInv' = FreezeInv
    BY DEF CountInv, OpenTx, SpentInv, Spent, FreezeInv
  <2>3. EpochInv' = EpochInv /\ WaitInv' = WaitInv /\ PoisonInv' = PoisonInv
    BY DEF EpochInv, WaitInv, PoisonInv
  <2>4. StampInv' = StampInv /\ StopInv' = StopInv /\ StampsInOrder' = StampsInOrder
    BY DEF StampInv, StopInv, Publishing, BarFrom, StampsInOrder
  <2>5. QED
    BY <2>1, <2>2, <2>3, <2>4 DEF PublishInv
<1>2. ASSUME NEW t \in Proc, Step(t) PROVE PublishInv'
  <2>1. /\ Types /\ PlaceInv /\ LockInv /\ CountInv /\ GateInv /\ FreezeInv /\ SpentInv
        /\ EpochInv /\ WaitInv /\ PoisonInv /\ StampInv /\ StopInv /\ StampsInOrder
    BY DEF PublishInv
  <2>2. Types' /\ PlaceInv'
    BY <1>2, <2>1, TypesKept, PlaceKept
  <2>3. LockInv'
    <3>1. assigned < EpochMax
      BY <2>1, EpochsFit, EpochAssumption, SMT DEF Types
    <3>2. QED
      BY <1>2, <2>1, <3>1, LockKept
  <2>4. CountInv' /\ GateInv'
    BY <1>2, <2>1, CountKept, GateKept, NoneOpen
  <2>5. FreezeInv' /\ EpochInv' /\ WaitInv'
    BY <1>2, <2>1, FreezeKept, EpochKept, WaitKept
  <2>6. SpentInv'
    BY <1>2, <2>1, <2>2, SpentKept
  <2>7. PoisonInv' /\ StampInv' /\ StopInv' /\ StampsInOrder'
    BY <1>2, <2>1, PoisonKept, StampKept, StopKept, OrderKept
  <2>8. QED
    BY <2>2, <2>3, <2>4, <2>5, <2>6, <2>7 DEF PublishInv
<1>3. QED
  BY <1>1, <1>2 DEF Next, Done

\* The locks of manager.rs, direct.rs and the session, with the places of the
\* threads that hold them, keep the invariant for any number of threads.
THEOREM PublishInvariant == Spec => []PublishInv
BY InitInv, StepInv, PTL DEF Spec

\* Commits are stamped one after the other, in epoch order.
THEOREM StampsOrdered == Spec => []StampsInOrder
<1>1. PublishInv => StampsInOrder
  BY DEF PublishInv
<1>2. QED
  BY <1>1, PublishInvariant, PTL

\* A commit with schema statements is alone from its epoch to its end.
THEOREM SchemaAlone == Spec => []SchemaCommitAlone
<1>1. PublishInv => SchemaCommitAlone
  BY DEF PublishInv, WaitInv, SchemaCommitAlone
<1>2. QED
  BY <1>1, PublishInvariant, PTL

\* The image of a checkpoint holds exactly the published commits.
THEOREM ImageWhole == Spec => []ImageIsWhole
<1>1. ASSUME PublishInv PROVE ImageIsWhole
  <2> SUFFICES ASSUME NEW t \in Proc, pc[t] = "image"
      PROVE  /\ published = assigned /\ writing = {}
             /\ \A e \in stamped : e <= published
             /\ \A u \in Proc : state[u] # "Committing"
    BY DEF ImageIsWhole
  <2>1. Types /\ PlaceInv /\ FreezeInv /\ EpochInv /\ WaitInv /\ StampInv
    BY <1>1 DEF PublishInv
  <2>2. job[t] = "Hold" /\ published = assigned
    BY <2>1 DEF PlaceInv, WaitInv
  <2>3. writing = {}
    BY <2>1, ProcAssumption DEF FreezeInv
  <2>4. \A e \in stamped : e <= published
    BY <2>1, <2>2 DEF StampInv
  <2>5. \A u \in Proc : state[u] # "Committing"
    BY <2>1, <2>2, SMT DEF EpochInv, Types
  <2>6. QED
    BY <2>2, <2>3, <2>4, <2>5
<1>2. QED
  BY <1>1, PublishInvariant, PTL

\* Once poison() returned, no commit is reported any more.
THEOREM PoisonFinal == Spec => PoisonStopsCommits
<1>1. ASSUME PublishInv, [Next]_vars PROVE stopped => committedTx' = committedTx
  <2> SUFFICES ASSUME stopped PROVE committedTx' = committedTx
    OBVIOUS
  <2>1. \A t \in Proc : pc[t] # "publish"
    BY <1>1 DEF PublishInv, StopInv, Publishing
  <2>2. CASE UNCHANGED vars
    BY <2>2 DEF vars, tx
  <2>3. ASSUME NEW t \in Proc, Step(t) PROVE committedTx' = committedTx
    BY <2>1, <2>3 DEF Step, Begin, BeginRefused, IdleGate, StartWrite, EndWrite, RefuseRecord,
       LockCommit, TakeTurn, Sleep, WaitCheck, CheckRefused, FreezeWrites, Held, EndHold,
       CloseForWrites, HoldForChange, Apply, Announce, ApplyFails, StartCommit, Stamp,
       LogWritten, LogCutBack, Sync, PublishCheck, Ordered, Publish, Notify, StartUndo,
       EndUndo, Abort, SetPoisoned, BarEpochs, WakeTurn, Wake, tx
  <2>4. QED
    BY <1>1, <2>2, <2>3 DEF Next, Done
<1>2. QED
  BY <1>1, PublishInvariant, PTL DEF Spec, PoisonStopsCommits
==============================================================================
