---------------------- MODULE TransactionManagerProofs ----------------------
(*****************************************************************************)
(* Theorems about TransactionManager for any set of transactions, entities   *)
(* and keys: the invariant IInv is inductive, and the promises of the        *)
(* manager follow from it.                                                   *)
(*****************************************************************************)
EXTENDS TransactionManagerLemmas

\* Zenon proves a step unless the step names another prover.
USE Zenon

-----------------------------------------------------------------------------
(* Every step of a commit, also of one that fails. *)

\* A commit that passes validation conflicts with nobody who committed after
\* its snapshot: the manager still had all their claims.
LEMMA StartCommitInv ==
  ASSUME IInv, NEW t \in Tx, StartCommit(t)
  PROVE  IInv'
<1>1. TypeOK'
  BY SMT DEF IInv, TypeOK, States, Handles, Holds, StartCommit
<1>2. ActiveCountExact'
  BY DEF IInv, TypeOK, ActiveCountExact, Open, StartCommit
<1>3. HandlesInv'
  BY DEF IInv, TypeOK, HandlesInv, CommitLocked, StartCommit
<1>4. TurnInv'
  BY DEF IInv, TypeOK, TurnInv, HandlesInv, StartCommit
<1>5. HoldsInv'
  BY DEF IInv, TypeOK, HoldsInv, HandlesInv, EpochsInv, CommitLocked,
     StartCommit
<1>6. EpochsInv'
  BY SMT DEF IInv, TypeOK, EpochsInv, StartCommit
<1>7. PublishedIsComplete'
  BY SMT DEF IInv, TypeOK, PublishedIsComplete, EpochsInv, StartCommit
<1>8. ConflictsKept'
  BY DEF IInv, TypeOK, ConflictsKept, EpochsInv, CommittedSince, InMap,
     StartCommit
<1>9. OpenCompatible'
  BY SMT DEF IInv, TypeOK, OpenCompatible, Open, Compatible, StartCommit
<1>10. SettledCompatible'
  BY SMTT(30) DEF IInv, TypeOK, SettledCompatible, Settled, Compatible, EpochsInv,
     Validated, ConflictWith, ConflictsKept, CommittedSince, ClaimSets,
     StartCommit
<1>11. CommittedCompatible'
  BY SMTT(30) DEF IInv, TypeOK, CommittedCompatible, Concurrent, Compatible, EpochsInv,
     StartCommit
<1>12. DirectInv'
  BY DEF IInv, TypeOK, DirectInv, Open, EpochsInv, StartCommit
<1>13. ReadsInv'
  BY SMT DEF IInv, TypeOK, ReadsInv, EpochsInv, Validated, ConflictsKept,
     CommittedSince, InMap, StartCommit
<1>14. UNCHANGED <<claims, mark>>
  BY DEF StartCommit
<1>15. MarksInv'
  BY <1>14, MarksInvFrame DEF IInv
<1>16. QED
  BY <1>1, <1>2, <1>3, <1>4, <1>5, <1>6, <1>7, <1>8, <1>9, <1>10, <1>11,
     <1>12, <1>13, <1>15 DEF IInv

\* A commit taken back under the lock gives back the last epoch handed out.
LEMMA GuardAbortInv ==
  ASSUME IInv, NEW t \in Tx, GuardAbort(t)
  PROVE  IInv'
<1>1. TypeOK'
  BY SMT DEF IInv, TypeOK, States, Handles, Holds, HandlesInv,
     PublishedIsComplete, GuardAbort
<1>2. ActiveCountExact'
  <2>1. OpenSet' = OpenSet
    BY DEF OpenSet, Open, IInv, TypeOK, HandlesInv, GuardAbort
  <2>2. QED
    BY <2>1 DEF IInv, ActiveCountExact, OpenSet, GuardAbort
<1>3. HandlesInv'
  BY SMT DEF IInv, TypeOK, HandlesInv, PublishedIsComplete, GuardAbort
<1>4. TurnInv'
  BY SMT DEF IInv, TypeOK, TurnInv, HandlesInv, PublishedIsComplete, GuardAbort
<1>5. HoldsInv'
  BY DEF IInv, TypeOK, HoldsInv, HandlesInv, EpochsInv, PublishedIsComplete,
     GuardAbort
<1>6. EpochsInv'
  BY SMTT(30) DEF IInv, TypeOK, EpochsInv, HandlesInv, PublishedIsComplete, GuardAbort
<1>7. PublishedIsComplete'
  BY SMT DEF IInv, TypeOK, PublishedIsComplete, HandlesInv, GuardAbort
<1>8. ConflictsKept'
  BY SMT DEF IInv, TypeOK, ConflictsKept, EpochsInv, CommittedSince, InMap,
     HandlesInv, PublishedIsComplete, GuardAbort
<1>9. OpenCompatible'
  BY SMTT(30) DEF IInv, TypeOK, OpenCompatible, Open, Compatible, HandlesInv,
     PublishedIsComplete, GuardAbort
<1>10. SettledCompatible'
  BY SMTT(30) DEF IInv, TypeOK, SettledCompatible, Settled, Compatible, EpochsInv,
     HandlesInv, PublishedIsComplete, GuardAbort
<1>11. DirectInv'
  BY SMTT(30) DEF IInv, TypeOK, DirectInv, Open, EpochsInv, HandlesInv,
     PublishedIsComplete, GuardAbort
<1>12. ReadsInv'
  BY SMT DEF IInv, TypeOK, ReadsInv, EpochsInv, HandlesInv, PublishedIsComplete,
     GuardAbort
<1>13. UNCHANGED <<start, claims, mark, epochOf, committedTx>>
  BY DEF GuardAbort
<1>14. CommittedCompatible' /\ MarksInv'
  BY <1>13, CommittedCompatibleFrame, MarksInvFrame DEF IInv
<1>15. QED
  BY <1>1, <1>2, <1>3, <1>4, <1>5, <1>6, <1>7, <1>8, <1>9, <1>10, <1>11,
     <1>12, <1>14 DEF IInv

\* Releasing the commit lock preserves the invariant.
LEMMA WrittenInv ==
  ASSUME IInv, NEW t \in Tx, Written(t)
  PROVE  IInv'
<1>1. TypeOK'
  BY DEF IInv, TypeOK, States, Handles, Holds, HandlesInv, Written
<1>2. HandlesInv'
  BY DEF IInv, TypeOK, HandlesInv, Written
<1>3. TurnInv'
  BY DEF IInv, TypeOK, TurnInv, HandlesInv, Written
<1>4. HoldsInv'
  BY DEF IInv, TypeOK, HoldsInv, HandlesInv, EpochsInv, Written
<1>5. ConflictsKept'
  BY DEF IInv, TypeOK, ConflictsKept, EpochsInv, CommittedSince, InMap,
     HandlesInv, Written
<1>6. SettledCompatible'
  BY SMTT(30) DEF IInv, TypeOK, SettledCompatible, Settled, Compatible, EpochsInv,
     HandlesInv, Written
<1>7. UNCHANGED <<assigned, published, activeCount, committedEpochs, state,
   level, start, claims, mark, epochOf, committedTx, direct>>
  BY DEF Written
<1>8. ActiveCountExact' /\ EpochsInv' /\ PublishedIsComplete' /\
   OpenCompatible' /\ CommittedCompatible' /\ MarksInv' /\ DirectInv' /\
   ReadsInv'
  BY <1>7, ActiveCountExactFrame, EpochsInvFrame, PublishedIsCompleteFrame,
     OpenCompatibleFrame, CommittedCompatibleFrame, MarksInvFrame,
     DirectInvFrame, ReadsInvFrame DEF IInv
<1>9. QED
  BY <1>1, <1>2, <1>3, <1>4, <1>5, <1>6, <1>8 DEF IInv

\* Taking the turn preserves it: the next epoch is the commit's own.
LEMMA TakeTurnInv ==
  ASSUME IInv, NEW t \in Tx, TakeTurn(t)
  PROVE  IInv'
<1>1. TypeOK'
  BY DEF IInv, TypeOK, States, Handles, Holds, TakeTurn
<1>2. TurnInv'
  BY SMT DEF IInv, TypeOK, TurnInv, HandlesInv, PublishedIsComplete, TakeTurn
<1>3. UNCHANGED <<assigned, published, activeCount, held, committedEpochs,
   state, level, start, claims, mark, handle, epochOf, committedTx, direct>>
  BY DEF TakeTurn
<1>4. ActiveCountExact' /\ HandlesInv' /\ HoldsInv' /\ EpochsInv' /\
   PublishedIsComplete' /\ ConflictsKept' /\ OpenCompatible' /\
   SettledCompatible' /\ CommittedCompatible' /\ MarksInv' /\ DirectInv' /\
   ReadsInv'
  BY <1>3, ActiveCountExactFrame, HandlesInvFrame, HoldsInvFrame,
     EpochsInvFrame, PublishedIsCompleteFrame, ConflictsKeptFrame,
     OpenCompatibleFrame, SettledCompatibleFrame, CommittedCompatibleFrame,
     MarksInvFrame, DirectInvFrame, ReadsInvFrame DEF IInv
<1>5. QED
  BY <1>1, <1>2, <1>4 DEF IInv

\* A commit that publishes in its turn preserves the invariant.
LEMMA CompleteInv ==
  ASSUME IInv, NEW t \in Tx, Complete(t)
  PROVE  IInv'
<1>1. TypeOK'
  <2>1. activeCount' \in Nat
    <3>1. OpenSet' = OpenSet \ {t} /\ Open(t)
      BY DEF OpenSet, Open, Complete, IInv, TypeOK, HandlesInv, TurnInv
    <3>2. QED
      BY <3>1, OneLessOpen DEF Complete, IInv
  <2>2. QED
    BY <2>1 DEF IInv, TypeOK, States, Handles, Holds, Complete
<1>2. ActiveCountExact'
  <2>1. OpenSet' = OpenSet \ {t} /\ Open(t)
    BY DEF OpenSet, Open, Complete, IInv, TypeOK, HandlesInv, TurnInv
  <2>2. QED
    BY <2>1, OneLessOpen DEF Complete, IInv
<1>3. HandlesInv'
  BY SMT DEF IInv, TypeOK, HandlesInv, EpochsInv, PublishedIsComplete, Complete,
     LeavesAtOnce, TurnInv
<1>4. TurnInv'
  BY DEF IInv, TypeOK, TurnInv, HandlesInv, EpochsInv, PublishedIsComplete,
     Complete, LeavesAtOnce
<1>5. HoldsInv'
  <2>1. held # "Direct"
    BY NoneOpen DEF IInv, HoldsInv, Open, Complete, HandlesInv, TurnInv
  <2>2. QED
    BY <2>1, SMTT(30) DEF IInv, TypeOK, HoldsInv, HandlesInv, EpochsInv, PublishedIsComplete, Complete,
       TurnInv
<1>6. EpochsInv'
  BY SMTT(30) DEF IInv, TypeOK, EpochsInv, HandlesInv, PublishedIsComplete, Complete,
     LeavesAtOnce, TurnInv
<1>7. PublishedIsComplete'
  BY SMT DEF IInv, TypeOK, PublishedIsComplete, HandlesInv, EpochsInv, Complete,
     LeavesAtOnce, TurnInv
<1>8. ConflictsKept'
  <2>1. Open(t) /\ t \in committedEpochs
    BY DEF IInv, HandlesInv, EpochsInv, Complete, Open, TurnInv
  <2>2. CASE LeavesAtOnce(t)
    <3>1. \A a \in Tx : state'[a] # "Active"
      BY <2>1, <2>2, OnlyOneOpen, SMTT(30) DEF IInv, TypeOK, Open, Complete, LeavesAtOnce
    <3>2. QED
      BY <3>1 DEF ConflictsKept
  <2>3. CASE ~LeavesAtOnce(t)
    BY <2>1, <2>3, SMTT(30) DEF IInv, TypeOK, ConflictsKept, EpochsInv, CommittedSince, InMap,
       Complete, HandlesInv, TurnInv
  <2>4. QED
    BY <2>2, <2>3
<1>9. OpenCompatible'
  BY SMTT(30) DEF IInv, TypeOK, OpenCompatible, Open, Compatible, HandlesInv,
     EpochsInv, PublishedIsComplete, Complete, LeavesAtOnce, TurnInv
<1>10. SettledCompatible'
  BY SMTT(30) DEF IInv, TypeOK, SettledCompatible, Settled, Compatible, EpochsInv,
     HandlesInv, OpenCompatible, Open, Complete, LeavesAtOnce, TurnInv
<1>11. CommittedCompatible'
  BY SMTT(30) DEF IInv, TypeOK, CommittedCompatible, Concurrent, Compatible, EpochsInv,
     HandlesInv, SettledCompatible, Settled, Complete, LeavesAtOnce, TurnInv
<1>12. MarksInv'
  BY SMTT(30) DEF IInv, TypeOK, MarksInv, HandlesInv, EpochsInv, PublishedIsComplete,
     Complete, LeavesAtOnce, TurnInv
<1>13. DirectInv'
  BY SMTT(30) DEF IInv, TypeOK, DirectInv, Open, EpochsInv, HandlesInv,
     PublishedIsComplete, Complete, LeavesAtOnce, TurnInv
<1>14. ReadsInv'
  BY SMTT(30) DEF IInv, TypeOK, ReadsInv, EpochsInv, HandlesInv, PublishedIsComplete,
     Complete, LeavesAtOnce, TurnInv
<1>15. QED
  BY <1>1, <1>2, <1>3, <1>4, <1>5, <1>6, <1>7, <1>8, <1>9, <1>10, <1>11,
     <1>12, <1>13, <1>14 DEF IInv

\* A commit refused its turn stays in progress for good.
LEMMA RefusePublishInv ==
  ASSUME IInv, NEW t \in Tx, RefusePublish(t)
  PROVE  IInv'
<1>1. TypeOK'
  BY DEF IInv, TypeOK, States, Handles, Holds, HandlesInv, RefusePublish
<1>2. HandlesInv'
  BY DEF IInv, TypeOK, HandlesInv, RefusePublish
<1>3. TurnInv'
  BY DEF IInv, TypeOK, TurnInv, HandlesInv, RefusePublish
<1>4. HoldsInv'
  BY DEF IInv, TypeOK, HoldsInv, HandlesInv, EpochsInv, RefusePublish
<1>5. ConflictsKept'
  BY DEF IInv, TypeOK, ConflictsKept, EpochsInv, CommittedSince, InMap,
     HandlesInv, RefusePublish
<1>6. SettledCompatible'
  BY SMTT(30) DEF IInv, TypeOK, SettledCompatible, Settled, Compatible, EpochsInv,
     HandlesInv, RefusePublish
<1>7. UNCHANGED <<assigned, published, activeCount, committedEpochs, state,
   level, start, claims, mark, epochOf, committedTx, direct>>
  BY DEF RefusePublish
<1>8. ActiveCountExact' /\ EpochsInv' /\ PublishedIsComplete' /\
   OpenCompatible' /\ CommittedCompatible' /\ MarksInv' /\ DirectInv' /\
   ReadsInv'
  BY <1>7, ActiveCountExactFrame, EpochsInvFrame, PublishedIsCompleteFrame,
     OpenCompatibleFrame, CommittedCompatibleFrame, MarksInvFrame,
     DirectInvFrame, ReadsInvFrame DEF IInv
<1>9. QED
  BY <1>1, <1>2, <1>3, <1>4, <1>5, <1>6, <1>8 DEF IInv

\* A commit that fails in its turn gives it up.
LEMMA OrderedFailsInv ==
  ASSUME IInv, NEW t \in Tx, OrderedFails(t)
  PROVE  IInv'
<1>1. TypeOK'
  BY DEF IInv, TypeOK, States, Handles, Holds, HandlesInv, TurnInv,
     OrderedFails
<1>2. HandlesInv'
  BY SMT DEF IInv, TypeOK, HandlesInv, TurnInv, OrderedFails
<1>3. TurnInv'
  BY DEF IInv, TypeOK, TurnInv, HandlesInv, OrderedFails
<1>4. HoldsInv'
  BY DEF IInv, TypeOK, HoldsInv, HandlesInv, EpochsInv, TurnInv, OrderedFails
<1>5. ConflictsKept'
  BY SMT DEF IInv, TypeOK, ConflictsKept, EpochsInv, CommittedSince, InMap,
     HandlesInv, TurnInv, OrderedFails
<1>6. SettledCompatible'
  BY SMTT(30) DEF IInv, TypeOK, SettledCompatible, Settled, Compatible, EpochsInv,
     HandlesInv, TurnInv, OrderedFails
<1>7. UNCHANGED <<assigned, published, activeCount, committedEpochs, state,
   level, start, claims, mark, epochOf, committedTx, direct>>
  BY DEF OrderedFails
<1>8. ActiveCountExact' /\ EpochsInv' /\ PublishedIsComplete' /\
   OpenCompatible' /\ CommittedCompatible' /\ MarksInv' /\ DirectInv' /\
   ReadsInv'
  BY <1>7, ActiveCountExactFrame, EpochsInvFrame, PublishedIsCompleteFrame,
     OpenCompatibleFrame, CommittedCompatibleFrame, MarksInvFrame,
     DirectInvFrame, ReadsInvFrame DEF IInv
<1>9. QED
  BY <1>1, <1>2, <1>3, <1>4, <1>5, <1>6, <1>8 DEF IInv

\* So does one that is dropped, which poisons the manager.
LEMMA DropUnfinishedInv ==
  ASSUME IInv, NEW t \in Tx, DropUnfinished(t)
  PROVE  IInv'
<1>1. TypeOK'
  BY DEF IInv, TypeOK, States, Handles, Holds, HandlesInv, DropUnfinished
<1>2. HandlesInv'
  BY SMTT(30) DEF IInv, TypeOK, HandlesInv, DropUnfinished
<1>3. TurnInv'
  BY SMT DEF IInv, TypeOK, TurnInv, HandlesInv, DropUnfinished
<1>4. HoldsInv'
  BY DEF IInv, TypeOK, HoldsInv, HandlesInv, EpochsInv, DropUnfinished
<1>5. ConflictsKept'
  BY SMTT(30) DEF IInv, TypeOK, ConflictsKept, EpochsInv, CommittedSince, InMap,
     HandlesInv, DropUnfinished
<1>6. SettledCompatible'
  BY SMTT(30) DEF IInv, TypeOK, SettledCompatible, Settled, Compatible, EpochsInv,
     HandlesInv, DropUnfinished
<1>7. UNCHANGED <<assigned, published, activeCount, committedEpochs, state,
   level, start, claims, mark, epochOf, committedTx, direct>>
  BY DEF DropUnfinished
<1>8. ActiveCountExact' /\ EpochsInv' /\ PublishedIsComplete' /\
   OpenCompatible' /\ CommittedCompatible' /\ MarksInv' /\ DirectInv' /\
   ReadsInv'
  BY <1>7, ActiveCountExactFrame, EpochsInvFrame, PublishedIsCompleteFrame,
     OpenCompatibleFrame, CommittedCompatibleFrame, MarksInvFrame,
     DirectInvFrame, ReadsInvFrame DEF IInv
<1>9. QED
  BY <1>1, <1>2, <1>3, <1>4, <1>5, <1>6, <1>8 DEF IInv

\* And bars its epoch.
LEMMA BarEpochInv ==
  ASSUME IInv, NEW t \in Tx, BarEpoch(t)
  PROVE  IInv'
<1>1. TypeOK'
  BY DEF IInv, TypeOK, States, Handles, Holds, HandlesInv, BarEpoch
<1>2. HandlesInv'
  BY SMT DEF IInv, TypeOK, HandlesInv, BarEpoch
<1>3. TurnInv'
  BY DEF IInv, TypeOK, TurnInv, HandlesInv, BarEpoch
<1>4. HoldsInv'
  BY DEF IInv, TypeOK, HoldsInv, HandlesInv, EpochsInv, BarEpoch
<1>5. ConflictsKept'
  BY DEF IInv, TypeOK, ConflictsKept, EpochsInv, CommittedSince, InMap,
     HandlesInv, BarEpoch
<1>6. SettledCompatible'
  BY SMTT(30) DEF IInv, TypeOK, SettledCompatible, Settled, Compatible, EpochsInv,
     HandlesInv, BarEpoch
<1>7. UNCHANGED <<assigned, published, activeCount, committedEpochs, state,
   level, start, claims, mark, epochOf, committedTx, direct>>
  BY DEF BarEpoch
<1>8. ActiveCountExact' /\ EpochsInv' /\ PublishedIsComplete' /\
   OpenCompatible' /\ CommittedCompatible' /\ MarksInv' /\ DirectInv' /\
   ReadsInv'
  BY <1>7, ActiveCountExactFrame, EpochsInvFrame, PublishedIsCompleteFrame,
     OpenCompatibleFrame, CommittedCompatibleFrame, MarksInvFrame,
     DirectInvFrame, ReadsInvFrame DEF IInv
<1>9. QED
  BY <1>1, <1>2, <1>3, <1>4, <1>5, <1>6, <1>8 DEF IInv

-----------------------------------------------------------------------------
(* The steps of the whole manager, and the theorems. *)

\* Holding commits off preserves the invariant: every epoch is published.
LEMMA HoldForChangeInv ==
  ASSUME IInv, HoldForChange
  PROVE  IInv'
<1>1. TypeOK'
  BY DEF IInv, TypeOK, States, Handles, Holds, HoldForChange, HoldsForChange
<1>2. HoldsInv'
  BY SMTT(30) DEF IInv, TypeOK, HoldsInv, HandlesInv, EpochsInv, CommitLocked,
     HoldForChange, HoldsForChange
<1>3. UNCHANGED <<assigned, published, activeCount, turn, committedEpochs,
   state, level, start, claims, mark, handle, epochOf, committedTx, direct>>
  BY DEF HoldForChange, HoldsForChange
<1>4. ActiveCountExact' /\ HandlesInv' /\ TurnInv' /\ EpochsInv' /\
   PublishedIsComplete' /\ ConflictsKept' /\ OpenCompatible' /\
   SettledCompatible' /\ CommittedCompatible' /\ MarksInv' /\ DirectInv' /\
   ReadsInv'
  BY <1>3, ActiveCountExactFrame, HandlesInvFrame, TurnInvFrame,
     EpochsInvFrame, PublishedIsCompleteFrame, ConflictsKeptFrame,
     OpenCompatibleFrame, SettledCompatibleFrame, CommittedCompatibleFrame,
     MarksInvFrame, DirectInvFrame, ReadsInvFrame DEF IInv
<1>5. QED
  BY <1>1, <1>2, <1>4 DEF IInv

\* So does holding them off behind the idle gate.
LEMMA HoldForDirectInv ==
  ASSUME IInv, HoldForDirect
  PROVE  IInv'
<1>1. TypeOK'
  BY DEF IInv, TypeOK, States, Handles, Holds, HoldForDirect, HoldsForChange
<1>2. HoldsInv'
  BY SMT DEF IInv, TypeOK, HoldsInv, HandlesInv, EpochsInv, CommitLocked,
     HoldForDirect, HoldsForChange
<1>3. UNCHANGED <<assigned, published, activeCount, turn, committedEpochs,
   state, level, start, claims, mark, handle, epochOf, committedTx, direct>>
  BY DEF HoldForDirect, HoldsForChange
<1>4. ActiveCountExact' /\ HandlesInv' /\ TurnInv' /\ EpochsInv' /\
   PublishedIsComplete' /\ ConflictsKept' /\ OpenCompatible' /\
   SettledCompatible' /\ CommittedCompatible' /\ MarksInv' /\ DirectInv' /\
   ReadsInv'
  BY <1>3, ActiveCountExactFrame, HandlesInvFrame, TurnInvFrame,
     EpochsInvFrame, PublishedIsCompleteFrame, ConflictsKeptFrame,
     OpenCompatibleFrame, SettledCompatibleFrame, CommittedCompatibleFrame,
     MarksInvFrame, DirectInvFrame, ReadsInvFrame DEF IInv
<1>5. QED
  BY <1>1, <1>2, <1>4 DEF IInv

\* An immediate write preserves it: no transaction is open.
LEMMA DirectWriteInv ==
  ASSUME IInv, NEW entity \in Entity, DirectWrite(entity)
  PROVE  IInv'
<1>1. TypeOK'
  BY SMTT(30) DEF IInv, TypeOK, States, Handles, Holds, DirectWrite, SyncEpoch
<1>2. HandlesInv'
  BY DEF IInv, TypeOK, HandlesInv, HoldsInv, DirectWrite, SyncEpoch
<1>3. TurnInv'
  BY SMTT(30) DEF IInv, TypeOK, TurnInv, HandlesInv, HoldsInv, EpochsInv, DirectWrite,
     SyncEpoch
<1>4. HoldsInv'
  BY DEF IInv, TypeOK, HoldsInv, HandlesInv, EpochsInv, DirectWrite, SyncEpoch
<1>5. EpochsInv'
  BY SMTT(30) DEF IInv, TypeOK, EpochsInv, HoldsInv, DirectWrite, SyncEpoch
<1>6. PublishedIsComplete'
  BY SMTT(30) DEF IInv, TypeOK, PublishedIsComplete, EpochsInv, HoldsInv, DirectWrite,
     SyncEpoch
<1>7. DirectInv'
  <2>1. \A t \in Tx : ~Open(t)
    BY NoneOpen DEF IInv, HoldsInv, DirectWrite
  <2>2. direct' = direct \cup {<<published + 1, entity>>} /\ published' = published + 1
    BY DEF DirectWrite, SyncEpoch
  <2>3. QED
    BY <2>1, <2>2, SMTT(30) DEF IInv, TypeOK, DirectInv, Open, EpochsInv, DirectWrite, SyncEpoch
<1>8. UNCHANGED <<activeCount, committedEpochs, state, level, start, claims,
   mark, handle, epochOf, committedTx>>
  BY DEF DirectWrite, SyncEpoch
<1>9. ActiveCountExact' /\ ConflictsKept' /\ OpenCompatible' /\
   SettledCompatible' /\ CommittedCompatible' /\ MarksInv' /\ ReadsInv'
  BY <1>8, ActiveCountExactFrame, ConflictsKeptFrame, OpenCompatibleFrame,
     SettledCompatibleFrame, CommittedCompatibleFrame, MarksInvFrame,
     ReadsInvFrame DEF IInv
<1>10. QED
  BY <1>1, <1>2, <1>3, <1>4, <1>5, <1>6, <1>7, <1>9 DEF IInv

\* An import moves the epochs of nobody.
LEMMA ImportInv ==
  ASSUME IInv, Import
  PROVE  IInv'
<1>1. TypeOK'
  BY SMTT(30) DEF IInv, TypeOK, States, Handles, Holds, Import, SyncEpoch
<1>2. HandlesInv'
  BY DEF IInv, TypeOK, HandlesInv, HoldsInv, Import, SyncEpoch
<1>3. TurnInv'
  BY SMTT(30) DEF IInv, TypeOK, TurnInv, HandlesInv, HoldsInv, EpochsInv, Import,
     SyncEpoch
<1>4. HoldsInv'
  BY DEF IInv, TypeOK, HoldsInv, HandlesInv, EpochsInv, Import, SyncEpoch
<1>5. EpochsInv'
  BY SMTT(30) DEF IInv, TypeOK, EpochsInv, HoldsInv, Import, SyncEpoch
<1>6. PublishedIsComplete'
  BY SMTT(30) DEF IInv, TypeOK, PublishedIsComplete, EpochsInv, HoldsInv, Import,
     SyncEpoch
<1>7. DirectInv'
  BY SMT DEF IInv, TypeOK, DirectInv, Open, EpochsInv, Import, SyncEpoch
<1>8. UNCHANGED <<activeCount, committedEpochs, state, level, start, claims,
   mark, handle, epochOf, committedTx>>
  BY DEF Import, SyncEpoch
<1>9. ActiveCountExact' /\ ConflictsKept' /\ OpenCompatible' /\
   SettledCompatible' /\ CommittedCompatible' /\ MarksInv' /\ ReadsInv'
  BY <1>8, ActiveCountExactFrame, ConflictsKeptFrame, OpenCompatibleFrame,
     SettledCompatibleFrame, CommittedCompatibleFrame, MarksInvFrame,
     ReadsInvFrame DEF IInv
<1>10. QED
  BY <1>1, <1>2, <1>3, <1>4, <1>5, <1>6, <1>7, <1>9 DEF IInv

\* Releasing the hold touches no transaction.
LEMMA ReleaseHoldInv ==
  ASSUME IInv, ReleaseHold
  PROVE  IInv'
<1>1. TypeOK'
  BY DEF IInv, TypeOK, States, Handles, Holds, ReleaseHold
<1>2. HoldsInv'
  BY DEF IInv, TypeOK, HoldsInv, HandlesInv, EpochsInv, ReleaseHold
<1>3. UNCHANGED <<assigned, published, activeCount, turn, committedEpochs,
   state, level, start, claims, mark, handle, epochOf, committedTx, direct>>
  BY DEF ReleaseHold
<1>4. ActiveCountExact' /\ HandlesInv' /\ TurnInv' /\ EpochsInv' /\
   PublishedIsComplete' /\ ConflictsKept' /\ OpenCompatible' /\
   SettledCompatible' /\ CommittedCompatible' /\ MarksInv' /\ DirectInv' /\
   ReadsInv'
  BY <1>3, ActiveCountExactFrame, HandlesInvFrame, TurnInvFrame,
     EpochsInvFrame, PublishedIsCompleteFrame, ConflictsKeptFrame,
     OpenCompatibleFrame, SettledCompatibleFrame, CommittedCompatibleFrame,
     MarksInvFrame, DirectInvFrame, ReadsInvFrame DEF IInv
<1>5. QED
  BY <1>1, <1>2, <1>4 DEF IInv

\* Neither does poisoning the manager.
LEMMA PoisonInv ==
  ASSUME IInv, Poison
  PROVE  IInv'
<1>1. TypeOK'
  BY DEF IInv, TypeOK, States, Handles, Holds, Poison
<1>2. UNCHANGED <<assigned, published, activeCount, held, turn,
   committedEpochs, state, level, start, claims, mark, handle, epochOf,
   committedTx, direct>>
  BY DEF Poison
<1>3. ActiveCountExact' /\ HandlesInv' /\ TurnInv' /\ HoldsInv' /\ EpochsInv'
   /\ PublishedIsComplete' /\ ConflictsKept' /\ OpenCompatible' /\
   SettledCompatible' /\ CommittedCompatible' /\ MarksInv' /\ DirectInv' /\
   ReadsInv'
  BY <1>2, ActiveCountExactFrame, HandlesInvFrame, TurnInvFrame,
     HoldsInvFrame, EpochsInvFrame, PublishedIsCompleteFrame,
     ConflictsKeptFrame, OpenCompatibleFrame, SettledCompatibleFrame,
     CommittedCompatibleFrame, MarksInvFrame, DirectInvFrame, ReadsInvFrame
     DEF IInv
<1>4. QED
  BY <1>1, <1>3 DEF IInv

\* Nor barring every epoch.
LEMMA BarAllEpochsInv ==
  ASSUME IInv, BarAllEpochs
  PROVE  IInv'
<1>1. TypeOK'
  BY DEF IInv, TypeOK, States, Handles, Holds, BarAllEpochs
<1>2. UNCHANGED <<assigned, published, activeCount, held, turn,
   committedEpochs, state, level, start, claims, mark, handle, epochOf,
   committedTx, direct>>
  BY DEF BarAllEpochs
<1>3. ActiveCountExact' /\ HandlesInv' /\ TurnInv' /\ HoldsInv' /\ EpochsInv'
   /\ PublishedIsComplete' /\ ConflictsKept' /\ OpenCompatible' /\
   SettledCompatible' /\ CommittedCompatible' /\ MarksInv' /\ DirectInv' /\
   ReadsInv'
  BY <1>2, ActiveCountExactFrame, HandlesInvFrame, TurnInvFrame,
     HoldsInvFrame, EpochsInvFrame, PublishedIsCompleteFrame,
     ConflictsKeptFrame, OpenCompatibleFrame, SettledCompatibleFrame,
     CommittedCompatibleFrame, MarksInvFrame, DirectInvFrame, ReadsInvFrame
     DEF IInv
<1>4. QED
  BY <1>1, <1>3 DEF IInv

\* Nor closing it.
LEMMA CloseForWritesInv ==
  ASSUME IInv, CloseForWrites
  PROVE  IInv'
<1>1. TypeOK'
  BY DEF IInv, TypeOK, States, Handles, Holds, CloseForWrites
<1>2. UNCHANGED <<assigned, published, activeCount, held, turn,
   committedEpochs, state, level, start, claims, mark, handle, epochOf,
   committedTx, direct>>
  BY DEF CloseForWrites
<1>3. ActiveCountExact' /\ HandlesInv' /\ TurnInv' /\ HoldsInv' /\ EpochsInv'
   /\ PublishedIsComplete' /\ ConflictsKept' /\ OpenCompatible' /\
   SettledCompatible' /\ CommittedCompatible' /\ MarksInv' /\ DirectInv' /\
   ReadsInv'
  BY <1>2, ActiveCountExactFrame, HandlesInvFrame, TurnInvFrame,
     HoldsInvFrame, EpochsInvFrame, PublishedIsCompleteFrame,
     ConflictsKeptFrame, OpenCompatibleFrame, SettledCompatibleFrame,
     CommittedCompatibleFrame, MarksInvFrame, DirectInvFrame, ReadsInvFrame
     DEF IInv
<1>4. QED
  BY <1>1, <1>3 DEF IInv

\* Dropping the finished transactions nobody can conflict with preserves it.
LEMMA GcInv ==
  ASSUME IInv, Gc
  PROVE  IInv'
<1>1. TypeOK'
  BY DEF IInv, TypeOK, States, Handles, Holds, Gc, Collectable
<1>2. ActiveCountExact'
  BY DEF IInv, TypeOK, ActiveCountExact, Open, Gc, Collectable
<1>3. HandlesInv'
  BY DEF IInv, TypeOK, HandlesInv, Gc, Collectable
<1>4. EpochsInv'
  BY DEF IInv, TypeOK, EpochsInv, Gc, Collectable
<1>5. PublishedIsComplete'
  BY DEF IInv, TypeOK, PublishedIsComplete, Gc, Collectable
<1>6. ConflictsKept'
  BY SMTT(30) DEF IInv, TypeOK, ConflictsKept, EpochsInv, CommittedSince, InMap, Gc,
     Collectable
<1>7. OpenCompatible'
  BY DEF IInv, TypeOK, OpenCompatible, Open, Compatible, Gc, Collectable
<1>8. SettledCompatible'
  BY SMT DEF IInv, TypeOK, SettledCompatible, Settled, Compatible, EpochsInv, Gc,
     Collectable
<1>9. DirectInv'
  BY DEF IInv, TypeOK, DirectInv, Open, EpochsInv, Gc, Collectable
<1>10. ReadsInv'
  BY DEF IInv, TypeOK, ReadsInv, EpochsInv, Gc, Collectable
<1>11. UNCHANGED <<assigned, published, activeCount, held, turn, start,
   claims, mark, handle, epochOf, committedTx>>
  BY DEF Gc, Collectable
<1>12. TurnInv' /\ HoldsInv' /\ CommittedCompatible' /\ MarksInv'
  BY <1>11, TurnInvFrame, HoldsInvFrame, CommittedCompatibleFrame,
     MarksInvFrame DEF IInv
<1>13. QED
  BY <1>1, <1>2, <1>3, <1>4, <1>5, <1>6, <1>7, <1>8, <1>9, <1>10, <1>12 DEF
     IInv

\* The invariant holds when the manager is created.
LEMMA InitInv == Init => IInv
<1> SUFFICES ASSUME Init PROVE IInv
  OBVIOUS
<1>1. TypeOK
  BY EpochAssumption DEF Init, TypeOK, States, Handles, Holds, ClaimSets, NoClaims
<1>2. ActiveCountExact
  <2>1. {t \in Tx : Open(t)} = {}
    BY DEF Init, Open
  <2>2. QED
    BY <2>1, FS_EmptySet DEF Init, ActiveCountExact
<1>3. HandlesInv /\ TurnInv /\ HoldsInv /\ EpochsInv /\ PublishedIsComplete /\ ConflictsKept
  BY SMT DEF Init, HandlesInv, TurnInv, HoldsInv, EpochsInv, PublishedIsComplete, ConflictsKept
<1>4. OpenCompatible /\ SettledCompatible /\ CommittedCompatible /\ MarksInv
  BY DEF Init, OpenCompatible, Open, SettledCompatible, CommittedCompatible, MarksInv
<1>5. DirectInv /\ ReadsInv
  BY DEF Init, DirectInv, ReadsInv
<1>6. QED
  BY <1>1, <1>2, <1>3, <1>4, <1>5 DEF IInv

\* Every operation of the manager preserves the invariant.
LEMMA NextInv == IInv /\ [Next]_vars => IInv'
<1> SUFFICES ASSUME IInv, [Next]_vars PROVE IInv'
  OBVIOUS
<1>1. CASE \E t \in Tx : TxStep(t)
  <2> PICK t \in Tx : TxStep(t)
    BY <1>1
  <2>1. CASE Begin(t) \/ BeginPrivate(t)
    BY <2>1, RegisterInv DEF Begin, BeginPrivate
  <2>2. CASE Abort(t)
    BY <2>2, AbortInv
  <2>3. CASE \E claim \in Claims \cap {"Write", "Delete"}, entity \in Entity :
               RecordClaims(t, claim, {entity})
    BY <2>3, RecordClaimsInv
  <2>4. CASE \E claim \in Claims \cap {"Endpoint"}, src, dst \in Entity :
               RecordClaims(t, claim, {src, dst})
    BY <2>4, RecordClaimsInv
  <2>5. CASE \E key \in Key : RecordKey(t, key)
    BY <2>5, RecordKeyInv
  <2>6. CASE \E entity \in Entity : RecordRead(t, entity)
    BY <2>6, RecordReadInv
  <2>7. CASE MarkClaims(t)
    BY <2>7, MarkClaimsInv
  <2>8. CASE RestoreClaims(t)
    BY <2>8, RestoreClaimsInv
  <2>9. CASE StartCommit(t)
    BY <2>9, StartCommitInv
  <2>10. CASE GuardAbort(t)
    BY <2>10, GuardAbortInv
  <2>11. CASE Written(t)
    BY <2>11, WrittenInv
  <2>12. CASE TakeTurn(t) \/ Complete(t) \/ OrderedFails(t)
    BY <2>12, TakeTurnInv, CompleteInv, OrderedFailsInv
  <2>13. CASE RefusePublish(t) \/ DropUnfinished(t) \/ BarEpoch(t)
    BY <2>13, RefusePublishInv, DropUnfinishedInv, BarEpochInv
  <2>14. QED
    BY <2>1, <2>2, <2>3, <2>4, <2>5, <2>6, <2>7, <2>8, <2>9, <2>10, <2>11, <2>12,
       <2>13 DEF TxStep
<1>2. CASE \E entity \in Entity : DirectWrite(entity)
  BY <1>2, DirectWriteInv
<1>3. CASE Import
  BY <1>3, ImportInv
<1>4. CASE HoldForDirect \/ HoldForChange \/ ReleaseHold
  BY <1>4, HoldForDirectInv, HoldForChangeInv, ReleaseHoldInv
<1>5. CASE AbortAllActive
  BY <1>5, AbortAllActiveInv
<1>6. CASE Gc
  BY <1>6, GcInv
<1>7. CASE Poison \/ BarAllEpochs \/ CloseForWrites
  BY <1>7, PoisonInv, BarAllEpochsInv, CloseForWritesInv
<1>8. CASE UNCHANGED vars
  <2>1. TypeOK'
    BY <1>8 DEF vars, IInv, TypeOK
  <2>2. QED
    BY <1>8, <2>1, ActiveCountExactFrame, HandlesInvFrame, TurnInvFrame, HoldsInvFrame,
       EpochsInvFrame, PublishedIsCompleteFrame, ConflictsKeptFrame,
       OpenCompatibleFrame, SettledCompatibleFrame, CommittedCompatibleFrame,
       MarksInvFrame, DirectInvFrame, ReadsInvFrame DEF vars, IInv
<1>9. QED
  BY <1>1, <1>2, <1>3, <1>4, <1>5, <1>6, <1>7, <1>8 DEF Next

\* The manager keeps the inductive invariant, for any number of transactions,
\* entities and keys.
THEOREM ManagerInvariant == Spec => []IInv
  BY InitInv, NextInv, PTL DEF Spec

\* The manager's state keeps its types; active_count never wraps below zero.
THEOREM ManagerTypes == Spec => []TypeOK
<1>1. IInv => TypeOK
  BY DEF IInv
<1>2. QED
  BY <1>1, ManagerInvariant, PTL

\* active_count is the number of open transactions.
THEOREM ManagerCounts == Spec => []ActiveCountExact
<1>1. IInv => ActiveCountExact
  BY DEF IInv
<1>2. QED
  BY <1>1, ManagerInvariant, PTL

\* A snapshot at the published epoch holds whole commits only.
THEOREM SnapshotsComplete == Spec => []PublishedIsComplete
<1>1. IInv => PublishedIsComplete
  BY DEF IInv
<1>2. QED
  BY <1>1, ManagerInvariant, PTL

\* gc and the removal of private transactions keep what validation needs.
THEOREM ValidationHasClaims == Spec => []ConflictsKept
<1>1. IInv => ConflictsKept
  BY DEF IInv
<1>2. QED
  BY <1>1, ManagerInvariant, PTL

\* No lost update: concurrent committed transactions wrote different entities,
\* and nobody overwrote an immediate write outside its snapshot.
THEOREM NoLostUpdate == Spec => []FirstCommitterWins
<1>1. IInv => FirstCommitterWins
  <2> SUFFICES ASSUME IInv PROVE FirstCommitterWins
    OBVIOUS
  <2>1. \A a, b \in committedTx :
          a # b /\ Concurrent(a, b) => claims[a].write \cap claims[b].write = {}
    BY DEF IInv, CommittedCompatible, Compatible
  <2>2. ASSUME NEW t \in committedTx, NEW d \in direct,
               start[t] < d[1], d[1] < epochOf[t]
        PROVE  FALSE
    BY <2>2, SMTT(30) DEF IInv, TypeOK, DirectInv
  <2>3. QED
    BY <2>1, <2>2 DEF FirstCommitterWins
<1>2. QED
  BY <1>1, ManagerInvariant, PTL

\* No committed edge dangles from a node a concurrent commit deleted.
THEOREM EdgesAnchored == Spec => []NoDanglingEdge
<1>1. IInv => NoDanglingEdge
  BY DEF IInv, NoDanglingEdge, CommittedCompatible, Compatible
<1>2. QED
  BY <1>1, ManagerInvariant, PTL

\* Concurrent commits never wrote the same value of a unique key.
THEOREM KeysUnique == Spec => []UniqueKeys
<1>1. IInv => UniqueKeys
  BY DEF IInv, UniqueKeys, CommittedCompatible, Compatible
<1>2. QED
  BY <1>1, ManagerInvariant, PTL

\* A serializable commit read nothing that was overwritten before it.
THEOREM ReadsSerializable == Spec => []SerializableReads
<1>1. IInv => SerializableReads
  BY DEF IInv, TypeOK, SerializableReads, ReadsInv
<1>2. QED
  BY <1>1, ManagerInvariant, PTL

\* Commits publish in epoch order without gaps.
THEOREM OrderedPublishing == Spec => PublishInOrder
<1> DEFINE Step == /\ published' \in {published, published + 1}
                   /\ \A t \in committedTx' \ committedTx : epochOf[t] = published'
<1>1. IInv /\ [Next]_vars => [Step]_vars
  <2> SUFFICES ASSUME IInv, Next PROVE Step
    BY DEF vars
  <2>1. CASE \E t \in Tx : Complete(t)
    BY <2>1, SMT DEF IInv, TypeOK, TurnInv, Complete
  <2>2. CASE (\E entity \in Entity : DirectWrite(entity)) \/ Import
    BY <2>2 DEF DirectWrite, Import, SyncEpoch
  <2>3. CASE UNCHANGED <<published, committedTx>>
    BY <2>3
  <2>4. QED
    BY <2>1, <2>2, <2>3, ZenonT(30) DEF Next, TxStep, Begin, BeginPrivate, Register, Abort,
       RecordClaims, RecordKey, RecordRead, MarkClaims, RestoreClaims, StartCommit,
       GuardAbort, Written, TakeTurn, OrderedFails, RefusePublish, DropUnfinished, BarEpoch,
       HoldForDirect,
       HoldForChange, ReleaseHold, Poison, BarAllEpochs, CloseForWrites,
       AbortAllActive, Gc
<1>2. QED
  BY <1>1, ManagerInvariant, PTL DEF Spec, PublishInOrder
=============================================================================
