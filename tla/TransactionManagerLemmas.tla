---------------------- MODULE TransactionManagerLemmas ----------------------
(*****************************************************************************)
(* What the proofs about TransactionManager rest on: how the count of open   *)
(* transactions moves, which variables each part of the invariant IInv       *)
(* reads, and that beginning, rolling back, recording claims and reads, and  *)
(* savepoints preserve IInv.                                                 *)
(*****************************************************************************)
EXTENDS TransactionManager, FiniteSetTheorems, TLAPS

\* Zenon proves a step unless the step names another prover.
USE Zenon

OpenSet == {t \in Tx : Open(t)}

\* The open transactions are finitely many.
LEMMA OpenFinite == IsFiniteSet(OpenSet) /\ Cardinality(OpenSet) \in Nat
  BY TxAssumption, FS_Subset, FS_CardinalityType DEF OpenSet

\* One open transaction more: the count goes up by one.
LEMMA OneMoreOpen ==
  ASSUME NEW t \in Tx, ActiveCountExact, ~Open(t),
         OpenSet' = OpenSet \cup {t}, activeCount' = activeCount + 1
  PROVE  ActiveCountExact' /\ activeCount' \in Nat
<1>1. t \notin OpenSet
  BY DEF OpenSet
<1>2. Cardinality(OpenSet \cup {t}) = Cardinality(OpenSet) + 1
  BY <1>1, OpenFinite, FS_AddElement
<1>3. ActiveCountExact'
  BY <1>2 DEF ActiveCountExact, OpenSet
<1>4. QED
  BY <1>2, <1>3, OpenFinite, SMT DEF ActiveCountExact, OpenSet

\* One open transaction less: the count goes down by one, and stays natural.
LEMMA OneLessOpen ==
  ASSUME NEW t \in Tx, ActiveCountExact, Open(t),
         OpenSet' = OpenSet \ {t}, activeCount' = activeCount - 1
  PROVE  ActiveCountExact' /\ activeCount' \in Nat
<1>1. t \in OpenSet
  BY DEF OpenSet
<1>2. /\ IsFiniteSet(OpenSet \ {t})
      /\ Cardinality(OpenSet \ {t}) = Cardinality(OpenSet) - 1
  BY <1>1, OpenFinite, FS_RemoveElement
<1>3. ActiveCountExact'
  BY <1>2 DEF ActiveCountExact, OpenSet
<1>4. QED
  BY <1>2, <1>3, FS_CardinalityType DEF ActiveCountExact, OpenSet

\* A count of one leaves no other open transaction.
LEMMA OnlyOneOpen ==
  ASSUME NEW t \in Tx, NEW o \in Tx, ActiveCountExact, Open(t), Open(o),
         ~(activeCount > 1)
  PROVE  t = o
<1>1. /\ t \in OpenSet /\ o \in OpenSet
      /\ activeCount = Cardinality(OpenSet)
  BY DEF OpenSet, ActiveCountExact
<1>2. SUFFICES ASSUME t # o PROVE FALSE
  OBVIOUS
<1>3. /\ IsFiniteSet(OpenSet \ {t})
      /\ Cardinality(OpenSet \ {t}) = Cardinality(OpenSet) - 1
  BY <1>1, OpenFinite, FS_RemoveElement
<1>4. /\ IsFiniteSet((OpenSet \ {t}) \ {o})
      /\ Cardinality((OpenSet \ {t}) \ {o}) = Cardinality(OpenSet \ {t}) - 1
  BY <1>1, <1>2, <1>3, FS_RemoveElement
<1>5. Cardinality((OpenSet \ {t}) \ {o}) \in Nat
  BY <1>4, FS_CardinalityType
<1>6. QED
  BY <1>1, <1>3, <1>4, <1>5, OpenFinite, SMT

\* The direct calls' idle gate: a count of zero leaves nobody open.
LEMMA NoneOpen ==
  ASSUME NEW t \in Tx, ActiveCountExact, activeCount = 0
  PROVE  ~Open(t)
<1>1. OpenSet = {}
  BY OpenFinite, FS_EmptySet DEF ActiveCountExact, OpenSet
<1>2. QED
  BY <1>1 DEF OpenSet

\* What recording a claim does to the claim sets of a transaction: they grow by
\* the entities claimed, each only for its kinds of claim.
LEMMA ClaimedSets ==
  ASSUME NEW sets \in ClaimSets, NEW claim \in Claims, NEW entities \in SUBSET Entity
  PROVE  LET new == Claimed(sets, claim, entities) IN
         /\ new \in ClaimSets /\ new.key = sets.key
         /\ sets.write \subseteq new.write /\ sets.delete \subseteq new.delete
         /\ sets.endpoint \subseteq new.endpoint
         /\ \A e \in new.write \ sets.write : e \in entities /\ claim # "Endpoint"
         /\ \A e \in new.delete \ sets.delete : e \in entities /\ claim = "Delete"
         /\ \A e \in new.endpoint \ sets.endpoint : e \in entities /\ claim = "Endpoint"
<1>1. CASE claim = "Write"
  BY <1>1 DEF Claimed, ClaimSets
<1>2. CASE claim = "Delete"
  BY <1>2 DEF Claimed, ClaimSets
<1>3. CASE claim = "Endpoint"
  BY <1>3 DEF Claimed, ClaimSets
<1>4. QED
  BY <1>1, <1>2, <1>3, ClaimsAssumption

\* A conjunct of the invariant survives every step that leaves the variables it
\* reads alone; one lemma for each.

\* ActiveCountExact only reads these variables.
LEMMA ActiveCountExactFrame ==
  ActiveCountExact /\ UNCHANGED <<activeCount, state>> => ActiveCountExact'
  BY DEF ActiveCountExact, Open

\* HandlesInv only reads these variables.
LEMMA HandlesInvFrame ==
  HandlesInv /\ UNCHANGED <<state, claims, mark, handle, epochOf, assigned>>
     => HandlesInv'
  BY SMT DEF HandlesInv

\* TurnInv only reads these variables.
LEMMA TurnInvFrame ==
  TurnInv /\ UNCHANGED <<turn, handle, epochOf, published>> => TurnInv'
  BY DEF TurnInv

\* HoldsInv only reads these variables.
LEMMA HoldsInvFrame ==
  HoldsInv /\ UNCHANGED <<held, published, assigned, handle, activeCount>> =>
     HoldsInv'
  BY DEF HoldsInv

\* EpochsInv only reads these variables.
LEMMA EpochsInvFrame ==
  EpochsInv /\ UNCHANGED <<published, assigned, start, state, committedEpochs,
     epochOf, committedTx>> => EpochsInv'
  BY DEF EpochsInv

\* PublishedIsComplete only reads these variables.
LEMMA PublishedIsCompleteFrame ==
  PublishedIsComplete /\ UNCHANGED <<state, epochOf, published, assigned>> =>
     PublishedIsComplete'
  BY DEF PublishedIsComplete

\* ConflictsKept only reads these variables.
LEMMA ConflictsKeptFrame ==
  ConflictsKept /\ UNCHANGED <<state, handle, epochOf, start, committedTx,
     committedEpochs>> => ConflictsKept'
  BY DEF ConflictsKept, CommittedSince, InMap

\* OpenCompatible only reads these variables.
LEMMA OpenCompatibleFrame ==
  OpenCompatible /\ UNCHANGED <<state, claims>> => OpenCompatible'
  BY DEF OpenCompatible, Open, Compatible

\* SettledCompatible only reads these variables.
LEMMA SettledCompatibleFrame ==
  SettledCompatible /\ UNCHANGED <<state, handle, claims, committedTx,
     epochOf, start>> => SettledCompatible'
  BY DEF SettledCompatible, Settled, Compatible

\* CommittedCompatible only reads these variables.
LEMMA CommittedCompatibleFrame ==
  CommittedCompatible /\ UNCHANGED <<committedTx, epochOf, start, claims>> =>
     CommittedCompatible'
  BY DEF CommittedCompatible, Concurrent, Compatible

\* MarksInv only reads these variables.
LEMMA MarksInvFrame ==
  MarksInv /\ UNCHANGED <<mark, claims>> => MarksInv'
  BY DEF MarksInv

\* DirectInv only reads these variables.
LEMMA DirectInvFrame ==
  DirectInv /\ UNCHANGED <<direct, published, state, start, committedTx,
     epochOf>> => DirectInv'
  BY DEF DirectInv, Open

\* ReadsInv only reads these variables.
LEMMA ReadsInvFrame ==
  ReadsInv /\ UNCHANGED <<state, committedTx, level, start, epochOf, claims>>
     => ReadsInv'
  BY DEF ReadsInv

\* Beginning a transaction preserves the invariant: its snapshot holds every
\* commit published, so nobody's claims can conflict with it yet.
LEMMA RegisterInv ==
  ASSUME IInv, NEW t \in Tx, NEW isolation \in Levels \cup {"SnapshotIsolation"},
         NEW isPrivate \in BOOLEAN, Register(t, isolation, isPrivate)
  PROVE  IInv'
<1>1. TypeOK'
  BY SMT DEF IInv, TypeOK, States, Handles, Holds, Register
<1>2. ActiveCountExact'
  <2>1. OpenSet' = OpenSet \cup {t} /\ ~Open(t)
    BY DEF OpenSet, Open, Register, IInv, TypeOK
  <2>2. QED
    BY <2>1, OneMoreOpen DEF Register, IInv
<1>3. HandlesInv'
  BY DEF IInv, TypeOK, HandlesInv, Register
<1>4. HoldsInv'
  BY DEF IInv, TypeOK, HoldsInv, HandlesInv, EpochsInv, Register
<1>5. EpochsInv'
  BY SMT DEF IInv, TypeOK, EpochsInv, Register
<1>6. PublishedIsComplete'
  BY SMT DEF IInv, TypeOK, PublishedIsComplete, Register
<1>7. ConflictsKept'
  BY SMT DEF IInv, TypeOK, ConflictsKept, EpochsInv, CommittedSince, InMap,
     Register
<1>8. OpenCompatible'
  BY SMT DEF IInv, TypeOK, OpenCompatible, Open, Compatible, HandlesInv, NoClaims,
     Register
<1>9. SettledCompatible'
  BY SMT DEF IInv, TypeOK, SettledCompatible, Settled, Compatible, EpochsInv,
     HandlesInv, Register
<1>10. CommittedCompatible'
  BY SMT DEF IInv, TypeOK, CommittedCompatible, Concurrent, Compatible, EpochsInv,
     Register
<1>11. DirectInv'
  BY DEF IInv, TypeOK, DirectInv, Open, EpochsInv, Register
<1>12. ReadsInv'
  BY DEF IInv, TypeOK, ReadsInv, EpochsInv, Register
<1>13. UNCHANGED <<published, turn, claims, mark, handle, epochOf>>
  BY DEF Register
<1>14. TurnInv' /\ MarksInv'
  BY <1>13, TurnInvFrame, MarksInvFrame DEF IInv
<1>15. QED
  BY <1>1, <1>2, <1>3, <1>4, <1>5, <1>6, <1>7, <1>8, <1>9, <1>10, <1>11,
     <1>12, <1>14 DEF IInv

\* Rolling a transaction back preserves the invariant.
LEMMA AbortInv ==
  ASSUME IInv, NEW t \in Tx, Abort(t)
  PROVE  IInv'
<1>1. TypeOK'
  <2>1. activeCount' \in Nat
    <3>1. OpenSet' = OpenSet \ {t} /\ Open(t)
      BY DEF OpenSet, Open, Abort, IInv, TypeOK
    <3>2. QED
      BY <3>1, OneLessOpen DEF Abort, IInv
  <2>2. QED
    BY <2>1 DEF IInv, TypeOK, States, Handles, Holds, Abort
<1>2. ActiveCountExact'
  <2>1. OpenSet' = OpenSet \ {t} /\ Open(t)
    BY DEF OpenSet, Open, Abort, IInv, TypeOK
  <2>2. QED
    BY <2>1, OneLessOpen DEF Abort, IInv
<1>3. HandlesInv'
  BY SMT DEF IInv, TypeOK, HandlesInv, Abort
<1>4. TurnInv'
  BY DEF IInv, TypeOK, TurnInv, HandlesInv, Abort
<1>5. HoldsInv'
  <2>1. held # "Direct"
    BY NoneOpen DEF IInv, HoldsInv, Open, Abort
  <2>2. QED
    BY <2>1, SMT DEF IInv, TypeOK, HoldsInv, HandlesInv, EpochsInv, PublishedIsComplete, Abort
<1>6. EpochsInv'
  BY DEF IInv, TypeOK, EpochsInv, HandlesInv, Abort
<1>7. PublishedIsComplete'
  BY DEF IInv, TypeOK, PublishedIsComplete, Abort
<1>8. ConflictsKept'
  BY SMT DEF IInv, TypeOK, ConflictsKept, EpochsInv, CommittedSince, InMap, Abort
<1>9. OpenCompatible'
  BY SMT DEF IInv, TypeOK, OpenCompatible, Open, Compatible, Abort
<1>10. SettledCompatible'
  BY SMT DEF IInv, TypeOK, SettledCompatible, Settled, Compatible, EpochsInv,
     HandlesInv, Abort
<1>11. MarksInv'
  BY DEF IInv, TypeOK, MarksInv, Abort
<1>12. DirectInv'
  BY DEF IInv, TypeOK, DirectInv, Open, EpochsInv, Abort
<1>13. ReadsInv'
  BY DEF IInv, TypeOK, ReadsInv, EpochsInv, Abort
<1>14. UNCHANGED <<start, claims, epochOf, committedTx>>
  BY DEF Abort
<1>15. CommittedCompatible'
  BY <1>14, CommittedCompatibleFrame DEF IInv
<1>16. QED
  BY <1>1, <1>2, <1>3, <1>4, <1>5, <1>6, <1>7, <1>8, <1>9, <1>10, <1>11,
     <1>12, <1>13, <1>15 DEF IInv

\* The count follows when every active transaction is rolled back.
LEMMA AbortAllCount ==
  ASSUME IInv, AbortAllActive
  PROVE  ActiveCountExact' /\ activeCount' \in Nat
<1> DEFINE active == {t \in Tx : state[t] = "Active"}
<1>1. OpenSet' = OpenSet \ active /\ active \subseteq OpenSet
  BY DEF OpenSet, Open, AbortAllActive, IInv, TypeOK
<1>2. OpenSet \cap active = active
  BY <1>1
<1>3. /\ IsFiniteSet(OpenSet \ active)
      /\ Cardinality(OpenSet \ active) = Cardinality(OpenSet) - Cardinality(active)
  BY <1>2, OpenFinite, FS_Difference, ZenonT(30)
<1>4. activeCount' = activeCount - Cardinality(active)
  BY DEF AbortAllActive
<1>5. activeCount = Cardinality(OpenSet)
  BY DEF IInv, ActiveCountExact, OpenSet
<1>6. activeCount' = Cardinality(OpenSet')
  BY <1>1, <1>3, <1>4, <1>5
<1>7. Cardinality(OpenSet') \in Nat
  BY <1>1, <1>3, FS_CardinalityType
<1>8. QED
  BY <1>6, <1>7 DEF ActiveCountExact, OpenSet

\* So does rolling every active transaction back.
LEMMA AbortAllActiveInv ==
  ASSUME IInv, AbortAllActive
  PROVE  IInv'
<1>1. TypeOK'
  <2>1. activeCount' \in Nat
    BY AbortAllCount
  <2>2. QED
    BY <2>1 DEF IInv, TypeOK, States, AbortAllActive
<1>2. ActiveCountExact'
  <2>1. QED
    BY AbortAllCount
<1>3. HandlesInv'
  BY DEF IInv, TypeOK, HandlesInv, AbortAllActive
<1>4. HoldsInv'
  <2>1. held # "Direct"
    BY NoneOpen DEF IInv, HoldsInv, Open, AbortAllActive
  <2>2. QED
    BY <2>1 DEF IInv, TypeOK, HoldsInv, HandlesInv, EpochsInv, PublishedIsComplete, AbortAllActive
<1>5. EpochsInv'
  BY DEF IInv, TypeOK, EpochsInv, AbortAllActive
<1>6. PublishedIsComplete'
  BY DEF IInv, TypeOK, PublishedIsComplete, AbortAllActive
<1>7. ConflictsKept'
  BY DEF IInv, TypeOK, ConflictsKept, EpochsInv, CommittedSince, InMap,
     AbortAllActive
<1>8. OpenCompatible'
  BY DEF IInv, TypeOK, OpenCompatible, Open, Compatible, AbortAllActive
<1>9. SettledCompatible'
  BY SMT DEF IInv, TypeOK, SettledCompatible, Settled, Compatible, EpochsInv,
     AbortAllActive
<1>10. MarksInv'
  BY DEF IInv, TypeOK, MarksInv, AbortAllActive
<1>11. DirectInv'
  BY DEF IInv, TypeOK, DirectInv, Open, EpochsInv, AbortAllActive
<1>12. ReadsInv'
  BY DEF IInv, TypeOK, ReadsInv, EpochsInv, AbortAllActive
<1>13. UNCHANGED <<published, turn, start, claims, handle, epochOf,
   committedTx>>
  BY DEF AbortAllActive
<1>14. TurnInv' /\ CommittedCompatible'
  BY <1>13, TurnInvFrame, CommittedCompatibleFrame DEF IInv
<1>15. QED
  BY <1>1, <1>2, <1>3, <1>4, <1>5, <1>6, <1>7, <1>8, <1>9, <1>10, <1>11,
     <1>12, <1>14 DEF IInv

-----------------------------------------------------------------------------
(* Recording claims and reads, setting a savepoint and rolling back to it. *)

\* A claim that finds no conflict with an open transaction preserves it.
LEMMA RecordClaimsInv ==
  ASSUME IInv, NEW t \in Tx, NEW claim \in Claims, NEW entities \in SUBSET Entity,
         RecordClaims(t, claim, entities)
  PROVE  IInv'
<1>1. TypeOK'
  <2>1. Claimed(claims[t], claim, entities) \in ClaimSets
    BY ClaimedSets DEF IInv, TypeOK
  <2>2. QED
    BY <2>1 DEF IInv, TypeOK, RecordClaims
<1>2. HandlesInv'
  BY DEF IInv, TypeOK, HandlesInv, RecordClaims
<1>3. OpenCompatible'
  <2>1. SUFFICES ASSUME NEW o \in Tx \ {t}, Open(o)
                 PROVE  Compatible(t, o)' /\ Compatible(o, t)'
    BY SMT DEF IInv, TypeOK, OpenCompatible, Open, Compatible, RecordClaims
  <2>2. Open(t) /\ activeCount > 1
    BY <2>1, OnlyOneOpen DEF IInv, RecordClaims, Open
  <2>3. Compatible(t, o) /\ Compatible(o, t) /\ ~ConflictWith(o, claim, entities)
    BY <2>1, <2>2 DEF IInv, OpenCompatible, RecordClaims
  <2>4. claims'[t] = Claimed(claims[t], claim, entities) /\ claims'[o] = claims[o]
    BY DEF IInv, TypeOK, RecordClaims
  <2>5. claims[t] \in ClaimSets
    BY DEF IInv, TypeOK
  <2> DEFINE new == Claimed(claims[t], claim, entities)
  <2>6. /\ new.key = claims[t].key
        /\ \A e \in new.write \ claims[t].write : e \in entities /\ claim # "Endpoint"
        /\ \A e \in new.delete \ claims[t].delete : e \in entities /\ claim = "Delete"
        /\ \A e \in new.endpoint \ claims[t].endpoint :
              e \in entities /\ claim = "Endpoint"
    BY <2>5, ClaimedSets, SMTT(30)
  <2>7. QED
    BY <2>3, <2>4, <2>6, ClaimsAssumption DEF Compatible, ConflictWith
<1>4. SettledCompatible'
  BY SMT DEF IInv, TypeOK, SettledCompatible, Settled, Compatible, EpochsInv,
     HandlesInv, RecordClaims
<1>5. CommittedCompatible'
  BY ZenonT(30) DEF IInv, TypeOK, CommittedCompatible, Concurrent, Compatible, EpochsInv,
     RecordClaims
<1>6. MarksInv'
  <2>1. SUFFICES ASSUME NEW m \in mark[t]
                 PROVE  /\ m.write \subseteq claims'[t].write
                        /\ m.delete \subseteq claims'[t].delete
                        /\ m.endpoint \subseteq claims'[t].endpoint
                        /\ m.key \subseteq claims'[t].key
    BY DEF IInv, TypeOK, MarksInv, RecordClaims
  <2>2. claims'[t] = Claimed(claims[t], claim, entities) /\ claims[t] \in ClaimSets
    BY DEF IInv, TypeOK, RecordClaims
  <2> DEFINE new == Claimed(claims[t], claim, entities)
  <2>3. /\ new.key = claims[t].key /\ claims[t].write \subseteq new.write
        /\ claims[t].delete \subseteq new.delete
        /\ claims[t].endpoint \subseteq new.endpoint
    BY <2>2, ClaimedSets, SMT
  <2>4. QED
    BY <2>2, <2>3 DEF IInv, MarksInv
<1>7. ReadsInv'
  BY DEF IInv, TypeOK, ReadsInv, EpochsInv, RecordClaims
<1>8. UNCHANGED <<assigned, published, activeCount, held, turn,
   committedEpochs, state, start, handle, epochOf, committedTx, direct>>
  BY DEF RecordClaims
<1>9. ActiveCountExact' /\ TurnInv' /\ HoldsInv' /\ EpochsInv' /\
   PublishedIsComplete' /\ ConflictsKept' /\ DirectInv'
  BY <1>8, ActiveCountExactFrame, TurnInvFrame, HoldsInvFrame, EpochsInvFrame,
     PublishedIsCompleteFrame, ConflictsKeptFrame, DirectInvFrame DEF IInv
<1>10. QED
  BY <1>1, <1>2, <1>3, <1>4, <1>5, <1>6, <1>7, <1>9 DEF IInv

\* So does the claim of a key.
LEMMA RecordKeyInv ==
  ASSUME IInv, NEW t \in Tx, NEW key \in Key, RecordKey(t, key)
  PROVE  IInv'
<1>1. TypeOK'
  <2>1. claims[t] \in ClaimSets /\ claims' \in [Tx -> ClaimSets]
    <3>1. claims[t] \in ClaimSets
      BY DEF IInv, TypeOK
    <3>2. [claims[t] EXCEPT !.key = @ \cup {key}] \in ClaimSets
      BY <3>1 DEF ClaimSets
    <3>3. QED
      BY <3>1, <3>2 DEF IInv, TypeOK, RecordKey
  <2>2. QED
    BY <2>1 DEF IInv, TypeOK, RecordKey
<1>2. HandlesInv'
  BY DEF IInv, TypeOK, HandlesInv, RecordKey, ClaimSets
<1>3. OpenCompatible'
  <2>1. SUFFICES ASSUME NEW o \in Tx \ {t}, Open(o)
                 PROVE  Compatible(t, o)' /\ Compatible(o, t)'
    BY SMT DEF IInv, TypeOK, OpenCompatible, Open, Compatible, RecordKey
  <2>2. Open(t) /\ activeCount > 1
    BY <2>1, OnlyOneOpen DEF IInv, RecordKey, Open
  <2>3. Compatible(t, o) /\ Compatible(o, t) /\ key \notin claims[o].key
    BY <2>1, <2>2 DEF IInv, OpenCompatible, RecordKey
  <2>4. QED
    BY <2>3, SMT DEF IInv, TypeOK, ClaimSets, Compatible, RecordKey
<1>4. SettledCompatible'
  BY SMT DEF IInv, TypeOK, SettledCompatible, Settled, Compatible, EpochsInv,
     RecordKey, ClaimSets
<1>5. CommittedCompatible'
  BY SMT DEF IInv, TypeOK, CommittedCompatible, Concurrent, Compatible, EpochsInv,
     RecordKey, ClaimSets
<1>6. MarksInv'
  BY SMT DEF IInv, TypeOK, MarksInv, RecordKey, ClaimSets
<1>7. ReadsInv'
  BY DEF IInv, TypeOK, ReadsInv, EpochsInv, RecordKey, ClaimSets
<1>8. UNCHANGED <<assigned, published, activeCount, held, turn,
   committedEpochs, state, start, handle, epochOf, committedTx, direct>>
  BY DEF RecordKey
<1>9. ActiveCountExact' /\ TurnInv' /\ HoldsInv' /\ EpochsInv' /\
   PublishedIsComplete' /\ ConflictsKept' /\ DirectInv'
  BY <1>8, ActiveCountExactFrame, TurnInvFrame, HoldsInvFrame, EpochsInvFrame,
     PublishedIsCompleteFrame, ConflictsKeptFrame, DirectInvFrame DEF IInv
<1>10. QED
  BY <1>1, <1>2, <1>3, <1>4, <1>5, <1>6, <1>7, <1>9 DEF IInv

\* A read claims nothing.
LEMMA RecordReadInv ==
  ASSUME IInv, NEW t \in Tx, NEW entity \in Entity, RecordRead(t, entity)
  PROVE  IInv'
<1>1. TypeOK'
  <2>1. claims[t] \in ClaimSets /\ claims' \in [Tx -> ClaimSets]
    <3>1. claims[t] \in ClaimSets
      BY DEF IInv, TypeOK
    <3>2. [claims[t] EXCEPT !.read = @ \cup {entity}] \in ClaimSets
      BY <3>1 DEF ClaimSets
    <3>3. QED
      BY <3>1, <3>2 DEF IInv, TypeOK, RecordRead
  <2>2. QED
    BY <2>1 DEF IInv, TypeOK, RecordRead
<1>2. HandlesInv'
  BY DEF IInv, TypeOK, HandlesInv, RecordRead, ClaimSets
<1>3. OpenCompatible'
  BY SMT DEF IInv, TypeOK, OpenCompatible, Open, Compatible, RecordRead, ClaimSets
<1>4. SettledCompatible'
  BY SMTT(30) DEF IInv, TypeOK, SettledCompatible, Settled, Compatible, EpochsInv,
     RecordRead, ClaimSets
<1>5. CommittedCompatible'
  BY SMT DEF IInv, TypeOK, CommittedCompatible, Concurrent, Compatible, EpochsInv,
     RecordRead, ClaimSets
<1>6. MarksInv'
  BY SMT DEF IInv, TypeOK, MarksInv, RecordRead, ClaimSets
<1>7. ReadsInv'
  BY DEF IInv, TypeOK, ReadsInv, EpochsInv, RecordRead, ClaimSets
<1>8. UNCHANGED <<assigned, published, activeCount, held, turn,
   committedEpochs, state, start, handle, epochOf, committedTx, direct>>
  BY DEF RecordRead
<1>9. ActiveCountExact' /\ TurnInv' /\ HoldsInv' /\ EpochsInv' /\
   PublishedIsComplete' /\ ConflictsKept' /\ DirectInv'
  BY <1>8, ActiveCountExactFrame, TurnInvFrame, HoldsInvFrame, EpochsInvFrame,
     PublishedIsCompleteFrame, ConflictsKeptFrame, DirectInvFrame DEF IInv
<1>10. QED
  BY <1>1, <1>2, <1>3, <1>4, <1>5, <1>6, <1>7, <1>9 DEF IInv

\* Setting a savepoint preserves the invariant.
LEMMA MarkClaimsInv ==
  ASSUME IInv, NEW t \in Tx, MarkClaims(t)
  PROVE  IInv'
<1>1. TypeOK'
  BY SMT DEF IInv, TypeOK, States, Handles, Holds, MarkClaims, ClaimSets
<1>2. HandlesInv'
  BY DEF IInv, TypeOK, HandlesInv, MarkClaims, ClaimSets
<1>3. MarksInv'
  BY DEF IInv, TypeOK, MarksInv, MarkClaims, ClaimSets
<1>4. UNCHANGED <<assigned, published, activeCount, held, turn,
   committedEpochs, state, level, start, claims, handle, epochOf, committedTx,
   direct>>
  BY DEF MarkClaims
<1>5. ActiveCountExact' /\ TurnInv' /\ HoldsInv' /\ EpochsInv' /\
   PublishedIsComplete' /\ ConflictsKept' /\ OpenCompatible' /\
   SettledCompatible' /\ CommittedCompatible' /\ DirectInv' /\ ReadsInv'
  BY <1>4, ActiveCountExactFrame, TurnInvFrame, HoldsInvFrame, EpochsInvFrame,
     PublishedIsCompleteFrame, ConflictsKeptFrame, OpenCompatibleFrame,
     SettledCompatibleFrame, CommittedCompatibleFrame, DirectInvFrame,
     ReadsInvFrame DEF IInv
<1>6. QED
  BY <1>1, <1>2, <1>3, <1>5 DEF IInv

\* Rolling back to it only drops claims.
LEMMA RestoreClaimsInv ==
  ASSUME IInv, NEW t \in Tx, RestoreClaims(t)
  PROVE  IInv'
<1>1. TypeOK'
  <2>1. claims[t] \in ClaimSets /\ mark[t] \in SUBSET ClaimSets
    BY DEF IInv, TypeOK
  <2>2. PICK saved \in mark[t] :
           claims' = [claims EXCEPT ![t] = [saved EXCEPT !.read = claims[t].read]]
    BY DEF RestoreClaims
  <2>3. [saved EXCEPT !.read = claims[t].read] \in ClaimSets
    BY <2>1 DEF ClaimSets
  <2>4. QED
    BY <2>2, <2>3 DEF IInv, TypeOK, RestoreClaims
<1>2. HandlesInv'
  BY SMT DEF IInv, TypeOK, HandlesInv, RestoreClaims, ClaimSets
<1>3. OpenCompatible'
  BY SMTT(30) DEF IInv, TypeOK, OpenCompatible, Open, Compatible, MarksInv,
     RestoreClaims, ClaimSets
<1>4. SettledCompatible'
  BY SMT DEF IInv, TypeOK, SettledCompatible, Settled, Compatible, EpochsInv,
     MarksInv, RestoreClaims, ClaimSets
<1>5. CommittedCompatible'
  BY SMT DEF IInv, TypeOK, CommittedCompatible, Concurrent, Compatible, EpochsInv,
     MarksInv, RestoreClaims, ClaimSets
<1>6. MarksInv'
  BY DEF IInv, TypeOK, MarksInv, RestoreClaims, ClaimSets
<1>7. ReadsInv'
  BY DEF IInv, TypeOK, ReadsInv, EpochsInv, RestoreClaims, ClaimSets
<1>8. UNCHANGED <<assigned, published, activeCount, held, turn,
   committedEpochs, state, start, handle, epochOf, committedTx, direct>>
  BY DEF RestoreClaims
<1>9. ActiveCountExact' /\ TurnInv' /\ HoldsInv' /\ EpochsInv' /\
   PublishedIsComplete' /\ ConflictsKept' /\ DirectInv'
  BY <1>8, ActiveCountExactFrame, TurnInvFrame, HoldsInvFrame, EpochsInvFrame,
     PublishedIsCompleteFrame, ConflictsKeptFrame, DirectInvFrame DEF IInv
<1>10. QED
  BY <1>1, <1>2, <1>3, <1>4, <1>5, <1>6, <1>7, <1>9 DEF IInv
=============================================================================
