-------------------------- MODULE DurableLogProofs --------------------------
(***************************************************************************)
(* What follows from DurableLog, whatever the commits: no crash takes a    *)
(* group whose commit was told that it is durable, and no group is in the  *)
(* log twice.                                                              *)
(***************************************************************************)
EXTENDS DurableLog, SequenceTheorems, TLAPS

\* Zenon proves a step unless the step names another prover.
USE Zenon

\* Every commit that was told so has its group among those no crash takes
\* (GroupCommitter, sync_until).
ToldSurvives == synced <= Len(log) /\ \A t \in told : \E i \in 1 .. synced : log[i] = t

\* No commit's group is replayed twice.
GroupsOnce == \A i, j \in 1 .. Len(log) : log[i] = log[j] => i = j

LogInv == log \in Seq(Tx) /\ synced \in Nat /\ ToldSurvives /\ GroupsOnce

\* An append keeps what is told, and adds a commit that has no group yet.
LEMMA WriteInv ==
  ASSUME LogInv, NEW t \in Tx, Write(t) PROVE LogInv'
<1>1. Len(log) \in Nat /\ DOMAIN log = 1 .. Len(log)
  BY LenProperties DEF LogInv
<1>2. /\ log' \in Seq(Tx) /\ Len(log') = Len(log) + 1 /\ log'[Len(log) + 1] = t
      /\ \A i \in 1 .. Len(log) : log'[i] = log[i]
  BY AppendProperties, SMT DEF LogInv, Write
<1>3. \A i \in 1 .. Len(log) : log[i] # t
  BY <1>1 DEF Write, Range
<1>4. ToldSurvives'
  BY <1>1, <1>2, SMT DEF LogInv, ToldSurvives, Write
<1>5. GroupsOnce'
  BY <1>1, <1>2, <1>3, SMT DEF LogInv, GroupsOnce
<1>6. QED
  BY <1>2, <1>4, <1>5 DEF LogInv, Write

\* A sync covers what was covered and more; only then is a commit told.
LEMMA SyncInv ==
  ASSUME LogInv, NEW t \in Tx, Sync \/ Tell(t) \/ SyncAndTell(t) PROVE LogInv'
<1>1. Len(log) \in Nat
  BY LenProperties DEF LogInv
<1>2. QED
  BY <1>1, SMTT(30) DEF LogInv, ToldSurvives, GroupsOnce, Sync, Tell, SyncAndTell

\* A crash takes groups after those.
LEMMA CrashInv ==
  ASSUME LogInv, Crash PROVE LogInv'
<1>1. PICK kept \in synced .. Len(log) : log' = SubSeq(log, 1, kept)
  BY DEF Crash
<1>2. Len(log) \in Nat /\ kept \in Nat /\ kept <= Len(log) /\ synced <= kept
  BY LenProperties, SMT DEF LogInv
<1>3. \A i \in 1 .. kept : log[i] \in Tx
  BY <1>2, ElementOfSeq, SMT DEF LogInv
<1>4. log' \in Seq(Tx) /\ Len(log') = kept /\ \A i \in 1 .. kept : log'[i] = log[i]
  BY <1>1, <1>2, <1>3, SubSeqProperties, SMTT(30)
<1>5. synced' = synced /\ told' = told
  BY DEF Crash
<1>6. ToldSurvives'
  BY <1>2, <1>4, <1>5, SMT DEF LogInv, ToldSurvives
<1>7. GroupsOnce'
  BY <1>2, <1>4, SMT DEF LogInv, GroupsOnce
<1>8. QED
  BY <1>4, <1>5, <1>6, <1>7 DEF LogInv

\* The promise of the log: what a commit was told to be durable stays in it
\* through every crash, and nothing is in it twice.
THEOREM LogKeepsItsPromise == Spec => [](ToldSurvives /\ GroupsOnce)
<1>1. Init => LogInv
  BY EmptySeq, SMT DEF Init, LogInv, ToldSurvives, GroupsOnce
<1>2. LogInv /\ [Next]_vars => LogInv'
  <2> SUFFICES ASSUME LogInv, [Next]_vars PROVE LogInv'
    OBVIOUS
  <2>1. CASE UNCHANGED vars
    BY <2>1 DEF LogInv, ToldSurvives, GroupsOnce, vars
  <2>2. CASE Sync
    BY <2>2, SyncInv, LenProperties, SMTT(30) DEF LogInv, ToldSurvives, GroupsOnce, Sync
  <2>3. QED
    BY <2>1, <2>2, WriteInv, SyncInv, CrashInv DEF Next
<1>3. LogInv => ToldSurvives /\ GroupsOnce
  BY DEF LogInv
<1>4. QED
  BY <1>1, <1>2, <1>3, PTL DEF Spec
=============================================================================
