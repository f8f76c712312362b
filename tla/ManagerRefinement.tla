-------------------------- MODULE ManagerRefinement --------------------------
(***************************************************************************)
(* The threads of CommitPublish implement the manager of                   *)
(* TransactionManager, whose actions are whole critical sections.          *)
(***************************************************************************)
EXTENDS CommitPublish

HandleOf(t) ==
    CASE state[t] = "Committing" /\ pc[t] \in {"freeze", "stamp", "log", "sync",
            "pubTurn", "pubCheck", "pubSleep", "ordered", "publish"}
            -> IF commitLock = t THEN "Guard" ELSE "Publish"
      [] state[t] = "Committing" /\ pc[t] = "poison"
            -> IF epochOf[t] \in stamped /\ job[t] # "Processor" THEN "Failed"
               ELSE IF commitLock = t THEN "Guard" ELSE "Publish"
      [] state[t] = "Committing" /\ pc[t] = "bar" -> "Dropping"
      [] state[t] = "Active" /\ epochOf[t] # 0 -> "TakenBack"
      [] OTHER -> "None"

HeldFor ==
    CASE \E t \in Proc : pc[t] = "apply" /\ job[t] = "Direct" -> "Direct"
      [] \E t \in Proc : pc[t] = "apply" /\ job[t] = "Import" -> "Change"
      [] OTHER -> "No"

TurnOf == {t \in Proc : pc[t] \in {"ordered", "publish"}}
EpochsKept == {t \in Proc : state[t] \in {"Committing", "Committed"}}
HandlesOf == [t \in Proc |-> HandleOf(t)]
NoClaim == [write |-> {}, delete |-> {}, endpoint |-> {}, key |-> {}, read |-> {}]

Manager == INSTANCE TransactionManager WITH
    Tx <- Proc, Entity <- Proc, Key <- {}, Levels <- {"SnapshotIsolation"},
    Claims <- {}, Workload <- {"Private", "Direct", "Import", "Fault", "Close"},
    held <- HeldFor,
    turn <- TurnOf,
    committedEpochs <- EpochsKept,
    level <- [t \in Proc |-> "SnapshotIsolation"],
    claims <- [t \in Proc |-> NoClaim],
    mark <- [t \in Proc |-> {}],
    handle <- HandlesOf

\* Every step of a thread is a step of the manager or leaves it alone: what is
\* shown of TransactionManager holds of the threads with their locks, failed
\* commits and poison() in two stores included.  This is Manager!Spec, with the
\* commoner of the two cases first: most steps leave the manager alone, and TLC
\* tries the disjuncts in the order they are written.
ImplementsManager ==
    Manager!Init /\ [][UNCHANGED Manager!vars \/ Manager!Next]_(Manager!vars)
=============================================================================
