SPECIFICATION Spec
CONSTANTS
  Tx = {t1, t2}
  Entity = {e1}
  Key = {k1}
  Levels = {"Serializable"}
  Claims = {"Write", "Delete", "Endpoint"}
  Workload = {"Private", "Read", "Savepoint", "Direct", "Gc"}
  EpochMax = 3
CHECK_DEADLOCK FALSE
SYMMETRY Symmetry
INVARIANTS
  TypeOK
  FirstCommitterWins
  NoDanglingEdge
  ConflictsKept
  UniqueKeys
  SerializableReads
