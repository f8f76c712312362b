SPECIFICATION Spec
CONSTANTS
  Tx = {t1, t2, t3}
  Entity = {}
  Key = {}
  Levels = {"SnapshotIsolation"}
  Claims = {}
  Workload = {"Private", "Gc", "Import", "Fault", "Close", "AbortAll"}
  EpochMax = 4
  t1 = t1
  t2 = t2
  t3 = t3
CHECK_DEADLOCK FALSE
SYMMETRY Symmetry
INVARIANTS
  PublishedIsComplete
  ActiveCountExact
PROPERTIES
  PublishInOrder
