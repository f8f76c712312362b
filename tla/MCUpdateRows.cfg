SPECIFICATION Spec
CONSTANTS
  Row = {r1, r2}
  Value = {a}
  None = None
  Writer = {w1, w2}
  EpochMax = 2
  LogMax = 2
  CollectBound = 2
CHECK_DEADLOCK FALSE
SYMMETRY Symmetry
INVARIANTS
  SnapshotReads
  EntriesArePending
  ChainCounts
  GarbageBounded
