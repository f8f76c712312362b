SPECIFICATION Spec
CONSTANTS
  Chunks = {1, 2}
  HeldChunks = {1}
  LastPage = 14
  SegmentGroups = 2
  MaxGroups = 3
  MaxIteration = 3
  MaxFaults = 2
  KillAnywhere = TRUE
CHECK_DEADLOCK FALSE
INVARIANT
  OpensWhole
