SPECIFICATION Spec
CONSTANTS
  Chunks = {1, 2}
  HeldChunks = {1}
  LastPage = 16
  SegmentGroups = 2
  MaxGroups = 3
  MaxIteration = 3
  MaxFaults = 2
  KillAnywhere = FALSE
CHECK_DEADLOCK FALSE
INVARIANTS
  OpensWhole
  LogFollowsImage
  BaselineExact
  FileBounded
PROPERTIES
  CheckpointSticks
