SPECIFICATION Spec
CONSTANTS
  Dirs = {d1, d2}
  SegmentGroups = 2
  MaxGroups = 3
  MaxBackups = 3
  MaxFaults = 1
CHECK_DEADLOCK FALSE
SYMMETRY Symmetry
INVARIANTS
  ChainRestores
  LogFromCursorKept
  CursorIsChained
