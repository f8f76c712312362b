SPECIFICATION Spec
CONSTANTS
  Reader = {r1, r2}
  Windows = {0}
  Imports = TRUE
  EpochMax = 2
  ClockMax = 1
CHECK_DEADLOCK FALSE
SYMMETRY Symmetry
INVARIANTS
  ReadersKept
  PinsCountReaders
  TimesAscend
  WindowReadable
