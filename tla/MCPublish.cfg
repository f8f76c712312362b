SPECIFICATION Spec
CONSTANTS
  Proc = {p1, p2, p3}
  p1 = p1
  p2 = p2
  p3 = p3
  NoProc = NoProc
  Jobs = {"Commit", "Schema", "Processor", "Direct", "Import", "Hold", "Close"}
  Faults = {"Refuse", "CutBack", "Sync", "Stamp", "Apply"}
  EpochMax = 9
SYMMETRY Symmetry
INVARIANTS
  StampsInOrder
  SchemaCommitAlone
  ImageIsWhole
PROPERTIES
  PoisonStopsCommits
  ImplementsManager
