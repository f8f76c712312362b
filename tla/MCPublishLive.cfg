SPECIFICATION Spec
CONSTANTS
  Proc = {p1, p2}
  NoProc = NoProc
  Jobs = {"Commit", "Schema", "Processor", "Rollback", "Direct", "Import", "Hold", "Close"}
  Faults = {"Refuse", "Conflict", "CutBack", "Sync", "Stamp", "Undo", "Apply"}
  EpochMax = 9
PROPERTY
  EveryCallReturns
