SPECIFICATION Spec
CONSTANTS
  Tx = {t1, t2}
  Direct = {t1, t2}
  Flusher = {f}
  Checkpointer = {c}
  MaxFrames = 2
  SegmentFrames = 3
  PagesLost = FALSE
  MaxFaults = 1
  MaxCrashes = 1
SYMMETRY Symmetry
INVARIANTS
  LogReadsBack
  DurableSurvives
  FailedNeverReplayed
  CrashIsNotDamage
  SyncsAreRecorded
PROPERTIES
  ImplementsDurableLog
