SPECIFICATION Spec
CONSTANTS
  Tx = {t1, t2}
  Direct = {}
  Flusher = {f}
  Checkpointer = {}
  MaxFrames = 2
  SegmentFrames = 1
  PagesLost = TRUE
  MaxFaults = 1
  MaxCrashes = 1
SYMMETRY Symmetry
INVARIANT DurableSurvives
