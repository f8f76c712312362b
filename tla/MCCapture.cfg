SPECIFICATION Spec
CONSTANTS
  Entities = {a, b}
  Values = {1}
  Keepers = {k1, k2}
  Consumers = {c}
  MaxEpochs = 0
  MaxEvents = 1
  MaxLogical = 1
  ClockMax = 1
  MaxChanges = 2
  MaxEpoch = 2
SYMMETRY Symmetry
CHECK_DEADLOCK FALSE
INVARIANTS
  ReplicaFollows
  TimestampsFollowEpochs
PROPERTY
  GcReachesLimit
