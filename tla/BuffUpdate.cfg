CONSTANTS
  Packets = {p1, p2, p3}
  Threshold = 3
  Crunchers = 1
  Limit = 2
  MemStep = 1
  MemMax = 2
  MinDelay = 1
  DoubleUpTo = 1
  MaxDelay = 2
  MaxFaults = 2
  Requests = {{"fetch", "flush"}, {"flush"}}
SPECIFICATION Spec
INVARIANTS Conserved DelayRight
PROPERTIES Measured UpdateEnds Restocked
CHECK_DEADLOCK FALSE
