CONSTANTS
  Planned = 2
  Packets = {p1, p2}
  Randoms = {r1}
  Tests = {}
  Bad = {}
  Limits = {}
  Disturbed = TRUE
  MaxFaults = 0
  None = None
SPECIFICATION Spec
INVARIANT Conserved
CHECK_DEADLOCK FALSE
