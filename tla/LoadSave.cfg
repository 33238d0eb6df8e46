CONSTANTS
  Planned = 2
  Packets = {p1, p2}
  Randoms = {r1, r2, r3}
  Tests = {p2}
  Bad = {p1}
  Limits = {0, 2}
  Disturbed = FALSE
  MaxFaults = 1
  None = None
SPECIFICATION FairSpec
INVARIANTS Conserved HardStopSaves
PROPERTIES StopsWhenDone ImplementsSupply LimitEnds
CHECK_DEADLOCK FALSE
