SPECIFICATION Spec
CONSTANTS
  NThreads = 2
  Menu = {{"bench"}, {"config"}, {"fetch"}}
  Locked = FALSE
  MaxAsks = 1
INVARIANTS CoreHasPacket OneRunLate SuspensionExact
