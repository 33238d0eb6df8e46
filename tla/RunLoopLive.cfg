SPECIFICATION FairSpec
CONSTANTS
  NThreads = 1
  Menu = {{"bench"}, {"config"}}
  Locked = FALSE
  MaxAsks = 2
PROPERTIES RefillServed ExitEnds
