SPECIFICATION FairSpec
CONSTANTS
  Problems = {p1}
  Contests = {rc5, ogr}
  All = All
  Total = 2
  MaxLoads = 2
  HardStop = TRUE
INVARIANTS NoStaleResult RecordCoherent SavedOnce
PROPERTIES ProgressKept RunReturns FinishedLeaves
