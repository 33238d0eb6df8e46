SPECIFICATION Spec
CONSTANTS
  Ids = {p1, p2, p3}
  Marked = {p1}
  NSlots = 2
  Units = 2
  Moo = TRUE
  EarlyFetch = FALSE
  MaxCrashes = 1
INVARIANTS Conserved CheckpointCovers OnePlace SolutionReported
