SPECIFICATION Spec
CONSTANTS
  Problems = {p1, p2}
  Contests = {rc5, ogr}
  All = All
  Total = 2
  MaxLoads = 2
  HardStop = FALSE
SYMMETRY SlotSymmetry
INVARIANT CounterExact
PROPERTIES NoResultLost ImplementsSlot
