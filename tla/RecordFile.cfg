SPECIFICATION Spec
CONSTANTS
  Packets = {p1, p2, p3}
  Clients = {c1}
  MaxCrashes = 2
INVARIANTS PutStores Bounded
PROPERTY ImplementsStore
