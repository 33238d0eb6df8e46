SPECIFICATION Spec
CONSTANTS
  Base = 2
  Minimum = 6
  Pipeline = 2
  MaxPass = 4
  Starts = {0, 248, 500}
  Sizes = {8, 16, 24}
  Slices = {1, 7, 15}
  Marks = {0, 5, 6, 13, 16, 23}
  MaxTroubles = 1
INVARIANTS CursorsAgree SearchedExactly ResultTrue ChecksExact
PROPERTY SliceAdvances
