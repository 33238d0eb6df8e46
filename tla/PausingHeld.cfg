CONSTANTS
  Crunchers = 1
  Apps = 0
  Chunk = 2
  Signals = "anytime"
  None = None
SPECIFICATION FairSpec
PROPERTY Resumes
CHECK_DEADLOCK FALSE
