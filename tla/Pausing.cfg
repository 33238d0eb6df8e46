CONSTANTS
  Crunchers = 2
  Apps = 2
  Chunk = 2
  Signals = "asleep"
  None = None
SPECIFICATION FairSpec
INVARIANT OnePlace
PROPERTIES Resumes Pauses ExitObeyed
CHECK_DEADLOCK FALSE
