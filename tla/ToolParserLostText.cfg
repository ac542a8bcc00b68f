SPECIFICATION Spec
CONSTANTS
  Chunks <- MCChunks
  MaxChunks = 2
INVARIANT RemainingTextShown
CHECK_DEADLOCK FALSE
