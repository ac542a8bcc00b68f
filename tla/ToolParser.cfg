SPECIFICATION Spec
CONSTANTS
  Chunks <- MCChunks
  MaxChunks = 5
INVARIANT TypeOK
INVARIANT ChunkingInvisible
INVARIANT OnlyMarkersWithheld
INVARIANT CallsFound
CHECK_DEADLOCK FALSE
