SPECIFICATION Spec
CONSTANTS
  Answers <- MCAnswers
  PartCount = 3
  MaxEvents = 4
  MaxImages = 3
INVARIANT TypeOK
INVARIANT DeltasRebuildParts
INVARIANT DeltasRebuildOutput
INVARIANT ChunksWellFormed
INVARIANT CallsReachClient
INVARIANT ImagesReachClient
CHECK_DEADLOCK FALSE
