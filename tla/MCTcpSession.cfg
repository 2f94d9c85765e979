SPECIFICATION LoopSpec
CONSTANTS
  Sizes <- MCSizes
  ChunkSizes <- MCChunkSizes
  MaxChunk = 2
  AckInterval = 2
  StallTicks = 3
  MaxBatch = 2
  MaxWrites = 2
  MaxIoFailures = 1
CHECK_DEADLOCK FALSE
INVARIANTS
  TypeOK
  DestroyedAtLastClose
  TimerFitsState
  FlushIsPending
  StallCountsSilence
  CountIsFed
PROPERTIES
  KeepsContract
  Reclaimed
  ClosingEnds
