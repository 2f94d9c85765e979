SPECIFICATION SystemSpec
CONSTANTS
  Sizes = {2}
  ChunkSizes = {1}
  MaxChunk = 1
  AckInterval = 2
  StallTicks = 1
  MaxBatch = 2
  MaxWrites = 4
  MaxIoFailures = 0
  FileSizes = {2}
  Chunk = 1
  MaxCsv = 1
  Room = 2
  MaxUploads = 2
  MaxSessions = 1
INVARIANTS
  ResultIsOwn
  HeardCancelReturnsToReady
PROPERTIES
  UploadCompletes
CHECK_DEADLOCK FALSE
