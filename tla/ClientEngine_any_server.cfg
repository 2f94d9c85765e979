SPECIFICATION Spec
CONSTANTS
  FileSizes = {1}
  Chunk = 1
  MaxCsv = 1
  Room = 1
  MaxUploads = 2
  MaxSessions = 2
INVARIANTS
  TypeOK
  WindowUsable
  ResultIsWhole
PROPERTIES
  CancelNeverLost
  DisconnectFirst
  QuitEnds
  CancelEnds
CHECK_DEADLOCK FALSE
