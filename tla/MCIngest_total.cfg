SPECIFICATION IngestSpec
CONSTANTS
  MaxLine = 2
  MaxPiece = 4
  MaxInput = 7
  Lines <- MCLines
  Parse <- MCParse
  Modules <- MCModules
  MaxBuckets = 2
  MaxNames = 1
  MaxLines = 7
INVARIANT DispositionsSumToTotal
