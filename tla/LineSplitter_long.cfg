SPECIFICATION SplitterSpec
CONSTANTS
  MaxLine = 2
  MaxPiece = 4
  MaxInput = 7
INVARIANT LongLinesDropped
