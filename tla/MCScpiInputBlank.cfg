CONSTANTS
  Chunks <- BlankChunks
  Commands <- MCCommands
  BufferLength = 12
  MaxStream = 10
  Width = 5
  LongWidth = 7
SPECIFICATION Spec
INVARIANT AllParametersRead
CHECK_DEADLOCK FALSE
