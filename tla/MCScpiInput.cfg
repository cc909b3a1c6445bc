CONSTANTS
  Chunks <- MCChunks
  Commands <- MCCommands
  BufferLength = 9
  MaxStream = 9
  Width = 5
  LongWidth = 7
SPECIFICATION Spec
INVARIANTS TypeOK ChunkIndependence OneErrorPerUnit AnswersSeparated UnreadReported
PROPERTIES ResultTellsErrors CallsEnd
CHECK_DEADLOCK FALSE
