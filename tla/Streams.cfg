SPECIFICATION Spec
CONSTANTS
  CheapPrepend = 3
  InitialSize = 2
  Radix = 2
  Width = {1, 2}
  NextSize = 2
  MaxSize = 6
  Piece <- MCPiece
  NoStream = NoStream
  HeaderLen = 3
  MaxLen = 2
  MaxWritten = 7
  Payload <- MCPayload
  Garbage <- MCGarbage
  Memory <- MCMemory
  NullPointer = NullPointer
  BufferSize = 20
  MaxNumericSize = 5
  SizeT = 64
  s1 = s1
  s2 = s2
  s3 = s3
  String = {s1, s2, s3}
  EmptyString = EmptyString
  Text = {"", "text"}
  EmptyText = ""
INVARIANTS AssertionsHold IntegersSurvive StreamConserved
           CursorInside ComparisonsAgree StringsOwnedOnce
PROPERTIES ByteQueueSpec NothingAfterInvalid AllDispatched
CHECK_DEADLOCK FALSE
