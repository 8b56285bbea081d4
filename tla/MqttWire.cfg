SPECIFICATION Spec
CONSTANTS
  LengthBase = 4
  WordBase = 8
  BufferSize = 7
  Connections = {c1}
  Messages <- MCMessages
  MaxMessages = 2
INVARIANTS ReceivedIsSent ReceivedAtOnce
CHECK_DEADLOCK FALSE
