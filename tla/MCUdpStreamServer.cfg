SPECIFICATION FairSpec
CONSTANTS
  Senders = {s1, s2}
  NoSender = NoSender
  AcceptCap = 1
  ReadBuf = 1
  SockCap = 1
  MaxLen = 2
  MaxBytes = 2
CHECK_DEADLOCK FALSE
INVARIANTS TypeOK OneReaderPerStream EverySenderOffered AtMostOneEscapesClose StreamIntegrity
PROPERTIES ImplementsSenderStreams CloseReturns LoopReturnsToSocket SweptLoopEnds
