SPECIFICATION ReopenSpec
CONSTANTS
  Senders = {s1}
  NoSender = NoSender
  AcceptCap = 1
  ReadBuf = 1
  SockCap = 1
  MaxLen = 1
  MaxBytes = 2
CHECK_DEADLOCK FALSE
PROPERTIES LaterDatagramsDelivered
