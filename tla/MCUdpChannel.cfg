SPECIFICATION FairSpec
CONSTANTS
  a = a
  b = b
  Msgs = {a, b}
  Poison = {b}
  MaxSend = 2
  MaxTries = 1
  Senders = {"server"}
INVARIANTS
  TypeOK
  InOrderExactlyOnce
  AckedMeansReceived
  NoStuckPackage
  BufferHoldsOnlyPending
  HandshakeAgreement
PROPERTIES
  SendResolves
  SentIsHandled
  ClosedClientStaysClosed
  RefinesReliableChannel
CHECK_DEADLOCK FALSE
