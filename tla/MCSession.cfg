SPECIFICATION FairSpec
CONSTANTS
  MaxConnects = 3
  MaxQueue = 1
INVARIANTS
  OneIoThread
  ConnectionMoves
  AppInfoFirst
PROPERTIES
  ConnectResolves
CHECK_DEADLOCK FALSE
