SPECIFICATION FairSpec
CONSTANTS
  MaxBuffer = 2
  Lengths = {2, 3, 5}
  Lenient = {1, 3}
  MaxPkgs = 3
INVARIANTS
  TypeOK
  FramedInOrder
  QueueHasWriter
  NothingLost
PROPERTIES
  AcceptedIsHandled
CHECK_DEADLOCK FALSE
