SPECIFICATION FairSpec
CONSTANTS
  Evts = {press, release}
  MaxEvents = 3
  MaxTick = 3
  MaxGames = 2
INVARIANTS
  TypeOK
  InOrderOnce
  LateEventIsSynced
  QueueIsDue
  OneLoop
  OldEventIsFirst
PROPERTIES
  AcceptedIsApplied
CHECK_DEADLOCK FALSE
