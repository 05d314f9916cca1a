SPECIFICATION Spec
CONSTANTS
  c1 = c1
  c2 = c2
  c3 = c3
  Clients = {c1, c2}
  MaxPlayers = 2
  MaxLogins = 2
  MaxReady = 0
  MaxCloses = 0
  MaxInFlight = 2
  NoOne = NoOne
  NoGroup = NoGroup
SYMMETRY Symmetry
INVARIANTS
  NetGroupIsTheGroup
CHECK_DEADLOCK FALSE
