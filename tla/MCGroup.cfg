SPECIFICATION Spec
CONSTANTS
  c1 = c1
  c2 = c2
  c3 = c3
  Clients = {c1, c2, c3}
  MaxPlayers = 2
  MaxLogins = 3
  MaxReady = 2
  MaxCloses = 2
  MaxInFlight = 1
  NoOne = NoOne
  NoGroup = NoGroup
SYMMETRY Symmetry
INVARIANTS
  TypeOK
  MembershipAgrees
  NoGameHeldBack
  ViewsCatchUp
  GameStartsWithView
CHECK_DEADLOCK FALSE
