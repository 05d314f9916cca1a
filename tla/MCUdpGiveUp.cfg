SPECIFICATION Spec
CONSTANTS
  a = a
  b = b
  Msgs = {a}
  Poison = {}
  MaxSend = 1
  MaxTries = 2
  Senders = {"client"}
INVARIANTS
  GivingUpOnlyStopsTrying
CHECK_DEADLOCK FALSE
