SPECIFICATION Spec
CONSTANTS
  MaxConnects = 1
  MaxQueue = 1
INVARIANTS
  AppInfoMustBeFirst
CHECK_DEADLOCK FALSE
