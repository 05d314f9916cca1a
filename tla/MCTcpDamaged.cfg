SPECIFICATION Spec
CONSTANTS
  MaxBuffer = 2
  Lengths = {1, 3}
  Lenient = {}
  MaxPkgs = 2
INVARIANTS
  LongPackagesParse
CHECK_DEADLOCK FALSE
