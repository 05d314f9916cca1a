SPECIFICATION Spec
CONSTANTS
  join = join
  leave = leave
  Types = {join, leave}
  NoType = NoType
  MaxHandlers = 3
  MaxListeners = 2
  MaxEvents = 2
SYMMETRY Symmetry
INVARIANTS
  EachCalledOnce
PROPERTIES
  DisposedIsSilent
CHECK_DEADLOCK FALSE
