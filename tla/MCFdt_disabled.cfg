CONSTANTS
  Dtbs <- DisabledTrees
  MAX_HARTS = 2
  BootHart = 0
  CellBase = 16
  IntBits = 4
  Self = 9
SPECIFICATION Spec
INVARIANTS EndsAtEnd
\* The boot goes on to other things when the filters are done.
CHECK_DEADLOCK FALSE
