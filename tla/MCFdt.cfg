CONSTANTS
  Dtbs <- Trees
  MAX_HARTS = 2
  BootHart = 0
  CellBase = 16
  IntBits = 4
  Self = 9
SPECIFICATION Spec
INVARIANTS AssertionsHold OwnCounts MachineFound KernelTreeExact MaskMatchesTree
\* The boot goes on to other things when the filters are done.
CHECK_DEADLOCK FALSE
