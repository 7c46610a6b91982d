SPECIFICATION Spec
CONSTANTS
  Code <- MCCode
  Pages <- MCPages
  XBITS = 6
  EXP = 2
  FRAC = 2
  PAGE = 4
  Memory <- MCMemory
  Regs <- MCRegs
  Vector <- MCVector
  ELEN = 2
  MaxTime = 1
CHECK_DEADLOCK FALSE
INVARIANT FcsrKept
