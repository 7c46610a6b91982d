CONSTANTS
  Hart = {h0, h1}
  Call = {"getchar", "putchar", "syscall", "poweroff"}
  MaxCalls = 2
  MaxTyped = 2
SPECIFICATION FairSpec
INVARIANTS AssertionHolds InputExact OneRequest OutputExact AnswerOwn
PROPERTIES CallReturns
\* The harts may be at rest with no calls left, or the machine off.
CHECK_DEADLOCK FALSE
