CONSTANTS
  Hart <- ThreeHarts
  Disabled <- FirstDisabled
  Request = {"SFENCE_VMA", "SOFT", "HALT"}
  MaxCalls = 1
SPECIFICATION FairBootSpec
INVARIANTS DisabledNeverRun NoLostEventOnceCleared
           FenceBeforeRunOnceCleared
PROPERTIES AllHartsStart EnabledCallReturns
\* The harts may all be halted, or at rest with no calls left.
CHECK_DEADLOCK FALSE
