CONSTANTS
  Hart <- TwoHarts
  Disabled = {}
  Request = {"SFENCE_VMA", "SOFT", "HALT"}
  MaxCalls = 2
SPECIFICATION FairSpec
INVARIANTS TypeOK NoLostEvent FenceBeforeRun
PROPERTIES RemoteFenceSpec CallReturns SoftDelivered PoweroffStops
\* The harts may all be halted, or at rest with no calls left.
CHECK_DEADLOCK FALSE
