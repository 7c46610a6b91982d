CONSTANTS
  Hart <- TwoHarts
  Disabled = {1}
  Request = {"SFENCE_VMA"}
  MaxCalls = 1
SPECIFICATION FairBootSpec
PROPERTIES CallReturns
CHECK_DEADLOCK FALSE
