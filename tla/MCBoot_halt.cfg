CONSTANTS
  Hart <- TwoHarts
  Disabled = {}
  Request = {"HALT"}
  MaxCalls = 0
SPECIFICATION FairBootSpec
PROPERTIES PoweroffStops
CHECK_DEADLOCK FALSE
