SPECIFICATION Spec
CONSTANTS
  Drivers = {"my_key"}
  MaxFiles = 1
INVARIANT EveryEdgeReported
CHECK_DEADLOCK FALSE
