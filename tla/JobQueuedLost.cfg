SPECIFICATION Spec
CONSTANTS
  Runs = {r1}
  MaxFaults = 0
PROPERTIES LostRunsAreOver
CHECK_DEADLOCK FALSE
