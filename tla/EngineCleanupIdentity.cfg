CONSTANTS
  PidCount = 2
  MaxLife = 3
  Waits = 1
  Scans = 3
  Needed = 2
SPECIFICATION Spec
INVARIANT OnlyTheBoundIsSignalled
CHECK_DEADLOCK FALSE
