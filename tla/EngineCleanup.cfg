CONSTANTS
  PidCount = 2
  MaxLife = 3
  Waits = 1
  Scans = 3
  Needed = 2
SPECIFICATION Spec
INVARIANTS SuccessMeansStable SignalsWhatItAimedAt
PROPERTIES CleanupEnds ImplementsContract
CHECK_DEADLOCK FALSE
