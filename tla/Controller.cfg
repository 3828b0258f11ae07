CONSTANTS
  PidCount = 2
  MaxLife = 3
SPECIFICATION Spec
INVARIANTS OneCleanupAtATime ExitIsProven SupervisedIsBound WaitingIsServed
PROPERTY ShutdownEnds
CHECK_DEADLOCK FALSE
