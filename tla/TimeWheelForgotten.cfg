SPECIFICATION WheelSpec
CONSTANTS
  Nodes = {n1, n2}
  TIME_NEAR = 2
  TIME_LEVEL = 4
  Levels = 2
  MaxDelay = 15
INVARIANT EveryTimerIsOnTime
