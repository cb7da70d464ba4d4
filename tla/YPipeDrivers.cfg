SPECIFICATION DriverFairSpec
CONSTANTS
  MaxWrites = 6
  NULL = NULL
  Styles = {"poll", "batch", "condition", "free"}
  Items = 6
  Group = 3
INVARIANTS PipeOrder SetIsExclusive NoMissedWakeup
PROPERTIES ImplementsFlushedPipe ThreadsReturn
