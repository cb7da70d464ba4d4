SPECIFICATION Spec
CONSTANTS
  Kinds = {"heap", "tree", "skip", "wheel", "keys", "btree"}
  MaxHeld <- MCMaxHeld
  Delays <- MCDelays
  HandlerDelays = {1}
  LastDeadline <- MCLastDeadline
  LastTick <- MCLastTick
  Width = 16
  MaxLevel = 2
  Conns = {1, 2}
  TW_SIZE = 4
  EXPIRE = 2
  MinDegree = 2
INVARIANTS ContainersIntact NeverOversleeps
PROPERTIES AgendaKept
CHECK_DEADLOCK FALSE
