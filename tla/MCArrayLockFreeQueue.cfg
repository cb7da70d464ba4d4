SPECIFICATION FairSpec
CONSTANTS
  Producers = {p1, p2}
  Consumers = {c1, c2}
  Q_SIZE = 3
  ItemNum = 2
  TotalItems = 4
  StartIndex = 0
  IndexLimit = 0
INVARIANTS TypeOK IndexOrder ReservedOnce CountSettles
PROPERTIES ImplementsFifo AllJoin
