SPECIFICATION FairSpec
CONSTANTS
  Producers = {p1, p2}
  Consumers = {c1, c2}
  ItemNum = 2
  MaxSize = 1
  Queues = {"lockfree", "mutex", "block", "sync", "simple"}
  SharedItems = 2
INVARIANT NodesAccounted
PROPERTIES IsFifo AllReturn
