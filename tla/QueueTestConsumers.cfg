SPECIFICATION FairSpec
CONSTANTS
  Producers = {p1}
  Consumers = {c1, c2}
  ItemNum = 3
  MaxSize = 1
  Queues = {"lockfree"}
  SharedItems = 3
PROPERTY IsFifo
