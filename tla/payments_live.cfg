\* One order, one request and the interval job, with fairness.
SPECIFICATION FairSpec
CONSTANTS
  o1 = o1
  o2 = o2
  w1 = w1
  w2 = w2
  p1 = p1
  p2 = p2
  Orders <- OneOrder
  Workers = {w1}
  Scheduler = sched
  Batches <- OneBatch
  ProvRefs = {p1}
  NoProvRef = NoProvRef
  MaxRefs = 1
PROPERTIES
  CollectedIsSettled
