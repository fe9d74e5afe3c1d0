\* A retry of a failed attempt keeps the first attempt's expiry.
SPECIFICATION Spec
CONSTANTS
  o1 = o1
  o2 = o2
  w1 = w1
  w2 = w2
  p1 = p1
  p2 = p2
  Orders <- OneOrder
  Workers = {w1}
  Scheduler = sched
  Batches <- OneBatch
  ProvRefs = {p1}
  NoProvRef = NoProvRef
  MaxRefs = 1
PROPERTIES
  QrIssuedAsPendingIsLive
