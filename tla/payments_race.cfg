\* One order, two requests and the interval job at once.
SPECIFICATION Spec
CONSTANTS
  o1 = o1
  o2 = o2
  w1 = w1
  w2 = w2
  p1 = p1
  p2 = p2
  Orders <- OneOrder
  Workers = {w1, w2}
  Scheduler = sched
  Batches <- OneBatch
  ProvRefs = {p1, p2}
  NoProvRef = NoProvRef
  MaxRefs = 2
SYMMETRY WorkersAndRefs
INVARIANTS
  PaidNeverWaiting
  FulfilmentIsPaid
  IssuedQrIsKnown
  PaidIsEarned
PROPERTIES
  PaidRowFrozen
  IssuedQrKept
  ProviderRefKept
  OrderMovesAreLegal
  KeepsPromise
