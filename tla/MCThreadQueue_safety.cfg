SPECIFICATION Spec
CONSTANTS
  t1 = t1
  t2 = t2
  t3 = t3
  a = a
  b = b
  Threads = {t1, t2, t3}
  NoThread = NoThread
  Values = {a, b}
  MaxSize = 2
  Batches <- SinglesAndBatches
  SwapQueues <- EmptyAndOne
  Waits <- AllWaits
SYMMETRY ThreadSymmetry
INVARIANTS TypeOK MutualExclusion Bounded
PROPERTY ImplementsBoundedQueue
