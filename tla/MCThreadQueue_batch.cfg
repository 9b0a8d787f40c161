SPECIFICATION FairSpec
CONSTANTS
  t1 = t1
  t2 = t2
  t3 = t3
  a = a
  b = b
  Threads = {t1, t2, t3}
  NoThread = NoThread
  Values = {a, b}
  MaxSize = 2
  Batches <- SinglesAndBatches
  SwapQueues <- EmptyOnly
  Waits <- OnlyForever
PROPERTY WaitsOnlyForData
