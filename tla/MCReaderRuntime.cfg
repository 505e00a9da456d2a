SPECIFICATION FairSpec
CONSTANTS
  i1 = i1
  i2 = i2
  g1 = g1
  Iterators = {i1, i2}
  Gets = {g1}
  Workers = {w1, w2}
  PrefetchSize = 2
  QueuedJobsPerWorker = 1
  EpochLen <- LongAndShort
  MayFail <- Faults
  Nobody = Nobody
INVARIANTS PlanOrder DeliveryNeverBlocks HonestEnd
PROPERTIES CallsReturn PoolDrains
