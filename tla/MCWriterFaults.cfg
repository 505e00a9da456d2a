SPECIFICATION FairSpec
CONSTANTS
  N = 2
  Paths = {a}
  MaxSamples = 1
  NumWorkers = 2
  PrefetchSize = 2
  MaxFaults = 2
  MaxInterrupts = 2
  MaxCalls = 1
INVARIANTS TempCleaned InterruptPropagates HonestResults
PROPERTIES WriteReturns
