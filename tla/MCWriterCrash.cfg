SPECIFICATION Spec
CONSTANTS
  N = 2
  Paths = {a, b}
  MaxSamples = 2
  NumWorkers = 2
  PrefetchSize = 2
  MaxFaults = 1
  MaxInterrupts = 0
  MaxCalls = 2
SYMMETRY Interchangeable
INVARIANTS PublishedComplete CommitterProtocol
PROPERTIES PublishedImmutable
