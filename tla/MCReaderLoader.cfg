SPECIFICATION Spec
CONSTANTS
  MaxDraw = 7
  Draws <- MCDraws
  RowOrder <- MCRowOrder
  Requests <- MCRequests
  MaxPasses = 2
  MaxRows = 4
  MaxWorld = 2
  MaxWorkers = 2
  MaxBatch = 2
  MaxSamplesPerEpoch = 5
INVARIANTS
  PlansTile
  LengthExact
  CyclicOrder
