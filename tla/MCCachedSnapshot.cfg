SPECIFICATION Spec
CONSTANTS
  MaxDraw = 6
  Draws <- MCDraws
  MaxShardBytes = 4
  NoColumns = NoColumns
  ColumnsA = ColumnsA
  ColumnsB = ColumnsB
  NumCaches = 2
  MaxSamples = 2
  Kinds <- MCKinds
  Tables <- MCTables
  EpochLens <- MCEpochLens
  NumIters = 2
  ValidateCache = TRUE
INVARIANT SnapshotAtConstruction
