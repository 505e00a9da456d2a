SPECIFICATION Spec
CONSTANTS
  Auto = Auto
  Random = Random
  None = None
  Unknown = Unknown
  Unlimited = Unlimited
  Main = Main
  Child = Child
  StartMethods = {"fork", "spawn"}
  DefaultMethod = "fork"
  MaxSize = 9
  MaxProcesses = 7
  MaxBudget = 9
  SeedBits = 4
  Launches <- MCLaunches
  Rows = 2
  Draws = {3, 12}
  Multipliers <- MCMultipliers
  Shifts <- MCShifts
  SeedDomain = 9
  RowOrder <- MCRowOrder
  Watched = 0
  MaxWorkers = 2
  MaxPasses = 2
  MaxFailures = 1
INVARIANTS
  TorchAccepts
  CpuBudget
  SeedsAgree
  ArtifactsReleased
  OwnNativeState
  WorkersStart
PROPERTY
  ConstructionEnds
CHECK_DEADLOCK FALSE
