SPECIFICATION FairSpec
CONSTANTS
  x = x  y = y  A = A  B = B
  Files = {x, y}
  Datasets = {A, B}
  List <- Opposite
  StoredIds = {1}
  MaxFaults = 1
  MaxDeaths = 1
  MaxEdits = 1
INVARIANTS NeverTorn SuccessIsDurable HonestReport
PROPERTIES OnlyLoadedReplaced RetrySucceeds
CHECK_DEADLOCK FALSE
