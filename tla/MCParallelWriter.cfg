SPECIFICATION FairSpec
CONSTANTS
  N = 2
  a = a
  b = b
  Names = {a, b}
  Inputs <- Calls
  NumProcesses = 2
  MaxTroubles = 1
INVARIANTS HonestOutcomes NothingLeft Agreement
PROPERTIES CallReturns
