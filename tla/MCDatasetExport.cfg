SPECIFICATION Spec
CONSTANTS
  t1 = t1
  t2 = t2
  t3 = t3
  Tables = {t1, t2, t3}
  Original = t1
  Torn = Torn
  Rows <- MCRows
  EpochLens = {0, 3}
  PathLists = {p, q}
  None = None
  MaxCalls = 2
  MaxTroubles = 2
INVARIANTS RebuildsExport ReturnedStays
