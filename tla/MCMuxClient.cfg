SPECIFICATION Spec
CONSTANTS
  Dispatchers = {d1, d2}
  Tries = 4
  MaxConcurrency = 1
  MaxConnection = 2
  MaxWorkers = 2
  MaxCalls = 2
  MaxFailures = 1
SYMMETRY Symmetry
INVARIANTS
  WellFormed
  AcceptedIsKept
  SecondTrySuffices
  NoPanic
CHECK_DEADLOCK FALSE
