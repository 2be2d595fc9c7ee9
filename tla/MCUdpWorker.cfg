SPECIFICATION FairSpec
CONSTANTS
  Sources = {a, b}
  Conns = {1, 2}
INVARIANTS
  WellFormed
  StartSucceedsForPassive
  OneSession
PROPERTY IdleClosed
CHECK_DEADLOCK FALSE
