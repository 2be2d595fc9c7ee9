SPECIFICATION MCSpec
CONSTANTS
  None = None
  Queries = {"both", "four"}
  Raws = {r1}
  Handlers = {h1}
  Domains = {d1}
  Asks <- MCAsks
  Servers <- MCServers
  Ttls = {0, 1, 2}
  Deadline = 2
  RequestLife = 4
  IdMod = 3
  MaxCalls = 2
  MaxAnswers = 3
  MaxTime = 4
INVARIANTS
  WellFormed
  NoLostWakeup
  NoPanic
  WokenFinds
CHECK_DEADLOCK FALSE
