SPECIFICATION FairTimerSpec
CONSTANTS
  Callers = {c1, c2}
  MaxTasks = 4
INVARIANT OneTicker
PROPERTY Cancels
