SPECIFICATION TimerSpec
CONSTANTS
  Callers = {c1}
  MaxTasks = 2
INVARIANT NonBlocking
