SPECIFICATION LinkSpec
CONSTANTS
  Sessions = {1}
  MaxItems = 2
  Capacity = 1
INVARIANT NotifiesPeer
CHECK_DEADLOCK FALSE
