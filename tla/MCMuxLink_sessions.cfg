SPECIFICATION FairLinkSpec
CONSTANTS
  Sessions = {1}
  MaxItems = 1
  Capacity = 8
INVARIANT LinkWellFormed
PROPERTY EndsTogether
CHECK_DEADLOCK FALSE
