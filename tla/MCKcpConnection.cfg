SPECIFICATION FairSpec
CONSTANTS
  Uses <- MCUses
  SendWindow = 0
  MaxPush = 1
  MaxInput = 1
INVARIANTS
  WellFormed
  GracefulClose
PROPERTIES
  AllEnd
  Flushed
CHECK_DEADLOCK FALSE
