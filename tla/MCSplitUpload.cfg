SPECIFICATION FairSpec
CONSTANTS
  MaxSeq = 3
  Sessions = {1, 2}
  Uploads <- MCUploads
  Parts = 2
  MaxPackets = 1
INVARIANTS
  WellFormed
  InOrder
  AcceptedIsKept
  KeepsItsSession
PROPERTIES
  AllEnd
  EventuallyRead
CHECK_DEADLOCK FALSE
