SPECIFICATION FairSpec
CONSTANTS
  Mod = 8
  Half = 4
  SendWindow = 1
  InFlight = 1
  RecvWindow = 2
  RemoteNext0 = 2
  AckNumberLimit = 2
  MaxPush = 2
  MaxFaults = 1
  MaxNet = 1
INVARIANTS
  NothingForgotten
  NoAckForgotten
PROPERTIES
  ImplementsStream
  EventuallyDelivered
