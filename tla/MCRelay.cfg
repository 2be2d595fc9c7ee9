SPECIFICATION MCSpec
CONSTANTS
  MaxUp = 2
  MaxDown = 1
  Limit = 0
INVARIANTS
  WellFormed
  PassedIsComplete
  ResponseSurvives
PROPERTIES
  ImplementsStreams
  AllEnd
CHECK_DEADLOCK FALSE
