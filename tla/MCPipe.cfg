SPECIFICATION MCFairSpec
CONSTANTS
  Writers = {w1, w2}
  Readers = {r1}
  Sizes = {1}
  Limit = 1
  DiscardOverflow = FALSE
  MaxWrites = 2
INVARIANTS
  NoneStranded
  Truthful
PROPERTIES
  ImplementsStream
  WritesReturn
  AllDelivered
