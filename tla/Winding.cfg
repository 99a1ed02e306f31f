SPECIFICATION FairSpec
CONSTANTS
  NumThreads = 2
  Crossing = TRUE
  MaxPoints = 5
  MaxConts = 2
INVARIANTS
  ExtentsMatchStack
  HandlerInForce
PROPERTIES
  ExtentsNest
  TravelEnds
CHECK_DEADLOCK FALSE
