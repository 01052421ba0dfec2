SPECIFICATION BotFairSpec
CONSTANTS
  Bots = {b1, b2}
  k1 = k1
  Keys <- OneKey
  KeyOf <- SameKey
  None = None
  STARTING = STARTING
  MaxStarts = 3
  MaxStops = 3
  StopsOverlap = FALSE
INVARIANTS BotTypeOK SubscribersAreServed NoStrayInstance MemoryMatchesDatabase
PROPERTIES StopReturns
