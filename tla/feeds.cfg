SPECIFICATION FairSpec
CHECK_DEADLOCK FALSE
CONSTANTS
  Keys = {k1, k2}
  k1 = k1
  k2 = k2
  Home = k1
  None = None
  MaxRuns = 3
  MaxDrops = 2
INVARIANTS NoForeignFeed
PROPERTIES FeedComesBack NothingIsLeftOpen
