SPECIFICATION FairSpec
CONSTANTS
  Symbols = {s1, s2}
  Home = s1
  Prices = {1, 2}
  Start = 1
  Side = "buy"
  MaxEdits = 2
  MaxOrders = 3
  Slots = {f1}
  MaxFaults = 1
  MaxSwitches = 1
INVARIANTS ExposureWithinMisses LinkFollows
PROPERTY LinesCatchUp
