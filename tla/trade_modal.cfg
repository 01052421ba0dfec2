SPECIFICATION FairSpec
CONSTANTS
  s1 = s1
  s2 = s2
  o1 = o1
  b1 = b1
  Symbols = {s1, s2}
  Home = s1
  Futures = {s2}
  Funded <- FundedMC
  Orders = {o1}
  Brackets = {b1}
  PairOf <- PairOfMC
  LinkOf <- LinkOfMC
  None = None
  All = All
  Slots = {f1}
  MaxEvents = 1
  MaxSwitches = 1
  MaxSends = 1
  Staggers = 1
PROPERTIES BalanceCatchesUp ListsCatchUp
