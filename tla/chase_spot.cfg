SPECIFICATION FairSpec
CONSTANTS
  Brackets = {b1}
  NoOrder = NoOrder
  Futures = FALSE
  Holding = 3
  Amount = 2
  MinQty = 1
  ChaseMode = "dynamic_bbo"
  MaxAttempts = 3
  MaxRevisions = 0
  MaxFaults = 2
INVARIANTS ForgottenWithinFaults SoldWithinAmount
PROPERTIES ChaseReturns
