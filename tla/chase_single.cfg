SPECIFICATION FairSpec
CONSTANTS
  Brackets = {b1}
  NoOrder = NoOrder
  Futures = TRUE
  Holding = 3
  Amount = 2
  MinQty = 1
  ChaseMode = "dynamic_bbo"
  MaxAttempts = 3
  MaxRevisions = 0
  MaxFaults = 1
INVARIANTS TypeOK ForgottenWithinFaults UnstoppedChaseExits CancelledNeverSwept
PROPERTIES KeepsContract ChaseReturns
