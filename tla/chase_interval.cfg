SPECIFICATION Spec
CONSTANTS
  Brackets = {b1}
  NoOrder = NoOrder
  Futures = TRUE
  Holding = 2
  Amount = 2
  MinQty = 1
  ChaseMode = "interval"
  MaxAttempts = 2
  MaxRevisions = 0
  MaxFaults = 0
INVARIANTS NoForgottenOrder
