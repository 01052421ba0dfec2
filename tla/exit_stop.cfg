SPECIFICATION ExitSpec
CONSTANTS
  Brackets = {b1}
  NoOrder = NoOrder
  Futures = TRUE
  Holding = 1
  Amount = 1
  MinQty = 1
  ChaseMode = "dynamic_bbo"
  MaxAttempts = 1
  MaxRevisions = 3
  MaxFaults = 1
  Editors = {u1}
  CheckEvery = 2
  MaxEdits = 1
PROPERTIES CancelledIsNotChased
