SPECIFICATION Spec
CONSTANTS
  Brackets = {b1, b2}
  NoOrder = NoOrder
  Futures = TRUE
  Holding = 2
  Amount = 1
  MinQty = 1
  ChaseMode = "dynamic_bbo"
  MaxAttempts = 1
  MaxRevisions = 0
  MaxFaults = 0
SYMMETRY BracketSymmetry
INVARIANTS NoForgottenOrder SoldWithinAmount
PROPERTIES ArmedOrdersSurvive
