SPECIFICATION Spec
CONSTANTS
  Step = 1
  MinQty = 1
  OrderQty = 3
  ClosePct = 50
  MaxOrders = 1
  MaxPolls = 2
  RequestFails = FALSE
  TriggerFails = TRUE
  VerifyFails = FALSE
  AccountFails = FALSE
  SlDropped = TRUE
  PartialFills = FALSE
  LateFills = FALSE
CHECK_DEADLOCK FALSE
INVARIANTS
  NeverUnprotected
