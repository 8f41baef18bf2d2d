SPECIFICATION Spec
CONSTANTS
  Step = 1
  MinQty = 2
  OrderQty = 4
  ClosePct = 50
  MaxOrders = 2
  MaxPolls = 2
  RequestFails = TRUE
  TriggerFails = TRUE
  VerifyFails = TRUE
  AccountFails = TRUE
  SlDropped = TRUE
  PartialFills = TRUE
  LateFills = TRUE
CHECK_DEADLOCK FALSE
INVARIANTS
  TypeOK
  ProtectedUntilMishap
  ExposureBounded
  TpsWithinPosition
  ExitsCoverPosition
