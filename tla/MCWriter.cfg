SPECIFICATION Spec
CONSTANTS
  BatchMax = 2
  MaxEvents = 4
  MaxWrites = 2
  DbFails = TRUE
  LostReplies = TRUE
  Crashes = TRUE
  Interrupts = TRUE
CHECK_DEADLOCK FALSE
INVARIANTS
  BufferIsTail
  OncePerDelivery
  RunRowIsLatest
