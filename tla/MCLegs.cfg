SPECIFICATION Spec
CONSTANTS
  Step = 2
  MinQty = 5
  Quantities <- UpToTwentyFour
  ClosePcts <- Percents
CHECK_DEADLOCK FALSE
INVARIANTS
  WithinPosition
  EveryLegPlaceable
  FullyCovered
