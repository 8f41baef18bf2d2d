SPECIFICATION Spec
CONSTANTS
  btc = btc
  eth = eth
  sol = sol
  LONG = LONG
  SHORT = SHORT
  Symbols = {btc, eth, sol}
  Sides = {LONG, SHORT}
  Universe <- RankedThree
  MaxSymbols = 2
  MaxEntries = 2
  Live = FALSE
  Streams = {"stream", "fixed"}
  Given = {btc, eth}
  AllowHedge = TRUE
  AccountFails = FALSE
  LateFills = FALSE
  OthersTrade = FALSE
CHECK_DEADLOCK FALSE
SYMMETRY SideSymmetry
INVARIANTS
  OneSidePerSymbol
  OpenIsArmed
  StepsBounded
PROPERTIES
  DropOnlyWhenFlat
  ReplacementSweeps
  ImplementsSlots
