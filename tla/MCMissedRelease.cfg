SPECIFICATION Spec
CONSTANTS
  btc = btc
  eth = eth
  sol = sol
  LONG = LONG
  SHORT = SHORT
  Symbols = {btc, eth}
  Sides = {LONG, SHORT}
  Universe <- RankedTwo
  MaxSymbols = 1
  MaxEntries = 1
  Live = FALSE
  Streams = {"stream"}
  Given = {btc}
  AllowHedge = FALSE
  AccountFails = FALSE
  LateFills = FALSE
  OthersTrade = FALSE
CHECK_DEADLOCK FALSE
INVARIANTS
  FlatIsReleased
