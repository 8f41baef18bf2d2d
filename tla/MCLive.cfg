SPECIFICATION FairSpec
CONSTANTS
  btc = btc
  eth = eth
  sol = sol
  LONG = LONG
  SHORT = SHORT
  Symbols = {btc, eth}
  Sides = {LONG}
  Universe <- RankedTwo
  MaxSymbols = 1
  MaxEntries = 1
  Live = TRUE
  Streams = {"stream", "fixed"}
  Given = {btc}
  AllowHedge = FALSE
  AccountFails = TRUE
  LateFills = TRUE
  OthersTrade = TRUE
CHECK_DEADLOCK FALSE
INVARIANTS
  OpenIsWatched
PROPERTIES
  NoOpenBeyondLimit
  BackToFeed
