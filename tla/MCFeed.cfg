SPECIFICATION FairSpec
CONSTANTS
  btc = btc
  eth = eth
  Symbols = {btc}
  Warmup = 2
  MaxHistory = 4
  MaxTime = 2
  MaxTrades = 2
  MaxDrops = 1
  MaxScans = 2
  PageLimit = 1
  MaxPages = 2
  WindowExtra = 0
  WindowSlack = 0
CHECK_DEADLOCK FALSE
INVARIANTS
  BarsInOrder
  BarIsFinal
  HistoryInOrder
  HistoryIsRecent
PROPERTIES
  Recovers
