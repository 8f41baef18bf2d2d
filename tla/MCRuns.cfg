SPECIFICATION FairSpec
CONSTANTS
  r1 = r1
  r2 = r2
  Runs = {r1, r2}
  MaxCommands = 4
  MaxDisruptions = 1
  BuildMayFail = TRUE
  EngineMayFail = TRUE
  Rebalances = TRUE
CHECK_DEADLOCK FALSE
INVARIANTS
  TypeOK
  TradingIsVisible
  
PROPERTIES
  OneEngine
  StopTakesEffect
