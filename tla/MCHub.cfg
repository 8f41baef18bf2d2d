SPECIFICATION FairSpec
CONSTANTS
  tab1 = tab1
  tab2 = tab2
  btcLong = btcLong
  btcShort = btcShort
  Tabs = {tab1}
  Keys = {btcLong, btcShort}
  WireSize = 1
  MaxEvents = 3
  MaxConns = 2
  MaxRestarts = 1
CHECK_DEADLOCK FALSE
INVARIANTS
  ViewIsCurrent
PROPERTIES
  ViewNeverGoesBack
  Settles
