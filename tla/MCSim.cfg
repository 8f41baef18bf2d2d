SPECIFICATION Spec
CONSTANTS
  Sides = {"LONG", "SHORT"}
  MinInvestment = 200
  MaxCapital = 580
  MaxLoss = 20
  BaseLeverage = 1
  MaxLeverage = 3
  LeverageStep = 1
  AllowHedge = TRUE
  FeePercent = 1
  MinVolume = 2
  Prices = {92, 96, 100, 106}
  InitialCapital = 100
  MaxBars = 6
  Strategies = {"ladder", "scanner"}
  LadderSteps = 3
  LadderSpacing = 3
  LadderProfit = 10
  MaxEntries = 3
  EntrySpacing = 3
  TpPercents <- Levels
  TpCloses <- Closes
  BreakevenAfter = 1
  TrailAfter = 1
  TrailPercent = 12
  StopPercent = 10
CHECK_DEADLOCK FALSE
INVARIANTS
  TypeOK
  UsedWithinCapital
  MarginFits
  PlannedLossBounded
PROPERTIES
  EquityMovesByFee
  StopNeverLoosens
  EntriesSpaced
