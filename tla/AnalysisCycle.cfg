CONSTANTS
  Tickers = {"s", "d", "e", "x"}
  KR = {"s", "d", "e"}
  Price <- MCPrice
  Sleeves = {"bond"}
  Pool <- MCPool
  Enabled = {"bond"}
  UsAllowed = TRUE
  TargetMax = 40
  Band = 5
  PerCycle = 15
  Buffer = 110
  PerOrderRatio = 10
  StockRatio = 15
  CycleRatio = 40
  Overshoot = 120
  MaxOrderQty = 0
  HardMaxQty = 1000
  MaxTrades = 2
  Rebalances = TRUE
  Day <- MCDay
  Accounts <- MCAccounts
  Funds = 100
  NxtListed = {"s"}
  Ideas <- MCIdeas
  Weights <- MCWeights
  Tilts = {100}
  PsblLimits = {2}
  MaxCycles = 1
SPECIFICATION Spec
INVARIANTS
  BudgetIsKept
  SizingAgreesWithGate
  OneTrackSells
  PlannedIsTried
  SkippedCycleBuysNoStock
  NxtRefusesOnce
CHECK_DEADLOCK FALSE
