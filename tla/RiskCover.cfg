SPECIFICATION Spec
CONSTANTS
  a = a  b = b
  Stocks = {a, b}
  InitialPct = 20
  MaintenancePct = 12
  WarningPct = 15
  LiquidatePct = 20
  Opening <- TwoShorts
  Prices = {80, 100, 120, 130, 150}
  Spread = 1
  Charge = 1
  Lots = {1, 10}
  MaxTicks = 3
  MaxTrades = 1
INVARIANTS PlanIsExact ProjectionIsExact
PROPERTIES TradeIsSafe CoverIsDue BustKeepsOnlyStuck
CHECK_DEADLOCK FALSE
