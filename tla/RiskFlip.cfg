SPECIFICATION Spec
CONSTANTS
  a = a  b = b
  Stocks = {a}
  InitialPct = 20
  MaintenancePct = 12
  WarningPct = 15
  LiquidatePct = 20
  Opening <- OneShort
  Prices = {8, 10, 12}
  Spread = 0
  Charge = 0
  Lots = {1}
  MaxTicks = 4
  MaxTrades = 0
PROPERTY SweepKeepsShort
CHECK_DEADLOCK FALSE
