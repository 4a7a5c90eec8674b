SPECIFICATION Spec
CONSTANTS
  h1 = h1
  Handlers = {h1}
  Unit = 2
  SeedPrice = 20
  SeedBand = 10
  SeedShares = 3
  Aims = {41}
  Walks <- WalkSteps
  Bands = {10, 20}
  Dividends = {3}
  Ratios <- BothWays
  Requests = {"move", "jump", "volatility", "halt", "resume", "suspend", "band", "undo", "dividend", "split", "pre_open"}
  MaxActions = 2
  Asks = 2
  Days = 1
INVARIANTS BandHolds VolatilityEnds
PROPERTIES HaltHolds LandsOnce UndoReverts CorporateActionsAreNeutral
CHECK_DEADLOCK FALSE
