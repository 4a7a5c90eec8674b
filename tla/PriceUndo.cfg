SPECIFICATION Spec
CONSTANTS
  h1 = h1
  Handlers = {h1}
  Unit = 2
  SeedPrice = 20
  SeedBand = 10
  SeedShares = 3
  Aims = {22}
  Walks <- WalkSteps
  Bands = {10}
  Dividends = {3}
  Ratios <- TwoForOne
  Requests = {"jump", "undo", "split"}
  MaxActions = 1
  Asks = 3
  Days = 0
PROPERTY UndoAlwaysReverts
CHECK_DEADLOCK FALSE
