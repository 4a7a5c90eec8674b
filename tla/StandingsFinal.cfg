SPECIFICATION Spec
CONSTANTS
  NumTeams = 2
  Opening = 1
  Worths <- SmallBooks
  MaxTrades = 1
  MaxOrders = 1
  MaxSnapshots = 2
  Acts = 1
INVARIANTS TableFollowsRulebook TableAgreesWithBoard
PROPERTY TableIsLocked
CHECK_DEADLOCK FALSE
