SPECIFICATION MCSpec
CONSTANTS
  c1 = c1
  Clients = {c1}
  Kinds = {"quote", "portfolio"}
  MaxQueue = 2
  GiveUp = 2
  MaxUpdates = 3
  MaxBreaks = 1
  Told = {TRUE, FALSE}
  MaxExpiries = 1
  MaxResets = 1
  Window = 2
  PerLogin = 2
  PerPlace = 3
  Logins = {"a", " a"}
  Member <- WithoutBlanks
  MaxEvents = 5
INVARIANTS SignInsAreLimited InOrder OnlyDurablesEvict
PROPERTIES BackOrPolling PollingCatchesUp ResetSignsOut
CHECK_DEADLOCK FALSE
