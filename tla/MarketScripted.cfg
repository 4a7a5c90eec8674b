SPECIFICATION ScriptSpec
CONSTANTS
  h1 = h1
  Handlers = {h1}
  TotalDays = 1
  Controls = {"pre_open", "open", "close", "halt", "freeze", "finalise", "reset", "resume_open", "resume_pre_open", "resume_closed"}
  Asks = 3
  Crashes = 1
  Excursions = 1
  Grain = 2
  PreOpenFor = 1
  OpenFor = 3
  BreakFor = 1
  HaltFor = 1
  AutoAdvance = TRUE
  Script <- ADay
  MaxAt = 2
  MaxIdle = 2
CONSTRAINT OneUpset
INVARIANTS ScriptTypeOK CrashedSessionWaits NoFillWhileStopped StepLandsOnce PauseKeepsOffset
PROPERTIES FullSession
