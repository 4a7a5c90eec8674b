SPECIFICATION UnattendedSpec
CONSTANTS
  h1 = h1
  Handlers = {h1}
  TotalDays = 2
  Controls = {"resume_open"}
  Asks <- Unlimited
  Crashes = 2
  Excursions = 2
  Grain = 2
  PreOpenFor = 2
  OpenFor = 4
  BreakFor = 2
  HaltFor = 2
  AutoAdvance = TRUE
INVARIANTS OneChargePerDay OpenMeansArmed
PROPERTIES RefinesCalendar Finishes
