SPECIFICATION CSpec
CONSTANTS
  Timeouts = {2, 3}
  Default = 2
  Wrap = 12
  BootTime = 2
  MaxTime = 6
  MaxUpsets = 2
  Wait = 2
  Stable = 4
INVARIANTS SilenceReportedInTime CountsAreReal HealthyPasses
PROPERTIES NoFalseAlarm PassedMeansStable
CHECK_DEADLOCK FALSE
