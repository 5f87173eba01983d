SPECIFICATION FairSpec
CONSTANTS
  Rates = {r1, r2}
  Modes = {"normal"}
  VringLen = 4
  MaxRx = 1
  MaxOpens = 2
  MaxFaults = 2
INVARIANTS BothEndsAgree RunsAsConfigured
PROPERTY BusOffEnds
CHECK_DEADLOCK FALSE
