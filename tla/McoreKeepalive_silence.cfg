SPECIFICATION Spec
CONSTANTS
  Timeouts = {2, 3}
  Default = 2
  Wrap = 12
  BootTime = 2
  MaxTime = 6
  MaxUpsets = 1
INVARIANT SilenceReported
CHECK_DEADLOCK FALSE
