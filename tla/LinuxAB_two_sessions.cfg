SPECIFICATION Spec
CONSTANTS
  Sessions = {s1, s2}
  Images <- MCImages
  FalconOk <- MCFalconOk
  FalconAbsent <- MCFalconAbsent
  ProperOk <- MCProperOk
  Healthy <- MCHealthy
  BootLimit = 1
  MaxFaults = 0
  MaxCount = 4
  SplIsAB = TRUE
  AllowForce = FALSE
  ManualProper = TRUE
INVARIANT RunningSlotNotWritten
