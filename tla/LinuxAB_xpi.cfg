SPECIFICATION Spec
CONSTANTS
  Sessions = {s1}
  Images <- MCImages
  FalconOk <- MCFalconOk
  FalconAbsent <- MCFalconAbsent
  ProperOk <- MCProperOk
  Healthy <- MCHealthy
  BootLimit = 1
  MaxFaults = 0
  MaxCount = 3
  SplIsAB = FALSE
  AllowForce = FALSE
  ManualProper = FALSE
INVARIANT MbrAligned
