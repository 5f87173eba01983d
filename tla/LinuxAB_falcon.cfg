SPECIFICATION FairSpec
CONSTANTS
  Sessions = {s1}
  Images <- MC2Images
  FalconOk <- MCFalconOk
  FalconAbsent <- MC2FalconAbsent
  ProperOk <- MCProperOk
  Healthy <- MCHealthy
  BootLimit = 1
  MaxFaults = 1
  MaxCount = 4
  SplIsAB = TRUE
  AllowForce = TRUE
  ManualProper = TRUE
INVARIANTS CommittedIntact TrialBounded
PROPERTIES BootsWhatEnvSays ImplementsABSlots Recovers
