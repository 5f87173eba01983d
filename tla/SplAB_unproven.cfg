SPECIFICATION SplSpec
CONSTANTS
  Versions <- MCVersions
  Factory = "old"
  Booting <- MCBooting
  MaxBad = 0
INVARIANT SavedIsProven
CHECK_DEADLOCK FALSE
