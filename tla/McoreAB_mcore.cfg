SPECIFICATION FairSpec
CONSTANTS
  Firmwares <- MCFirmwares
  Alive <- MCAlive
  Resetting <- MCResetting
  MaxFaults = 1
  WaitForConfirm = TRUE
INVARIANTS CommittedAlive OneShot
PROPERTIES CommitsWhatRan BackToCommitted
