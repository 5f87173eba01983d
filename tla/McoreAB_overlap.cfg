SPECIFICATION Spec
CONSTANTS
  Firmwares <- MCFirmwares
  Alive <- MCAlive
  Resetting <- MCResetting
  MaxFaults = 0
  WaitForConfirm = FALSE
INVARIANT CommittedAlive
