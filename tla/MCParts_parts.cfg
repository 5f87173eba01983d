SPECIFICATION FairParts
CONSTANTS
  MemSize = 4
  MaxByte = 2
  Decimals = {0, 9, 10, 105, 999, 1000, 1234567890}
  Firmwares = {"echo", "can-sim", "clk-test", "uart-test", "hello"}
  MaxBoots = 3
  MaxSends = 2
  Logo <- MCLogo
  Panel <- MCPanel
  Fallback <- MCFallback
  Asked = {0, 1, 2, 3, 5, 6}
  ImageSizes <- MCImages
  FileLens = {0, 1, 2, 3, 5}
  SerialMod = 5
  MaxErrors = 2
  Versions <- MCVersions
  Factory = "old"
  Booting <- MCBooting
  MaxBad = 2
INVARIANTS LibcAnswers ShowsPicture LastSaveIsRead AlwaysBootable ProvenCopyLeft
PROPERTIES KicksHandled AtomicSave Heals
CHECK_DEADLOCK FALSE
