SPECIFICATION FairDisplay
CONSTANTS
  Rewrites = {"", "setcrtc", "noevent", "strip"}
  MaxErrors = 1
  MaxFaults = 2
INVARIANTS MappedIsShown GuiOverLogo OneEventEach FlipsAreReal DrawsBehind
PROPERTIES ScreenFollows GuiBack
