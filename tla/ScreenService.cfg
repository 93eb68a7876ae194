SPECIFICATION FairScreenSpec
CONSTANTS
  Buttons = {back, recents}
  MaxTimers = 2
  MaxQueue = 1
  MaxClicks = 2
  Writable = TRUE
INVARIANTS
  ClicksCovered
  ForcedIsLit
  ScreenOffIsDark
  AwakeIsUsable
  PocketBlocks
PROPERTY GoesOut
