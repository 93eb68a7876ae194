SPECIFICATION Spec
CONSTANTS
  Modes = {lte}
  DataSubs = {0, 3}
  MaxEvents = 1
INVARIANT WifiModeIsSet
