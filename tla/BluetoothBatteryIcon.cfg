SPECIFICATION Spec
CONSTANTS
  Devices = {d1, d2, d3}
  MaxQueue = 3
INVARIANTS
  CountFollows
  IconFollows
  BatteryIsThere
