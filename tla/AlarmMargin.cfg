SPECIFICATION AlarmSpec
CONSTANTS
  Triggers = {600, 900, 1200}
  MaxQueue = 3
INVARIANT WakesNinetyEarly
