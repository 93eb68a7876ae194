SPECIFICATION PartsSpec
CONSTANTS
  Triggers = {600, 900, 1200}
  MaxQueue = 3
  MaxSocket = 2
INVARIANTS
  OneAlarm
  SavedIsSet
  AudioFollowsSlider
  BrightnessRestored
  HeadsUpFollowsPref
  CanNavigate
PROPERTIES
  RtcFollowsNext
  SliderIsObeyed
