SPECIFICATION FairSpec
CONSTANTS
  Sims = {sim1, sim2}
  Numbers = {n1}
  NoNumber = NoNumber
  MaxQueue = 1
  MaxResets = 2
INVARIANTS RecorderConsistent PendingCloseHasRecording VibrationWillReset
PROPERTIES
  StartsOnlyWithConsent
  RecordingEventuallyStops
