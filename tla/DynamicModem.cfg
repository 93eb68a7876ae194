SPECIFICATION Spec
CONSTANTS
  Modes = {lte, gsm}
  DataSubs = {0, 2}
  MaxEvents = 2
SYMMETRY ModesSymmetry
INVARIANTS
  ModeFollowsWifi
  OffMeansDefault
  FlagAgrees
  OffUnregisters
