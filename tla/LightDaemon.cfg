SPECIFICATION Spec
CONSTANTS
  Requests <- Overlapping
  Victims = {"none", "red", "green", "blue"}
INVARIANTS
  CyclesFit
  LatestColorShown
PROPERTY ImplementsLed
