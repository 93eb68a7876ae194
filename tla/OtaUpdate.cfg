SPECIFICATION Spec
CONSTANT LastPackage = 2
INVARIANTS
  PackagesReady
  InstallsChosen
PROPERTY UpdateEnds
