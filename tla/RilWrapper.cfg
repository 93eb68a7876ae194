SPECIFICATION Spec
CONSTANTS
  MaxLength = 3
  MaxResponse = 6
INVARIANT KeepsLatest
