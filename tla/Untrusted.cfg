SPECIFICATION TextSpec
CONSTANTS
  MaxContentLen = 4
  MaxText = 5
INVARIANTS
  NoBoundaryLeft
  Legible
