SPECIFICATION Spec
CONSTANTS
  Calls = {c1, c2, c3, c4}
  NoEntry = NoEntry
SYMMETRY MCSymmetry
CHECK_DEADLOCK FALSE
INVARIANTS
  TypeOK
  OnlyRacesDisagree
PROPERTY KeptOnceSettled
