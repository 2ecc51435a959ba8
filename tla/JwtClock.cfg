\* The JWT is answered once; then the model stops.
SPECIFICATION Spec
CONSTANTS
  Starts <- MCStarts
  Drifts <- MCDrifts
  Delays <- MCDelays
CHECK_DEADLOCK FALSE
INVARIANT TypeOK
INVARIANT DriftIsTolerated
INVARIANT ShortLived
