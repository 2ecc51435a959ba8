\* The record is read once; then the model stops.
SPECIFICATION Spec
CONSTANTS
  Tokens <- MCTokens
  Records <- MCRecords
  Times <- MCTimes
  MAX_EDITS = 2
CHECK_DEADLOCK FALSE
INVARIANTS
  TypeOK
  RoundTrip
  LaterFieldsStand
  PartialWriteRefused
  NothingIsInvented
