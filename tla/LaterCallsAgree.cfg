SPECIFICATION Spec
CONSTANTS
  Calls = {c1, c2, c3}
  NoEntry = NoEntry
CHECK_DEADLOCK FALSE
INVARIANT LaterCallsAgree
