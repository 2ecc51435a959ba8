SPECIFICATION Spec
CONSTANTS
  Scopes <- MCScopes
  Providers = {"github", "stripe"}
INVARIANTS
  TypeOK
  LoopComputesAssessment
  TierIsWorstPiece
