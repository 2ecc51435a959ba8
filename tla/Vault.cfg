SPECIFICATION FairSpec
CONSTANTS
  c1 = c1
  c2 = c2
  c3 = c3
  Calls = {c1, c2, c3}
  Workloads <- MCWorkloads
  NotedProjects <- MCNotedProjects
CHECK_DEADLOCK FALSE
INVARIANTS
  TypeOK
  LostOnlyByOverlap
  PathsAreUnique
  PlainQueriesAreExact
PROPERTIES
  EveryCallEnds
  ImplementsAbstractVault
