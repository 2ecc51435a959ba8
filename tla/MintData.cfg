SPECIFICATION Spec
CONSTANTS
  Runs = {r1}
  CommandLines <- MCDataCommandLines
  Grants <- MCDataGrants
  Resources <- MCResources
  Levels <- MCLevels
  Repositories <- MCRepositories
  Versions = {"boundary/v1", "boundary/v2"}
  NoGrant = NoGrant
CHECK_DEADLOCK FALSE
INVARIANTS
  Quarantine
  RecordedTierIsGranted
  PolicyBoundsCustody
