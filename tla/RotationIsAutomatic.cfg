SPECIFICATION Spec
CONSTANTS
  Runs = {r1, r2}
  CommandLines <- MCRotationCommandLines
  Grants <- MCRotationGrants
  Resources <- MCResources
  Levels <- MCLevels
  Repositories <- MCRepositories
  Versions = {"boundary/v1", "boundary/v2"}
  NoGrant = NoGrant
CHECK_DEADLOCK FALSE
INVARIANT RotationIsAutomatic
