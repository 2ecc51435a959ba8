SPECIFICATION Spec
CONSTANTS
  Runs = {r1}
  CommandLines <- MCDepositCommandLines
  Grants <- MCDepositGrants
  Resources <- MCResources
  Levels <- MCLevels
  Repositories <- MCRepositories
  Versions = {"boundary/v1", "boundary/v2"}
  NoGrant = NoGrant
CHECK_DEADLOCK FALSE
INVARIANT RepositoriesNotBroader
