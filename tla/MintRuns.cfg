SPECIFICATION Spec
CONSTANTS
  Runs = {r1, r2}
  CommandLines <- MCRunsCommandLines
  Grants <- MCRunsGrants
  Resources <- MCResources
  Levels <- MCLevels
  Repositories <- MCRepositories
  Versions = {"boundary/v1", "boundary/v2"}
  NoGrant = NoGrant
CHECK_DEADLOCK FALSE
INVARIANTS
  TypeOK
  Tier2LeavesFirst
  ForRecipientNeverCached
  DepositOnlyWhenMandatory
  DoneMeansInCustody
  RefusalIsFinal
  OneDepositPerToken
PROPERTY ImplementsCustody
