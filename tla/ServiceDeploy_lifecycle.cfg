\* every request against every kind of service, two at a time
SPECIFICATION Spec
CONSTANTS
  NONE = NONE
  Tasks = {t1, t2}
  Images = {i1, i2}
  MaxEnv = 1
  Permits = 1
  MaxCrashes = 1
  MaxDrops = 1
  Strategies = {"railpack", "dockerfile", "docker-compose", "catalog", "compose"}
  Requests = {"deploy", "redeploy", "stop", "start", "restart", "rollback", "env", "remove", "cancel"}
SYMMETRY Symmetric
INVARIANTS
  TypeOK
  DeployingHasOwner
  
  PermitsReturned
  OnePipelineInProgress
PROPERTIES
  LedgerRefinement
\* every task ends and no request has to follow
CHECK_DEADLOCK FALSE
