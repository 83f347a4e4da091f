\* liveness: a service does not stay at deploying
SPECIFICATION FairSpec
CONSTANTS
  NONE = NONE
  Tasks = {t1, t2}
  Images = {i1, i2}
  MaxEnv = 0
  Permits = 1
  MaxCrashes = 1
  MaxDrops = 0
  Strategies = {"railpack", "catalog"}
  Requests = {"deploy", "redeploy", "stop", "start", "restart", "rollback", "env", "remove", "cancel"}
PROPERTIES
  DeploySettles
\* every task ends and no request has to follow
CHECK_DEADLOCK FALSE
