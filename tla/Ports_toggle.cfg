SPECIFICATION PortsSpec
CONSTANTS
  app = app
  cache = cache
  web = web
  Stacks <- TwoStacks
  Calls = {r1, r2}
  Ops = {"sync", "toggle", "create", "create_compose", "dockerfile", "git", "deferred", "github_app", "balance", "redeploy", "remove"}
  PortNumbers = {1, 2, 3, 4}
  PoolStart = 2
  PoolEnd = 4
  Standard <- StandardPort
  Hosts <- FirstHosts
  NULL = NULL
  NOFILE = NOFILE
  MaxEvents = 1
SYMMETRY Sym
INVARIANTS PortsTypeOK  RowsTellExposure VolumeOutlivesToggle
CHECK_DEADLOCK FALSE
