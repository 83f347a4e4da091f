\* three overlapping backups, sweeps and deletions of one plan
SPECIFICATION Spec
CONSTANTS
  NONE = NONE
  Plans = {b1}
  UserRows = {}
  Jobs = {j1, j2, j3}
  Targets = {cluster, db}
  Cluster = cluster
  Crons = {c1}
  Retentions = {1, 2}
  Requests = {"run_now", "trigger_backup", "delete_backup"}
  MaxNow = 1
  MaxEdits = 0
  MaxCrashes = 0
  MaxDrops = 1
SYMMETRY Symmetric
INVARIANTS
  CompletedIsRestorable
  PlanKeepsABackup
\* every job ends and no request has to follow
CHECK_DEADLOCK FALSE
