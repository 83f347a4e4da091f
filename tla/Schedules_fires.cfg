\* the runner through every edit of plans and rows, and a restart
SPECIFICATION FairSpec
CONSTANTS
  NONE = NONE
  Plans = {b1}
  UserRows = {u1}
  Jobs = {j1, j2}
  Targets = {cluster}
  Cluster = cluster
  Crons = {c1}
  Retentions = {1}
  Requests = {"create_schedule", "update_schedule", "delete_schedule", "create", "update", "remove"}
  MaxNow = 0
  MaxEdits = 1
  MaxCrashes = 1
  MaxDrops = 0
INVARIANTS
  SchedTypeOK
  OneFirePerSchedule
  
PROPERTIES
  FiresFinish
  
\* every job ends and no request has to follow
CHECK_DEADLOCK FALSE
