SPECIFICATION Spec
CONSTANTS
  Requests = {r1, r2}
  Ops = {"create", "delete", "password", "privileges", "backup", "restore", "upload", "repair", "env"}
  Catalogs = {"postgresql", "mysql", "mongodb"}
  DBs = {d1, d2}
  Users = {u1, u2}
  First = first
  Server = server
  Torn = torn
  NONE = none
  MaxEvents = 2
SYMMETRY Symmetric
 
 
INVARIANT OwnRows
PROPERTY MoveLosesNothing
CHECK_DEADLOCK FALSE
