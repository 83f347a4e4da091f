SPECIFICATION Spec
CONSTANTS
  Versions = {1, 2}
  Requests = {r1, r2}
  Users = {ann, root}
  Admins = {root}
  Ops = {"publish", "tarball", "prefetch", "packument", "set_tag", "remove_tag", "delete_version", "delete_package", "deprecate"}
  NULL = NULL
  MaxCache = 1
  MaxEvents = 1
SYMMETRY Sym
 
PROPERTIES IntegrityIsFinal
CHECK_DEADLOCK FALSE
