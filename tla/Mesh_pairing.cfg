SPECIFICATION MeshSpec
CONSTANTS
  HomeNodes = {n1, n2}
  AwayNodes = {n3}
  Requests = {r1, r2}
  Ops = {"enable", "configure", "pair", "unpair", "disable", "uninstall", "apply", "commit", "rollback"}
  Addresses = {1, 2, 3, 4}
  NULL = NULL
  MaxEvents = 2
SYMMETRY Sym
INVARIANTS  PairedMeshIsWhole
CHECK_DEADLOCK FALSE
