SPECIFICATION Spec
CONSTANTS
  Agents = {a1}
  Requests = {r1, r2, r3}
  Ops = {"create", "handshake", "remove", "heartbeat", "rotate", "deploy", "stop", "test", "peer", "revoke_grant", "probe", "pair", "revoke_token", "fed_rotate", "s_create", "s_update", "s_deploy", "s_down", "s_restart", "s_delete", "s_release", "sync"}
  NULL = NULL
  MaxEvents = 1
SYMMETRY Sym
INVARIANTS ServersTypeOK BootstrapSpentOnce RotationKeepsAccess
CHECK_DEADLOCK FALSE
