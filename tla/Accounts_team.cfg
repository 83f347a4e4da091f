SPECIFICATION Spec
CONSTANTS
  Users = {ann, bob, eve}
  Requests = {r1, r2}
  Codes = {c1}
  Ops = {"setup", "login", "login_2fa", "npm_login", "accept", "begin_login", "poll_done", "logout", "change_password", "revoke_session", "revoke_others", "two_fa_enable", "two_fa_disable", "create_token", "revoke_token", "authorize", "invite", "update", "remove", "change_role", "add_member", "update_member", "remove_member", "create_project", "delete_project"}
  NULL = NULL
  MaxEvents = 1
SYMMETRY Sym
INVARIANTS OwnerRowRemains CredentialsHaveOwner FirstAdminOnce TokenDeliveredOnce
CHECK_DEADLOCK FALSE
