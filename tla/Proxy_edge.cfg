SPECIFICATION Spec
CONSTANTS
  Requests = {r1, r2}
  Ops = {"create", "generate", "update", "activate", "deactivate", "remove", "deploy", "balance", "cascade", "remove_service", "remove_stack", "enable", "contact", "platform", "disable", "upgrade"}
  Services = {local, far}
  Remote = {far}
  Hosts = {h1, h2}
  Panel = Panel
  Default = v1
  Latest = v2
  Broken = {v2}
  BootTask = BootTask
  Watchdog = Watchdog
  NONE = NONE
  MaxEvents = 1
SYMMETRY Sym
INVARIANTS ProxyTypeOK RoutesFollowRows
PROPERTIES KnownHostsKeepCertificates
CHECK_DEADLOCK FALSE
