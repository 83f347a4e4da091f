------------------------------- MODULE Proxy -------------------------------
(* Domains and the reverse proxy: the rows of `domains`, the router files     *)
(* that core and agents keep for Traefik, the Traefik container of the core,  *)
(* its certificates, and the tasks that replace it: enable, update, a change  *)
(* of the ACME contact, the start of Pier and the watchdog.                   *)
(*                                                                          *)
(* A row is keyed by its host name, which is unique; a router file is the set *)
(* of hosts it routes. A handler is a step per lock, file and call.           *)
EXTENDS Integers, FiniteSets

CONSTANTS
  Requests,   \* each is used once
  Ops,        \* the requests a run lets happen
  Services,
  Remote,     \* the services that run on an agent
  Hosts,      \* host names of domains
  Panel,      \* the host name of the panel itself
  Default, Latest,   \* Traefik versions: the one installed and the newest
  Broken,     \* versions that exit shortly after their start
  BootTask, Watchdog,
  NONE,
  MaxEvents   \* bound: crashes of Pier and of Traefik, calls that fail

ASSUME ProxyConstants ==
  /\ Remote \subseteq Services /\ Panel \notin Hosts /\ Hosts # {}
  /\ Broken \subseteq {Default, Latest}
  /\ MaxEvents \in Nat
  /\ BootTask # Watchdog /\ {BootTask, Watchdog} \cap Requests = {}
  /\ NONE \notin Requests \cup {BootTask, Watchdog} \cup Services \cup Hosts

VARIABLES
  services,   \* ids in the services table
  rows,       \* rows[h]: the row of domains for h, or NoRow
  core,       \* core[s]: hosts in traefik/dynamic/<s>.yml here; {} is no file
  agent,      \* agent[s]: the same on the agent of a remote service
  panel,      \* panel.domain: proxy.platform_domain is set; panel.file: its router file
  certs,      \* hosts with a certificate in acme.json
  up,         \* the Traefik container runs
  settings,   \* proxy.enabled, proxy.traefik_version, proxy.traefik_version_previous
  lock,       \* who holds TRAEFIK_DEPLOY_LOCK
  act,        \* act[a]: a request, the boot task or the watchdog: its step and locals
  dog,        \* the watchdog's down_streak and whether it backs off
  calm,       \* history: calm[s]: the last write of s's file was alone and succeeded
  young,      \* history: hosts whose row was inserted since a keep list in use was read
  events

vars == <<services, rows, core, agent, panel, certs, up, settings, lock, act, dog, calm, young, events>>
routing == <<services, rows, core, agent, panel, calm, young>>
traefik == <<certs, up, settings, lock, dog>>

Versions == {Default, Latest}
Actors == Requests \cup {BootTask, Watchdog}

\* domains: target is the compose service the host leads to; "gone" has no port.
Targets == {"web", "gone"}
Row == [id : Requests \cup {NONE}, svc : Services, active : BOOLEAN, generated : BOOLEAN, target : Targets]
NoRow == [svc |-> NONE]

Idle == [op |-> "none", pc |-> "new", svc |-> NONE, host |-> NONE, row |-> NONE, target |-> "web",
         node |-> "core", hosts |-> {}, alone |-> TRUE, version |-> NONE, back |-> NONE, keep |-> NONE]

\* A service with a live domain, a draft or none, certificates of every routed host and of
\* one that was removed, and a proxy that runs.
Init ==
  \E live \in BOOLEAN, s \in Services :
    LET h == CHOOSE x \in Hosts : TRUE
        file == IF live THEN {h} ELSE {} IN
    /\ services = Services
    /\ rows = [x \in Hosts |-> IF x = h THEN [id |-> NONE, svc |-> s, active |-> live, generated |-> FALSE, target |-> "web"]
                               ELSE NoRow]
    /\ core = [x \in Services |-> IF x = s /\ s \notin Remote THEN file ELSE {}]
    /\ agent = [x \in Services |-> IF x = s /\ s \in Remote THEN file ELSE {}]
    /\ panel = [domain |-> TRUE, file |-> TRUE]
    /\ certs = Hosts \cup {Panel}
    /\ up = TRUE
    /\ settings = [enabled |-> TRUE, version |-> Default, previous |-> NONE]
    /\ lock = NONE
    /\ act = [a \in Actors |-> IF a = Watchdog THEN [Idle EXCEPT !.pc = "sleep"] ELSE Idle]
    /\ dog = [streak |-> 0, backoff |-> FALSE]
    /\ calm = [x \in Services |-> TRUE]
    /\ young = {}
    /\ events = 0

-----------------------------------------------------------------------------
Active(a) == act[a].pc \notin {"new", "done", "sleep"}
Goto(a, pc) == act' = [act EXCEPT ![a].pc = pc]
End(a) == act' = [act EXCEPT ![a] = [Idle EXCEPT !.pc = "done"]]
Fault == events < MaxEvents /\ events' = events + 1
Fine == UNCHANGED events

\* A request about service s arrives: whoever works on s is not alone any more.
Arrives(r, op, s, local) ==
  /\ act[r].pc = "new" /\ op \in Ops
  /\ act' = [a \in Actors |->
       IF a = r THEN [local EXCEPT !.op = op, !.svc = s,
                                   !.alone = \A q \in Requests \ {r} : ~(Active(q) /\ act[q].svc = s)]
       ELSE IF Active(a) /\ s # NONE /\ act[a].svc = s THEN [act[a] EXCEPT !.alone = FALSE] ELSE act[a]]

\* The row that request r read is still there.
SameRow(r) == rows[act[r].host] # NoRow /\ rows[act[r].host].id = act[r].row

\* The request ends; the router file of its service is known to be right or not.
Settle(r, ok) ==
  /\ End(r)
  /\ calm' = [calm EXCEPT ![act[r].svc] = ok /\ act[r].alone]

-----------------------------------------------------------------------------
(* api/domains.rs: from rows to router files                               *)

RowsOf(s) == {h \in Hosts : rows[h] # NoRow /\ rows[h].svc = s}

\* The container port of a target is found in port_allocations, or it is refused.
build_target_url(s, target) == s \in services /\ target # "gone"

\* Mutant of ActiveHosts: drafts are routed too.
DraftsToo(s) == RowsOf(s)
ActiveHosts(s) == {h \in RowsOf(s) : rows[h].active}

\* build_domain_targets: one target that cannot be resolved fails them all.
Resolves(s) == \A h \in ActiveHosts(s) : build_target_url(s, rows[h].target)

\* service_server; a service that is gone counts as local.
service_server(s) == IF s \in services \cap Remote THEN "agent" ELSE "core"

\* activate and the deploy pipeline write the core's file wherever the service runs;
\* the others go through regenerate_for_service_routed.
NodeFor(r) == IF act[r].op \in {"activate", "deploy"} THEN "core" ELSE service_server(act[r].svc)

\* build_domain_targets, under the database lock.
ReadTargets(r, node) ==
  /\ IF Resolves(act[r].svc)
     THEN /\ act' = [act EXCEPT ![r].hosts = ActiveHosts(act[r].svc), ![r].node = node, ![r].pc = "file"]
          /\ UNCHANGED calm
     ELSE Settle(r, FALSE)
  /\ Fine /\ UNCHANGED <<services, rows, core, agent, panel, young, traefik>>

\* regenerate_for_service.
RegenerateHere(r) ==
  /\ act[r].pc = "regenerate" /\ NodeFor(r) = "core"
  /\ ReadTargets(r, "core")

\* ensure_agent_traefik: the static config, the directory and the stack of the agent.
ReachAgent(r) ==
  /\ act[r].pc = "regenerate" /\ NodeFor(r) = "agent"
  /\ \/ Fine /\ Goto(r, "targets") /\ UNCHANGED calm
     \/ Fault /\ Settle(r, FALSE)
  /\ UNCHANGED <<services, rows, core, agent, panel, young, traefik>>
TargetsForAgent(r) == act[r].pc = "targets" /\ ReadTargets(r, "agent")

\* regenerate_service_config_multi: no target removes the file.
WriteFile(r) ==
  LET s == act[r].svc IN
  /\ act[r].pc = "file" /\ act[r].node = "core"
  /\ core' = [core EXCEPT ![s] = act[r].hosts]
  /\ Settle(r, TRUE)
  /\ Fine /\ UNCHANGED <<services, rows, agent, panel, young, traefik>>

\* The agent's write_file; no hosts delete the file.
write_file(s, hosts) == [agent EXCEPT ![s] = hosts]

\* agent_file_op; a lost answer leaves the file written or not.
PushFile(r) ==
  LET s == act[r].svc IN
  /\ act[r].pc = "file" /\ act[r].node = "agent"
  /\ \/ Fine /\ agent' = write_file(s, act[r].hosts) /\ Settle(r, TRUE)
     \/ Fault /\ agent' \in {agent, write_file(s, act[r].hosts)} /\ Settle(r, FALSE)
  /\ UNCHANGED <<services, rows, core, panel, young, traefik>>

-----------------------------------------------------------------------------
(* api/domains.rs: the handlers                                            *)

\* create: the service must exist and the target resolve; then a draft is inserted.
Create(r) ==
  \E h \in Hosts, s \in services, t \in Targets :
    /\ build_target_url(s, t)
    /\ Arrives(r, "create", s, [Idle EXCEPT !.pc = "insert", !.host = h, !.target = t])
    /\ Fine /\ UNCHANGED <<routing, traefik>>
NewRow(r, active, generated) ==
  [id |-> r, svc |-> act[r].svc, active |-> active, generated |-> generated, target |-> act[r].target]
InsertDraft(r) ==
  /\ act[r].pc = "insert" /\ act[r].op = "create"
  /\ IF rows[act[r].host] = NoRow /\ act[r].svc \in services
     THEN /\ rows' = [rows EXCEPT ![act[r].host] = NewRow(r, FALSE, FALSE)]
          /\ young' = young \cup {act[r].host}
     ELSE UNCHANGED <<rows, young>>
  /\ End(r) /\ Fine /\ UNCHANGED <<services, core, agent, panel, calm, traefik>>

\* create_service_domain: one generated host a service, live at once.
Generate(r) ==
  \E s \in services, h \in Hosts :
    /\ settings.enabled
    /\ Arrives(r, "generate", s, [Idle EXCEPT !.pc = "insert", !.host = h])
    /\ Fine /\ UNCHANGED <<routing, traefik>>
InsertGenerated(r) ==
  LET s == act[r].svc
      h == act[r].host IN
  /\ act[r].pc = "insert" /\ act[r].op = "generate"
  /\ IF (\E x \in RowsOf(s) : rows[x].generated) \/ rows[h] # NoRow \/ s \notin services
     THEN End(r) /\ UNCHANGED <<rows, young, calm>>
     ELSE /\ rows' = [rows EXCEPT ![h] = NewRow(r, TRUE, TRUE)]
          /\ young' = young \cup {h}
          /\ Goto(r, "regenerate") /\ UNCHANGED calm
  /\ Fine /\ UNCHANGED <<services, core, agent, panel, traefik>>

\* The row is read, and the role on its service checked, before anything is written.
ReadRow(r, op) ==
  \E h \in Hosts, t \in Targets :
    /\ rows[h] # NoRow /\ (op # "update" => t = "web")
    /\ Arrives(r, op, rows[h].svc, [Idle EXCEPT !.pc = "write", !.host = h, !.row = rows[h].id, !.target = t,
                                                !.hosts = IF rows[h].active THEN {h} ELSE {}])
    /\ Fine /\ UNCHANGED <<routing, traefik>>

\* update: the new target is not resolved first; the file follows only if the row that
\* was read was live.
UpdateRow(r) ==
  LET h == act[r].host IN
  /\ act[r].pc = "write" /\ act[r].op = "update"
  /\ rows' = IF SameRow(r) THEN [rows EXCEPT ![h].target = act[r].target] ELSE rows
  /\ IF act[r].hosts # {} THEN Goto(r, "regenerate") ELSE End(r)
  /\ Fine /\ UNCHANGED <<services, core, agent, panel, calm, young, traefik>>

\* activate and deactivate.
SwitchRow(r, op, on) ==
  LET h == act[r].host IN
  /\ act[r].pc = "write" /\ act[r].op = op
  /\ rows' = IF SameRow(r) THEN [rows EXCEPT ![h].active = on] ELSE rows
  /\ Goto(r, "regenerate")
  /\ Fine /\ UNCHANGED <<services, core, agent, panel, calm, young, traefik>>

\* remove: the row is looked up again and deleted.
DeleteRow(r) ==
  LET h == act[r].host IN
  /\ act[r].pc = "write" /\ act[r].op = "remove"
  /\ IF SameRow(r) THEN rows' = [rows EXCEPT ![h] = NoRow] /\ Goto(r, "regenerate")
                   ELSE End(r) /\ UNCHANGED rows
  /\ Fine /\ UNCHANGED <<services, core, agent, panel, calm, young, traefik>>

-----------------------------------------------------------------------------
(* Other writers of router files                                           *)

\* The deploy pipeline regenerates the core's file when a deploy ends; errors are logged.
Deployed(r) ==
  \E s \in services :
    /\ Arrives(r, "deploy", s, [Idle EXCEPT !.pc = "regenerate"])
    /\ Fine /\ UNCHANGED <<routing, traefik>>

\* load_balance, once its replicas are deployed: every domain of the service is routed to
\* the replicas, and no domain leaves the file alone.
LoadBalance(r) ==
  \E s \in services :
    /\ Arrives(r, "balance", s, [Idle EXCEPT !.pc = "domains"])
    /\ Fine /\ UNCHANGED <<routing, traefik>>
BalancedDomains(r) ==
  LET s == act[r].svc IN
  /\ act[r].pc = "domains"
  /\ IF RowsOf(s) = {} THEN End(r)
     ELSE act' = [act EXCEPT ![r].hosts = RowsOf(s), ![r].pc = "balanced"]
  /\ Fine /\ UNCHANGED <<routing, traefik>>
\* One router for all domains and replicas; without a domain the file goes.
regenerate_service_config_lb(s, hosts) == [core EXCEPT ![s] = hosts]
WriteBalanced(r) ==
  /\ act[r].pc = "balanced"
  /\ core' = regenerate_service_config_lb(act[r].svc, act[r].hosts)
  /\ Settle(r, FALSE)
  /\ Fine /\ UNCHANGED <<services, rows, agent, panel, young, traefik>>

\* set_port_public with cascade_delete_domains: the rows, then the core's file.
CascadeDelete(r) ==
  \E s \in services :
    /\ RowsOf(s) # {}
    /\ Arrives(r, "cascade", s, [Idle EXCEPT !.pc = "file"])
    /\ rows' = [h \in Hosts |-> IF h \in RowsOf(s) THEN NoRow ELSE rows[h]]
    /\ Fine /\ UNCHANGED <<services, core, agent, panel, calm, young, traefik>>

\* resources::remove: the agent's file goes with its stack when the agent answers.
RemoveService(r) ==
  \E s \in services :
    /\ Arrives(r, "remove_service", s, [Idle EXCEPT !.pc = "forget"])
    /\ IF s \in Remote
       THEN \/ Fine /\ agent' = [agent EXCEPT ![s] = {}]
            \/ Fault /\ UNCHANGED agent
       ELSE Fine /\ UNCHANGED agent
    /\ UNCHANGED <<services, rows, core, panel, calm, young, traefik>>
\* compose::remove drops the router file before it takes the stack down.
RemoveStack(r) ==
  \E s \in services \ Remote :
    /\ Arrives(r, "remove_stack", s, [Idle EXCEPT !.pc = "forget"])
    /\ core' = [core EXCEPT ![s] = {}]
    /\ Fine /\ UNCHANGED <<services, rows, agent, panel, calm, young, traefik>>
\* Under one lock: the file of a local service, its domains, the service.
Forget(r) ==
  LET s == act[r].svc IN
  /\ act[r].pc = "forget"
  /\ core' = IF act[r].op = "remove_service" /\ s \notin Remote THEN [core EXCEPT ![s] = {}] ELSE core
  /\ rows' = [h \in Hosts |-> IF h \in RowsOf(s) THEN NoRow ELSE rows[h]]
  /\ services' = services \ {s}
  /\ Settle(r, FALSE) /\ Fine /\ UNCHANGED <<agent, panel, young, traefik>>

\* Router files whose service is not in the table are deleted.
remove_orphan_service_configs(files) == [s \in Services |-> IF s \in services THEN files[s] ELSE {}]

\* The sweep before each round of DNS checks.
Sweep ==
  /\ core # remove_orphan_service_configs(core)
  /\ core' = remove_orphan_service_configs(core)
  /\ Fine /\ UNCHANGED <<services, rows, agent, panel, calm, young, act, traefik>>

-----------------------------------------------------------------------------
(* proxy/mod.rs, proxy/acme_gc.rs: replacing the Traefik container          *)

\* Mutant of domain_hosts: deactivated domains lose their certificate.
LiveHosts == IF \A h \in Hosts : rows[h] = NoRow THEN NONE
             ELSE {h \in Hosts : rows[h] # NoRow /\ rows[h].active} \cup IF panel.domain THEN {Panel} ELSE {}
\* domain_hosts: every row, live or not, and the panel; no row at all is no list.
domain_hosts == IF \A h \in Hosts : rows[h] = NoRow THEN NONE
                ELSE {h \in Hosts : rows[h] # NoRow} \cup IF panel.domain THEN {Panel} ELSE {}
routed_hosts == (UNION {core[s] : s \in Services}) \cup IF panel.file THEN {Panel} ELSE {}
prune_certificates(keep) == IF keep = NONE THEN certs ELSE certs \cap (keep \cup routed_hosts)

\* redeploy_from_settings: under the database lock, orphans go and the keep list is read.
Redeploy(a, version, back) ==
  /\ core' = remove_orphan_service_configs(core)
  /\ young' = IF \E b \in Actors \ {a} : act[b].pc \in {"lock", "pull", "swap"} THEN young ELSE {}
  /\ act' = [act EXCEPT ![a].pc = "lock", ![a].version = version, ![a].back = back, ![a].keep = domain_hosts]
  /\ UNCHANGED <<services, rows, agent, panel, calm>>

\* deploy_traefik_inner from here to Start: one holder of the lock at a time.
TakeLock(a) ==
  /\ act[a].pc = "lock" /\ lock = NONE
  /\ lock' = a /\ Goto(a, "pull")
  /\ Fine /\ UNCHANGED <<routing, certs, up, settings, dog>>

\* The static config, the network and the image; pulling can take minutes.
Pull(a) ==
  /\ act[a].pc = "pull"
  /\ \/ Fine /\ Goto(a, "swap") /\ UNCHANGED lock
     \/ Fault /\ Goto(a, "failed") /\ lock' = NONE
  /\ UNCHANGED <<routing, certs, up, settings, dog>>

\* The old container goes, and acme.json is pruned while nobody holds it in memory.
Swap(a) ==
  /\ act[a].pc = "swap"
  /\ up' = FALSE /\ certs' = prune_certificates(act[a].keep)
  /\ Goto(a, "start")
  /\ Fine /\ UNCHANGED <<routing, settings, lock, dog>>

\* create, start and the look at it three seconds later.
Start(a) ==
  /\ act[a].pc = "start" /\ lock' = NONE
  /\ \/ Fine /\ up' = (act[a].version \notin Broken)
        /\ Goto(a, IF act[a].version \in Broken THEN "failed" ELSE "deployed")
     \/ Fault /\ UNCHANGED up /\ Goto(a, "failed")
  /\ UNCHANGED <<routing, certs, settings, dog>>

-----------------------------------------------------------------------------
(* api/proxy.rs                                                            *)

Enable(r) ==
  /\ Arrives(r, "enable", NONE, [Idle EXCEPT !.pc = "begin", !.version = settings.version])
  /\ Fine /\ UNCHANGED <<routing, traefik>>
\* update_settings with another ACME contact: the redeploy is a task of its own.
ChangeContact(r) ==
  /\ Arrives(r, "contact", NONE, [Idle EXCEPT !.pc = "begin", !.version = settings.version])
  /\ Fine /\ UNCHANGED <<routing, traefik>>
Begin(r) ==
  /\ act[r].pc = "begin" /\ act[r].op \in {"enable", "contact"}
  /\ Redeploy(r, act[r].version, NONE) /\ Fine /\ UNCHANGED traefik
FinishEnable(r) ==
  /\ act[r].pc \in {"deployed", "failed"} /\ act[r].op \in {"enable", "contact"}
  /\ settings' = IF act[r].pc = "deployed" /\ act[r].op = "enable" THEN [settings EXCEPT !.enabled = TRUE] ELSE settings
  /\ End(r) /\ Fine /\ UNCHANGED <<routing, certs, up, lock, dog>>

\* update_settings with a platform domain, or with an empty one.
SetPlatformDomain(r) ==
  /\ Arrives(r, "platform", NONE, [Idle EXCEPT !.pc = "router"])
  /\ \E on \in BOOLEAN : panel' = [panel EXCEPT !.domain = on]
  /\ Fine /\ UNCHANGED <<services, rows, core, agent, calm, young, traefik>>
WritePlatformRouter(r) ==
  /\ act[r].pc = "router"
  /\ panel' = [panel EXCEPT !.file = panel.domain]
  /\ End(r) /\ Fine /\ UNCHANGED <<services, rows, core, agent, calm, young, traefik>>

\* disable: stop_traefik under the lock, and then the setting.
Disable(r) ==
  /\ Arrives(r, "disable", NONE, [Idle EXCEPT !.pc = "wait"])
  /\ Fine /\ UNCHANGED <<routing, traefik>>
\* Mutant of MayStop: the container is removed without the deploy lock.
StopAnyway == TRUE
MayStop == lock = NONE
StopTraefik(r) ==
  /\ act[r].pc = "wait" /\ MayStop
  /\ lock' = r /\ Goto(r, "stop")
  /\ Fine /\ UNCHANGED <<routing, certs, up, settings, dog>>
Stopped(r) ==
  /\ act[r].pc = "stop"
  /\ up' = FALSE /\ lock' = NONE /\ Goto(r, "disabled")
  /\ Fine /\ UNCHANGED <<routing, certs, settings, dog>>
FinishDisable(r) ==
  /\ act[r].pc = "disabled"
  /\ settings' = [settings EXCEPT !.enabled = FALSE]
  /\ End(r) /\ Fine /\ UNCHANGED <<routing, certs, up, lock, dog>>

\* run_update: the version that is configured becomes the previous one.
Update(r) ==
  /\ Arrives(r, "upgrade", NONE, [Idle EXCEPT !.pc = "begin", !.version = Latest, !.back = settings.version])
  /\ settings' = [settings EXCEPT !.previous = settings.version, !.version = Latest]
  /\ Fine /\ UNCHANGED <<routing, certs, up, lock, dog>>
UpdateDeploys(r) ==
  /\ act[r].pc = "begin" /\ act[r].op = "upgrade"
  /\ Redeploy(r, act[r].version, act[r].back) /\ Fine /\ UNCHANGED traefik
\* The new version failed: the setting goes back, and the version read at the start is
\* deployed, once.
UpdateRollsBack(r) ==
  /\ act[r].pc = "failed" /\ act[r].op = "upgrade" /\ act[r].back # NONE
  /\ settings' = [settings EXCEPT !.version = act[r].back]
  /\ act' = [act EXCEPT ![r].pc = "begin", ![r].version = act[r].back, ![r].back = NONE]
  /\ Fine /\ UNCHANGED <<routing, certs, up, lock, dog>>
FinishUpdate(r) ==
  /\ act[r].op = "upgrade"
  /\ act[r].pc = "deployed" \/ (act[r].pc = "failed" /\ act[r].back = NONE)
  /\ End(r) /\ Fine /\ UNCHANGED <<routing, traefik>>

-----------------------------------------------------------------------------
(* proxy/watchdog.rs                                                       *)

DownChecksBeforeHeal == 2
WatchdogIs(pc) == act[Watchdog].pc = pc /\ act[Watchdog].op = "none"

\* Every 30 seconds, unless the proxy is disabled or a deploy holds the lock. A check that
\* is sure to find the proxy up again changes nothing and is left out.
Check ==
  /\ WatchdogIs("sleep")
  /\ ~up \/ dog.streak # 0 \/ \E a \in Actors : act[a].pc \in {"lock", "pull", "swap", "wait", "stop"}
  /\ IF settings.enabled /\ lock = NONE
     THEN Goto(Watchdog, "status") /\ UNCHANGED dog
     ELSE dog.streak # 0 /\ dog' = [dog EXCEPT !.streak = 0] /\ UNCHANGED act
  /\ Fine /\ UNCHANGED <<routing, certs, up, settings, lock>>
should_heal(streak) == streak >= DownChecksBeforeHeal /\ ~dog.backoff
Observe ==
  LET seen == IF up THEN 0 ELSE IF dog.streak < DownChecksBeforeHeal THEN dog.streak + 1 ELSE dog.streak IN
  /\ WatchdogIs("status")
  /\ dog' = [dog EXCEPT !.streak = seen]
  /\ Goto(Watchdog, IF should_heal(seen) THEN "heal" ELSE "sleep")
  /\ Fine /\ UNCHANGED <<routing, certs, up, settings, lock>>

\* heal reads both versions and deploys the configured one.
Heal ==
  /\ WatchdogIs("heal")
  /\ act' = [act EXCEPT ![Watchdog].pc = "begin", ![Watchdog].op = "heal",
                        ![Watchdog].version = settings.version, ![Watchdog].back = settings.previous]
  /\ Fine /\ UNCHANGED <<routing, traefik>>
HealDeploys ==
  /\ act[Watchdog].pc = "begin"
  /\ Redeploy(Watchdog, act[Watchdog].version, act[Watchdog].back) /\ Fine /\ UNCHANGED traefik

\* The version to try next: the previous one, if it is another.
Fallback == IF act[Watchdog].back = act[Watchdog].version THEN NONE ELSE act[Watchdog].back
HealFallsBack ==
  /\ act[Watchdog].pc = "failed" /\ act[Watchdog].op = "heal" /\ Fallback # NONE
  /\ act' = [act EXCEPT ![Watchdog].pc = "begin", ![Watchdog].op = "fallback",
                        ![Watchdog].version = Fallback, ![Watchdog].back = NONE]
  /\ Fine /\ UNCHANGED <<routing, traefik>>
Rest == act' = [act EXCEPT ![Watchdog] = [Idle EXCEPT !.pc = "sleep"]]
HealGivesUp ==
  /\ act[Watchdog].pc = "failed" /\ (act[Watchdog].op = "fallback" \/ Fallback = NONE)
  /\ dog' = [dog EXCEPT !.backoff = TRUE] /\ Rest
  /\ Fine /\ UNCHANGED <<routing, certs, up, settings, lock>>
\* The version that was fallen back to becomes the configured one.
Healed ==
  /\ act[Watchdog].pc = "deployed"
  /\ settings' = IF act[Watchdog].op = "fallback" THEN [settings EXCEPT !.version = act[Watchdog].version] ELSE settings
  /\ dog' = [dog EXCEPT !.streak = 0] /\ Rest
  /\ Fine /\ UNCHANGED <<routing, certs, up, lock>>
BackoffElapses ==
  /\ dog.backoff /\ dog' = [dog EXCEPT !.backoff = FALSE]
  /\ Fine /\ UNCHANGED <<routing, certs, up, settings, lock, act>>

-----------------------------------------------------------------------------
(* The start of Pier, and what Traefik does by itself                       *)

\* Pier ends: requests, tasks and the lock are gone; files, rows and containers stay. The
\* next process reads the version and the platform domain before it serves anybody.
Crash ==
  /\ Fault
  /\ act' = [a \in Actors |-> IF a = BootTask THEN [Idle EXCEPT !.pc = "begin", !.op = "boot", !.version = settings.version,
                                                               !.hosts = IF panel.domain THEN {Panel} ELSE {}]
                              ELSE IF a = Watchdog THEN Idle
                              ELSE IF Active(a) THEN [Idle EXCEPT !.pc = "done"] ELSE act[a]]
  /\ calm' = [s \in Services |-> calm[s] /\ \A r \in Requests : ~(Active(r) /\ act[r].svc = s)]
  /\ lock' = NONE /\ dog' = [streak |-> 0, backoff |-> FALSE]
  /\ UNCHANGED <<services, rows, core, agent, panel, young, certs, up, settings>>

\* The proxy is started whatever proxy.enabled says.
BootDeploys ==
  /\ act[BootTask].pc = "begin"
  /\ Redeploy(BootTask, act[BootTask].version, NONE) /\ Fine /\ UNCHANGED traefik
\* The watchdog is started after the deploy, whether it worked or not.
BootDone ==
  LET ok == act[BootTask].pc = "deployed" IN
  /\ act[BootTask].pc \in {"deployed", "failed"}
  /\ settings' = IF ok THEN [settings EXCEPT !.enabled = TRUE] ELSE settings
  /\ panel' = IF ok /\ act[BootTask].hosts # {} THEN [panel EXCEPT !.file = TRUE] ELSE panel
  /\ act' = [act EXCEPT ![BootTask] = Idle, ![Watchdog] = [Idle EXCEPT !.pc = "sleep"]]
  /\ Fine /\ UNCHANGED <<services, rows, core, agent, calm, young, certs, up, lock, dog>>

\* A running Traefik gets certificates for the hosts it routes and that lead here.
Issue ==
  \E h \in routed_hosts \ certs :
    /\ up /\ (h # Panel => \E s \in Services \ Remote : h \in core[s])
    /\ certs' = certs \cup {h}
    /\ Fine /\ UNCHANGED <<routing, up, settings, lock, act, dog>>
\* Somebody stops the container; "unless-stopped" does not bring it back.
StrayStop ==
  /\ Fault /\ up /\ up' = FALSE
  /\ UNCHANGED <<routing, certs, settings, lock, act, dog>>

-----------------------------------------------------------------------------
RequestArrives(r) ==
  \/ Create(r) \/ Generate(r) \/ \E op \in {"update", "activate", "deactivate", "remove"} : ReadRow(r, op)
  \/ Deployed(r) \/ LoadBalance(r) \/ CascadeDelete(r) \/ RemoveService(r) \/ RemoveStack(r)
  \/ Enable(r) \/ ChangeContact(r) \/ SetPlatformDomain(r) \/ Disable(r) \/ Update(r)
RequestStep(r) ==
  \/ RegenerateHere(r) \/ ReachAgent(r) \/ TargetsForAgent(r) \/ WriteFile(r) \/ PushFile(r)
  \/ InsertDraft(r) \/ InsertGenerated(r) \/ UpdateRow(r) \/ DeleteRow(r)
  \/ SwitchRow(r, "activate", TRUE) \/ SwitchRow(r, "deactivate", FALSE)
  \/ BalancedDomains(r) \/ WriteBalanced(r) \/ Forget(r)
  \/ Begin(r) \/ FinishEnable(r) \/ WritePlatformRouter(r)
  \/ StopTraefik(r) \/ Stopped(r) \/ FinishDisable(r)
  \/ UpdateDeploys(r) \/ UpdateRollsBack(r) \/ FinishUpdate(r)
DeployStep(a) == TakeLock(a) \/ Pull(a) \/ Swap(a) \/ Start(a)
WatchdogStep == Check \/ Observe \/ Heal \/ HealDeploys \/ HealFallsBack \/ HealGivesUp \/ Healed
BootStep == BootDeploys \/ BootDone

Next ==
  \/ \E r \in Requests : RequestArrives(r) \/ RequestStep(r)
  \/ \E a \in Actors : DeployStep(a)
  \/ WatchdogStep \/ BackoffElapses \/ BootStep
  \/ Sweep \/ Issue \/ StrayStop \/ Crash

Spec == Init /\ [][Next]_vars

-----------------------------------------------------------------------------
Critical == {"pull", "swap", "start", "stop"}

\* Types, and the deploy lock: whoever replaces or removes the container holds it, and
\* nobody else does (TRAEFIK_DEPLOY_LOCK in proxy/mod.rs).
ProxyTypeOK ==
  /\ services \subseteq Services
  /\ \A h \in Hosts : rows[h] = NoRow \/ rows[h] \in Row
  /\ core \in [Services -> SUBSET Hosts] /\ agent \in [Services -> SUBSET Hosts]
  /\ panel \in [domain : BOOLEAN, file : BOOLEAN]
  /\ certs \subseteq Hosts \cup {Panel} /\ up \in BOOLEAN
  /\ settings \in [enabled : BOOLEAN, version : Versions, previous : Versions \cup {NONE}]
  /\ dog \in [streak : 0..DownChecksBeforeHeal, backoff : BOOLEAN]
  /\ \A a \in Actors : act[a].pc \in Critical <=> lock = a

\* When the last request that wrote the router file of a local service was alone and did
\* not fail, the file routes exactly the live domains: drafts and deactivated domains have
\* no route, whatever edits, deploys, sweeps and restarts came before
\* (build_domain_targets, regenerate_service_config_multi).
RoutesFollowRows ==
  \A s \in services \ Remote :
    calm[s] /\ (\A r \in Requests : Active(r) => act[r].svc # s)
    => core[s] = {h \in Hosts : rows[h] # NoRow /\ rows[h].svc = s /\ rows[h].active}

\* A redeploy of Traefik drops no certificate of a host that has a row, live or not, nor
\* the panel's, although its keep list was read long before; only a row inserted since
\* then can miss it (acme_gc::domain_hosts, deploy_traefik_inner).
KnownHostsKeepCertificates ==
  [][\A h \in certs \ certs' :
       /\ h \in Hosts => rows[h] = NoRow \/ (h \in young /\ h \notin routed_hosts)
       /\ h = Panel => ~panel.file]_vars
=============================================================================
