------------------------------- MODULE Ports -------------------------------
(* The ports of services: the rows of port_allocations, the containers and    *)
(* what they publish on the host, and the stored compose files. The public    *)
(* switch re-creates containers, the background sync copies Docker's bindings  *)
(* into the rows, and a redeploy brings the stack up from the rows.           *)
(*                                                                          *)
(* Every container of a stack has one container port, and a container stands  *)
(* for it: rows[k] is the row of that port. A handler is a step per lock and  *)
(* per call to Docker.                                                       *)
EXTENDS Integers, FiniteSets, FiniteSetsExt

CONSTANTS
  Stacks,       \* the services, each the set of its containers
  Calls,        \* the requests; each is used once
  Ops,          \* those a run lets happen
  PortNumbers,  \* the ports of the host
  PoolStart, PoolEnd,   \* the range ports are handed out from
  Standard,     \* Standard[k]: the container port of k
  Hosts,        \* Hosts[k]: the host port that a first deploy gave k
  NULL,
  NOFILE,       \* the service has no compose_content
  MaxEvents     \* bound: Docker calls that fail, ports that leak

Containers == UNION Stacks

ASSUME PortsConstants ==
  /\ IsFiniteSet(Stacks) /\ \A s, t \in Stacks : s # t => s \cap t = {}
  /\ \A s \in Stacks : s # {} /\ IsFiniteSet(s)
  /\ PortNumbers \subseteq Nat /\ PoolStart \in Nat /\ PoolEnd \in Nat /\ MaxEvents \in Nat
  /\ PoolStart .. PoolEnd \subseteq PortNumbers /\ {PoolStart, PoolEnd} \subseteq PortNumbers
  /\ Standard \in [Containers -> Nat]
  /\ Hosts \in [Containers -> PortNumbers \ {PoolEnd}] /\ \A j, k \in Containers : j # k => Hosts[j] # Hosts[k]
  /\ {NULL, NOFILE} \cap (PortNumbers \cup Calls) = {} /\ NULL # NOFILE

VARIABLES
  rows,     \* rows[k]: the row of port_allocations of container k, or NULL
  cont,     \* cont[k]: the container, or NULL
  yaml,     \* yaml[k]: the `ports:` line of k in services.compose_content, NULL or NOFILE
  status,   \* status[s]: services.status, or "absent" when there is no service
  foreign,  \* ports held by a process outside Pier, or by a docker-proxy that leaked
  req,      \* req[r]: a request, its step and local variables
  settled,  \* history: settled[s]: what last brought rows and containers of s together
  events

portVars == <<rows, cont, yaml, status, foreign, req, settled, events>>

StackOf(k) == CHOOSE s \in Stacks : k \in s
Single(s) == Cardinality(s) = 1

\* port_allocations: host_port is unique; tagged says that compose_service is set.
PortRow == [host : PortNumbers, pub : BOOLEAN, pport : PortNumbers \cup {NULL}, tagged : BOOLEAN]

\* A published port: the container port of `of`, on every address or on 127.0.0.1.
Binding == [of : Containers, any : BOOLEAN, port : PortNumbers]

\* The volume of a container is named by the request that made it.
EARLIER == "earlier"
Container == [binds : SUBSET Binding, vol : Calls \cup {EARLIER}, running : BOOLEAN]

\* A compose line "127.0.0.1:port:cp" or "0.0.0.0:port:cp".
Line == [any : BOOLEAN, port : PortNumbers]

\* What stands for an SQL NULL, a missing container or file is no value of theirs, and
\* EARLIER is no request.
ASSUME NullIsNoValue == NULL \notin PortRow \cup Container \cup Line /\ NOFILE \notin Line /\ EARLIER \notin Calls

NoCall == [op |-> "none", pc |-> "new", svc |-> {}, on |-> FALSE, ui |-> NULL, targets |-> {},
         snap |-> <<>>, seen |-> <<>>, upd |-> <<>>, alloc |-> <<>>, left |-> {}, cur |-> NULL,
         own |-> {}, was |-> {}, now |-> {}, binds |-> {}, vol |-> NULL, lines |-> <<>>, again |-> FALSE,
         alone |-> TRUE]
Done(r) == [NoCall EXCEPT !.pc = "done", !.op = req[r].op]

\* The ports that requests ask for.
Contested == {PoolStart, PoolEnd}

First(s) == CHOOSE k \in s : \A j \in s : Hosts[k] <= Hosts[j]
Lo(k) == [of |-> k, any |-> FALSE, port |-> Hosts[k]]

\* Deployed services, all private; or one port published besides its loopback line, as
\* the catalog emits it, which the row may not know of; or rows from before
\* compose_service; or a service that does not exist yet; or a port that a process outside
\* Pier holds.
PortsInit ==
  \E old \in {"private", "open", "untold", "untagged", "absent", "held"}, one \in Containers :
    LET p == PoolEnd
        open == IF old \in {"open", "untold"} THEN one ELSE NULL
        known == old = "open"
        tagged == old # "untagged"
        there == IF old = "absent" THEN Containers \ {one} ELSE Containers
    IN
    /\ one = First(StackOf(one)) /\ (old \in {"absent", "open"} => Single(StackOf(one)))
    /\ rows = [k \in Containers |-> IF k \notin there THEN NULL
                 ELSE [host |-> Hosts[k], pub |-> (k = open /\ known),
                       pport |-> IF k = open /\ known THEN p ELSE NULL,
                       tagged |-> (tagged /\ ~Single(StackOf(k)))]]
    /\ cont = [k \in Containers |-> IF k \notin there THEN NULL
                 ELSE [binds |-> {Lo(k)} \cup IF k = open THEN {[of |-> k, any |-> TRUE, port |-> p]} ELSE {},
                       vol |-> EARLIER, running |-> TRUE]]
    /\ yaml = [k \in Containers |-> IF k \notin there THEN NOFILE
                 ELSE [any |-> FALSE, port |-> Hosts[k]]]
    /\ status = [s \in Stacks |-> IF s \subseteq there THEN "running" ELSE "absent"]
    /\ foreign = IF old = "held" THEN {p} ELSE {}
    /\ req = [r \in Calls |-> NoCall]
    /\ settled = [s \in Stacks |-> "no"]
    /\ events = 0

-----------------------------------------------------------------------------
Active(r) == req[r].pc \notin {"new", "done"}
CallGoto(r, pc) == req' = [req EXCEPT ![r].pc = pc]
End(r) == req' = [req EXCEPT ![r] = Done(r)]

\* A request for s arrives: whoever works on s is not alone any more.
Arrives(r, op, s, local) ==
  /\ req[r].pc = "new" /\ op \in Ops
  /\ req' = [q \in Calls |->
       IF q = r THEN [local EXCEPT !.op = op, !.svc = s,
                                   !.alone = \A x \in Calls \ {r} : ~(Active(x) /\ req[x].svc = s)]
       ELSE IF Active(q) /\ req[q].svc = s THEN [req[q] EXCEPT !.alone = FALSE] ELSE req[q]]
  /\ settled' = [settled EXCEPT ![s] = "no"]

Fault == events < MaxEvents /\ events' = events + 1
Fine == UNCHANGED events

RowsOf(s) == {k \in s : rows[k] # NULL}
PortsOf(binds) == {b.port : b \in binds}

\* A port of the host is free for container k: nothing else listens on it.
FreeFor(k, p) ==
  /\ p \notin foreign
  /\ \A j \in Containers \ {k} : cont[j] # NULL /\ cont[j].running => p \notin PortsOf(cont[j].binds)
\* find_port_owner_id, and the bind probe.
Taken(p) == p \in foreign \/ \E k \in Containers : cont[k] # NULL /\ cont[k].running /\ p \in PortsOf(cont[k].binds)
Starts(k, binds) ==
  /\ \A b \in binds : FreeFor(k, b.port)
  /\ \A b, c \in binds : b.port = c.port => b = c

-----------------------------------------------------------------------------
(* db/ports.rs                                                             *)

UsedHosts(R) == {R[k].host : k \in {j \in Containers : R[j] # NULL}}

\* allocate_ports for the port of k, with the rows R: the port asked for, the standard one
\* unless only the pool will do, or the first free one of the pool. The empty set is its
\* refusal. The host probe overlooks the exempt ports.
allocate_ports(k, R, requested, pool_only, exempt) ==
  LET used(p) == p \in UsedHosts(R) \/ (Taken(p) /\ p \notin exempt) IN
  IF requested # NULL THEN {p \in {requested} : ~used(p)}
  ELSE IF ~pool_only /\ Standard[k] \in PortNumbers /\ ~used(Standard[k]) THEN {Standard[k]}
  ELSE LET pool == {p \in PoolStart .. PoolEnd - 1 : ~used(p)}
       IN {p \in pool : \A q \in pool : p <= q}

NewRow(p) == [host |-> p, pub |-> FALSE, pport |-> NULL, tagged |-> FALSE]

\* Mutant of free_ports: the rows stay.
KeepRows(s) == rows

free_ports(s) == [k \in Containers |-> IF k \in s THEN NULL ELSE rows[k]]

-----------------------------------------------------------------------------
(* docker/port_sync.rs                                                      *)

\* The container compute_sync_updates looks at for the row of k, among those seen.
MatchedContainer(s, k, seen) ==
  IF rows[k].tagged THEN {k} \cap DOMAIN seen
  ELSE IF Cardinality(DOMAIN seen) = 1 /\ \A j \in RowsOf(s) : ~rows[j].tagged THEN DOMAIN seen
  ELSE {}

\* Mutant of SyncBinding: the row's own binding wins, whatever else is published.
OwnBinding(k, binds) ==
  LET own == {b \in binds : b.port \in {rows[k].pport, rows[k].host}}
  IN IF own # {} THEN own ELSE binds

\* The binding a row is judged by: its own one, but before a private one any public one
\* that no other row claims.
SyncBinding(k, binds) ==
  LET own == {b \in binds : b.port \in {rows[k].pport, rows[k].host}}
      orphan == {b \in binds : b.any /\ \A j \in RowsOf(StackOf(k)) \ {k} : rows[j].host # b.port}
      public == {b \in binds : b.any}
  IN IF own # {} /\ orphan # {} THEN {b \in own : b.any} \cup (IF own \subseteq public THEN {} ELSE orphan)
     ELSE IF own # {} THEN own
     ELSE IF orphan # {} THEN orphan
     ELSE IF public # {} THEN public ELSE binds

\* The flag and the public port; a private row keeps the port once chosen.
Judged(k, b) == [pub |-> b.any, pport |-> IF b.any THEN b.port ELSE rows[k].pport]
NotPublished(k) == [pub |-> FALSE, pport |-> rows[k].pport]

compute_sync_updates(s, seen) ==
  LET known == {k \in RowsOf(s) : MatchedContainer(s, k, seen) # {}}
      binds(k) == {b \in UNION {seen[c] : c \in MatchedContainer(s, k, seen)} : b.of = k}
      found(k) == IF binds(k) = {} THEN {NotPublished(k)} ELSE {Judged(k, b) : b \in SyncBinding(k, binds(k))}
  IN {f \in [known -> UNION {found(k) : k \in known}] : \A k \in known : f[k] \in found(k)}

WithFlags(old, upd) ==
  [k \in Containers |-> IF k \in DOMAIN upd /\ old[k] # NULL
     THEN [old[k] EXCEPT !.pub = upd[k].pub, !.pport = upd[k].pport] ELSE old[k]]

\* What is read of the containers of s: inspect works on stopped ones too.
Bindings(s) == [k \in {j \in s : cont[j] # NULL} |-> cont[k].binds]

\* The background sync of a page that was opened.
Sync(r, s) ==
  /\ Bindings(s) # <<>>
  /\ Arrives(r, "sync", s, [NoCall EXCEPT !.pc = "compute", !.seen = Bindings(s)])
  /\ UNCHANGED <<rows, cont, yaml, status, foreign, events>>

SyncCompute(r) ==
  /\ req[r].pc = "compute"
  /\ \E upd \in compute_sync_updates(req[r].svc, req[r].seen) :
       req' = [req EXCEPT ![r].pc = "flags", ![r].seen = <<>>, ![r].upd = upd]
  /\ UNCHANGED <<rows, cont, yaml, status, foreign, settled, events>>

\* The rows are written as they were computed, whatever happened since.
SyncWrite(r) ==
  LET s == req[r].svc IN
  /\ req[r].pc = "flags"
  /\ rows' = WithFlags(rows, req[r].upd)
  /\ IF req[r].op = "toggle" THEN req' = [req EXCEPT ![r].pc = "target", ![r].upd = <<>>] ELSE End(r)
  /\ settled' = [settled EXCEPT ![s] = IF req[r].op = "sync" /\ req[r].alone THEN "sync" ELSE @]
  /\ UNCHANGED <<cont, yaml, status, foreign, events>>

-----------------------------------------------------------------------------
(* set_port_public, in api/resources.rs                                     *)

\* Every container of a stack has one port, so every row is the "primary" one.
compute_public_port(level, primary, row, ui) ==
  IF level /\ ~primary THEN IF row.pport # NULL THEN row.pport ELSE row.host
  ELSE IF ui # NULL THEN ui ELSE row.host

\* The switch is turned on or off for one port or for the whole service, after a sync
\* that may find nothing.
SetPortPublic(r, s, targets, on, ui) ==
  LET local == [NoCall EXCEPT !.targets = targets, !.on = on, !.ui = ui] IN
  /\ status[s] # "absent"
  /\ Arrives(r, "toggle", s, IF Bindings(s) = <<>> THEN [local EXCEPT !.pc = "target"]
                             ELSE [local EXCEPT !.pc = "compute", !.seen = Bindings(s)])
  /\ UNCHANGED <<rows, cont, yaml, status, foreign, events>>

\* The rows are read: the snapshot a failure goes back to, and what they are to become.
Target(r) ==
  LET q == req[r]
      there == q.targets \cap RowsOf(q.svc)
      want(k) == IF q.on THEN [pub |-> TRUE, pport |-> compute_public_port(q.targets = q.svc, TRUE, rows[k], q.ui)]
                 ELSE [pub |-> FALSE, pport |-> rows[k].pport]
  IN
  /\ q.pc = "target"
  /\ IF there = {} THEN End(r)
     ELSE req' = [req EXCEPT ![r].pc = IF q.on THEN "check" ELSE "flip", ![r].targets = there,
                             ![r].snap = [k \in there |-> rows[k]], ![r].upd = [k \in there |-> want(k)]]
  /\ UNCHANGED <<rows, cont, yaml, status, foreign, settled, events>>

\* No row but the targets may publish one of the ports.
Conflict(r) ==
  \E k \in req[r].targets, j \in Containers \ req[r].targets :
    rows[j] # NULL /\ rows[j].pub /\ rows[j].pport = req[r].upd[k].pport

CheckConflict(r) ==
  /\ req[r].pc = "check"
  /\ IF Conflict(r) THEN End(r) ELSE CallGoto(r, "flip")
  /\ UNCHANGED <<rows, cont, yaml, status, foreign, settled, events>>

\* Off leaves the public port in place.
Flip(r) ==
  /\ req[r].pc = "flip"
  /\ rows' = [k \in Containers |->
       IF k \notin req[r].targets \/ rows[k] = NULL THEN rows[k]
       ELSE IF req[r].on THEN [rows[k] EXCEPT !.pub = TRUE, !.pport = req[r].upd[k].pport]
       ELSE [rows[k] EXCEPT !.pub = FALSE]]
  /\ req' = [req EXCEPT ![r].pc = "read", ![r].upd = <<>>]
  /\ UNCHANGED <<cont, yaml, status, foreign, settled, events>>

-----------------------------------------------------------------------------
(* docker/recreate.rs: recreate_with_port_bindings                           *)

\* Two rows on two container ports that want one public port.
public_port_collision(alloc) ==
  \E j, k \in DOMAIN alloc : j # k /\ alloc[j].pub /\ alloc[k].pub /\ alloc[j].pport = alloc[k].pport

ReadRows(r) ==
  LET alloc == [k \in RowsOf(req[r].svc) |-> rows[k]] IN
  /\ req[r].pc = "read"
  /\ req' = [req EXCEPT ![r].pc = IF public_port_collision(alloc) THEN "rollback" ELSE "list", ![r].alloc = alloc]
  /\ UNCHANGED <<rows, cont, yaml, status, foreign, settled, events>>

\* The containers found by label, with their siblings. Without any, only the ports of
\* private rows are verified.
ListContainers(r) ==
  LET q == req[r]
      found == {k \in q.svc : cont[k] # NULL}
      private == {q.alloc[k].pport : k \in {j \in DOMAIN q.alloc : ~q.alloc[j].pub}} \ {NULL}
  IN
  /\ q.pc = "list"
  /\ req' = [req EXCEPT ![r].pc = IF found = {} THEN "verify" ELSE "inspect", ![r].left = found,
               ![r].own = UNION {PortsOf(cont[k].binds) : k \in {j \in found : cont[j].running}},
               ![r].was = IF found = {} THEN private ELSE {}]
  /\ UNCHANGED <<rows, cont, yaml, status, foreign, settled, events>>

\* Mutant of allocations_for_this_container: rows without a tag belong to no container.
StrictPartition(alloc, k) == {j \in DOMAIN alloc : alloc[j].tagged /\ j = k}

\* The rows of container k: its own ones, or every row of a stack without tags.
allocations_for_this_container(alloc, k) ==
  IF \A j \in DOMAIN alloc : ~alloc[j].tagged THEN DOMAIN alloc
  ELSE {j \in DOMAIN alloc : alloc[j].tagged /\ j = k}

\* The world for a public row, loopback otherwise.
build_port_bindings(alloc, ks) ==
  {[of |-> k, any |-> alloc[k].pub, port |-> IF alloc[k].pub THEN alloc[k].pport ELSE alloc[k].host] :
     k \in {j \in ks : alloc[j].pub => alloc[j].pport # NULL}}

\* A new public port must be free, unless a container that goes away holds it.
Preflight(r, k) ==
  LET q == req[r] IN
  \A j \in allocations_for_this_container(q.alloc, k) :
    LET p == q.alloc[j].pport IN
    q.alloc[j].pub /\ p # NULL /\ p \notin PortsOf(cont[k].binds) /\ (\A i \in DOMAIN q.alloc : q.alloc[i].host # p)
      => ~Taken(p) \/ p \in q.own

\* The next container is inspected; it may be gone.
Inspect(r) ==
  LET q == req[r] IN
  /\ q.pc = "inspect"
  /\ \E k \in q.left :
       LET new == build_port_bindings(q.alloc, allocations_for_this_container(q.alloc, k)) IN
       /\ \A j \in q.left : Hosts[k] <= Hosts[j]
       /\ req' = [req EXCEPT ![r] =
            IF cont[k] = NULL \/ ~Preflight(r, k) THEN [q EXCEPT !.pc = "rollback"]
            ELSE [q EXCEPT !.pc = "remove", !.cur = k, !.left = q.left \ {k}, !.vol = cont[k].vol,
                           !.was = q.was \cup PortsOf(cont[k].binds), !.now = q.now \cup PortsOf(new), !.binds = new]]
  /\ UNCHANGED <<rows, cont, yaml, status, foreign, settled, events>>

\* stop and remove, the volumes stay. A proxy may outlive its container.
StopRemove(r) ==
  LET k == req[r].cur IN
  /\ req[r].pc = "remove"
  /\ IF cont[k] = NULL THEN Fine /\ CallGoto(r, "rollback") /\ UNCHANGED <<cont, foreign>>
     ELSE \/ Fault /\ CallGoto(r, "rollback") /\ UNCHANGED <<cont, foreign>>
          \/ /\ cont' = [cont EXCEPT ![k] = NULL]
             /\ CallGoto(r, "create")
             /\ \/ Fine /\ UNCHANGED foreign
                \/ Fault /\ \E p \in PortsOf(cont[k].binds) : foreign' = foreign \cup {p}
  /\ UNCHANGED <<rows, yaml, status, settled>>

\* Mutant of preserve_volume_mounts: only the mounts of the host config.
HostConfigMounts(r) == r

\* Named and anonymous volumes of the old container are mounted in the new one.
preserve_volume_mounts(r) == req[r].vol

\* create, the old networks, start. The name may be taken again, the port too.
CreateStart(r) ==
  LET q == req[r]
      k == q.cur
      made(up) == [cont EXCEPT ![k] = [binds |-> q.binds, vol |-> preserve_volume_mounts(r), running |-> up]]
      next == [q EXCEPT !.pc = IF q.left = {} THEN "verify" ELSE "inspect", !.cur = NULL, !.vol = NULL, !.binds = {}]
      fails == [q EXCEPT !.pc = "rollback"]
  IN
  /\ q.pc = "create"
  /\ \/ cont[k] # NULL /\ Fine /\ req' = [req EXCEPT ![r] = fails] /\ UNCHANGED cont
     \/ cont[k] = NULL /\ Fault /\ req' = [req EXCEPT ![r] = fails] /\ cont' \in {cont, made(FALSE)}
     \/ /\ cont[k] = NULL /\ Fine
        /\ IF Starts(k, q.binds) THEN cont' = made(TRUE) /\ req' = [req EXCEPT ![r] = next]
           ELSE cont' = made(FALSE) /\ req' = [req EXCEPT ![r] = fails]
  /\ UNCHANGED <<rows, yaml, status, foreign, settled>>

\* What was published and is not any more must be closed.
verify_ports_released(r) == \A p \in req[r].was \ req[r].now : ~Taken(p)

Verify(r) ==
  /\ req[r].pc = "verify"
  /\ req' = [req EXCEPT ![r].pc = IF verify_ports_released(r) THEN "stored" ELSE "rollback",
                        ![r].snap = IF verify_ports_released(r) THEN <<>> ELSE @, ![r].ui = NULL, ![r].alloc = <<>>, ![r].own = {}, ![r].was = {}, ![r].now = {}]
  /\ UNCHANGED <<rows, cont, yaml, status, foreign, settled, events>>

-----------------------------------------------------------------------------
(* After the re-creation.                                                   *)

\* The row of k is written to its own service of the compose file. A row without a tag
\* has a place only when the file has one service.
inject_ports_into_yaml(s, lines, from) ==
  [k \in s |->
     IF k \in DOMAIN from /\ (from[k].tagged \/ Single(s))
     THEN IF ~from[k].pub THEN [any |-> FALSE, port |-> from[k].host]
          ELSE IF from[k].pport = NULL THEN NULL ELSE [any |-> TRUE, port |-> from[k].pport]
     ELSE lines[k]]

\* sync_compose_after_port_toggle: a lock for the file, a lock for the rows, a lock for
\* the result.
ReadCompose(r) ==
  /\ req[r].pc = "stored"
  /\ IF \E k \in req[r].svc : yaml[k] = NOFILE THEN End(r)
     ELSE req' = [req EXCEPT ![r].pc = "render", ![r].targets = {}, ![r].on = FALSE, ![r].lines = [k \in req[r].svc |-> yaml[k]]]
  /\ UNCHANGED <<rows, cont, yaml, status, foreign, settled, events>>

RenderCompose(r) ==
  LET s == req[r].svc IN
  /\ req[r].pc = "render"
  /\ req' = [req EXCEPT ![r].pc = "save",
               ![r].lines = inject_ports_into_yaml(s, @, [k \in RowsOf(s) |-> rows[k]])]
  /\ UNCHANGED <<rows, cont, yaml, status, foreign, settled, events>>

WithLines(s, lines) == [k \in Containers |-> IF k \in s THEN lines[k] ELSE yaml[k]]

SaveCompose(r) ==
  LET s == req[r].svc IN
  /\ req[r].pc = "save"
  /\ yaml' = IF status[s] = "absent" THEN yaml ELSE WithLines(s, req[r].lines)
  /\ settled' = [settled EXCEPT ![s] = IF req[r].alone THEN "toggle" ELSE @]
  /\ End(r)
  /\ UNCHANGED <<rows, cont, status, foreign, events>>

\* A failure goes back to the snapshot.
RollbackSwitch(r) ==
  /\ req[r].pc = "rollback"
  /\ rows' = WithFlags(rows, req[r].snap)
  /\ req' = [req EXCEPT ![r] = [NoCall EXCEPT !.op = "toggle", !.svc = req[r].svc, !.pc = "ask", !.alone = req[r].alone]]
  /\ UNCHANGED <<cont, yaml, status, foreign, settled, events>>

\* Docker is asked whether anything still runs.
AskRunning(r) ==
  LET s == req[r].svc IN
  /\ req[r].pc = "ask"
  /\ status' = IF status[s] # "absent" /\ \A k \in s : cont[k] = NULL \/ ~cont[k].running
               THEN [status EXCEPT ![s] = "failed"] ELSE status
  /\ End(r)
  /\ UNCHANGED <<rows, cont, yaml, foreign, settled, events>>

-----------------------------------------------------------------------------
(* Deploys: docker/compose_service.rs and the port functions of deploy/mod.rs *)

\* A line of the compose file is written for the rows; untagged rows get the service that
\* declares their container port.
backfill_orphan_ports(s, lines) ==
  [k \in Containers |-> IF k \in s /\ ~Single(s) /\ rows[k] # NULL /\ lines[k] # NULL
     THEN [rows[k] EXCEPT !.tagged = TRUE] ELSE rows[k]]

\* INSERT INTO services and allocate_ports under one lock; abort_create takes the service
\* away again when the port is refused.
Registered(r, op, s, granted, st, pc) ==
  LET p == CHOOSE x \in granted : TRUE IN
  IF granted = {} THEN Arrives(r, op, s, [NoCall EXCEPT !.pc = "done"]) /\ UNCHANGED <<rows, status>>
  ELSE /\ Arrives(r, op, s, [NoCall EXCEPT !.pc = pc, !.lines = IF pc = "done" THEN <<>>
                                                         ELSE [k \in s |-> [any |-> FALSE, port |-> p]]])
       /\ rows' = [k \in Containers |-> IF k \in s THEN NewRow(p) ELSE rows[k]]
       /\ status' = [status EXCEPT ![s] = st]

\* A template of the catalog, on the port the operator asks for or on any.
CreateAllocated(r, s) ==
  /\ Single(s)
  /\ \E k \in s, requested \in Contested \cup {NULL} :
       Registered(r, "create", s, allocate_ports(k, rows, requested, FALSE, {}), "deploying", "compose")
  /\ UNCHANGED <<cont, yaml, foreign, events>>

\* A pasted Dockerfile, and a repository that has one: the port is handed out before the
\* sources are there.
CreateDockerfile(r, s) ==
  /\ Single(s)
  /\ \E k \in s : Registered(r, "dockerfile", s, allocate_ports(k, rows, NULL, FALSE, {}), "deploying", "sources")
  /\ UNCHANGED <<cont, yaml, foreign, events>>

CreateGitDeploy(r, s) ==
  /\ Single(s)
  /\ \E k \in s : Registered(r, "git", s, allocate_ports(k, rows, NULL, FALSE, {}), "deploying", "sources")
  /\ UNCHANGED <<cont, yaml, foreign, events>>

\* The stack directory with the Dockerfile, or with a clone. A clone that fails, or has no
\* Dockerfile, is written down; a directory or a deploy key that fails is only answered.
FetchSources(r) ==
  LET s == req[r].svc IN
  /\ req[r].pc = "sources"
  /\ \/ Fine /\ CallGoto(r, "compose") /\ UNCHANGED status
     \/ Fault /\ End(r) /\ UNCHANGED status
     \/ /\ Fault /\ End(r) /\ req[r].op = "git" /\ status[s] # "absent"
        /\ status' = [status EXCEPT ![s] = "failed"]
  /\ UNCHANGED <<rows, cont, yaml, foreign, settled>>

\* Repositories with another build pack, and those of a GitHub App: the service is only
\* written down, and holds its port until the pipeline of ServiceDeploy deploys it. A
\* compose file states its own ports.
Deferred(r, op, s) ==
  /\ \/ Single(s) /\ \E k \in s : Registered(r, op, s, allocate_ports(k, rows, NULL, FALSE, {}), "created", "done")
     \/ /\ Arrives(r, op, s, [NoCall EXCEPT !.pc = "done"])
        /\ status' = [status EXCEPT ![s] = "created"]
        /\ UNCHANGED rows
  /\ UNCHANGED <<cont, yaml, foreign, events>>

CreateDeferred(r, s) == Deferred(r, "deferred", s)
CreateGithubApp(r, s) == Deferred(r, "github_app", s)

\* The generated compose file is stored before the deploy.
StoreCompose(r) ==
  LET s == req[r].svc IN
  /\ req[r].pc = "compose"
  /\ yaml' = IF status[s] = "absent" THEN yaml ELSE WithLines(s, req[r].lines)
  /\ CallGoto(r, "inject")
  /\ UNCHANGED <<rows, cont, status, foreign, settled, events>>

\* create_compose: the operator's file, with a `ports:` line or without.
CreateCompose(r, s) ==
  /\ \E lines \in [s -> {NULL} \cup [any : BOOLEAN, port : Contested]] :
       /\ \A j, k \in s : j # k => lines[j] = NULL \/ lines[j] # lines[k]
       /\ Arrives(r, "create_compose", s, [NoCall EXCEPT !.pc = "inject", !.lines = lines])
       /\ yaml' = WithLines(s, lines)
  /\ status' = [status EXCEPT ![s] = "deploying"]
  /\ UNCHANGED <<rows, cont, foreign, events>>

\* create: a name that no service has, dispatched on the kind of resource.
Create(r, s) ==
  /\ status[s] = "absent"
  /\ \/ CreateCompose(r, s) \/ CreateDockerfile(r, s) \/ CreateGitDeploy(r, s)
     \/ CreateDeferred(r, s) \/ CreateGithubApp(r, s) \/ CreateAllocated(r, s)

\* redeploy: the stored file is read, and the stack goes down.
Redeploy(r, s) ==
  /\ status[s] # "absent" /\ \A k \in s : yaml[k] # NOFILE
  /\ Arrives(r, "redeploy", s, [NoCall EXCEPT !.pc = "down", !.lines = [k \in s |-> yaml[k]]])
  /\ UNCHANGED <<rows, cont, yaml, status, foreign, events>>

Downed(s) == [k \in Containers |-> IF k \in s THEN NULL ELSE cont[k]]

DownStack(r) ==
  LET s == req[r].svc IN
  /\ req[r].pc = "down"
  /\ cont' = Downed(s)
  /\ status' = IF status[s] = "absent" THEN status ELSE [status EXCEPT ![s] = "deploying"]
  /\ CallGoto(r, "inject")
  /\ UNCHANGED <<rows, yaml, foreign, settled, events>>

\* with_pier_ports: with rows, the lines of the file are dropped and written from the rows.
with_pier_ports(s, lines) ==
  IF RowsOf(s) = {} THEN lines
  ELSE LET tagged == backfill_orphan_ports(s, lines)
       IN inject_ports_into_yaml(s, [k \in s |-> NULL], [k \in RowsOf(s) |-> tagged[k]])

\* The containers to be: req[r].seen keeps the operator's file.
Inject(r) ==
  LET s == req[r].svc IN
  /\ req[r].pc = "inject"
  /\ rows' = backfill_orphan_ports(s, req[r].lines)
  /\ req' = [req EXCEPT ![r].pc = "up", ![r].seen = with_pier_ports(s, req[r].lines)]
  /\ UNCHANGED <<cont, yaml, status, foreign, settled, events>>

\* docker compose up: containers that publish something else, or are not there, are made
\* again; an old one leaves its volume to the new one.
FromLine(k, line) == IF line = NULL THEN {} ELSE {[of |-> k, any |-> line.any, port |-> line.port]}
Composed(r, fault) ==
  LET q == req[r]
      ports(k) == FromLine(k, q.seen[k])
      others(k) == UNION {PortsOf(ports(j)) : j \in q.svc \ {k}}
      free(k) == \A b \in ports(k) : /\ b.port \notin foreign \cup others(k)
                                     /\ \A j \in Containers \ q.svc :
                                          cont[j] # NULL /\ cont[j].running => b.port \notin PortsOf(cont[j].binds)
  IN [k \in Containers |-> IF k \notin q.svc THEN cont[k]
       ELSE [binds |-> ports(k), vol |-> IF cont[k] = NULL THEN r ELSE cont[k].vol, running |-> ~fault /\ free(k)]]

ComposeUp(r) ==
  LET q == req[r] IN
  /\ q.pc = "up"
  /\ \E fault \in BOOLEAN :
       /\ IF fault THEN Fault ELSE Fine
       /\ cont' = Composed(r, fault)
       /\ req' = [req EXCEPT ![r].seen = <<>>, ![r].pc =
            IF q.again THEN "finish"
            ELSE IF \A k \in q.svc : Composed(r, fault)[k].running
                 THEN IF q.op \in {"create_compose", "redeploy"} THEN "extract" ELSE "finish"
                 ELSE "finish"]
  /\ UNCHANGED <<rows, yaml, status, foreign, settled>>

\* upsert_port_rows: the row of a compose service gets the port of its line, or is made.
\* host_port is unique: a port another row holds is refused, and only logged.
Upserted(k, line, R) ==
  IF \E j \in Containers \ {k} : R[j] # NULL /\ R[j].host = line.port THEN R
  ELSE [R EXCEPT ![k] = IF @ = NULL THEN [NewRow(line.port) EXCEPT !.tagged = ~Single(StackOf(k))]
                        ELSE [@ EXCEPT !.host = line.port]]

\* The rows follow the file that was given, not what was written from the rows.
update_ports_from_compose(s, lines) ==
  FoldSet(LAMBDA k, R : Upserted(k, lines[k], R), backfill_orphan_ports(s, lines), {k \in s : lines[k] # NULL})

ExtractPorts(r) ==
  LET s == req[r].svc IN
  /\ req[r].pc = "extract"
  /\ rows' = IF status[s] = "absent" THEN rows ELSE update_ports_from_compose(s, req[r].lines)
  /\ CallGoto(r, "image")
  /\ UNCHANGED <<cont, yaml, status, foreign, settled, events>>

\* allocate_ports_from_image: without a row, the images say what they expose, and the
\* stack goes up once more.
ImagePorts(r) ==
  LET s == req[r].svc IN
  /\ req[r].pc = "image"
  /\ IF RowsOf(s) = {} /\ status[s] # "absent" /\ \A k \in s : cont[k] # NULL /\ allocate_ports(k, rows, NULL, FALSE, {}) # {}
     THEN /\ rows' = FoldSet(LAMBDA k, R :
                       LET granted == allocate_ports(k, R, NULL, FALSE, {})
                       IN IF granted = {} THEN R ELSE [R EXCEPT ![k] = NewRow(CHOOSE p \in granted : TRUE)], rows, s)
          /\ req' = [req EXCEPT ![r].pc = "inject", ![r].again = TRUE]
     ELSE rows' = rows /\ CallGoto(r, "finish")
  /\ UNCHANGED <<cont, yaml, status, foreign, settled, events>>

\* The status; a create only closes what is still deploying, and load_balance leaves it.
FinishDeploy(r) ==
  LET s == req[r].svc
      ok == \A k \in s : cont[k] # NULL /\ cont[k].running
  IN
  /\ req[r].pc = "finish"
  /\ status' = IF status[s] = "absent" \/ req[r].op = "balance" \/ (req[r].op # "redeploy" /\ status[s] # "deploying") THEN status
               ELSE [status EXCEPT ![s] = IF ok THEN "running" ELSE "failed"]
  /\ settled' = [settled EXCEPT ![s] = IF req[r].op = "balance" /\ req[r].alone /\ ok THEN "balance" ELSE @]
  /\ End(r)
  /\ UNCHANGED <<rows, cont, yaml, foreign, events>>

-----------------------------------------------------------------------------
(* load_balance, in api/resources.rs: one replica on this server             *)

Balanceable(s) == status[s] # "absent" /\ Single(s)

\* The published port of the service is kept for the new rows.
LoadBalance(r, s) ==
  LET open == {rows[k].pport : k \in {j \in RowsOf(s) : rows[j].pub}} \ {NULL} IN
  /\ Balanceable(s)
  /\ Arrives(r, "balance", s, [NoCall EXCEPT !.pc = "own", !.ui = IF open = {} THEN NULL ELSE CHOOSE p \in open : TRUE])
  /\ UNCHANGED <<rows, cont, yaml, status, foreign, events>>

\* The ports its containers still hold must not look taken.
OwnHostPorts(r) ==
  /\ req[r].pc = "own"
  /\ req' = [req EXCEPT ![r].pc = "replicas", ![r].own = {rows[k].host : k \in RowsOf(req[r].svc)}]
  /\ UNCHANGED <<rows, cont, yaml, status, foreign, settled, events>>

\* The rows go, new ones come from the pool, and the public switch is set again. A refusal
\* is answered when the old rows are gone.
Reallocate(r) ==
  LET q == req[r]
      granted(k) == allocate_ports(k, free_ports(q.svc), NULL, TRUE, q.own)
      new(k) == [NewRow(CHOOSE p \in granted(k) : TRUE) EXCEPT !.pub = q.ui # NULL, !.pport = q.ui]
      ok == status[q.svc] # "absent" /\ \A k \in q.svc : granted(k) # {}
  IN
  /\ q.pc = "replicas"
  /\ rows' = IF ok THEN [k \in Containers |-> IF k \in q.svc THEN new(k) ELSE rows[k]] ELSE free_ports(q.svc)
  /\ IF ok THEN req' = [req EXCEPT ![r].pc = "lb_down", ![r].own = {}, ![r].ui = NULL,
                          ![r].lines = [k \in q.svc |-> [any |-> q.ui # NULL, port |-> IF q.ui # NULL THEN q.ui ELSE new(k).host]]]
     ELSE End(r)
  /\ UNCHANGED <<cont, yaml, status, foreign, settled, events>>

\* The stack of the generated file replaces the old one; compose_content stays.
DownReplicas(r) ==
  /\ req[r].pc = "lb_down"
  /\ cont' = Downed(req[r].svc)
  /\ CallGoto(r, "inject")
  /\ UNCHANGED <<rows, yaml, status, foreign, settled, events>>

-----------------------------------------------------------------------------
\* remove: the stack goes down first.
RemoveService(r, s) ==
  /\ status[s] # "absent"
  /\ Arrives(r, "remove", s, [NoCall EXCEPT !.pc = "delete"])
  /\ cont' = Downed(s)
  /\ UNCHANGED <<rows, yaml, status, foreign, events>>

DeleteRows(r) ==
  LET s == req[r].svc IN
  /\ req[r].pc = "delete"
  /\ rows' = free_ports(s)
  /\ yaml' = WithLines(s, [k \in s |-> NOFILE])
  /\ status' = [status EXCEPT ![s] = "absent"]
  /\ End(r)
  /\ UNCHANGED <<cont, foreign, settled, events>>

-----------------------------------------------------------------------------
Switches(r) ==
  \E s \in Stacks : \E targets \in {s, {First(s)}} :
    \/ SetPortPublic(r, s, targets, FALSE, NULL)
    \/ \E ui \in {NULL, PoolEnd} : SetPortPublic(r, s, targets, TRUE, ui)

CallStep(r) ==
  \/ SyncCompute(r) \/ SyncWrite(r)
  \/ Target(r) \/ CheckConflict(r) \/ Flip(r)
  \/ ReadRows(r) \/ ListContainers(r) \/ Inspect(r) \/ StopRemove(r) \/ CreateStart(r) \/ Verify(r)
  \/ ReadCompose(r) \/ RenderCompose(r) \/ SaveCompose(r) \/ RollbackSwitch(r) \/ AskRunning(r)
  \/ StoreCompose(r) \/ DownStack(r) \/ Inject(r) \/ ComposeUp(r) \/ ExtractPorts(r) \/ ImagePorts(r)
  \/ FinishDeploy(r) \/ DeleteRows(r) \/ FetchSources(r)
  \/ OwnHostPorts(r) \/ Reallocate(r) \/ DownReplicas(r)

PortsNext ==
  \E r \in Calls :
    \/ Switches(r)
    \/ \E s \in Stacks : Sync(r, s) \/ Create(r, s) \/ Redeploy(r, s) \/ LoadBalance(r, s) \/ RemoveService(r, s)
    \/ CallStep(r)

PortsSpec == PortsInit /\ [][PortsNext]_portVars

-----------------------------------------------------------------------------
\* The columns have their types; host_port is unique (db/schema.rs), and a service that is
\* gone has no row: allocate_ports, update_ports_from_compose and free_ports keep it so.
PortsTypeOK ==
  /\ \A k \in Containers : rows[k] \in PortRow \cup {NULL} /\ cont[k] \in Container \cup {NULL} /\ yaml[k] \in Line \cup {NULL, NOFILE}
  /\ \A j, k \in Containers : j # k /\ rows[j] # NULL /\ rows[k] # NULL => rows[j].host # rows[k].host
  /\ \A s \in Stacks : status[s] = "absent" => \A k \in s : rows[k] = NULL
  /\ foreign \subseteq PortNumbers /\ events \in 0 .. MaxEvents

Placed(k) == rows[k] # NULL /\ cont[k] # NULL /\ (rows[k].tagged \/ Single(StackOf(k)))

\* A switch or a new distribution that answered ok while nothing else worked on the
\* service has done what it says: each container runs and publishes what its row says and
\* nothing else, and after a switch the stored compose file says the same
\* (set_port_public, recreate_with_port_bindings, sync_compose_after_port_toggle,
\* load_balance).
AppliedToggleHolds ==
  \A s \in Stacks : settled[s] \in {"toggle", "balance"} => \A k \in s : Placed(k) =>
    LET said == {[of |-> k, any |-> rows[k].pub, port |-> IF rows[k].pub THEN rows[k].pport ELSE rows[k].host]} IN
    /\ cont[k].running /\ cont[k].binds = said
    /\ settled[s] = "toggle" => {[of |-> k, any |-> yaml[k].any, port |-> yaml[k].port]} = said

\* Once a sync has run alone, the rows tell which ports face the world, also when the
\* container was made by another tool (compute_sync_updates).
RowsTellExposure ==
  \A s \in Stacks : settled[s] = "sync" => \A k \in s : Placed(k) =>
    LET open == {b \in cont[k].binds : b.of = k /\ b.any} IN
    /\ rows[k].pub <=> open # {}
    /\ rows[k].pub => \E b \in open : b.port = rows[k].pport

\* A container that the switch re-created has the data of the one it replaced, whatever
\* else went on (preserve_volume_mounts).
VolumeOutlivesToggle ==
  \A k \in Containers : cont[k] # NULL /\ cont[k].vol \in Calls => req[cont[k].vol].op # "toggle"
=============================================================================
