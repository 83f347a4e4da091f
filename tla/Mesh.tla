-------------------------------- MODULE Mesh --------------------------------
(* The WireGuard mesh of two cores that can be paired: the tables of each     *)
(* core, what the net helper keeps on each node, and the runs that carry the   *)
(* one to the other: enable, configure, pair, unpair and disable.             *)
(*                                                                          *)
(* A handler is a step per lock of its database and per call to a helper or to *)
(* the other core. A key is named by the request whose call generated it.     *)
EXTENDS Integers, FiniteSets, Functions

CONSTANTS
  HomeNodes, AwayNodes,   \* the nodes of the two cores: their hosts and their agents
  Requests,               \* each is used once
  Ops,                    \* the requests a run lets happen
  Addresses,              \* the hosts of the subnet
  NULL,
  MaxEvents               \* bound: calls that fail, crashes, timers that fire

ASSUME MeshConstants ==
  /\ HomeNodes \cap AwayNodes = {} /\ IsFiniteSet(HomeNodes) /\ IsFiniteSet(AwayNodes)
  /\ Addresses \subseteq Nat /\ 1 .. Cardinality(HomeNodes \cup AwayNodes) \subseteq Addresses
  /\ NULL \notin Requests /\ MaxEvents \in Nat

VARIABLES
  enabled,    \* enabled[c]: wireguard_config.enabled
  rows,       \* rows[n]: the row of n in its core's wireguard_peers, or NULL
  ext,        \* ext[n]: the row of n in the other core's wireguard_external_peers, or NULL
  node,       \* node[n]: the files and the interface of n
  req,        \* req[r]: a request, its step and local variables
  log,        \* history: what disturbed a core or a pairing
  events

tables == <<enabled, rows, ext>>
meshVars == <<tables, node, req, log, events>>

Cores == {"home", "away"}
Other(c) == IF c = "home" THEN "away" ELSE "home"
NodesOf(c) == IF c = "home" THEN HomeNodes ELSE AwayNodes
Nodes == HomeNodes \cup AwayNodes
CoreOf(n) == IF n \in HomeNodes THEN "home" ELSE "away"

EARLIER == "earlier"
Keys == Requests \cup {EARLIER}

Row == [ip : Addresses, key : Keys \cup {NULL}, status : {"pending", "keyed", "active", "error"}]
External == [ip : Addresses, key : Keys]

\* wg0.conf with the node's own key in it, or the interface made from it.
Block == [node : Nodes, ip : Addresses, key : Keys]
Config == [addr : Addresses, key : Keys, peers : SUBSET Block]

\* wg0.privkey, wg0.conf, wg0.conf.bak, wg0, and the timer of an apply.
Host == [key : Keys \cup {NULL}, conf : Config \cup {NULL}, bak : Config \cup {NULL},
         wg0 : Config \cup {NULL}, timer : BOOLEAN]
\* What stands for a missing row or file is no value of theirs, and no key.
ASSUME NullIsNoRow == NULL \notin Row \cup External \cup Config \cup {EARLIER}

Blank == [key |-> NULL, conf |-> NULL, bak |-> NULL, wg0 |-> NULL, timer |-> FALSE]

Idle == [op |-> "none", pc |-> "new", core |-> "home", at |-> "home", cur |-> NULL, left |-> {},
         snap |-> {}, after |-> "done", key |-> NULL]
Done == [Idle EXCEPT !.pc = "done"]

\* Two cores without a mesh, one with a mesh of its own, or both joined in one: the
\* cores in up have active nodes, each with the address f gives it.
Up0(up, f, n) ==
  [addr |-> f[n], key |-> EARLIER,
   peers |-> {[node |-> m, ip |-> f[m], key |-> EARLIER] : m \in {x \in Nodes \ {n} : CoreOf(x) \in up}}]

MeshInit ==
  /\ \E up \in {{}, {"home"}, Cores}, f \in {g \in [Nodes -> 1 .. Cardinality(Nodes)] : IsInjective(g)} :
       /\ enabled = [c \in Cores |-> c \in up]
       /\ \A m \in HomeNodes, n \in AwayNodes : f[m] < f[n]
       /\ rows = [n \in Nodes |-> IF CoreOf(n) \notin up THEN NULL
                                  ELSE [ip |-> f[n], key |-> EARLIER, status |-> "active"]]
       /\ ext = [n \in Nodes |-> IF up = Cores THEN [ip |-> f[n], key |-> EARLIER] ELSE NULL]
       /\ node = [n \in Nodes |-> IF CoreOf(n) \notin up THEN Blank
                     ELSE [Blank EXCEPT !.key = EARLIER, !.conf = Up0(up, f, n), !.wg0 = Up0(up, f, n)]]
  /\ req = [r \in Requests |-> Idle]
  /\ log = [unclean |-> {}, stuck |-> {}, pairing |-> "no"]
  /\ events = 0

-----------------------------------------------------------------------------
Arrives(r, op) == req[r].pc = "new" /\ op \in Ops
Goto(r, pc) == req' = [req EXCEPT ![r].pc = pc]
End(r) == req' = [req EXCEPT ![r] = Done]
\* The request q goes on with what follows a run of configure_mesh.
Returned(q) == IF q.after = "done" THEN Done ELSE [q EXCEPT !.pc = q.after, !.left = {}, !.snap = {}, !.cur = NULL]

\* Another request works on the tables or the nodes of core c.
Overlaps(r, c) == \E q \in Requests \ {r} : req[q].pc \notin {"new", "done"} /\ req[q].at = c
Disturbs(r, c) == log' = [log EXCEPT !.pairing = "no", !.unclean = IF Overlaps(r, c) THEN @ \cup {c} ELSE @]
Disturbed(cs) == log' = [log EXCEPT !.pairing = "no", !.unclean = @ \cup cs]

\* The key or the address of n is not the one of its row, and no later run mends it.
StuckIf(n, cause) == [log EXCEPT !.stuck = IF cause THEN @ \cup {n} ELSE @]

\* A call that fails uses up the budget of events.
Lost == events < MaxEvents /\ events' = events + 1
Answered == UNCHANGED events

\* allocate_ip, once per node: the lowest addresses that are not used.
LowestFree(k, used) ==
  {S \in SUBSET (Addresses \ used) :
     Cardinality(S) = k /\ \A i \in S, j \in (Addresses \ used) \ S : i < j}
Allocations(ns, used) ==
  {f \in [ns -> Addresses \ used] : /\ \A m, n \in ns : m # n => f[m] # f[n]
                                    /\ {f[n] : n \in ns} \in LowestFree(Cardinality(ns), used)}

OwnAddresses(c) == {rows[n].ip : n \in {m \in NodesOf(c) : rows[m] # NULL}}
ExtAddresses(c) == {ext[n].ip : n \in {m \in NodesOf(Other(c)) : ext[m] # NULL}}
\* Interfaces that outlived the mesh they were made for keep their address.
Outlived(c) == {n \in NodesOf(c) : node[n].wg0 # NULL}

NewRow(ip) == [ip |-> ip, key |-> NULL, status |-> "pending"]

\* enable_mesh: every node of the core gets a row. The addresses of a paired core are
\* not looked at.
Enable(r, c) ==
  /\ Arrives(r, "enable") /\ ~enabled[c]
  /\ \E f \in Allocations(NodesOf(c), OwnAddresses(c)) :
       rows' = [n \in Nodes |-> IF n \in NodesOf(c) THEN NewRow(f[n]) ELSE rows[n]]
  /\ enabled' = [enabled EXCEPT ![c] = TRUE]
  /\ log' = [log EXCEPT !.pairing = "no", !.unclean = IF Overlaps(r, c) THEN @ \cup {c} ELSE @,
                        !.stuck = @ \cup Outlived(c)]
  /\ End(r)
  /\ UNCHANGED <<ext, node, events>>

-----------------------------------------------------------------------------
(* configure_mesh, on its own or at the end of another request.              *)

Configure(r, c) ==
  /\ Arrives(r, "configure")
  /\ req' = [req EXCEPT ![r] = [Idle EXCEPT !.op = "configure", !.pc = "load", !.core = c, !.at = c]]
  /\ Disturbs(r, c)
  /\ UNCHANGED <<tables, node, events>>

\* Peer::load_all and ExternalPeer::load_all.
OwnBlocks(c) == {[node |-> n, ip |-> rows[n].ip, key |-> rows[n].key] : n \in {m \in NodesOf(c) : rows[m] # NULL}}
ExtBlocks(c) == {[node |-> n, ip |-> ext[n].ip, key |-> ext[n].key] : n \in {m \in NodesOf(Other(c)) : ext[m] # NULL}}

\* Phase 1 while nodes without a key are left, then phase 2.
KeysOrFiles(q) ==
  IF q.left # {} THEN [q EXCEPT !.pc = "keys", !.cur = NULL]
  ELSE [q EXCEPT !.pc = "write", !.cur = NULL, !.left = NodesOf(q.at) \cap {b.node : b \in q.snap}]

\* The tables are read once. A run nobody disturbs brings order to a core.
LoadMesh(r) ==
  LET c == req[r].at
      own == OwnBlocks(c)
  IN
  /\ req[r].pc = "load"
  /\ IF enabled[c] /\ own # {}
       THEN req' = [req EXCEPT ![r] = KeysOrFiles([@ EXCEPT !.snap = own \cup ExtBlocks(c),
                                                           !.left = {b.node : b \in {x \in own : x.key = NULL}}])]
       ELSE End(r)
  /\ log' = [log EXCEPT !.unclean = IF Overlaps(r, c) THEN @ \cup {c} ELSE @ \ {c}]
  /\ UNCHANGED <<tables, node, events>>

AddressIn(r, n) == (CHOOSE b \in req[r].snap : b.node = n).ip
First(r) == CHOOSE n \in req[r].left : \A m \in req[r].left : AddressIn(r, n) <= AddressIn(r, m)

\* mark_error: the run stops here, and what called it goes on.
Fail(r) ==
  /\ rows' = IF rows[req[r].cur] = NULL THEN rows ELSE [rows EXCEPT ![req[r].cur].status = "error"]
  /\ req' = [req EXCEPT ![r] = Returned(@)]

\* The next node without a key: install_wireguard, then generate_keypair reads wg0.privkey.
KeyRead(r) ==
  LET n == First(r) IN
  /\ req[r].pc = "keys" /\ req[r].left # {}
  /\ req' = [req EXCEPT ![r].pc = "generate", ![r].cur = n, ![r].left = @ \ {n},
                        ![r].key = node[n].key]
  /\ UNCHANGED <<tables, node, log, events>>

\* The key that was read, or a new one.
op_generate_keypair(r) == IF req[r].key = NULL THEN r ELSE req[r].key

\* The key is on the node before the answer. Two runs that both found none leave the key
\* of the second on the node, and the core may keep the other.
Generate(r) ==
  LET n == req[r].cur IN
  /\ req[r].pc = "generate"
  /\ \/ /\ node' = [node EXCEPT ![n].key = op_generate_keypair(r)]
        /\ log' = StuckIf(n, rows[n] # NULL /\ rows[n].key \notin {NULL, op_generate_keypair(r)})
        /\ \/ Answered /\ UNCHANGED rows
              /\ req' = [req EXCEPT ![r].pc = "persist", ![r].key = op_generate_keypair(r)]
           \/ Lost /\ Fail(r)
     \/ Lost /\ Fail(r) /\ UNCHANGED <<node, log>>
  /\ UNCHANGED <<enabled, ext>>

\* The core stores the public half of the key in the answer.
PersistKey(r) ==
  LET n == req[r].cur IN
  /\ req[r].pc = "persist"
  /\ rows' = IF rows[n] = NULL THEN rows ELSE [rows EXCEPT ![n].key = req[r].key, ![n].status = "keyed"]
  /\ log' = StuckIf(n, rows[n] # NULL /\ node[n].key # req[r].key)
  /\ req' = [req EXCEPT ![r] = KeysOrFiles([@ EXCEPT !.key = NULL,
                !.snap = {IF b.node = n THEN [b EXCEPT !.key = req[r].key] ELSE b : b \in req[r].snap}])]
  /\ UNCHANGED <<enabled, ext, node, events>>

render_wg_conf(r, n) ==
  [addr |-> AddressIn(r, n), key |-> node[n].key,
   peers |-> {b \in req[r].snap : b.node # n /\ b.key # NULL}]

\* op_write_config puts the node's key in; without one it refuses.
WriteConfig(r) ==
  LET n == First(r) IN
  /\ req[r].pc = "write" /\ req[r].left # {}
  /\ \/ /\ node[n].key # NULL /\ Answered
        /\ node' = [node EXCEPT ![n].conf = render_wg_conf(r, n)]
        /\ req' = [req EXCEPT ![r].pc = "up", ![r].cur = n, ![r].left = @ \ {n}]
        /\ UNCHANGED rows
     \/ /\ IF node[n].key = NULL THEN Answered ELSE Lost
        /\ rows' = IF rows[n] = NULL THEN rows ELSE [rows EXCEPT ![n].status = "error"]
        /\ req' = [req EXCEPT ![r] = Returned(@)]
        /\ UNCHANGED node
  /\ UNCHANGED <<enabled, ext, log>>

\* wg syncconf: keys and peers, never the address.
wg_syncconf(n) == [node[n].wg0 EXCEPT !.key = node[n].conf.key, !.peers = node[n].conf.peers]

\* Mutant of op_up: an interface that is up is left alone.
UpOnce(n) == IF node[n].wg0 # NULL THEN node[n].wg0 ELSE node[n].conf

\* wg-quick up, or syncconf when wg0 exists.
op_up(n) == IF node[n].wg0 # NULL THEN wg_syncconf(n) ELSE node[n].conf

Up(r) ==
  LET n == req[r].cur IN
  /\ req[r].pc = "up"
  /\ \/ /\ node[n].conf # NULL
        /\ node' = [node EXCEPT ![n].wg0 = op_up(n)]
        /\ log' = StuckIf(n, rows[n] # NULL /\ node[n].wg0 = NULL /\ node[n].conf.addr # rows[n].ip)
        /\ \/ Answered /\ Goto(r, "active") /\ UNCHANGED rows
           \/ Lost /\ Fail(r)
     \/ /\ IF node[n].conf = NULL THEN Answered ELSE Lost
        /\ Fail(r) /\ UNCHANGED <<node, log>>
  /\ UNCHANGED <<enabled, ext>>

MarkActive(r) ==
  LET n == req[r].cur IN
  /\ req[r].pc = "active"
  /\ rows' = IF rows[n] = NULL THEN rows ELSE [rows EXCEPT ![n].status = "active"]
  /\ req' = [req EXCEPT ![r] = IF @.left = {} THEN Returned(@) ELSE [@ EXCEPT !.pc = "write", !.cur = NULL]]
  /\ UNCHANGED <<enabled, ext, node, log, events>>

-----------------------------------------------------------------------------
(* Pairing: core_mesh.rs on the core that asks, peer_mesh.rs on the other.    *)

AllKeyed(c) == \A n \in NodesOf(c) : rows[n] # NULL /\ rows[n].key # NULL

\* pair: one lock for what is sent; only then is the other core asked.
Pair(r, c) ==
  /\ Arrives(r, "pair") /\ enabled[c] /\ AllKeyed(c)
  /\ req' = [req EXCEPT ![r] = [Idle EXCEPT !.op = "pair", !.pc = "describe", !.core = c, !.at = c,
                                            !.snap = OwnBlocks(c) \cup ExtBlocks(c)]]
  /\ log' = [log EXCEPT !.pairing = IF \E d \in Cores : Overlaps(r, d) THEN "no" ELSE "alone",
                        !.unclean = IF Overlaps(r, c) THEN @ \cup {c} ELSE @]
  /\ UNCHANGED <<tables, node, events>>

\* describe: the other mesh must be off.
Describe(r) ==
  /\ req[r].pc = "describe"
  /\ IF enabled[Other(req[r].core)] THEN End(r)
     ELSE req' = [req EXCEPT ![r].pc = "propose", ![r].at = Other(req[r].core)]
  /\ log' = [log EXCEPT !.unclean = IF Overlaps(r, Other(req[r].core)) THEN @ \cup Cores ELSE @]
  /\ UNCHANGED <<tables, node, events>>

\* Mutant of PlanUses: only the addresses of remote nodes count.
RemoteOnly(r) == {b.ip : b \in {x \in req[r].snap : x.node \notin NodesOf(req[r].core)}}

PlanUses(r) == {b.ip : b \in req[r].snap}

\* propose, phase A: the owner's addresses for our nodes, the owner's nodes as externals.
Propose(r) ==
  LET c == req[r].core
      d == Other(c)
      theirs == {b \in req[r].snap : b.node \in NodesOf(c)}
  IN
  /\ req[r].pc = "propose"
  /\ IF enabled[d] \/ Allocations(NodesOf(d), PlanUses(r)) = {}
       THEN End(r) /\ UNCHANGED <<tables, log>>
       ELSE /\ enabled' = [enabled EXCEPT ![d] = TRUE]
            /\ \E f \in Allocations(NodesOf(d), PlanUses(r)) :
                 rows' = [n \in Nodes |-> IF n \in NodesOf(d) THEN NewRow(f[n]) ELSE rows[n]]
            /\ ext' = [n \in Nodes |-> IF n \notin NodesOf(c) THEN ext[n]
                         ELSE LET b == CHOOSE x \in theirs : x.node = n IN [ip |-> b.ip, key |-> b.key]]
            /\ req' = [req EXCEPT ![r].pc = "load", ![r].after = "respond", ![r].snap = {}]
            /\ log' = [log EXCEPT !.stuck = @ \cup Outlived(d)]
  /\ UNCHANGED <<node, events>>

\* propose, phase C: our nodes as they are now; the answer may be lost.
Respond(r) ==
  LET d == Other(req[r].core) IN
  /\ req[r].pc = "respond"
  /\ \/ Answered /\ req' = [req EXCEPT ![r].pc = "store", ![r].at = req[r].core, ![r].snap = OwnBlocks(d)]
     \/ Lost /\ End(r)
  /\ log' = [log EXCEPT !.unclean = IF Overlaps(r, req[r].core) THEN @ \cup {req[r].core} ELSE @]
  /\ UNCHANGED <<tables, node>>

\* The keyed nodes replace what was stored of the other core, then configure_mesh.
StoreExternals(r) ==
  LET c == req[r].core
      d == Other(c)
      keyed == {b \in req[r].snap : b.key # NULL}
  IN
  /\ req[r].pc = "store"
  /\ ext' = [n \in Nodes |-> IF n \notin NodesOf(d) THEN ext[n]
               ELSE IF \E b \in keyed : b.node = n
                    THEN LET b == CHOOSE x \in keyed : x.node = n IN [ip |-> b.ip, key |-> b.key]
                    ELSE NULL]
  /\ req' = [req EXCEPT ![r].pc = "load", ![r].after = "paired", ![r].snap = {}]
  /\ UNCHANGED <<enabled, rows, node, log, events>>

\* The pairing is whole when no other request came, no run stopped and no node is stuck.
Paired(r) ==
  /\ req[r].pc = "paired"
  /\ log' = [log EXCEPT !.pairing = IF /\ @ = "alone" /\ log.stuck = {}
                                       /\ \A n \in Nodes : rows[n] # NULL /\ rows[n].status = "active"
                                    THEN "whole" ELSE "no"]
  /\ End(r)
  /\ UNCHANGED <<tables, node, events>>

\* unpair: what core c does first is to ask the other one, which may not hear it.
Unpair(r, c) ==
  /\ Arrives(r, "unpair")
  /\ \E heard \in BOOLEAN :
       /\ IF heard THEN Answered ELSE Lost
       /\ req' = [req EXCEPT ![r] = [Idle EXCEPT !.op = "unpair", !.core = c,
                                       !.at = IF heard THEN Other(c) ELSE c,
                                       !.pc = IF heard THEN "teardown" ELSE "forget"]]
       /\ log' = [log EXCEPT !.pairing = "no",
                    !.unclean = @ \cup {d \in IF heard THEN Cores ELSE {c} : Overlaps(r, d)}]
  /\ UNCHANGED <<tables, node>>

Forgotten(c) == [n \in Nodes |-> IF n \in NodesOf(Other(c)) THEN NULL ELSE ext[n]]

\* teardown on the other core.
Teardown(r) ==
  LET d == req[r].at IN
  /\ req[r].pc = "teardown"
  /\ ext' = Forgotten(d)
  /\ req' = [req EXCEPT ![r].pc = IF enabled[d] THEN "load" ELSE "forget", ![r].after = "forget"]
  /\ UNCHANGED <<enabled, rows, node, log, events>>

Forget(r) ==
  LET c == req[r].core IN
  /\ req[r].pc = "forget"
  /\ ext' = Forgotten(c)
  /\ IF enabled[c] THEN req' = [req EXCEPT ![r].pc = "load", ![r].at = c, ![r].after = "done"] ELSE End(r)
  /\ log' = [log EXCEPT !.unclean = IF Overlaps(r, c) THEN @ \cup {c} ELSE @]
  /\ UNCHANGED <<enabled, rows, node, events>>

-----------------------------------------------------------------------------
\* disable_mesh, and with uninstall: Peer::load_all ...
Disable(r, c, op) ==
  /\ Arrives(r, op)
  /\ req' = [req EXCEPT ![r] = [Idle EXCEPT !.op = op, !.pc = "down", !.core = c, !.at = c,
                                            !.left = {b.node : b \in OwnBlocks(c)}, !.snap = OwnBlocks(c)]]
  /\ Disturbs(r, c)
  /\ UNCHANGED <<tables, node, events>>

op_down(h) == [h EXCEPT !.wg0 = NULL]
op_uninstall(h) == [h EXCEPT !.wg0 = NULL, !.conf = NULL, !.bak = NULL, !.key = NULL, !.timer = FALSE]

\* ... each interface down (a node that does not answer is passed over) ...
Down(r) ==
  LET n == First(r) IN
  /\ req[r].pc = "down" /\ req[r].left # {}
  /\ req' = [req EXCEPT ![r].left = @ \ {n}]
  /\ \/ /\ Answered
        /\ node' = [node EXCEPT ![n] = IF req[r].op = "uninstall" THEN op_uninstall(@) ELSE op_down(@)]
     \/ Lost /\ UNCHANGED node
  /\ UNCHANGED <<tables, log>>

RowsAfterDisable(c) == [n \in Nodes |-> IF n \in NodesOf(c) THEN NULL ELSE rows[n]]

\* ... and the rows go in any case.
Disabled(r) ==
  LET c == req[r].at IN
  /\ req[r].pc = "down" /\ req[r].left = {}
  /\ rows' = RowsAfterDisable(c)
  /\ enabled' = [enabled EXCEPT ![c] = FALSE]
  /\ log' = [log EXCEPT !.stuck = @ \ NodesOf(c)]
  /\ End(r)
  /\ UNCHANGED <<ext, node, events>>

-----------------------------------------------------------------------------
(* The helper's switch, which no request of the core uses: by hand.           *)

op_apply(n) == [node[n] EXCEPT !.bak = node[n].conf, !.wg0 = wg_syncconf(n), !.timer = TRUE]
op_commit(n) == [node[n] EXCEPT !.bak = NULL, !.timer = FALSE]
perform_rollback(n) ==
  IF node[n].bak = NULL THEN [node[n] EXCEPT !.conf = NULL, !.wg0 = NULL, !.timer = FALSE]
  ELSE [node[n] EXCEPT !.conf = node[n].bak, !.bak = NULL, !.timer = FALSE,
          !.wg0 = IF @ = NULL THEN NULL ELSE [@ EXCEPT !.key = node[n].bak.key, !.peers = node[n].bak.peers]]

ByHand(r, n) ==
  /\ \E op \in {"apply", "commit", "rollback"} :
       /\ Arrives(r, op)
       /\ op = "apply" => node[n].conf # NULL /\ node[n].wg0 # NULL
       /\ node' = [node EXCEPT ![n] = CASE op = "apply" -> op_apply(n) [] op = "commit" -> op_commit(n)
                                        [] OTHER -> perform_rollback(n)]
  /\ Disturbed({CoreOf(n)}) /\ End(r)
  /\ UNCHANGED <<tables, events>>

TimerFires(n) ==
  /\ node[n].timer /\ Lost
  /\ node' = [node EXCEPT ![n] = perform_rollback(n)]
  /\ Disturbed({CoreOf(n)})
  /\ UNCHANGED <<tables, req>>

\* A core restarts: what it asked for is forgotten half way, on both.
Crash ==
  /\ Lost
  /\ \E r \in Requests : req[r].pc \notin {"new", "done"}
  /\ req' = [r \in Requests |-> IF req[r].pc = "new" THEN req[r] ELSE Done]
  /\ Disturbed(Cores)
  /\ UNCHANGED <<tables, node>>

Step(r) ==
  \/ \E c \in Cores : \/ Enable(r, c) \/ Configure(r, c) \/ Pair(r, c) \/ Unpair(r, c)
                      \/ \E op \in {"disable", "uninstall"} : Disable(r, c, op)
  \/ LoadMesh(r) \/ KeyRead(r) \/ Generate(r) \/ PersistKey(r)
  \/ WriteConfig(r) \/ Up(r) \/ MarkActive(r)
  \/ Describe(r) \/ Propose(r) \/ Respond(r) \/ StoreExternals(r) \/ Paired(r)
  \/ Teardown(r) \/ Forget(r)
  \/ Down(r) \/ Disabled(r)
  \/ \E n \in Nodes : ByHand(r, n)

MeshNext ==
  \/ \E r \in Requests : Step(r)
  \/ \E n \in Nodes : TimerFires(n)
  \/ Crash

MeshSpec == MeshInit /\ [][MeshNext]_meshVars

-----------------------------------------------------------------------------
\* Every row and host has its shape, and a core has rows exactly while its mesh is
\* enabled (enable_mesh, propose and disable_mesh change both in one transaction).
MeshTypeOK ==
  /\ \A n \in Nodes : /\ rows[n] \in Row \cup {NULL} /\ ext[n] \in External \cup {NULL}
                      /\ node[n].key \in Keys \cup {NULL} /\ (rows[n] # NULL <=> enabled[CoreOf(n)])
  /\ events \in 0 .. MaxEvents

\* Nobody works on core c, nor was a run of it disturbed since the last one began.
Calm(c) ==
  /\ enabled[c] /\ c \notin log.unclean
  /\ \A r \in Requests : req[r].pc \in {"new", "done"} \/ req[r].at # c

\* What the tables of its core say of node n.
Rendered(n) ==
  [addr |-> rows[n].ip, key |-> rows[n].key,
   peers |-> {b \in OwnBlocks(CoreOf(n)) \cup ExtBlocks(CoreOf(n)) : b.node # n /\ b.key # NULL}]

\* After undisturbed runs a core whose rows all say active has every interface up with
\* what its tables say: its address, its key, and every other node of both cores
\* (configure_mesh, op_write_config, op_up; keys survive lost answers).
ActiveIsRendered ==
  \A c \in Cores :
    (Calm(c) /\ \A n \in NodesOf(c) : rows[n].status = "active" /\ n \notin log.stuck)
    => \A n \in NodesOf(c) : node[n].wg0 = Rendered(n)

\* A pairing nothing disturbed joins every node of both cores under an address of its own.
PairedMeshIsWhole ==
  log.pairing = "whole" =>
    /\ \A m, n \in Nodes : m # n => /\ rows[m].ip # rows[n].ip
                                    /\ [node |-> m, ip |-> rows[m].ip, key |-> node[m].key] \in node[n].wg0.peers
=============================================================================
