------------------------------ MODULE Servers ------------------------------
(* The servers of one core and the credentials between them: the enrolment   *)
(* of an agent, its token and the rotation of it, heartbeats and proxied      *)
(* commands, and a peer core with its grant, its federation token, one stack  *)
(* and the cached snapshot of it.                                            *)
(*                                                                          *)
(* A handler is a step per lock of a database and per call over the network.  *)
(* A secret is named by the request that minted it.                          *)
EXTENDS Integers, FiniteSets

CONSTANTS
  Agents,       \* hosts an agent is installed on, and their rows in servers
  Requests,     \* requests and turns of the schedulers; each is used once
  Ops,          \* the requests a run lets happen
  NULL,
  MaxEvents     \* bound: crashes and expiries

ASSUME ServersConstants ==
  /\ IsFiniteSet(Agents) /\ IsFiniteSet(Requests)
  /\ NULL \notin Agents \cup Requests /\ MaxEvents \in Nat

VARIABLES
  row,        \* row[a]: the row of agent a in servers, or NULL
  agent,      \* agent[a]: what is on the host
  peerRow,    \* the row of the peer core in servers, or NULL
  grant,      \* does the peer still accept the grant the row carries
  fed,        \* the peer's federation_tokens, by id
  stack,      \* the stack on the peer, or NULL
  cache,      \* federated_stacks and federation_sync_state
  req,        \* req[r]: a request, its step and local variables
  log,        \* history: redemptions of a bootstrap, links that met a fault
  events

agentVars == <<row, agent>>
peerVars == <<peerRow, grant, fed, stack, cache>>
vars == <<agentVars, peerVars, req, log, events>>

\* Rows and secrets from before the behaviour; those of an agent are named by the agent.
EARLIER == "earlier"
Secrets == Requests \cup Agents \cup {EARLIER}

\* boot: bootstrap_token_hash, late: bootstrap_expires_at has passed.
ServerRow == [id : Secrets, boot : Secrets \cup {NULL}, late : BOOLEAN, token : Secrets \cup {NULL},
              hash : Secrets \cup {NULL}, status : {"offline", "online"}]

\* auth.env, auth.env.new, the token in memory, and the stack docker runs.
Host == [env : Secrets \cup {NULL}, tmp : Secrets \cup {NULL}, ram : Secrets \cup {NULL},
         leaving : BOOLEAN, stack : {"none", "up"}]

PeerRow == [id : Secrets, token : Secrets \cup {NULL}, status : {"offline", "online"}]
FedToken == [hash : Secrets, active : BOOLEAN]
Stack == [id : Secrets, owner : Secrets \cup {NULL}, status : {"created", "running", "stopped"}]

\* Names are distinct, and the absence of a row or of a secret is neither.
ASSUME ServersNames ==
  /\ Agents \cap Requests = {} /\ EARLIER \notin Agents \cup Requests
  /\ NULL \notin Secrets \cup ServerRow \cup PeerRow \cup FedToken \cup Stack

Idle == [op |-> "none", pc |-> "new", a |-> NULL, tok |-> NULL, id |-> NULL, legacy |-> FALSE,
         ctx |-> NULL, sid |-> NULL, snap |-> "none"]
Done == [Idle EXCEPT !.pc = "done"]
NoHost == [env |-> NULL, tmp |-> NULL, ram |-> NULL, leaving |-> FALSE, stack |-> "none"]
Enrolled(a, hash) == [id |-> a, boot |-> NULL, late |-> FALSE, token |-> a, hash |-> hash, status |-> "online"]
NoCache == [peer |-> NULL, snap |-> "none", sync |-> "pending"]

\* An agent that is not there, waits for its installation, or works (with a row from
\* before the hashes too); a peer that is not paired, or is and runs our stack.
Init ==
  /\ \E a \in [Agents -> {"none", "pending", "legacy", "works"}] :
       /\ row = [x \in Agents |-> CASE a[x] = "none" -> NULL
                   [] a[x] = "pending" -> [id |-> x, boot |-> x, late |-> FALSE, token |-> NULL,
                                           hash |-> NULL, status |-> "offline"]
                   [] a[x] = "legacy" -> Enrolled(x, NULL)
                   [] OTHER -> Enrolled(x, x)]
       /\ agent = [x \in Agents |-> IF a[x] \in {"legacy", "works"}
                     THEN [NoHost EXCEPT !.env = x, !.ram = x] ELSE NoHost]
  /\ \/ /\ peerRow = NULL /\ fed = [i \in Secrets |-> NULL] /\ stack = NULL
     \/ /\ peerRow = [id |-> EARLIER, token |-> EARLIER, status |-> "online"]
        /\ fed = [i \in Secrets |-> IF i = EARLIER THEN [hash |-> EARLIER, active |-> TRUE] ELSE NULL]
        /\ stack = [id |-> EARLIER, owner |-> EARLIER, status |-> "running"]
  /\ grant = TRUE /\ cache = NoCache
  /\ req = [r \in Requests |-> Idle]
  /\ log = [spent |-> [b \in Secrets |-> 0], fault |-> {}]
  /\ events = 0

-----------------------------------------------------------------------------
(* Requests.                                                                 *)

Arrives(r, op) == req[r].pc = "new" /\ op \in Ops
Take(r, op, pc, a, id, tok) ==
  req' = [req EXCEPT ![r] = [Idle EXCEPT !.op = op, !.pc = pc, !.a = a, !.id = id, !.tok = tok]]
Goto(r, pc) == req' = [req EXCEPT ![r].pc = pc]
End(r) == req' = [req EXCEPT ![r] = Done]

Exists(a) == row[a] # NULL
\* The row a request resolved is still there.
Same(r) == Exists(req[r].a) /\ row[req[r].a].id = req[r].id

\* A link met a fault: an answer was lost, or two rotations overlapped.
Faulty(link) == log' = [log EXCEPT !.fault = @ \cup {link}]

\* Another request is writing the token of the same agent.
Overlaps(r, a) == \E q \in Requests \ {r} : req[q].a = a /\ req[q].op \in {"rotate", "handshake"}

-----------------------------------------------------------------------------
(* Enrolment.                                                                *)

\* create, kind agent: a row with a bootstrap and no callable credential.
CreateAgent(r, a) ==
  /\ Arrives(r, "create") /\ ~Exists(a)
  /\ row' = [row EXCEPT ![a] = [id |-> r, boot |-> r, late |-> FALSE, token |-> NULL, hash |-> NULL,
                                status |-> "offline"]]
  /\ End(r)
  /\ UNCHANGED <<agent, peerVars, log, events>>

\* install.sh was issued for a row and its bootstrap b; the first lock reads the row.
HandshakeLookup(r, a, b) ==
  /\ Arrives(r, "handshake")
  /\ Exists(a) /\ row[a].boot = b /\ ~row[a].late
  /\ Take(r, "handshake", "redeem", a, row[a].id, b)
  /\ IF Overlaps(r, a) THEN Faulty(a) ELSE UNCHANGED log
  /\ UNCHANGED <<agentVars, peerVars, events>>

\* Mutant of Unspent: the row is found by its id only.
RowIsThere(r) == Same(r)

\* WHERE id AND bootstrap_token_hash: a handshake that came second updates no row.
Unspent(r) == Same(r) /\ row[req[r].a].boot = req[r].tok

\* Mutant of Redeemed: the bootstrap stays.
KeepsBootstrap(r) == [row[req[r].a] EXCEPT !.token = r, !.hash = r, !.status = "online"]

Redeemed(r) ==
  [row[req[r].a] EXCEPT !.boot = NULL, !.late = FALSE, !.token = r, !.hash = r, !.status = "online"]

HandshakeRedeem(r) ==
  LET a == req[r].a IN
  /\ req[r].pc = "redeem"
  /\ IF Unspent(r)
       THEN /\ row' = [row EXCEPT ![a] = Redeemed(r)]
            /\ log' = [log EXCEPT !.spent[req[r].tok] = @ + 1]
            /\ Goto(r, "install")
       ELSE End(r) /\ UNCHANGED <<row, log>>
  /\ UNCHANGED <<agent, peerVars, events>>

\* install_script writes auth.env and enables the unit (one that runs already keeps the
\* token it was started with), or the answer never arrives.
Install(r) ==
  LET a == req[r].a IN
  /\ req[r].pc = "install"
  /\ \/ /\ agent' = [agent EXCEPT ![a].env = r, ![a].ram = IF @ = NULL THEN r ELSE @]
        /\ UNCHANGED log
     \/ UNCHANGED agent /\ Faulty(a)
  /\ End(r)
  /\ UNCHANGED <<row, peerVars, events>>

RemoveServer(r, a) ==
  /\ Arrives(r, "remove") /\ Exists(a)
  /\ row' = [row EXCEPT ![a] = NULL]
  /\ End(r)
  /\ UNCHANGED <<agent, peerVars, log, events>>

\* heartbeat: by the hash, or by the plaintext of a row that has no hash.
HeartbeatResolve(r, a) ==
  LET t == agent[a].env IN
  /\ Arrives(r, "heartbeat") /\ t # NULL
  /\ Exists(a) /\ (row[a].hash = t \/ (row[a].hash = NULL /\ row[a].token = t))
  /\ req' = [req EXCEPT ![r] = [Idle EXCEPT !.op = "heartbeat", !.pc = "beat", !.a = a, !.tok = t,
                                            !.id = row[a].id, !.legacy = (row[a].hash = NULL)]]
  /\ UNCHANGED <<agentVars, peerVars, log, events>>

\* The second lock; the hash of a legacy row is filled in with what was presented.
HeartbeatUpdate(r) ==
  LET a == req[r].a IN
  /\ req[r].pc = "beat"
  /\ row' = IF ~Same(r) THEN row
            ELSE [row EXCEPT ![a].status = "online", ![a].hash = IF req[r].legacy THEN req[r].tok ELSE @]
  /\ End(r)
  /\ UNCHANGED <<agent, peerVars, log, events>>

-----------------------------------------------------------------------------
(* Rotation of an agent's token, by an operator or by the hourly scheduler.   *)

\* What a call to the agent will present, read once.
get_server_info(a) == row[a].token

RotateLookup(r, a) ==
  /\ Arrives(r, "rotate") /\ Exists(a) /\ get_server_info(a) # NULL
  /\ Take(r, "rotate", "push", a, row[a].id, get_server_info(a))
  /\ IF Overlaps(r, a) THEN Faulty(a) ELSE UNCHANGED log
  /\ UNCHANGED <<agentVars, peerVars, events>>

verify_token(a, t) == agent[a].ram # NULL /\ agent[a].ram = t

\* auth_rotate writes auth.env.new ...
AgentWrite(r) ==
  LET a == req[r].a IN
  /\ req[r].pc = "push"
  /\ IF verify_token(a, req[r].tok)
       THEN agent' = [agent EXCEPT ![a].tmp = r] /\ Goto(r, "rename")
       ELSE UNCHANGED agent /\ End(r)
  /\ UNCHANGED <<row, peerVars, log, events>>

\* ... renames it, and leaves half a second after the answer, which may be lost.
AgentRename(r) ==
  LET a == req[r].a IN
  /\ req[r].pc = "rename"
  /\ IF agent[a].tmp = NULL
       THEN End(r) /\ UNCHANGED <<agent, log>>
       ELSE /\ agent' = [agent EXCEPT ![a].env = agent[a].tmp, ![a].tmp = NULL, ![a].leaving = TRUE]
            /\ \/ req[r].id # NULL /\ Goto(r, "persist") /\ UNCHANGED log
               \/ End(r) /\ Faulty(a)
  /\ UNCHANGED <<row, peerVars, events>>

\* Mutant of NewToken: only the hash is stored.
HashOnly(r) == [row[req[r].a] EXCEPT !.hash = r]

NewToken(r) == [row[req[r].a] EXCEPT !.token = r, !.hash = r]

\* rotate_token_internal stores the token after the agent's answer.
RotatePersist(r) ==
  LET a == req[r].a IN
  /\ req[r].pc = "persist"
  /\ row' = IF Same(r) THEN [row EXCEPT ![a] = NewToken(r)] ELSE row
  /\ End(r)
  /\ UNCHANGED <<agent, peerVars, log, events>>

\* The process ends and systemd starts it with the new file; its calls are cut off.
Respawn(a) ==
  /\ agent[a].leaving
  /\ agent' = [agent EXCEPT ![a].ram = agent[a].env, ![a].leaving = FALSE]
  /\ req' = [r \in Requests |-> IF req[r].a = a /\ req[r].pc = "rename" THEN Done ELSE req[r]]
  /\ UNCHANGED <<row, peerVars, log, events>>

\* deploy_to_server and stop_on_server look the token up, then call the agent.
ProxyLookup(r, a) ==
  \E op \in {"deploy", "stop"} :
    /\ Arrives(r, op) /\ Exists(a)
    /\ Take(r, op, "call", a, row[a].id, get_server_info(a))
    /\ UNCHANGED <<agentVars, peerVars, log, events>>

\* The agent's deploy and stop; docker may fail, and a call may not arrive.
ProxyCall(r, op, then) ==
  LET a == req[r].a IN
  /\ req[r].pc = "call" /\ req[r].op = op
  /\ \/ verify_token(a, req[r].tok) /\ agent' = [agent EXCEPT ![a].stack = then]
     \/ UNCHANGED agent
  /\ End(r)
  /\ UNCHANGED <<row, peerVars, log, events>>
AgentDeploy(r) == ProxyCall(r, "deploy", "up")
AgentStop(r) == ProxyCall(r, "stop", "none")

\* test_connection of an agent asks /health, which any running agent answers whatever
\* token is presented, and then marks the row; without an answer nothing is written.
TestLookup(r, a) ==
  /\ Arrives(r, "test") /\ Exists(a)
  /\ Take(r, "test", "health", a, row[a].id, get_server_info(a))
  /\ UNCHANGED <<agentVars, peerVars, log, events>>
TestMark(r) ==
  LET a == req[r].a IN
  /\ req[r].pc = "health"
  /\ \/ /\ agent[a].ram # NULL
        /\ row' = IF Same(r) THEN [row EXCEPT ![a].status = "online"] ELSE row
     \/ UNCHANGED row
  /\ End(r)
  /\ UNCHANGED <<agent, peerVars, log, events>>

-----------------------------------------------------------------------------
(* A peer core: its grant and the row for it.                                *)

\* The operator creates a grant on the peer (grants.create) ...
CreateGrant(r) ==
  /\ Arrives(r, "peer") /\ peerRow = NULL
  /\ grant' = TRUE
  /\ Take(r, "peer", "paste", NULL, r, NULL)
  /\ UNCHANGED <<agentVars, peerRow, fed, stack, cache, log, events>>

\* ... and adds it here (create, kind peer), which ends with a probe.
CreatePeer(r) ==
  /\ req[r].pc = "paste" /\ peerRow = NULL
  /\ peerRow' = [id |-> r, token |-> NULL, status |-> "offline"]
  /\ Goto(r, "probe")
  /\ UNCHANGED <<agentVars, grant, fed, stack, cache, log, events>>

RevokeGrant(r) ==
  /\ Arrives(r, "revoke_grant") /\ grant
  /\ grant' = FALSE
  /\ End(r)
  /\ UNCHANGED <<agentVars, peerRow, fed, stack, cache, log, events>>

\* A probe by a request or by the heartbeat task.
ProbeLookup(r) ==
  /\ Arrives(r, "probe") /\ peerRow # NULL
  /\ Take(r, "probe", "probe", NULL, peerRow.id, NULL)
  /\ UNCHANGED <<agentVars, peerVars, log, events>>

SamePeer(r) == peerRow # NULL /\ peerRow.id = req[r].id

\* probe_peer stores the outcome under a second lock; mark_peer_error when it failed.
ProbeMark(r) ==
  /\ req[r].pc = "probe"
  /\ \E s \in IF grant THEN {"online", "offline"} ELSE {"offline"} :
       peerRow' = IF SamePeer(r) THEN [peerRow EXCEPT !.status = s] ELSE peerRow
  /\ End(r)
  /\ UNCHANGED <<agentVars, grant, fed, stack, cache, log, events>>

\* remove: the cached snapshot goes with the row (ON DELETE CASCADE).
RemovePeer(r) ==
  /\ Arrives(r, "remove") /\ peerRow # NULL
  /\ peerRow' = NULL /\ cache' = NoCache
  /\ End(r)
  /\ UNCHANGED <<agentVars, grant, fed, stack, log, events>>

-----------------------------------------------------------------------------
(* Federation tokens.                                                        *)

\* federation_tokens.create on the peer shows the secret once ...
CreateFedToken(r) ==
  /\ Arrives(r, "pair")
  /\ fed' = [fed EXCEPT ![r] = [hash |-> r, active |-> TRUE]]
  /\ Take(r, "pair", "paste_token", NULL, NULL, r)
  /\ UNCHANGED <<agentVars, peerRow, grant, stack, cache, log, events>>

\* ... and set_federation_token stores it on the primary.
SetFederationToken(r) ==
  /\ req[r].pc = "paste_token"
  /\ peerRow' = IF peerRow = NULL THEN NULL ELSE [peerRow EXCEPT !.token = req[r].tok]
  /\ End(r)
  /\ UNCHANGED <<agentVars, grant, fed, stack, cache, log, events>>

RevokeFedToken(r, i) ==
  /\ Arrives(r, "revoke_token") /\ fed[i] # NULL
  /\ fed' = [fed EXCEPT ![i].active = FALSE]
  /\ End(r)
  /\ UNCHANGED <<agentVars, peerRow, grant, stack, cache, log, events>>

StackOps == {"s_create", "s_update", "s_deploy", "s_down", "s_restart", "s_delete", "s_release"}

\* start_scheduler rotates one federation token after the other.
SchedulerFree == ~\E q \in Requests : req[q].op = "fed_rotate" /\ req[q].id # NULL

\* lookup_write_peer, for a request on a stack or for the rotation.
LookupWritePeer(r, op) ==
  /\ Arrives(r, op) /\ peerRow # NULL /\ peerRow.token # NULL
  /\ op = "fed_rotate" => SchedulerFree
  /\ Take(r, op, "auth", NULL, peerRow.id, peerRow.token)
  /\ UNCHANGED <<agentVars, peerVars, log, events>>

\* require_federation resolves the token to the id of its row, which the handler uses.
RequireFederation(r) ==
  LET known == {i \in Secrets : fed[i] # NULL /\ fed[i].active /\ fed[i].hash = req[r].tok} IN
  /\ req[r].pc = "auth"
  /\ IF known = {} THEN End(r)
     ELSE \E i \in known :
            req' = [req EXCEPT ![r].ctx = i, ![r].pc = IF req[r].op = "fed_rotate" THEN "swap" ELSE "stack"]
  /\ UNCHANGED <<agentVars, peerVars, log, events>>

\* rotate_token on the peer: the row keeps its id. The answer may be lost.
RotateOnPeer(r) ==
  /\ req[r].pc = "swap"
  /\ fed' = [fed EXCEPT ![req[r].ctx].hash = r]
  /\ \/ req[r].id # NULL /\ Goto(r, "store") /\ UNCHANGED log
     \/ End(r) /\ Faulty("peer")
  /\ UNCHANGED <<agentVars, peerRow, grant, stack, cache, events>>

\* rotate_federation_token_internal stores the answer.
StoreFedToken(r) ==
  /\ req[r].pc = "store"
  /\ peerRow' = IF SamePeer(r) THEN [peerRow EXCEPT !.token = r] ELSE peerRow
  /\ End(r)
  /\ UNCHANGED <<agentVars, grant, fed, stack, cache, log, events>>

-----------------------------------------------------------------------------
(* A stack on the peer, and the snapshot the primary keeps of it.            *)

assert_owned(ctx) == stack # NULL /\ stack.owner = ctx

CreateStack(r) ==
  /\ req[r].pc = "stack" /\ req[r].op = "s_create" /\ stack = NULL
  /\ stack' = [id |-> r, owner |-> req[r].ctx, status |-> "created"]
  /\ Goto(r, "sync")
  /\ UNCHANGED <<agentVars, peerRow, grant, fed, cache, log, events>>

\* One lock for the check and the change.
ChangeStack(r, op, then) ==
  /\ req[r].pc = "stack" /\ req[r].op = op
  /\ IF assert_owned(req[r].ctx) THEN stack' = then /\ Goto(r, "sync") ELSE End(r) /\ UNCHANGED stack
  /\ UNCHANGED <<agentVars, peerRow, grant, fed, cache, log, events>>

\* The text of the stack is left out.
UpdateStack(r) == ChangeStack(r, "s_update", stack)
\* The stack goes back to the peer's own operators.
ReleaseStack(r) == ChangeStack(r, "s_release", [stack EXCEPT !.owner = NULL])

\* The first lock of deploy, down, restart and delete: the owner is checked here only.
CheckStack(r) ==
  /\ req[r].pc = "stack" /\ req[r].op \in {"s_deploy", "s_down", "s_restart", "s_delete"}
  /\ IF assert_owned(req[r].ctx)
       THEN req' = [req EXCEPT ![r].pc = "docker", ![r].sid = stack.id] ELSE End(r)
  /\ UNCHANGED <<agentVars, peerVars, log, events>>

\* Docker has worked, or failed; the second lock stores the status.
FinishStack(r, op, status) ==
  /\ req[r].pc = "docker" /\ req[r].op = op
  /\ \/ /\ stack' = IF stack # NULL /\ stack.id = req[r].sid
                     THEN [stack EXCEPT !.status = status] ELSE stack
        /\ Goto(r, "sync")
     \/ End(r) /\ UNCHANGED stack
  /\ UNCHANGED <<agentVars, peerRow, grant, fed, cache, log, events>>

DeployStack(r) == FinishStack(r, "s_deploy", "running")
DownStack(r) == FinishStack(r, "s_down", "stopped")
\* Takes the stack down, whatever docker says, and deploys it; a deploy that fails leaves
\* the status as it was.
RestartStack(r) == FinishStack(r, "s_restart", "running")

\* delete_stack ignores what docker said.
DeleteStack(r) ==
  /\ req[r].pc = "docker" /\ req[r].op = "s_delete"
  /\ stack' = IF stack # NULL /\ stack.id = req[r].sid THEN NULL ELSE stack
  /\ Goto(r, "sync")
  /\ UNCHANGED <<agentVars, peerRow, grant, fed, cache, log, events>>

\* run_sync_pass: list_peer_endpoints ...
SyncList(r) ==
  /\ Arrives(r, "sync") \/ req[r].pc = "sync"
  /\ IF peerRow = NULL THEN End(r) ELSE Take(r, "sync", "fetch", NULL, peerRow.id, NULL)
  /\ UNCHANGED <<agentVars, peerVars, log, events>>

\* ... fetch_projects and fetch_stacks ...
SyncFetch(r) ==
  /\ req[r].pc = "fetch"
  /\ \/ /\ grant
        /\ req' = [req EXCEPT ![r].pc = "upsert", ![r].snap = IF stack = NULL THEN "gone" ELSE stack.status]
     \/ Goto(r, "error")
  /\ UNCHANGED <<agentVars, peerVars, log, events>>

\* peer_server_id REFERENCES servers(id).
Referenced(r) == SamePeer(r)

\* ... upsert_peer_cache: a transaction that fails as a whole ...
UpsertPeerCache(r) ==
  /\ req[r].pc = "upsert"
  /\ IF Referenced(r)
       THEN cache' = [cache EXCEPT !.peer = req[r].id, !.snap = req[r].snap] /\ Goto(r, "ok")
       ELSE UNCHANGED cache /\ Goto(r, "error")
  /\ UNCHANGED <<agentVars, peerRow, grant, fed, stack, log, events>>

\* ... record_peer_outcome.
RecordPeerOutcome(r) ==
  /\ req[r].pc \in {"ok", "error"}
  /\ cache' = IF Referenced(r) THEN [cache EXCEPT !.peer = req[r].id, !.sync = req[r].pc] ELSE cache
  /\ End(r)
  /\ UNCHANGED <<agentVars, peerRow, grant, fed, stack, log, events>>

-----------------------------------------------------------------------------
\* A bootstrap is used too late.
ExpireBootstrap(a) ==
  /\ events < MaxEvents /\ Exists(a) /\ row[a].boot # NULL /\ ~row[a].late
  /\ row' = [row EXCEPT ![a].late = TRUE]
  /\ events' = events + 1
  /\ UNCHANGED <<agent, peerVars, req, log>>

\* The core restarts. What an agent or the peer is working on goes on without a caller,
\* and a secret that was on its way is lost.
Crash ==
  LET remote == {"rename", "swap", "stack", "docker"}
      lost == {IF req[r].a = NULL THEN "peer" ELSE req[r].a :
                 r \in {q \in Requests : req[q].pc \in {"persist", "install", "store"}}}
  IN
  /\ events < MaxEvents
  /\ req' = [r \in Requests |-> CASE req[r].pc = "new" -> req[r]
                             [] req[r].pc \in remote -> [req[r] EXCEPT !.id = NULL]
                             [] OTHER -> Done]
  /\ log' = [log EXCEPT !.fault = @ \cup lost]
  /\ events' = events + 1
  /\ UNCHANGED <<agentVars, peerVars>>

Step(r) ==
  \/ \E a \in Agents : \/ CreateAgent(r, a) \/ RemoveServer(r, a) \/ HeartbeatResolve(r, a)
                       \/ RotateLookup(r, a) \/ ProxyLookup(r, a) \/ TestLookup(r, a)
                       \/ \E b \in Secrets : HandshakeLookup(r, a, b)
  \/ HandshakeRedeem(r) \/ Install(r) \/ HeartbeatUpdate(r)
  \/ AgentWrite(r) \/ AgentRename(r) \/ RotatePersist(r) \/ AgentDeploy(r) \/ AgentStop(r) \/ TestMark(r)
  \/ CreateGrant(r) \/ CreatePeer(r) \/ RevokeGrant(r) \/ ProbeLookup(r) \/ ProbeMark(r) \/ RemovePeer(r)
  \/ CreateFedToken(r) \/ SetFederationToken(r) \/ \E i \in Secrets : RevokeFedToken(r, i)
  \/ \E op \in StackOps \cup {"fed_rotate"} : LookupWritePeer(r, op)
  \/ RequireFederation(r) \/ RotateOnPeer(r) \/ StoreFedToken(r)
  \/ CreateStack(r) \/ UpdateStack(r) \/ ReleaseStack(r) \/ CheckStack(r)
  \/ DeployStack(r) \/ DownStack(r) \/ RestartStack(r) \/ DeleteStack(r)
  \/ SyncList(r) \/ SyncFetch(r) \/ UpsertPeerCache(r) \/ RecordPeerOutcome(r)

Next ==
  \/ \E r \in Requests : Step(r)
  \/ \E a \in Agents : Respawn(a) \/ ExpireBootstrap(a)
  \/ Crash

Spec == Init /\ [][Next]_vars

-----------------------------------------------------------------------------
\* Every row, host and token has its shape; a row holds a bootstrap or a credential,
\* never both (handshake clears the one when it stores the other).
ServersTypeOK ==
  /\ \A a \in Agents : /\ row[a] \in ServerRow \cup {NULL} /\ agent[a] \in Host
                       /\ Exists(a) => (row[a].boot = NULL) # (row[a].token = NULL)
  /\ peerRow \in PeerRow \cup {NULL} /\ grant \in BOOLEAN
  /\ fed \in [Secrets -> FedToken \cup {NULL}]
  /\ stack \in Stack \cup {NULL} /\ events \in 0 .. MaxEvents

\* A bootstrap token enrols one agent: of any number of handshakes with it, overlapping
\* and after an expiry too, one gets a credential (servers.rs, handshake).
BootstrapSpentOnce == \A b \in Secrets : log.spent[b] <= 1

Working(a) == \E r \in Requests : req[r].a = a /\ req[r].op \in {"rotate", "handshake"}

\* A rotation that meets no fault (no lost answer, no second writer, no crash) leaves both
\* ends with one secret: the agent's file with the token of its row, and the peer with a
\* hash of the federation token the primary holds (rotate_token_internal,
\* rotate_federation_token_internal).
RotationKeepsAccess ==
  /\ \A a \in Agents : (Exists(a) /\ row[a].token # NULL /\ ~Working(a) /\ a \notin log.fault)
                       => agent[a].env = row[a].token
  /\ (/\ peerRow # NULL /\ peerRow.token # NULL /\ "peer" \notin log.fault
      /\ \A r \in Requests : req[r].pc # "store")
     => \E i \in Secrets : fed[i] # NULL /\ fed[i].hash = peerRow.token
=============================================================================
