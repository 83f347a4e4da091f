---------------------------- MODULE ServersProofs ----------------------------
(* Theorems about Servers, for any number of agents and requests.            *)
EXTENDS Servers, TLAPS

USE DEF agentVars, peerVars

OpNames == {"none", "handshake", "heartbeat", "rotate", "deploy", "stop", "test", "peer", "probe", "pair",
            "fed_rotate", "sync"} \cup StackOps
AgentSteps == {"redeem", "install", "beat", "push", "rename", "persist", "call", "health"}
Steps == AgentSteps \cup {"new", "done", "paste", "probe", "paste_token", "auth", "swap", "store", "stack",
                          "docker", "sync", "fetch", "upsert", "ok", "error"}

ReqRow == [op : OpNames, pc : Steps, a : Agents \cup {NULL}, tok : Secrets \cup {NULL},
           id : Secrets \cup {NULL}, legacy : BOOLEAN, ctx : Secrets \cup {NULL}, sid : Secrets \cup {NULL},
           snap : {"none", "gone", "created", "running", "stopped"}]

\* What a request carries at each step.
ShapeOf(q) ==
  /\ q.pc \in AgentSteps => q.a \in Agents
  /\ q.op = "handshake" <=> q.pc \in {"redeem", "install"}
  /\ q.op = "rotate" <=> q.pc \in {"push", "rename", "persist"}
  /\ q.op = "fed_rotate" => q.pc \in {"auth", "swap", "store"} /\ q.a = NULL
  /\ q.pc \in {"swap", "store"} => q.op = "fed_rotate"
  /\ q.pc \in {"redeem", "beat", "auth", "paste_token"} => q.tok \in Secrets
  /\ q.pc \in {"swap", "store", "stack"} => q.ctx \in Secrets
  /\ q.pc \in {"persist", "install", "store"} => q.id # NULL
  /\ q.op = "fed_rotate" /\ q.pc = "auth" => q.id # NULL

ReqOK == req \in [Requests -> ReqRow] /\ \A r \in Requests : ShapeOf(req[r])

LogOK == log \in [spent : [Secrets -> Nat], fault : SUBSET (Agents \cup {"peer"})]

RowsOK ==
  /\ row \in [Agents -> ServerRow \cup {NULL}]
  /\ \A a \in Agents : Exists(a) => ((row[a].boot = NULL) # (row[a].token = NULL))

\* The inductive form of ServersTypeOK.
TypeInv ==
  /\ RowsOK /\ agent \in [Agents -> Host]
  /\ peerRow \in PeerRow \cup {NULL} /\ grant \in BOOLEAN
  /\ fed \in [Secrets -> FedToken \cup {NULL}]
  /\ stack \in Stack \cup {NULL} /\ events \in 0 .. MaxEvents
  /\ ReqOK /\ LogOK

-----------------------------------------------------------------------------
(* Bootstraps.                                                               *)

\* A bootstrap that was spent, or that a request has yet to mint, is on no row, and two
\* rows never carry the same one.
BootInv ==
  /\ \A b \in Secrets : /\ log.spent[b] <= 1
                        /\ log.spent[b] = 1 => \A a \in Agents : Exists(a) => row[a].boot # b
  /\ \A r \in Requests : req[r].pc = "new" =>
       log.spent[r] = 0 /\ \A a \in Agents : Exists(a) => row[a].boot # r
  /\ \A a, b \in Agents : Exists(a) /\ Exists(b) /\ row[a].boot = row[b].boot /\ row[a].boot # NULL => a = b

-----------------------------------------------------------------------------
(* The token of an agent.                                                    *)

Writes(r, a) == req[r].a = a /\ req[r].op \in {"rotate", "handshake"}
HasToken(a) == Exists(a) /\ row[a].token # NULL

\* What holds of an agent whose link met no fault: one writer at a time; a writer works
\* on the row it looked up; the file has the token of the row, unless the writer stands
\* between the two.
LinkOK(a) ==
  /\ \A r, q \in Requests : Writes(r, a) /\ Writes(q, a) => r = q
  /\ \A r \in Requests : Writes(r, a) /\ req[r].id # NULL /\ HasToken(a) => row[a].id = req[r].id
  /\ \A r \in Requests : Writes(r, a) /\ req[r].pc = "rename" => agent[a].tmp = r
  /\ \A r \in Requests : Writes(r, a) /\ req[r].pc = "persist" => agent[a].env = r
  /\ \A r \in Requests : Writes(r, a) /\ req[r].pc = "install" => (HasToken(a) => row[a].token = r)
  /\ HasToken(a) => \/ agent[a].env = row[a].token
                    \/ \E r \in Requests : Writes(r, a) /\ req[r].pc \in {"install", "persist"}

\* A request that has yet to start is the id of no row.
FreshIds ==
  \A q \in Requests : req[q].pc = "new" =>
    /\ \A a \in Agents : Exists(a) => row[a].id # q
    /\ peerRow # NULL => peerRow.id # q
    /\ \A r \in Requests : req[r].id # q

\* A rotation found a token on the row it looked up.
RotationSees ==
  \A r \in Requests : req[r].op = "rotate" /\ req[r].id # NULL /\ Same(r) => row[req[r].a].token # NULL

LinkInv == \A a \in Agents : a \notin log.fault => LinkOK(a)

-----------------------------------------------------------------------------
(* The federation token.                                                     *)

Finished(t) == t \in Requests => req[t].pc = "done"
Rotates(r) == req[r].op = "fed_rotate" /\ req[r].id # NULL
PeerToken == peerRow # NULL /\ peerRow.token # NULL
\* Row i of federation_tokens accepts what the primary holds.
Accepts(i) == fed[i] # NULL /\ fed[i].hash = peerRow.token

\* The row a rotation authenticated with is never deleted.
FedSees == \A r \in Requests : req[r].pc \in {"swap", "store"} => fed[req[r].ctx] # NULL

TokenInv ==
  /\ \A r, q \in Requests : Rotates(r) /\ Rotates(q) => r = q
  /\ PeerToken => Finished(peerRow.token)
  /\ \A r \in Requests : req[r].pc = "auth" => Finished(req[r].tok)
  /\ \A r \in Requests : req[r].pc = "new" => fed[r] = NULL
  /\ \A r \in Requests : req[r].pc = "paste_token" =>
       /\ req[r].tok = r /\ fed[r] # NULL /\ fed[r].hash = r
       /\ \A q \in Requests : req[q].pc \in {"swap", "store"} => req[q].ctx # r

\* What holds while the link to the peer has met no fault.
PeerLinkOK ==
  /\ \A r \in Requests : req[r].pc = "store" => fed[req[r].ctx].hash = r
  /\ PeerToken => (\E i \in Secrets : Accepts(i)) \/ \E r \in Requests : req[r].pc = "store" /\ SamePeer(r)
  /\ \A r \in Requests : PeerToken /\ Rotates(r) /\ ~SamePeer(r) =>
       /\ req[r].pc = "auth" => req[r].tok # peerRow.token
       /\ req[r].pc \in {"swap", "store"} => \E i \in Secrets : Accepts(i) /\ i # req[r].ctx

PeerInv == TokenInv /\ ("peer" \notin log.fault => PeerLinkOK)

-----------------------------------------------------------------------------
(* The variables of a request.                                               *)

\* The ids a request can take over at a step.
KnownId(r, i) ==
  \/ i \in {NULL, r, req[r].id}
  \/ \E a \in Agents : Exists(a) /\ i = row[a].id
  \/ peerRow # NULL /\ i = peerRow.id

Becomes(r, q) ==
  /\ req' = [req EXCEPT ![r] = q]
  /\ q \in ReqRow /\ ShapeOf(q) /\ q.pc # "new" /\ KnownId(r, q.id)

LEMMA IdleRow == Idle \in ReqRow /\ Idle.pc = "new" /\ Idle.op = "none" /\ Idle.id = NULL /\ Idle.ctx = NULL
BY DEF Idle, ReqRow, OpNames, Steps

LEMMA DoneRow == Done \in ReqRow /\ Done.pc = "done" /\ Done.op = "none" /\ Done.id = NULL /\ ShapeOf(Done)
<1>1. Done \in ReqRow /\ Done.pc = "done" /\ Done.op = "none" /\ Done.id = NULL
  BY IdleRow DEF Done, ReqRow, Steps
<1> QED BY <1>1 DEF ShapeOf, AgentSteps

LEMMA Ends ==
  ASSUME NEW r \in Requests, End(r)
  PROVE  Becomes(r, Done)
BY DoneRow DEF End, Becomes, KnownId

LEMMA Goes ==
  ASSUME ReqOK, NEW r \in Requests, NEW pc \in Steps \ {"new"}, Goto(r, pc),
         ShapeOf([req[r] EXCEPT !.pc = pc])
  PROVE  Becomes(r, [req[r] EXCEPT !.pc = pc])
<1> DEFINE q == [req[r] EXCEPT !.pc = pc]
<1>1. req[r] \in ReqRow
  BY DEF ReqOK
<1>2. q \in ReqRow /\ q.pc = pc /\ q.id = req[r].id
  BY <1>1 DEF ReqRow
<1>3. req' = [req EXCEPT ![r] = q]
  BY DEF Goto
<1> HIDE DEF q
<1>4. ShapeOf(q)
  BY DEF q
<1> QED BY <1>2, <1>3, <1>4 DEF Becomes, KnownId, q

\* A request that starts with an agent's row, the peer's row or its own name as id.
LEMMA Taken ==
  ASSUME NEW r \in Requests, NEW op \in OpNames, NEW pc \in Steps \ {"new"}, NEW a \in Agents \cup {NULL},
         NEW id \in Secrets \cup {NULL}, NEW tok \in Secrets \cup {NULL}, Take(r, op, pc, a, id, tok),
         ShapeOf([Idle EXCEPT !.op = op, !.pc = pc, !.a = a, !.id = id, !.tok = tok]), KnownId(r, id)
  PROVE  Becomes(r, [Idle EXCEPT !.op = op, !.pc = pc, !.a = a, !.id = id, !.tok = tok])
<1> DEFINE q == [Idle EXCEPT !.op = op, !.pc = pc, !.a = a, !.id = id, !.tok = tok]
<1>1. q \in ReqRow /\ q.pc = pc /\ q.id = id
  BY IdleRow DEF ReqRow
<1>2. req' = [req EXCEPT ![r] = q]
  BY DEF Take
<1> HIDE DEF q
<1>3. ShapeOf(q)
  BY DEF q
<1> QED BY <1>1, <1>2, <1>3 DEF Becomes, q

LEMMA TakenShape ==
  ASSUME NEW op \in OpNames, NEW pc \in Steps, NEW a \in Agents \cup {NULL},
         NEW id \in Secrets \cup {NULL}, NEW tok \in Secrets \cup {NULL},
         pc \in AgentSteps => a \in Agents,
         op = "handshake" <=> pc \in {"redeem", "install"},
         op = "rotate" <=> pc \in {"push", "rename", "persist"},
         op = "fed_rotate" => pc = "auth" /\ id # NULL /\ a = NULL,
         pc \in {"redeem", "beat", "auth", "paste_token"} => tok \in Secrets,
         pc \notin {"persist", "install", "swap", "store", "stack"}
  PROVE  ShapeOf([Idle EXCEPT !.op = op, !.pc = pc, !.a = a, !.id = id, !.tok = tok])
<1> DEFINE q == [Idle EXCEPT !.op = op, !.pc = pc, !.a = a, !.id = id, !.tok = tok]
<1>1. q.op = op /\ q.pc = pc /\ q.a = a /\ q.id = id /\ q.tok = tok
  BY IdleRow DEF ReqRow
<1> HIDE DEF q
<1>2. ShapeOf(q)
  BY <1>1 DEF ShapeOf
<1> QED BY <1>2 DEF q

\* The steps that write an agent's token, and those that write or present a federation token.
AgentWork(r) ==
  \/ \E a \in Agents : RotateLookup(r, a) \/ \E b \in Secrets : HandshakeLookup(r, a, b)
  \/ HandshakeRedeem(r) \/ Install(r) \/ AgentWrite(r) \/ AgentRename(r) \/ RotatePersist(r)
FedWork(r) ==
  \/ CreateFedToken(r) \/ SetFederationToken(r) \/ RequireFederation(r) \/ RotateOnPeer(r) \/ StoreFedToken(r)
  \/ \E op \in StackOps \cup {"fed_rotate"} : LookupWritePeer(r, op)

\* The request is not, and does not become, one of these.
AgentQuiet(r, q) == q.op \notin {"rotate", "handshake"} /\ req[r].pc \notin {"install", "persist"}
FedQuiet(r, q) ==
  q.op # "fed_rotate" /\ q.pc \notin {"auth", "swap", "store", "paste_token"} /\ req[r].pc # "store"

Moves(r) ==
  \E q \in ReqRow :
    /\ Becomes(r, q) /\ req[r].pc # "done"
    /\ AgentWork(r) \/ AgentQuiet(r, q)
    /\ FedWork(r) \/ FedQuiet(r, q)

LEMMA StepMoves ==
  ASSUME TypeInv, NEW r \in Requests, Step(r)
  PROVE  Moves(r)
<1>1. ReqOK /\ req[r] \in ReqRow /\ ShapeOf(req[r])
  BY DEF TypeInv, ReqOK
<1>2. ASSUME End(r), req[r].pc # "done", AgentWork(r) \/ req[r].pc \notin {"install", "persist"},
             FedWork(r) \/ req[r].pc # "store"
      PROVE  Moves(r)
  <2>1. Becomes(r, Done)
    BY <1>2, Ends
  <2> QED BY <1>2, <2>1, DoneRow DEF Moves, AgentQuiet, FedQuiet
<1>3. ASSUME NEW pc \in Steps \ {"new"}, Goto(r, pc), req[r].pc # "done",
             AgentWork(r) \/ (pc \notin AgentSteps /\ req[r].pc \notin {"install", "persist"}),
             FedWork(r) \/ (pc \notin {"auth", "swap", "store", "paste_token"} /\ req[r].pc # "store"),
             ShapeOf([req[r] EXCEPT !.pc = pc])
      PROVE  Moves(r)
  <2> DEFINE q == [req[r] EXCEPT !.pc = pc]
  <2>1. Becomes(r, q)
    BY <1>1, <1>3, Goes
  <2>2. q \in ReqRow /\ q.pc = pc /\ q.op = req[r].op
    BY <1>1, <1>3 DEF ReqRow
  <2> HIDE DEF q
  <2>3. ShapeOf(q)
    BY <2>1 DEF Becomes
  <2> QED BY <1>3, <2>1, <2>2, <2>3 DEF Moves, AgentQuiet, FedQuiet, ShapeOf, AgentSteps
<1>4. CASE HeartbeatUpdate(r)
  BY <1>2, <1>4 DEF HeartbeatUpdate, Arrives
<1>5. CASE TestMark(r)
  BY <1>2, <1>5 DEF TestMark, Arrives
<1>6. CASE RevokeGrant(r)
  BY <1>2, <1>6 DEF RevokeGrant, Arrives
<1>7. CASE ProbeMark(r)
  BY <1>2, <1>7 DEF ProbeMark, Arrives
<1>8. CASE RemovePeer(r)
  BY <1>2, <1>8 DEF RemovePeer, Arrives
<1>9. CASE RecordPeerOutcome(r)
  BY <1>2, <1>9 DEF RecordPeerOutcome, Arrives
<1>10. CASE AgentDeploy(r)
  BY <1>2, <1>10 DEF AgentDeploy, ProxyCall
<1>11. CASE AgentStop(r)
  BY <1>2, <1>11 DEF AgentStop, ProxyCall
<1>12. CASE Install(r)
  BY <1>2, <1>12 DEF Install, AgentWork
<1>13. CASE RotatePersist(r)
  BY <1>2, <1>13 DEF RotatePersist, AgentWork
<1>14. CASE SetFederationToken(r)
  BY <1>2, <1>14 DEF SetFederationToken, FedWork
<1>15. CASE StoreFedToken(r)
  BY <1>2, <1>15 DEF StoreFedToken, FedWork
<1>16. ASSUME NEW a \in Agents, CreateAgent(r, a) \/ RemoveServer(r, a)
      PROVE  Moves(r)
  BY <1>2, <1>16 DEF CreateAgent, RemoveServer, Arrives
<1>17. ASSUME NEW i \in Secrets, RevokeFedToken(r, i)
      PROVE  Moves(r)
  BY <1>2, <1>17 DEF RevokeFedToken, Arrives
<1>18. CASE HandshakeRedeem(r)
  <2>1. CASE Unspent(r)
    <3>1. req[r].a \in Agents
      BY <1>1, <1>18 DEF HandshakeRedeem, ShapeOf, AgentSteps
    <3>2. row[req[r].a] \in ServerRow
      BY <2>1, <3>1 DEF Unspent, Same, Exists, TypeInv, RowsOK
    <3>3. req[r].id # NULL
      BY <2>1, <3>2, ServersNames DEF Unspent, Same, ServerRow
    <3>4. ShapeOf([req[r] EXCEPT !.pc = "install"])
      BY <1>1, <1>18, <3>3 DEF HandshakeRedeem, ShapeOf, ReqRow, AgentSteps
    <3> QED BY <1>3, <1>18, <2>1, <3>4 DEF HandshakeRedeem, Steps, AgentSteps, AgentWork
  <2> QED BY <1>2, <1>18, <2>1 DEF HandshakeRedeem, AgentWork
<1>19. CASE AgentWrite(r)
  <2>1. CASE Goto(r, "rename")
    <3>1. ShapeOf([req[r] EXCEPT !.pc = "rename"])
      BY <1>1, <1>19, <2>1 DEF AgentWrite, ShapeOf, ReqRow, AgentSteps
    <3> QED BY <1>3, <1>19, <2>1, <3>1 DEF AgentWrite, Steps, AgentSteps, AgentWork, FedWork
  <2> QED BY <1>2, <1>19, <2>1 DEF AgentWrite, AgentWork, FedWork
<1>20. CASE AgentRename(r)
  <2>1. CASE Goto(r, "persist") /\ req[r].id # NULL
    <3>1. ShapeOf([req[r] EXCEPT !.pc = "persist"])
      BY <1>1, <1>20, <2>1 DEF AgentRename, ShapeOf, ReqRow, AgentSteps
    <3> QED BY <1>3, <1>20, <2>1, <3>1 DEF AgentRename, Steps, AgentSteps, AgentWork, FedWork
  <2> QED BY <1>2, <1>20, <2>1 DEF AgentRename, AgentWork, FedWork
<1>21. CASE CreatePeer(r)
  <2>1. CASE Goto(r, "probe")
    <3>1. ShapeOf([req[r] EXCEPT !.pc = "probe"])
      BY <1>1, <1>21, <2>1 DEF CreatePeer, ShapeOf, ReqRow, AgentSteps
    <3> QED BY <1>3, <1>21, <2>1, <3>1 DEF CreatePeer, Steps, AgentSteps, AgentWork, FedWork
  <2> QED BY <1>2, <1>21, <2>1 DEF CreatePeer, AgentWork, FedWork
<1>22. CASE RotateOnPeer(r)
  <2>1. CASE Goto(r, "store") /\ req[r].id # NULL
    <3>1. ShapeOf([req[r] EXCEPT !.pc = "store"])
      BY <1>1, <1>22, <2>1 DEF RotateOnPeer, ShapeOf, ReqRow, AgentSteps
    <3> QED BY <1>3, <1>22, <2>1, <3>1 DEF RotateOnPeer, Steps, AgentSteps, AgentWork, FedWork
  <2> QED BY <1>2, <1>22, <2>1 DEF RotateOnPeer, AgentWork, FedWork
<1>23. CASE CreateStack(r)
  <2>1. CASE Goto(r, "sync")
    <3>1. ShapeOf([req[r] EXCEPT !.pc = "sync"])
      BY <1>1, <1>23, <2>1 DEF CreateStack, ShapeOf, ReqRow, AgentSteps
    <3> QED BY <1>3, <1>23, <2>1, <3>1 DEF CreateStack, Steps, AgentSteps, AgentWork, FedWork
  <2> QED BY <1>2, <1>23, <2>1 DEF CreateStack, AgentWork, FedWork
<1>24. CASE UpdateStack(r)
  <2>1. CASE Goto(r, "sync")
    <3>1. ShapeOf([req[r] EXCEPT !.pc = "sync"])
      BY <1>1, <1>24, <2>1 DEF UpdateStack, ShapeOf, ReqRow, AgentSteps, ChangeStack
    <3> QED BY <1>3, <1>24, <2>1, <3>1 DEF UpdateStack, Steps, AgentSteps, AgentWork, FedWork, ChangeStack
  <2> QED BY <1>2, <1>24, <2>1 DEF UpdateStack, AgentWork, FedWork, ChangeStack
<1>25. CASE ReleaseStack(r)
  <2>1. CASE Goto(r, "sync")
    <3>1. ShapeOf([req[r] EXCEPT !.pc = "sync"])
      BY <1>1, <1>25, <2>1 DEF ReleaseStack, ShapeOf, ReqRow, AgentSteps, ChangeStack
    <3> QED BY <1>3, <1>25, <2>1, <3>1 DEF ReleaseStack, Steps, AgentSteps, AgentWork, FedWork, ChangeStack
  <2> QED BY <1>2, <1>25, <2>1 DEF ReleaseStack, AgentWork, FedWork, ChangeStack
<1>26. CASE DeployStack(r)
  <2>1. CASE Goto(r, "sync")
    <3>1. ShapeOf([req[r] EXCEPT !.pc = "sync"])
      BY <1>1, <1>26, <2>1 DEF DeployStack, ShapeOf, ReqRow, AgentSteps, FinishStack
    <3> QED BY <1>3, <1>26, <2>1, <3>1 DEF DeployStack, Steps, AgentSteps, AgentWork, FedWork, FinishStack
  <2> QED BY <1>2, <1>26, <2>1 DEF DeployStack, AgentWork, FedWork, FinishStack
<1>27. CASE DownStack(r)
  <2>1. CASE Goto(r, "sync")
    <3>1. ShapeOf([req[r] EXCEPT !.pc = "sync"])
      BY <1>1, <1>27, <2>1 DEF DownStack, ShapeOf, ReqRow, AgentSteps, FinishStack
    <3> QED BY <1>3, <1>27, <2>1, <3>1 DEF DownStack, Steps, AgentSteps, AgentWork, FedWork, FinishStack
  <2> QED BY <1>2, <1>27, <2>1 DEF DownStack, AgentWork, FedWork, FinishStack
<1>28. CASE RestartStack(r)
  <2>1. CASE Goto(r, "sync")
    <3>1. ShapeOf([req[r] EXCEPT !.pc = "sync"])
      BY <1>1, <1>28, <2>1 DEF RestartStack, ShapeOf, ReqRow, AgentSteps, FinishStack
    <3> QED BY <1>3, <1>28, <2>1, <3>1 DEF RestartStack, Steps, AgentSteps, AgentWork, FedWork, FinishStack
  <2> QED BY <1>2, <1>28, <2>1 DEF RestartStack, AgentWork, FedWork, FinishStack
<1>29. CASE DeleteStack(r)
  <2>1. CASE Goto(r, "sync")
    <3>1. ShapeOf([req[r] EXCEPT !.pc = "sync"])
      BY <1>1, <1>29, <2>1 DEF DeleteStack, ShapeOf, ReqRow, AgentSteps
    <3> QED BY <1>3, <1>29, <2>1, <3>1 DEF DeleteStack, Steps, AgentSteps, AgentWork, FedWork
  <2> QED BY <1>2, <1>29, <2>1 DEF DeleteStack, AgentWork, FedWork
<1>30. CASE UpsertPeerCache(r)
  <2>1. \A pc \in {"ok", "error"} : ShapeOf([req[r] EXCEPT !.pc = pc])
    BY <1>1, <1>30 DEF UpsertPeerCache, ShapeOf, ReqRow, AgentSteps
  <2> QED BY <1>3, <1>30, <2>1 DEF UpsertPeerCache, Steps, AgentSteps
<1>31. ASSUME NEW op \in OpNames, NEW pc \in Steps \ {"new"}, NEW a \in Agents \cup {NULL},
             NEW id \in Secrets \cup {NULL}, NEW tok \in Secrets \cup {NULL}, Take(r, op, pc, a, id, tok),
             KnownId(r, id), req[r].pc \notin {"done", "install", "persist", "store"},
             pc \in AgentSteps => a \in Agents,
             op = "handshake" <=> pc \in {"redeem", "install"},
             op = "rotate" <=> pc \in {"push", "rename", "persist"},
             op = "fed_rotate" => pc = "auth" /\ id # NULL /\ a = NULL,
             pc \in {"redeem", "beat", "auth", "paste_token"} => tok \in Secrets,
             pc \notin {"rename", "persist", "install", "swap", "store", "stack"},
             AgentWork(r) \/ pc \notin {"redeem", "push"}, FedWork(r) \/ pc \notin {"auth", "paste_token"}
      PROVE  Moves(r)
  <2> DEFINE q == [Idle EXCEPT !.op = op, !.pc = pc, !.a = a, !.id = id, !.tok = tok]
  <2>1. ShapeOf(q)
    BY <1>31, TakenShape
  <2>2. Becomes(r, q)
    BY <1>31, <2>1, Taken
  <2>3. q \in ReqRow /\ q.pc = pc /\ q.op = op
    BY IdleRow DEF ReqRow
  <2> HIDE DEF q
  <2>4. AgentWork(r) \/ AgentQuiet(r, q)
    BY <1>31, <2>3 DEF AgentQuiet
  <2>5. FedWork(r) \/ FedQuiet(r, q)
    BY <1>31, <2>3 DEF FedQuiet
  <2> QED BY <1>31, <2>2, <2>3, <2>4, <2>5 DEF Moves
<1>32. ASSUME NEW a \in Agents, Exists(a)
      PROVE  row[a] \in ServerRow /\ row[a].id \in Secrets /\ row[a].token \in Secrets \cup {NULL}
             /\ KnownId(r, row[a].id)
  <2>1. row[a] \in ServerRow
    BY <1>32 DEF TypeInv, RowsOK, Exists
  <2> QED BY <1>32, <2>1 DEF ServerRow, KnownId
<1>33. ASSUME NEW a \in Agents, NEW b \in Secrets, HandshakeLookup(r, a, b)
      PROVE  Moves(r)
  <2>1. Take(r, "handshake", "redeem", a, row[a].id, b) /\ Exists(a) /\ req[r].pc = "new" /\ AgentWork(r)
    BY <1>33 DEF HandshakeLookup, Arrives, AgentWork
  <2> QED BY <1>31, <1>32, <2>1 DEF OpNames, Steps, AgentSteps
<1>34. ASSUME NEW a \in Agents, RotateLookup(r, a)
      PROVE  Moves(r)
  <2>1. Take(r, "rotate", "push", a, row[a].id, row[a].token) /\ Exists(a) /\ req[r].pc = "new" /\ AgentWork(r)
    BY <1>34 DEF RotateLookup, Arrives, AgentWork, get_server_info
  <2> QED BY <1>31, <1>32, <2>1 DEF OpNames, Steps, AgentSteps
<1>35. ASSUME NEW a \in Agents, NEW op \in {"deploy", "stop", "test"}, Arrives(r, op), Exists(a),
             Take(r, op, IF op = "test" THEN "health" ELSE "call", a, row[a].id, row[a].token)
      PROVE  Moves(r)
  <2>1. req[r].pc = "new"
    BY <1>35 DEF Arrives
  <2> QED BY <1>31, <1>32, <1>35, <2>1 DEF OpNames, Steps, AgentSteps
<1>36. ASSUME NEW a \in Agents, ProxyLookup(r, a) \/ TestLookup(r, a)
      PROVE  Moves(r)
  BY <1>35, <1>36 DEF ProxyLookup, TestLookup, get_server_info
<1>37. CASE CreateGrant(r)
  <2>1. Take(r, "peer", "paste", NULL, r, NULL) /\ req[r].pc = "new" /\ KnownId(r, r) /\ r \in Secrets
    BY <1>37 DEF CreateGrant, Arrives, KnownId, Secrets
  <2> QED BY <1>31, <2>1 DEF OpNames, Steps, AgentSteps
<1>38. CASE CreateFedToken(r)
  <2>1. /\ Take(r, "pair", "paste_token", NULL, NULL, r) /\ req[r].pc = "new" /\ KnownId(r, NULL)
        /\ r \in Secrets /\ FedWork(r)
    BY <1>38 DEF CreateFedToken, Arrives, KnownId, Secrets, FedWork
  <2> QED BY <1>31, <2>1 DEF OpNames, Steps, AgentSteps
<1>39. ASSUME peerRow # NULL
      PROVE  /\ peerRow.id \in Secrets /\ peerRow.id # NULL /\ KnownId(r, peerRow.id)
             /\ peerRow.token \in Secrets \cup {NULL}
  <2>1. peerRow \in PeerRow
    BY <1>39 DEF TypeInv
  <2> QED BY <1>39, <2>1, ServersNames DEF PeerRow, KnownId
<1>40. CASE ProbeLookup(r)
  <2>1. Take(r, "probe", "probe", NULL, peerRow.id, NULL) /\ req[r].pc = "new" /\ peerRow # NULL
    BY <1>40 DEF ProbeLookup, Arrives
  <2> QED BY <1>31, <1>39, <2>1 DEF OpNames, Steps, AgentSteps
<1>41. ASSUME NEW op \in StackOps \cup {"fed_rotate"}, LookupWritePeer(r, op)
      PROVE  Moves(r)
  <2>1. /\ Take(r, op, "auth", NULL, peerRow.id, peerRow.token) /\ req[r].pc = "new"
        /\ peerRow # NULL /\ peerRow.token # NULL /\ FedWork(r)
    BY <1>41 DEF LookupWritePeer, Arrives, FedWork
  <2>2. op \in OpNames /\ op \notin {"handshake", "rotate"} /\ "auth" \in Steps
    BY DEF OpNames, StackOps, Steps
  <2>3. peerRow.token \in Secrets /\ peerRow.id \in Secrets /\ peerRow.id # NULL /\ KnownId(r, peerRow.id)
    BY <1>39, <2>1
  <2> QED BY <1>31, <2>1, <2>2, <2>3 DEF AgentSteps
<1>42. CASE SyncList(r)
  <2>1. req[r].pc \in {"new", "sync"}
    BY <1>42 DEF SyncList, Arrives
  <2>2. CASE Take(r, "sync", "fetch", NULL, peerRow.id, NULL) /\ peerRow # NULL
    BY <1>31, <1>39, <2>1, <2>2 DEF OpNames, Steps, AgentSteps
  <2> QED BY <1>2, <1>42, <2>1, <2>2 DEF SyncList
<1>43. ASSUME NEW a \in Agents, HeartbeatResolve(r, a)
      PROVE  Moves(r)
  <2> DEFINE q == [Idle EXCEPT !.op = "heartbeat", !.pc = "beat", !.a = a, !.tok = agent[a].env,
                               !.id = row[a].id, !.legacy = (row[a].hash = NULL)]
  <2>1. req' = [req EXCEPT ![r] = q] /\ req[r].pc = "new" /\ Exists(a) /\ agent[a].env # NULL
    BY <1>43 DEF HeartbeatResolve, Arrives
  <2>2. agent[a].env \in Secrets
    BY <2>1 DEF TypeInv, Host
  <2>3. row[a].id \in Secrets /\ KnownId(r, row[a].id)
    BY <1>32, <2>1
  <2>4. (row[a].hash = NULL) \in BOOLEAN
    OBVIOUS
  <2>b. "heartbeat" \in OpNames /\ "beat" \in Steps
    BY DEF OpNames, Steps, AgentSteps
  <2>5. /\ q \in ReqRow /\ q.pc = "beat" /\ q.op = "heartbeat" /\ q.id = row[a].id
        /\ q.tok = agent[a].env /\ q.a = a
    <3> DEFINE new == (row[a].hash = NULL)
    <3>1. new \in BOOLEAN
      BY <2>4
    <3> HIDE DEF new
    <3> QED BY <2>2, <2>3, <2>b, <3>1, IdleRow DEF ReqRow
  <2> HIDE DEF q
  <2>6. ShapeOf(q)
    BY <2>2, <2>5 DEF ShapeOf, AgentSteps
  <2> QED BY <2>1, <2>3, <2>5, <2>6 DEF Moves, Becomes, AgentQuiet, FedQuiet
<1>44. CASE RequireFederation(r)
  <2>1. ASSUME NEW i \in Secrets,
               req' = [req EXCEPT ![r].ctx = i, ![r].pc = IF req[r].op = "fed_rotate" THEN "swap" ELSE "stack"]
        PROVE  Moves(r)
    <3> DEFINE pc == IF req[r].op = "fed_rotate" THEN "swap" ELSE "stack"
    <3> DEFINE q == [req[r] EXCEPT !.ctx = i, !.pc = pc]
    <3>0. pc \in Steps
      BY DEF Steps
    <3>1. req' = [req EXCEPT ![r] = q]
      BY <1>1, <2>1 DEF ReqOK, ReqRow
    <3>2. /\ q \in ReqRow /\ q.pc = pc /\ q.op = req[r].op /\ q.ctx = i /\ q.id = req[r].id
          /\ q.a = req[r].a
      BY <1>1, <3>0 DEF ReqRow
    <3>3. req[r].pc = "auth"
      BY <1>44 DEF RequireFederation
    <3> HIDE DEF q
    <3>4. ShapeOf(q) /\ q.op \notin {"handshake", "rotate"}
      BY <1>1, <3>2, <3>3 DEF ShapeOf, AgentSteps
    <3>5. FedWork(r)
      BY <1>44 DEF FedWork
    <3> QED BY <3>1, <3>2, <3>3, <3>4, <3>5 DEF Moves, Becomes, KnownId, AgentQuiet
  <2> QED BY <1>2, <1>44, <2>1 DEF RequireFederation
<1>45. CASE CheckStack(r)
  <2>1. CASE req' = [req EXCEPT ![r].pc = "docker", ![r].sid = stack.id] /\ stack # NULL
    <3> DEFINE q == [req[r] EXCEPT !.pc = "docker", !.sid = stack.id]
    <3>1. req' = [req EXCEPT ![r] = q]
      BY <1>1, <2>1 DEF ReqOK, ReqRow
    <3>2. stack.id \in Secrets
      BY <2>1 DEF TypeInv, Stack
    <3>3. q \in ReqRow /\ q.pc = "docker" /\ q.op = req[r].op /\ q.id = req[r].id
      BY <1>1, <3>2 DEF ReqRow, Steps
    <3>4. req[r].pc = "stack"
      BY <1>45 DEF CheckStack
    <3> HIDE DEF q
    <3>5. ShapeOf(q) /\ q.op \notin {"handshake", "rotate", "fed_rotate"}
      BY <1>1, <3>3, <3>4 DEF ShapeOf, AgentSteps
    <3> QED BY <3>1, <3>3, <3>4, <3>5 DEF Moves, Becomes, KnownId, AgentQuiet, FedQuiet
  <2> QED BY <1>2, <1>45, <2>1 DEF CheckStack, assert_owned
<1>46. CASE SyncFetch(r)
  <2>1. CASE Goto(r, "error")
    <3>1. ShapeOf([req[r] EXCEPT !.pc = "error"])
      BY <1>1, <1>46 DEF SyncFetch, ShapeOf, ReqRow, AgentSteps
    <3> QED BY <1>3, <1>46, <2>1, <3>1 DEF SyncFetch, Steps, AgentSteps
  <2>2. CASE req' = [req EXCEPT ![r].pc = "upsert", ![r].snap = IF stack = NULL THEN "gone" ELSE stack.status]
    <3> DEFINE snap == IF stack = NULL THEN "gone" ELSE stack.status
    <3> DEFINE q == [req[r] EXCEPT !.pc = "upsert", !.snap = snap]
    <3>1. req' = [req EXCEPT ![r] = q]
      BY <1>1, <2>2 DEF ReqOK, ReqRow
    <3>2. snap \in {"gone", "created", "running", "stopped"}
      BY DEF TypeInv, Stack
    <3> HIDE DEF snap
    <3>3. q \in ReqRow /\ q.pc = "upsert" /\ q.op = req[r].op /\ q.id = req[r].id
      <4>1. PICK k \in ReqRow : req[r] = k
        BY <1>1 DEF ReqOK
      <4>2. "upsert" \in Steps
        BY DEF Steps
      <4> QED BY <3>2, <4>1, <4>2 DEF ReqRow
    <3>4. req[r].pc = "fetch"
      BY <1>46 DEF SyncFetch
    <3> HIDE DEF q
    <3>5. ShapeOf(q) /\ q.op \notin {"handshake", "rotate", "fed_rotate"}
      BY <1>1, <3>3, <3>4 DEF ShapeOf, AgentSteps
    <3> QED BY <3>1, <3>3, <3>4, <3>5 DEF Moves, Becomes, KnownId, AgentQuiet, FedQuiet
  <2> QED BY <1>46, <2>1, <2>2 DEF SyncFetch
<1> QED
  BY <1>4, <1>5, <1>6, <1>7, <1>8, <1>9, <1>10, <1>11, <1>12, <1>13, <1>14, <1>15, <1>16, <1>17,
     <1>18, <1>19, <1>20, <1>21, <1>22, <1>23, <1>24, <1>25, <1>26, <1>27, <1>28, <1>29, <1>30,
     <1>33, <1>34, <1>36, <1>37, <1>38, <1>40, <1>41, <1>42, <1>43, <1>44, <1>45, <1>46 DEF Step

-----------------------------------------------------------------------------
(* Which steps write which table.                                            *)

WritesRow(r) ==
  \/ (\E a \in Agents : CreateAgent(r, a) \/ RemoveServer(r, a))
  \/ HandshakeRedeem(r) \/ HeartbeatUpdate(r) \/ RotatePersist(r) \/ TestMark(r)
WritesAgent(r) == Install(r) \/ AgentWrite(r) \/ AgentRename(r) \/ AgentDeploy(r) \/ AgentStop(r)
WritesPeer(r) == CreatePeer(r) \/ ProbeMark(r) \/ RemovePeer(r) \/ SetFederationToken(r) \/ StoreFedToken(r)
WritesFed(r) == CreateFedToken(r) \/ RotateOnPeer(r) \/ \E i \in Secrets : RevokeFedToken(r, i)
WritesStack(r) ==
  CreateStack(r) \/ ReleaseStack(r) \/ DeployStack(r) \/ DownStack(r) \/ RestartStack(r) \/ DeleteStack(r)
WritesLog(r) ==
  \/ \E a \in Agents : RotateLookup(r, a) \/ \E b \in Secrets : HandshakeLookup(r, a, b)
  \/ HandshakeRedeem(r) \/ Install(r) \/ AgentRename(r) \/ RotateOnPeer(r)

Frames(r) ==
  /\ row' = row \/ WritesRow(r)
  /\ agent' = agent \/ WritesAgent(r)
  /\ peerRow' = peerRow \/ WritesPeer(r)
  /\ fed' = fed \/ WritesFed(r)
  /\ stack' = stack \/ WritesStack(r)
  /\ grant' = grant \/ CreateGrant(r) \/ RevokeGrant(r)
  /\ log' = log \/ WritesLog(r)
  /\ events' = events

LEMMA StepFrames ==
  ASSUME NEW r \in Requests, Step(r)
  PROVE  Frames(r)
<1> USE DEF Frames, WritesRow, WritesAgent, WritesPeer, WritesFed, WritesStack, WritesLog
<1>1. CASE HandshakeRedeem(r)
  BY <1>1 DEF HandshakeRedeem
<1>2. CASE Install(r)
  BY <1>2 DEF Install
<1>3. CASE HeartbeatUpdate(r)
  BY <1>3 DEF HeartbeatUpdate
<1>4. CASE AgentWrite(r)
  BY <1>4 DEF AgentWrite
<1>5. CASE AgentRename(r)
  BY <1>5 DEF AgentRename
<1>6. CASE RotatePersist(r)
  BY <1>6 DEF RotatePersist
<1>7. CASE TestMark(r)
  BY <1>7 DEF TestMark
<1>8. CASE CreateGrant(r)
  BY <1>8 DEF CreateGrant
<1>9. CASE CreatePeer(r)
  BY <1>9 DEF CreatePeer
<1>10. CASE RevokeGrant(r)
  BY <1>10 DEF RevokeGrant
<1>11. CASE ProbeLookup(r)
  BY <1>11 DEF ProbeLookup
<1>12. CASE ProbeMark(r)
  BY <1>12 DEF ProbeMark
<1>13. CASE RemovePeer(r)
  BY <1>13 DEF RemovePeer
<1>14. CASE CreateFedToken(r)
  BY <1>14 DEF CreateFedToken
<1>15. CASE SetFederationToken(r)
  BY <1>15 DEF SetFederationToken
<1>16. CASE RequireFederation(r)
  BY <1>16 DEF RequireFederation
<1>17. CASE RotateOnPeer(r)
  BY <1>17 DEF RotateOnPeer
<1>18. CASE StoreFedToken(r)
  BY <1>18 DEF StoreFedToken
<1>19. CASE CreateStack(r)
  BY <1>19 DEF CreateStack
<1>20. CASE CheckStack(r)
  BY <1>20 DEF CheckStack
<1>21. CASE DeleteStack(r)
  BY <1>21 DEF DeleteStack
<1>22. CASE SyncList(r)
  BY <1>22 DEF SyncList
<1>23. CASE SyncFetch(r)
  BY <1>23 DEF SyncFetch
<1>24. CASE UpsertPeerCache(r)
  BY <1>24 DEF UpsertPeerCache
<1>25. CASE RecordPeerOutcome(r)
  BY <1>25 DEF RecordPeerOutcome
<1>26. CASE UpdateStack(r)
  BY <1>26 DEF UpdateStack, ChangeStack
<1>27. CASE ReleaseStack(r)
  BY <1>27 DEF ReleaseStack, ChangeStack
<1>28. CASE DeployStack(r)
  BY <1>28 DEF DeployStack, FinishStack
<1>29. CASE DownStack(r)
  BY <1>29 DEF DownStack, FinishStack
<1>30. CASE RestartStack(r)
  BY <1>30 DEF RestartStack, FinishStack
<1>31. CASE AgentDeploy(r)
  BY <1>31 DEF AgentDeploy, ProxyCall
<1>32. CASE AgentStop(r)
  BY <1>32 DEF AgentStop, ProxyCall
<1>33. ASSUME NEW a \in Agents, CreateAgent(r, a) PROVE Frames(r)
  BY <1>33 DEF CreateAgent
<1>34. ASSUME NEW a \in Agents, RemoveServer(r, a) PROVE Frames(r)
  BY <1>34 DEF RemoveServer
<1>35. ASSUME NEW a \in Agents, HeartbeatResolve(r, a) PROVE Frames(r)
  BY <1>35 DEF HeartbeatResolve
<1>36. ASSUME NEW a \in Agents, RotateLookup(r, a) PROVE Frames(r)
  BY <1>36 DEF RotateLookup
<1>37. ASSUME NEW a \in Agents, ProxyLookup(r, a) PROVE Frames(r)
  BY <1>37 DEF ProxyLookup
<1>38. ASSUME NEW a \in Agents, TestLookup(r, a) PROVE Frames(r)
  BY <1>38 DEF TestLookup
<1>39. ASSUME NEW a \in Agents, NEW b \in Secrets, HandshakeLookup(r, a, b) PROVE Frames(r)
  BY <1>39 DEF HandshakeLookup
<1>40. ASSUME NEW i \in Secrets, RevokeFedToken(r, i) PROVE Frames(r)
  BY <1>40 DEF RevokeFedToken
<1>41. ASSUME NEW op \in StackOps \cup {"fed_rotate"}, LookupWritePeer(r, op) PROVE Frames(r)
  BY <1>41 DEF LookupWritePeer
<1> HIDE DEF Frames
<1> QED
  BY <1>1, <1>2, <1>3, <1>4, <1>5, <1>6, <1>7, <1>8, <1>9, <1>10, <1>11, <1>12, <1>13, <1>14, <1>15,
     <1>16, <1>17, <1>18, <1>19, <1>20, <1>21, <1>22, <1>23, <1>24, <1>25, <1>26, <1>27, <1>28,
     <1>29, <1>30, <1>31, <1>32, <1>33, <1>34, <1>35, <1>36, <1>37, <1>38, <1>39, <1>40, <1>41 DEF
     Step

-----------------------------------------------------------------------------
(* What a step may do to the row of an agent.                                *)

RowGone == \E a \in Agents : row' = [row EXCEPT ![a] = NULL]
RowCreated(r) ==
  \E a \in Agents, x \in ServerRow :
    /\ ~Exists(a) /\ req[r].pc = "new" /\ row' = [row EXCEPT ![a] = x]
    /\ x.id = r /\ x.boot = r /\ x.token = NULL
RowTouched ==
  \E a \in Agents, x \in ServerRow :
    /\ Exists(a) /\ row' = [row EXCEPT ![a] = x]
    /\ x.id = row[a].id /\ x.boot = row[a].boot /\ x.token = row[a].token
RowRedeemed(r) ==
  \E x \in ServerRow :
    /\ req[r].a \in Agents /\ req[r].pc = "redeem" /\ Unspent(r) /\ HandshakeRedeem(r)
    /\ row' = [row EXCEPT ![req[r].a] = x]
    /\ x.id = row[req[r].a].id /\ x.boot = NULL /\ x.token = r
RowRotated(r) ==
  \E x \in ServerRow :
    /\ req[r].a \in Agents /\ req[r].pc = "persist" /\ Same(r) /\ RotatePersist(r)
    /\ row' = [row EXCEPT ![req[r].a] = x]
    /\ x.id = row[req[r].a].id /\ x.boot = row[req[r].a].boot /\ x.token = r

LEMMA RowOf ==
  ASSUME TypeInv, NEW a \in Agents, Exists(a)
  PROVE  row[a] \in ServerRow
BY DEF TypeInv, RowsOK, Exists

LEMMA StepRow ==
  ASSUME TypeInv, NEW r \in Requests, Step(r)
  PROVE  row' = row \/ RowGone \/ RowCreated(r) \/ RowTouched \/ RowRedeemed(r) \/ RowRotated(r)
<1>1. req[r] \in ReqRow /\ ShapeOf(req[r]) /\ r \in Secrets /\ row \in [Agents -> ServerRow \cup {NULL}]
  BY DEF TypeInv, ReqOK, Secrets, RowsOK
<1>2. row' = row \/ WritesRow(r)
  BY StepFrames DEF Frames
<1>3. ASSUME NEW a \in Agents, CreateAgent(r, a) PROVE RowCreated(r)
  <2> DEFINE x == [id |-> r, boot |-> r, late |-> FALSE, token |-> NULL, hash |-> NULL, status |-> "offline"]
  <2>1. x \in ServerRow
    BY <1>1 DEF ServerRow
  <2>2. x.id = r /\ x.boot = r /\ x.token = NULL
    OBVIOUS
  <2>3. row' = [row EXCEPT ![a] = x] /\ ~Exists(a) /\ req[r].pc = "new"
    BY <1>3 DEF CreateAgent, Arrives
  <2> HIDE DEF x
  <2> QED BY <2>1, <2>2, <2>3 DEF RowCreated
<1>4. ASSUME NEW a \in Agents, RemoveServer(r, a) PROVE RowGone
  BY <1>4 DEF RemoveServer, RowGone
<1>5. CASE HandshakeRedeem(r)
  <2>1. req[r].a \in Agents /\ req[r].pc = "redeem"
    BY <1>1, <1>5 DEF HandshakeRedeem, ShapeOf, AgentSteps
  <2>2. CASE Unspent(r)
    <3>1. row[req[r].a] \in ServerRow
      BY <2>1, <2>2, RowOf DEF Unspent, Same
    <3>2. Redeemed(r) \in ServerRow
      BY <1>1, <3>1 DEF Redeemed, ServerRow
    <3>3. Redeemed(r).id = row[req[r].a].id /\ Redeemed(r).boot = NULL /\ Redeemed(r).token = r
      BY <1>1, <3>1 DEF Redeemed, ServerRow
    <3>4. row' = [row EXCEPT ![req[r].a] = Redeemed(r)]
      BY <1>5, <2>2 DEF HandshakeRedeem
    <3> QED BY <1>5, <2>1, <2>2, <3>2, <3>3, <3>4 DEF RowRedeemed
  <2> QED BY <1>5, <2>2 DEF HandshakeRedeem
<1>6. CASE RotatePersist(r)
  <2>1. req[r].a \in Agents /\ req[r].pc = "persist"
    BY <1>1, <1>6 DEF RotatePersist, ShapeOf, AgentSteps
  <2>2. CASE Same(r)
    <3>1. row[req[r].a] \in ServerRow
      BY <2>1, <2>2, RowOf DEF Same
    <3>2. NewToken(r) \in ServerRow
      BY <1>1, <3>1 DEF NewToken, ServerRow
    <3>3. /\ NewToken(r).id = row[req[r].a].id /\ NewToken(r).boot = row[req[r].a].boot
          /\ NewToken(r).token = r
      BY <1>1, <3>1 DEF NewToken, ServerRow
    <3>4. row' = [row EXCEPT ![req[r].a] = NewToken(r)]
      BY <1>6, <2>2 DEF RotatePersist
    <3> QED BY <1>6, <2>1, <2>2, <3>2, <3>3, <3>4 DEF RowRotated
  <2> QED BY <1>6, <2>2 DEF RotatePersist
<1>7. ASSUME NEW a \in Agents, Exists(a), NEW h \in Secrets \cup {NULL}, NEW b \in {"online", "offline"},
             row' = [row EXCEPT ![a] = [row[a] EXCEPT !.status = b, !.hash = h]]
      PROVE  RowTouched
  <2> DEFINE x == [row[a] EXCEPT !.status = b, !.hash = h]
  <2>1. row[a] \in ServerRow
    BY <1>7, RowOf
  <2>2. x \in ServerRow /\ x.id = row[a].id /\ x.boot = row[a].boot /\ x.token = row[a].token
    BY <2>1 DEF ServerRow
  <2> HIDE DEF x
  <2>3. row' = [row EXCEPT ![a] = x]
    BY <1>7 DEF x
  <2> QED BY <1>7, <2>2, <2>3 DEF RowTouched
<1>8. CASE HeartbeatUpdate(r)
  <2>1. req[r].a \in Agents /\ req[r].tok \in Secrets
    BY <1>1, <1>8 DEF HeartbeatUpdate, ShapeOf, AgentSteps
  <2>2. CASE Same(r)
    <3> DEFINE a == req[r].a
    <3> DEFINE h == IF req[r].legacy THEN req[r].tok ELSE row[a].hash
    <3>1. row[a] \in ServerRow /\ Exists(a)
      BY <2>1, <2>2, RowOf DEF Same
    <3>2. h \in Secrets \cup {NULL}
      BY <2>1, <3>1 DEF ServerRow
    <3>3. row' = [row EXCEPT ![a].status = "online", ![a].hash = IF req[r].legacy THEN req[r].tok ELSE @]
      BY <1>8, <2>2 DEF HeartbeatUpdate
    <3>4. row' = [row EXCEPT ![a] = [row[a] EXCEPT !.status = "online", !.hash = h]]
      BY <1>1, <2>1, <3>1, <3>3 DEF ServerRow
    <3> HIDE DEF a, h
    <3>5. a \in Agents
      BY <2>1 DEF a
    <3> QED BY <1>7, <3>1, <3>2, <3>4, <3>5
  <2> QED BY <1>8, <2>2 DEF HeartbeatUpdate
<1>9. CASE TestMark(r)
  <2>1. req[r].a \in Agents
    BY <1>1, <1>9 DEF TestMark, ShapeOf, AgentSteps
  <2>2. CASE Same(r) /\ row' = [row EXCEPT ![req[r].a].status = "online"]
    <3> DEFINE a == req[r].a
    <3>1. row[a] \in ServerRow /\ Exists(a)
      BY <2>1, <2>2, RowOf DEF Same
    <3>2. row[a].hash \in Secrets \cup {NULL}
      BY <3>1 DEF ServerRow
    <3>3. [row[a] EXCEPT !.status = "online"] = [row[a] EXCEPT !.status = "online", !.hash = row[a].hash]
      BY <3>1 DEF ServerRow
    <3>4. row' = [row EXCEPT ![a] = [row[a] EXCEPT !.status = "online", !.hash = row[a].hash]]
      BY <2>2, <3>3
    <3> HIDE DEF a
    <3>5. a \in Agents
      BY <2>1 DEF a
    <3> QED BY <1>7, <3>1, <3>2, <3>4, <3>5
  <2> QED BY <1>9, <2>2 DEF TestMark
<1> QED BY <1>2, <1>3, <1>4, <1>5, <1>6, <1>8, <1>9 DEF WritesRow

-----------------------------------------------------------------------------
(* What a step may do to the peer and to its federation tokens.        *)

PeerCreated(r) == peerRow = NULL /\ peerRow' \in PeerRow /\ peerRow'.id = r /\ peerRow'.token = NULL
PeerTouched ==
  /\ peerRow # NULL /\ peerRow' \in PeerRow
  /\ peerRow'.id = peerRow.id /\ peerRow'.token = peerRow.token
PeerPaired(r) ==
  /\ peerRow # NULL /\ peerRow' \in PeerRow /\ req[r].pc = "paste_token" /\ SetFederationToken(r)
  /\ peerRow'.id = peerRow.id /\ peerRow'.token = req[r].tok
PeerRotated(r) ==
  /\ SamePeer(r) /\ peerRow' \in PeerRow /\ req[r].pc = "store" /\ StoreFedToken(r)
  /\ peerRow'.id = peerRow.id /\ peerRow'.token = r

LEMMA StepPeerRow ==
  ASSUME TypeInv, NEW r \in Requests, Step(r)
  PROVE  \/ peerRow' = peerRow \/ peerRow' = NULL
         \/ PeerCreated(r) \/ PeerTouched \/ PeerPaired(r) \/ PeerRotated(r)
<1>1. ShapeOf(req[r]) /\ r \in Secrets /\ (peerRow # NULL => peerRow \in PeerRow)
  BY DEF TypeInv, ReqOK, Secrets
<1>2. peerRow' = peerRow \/ WritesPeer(r)
  BY StepFrames DEF Frames
<1>3. CASE CreatePeer(r)
  BY <1>1, <1>3 DEF CreatePeer, PeerCreated, PeerRow
<1>4. CASE ProbeMark(r)
  <2>1. PICK st \in {"online", "offline"} :
          peerRow' = IF SamePeer(r) THEN [peerRow EXCEPT !.status = st] ELSE peerRow
    BY <1>4 DEF ProbeMark
  <2>2. CASE SamePeer(r)
    <3>1. peerRow # NULL /\ peerRow \in PeerRow
      BY <1>1, <2>2 DEF SamePeer
    <3> QED BY <2>1, <2>2, <3>1 DEF PeerTouched, PeerRow
  <2> QED BY <2>1, <2>2
<1>5. CASE RemovePeer(r)
  BY <1>5 DEF RemovePeer
<1>6. CASE SetFederationToken(r)
  <2>1. req[r].pc = "paste_token" /\ req[r].tok \in Secrets
    BY <1>1, <1>6 DEF SetFederationToken, ShapeOf
  <2>2. CASE peerRow # NULL
    <3>1. peerRow' = [peerRow EXCEPT !.token = req[r].tok] /\ peerRow \in PeerRow
      BY <1>1, <1>6, <2>2 DEF SetFederationToken
    <3> QED BY <1>6, <2>1, <2>2, <3>1 DEF PeerPaired, PeerRow
  <2> QED BY <1>6, <2>2 DEF SetFederationToken
<1>7. CASE StoreFedToken(r)
  <2>1. CASE SamePeer(r)
    <3>1. peerRow' = [peerRow EXCEPT !.token = r] /\ peerRow \in PeerRow /\ req[r].pc = "store"
      BY <1>1, <1>7, <2>1 DEF StoreFedToken, SamePeer
    <3> QED BY <1>1, <1>7, <2>1, <3>1 DEF PeerRotated, PeerRow
  <2> QED BY <1>7, <2>1 DEF StoreFedToken
<1> QED BY <1>2, <1>3, <1>4, <1>5, <1>6, <1>7 DEF WritesPeer

FedCreated(r) ==
  \E x \in FedToken : /\ req[r].pc = "new" /\ fed' = [fed EXCEPT ![r] = x] /\ x.hash = r
                       /\ CreateFedToken(r)
FedTouched ==
  \E i \in Secrets, x \in FedToken :
    fed[i] # NULL /\ fed' = [fed EXCEPT ![i] = x] /\ x.hash = fed[i].hash
FedRotated(r) ==
  \E x \in FedToken : /\ req[r].pc = "swap" /\ req[r].ctx \in Secrets /\ fed' = [fed EXCEPT ![req[r].ctx] = x]
                       /\ x.hash = r /\ RotateOnPeer(r)

LEMMA StepFed ==
  ASSUME TypeInv, FedSees, NEW r \in Requests, Step(r)
  PROVE  fed' = fed \/ FedCreated(r) \/ FedTouched \/ FedRotated(r)
<1>1. ShapeOf(req[r]) /\ r \in Secrets /\ fed \in [Secrets -> FedToken \cup {NULL}]
  BY DEF TypeInv, ReqOK, Secrets
<1>2. fed' = fed \/ WritesFed(r)
  BY StepFrames DEF Frames
<1>3. CASE CreateFedToken(r)
  <2> DEFINE x == [hash |-> r, active |-> TRUE]
  <2>1. x \in FedToken /\ x.hash = r
    BY <1>1 DEF FedToken
  <2>2. fed' = [fed EXCEPT ![r] = x] /\ req[r].pc = "new"
    BY <1>3 DEF CreateFedToken, Arrives
  <2> HIDE DEF x
  <2> QED BY <1>3, <2>1, <2>2 DEF FedCreated
<1>4. CASE RotateOnPeer(r)
  <2> DEFINE x == [fed[req[r].ctx] EXCEPT !.hash = r]
  <2>1. req[r].pc = "swap" /\ req[r].ctx \in Secrets
    BY <1>1, <1>4 DEF RotateOnPeer, ShapeOf
  <2>2. fed[req[r].ctx] \in FedToken
    BY <1>1, <2>1 DEF FedSees
  <2>3. x \in FedToken /\ x.hash = r
    BY <1>1, <2>2 DEF FedToken
  <2>4. fed' = [fed EXCEPT ![req[r].ctx] = x]
    BY <1>4 DEF RotateOnPeer
  <2> HIDE DEF x
  <2> QED BY <1>4, <2>1, <2>3, <2>4 DEF FedRotated
<1>5. ASSUME NEW i \in Secrets, RevokeFedToken(r, i) PROVE FedTouched
  <2> DEFINE x == [fed[i] EXCEPT !.active = FALSE]
  <2>1. fed[i] # NULL /\ fed[i] \in FedToken
    BY <1>1, <1>5 DEF RevokeFedToken
  <2>2. x \in FedToken /\ x.hash = fed[i].hash
    BY <2>1 DEF FedToken
  <2>3. fed' = [fed EXCEPT ![i] = x]
    BY <1>5 DEF RevokeFedToken
  <2> HIDE DEF x
  <2> QED BY <2>1, <2>2, <2>3 DEF FedTouched
<1> QED BY <1>2, <1>3, <1>4, <1>5 DEF WritesFed

\* The types of what the steps leave on the hosts, on the peer and in the history.
LEMMA StepOthers ==
  ASSUME TypeInv, FedSees, NEW r \in Requests, Step(r)
  PROVE  /\ agent' \in [Agents -> Host] /\ grant' \in BOOLEAN /\ stack' \in Stack \cup {NULL}
         /\ peerRow' \in PeerRow \cup {NULL} /\ fed' \in [Secrets -> FedToken \cup {NULL}]
         /\ events' \in 0 .. MaxEvents /\ LogOK'
<1>1. /\ ShapeOf(req[r]) /\ req[r] \in ReqRow /\ r \in Secrets /\ fed \in [Secrets -> FedToken \cup {NULL}]
      /\ agent \in [Agents -> Host] /\ grant \in BOOLEAN /\ stack \in Stack \cup {NULL}
      /\ peerRow \in PeerRow \cup {NULL} /\ LogOK /\ events \in 0 .. MaxEvents
  BY DEF TypeInv, ReqOK, Secrets
<1>2. Frames(r)
  BY StepFrames
<1>3. agent' \in [Agents -> Host]
  <2>1. ASSUME NEW a \in Agents PROVE agent[a] \in Host
    BY <1>1
  <2>2. CASE Install(r)
    <3>1. req[r].a \in Agents
      BY <1>1, <2>2 DEF Install, ShapeOf, AgentSteps
    <3>2. agent[req[r].a] \in Host
      BY <2>1, <3>1
    <3> QED BY <1>1, <2>2, <3>1, <3>2 DEF Install, Host
  <2>3. CASE AgentWrite(r)
    <3>1. req[r].a \in Agents
      BY <1>1, <2>3 DEF AgentWrite, ShapeOf, AgentSteps
    <3>2. agent[req[r].a] \in Host
      BY <2>1, <3>1
    <3> QED BY <1>1, <2>3, <3>1, <3>2 DEF AgentWrite, Host
  <2>4. CASE AgentRename(r)
    <3>1. req[r].a \in Agents
      BY <1>1, <2>4 DEF AgentRename, ShapeOf, AgentSteps
    <3>2. agent[req[r].a] \in Host
      BY <2>1, <3>1
    <3> QED BY <1>1, <2>4, <3>1, <3>2 DEF AgentRename, Host
  <2>5. ASSUME NEW op \in {"deploy", "stop"}, NEW then \in {"none", "up"}, ProxyCall(r, op, then)
        PROVE  agent' \in [Agents -> Host]
    <3>1. req[r].a \in Agents
      BY <1>1, <2>5 DEF ProxyCall, ShapeOf, AgentSteps
    <3>2. agent[req[r].a] \in Host
      BY <2>1, <3>1
    <3> QED BY <1>1, <2>5, <3>1, <3>2 DEF ProxyCall, Host
  <2> QED BY <1>1, <1>2, <2>2, <2>3, <2>4, <2>5 DEF Frames, WritesAgent, AgentDeploy, AgentStop
<1>4. grant' \in BOOLEAN
  BY <1>1, <1>2 DEF Frames, CreateGrant, RevokeGrant
<1>5. stack' \in Stack \cup {NULL}
  <2>1. CASE CreateStack(r)
    BY <1>1, <2>1 DEF CreateStack, Stack, ShapeOf
  <2>2. CASE ReleaseStack(r)
    <3>1. CASE stack # NULL
      <4>1. [stack EXCEPT !.owner = NULL] \in Stack
        BY <1>1, <3>1 DEF Stack
      <4> QED BY <1>1, <2>2, <4>1 DEF ReleaseStack, ChangeStack
    <3> QED BY <1>1, <2>2, <3>1 DEF ReleaseStack, ChangeStack, assert_owned
  <2>3. ASSUME NEW op \in {"s_deploy", "s_down", "s_restart"}, NEW st \in {"running", "stopped"},
               FinishStack(r, op, st)
        PROVE  stack' \in Stack \cup {NULL}
    <3>1. CASE stack # NULL
      <4>1. [stack EXCEPT !.status = st] \in Stack
        BY <1>1, <3>1 DEF Stack
      <4> QED BY <1>1, <2>3, <4>1 DEF FinishStack
    <3> QED BY <1>1, <2>3, <3>1 DEF FinishStack
  <2>4. CASE DeleteStack(r)
    BY <1>1, <2>4 DEF DeleteStack
  <2> QED BY <1>1, <1>2, <2>1, <2>2, <2>3, <2>4 DEF Frames, WritesStack, DeployStack, DownStack, RestartStack
<1>6. peerRow' \in PeerRow \cup {NULL}
  BY <1>1, StepPeerRow DEF PeerCreated, PeerTouched, PeerPaired, PeerRotated
<1>7. fed' \in [Secrets -> FedToken \cup {NULL}]
  BY <1>1, StepFed DEF FedCreated, FedTouched, FedRotated
<1>8. LogOK'
  <2>1. ASSUME NEW link \in Agents \cup {"peer"}, Faulty(link) PROVE LogOK'
    BY <1>1, <2>1 DEF LogOK, Faulty
  <2>2. CASE UNCHANGED log
    BY <1>1, <2>2 DEF LogOK
  <2>3. ASSUME NEW a \in Agents, RotateLookup(r, a) PROVE LogOK'
    BY <2>1, <2>2, <2>3 DEF RotateLookup
  <2>4. ASSUME NEW a \in Agents, NEW b \in Secrets, HandshakeLookup(r, a, b) PROVE LogOK'
    BY <2>1, <2>2, <2>4 DEF HandshakeLookup
  <2>5. CASE HandshakeRedeem(r)
    <3>1. req[r].tok \in Secrets
      BY <1>1, <2>5 DEF HandshakeRedeem, ShapeOf
    <3>2. CASE log' = [log EXCEPT !.spent[req[r].tok] = @ + 1]
      BY <1>1, <3>1, <3>2 DEF LogOK
    <3> QED BY <2>2, <2>5, <3>2 DEF HandshakeRedeem
  <2>6. CASE Install(r)
    <3>1. req[r].a \in Agents
      BY <1>1, <2>6 DEF Install, ShapeOf, AgentSteps
    <3> QED BY <2>1, <2>2, <2>6, <3>1 DEF Install
  <2>7. CASE AgentRename(r)
    <3>1. req[r].a \in Agents
      BY <1>1, <2>7 DEF AgentRename, ShapeOf, AgentSteps
    <3> QED BY <2>1, <2>2, <2>7, <3>1 DEF AgentRename
  <2>8. CASE RotateOnPeer(r)
    BY <2>1, <2>2, <2>8 DEF RotateOnPeer
  <2> QED BY <1>2, <2>2, <2>3, <2>4, <2>5, <2>6, <2>7, <2>8 DEF Frames, WritesLog
<1> QED BY <1>1, <1>2, <1>3, <1>4, <1>5, <1>6, <1>7, <1>8 DEF Frames

-----------------------------------------------------------------------------
(* Identity of rows and requests.                                           *)

\* The invariants the others rest on.
Core == TypeInv /\ FreshIds /\ RotationSees /\ FedSees

LEMMA StepReq ==
  ASSUME TypeInv, NEW r \in Requests, Step(r)
  PROVE  /\ ReqOK'
         /\ req'[r].pc # "new" /\ KnownId(r, req'[r].id) /\ req[r].pc # "done"
         /\ \A p \in Requests \ {r} : req'[p] = req[p]
<1>1. PICK q \in ReqRow : Becomes(r, q) /\ req[r].pc # "done"
  BY StepMoves DEF Moves
<1>2. req \in [Requests -> ReqRow] /\ \A p \in Requests : ShapeOf(req[p])
  BY DEF TypeInv, ReqOK
<1>3. req' \in [Requests -> ReqRow] /\ req'[r] = q /\ \A p \in Requests \ {r} : req'[p] = req[p]
  BY <1>1, <1>2 DEF Becomes
<1>4. ReqOK'
  BY <1>1, <1>2, <1>3 DEF ReqOK, Becomes
<1> QED BY <1>1, <1>3, <1>4 DEF Becomes

LEMMA StepFreshIds ==
  ASSUME TypeInv, FreshIds, NEW r \in Requests, Step(r)
  PROVE  FreshIds'
<1>0. /\ req'[r].pc # "new" /\ KnownId(r, req'[r].id)
      /\ \A p \in Requests \ {r} : req'[p] = req[p]
      /\ row \in [Agents -> ServerRow \cup {NULL}]
  BY StepReq DEF TypeInv, RowsOK
<1> SUFFICES ASSUME NEW q \in Requests, req'[q].pc = "new"
             PROVE  /\ \A a \in Agents : Exists(a)' => row'[a].id # q
                    /\ peerRow' # NULL => peerRow'.id # q
                    /\ \A p \in Requests : req'[p].id # q
  BY DEF FreshIds
<1>1. q # r /\ req[q].pc = "new"
  BY <1>0
<1>2. /\ \A a \in Agents : Exists(a) => row[a].id # q
      /\ peerRow # NULL => peerRow.id # q
      /\ \A p \in Requests : req[p].id # q
  BY <1>1 DEF FreshIds
<1>3. \A p \in Requests : req'[p].id # q
  <2>1. req'[r].id # q
    BY <1>0, <1>1, <1>2, ServersConstants DEF KnownId
  <2> QED BY <1>0, <1>2, <2>1
<1>4. peerRow' # NULL => peerRow'.id # q
  BY <1>1, <1>2, StepPeerRow DEF PeerCreated, PeerTouched, PeerPaired, PeerRotated, SamePeer
<1>5. \A a \in Agents : Exists(a)' => row'[a].id # q
  <2>1. CASE row' = row
    BY <1>2, <2>1 DEF Exists
  <2>2. CASE RowGone
    BY <1>0, <1>2, <2>2 DEF RowGone, Exists
  <2>3. CASE RowCreated(r)
    BY <1>0, <1>1, <1>2, <2>3 DEF RowCreated, Exists
  <2>4. CASE RowTouched
    BY <1>0, <1>2, <2>4 DEF RowTouched, Exists
  <2>5. CASE RowRedeemed(r)
    BY <1>0, <1>2, <2>5 DEF RowRedeemed, Exists, Unspent, Same
  <2>6. CASE RowRotated(r)
    BY <1>0, <1>2, <2>6 DEF RowRotated, Exists, Same
  <2> QED BY <2>1, <2>2, <2>3, <2>4, <2>5, <2>6, StepRow
<1> QED BY <1>3, <1>4, <1>5

\* A row that has a token keeps one for as long as it lives.
LEMMA TokenStays ==
  ASSUME TypeInv, FreshIds, NEW r \in Requests, Step(r), NEW a \in Agents, row'[a] # NULL
  PROVE  \/ row'[a].id = r /\ req[r].pc = "new"
         \/ /\ Exists(a) /\ row'[a].id = row[a].id
            /\ row[a].token # NULL => row'[a].token # NULL
<1>0. row \in [Agents -> ServerRow \cup {NULL}] /\ r # NULL
  BY ServersConstants DEF TypeInv, RowsOK
<1>1. CASE row' = row
  BY <1>1 DEF Exists
<1>2. CASE RowGone
  BY <1>0, <1>2 DEF RowGone, Exists
<1>3. CASE RowCreated(r)
  BY <1>0, <1>3 DEF RowCreated, Exists
<1>4. CASE RowTouched
  BY <1>0, <1>4 DEF RowTouched, Exists
<1>5. CASE RowRedeemed(r)
  BY <1>0, <1>5 DEF RowRedeemed, Exists, Unspent, Same
<1>6. CASE RowRotated(r)
  BY <1>0, <1>6 DEF RowRotated, Exists, Same
<1> QED BY <1>1, <1>2, <1>3, <1>4, <1>5, <1>6, StepRow

LEMMA StepRotationSees ==
  ASSUME Core, NEW r \in Requests, Step(r)
  PROVE  RotationSees'
<1>0. TypeInv /\ FreshIds /\ RotationSees
  BY DEF Core
<1> SUFFICES ASSUME NEW q \in Requests, req'[q].op = "rotate", req'[q].id # NULL,
                    row'[req'[q].a] # NULL, row'[req'[q].a].id = req'[q].id
             PROVE  row'[req'[q].a].token # NULL
  BY DEF RotationSees, Same, Exists
<1>1. ReqOK' /\ ReqOK /\ \A p \in Requests \ {r} : req'[p] = req[p]
  BY <1>0, StepReq DEF TypeInv
<1>2. req'[q].a \in Agents
  BY <1>1 DEF ReqOK, ShapeOf, AgentSteps
<1> DEFINE a == req'[q].a
<1>3. CASE q # r
  <2>1. req[q].op = "rotate" /\ req[q].id # NULL /\ req[q].a = a /\ req[q].id = req'[q].id
    BY <1>1, <1>3
  <2>2. ~(row'[a].id = r /\ req[r].pc = "new")
    BY <1>0, <2>1 DEF FreshIds
  <2>3. Exists(a) /\ row'[a].id = row[a].id /\ (row[a].token # NULL => row'[a].token # NULL)
    BY <1>0, <1>2, <2>2, TokenStays
  <2>4. Same(q)
    BY <2>1, <2>3 DEF Same
  <2> QED BY <1>0, <2>1, <2>3, <2>4 DEF RotationSees
<1>4. CASE q = r
  <2>0. req[r] \in ReqRow /\ ShapeOf(req[r])
    BY <1>1 DEF ReqOK
  <2>1. AgentWork(r)
    <3>1. PICK x \in ReqRow : Becomes(r, x) /\ (AgentWork(r) \/ AgentQuiet(r, x))
      BY <1>0, StepMoves DEF Moves
    <3>2. req'[r] = x
      BY <1>1, <3>1 DEF Becomes, ReqOK
    <3> QED BY <1>4, <3>1, <3>2 DEF AgentQuiet
  <2>2. ASSUME NEW b \in Agents, RotateLookup(r, b)
        PROVE  row'[a].token # NULL
    <3>1. row' = row /\ row[b].token # NULL /\ Take(r, "rotate", "push", b, row[b].id, row[b].token)
      BY <2>2 DEF RotateLookup, get_server_info
    <3>2. req'[r].a = b
      BY <1>1, <3>1, IdleRow DEF Take, ReqOK, ReqRow
    <3> QED BY <1>4, <3>1, <3>2
  <2>3. CASE ~\E b \in Agents : RotateLookup(r, b)
    <3>1. /\ req[r].op = "rotate" /\ req[r].a = a /\ req'[r].id = req[r].id
          /\ ~(row'[a].id = r /\ req[r].pc = "new")
      <4>0. Done.op = "none"
        BY DoneRow
      <4>1. ASSUME NEW b \in Agents, NEW c \in Secrets, HandshakeLookup(r, b, c) PROVE FALSE
        <5>1. req'[r].op = "handshake"
          BY <1>1, <4>1, IdleRow DEF HandshakeLookup, Take, ReqOK, ReqRow
        <5> QED BY <1>4, <5>1
      <4>2. CASE HandshakeRedeem(r)
        <5>1. req'[r].op \in {"handshake", "none"}
          BY <1>1, <2>0, <4>0, <4>2 DEF HandshakeRedeem, Goto, End, ReqOK, ReqRow, ShapeOf
        <5> QED BY <1>4, <5>1
      <4>3. CASE Install(r) \/ RotatePersist(r)
        <5>1. req'[r].op = "none"
          BY <1>1, <4>0, <4>3 DEF Install, RotatePersist, End, ReqOK
        <5> QED BY <1>4, <5>1
      <4>4. CASE AgentWrite(r) \/ AgentRename(r)
        <5>1. req[r].op = "rotate" /\ req[r].pc # "new"
          BY <2>0, <4>4 DEF AgentWrite, AgentRename, ShapeOf
        <5>2. req'[r].op = "none" \/ (req'[r].a = req[r].a /\ req'[r].id = req[r].id)
          BY <1>1, <2>0, <4>0, <4>4 DEF AgentWrite, AgentRename, Goto, End, ReqOK, ReqRow
        <5> QED BY <1>4, <5>1, <5>2
      <4> QED BY <2>1, <2>3, <4>1, <4>2, <4>3, <4>4 DEF AgentWork
    <3>2. Exists(a) /\ row'[a].id = row[a].id /\ (row[a].token # NULL => row'[a].token # NULL)
      BY <1>0, <1>2, <3>1, TokenStays
    <3>3. Same(r) /\ req[r].id # NULL
      BY <1>4, <3>1, <3>2 DEF Same
    <3> QED BY <1>0, <3>1, <3>2, <3>3 DEF RotationSees
  <2> QED BY <2>2, <2>3
<1> QED BY <1>3, <1>4

\* A row of federation_tokens is never deleted.
LEMMA FedStays ==
  ASSUME TypeInv, FedSees, NEW r \in Requests, Step(r), NEW i \in Secrets, fed[i] # NULL
  PROVE  fed'[i] # NULL
<1>1. fed \in [Secrets -> FedToken \cup {NULL}] /\ NULL \notin FedToken
  BY ServersNames DEF TypeInv
<1> QED BY <1>1, StepFed DEF FedCreated, FedTouched, FedRotated

\* What the steps that handle a federation token leave in their request.
LEMMA FedWorkMoves ==
  ASSUME TypeInv, NEW r \in Requests, FedWork(r)
  PROVE  \/ CreateFedToken(r) /\ req[r].pc = "new" /\ req'[r].pc = "paste_token" /\ req'[r].tok = r
            /\ req'[r].op = "pair"
         \/ (SetFederationToken(r) \/ StoreFedToken(r)) /\ req'[r] = Done
         \/ \E op \in StackOps \cup {"fed_rotate"} :
               /\ LookupWritePeer(r, op) /\ req[r].pc = "new" /\ req'[r].pc = "auth" /\ req'[r].op = op
               /\ peerRow # NULL /\ peerRow.token # NULL /\ req'[r].tok = peerRow.token
               /\ req'[r].id = peerRow.id
         \/ RequireFederation(r) /\ req[r].pc = "auth" /\ req'[r] = Done
         \/ \E i \in Secrets :
               /\ RequireFederation(r) /\ req[r].pc = "auth" /\ fed[i] # NULL /\ fed[i].hash = req[r].tok
               /\ req'[r].ctx = i /\ req'[r].op = req[r].op /\ req'[r].id = req[r].id
               /\ req'[r].pc = IF req[r].op = "fed_rotate" THEN "swap" ELSE "stack"
         \/ RotateOnPeer(r) /\ req[r].pc = "swap" /\ req'[r] = Done /\ Faulty("peer")
         \/ /\ RotateOnPeer(r) /\ req[r].pc = "swap" /\ req[r].id # NULL /\ req'[r].pc = "store"
            /\ req'[r].ctx = req[r].ctx /\ req'[r].op = req[r].op /\ req'[r].id = req[r].id
<1>1. req \in [Requests -> ReqRow] /\ req[r] \in ReqRow
  BY DEF TypeInv, ReqOK
<1>2. CASE CreateFedToken(r)
  <2>1. Take(r, "pair", "paste_token", NULL, NULL, r) /\ req[r].pc = "new"
    BY <1>2 DEF CreateFedToken, Arrives
  <2> QED BY <1>1, <1>2, <2>1, IdleRow DEF Take, ReqRow
<1>3. CASE SetFederationToken(r) \/ StoreFedToken(r)
  BY <1>1, <1>3 DEF SetFederationToken, StoreFedToken, End
<1>4. CASE RequireFederation(r)
  <2>0. req[r].pc = "auth"
    BY <1>4 DEF RequireFederation
  <2>1. CASE End(r)
    BY <1>1, <1>4, <2>0, <2>1 DEF End
  <2>2. CASE ~End(r)
    <3>1. PICK i \in Secrets :
            /\ fed[i] # NULL /\ fed[i].hash = req[r].tok
            /\ req' = [req EXCEPT ![r].ctx = i, ![r].pc = IF req[r].op = "fed_rotate" THEN "swap" ELSE "stack"]
      BY <1>4, <2>2 DEF RequireFederation
    <3>2. /\ req'[r].ctx = i /\ req'[r].op = req[r].op /\ req'[r].id = req[r].id
          /\ req'[r].pc = IF req[r].op = "fed_rotate" THEN "swap" ELSE "stack"
      BY <1>1, <3>1 DEF ReqRow
    <3> QED BY <1>4, <2>0, <3>1, <3>2
  <2> QED BY <2>1, <2>2
<1>5. CASE RotateOnPeer(r)
  <2>1. req[r].pc = "swap" /\ ((req[r].id # NULL /\ Goto(r, "store")) \/ (End(r) /\ Faulty("peer")))
    BY <1>5 DEF RotateOnPeer
  <2>2. CASE End(r) /\ Faulty("peer")
    BY <1>1, <1>5, <2>1, <2>2 DEF End
  <2>3. CASE req[r].id # NULL /\ Goto(r, "store")
    BY <1>1, <1>5, <2>1, <2>3 DEF Goto, ReqRow
  <2> QED BY <2>1, <2>2, <2>3
<1>6. ASSUME NEW op \in StackOps \cup {"fed_rotate"}, LookupWritePeer(r, op)
      PROVE  /\ LookupWritePeer(r, op) /\ req[r].pc = "new" /\ req'[r].pc = "auth" /\ req'[r].op = op
             /\ peerRow # NULL /\ peerRow.token # NULL /\ req'[r].tok = peerRow.token
             /\ req'[r].id = peerRow.id
  <2>1. /\ Take(r, op, "auth", NULL, peerRow.id, peerRow.token) /\ req[r].pc = "new"
        /\ peerRow # NULL /\ peerRow.token # NULL
    BY <1>6 DEF LookupWritePeer, Arrives
  <2> QED BY <1>1, <1>6, <2>1, IdleRow DEF Take, ReqRow
<1> QED BY <1>2, <1>3, <1>4, <1>5, <1>6 DEF FedWork

\* The other steps leave a request that has nothing to do with a federation token.
LEMMA NoFedWorkMoves ==
  ASSUME TypeInv, NEW r \in Requests, Step(r), ~FedWork(r)
  PROVE  /\ req'[r].op # "fed_rotate" /\ req'[r].pc \notin {"auth", "swap", "store", "paste_token"}
         /\ req[r].pc # "store"
<1>1. PICK x \in ReqRow : Becomes(r, x) /\ FedQuiet(r, x)
  BY StepMoves DEF Moves
<1>2. req'[r] = x
  BY <1>1 DEF Becomes, TypeInv, ReqOK
<1> QED BY <1>1, <1>2 DEF FedQuiet

LEMMA StepFedSees ==
  ASSUME TypeInv, FedSees, NEW r \in Requests, Step(r)
  PROVE  FedSees'
<1>1. ReqOK /\ ReqOK' /\ \A p \in Requests \ {r} : req'[p] = req[p]
  BY StepReq DEF TypeInv
<1> SUFFICES ASSUME NEW q \in Requests, req'[q].pc \in {"swap", "store"}
             PROVE  fed'[req'[q].ctx] # NULL
  BY DEF FedSees
<1>2. CASE q # r
  <2>1. req'[q] = req[q] /\ req[q].ctx \in Secrets /\ fed[req[q].ctx] # NULL
    BY <1>1, <1>2 DEF FedSees, ReqOK, ShapeOf
  <2> QED BY <2>1, FedStays
<1>3. CASE q = r
  <2>1. req'[r].ctx \in Secrets
    BY <1>1, <1>3 DEF ReqOK, ShapeOf
  <2>2. FedWork(r)
    BY <1>3, NoFedWorkMoves
  <2>3. fed[req'[r].ctx] # NULL
    BY <1>3, <2>2, FedWorkMoves, DoneRow DEF FedSees
  <2> QED BY <1>3, <2>1, <2>3, FedStays
<1> QED BY <1>2, <1>3

LEMMA StepRowsOK ==
  ASSUME TypeInv, RotationSees, NEW r \in Requests, Step(r)
  PROVE  RowsOK'
<1>0. row \in [Agents -> ServerRow \cup {NULL}] /\ r # NULL /\ NULL \notin ServerRow /\ ShapeOf(req[r])
      /\ \A a \in Agents : Exists(a) => ((row[a].boot = NULL) # (row[a].token = NULL))
  BY ServersConstants, ServersNames DEF TypeInv, RowsOK, ReqOK
<1>1. CASE row' = row
  BY <1>0, <1>1 DEF RowsOK, Exists
<1>2. CASE RowGone
  BY <1>0, <1>2 DEF RowGone, RowsOK, Exists
<1>3. CASE RowCreated(r)
  <2>1. PICK a \in Agents, x \in ServerRow :
          row' = [row EXCEPT ![a] = x] /\ x.boot = r /\ x.token = NULL
    BY <1>3 DEF RowCreated
  <2> QED BY <1>0, <2>1 DEF RowsOK, Exists
<1>4. CASE RowTouched
  <2>1. PICK a \in Agents, x \in ServerRow :
          Exists(a) /\ row' = [row EXCEPT ![a] = x] /\ x.boot = row[a].boot /\ x.token = row[a].token
    BY <1>4 DEF RowTouched
  <2> QED BY <1>0, <2>1 DEF RowsOK, Exists
<1>5. CASE RowRedeemed(r)
  <2>1. PICK x \in ServerRow :
          req[r].a \in Agents /\ row' = [row EXCEPT ![req[r].a] = x] /\ x.boot = NULL /\ x.token = r
    BY <1>5 DEF RowRedeemed
  <2> QED BY <1>0, <2>1 DEF RowsOK, Exists
<1>6. CASE RowRotated(r)
  <2>1. PICK x \in ServerRow :
          /\ req[r].a \in Agents /\ req[r].pc = "persist" /\ Same(r)
          /\ row' = [row EXCEPT ![req[r].a] = x] /\ x.boot = row[req[r].a].boot /\ x.token = r
    BY <1>6 DEF RowRotated
  <2>2. row[req[r].a].token # NULL
    BY <1>0, <2>1 DEF RotationSees, ShapeOf
  <2>3. x.boot = NULL
    BY <1>0, <2>1, <2>2 DEF Same
  <2> QED BY <1>0, <2>1, <2>3 DEF RowsOK, Exists
<1> QED BY <1>1, <1>2, <1>3, <1>4, <1>5, <1>6, StepRow

LEMMA StepCore ==
  ASSUME Core, NEW r \in Requests, Step(r)
  PROVE  Core'
<1>1. TypeInv /\ FreshIds /\ RotationSees /\ FedSees
  BY DEF Core
<1>2. ReqOK' /\ FreshIds' /\ RotationSees' /\ FedSees' /\ RowsOK'
  BY <1>1, StepReq, StepFreshIds, StepRotationSees, StepFedSees, StepRowsOK
<1>3. TypeInv'
  BY <1>1, <1>2, StepOthers DEF TypeInv
<1> QED BY <1>2, <1>3 DEF Core

\* A handshake spends the bootstrap it takes off the row.
LEMMA StepBoot ==
  ASSUME Core, BootInv, NEW r \in Requests, Step(r)
  PROVE  BootInv'
<1>0. /\ TypeInv /\ LogOK /\ row \in [Agents -> ServerRow \cup {NULL}] /\ r # NULL /\ NULL \notin ServerRow
      /\ NULL \notin Secrets /\ r \in Secrets /\ ShapeOf(req[r])
  BY ServersConstants, ServersNames DEF Core, TypeInv, RowsOK, ReqOK, Secrets
<1>1. req'[r].pc # "new" /\ \A p \in Requests \ {r} : req'[p] = req[p]
  BY <1>0, StepReq
<1>2. CASE RowRedeemed(r)
  <2> DEFINE a == req[r].a
  <2> DEFINE t == req[r].tok
  <2>1. PICK x \in ServerRow :
          /\ a \in Agents /\ req[r].pc = "redeem" /\ Unspent(r) /\ HandshakeRedeem(r)
          /\ row' = [row EXCEPT ![a] = x] /\ x.boot = NULL
    BY <1>2 DEF RowRedeemed
  <2>2. Exists(a) /\ row[a].boot = t /\ t \in Secrets
    BY <1>0, <2>1 DEF Unspent, Same, ShapeOf
  <2>3. log' = [log EXCEPT !.spent[t] = @ + 1]
    BY <2>1 DEF HandshakeRedeem
  <2> HIDE DEF a, t
  <2>4. log.spent[t] = 0 /\ log'.spent[t] = 1 /\ \A b \in Secrets \ {t} : log'.spent[b] = log.spent[b]
    <3>1. log.spent \in [Secrets -> Nat]
      BY <1>0 DEF LogOK
    <3>2. log.spent[t] # 1 /\ log.spent[t] <= 1
      BY <2>1, <2>2 DEF BootInv
    <3>3. log.spent[t] = 0
      BY <2>2, <3>1, <3>2
    <3> QED BY <1>0, <2>2, <2>3, <3>1, <3>3 DEF LogOK
  <2>5. \A b \in Agents : row'[b] # NULL /\ row'[b].boot # NULL => Exists(b) /\ row'[b].boot = row[b].boot /\ b # a
    BY <1>0, <2>1 DEF Exists
  <2>6. \A b \in Agents : row'[b] # NULL => row'[b].boot # t
    BY <1>0, <2>1, <2>2, <2>5 DEF BootInv
  <2>7. \A b \in Secrets : /\ log'.spent[b] <= 1
                           /\ log'.spent[b] = 1 => \A c \in Agents : row'[c] # NULL => row'[c].boot # b
    BY <1>0, <2>4, <2>5, <2>6 DEF BootInv
  <2>8. \A q \in Requests : req'[q].pc = "new" =>
          log'.spent[q] = 0 /\ \A c \in Agents : row'[c] # NULL => row'[c].boot # q
    <3>1. SUFFICES ASSUME NEW q \in Requests, req'[q].pc = "new"
                   PROVE  log'.spent[q] = 0 /\ \A c \in Agents : row'[c] # NULL => row'[c].boot # q
      OBVIOUS
    <3>2. req[q].pc = "new" /\ q # NULL /\ q \in Secrets
      BY <1>0, <1>1, <3>1, ServersConstants DEF Secrets
    <3>3. q # t
      BY <2>1, <2>2, <3>2 DEF BootInv
    <3> QED BY <2>4, <2>5, <3>2, <3>3 DEF BootInv
  <2>9. \A b, c \in Agents : row'[b] # NULL /\ row'[c] # NULL /\ row'[b].boot = row'[c].boot /\ row'[b].boot # NULL => b = c
    BY <2>5 DEF BootInv
  <2> QED BY <2>7, <2>8, <2>9 DEF BootInv, Exists
<1>3. CASE ~RowRedeemed(r)
  <2>1. log'.spent = log.spent
    <3>1. CASE HandshakeRedeem(r) /\ Unspent(r)
      <4>1. req[r].a \in Agents /\ req[r].pc = "redeem"
        BY <1>0, <3>1 DEF HandshakeRedeem, ShapeOf, AgentSteps
      <4>2. row[req[r].a] \in ServerRow
        BY <1>0, <3>1, <4>1, RowOf DEF Unspent, Same
      <4>3. Redeemed(r) \in ServerRow
        BY <1>0, <4>2 DEF Redeemed, ServerRow
      <4>4. Redeemed(r).id = row[req[r].a].id /\ Redeemed(r).boot = NULL /\ Redeemed(r).token = r
        BY <1>0, <4>2 DEF Redeemed, ServerRow
      <4>5. row' = [row EXCEPT ![req[r].a] = Redeemed(r)]
        BY <3>1 DEF HandshakeRedeem
      <4> QED BY <1>3, <3>1, <4>1, <4>3, <4>4, <4>5 DEF RowRedeemed
    <3>2. CASE log' = log
      BY <3>2
    <3>3. ASSUME NEW link, Faulty(link) PROVE log'.spent = log.spent
      BY <1>0, <3>3 DEF Faulty, LogOK
    <3>4. ASSUME NEW a \in Agents, RotateLookup(r, a) PROVE log'.spent = log.spent
      BY <3>2, <3>3, <3>4 DEF RotateLookup
    <3>5. ASSUME NEW a \in Agents, NEW b \in Secrets, HandshakeLookup(r, a, b) PROVE log'.spent = log.spent
      BY <3>2, <3>3, <3>5 DEF HandshakeLookup
    <3>6. CASE HandshakeRedeem(r) /\ ~Unspent(r)
      BY <3>2, <3>6 DEF HandshakeRedeem
    <3>7. CASE Install(r) \/ AgentRename(r) \/ RotateOnPeer(r)
      BY <3>2, <3>3, <3>7 DEF Install, AgentRename, RotateOnPeer
    <3> QED BY <3>1, <3>2, <3>4, <3>5, <3>6, <3>7, StepFrames DEF Frames, WritesLog
  <2>2. ASSUME \A b \in Agents : row'[b] # NULL /\ row'[b].boot # NULL => Exists(b) /\ row'[b].boot = row[b].boot
        PROVE  BootInv'
    <3>1. \A b \in Secrets : /\ log'.spent[b] <= 1
                             /\ log'.spent[b] = 1 => \A c \in Agents : row'[c] # NULL => row'[c].boot # b
      BY <1>0, <2>1, <2>2 DEF BootInv
    <3>2. \A q \in Requests : req'[q].pc = "new" =>
            log'.spent[q] = 0 /\ \A c \in Agents : row'[c] # NULL => row'[c].boot # q
      <4>1. \A q \in Requests : q # NULL
        BY ServersConstants
      <4> QED BY <1>1, <2>1, <2>2, <4>1 DEF BootInv
    <3>3. \A b, c \in Agents : row'[b] # NULL /\ row'[c] # NULL /\ row'[b].boot = row'[c].boot /\ row'[b].boot # NULL => b = c
      BY <2>2 DEF BootInv
    <3> QED BY <3>1, <3>2, <3>3 DEF BootInv, Exists
  <2>3. CASE row' = row
    BY <2>2, <2>3 DEF Exists
  <2>4. CASE RowGone
    BY <1>0, <2>2, <2>4 DEF RowGone, Exists
  <2>5. CASE RowTouched
    BY <1>0, <2>2, <2>5 DEF RowTouched, Exists
  <2>6. CASE RowRotated(r)
    BY <1>0, <2>2, <2>6 DEF RowRotated, Exists, Same
  <2>7. CASE RowCreated(r)
    <3>1. PICK a \in Agents, x \in ServerRow :
            req[r].pc = "new" /\ row' = [row EXCEPT ![a] = x] /\ x.boot = r
      BY <2>7 DEF RowCreated
    <3>2. \A b \in Agents : row'[b] # NULL => b = a \/ (Exists(b) /\ row'[b].boot = row[b].boot)
      BY <1>0, <3>1 DEF Exists
    <3>3. row'[a].boot = r /\ log.spent[r] = 0 /\ \A b \in Agents : Exists(b) => row[b].boot # r
      BY <1>0, <3>1 DEF BootInv
    <3>4. \A b \in Secrets : /\ log'.spent[b] <= 1
                             /\ log'.spent[b] = 1 => \A c \in Agents : row'[c] # NULL => row'[c].boot # b
      BY <1>0, <2>1, <3>2, <3>3 DEF BootInv
    <3>5. \A q \in Requests : req'[q].pc = "new" =>
            log'.spent[q] = 0 /\ \A c \in Agents : row'[c] # NULL => row'[c].boot # q
      BY <1>1, <2>1, <3>2, <3>3 DEF BootInv
    <3>6. \A b, c \in Agents : row'[b] # NULL /\ row'[c] # NULL /\ row'[b].boot = row'[c].boot /\ row'[b].boot # NULL => b = c
      BY <3>2, <3>3 DEF BootInv
    <3> QED BY <3>4, <3>5, <3>6 DEF BootInv, Exists
  <2> QED BY <1>0, <1>3, <2>3, <2>4, <2>5, <2>6, <2>7, StepRow
<1> QED BY <1>2, <1>3

-----------------------------------------------------------------------------
(* The link to an agent.                                                     *)

Writers == {"rotate", "handshake"}

\* Request q goes on as it was with regard to agent a, or is no writer of its token any
\* more and has not left one end of the link behind.
CalmReq(q, a) ==
  \/ /\ req'[q].a = req[q].a /\ req'[q].op = req[q].op /\ req'[q].pc = req[q].pc
     /\ req'[q].id \in {req[q].id, NULL}
  \/ /\ ~(req'[q].a = a /\ req'[q].op \in Writers)
     /\ ~(Writes(q, a) /\ req[q].pc \in {"install", "persist"})
\* The token of a row does not change, except that it may go with the row.
CalmRow(a) ==
  row'[a] # NULL /\ row'[a].token # NULL =>
    HasToken(a) /\ row'[a].token = row[a].token /\ row'[a].id = row[a].id
CalmHost(a) == agent'[a].env = agent[a].env /\ agent'[a].tmp = agent[a].tmp

LEMMA LinkCalm ==
  ASSUME NEW a \in Agents, LinkOK(a), CalmRow(a), CalmHost(a), \A q \in Requests : CalmReq(q, a)
  PROVE  LinkOK(a)'
<1> DEFINE w(q) == req'[q].a = a /\ req'[q].op \in Writers
<1> DEFINE t == row'[a] # NULL /\ row'[a].token # NULL
<1>1. ASSUME NEW q \in Requests, w(q)
      PROVE  Writes(q, a) /\ req'[q].pc = req[q].pc /\ req'[q].id \in {req[q].id, NULL}
  BY <1>1 DEF CalmReq, Writes, Writers
<1>2. \A r, q \in Requests : w(r) /\ w(q) => r = q
  BY <1>1 DEF LinkOK
<1>3. t => HasToken(a) /\ row'[a].token = row[a].token /\ row'[a].id = row[a].id
  BY DEF CalmRow
<1>4. \A r \in Requests : w(r) /\ req'[r].id # NULL /\ t => row'[a].id = req'[r].id
  BY <1>1, <1>3 DEF LinkOK
<1>5. \A r \in Requests : w(r) /\ req'[r].pc = "rename" => agent'[a].tmp = r
  BY <1>1 DEF LinkOK, CalmHost
<1>6. \A r \in Requests : w(r) /\ req'[r].pc = "persist" => agent'[a].env = r
  BY <1>1 DEF LinkOK, CalmHost
<1>7. \A r \in Requests : w(r) /\ req'[r].pc = "install" => (t => row'[a].token = r)
  BY <1>1, <1>3 DEF LinkOK
<1>8. t => agent'[a].env = row'[a].token \/ \E r \in Requests : w(r) /\ req'[r].pc \in {"install", "persist"}
  <2> SUFFICES ASSUME t, agent'[a].env # row'[a].token
               PROVE  \E r \in Requests : w(r) /\ req'[r].pc \in {"install", "persist"}
    OBVIOUS
  <2>1. PICK r \in Requests : Writes(r, a) /\ req[r].pc \in {"install", "persist"}
    BY <1>3 DEF LinkOK, CalmHost
  <2>2. CalmReq(r, a)
    OBVIOUS
  <2>3. w(r) /\ req'[r].pc = req[r].pc
    BY <2>1, <2>2 DEF CalmReq, Writes, Writers
  <2> QED BY <2>1, <2>3
<1> QED BY <1>2, <1>4, <1>5, <1>6, <1>7, <1>8 DEF LinkOK, Writes, HasToken, Exists, Writers

\* The same for an agent that one request at most writes to after the step.
LEMMA LinkAlone ==
  ASSUME NEW a \in Agents, NEW r \in Requests,
         \A q \in Requests \ {r} : ~(req'[q].a = a /\ req'[q].op \in Writers),
         row'[a] # NULL /\ row'[a].token # NULL =>
           /\ req'[r].a = a /\ req'[r].op \in Writers /\ req'[r].id # NULL => row'[a].id = req'[r].id
           /\ req'[r].a = a /\ req'[r].op \in Writers /\ req'[r].pc = "install" => row'[a].token = r
           /\ \/ agent'[a].env = row'[a].token
              \/ req'[r].a = a /\ req'[r].op \in Writers /\ req'[r].pc \in {"install", "persist"},
         req'[r].pc = "rename" => agent'[a].tmp = r,
         req'[r].pc = "persist" => agent'[a].env = r
  PROVE  LinkOK(a)'
<1> DEFINE w(q) == req'[q].a = a /\ req'[q].op \in Writers
<1> DEFINE t == row'[a] # NULL /\ row'[a].token # NULL
<1>1. \A q \in Requests : w(q) => q = r
  OBVIOUS
<1>2. \A p, q \in Requests : w(p) /\ w(q) => p = q
  BY <1>1
<1>4. \A q \in Requests : w(q) /\ req'[q].id # NULL /\ t => row'[a].id = req'[q].id
  BY <1>1
<1>5. \A q \in Requests : w(q) /\ req'[q].pc = "rename" => agent'[a].tmp = q
  BY <1>1
<1>6. \A q \in Requests : w(q) /\ req'[q].pc = "persist" => agent'[a].env = q
  BY <1>1
<1>7. \A q \in Requests : w(q) /\ req'[q].pc = "install" => (t => row'[a].token = q)
  BY <1>1
<1>8. t => agent'[a].env = row'[a].token \/ \E q \in Requests : w(q) /\ req'[q].pc \in {"install", "persist"}
  OBVIOUS
<1> QED BY <1>2, <1>4, <1>5, <1>6, <1>7, <1>8 DEF LinkOK, Writes, HasToken, Exists, Writers

\* A step writes the token of the agent its request is about, and of no other.
LEMMA StepCalmRow ==
  ASSUME TypeInv, NEW r \in Requests, Step(r), NEW a \in Agents,
         ~RowRedeemed(r) \/ req[r].a # a, ~RowRotated(r) \/ req[r].a # a
  PROVE  CalmRow(a)
<1>0. row \in [Agents -> ServerRow \cup {NULL}] /\ NULL \notin ServerRow
  BY ServersNames DEF TypeInv, RowsOK
<1>1. CASE row' = row
  BY <1>1 DEF CalmRow, HasToken, Exists
<1>2. CASE RowGone
  BY <1>0, <1>2 DEF RowGone, CalmRow, HasToken, Exists
<1>3. CASE RowCreated(r)
  BY <1>0, <1>3 DEF RowCreated, CalmRow, HasToken, Exists
<1>4. CASE RowTouched
  BY <1>0, <1>4 DEF RowTouched, CalmRow, HasToken, Exists
<1>5. CASE RowRedeemed(r)
  BY <1>0, <1>5 DEF RowRedeemed, CalmRow, HasToken, Exists
<1>6. CASE RowRotated(r)
  BY <1>0, <1>6 DEF RowRotated, CalmRow, HasToken, Exists
<1> QED BY <1>1, <1>2, <1>3, <1>4, <1>5, <1>6, StepRow

LEMMA StepCalmHost ==
  ASSUME TypeInv, NEW r \in Requests, Step(r), NEW a \in Agents,
         req[r].a # a \/ ~(Install(r) \/ AgentWrite(r) \/ AgentRename(r))
  PROVE  CalmHost(a)
<1>0. agent \in [Agents -> Host] /\ ShapeOf(req[r])
  BY DEF TypeInv, ReqOK
<1>1. agent' = agent \/ WritesAgent(r)
  BY StepFrames DEF Frames
<1>2. CASE agent' = agent
  BY <1>2 DEF CalmHost
<1>3. ASSUME NEW op, NEW then, ProxyCall(r, op, then) PROVE CalmHost(a)
  <2>1. req[r].a \in Agents
    BY <1>0, <1>3 DEF ProxyCall, ShapeOf, AgentSteps
  <2> QED BY <1>0, <1>3, <2>1 DEF ProxyCall, CalmHost, Host
<1>4. CASE Install(r)
  BY <1>0, <1>4 DEF Install, CalmHost
<1>5. CASE AgentWrite(r)
  BY <1>0, <1>5 DEF AgentWrite, CalmHost
<1>6. CASE AgentRename(r)
  BY <1>0, <1>6 DEF AgentRename, CalmHost
<1> QED BY <1>1, <1>2, <1>3, <1>4, <1>5, <1>6 DEF WritesAgent, AgentDeploy, AgentStop

\* A link that met a fault stays so.
LEMMA FaultStays ==
  ASSUME TypeInv, NEW r \in Requests, Step(r)
  PROVE  log.fault \subseteq log'.fault
<1>0. LogOK /\ Frames(r) /\ ShapeOf(req[r])
  BY StepFrames DEF TypeInv, ReqOK
<1>1. ASSUME NEW link, Faulty(link) PROVE log.fault \subseteq log'.fault
  BY <1>0, <1>1 DEF Faulty, LogOK
<1>2. CASE HandshakeRedeem(r)
  BY <1>0, <1>2 DEF HandshakeRedeem, LogOK
<1>3. ASSUME NEW a \in Agents, RotateLookup(r, a) PROVE log.fault \subseteq log'.fault
  BY <1>1, <1>3 DEF RotateLookup
<1>4. ASSUME NEW a \in Agents, NEW b \in Secrets, HandshakeLookup(r, a, b) PROVE log.fault \subseteq log'.fault
  BY <1>1, <1>4 DEF HandshakeLookup
<1>5. CASE Install(r) \/ AgentRename(r) \/ RotateOnPeer(r)
  BY <1>1, <1>5 DEF Install, AgentRename, RotateOnPeer
<1> QED BY <1>0, <1>2, <1>3, <1>4, <1>5 DEF Frames, WritesLog

LEMMA FaultSeen ==
  ASSUME TypeInv, NEW link, Faulty(link)
  PROVE  link \in log'.fault
BY DEF TypeInv, LogOK, Faulty

\* The steps that write an agent's token keep their request with its agent.
LEMMA AgentWorkMoves ==
  ASSUME TypeInv, NEW r \in Requests, AgentWork(r)
  PROVE  \/ \E a \in Agents :
              /\ RotateLookup(r, a) /\ req[r].pc = "new" /\ HasToken(a)
              /\ req'[r].a = a /\ req'[r].op = "rotate" /\ req'[r].pc = "push" /\ req'[r].id = row[a].id
         \/ \E a \in Agents, b \in Secrets :
              /\ HandshakeLookup(r, a, b) /\ req[r].pc = "new" /\ Exists(a) /\ row[a].boot = b
              /\ req'[r].a = a /\ req'[r].op = "handshake" /\ req'[r].pc = "redeem" /\ req'[r].id = row[a].id
         \/ /\ HandshakeRedeem(r) \/ Install(r) \/ AgentWrite(r) \/ AgentRename(r) \/ RotatePersist(r)
            /\ req[r].a \in Agents /\ req[r].op \in Writers /\ req[r].pc # "new"
            /\ \/ req'[r] = Done
               \/ req'[r].a = req[r].a /\ req'[r].op = req[r].op /\ req'[r].id = req[r].id
<1>1. req \in [Requests -> ReqRow] /\ req[r] \in ReqRow /\ ShapeOf(req[r])
  BY DEF TypeInv, ReqOK
<1>2. ASSUME NEW a \in Agents, RotateLookup(r, a)
      PROVE  /\ RotateLookup(r, a) /\ req[r].pc = "new" /\ HasToken(a)
             /\ req'[r].a = a /\ req'[r].op = "rotate" /\ req'[r].pc = "push" /\ req'[r].id = row[a].id
  <2>1. Take(r, "rotate", "push", a, row[a].id, row[a].token) /\ req[r].pc = "new" /\ HasToken(a)
    BY <1>2 DEF RotateLookup, Arrives, get_server_info, HasToken
  <2> QED BY <1>1, <1>2, <2>1, IdleRow DEF Take, ReqRow
<1>3. ASSUME NEW a \in Agents, NEW b \in Secrets, HandshakeLookup(r, a, b)
      PROVE  /\ HandshakeLookup(r, a, b) /\ req[r].pc = "new" /\ Exists(a) /\ row[a].boot = b
             /\ req'[r].a = a /\ req'[r].op = "handshake" /\ req'[r].pc = "redeem" /\ req'[r].id = row[a].id
  <2>1. Take(r, "handshake", "redeem", a, row[a].id, b) /\ req[r].pc = "new" /\ Exists(a) /\ row[a].boot = b
    BY <1>3 DEF HandshakeLookup, Arrives
  <2> QED BY <1>1, <1>3, <2>1, IdleRow DEF Take, ReqRow
<1>4. ASSUME HandshakeRedeem(r) \/ Install(r) \/ AgentWrite(r) \/ AgentRename(r) \/ RotatePersist(r)
      PROVE  /\ req[r].a \in Agents /\ req[r].op \in Writers /\ req[r].pc # "new"
             /\ \/ req'[r] = Done
                \/ req'[r].a = req[r].a /\ req'[r].op = req[r].op /\ req'[r].id = req[r].id
  <2>1. req[r].pc \in {"redeem", "install", "push", "rename", "persist"}
    BY <1>4 DEF HandshakeRedeem, Install, AgentWrite, AgentRename, RotatePersist
  <2>2. End(r) \/ \E pc \in Steps : Goto(r, pc)
    BY <1>4 DEF HandshakeRedeem, Install, AgentWrite, AgentRename, RotatePersist, Steps, AgentSteps
  <2>3. \/ req'[r] = Done
        \/ req'[r].a = req[r].a /\ req'[r].op = req[r].op /\ req'[r].id = req[r].id
    BY <1>1, <2>2 DEF End, Goto, ReqRow
  <2> QED BY <1>1, <2>1, <2>3 DEF ShapeOf, AgentSteps, Writers
<1> QED BY <1>2, <1>3, <1>4 DEF AgentWork

LEMMA StepLink ==
  ASSUME Core, LinkInv, NEW r \in Requests, Step(r)
  PROVE  LinkInv'
<1>0. /\ TypeInv /\ ReqOK /\ req[r] \in ReqRow /\ ShapeOf(req[r]) /\ agent \in [Agents -> Host]
      /\ row \in [Agents -> ServerRow \cup {NULL}] /\ NULL \notin ServerRow /\ NULL \notin Secrets /\ r # NULL
  BY ServersConstants, ServersNames DEF Core, TypeInv, ReqOK, RowsOK
<1>1. \A p \in Requests \ {r} : req'[p] = req[p]
  BY <1>0, StepReq
<1> SUFFICES ASSUME NEW a \in Agents, a \notin log'.fault
             PROVE  LinkOK(a)'
  BY DEF LinkInv
<1>2. LinkOK(a)
  BY <1>0, FaultStays DEF LinkInv
<1>3. ASSUME NEW q \in Requests \ {r} PROVE CalmReq(q, a)
  BY <1>1 DEF CalmReq
<1>4. Done.op = "none" /\ Done.op \notin Writers /\ Done.pc = "done"
  BY DoneRow DEF Writers
<1>5. CASE ~AgentWork(r)
  <2>1. PICK x \in ReqRow : Becomes(r, x) /\ AgentQuiet(r, x)
    BY <1>0, <1>5, StepMoves DEF Moves
  <2>2. req'[r] = x
    BY <1>0, <2>1 DEF Becomes, ReqOK
  <2>3. CalmReq(r, a)
    BY <2>1, <2>2 DEF CalmReq, AgentQuiet, Writers
  <2>4. ~RowRedeemed(r) /\ ~RowRotated(r)
    BY <1>5 DEF RowRedeemed, RowRotated, AgentWork
  <2>5. CalmRow(a) /\ CalmHost(a)
    BY <1>0, <1>5, <2>4, StepCalmRow, StepCalmHost DEF AgentWork
  <2> QED BY <1>2, <1>3, <2>3, <2>5, LinkCalm
<1>6. CASE AgentWork(r) /\ req[r].a # a /\ req'[r].a # a
  <2>1. CalmReq(r, a)
    BY <1>6 DEF CalmReq, Writes
  <2>2. CalmRow(a) /\ CalmHost(a)
    BY <1>0, <1>6, StepCalmRow, StepCalmHost
  <2> QED BY <1>2, <1>3, <2>1, <2>2, LinkCalm
<1>7. ASSUME RotateLookup(r, a) \/ \E b \in Secrets : HandshakeLookup(r, a, b)
      PROVE  /\ row' = row /\ agent' = agent
             /\ \A q \in Requests \ {r} : ~(req'[q].a = a /\ req'[q].op \in Writers)
  <2>1. row' = row /\ agent' = agent /\ (Overlaps(r, a) => Faulty(a))
    BY <1>7 DEF RotateLookup, HandshakeLookup
  <2>2. ~Overlaps(r, a)
    BY <1>0, <2>1, FaultSeen
  <2> QED BY <1>1, <2>1, <2>2 DEF Overlaps, Writers
<1>8. ASSUME RotateLookup(r, a), req[r].pc = "new", HasToken(a),
             req'[r].a = a, req'[r].op = "rotate", req'[r].pc = "push", req'[r].id = row[a].id
      PROVE  LinkOK(a)'
  <2>1. agent[a].env = row[a].token
    <3>1. \A q \in Requests \ {r} : ~Writes(q, a)
      BY <1>1, <1>7, <1>8 DEF Writes, Writers
    <3> QED BY <1>0, <1>2, <1>8, <3>1 DEF LinkOK
  <2> QED BY <1>7, <1>8, <2>1, LinkAlone DEF Writers
<1>9. ASSUME NEW b \in Secrets, HandshakeLookup(r, a, b), Exists(a), row[a].boot = b,
             req'[r].a = a, req'[r].op = "handshake", req'[r].pc = "redeem", req'[r].id = row[a].id
      PROVE  LinkOK(a)'
  <2>1. row[a].token = NULL
    BY <1>0, <1>9 DEF TypeInv, RowsOK
  <2> QED BY <1>7, <1>9, <2>1, LinkAlone
<1>10. ASSUME HandshakeRedeem(r) \/ Install(r) \/ AgentWrite(r) \/ AgentRename(r) \/ RotatePersist(r),
              req[r].a = a, req[r].op \in Writers, req[r].pc # "new",
              req'[r] = Done \/ (req'[r].a = req[r].a /\ req'[r].op = req[r].op /\ req'[r].id = req[r].id)
       PROVE  LinkOK(a)'
  <2>1. \A q \in Requests \ {r} : ~(req'[q].a = a /\ req'[q].op \in Writers)
    BY <1>1, <1>2, <1>10 DEF LinkOK, Writes, Writers
  <2>2. \A q \in Requests \ {r} : ~Writes(q, a)
    BY <1>1, <2>1 DEF Writes, Writers
  <2>3. HasToken(a) /\ req[r].id # NULL => row[a].id = req[r].id
    BY <1>2, <1>10 DEF LinkOK, Writes, Writers
  <2>4. HasToken(a) /\ req[r].pc \notin {"install", "persist"} => agent[a].env = row[a].token
    BY <1>2, <2>2 DEF LinkOK
  <2>5. req \in [Requests -> ReqRow]
    BY <1>0 DEF ReqOK
  <2>6. ASSUME End(r), req[r].pc \notin {"install", "persist"}, row' = row, agent' = agent
        PROVE  LinkOK(a)'
    <3>1. req'[r] = Done
      BY <2>5, <2>6 DEF End
    <3> QED BY <1>4, <2>1, <2>4, <2>6, <3>1, LinkAlone DEF HasToken, Exists
  <2>7. CASE HandshakeRedeem(r)
    <3>1. CASE Unspent(r)
      <4>1. row' = [row EXCEPT ![a] = Redeemed(r)] /\ agent' = agent /\ Goto(r, "install")
        BY <1>10, <2>7, <3>1 DEF HandshakeRedeem
      <4>2. row[a] \in ServerRow /\ row[a].id = req[r].id
        BY <1>0, <1>10, <3>1, RowOf DEF Unspent, Same
      <4>3. row'[a].id = req[r].id /\ row'[a].token = r
        BY <1>0, <1>10, <4>1, <4>2 DEF Redeemed, ServerRow
      <4>4. /\ req'[r].pc = "install" /\ req'[r].a = a /\ req'[r].op = req[r].op
            /\ req'[r].id = req[r].id
        BY <1>0, <1>10, <2>5, <4>1 DEF Goto, ReqRow
      <4> QED BY <1>10, <2>1, <4>3, <4>4, LinkAlone
    <3> QED BY <2>6, <2>7, <3>1 DEF HandshakeRedeem
  <2>8. CASE Install(r)
    <3>1. agent' = [agent EXCEPT ![a].env = r, ![a].ram = IF @ = NULL THEN r ELSE @]
      BY <1>0, <1>10, <2>8, FaultSeen DEF Install
    <3>2. agent'[a].env = r
      BY <1>0, <3>1 DEF Host
    <3>3. HasToken(a) => row[a].token = r
      BY <1>2, <1>10, <2>8 DEF LinkOK, Writes, Writers, Install
    <3>4. req'[r] = Done /\ row' = row
      BY <2>5, <2>8 DEF Install, End
    <3> QED BY <1>4, <2>1, <3>2, <3>3, <3>4, LinkAlone DEF HasToken, Exists
  <2>9. CASE AgentWrite(r)
    <3>1. CASE Goto(r, "rename")
      <4>1. agent' = [agent EXCEPT ![a].tmp = r] /\ row' = row /\ req[r].pc = "push"
        BY <1>10, <2>5, <2>9, <3>1, <1>4 DEF AgentWrite, Goto, End, ReqRow
      <4>2. agent'[a].tmp = r /\ agent'[a].env = agent[a].env
        BY <1>0, <4>1 DEF Host
      <4>3. /\ req'[r].pc = "rename" /\ req'[r].a = a /\ req'[r].op = req[r].op
            /\ req'[r].id = req[r].id
        BY <1>0, <1>10, <2>5, <3>1 DEF Goto, ReqRow
      <4> QED BY <2>1, <2>3, <2>4, <4>1, <4>2, <4>3, LinkAlone DEF HasToken, Exists
    <3> QED BY <2>6, <2>9, <3>1 DEF AgentWrite
  <2>10. CASE AgentRename(r)
    <3>1. CASE agent[a].tmp = NULL
      BY <1>10, <2>6, <2>10, <3>1 DEF AgentRename
    <3>2. CASE agent[a].tmp # NULL
      <4>1. /\ agent' = [agent EXCEPT ![a].env = agent[a].tmp, ![a].tmp = NULL, ![a].leaving = TRUE]
            /\ Goto(r, "persist") /\ row' = row /\ req[r].pc = "rename"
        BY <1>0, <1>10, <2>10, <3>2, FaultSeen DEF AgentRename
      <4>2. agent[a].tmp = r
        BY <1>2, <1>10, <4>1 DEF LinkOK, Writes, Writers
      <4>3. agent'[a].env = r
        BY <1>0, <4>1, <4>2 DEF Host
      <4>4. /\ req'[r].pc = "persist" /\ req'[r].a = a /\ req'[r].op = req[r].op
            /\ req'[r].id = req[r].id
        BY <1>0, <1>10, <2>5, <4>1 DEF Goto, ReqRow
      <4> QED BY <1>10, <2>1, <2>3, <4>1, <4>3, <4>4, LinkAlone DEF HasToken, Exists
    <3> QED BY <3>1, <3>2
  <2>11. CASE RotatePersist(r)
    <3>1. req[r].pc = "persist" /\ agent' = agent /\ req'[r] = Done
      BY <2>5, <2>11 DEF RotatePersist, End
    <3>2. agent[a].env = r /\ req[r].id # NULL
      BY <1>0, <1>2, <1>10, <3>1 DEF LinkOK, Writes, Writers, ShapeOf
    <3>3. CASE Same(r)
      <4>1. row' = [row EXCEPT ![a] = NewToken(r)]
        BY <1>10, <2>11, <3>3 DEF RotatePersist
      <4>2. row[a] \in ServerRow
        BY <1>0, <1>10, <3>3, RowOf DEF Same
      <4>3. row'[a].token = r
        BY <1>0, <1>10, <4>1, <4>2 DEF NewToken, ServerRow
      <4> QED BY <1>4, <2>1, <3>1, <3>2, <4>3, LinkAlone
    <3>4. CASE ~Same(r)
      <4>1. row' = row
        BY <2>11, <3>4 DEF RotatePersist
      <4>2. ~HasToken(a)
        BY <1>10, <2>3, <3>2, <3>4 DEF Same, HasToken
      <4> QED BY <1>4, <2>1, <3>1, <4>1, <4>2, LinkAlone DEF HasToken, Exists
    <3> QED BY <3>3, <3>4
  <2> QED BY <1>10, <2>7, <2>8, <2>9, <2>10, <2>11
<1>11. CASE AgentWork(r) /\ (req[r].a = a \/ req'[r].a = a)
  <2>1. ASSUME NEW c \in Agents, RotateLookup(r, c) \/ \E b \in Secrets : HandshakeLookup(r, c, b),
               req[r].pc = "new", req'[r].a = c, c # a
        PROVE  LinkOK(a)'
    <3>1. row' = row /\ agent' = agent
      BY <2>1 DEF RotateLookup, HandshakeLookup
    <3>2. CalmReq(r, a)
      BY <1>0, <2>1 DEF CalmReq, Writes
    <3>3. CalmRow(a) /\ CalmHost(a)
      BY <3>1 DEF CalmRow, CalmHost, HasToken, Exists
    <3> QED BY <1>2, <1>3, <3>2, <3>3, LinkCalm
  <2>2. ASSUME NEW c \in Agents, RotateLookup(r, c), req[r].pc = "new", HasToken(c),
               req'[r].a = c, req'[r].op = "rotate", req'[r].pc = "push", req'[r].id = row[c].id
        PROVE  LinkOK(a)'
    BY <1>8, <2>1, <2>2
  <2>3. ASSUME NEW c \in Agents, NEW b \in Secrets, HandshakeLookup(r, c, b), req[r].pc = "new", Exists(c),
               row[c].boot = b,
               req'[r].a = c, req'[r].op = "handshake", req'[r].pc = "redeem", req'[r].id = row[c].id
        PROVE  LinkOK(a)'
    BY <1>9, <2>1, <2>3
  <2>4. ASSUME HandshakeRedeem(r) \/ Install(r) \/ AgentWrite(r) \/ AgentRename(r) \/ RotatePersist(r),
               req[r].a \in Agents, req[r].op \in Writers, req[r].pc # "new",
               req'[r] = Done \/ (req'[r].a = req[r].a /\ req'[r].op = req[r].op /\ req'[r].id = req[r].id)
        PROVE  LinkOK(a)'
    <3>1. Done.a = NULL /\ a # NULL
      BY ServersConstants DEF Done, Idle
    <3>2. req[r].a = a
      BY <1>11, <2>4, <3>1
    <3> QED BY <1>10, <2>4, <3>2
  <2> QED BY <1>0, <1>11, <2>2, <2>3, <2>4, AgentWorkMoves
<1> QED BY <1>5, <1>6, <1>11

-----------------------------------------------------------------------------
(* The link to the peer.                                                      *)

LEMMA StepToken ==
  ASSUME Core, TokenInv, NEW r \in Requests, Step(r)
  PROVE  TokenInv'
<1>0. /\ TypeInv /\ FedSees /\ ReqOK /\ ReqOK' /\ fed \in [Secrets -> FedToken \cup {NULL}]
      /\ NULL \notin FedToken /\ r \in Secrets /\ Requests \subseteq Secrets
  BY ServersNames, StepReq DEF Core, TypeInv, Secrets
<1>1. /\ req'[r].pc # "new" /\ req[r].pc # "done"
      /\ \A p \in Requests \ {r} : req'[p] = req[p]
  BY <1>0, StepReq
<1>2. Done.pc = "done" /\ Done.op = "none"
  BY DoneRow
<1>3. ASSUME NEW t, Finished(t) PROVE t \in Requests => req'[t].pc = "done"
  BY <1>1, <1>3 DEF Finished
<1>4. ASSUME NEW q \in Requests, req'[q].op = "fed_rotate", req'[q].id # NULL
      PROVE  Rotates(q) \/ (q = r /\ SchedulerFree)
  <2>1. CASE q # r
    BY <1>1, <1>4, <2>1 DEF Rotates
  <2>2. CASE q = r
    <3>1. FedWork(r)
      BY <1>0, <1>4, <2>2, NoFedWorkMoves
    <3>2. ASSUME NEW op \in StackOps \cup {"fed_rotate"}, LookupWritePeer(r, op), req'[r].op = op
          PROVE  SchedulerFree
      BY <1>4, <2>2, <3>2 DEF LookupWritePeer
    <3> QED BY <1>0, <1>2, <1>4, <2>2, <3>1, <3>2, FedWorkMoves DEF Rotates
  <2> QED BY <2>1, <2>2
<1>5. \A p, q \in Requests : Rotates(p)' /\ Rotates(q)' => p = q
  <2> SUFFICES ASSUME NEW p \in Requests, NEW q \in Requests, req'[p].op = "fed_rotate", req'[p].id # NULL,
                      req'[q].op = "fed_rotate", req'[q].id # NULL
               PROVE  p = q
    BY DEF Rotates
  <2>1. Rotates(p) \/ (p = r /\ SchedulerFree)
    BY <1>4
  <2>2. Rotates(q) \/ (q = r /\ SchedulerFree)
    BY <1>4
  <2> QED BY <2>1, <2>2 DEF SchedulerFree, TokenInv, Rotates
<1>6. peerRow' # NULL /\ peerRow'.token # NULL => (peerRow'.token \in Requests => req'[peerRow'.token].pc = "done")
  <2> SUFFICES ASSUME peerRow' # NULL, peerRow'.token # NULL
               PROVE  peerRow'.token \in Requests => req'[peerRow'.token].pc = "done"
    OBVIOUS
  <2>1. CASE PeerToken /\ peerRow'.token = peerRow.token
    BY <1>3, <2>1 DEF TokenInv
  <2>2. CASE PeerPaired(r) \/ PeerRotated(r)
    <3>1. req' = [req EXCEPT ![r] = Done]
      BY <2>2 DEF PeerPaired, PeerRotated, SetFederationToken, StoreFedToken, End
    <3>2. peerRow'.token = r
      BY <2>2 DEF PeerPaired, PeerRotated, TokenInv
    <3> QED BY <1>0, <1>2, <3>1, <3>2 DEF ReqOK
  <2> QED BY <1>0, <2>1, <2>2, StepPeerRow DEF PeerCreated, PeerTouched, PeerToken
<1>7. \A q \in Requests : req'[q].pc = "auth" => (req'[q].tok \in Requests => req'[req'[q].tok].pc = "done")
  <2> SUFFICES ASSUME NEW q \in Requests, req'[q].pc = "auth"
               PROVE  req'[q].tok \in Requests => req'[req'[q].tok].pc = "done"
    OBVIOUS
  <2>1. CASE q # r
    <3>1. req'[q] = req[q] /\ Finished(req[q].tok)
      BY <1>1, <2>1 DEF TokenInv
    <3> QED BY <1>3, <3>1
  <2>2. CASE q = r
    <3>1. FedWork(r)
      BY <1>0, <2>2, NoFedWorkMoves
    <3>2. PeerToken /\ req'[r].tok = peerRow.token
      BY <1>0, <1>2, <2>2, <3>1, FedWorkMoves DEF PeerToken
    <3>3. Finished(peerRow.token)
      BY <3>2 DEF TokenInv
    <3> QED BY <1>3, <2>2, <3>2, <3>3
  <2> QED BY <2>1, <2>2
<1>8. \A q \in Requests : req'[q].pc = "new" => fed'[q] = NULL
  <2> SUFFICES ASSUME NEW q \in Requests, req'[q].pc = "new"
               PROVE  fed'[q] = NULL
    OBVIOUS
  <2>1. q # r /\ fed[q] = NULL
    BY <1>1 DEF TokenInv
  <2>2. CASE FedRotated(r)
    BY <1>0, <2>1, <2>2 DEF FedRotated, FedSees
  <2> QED BY <1>0, <2>1, <2>2, StepFed DEF FedCreated, FedTouched
<1>9. ASSUME NEW q \in Requests, req'[q].pc = "paste_token"
      PROVE  /\ req'[q].tok = q /\ fed'[q] # NULL /\ fed'[q].hash = q
             /\ \A p \in Requests : req'[p].pc \in {"swap", "store"} => req'[p].ctx # q
  <2>1. CASE q = r
    <3>1. FedWork(r)
      BY <1>0, <1>9, <2>1, NoFedWorkMoves
    <3>2. CreateFedToken(r) /\ req[r].pc = "new" /\ req'[r].tok = r
      BY <1>0, <1>2, <1>9, <2>1, <3>1, FedWorkMoves
    <3>3. fed' = [fed EXCEPT ![r] = [hash |-> r, active |-> TRUE]]
      BY <3>2 DEF CreateFedToken
    <3>4. [hash |-> r, active |-> TRUE] \in FedToken
      BY <1>0 DEF FedToken
    <3>5. fed'[r] # NULL /\ fed'[r].hash = r
      BY <1>0, <3>3, <3>4
    <3>6. fed[r] = NULL
      BY <3>2 DEF TokenInv
    <3>7. ASSUME NEW p \in Requests, req'[p].pc \in {"swap", "store"} PROVE req'[p].ctx # r
      BY <1>0, <1>1, <1>9, <2>1, <3>6, <3>7 DEF FedSees
    <3> QED BY <2>1, <3>2, <3>5, <3>7
  <2>2. CASE q # r
    <3>1. req'[q] = req[q] /\ req[q].pc = "paste_token"
      BY <1>1, <1>9, <2>2
    <3>2. /\ req[q].tok = q /\ fed[q] # NULL /\ fed[q].hash = q
          /\ \A p \in Requests : req[p].pc \in {"swap", "store"} => req[p].ctx # q
      BY <3>1 DEF TokenInv
    <3>3. fed'[q] # NULL /\ fed'[q].hash = q
      <4>1. CASE fed' = fed
        BY <3>2, <4>1
      <4>2. CASE FedCreated(r)
        BY <1>0, <2>2, <3>2, <4>2 DEF FedCreated
      <4>3. CASE FedTouched
        <5>1. PICK i \in Secrets, x \in FedToken : fed' = [fed EXCEPT ![i] = x] /\ x.hash = fed[i].hash
          BY <4>3 DEF FedTouched
        <5> QED BY <1>0, <3>2, <5>1
      <4>4. CASE FedRotated(r)
        <5>1. PICK x \in FedToken : req[r].pc = "swap" /\ fed' = [fed EXCEPT ![req[r].ctx] = x]
          BY <4>4 DEF FedRotated
        <5> QED BY <1>0, <3>2, <5>1
      <4> QED BY <1>0, <4>1, <4>2, <4>3, <4>4, StepFed
    <3>4. ASSUME NEW p \in Requests, req'[p].pc \in {"swap", "store"} PROVE req'[p].ctx # q
      <4>1. CASE p # r
        BY <1>1, <3>2, <3>4, <4>1
      <4>2. CASE p = r
        <5>1. FedWork(r)
          BY <1>0, <3>4, <4>2, NoFedWorkMoves
        <5>2. \/ req[r].pc = "swap" /\ req'[r].ctx = req[r].ctx
              \/ req[r].pc = "auth" /\ fed[req'[r].ctx].hash = req[r].tok
          BY <1>0, <1>2, <3>4, <4>2, <5>1, FedWorkMoves
        <5>3. CASE req[r].pc = "auth" /\ fed[req'[r].ctx].hash = req[r].tok
          <6>1. Finished(req[r].tok)
            BY <5>3 DEF TokenInv
          <6> QED BY <3>1, <3>2, <4>2, <5>3, <6>1 DEF Finished
        <5> QED BY <3>2, <4>2, <5>2, <5>3
      <4> QED BY <4>1, <4>2
    <3> QED BY <3>1, <3>2, <3>3, <3>4
  <2> QED BY <2>1, <2>2
<1> QED BY <1>5, <1>6, <1>7, <1>8, <1>9 DEF TokenInv, PeerToken, Finished

\* What a step leaves of a token the peer accepted.
LEMMA StepAccepts ==
  ASSUME Core, TokenInv, NEW r \in Requests, Step(r), NEW i \in Secrets, fed[i] # NULL,
         ~(FedRotated(r) /\ i = req[r].ctx)
  PROVE  fed'[i] # NULL /\ fed'[i].hash = fed[i].hash
<1>0. TypeInv /\ FedSees /\ fed \in [Secrets -> FedToken \cup {NULL}] /\ NULL \notin FedToken
  BY ServersNames DEF Core, TypeInv
<1>1. CASE FedCreated(r)
  <2>1. PICK x \in FedToken : req[r].pc = "new" /\ fed' = [fed EXCEPT ![r] = x]
    BY <1>1 DEF FedCreated
  <2>2. fed[r] = NULL
    BY <2>1 DEF TokenInv
  <2> QED BY <1>0, <2>1, <2>2
<1>2. CASE FedTouched
  <2>1. PICK j \in Secrets, x \in FedToken : fed' = [fed EXCEPT ![j] = x] /\ x.hash = fed[j].hash
    BY <1>2 DEF FedTouched
  <2> QED BY <1>0, <2>1
<1>3. CASE FedRotated(r)
  <2>1. PICK x \in FedToken : fed' = [fed EXCEPT ![req[r].ctx] = x]
    BY <1>3 DEF FedRotated
  <2> QED BY <1>0, <1>3, <2>1
<1> QED BY <1>0, <1>1, <1>2, <1>3, StepFed

\* A rotation that swaps the hash on the peer either goes on to store it, alone, or is a fault.
LEMMA StepSwap ==
  ASSUME Core, NEW r \in Requests, Step(r), FedRotated(r), "peer" \notin log'.fault
  PROVE  /\ Rotates(r) /\ req[r].pc = "swap" /\ req'[r].pc = "store" /\ req'[r].ctx = req[r].ctx
         /\ req'[r].id = req[r].id /\ peerRow' = peerRow /\ req[r].ctx \in Secrets
         /\ fed'[req[r].ctx] # NULL /\ fed'[req[r].ctx].hash = r
<1>0. /\ TypeInv /\ req \in [Requests -> ReqRow] /\ ShapeOf(req[r])
      /\ fed \in [Secrets -> FedToken \cup {NULL}] /\ NULL \notin FedToken
  BY ServersNames DEF Core, TypeInv, ReqOK
<1>1. PICK x \in FedToken : /\ RotateOnPeer(r) /\ req[r].pc = "swap" /\ req[r].ctx \in Secrets
                            /\ fed' = [fed EXCEPT ![req[r].ctx] = x] /\ x.hash = r
  BY DEF FedRotated
<1>2. req[r].id # NULL /\ Goto(r, "store") /\ peerRow' = peerRow
  BY <1>0, <1>1, FaultSeen DEF RotateOnPeer
<1>3. req'[r].pc = "store" /\ req'[r].ctx = req[r].ctx /\ req'[r].id = req[r].id
  BY <1>0, <1>2 DEF Goto, ReqRow
<1> QED BY <1>0, <1>1, <1>2, <1>3 DEF Rotates, ShapeOf

LEMMA StepPeerLink ==
  ASSUME Core, TokenInv, PeerLinkOK, NEW r \in Requests, Step(r), "peer" \notin log'.fault
  PROVE  PeerLinkOK'
<1>0. /\ TypeInv /\ FedSees /\ ReqOK /\ fed \in [Secrets -> FedToken \cup {NULL}]
      /\ NULL \notin FedToken /\ r \in Secrets /\ \A q \in Requests : ShapeOf(req[q])
  BY ServersNames DEF Core, TypeInv, Secrets, ReqOK
<1>1. /\ req'[r].pc # "new" /\ req[r].pc # "done"
      /\ \A p \in Requests \ {r} : req'[p] = req[p]
  BY <1>0, StepReq
<1>2. Done.pc = "done" /\ Done.op = "none"
  BY DoneRow
<1>3. ASSUME NEW q \in Requests, req[q].pc = "store" PROVE Rotates(q) /\ req[q].ctx \in Secrets
  BY <1>0, <1>3 DEF ShapeOf, Rotates
<1>4. ASSUME NEW q \in Requests \ {r}, Rotates(q) PROVE ~FedRotated(r)
  BY <1>4, StepSwap DEF TokenInv
<1>5. CASE PeerPaired(r)
  <2>1. /\ req[r].pc = "paste_token" /\ peerRow # NULL /\ peerRow'.id = peerRow.id /\ fed' = fed
        /\ req' = [req EXCEPT ![r] = Done] /\ peerRow'.token = req[r].tok
    BY <1>5 DEF PeerPaired, SetFederationToken, End
  <2>2. /\ peerRow'.token = r /\ fed[r] # NULL /\ fed[r].hash = r
        /\ \A q \in Requests : req[q].pc \in {"swap", "store"} => req[q].ctx # r
    BY <2>1 DEF TokenInv
  <2>3. req'[r] = Done
    BY <1>0, <2>1 DEF ReqOK
  <2>4. \A q \in Requests : req'[q].pc = "store" => fed'[req'[q].ctx].hash = q
    BY <1>1, <1>2, <2>1, <2>3 DEF PeerLinkOK
  <2>5. fed'[r] # NULL /\ fed'[r].hash = peerRow'.token
    BY <2>1, <2>2
  <2>6. ASSUME NEW q \in Requests, req'[q].op = "fed_rotate", req'[q].id # NULL
        PROVE  /\ req'[q].pc = "auth" => req'[q].tok # peerRow'.token
               /\ req'[q].pc \in {"swap", "store"} =>
                    \E i \in Secrets : fed'[i] # NULL /\ fed'[i].hash = peerRow'.token /\ i # req'[q].ctx
    <3>1. q # r /\ req'[q] = req[q]
      BY <1>1, <1>2, <2>3, <2>6
    <3>2. req[q].pc = "auth" => req[q].tok # r
      BY <2>1 DEF TokenInv, Finished
    <3>3. req[q].pc \in {"swap", "store"} => req[q].ctx # r
      BY <2>2
    <3> QED BY <1>0, <2>2, <2>5, <3>1, <3>2, <3>3
  <2> QED BY <1>0, <2>4, <2>5, <2>6 DEF PeerLinkOK, PeerToken, Accepts, Rotates, SamePeer
<1>6. CASE PeerRotated(r)
  <2>1. /\ SamePeer(r) /\ req[r].pc = "store" /\ fed' = fed
        /\ req' = [req EXCEPT ![r] = Done] /\ peerRow'.token = r
    BY <1>6 DEF PeerRotated, StoreFedToken, End
  <2>2. req'[r] = Done /\ req[r].ctx \in Secrets /\ fed[req[r].ctx] # NULL /\ Rotates(r)
    BY <1>0, <1>3, <2>1 DEF ReqOK, FedSees
  <2>3. \A q \in Requests : req'[q].pc = "store" => fed'[req'[q].ctx].hash = q
    BY <1>1, <1>2, <2>1, <2>2 DEF PeerLinkOK
  <2>4. fed'[req[r].ctx] # NULL /\ fed'[req[r].ctx].hash = peerRow'.token
    BY <2>1, <2>2 DEF PeerLinkOK
  <2>5. ASSUME NEW q \in Requests, req'[q].op = "fed_rotate", req'[q].id # NULL PROVE FALSE
    BY <1>1, <1>2, <2>2, <2>5 DEF TokenInv, Rotates
  <2> QED BY <2>2, <2>3, <2>4, <2>5 DEF PeerLinkOK, PeerToken, Accepts, Rotates, SamePeer
<1>7. CASE ~PeerPaired(r) /\ ~PeerRotated(r)
  <2>1. peerRow' # NULL /\ peerRow'.token # NULL =>
          PeerToken /\ peerRow'.token = peerRow.token /\ peerRow'.id = peerRow.id
    BY <1>0, <1>7, StepPeerRow DEF PeerCreated, PeerTouched, PeerToken
  <2>2. ASSUME NEW q \in Requests, req'[q].pc = "store" PROVE fed'[req'[q].ctx].hash = q
    <3>1. CASE q # r
      <4>1. req'[q] = req[q] /\ Rotates(q) /\ req[q].ctx \in Secrets
        BY <1>1, <1>3, <2>2, <3>1
      <4>2. fed[req[q].ctx] # NULL /\ fed[req[q].ctx].hash = q
        BY <1>0, <2>2, <4>1 DEF PeerLinkOK, FedSees
      <4>3. ~FedRotated(r)
        BY <1>4, <3>1, <4>1
      <4> QED BY <4>1, <4>2, <4>3, StepAccepts
    <3>2. CASE q = r
      <4>1. FedWork(r)
        BY <1>0, <2>2, <3>2, NoFedWorkMoves
      <4>2. RotateOnPeer(r)
        BY <1>0, <1>2, <2>2, <3>2, <4>1, FedWorkMoves
      <4>3. FedRotated(r)
        <5> DEFINE x == [fed[req[r].ctx] EXCEPT !.hash = r]
        <5>1. req[r].pc = "swap" /\ req[r].ctx \in Secrets
          BY <1>0, <4>2 DEF RotateOnPeer, ShapeOf
        <5>2. fed[req[r].ctx] \in FedToken
          BY <1>0, <5>1 DEF FedSees
        <5>3. x \in FedToken /\ x.hash = r
          BY <1>0, <5>2 DEF FedToken
        <5>4. fed' = [fed EXCEPT ![req[r].ctx] = x]
          BY <4>2 DEF RotateOnPeer
        <5> HIDE DEF x
        <5> QED BY <4>2, <5>1, <5>3, <5>4 DEF FedRotated
      <4> QED BY <3>2, <4>3, StepSwap
    <3> QED BY <3>1, <3>2
  <2>3. ASSUME peerRow' # NULL, peerRow'.token # NULL
        PROVE  \/ \E i \in Secrets : fed'[i] # NULL /\ fed'[i].hash = peerRow'.token
               \/ \E q \in Requests : req'[q].pc = "store" /\ peerRow'.id = req'[q].id
    <3>1. PeerToken /\ peerRow'.token = peerRow.token /\ peerRow'.id = peerRow.id
      BY <2>1, <2>3
    <3>2. CASE \E i \in Secrets : Accepts(i)
      <4>1. PICK i \in Secrets : fed[i] # NULL /\ fed[i].hash = peerRow.token
        BY <3>2 DEF Accepts
      <4>2. CASE ~(FedRotated(r) /\ i = req[r].ctx)
        BY <3>1, <4>1, <4>2, StepAccepts
      <4>3. CASE FedRotated(r) /\ i = req[r].ctx
        <5>1. Rotates(r) /\ req[r].pc = "swap" /\ req'[r].pc = "store" /\ req'[r].id = req[r].id
          BY <4>3, StepSwap
        <5>2. CASE SamePeer(r)
          BY <3>1, <5>1, <5>2 DEF SamePeer
        <5>3. CASE ~SamePeer(r)
          <6>1. PICK j \in Secrets : Accepts(j) /\ j # req[r].ctx
            BY <3>1, <5>1, <5>3 DEF PeerLinkOK
          <6> QED BY <3>1, <6>1, StepAccepts DEF Accepts
        <5> QED BY <5>2, <5>3
      <4> QED BY <4>2, <4>3
    <3>3. CASE \E q \in Requests : req[q].pc = "store" /\ SamePeer(q)
      <4>1. PICK q \in Requests : req[q].pc = "store" /\ SamePeer(q)
        BY <3>3
      <4>2. CASE q # r
        BY <1>1, <3>1, <4>1, <4>2 DEF SamePeer
      <4>3. CASE q = r
        <5>1. FedWork(r)
          BY <1>0, <4>1, <4>3, NoFedWorkMoves
        <5>2. StoreFedToken(r)
          BY <1>0, <4>1, <4>3, <5>1, FedWorkMoves DEF SetFederationToken
        <5>3. peerRow' = [peerRow EXCEPT !.token = r] /\ fed' = fed
          BY <4>1, <4>3, <5>2 DEF StoreFedToken
        <5>4. peerRow \in PeerRow
          BY <1>0, <3>1 DEF TypeInv, PeerToken
        <5>5. peerRow'.token = r
          BY <5>3, <5>4 DEF PeerRow
        <5>6. req[r].ctx \in Secrets /\ fed[req[r].ctx] # NULL /\ fed[req[r].ctx].hash = r
          BY <1>0, <1>3, <4>1, <4>3 DEF PeerLinkOK, FedSees
        <5> QED BY <5>3, <5>5, <5>6
      <4> QED BY <4>2, <4>3
    <3> QED BY <3>1, <3>2, <3>3 DEF PeerLinkOK
  <2>4. ASSUME NEW q \in Requests, req'[q].op = "fed_rotate", req'[q].id # NULL,
               peerRow' # NULL, peerRow'.token # NULL, peerRow'.id # req'[q].id
        PROVE  /\ req'[q].pc = "auth" => req'[q].tok # peerRow'.token
               /\ req'[q].pc \in {"swap", "store"} =>
                    \E i \in Secrets : fed'[i] # NULL /\ fed'[i].hash = peerRow'.token /\ i # req'[q].ctx
    <3>1. PeerToken /\ peerRow'.token = peerRow.token /\ peerRow'.id = peerRow.id
      BY <2>1, <2>4
    <3>2. CASE q # r
      <4>1. req'[q] = req[q] /\ Rotates(q) /\ ~SamePeer(q)
        BY <1>1, <2>4, <3>1, <3>2 DEF Rotates, SamePeer
      <4>2. req[q].pc = "auth" => req[q].tok # peerRow.token
        BY <3>1, <4>1 DEF PeerLinkOK
      <4>3. ASSUME req[q].pc \in {"swap", "store"}
            PROVE  \E i \in Secrets : fed'[i] # NULL /\ fed'[i].hash = peerRow'.token /\ i # req[q].ctx
        <5>1. PICK i \in Secrets : Accepts(i) /\ i # req[q].ctx
          BY <3>1, <4>1, <4>3 DEF PeerLinkOK
        <5>2. ~FedRotated(r)
          BY <1>4, <3>2, <4>1
        <5> QED BY <3>1, <5>1, <5>2, StepAccepts DEF Accepts
      <4> QED BY <3>1, <4>1, <4>2, <4>3
    <3>3. CASE q = r
      <4>1. FedWork(r)
        BY <1>0, <2>4, <3>3, NoFedWorkMoves
      <4>2. ~\E op \in StackOps \cup {"fed_rotate"} : req'[r].pc = "auth" /\ req'[r].op = op /\ req'[r].id = peerRow.id
        BY <2>4, <3>1, <3>3
      <4>3. CASE \E i \in Secrets :
                   /\ RequireFederation(r) /\ req[r].pc = "auth" /\ fed[i] # NULL /\ fed[i].hash = req[r].tok
                   /\ req'[r].ctx = i /\ req'[r].op = req[r].op /\ req'[r].id = req[r].id
                   /\ req'[r].pc = IF req[r].op = "fed_rotate" THEN "swap" ELSE "stack"
        <5>1. Rotates(r) /\ ~SamePeer(r) /\ req[r].pc = "auth" /\ req'[r].pc = "swap" /\ fed' = fed
          BY <2>4, <3>1, <3>3, <4>3 DEF Rotates, SamePeer, RequireFederation
        <5>2. req[r].tok # peerRow.token /\ fed[req'[r].ctx].hash = req[r].tok
          BY <3>1, <4>3, <5>1 DEF PeerLinkOK
        <5>3. \A p \in Requests : req[p].pc # "store"
          BY <1>3, <5>1 DEF TokenInv
        <5>4. PICK j \in Secrets : Accepts(j)
          BY <3>1, <5>3 DEF PeerLinkOK
        <5>5. j # req'[r].ctx
          BY <5>2, <5>4 DEF Accepts
        <5> QED BY <3>1, <3>3, <5>1, <5>4, <5>5 DEF Accepts
      <4>4. CASE /\ RotateOnPeer(r) /\ req[r].pc = "swap" /\ req[r].id # NULL /\ req'[r].pc = "store"
                 /\ req'[r].ctx = req[r].ctx /\ req'[r].op = req[r].op /\ req'[r].id = req[r].id
        <5>1. Rotates(r) /\ ~SamePeer(r)
          BY <2>4, <3>1, <3>3, <4>4 DEF Rotates, SamePeer
        <5>2. PICK j \in Secrets : Accepts(j) /\ j # req[r].ctx
          BY <3>1, <4>4, <5>1 DEF PeerLinkOK
        <5>3. fed'[j] # NULL /\ fed'[j].hash = fed[j].hash
          BY <5>2, StepAccepts DEF Accepts
        <5> QED BY <3>1, <3>3, <4>4, <5>2, <5>3 DEF Accepts
      <4> QED BY <1>0, <1>2, <2>4, <3>3, <4>1, <4>2, <4>3, <4>4, FedWorkMoves
    <3> QED BY <3>2, <3>3
  <2> QED BY <2>2, <2>3, <2>4 DEF PeerLinkOK, PeerToken, Accepts, Rotates, SamePeer
<1> QED BY <1>5, <1>6, <1>7

LEMMA StepPeerInv ==
  ASSUME Core, PeerInv, NEW r \in Requests, Step(r)
  PROVE  PeerInv'
<1>1. TypeInv /\ TokenInv
  BY DEF Core, PeerInv
<1>2. TokenInv'
  BY <1>1, StepToken
<1>3. "peer" \notin log'.fault => PeerLinkOK'
  BY <1>1, FaultStays, StepPeerLink DEF PeerInv
<1> QED BY <1>2, <1>3 DEF PeerInv

-----------------------------------------------------------------------------
(* Respawn, expiry and crash.                                                *)

\* Why the properties hold.
ServersInv == Core /\ BootInv /\ LinkInv /\ PeerInv

LEMMA RespawnInv ==
  ASSUME ServersInv, NEW b \in Agents, Respawn(b)
  PROVE  ServersInv'
<1>0. /\ TypeInv /\ ReqOK /\ req \in [Requests -> ReqRow] /\ agent \in [Agents -> Host]
      /\ \A q \in Requests : ShapeOf(req[q])
  BY DEF ServersInv, Core, TypeInv, ReqOK
<1>1. /\ row' = row /\ peerRow' = peerRow /\ grant' = grant /\ fed' = fed /\ stack' = stack
      /\ log' = log /\ events' = events
      /\ agent' = [agent EXCEPT ![b].ram = agent[b].env, ![b].leaving = FALSE]
      /\ req' = [r \in Requests |-> IF req[r].a = b /\ req[r].pc = "rename" THEN Done ELSE req[r]]
  BY DEF Respawn
<1>2. ASSUME NEW q \in Requests
      PROVE  \/ req'[q] = req[q]
             \/ req[q].pc = "rename" /\ req'[q] = Done
  BY <1>1
<1>3. Done.pc = "done" /\ Done.op = "none" /\ Done.id = NULL /\ Done \in ReqRow /\ ShapeOf(Done)
  BY DoneRow
<1>4. ReqOK'
  BY <1>0, <1>1, <1>2, <1>3 DEF ReqOK
<1>5. agent' \in [Agents -> Host] /\ \A a \in Agents : CalmHost(a)
  BY <1>0, <1>1 DEF Host, CalmHost
<1>6. TypeInv'
  BY <1>0, <1>1, <1>4, <1>5 DEF TypeInv, RowsOK, LogOK, Exists
<1>7. FreshIds'
  <2>1. \A q \in Requests : (req'[q].pc = "new" => req[q].pc = "new") /\ req'[q].id \in {req[q].id, NULL}
    BY <1>2, <1>3
  <2> QED BY <1>1, <2>1, ServersConstants DEF ServersInv, Core, FreshIds, Exists
<1>8. RotationSees'
  BY <1>1, <1>2, <1>3 DEF ServersInv, Core, RotationSees, Same, Exists
<1>9. FedSees'
  BY <1>1, <1>2, <1>3 DEF ServersInv, Core, FedSees
<1>10. BootInv'
  <2>1. \A q \in Requests : req'[q].pc = "new" => req[q].pc = "new"
    BY <1>2, <1>3
  <2> QED BY <1>1, <2>1 DEF ServersInv, BootInv, Exists
<1>11. LinkInv'
  <2> SUFFICES ASSUME NEW a \in Agents, a \notin log'.fault PROVE LinkOK(a)'
    BY DEF LinkInv
  <2>1. LinkOK(a)
    BY <1>1 DEF ServersInv, LinkInv
  <2>2. \A q \in Requests : CalmReq(q, a)
    BY <1>2, <1>3, ServersConstants DEF CalmReq, Writers
  <2>3. CalmRow(a)
    BY <1>1 DEF CalmRow, HasToken, Exists
  <2> QED BY <1>5, <2>1, <2>2, <2>3, LinkCalm
<1>12. TokenInv'
  <2>1. TokenInv
    BY DEF ServersInv, PeerInv
  <2>2. \A q \in Requests :
          /\ req'[q].pc \in {"new", "auth", "paste_token", "swap", "store"} => req'[q] = req[q]
          /\ req'[q].op = "fed_rotate" => req'[q] = req[q]
          /\ req[q].pc = "done" => req'[q].pc = "done"
    BY <1>2, <1>3
  <2>3. \A r, q \in Requests : Rotates(r)' /\ Rotates(q)' => r = q
    BY <2>1, <2>2 DEF TokenInv, Rotates
  <2>4. ASSUME NEW t, Finished(t) PROVE t \in Requests => req'[t].pc = "done"
    BY <2>2, <2>4 DEF Finished
  <2>5. PeerToken => (peerRow.token \in Requests => req'[peerRow.token].pc = "done")
    BY <2>1, <2>4 DEF TokenInv
  <2>6. \A r \in Requests : req'[r].pc = "auth" => (req'[r].tok \in Requests => req'[req'[r].tok].pc = "done")
    BY <2>1, <2>2, <2>4 DEF TokenInv
  <2>7. \A r \in Requests : req'[r].pc = "new" => fed'[r] = NULL
    BY <1>1, <2>1, <2>2 DEF TokenInv
  <2>8. \A r \in Requests : req'[r].pc = "paste_token" =>
          /\ req'[r].tok = r /\ fed'[r] # NULL /\ fed'[r].hash = r
          /\ \A q \in Requests : req'[q].pc \in {"swap", "store"} => req'[q].ctx # r
    BY <1>1, <2>1, <2>2 DEF TokenInv
  <2> QED BY <1>1, <2>3, <2>5, <2>6, <2>7, <2>8 DEF TokenInv, PeerToken, Finished
<1>13. "peer" \notin log'.fault => PeerLinkOK'
  <2> SUFFICES ASSUME "peer" \notin log'.fault PROVE PeerLinkOK'
    OBVIOUS
  <2>1. PeerLinkOK
    BY <1>1 DEF ServersInv, PeerInv
  <2>2. \A q \in Requests :
          /\ (req'[q].pc \in {"auth", "swap", "store"} \/ req'[q].op = "fed_rotate") => req'[q] = req[q]
          /\ req[q].pc = "store" => req'[q] = req[q]
    BY <1>2, <1>3
  <2> QED BY <1>1, <2>1, <2>2 DEF PeerLinkOK, PeerToken, Accepts, Rotates, SamePeer
<1> QED BY <1>6, <1>7, <1>8, <1>9, <1>10, <1>11, <1>12, <1>13 DEF ServersInv, Core, PeerInv

LEMMA ExpireInv ==
  ASSUME ServersInv, NEW b \in Agents, ExpireBootstrap(b)
  PROVE  ServersInv'
<1>0. TypeInv /\ row \in [Agents -> ServerRow \cup {NULL}] /\ NULL \notin ServerRow
  BY ServersNames DEF ServersInv, Core, TypeInv, RowsOK
<1>1. /\ peerRow' = peerRow /\ grant' = grant /\ fed' = fed /\ stack' = stack /\ log' = log /\ req' = req
      /\ agent' = agent /\ Exists(b) /\ row' = [row EXCEPT ![b].late = TRUE]
      /\ events < MaxEvents /\ events' = events + 1
  BY DEF ExpireBootstrap
<1>2. row[b] \in ServerRow
  BY <1>0, <1>1, RowOf
<1>3. /\ row' \in [Agents -> ServerRow \cup {NULL}]
      /\ \A a \in Agents : /\ row'[a] # NULL <=> row[a] # NULL
                           /\ row[a] # NULL => /\ row'[a].id = row[a].id /\ row'[a].boot = row[a].boot
                                               /\ row'[a].token = row[a].token
  <2> DEFINE x == [row[b] EXCEPT !.late = TRUE]
  <2>1. x \in ServerRow /\ x.id = row[b].id /\ x.boot = row[b].boot /\ x.token = row[b].token
    BY <1>2 DEF ServerRow
  <2>2. row' = [row EXCEPT ![b] = x]
    BY <1>1
  <2> HIDE DEF x
  <2> QED BY <1>0, <1>2, <2>1, <2>2
<1>4. TypeInv'
  <2>1. RowsOK'
    BY <1>0, <1>3 DEF TypeInv, RowsOK, Exists
  <2>2. events' \in 0 .. MaxEvents
    BY <1>0, <1>1, ServersConstants DEF TypeInv
  <2> QED BY <1>0, <1>1, <2>1, <2>2 DEF TypeInv, ReqOK, LogOK
<1>5. FreshIds'
  BY <1>1, <1>3 DEF ServersInv, Core, FreshIds, Exists
<1>6. RotationSees'
  <2> SUFFICES ASSUME NEW q \in Requests, req[q].op = "rotate", req[q].id # NULL,
                      row'[req[q].a] # NULL, row'[req[q].a].id = req[q].id
               PROVE  row'[req[q].a].token # NULL
    BY <1>1 DEF RotationSees, Same, Exists
  <2>1. req[q].a \in Agents
    BY <1>0 DEF TypeInv, ReqOK, ShapeOf, AgentSteps
  <2>2. Same(q)
    BY <1>3, <2>1 DEF Same, Exists
  <2>3. row[req[q].a].token # NULL
    BY <2>2 DEF ServersInv, Core, RotationSees
  <2> QED BY <1>3, <2>1, <2>2, <2>3 DEF Same, Exists
<1>7. FedSees'
  BY <1>1 DEF ServersInv, Core, FedSees
<1>8. BootInv'
  BY <1>1, <1>3 DEF ServersInv, BootInv, Exists
<1>9. LinkInv'
  <2> SUFFICES ASSUME NEW a \in Agents, a \notin log'.fault PROVE LinkOK(a)'
    BY DEF LinkInv
  <2>1. LinkOK(a)
    BY <1>1 DEF ServersInv, LinkInv
  <2>2. \A q \in Requests : CalmReq(q, a)
    BY <1>1 DEF CalmReq
  <2>3. CalmRow(a) /\ CalmHost(a)
    BY <1>1, <1>3 DEF CalmRow, CalmHost, HasToken, Exists
  <2> QED BY <2>1, <2>2, <2>3, LinkCalm
<1>10. PeerInv'
  BY <1>1 DEF ServersInv, PeerInv, TokenInv, PeerLinkOK, PeerToken, Accepts, Rotates, SamePeer, Finished
<1> QED BY <1>4, <1>5, <1>6, <1>7, <1>8, <1>9, <1>10 DEF ServersInv, Core

\* A restart ends every request, except the ones that go on without it.
CrashReq(q) ==
  \/ req[q].pc = "new" /\ req'[q] = req[q]
  \/ req[q].pc \in {"rename", "swap", "stack", "docker"} /\ req'[q] = [req[q] EXCEPT !.id = NULL]
  \/ req[q].pc \notin {"new", "rename", "swap", "stack", "docker"} /\ req'[q] = Done

LEMMA CrashInv ==
  ASSUME ServersInv, Crash
  PROVE  ServersInv'
<1>0. /\ TypeInv /\ ReqOK /\ req \in [Requests -> ReqRow] /\ LogOK /\ \A q \in Requests : ShapeOf(req[q])
  BY DEF ServersInv, Core, TypeInv, ReqOK
<1> DEFINE lost == {IF req[r].a = NULL THEN "peer" ELSE req[r].a :
                      r \in {q \in Requests : req[q].pc \in {"persist", "install", "store"}}}
<1>1. /\ row' = row /\ agent' = agent /\ peerRow' = peerRow /\ grant' = grant /\ fed' = fed /\ stack' = stack
      /\ log' = [log EXCEPT !.fault = @ \cup lost]
      /\ events < MaxEvents /\ events' = events + 1
  BY DEF Crash
<1>2. req' = [r \in Requests |-> CASE req[r].pc = "new" -> req[r]
                [] req[r].pc \in {"rename", "swap", "stack", "docker"} -> [req[r] EXCEPT !.id = NULL]
                [] OTHER -> Done]
  BY DEF Crash
<1>3. ASSUME NEW q \in Requests PROVE CrashReq(q)
  <2>1. req'[q] = CASE req[q].pc = "new" -> req[q]
                    [] req[q].pc \in {"rename", "swap", "stack", "docker"} -> [req[q] EXCEPT !.id = NULL]
                    [] OTHER -> Done
    BY <1>2
  <2>2. CASE req[q].pc = "new"
    BY <2>1, <2>2 DEF CrashReq
  <2>3. CASE req[q].pc \in {"rename", "swap", "stack", "docker"}
    BY <2>1, <2>3 DEF CrashReq
  <2>4. CASE req[q].pc \notin {"new", "rename", "swap", "stack", "docker"}
    BY <2>1, <2>4 DEF CrashReq
  <2> QED BY <2>2, <2>3, <2>4
<1>4. Done.pc = "done" /\ Done.op = "none" /\ Done.id = NULL /\ Done \in ReqRow /\ ShapeOf(Done)
  BY DoneRow
<1>5. ASSUME NEW q \in Requests, req[q].pc \in {"rename", "swap", "stack", "docker"}
      PROVE  /\ req'[q] \in ReqRow /\ req'[q].id = NULL /\ req'[q].pc = req[q].pc /\ req'[q].op = req[q].op
             /\ req'[q].a = req[q].a /\ req'[q].ctx = req[q].ctx /\ req'[q].tok = req[q].tok
  <2>1. req'[q] = [req[q] EXCEPT !.id = NULL] /\ req[q] \in ReqRow
    BY <1>0, <1>3, <1>5 DEF CrashReq
  <2> QED BY <2>1 DEF ReqRow
<1>6. ASSUME NEW q \in Requests PROVE req'[q] \in ReqRow /\ ShapeOf(req'[q])
  <2>1. CASE req[q].pc \in {"rename", "swap", "stack", "docker"}
    BY <1>0, <1>5, <2>1 DEF ShapeOf
  <2> QED BY <1>0, <1>3, <1>4, <2>1 DEF CrashReq
<1>7. ReqOK'
  <2>1. req' \in [Requests -> ReqRow]
    <3>1. req' = [r \in Requests |-> req'[r]]
      BY <1>2
    <3> QED BY <1>6, <3>1
  <2> QED BY <1>6, <2>1 DEF ReqOK
<1>8. ASSUME NEW q \in Requests
      PROVE  /\ req'[q].pc = "new" => req[q].pc = "new" /\ req'[q] = req[q]
             /\ req'[q].pc \notin {"auth", "store", "paste_token", "persist", "install", "redeem", "push"}
             /\ req'[q].pc = "swap" => req[q].pc = "swap" /\ req'[q].ctx = req[q].ctx
             /\ req[q].pc = "done" => req'[q].pc = "done"
             /\ req'[q].op \in {"fed_rotate", "rotate"} => req'[q].id = NULL
             /\ req'[q].id \in {req[q].id, NULL}
  <2>1. CASE req[q].pc = "new"
    BY <1>0, <1>3, <2>1 DEF CrashReq, ShapeOf
  <2>2. CASE req[q].pc \in {"rename", "swap", "stack", "docker"}
    BY <1>5, <2>2
  <2> QED BY <1>3, <1>4, <2>1, <2>2 DEF CrashReq
<1>9. LogOK' /\ log'.spent = log.spent /\ log.fault \subseteq log'.fault /\ lost \subseteq log'.fault
  <2>1. lost \subseteq Agents \cup {"peer"}
    BY <1>0 DEF ReqRow
  <2> HIDE DEF lost
  <2> QED BY <1>0, <1>1, <2>1 DEF LogOK
<1>10. TypeInv'
  <2>1. events' \in 0 .. MaxEvents
    BY <1>0, <1>1, ServersConstants DEF TypeInv
  <2> QED BY <1>0, <1>1, <1>7, <1>9, <2>1 DEF TypeInv, RowsOK, Exists
<1>11. FreshIds'
  <2>1. \A q \in Requests : (req'[q].pc = "new" => req[q].pc = "new") /\ req'[q].id \in {req[q].id, NULL}
    BY <1>8
  <2> QED BY <1>1, <2>1, ServersConstants DEF ServersInv, Core, FreshIds, Exists
<1>12. RotationSees'
  BY <1>8 DEF RotationSees
<1>13. FedSees'
  BY <1>1, <1>8 DEF ServersInv, Core, FedSees
<1>14. BootInv'
  <2>1. \A q \in Requests : req'[q].pc = "new" => req[q].pc = "new"
    BY <1>8
  <2> QED BY <1>1, <1>9, <2>1 DEF ServersInv, BootInv, Exists
<1>15. LinkInv'
  <2> SUFFICES ASSUME NEW a \in Agents, a \notin log'.fault PROVE LinkOK(a)'
    BY DEF LinkInv
  <2>1. LinkOK(a)
    BY <1>9 DEF ServersInv, LinkInv
  <2>2. ASSUME NEW q \in Requests PROVE CalmReq(q, a)
    <3>1. CASE req[q].pc = "new"
      BY <1>3, <3>1 DEF CrashReq, CalmReq
    <3>2. CASE req[q].pc \in {"rename", "swap", "stack", "docker"}
      BY <1>5, <3>2 DEF CalmReq
    <3>3. CASE req[q].pc \notin {"new", "rename", "swap", "stack", "docker"}
      <4>1. req'[q] = Done
        BY <1>3, <3>3 DEF CrashReq
      <4>2. ~(Writes(q, a) /\ req[q].pc \in {"install", "persist"})
        <5> SUFFICES ASSUME req[q].a = a, req[q].pc \in {"install", "persist"} PROVE FALSE
          BY DEF Writes
        <5>1. a # NULL
          BY ServersConstants
        <5>2. a \in lost
          BY <5>1
        <5> QED BY <1>9, <5>2
      <4> QED BY <1>4, <4>1, <4>2 DEF CalmReq, Writers
    <3> QED BY <3>1, <3>2, <3>3
  <2>3. CalmRow(a) /\ CalmHost(a)
    BY <1>1 DEF CalmRow, CalmHost, HasToken, Exists
  <2> QED BY <2>1, <2>2, <2>3, LinkCalm
<1>16. TokenInv'
  <2>1. TokenInv
    BY DEF ServersInv, PeerInv
  <2>2. \A q \in Requests : ~(req'[q].op = "fed_rotate" /\ req'[q].id # NULL)
    BY <1>8
  <2>3. PeerToken => (peerRow.token \in Requests => req'[peerRow.token].pc = "done")
    BY <1>8, <2>1 DEF TokenInv, Finished
  <2>4. \A q \in Requests : req'[q].pc = "new" => fed'[q] = NULL
    BY <1>1, <1>8, <2>1 DEF TokenInv
  <2>5. \A q \in Requests : req'[q].pc \notin {"auth", "paste_token"}
    BY <1>8
  <2> QED BY <1>1, <2>2, <2>3, <2>4, <2>5 DEF TokenInv, PeerToken, Finished, Rotates
<1>17. "peer" \notin log'.fault => PeerLinkOK'
  <2> SUFFICES ASSUME "peer" \notin log'.fault PROVE PeerLinkOK'
    OBVIOUS
  <2>1. PeerLinkOK
    BY <1>9 DEF ServersInv, PeerInv
  <2>2. \A q \in Requests : req[q].pc # "store"
    <3> SUFFICES ASSUME NEW q \in Requests, req[q].pc = "store" PROVE FALSE
      OBVIOUS
    <3>1. req[q].a = NULL
      BY <1>0 DEF ShapeOf
    <3>2. "peer" \in lost
      BY <3>1
    <3> QED BY <1>9, <3>2
  <2>3. \A q \in Requests : req'[q].pc # "store" /\ ~(req'[q].op = "fed_rotate" /\ req'[q].id # NULL)
    BY <1>8
  <2> QED BY <1>1, <2>1, <2>2, <2>3 DEF PeerLinkOK, PeerToken, Accepts, Rotates, SamePeer
<1> QED BY <1>10, <1>11, <1>12, <1>13, <1>14, <1>15, <1>16, <1>17 DEF ServersInv, Core, PeerInv

-----------------------------------------------------------------------------
(* The theorems.                                                             *)

LEMMA ServersInit ==
  ASSUME Init
  PROVE  ServersInv
<1> DEFINE States == {"none", "pending", "legacy", "works"}
<1>1. PICK c \in [Agents -> States] :
        /\ row = [x \in Agents |-> CASE c[x] = "none" -> NULL
                   [] c[x] = "pending" -> [id |-> x, boot |-> x, late |-> FALSE, token |-> NULL,
                                           hash |-> NULL, status |-> "offline"]
                   [] c[x] = "legacy" -> Enrolled(x, NULL)
                   [] OTHER -> Enrolled(x, x)]
        /\ agent = [x \in Agents |-> IF c[x] \in {"legacy", "works"}
                     THEN [NoHost EXCEPT !.env = x, !.ram = x] ELSE NoHost]
  BY DEF Init
<1>2. /\ grant = TRUE /\ req = [r \in Requests |-> Idle] /\ events = 0
      /\ log = [spent |-> [b \in Secrets |-> 0], fault |-> {}]
  BY DEF Init
<1>3. \/ peerRow = NULL /\ fed = [i \in Secrets |-> NULL] /\ stack = NULL
      \/ /\ peerRow = [id |-> EARLIER, token |-> EARLIER, status |-> "online"]
         /\ fed = [i \in Secrets |-> IF i = EARLIER THEN [hash |-> EARLIER, active |-> TRUE] ELSE NULL]
         /\ stack = [id |-> EARLIER, owner |-> EARLIER, status |-> "running"]
  BY DEF Init
<1>4. /\ NULL \notin Secrets /\ NULL \notin ServerRow /\ NULL \notin FedToken /\ NULL \notin PeerRow
      /\ EARLIER \in Secrets /\ EARLIER \notin Requests /\ Agents \subseteq Secrets /\ Requests \subseteq Secrets
      /\ Agents \cap Requests = {}
  BY ServersNames DEF Secrets
<1>5. ASSUME NEW x \in Agents
      PROVE  /\ row[x] \in ServerRow \cup {NULL} /\ agent[x] \in Host
             /\ row[x] # NULL => /\ row[x].id = x /\ row[x].boot \in {x, NULL}
                                 /\ (row[x].boot = NULL) # (row[x].token = NULL)
                                 /\ row[x].token # NULL => agent[x].env = row[x].token
  <2>1. x \in Secrets /\ x # NULL
    BY <1>4
  <2>2. NoHost \in Host
    BY DEF NoHost, Host
  <2>3. row[x] = CASE c[x] = "none" -> NULL
                   [] c[x] = "pending" -> [id |-> x, boot |-> x, late |-> FALSE, token |-> NULL,
                                           hash |-> NULL, status |-> "offline"]
                   [] c[x] = "legacy" -> Enrolled(x, NULL)
                   [] OTHER -> Enrolled(x, x)
    BY <1>1
  <2>4. agent[x] = IF c[x] \in {"legacy", "works"} THEN [NoHost EXCEPT !.env = x, !.ram = x] ELSE NoHost
    BY <1>1
  <2>5. c[x] \in States
    BY <1>1
  <2>6. CASE c[x] = "none"
    BY <2>2, <2>3, <2>4, <2>6
  <2>7. CASE c[x] = "pending"
    <3>1. row[x] = [id |-> x, boot |-> x, late |-> FALSE, token |-> NULL, hash |-> NULL, status |-> "offline"]
      BY <2>3, <2>7
    <3>2. agent[x] = NoHost
      BY <2>4, <2>7
    <3> QED BY <2>1, <2>2, <3>1, <3>2 DEF ServerRow
  <2>8. CASE c[x] \in {"legacy", "works"}
    <3>1. PICK h \in {x, NULL} : row[x] = Enrolled(x, h)
      BY <2>3, <2>8
    <3>2. agent[x] = [NoHost EXCEPT !.env = x, !.ram = x]
      BY <2>4, <2>8
    <3>3. agent[x] \in Host /\ agent[x].env = x
      BY <2>1, <2>2, <3>2 DEF Host
    <3>4. row[x] \in ServerRow /\ row[x].id = x /\ row[x].boot = NULL /\ row[x].token = x
      BY <2>1, <3>1 DEF Enrolled, ServerRow
    <3> QED BY <2>1, <3>3, <3>4
  <2> QED BY <2>5, <2>6, <2>7, <2>8
<1>6. ASSUME NEW r \in Requests
      PROVE  req[r].pc = "new" /\ req[r].op = "none" /\ req[r].id = NULL /\ req[r] = Idle
  BY <1>2, IdleRow
<1>7. ReqOK
  <2>1. ShapeOf(Idle)
    BY IdleRow DEF ShapeOf, AgentSteps
  <2> QED BY <1>2, <1>6, <2>1, IdleRow DEF ReqOK
<1>8. LogOK /\ log.fault = {} /\ \A b \in Secrets : log.spent[b] = 0
  BY <1>2 DEF LogOK
<1>9. /\ peerRow \in PeerRow \cup {NULL} /\ fed \in [Secrets -> FedToken \cup {NULL}] /\ stack \in Stack \cup {NULL}
      /\ peerRow # NULL => peerRow.id = EARLIER /\ peerRow.token = EARLIER
      /\ \A i \in Secrets : fed[i] # NULL => i = EARLIER
      /\ peerRow # NULL => fed[EARLIER] # NULL /\ fed[EARLIER].hash = EARLIER
  <2>1. CASE peerRow = NULL /\ fed = [i \in Secrets |-> NULL] /\ stack = NULL
    BY <2>1
  <2>2. CASE /\ peerRow = [id |-> EARLIER, token |-> EARLIER, status |-> "online"]
             /\ fed = [i \in Secrets |-> IF i = EARLIER THEN [hash |-> EARLIER, active |-> TRUE] ELSE NULL]
             /\ stack = [id |-> EARLIER, owner |-> EARLIER, status |-> "running"]
    <3>1. peerRow \in PeerRow /\ peerRow.id = EARLIER /\ peerRow.token = EARLIER
      BY <1>4, <2>2 DEF PeerRow
    <3>2. stack \in Stack
      BY <1>4, <2>2 DEF Stack
    <3> DEFINE t == [hash |-> EARLIER, active |-> TRUE]
    <3>3. t \in FedToken /\ t.hash = EARLIER
      BY <1>4 DEF FedToken
    <3>4. fed = [i \in Secrets |-> IF i = EARLIER THEN t ELSE NULL]
      BY <2>2
    <3> HIDE DEF t
    <3> QED BY <1>4, <3>1, <3>2, <3>3, <3>4
  <2> QED BY <1>3, <2>1, <2>2
<1>10. TypeInv
  <2>1. RowsOK
    <3>1. row \in [Agents -> ServerRow \cup {NULL}]
      <4>1. row = [x \in Agents |-> row[x]]
        BY <1>1
      <4> QED BY <1>5, <4>1
    <3> QED BY <1>5, <3>1 DEF RowsOK, Exists
  <2>2. agent \in [Agents -> Host]
    <3>1. agent = [x \in Agents |-> agent[x]]
      BY <1>1
    <3> QED BY <1>5, <3>1
  <2>3. events \in 0 .. MaxEvents /\ grant \in BOOLEAN
    BY <1>2, ServersConstants
  <2> QED BY <1>7, <1>8, <1>9, <2>1, <2>2, <2>3 DEF TypeInv
<1>11. FreshIds /\ RotationSees /\ FedSees
  BY <1>4, <1>5, <1>6, <1>9, ServersConstants DEF FreshIds, RotationSees, FedSees, Exists
<1>12. BootInv
  BY <1>4, <1>5, <1>8 DEF BootInv, Exists
<1>13. LinkInv
  BY <1>5, <1>6 DEF LinkInv, LinkOK, Writes, HasToken, Exists
<1>14. PeerInv
  BY <1>4, <1>6, <1>9 DEF PeerInv, TokenInv, PeerLinkOK, PeerToken, Accepts, Rotates, SamePeer, Finished
<1> QED BY <1>10, <1>11, <1>12, <1>13, <1>14 DEF ServersInv, Core

LEMMA ServersStutter ==
  ASSUME ServersInv, UNCHANGED vars
  PROVE  ServersInv'
<1>1. TypeInv'
  BY DEF vars, ServersInv, Core, TypeInv, RowsOK, ReqOK, LogOK, Exists
<1>2. FreshIds' /\ RotationSees' /\ FedSees'
  BY DEF vars, ServersInv, Core, FreshIds, RotationSees, FedSees, Exists, Same
<1>3. BootInv'
  BY DEF vars, ServersInv, BootInv, Exists
<1>4. LinkInv'
  BY DEF vars, ServersInv, LinkInv, LinkOK, Writes, HasToken, Exists
<1>5. PeerInv'
  BY DEF vars, ServersInv, PeerInv, TokenInv, PeerLinkOK, PeerToken, Accepts, Rotates, SamePeer, Finished
<1> QED BY <1>1, <1>2, <1>3, <1>4, <1>5 DEF ServersInv, Core

\* The invariant holds in every behaviour: every handler of the panel and of the agent,
\* in any order, with restarts of both and expiries between their steps.
THEOREM ServersInductive == Spec => []ServersInv
<1>1. Init => ServersInv
  BY ServersInit
<1>2. ServersInv /\ [Next]_vars => ServersInv'
  <2> SUFFICES ASSUME ServersInv, [Next]_vars PROVE ServersInv'
    OBVIOUS
  <2>1. ASSUME NEW r \in Requests, Step(r) PROVE ServersInv'
    <3>1. Core'
      BY <2>1, StepCore DEF ServersInv
    <3>2. BootInv' /\ LinkInv' /\ PeerInv'
      BY <2>1, StepBoot, StepLink, StepPeerInv DEF ServersInv
    <3> QED BY <3>1, <3>2 DEF ServersInv
  <2>2. ASSUME NEW a \in Agents, Respawn(a) \/ ExpireBootstrap(a) PROVE ServersInv'
    BY <2>2, RespawnInv, ExpireInv
  <2>3. CASE Crash
    BY <2>3, CrashInv
  <2>4. CASE UNCHANGED vars
    BY <2>4, ServersStutter
  <2> QED BY <2>1, <2>2, <2>3, <2>4 DEF Next
<1> QED BY <1>1, <1>2, PTL DEF Spec

\* Every row, host and token has its shape, and a row holds a bootstrap or a credential
\* and never both: rotate_token_internal writes a token only to a row that has one.
THEOREM ServersTypeCorrect == Spec => []ServersTypeOK
<1>1. ServersInv => ServersTypeOK
  BY DEF ServersInv, Core, TypeInv, RowsOK, ServersTypeOK, Exists
<1> QED BY <1>1, ServersInductive, PTL

\* A bootstrap token enrols one agent, of any number of handshakes that present it
\* (servers.rs, handshake: UPDATE ... WHERE id AND bootstrap_token_hash).
THEOREM BootstrapRedeemedOnce == Spec => []BootstrapSpentOnce
<1>1. ServersInv => BootstrapSpentOnce
  BY DEF ServersInv, BootInv, BootstrapSpentOnce
<1> QED BY <1>1, ServersInductive, PTL

\* A rotation that meets no fault leaves both ends with one secret, whatever else runs
\* (rotate_token_internal, auth_rotate, rotate_federation_token_internal).
THEOREM RotationNeverLocksOut == Spec => []RotationKeepsAccess
<1>1. ServersInv => RotationKeepsAccess
  <2> SUFFICES ASSUME ServersInv PROVE RotationKeepsAccess
    OBVIOUS
  <2>1. ASSUME NEW a \in Agents, Exists(a), row[a].token # NULL, ~Working(a), a \notin log.fault
        PROVE  agent[a].env = row[a].token
    <3>1. LinkOK(a) /\ HasToken(a)
      BY <2>1 DEF ServersInv, LinkInv, HasToken
    <3> QED BY <2>1, <3>1 DEF LinkOK, Writes, Working
  <2>2. ASSUME peerRow # NULL, peerRow.token # NULL, "peer" \notin log.fault,
               \A r \in Requests : req[r].pc # "store"
        PROVE  \E i \in Secrets : fed[i] # NULL /\ fed[i].hash = peerRow.token
    <3>1. PeerLinkOK /\ PeerToken
      BY <2>2 DEF ServersInv, PeerInv, PeerToken
    <3> QED BY <2>2, <3>1 DEF PeerLinkOK, Accepts
  <2> QED BY <2>1, <2>2 DEF RotationKeepsAccess
<1> QED BY <1>1, ServersInductive, PTL
===============================================================================
