--------------------------- MODULE TaskRunsProofs ---------------------------
(* Theorems about TaskRuns, for any number of runs, restarts and losses, and  *)
(* about Mesh, for any nodes, requests, addresses and number of faults. The   *)
(* two share nothing but this module.                                         *)
EXTENDS TaskRuns, Mesh, FiniteSetTheorems, TLAPS

USE DEF RunTerminal, is_terminal, NoDriver, Spawned, coreVars, agentVars

\* The rows, pollers and handles keep their shape in every reachable state.
THEOREM RunsTypeCorrect == Spec => []RunsTypeOK
<1>1. Init => RunsTypeOK
  BY DEF Init, RunsTypeOK, Status, RunRow, Poller, RunHandle
<1>2. RunsTypeOK /\ [Next]_vars => RunsTypeOK'
  <2> SUFFICES ASSUME RunsTypeOK, [Next]_vars PROVE RunsTypeOK'
    OBVIOUS
  <2> USE DEF RunsTypeOK
  <2>1. ASSUME NEW r \in Runs, StartRun(r) PROVE RunsTypeOK'
    <3>1. /\ [row EXCEPT ![r].status = "pending"] \in [Runs -> RunRow]
          /\ [row EXCEPT ![r].status = "unreachable", ![r].finished = TRUE]
                \in [Runs -> RunRow]
      BY DEF RunRow, Status
    <3> QED BY <2>1, <3>1 DEF StartRun
  <2>2. ASSUME NEW r \in Runs, StartFails(r) PROVE RunsTypeOK'
    <3>1. Unreachable(r) \in RunRow
      BY DEF Unreachable, RunRow, Status
    <3> QED BY <2>2, <3>1 DEF StartFails
  <2>3. ASSUME NEW r \in Runs, Acknowledged(r) PROVE RunsTypeOK'
    <3>1. row' \in [Runs -> RunRow]
      <4>1. row[r] \in RunRow /\ "running" \in Status
        BY DEF Status
      <4>2. [row[r] EXCEPT !.status = "running", !.agentId = TRUE] \in RunRow
        BY <4>1 DEF RunRow
      <4> QED BY <2>3, <4>2 DEF Acknowledged
    <3>2. driver' \in [Runs -> Poller]
      BY <2>3 DEF Acknowledged, Poller, Status
    <3> QED BY <2>3, <3>1, <3>2 DEF Acknowledged
  <2>4. ASSUME NEW r \in Runs, AgentStart(r) PROVE RunsTypeOK'
    <3>1. handle' \in [Runs -> RunHandle]
      BY <2>4 DEF AgentStart, RunHandle, Status
    <3> QED BY <2>4, <3>1 DEF AgentStart
  <2>5. ASSUME NEW r \in Runs, DropStarter(r) PROVE RunsTypeOK'
    BY <2>5 DEF DropStarter
  <2>6. ASSUME NEW r \in Runs, PollStatus(r) \/ PollFinished(r) PROVE RunsTypeOK'
    <3>1. CASE PollStatus(r)
      <4>1. driver[r] \in Poller /\ handle[r].status \in Status
        BY DEF RunHandle
      <4>2. [driver[r] EXCEPT !.pc = "half", !.status = handle[r].status] \in Poller
        BY <4>1 DEF Poller
      <4> QED BY <3>1, <4>2 DEF PollStatus
    <3>2. CASE PollFinished(r)
      <4>1. driver[r] \in Poller /\ handle[r].finished \in BOOLEAN
        BY DEF RunHandle
      <4>2. [driver[r] EXCEPT !.pc = "reply", !.finished = handle[r].finished] \in Poller
        BY <4>1 DEF Poller
      <4> QED BY <3>2, <4>2 DEF PollFinished
    <3> QED BY <2>6, <3>1, <3>2
  <2>7. ASSUME NEW r \in Runs, ApplySnapshot(r) PROVE RunsTypeOK'
    <3>1. \A finished \in BOOLEAN : Snapshot(r, driver[r].status, finished) \in RunRow
      BY DEF Snapshot, RunRow, Poller, Status
    <3>2. row' \in [Runs -> RunRow]
      BY <2>7, <3>1 DEF ApplySnapshot
    <3>3. NoDriver \in Poller /\ Spawned \in Poller
      BY DEF Poller, Status
    <3>4. driver' \in [Runs -> Poller]
      BY <2>7, <3>3 DEF ApplySnapshot
    <3> QED BY <2>7, <3>2, <3>4 DEF ApplySnapshot
  <2>8. ASSUME NEW r \in Runs, PollFails(r) PROVE RunsTypeOK'
    <3>1. GaveUp(r) \in RunRow
      BY DEF GaveUp, Unreachable, RunRow, Status
    <3>2. FailuresAfter(r) \in Nat
      BY DEF FailuresAfter, Poller
    <3>3. NoDriver \in Poller /\ [Spawned EXCEPT !.failures = FailuresAfter(r)] \in Poller
      BY <3>2 DEF Poller, Status
    <3>4. row' \in [Runs -> RunRow]
      BY <2>8, <3>1 DEF PollFails
    <3>5. driver' \in [Runs -> Poller]
      BY <2>8, <3>3 DEF PollFails
    <3> QED BY <2>8, <3>4, <3>5 DEF PollFails
  <2>9. ASSUME NEW r \in Runs, CancelRun(r) PROVE RunsTypeOK'
    <3>1. row' \in [Runs -> RunRow]
      <4>1. row[r] \in RunRow /\ "cancelled" \in Status
        BY DEF Status
      <4>2. [row[r] EXCEPT !.status = "cancelled", !.finished = TRUE] \in RunRow
        BY <4>1 DEF RunRow
      <4> QED BY <2>9, <4>2 DEF CancelRun
    <3> QED BY <2>9, <3>1 DEF CancelRun
  <2>10. ASSUME NEW r \in Runs, CallCancel(r) PROVE RunsTypeOK'
    <3>1. handle' \in [Runs -> RunHandle]
      BY <2>10 DEF CallCancel, RunHandle, Status
    <3> QED BY <2>10, <3>1 DEF CallCancel
  <2>11. ASSUME NEW r \in Runs,
                SupervisorError(r) \/ SupervisorFinish(r) \/ AgentGC(r)
         PROVE RunsTypeOK'
    <3>1. CASE SupervisorError(r)
      BY <3>1 DEF SupervisorError, RunHandle, Status
    <3>2. CASE SupervisorFinish(r)
      BY <3>2 DEF SupervisorFinish, RunHandle
    <3>3. CASE AgentGC(r)
      BY <3>3 DEF AgentGC, RunHandle, Status
    <3> QED BY <2>11, <3>1, <3>2, <3>3
  <2>12. ASSUME NEW r \in Runs, SupervisorStatus(r) PROVE RunsTypeOK'
    <3>1. handle' \in [Runs -> RunHandle]
      BY <2>12 DEF SupervisorStatus, Verdict, RunHandle, Status
    <3> QED BY <2>12, <3>1 DEF SupervisorStatus
  <2>13. CASE CoreCrash
    <3>1. NoDriver \in Poller
      BY DEF Poller, Status
    <3>2. starter' \in [Runs -> {"idle", "post", "acked", "lost", "done"}]
      BY <2>13 DEF CoreCrash
    <3>3. driver' \in [Runs -> Poller] /\ crashes' \in Nat
      BY <2>13, <3>1 DEF CoreCrash
    <3> QED BY <2>13, <3>2, <3>3 DEF CoreCrash
  <2>14. CASE Recover
    <3>1. \A r \in Runs : Unreachable(r) \in RunRow
      BY DEF Unreachable, RunRow, Status
    <3>2. Spawned \in Poller
      BY DEF Poller, Status
    <3> QED BY <2>14, <3>1, <3>2 DEF Recover
  <2>15. CASE AgentRestart
    <3>1. [status |-> "none", finished |-> FALSE] \in RunHandle
      BY DEF RunHandle, Status
    <3> QED BY <2>15, <3>1 DEF AgentRestart
  <2>17. ASSUME NEW r \in Runs, ProcExit(r) \/ Timeout(r) PROVE RunsTypeOK'
    BY <2>17 DEF ProcExit, Timeout
  <2>16. CASE UNCHANGED vars
    BY <2>16 DEF vars
  <2> QED BY <2>1, <2>2, <2>3, <2>4, <2>5, <2>6, <2>7, <2>8, <2>9, <2>10, <2>11,
             <2>12, <2>13, <2>14, <2>15, <2>16, <2>17
          DEF Next, StarterStep, DriverStep, SupervisorStep
<1> QED BY <1>1, <1>2, PTL DEF Spec

\* What NoRunIsAbandoned asks of one run.
Owned(r) == \/ starter[r] \in {"post", "acked"}
            \/ driver[r].pc # "off"
            \/ r \in dropped
            \/ row[r].finished

\* Every run the database shows as pending or running has an owner while the
\* core is up, apart from a dropped handler and a torn snapshot.
THEOREM RunsNeverAbandoned == Spec => []NoRunIsAbandoned
<1>1. Init => NoRunIsAbandoned
  BY DEF Init, NoRunIsAbandoned, Active
<1>2. RunsTypeOK /\ NoRunIsAbandoned /\ [Next]_vars => NoRunIsAbandoned'
  <2> SUFFICES ASSUME RunsTypeOK, NoRunIsAbandoned, [Next]_vars,
                      NEW u \in Runs, up', Active(u)'
               PROVE  Owned(u)'
    BY DEF NoRunIsAbandoned, Owned
  <2>0. up /\ Active(u) => Owned(u)
    BY DEF NoRunIsAbandoned, Owned
  <2> USE DEF RunsTypeOK, Active, Owned
  <2>1. ASSUME NEW r \in Runs, StartRun(r) PROVE Owned(u)'
    <3>1. CASE u # r
      BY <2>0, <2>1, <3>1 DEF StartRun
    <3>2. CASE u = r /\ starter'[u] = "post"
      BY <3>2
    <3>3. CASE u = r /\ row' = [row EXCEPT ![r].status = "unreachable",
                                         ![r].finished = TRUE]
      BY <3>3 DEF RunRow
    <3> QED BY <2>1, <3>1, <3>2, <3>3 DEF StartRun
  <2>2. ASSUME NEW r \in Runs, StartFails(r) PROVE Owned(u)'
    <3>1. CASE u = r
      BY <2>2, <3>1 DEF StartFails, Unreachable, RunRow
    <3>2. CASE u # r
      BY <2>0, <2>2, <3>2 DEF StartFails
    <3> QED BY <3>1, <3>2
  <2>3. ASSUME NEW r \in Runs, Acknowledged(r) PROVE Owned(u)'
    BY <2>0, <2>3 DEF Acknowledged, RunRow
  <2>4. ASSUME NEW r \in Runs, AgentStart(r) PROVE Owned(u)'
    BY <2>0, <2>4 DEF AgentStart
  <2>5. ASSUME NEW r \in Runs, DropStarter(r) PROVE Owned(u)'
    BY <2>0, <2>5 DEF DropStarter
  <2>6. ASSUME NEW r \in Runs, PollStatus(r) PROVE Owned(u)'
    BY <2>0, <2>6 DEF PollStatus, Poller
  <2>7. ASSUME NEW r \in Runs, PollFinished(r) PROVE Owned(u)'
    BY <2>0, <2>7 DEF PollFinished, Poller
  <2>8. ASSUME NEW r \in Runs, ApplySnapshot(r) PROVE Owned(u)'
    <3> DEFINE finished == is_terminal(driver[r].status) \/ driver[r].finished
    <3>1. CASE u # r
      BY <2>0, <2>8, <3>1 DEF ApplySnapshot
    <3>2. CASE u = r /\ finished
      BY <2>8, <3>2 DEF ApplySnapshot, Snapshot
    <3>3. CASE u = r /\ ~finished
      BY <2>8, <3>3 DEF ApplySnapshot, Snapshot
    <3> QED BY <3>1, <3>2, <3>3
  <2>9. ASSUME NEW r \in Runs, PollFails(r) PROVE Owned(u)'
    <3>1. CASE u # r
      BY <2>0, <2>9, <3>1 DEF PollFails
    <3>2. CASE u = r /\ row' = [row EXCEPT ![r] = GaveUp(r)]
      BY <3>2 DEF GaveUp, Unreachable, RunRow
    <3>3. CASE u = r /\ driver' = [driver EXCEPT ![r] =
                          [Spawned EXCEPT !.failures = FailuresAfter(r)]]
      BY <3>3
    <3> QED BY <2>9, <3>1, <3>2, <3>3 DEF PollFails
  <2>10. ASSUME NEW r \in Runs, CancelRun(r) PROVE Owned(u)'
    BY <2>0, <2>10 DEF CancelRun, RunRow
  <2>11. ASSUME NEW r \in Runs, CallCancel(r) PROVE Owned(u)'
    BY <2>0, <2>11 DEF CallCancel
  <2>12. ASSUME NEW r \in Runs,
                ProcExit(r) \/ Timeout(r) \/ SupervisorError(r) \/ SupervisorStatus(r)
                \/ SupervisorFinish(r) \/ AgentGC(r)
         PROVE Owned(u)'
    <3>1. UNCHANGED coreVars
      BY <2>12 DEF ProcExit, Timeout, SupervisorError, SupervisorStatus,
         SupervisorFinish, AgentGC
    <3> QED BY <2>0, <3>1
  <2>13. CASE CoreCrash
    BY <2>13 DEF CoreCrash
  <2>14. CASE Recover
    <3>1. CASE Active(u) /\ ~row[u].agentId
      <4>1. row'[u] = Unreachable(u)
        BY <2>14, <3>1 DEF Recover
      <4>2. row[u] \in RunRow
        OBVIOUS
      <4>3. Unreachable(u).finished
        BY <3>1, <4>2 DEF Unreachable, RunRow, is_terminal, RunTerminal
      <4> QED BY <4>1, <4>3
    <3>2. CASE Active(u) /\ row[u].agentId
      BY <2>14, <3>2 DEF Recover
    <3>3. CASE ~Active(u)
      BY <2>14, <3>3 DEF Recover
    <3> QED BY <3>1, <3>2, <3>3
  <2>15. CASE AgentRestart \/ UNCHANGED vars
    BY <2>0, <2>15 DEF AgentRestart, vars
  <2> QED BY <2>1, <2>2, <2>3, <2>4, <2>5, <2>6, <2>7, <2>8, <2>9, <2>10, <2>11,
             <2>12, <2>13, <2>14, <2>15
          DEF Next, StarterStep, DriverStep, SupervisorStep
<1> QED BY <1>1, <1>2, RunsTypeCorrect, PTL DEF Spec

-----------------------------------------------------------------------------
\* A success on its way from the child to the row: in the row, in the poller's
\* snapshot or in the agent's handle, it stems from an exit code of 0.  A
\* request that has not reached the agent has no child yet.
SuccessOf(r) ==
  /\ row[r].status = "success" => proc[r] = "ok"
  /\ driver[r].status = "success" => proc[r] = "ok"
  /\ handle[r].status = "success" => proc[r] = "ok"
  /\ starter[r] \in {"idle", "post", "lost"} => proc[r] = "none"
  /\ row[r].status = "none" => starter[r] = "idle"
  /\ driver[r].pc \in {"half", "reply"} => driver[r].status # "none"

SuccessInv == \A r \in Runs : SuccessOf(r)

\* A run reported as successful really exited with 0.
THEOREM SuccessNeverInvented == Spec => []SuccessIsReal
<1>1. Init => SuccessInv
  BY DEF Init, SuccessInv, SuccessOf
<1>2. RunsTypeOK /\ SuccessInv /\ [Next]_vars => SuccessInv'
  <2> SUFFICES ASSUME RunsTypeOK, SuccessInv, [Next]_vars, NEW u \in Runs
               PROVE  SuccessOf(u)'
    BY DEF SuccessInv
  <2>0. SuccessOf(u)
    BY DEF SuccessInv
  <2> USE <2>0 DEF RunsTypeOK, SuccessOf
  <2>1. ASSUME NEW r \in Runs, StartRun(r) PROVE SuccessOf(u)'
    BY <2>1 DEF StartRun, RunRow
  <2>2. ASSUME NEW r \in Runs, StartFails(r) PROVE SuccessOf(u)'
    <3>1. CASE u = r
      BY <2>2, <3>1 DEF StartFails, Unreachable, RunRow
    <3>2. CASE u # r
      BY <2>2, <3>2 DEF StartFails
    <3> QED BY <3>1, <3>2
  <2>3. ASSUME NEW r \in Runs, Acknowledged(r) PROVE SuccessOf(u)'
    BY <2>3 DEF Acknowledged, RunRow
  <2>4. ASSUME NEW r \in Runs, AgentStart(r) PROVE SuccessOf(u)'
    BY <2>4 DEF AgentStart, RunHandle
  <2>5. ASSUME NEW r \in Runs, DropStarter(r) PROVE SuccessOf(u)'
    BY <2>5 DEF DropStarter
  <2>6. ASSUME NEW r \in Runs, PollStatus(r) PROVE SuccessOf(u)'
    BY <2>6 DEF PollStatus, Poller
  <2>7. ASSUME NEW r \in Runs, PollFinished(r) PROVE SuccessOf(u)'
    BY <2>7 DEF PollFinished, Poller
  <2>8. ASSUME NEW r \in Runs, ApplySnapshot(r) PROVE SuccessOf(u)'
    <3> DEFINE finished == is_terminal(driver[r].status) \/ driver[r].finished
    <3>1. CASE u # r
      BY <2>8, <3>1 DEF ApplySnapshot
    <3>2. CASE u = r
      <4>1. row'[u] = Snapshot(r, driver[r].status, finished)
        BY <2>8, <3>2 DEF ApplySnapshot
      <4>2. row'[u].status \in {row[u].status, driver[u].status}
        BY <3>2, <4>1 DEF Snapshot, RunRow
      <4>3. /\ driver'[u].status = "none" /\ driver'[u].pc \in {"off", "sleep"}
            /\ UNCHANGED <<proc, handle, starter>>
        BY <2>8, <3>2 DEF ApplySnapshot
      <4>4. row'[u].status # "none" \/ starter[u] = "idle"
        BY <2>8, <3>2, <4>2 DEF ApplySnapshot
      <4> QED BY <4>2, <4>3, <4>4
    <3> QED BY <3>1, <3>2
  <2>9. ASSUME NEW r \in Runs, PollFails(r) PROVE SuccessOf(u)'
    <3>1. CASE u # r
      BY <2>9, <3>1 DEF PollFails
    <3>2. CASE u = r
      <4>1. row'[u] = row[u] \/ row'[u] = Unreachable(u)
        BY <2>9, <3>2 DEF PollFails, GaveUp
      <4>2. row'[u].status = row[u].status \/ row'[u].status = "unreachable"
        BY <4>1 DEF Unreachable, RunRow
      <4>3. \/ driver'[u] = NoDriver
            \/ driver'[u] = [Spawned EXCEPT !.failures = FailuresAfter(u)]
        BY <2>9, <3>2 DEF PollFails
      <4>4. driver'[u].status = "none" /\ driver'[u].pc \in {"off", "sleep"}
        <5>1. CASE driver'[u] = NoDriver
          BY <5>1
        <5>2. CASE driver'[u] = [Spawned EXCEPT !.failures = FailuresAfter(u)]
          BY <5>2
        <5> QED BY <4>3, <5>1, <5>2
      <4>5. UNCHANGED <<proc, handle, starter>>
        BY <2>9 DEF PollFails
      <4> QED BY <4>2, <4>4, <4>5
    <3> QED BY <3>1, <3>2
  <2>10. ASSUME NEW r \in Runs, CancelRun(r) PROVE SuccessOf(u)'
    BY <2>10 DEF CancelRun, RunRow, Active
  <2>11. ASSUME NEW r \in Runs, CallCancel(r) PROVE SuccessOf(u)'
    BY <2>11 DEF CallCancel, RunHandle
  <2>12. ASSUME NEW r \in Runs, ProcExit(r) PROVE SuccessOf(u)'
    BY <2>12 DEF ProcExit
  <2>13. ASSUME NEW r \in Runs, Timeout(r) PROVE SuccessOf(u)'
    BY <2>13 DEF Timeout
  <2>14. ASSUME NEW r \in Runs, SupervisorError(r) PROVE SuccessOf(u)'
    BY <2>14 DEF SupervisorError, RunHandle
  <2>15. ASSUME NEW r \in Runs, SupervisorFinish(r) PROVE SuccessOf(u)'
    BY <2>15 DEF SupervisorFinish, RunHandle
  <2>16. ASSUME NEW r \in Runs, AgentGC(r) PROVE SuccessOf(u)'
    BY <2>16 DEF AgentGC
  <2>17. ASSUME NEW r \in Runs, SupervisorStatus(r) PROVE SuccessOf(u)'
    BY <2>17 DEF SupervisorStatus, Verdict, RunHandle
  <2>18. CASE CoreCrash
    BY <2>18 DEF CoreCrash
  <2>19. CASE Recover
    <3>1. CASE Active(u) /\ ~row[u].agentId
      <4>1. row'[u] = Unreachable(u) /\ driver'[u] = driver[u]
        BY <2>19, <3>1 DEF Recover
      <4>2. row[u] \in RunRow
        BY DEF RunsTypeOK
      <4>3. row'[u].status = "unreachable"
        BY <3>1, <4>1, <4>2 DEF Unreachable, RunRow, Active, is_terminal, RunTerminal
      <4> QED BY <2>19, <4>1, <4>3 DEF Recover
    <3>2. CASE ~(Active(u) /\ ~row[u].agentId)
      BY <2>19, <3>2 DEF Recover, Active
    <3> QED BY <3>1, <3>2
  <2>20. CASE AgentRestart
    BY <2>20 DEF AgentRestart
  <2>21. CASE UNCHANGED vars
    BY <2>21 DEF vars
  <2> QED BY <2>1, <2>2, <2>3, <2>4, <2>5, <2>6, <2>7, <2>8, <2>9, <2>10, <2>11,
             <2>12, <2>13, <2>14, <2>15, <2>16, <2>17, <2>18, <2>19, <2>20, <2>21
          DEF Next, StarterStep, DriverStep, SupervisorStep
<1>3. SuccessInv => SuccessIsReal
  BY DEF SuccessInv, SuccessOf, SuccessIsReal
<1> QED BY <1>1, <1>2, <1>3, RunsTypeCorrect, PTL DEF Spec

-----------------------------------------------------------------------------
(* Mesh: the inductive invariant.                                            *)

PushSteps == {"keys", "generate", "persist", "write", "up", "active"}
MeshOps == {"none", "configure", "pair", "unpair", "disable", "uninstall"}
MeshSteps == PushSteps \cup {"new", "done", "load", "describe", "propose", "respond", "store", "paired",
                             "teardown", "forget", "down"}

SnapBlock == [node : Nodes, ip : Addresses, key : Keys \cup {NULL}]
MeshCall == [op : MeshOps, pc : MeshSteps, core : Cores, at : Cores, cur : Nodes \cup {NULL}, left : SUBSET Nodes,
             snap : SUBSET SnapBlock, after : {"done", "respond", "paired", "forget"}, key : Keys \cup {NULL}]
MeshLog == [unclean : SUBSET Cores, stuck : SUBSET Nodes, pairing : {"no", "alone", "whole"}]

MeshTyped ==
  /\ enabled \in [Cores -> BOOLEAN] /\ rows \in [Nodes -> Row \cup {NULL}] /\ ext \in [Nodes -> External \cup {NULL}]
  /\ node \in [Nodes -> Host] /\ req \in [Requests -> MeshCall] /\ log \in MeshLog /\ events \in 0 .. MaxEvents

Busy(r) == req[r].pc \notin {"new", "done"}

\* Rows are there while the mesh is enabled, with an address each; a key or an interface is
\* the one of the row unless history has it stuck.
NodeOK(n) ==
  /\ rows[n] # NULL <=> enabled[CoreOf(n)]
  /\ \A m \in NodesOf(CoreOf(n)) \ {n} : rows[n] # NULL /\ rows[m] # NULL => rows[m].ip # rows[n].ip
  /\ rows[n] # NULL /\ rows[n].key # NULL /\ n \notin log.stuck => node[n].key \in {NULL, rows[n].key}
  /\ rows[n] # NULL /\ node[n].wg0 # NULL /\ n \notin log.stuck => node[n].wg0.addr = rows[n].ip
NodesOK == \A n \in Nodes : NodeOK(n)

\* What a request carries at each step.
Carries(q) ==
  /\ q.pc \in {"generate", "persist", "up", "active"} => q.cur \in NodesOf(q.at)
  /\ q.pc \in PushSteps \cup {"down"} => q.left \subseteq NodesOf(q.at) \cap {b.node : b \in q.snap}
  /\ q.pc = "persist" => q.key # NULL
  /\ q.pc \in {"describe", "propose"} =>
       /\ NodesOf(q.core) \subseteq {b.node : b \in q.snap}
       /\ \A b \in q.snap : b.node \in NodesOf(q.core) => b.key # NULL
  /\ q.pc = "propose" => q.at = Other(q.core)
  /\ q.pc \in {"describe", "store"} => q.at = q.core
CarriesOK == \A r \in Requests : Carries(req[r])

\* Two requests on one core leave it unclean.
Alone(r, c) == \A x \in Requests \ {r} : ~(Busy(x) /\ req[x].at = c)
AloneOK == \A r \in Requests : Busy(r) /\ req[r].at \notin log.unclean => Alone(r, req[r].at)

\* Every node of core c has the key of its row and the interface its tables say.
InOrder(n) == rows[n].key # NULL /\ node[n].wg0 = Rendered(n) /\ node[n].key = rows[n].key
Healthy(c) == \A n \in NodesOf(c) : rows[n].status = "active" /\ n \notin log.stuck
Idling(c) == \A r \in Requests : Busy(r) /\ req[r].at = c => req[r].pc \notin PushSteps \cup {"load", "down"}
Kept(c) == enabled[c] /\ c \notin log.unclean /\ Idling(c) /\ Healthy(c) => \A n \in NodesOf(c) : InOrder(n)
KeptOK == \A c \in Cores : Kept(c)

\* How far an undisturbed run on core c has come: the tables are still those it read.
Pushed(q, c) ==
  /\ enabled[c] /\ q.snap = OwnBlocks(c) \cup ExtBlocks(c)
  /\ q.pc \in {"keys", "generate", "persist"} =>
       \A n \in NodesOf(c) : rows[n].key = NULL => n \in q.left \/ (q.pc # "keys" /\ n = q.cur)
  /\ q.pc \in {"write", "up", "active"} =>
       \A n \in NodesOf(c) : rows[n].key # NULL
         /\ (n \in log.stuck \/ n \in q.left \/ (q.pc \in {"up", "active"} /\ n = q.cur) \/ InOrder(n))
  /\ q.pc = "up" /\ q.cur \notin log.stuck => node[q.cur].conf = Rendered(q.cur) /\ node[q.cur].key = rows[q.cur].key
  /\ q.pc = "active" /\ q.cur \notin log.stuck => InOrder(q.cur)
PushedOK == \A r \in Requests : req[r].pc \in PushSteps /\ req[r].at \notin log.unclean => Pushed(req[r], req[r].at)

\* Both cores know the nodes of core c that asks, and the other core avoids their addresses.
Joined(c) ==
  /\ \A m \in NodesOf(Other(c)) : rows[m] # NULL
  /\ \A n \in NodesOf(c) :
       /\ rows[n] # NULL /\ rows[n].key # NULL /\ ext[n] = [ip |-> rows[n].ip, key |-> rows[n].key]
       /\ \A m \in NodesOf(Other(c)) : rows[m].ip # rows[n].ip
Known(d) ==
  \A m \in NodesOf(d) : rows[m] # NULL /\ ext[m] = IF rows[m].key # NULL THEN [ip |-> rows[m].ip, key |-> rows[m].key] ELSE NULL
Told(q) ==
  /\ q.snap = OwnBlocks(q.core) \cup ExtBlocks(q.core)
  /\ \A n \in NodesOf(q.core) : rows[n] # NULL /\ rows[n].key # NULL

\* How far a pairing that is alone has come.
Pairs(q) ==
  LET c == q.core
      d == Other(c)
      pushing == q.pc \in PushSteps \cup {"load"}
  IN
  /\ q.op = "pair" /\ q.pc \in PushSteps \cup {"describe", "propose", "load", "respond", "store", "paired"}
  /\ IF q.pc \in {"describe", "propose"} THEN Told(q) ELSE Joined(c)
  /\ pushing => q.after \in {"respond", "paired"} /\ q.at = IF q.after = "respond" THEN d ELSE c
  /\ q.pc = "respond" => q.at = d
  /\ q.pc \in {"store", "paired"} => q.at = c
  /\ q.pc \in PushSteps \cup {"respond", "paired"} => q.at \notin log.unclean
  /\ q.pc \in {"store", "paired"} \/ (pushing /\ q.after = "paired") => d \notin log.unclean
  /\ q.pc = "store" => q.snap = OwnBlocks(d)
  /\ q.pc = "paired" \/ (pushing /\ q.after = "paired") => Known(d) /\ q.pc \notin {"keys", "generate", "persist"}
PairingOK ==
  /\ log.pairing # "no" => \A r, x \in Requests : Busy(r) /\ Busy(x) => r = x
  /\ log.pairing = "alone" => \A r \in Requests : Busy(r) => Pairs(req[r])
  /\ log.pairing = "whole" => \A r \in Requests : ~Busy(r)
  /\ PairedMeshIsWhole

MeshInv == MeshTyped /\ NodesOK /\ CarriesOK /\ AloneOK /\ KeptOK /\ PushedOK /\ PairingOK

-----------------------------------------------------------------------------
(* Mesh: cores, nodes and rows.                                              *)

\* A set of naturals has a least element.
LEMMA LeastAddress ==
  ASSUME NEW T \in SUBSET Nat, T # {}
  PROVE  \E x \in T : \A y \in T : x <= y
<1>1. PICK x \in T : \A y \in T : <<y, x>> \notin OpToRel(<, Nat)
  BY NatLessThanWellFounded, WFMin
<1>2. \A y \in T : ~(y < x)
  BY <1>1 DEF OpToRel
<1> QED BY <1>2

LEMMA CoreFacts ==
  ASSUME NEW c \in Cores
  PROVE  /\ Other(c) \in Cores /\ Other(c) # c /\ Other(Other(c)) = c /\ Cores = {c, Other(c)}
         /\ NodesOf(c) \in SUBSET Nodes /\ NodesOf(c) \cap NodesOf(Other(c)) = {}
         /\ NodesOf(c) \cup NodesOf(Other(c)) = Nodes
         /\ \A n \in NodesOf(c) : n \in Nodes /\ CoreOf(n) = c /\ n \notin NodesOf(Other(c))
BY MeshConstants DEF Cores, Other, NodesOf, Nodes, CoreOf

LEMMA NodeFacts ==
  ASSUME NEW n \in Nodes
  PROVE  CoreOf(n) \in Cores /\ n \in NodesOf(CoreOf(n))
BY DEF Cores, NodesOf, Nodes, CoreOf

LEMMA NullFacts ==
  /\ NULL \notin Row /\ NULL \notin External /\ NULL \notin Config /\ NULL \notin Keys
  /\ Requests \subseteq Keys /\ EARLIER \in Keys /\ Addresses \subseteq Nat
BY MeshConstants, NullIsNoRow DEF Keys

LEMMA MeshTables ==
  ASSUME MeshInv
  PROVE  /\ enabled \in [Cores -> BOOLEAN] /\ rows \in [Nodes -> Row \cup {NULL}] /\ ext \in [Nodes -> External \cup {NULL}]
         /\ node \in [Nodes -> Host] /\ req \in [Requests -> MeshCall] /\ log \in MeshLog /\ events \in 0 .. MaxEvents
         /\ \A r \in Requests : req[r] \in MeshCall /\ Carries(req[r])
BY DEF MeshInv, MeshTyped, CarriesOK

LEMMA IdleTyped == Idle \in MeshCall /\ Done \in MeshCall /\ Carries(Idle) /\ Carries(Done) /\ Idle.pc = "new" /\ Done.pc = "done"
<1>1. Idle \in MeshCall
  BY DEF Idle, MeshCall, MeshOps, MeshSteps, PushSteps, Cores
<1>2. Done \in MeshCall /\ Done.pc = "done" /\ Idle.pc = "new"
  BY <1>1 DEF Done, MeshCall, MeshSteps, Idle
<1> QED BY <1>1, <1>2 DEF Carries, PushSteps

LEMMA MeshRow ==
  ASSUME NEW x \in Row
  PROVE  /\ x.ip \in Addresses /\ x.key \in Keys \cup {NULL} /\ x.status \in {"pending", "keyed", "active", "error"} /\ x # NULL
BY NullFacts DEF Row

LEMMA MeshCallFacts ==
  ASSUME NEW q \in MeshCall
  PROVE  /\ q.op \in MeshOps /\ q.pc \in MeshSteps /\ q.core \in Cores /\ q.at \in Cores /\ q.cur \in Nodes \cup {NULL}
         /\ q.left \in SUBSET Nodes /\ q.snap \in SUBSET SnapBlock
         /\ q.after \in {"done", "respond", "paired", "forget"} /\ q.key \in Keys \cup {NULL}
BY DEF MeshCall

LEMMA MeshHost ==
  ASSUME NEW h \in Host
  PROVE  /\ h.key \in Keys \cup {NULL} /\ h.conf \in Config \cup {NULL} /\ h.bak \in Config \cup {NULL}
         /\ h.wg0 \in Config \cup {NULL} /\ h.timer \in BOOLEAN
BY DEF Host

LEMMA MeshConfig ==
  ASSUME NEW x \in Config
  PROVE  x.addr \in Addresses /\ x.key \in Keys /\ x.peers \in SUBSET Block /\ x # NULL
         /\ x = [addr |-> x.addr, key |-> x.key, peers |-> x.peers]
BY NullFacts DEF Config

\* The next node is one of those left.
LEMMA FirstLeft ==
  ASSUME MeshInv, NEW r \in Requests, req[r].pc \in PushSteps \cup {"down"}, req[r].left # {}
  PROVE  First(r) \in req[r].left /\ First(r) \in NodesOf(req[r].at) /\ First(r) \in Nodes
<1> DEFINE T == {AddressIn(r, n) : n \in req[r].left}
<1>1. req[r] \in MeshCall /\ Carries(req[r])
  BY MeshTables
<1>2. req[r].left \subseteq NodesOf(req[r].at) /\ req[r].left \subseteq {b.node : b \in req[r].snap} /\ req[r].snap \subseteq SnapBlock
      /\ req[r].at \in Cores
  BY <1>1, MeshCallFacts DEF Carries
<1>3. ASSUME NEW n \in req[r].left PROVE AddressIn(r, n) \in Nat
  <2>1. \E b \in req[r].snap : b.node = n
    BY <1>2
  <2>2. PICK b \in req[r].snap : b = (CHOOSE x \in req[r].snap : x.node = n)
    BY <2>1
  <2>3. b.ip \in Addresses
    BY <1>2 DEF SnapBlock
  <2> QED BY <2>2, <2>3, NullFacts DEF AddressIn
<1>4. T \in SUBSET Nat /\ T # {}
  BY <1>3
<1>5. PICK x \in T : \A y \in T : x <= y
  BY <1>4, LeastAddress
<1>6. \E n \in req[r].left : \A m \in req[r].left : AddressIn(r, n) <= AddressIn(r, m)
  BY <1>5
<1>7. First(r) \in req[r].left
  BY <1>6 DEF First
<1> QED BY <1>2, <1>7, CoreFacts

LEMMA BlocksAre ==
  ASSUME MeshInv, NEW c \in Cores
  PROVE  /\ OwnBlocks(c) \in SUBSET SnapBlock /\ ExtBlocks(c) \in SUBSET SnapBlock
         /\ \A b \in OwnBlocks(c) : b.node \in NodesOf(c) /\ rows[b.node] # NULL /\ b.ip = rows[b.node].ip /\ b.key = rows[b.node].key
         /\ \A b \in ExtBlocks(c) : b.node \in NodesOf(Other(c)) /\ b.node \notin NodesOf(c)
         /\ \A n \in NodesOf(c) : rows[n] # NULL => [node |-> n, ip |-> rows[n].ip, key |-> rows[n].key] \in OwnBlocks(c)
         /\ \A n \in NodesOf(Other(c)) : ext[n] # NULL => [node |-> n, ip |-> ext[n].ip, key |-> ext[n].key] \in ExtBlocks(c)
<1>1. \A n \in Nodes : (rows[n] # NULL => rows[n] \in Row) /\ (ext[n] # NULL => ext[n] \in External)
  BY MeshTables
<1>2. ASSUME NEW n \in Nodes, rows[n] # NULL
      PROVE  [node |-> n, ip |-> rows[n].ip, key |-> rows[n].key] \in SnapBlock
  BY <1>1, <1>2, MeshRow DEF SnapBlock
<1>3. ASSUME NEW n \in Nodes, ext[n] # NULL
      PROVE  [node |-> n, ip |-> ext[n].ip, key |-> ext[n].key] \in SnapBlock
  BY <1>1, <1>3 DEF SnapBlock, External
<1>4. OwnBlocks(c) \in SUBSET SnapBlock
  BY <1>2, CoreFacts DEF OwnBlocks
<1>5. ExtBlocks(c) \in SUBSET SnapBlock
  BY <1>3, CoreFacts DEF ExtBlocks
<1>6. \A b \in OwnBlocks(c) : b.node \in NodesOf(c) /\ rows[b.node] # NULL /\ b.ip = rows[b.node].ip /\ b.key = rows[b.node].key
  BY DEF OwnBlocks
<1>7. \A b \in ExtBlocks(c) : b.node \in NodesOf(Other(c)) /\ b.node \notin NodesOf(c)
  BY CoreFacts DEF ExtBlocks
<1> QED BY <1>4, <1>5, <1>6, <1>7 DEF OwnBlocks, ExtBlocks

\* A run reads the address of the row.
LEMMA AddressRead ==
  ASSUME MeshInv, NEW r \in Requests, NEW c \in Cores, NEW n \in NodesOf(c), rows[n] # NULL,
         req[r].snap = OwnBlocks(c) \cup ExtBlocks(c)
  PROVE  AddressIn(r, n) = rows[n].ip
<1> DEFINE own == [node |-> n, ip |-> rows[n].ip, key |-> rows[n].key]
<1>0. own \in OwnBlocks(c) /\ own.node = n
  BY BlocksAre
<1> HIDE DEF own
<1>1. \E b \in req[r].snap : b.node = n
  BY <1>0
<1>2. PICK b \in req[r].snap : b = (CHOOSE x \in req[r].snap : x.node = n) /\ b.node = n
  BY <1>1
<1>3. b \in OwnBlocks(c)
  <2>1. b \in OwnBlocks(c) \cup ExtBlocks(c) /\ b.node \in NodesOf(c)
    BY <1>2
  <2> QED BY <2>1, BlocksAre
<1>4. b.ip = rows[b.node].ip
  BY <1>3, BlocksAre
<1> QED BY <1>2, <1>4 DEF AddressIn

-----------------------------------------------------------------------------
(* Mesh: a step of r that touches one core.                                  *)

\* What a step of r on core c leaves alone, and when it leaves a core clean.
Touches(r, c) ==
  /\ enabled'[Other(c)] = enabled[Other(c)]
  /\ \A n \in NodesOf(Other(c)) : rows'[n] = rows[n] /\ node'[n] = node[n] /\ (n \in log'.stuck <=> n \in log.stuck)
  /\ \A n \in NodesOf(c) : ext'[n] = ext[n]
  /\ \A x \in Requests \ {r} : req'[x] = req[x]
  /\ log.unclean \ {c} \subseteq log'.unclean
  /\ c \notin log'.unclean => Alone(r, c)
  /\ req'[r].pc \notin {"new", "done"} /\ req'[r].at \notin log'.unclean => Alone(r, req'[r].at)
  /\ Busy(r) /\ req[r].at # c => req[r].pc \notin PushSteps \cup {"load", "down"}
  /\ req'[r].pc \in PushSteps => req'[r].at = c

\* Its tables and its interfaces are what they were.
LEMMA OtherCoreSame ==
  ASSUME MeshInv, NEW r \in Requests, NEW c \in Cores, Touches(r, c)
  PROVE  /\ OwnBlocks(Other(c))' = OwnBlocks(Other(c)) /\ ExtBlocks(Other(c))' = ExtBlocks(Other(c))
         /\ \A n \in NodesOf(Other(c)) :
              /\ Rendered(n)' = Rendered(n) /\ (InOrder(n)' <=> InOrder(n)) /\ NodeOK(n)'
              /\ rows'[n] = rows[n] /\ node'[n] = node[n] /\ (n \in log'.stuck <=> n \in log.stuck)
<1> DEFINE d == Other(c)
<1>1. d \in Cores /\ Other(d) = c /\ \A n \in NodesOf(d) : n \in Nodes /\ CoreOf(n) = d
  BY CoreFacts
<1>2. \A n \in NodesOf(d) : rows'[n] = rows[n] /\ node'[n] = node[n] /\ (n \in log'.stuck <=> n \in log.stuck)
  BY DEF Touches
<1>3. \A n \in NodesOf(Other(d)) : ext'[n] = ext[n]
  BY <1>1 DEF Touches
<1>4. enabled'[d] = enabled[d]
  BY DEF Touches
<1> HIDE DEF d
<1>5. OwnBlocks(d)' = OwnBlocks(d)
  BY <1>2 DEF OwnBlocks
<1>6. ExtBlocks(d)' = ExtBlocks(d)
  BY <1>3 DEF ExtBlocks
<1>7. ASSUME NEW n \in NodesOf(d)
      PROVE  Rendered(n)' = Rendered(n) /\ (InOrder(n)' <=> InOrder(n))
  BY <1>1, <1>2, <1>5, <1>6 DEF Rendered, InOrder
<1>8. ASSUME NEW n \in NodesOf(d)
      PROVE  NodeOK(n)'
  BY <1>1, <1>2, <1>4 DEF MeshInv, NodesOK, NodeOK
<1> QED BY <1>2, <1>5, <1>6, <1>7, <1>8 DEF d

\* It keeps the invariant if it keeps what is said of r and of core c.
LEMMA MeshKeeps ==
  ASSUME MeshInv, NEW r \in Requests, NEW c \in Cores, Touches(r, c), MeshTyped',
         \A n \in NodesOf(c) : NodeOK(n)', Carries(req[r])', Kept(c)',
         req'[r].pc \in PushSteps /\ c \notin log'.unclean => Pushed(req[r], c)', PairingOK'
  PROVE  MeshInv'
<1> DEFINE d == Other(c)
<1>1. /\ d \in Cores /\ d # c /\ Cores = {c, d} /\ NodesOf(c) \cup NodesOf(d) = Nodes
  BY CoreFacts
<1>2. /\ OwnBlocks(d)' = OwnBlocks(d) /\ ExtBlocks(d)' = ExtBlocks(d)
      /\ \A n \in NodesOf(d) :
           /\ (InOrder(n)' <=> InOrder(n)) /\ NodeOK(n)' /\ Rendered(n)' = Rendered(n)
           /\ rows'[n] = rows[n] /\ node'[n] = node[n] /\ (n \in log'.stuck <=> n \in log.stuck)
  BY OtherCoreSame
<1>3. /\ enabled'[d] = enabled[d]
      /\ \A x \in Requests \ {r} : req'[x] = req[x]
      /\ d \notin log'.unclean => d \notin log.unclean
      /\ c \notin log'.unclean => Alone(r, c)
      /\ req'[r].pc \notin {"new", "done"} /\ req'[r].at \notin log'.unclean => Alone(r, req'[r].at)
      /\ Busy(r) /\ req[r].at = d => req[r].pc \notin PushSteps \cup {"load", "down"}
      /\ req'[r].pc \in PushSteps => req'[r].at = c
  BY <1>1 DEF Touches
<1> HIDE DEF d
<1>4. \A x \in Requests : req[x].at \in {c, d} /\ req'[x].at \in {c, d}
  BY <1>1 DEF MeshInv, MeshTyped, MeshCall
<1>5. NodesOK'
  BY <1>1, <1>2 DEF NodesOK
<1>6. CarriesOK'
  BY <1>3 DEF CarriesOK, MeshInv
<1>7. AloneOK'
  <2> SUFFICES ASSUME NEW x \in Requests, req'[x].pc \notin {"new", "done"}, req'[x].at \notin log'.unclean,
                      NEW y \in Requests \ {x}, req'[y].pc \notin {"new", "done"}, req'[y].at = req'[x].at
               PROVE  FALSE
    BY DEF AloneOK, Alone, Busy
  <2>1. x = r \/ y = r => FALSE
    BY <1>3 DEF Alone, Busy
  <2>2. ASSUME x # r, y # r PROVE FALSE
    <3>1. req'[x] = req[x] /\ req'[y] = req[y]
      BY <1>3, <2>2
    <3>2. req[x].at = c => FALSE
      BY <1>3, <2>2, <3>1 DEF Alone, Busy
    <3>3. req[x].at = d => FALSE
      BY <1>3, <3>1 DEF MeshInv, AloneOK, Alone, Busy
    <3> QED BY <1>4, <3>2, <3>3
  <2> QED BY <2>1, <2>2
<1>8. Kept(d)'
  <2> SUFFICES ASSUME enabled'[d], d \notin log'.unclean, Idling(d)', Healthy(d)'
               PROVE  \A n \in NodesOf(d) : InOrder(n)
    BY <1>2 DEF Kept
  <2>1. Idling(d)
    BY <1>3 DEF Idling, Busy
  <2>2. Healthy(d)
    BY <1>2 DEF Healthy
  <2> QED BY <1>1, <1>3, <2>1, <2>2 DEF MeshInv, KeptOK, Kept
<1>9. KeptOK'
  BY <1>1, <1>8 DEF KeptOK
<1>10. PushedOK'
  <2> SUFFICES ASSUME NEW x \in Requests, req'[x].pc \in PushSteps, req'[x].at \notin log'.unclean
               PROVE  Pushed(req[x], req[x].at)'
    BY DEF PushedOK
  <2>1. CASE x = r
    BY <1>3, <2>1
  <2>2. CASE x # r
    <3>1. req'[x] = req[x] /\ Busy(x)
      BY <1>3, <2>2 DEF Busy, PushSteps
    <3>2. req[x].at # c
      BY <1>3, <2>2, <3>1 DEF Alone
    <3>3. req[x].at = d /\ d \notin log.unclean
      BY <1>3, <1>4, <3>1, <3>2
    <3>4. Pushed(req[x], d)
      BY <3>1, <3>3 DEF MeshInv, PushedOK
    <3>5. req[x].pc \in PushSteps /\ Carries(req[x]) /\ req[x].at = d
      BY <3>1, <3>3 DEF MeshInv, CarriesOK
    <3>6. req[x].pc \in {"generate", "persist", "up", "active"} => req[x].cur \in NodesOf(d)
      BY <3>5 DEF Carries
    <3>7. Pushed(req[x], d)'
      BY <1>2, <1>3, <3>1, <3>4, <3>6 DEF Pushed
    <3> QED BY <3>1, <3>3, <3>7
  <2> QED BY <2>1, <2>2
<1> QED BY <1>5, <1>6, <1>7, <1>9, <1>10 DEF MeshInv

-----------------------------------------------------------------------------
(* Mesh: the pairing.                                                        *)

LEMMA PairNo ==
  ASSUME log'.pairing = "no"
  PROVE  PairingOK'
BY DEF PairingOK, PairedMeshIsWhole

LEMMA PairGoesOn ==
  ASSUME MeshInv, NEW r \in Requests, Busy(r), log'.pairing = log.pairing,
         \A x \in Requests \ {r} : req'[x] = req[x],
         log.pairing = "alone" /\ Pairs(req[r]) /\ req'[r].pc \notin {"new", "done"} => Pairs(req[r])'
  PROVE  PairingOK'
<1>1. log.pairing # "whole"
  BY DEF MeshInv, PairingOK
<1>2. CASE log.pairing = "no"
  BY <1>2, PairNo
<1>3. CASE log.pairing = "alone"
  <2>1. Pairs(req[r]) /\ \A x \in Requests \ {r} : req[x].pc \in {"new", "done"}
    BY <1>3 DEF MeshInv, PairingOK, Busy
  <2>2. \A x \in Requests : req'[x].pc \notin {"new", "done"} => x = r
    BY <2>1
  <2>3. \A x \in Requests : req'[x].pc \notin {"new", "done"} => Pairs(req[x])'
    BY <1>3, <2>1, <2>2
  <2>4. log'.pairing = "alone"
    BY <1>3
  <2> QED BY <2>2, <2>3, <2>4 DEF PairingOK, PairedMeshIsWhole, Busy
<1> QED BY <1>1, <1>2, <1>3 DEF MeshInv, MeshTyped, MeshLog

\* A step of a run on core c keeps how far the pairing has come.
LEMMA PairRun ==
  ASSUME MeshInv, NEW r \in Requests, req[r].pc \in PushSteps \cup {"load"}, log'.pairing = log.pairing,
         \A x \in Requests \ {r} : req'[x] = req[x],
         log'.unclean \subseteq log.unclean,
         req'[r].pc \in PushSteps => req[r].at \notin log'.unclean \/ req[r].pc = "load",
         ext' = ext,
         \A n \in Nodes : /\ rows'[n] = NULL <=> rows[n] = NULL
                          /\ rows[n] # NULL => rows'[n].ip = rows[n].ip
                          /\ rows[n] # NULL /\ ~(n \in NodesOf(req[r].at) /\ req[r].pc = "persist") => rows'[n].key = rows[n].key,
         req'[r].pc \notin {"new", "done"} =>
           /\ req'[r].op = req[r].op /\ req'[r].core = req[r].core /\ req'[r].at = req[r].at /\ req'[r].after = req[r].after
           /\ req'[r].pc \in PushSteps \cup {req[r].after}
           /\ req'[r].at \notin log'.unclean \/ log.pairing # "alone"
           /\ req[r].after = "paired" /\ log.pairing = "alone" => req'[r].pc \notin {"keys", "generate", "persist"}
  PROVE  PairingOK'
<1>1. Busy(r)
  BY DEF Busy, PushSteps
<1>2. ASSUME log.pairing = "alone", Pairs(req[r]), req'[r].pc \notin {"new", "done"}
      PROVE  Pairs(req[r])'
  <2>0. PICK c \in Cores : c = req[r].core
    BY MeshTables, MeshCallFacts
  <2> DEFINE d == Other(c)
  <2>1. c \in Cores /\ d \in Cores /\ Other(d) = c /\ NodesOf(c) \subseteq Nodes /\ NodesOf(d) \subseteq Nodes
        /\ NodesOf(c) \cap NodesOf(d) = {}
    BY MeshTables, MeshCallFacts, CoreFacts
  <2>2. req[r].op = "pair" /\ req[r].after \in {"respond", "paired"} /\ req[r].at = (IF req[r].after = "respond" THEN d ELSE c)
        /\ Joined(c) /\ (req[r].after = "paired" => Known(d) /\ req[r].pc \notin {"keys", "generate", "persist"} /\ d \notin log.unclean)
    BY <1>2, <2>0 DEF Pairs, PushSteps
  <2>3. req'[r].op = "pair" /\ req'[r].core = c /\ req'[r].at = req[r].at /\ req'[r].after = req[r].after
        /\ req'[r].pc \in PushSteps \cup {req[r].after} /\ req'[r].at \notin log'.unclean
        /\ (req[r].after = "paired" => req'[r].pc \notin {"keys", "generate", "persist"})
    BY <1>2, <2>0, <2>2
  <2> HIDE DEF d
  <2>4. Joined(c)'
    <3>1. \A n \in NodesOf(c) : ~(n \in NodesOf(req[r].at) /\ req[r].pc = "persist")
      BY <2>1, <2>2
    <3> QED BY <2>1, <2>2, <3>1 DEF Joined, d
  <2>5. req[r].after = "paired" => Known(d)'
    <3> SUFFICES ASSUME req[r].after = "paired" PROVE Known(d)'
      OBVIOUS
    <3>1. req[r].pc # "persist" /\ Known(d)
      BY <2>2
    <3> QED BY <2>1, <3>1 DEF Known
  <2>6. req[r].after = "paired" => d \notin log'.unclean
    BY <2>2
  <2> QED BY <2>2, <2>3, <2>4, <2>5, <2>6 DEF Pairs, PushSteps, d
<1> QED BY <1>1, <1>2, PairGoesOn

-----------------------------------------------------------------------------
(* Mesh: a step of a run with node n.                                        *)

PushStep(r, n) ==
  /\ req[r].pc \in PushSteps /\ n \in NodesOf(req[r].at)
  /\ enabled' = enabled /\ ext' = ext /\ log'.unclean = log.unclean /\ log'.pairing = log.pairing
  /\ \A m \in Nodes \ {n} : rows'[m] = rows[m] /\ node'[m] = node[m] /\ (m \in log'.stuck <=> m \in log.stuck)
  /\ rows'[n] = NULL <=> rows[n] = NULL
  /\ rows[n] # NULL => rows'[n].ip = rows[n].ip /\ (rows'[n].key = rows[n].key \/ req[r].pc = "persist")
  /\ \A x \in Requests \ {r} : req'[x] = req[x]
  /\ \/ req'[r] = Returned(req[r])
     \/ /\ req'[r].op = req[r].op /\ req'[r].core = req[r].core /\ req'[r].at = req[r].at /\ req'[r].after = req[r].after
        /\ req'[r].pc \in PushSteps
        /\ req'[r].pc \in {"keys", "generate", "persist"} => req[r].pc \in {"keys", "generate", "persist"}

LEMMA ReturnedFacts ==
  ASSUME NEW q \in MeshCall
  PROVE  /\ Returned(q) \in MeshCall /\ Carries(Returned(q)) /\ Returned(q).pc \in {"done", "respond", "paired", "forget"}
         /\ Returned(q).pc # "done" => /\ Returned(q).pc = q.after /\ Returned(q).op = q.op /\ Returned(q).core = q.core
                                       /\ Returned(q).at = q.at /\ Returned(q).after = q.after
<1>1. CASE q.after = "done"
  BY <1>1, IdleTyped DEF Returned
<1>2. CASE q.after # "done"
  <2>1. Returned(q) = [q EXCEPT !.pc = q.after, !.left = {}, !.snap = {}, !.cur = NULL]
    BY <1>2 DEF Returned
  <2>2. Returned(q) \in MeshCall
    BY <1>2, <2>1 DEF MeshCall, MeshSteps
  <2>3. Returned(q).pc = q.after /\ q.after \in {"respond", "paired", "forget"}
    BY <1>2, <2>1 DEF MeshCall
  <2>4. Carries(Returned(q))
    BY <2>3 DEF Carries, PushSteps
  <2> QED BY <2>1, <2>2, <2>3, <2>4 DEF MeshCall
<1> QED BY <1>1, <1>2

LEMMA PushKeeps ==
  ASSUME MeshInv, NEW r \in Requests, NEW n, NEW c \in Cores, c = req[r].at, PushStep(r, n), MeshTyped', NodeOK(n)',
         Carries(req[r])', req'[r].pc \in PushSteps /\ c \notin log.unclean => Pushed(req[r], c)',
         req'[r].pc \notin PushSteps /\ c \notin log.unclean => Kept(c)'
  PROVE  MeshInv'
<1>1. /\ Other(c) \in Cores /\ Other(c) # c /\ n \in Nodes /\ n \in NodesOf(c) /\ n \notin NodesOf(Other(c))
      /\ NodesOf(c) \subseteq Nodes /\ NodesOf(Other(c)) \subseteq Nodes /\ req[r] \in MeshCall
      /\ \A m \in NodesOf(c) : CoreOf(m) = c
  <2>1. req[r] \in MeshCall
    BY MeshTables
  <2>2. n \in NodesOf(c)
    BY <2>1, MeshCallFacts DEF PushStep
  <2> QED BY <2>1, <2>2, CoreFacts
<1>2. Busy(r) /\ req[r].pc \notin {"new", "done"} /\ req[r].pc # "load"
  BY DEF PushStep, PushSteps, Busy
<1>3. c \notin log.unclean => Alone(r, c)
  BY <1>2 DEF MeshInv, AloneOK
<1>4. req'[r].pc \notin {"new", "done"} => /\ req'[r].at = c /\ req'[r].op = req[r].op /\ req'[r].core = req[r].core
                                           /\ req'[r].after = req[r].after /\ req'[r].pc \in PushSteps \cup {req[r].after}
                                           /\ (req'[r].pc \in {"keys", "generate", "persist"} => req[r].pc \in {"keys", "generate", "persist"})
  BY <1>1, ReturnedFacts DEF PushStep, PushSteps
<1>5. Touches(r, c)
  BY <1>1, <1>2, <1>3, <1>4 DEF PushStep, Touches, PushSteps, Busy
<1>6. \A m \in NodesOf(c) : NodeOK(m)'
  <2> SUFFICES ASSUME NEW m \in NodesOf(c), m # n PROVE NodeOK(m)'
    OBVIOUS
  <2>1. NodeOK(m) /\ m \in Nodes /\ CoreOf(m) = c
    BY <1>1 DEF MeshInv, NodesOK
  <2>2. rows'[m] = rows[m] /\ node'[m] = node[m] /\ (m \in log'.stuck <=> m \in log.stuck) /\ enabled' = enabled
    BY <2>1 DEF PushStep
  <2>3. \A x \in NodesOf(c) : (rows'[x] = NULL <=> rows[x] = NULL) /\ (rows[x] # NULL => rows'[x].ip = rows[x].ip)
    BY <1>1 DEF PushStep
  <2> QED BY <2>1, <2>2, <2>3 DEF NodeOK
<1>7. Kept(c)'
  <2>1. CASE req'[r].pc \in PushSteps
    <3>1. req'[r].at = c /\ req'[r].pc \notin {"new", "done"}
      BY <1>4, <2>1 DEF PushSteps
    <3> QED BY <2>1, <3>1 DEF Kept, Idling, Busy
  <2>2. CASE req'[r].pc \notin PushSteps
    BY <2>2 DEF Kept, PushStep
  <2> QED BY <2>1, <2>2
<1>8. req'[r].pc \in PushSteps /\ c \notin log'.unclean => Pushed(req[r], c)'
  BY DEF PushStep
<1>9. PairingOK'
  <2>1. CASE log.pairing = "alone"
    <3>1. Pairs(req[r])
      BY <1>2, <2>1 DEF MeshInv, PairingOK
    <3>2. c \notin log.unclean
      BY <3>1 DEF Pairs, PushStep
    <3>3. req[r].after = "paired" => req[r].pc \notin {"keys", "generate", "persist"}
      BY <3>1 DEF Pairs, PushStep
    <3> QED BY <1>1, <1>4, <3>2, <3>3, PairRun DEF PushStep
  <2>2. CASE log.pairing # "alone"
    BY <1>2, <2>2, PairGoesOn DEF PushStep
  <2> QED BY <2>1, <2>2
<1> QED BY <1>1, <1>5, <1>6, <1>7, <1>8, <1>9, MeshKeeps

LEMMA SameBlocks ==
  ASSUME NEW c \in Cores,
         \A n \in NodesOf(c) : /\ rows'[n] = NULL <=> rows[n] = NULL
                               /\ rows[n] # NULL => rows'[n].ip = rows[n].ip /\ rows'[n].key = rows[n].key,
         \A n \in NodesOf(Other(c)) : ext'[n] = ext[n]
  PROVE  /\ OwnBlocks(c)' = OwnBlocks(c) /\ ExtBlocks(c)' = ExtBlocks(c)
         /\ \A n \in NodesOf(c) : rows[n] # NULL => Rendered(n)' = Rendered(n)
<1>1. OwnBlocks(c)' = OwnBlocks(c)
  BY DEF OwnBlocks
<1>2. ExtBlocks(c)' = ExtBlocks(c)
  BY DEF ExtBlocks
<1>3. \A n \in NodesOf(c) : CoreOf(n) = c
  BY CoreFacts
<1> QED BY <1>1, <1>2, <1>3 DEF Rendered

LEMMA RowsOfEnabled ==
  ASSUME MeshInv, NEW c \in Cores, enabled[c]
  PROVE  \A n \in NodesOf(c) : n \in Nodes /\ rows[n] # NULL /\ rows[n] \in Row
<1>1. \A n \in NodesOf(c) : n \in Nodes /\ CoreOf(n) = c
  BY CoreFacts
<1>2. \A n \in NodesOf(c) : rows[n] # NULL
  BY <1>1 DEF MeshInv, NodesOK, NodeOK
<1> QED BY <1>1, <1>2, MeshTables

\* What a run finds: its node is one of its core's, and who runs alone has read the tables.
LEMMA RunFinds ==
  ASSUME MeshInv, NEW r \in Requests, NEW c \in Cores, c = req[r].at, req[r].pc \in PushSteps
  PROVE  /\ req[r] \in MeshCall /\ req[r].left \subseteq NodesOf(c) /\ NodesOf(c) \subseteq Nodes
         /\ req[r].pc \in {"generate", "persist", "up", "active"} => req[r].cur \in NodesOf(c) /\ req[r].cur \in Nodes
         /\ req[r].left \subseteq {b.node : b \in req[r].snap}
         /\ c \notin log.unclean => /\ Pushed(req[r], c) /\ enabled[c] /\ Alone(r, c)
                                    /\ \A n \in NodesOf(c) : rows[n] # NULL /\ rows[n] \in Row
<1>1. req[r] \in MeshCall /\ Carries(req[r])
  BY MeshTables
<1>2. NodesOf(c) \subseteq Nodes
  BY CoreFacts
<1>3. ASSUME c \notin log.unclean
      PROVE  Pushed(req[r], c) /\ Alone(r, c)
  BY <1>3 DEF MeshInv, PushedOK, AloneOK, Busy, PushSteps
<1>4. c \notin log.unclean => enabled[c]
  BY <1>3 DEF Pushed
<1> QED BY <1>1, <1>2, <1>3, <1>4, RowsOfEnabled DEF Carries

\* A run that marks its node and returns says so in the tables.
LEMMA FailKeeps ==
  ASSUME MeshInv, NEW r \in Requests, NEW n, NEW c \in Cores, c = req[r].at, req[r].pc \in PushSteps, n \in NodesOf(c),
         rows' = (IF rows[n] = NULL THEN rows ELSE [rows EXCEPT ![n].status = "error"]),
         req' = [req EXCEPT ![r] = Returned(req[r])],
         enabled' = enabled, ext' = ext, log' \in MeshLog, log'.unclean = log.unclean, log'.pairing = log.pairing,
         node' \in [Nodes -> Host], events' \in 0 .. MaxEvents,
         \A m \in Nodes \ {n} : node'[m] = node[m] /\ (m \in log'.stuck <=> m \in log.stuck),
         rows[n] # NULL /\ rows[n].key # NULL /\ n \notin log'.stuck => node'[n].key \in {NULL, rows[n].key},
         rows[n] # NULL /\ node'[n].wg0 # NULL /\ n \notin log'.stuck => node'[n].wg0.addr = rows[n].ip
  PROVE  MeshInv'
<1>1. n \in Nodes /\ CoreOf(n) = c /\ req[r] \in MeshCall /\ req \in [Requests -> MeshCall] /\ rows \in [Nodes -> Row \cup {NULL}]
      /\ NodesOf(c) \subseteq Nodes
  BY CoreFacts, MeshTables
<1>2. rows[n] # NULL => rows[n] \in Row
  BY <1>1
<1>3. rows' \in [Nodes -> Row \cup {NULL}] /\ \A m \in Nodes \ {n} : rows'[m] = rows[m]
  <2>1. rows[n] # NULL => [rows[n] EXCEPT !.status = "error"] \in Row
    BY <1>2 DEF Row
  <2> QED BY <1>1, <2>1
<1>4. /\ rows'[n] = NULL <=> rows[n] = NULL
      /\ rows[n] # NULL => rows'[n].ip = rows[n].ip /\ rows'[n].key = rows[n].key /\ rows'[n].status = "error"
  <2>1. rows[n] # NULL => [rows[n] EXCEPT !.status = "error"] \in Row
    BY <1>2 DEF Row
  <2>2. CASE rows[n] = NULL
    BY <2>2
  <2>3. CASE rows[n] # NULL
    <3>1. rows'[n] = [rows[n] EXCEPT !.status = "error"]
      BY <1>1, <2>3
    <3> QED BY <1>2, <2>1, <2>3, <3>1, NullFacts DEF Row
  <2> QED BY <2>2, <2>3
<1>5. req'[r] = Returned(req[r]) /\ (\A x \in Requests \ {r} : req'[x] = req[x]) /\ req' \in [Requests -> MeshCall]
  BY <1>1, ReturnedFacts
<1>6. Carries(req[r])' /\ req'[r].pc \notin PushSteps
  BY <1>1, <1>5, ReturnedFacts DEF PushSteps
<1>7. MeshTyped'
  BY <1>3, <1>5, MeshTables DEF MeshTyped
<1>8. NodeOK(n)'
  <2>1. NodeOK(n)
    BY <1>1 DEF MeshInv, NodesOK
  <2> QED BY <1>1, <1>3, <1>4, <2>1 DEF NodeOK
<1>9. c \notin log.unclean => Kept(c)'
  <2>1. c \notin log.unclean => rows[n] # NULL
    BY RunFinds
  <2> QED BY <1>4, <2>1 DEF Kept, Healthy
<1>10. PushStep(r, n)
  BY <1>3, <1>4, <1>5 DEF PushStep
<1> QED BY <1>6, <1>7, <1>8, <1>9, <1>10, PushKeeps

LEMMA KeyReadKeeps ==
  ASSUME MeshInv, NEW r \in Requests, KeyRead(r)
  PROVE  MeshInv'
<1>1. PICK c \in Cores : c = req[r].at
  BY MeshTables, MeshCallFacts
<1>2. PICK n \in req[r].left : n = First(r)
  BY FirstLeft DEF KeyRead, PushSteps
<1>3. req[r].pc = "keys" /\ enabled' = enabled /\ rows' = rows /\ ext' = ext /\ node' = node /\ log' = log /\ events' = events
  BY DEF KeyRead, tables
<1>4. /\ req[r] \in MeshCall /\ req[r].left \subseteq NodesOf(c) /\ NodesOf(c) \subseteq Nodes
      /\ req[r].left \subseteq {b.node : b \in req[r].snap}
      /\ c \notin log.unclean => Pushed(req[r], c)
  BY <1>1, <1>3, RunFinds DEF PushSteps
<1>5. req' = [req EXCEPT ![r] = [req[r] EXCEPT !.pc = "generate", !.cur = n, !.left = @ \ {n}, !.key = node[n].key]]
  BY <1>2, MeshTables DEF KeyRead
<1>6. node[n] \in Host /\ n \in Nodes /\ n \in NodesOf(c)
  BY <1>2, <1>4, MeshTables
<1> DEFINE q == [req[r] EXCEPT !.pc = "generate", !.cur = n, !.left = @ \ {n}, !.key = node[n].key]
<1>7. q \in MeshCall /\ q.pc = "generate" /\ q.cur = n /\ q.left = req[r].left \ {n} /\ q.snap = req[r].snap /\ q.op = req[r].op
      /\ q.core = req[r].core /\ q.at = c /\ q.after = req[r].after
  BY <1>1, <1>4, <1>6, MeshHost DEF MeshCall, MeshSteps, PushSteps
<1>8. req' = [req EXCEPT ![r] = q]
  BY <1>5
<1> HIDE DEF q
<1>9. req'[r] = q /\ (\A x \in Requests \ {r} : req'[x] = req[x]) /\ req' \in [Requests -> MeshCall]
  BY <1>7, <1>8, MeshTables
<1>10. MeshTyped'
  BY <1>3, <1>9, MeshTables DEF MeshTyped
<1>11. Carries(req[r])'
  BY <1>4, <1>6, <1>7, <1>9 DEF Carries, PushSteps
<1>12. NodeOK(n)'
  BY <1>3, <1>6 DEF MeshInv, NodesOK, NodeOK
<1>13. PushStep(r, n)
  BY <1>1, <1>3, <1>6, <1>7, <1>9 DEF PushStep, PushSteps
<1>14. ASSUME c \notin log.unclean PROVE Pushed(req[r], c)'
  <2>1. Pushed(req[r], c)
    BY <1>4, <1>14
  <2>2. OwnBlocks(c)' = OwnBlocks(c) /\ ExtBlocks(c)' = ExtBlocks(c)
    BY <1>3 DEF OwnBlocks, ExtBlocks
  <2> QED BY <1>3, <1>7, <1>9, <2>1, <2>2 DEF Pushed
<1> QED BY <1>1, <1>7, <1>9, <1>10, <1>11, <1>12, <1>13, <1>14, PushKeeps DEF PushSteps

LEMMA GenerateKeeps ==
  ASSUME MeshInv, NEW r \in Requests, Generate(r)
  PROVE  MeshInv'
<1>1. PICK c \in Cores : c = req[r].at
  BY MeshTables, MeshCallFacts
<1>2. PICK n \in NodesOf(c) : n = req[r].cur /\ n \in Nodes
  BY <1>1, RunFinds DEF Generate, PushSteps
<1>3. req[r].pc = "generate" /\ enabled' = enabled /\ ext' = ext
  BY DEF Generate
<1>4. /\ req[r] \in MeshCall /\ req[r].left \subseteq NodesOf(c)
      /\ req[r].left \subseteq {b.node : b \in req[r].snap}
      /\ c \notin log.unclean => Pushed(req[r], c)
  BY <1>1, <1>3, RunFinds DEF PushSteps
<1>5. NodeOK(n) /\ node[n] \in Host /\ log \in MeshLog /\ (rows[n] # NULL => rows[n] \in Row)
  BY <1>2, MeshTables DEF MeshInv, NodesOK
<1> DEFINE k == op_generate_keypair(r)
<1>6. k \in Keys /\ k # NULL
  BY <1>4, MeshCallFacts, NullFacts DEF op_generate_keypair
<1> HIDE DEF k
<1>7. CASE UNCHANGED <<node, log>> /\ Lost /\ Fail(r)
  <2>1. NodeOK(n) /\ node' = node /\ log' = log /\ events' \in 0 .. MaxEvents
    BY <1>5, <1>7, MeshTables, MeshConstants DEF Lost
  <2> QED BY <1>1, <1>2, <1>3, <1>5, <1>7, <2>1, FailKeeps, MeshTables DEF Fail, NodeOK, PushSteps
<1>8. ASSUME node' = [node EXCEPT ![n].key = k], log' = StuckIf(n, rows[n] # NULL /\ rows[n].key \notin {NULL, k})
      PROVE  /\ node' \in [Nodes -> Host] /\ log' \in MeshLog /\ log'.unclean = log.unclean /\ log'.pairing = log.pairing
             /\ \A m \in Nodes \ {n} : node'[m] = node[m] /\ (m \in log'.stuck <=> m \in log.stuck)
             /\ node'[n].key = k /\ node'[n].wg0 = node[n].wg0
             /\ n \in log'.stuck <=> n \in log.stuck \/ (rows[n] # NULL /\ rows[n].key \notin {NULL, k})
             /\ rows[n] # NULL /\ rows[n].key # NULL /\ n \notin log'.stuck => node'[n].key \in {NULL, rows[n].key}
             /\ rows[n] # NULL /\ node'[n].wg0 # NULL /\ n \notin log'.stuck => node'[n].wg0.addr = rows[n].ip
  <2>1. [node[n] EXCEPT !.key = k] \in Host
    BY <1>5, <1>6 DEF Host
  <2>2. node' = [node EXCEPT ![n] = [node[n] EXCEPT !.key = k]]
    BY <1>2, <1>8, MeshTables
  <2>3. node' \in [Nodes -> Host] /\ (\A m \in Nodes \ {n} : node'[m] = node[m]) /\ node'[n] = [node[n] EXCEPT !.key = k]
    BY <1>2, <2>1, <2>2, MeshTables
  <2>4. node'[n].key = k /\ node'[n].wg0 = node[n].wg0
    BY <1>5, <2>3 DEF Host
  <2>5. /\ log' \in MeshLog /\ log'.unclean = log.unclean /\ log'.pairing = log.pairing
        /\ \A m \in Nodes \ {n} : (m \in log'.stuck <=> m \in log.stuck)
        /\ n \in log'.stuck <=> n \in log.stuck \/ (rows[n] # NULL /\ rows[n].key \notin {NULL, k})
    BY <1>2, <1>5, <1>8 DEF StuckIf, MeshLog
  <2> QED BY <1>5, <2>3, <2>4, <2>5 DEF NodeOK
<1>9. ASSUME node' = [node EXCEPT ![n].key = k], log' = StuckIf(n, rows[n] # NULL /\ rows[n].key \notin {NULL, k}), Lost, Fail(r)
      PROVE  MeshInv'
  <2>1. events' \in 0 .. MaxEvents
    BY <1>9, MeshTables, MeshConstants DEF Lost
  <2>2. rows' = (IF rows[n] = NULL THEN rows ELSE [rows EXCEPT ![n].status = "error"]) /\ req' = [req EXCEPT ![r] = Returned(req[r])]
    BY <1>2, <1>9 DEF Fail
  <2>3. req[r].pc \in PushSteps
    BY <1>3 DEF PushSteps
  <2>4. /\ node' \in [Nodes -> Host] /\ log' \in MeshLog /\ log'.unclean = log.unclean /\ log'.pairing = log.pairing
        /\ \A m \in Nodes \ {n} : node'[m] = node[m] /\ (m \in log'.stuck <=> m \in log.stuck)
        /\ rows[n] # NULL /\ rows[n].key # NULL /\ n \notin log'.stuck => node'[n].key \in {NULL, rows[n].key}
        /\ rows[n] # NULL /\ node'[n].wg0 # NULL /\ n \notin log'.stuck => node'[n].wg0.addr = rows[n].ip
    BY <1>8, <1>9
  <2> QED BY <1>1, <1>3, <2>1, <2>2, <2>3, <2>4, FailKeeps
<1>10. ASSUME node' = [node EXCEPT ![n].key = k], log' = StuckIf(n, rows[n] # NULL /\ rows[n].key \notin {NULL, k}),
              Answered, rows' = rows, req' = [req EXCEPT ![r].pc = "persist", ![r].key = k]
       PROVE  MeshInv'
  <2> DEFINE q == [req[r] EXCEPT !.pc = "persist", !.key = k]
  <2>1. q \in MeshCall /\ q.pc = "persist" /\ q.cur = n /\ q.left = req[r].left /\ q.snap = req[r].snap /\ q.op = req[r].op
        /\ q.core = req[r].core /\ q.at = c /\ q.after = req[r].after /\ q.key = k
    BY <1>1, <1>2, <1>4, <1>6 DEF MeshCall, MeshSteps, PushSteps
  <2>2. req' = [req EXCEPT ![r] = q]
    BY <1>10, MeshTables
  <2> HIDE DEF q
  <2>3. req'[r] = q /\ (\A x \in Requests \ {r} : req'[x] = req[x]) /\ req' \in [Requests -> MeshCall]
    BY <2>1, <2>2, MeshTables
  <2>4. MeshTyped'
    BY <1>3, <1>8, <1>10, <2>3, MeshTables DEF MeshTyped, Answered
  <2>5. Carries(req[r])'
    BY <1>4, <1>6, <2>1, <2>3 DEF Carries, PushSteps
  <2>6. NodeOK(n)'
    BY <1>3, <1>5, <1>8, <1>10 DEF NodeOK
  <2>7. PushStep(r, n)
    BY <1>1, <1>2, <1>3, <1>8, <1>10, <2>1, <2>3 DEF PushStep, PushSteps
  <2>8. ASSUME c \notin log.unclean PROVE Pushed(req[r], c)'
    <3>1. Pushed(req[r], c)
      BY <1>4, <2>8
    <3>2. OwnBlocks(c)' = OwnBlocks(c) /\ ExtBlocks(c)' = ExtBlocks(c)
      BY <1>3, <1>10 DEF OwnBlocks, ExtBlocks
    <3> QED BY <1>2, <1>3, <1>10, <2>1, <2>3, <3>1, <3>2 DEF Pushed
  <2> QED BY <1>1, <2>1, <2>3, <2>4, <2>5, <2>6, <2>7, <2>8, PushKeeps DEF PushSteps
<1> QED BY <1>2, <1>7, <1>9, <1>10 DEF Generate, k

LEMMA PersistKeyKeeps ==
  ASSUME MeshInv, NEW r \in Requests, PersistKey(r)
  PROVE  MeshInv'
<1>1. PICK c \in Cores : c = req[r].at
  BY MeshTables, MeshCallFacts
<1>2. PICK n \in NodesOf(c) : n = req[r].cur /\ n \in Nodes
  BY <1>1, RunFinds DEF PersistKey, PushSteps
<1>3. req[r].pc = "persist" /\ enabled' = enabled /\ ext' = ext /\ node' = node /\ events' = events
  BY DEF PersistKey
<1>4. /\ req[r] \in MeshCall /\ req[r].left \subseteq NodesOf(c)
      /\ req[r].left \subseteq {b.node : b \in req[r].snap} /\ NodesOf(c) \subseteq Nodes
      /\ c \notin log.unclean => Pushed(req[r], c) /\ \A m \in NodesOf(c) : rows[m] # NULL
  BY <1>1, <1>3, RunFinds DEF PushSteps
<1>5. NodeOK(n) /\ node[n] \in Host /\ log \in MeshLog /\ (rows[n] # NULL => rows[n] \in Row) /\ rows \in [Nodes -> Row \cup {NULL}]
  BY <1>2, MeshTables DEF MeshInv, NodesOK
<1>6. PICK k \in Keys : k = req[r].key /\ k # NULL
  BY <1>3, <1>4, MeshTables, MeshCallFacts DEF Carries
<1>7. rows[n] # NULL => rows' = [rows EXCEPT ![n] = [rows[n] EXCEPT !.key = k, !.status = "keyed"]]
  BY <1>2, <1>5, <1>6 DEF PersistKey
<1>8. /\ rows' \in [Nodes -> Row \cup {NULL}] /\ \A m \in Nodes \ {n} : rows'[m] = rows[m]
      /\ rows'[n] = NULL <=> rows[n] = NULL
      /\ rows[n] # NULL => rows'[n].ip = rows[n].ip /\ rows'[n].key = k
  <2>1. CASE rows[n] = NULL
    BY <1>2, <1>5, <2>1 DEF PersistKey
  <2>2. CASE rows[n] # NULL
    <3>1. [rows[n] EXCEPT !.key = k, !.status = "keyed"] \in Row
      BY <1>5, <2>2 DEF Row
    <3>2. [rows[n] EXCEPT !.key = k, !.status = "keyed"].ip = rows[n].ip /\ [rows[n] EXCEPT !.key = k, !.status = "keyed"].key = k
      BY <1>5, <2>2 DEF Row
    <3> DEFINE new == [rows[n] EXCEPT !.key = k, !.status = "keyed"]
    <3>3. rows' = [rows EXCEPT ![n] = new] /\ new \in Row /\ new # NULL
      BY <1>7, <2>2, <3>1, NullFacts
    <3>4. new.ip = rows[n].ip /\ new.key = k
      BY <3>2
    <3> HIDE DEF new
    <3> QED BY <1>2, <1>5, <2>2, <3>3, <3>4
  <2> QED BY <2>1, <2>2
<1>9. /\ log' \in MeshLog /\ log'.unclean = log.unclean /\ log'.pairing = log.pairing
      /\ \A m \in Nodes \ {n} : (m \in log'.stuck <=> m \in log.stuck)
      /\ n \in log'.stuck <=> n \in log.stuck \/ (rows[n] # NULL /\ node[n].key # k)
  <2>1. log' = StuckIf(n, rows[n] # NULL /\ node[n].key # k)
    BY <1>2, <1>6 DEF PersistKey
  <2> QED BY <1>2, <1>5, <2>1 DEF StuckIf, MeshLog
<1> DEFINE upd(b) == IF b.node = n THEN [b EXCEPT !.key = k] ELSE b
           snap == {upd(b) : b \in req[r].snap}
           q0 == [req[r] EXCEPT !.key = NULL, !.snap = snap]
           q == KeysOrFiles(q0)
<1>10. \A b \in SnapBlock : /\ upd(b) \in SnapBlock /\ upd(b).node = b.node /\ upd(b).ip = b.ip
                            /\ upd(b).key = IF b.node = n THEN k ELSE b.key
                            /\ (b.node # n => upd(b) = b)
  BY <1>6 DEF SnapBlock
<1>11. req[r].snap \subseteq SnapBlock /\ snap \subseteq SnapBlock /\ {b.node : b \in snap} = {b.node : b \in req[r].snap}
  <2>1. req[r].snap \subseteq SnapBlock
    BY <1>4, MeshCallFacts
  <2> HIDE DEF upd
  <2> QED BY <1>10, <2>1
<1>12. req' = [req EXCEPT ![r] = q]
  <2>1. req' = [req EXCEPT ![r] = KeysOrFiles([req[r] EXCEPT !.key = NULL,
                !.snap = {IF b.node = req[r].cur THEN [b EXCEPT !.key = req[r].key] ELSE b : b \in req[r].snap}])]
    BY DEF PersistKey
  <2>2. snap = {IF b.node = req[r].cur THEN [b EXCEPT !.key = req[r].key] ELSE b : b \in req[r].snap}
    BY <1>2, <1>6
  <2> QED BY <2>1, <2>2
<1> HIDE DEF snap
<1>13. q0 \in MeshCall /\ q0.op = req[r].op /\ q0.core = req[r].core /\ q0.at = c /\ q0.after = req[r].after
       /\ q0.left = req[r].left /\ q0.snap = snap
  BY <1>1, <1>4, <1>11 DEF MeshCall
<1> HIDE DEF q0
<1>14. /\ q \in MeshCall /\ q.op = req[r].op /\ q.core = req[r].core /\ q.at = c /\ q.after = req[r].after
       /\ q.snap = snap /\ q.pc = (IF req[r].left # {} THEN "keys" ELSE "write")
       /\ q.left = (IF req[r].left # {} THEN req[r].left ELSE NodesOf(c) \cap {b.node : b \in snap})
  <2>1. CASE req[r].left # {}
    <3>1. q = [q0 EXCEPT !.pc = "keys", !.cur = NULL]
      BY <1>13, <2>1 DEF KeysOrFiles
    <3> QED BY <1>13, <2>1, <3>1 DEF MeshCall, MeshSteps, PushSteps
  <2>2. CASE req[r].left = {}
    <3>1. q = [q0 EXCEPT !.pc = "write", !.cur = NULL, !.left = NodesOf(c) \cap {b.node : b \in snap}]
      BY <1>13, <2>2 DEF KeysOrFiles
    <3>2. NodesOf(c) \cap {b.node : b \in snap} \in SUBSET Nodes
      BY <1>4
    <3> QED BY <1>13, <2>2, <3>1, <3>2 DEF MeshCall, MeshSteps, PushSteps
  <2> QED BY <2>1, <2>2
<1> HIDE DEF q
<1>15. req'[r] = q /\ (\A x \in Requests \ {r} : req'[x] = req[x]) /\ req' \in [Requests -> MeshCall]
  BY <1>12, <1>14, MeshTables
<1>16. MeshTyped'
  BY <1>3, <1>8, <1>9, <1>15, MeshTables DEF MeshTyped
<1>17. Carries(req[r])'
  BY <1>4, <1>11, <1>14, <1>15 DEF Carries, PushSteps
<1>18. NodeOK(n)'
  BY <1>2, <1>3, <1>5, <1>8, <1>9, CoreFacts DEF NodeOK
<1>19. PushStep(r, n)
  BY <1>1, <1>2, <1>3, <1>8, <1>9, <1>14, <1>15 DEF PushStep, PushSteps
<1>20. ASSUME c \notin log.unclean PROVE Pushed(req[r], c)'
  <2>1. Pushed(req[r], c) /\ \A m \in NodesOf(c) : rows[m] # NULL
    BY <1>4, <1>20
  <2>2. req[r].snap = OwnBlocks(c) \cup ExtBlocks(c) /\ enabled[c]
    BY <2>1 DEF Pushed
  <2>3. \A b \in ExtBlocks(c) : b \in SnapBlock /\ b.node # n
    BY BlocksAre
  <2>4. OwnBlocks(c) \subseteq SnapBlock
    BY BlocksAre
  <2>5. OwnBlocks(c)' = {upd(b) : b \in OwnBlocks(c)}
    <3> DEFINE own(m) == [node |-> m, ip |-> rows[m].ip, key |-> rows[m].key]
    <3>1. \A m \in NodesOf(c) : own(m) \in OwnBlocks(c) /\ own(m) \in SnapBlock
      BY <2>1, <2>4 DEF OwnBlocks
    <3>2. \A m \in NodesOf(c) : upd(own(m)) = [node |-> m, ip |-> rows'[m].ip, key |-> rows'[m].key]
      BY <1>2, <1>4, <1>8, <2>1
    <3>3. OwnBlocks(c) = {own(m) : m \in NodesOf(c)}
      BY <2>1 DEF OwnBlocks
    <3>4. OwnBlocks(c)' = {[node |-> m, ip |-> rows'[m].ip, key |-> rows'[m].key] : m \in NodesOf(c)}
      BY <1>2, <1>4, <1>8, <2>1 DEF OwnBlocks
    <3> HIDE DEF own, upd
    <3> QED BY <3>2, <3>3, <3>4
  <2>6. ExtBlocks(c)' = ExtBlocks(c)
    BY <1>3 DEF ExtBlocks
  <2>7. {upd(b) : b \in ExtBlocks(c)} = ExtBlocks(c)
    <3>1. \A b \in ExtBlocks(c) : upd(b) = b
      BY <2>3
    <3> HIDE DEF upd
    <3> QED BY <3>1
  <2>8. snap = OwnBlocks(c)' \cup ExtBlocks(c)'
    <3> HIDE DEF upd
    <3> QED BY <2>2, <2>5, <2>6, <2>7 DEF snap
  <2>9. \A m \in NodesOf(c) : rows[m].key = NULL => m \in req[r].left \/ m = n
    BY <1>2, <1>3, <2>1 DEF Pushed
  <2>10. \A m \in NodesOf(c) : rows'[m].key = NULL => m \in req[r].left
    BY <1>2, <1>4, <1>6, <1>8, <2>1, <2>9
  <2>11. \A m \in NodesOf(c) : m \in {b.node : b \in snap}
    <3>1. \A m \in NodesOf(c) : [node |-> m, ip |-> rows[m].ip, key |-> rows[m].key] \in req[r].snap
      BY <2>1, <2>2 DEF OwnBlocks
    <3>2. \A m \in NodesOf(c) : m \in {b.node : b \in req[r].snap}
      <4> SUFFICES ASSUME NEW m \in NodesOf(c) PROVE m \in {b.node : b \in req[r].snap}
        OBVIOUS
      <4> DEFINE own == [node |-> m, ip |-> rows[m].ip, key |-> rows[m].key]
      <4>1. own \in req[r].snap /\ own.node = m
        BY <3>1
      <4> HIDE DEF own
      <4> QED BY <4>1
    <3> QED BY <1>11, <3>2
  <2>12. \A m \in NodesOf(c) : req[r].left = {} => m \in q.left
    BY <1>14, <2>11
  <2> QED BY <1>3, <1>14, <1>15, <2>2, <2>8, <2>10, <2>12 DEF Pushed
<1> QED BY <1>1, <1>14, <1>15, <1>16, <1>17, <1>18, <1>19, <1>20, PushKeeps DEF PushSteps

\* What a run renders for its next node is a configuration, and alone it is what the tables say.
LEMMA RenderFacts ==
  ASSUME MeshInv, NEW r \in Requests, NEW c \in Cores, c = req[r].at, req[r].pc = "write", NEW n \in req[r].left,
         node[n].key # NULL
  PROVE  /\ render_wg_conf(r, n) \in Config
         /\ c \notin log.unclean /\ n \notin log.stuck => render_wg_conf(r, n) = Rendered(n) /\ node[n].key = rows[n].key
<1>1. /\ req[r] \in MeshCall /\ n \in NodesOf(c) /\ n \in Nodes /\ CoreOf(n) = c /\ n \in {b.node : b \in req[r].snap}
      /\ c \notin log.unclean => Pushed(req[r], c) /\ rows[n] # NULL /\ rows[n] \in Row
  BY RunFinds, CoreFacts DEF PushSteps
<1>2. node[n] \in Host /\ node[n].key \in Keys /\ req[r].snap \subseteq SnapBlock
  BY <1>1, MeshTables, MeshHost, MeshCallFacts
<1>3. AddressIn(r, n) \in Addresses
  <2>1. \E b \in req[r].snap : b.node = n
    BY <1>1
  <2>2. PICK b \in req[r].snap : b = (CHOOSE x \in req[r].snap : x.node = n)
    BY <2>1
  <2> QED BY <1>2, <2>2 DEF AddressIn, SnapBlock
<1>4. {b \in req[r].snap : b.node # n /\ b.key # NULL} \in SUBSET Block
  BY <1>2 DEF SnapBlock, Block
<1>5. render_wg_conf(r, n) \in Config
  BY <1>2, <1>3, <1>4 DEF render_wg_conf, Config
<1>6. ASSUME c \notin log.unclean, n \notin log.stuck
      PROVE  render_wg_conf(r, n) = Rendered(n) /\ node[n].key = rows[n].key
  <2>1. req[r].snap = OwnBlocks(c) \cup ExtBlocks(c) /\ rows[n].key # NULL
    BY <1>1, <1>6 DEF Pushed
  <2>2. AddressIn(r, n) = rows[n].ip
    BY <1>1, <1>6, <2>1, AddressRead
  <2>3. NodeOK(n)
    BY <1>1 DEF MeshInv, NodesOK
  <2>4. node[n].key = rows[n].key
    BY <1>1, <1>6, <2>1, <2>3 DEF NodeOK
  <2> QED BY <1>1, <2>1, <2>2, <2>4 DEF render_wg_conf, Rendered
<1> QED BY <1>5, <1>6

LEMMA WriteConfigKeeps ==
  ASSUME MeshInv, NEW r \in Requests, WriteConfig(r)
  PROVE  MeshInv'
<1>1. PICK c \in Cores : c = req[r].at
  BY MeshTables, MeshCallFacts
<1>2. PICK n \in req[r].left : n = First(r)
  BY FirstLeft DEF WriteConfig, PushSteps
<1>3. req[r].pc = "write" /\ enabled' = enabled /\ ext' = ext /\ log' = log /\ req[r].pc \in PushSteps
  BY DEF WriteConfig, PushSteps
<1>4. /\ req[r] \in MeshCall /\ req[r].left \subseteq NodesOf(c) /\ NodesOf(c) \subseteq Nodes
      /\ req[r].left \subseteq {b.node : b \in req[r].snap}
      /\ c \notin log.unclean => Pushed(req[r], c)
  BY <1>1, <1>3, RunFinds
<1>5. n \in NodesOf(c) /\ n \in Nodes
  BY <1>4
<1>6. NodeOK(n) /\ node[n] \in Host /\ log \in MeshLog
  BY <1>5, MeshTables DEF MeshInv, NodesOK
<1>7. ASSUME IF node[n].key = NULL THEN Answered ELSE Lost,
             rows' = IF rows[n] = NULL THEN rows ELSE [rows EXCEPT ![n].status = "error"],
             req' = [req EXCEPT ![r] = Returned(req[r])], node' = node
      PROVE  MeshInv'
  <2>1. events' \in 0 .. MaxEvents
    BY <1>7, MeshTables, MeshConstants DEF Lost, Answered
  <2>2. /\ rows[n] # NULL /\ rows[n].key # NULL /\ n \notin log'.stuck => node'[n].key \in {NULL, rows[n].key}
        /\ rows[n] # NULL /\ node'[n].wg0 # NULL /\ n \notin log'.stuck => node'[n].wg0.addr = rows[n].ip
    BY <1>3, <1>6, <1>7 DEF NodeOK
  <2>3. node' \in [Nodes -> Host] /\ \A m \in Nodes \ {n} : node'[m] = node[m] /\ (m \in log'.stuck <=> m \in log.stuck)
    BY <1>3, <1>7, MeshTables
  <2> QED BY <1>1, <1>3, <1>5, <1>6, <1>7, <2>1, <2>2, <2>3, FailKeeps
<1>8. ASSUME node[n].key # NULL, Answered, node' = [node EXCEPT ![n].conf = render_wg_conf(r, n)], rows' = rows,
             req' = [req EXCEPT ![r].pc = "up", ![r].cur = n, ![r].left = @ \ {n}]
      PROVE  MeshInv'
  <2>1. /\ render_wg_conf(r, n) \in Config
        /\ c \notin log.unclean /\ n \notin log.stuck => render_wg_conf(r, n) = Rendered(n) /\ node[n].key = rows[n].key
    BY <1>1, <1>3, <1>8, RenderFacts
  <2>2. [node[n] EXCEPT !.conf = render_wg_conf(r, n)] \in Host
    BY <1>6, <2>1 DEF Host
  <2>3. node' = [node EXCEPT ![n] = [node[n] EXCEPT !.conf = render_wg_conf(r, n)]]
    BY <1>5, <1>8, MeshTables
  <2>4. node' \in [Nodes -> Host] /\ (\A m \in Nodes \ {n} : node'[m] = node[m])
        /\ node'[n].conf = render_wg_conf(r, n) /\ node'[n].key = node[n].key /\ node'[n].wg0 = node[n].wg0
    BY <1>5, <1>6, <2>2, <2>3, MeshTables DEF Host
  <2> DEFINE q == [req[r] EXCEPT !.pc = "up", !.cur = n, !.left = @ \ {n}]
  <2>5. q \in MeshCall /\ q.pc = "up" /\ q.cur = n /\ q.left = req[r].left \ {n} /\ q.snap = req[r].snap /\ q.op = req[r].op
        /\ q.core = req[r].core /\ q.at = c /\ q.after = req[r].after
    BY <1>1, <1>4, <1>5 DEF MeshCall, MeshSteps, PushSteps
  <2>6. req' = [req EXCEPT ![r] = q]
    BY <1>8, MeshTables
  <2> HIDE DEF q
  <2>7. req'[r] = q /\ (\A x \in Requests \ {r} : req'[x] = req[x]) /\ req' \in [Requests -> MeshCall]
    BY <2>5, <2>6, MeshTables
  <2>8. MeshTyped'
    BY <1>3, <1>8, <2>4, <2>7, MeshTables DEF MeshTyped, Answered
  <2>9. Carries(req[r])'
    BY <1>4, <1>5, <2>5, <2>7 DEF Carries, PushSteps
  <2>10. NodeOK(n)'
    BY <1>3, <1>6, <1>8, <2>4 DEF NodeOK
  <2>11. PushStep(r, n)
    BY <1>1, <1>3, <1>5, <1>8, <2>4, <2>5, <2>7 DEF PushStep, PushSteps
  <2>12. ASSUME c \notin log.unclean PROVE Pushed(req[r], c)'
    <3>1. Pushed(req[r], c)
      BY <1>4, <2>12
    <3>2. OwnBlocks(c)' = OwnBlocks(c) /\ ExtBlocks(c)' = ExtBlocks(c) /\ \A m \in NodesOf(c) : rows[m] # NULL => Rendered(m)' = Rendered(m)
      BY <1>3, <1>8, SameBlocks
    <3>3. \A m \in NodesOf(c) : rows[m] # NULL
      BY <1>1, <1>3, <2>12, RunFinds
    <3>4. \A m \in NodesOf(c) : rows'[m].key # NULL /\ (m \in log'.stuck \/ m \in q.left \/ m = q.cur \/ InOrder(m)')
      BY <1>3, <1>4, <1>8, <2>4, <2>5, <3>1, <3>2, <3>3 DEF Pushed, InOrder
    <3>5. n \notin log'.stuck => node'[n].conf = Rendered(n)' /\ node'[n].key = rows'[n].key
      BY <1>3, <1>5, <1>8, <2>1, <2>4, <2>12, <3>2, <3>3
    <3>6. enabled'[c] /\ q.snap = OwnBlocks(c)' \cup ExtBlocks(c)'
      BY <1>3, <2>5, <3>1, <3>2 DEF Pushed
    <3> QED BY <2>5, <2>7, <3>4, <3>5, <3>6 DEF Pushed
  <2> QED BY <1>1, <2>5, <2>7, <2>8, <2>9, <2>10, <2>11, <2>12, PushKeeps DEF PushSteps
<1> QED BY <1>2, <1>7, <1>8 DEF WriteConfig

\* wg-quick up and wg syncconf make an interface, and syncconf keeps its address.
LEMMA UpFacts ==
  ASSUME NEW n, node[n] \in Host, node[n].conf # NULL
  PROVE  /\ op_up(n) \in Config /\ op_up(n) # NULL
         /\ node[n].wg0 # NULL => op_up(n).addr = node[n].wg0.addr
         /\ node[n].wg0 = NULL => op_up(n) = node[n].conf
         /\ op_up(n).key = node[n].conf.key /\ op_up(n).peers = node[n].conf.peers
<1>1. node[n].conf \in Config /\ (node[n].wg0 # NULL => node[n].wg0 \in Config)
  BY DEF Host
<1>2. CASE node[n].wg0 = NULL
  BY <1>1, <1>2 DEF op_up
<1>3. CASE node[n].wg0 # NULL
  <2>1. op_up(n) = [node[n].wg0 EXCEPT !.key = node[n].conf.key, !.peers = node[n].conf.peers]
    BY <1>3 DEF op_up, wg_syncconf
  <2>2. op_up(n) \in Config /\ op_up(n).addr = node[n].wg0.addr /\ op_up(n).key = node[n].conf.key /\ op_up(n).peers = node[n].conf.peers
    BY <1>1, <1>3, <2>1 DEF Config
  <2> QED BY <1>3, <2>2, NullFacts
<1> QED BY <1>2, <1>3

LEMMA UpKeeps ==
  ASSUME MeshInv, NEW r \in Requests, Up(r)
  PROVE  MeshInv'
<1>1. PICK c \in Cores : c = req[r].at
  BY MeshTables, MeshCallFacts
<1>2. PICK n \in NodesOf(c) : n = req[r].cur /\ n \in Nodes
  BY <1>1, RunFinds DEF Up, PushSteps
<1>3. req[r].pc = "up" /\ enabled' = enabled /\ ext' = ext /\ req[r].pc \in PushSteps
  BY DEF Up, PushSteps
<1>4. /\ req[r] \in MeshCall /\ req[r].left \subseteq NodesOf(c)
      /\ req[r].left \subseteq {b.node : b \in req[r].snap}
      /\ c \notin log.unclean => Pushed(req[r], c) /\ \A m \in NodesOf(c) : rows[m] # NULL /\ rows[m] \in Row
  BY <1>1, <1>3, RunFinds
<1>5. NodeOK(n) /\ node[n] \in Host /\ log \in MeshLog /\ (rows[n] # NULL => rows[n] \in Row)
  BY <1>2, MeshTables DEF MeshInv, NodesOK
<1>6. ASSUME Fail(r), node' = node, log' = log, IF node[n].conf = NULL THEN Answered ELSE Lost
      PROVE  MeshInv'
  <2>1. events' \in 0 .. MaxEvents
    BY <1>6, MeshTables, MeshConstants DEF Lost, Answered
  <2>2. /\ rows[n] # NULL /\ rows[n].key # NULL /\ n \notin log'.stuck => node'[n].key \in {NULL, rows[n].key}
        /\ rows[n] # NULL /\ node'[n].wg0 # NULL /\ n \notin log'.stuck => node'[n].wg0.addr = rows[n].ip
    BY <1>5, <1>6 DEF NodeOK
  <2>3. rows' = (IF rows[n] = NULL THEN rows ELSE [rows EXCEPT ![n].status = "error"]) /\ req' = [req EXCEPT ![r] = Returned(req[r])]
    BY <1>2, <1>6 DEF Fail
  <2>4. node' \in [Nodes -> Host] /\ log' \in MeshLog /\ log'.unclean = log.unclean /\ log'.pairing = log.pairing
        /\ \A m \in Nodes \ {n} : node'[m] = node[m] /\ (m \in log'.stuck <=> m \in log.stuck)
    BY <1>5, <1>6, MeshTables
  <2> QED BY <1>1, <1>3, <2>1, <2>2, <2>3, <2>4, FailKeeps
<1>7. ASSUME node[n].conf # NULL, node' = [node EXCEPT ![n].wg0 = op_up(n)],
             log' = StuckIf(n, rows[n] # NULL /\ node[n].wg0 = NULL /\ node[n].conf.addr # rows[n].ip)
      PROVE  /\ node' \in [Nodes -> Host] /\ log' \in MeshLog /\ log'.unclean = log.unclean /\ log'.pairing = log.pairing
             /\ \A m \in Nodes \ {n} : node'[m] = node[m] /\ (m \in log'.stuck <=> m \in log.stuck)
             /\ node'[n].key = node[n].key /\ node'[n].wg0 = op_up(n)
             /\ n \in log.stuck => n \in log'.stuck
             /\ rows[n] # NULL /\ rows[n].key # NULL /\ n \notin log'.stuck => node'[n].key \in {NULL, rows[n].key}
             /\ rows[n] # NULL /\ node'[n].wg0 # NULL /\ n \notin log'.stuck => node'[n].wg0.addr = rows[n].ip
  <2>1. /\ op_up(n) \in Config /\ op_up(n) # NULL
        /\ node[n].wg0 # NULL => op_up(n).addr = node[n].wg0.addr
        /\ node[n].wg0 = NULL => op_up(n) = node[n].conf
    BY <1>5, <1>7, UpFacts
  <2>2. [node[n] EXCEPT !.wg0 = op_up(n)] \in Host
    BY <1>5, <2>1 DEF Host
  <2>3. node' = [node EXCEPT ![n] = [node[n] EXCEPT !.wg0 = op_up(n)]]
    BY <1>2, <1>7, MeshTables
  <2>4. node' \in [Nodes -> Host] /\ (\A m \in Nodes \ {n} : node'[m] = node[m])
        /\ node'[n].key = node[n].key /\ node'[n].wg0 = op_up(n)
    BY <1>2, <1>5, <2>2, <2>3, MeshTables DEF Host
  <2>5. /\ log' \in MeshLog /\ log'.unclean = log.unclean /\ log'.pairing = log.pairing
        /\ \A m \in Nodes \ {n} : (m \in log'.stuck <=> m \in log.stuck)
        /\ n \in log'.stuck <=> n \in log.stuck \/ (rows[n] # NULL /\ node[n].wg0 = NULL /\ node[n].conf.addr # rows[n].ip)
    BY <1>2, <1>5, <1>7 DEF StuckIf, MeshLog
  <2>6. rows[n] # NULL /\ n \notin log'.stuck => op_up(n).addr = rows[n].ip
    BY <1>5, <2>1, <2>5 DEF NodeOK
  <2> QED BY <1>5, <2>4, <2>5, <2>6 DEF NodeOK
<1>8. ASSUME node[n].conf # NULL, node' = [node EXCEPT ![n].wg0 = op_up(n)],
             log' = StuckIf(n, rows[n] # NULL /\ node[n].wg0 = NULL /\ node[n].conf.addr # rows[n].ip), Lost, Fail(r)
      PROVE  MeshInv'
  <2>1. events' \in 0 .. MaxEvents
    BY <1>8, MeshTables, MeshConstants DEF Lost
  <2>2. /\ rows[n] # NULL /\ rows[n].key # NULL /\ n \notin log'.stuck => node'[n].key \in {NULL, rows[n].key}
        /\ rows[n] # NULL /\ node'[n].wg0 # NULL /\ n \notin log'.stuck => node'[n].wg0.addr = rows[n].ip
    BY <1>7, <1>8
  <2>3. rows' = (IF rows[n] = NULL THEN rows ELSE [rows EXCEPT ![n].status = "error"]) /\ req' = [req EXCEPT ![r] = Returned(req[r])]
    BY <1>2, <1>8 DEF Fail
  <2>4. node' \in [Nodes -> Host] /\ log' \in MeshLog /\ log'.unclean = log.unclean /\ log'.pairing = log.pairing
        /\ \A m \in Nodes \ {n} : node'[m] = node[m] /\ (m \in log'.stuck <=> m \in log.stuck)
    BY <1>7, <1>8
  <2> QED BY <1>1, <1>3, <2>1, <2>2, <2>3, <2>4, FailKeeps
<1>9. ASSUME node[n].conf # NULL, node' = [node EXCEPT ![n].wg0 = op_up(n)],
             log' = StuckIf(n, rows[n] # NULL /\ node[n].wg0 = NULL /\ node[n].conf.addr # rows[n].ip),
             Answered, Goto(r, "active"), rows' = rows
      PROVE  MeshInv'
  <2>1. /\ node' \in [Nodes -> Host] /\ log' \in MeshLog /\ log'.unclean = log.unclean /\ log'.pairing = log.pairing
        /\ \A m \in Nodes \ {n} : node'[m] = node[m] /\ (m \in log'.stuck <=> m \in log.stuck)
        /\ node'[n].key = node[n].key /\ node'[n].wg0 = op_up(n) /\ (n \in log.stuck => n \in log'.stuck)
        /\ rows[n] # NULL /\ rows[n].key # NULL /\ n \notin log'.stuck => node'[n].key \in {NULL, rows[n].key}
        /\ rows[n] # NULL /\ node'[n].wg0 # NULL /\ n \notin log'.stuck => node'[n].wg0.addr = rows[n].ip
    BY <1>7, <1>9
  <2> DEFINE q == [req[r] EXCEPT !.pc = "active"]
  <2>2. q \in MeshCall /\ q.pc = "active" /\ q.cur = n /\ q.left = req[r].left /\ q.snap = req[r].snap /\ q.op = req[r].op
        /\ q.core = req[r].core /\ q.at = c /\ q.after = req[r].after
    BY <1>1, <1>2, <1>4 DEF MeshCall, MeshSteps, PushSteps
  <2>3. req' = [req EXCEPT ![r] = q]
    BY <1>9, MeshTables DEF Goto
  <2> HIDE DEF q
  <2>4. req'[r] = q /\ (\A x \in Requests \ {r} : req'[x] = req[x]) /\ req' \in [Requests -> MeshCall]
    BY <2>2, <2>3, MeshTables
  <2>5. MeshTyped'
    BY <1>3, <1>9, <2>1, <2>4, MeshTables DEF MeshTyped, Answered
  <2>6. Carries(req[r])'
    BY <1>2, <1>4, <2>2, <2>4 DEF Carries, PushSteps
  <2>7. NodeOK(n)'
    BY <1>3, <1>5, <1>9, <2>1 DEF NodeOK
  <2>8. PushStep(r, n)
    BY <1>1, <1>2, <1>3, <1>9, <2>1, <2>2, <2>4 DEF PushStep, PushSteps
  <2>9. ASSUME c \notin log.unclean PROVE Pushed(req[r], c)'
    <3>1. Pushed(req[r], c) /\ \A m \in NodesOf(c) : rows[m] # NULL /\ rows[m] \in Row /\ m \in Nodes
      BY <1>4, <2>9, CoreFacts
    <3>2. OwnBlocks(c)' = OwnBlocks(c) /\ ExtBlocks(c)' = ExtBlocks(c) /\ \A m \in NodesOf(c) : Rendered(m)' = Rendered(m)
      BY <1>3, <1>9, <3>1, SameBlocks
    <3>3. \A m \in NodesOf(c) : rows'[m].key # NULL /\ (m \in log'.stuck \/ m \in q.left \/ m = q.cur \/ InOrder(m)')
      <4> SUFFICES ASSUME NEW m \in NodesOf(c)
                   PROVE  rows'[m].key # NULL /\ (m \in log'.stuck \/ m \in q.left \/ m = q.cur \/ InOrder(m)')
        OBVIOUS
      <4>1. rows[m].key # NULL /\ (m \in log.stuck \/ m \in req[r].left \/ m = n \/ InOrder(m))
        BY <1>2, <1>3, <3>1 DEF Pushed
      <4>2. m # n => (m \in log'.stuck <=> m \in log.stuck) /\ (InOrder(m)' <=> InOrder(m))
        BY <1>9, <2>1, <3>1, <3>2 DEF InOrder
      <4> QED BY <1>9, <2>2, <4>1, <4>2
    <3>4. n \notin log'.stuck => InOrder(n)'
      <4> SUFFICES ASSUME n \notin log'.stuck PROVE InOrder(n)'
        OBVIOUS
      <4>1. node[n].conf = Rendered(n) /\ node[n].key = rows[n].key
        BY <1>2, <1>3, <2>1, <3>1 DEF Pushed
      <4>2. op_up(n) \in Config /\ op_up(n).key = node[n].conf.key /\ op_up(n).peers = node[n].conf.peers /\ op_up(n) # NULL
            /\ node[n].conf \in Config
        BY <1>5, <1>9, UpFacts, MeshHost
      <4>3. op_up(n).addr = rows[n].ip /\ Rendered(n).addr = rows[n].ip
        BY <2>1, <3>1, <4>2 DEF Rendered
      <4>4. op_up(n) = node[n].conf
        BY <4>1, <4>2, <4>3 DEF Config
      <4> QED BY <1>9, <2>1, <3>2, <3>3, <4>1, <4>4 DEF InOrder
    <3>5. enabled'[c] /\ q.snap = OwnBlocks(c)' \cup ExtBlocks(c)'
      BY <1>3, <2>2, <3>1, <3>2 DEF Pushed
    <3> QED BY <2>2, <2>4, <3>3, <3>4, <3>5 DEF Pushed
  <2> QED BY <1>1, <2>2, <2>4, <2>5, <2>6, <2>7, <2>8, <2>9, PushKeeps DEF PushSteps
<1> QED BY <1>2, <1>6, <1>8, <1>9 DEF Up

LEMMA MarkActiveKeeps ==
  ASSUME MeshInv, NEW r \in Requests, MarkActive(r)
  PROVE  MeshInv'
<1>1. PICK c \in Cores : c = req[r].at
  BY MeshTables, MeshCallFacts
<1>2. PICK n \in NodesOf(c) : n = req[r].cur /\ n \in Nodes /\ CoreOf(n) = c
  BY <1>1, RunFinds, CoreFacts DEF MarkActive, PushSteps
<1>3. req[r].pc = "active" /\ enabled' = enabled /\ ext' = ext /\ node' = node /\ log' = log /\ events' = events /\ req[r].pc \in PushSteps
  BY DEF MarkActive, PushSteps
<1>4. /\ req[r] \in MeshCall /\ req[r].left \subseteq NodesOf(c) /\ NodesOf(c) \subseteq Nodes
      /\ req[r].left \subseteq {b.node : b \in req[r].snap}
      /\ c \notin log.unclean => Pushed(req[r], c) /\ \A m \in NodesOf(c) : rows[m] # NULL /\ rows[m] \in Row
  BY <1>1, <1>3, RunFinds
<1>5. NodeOK(n) /\ node[n] \in Host /\ log \in MeshLog /\ (rows[n] # NULL => rows[n] \in Row) /\ rows \in [Nodes -> Row \cup {NULL}]
  BY <1>2, MeshTables DEF MeshInv, NodesOK
<1>6. rows' = IF rows[n] = NULL THEN rows ELSE [rows EXCEPT ![n].status = "active"]
  BY <1>2 DEF MarkActive
<1>7. /\ rows' \in [Nodes -> Row \cup {NULL}] /\ \A m \in Nodes \ {n} : rows'[m] = rows[m]
      /\ rows'[n] = NULL <=> rows[n] = NULL
      /\ rows[n] # NULL => rows'[n].ip = rows[n].ip /\ rows'[n].key = rows[n].key
  <2>1. CASE rows[n] = NULL
    BY <1>5, <1>6, <2>1
  <2>2. CASE rows[n] # NULL
    <3> DEFINE row0 == [rows[n] EXCEPT !.status = "active"]
    <3>1. row0 \in Row /\ row0.ip = rows[n].ip /\ row0.key = rows[n].key /\ row0 # NULL
      BY <1>5, <2>2, NullFacts DEF Row
    <3>2. rows' = [rows EXCEPT ![n] = row0]
      BY <1>2, <1>5, <1>6, <2>2
    <3> HIDE DEF row0
    <3> QED BY <1>2, <1>5, <2>2, <3>1, <3>2
  <2> QED BY <2>1, <2>2
<1> DEFINE q == [req[r] EXCEPT !.pc = "write", !.cur = NULL]
<1>8. q \in MeshCall /\ q.pc = "write" /\ q.left = req[r].left /\ q.snap = req[r].snap /\ q.op = req[r].op
      /\ q.core = req[r].core /\ q.at = c /\ q.after = req[r].after
  BY <1>1, <1>4 DEF MeshCall, MeshSteps, PushSteps
<1>9. req' = [req EXCEPT ![r] = IF req[r].left = {} THEN Returned(req[r]) ELSE q]
  BY DEF MarkActive
<1> HIDE DEF q
<1>10. /\ req'[r] = (IF req[r].left = {} THEN Returned(req[r]) ELSE q)
       /\ (\A x \in Requests \ {r} : req'[x] = req[x]) /\ req' \in [Requests -> MeshCall]
  BY <1>4, <1>8, <1>9, ReturnedFacts, MeshTables
<1>11. MeshTyped'
  BY <1>3, <1>7, <1>10, MeshTables DEF MeshTyped
<1>12. Carries(req[r])'
  <2>1. CASE req[r].left = {}
    BY <1>4, <1>10, <2>1, ReturnedFacts
  <2>2. CASE req[r].left # {}
    BY <1>4, <1>8, <1>10, <2>2 DEF Carries, PushSteps
  <2> QED BY <2>1, <2>2
<1>13. NodeOK(n)'
  BY <1>2, <1>3, <1>4, <1>5, <1>7 DEF NodeOK
<1>14. PushStep(r, n)
  BY <1>1, <1>2, <1>3, <1>7, <1>8, <1>10 DEF PushStep, PushSteps
<1>15. ASSUME c \notin log.unclean
       PROVE  /\ Pushed(req[r], c) /\ OwnBlocks(c)' = OwnBlocks(c) /\ ExtBlocks(c)' = ExtBlocks(c)
              /\ \A m \in NodesOf(c) : /\ rows'[m].key # NULL /\ (InOrder(m)' <=> InOrder(m))
                                       /\ m \in log.stuck \/ m \in req[r].left \/ InOrder(m)'
  <2>1. Pushed(req[r], c) /\ \A m \in NodesOf(c) : rows[m] # NULL /\ rows[m] \in Row /\ m \in Nodes
    BY <1>4, <1>15
  <2>2. \A m \in NodesOf(c) : (rows'[m] = NULL <=> rows[m] = NULL) /\ (rows[m] # NULL => rows'[m].ip = rows[m].ip /\ rows'[m].key = rows[m].key)
    BY <1>4, <1>7
  <2>3. OwnBlocks(c)' = OwnBlocks(c) /\ ExtBlocks(c)' = ExtBlocks(c) /\ \A m \in NodesOf(c) : Rendered(m)' = Rendered(m)
    BY <1>3, <2>1, <2>2, SameBlocks
  <2>4. \A m \in NodesOf(c) : InOrder(m)' <=> InOrder(m)
    BY <1>3, <2>1, <2>2, <2>3 DEF InOrder
  <2>5. \A m \in NodesOf(c) : rows[m].key # NULL /\ (m \in log.stuck \/ m \in req[r].left \/ InOrder(m))
    BY <1>2, <1>3, <2>1 DEF Pushed
  <2> QED BY <2>1, <2>2, <2>3, <2>4, <2>5
<1>16. ASSUME c \notin log.unclean, req'[r].pc \in PushSteps PROVE Pushed(req[r], c)'
  <2>1. req'[r] = q
    BY <1>4, <1>10, <1>16, ReturnedFacts DEF PushSteps
  <2>2. enabled'[c] /\ q.snap = OwnBlocks(c)' \cup ExtBlocks(c)'
    BY <1>3, <1>8, <1>15, <1>16 DEF Pushed
  <2> QED BY <1>3, <1>8, <1>15, <1>16, <2>1, <2>2 DEF Pushed
<1>17. ASSUME c \notin log.unclean, req'[r].pc \notin PushSteps PROVE Kept(c)'
  <2>1. req[r].left = {}
    BY <1>8, <1>10, <1>17 DEF PushSteps
  <2> QED BY <1>3, <1>15, <1>17, <2>1 DEF Kept, Healthy
<1> QED BY <1>1, <1>11, <1>12, <1>13, <1>14, <1>16, <1>17, PushKeeps

LEMMA OverlapsAre ==
  ASSUME NEW r, NEW c
  PROVE  Overlaps(r, c) <=> ~Alone(r, c)
BY DEF Overlaps, Alone, Busy

\* A run that nobody else disturbs starts from the tables as they are.
LEMMA LoadFacts ==
  ASSUME MeshInv, NEW r \in Requests, NEW c \in Cores, c = req[r].at, LoadMesh(r)
  PROVE  /\ req \in [Requests -> MeshCall] /\ req' \in [Requests -> MeshCall] /\ \A x \in Requests \ {r} : req'[x] = req[x]
         /\ Carries(req'[r])
         /\ \/ req'[r] = Done /\ (~enabled[c] \/ NodesOf(c) = {})
            \/ /\ enabled[c] /\ req'[r].snap = OwnBlocks(c) \cup ExtBlocks(c) /\ req'[r].at = c
               /\ req'[r].op = req[r].op /\ req'[r].core = req[r].core /\ req'[r].after = req[r].after
               /\ \/ /\ req'[r].pc = "keys" /\ \E n \in NodesOf(c) : rows[n].key = NULL
                     /\ \A n \in NodesOf(c) : rows[n].key = NULL => n \in req'[r].left
                  \/ /\ req'[r].pc = "write"
                     /\ \A n \in NodesOf(c) : rows[n].key # NULL /\ n \in req'[r].left
<1> DEFINE own == OwnBlocks(c)
           unkeyed == {b.node : b \in {x \in own : x.key = NULL}}
           q0 == [req[r] EXCEPT !.snap = own \cup ExtBlocks(c), !.left = unkeyed]
<1>1. req[r] \in MeshCall /\ req \in [Requests -> MeshCall] /\ own \subseteq SnapBlock /\ ExtBlocks(c) \subseteq SnapBlock
      /\ NodesOf(c) \subseteq Nodes /\ \A b \in own : b.node \in NodesOf(c)
  BY MeshTables, BlocksAre, CoreFacts
<1>2. unkeyed \subseteq NodesOf(c)
  BY <1>1
<1>3. q0 \in MeshCall /\ q0.snap = own \cup ExtBlocks(c) /\ q0.left = unkeyed /\ q0.at = c /\ q0.op = req[r].op
      /\ q0.core = req[r].core /\ q0.after = req[r].after
  <2>1. unkeyed \subseteq Nodes /\ own \cup ExtBlocks(c) \subseteq SnapBlock
    BY <1>1, <1>2
  <2> HIDE DEF own, unkeyed
  <2> QED BY <1>1, <2>1 DEF MeshCall
<1>4. req' = IF enabled[c] /\ own # {} THEN [req EXCEPT ![r] = KeysOrFiles(q0)] ELSE [req EXCEPT ![r] = Done]
  BY DEF LoadMesh, End
<1>5. CASE ~(enabled[c] /\ own # {})
  <2>1. req'[r] = Done /\ req' \in [Requests -> MeshCall] /\ \A x \in Requests \ {r} : req'[x] = req[x]
    BY <1>1, <1>4, <1>5, IdleTyped
  <2>2. enabled[c] => NodesOf(c) = {}
    <3> SUFFICES ASSUME enabled[c], NEW n \in NodesOf(c) PROVE FALSE
      OBVIOUS
    <3>1. rows[n] # NULL
      BY RowsOfEnabled
    <3> QED BY <1>5, <3>1, BlocksAre
  <2> QED BY <1>1, <2>1, <2>2, IdleTyped
<1>6. CASE enabled[c] /\ own # {}
  <2>1. \A n \in NodesOf(c) : rows[n] # NULL
    BY <1>6, RowsOfEnabled
  <2>2. ASSUME NEW n \in NodesOf(c)
        PROVE  n \in {b.node : b \in own} /\ (rows[n].key = NULL => n \in unkeyed)
    <3> DEFINE b == [node |-> n, ip |-> rows[n].ip, key |-> rows[n].key]
    <3>1. b \in own /\ b.node = n /\ b.key = rows[n].key
      BY <2>1, BlocksAre
    <3> HIDE DEF b, own
    <3> QED BY <3>1
  <2>3. \A n \in unkeyed : rows[n].key = NULL /\ n \in NodesOf(c)
    BY BlocksAre
  <2> HIDE DEF own, unkeyed, q0
  <2>4. CASE unkeyed # {}
    <3>1. KeysOrFiles(q0) = [q0 EXCEPT !.pc = "keys", !.cur = NULL]
      BY <1>3, <2>4 DEF KeysOrFiles
    <3> DEFINE q == [q0 EXCEPT !.pc = "keys", !.cur = NULL]
    <3>2. q \in MeshCall /\ q.pc = "keys" /\ q.snap = own \cup ExtBlocks(c) /\ q.left = unkeyed /\ q.at = c /\ q.op = req[r].op
          /\ q.core = req[r].core /\ q.after = req[r].after
      BY <1>3 DEF MeshCall, MeshSteps, PushSteps
    <3>3. req' = [req EXCEPT ![r] = q]
      BY <1>4, <1>6, <3>1
    <3> HIDE DEF q
    <3>4. req'[r] = q /\ req' \in [Requests -> MeshCall] /\ \A x \in Requests \ {r} : req'[x] = req[x]
      BY <1>1, <3>2, <3>3
    <3>5. unkeyed \subseteq {b.node : b \in own}
      BY <2>2, <2>3
    <3>6. Carries(q)
      BY <1>2, <3>2, <3>5 DEF Carries, PushSteps
    <3> QED BY <1>1, <1>6, <2>2, <2>3, <2>4, <3>2, <3>4, <3>6 DEF own
  <2>5. CASE unkeyed = {}
    <3> DEFINE nodes == NodesOf(c) \cap {b.node : b \in own \cup ExtBlocks(c)}
               q == [q0 EXCEPT !.pc = "write", !.cur = NULL, !.left = nodes]
    <3>1. KeysOrFiles(q0) = q
      BY <1>3, <2>5 DEF KeysOrFiles
    <3>2. nodes = NodesOf(c) /\ nodes \subseteq {b.node : b \in own \cup ExtBlocks(c)} /\ nodes \subseteq Nodes
      BY <1>1, <2>2
    <3> HIDE DEF nodes
    <3>3. q \in MeshCall /\ q.pc = "write" /\ q.snap = own \cup ExtBlocks(c) /\ q.left = nodes /\ q.at = c /\ q.op = req[r].op
          /\ q.core = req[r].core /\ q.after = req[r].after
      BY <1>3, <3>2 DEF MeshCall, MeshSteps, PushSteps
    <3>4. req' = [req EXCEPT ![r] = q]
      BY <1>4, <1>6, <3>1
    <3> HIDE DEF q
    <3>5. req'[r] = q /\ req' \in [Requests -> MeshCall] /\ \A x \in Requests \ {r} : req'[x] = req[x]
      BY <1>1, <3>3, <3>4
    <3>6. Carries(q)
      BY <3>2, <3>3 DEF Carries, PushSteps
    <3> QED BY <1>1, <1>6, <2>2, <2>5, <3>2, <3>3, <3>5, <3>6 DEF own
  <2> QED BY <2>4, <2>5
<1> QED BY <1>5, <1>6

LEMMA LoadMeshKeeps ==
  ASSUME MeshInv, NEW r \in Requests, LoadMesh(r)
  PROVE  MeshInv'
<1>1. PICK c \in Cores : c = req[r].at
  BY MeshTables, MeshCallFacts
<1>2. req[r].pc = "load" /\ UNCHANGED <<enabled, rows, ext, node, events>> /\ Busy(r)
      /\ log' = [log EXCEPT !.unclean = IF Overlaps(r, c) THEN @ \cup {c} ELSE @ \ {c}]
  BY <1>1 DEF LoadMesh, tables, Busy
<1>3. /\ log' \in MeshLog /\ log'.stuck = log.stuck /\ log'.pairing = log.pairing
      /\ log.unclean \ {c} \subseteq log'.unclean /\ (c \notin log'.unclean => Alone(r, c))
      /\ (Alone(r, c) => log'.unclean = log.unclean \ {c})
  BY <1>1, <1>2, OverlapsAre, MeshTables DEF MeshLog
<1> DEFINE Fresh == /\ enabled[c] /\ req'[r].snap = OwnBlocks(c) \cup ExtBlocks(c) /\ req'[r].at = c
                    /\ req'[r].op = req[r].op /\ req'[r].core = req[r].core /\ req'[r].after = req[r].after
                    /\ \/ /\ req'[r].pc = "keys" /\ \E n \in NodesOf(c) : rows[n].key = NULL
                          /\ \A n \in NodesOf(c) : rows[n].key = NULL => n \in req'[r].left
                       \/ /\ req'[r].pc = "write"
                          /\ \A n \in NodesOf(c) : rows[n].key # NULL /\ n \in req'[r].left
<1>4. /\ req' \in [Requests -> MeshCall] /\ (\A x \in Requests \ {r} : req'[x] = req[x]) /\ Carries(req'[r])
      /\ (req'[r] = Done /\ (~enabled[c] \/ NodesOf(c) = {})) \/ Fresh
  BY <1>1, LoadFacts
<1>5. \A n \in NodesOf(c) : NodeOK(n)'
  <2>1. \A n \in NodesOf(c) : NodeOK(n)
    BY CoreFacts DEF MeshInv, NodesOK
  <2> QED BY <1>2, <1>3, <2>1 DEF NodeOK
<1>6. MeshTyped'
  BY <1>2, <1>3, <1>4, MeshTables DEF MeshTyped
<1>7. Touches(r, c)
  BY <1>1, <1>2, <1>3, <1>4, IdleTyped DEF Touches, PushSteps
<1>8. OwnBlocks(c)' = OwnBlocks(c) /\ ExtBlocks(c)' = ExtBlocks(c)
  BY <1>2 DEF OwnBlocks, ExtBlocks
<1>9. Kept(c)'
  BY <1>2, <1>4 DEF Kept, Idling, Busy, PushSteps
<1>10. req'[r].pc \in PushSteps /\ c \notin log'.unclean => Pushed(req[r], c)'
  BY <1>2, <1>4, <1>8, IdleTyped DEF Pushed, PushSteps
<1>11. PairingOK'
  <2>1. CASE log.pairing # "alone"
    BY <1>2, <1>3, <1>4, <2>1, PairGoesOn
  <2>2. CASE log.pairing = "alone"
    <3>1. Pairs(req[r]) /\ \A x \in Requests : Busy(x) => x = r
      BY <1>2, <2>2 DEF MeshInv, PairingOK
    <3>2. Alone(r, c)
      BY <3>1 DEF Alone
    <3>3. log'.unclean = log.unclean \ {c}
      BY <1>3, <3>2
    <3>4. req[r].after \in {"respond", "paired"} /\ req[r].at = (IF req[r].after = "respond" THEN Other(req[r].core) ELSE req[r].core)
          /\ Joined(req[r].core)
      BY <1>2, <3>1 DEF Pairs
    <3>5. req[r].after = "paired" => req'[r].pc \notin {"keys", "generate", "persist"}
      BY <1>1, <1>4, <3>4, IdleTyped DEF Joined
    <3>6. log'.unclean \subseteq log.unclean /\ c \notin log'.unclean
      BY <3>3
    <3>7. req'[r].pc \notin {"new", "done"} =>
           /\ req'[r].op = req[r].op /\ req'[r].core = req[r].core /\ req'[r].at = req[r].at /\ req'[r].after = req[r].after
           /\ req'[r].pc \in PushSteps \cup {req[r].after}
           /\ req'[r].at \notin log'.unclean
      BY <1>1, <1>4, <3>6, IdleTyped DEF PushSteps
    <3> QED BY <1>1, <1>2, <1>3, <1>4, <3>5, <3>6, <3>7, PairRun
  <2> QED BY <2>1, <2>2
<1> QED BY <1>4, <1>5, <1>6, <1>7, <1>9, <1>10, <1>11, MeshKeeps

-----------------------------------------------------------------------------
(* Mesh: requests that come, and those that read only.                       *)

\* The tables and the nodes are what they were.
TablesSame == enabled' = enabled /\ rows' = rows /\ ext' = ext /\ node' = node /\ log'.stuck = log.stuck

LEMMA SameTables ==
  ASSUME MeshInv, NEW c \in Cores, TablesSame
  PROVE  /\ \A n \in NodesOf(c) : NodeOK(n)' /\ (InOrder(n)' <=> InOrder(n))
         /\ OwnBlocks(c)' = OwnBlocks(c) /\ ExtBlocks(c)' = ExtBlocks(c)
         /\ (Healthy(c)' <=> Healthy(c))
<1>1. \A n \in NodesOf(c) : NodeOK(n)
  BY CoreFacts DEF MeshInv, NodesOK
<1>2. \A n \in NodesOf(c) : NodeOK(n)'
  BY <1>1 DEF NodeOK, TablesSame
<1>3. \A d : OwnBlocks(d)' = OwnBlocks(d) /\ ExtBlocks(d)' = ExtBlocks(d)
  BY DEF OwnBlocks, ExtBlocks, TablesSame
<1>4. \A n : Rendered(n)' = Rendered(n)
  BY <1>3 DEF Rendered, TablesSame
<1>5. \A n \in NodesOf(c) : InOrder(n)' <=> InOrder(n)
  BY <1>4 DEF InOrder, TablesSame
<1>6. Healthy(c)' <=> Healthy(c)
  BY DEF Healthy, TablesSame
<1> QED BY <1>2, <1>3, <1>5, <1>6

\* A step of r that only tells where r is.
LEMMA OnlyMoves ==
  ASSUME MeshInv, NEW r \in Requests, NEW c \in Cores, NEW q \in MeshCall, TablesSame,
         req' = [req EXCEPT ![r] = q], events' \in 0 .. MaxEvents, log' \in MeshLog,
         log.unclean \subseteq log'.unclean, c \notin log'.unclean => Alone(r, c),
         Carries(q), q.pc \notin PushSteps, q.pc = "done" \/ q.at = c,
         Busy(r) => req[r].pc \notin PushSteps \cup {"load", "down"},
         PairingOK'
  PROVE  MeshInv'
<1>1. req'[r] = q /\ (\A x \in Requests \ {r} : req'[x] = req[x]) /\ req' \in [Requests -> MeshCall]
  BY MeshTables
<1>2. MeshTyped'
  BY <1>1, MeshTables DEF MeshTyped, TablesSame
<1>3. Touches(r, c)
  BY <1>1 DEF Touches, TablesSame
<1>4. \A n \in NodesOf(c) : NodeOK(n)' /\ (InOrder(n)' <=> InOrder(n))
  BY SameTables
<1>5. Kept(c)'
  <2> SUFFICES ASSUME enabled'[c], c \notin log'.unclean, Idling(c)', Healthy(c)'
               PROVE  \A n \in NodesOf(c) : InOrder(n)
    BY <1>4 DEF Kept
  <2>1. Healthy(c) /\ enabled[c] /\ c \notin log.unclean
    BY SameTables DEF TablesSame
  <2>2. Idling(c)
    BY <1>1 DEF Idling, Busy
  <2> QED BY <2>1, <2>2 DEF MeshInv, KeptOK, Kept
<1>6. Carries(req[r])'
  BY <1>1
<1>7. req'[r].pc \notin PushSteps
  BY <1>1
<1> QED BY <1>2, <1>3, <1>4, <1>5, <1>6, <1>7, MeshKeeps

LEMMA ConfigureKeeps ==
  ASSUME MeshInv, NEW r \in Requests, NEW c \in Cores, Configure(r, c)
  PROVE  MeshInv'
<1> DEFINE q == [Idle EXCEPT !.op = "configure", !.pc = "load", !.core = c, !.at = c]
<1>1. q \in MeshCall /\ q.pc = "load" /\ q.at = c
  BY IdleTyped DEF MeshCall, MeshOps, MeshSteps
<1>2. Carries(q)
  BY <1>1 DEF Carries, PushSteps
<1>3. req[r].pc = "new" /\ req' = [req EXCEPT ![r] = q] /\ TablesSame /\ events' \in 0 .. MaxEvents /\ ~Busy(r)
  BY MeshTables DEF Configure, Arrives, Disturbs, TablesSame, tables, Busy, MeshLog
<1>4. log' \in MeshLog /\ log'.pairing = "no" /\ log.unclean \subseteq log'.unclean /\ (c \notin log'.unclean => Alone(r, c))
  BY OverlapsAre, MeshTables DEF Configure, Disturbs, MeshLog
<1>5. PairingOK'
  BY <1>4, PairNo
<1> HIDE DEF q
<1> QED BY <1>1, <1>2, <1>3, <1>4, <1>5, OnlyMoves DEF PushSteps

LEMMA DisableKeeps ==
  ASSUME MeshInv, NEW r \in Requests, NEW c \in Cores, NEW op \in {"disable", "uninstall"}, Disable(r, c, op)
  PROVE  MeshInv'
<1> DEFINE nodes == {b.node : b \in OwnBlocks(c)}
           q == [Idle EXCEPT !.op = op, !.pc = "down", !.core = c, !.at = c, !.left = nodes, !.snap = OwnBlocks(c)]
<1>1. nodes \subseteq NodesOf(c) /\ nodes \subseteq Nodes /\ OwnBlocks(c) \subseteq SnapBlock
  BY BlocksAre, CoreFacts
<1>2. req[r].pc = "new" /\ req' = [req EXCEPT ![r] = q] /\ TablesSame /\ events' \in 0 .. MaxEvents /\ ~Busy(r)
  BY MeshTables DEF Disable, Arrives, Disturbs, TablesSame, tables, Busy, MeshLog
<1>3. nodes = {b.node : b \in OwnBlocks(c)}
  OBVIOUS
<1> HIDE DEF nodes
<1>4. q \in MeshCall /\ q.pc = "down" /\ q.at = c /\ q.left = nodes /\ q.snap = OwnBlocks(c)
  BY <1>1, IdleTyped DEF MeshCall, MeshOps, MeshSteps
<1>5. Carries(q)
  BY <1>1, <1>3, <1>4 DEF Carries, PushSteps
<1>6. log' \in MeshLog /\ log'.pairing = "no" /\ log.unclean \subseteq log'.unclean /\ (c \notin log'.unclean => Alone(r, c))
  BY OverlapsAre, MeshTables DEF Disable, Disturbs, MeshLog
<1>7. PairingOK'
  BY <1>6, PairNo
<1> HIDE DEF q
<1> QED BY <1>2, <1>4, <1>5, <1>6, <1>7, OnlyMoves DEF PushSteps

LEMMA UnpairKeeps ==
  ASSUME MeshInv, NEW r \in Requests, NEW c \in Cores, Unpair(r, c)
  PROVE  MeshInv'
<1>1. PICK heard \in BOOLEAN :
        /\ IF heard THEN Answered ELSE Lost
        /\ req' = [req EXCEPT ![r] = [Idle EXCEPT !.op = "unpair", !.core = c, !.at = IF heard THEN Other(c) ELSE c,
                                                  !.pc = IF heard THEN "teardown" ELSE "forget"]]
        /\ log' = [log EXCEPT !.pairing = "no", !.unclean = @ \cup {d \in IF heard THEN Cores ELSE {c} : Overlaps(r, d)}]
  BY DEF Unpair
<1>2. PICK d \in Cores : d = IF heard THEN Other(c) ELSE c
  BY CoreFacts
<1>3. PICK pc \in {"teardown", "forget"} : pc = IF heard THEN "teardown" ELSE "forget"
  OBVIOUS
<1> DEFINE q == [Idle EXCEPT !.op = "unpair", !.core = c, !.at = d, !.pc = pc]
<1>4. req' = [req EXCEPT ![r] = q]
  BY <1>1, <1>2, <1>3
<1>5. q \in MeshCall /\ q.pc = pc /\ q.at = d
  BY IdleTyped DEF MeshCall, MeshOps, MeshSteps
<1>6. Carries(q)
  BY <1>5 DEF Carries, PushSteps
<1>7. req[r].pc = "new" /\ TablesSame /\ events' \in 0 .. MaxEvents /\ ~Busy(r)
  <2>1. events' \in 0 .. MaxEvents
    BY <1>1, MeshTables, MeshConstants DEF Answered, Lost
  <2>2. log'.stuck = log.stuck
    BY <1>1, MeshTables DEF MeshLog
  <2> QED BY <2>1, <2>2 DEF Unpair, Arrives, TablesSame, tables, Busy
<1>8. log' \in MeshLog /\ log'.pairing = "no" /\ log.unclean \subseteq log'.unclean
  BY <1>1, MeshTables DEF MeshLog
<1>9. d \notin log'.unclean => Alone(r, d)
  <2>1. Overlaps(r, d) => d \in log'.unclean
    BY <1>1, <1>2, MeshTables DEF MeshLog
  <2> QED BY <2>1, OverlapsAre
<1>10. PairingOK'
  BY <1>8, PairNo
<1> HIDE DEF q
<1> QED BY <1>4, <1>5, <1>6, <1>7, <1>8, <1>9, <1>10, OnlyMoves DEF PushSteps

LEMMA PairKeeps ==
  ASSUME MeshInv, NEW r \in Requests, NEW c \in Cores, Pair(r, c)
  PROVE  MeshInv'
<1> DEFINE snap == OwnBlocks(c) \cup ExtBlocks(c)
           q == [Idle EXCEPT !.op = "pair", !.pc = "describe", !.core = c, !.at = c, !.snap = snap]
<1>1. snap \subseteq SnapBlock
  BY BlocksAre
<1>2. req[r].pc = "new" /\ req' = [req EXCEPT ![r] = q] /\ TablesSame /\ events' \in 0 .. MaxEvents /\ ~Busy(r)
  BY MeshTables DEF Pair, Arrives, TablesSame, tables, Busy, MeshLog
<1>3. \A n \in NodesOf(c) : rows[n] # NULL /\ rows[n].key # NULL
  BY DEF Pair, AllKeyed
<1>4. NodesOf(c) \subseteq {b.node : b \in snap}
  <2> SUFFICES ASSUME NEW n \in NodesOf(c) PROVE n \in {b.node : b \in snap}
    OBVIOUS
  <2> DEFINE own == [node |-> n, ip |-> rows[n].ip, key |-> rows[n].key]
  <2>1. own \in snap /\ own.node = n
    BY <1>3, BlocksAre
  <2> HIDE DEF own, snap
  <2> QED BY <2>1
<1>5. \A b \in snap : b.node \in NodesOf(c) => b.key # NULL
  BY <1>3, BlocksAre
<1>6. snap = OwnBlocks(c) \cup ExtBlocks(c)
  OBVIOUS
<1> HIDE DEF snap
<1>7. q \in MeshCall /\ q.op = "pair" /\ q.pc = "describe" /\ q.at = c /\ q.core = c /\ q.snap = snap
  BY <1>1, IdleTyped DEF MeshCall, MeshOps, MeshSteps
<1>8. Carries(q)
  BY <1>4, <1>5, <1>7 DEF Carries, PushSteps
<1>9. log' \in MeshLog /\ log.unclean \subseteq log'.unclean /\ (c \notin log'.unclean => Alone(r, c))
      /\ log'.pairing = IF \E d \in Cores : Overlaps(r, d) THEN "no" ELSE "alone"
  BY OverlapsAre, MeshTables DEF Pair, MeshLog
<1> HIDE DEF q
<1>10. req'[r] = q /\ \A x \in Requests \ {r} : req'[x] = req[x]
  BY <1>2, <1>7, MeshTables
<1>11. PairingOK'
  <2>1. CASE \E d \in Cores : Overlaps(r, d)
    BY <1>9, <2>1, PairNo
  <2>2. CASE ~\E d \in Cores : Overlaps(r, d)
    <3>1. \A x \in Requests \ {r} : ~Busy(x)
      <4> SUFFICES ASSUME NEW x \in Requests \ {r}, Busy(x) PROVE FALSE
        OBVIOUS
      <4>1. req[x].at \in Cores
        BY MeshTables, MeshCallFacts
      <4> QED BY <2>2, <4>1 DEF Overlaps, Busy
    <3>2. req'[r].snap = OwnBlocks(c)' \cup ExtBlocks(c)' /\ req'[r].core = c /\ rows' = rows
      <4>1. OwnBlocks(c)' = OwnBlocks(c) /\ ExtBlocks(c)' = ExtBlocks(c) /\ rows' = rows
        BY <1>2, SameTables DEF TablesSame
      <4> QED BY <1>6, <1>7, <1>10, <4>1
    <3>3. Told(req[r])'
      BY <1>3, <3>2 DEF Told
    <3>4. Pairs(req[r])'
      BY <1>7, <1>10, <3>3 DEF Pairs, PushSteps
    <3>5. log'.pairing = "alone"
      BY <1>9, <2>2
    <3>6. \A x \in Requests : req'[x].pc \notin {"new", "done"} => x = r
      BY <1>10, <3>1 DEF Busy
    <3> QED BY <3>4, <3>5, <3>6 DEF PairingOK, PairedMeshIsWhole, Busy
  <2> QED BY <2>1, <2>2
<1> QED BY <1>2, <1>7, <1>8, <1>9, <1>11, OnlyMoves DEF PushSteps

LEMMA DescribeKeeps ==
  ASSUME MeshInv, NEW r \in Requests, Describe(r)
  PROVE  MeshInv'
<1>1. PICK c \in Cores : c = req[r].core /\ req[r] \in MeshCall /\ Carries(req[r])
  BY MeshTables, MeshCallFacts
<1>2. PICK d \in Cores : d = Other(c)
  BY CoreFacts
<1>3. req[r].pc = "describe" /\ UNCHANGED <<enabled, rows, ext, node, events>> /\ Busy(r)
      /\ log' = [log EXCEPT !.unclean = IF Overlaps(r, d) THEN @ \cup Cores ELSE @]
      /\ req' = IF enabled[d] THEN [req EXCEPT ![r] = Done] ELSE [req EXCEPT ![r].pc = "propose", ![r].at = d]
  BY <1>1, <1>2 DEF Describe, tables, Busy, End
<1>4. log' \in MeshLog /\ log'.stuck = log.stuck /\ log'.pairing = log.pairing /\ log.unclean \subseteq log'.unclean
      /\ (d \notin log'.unclean => Alone(r, d))
  BY <1>3, OverlapsAre, MeshTables DEF MeshLog
<1> DEFINE q0 == [req[r] EXCEPT !.pc = "propose", !.at = d]
<1>5. q0 \in MeshCall /\ q0.pc = "propose" /\ q0.at = d /\ q0.core = c /\ q0.op = req[r].op /\ q0.snap = req[r].snap
  BY <1>1 DEF MeshCall, MeshSteps
<1>6. Carries(q0)
  BY <1>1, <1>2, <1>3, <1>5 DEF Carries, PushSteps
<1>7. enabled[d] \/ req' = [req EXCEPT ![r] = q0]
  BY <1>3, MeshTables
<1> HIDE DEF q0
<1>8. PICK q \in MeshCall : (q = Done \/ q = q0) /\ req' = [req EXCEPT ![r] = q]
  BY <1>3, <1>5, <1>7, IdleTyped
<1>9. req'[r] = q /\ (\A x \in Requests \ {r} : req'[x] = req[x])
  BY <1>8, MeshTables
<1>10. TablesSame
  BY <1>3, <1>4 DEF TablesSame
<1>11. PairingOK'
  <2>1. ASSUME Pairs(req[r]), q = q0 PROVE Pairs(req[r])'
    <3>1. Told(req[r]) /\ req[r].op = "pair"
      BY <1>3, <2>1 DEF Pairs
    <3>2. OwnBlocks(c)' = OwnBlocks(c) /\ ExtBlocks(c)' = ExtBlocks(c) /\ rows' = rows
      BY <1>10, SameTables DEF TablesSame
    <3>3. Told(req[r])'
      BY <1>1, <1>5, <1>9, <2>1, <3>1, <3>2 DEF Told
    <3> QED BY <1>5, <1>9, <2>1, <3>1, <3>3 DEF Pairs, PushSteps
  <2> QED BY <1>3, <1>4, <1>8, <1>9, <2>1, IdleTyped, PairGoesOn
<1>12. Carries(q) /\ q.pc \notin PushSteps /\ (q.pc = "done" \/ q.at = d)
  BY <1>5, <1>6, <1>8, IdleTyped DEF PushSteps
<1>13. Busy(r) => req[r].pc \notin PushSteps \cup {"load", "down"}
  BY <1>3 DEF PushSteps
<1>14. events' \in 0 .. MaxEvents
  BY <1>3, MeshTables
<1> QED BY <1>4, <1>8, <1>10, <1>11, <1>12, <1>13, <1>14, OnlyMoves

-----------------------------------------------------------------------------
(* Mesh: steps that change the tables.                                       *)

\* Rows with fresh addresses: every node has one of its own, and an interface that is up is stuck.
GetsRows(c, f) ==
  /\ rows' = [n \in Nodes |-> IF n \in NodesOf(c) THEN NewRow(f[n]) ELSE rows[n]]
  /\ enabled' = [enabled EXCEPT ![c] = TRUE] /\ node' = node /\ log'.stuck = log.stuck \cup Outlived(c)

LEMMA NewRowsKeep ==
  ASSUME MeshInv, NEW c \in Cores, NEW used, NEW f \in Allocations(NodesOf(c), used), GetsRows(c, f)
  PROVE  /\ rows' \in [Nodes -> Row \cup {NULL}] /\ enabled' \in [Cores -> BOOLEAN] /\ log'.stuck \subseteq Nodes
         /\ enabled'[c] /\ enabled'[Other(c)] = enabled[Other(c)]
         /\ \A n \in NodesOf(c) : NodeOK(n)' /\ rows'[n] # NULL /\ rows'[n].ip = f[n] /\ f[n] \in Addresses \ used
         /\ \A n \in NodesOf(Other(c)) : rows'[n] = rows[n] /\ (n \in log'.stuck <=> n \in log.stuck)
<1> USE DEF GetsRows
<1>1. /\ NodesOf(c) \subseteq Nodes /\ Other(c) \in Cores /\ Other(c) # c /\ enabled \in [Cores -> BOOLEAN]
      /\ rows \in [Nodes -> Row \cup {NULL}] /\ log.stuck \subseteq Nodes
      /\ \A n \in NodesOf(c) : CoreOf(n) = c /\ n \notin NodesOf(Other(c))
      /\ NodesOf(Other(c)) \subseteq Nodes
  BY CoreFacts, MeshTables DEF MeshLog
<1>2. f \in [NodesOf(c) -> Addresses \ used] /\ \A m, n \in NodesOf(c) : m # n => f[m] # f[n]
  BY DEF Allocations
<1>3. \A n \in NodesOf(c) : /\ f[n] \in Addresses \ used /\ NewRow(f[n]) \in Row /\ NewRow(f[n]) # NULL
                            /\ NewRow(f[n]).ip = f[n] /\ NewRow(f[n]).key = NULL
  BY <1>2, NullFacts DEF NewRow, Row
<1>4. \A n \in NodesOf(c) : rows'[n] = NewRow(f[n])
  BY <1>1
<1>5. \A n \in NodesOf(Other(c)) : rows'[n] = rows[n]
  BY <1>1, CoreFacts
<1>6. \A n \in NodesOf(c) : rows'[n] # NULL /\ rows'[n].ip = f[n] /\ rows'[n].key = NULL
  BY <1>3, <1>4
<1>7. rows' \in [Nodes -> Row \cup {NULL}]
  BY <1>1, <1>3
<1>8. enabled'[c] /\ enabled'[Other(c)] = enabled[Other(c)] /\ enabled' \in [Cores -> BOOLEAN]
  BY <1>1
<1>9. Outlived(c) \subseteq NodesOf(c) /\ \A n \in NodesOf(c) : node'[n].wg0 # NULL => n \in log'.stuck
  BY DEF Outlived
<1>10. ASSUME NEW n \in NodesOf(c) PROVE NodeOK(n)'
  <2>1. \A m \in NodesOf(c) \ {n} : rows'[m].ip # rows'[n].ip
    <3>1. \A m \in NodesOf(c) \ {n} : f[m] # f[n]
      BY <1>2
    <3> QED BY <1>6, <3>1
  <2>2. CoreOf(n) = c /\ rows'[n] # NULL /\ rows'[n].key = NULL /\ enabled'[c] /\ (node'[n].wg0 # NULL => n \in log'.stuck)
    BY <1>1, <1>6, <1>8, <1>9
  <2> QED BY <2>1, <2>2 DEF NodeOK
<1>11. log'.stuck \subseteq Nodes /\ \A n \in NodesOf(Other(c)) : n \in log'.stuck <=> n \in log.stuck
  BY <1>1, <1>9, CoreFacts
<1> QED BY <1>3, <1>5, <1>6, <1>7, <1>8, <1>10, <1>11

LEMMA EnableKeeps ==
  ASSUME MeshInv, NEW r \in Requests, NEW c \in Cores, Enable(r, c)
  PROVE  MeshInv'
<1>0. PICK used : used = OwnAddresses(c)
  OBVIOUS
<1>1. PICK f \in Allocations(NodesOf(c), used) :
        rows' = [n \in Nodes |-> IF n \in NodesOf(c) THEN NewRow(f[n]) ELSE rows[n]]
  BY <1>0 DEF Enable
<1>2. /\ req[r].pc = "new" /\ enabled' = [enabled EXCEPT ![c] = TRUE] /\ req' = [req EXCEPT ![r] = Done]
      /\ UNCHANGED <<ext, node, events>>
  BY DEF Enable, Arrives, End
<1>3. /\ log' \in MeshLog /\ log'.pairing = "no" /\ log.unclean \subseteq log'.unclean /\ (c \notin log'.unclean => Alone(r, c))
      /\ log'.stuck = log.stuck \cup Outlived(c)
  <2>1. log' = [log EXCEPT !.pairing = "no", !.unclean = IF Overlaps(r, c) THEN @ \cup {c} ELSE @, !.stuck = @ \cup Outlived(c)]
    BY DEF Enable
  <2>2. Outlived(c) \subseteq Nodes
    BY CoreFacts DEF Outlived
  <2> QED BY <2>1, <2>2, OverlapsAre, MeshTables DEF MeshLog
<1>4. /\ rows' \in [Nodes -> Row \cup {NULL}] /\ enabled' \in [Cores -> BOOLEAN]
      /\ enabled'[Other(c)] = enabled[Other(c)] /\ (\A n \in NodesOf(c) : NodeOK(n)')
      /\ \A n \in NodesOf(Other(c)) : rows'[n] = rows[n] /\ (n \in log'.stuck <=> n \in log.stuck)
  <2>1. GetsRows(c, f)
    BY <1>1, <1>2, <1>3 DEF GetsRows
  <2> QED BY <1>1, <2>1, NewRowsKeep
<1>5. req'[r] = Done /\ (\A x \in Requests \ {r} : req'[x] = req[x]) /\ req' \in [Requests -> MeshCall]
  BY <1>2, IdleTyped, MeshTables
<1>6. MeshTyped'
  BY <1>2, <1>3, <1>4, <1>5, MeshTables DEF MeshTyped
<1>7. Touches(r, c)
  BY <1>2, <1>3, <1>4, <1>5, IdleTyped DEF Touches, Busy, PushSteps
<1>8. Kept(c)'
  <2>1. \A n \in NodesOf(c) : rows'[n].status = "pending"
    BY <1>1, CoreFacts DEF NewRow
  <2> QED BY <2>1 DEF Kept, Healthy
<1>9. Carries(req[r])' /\ req'[r].pc \notin PushSteps
  BY <1>5, IdleTyped DEF PushSteps
<1>10. PairingOK'
  BY <1>3, PairNo
<1> QED BY <1>4, <1>6, <1>7, <1>8, <1>9, <1>10, MeshKeeps

\* A proposal carries each node of the core that asks once, with the address and the key of its row.
LEMMA TheirsAre ==
  ASSUME MeshInv, NEW q \in MeshCall, NEW c \in Cores, c = q.core, NEW n \in NodesOf(c), Told(q)
  PROVE  LET b == CHOOSE x \in {y \in q.snap : y.node \in NodesOf(c)} : x.node = n
         IN  b.ip = rows[n].ip /\ b.key = rows[n].key /\ b.ip \in {y.ip : y \in q.snap}
<1> DEFINE theirs == {y \in q.snap : y.node \in NodesOf(c)}
           own == [node |-> n, ip |-> rows[n].ip, key |-> rows[n].key]
<1>1. q.snap = OwnBlocks(c) \cup ExtBlocks(c) /\ rows[n] # NULL
  BY DEF Told
<1>2. own \in theirs /\ own.node = n
  BY <1>1, BlocksAre
<1>3. theirs \subseteq OwnBlocks(c)
  BY <1>1, BlocksAre
<1>4. theirs \subseteq q.snap
  OBVIOUS
<1> HIDE DEF theirs, own
<1>5. \E x \in theirs : x.node = n
  BY <1>2
<1>6. PICK b \in theirs : b = (CHOOSE x \in theirs : x.node = n) /\ b.node = n
  BY <1>5
<1>7. b.ip = rows[n].ip /\ b.key = rows[n].key
  BY <1>3, <1>6, BlocksAre
<1>8. b.ip \in {y.ip : y \in q.snap}
  BY <1>4
<1> QED BY <1>6, <1>7, <1>8 DEF theirs

LEMMA ProposeKeeps ==
  ASSUME MeshInv, NEW r \in Requests, Propose(r)
  PROVE  MeshInv'
<1>1. PICK c \in Cores : c = req[r].core /\ req[r] \in MeshCall /\ Carries(req[r])
  BY MeshTables, MeshCallFacts
<1>2. PICK d \in Cores : d = Other(c) /\ Other(d) = c
  BY CoreFacts
<1>3. req[r].pc = "propose" /\ UNCHANGED <<node, events>> /\ Busy(r) /\ req[r].at = d
  BY <1>1, <1>2 DEF Propose, Busy, Carries
<1>4. d \notin log.unclean => Alone(r, d)
  BY <1>3 DEF MeshInv, AloneOK
<1> DEFINE theirs == {b \in req[r].snap : b.node \in NodesOf(c)}
           place(n) == LET b == CHOOSE x \in theirs : x.node = n IN [ip |-> b.ip, key |-> b.key]
<1>5. CASE req' = [req EXCEPT ![r] = Done] /\ UNCHANGED <<enabled, rows, ext, log>>
  <2>1. TablesSame
    BY <1>3, <1>5 DEF TablesSame
  <2>2. PairingOK'
    <3>1. req'[r].pc = "done" /\ \A x \in Requests \ {r} : req'[x] = req[x]
      BY <1>5, IdleTyped, MeshTables
    <3> QED BY <1>3, <1>5, <3>1, PairGoesOn
  <2> QED BY <1>3, <1>4, <1>5, <2>1, <2>2, IdleTyped, MeshTables, OnlyMoves DEF PushSteps
<1>6. ASSUME enabled' = [enabled EXCEPT ![d] = TRUE],
             NEW f \in Allocations(NodesOf(d), PlanUses(r)),
             rows' = [n \in Nodes |-> IF n \in NodesOf(d) THEN NewRow(f[n]) ELSE rows[n]],
             ext' = [n \in Nodes |-> IF n \notin NodesOf(c) THEN ext[n] ELSE place(n)],
             req' = [req EXCEPT ![r].pc = "load", ![r].after = "respond", ![r].snap = {}],
             log' = [log EXCEPT !.stuck = @ \cup Outlived(d)]
      PROVE  MeshInv'
  <2> DEFINE q == [req[r] EXCEPT !.pc = "load", !.after = "respond", !.snap = {}]
  <2>1. q \in MeshCall /\ q.pc = "load" /\ q.after = "respond" /\ q.at = d /\ q.core = c /\ q.op = req[r].op
    BY <1>1, <1>3 DEF MeshCall, MeshSteps
  <2>2. req' = [req EXCEPT ![r] = q]
    BY <1>6, MeshTables
  <2> HIDE DEF q
  <2>3. req'[r] = q /\ (\A x \in Requests \ {r} : req'[x] = req[x]) /\ req' \in [Requests -> MeshCall]
    BY <2>1, <2>2, MeshTables
  <2>4. log' \in MeshLog /\ log'.pairing = log.pairing /\ log'.unclean = log.unclean /\ log'.stuck = log.stuck \cup Outlived(d)
    <3>1. Outlived(d) \subseteq Nodes
      BY CoreFacts DEF Outlived
    <3> QED BY <1>6, <3>1, MeshTables DEF MeshLog
  <2>5. /\ rows' \in [Nodes -> Row \cup {NULL}] /\ enabled' \in [Cores -> BOOLEAN]
        /\ enabled'[c] = enabled[c]
        /\ (\A n \in NodesOf(d) : NodeOK(n)' /\ rows'[n] # NULL /\ rows'[n].ip = f[n] /\ f[n] \notin PlanUses(r))
        /\ \A n \in NodesOf(c) : rows'[n] = rows[n] /\ (n \in log'.stuck <=> n \in log.stuck)
    <3>1. PICK used : used = PlanUses(r)
      OBVIOUS
    <3>2. f \in Allocations(NodesOf(d), used) /\ node' = node /\ log'.stuck = log.stuck \cup Outlived(d)
      BY <1>3, <2>4, <3>1
    <3>3. GetsRows(d, f)
      BY <1>6, <3>2 DEF GetsRows
    <3> HIDE DEF place
    <3> QED BY <1>2, <3>1, <3>2, <3>3, NewRowsKeep
  <2>6. ASSUME NEW n \in NodesOf(c) PROVE place(n) \in External
    <3>1. theirs \subseteq SnapBlock /\ \A b \in theirs : b.key # NULL
      BY <1>1, <1>3, MeshCallFacts DEF Carries
    <3>2. \E b \in theirs : b.node = n
      <4>1. n \in {b.node : b \in req[r].snap}
        BY <1>1, <1>3 DEF Carries
      <4> QED BY <4>1
    <3> HIDE DEF theirs
    <3>3. PICK b \in theirs : b = CHOOSE x \in theirs : x.node = n
      BY <3>2
    <3>4. [ip |-> b.ip, key |-> b.key] \in External
      BY <3>1 DEF SnapBlock, External
    <3> QED BY <3>3, <3>4
  <2>7. ext' \in [Nodes -> External \cup {NULL}]
    <3> HIDE DEF place
    <3> QED BY <1>6, <2>6, MeshTables
  <2>8. /\ \A n \in NodesOf(d) : ext'[n] = ext[n]
        /\ \A n \in NodesOf(c) : ext'[n] = place(n)
    <3> HIDE DEF place
    <3> QED BY <1>2, <1>6, CoreFacts
  <2>9. MeshTyped'
    BY <1>3, <2>3, <2>4, <2>5, <2>7, MeshTables DEF MeshTyped
  <2>10. Touches(r, d)
    BY <1>2, <1>3, <1>4, <2>1, <2>3, <2>4, <2>5, <2>8 DEF Touches, PushSteps
  <2>11. Carries(req[r])' /\ req'[r].pc \notin PushSteps
    BY <2>1, <2>3 DEF Carries, PushSteps
  <2>12. Kept(d)'
    BY <2>1, <2>3 DEF Kept, Idling, Busy
  <2>13. PairingOK'
    <3>1. ASSUME Pairs(req[r]) PROVE Pairs(req[r])'
      <4>1. Told(req[r]) /\ req[r].op = "pair"
        BY <1>3, <3>1 DEF Pairs
      <4>2. \A n \in NodesOf(c) : rows[n] # NULL /\ rows[n].key # NULL
        BY <1>1, <4>1 DEF Told
      <4>3. \A n \in NodesOf(c) : place(n) = [ip |-> rows[n].ip, key |-> rows[n].key] /\ rows[n].ip \in PlanUses(r)
        <5> SUFFICES ASSUME NEW n \in NodesOf(c)
                     PROVE  place(n) = [ip |-> rows[n].ip, key |-> rows[n].key] /\ rows[n].ip \in PlanUses(r)
          OBVIOUS
        <5> QED BY <1>1, <4>1, TheirsAre DEF PlanUses
      <4>4. Joined(c)'
        <5> HIDE DEF place
        <5> QED BY <1>2, <2>5, <2>8, <4>2, <4>3 DEF Joined
      <4> QED BY <1>2, <2>1, <2>3, <4>1, <4>4 DEF Pairs, PushSteps
    <3> QED BY <1>3, <2>3, <2>4, <3>1, PairGoesOn
  <2> QED BY <2>5, <2>9, <2>10, <2>11, <2>12, <2>13, MeshKeeps
<1> QED BY <1>1, <1>2, <1>5, <1>6 DEF Propose, End, tables

LEMMA RespondKeeps ==
  ASSUME MeshInv, NEW r \in Requests, Respond(r)
  PROVE  MeshInv'
<1>1. PICK c \in Cores : c = req[r].core /\ req[r] \in MeshCall
  BY MeshTables, MeshCallFacts
<1>2. PICK d \in Cores : d = Other(c) /\ Other(d) = c
  BY CoreFacts
<1>3. req[r].pc = "respond" /\ UNCHANGED <<enabled, rows, ext, node>> /\ Busy(r)
      /\ log' = [log EXCEPT !.unclean = IF Overlaps(r, c) THEN @ \cup {c} ELSE @]
  BY <1>1 DEF Respond, tables, Busy
<1>4. log' \in MeshLog /\ log'.stuck = log.stuck /\ log'.pairing = log.pairing /\ log.unclean \subseteq log'.unclean
      /\ (c \notin log'.unclean => Alone(r, c)) /\ (Alone(r, c) => log'.unclean = log.unclean)
  BY <1>1, <1>3, OverlapsAre, MeshTables DEF MeshLog
<1> DEFINE q0 == [req[r] EXCEPT !.pc = "store", !.at = c, !.snap = OwnBlocks(d)]
<1>5. q0 \in MeshCall /\ q0.pc = "store" /\ q0.at = c /\ q0.core = c /\ q0.op = req[r].op /\ q0.snap = OwnBlocks(d)
  BY <1>1, BlocksAre DEF MeshCall, MeshSteps
<1>6. Carries(q0)
  BY <1>5 DEF Carries, PushSteps
<1>7. events' \in 0 .. MaxEvents /\ (req' = [req EXCEPT ![r] = q0] \/ req' = [req EXCEPT ![r] = Done])
  <2>1. CASE Answered /\ req' = [req EXCEPT ![r].pc = "store", ![r].at = req[r].core, ![r].snap = OwnBlocks(Other(req[r].core))]
    BY <1>1, <1>2, <2>1, MeshTables DEF Answered
  <2>2. CASE Lost /\ End(r)
    BY <2>2, MeshTables, MeshConstants DEF Lost, End
  <2> QED BY <2>1, <2>2 DEF Respond
<1>8. TablesSame
  BY <1>3, <1>4 DEF TablesSame
<1>9. OwnBlocks(d)' = OwnBlocks(d)
  BY <1>8, SameTables
<1>10. q0.snap = OwnBlocks(d)'
  BY <1>5, <1>9
<1> HIDE DEF q0
<1>11. PICK q \in MeshCall : (q = Done \/ q = q0) /\ req' = [req EXCEPT ![r] = q]
  BY <1>5, <1>7, IdleTyped
<1>12. req'[r] = q /\ (\A x \in Requests \ {r} : req'[x] = req[x])
  BY <1>11, MeshTables
<1>13. PairingOK'
  <2>1. ASSUME log.pairing = "alone", Pairs(req[r]), q = q0 PROVE Pairs(req[r])'
    <3>1. Alone(r, c)
      BY <1>3, <2>1 DEF MeshInv, PairingOK, Alone
    <3>2. Joined(c) /\ req[r].op = "pair" /\ d \notin log.unclean
      BY <1>1, <1>2, <1>3, <2>1 DEF Pairs, PushSteps
    <3>3. d \notin log'.unclean
      BY <1>4, <3>1, <3>2
    <3>4. Joined(c)'
      BY <1>3, <3>2 DEF Joined
    <3> QED BY <1>2, <1>5, <1>10, <1>12, <2>1, <3>2, <3>3, <3>4 DEF Pairs, PushSteps
  <2>2. req'[r].pc \notin {"new", "done"} => q = q0
    BY <1>11, <1>12, IdleTyped
  <2> QED BY <1>3, <1>4, <1>12, <2>1, <2>2, PairGoesOn
<1>14. Carries(q) /\ q.pc \notin PushSteps /\ (q.pc = "done" \/ q.at = c)
  BY <1>5, <1>6, <1>11, IdleTyped DEF PushSteps
<1>15. Busy(r) => req[r].pc \notin PushSteps \cup {"load", "down"}
  BY <1>3 DEF PushSteps
<1> QED BY <1>4, <1>7, <1>8, <1>11, <1>13, <1>14, <1>15, OnlyMoves

\* A core changes what it knows of the other one, and then configures or has no mesh.
LEMMA ExternalsChange ==
  ASSUME MeshInv, NEW r \in Requests, NEW c \in Cores, NEW q \in MeshCall, req' = [req EXCEPT ![r] = q],
         enabled' = enabled, rows' = rows, node' = node, ext' \in [Nodes -> External \cup {NULL}],
         \A n \in NodesOf(c) : ext'[n] = ext[n], events' \in 0 .. MaxEvents,
         log' \in MeshLog, log'.stuck = log.stuck, log.unclean \subseteq log'.unclean, c \notin log'.unclean => Alone(r, c),
         q.pc \in {"load", "forget", "done"}, q.pc = "load" \/ ~enabled[c], q.pc = "done" \/ q.at = c,
         Busy(r) => req[r].pc \notin PushSteps \cup {"load", "down"},
         PairingOK'
  PROVE  MeshInv'
<1>1. req'[r] = q /\ (\A x \in Requests \ {r} : req'[x] = req[x]) /\ req' \in [Requests -> MeshCall]
  BY MeshTables
<1>2. MeshTyped'
  BY <1>1, MeshTables DEF MeshTyped
<1>3. Touches(r, c)
  BY <1>1 DEF Touches, PushSteps
<1>4. \A n \in NodesOf(c) : NodeOK(n)'
  <2>1. \A n \in NodesOf(c) : NodeOK(n)
    BY CoreFacts DEF MeshInv, NodesOK
  <2> QED BY <2>1 DEF NodeOK
<1>5. Kept(c)'
  BY <1>1 DEF Kept, Idling, Busy
<1>6. Carries(req[r])' /\ req'[r].pc \notin PushSteps
  BY <1>1 DEF Carries, PushSteps
<1> QED BY <1>2, <1>3, <1>4, <1>5, <1>6, MeshKeeps

\* What is stored of a node is its row as the other core answered it, if it had a key.
LEMMA KeyedAre ==
  ASSUME MeshInv, NEW q \in MeshCall, NEW d \in Cores, q.snap = OwnBlocks(d), NEW n \in NodesOf(d), rows[n] # NULL
  PROVE  LET keyed == {b \in q.snap : b.key # NULL}
         IN  /\ (\E b \in keyed : b.node = n) <=> rows[n].key # NULL
             /\ rows[n].key # NULL => (CHOOSE x \in keyed : x.node = n) = [node |-> n, ip |-> rows[n].ip, key |-> rows[n].key]
<1> DEFINE keyed == {b \in q.snap : b.key # NULL}
           own == [node |-> n, ip |-> rows[n].ip, key |-> rows[n].key]
<1>1. own \in OwnBlocks(d) /\ own.node = n /\ own.key = rows[n].key
  BY BlocksAre
<1>2. \A b \in OwnBlocks(d) : b.node = n => b = own
  BY DEF OwnBlocks
<1>3. \A b \in keyed : b \in OwnBlocks(d) /\ b.key # NULL
  OBVIOUS
<1>4. rows[n].key # NULL => own \in keyed
  BY <1>1
<1> HIDE DEF keyed, own
<1>5. (\E b \in keyed : b.node = n) <=> rows[n].key # NULL
  BY <1>1, <1>2, <1>3, <1>4
<1>6. ASSUME rows[n].key # NULL PROVE (CHOOSE x \in keyed : x.node = n) = own
  <2>1. \E x \in keyed : x.node = n
    BY <1>5, <1>6
  <2>2. PICK x \in keyed : x = (CHOOSE y \in keyed : y.node = n) /\ x.node = n
    BY <2>1
  <2> QED BY <1>2, <1>3, <2>2
<1> QED BY <1>5, <1>6 DEF keyed, own

LEMMA StoreExternalsKeeps ==
  ASSUME MeshInv, NEW r \in Requests, StoreExternals(r)
  PROVE  MeshInv'
<1>1. PICK c \in Cores : c = req[r].core /\ req[r] \in MeshCall /\ Carries(req[r])
  BY MeshTables, MeshCallFacts
<1>2. PICK d \in Cores : d = Other(c) /\ Other(d) = c
  BY CoreFacts
<1>3. req[r].pc = "store" /\ UNCHANGED <<enabled, rows, node, log, events>> /\ Busy(r) /\ req[r].at = c
  BY <1>1 DEF StoreExternals, Busy, Carries
<1>4. c \notin log.unclean => Alone(r, c)
  BY <1>3 DEF MeshInv, AloneOK
<1> DEFINE keyed == {b \in req[r].snap : b.key # NULL}
           place(n) == IF \E b \in keyed : b.node = n
                       THEN LET b == CHOOSE x \in keyed : x.node = n IN [ip |-> b.ip, key |-> b.key]
                       ELSE NULL
           q == [req[r] EXCEPT !.pc = "load", !.after = "paired", !.snap = {}]
<1>5. ext' = [n \in Nodes |-> IF n \notin NodesOf(d) THEN ext[n] ELSE place(n)] /\ req' = [req EXCEPT ![r] = q]
  <2>1. req' = [req EXCEPT ![r].pc = "load", ![r].after = "paired", ![r].snap = {}]
    BY DEF StoreExternals
  <2>2. ext' = [n \in Nodes |-> IF n \notin NodesOf(d) THEN ext[n] ELSE place(n)]
    BY <1>1, <1>2 DEF StoreExternals
  <2> HIDE DEF place
  <2> QED BY <2>1, <2>2, MeshTables
<1>6. \A n \in Nodes : place(n) \in External \cup {NULL}
  <2> SUFFICES ASSUME NEW n \in Nodes, \E b \in keyed : b.node = n PROVE place(n) \in External
    OBVIOUS
  <2>1. \A b \in keyed : [ip |-> b.ip, key |-> b.key] \in External
    BY <1>1, MeshCallFacts DEF SnapBlock, External
  <2> HIDE DEF keyed
  <2>2. PICK b \in keyed : b = (CHOOSE x \in keyed : x.node = n)
    OBVIOUS
  <2> QED BY <2>1, <2>2
<1>7. q \in MeshCall /\ q.pc = "load" /\ q.after = "paired" /\ q.at = c /\ q.core = c /\ q.op = req[r].op
  BY <1>1, <1>3 DEF MeshCall, MeshSteps
<1>8. ASSUME Pairs(req[r]), NEW n \in NodesOf(d)
      PROVE  /\ rows[n] # NULL
             /\ place(n) = IF rows[n].key # NULL THEN [ip |-> rows[n].ip, key |-> rows[n].key] ELSE NULL
  <2>1. Joined(c) /\ req[r].snap = OwnBlocks(d)
    BY <1>1, <1>2, <1>3, <1>8 DEF Pairs
  <2>2. rows[n] # NULL
    BY <1>2, <2>1 DEF Joined
  <2>3. /\ (\E b \in keyed : b.node = n) <=> rows[n].key # NULL
        /\ rows[n].key # NULL => (CHOOSE x \in keyed : x.node = n) = [node |-> n, ip |-> rows[n].ip, key |-> rows[n].key]
    BY <1>1, <2>1, <2>2, KeyedAre
  <2> DEFINE b0 == CHOOSE x \in keyed : x.node = n
             some == \E b \in keyed : b.node = n
  <2>4. place(n) = IF some THEN [ip |-> b0.ip, key |-> b0.key] ELSE NULL
    OBVIOUS
  <2>5. some <=> rows[n].key # NULL
    BY <2>3
  <2>6. rows[n].key # NULL => b0 = [node |-> n, ip |-> rows[n].ip, key |-> rows[n].key]
    BY <2>3
  <2> HIDE DEF keyed, place, b0, some
  <2>7. rows[n].key # NULL => b0.ip = rows[n].ip /\ b0.key = rows[n].key
    BY <2>6
  <2> QED BY <2>2, <2>4, <2>5, <2>7
<1> HIDE DEF place, q
<1>9. (\A n \in NodesOf(c) : ext'[n] = ext[n]) /\ (\A n \in NodesOf(d) : ext'[n] = place(n)) /\ ext' \in [Nodes -> External \cup {NULL}]
  BY <1>2, <1>5, <1>6, CoreFacts, MeshTables
<1>10. req'[r] = q /\ (\A x \in Requests \ {r} : req'[x] = req[x])
  BY <1>5, MeshTables
<1>11. PairingOK'
  <2>1. ASSUME Pairs(req[r]) PROVE Pairs(req[r])'
    <3>1. Joined(c) /\ req[r].op = "pair" /\ d \notin log.unclean
      BY <1>1, <1>2, <1>3, <2>1 DEF Pairs
    <3>2. Joined(c)'
      BY <1>3, <1>9, <3>1 DEF Joined
    <3>3. Known(d)'
      BY <1>3, <1>8, <1>9, <2>1 DEF Known
    <3> QED BY <1>2, <1>3, <1>7, <1>10, <3>1, <3>2, <3>3 DEF Pairs, PushSteps
  <2> QED BY <1>3, <1>10, <2>1, PairGoesOn
<1>12. events' \in 0 .. MaxEvents /\ log' \in MeshLog
  BY <1>3, MeshTables
<1>13. Busy(r) => req[r].pc \notin PushSteps \cup {"load", "down"}
  BY <1>3 DEF PushSteps
<1> QED BY <1>3, <1>4, <1>5, <1>7, <1>9, <1>11, <1>12, <1>13, ExternalsChange

LEMMA ForgottenFacts ==
  ASSUME MeshInv, NEW c \in Cores
  PROVE  Forgotten(c) \in [Nodes -> External \cup {NULL}] /\ \A n \in NodesOf(c) : Forgotten(c)[n] = ext[n]
BY CoreFacts, MeshTables DEF Forgotten

LEMMA TeardownKeeps ==
  ASSUME MeshInv, NEW r \in Requests, Teardown(r)
  PROVE  MeshInv'
<1>1. PICK c \in Cores : c = req[r].at /\ req[r] \in MeshCall
  BY MeshTables, MeshCallFacts
<1>2. req[r].pc = "teardown" /\ UNCHANGED <<enabled, rows, node, log, events>> /\ Busy(r) /\ ext' = Forgotten(c)
  BY <1>1 DEF Teardown, Busy
<1>3. PICK pc \in {"load", "forget"} : pc = IF enabled[c] THEN "load" ELSE "forget"
  OBVIOUS
<1> DEFINE q == [req[r] EXCEPT !.pc = pc, !.after = "forget"]
<1>4. q \in MeshCall /\ q.pc = pc /\ q.at = c
  BY <1>1 DEF MeshCall, MeshSteps
<1>5. req' = [req EXCEPT ![r] = q]
  BY <1>1, <1>3, MeshTables DEF Teardown
<1> HIDE DEF q
<1>6. c \notin log.unclean => Alone(r, c)
  BY <1>1, <1>2 DEF MeshInv, AloneOK
<1>7. PairingOK'
  <2>1. ~Pairs(req[r]) /\ log'.pairing = log.pairing
    BY <1>2 DEF Pairs, PushSteps
  <2>2. \A x \in Requests \ {r} : req'[x] = req[x]
    BY <1>5, MeshTables
  <2> QED BY <1>2, <2>1, <2>2, PairGoesOn
<1>8. events' \in 0 .. MaxEvents /\ log' \in MeshLog /\ ext' \in [Nodes -> External \cup {NULL}] /\ \A n \in NodesOf(c) : ext'[n] = ext[n]
  BY <1>2, ForgottenFacts, MeshTables
<1>9. Busy(r) => req[r].pc \notin PushSteps \cup {"load", "down"}
  BY <1>2 DEF PushSteps
<1> QED BY <1>2, <1>3, <1>4, <1>5, <1>6, <1>7, <1>8, <1>9, ExternalsChange

LEMMA ForgetKeeps ==
  ASSUME MeshInv, NEW r \in Requests, Forget(r)
  PROVE  MeshInv'
<1>1. PICK c \in Cores : c = req[r].core /\ req[r] \in MeshCall
  BY MeshTables, MeshCallFacts
<1>2. req[r].pc = "forget" /\ UNCHANGED <<enabled, rows, node, events>> /\ Busy(r) /\ ext' = Forgotten(c)
      /\ log' = [log EXCEPT !.unclean = IF Overlaps(r, c) THEN @ \cup {c} ELSE @]
  BY <1>1 DEF Forget, Busy
<1>3. log' \in MeshLog /\ log'.stuck = log.stuck /\ log'.pairing = log.pairing /\ log.unclean \subseteq log'.unclean
      /\ (c \notin log'.unclean => Alone(r, c))
  BY <1>2, OverlapsAre, MeshTables DEF MeshLog
<1> DEFINE q0 == [req[r] EXCEPT !.pc = "load", !.at = c, !.after = "done"]
<1>4. q0 \in MeshCall /\ q0.pc = "load" /\ q0.at = c
  BY <1>1 DEF MeshCall, MeshSteps
<1>5. (enabled[c] /\ req' = [req EXCEPT ![r] = q0]) \/ (~enabled[c] /\ req' = [req EXCEPT ![r] = Done])
  BY <1>1, MeshTables DEF Forget, End
<1> HIDE DEF q0
<1>6. PICK q \in MeshCall : /\ (q = q0 /\ enabled[c]) \/ (q = Done /\ ~enabled[c])
                            /\ req' = [req EXCEPT ![r] = q]
  BY <1>4, <1>5, IdleTyped
<1>7. PairingOK'
  <2>1. ~Pairs(req[r])
    BY <1>2 DEF Pairs, PushSteps
  <2>2. \A x \in Requests \ {r} : req'[x] = req[x]
    BY <1>6, MeshTables
  <2> QED BY <1>2, <1>3, <2>1, <2>2, PairGoesOn
<1>8. events' \in 0 .. MaxEvents /\ ext' \in [Nodes -> External \cup {NULL}] /\ \A n \in NodesOf(c) : ext'[n] = ext[n]
  BY <1>2, ForgottenFacts, MeshTables
<1>9. Busy(r) => req[r].pc \notin PushSteps \cup {"load", "down"}
  BY <1>2 DEF PushSteps
<1>10. q.pc \in {"load", "forget", "done"} /\ (q.pc = "load" \/ ~enabled[c]) /\ (q.pc = "done" \/ q.at = c)
  BY <1>4, <1>6, IdleTyped
<1> QED BY <1>2, <1>3, <1>6, <1>7, <1>8, <1>9, <1>10, ExternalsChange

-----------------------------------------------------------------------------
(* Mesh: taking a mesh down, the helper's switch, and crashes.               *)

LEMMA DownKeeps ==
  ASSUME MeshInv, NEW r \in Requests, Down(r)
  PROVE  MeshInv'
<1>1. PICK c \in Cores : c = req[r].at /\ req[r] \in MeshCall /\ Carries(req[r])
  BY MeshTables, MeshCallFacts
<1>2. PICK n \in req[r].left : n = First(r) /\ n \in NodesOf(c) /\ n \in Nodes
  BY <1>1, FirstLeft DEF Down
<1>3. req[r].pc = "down" /\ UNCHANGED <<enabled, rows, ext, log>> /\ Busy(r)
  BY DEF Down, Busy, tables
<1> DEFINE q == [req[r] EXCEPT !.left = @ \ {n}]
<1>4. q \in MeshCall /\ q.pc = "down" /\ q.at = c /\ q.left = req[r].left \ {n} /\ q.snap = req[r].snap
  BY <1>1, <1>3 DEF MeshCall
<1>5. req' = [req EXCEPT ![r] = q]
  BY <1>2, MeshTables DEF Down
<1> HIDE DEF q
<1>6. req'[r] = q /\ (\A x \in Requests \ {r} : req'[x] = req[x]) /\ req' \in [Requests -> MeshCall]
  BY <1>4, <1>5, MeshTables
<1>7. PICK h \in Host : /\ h = node[n] \/ (h.wg0 = NULL /\ h.key \in {NULL, node[n].key})
                        /\ node' = [node EXCEPT ![n] = h] /\ events' \in 0 .. MaxEvents
  <2>1. node[n] \in Host /\ node \in [Nodes -> Host] /\ events \in 0 .. MaxEvents
    BY <1>2, MeshTables
  <2>2. op_uninstall(node[n]) \in Host /\ op_uninstall(node[n]).wg0 = NULL /\ op_uninstall(node[n]).key = NULL
    BY <2>1 DEF op_uninstall, Host
  <2>3. op_down(node[n]) \in Host /\ op_down(node[n]).wg0 = NULL /\ op_down(node[n]).key = node[n].key
    BY <2>1 DEF op_down, Host
  <2>4. CASE Lost /\ UNCHANGED node
    <3>1. node' = [node EXCEPT ![n] = node[n]] /\ events' \in 0 .. MaxEvents
      BY <2>1, <2>4, MeshConstants DEF Lost
    <3> QED BY <2>1, <3>1
  <2>5. CASE Answered /\ node' = [node EXCEPT ![n] = IF req[r].op = "uninstall" THEN op_uninstall(node[n]) ELSE op_down(node[n])]
    <3>1. CASE req[r].op = "uninstall"
      BY <2>1, <2>2, <2>5, <3>1 DEF Answered
    <3>2. CASE req[r].op # "uninstall"
      BY <2>1, <2>3, <2>5, <3>2 DEF Answered
    <3> QED BY <3>1, <3>2
  <2> QED BY <1>2, <2>4, <2>5 DEF Down
<1>8. node' \in [Nodes -> Host] /\ node'[n] = h /\ \A m \in Nodes \ {n} : node'[m] = node[m]
  BY <1>2, <1>7, MeshTables
<1>9. MeshTyped'
  BY <1>3, <1>6, <1>7, <1>8, MeshTables DEF MeshTyped
<1>10. c \notin log.unclean => Alone(r, c)
  BY <1>1, <1>3 DEF MeshInv, AloneOK
<1>11. Touches(r, c)
  <2>1. \A m \in NodesOf(Other(c)) : m \in Nodes \ {n}
    BY <1>2, CoreFacts
  <2> QED BY <1>1, <1>3, <1>4, <1>6, <1>8, <1>10, <2>1 DEF Touches, PushSteps
<1>12. ASSUME NEW m \in NodesOf(c) PROVE NodeOK(m)'
  <2>1. NodeOK(m) /\ m \in Nodes
    BY CoreFacts DEF MeshInv, NodesOK
  <2>2. node'[m] = node[m] \/ (node'[m].wg0 = NULL /\ node'[m].key \in {NULL, node[m].key})
    BY <1>7, <1>8, <2>1
  <2> QED BY <1>3, <2>1, <2>2 DEF NodeOK
<1>13. Carries(req[r])' /\ req'[r].pc \notin PushSteps
  BY <1>1, <1>3, <1>4, <1>6 DEF Carries, PushSteps
<1>14. Kept(c)'
  BY <1>4, <1>6 DEF Kept, Idling, Busy
<1>15. PairingOK'
  <2>1. ~Pairs(req[r])
    BY <1>3 DEF Pairs, PushSteps
  <2> QED BY <1>3, <1>6, <2>1, PairGoesOn
<1> QED BY <1>9, <1>11, <1>12, <1>13, <1>14, <1>15, MeshKeeps

LEMMA DisabledKeeps ==
  ASSUME MeshInv, NEW r \in Requests, Disabled(r)
  PROVE  MeshInv'
<1>1. PICK c \in Cores : c = req[r].at /\ req[r] \in MeshCall
  BY MeshTables, MeshCallFacts
<1>2. /\ req[r].pc = "down" /\ UNCHANGED <<ext, node, events>> /\ Busy(r) /\ req' = [req EXCEPT ![r] = Done]
      /\ rows' = RowsAfterDisable(c) /\ enabled' = [enabled EXCEPT ![c] = FALSE]
      /\ log' = [log EXCEPT !.stuck = @ \ NodesOf(c)]
  BY <1>1 DEF Disabled, Busy, End
<1>3. req'[r] = Done /\ (\A x \in Requests \ {r} : req'[x] = req[x]) /\ req' \in [Requests -> MeshCall]
  BY <1>2, IdleTyped, MeshTables
<1>4. log' \in MeshLog /\ log'.unclean = log.unclean /\ log'.pairing = log.pairing /\ log'.stuck = log.stuck \ NodesOf(c)
  BY <1>2, MeshTables DEF MeshLog
<1>5. /\ NodesOf(c) \subseteq Nodes /\ NodesOf(Other(c)) \subseteq Nodes /\ Other(c) \in Cores /\ Other(c) # c
      /\ \A n \in NodesOf(c) : CoreOf(n) = c /\ n \notin NodesOf(Other(c))
  BY CoreFacts
<1>6. rows' \in [Nodes -> Row \cup {NULL}] /\ (\A n \in NodesOf(c) : rows'[n] = NULL) /\ \A n \in NodesOf(Other(c)) : rows'[n] = rows[n]
  BY <1>2, <1>5, MeshTables DEF RowsAfterDisable
<1>7. enabled' \in [Cores -> BOOLEAN] /\ ~enabled'[c] /\ enabled'[Other(c)] = enabled[Other(c)]
  BY <1>2, <1>5, MeshTables
<1>8. MeshTyped'
  BY <1>2, <1>3, <1>4, <1>6, <1>7, MeshTables DEF MeshTyped
<1>9. c \notin log.unclean => Alone(r, c)
  BY <1>1, <1>2 DEF MeshInv, AloneOK
<1>10. Touches(r, c)
  <2>1. \A n \in NodesOf(Other(c)) : n \in log'.stuck <=> n \in log.stuck
    BY <1>4, <1>5
  <2> QED BY <1>1, <1>2, <1>3, <1>4, <1>6, <1>7, <1>9, <2>1, IdleTyped DEF Touches, PushSteps
<1>11. \A n \in NodesOf(c) : NodeOK(n)'
  BY <1>5, <1>6, <1>7 DEF NodeOK
<1>12. Carries(req[r])' /\ req'[r].pc \notin PushSteps
  BY <1>3, IdleTyped DEF PushSteps
<1>13. Kept(c)'
  BY <1>7 DEF Kept
<1>14. PairingOK'
  <2>1. ~Pairs(req[r])
    BY <1>2 DEF Pairs, PushSteps
  <2> QED BY <1>2, <1>3, <1>4, <2>1, PairGoesOn
<1> QED BY <1>8, <1>10, <1>11, <1>12, <1>13, <1>14, MeshKeeps

\* What the helper's switch leaves: the same key, and an interface with the same address or none.
Switches(n, h) == h \in Host /\ h.key = node[n].key /\ (h.wg0 # NULL => node[n].wg0 # NULL /\ h.wg0.addr = node[n].wg0.addr)

LEMMA SwitchFacts ==
  ASSUME MeshInv, NEW n \in Nodes
  PROVE  /\ node[n].conf # NULL /\ node[n].wg0 # NULL => Switches(n, op_apply(n))
         /\ Switches(n, op_commit(n)) /\ Switches(n, perform_rollback(n))
<1>1. node[n] \in Host
  BY MeshTables
<1>2. ASSUME NEW x \in Config, node[n].wg0 # NULL
      PROVE  LET w == [node[n].wg0 EXCEPT !.key = x.key, !.peers = x.peers]
             IN  w \in Config /\ w.addr = node[n].wg0.addr /\ w # NULL
  <2>1. node[n].wg0 \in Config
    BY <1>1, <1>2 DEF Host
  <2> QED BY <2>1, NullFacts DEF Config
<1>3. ASSUME node[n].conf # NULL, node[n].wg0 # NULL
      PROVE  Switches(n, op_apply(n))
  <2>1. node[n].conf \in Config
    BY <1>1, <1>3 DEF Host
  <2> DEFINE w == [node[n].wg0 EXCEPT !.key = node[n].conf.key, !.peers = node[n].conf.peers]
  <2>2. w \in Config /\ w.addr = node[n].wg0.addr /\ w # NULL
    BY <1>2, <1>3, <2>1
  <2>3. op_apply(n) = [node[n] EXCEPT !.bak = node[n].conf, !.wg0 = w, !.timer = TRUE]
    BY DEF op_apply, wg_syncconf
  <2> HIDE DEF w
  <2>4. op_apply(n) \in Host /\ op_apply(n).key = node[n].key /\ op_apply(n).wg0 = w
    BY <1>1, <2>1, <2>2, <2>3 DEF Host
  <2> QED BY <1>3, <2>2, <2>4 DEF Switches
<1>4. Switches(n, op_commit(n))
  BY <1>1 DEF op_commit, Switches, Host
<1>5. Switches(n, perform_rollback(n))
  <2>1. CASE node[n].bak = NULL
    BY <1>1, <2>1 DEF perform_rollback, Switches, Host
  <2>2. CASE node[n].bak # NULL
    <3>1. node[n].bak \in Config
      BY <1>1, <2>2 DEF Host
    <3> DEFINE w == IF node[n].wg0 = NULL THEN NULL ELSE [node[n].wg0 EXCEPT !.key = node[n].bak.key, !.peers = node[n].bak.peers]
    <3>2. w \in Config \cup {NULL} /\ (w # NULL => node[n].wg0 # NULL /\ w.addr = node[n].wg0.addr)
      BY <1>2, <3>1
    <3>3. perform_rollback(n) = [node[n] EXCEPT !.conf = node[n].bak, !.bak = NULL, !.timer = FALSE, !.wg0 = w]
      BY <1>1, <2>2 DEF perform_rollback, Host
    <3> HIDE DEF w
    <3>4. perform_rollback(n) \in Host /\ perform_rollback(n).key = node[n].key /\ perform_rollback(n).wg0 = w
      BY <1>1, <3>1, <3>2, <3>3 DEF Host
    <3> QED BY <3>2, <3>4 DEF Switches
  <2> QED BY <2>1, <2>2
<1> QED BY <1>3, <1>4, <1>5

\* Who touches a node by hand, or its timer, disturbs its core.
LEMMA SwitchKeeps ==
  ASSUME MeshInv, NEW n \in Nodes, NEW h, Switches(n, h), node' = [node EXCEPT ![n] = h], UNCHANGED tables,
         Disturbed({CoreOf(n)}), events' \in 0 .. MaxEvents, req' \in [Requests -> MeshCall],
         \A x \in Requests : req'[x] = req[x] \/ (req[x].pc = "new" /\ req'[x] = Done)
  PROVE  MeshInv'
<1>1. PICK c \in Cores : c = CoreOf(n) /\ n \in NodesOf(c)
  BY NodeFacts
<1>2. PICK d \in Cores : d = Other(c) /\ n \notin NodesOf(d) /\ Cores = {c, d} /\ NodesOf(c) \cup NodesOf(d) = Nodes /\ NodesOf(d) \subseteq Nodes
  BY <1>1, CoreFacts
<1>3. /\ log' \in MeshLog /\ log'.pairing = "no" /\ log'.stuck = log.stuck /\ log'.unclean = log.unclean \cup {c}
  BY <1>1, MeshTables DEF Disturbed, MeshLog
<1>4. node' \in [Nodes -> Host] /\ node'[n] = h /\ \A m \in Nodes \ {n} : node'[m] = node[m]
  BY MeshTables DEF Switches
<1>5. enabled' = enabled /\ rows' = rows /\ ext' = ext
  BY DEF tables
<1>6. MeshTyped'
  BY <1>3, <1>4, <1>5, MeshTables DEF MeshTyped
<1>7. \A x \in Requests : /\ req'[x].pc \notin {"new", "done"} => req'[x] = req[x]
                          /\ req[x].pc \notin {"new", "done"} => req'[x] = req[x]
  BY IdleTyped
<1>8. NodesOK'
  <2> SUFFICES ASSUME NEW m \in Nodes PROVE NodeOK(m)'
    BY DEF NodesOK
  <2>1. NodeOK(m)
    BY DEF MeshInv, NodesOK
  <2>2. node'[m].key = node[m].key /\ (node'[m].wg0 # NULL => node[m].wg0 # NULL /\ node'[m].wg0.addr = node[m].wg0.addr)
    BY <1>4 DEF Switches
  <2> QED BY <1>3, <1>5, <2>1, <2>2 DEF NodeOK
<1>9. CarriesOK'
  BY IdleTyped, MeshTables DEF CarriesOK
<1>10. AloneOK'
  BY <1>3, <1>7 DEF MeshInv, AloneOK, Alone, Busy
<1>11. /\ OwnBlocks(d)' = OwnBlocks(d) /\ ExtBlocks(d)' = ExtBlocks(d)
       /\ \A m \in NodesOf(d) : node'[m] = node[m] /\ Rendered(m)' = Rendered(m) /\ (InOrder(m)' <=> InOrder(m))
  <2>1. \A e : OwnBlocks(e)' = OwnBlocks(e) /\ ExtBlocks(e)' = ExtBlocks(e)
    BY <1>5 DEF OwnBlocks, ExtBlocks
  <2>2. \A m : Rendered(m)' = Rendered(m)
    BY <1>5, <2>1 DEF Rendered
  <2>3. \A m \in NodesOf(d) : node'[m] = node[m]
    BY <1>2, <1>4
  <2> QED BY <1>5, <2>1, <2>2, <2>3 DEF InOrder
<1>12. Kept(d)'
  <2>1. Idling(d)' => Idling(d)
    BY <1>7 DEF Idling, Busy
  <2>2. Healthy(d)' => Healthy(d)
    BY <1>3, <1>5 DEF Healthy
  <2>3. Kept(d)
    BY DEF MeshInv, KeptOK
  <2> QED BY <1>3, <1>5, <1>11, <2>1, <2>2, <2>3 DEF Kept
<1>13. KeptOK'
  BY <1>2, <1>3, <1>12 DEF KeptOK, Kept
<1>14. PushedOK'
  <2> SUFFICES ASSUME NEW x \in Requests, req'[x].pc \in PushSteps, req'[x].at \notin log'.unclean
               PROVE  Pushed(req[x], req[x].at)'
    BY DEF PushedOK
  <2>1. req'[x] = req[x] /\ req[x].pc \in PushSteps
    BY <1>7 DEF PushSteps
  <2>2. req[x].at = d /\ d \notin log.unclean
    BY <1>2, <1>3, <2>1, MeshTables, MeshCallFacts
  <2>3. Pushed(req[x], d) /\ Carries(req[x])
    BY <2>1, <2>2 DEF MeshInv, PushedOK, CarriesOK
  <2>4. req[x].pc \in {"generate", "persist", "up", "active"} => req[x].cur \in NodesOf(d)
    BY <2>2, <2>3 DEF Carries
  <2>5. Pushed(req[x], d)'
    BY <1>3, <1>5, <1>11, <2>1, <2>3, <2>4 DEF Pushed
  <2> QED BY <2>1, <2>2, <2>5
<1>15. PairingOK'
  BY <1>3, PairNo
<1> QED BY <1>6, <1>8, <1>9, <1>10, <1>13, <1>14, <1>15 DEF MeshInv

LEMMA ByHandKeeps ==
  ASSUME MeshInv, NEW r \in Requests, NEW n \in Nodes, ByHand(r, n)
  PROVE  MeshInv'
<1>1. PICK op \in {"apply", "commit", "rollback"} :
        /\ Arrives(r, op)
        /\ op = "apply" => node[n].conf # NULL /\ node[n].wg0 # NULL
        /\ node' = [node EXCEPT ![n] = CASE op = "apply" -> op_apply(n) [] op = "commit" -> op_commit(n)
                                         [] OTHER -> perform_rollback(n)]
  BY DEF ByHand
<1>2. PICK h : h = CASE op = "apply" -> op_apply(n) [] op = "commit" -> op_commit(n) [] OTHER -> perform_rollback(n)
  OBVIOUS
<1>3. Switches(n, h)
  BY <1>1, <1>2, SwitchFacts
<1>4. node' = [node EXCEPT ![n] = h] /\ req' = [req EXCEPT ![r] = Done] /\ req[r].pc = "new" /\ events' = events
  BY <1>1, <1>2 DEF ByHand, End, Arrives
<1>5. req' \in [Requests -> MeshCall] /\ \A x \in Requests : req'[x] = req[x] \/ (req[x].pc = "new" /\ req'[x] = Done)
  BY <1>4, IdleTyped, MeshTables
<1>6. UNCHANGED tables /\ Disturbed({CoreOf(n)}) /\ events' \in 0 .. MaxEvents
  BY MeshTables DEF ByHand
<1> QED BY <1>3, <1>4, <1>5, <1>6, SwitchKeeps

LEMMA TimerKeeps ==
  ASSUME MeshInv, NEW n \in Nodes, TimerFires(n)
  PROVE  MeshInv'
<1>1. PICK h : h = perform_rollback(n)
  OBVIOUS
<1>2. Switches(n, h)
  BY <1>1, SwitchFacts
<1>3. node' = [node EXCEPT ![n] = h] /\ req' = req /\ UNCHANGED tables /\ Disturbed({CoreOf(n)}) /\ events' \in 0 .. MaxEvents
  BY <1>1, MeshTables, MeshConstants DEF TimerFires, Lost
<1> QED BY <1>2, <1>3, MeshTables, SwitchKeeps

LEMMA CrashKeeps ==
  ASSUME MeshInv, Crash
  PROVE  MeshInv'
<1>1. enabled' = enabled /\ rows' = rows /\ ext' = ext /\ node' = node /\ events' \in 0 .. MaxEvents
  BY MeshTables, MeshConstants DEF Crash, tables, Lost
<1>2. log' \in MeshLog /\ log'.pairing = "no" /\ log'.stuck = log.stuck /\ Cores \subseteq log'.unclean
  BY MeshTables DEF Crash, Disturbed, MeshLog
<1>3. req' \in [Requests -> MeshCall] /\ \A r \in Requests : req'[r].pc \in {"new", "done"} /\ Carries(req'[r])
  <2>1. \A r \in Requests : req'[r] = IF req[r].pc = "new" THEN req[r] ELSE Done
    BY DEF Crash
  <2>2. req' = [r \in Requests |-> IF req[r].pc = "new" THEN req[r] ELSE Done]
    BY DEF Crash
  <2> QED BY <2>1, <2>2, IdleTyped, MeshTables
<1>4. MeshTyped'
  BY <1>1, <1>2, <1>3, MeshTables DEF MeshTyped
<1>5. NodesOK'
  BY <1>1, <1>2 DEF MeshInv, NodesOK, NodeOK
<1>6. CarriesOK' /\ AloneOK' /\ PushedOK'
  BY <1>3 DEF CarriesOK, AloneOK, PushedOK, Busy, PushSteps
<1>7. KeptOK'
  BY <1>2 DEF KeptOK, Kept
<1> QED BY <1>2, <1>4, <1>5, <1>6, <1>7, PairNo DEF MeshInv

-----------------------------------------------------------------------------
(* Mesh: a pairing ends, the initial states, and the theorems.               *)

\* Two cores in order that know each other make one mesh.
LEMMA WholeMesh ==
  ASSUME MeshInv, NEW r \in Requests, req[r].pc = "paired", Pairs(req[r]), \A x \in Requests : Busy(x) => x = r,
         log.stuck = {}, \A n \in Nodes : rows[n] # NULL /\ rows[n].status = "active",
         NEW m \in Nodes, NEW n \in Nodes, m # n
  PROVE  /\ rows[m].ip # rows[n].ip
         /\ [node |-> m, ip |-> rows[m].ip, key |-> node[m].key] \in node[n].wg0.peers
<1>1. PICK c \in Cores : c = req[r].core
  BY MeshTables, MeshCallFacts
<1>2. PICK d \in Cores : d = Other(c) /\ Other(d) = c /\ Cores = {c, d}
  BY CoreFacts
<1>3. Joined(c) /\ Known(d) /\ req[r].at = c /\ c \notin log.unclean /\ d \notin log.unclean
  BY <1>1, <1>2 DEF Pairs
<1>4. ASSUME NEW x \in Nodes PROVE InOrder(x)
  <2>1. PICK e \in Cores : e = CoreOf(x) /\ x \in NodesOf(e)
    BY NodeFacts
  <2>2. enabled[e]
    BY <2>1 DEF MeshInv, NodesOK, NodeOK
  <2>3. Idling(e)
    BY DEF Idling, PushSteps
  <2>4. Healthy(e)
    BY CoreFacts DEF Healthy
  <2>5. e \notin log.unclean
    BY <1>2, <1>3
  <2> QED BY <2>1, <2>2, <2>3, <2>4, <2>5 DEF MeshInv, KeptOK, Kept
<1>5. PICK e \in Cores : e = CoreOf(n) /\ n \in NodesOf(e)
  BY NodeFacts
<1>6. node[n].wg0 = Rendered(n) /\ node[m].key = rows[m].key /\ rows[m].key # NULL
  BY <1>4 DEF InOrder
<1> DEFINE b == [node |-> m, ip |-> rows[m].ip, key |-> rows[m].key]
<1>7. b.node = m /\ b.key = rows[m].key
  OBVIOUS
<1>8. Rendered(n).peers = {y \in OwnBlocks(e) \cup ExtBlocks(e) : y.node # n /\ y.key # NULL}
  BY <1>5 DEF Rendered
<1>9. CASE m \in NodesOf(e)
  <2>1. rows[m].ip # rows[n].ip
    BY <1>5, <1>9 DEF MeshInv, NodesOK, NodeOK
  <2>2. b \in OwnBlocks(e)
    BY <1>9, BlocksAre
  <2> HIDE DEF b
  <2>3. b \in Rendered(n).peers
    BY <1>6, <1>7, <1>8, <2>2
  <2> QED BY <1>6, <2>1, <2>3 DEF b
<1>10. CASE m \notin NodesOf(e)
  <2>1. m \in NodesOf(Other(e))
    BY <1>10, CoreFacts
  <2>2. rows[m].ip # rows[n].ip /\ ext[m] = [ip |-> rows[m].ip, key |-> rows[m].key]
    <3>1. CASE e = c
      BY <1>2, <1>3, <1>5, <1>6, <2>1, <3>1 DEF Joined, Known
    <3>2. CASE e = d
      BY <1>2, <1>3, <1>5, <1>6, <2>1, <3>2 DEF Joined, Known
    <3> QED BY <1>2, <3>1, <3>2
  <2>3. ext[m] # NULL
    <3>1. rows[m] \in Row
      BY MeshTables
    <3>2. [ip |-> rows[m].ip, key |-> rows[m].key] \in External
      BY <1>6, <3>1, MeshRow DEF External
    <3> QED BY <2>2, <3>2, NullFacts
  <2>4. b \in ExtBlocks(e)
    BY <2>1, <2>2, <2>3, BlocksAre
  <2> HIDE DEF b
  <2>5. b \in Rendered(n).peers
    BY <1>6, <1>7, <1>8, <2>4
  <2> QED BY <1>6, <2>2, <2>5 DEF b
<1> QED BY <1>9, <1>10

LEMMA PairedKeeps ==
  ASSUME MeshInv, NEW r \in Requests, Paired(r)
  PROVE  MeshInv'
<1>1. PICK c \in Cores : c = req[r].at
  BY MeshTables, MeshCallFacts
<1>2. req[r].pc = "paired" /\ UNCHANGED <<enabled, rows, ext, node, events>> /\ Busy(r) /\ req' = [req EXCEPT ![r] = Done]
  BY DEF Paired, tables, Busy, End
<1> DEFINE whole == /\ log.pairing = "alone" /\ log.stuck = {}
                    /\ \A n \in Nodes : rows[n] # NULL /\ rows[n].status = "active"
<1>3. log' \in MeshLog /\ log'.stuck = log.stuck /\ log'.unclean = log.unclean /\ log'.pairing = IF whole THEN "whole" ELSE "no"
  <2>1. log' = [log EXCEPT !.pairing = IF whole THEN "whole" ELSE "no"]
    BY MeshTables DEF Paired, MeshLog
  <2> HIDE DEF whole
  <2> QED BY <2>1, MeshTables DEF MeshLog
<1>4. TablesSame
  BY <1>2, <1>3 DEF TablesSame
<1>5. req'[r] = Done /\ \A x \in Requests \ {r} : req'[x] = req[x]
  BY <1>2, IdleTyped, MeshTables
<1>6. PairingOK'
  <2>1. CASE ~whole
    BY <1>3, <2>1, PairNo
  <2>2. CASE whole
    <3>1. Pairs(req[r]) /\ \A x \in Requests : Busy(x) => x = r
      BY <1>2, <2>2 DEF MeshInv, PairingOK
    <3>2. ASSUME NEW m \in Nodes, NEW n \in Nodes, m # n
          PROVE  /\ rows[m].ip # rows[n].ip
                 /\ [node |-> m, ip |-> rows[m].ip, key |-> node[m].key] \in node[n].wg0.peers
      BY <1>2, <2>2, <3>1, <3>2, WholeMesh
    <3>3. PairedMeshIsWhole'
      BY <1>2, <3>2 DEF PairedMeshIsWhole
    <3>4. \A x \in Requests : req'[x].pc \in {"new", "done"}
      BY <1>5, <3>1, IdleTyped DEF Busy
    <3>5. log'.pairing = "whole"
      BY <1>3, <2>2
    <3> HIDE DEF whole
    <3> QED BY <3>3, <3>4, <3>5 DEF PairingOK, Busy
  <2> QED BY <2>1, <2>2
<1>7. c \notin log'.unclean => Alone(r, c)
  BY <1>1, <1>2, <1>3 DEF MeshInv, AloneOK
<1>8. Busy(r) => req[r].pc \notin PushSteps \cup {"load", "down"}
  BY <1>2 DEF PushSteps
<1> HIDE DEF whole
<1> QED BY <1>2, <1>3, <1>4, <1>6, <1>7, <1>8, IdleTyped, MeshTables, OnlyMoves DEF PushSteps

LEMMA MeshStarts ==
  ASSUME MeshInit
  PROVE  MeshInv
<1>1. PICK meshed \in {{}, {"home"}, Cores}, f \in {g \in [Nodes -> 1 .. Cardinality(Nodes)] : IsInjective(g)} :
       /\ enabled = [c \in Cores |-> c \in meshed]
       /\ \A m \in HomeNodes, n \in AwayNodes : f[m] < f[n]
       /\ rows = [n \in Nodes |-> IF CoreOf(n) \notin meshed THEN NULL
                                  ELSE [ip |-> f[n], key |-> EARLIER, status |-> "active"]]
       /\ ext = [n \in Nodes |-> IF meshed = Cores THEN [ip |-> f[n], key |-> EARLIER] ELSE NULL]
       /\ node = [n \in Nodes |-> IF CoreOf(n) \notin meshed THEN Blank
                     ELSE [Blank EXCEPT !.key = EARLIER, !.conf = Up0(meshed, f, n), !.wg0 = Up0(meshed, f, n)]]
  BY DEF MeshInit
<1>2. req = [r \in Requests |-> Idle] /\ log = [unclean |-> {}, stuck |-> {}, pairing |-> "no"] /\ events = 0
  BY DEF MeshInit
<1>3. \A n \in Nodes : f[n] \in Addresses
  BY <1>1, MeshConstants DEF Nodes
<1>4. \A m, n \in Nodes : m # n => f[m] # f[n]
  BY <1>1 DEF IsInjective
<1> DEFINE blk(m) == [node |-> m, ip |-> f[m], key |-> EARLIER]
<1>5. \A m \in Nodes : blk(m) \in Block /\ blk(m).node = m /\ blk(m).key = EARLIER
  BY <1>3, NullFacts DEF Block
<1>6. EARLIER # NULL /\ EARLIER \in Keys
  BY NullFacts
<1>7. ASSUME NEW n \in Nodes
      PROVE  Up0(meshed, f, n) \in Config /\ Up0(meshed, f, n) # NULL /\ Up0(meshed, f, n).addr = f[n] /\ Up0(meshed, f, n).key = EARLIER
             /\ Up0(meshed, f, n).peers = {blk(m) : m \in {x \in Nodes \ {n} : CoreOf(x) \in meshed}}
  <2>1. {blk(m) : m \in {x \in Nodes \ {n} : CoreOf(x) \in meshed}} \in SUBSET Block
    BY <1>5
  <2> QED BY <1>3, <1>6, <2>1, NullFacts DEF Up0, Config
<1>8. \A n \in Nodes : /\ CoreOf(n) \notin meshed => rows[n] = NULL
                       /\ CoreOf(n) \in meshed => rows[n] \in Row /\ rows[n].ip = f[n] /\ rows[n].key = EARLIER
  <2> SUFFICES ASSUME NEW n \in Nodes
               PROVE  /\ CoreOf(n) \notin meshed => rows[n] = NULL
                      /\ CoreOf(n) \in meshed => rows[n] \in Row /\ rows[n].ip = f[n] /\ rows[n].key = EARLIER
    OBVIOUS
  <2> DEFINE x == [ip |-> f[n], key |-> EARLIER, status |-> "active"]
  <2>1. x \in Row /\ x.ip = f[n] /\ x.key = EARLIER
    BY <1>3, <1>6 DEF Row
  <2>2. rows[n] = IF CoreOf(n) \notin meshed THEN NULL ELSE x
    BY <1>1
  <2> HIDE DEF x
  <2> QED BY <2>1, <2>2
<1>9. \A n \in Nodes : /\ meshed # Cores => ext[n] = NULL
                       /\ meshed = Cores => ext[n] \in External /\ ext[n].ip = f[n] /\ ext[n].key = EARLIER
  <2> SUFFICES ASSUME NEW n \in Nodes
               PROVE  /\ meshed # Cores => ext[n] = NULL
                      /\ meshed = Cores => ext[n] \in External /\ ext[n].ip = f[n] /\ ext[n].key = EARLIER
    OBVIOUS
  <2> DEFINE x == [ip |-> f[n], key |-> EARLIER]
  <2>1. x \in External /\ x.ip = f[n] /\ x.key = EARLIER
    BY <1>3, <1>6 DEF External
  <2>2. ext[n] = IF meshed = Cores THEN x ELSE NULL
    BY <1>1
  <2> HIDE DEF x
  <2> QED BY <2>1, <2>2
<1>10. \A n \in Nodes : /\ node[n] \in Host
                        /\ CoreOf(n) \in meshed => node[n].key = EARLIER /\ node[n].wg0 = Up0(meshed, f, n)
  <2> SUFFICES ASSUME NEW n \in Nodes
               PROVE  node[n] \in Host /\ (CoreOf(n) \in meshed => node[n].key = EARLIER /\ node[n].wg0 = Up0(meshed, f, n))
    OBVIOUS
  <2>1. PICK u \in Config : u = Up0(meshed, f, n)
    BY <1>7
  <2>2. node[n] = IF CoreOf(n) \notin meshed THEN Blank ELSE [Blank EXCEPT !.key = EARLIER, !.conf = u, !.wg0 = u]
    BY <1>1, <2>1
  <2>3. Blank \in Host
    BY DEF Blank, Host
  <2> DEFINE h == [Blank EXCEPT !.key = EARLIER, !.conf = u, !.wg0 = u]
  <2>4. PICK b \in Host : b = Blank
    BY <2>3
  <2>5. h \in Host /\ h.key = EARLIER /\ h.wg0 = u
    <3>1. h = [b EXCEPT !.key = EARLIER, !.conf = u, !.wg0 = u]
      BY <2>4
    <3> HIDE DEF h
    <3> QED BY <1>6, <3>1 DEF Host
  <2> HIDE DEF h
  <2>6. node[n] = IF CoreOf(n) \notin meshed THEN Blank ELSE h
    BY <2>2 DEF h
  <2> QED BY <2>1, <2>3, <2>5, <2>6
<1>11. \A n \in Nodes : rows[n] # NULL <=> CoreOf(n) \in meshed
  BY <1>8, NullFacts
<1>12. MeshTyped
  <2>1. enabled \in [Cores -> BOOLEAN] /\ rows \in [Nodes -> Row \cup {NULL}]
    <3>1. rows = [n \in Nodes |-> rows[n]]
      BY <1>1
    <3>2. enabled \in [Cores -> BOOLEAN]
      <4>1. enabled = [c \in Cores |-> c \in meshed]
        BY <1>1
      <4>2. ASSUME NEW c \in Cores PROVE (c \in meshed) \in BOOLEAN
        <5>1. CASE c \in meshed
          <6>1. (c \in meshed) = TRUE
            BY <5>1
          <6> QED BY <6>1
        <5>2. CASE c \notin meshed
          <6>1. (c \in meshed) = FALSE
            BY <5>2
          <6> QED BY <6>1
        <5> QED BY <5>1, <5>2
      <4> QED BY <4>1, <4>2
    <3> QED BY <1>8, <3>1, <3>2
  <2>2. ext \in [Nodes -> External \cup {NULL}]
    <3>1. ext = [n \in Nodes |-> ext[n]]
      BY <1>1
    <3> QED BY <1>9, <3>1
  <2>3. node \in [Nodes -> Host]
    <3>1. node = [n \in Nodes |-> node[n]]
      BY <1>1
    <3> QED BY <1>10, <3>1
  <2>4. req \in [Requests -> MeshCall] /\ log \in MeshLog /\ events \in 0 .. MaxEvents
    BY <1>2, IdleTyped, MeshConstants DEF MeshLog
  <2> QED BY <2>1, <2>2, <2>3, <2>4 DEF MeshTyped
<1>13. NodesOK
  <2> SUFFICES ASSUME NEW n \in Nodes PROVE NodeOK(n)
    BY DEF NodesOK
  <2>1. CoreOf(n) \in Cores /\ enabled[CoreOf(n)] = (CoreOf(n) \in meshed)
    BY <1>1, NodeFacts
  <2>2. \A m \in NodesOf(CoreOf(n)) \ {n} : rows[n] # NULL /\ rows[m] # NULL => rows[m].ip # rows[n].ip
    <3> SUFFICES ASSUME NEW m \in NodesOf(CoreOf(n)) \ {n}, rows[n] # NULL, rows[m] # NULL PROVE rows[m].ip # rows[n].ip
      OBVIOUS
    <3>1. m \in Nodes
      BY <2>1, CoreFacts
    <3>2. rows[m].ip = f[m] /\ rows[n].ip = f[n]
      BY <1>8, <1>11, <3>1
    <3> QED BY <1>4, <3>1, <3>2
  <2>3. rows[n] # NULL => rows[n].key = EARLIER /\ node[n].key = EARLIER /\ rows[n].ip = f[n] /\ node[n].wg0.addr = f[n]
    BY <1>7, <1>8, <1>10, <1>11
  <2> QED BY <1>11, <2>1, <2>2, <2>3 DEF NodeOK
<1>14. CarriesOK /\ AloneOK /\ PushedOK
  <2>1. \A r \in Requests : req[r].pc = "new" /\ Carries(req[r])
    BY <1>2, IdleTyped
  <2> QED BY <2>1 DEF CarriesOK, AloneOK, PushedOK, Busy, PushSteps
<1>15. KeptOK
  <2> SUFFICES ASSUME NEW c \in Cores, enabled[c], NEW n \in NodesOf(c) PROVE InOrder(n)
    BY DEF KeptOK, Kept
  <2>1. n \in Nodes /\ CoreOf(n) = c /\ c \in meshed /\ NodesOf(c) \subseteq Nodes /\ NodesOf(Other(c)) \subseteq Nodes
    BY <1>1, CoreFacts
  <2>2. meshed = Cores <=> Other(c) \in meshed
    BY <1>1, <2>1, CoreFacts DEF Cores, Other
  <2>3. \A m \in NodesOf(c) : rows[m] # NULL /\ rows[m].ip = f[m] /\ rows[m].key = EARLIER
    BY <1>8, <1>11, <2>1, CoreFacts
  <2>4. OwnBlocks(c) = {blk(m) : m \in NodesOf(c)}
    BY <2>3 DEF OwnBlocks
  <2>5. ExtBlocks(c) = {blk(m) : m \in {x \in NodesOf(Other(c)) : Other(c) \in meshed}}
    <3>1. CASE Other(c) \in meshed
      <4>1. \A m \in NodesOf(Other(c)) : ext[m] # NULL /\ ext[m].ip = f[m] /\ ext[m].key = EARLIER
        BY <1>9, <2>1, <2>2, <3>1, NullFacts
      <4> QED BY <3>1, <4>1 DEF ExtBlocks
    <3>2. CASE Other(c) \notin meshed
      BY <1>9, <2>1, <2>2, <3>2 DEF ExtBlocks
    <3> QED BY <3>1, <3>2
  <2>6. \A m \in Nodes : (m \in NodesOf(c) \/ (m \in NodesOf(Other(c)) /\ Other(c) \in meshed)) <=> CoreOf(m) \in meshed
    BY <2>1, CoreFacts
  <2> HIDE DEF blk
  <2>7. {b \in OwnBlocks(c) \cup ExtBlocks(c) : b.node # n /\ b.key # NULL} = {blk(m) : m \in {x \in Nodes \ {n} : CoreOf(x) \in meshed}}
    BY <1>5, <1>6, <2>1, <2>4, <2>5, <2>6
  <2>8. Up0(meshed, f, n) = [addr |-> f[n], key |-> EARLIER, peers |-> {blk(m) : m \in {x \in Nodes \ {n} : CoreOf(x) \in meshed}}]
    BY DEF Up0, blk
  <2>9. Rendered(n) = [addr |-> f[n], key |-> EARLIER, peers |-> {blk(m) : m \in {x \in Nodes \ {n} : CoreOf(x) \in meshed}}]
    BY <2>1, <2>3, <2>7 DEF Rendered
  <2> QED BY <1>6, <1>10, <2>1, <2>3, <2>8, <2>9 DEF InOrder
<1>16. PairingOK
  BY <1>2 DEF PairingOK, PairedMeshIsWhole
<1> QED BY <1>12, <1>13, <1>14, <1>15, <1>16 DEF MeshInv

LEMMA MeshStepKeeps ==
  ASSUME MeshInv, [MeshNext]_meshVars
  PROVE  MeshInv'
<1>1. CASE UNCHANGED meshVars
  <2>1. enabled' = enabled /\ rows' = rows /\ ext' = ext /\ node' = node /\ req' = req /\ log' = log /\ events' = events
    BY <1>1 DEF meshVars, tables
  <2>2. MeshTyped' /\ NodesOK' /\ CarriesOK' /\ AloneOK'
    BY <2>1 DEF MeshInv, MeshTyped, NodesOK, NodeOK, CarriesOK, AloneOK, Alone, Busy
  <2>3. \A c : OwnBlocks(c)' = OwnBlocks(c) /\ ExtBlocks(c)' = ExtBlocks(c)
    BY <2>1 DEF OwnBlocks, ExtBlocks
  <2>4. \A n : Rendered(n)' = Rendered(n)
    BY <2>1, <2>3 DEF Rendered
  <2>5. \A n : InOrder(n)' <=> InOrder(n)
    BY <2>1, <2>4 DEF InOrder
  <2>6. KeptOK'
    BY <2>1, <2>5 DEF MeshInv, KeptOK, Kept, Healthy, Idling, Busy
  <2>7. PushedOK'
    <3> SUFFICES ASSUME NEW x \in Requests, req[x].pc \in PushSteps, req[x].at \notin log.unclean
                 PROVE  Pushed(req[x], req[x].at)'
      BY <2>1 DEF PushedOK
    <3>1. Pushed(req[x], req[x].at)
      BY DEF MeshInv, PushedOK
    <3>2. req'[x].at = req[x].at
      BY <2>1
    <3> QED BY <2>1, <2>3, <2>4, <2>5, <3>1 DEF Pushed
  <2>8. PairingOK'
    BY <2>1, <2>3 DEF MeshInv, PairingOK, PairedMeshIsWhole, Pairs, Told, Joined, Known, Busy
  <2> QED BY <2>2, <2>6, <2>7, <2>8 DEF MeshInv
<1>2. ASSUME NEW r \in Requests, Step(r) PROVE MeshInv'
  <2>1. ASSUME NEW c \in Cores,
               \/ Enable(r, c) \/ Configure(r, c) \/ Pair(r, c) \/ Unpair(r, c)
               \/ \E op \in {"disable", "uninstall"} : Disable(r, c, op)
        PROVE  MeshInv'
    BY <2>1, EnableKeeps, ConfigureKeeps, PairKeeps, UnpairKeeps, DisableKeeps
  <2>2. CASE LoadMesh(r) \/ KeyRead(r) \/ Generate(r) \/ PersistKey(r)
    BY <2>2, LoadMeshKeeps, KeyReadKeeps, GenerateKeeps, PersistKeyKeeps
  <2>3. CASE WriteConfig(r) \/ Up(r) \/ MarkActive(r)
    BY <2>3, WriteConfigKeeps, UpKeeps, MarkActiveKeeps
  <2>4. CASE Describe(r) \/ Propose(r) \/ Respond(r) \/ StoreExternals(r) \/ Paired(r)
    BY <2>4, DescribeKeeps, ProposeKeeps, RespondKeeps, StoreExternalsKeeps, PairedKeeps
  <2>5. CASE Teardown(r) \/ Forget(r) \/ Down(r) \/ Disabled(r)
    BY <2>5, TeardownKeeps, ForgetKeeps, DownKeeps, DisabledKeeps
  <2>6. CASE \E n \in Nodes : ByHand(r, n)
    BY <2>6, ByHandKeeps
  <2> QED BY <1>2, <2>1, <2>2, <2>3, <2>4, <2>5, <2>6 DEF Step
<1> QED BY <1>1, <1>2, TimerKeeps, CrashKeeps DEF MeshNext

\* The invariant of the mesh: what every request carries, how far an undisturbed run and a
\* pairing have come, and what each node has of it (core_mesh.rs, peer_mesh.rs, wireguard.rs).
THEOREM MeshInvariant == MeshSpec => []MeshInv
<1>1. MeshInit => MeshInv
  BY MeshStarts
<1>2. MeshInv /\ [MeshNext]_meshVars => MeshInv'
  BY MeshStepKeeps
<1> QED BY <1>1, <1>2, PTL DEF MeshSpec

\* Rows and hosts keep their shape, and a core has rows exactly while its mesh is enabled
\* (enable_mesh, propose, disable_mesh).
THEOREM MeshTypeCorrect == MeshSpec => []MeshTypeOK
<1>1. MeshInv => MeshTypeOK
  <2> SUFFICES ASSUME MeshInv, NEW n \in Nodes
               PROVE  /\ rows[n] \in Row \cup {NULL} /\ ext[n] \in External \cup {NULL}
                      /\ node[n].key \in Keys \cup {NULL} /\ (rows[n] # NULL <=> enabled[CoreOf(n)])
    BY DEF MeshInv, MeshTyped, MeshTypeOK
  <2>1. rows[n] \in Row \cup {NULL} /\ ext[n] \in External \cup {NULL} /\ node[n] \in Host
    BY DEF MeshInv, MeshTyped
  <2>2. node[n].key \in Keys \cup {NULL}
    BY <2>1 DEF Host
  <2> QED BY <2>1, <2>2 DEF MeshInv, NodesOK, NodeOK
<1> QED BY <1>1, MeshInvariant, PTL

\* A core that nobody disturbed since its last run began, and whose rows all say active, has
\* every interface up with the address, the key and the peers its tables say
\* (configure_mesh, op_write_config, op_up).
THEOREM ActiveNodesRendered == MeshSpec => []ActiveIsRendered
<1>1. MeshInv => ActiveIsRendered
  <2> SUFFICES ASSUME MeshInv, NEW c \in Cores, Calm(c),
                      \A n \in NodesOf(c) : rows[n].status = "active" /\ n \notin log.stuck, NEW n \in NodesOf(c)
               PROVE  node[n].wg0 = Rendered(n)
    BY DEF ActiveIsRendered
  <2>1. enabled[c] /\ c \notin log.unclean /\ Idling(c)
    BY DEF Calm, Idling, Busy
  <2>2. Healthy(c)
    BY DEF Healthy
  <2>3. InOrder(n)
    BY <2>1, <2>2 DEF MeshInv, KeptOK, Kept
  <2> QED BY <2>3 DEF InOrder
<1> QED BY <1>1, MeshInvariant, PTL

\* A pairing that nothing disturbed joins every node of both cores, each under an address of
\* its own, with every other node among its peers (core_mesh.rs pair, peer_mesh.rs propose).
THEOREM PairedCoresJoined == MeshSpec => []PairedMeshIsWhole
<1>1. MeshInv => PairedMeshIsWhole
  BY DEF MeshInv, PairingOK
<1> QED BY <1>1, MeshInvariant, PTL
=============================================================================
