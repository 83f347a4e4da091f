------------------------------ MODULE TaskRuns ------------------------------
(* Ad-hoc shell tasks: the core's task_runs rows, the starter and the       *)
(* poller that drive a run, and the pier-agent that executes the command.   *)
(*                                                                          *)
(* Core and agent share nothing but HTTP calls, any of which can fail on    *)
(* the way there or on the way back, and either process can restart: the    *)
(* core keeps its rows and re-attaches pollers, the agent keeps nothing.    *)
EXTENDS Naturals, FiniteSets

CONSTANTS
  Runs,              \* task_runs ids; the agent's run_id of a run is the run
  MaxPollFailures,   \* MAX_POLL_FAILURES
  MaxCrashes,        \* bound: core restarts in a behaviour
  MaxRestarts,       \* bound: agent restarts
  MaxDrops           \* bound: HTTP handlers dropped inside start_run

ASSUME RunConstants ==
  /\ MaxPollFailures \in Nat \ {0}
  /\ MaxCrashes \in Nat /\ MaxRestarts \in Nat /\ MaxDrops \in Nat

VARIABLES
  row,        \* row[r]: status, whether agent_run_id and finished_at are set
  starter,    \* starter[r]: where start_run is; "acked" once the agent answered,
              \* "lost" while a request nobody waits for is still on its way
  driver,     \* driver[r]: the poller, its failures, the snapshot it reads
  cancelling, \* runs whose cancel handler still has to call the agent
  handle,     \* handle[r]: RunHandle in the agent's shell_runs
  supervisor, \* supervisor[r]: the agent task that waits for the child
  proc,       \* proc[r]: the bash child
  up,         \* the core process is running
  crashes, restarts, dropped

coreVars == <<row, starter, driver, cancelling, up, crashes, dropped>>
agentVars == <<handle, supervisor, proc, restarts>>
vars == <<coreVars, agentVars>>

RunTerminal == {"success", "failed", "cancelled", "timeout", "unreachable"}

is_terminal(s) == s \in RunTerminal

Active(r) == row[r].status \in {"pending", "running"}

NoDriver == [pc |-> "off", failures |-> 0, status |-> "none", finished |-> FALSE]

Spawned == [NoDriver EXCEPT !.pc = "sleep"]

Init ==
  /\ row = [r \in Runs |-> [status |-> "none", agentId |-> FALSE, finished |-> FALSE]]
  /\ starter = [r \in Runs |-> "idle"]
  /\ driver = [r \in Runs |-> NoDriver]
  /\ cancelling = {}
  /\ handle = [r \in Runs |-> [status |-> "none", finished |-> FALSE]]
  /\ supervisor = [r \in Runs |-> "none"]
  /\ proc = [r \in Runs |-> "none"]
  /\ up = TRUE
  /\ crashes = 0 /\ restarts = 0 /\ dropped = {}

-----------------------------------------------------------------------------
(* Statements of tasks/models.rs.                                           *)

\* run_mark_unreachable: only a row that is not terminal.
Unreachable(r) ==
  IF is_terminal(row[r].status) THEN row[r]
  ELSE [row[r] EXCEPT !.status = "unreachable", !.finished = TRUE]

\* run_update_snapshot: a finished snapshot is written whatever the row says;
\* an unfinished one leaves a terminal status alone.
Snapshot(r, s, finished) ==
  IF finished
  THEN [status |-> s, agentId |-> TRUE, finished |-> TRUE]
  ELSE [row[r] EXCEPT !.status = IF is_terminal(@) THEN @ ELSE s,
                      !.agentId = TRUE]

-----------------------------------------------------------------------------
(* Core: start_run.                                                         *)

\* The row is inserted and the server looked up.  A peer or the local server
\* runs no tasks: the row is closed at once.
StartRun(r) ==
  /\ up /\ row[r].status = "none"
  /\ \/ /\ row' = [row EXCEPT ![r].status = "pending"]
        /\ starter' = [starter EXCEPT ![r] = "post"]
     \/ /\ row' = [row EXCEPT ![r].status = "unreachable", ![r].finished = TRUE]
        /\ starter' = [starter EXCEPT ![r] = "done"]
  /\ UNCHANGED <<driver, cancelling, up, crashes, dropped, agentVars>>

\* POST /shell failed: refused, timed out (the request may still arrive), or
\* its answer was lost although the agent has started the command.
StartFails(r) ==
  /\ starter[r] \in {"post", "acked"}
  /\ row' = [row EXCEPT ![r] = Unreachable(r)]
  /\ starter' \in {[starter EXCEPT ![r] = "done"],
                   [starter EXCEPT ![r] = IF @ = "post" THEN "lost" ELSE "done"]}
  /\ UNCHANGED <<driver, cancelling, up, crashes, dropped, agentVars>>

\* The answer arrived: agent_run_id and 'running' are stored without looking
\* at the row, and the poller is spawned.
Acknowledged(r) ==
  /\ starter[r] = "acked"
  /\ row' = [row EXCEPT ![r].status = "running", ![r].agentId = TRUE]
  /\ starter' = [starter EXCEPT ![r] = "done"]
  /\ driver' = [driver EXCEPT ![r] = Spawned]
  /\ UNCHANGED <<cancelling, up, crashes, dropped, agentVars>>

\* The client of POST /tasks/runs goes away while start_run awaits the agent.
DropStarter(r) ==
  /\ Cardinality(dropped) < MaxDrops
  /\ starter[r] \in {"post", "acked"}
  /\ starter' = [starter EXCEPT ![r] = IF @ = "post" THEN "lost" ELSE "done"]
  /\ dropped' = dropped \cup {r}
  /\ UNCHANGED <<row, driver, cancelling, up, crashes, agentVars>>

-----------------------------------------------------------------------------
(* Core: the poller (spawn_driver), cancel_run, restart and recovery.       *)

\* GET /shell/{id}: the agent finds the handle and reads its status ...
PollStatus(r) ==
  /\ driver[r].pc = "sleep" /\ handle[r].status # "none"
  /\ driver' = [driver EXCEPT ![r].pc = "half", ![r].status = handle[r].status]
  /\ UNCHANGED <<row, starter, cancelling, up, crashes, dropped, agentVars>>

\* ... and, behind a lock of its own, finished_at.
PollFinished(r) ==
  /\ driver[r].pc = "half" /\ handle[r].status # "none"
  /\ driver' = [driver EXCEPT ![r].pc = "reply", ![r].finished = handle[r].finished]
  /\ UNCHANGED <<row, starter, cancelling, up, crashes, dropped, agentVars>>

\* The poller mirrors the answer into the row and stops when it is final.
ApplySnapshot(r) ==
  LET d == driver[r]
      finished == is_terminal(d.status) \/ d.finished
  IN /\ d.pc = "reply"
     /\ row' = [row EXCEPT ![r] = Snapshot(r, d.status, finished)]
     /\ driver' = [driver EXCEPT ![r] = IF finished THEN NoDriver ELSE Spawned]
     /\ UNCHANGED <<starter, cancelling, up, crashes, dropped, agentVars>>

\* Mutant of GaveUp: the poller stops without closing the row.
StopsPolling(r) == row[r]

\* finalize_unreachable
GaveUp(r) == Unreachable(r)

\* Mutant of FailuresAfter: a failed poll is not counted.
NotCounted(r) == driver[r].failures

FailuresAfter(r) == driver[r].failures + 1

\* No answer, a 404 or an error; after MAX_POLL_FAILURES in a row the run is
\* given up.
PollFails(r) ==
  LET n == FailuresAfter(r)
  IN /\ driver[r].pc \in {"sleep", "half", "reply"}
     /\ \/ /\ n >= MaxPollFailures
           /\ row' = [row EXCEPT ![r] = GaveUp(r)]
           /\ driver' = [driver EXCEPT ![r] = NoDriver]
        \/ /\ n < MaxPollFailures
           /\ driver' = [driver EXCEPT ![r] = [Spawned EXCEPT !.failures = n]]
           /\ UNCHANGED row
     /\ UNCHANGED <<starter, cancelling, up, crashes, dropped, agentVars>>

\* cancel_run: the row first, then the agent if its run id is known.
CancelRun(r) ==
  /\ up /\ Active(r)
  /\ row' = [row EXCEPT ![r].status = "cancelled", ![r].finished = TRUE]
  /\ cancelling' = IF row[r].agentId THEN cancelling \cup {r} ELSE cancelling
  /\ UNCHANGED <<starter, driver, up, crashes, dropped, agentVars>>

\* POST /shell/{id}/cancel reaches the agent, which marks a running handle
\* and sends SIGTERM; or it is lost and its error ignored.
CallCancel(r) ==
  /\ r \in cancelling
  /\ cancelling' = cancelling \ {r}
  /\ \/ /\ handle[r].status = "running"
        /\ handle' = [handle EXCEPT ![r].status = "cancelled"]
     \/ UNCHANGED handle
  /\ UNCHANGED <<row, starter, driver, up, crashes, dropped, supervisor, proc,
                 restarts>>

\* The core dies: its rows stay, its starters, pollers and handlers do not.
CoreCrash ==
  /\ up /\ crashes < MaxCrashes
  /\ up' = FALSE
  /\ starter' = [r \in Runs |-> CASE starter[r] = "post"  -> "lost"
                                  [] starter[r] = "acked" -> "done"
                                  [] OTHER                -> starter[r]]
  /\ driver' = [r \in Runs |-> NoDriver]
  /\ cancelling' = {}
  /\ crashes' = crashes + 1
  /\ UNCHANGED <<row, dropped, agentVars>>

\* tasks::recover::run_on_boot, before the API is served: a run the agent has
\* acknowledged gets a new poller, one it has not is given up.
Recover ==
  /\ ~up
  /\ up' = TRUE
  /\ row' = [r \in Runs |-> IF Active(r) /\ ~row[r].agentId THEN Unreachable(r)
                            ELSE row[r]]
  /\ driver' = [r \in Runs |-> IF Active(r) /\ row[r].agentId THEN Spawned
                               ELSE driver[r]]
  /\ UNCHANGED <<starter, cancelling, crashes, dropped, agentVars>>

-----------------------------------------------------------------------------
(* Agent: shell.rs.                                                         *)

\* POST /shell forks the child and registers its handle and supervisor.
AgentStart(r) ==
  /\ starter[r] \in {"post", "lost"}
  /\ starter' = [starter EXCEPT ![r] = IF @ = "post" THEN "acked" ELSE "done"]
  /\ handle' = [handle EXCEPT ![r].status = "running"]
  /\ supervisor' = [supervisor EXCEPT ![r] = "waiting"]
  /\ proc' = [proc EXCEPT ![r] = "running"]
  /\ UNCHANGED <<row, driver, cancelling, up, crashes, dropped, restarts>>

ProcExit(r) ==
  /\ proc[r] = "running"
  /\ \E outcome \in {"ok", "err"} : proc' = [proc EXCEPT ![r] = outcome]
  /\ UNCHANGED <<handle, supervisor, restarts, coreVars>>

\* The timeout wins the race against wait(): SIGTERM, then wait again.
Timeout(r) ==
  /\ supervisor[r] = "waiting"
  /\ supervisor' = [supervisor EXCEPT ![r] = "killing"]
  /\ UNCHANGED <<handle, proc, restarts, coreVars>>

\* Mutants of Verdict: the exit code of the child is not looked at; a child
\* without exit code gets a status the core does not know.
AnyExit(r) == "success"
OrKilled(r) == IF proc[r] = "ok" THEN "success" ELSE "killed"

Verdict(r) == IF proc[r] = "ok" THEN "success" ELSE "failed"

\* The child ended: the supervisor writes the status unless a cancel did.
SupervisorStatus(r) ==
  /\ supervisor[r] \in {"waiting", "killing"} /\ proc[r] \in {"ok", "err"}
  /\ handle' = [handle EXCEPT
                  ![r].status = IF @ # "running" THEN @
                                ELSE IF supervisor[r] = "killing" THEN "timeout"
                                ELSE Verdict(r)]
  /\ supervisor' = [supervisor EXCEPT ![r] = "status"]
  /\ UNCHANGED <<proc, restarts, coreVars>>

\* wait() itself failed: the status is 'failed' whatever it was.
SupervisorError(r) ==
  /\ supervisor[r] = "waiting"
  /\ handle' = [handle EXCEPT ![r].status = "failed"]
  /\ supervisor' = [supervisor EXCEPT ![r] = "status"]
  /\ UNCHANGED <<proc, restarts, coreVars>>

\* finished_at follows the status, behind another lock.
SupervisorFinish(r) ==
  /\ supervisor[r] = "status"
  /\ handle' = [handle EXCEPT ![r].finished = TRUE]
  /\ supervisor' = [supervisor EXCEPT ![r] = "done"]
  /\ UNCHANGED <<proc, restarts, coreVars>>

\* start_gc_loop drops a handle five minutes after it finished, which a live
\* poller has noticed long before.
AgentGC(r) ==
  /\ handle[r].finished /\ driver[r].pc = "off"
  /\ handle' = [handle EXCEPT ![r] = [status |-> "none", finished |-> FALSE]]
  /\ UNCHANGED <<supervisor, proc, restarts, coreVars>>

\* The agent restarts with an empty map; a child may outlive it.
AgentRestart ==
  /\ restarts < MaxRestarts
  /\ handle' = [r \in Runs |-> [status |-> "none", finished |-> FALSE]]
  /\ supervisor' = [r \in Runs |-> "none"]
  /\ \E S \in SUBSET {r \in Runs : proc[r] = "running"} :
       proc' = [r \in Runs |-> IF r \in S THEN "err" ELSE proc[r]]
  /\ restarts' = restarts + 1
  /\ UNCHANGED coreVars

-----------------------------------------------------------------------------
StarterStep(r) == StartFails(r) \/ Acknowledged(r) \/ AgentStart(r)

DriverStep(r) == PollStatus(r) \/ PollFinished(r) \/ ApplySnapshot(r) \/ PollFails(r)

SupervisorStep(r) == SupervisorStatus(r) \/ SupervisorFinish(r)

Next ==
  \/ \E r \in Runs :
       \/ StartRun(r) \/ StarterStep(r) \/ DropStarter(r)
       \/ DriverStep(r) \/ CancelRun(r) \/ CallCancel(r)
       \/ ProcExit(r) \/ Timeout(r) \/ SupervisorStep(r) \/ SupervisorError(r)
       \/ AgentGC(r)
  \/ CoreCrash \/ Recover \/ AgentRestart

Spec == Init /\ [][Next]_vars

\* start_run, pollers and supervisors are spawned tasks with timers; the
\* service manager restarts the core; a child that got SIGTERM at its timeout
\* ends.  Nobody has to answer a request or to cancel.
FairSpec ==
  /\ Spec
  /\ WF_vars(Recover)
  /\ \A r \in Runs :
       /\ WF_vars(StarterStep(r)) /\ WF_vars(DriverStep(r))
       /\ WF_vars(Timeout(r)) /\ WF_vars(SupervisorStep(r))
       /\ WF_vars(supervisor[r] = "killing" /\ ProcExit(r))

-----------------------------------------------------------------------------
(* Properties.                                                              *)

Status == {"none", "pending", "running"} \cup RunTerminal

RunRow == [status : Status, agentId : BOOLEAN, finished : BOOLEAN]

Poller == [pc : {"off", "sleep", "half", "reply"}, failures : Nat,
           status : Status, finished : BOOLEAN]

RunHandle == [status : Status, finished : BOOLEAN]

\* Type correctness of every variable.
RunsTypeOK ==
  /\ row \in [Runs -> RunRow]
  /\ starter \in [Runs -> {"idle", "post", "acked", "lost", "done"}]
  /\ driver \in [Runs -> Poller]
  /\ cancelling \subseteq Runs
  /\ handle \in [Runs -> RunHandle]
  /\ supervisor \in [Runs -> {"none", "waiting", "killing", "status", "done"}]
  /\ proc \in [Runs -> {"none", "running", "ok", "err"}]
  /\ up \in BOOLEAN
  /\ crashes \in Nat /\ restarts \in Nat /\ dropped \subseteq Runs

\* While the core runs, every run that is pending or running in the database
\* is still being worked on: by its start_run or by a poller, whoever failed,
\* crashed or cancelled.  Excepted are the two ways the code loses a run: the
\* handler of start_run was dropped, and a torn snapshot set finished_at.
NoRunIsAbandoned ==
  up => \A r \in Runs :
          Active(r) => \/ starter[r] \in {"post", "acked"}
                       \/ driver[r].pc # "off"
                       \/ r \in dropped
                       \/ row[r].finished

\* A run reported as successful is one whose command exited with 0 on the
\* agent, whatever restarts, losses, timeouts and cancels happened between
\* the child and the row.
SuccessIsReal ==
  \A r \in Runs : row[r].status = "success" => proc[r] = "ok"

\* Every run ends in the database (or shows finished_at), unless its handler
\* was dropped: the agent's timeout, the failure limit of the poller and the
\* recovery on boot together.
RunsEnd ==
  \A r \in Runs : Active(r) ~> (~Active(r) \/ row[r].finished \/ r \in dropped)
=============================================================================
