------------------------------ MODULE Schedules ------------------------------
(* Cron schedules and database backups.                                     *)
(*                                                                          *)
(* The runner ticks over the rows of schedules and spawns one task per due  *)
(* row; a backup action dumps, uploads and then sweeps the backups beyond   *)
(* the retention count.  The same backup code also runs from two handlers   *)
(* that know nothing of the runner's in_flight set: "run now" on a schedule *)
(* and the manual trigger on a resource.  Every backup_schedules row (here: *)
(* plan) is mirrored by a row of schedules, kept in step by hand.           *)
EXTENDS Naturals, FiniteSets

CONSTANTS
  NONE,        \* SQL NULL, no such row
  Plans,       \* ids of backup_schedules; sched-bk-<id> is the plan itself
  UserRows,    \* ids of schedules created through POST /schedules
  Jobs,        \* spawned tasks and handlers; a job creates at most one backup,
               \* whose id is the job
  Targets,     \* database_name of a plan or a backup
  Cluster,     \* the target of a cluster-wide dump (database_name IS NULL)
  Crons,       \* cron expressions, with their timezone
  Retentions,  \* values of retention_count
  Requests,    \* bound: the handlers that are called in this instance
  MaxNow,      \* bound: the last second of the clock
  MaxEdits,    \* bound: changes an operator makes to plans and rows
  MaxCrashes,  \* bound: restarts of the core
  MaxDrops     \* bound: handlers dropped because their client went away

ASSUME ScheduleConstants ==
  /\ IsFiniteSet(Jobs)
  /\ Cluster \in Targets
  /\ Retentions \subseteq Nat
  /\ MaxNow \in Nat /\ MaxEdits \in Nat /\ MaxCrashes \in Nat /\ MaxDrops \in Nat
  /\ Plans \cap UserRows = {}
  /\ NONE \notin Plans \cup UserRows \cup Jobs \cup Targets \cup Crons
  /\ NONE \notin {"cron", "now", "trigger", "delete"}

VARIABLES
  plan,       \* plan[b]: backup_schedules row
  sched,      \* sched[s]: schedules row; mirrors of plans and user rows
  minted,     \* uuids already given out
  tick,       \* due rows run_tick has listed and not yet handled
  in_flight,  \* the runner's HashSet
  job,        \* job[j]: a fire, a run_now, a trigger or a delete_backup
  backup,     \* backup[j]: backups row
  blobs,      \* keys in object storage
  now,        \* the second of the last INSERT INTO backups
  up, edits, crashes, drops,
  touched     \* mirrors edited through /schedules since their last sync

dbVars == <<plan, sched, minted, touched>>
boundVars == <<edits, crashes, drops>>
vars == <<dbVars, tick, in_flight, job, backup, blobs, now, up, boundVars>>

Rows == Plans \cup UserRows

\* action_type and action_config: a backup of the named plan, or a task or
\* clean-up.
Actions == Plans \cup {"other"}

\* A row that is due at a later time, computed from cron expression c.
next_fire(c) == [at |-> "later", from |-> c]

Never == [at |-> "null", from |-> NONE]

NoRow == [exists |-> FALSE, cron |-> NONE, enabled |-> FALSE,
          action |-> "other", next |-> Never]

Idle == [pc |-> "idle", kind |-> NONE, sid |-> NONE, cron |-> NONE, action |-> "other",
         plan |-> NONE, target |-> NONE, retention |-> 0, key |-> NONE,
         sweep |-> {}, victim |-> NONE]

NoBackup == [exists |-> FALSE, plan |-> NONE, status |-> "none", seq |-> 0]

\* Migration 48 mirrors plans that were there before it, without next_run_at.
Backfilled(b, p) ==
  [exists |-> TRUE, cron |-> p.cron, enabled |-> p.active, action |-> b, next |-> Never]

\* A row of POST /schedules.
Created(c, a, e) ==
  [exists |-> TRUE, cron |-> c, enabled |-> e, action |-> a, next |-> next_fire(c)]

\* A core about to boot, with at most one plan and perhaps some user rows.
Init ==
  /\ plan \in {f \in [Plans -> {NONE} \cup
                               [target : {Cluster}, cron : Crons, retention : Retentions,
                                active : {TRUE}]] :
                 Cardinality({b \in Plans : f[b] # NONE}) <= 1}
  /\ \E mine \in SUBSET UserRows, c \in Crons :
       /\ sched = [s \in Rows |-> IF s \in Plans /\ plan[s] # NONE
                                  THEN Backfilled(s, plan[s])
                                  ELSE IF s \in mine THEN Created(c, "other", TRUE) ELSE NoRow]
       /\ minted = {b \in Plans : plan[b] # NONE} \cup mine
  /\ touched = {} /\ tick = {} /\ in_flight = {}
  /\ job = [j \in Jobs |-> Idle]
  /\ backup = [j \in Jobs |-> NoBackup]
  /\ blobs = {} /\ now = 0 /\ up = FALSE
  /\ edits = 0 /\ crashes = 0 /\ drops = 0

-----------------------------------------------------------------------------
(* Time and the process.                                                    *)

\* Time reaches a row's next_run_at, whether or not the core is running.
BecomeDue(s) ==
  /\ sched[s].exists /\ sched[s].next.at = "later"
  /\ sched' = [sched EXCEPT ![s].next.at = "due"]
  /\ UNCHANGED <<plan, minted, touched, tick, in_flight, job, backup, blobs, now, up, boundVars>>

Running(j) == job[j].pc \notin {"idle", "done", "dead"}

\* A task or handler ends, or is lost: its local variables go.
Ended(j, how) ==
  [job[j] EXCEPT !.pc = how, !.cron = NONE, !.action = "other", !.retention = 0, !.sweep = {}]

\* Memory is lost: the in_flight set, the tick's list and every task and handler.
Crash ==
  /\ up /\ crashes < MaxCrashes
  /\ up' = FALSE /\ crashes' = crashes + 1
  /\ tick' = {} /\ in_flight' = {}
  /\ job' = [j \in Jobs |-> IF Running(j) THEN Ended(j, "dead") ELSE job[j]]
  /\ UNCHANGED <<dbVars, backup, blobs, now, edits, drops>>

\* Mutant of Seeded: no row is given a time.
NotSeeded(r) == r

\* seed_next_run_at: enabled rows without a time get one.
Seeded(r) ==
  IF r.exists /\ r.enabled /\ r.next = Never THEN [r EXCEPT !.next = next_fire(r.cron)] ELSE r

Boot ==
  /\ ~up /\ up' = TRUE
  /\ sched' = [s \in Rows |-> Seeded(sched[s])]
  /\ UNCHANGED <<plan, minted, touched, tick, in_flight, job, backup, blobs, now, boundVars>>

-----------------------------------------------------------------------------
(* The runner: run_tick, run_one.                                           *)

\* One pass of the tick: the due rows are listed under one lock ...
Tick ==
  /\ up /\ tick = {}
  /\ LET due == {s \in Rows : sched[s].exists /\ sched[s].enabled /\ sched[s].next.at = "due"}
     IN  /\ due # {}
         /\ tick' = {[sid |-> s, cron |-> sched[s].cron, action |-> sched[s].action] : s \in due}
  /\ UNCHANGED <<dbVars, in_flight, job, backup, blobs, now, up, boundVars>>

\* Mutant of Advanced: an upsert: the row of a deleted schedule comes back.
AdvancedUpsert(sid, c) ==
  [sched EXCEPT ![sid].next = next_fire(c), ![sid].exists = TRUE]

\* advance_next_run_at, from the cron expression the listed row had.
Advanced(sid, c) ==
  IF sched[sid].exists THEN [sched EXCEPT ![sid].next = next_fire(c)] ELSE sched

\* ... a row still in flight is recorded as skipped and advanced,
TickSkip(r) ==
  /\ r \in tick /\ r.sid \in in_flight
  /\ sched' = Advanced(r.sid, r.cron)
  /\ tick' = tick \ {r}
  /\ UNCHANGED <<plan, minted, touched, in_flight, job, backup, blobs, now, up, boundVars>>

\* Mutant of MayFire: without looking at in_flight.
Unguarded(sid) == sid \in Rows

MayFire(sid) == sid \notin in_flight

\* ... any other one is put in flight and gets a task.
TickFire(r, j) ==
  /\ r \in tick /\ MayFire(r.sid) /\ job[j] = Idle
  /\ in_flight' = in_flight \cup {r.sid}
  /\ job' = [job EXCEPT ![j] = [Idle EXCEPT !.pc = "fire", !.kind = "cron", !.sid = r.sid,
                                            !.cron = r.cron, !.action = r.action]]
  /\ tick' = tick \ {r}
  /\ UNCHANGED <<dbVars, backup, blobs, now, up, boundVars>>

\* POST /schedules/{id}/run: any row, enabled or not, in flight or not.
RunNow(s, j) ==
  /\ up /\ "run_now" \in Requests /\ job[j] = Idle /\ sched[s].exists
  /\ job' = [job EXCEPT ![j] = [Idle EXCEPT !.pc = "fire", !.kind = "now", !.sid = s,
                                            !.action = sched[s].action]]
  /\ UNCHANGED <<dbVars, tick, in_flight, backup, blobs, now, up, boundVars>>

\* dispatch, backup: run_for_schedule reads the plan.
Dispatch(j) ==
  LET b == job[j].action IN
  /\ job[j].pc = "fire" /\ b \in Plans
  /\ job' = [job EXCEPT ![j] =
       IF plan[b] # NONE /\ plan[b].active
       THEN [@ EXCEPT !.pc = "insert", !.plan = b, !.target = plan[b].target,
                      !.retention = plan[b].retention]
       ELSE [@ EXCEPT !.pc = "report"]]
  /\ UNCHANGED <<dbVars, tick, in_flight, backup, blobs, now, up, boundVars>>

\* dispatch, task or clean-up: it comes back after any time.
OtherAction(j) ==
  /\ job[j].pc = "fire" /\ job[j].action = "other"
  /\ job' = [job EXCEPT ![j].pc = "report"]
  /\ UNCHANGED <<dbVars, tick, in_flight, backup, blobs, now, up, boundVars>>

\* The schedule_runs row is closed; a cron fire also writes schedules.last_status
\* and moves next_run_at on.
Report(j) ==
  /\ job[j].pc = "report"
  /\ \/ /\ job[j].kind = "cron"
        /\ sched' = Advanced(job[j].sid, job[j].cron)
        /\ job' = [job EXCEPT ![j].pc = "release"]
     \/ /\ job[j].kind = "now"
        /\ job' = [job EXCEPT ![j] = Ended(j, "done")]
        /\ UNCHANGED sched
  /\ UNCHANGED <<plan, minted, touched, tick, in_flight, backup, blobs, now, up, boundVars>>

\* Mutant of Released: the id stays.
NotReleased(sid) == in_flight

Released(sid) == in_flight \ {sid}

Release(j) ==
  /\ job[j].pc = "release"
  /\ in_flight' = Released(job[j].sid)
  /\ job' = [job EXCEPT ![j] = Ended(j, "done")]
  /\ UNCHANGED <<dbVars, tick, backup, blobs, now, up, boundVars>>

-----------------------------------------------------------------------------
(* A backup: run_single_backup and the task of trigger_backup.              *)

\* How a job goes on that has made its backup, or failed to.
Conclude(j) ==
  IF job[j].kind = "trigger" THEN Ended(j, "done") ELSE [job[j] EXCEPT !.pc = "report"]

ActivePlans == {b \in Plans : plan[b] # NONE /\ plan[b].active}

\* The plan a manual trigger uses: the one of that target, or else any active
\* plan, a cluster-wide one first.
TriggerPlans(t) ==
  LET exact   == {b \in ActivePlans : plan[b].target = t}
      cluster == {b \in ActivePlans : plan[b].target = Cluster}
  IN  IF exact # {} THEN exact ELSE IF cluster # {} THEN cluster ELSE ActivePlans

\* POST /resources/{id}/backups/trigger.
Trigger(t, j) ==
  /\ up /\ "trigger_backup" \in Requests /\ job[j] = Idle
  /\ \E b \in TriggerPlans(t) :
       job' = [job EXCEPT ![j] = [Idle EXCEPT !.pc = "insert", !.kind = "trigger",
                                              !.plan = b, !.target = t]]
  /\ UNCHANGED <<dbVars, tick, in_flight, backup, blobs, now, up, boundVars>>

\* build_s3_key: the target and a timestamp in seconds.
build_s3_key(t, second) == <<t, second>>

Inserted == Cardinality({j \in Jobs : job[j].key # NONE})

\* INSERT INTO backups; schedule_id is a foreign key, so it fails when the
\* plan is gone by now.  started_at and the key take the second of the clock,
\* which may or may not have moved since the last backup.
InsertBackup(j) ==
  /\ job[j].pc = "insert"
  /\ IF plan[job[j].plan] # NONE
     THEN /\ now' \in now .. MaxNow
          /\ backup' = [backup EXCEPT ![j] = [exists |-> TRUE, plan |-> job[j].plan,
                                              status |-> "running", seq |-> Inserted]]
          /\ job' = [job EXCEPT ![j].pc = "dump", ![j].key = build_s3_key(job[j].target, now')]
     ELSE job' = [job EXCEPT ![j] = Conclude(j)] /\ UNCHANGED <<backup, now>>
  /\ UNCHANGED <<dbVars, tick, in_flight, blobs, up, boundVars>>

\* The dump succeeded and its bytes are in object storage.
Upload(j) ==
  /\ job[j].pc = "dump"
  /\ blobs' = blobs \cup {job[j].key}
  /\ job' = [job EXCEPT ![j].pc = "uploaded"]
  /\ UNCHANGED <<dbVars, tick, in_flight, backup, now, up, boundVars>>

SetStatus(j, s) ==
  IF backup[j].exists THEN [backup EXCEPT ![j].status = s] ELSE backup

\* The dump failed, or the upload did or seemed to.
BackupFails(j) ==
  /\ job[j].pc \in {"dump", "uploaded"}
  /\ backup' = SetStatus(j, "failed")
  /\ job' = [job EXCEPT ![j] = Conclude(j)]
  /\ UNCHANGED <<dbVars, tick, in_flight, blobs, now, up, boundVars>>

\* ORDER BY started_at DESC; rows of the same second come in rowid order.
Before(c, d) ==
  \/ job[c].key[2] > job[d].key[2]
  \/ job[c].key[2] = job[d].key[2] /\ backup[c].seq < backup[d].seq

Completed(b, table) == {c \in Jobs : table[c].exists /\ table[c].plan = b /\ table[c].status = "completed"}

\* Mutant of Beyond: OFFSET retention - 1.
BeyondLess(b, n, table) ==
  {c \in Completed(b, table) : Cardinality({d \in Completed(b, table) : Before(d, c)}) + 1 >= n}

\* LIMIT -1 OFFSET retention.
Beyond(b, n, table) ==
  {c \in Completed(b, table) : Cardinality({d \in Completed(b, table) : Before(d, c)}) >= n}

\* Mutant of Complete: the row is marked while the dump is still on its way.
CompleteEarly(j) ==
  LET done == SetStatus(j, "completed") IN
  /\ job[j].pc \in {"dump", "uploaded"}
  /\ backup' = done
  /\ job' = [job EXCEPT ![j] =
       IF @.kind = "trigger" THEN Conclude(j)
       ELSE [@ EXCEPT !.pc = "sweep", !.sweep = Beyond(job[j].plan, job[j].retention, done)]]
  /\ UNCHANGED <<dbVars, tick, in_flight, blobs, now, up, boundVars>>

\* One lock: completed, plan.last_run_at, and the list of what to sweep.  The
\* retention count is the one read before the dump.  A trigger sweeps nothing.
Complete(j) ==
  LET done == SetStatus(j, "completed") IN
  /\ job[j].pc = "uploaded"
  /\ backup' = done
  /\ job' = [job EXCEPT ![j] =
       IF @.kind = "trigger" THEN Conclude(j)
       ELSE [@ EXCEPT !.pc = "sweep", !.sweep = Beyond(job[j].plan, job[j].retention, done)]]
  /\ UNCHANGED <<dbVars, tick, in_flight, blobs, now, up, boundVars>>

\* delete_blob answers, or fails with the blob still there or already gone.
BlobsAfterDelete(key) == {blobs, blobs \ {key}}

\* Next victim: its blob first (a failure is only logged) ...
SweepBlob(j) ==
  /\ job[j].pc = "sweep"
  /\ \E v \in job[j].sweep :
       /\ \A w \in job[j].sweep \ {v} : Before(v, w)
       /\ blobs' \in BlobsAfterDelete(job[v].key)
       /\ job' = [job EXCEPT ![j].pc = "sweeprow", ![j].victim = v]
  /\ UNCHANGED <<dbVars, tick, in_flight, backup, now, up, boundVars>>

\* ... then its row.
SweepRow(j) ==
  /\ job[j].pc = "sweeprow"
  /\ backup' = [backup EXCEPT ![job[j].victim] = [@ EXCEPT !.exists = FALSE]]
  /\ job' = [job EXCEPT ![j].pc = "sweep", ![j].sweep = @ \ {job[j].victim}, ![j].victim = NONE]
  /\ UNCHANGED <<dbVars, tick, in_flight, blobs, now, up, boundVars>>

SweepDone(j) ==
  /\ job[j].pc = "sweep" /\ job[j].sweep = {}
  /\ job' = [job EXCEPT ![j] = Conclude(j)]
  /\ UNCHANGED <<dbVars, tick, in_flight, backup, blobs, now, up, boundVars>>

\* DELETE /backups/{id}, whatever the backup's status.
DeleteBackup(v, j) ==
  /\ up /\ "delete_backup" \in Requests /\ job[j] = Idle /\ backup[v].exists
  /\ job' = [job EXCEPT ![j] = [Idle EXCEPT !.pc = "delete", !.kind = "delete", !.victim = v]]
  /\ UNCHANGED <<dbVars, tick, in_flight, backup, blobs, now, up, boundVars>>

\* A storage error ends the handler and leaves the row.
DeleteBlob(j) ==
  /\ job[j].pc = "delete"
  /\ blobs' \in BlobsAfterDelete(job[job[j].victim].key)
  /\ \E pc \in {"done", "deleterow"} : job' = [job EXCEPT ![j].pc = pc]
  /\ UNCHANGED <<dbVars, tick, in_flight, backup, now, up, boundVars>>

DeleteRow(j) ==
  /\ job[j].pc = "deleterow"
  /\ backup' = [backup EXCEPT ![job[j].victim] = [@ EXCEPT !.exists = FALSE]]
  /\ job' = [job EXCEPT ![j].pc = "done"]
  /\ UNCHANGED <<dbVars, tick, in_flight, blobs, now, up, boundVars>>

\* run_now and delete_backup run inside their request: a client that goes
\* away ends them at whatever they are waiting for.
DropHandler(j) ==
  /\ drops < MaxDrops /\ drops' = drops + 1
  /\ job[j].kind \in {"now", "delete"}
  /\ \/ job[j].pc \in {"dump", "uploaded", "sweep", "sweeprow", "report", "delete", "deleterow"}
     \/ job[j].pc = "fire" /\ job[j].action = "other"
  /\ job' = [job EXCEPT ![j] = Ended(j, "dead")]
  /\ UNCHANGED <<dbVars, tick, in_flight, backup, blobs, now, up, edits, crashes>>

-----------------------------------------------------------------------------
(* Operator edits: api/backups.rs and api/schedules.rs.                     *)

Edit(request) ==
  /\ up /\ request \in Requests /\ edits < MaxEdits /\ edits' = edits + 1
  /\ UNCHANGED <<tick, in_flight, job, blobs, now, up, crashes, drops>>

\* sync_unified_for_backup: the mirror is inserted or overwritten.
Mirror(b, p) ==
  [exists |-> TRUE, cron |-> p.cron, enabled |-> p.active, action |-> b,
   next |-> next_fire(p.cron)]

\* schedule_id REFERENCES backup_schedules ON DELETE SET NULL.
Unlinked(gone) ==
  [j \in Jobs |-> IF backup[j].plan \in gone THEN [backup[j] EXCEPT !.plan = NONE] ELSE backup[j]]

PlansOf(t) == {a \in Plans : plan[a] # NONE /\ plan[a].target = t}

\* Create or replace: the plan of the same target is deleted, a new one is
\* inserted and mirrored.  The mirror of the deleted plan stays.
CreatePlan(b, p) ==
  LET gone == PlansOf(p.target) IN
  /\ Edit("create_schedule") /\ b \notin minted
  /\ minted' = minted \cup {b}
  /\ plan' = [a \in Plans |-> IF a = b THEN p ELSE IF a \in gone THEN NONE ELSE plan[a]]
  /\ backup' = Unlinked(gone)
  /\ sched' = [sched EXCEPT ![b] = Mirror(b, p)]
  /\ UNCHANGED touched

\* The INSERT fails (a storage that does not exist): the deletion is not undone.
CreatePlanFails(t) ==
  /\ Edit("create_schedule")
  /\ plan' = [a \in Plans |-> IF a \in PlansOf(t) THEN NONE ELSE plan[a]]
  /\ backup' = Unlinked(PlansOf(t))
  /\ UNCHANGED <<minted, sched, touched>>

\* Mutant of MirrorAfterUpdate: the mirror is forgotten.
NoSync(b, p) == sched

MirrorAfterUpdate(b, p) == [sched EXCEPT ![b] = Mirror(b, p)]

\* Any of cron, retention and is_active, then the mirror.
UpdatePlan(b, p) ==
  /\ Edit("update_schedule") /\ plan[b] # NONE /\ p.target = plan[b].target
  /\ plan' = [plan EXCEPT ![b] = p]
  /\ sched' = MirrorAfterUpdate(b, p)
  /\ touched' = touched \ {b}
  /\ UNCHANGED <<minted, backup>>

\* Also for the id of a plan that was replaced: its mirror goes.
DeletePlan(b) ==
  /\ Edit("delete_schedule") /\ b \in minted
  /\ plan' = [plan EXCEPT ![b] = NONE]
  /\ backup' = Unlinked({b})
  /\ sched' = [sched EXCEPT ![b] = NoRow]
  /\ touched' = touched \ {b}
  /\ UNCHANGED minted

\* POST /schedules.
CreateRow(s, c, a, e) ==
  /\ Edit("create") /\ s \in UserRows \ minted
  /\ minted' = minted \cup {s}
  /\ sched' = [sched EXCEPT ![s] = Created(c, a, e)]
  /\ UNCHANGED <<plan, backup, touched>>

\* action_config may name any other plan, there or not; action_type stays.
Reconfigured(a) == IF a \in Plans THEN Plans ELSE {"other"}

\* PUT /schedules/{id}, /enable, /disable: a new cron also sets next_run_at.
UpdateRow(s) ==
  /\ Edit("update") /\ sched[s].exists
  /\ \E a \in Reconfigured(sched[s].action), e \in BOOLEAN :
     \E r \in {sched[s]} \cup {[sched[s] EXCEPT !.cron = c, !.next = next_fire(c)] : c \in Crons} :
        sched' = [sched EXCEPT ![s] = [r EXCEPT !.action = a, !.enabled = e]]
  /\ touched' = touched \cup ({s} \cap Plans)
  /\ UNCHANGED <<plan, minted, backup>>

\* is_system: a mirror cannot be deleted here.
Deletable(s) == s \in UserRows

RemoveRow(s) ==
  /\ Edit("remove") /\ sched[s].exists /\ Deletable(s)
  /\ sched' = [sched EXCEPT ![s] = NoRow]
  /\ UNCHANGED <<plan, minted, backup, touched>>

PlanValues == [target : Targets, cron : Crons, retention : Retentions, active : BOOLEAN]

JobStep(j) ==
  \/ Dispatch(j) \/ OtherAction(j) \/ Report(j) \/ Release(j)
  \/ InsertBackup(j) \/ Upload(j) \/ BackupFails(j) \/ Complete(j)
  \/ SweepBlob(j) \/ SweepRow(j) \/ SweepDone(j)
  \/ DeleteBlob(j) \/ DeleteRow(j)

Handler(j) ==
  \/ \E s \in Rows : RunNow(s, j)
  \/ \E t \in Targets : Trigger(t, j)
  \/ \E v \in Jobs : DeleteBackup(v, j)
  \/ DropHandler(j)

Operator ==
  \/ \E b \in Plans, p \in PlanValues : (p.active /\ CreatePlan(b, p)) \/ UpdatePlan(b, p)
  \/ \E b \in Plans : DeletePlan(b)
  \/ \E t \in Targets : CreatePlanFails(t)
  \/ \E s \in UserRows, c \in Crons, a \in Actions, e \in BOOLEAN : CreateRow(s, c, a, e)
  \/ \E s \in Rows : UpdateRow(s) \/ RemoveRow(s)

TickStep(r) == TickSkip(r) \/ \E j \in Jobs : TickFire(r, j)

Next ==
  \/ Crash \/ Boot \/ Tick \/ Operator
  \/ \E s \in Rows : BecomeDue(s)
  \/ \E r \in tick : TickStep(r)
  \/ \E j \in Jobs : JobStep(j) \/ Handler(j)

Spec == Init /\ [][Next]_vars

\* The service manager restarts the core, time passes, the tick loop runs and
\* docker, psql and the object store answer or fail.
FairSpec ==
  /\ Spec /\ WF_vars(Boot) /\ WF_vars(Tick)
  /\ WF_vars(\E r \in tick : TickStep(r))
  /\ \A s \in Rows : WF_vars(BecomeDue(s))
  /\ \A j \in Jobs : WF_vars(JobStep(j))

-----------------------------------------------------------------------------
(* Properties.                                                              *)

Kinds == {NONE, "cron", "now", "trigger", "delete"}
Keys == Targets \X (0 .. MaxNow)
ASSUME NoneIsNoKey == NONE \notin Keys
NextRuns == {Never} \cup [at : {"later", "due"}, from : Crons]
RowValues == [exists : BOOLEAN, cron : Crons \cup {NONE}, enabled : BOOLEAN,
              action : Actions, next : NextRuns]
Listed == [sid : Rows, cron : Crons, action : Actions]
PCs == {"idle", "fire", "insert", "dump", "uploaded", "sweep", "sweeprow",
        "report", "release", "delete", "deleterow", "done", "dead"}
JobValues == [pc : PCs, kind : Kinds, sid : Rows \cup {NONE}, cron : Crons \cup {NONE},
              action : Actions, plan : Plans \cup {NONE}, target : Targets \cup {NONE},
              retention : Retentions \cup {0}, key : Keys \cup {NONE}, sweep : SUBSET Jobs,
              victim : Jobs \cup {NONE}]
BackupValues == [exists : BOOLEAN, plan : Plans \cup {NONE},
                 status : {"none", "running", "failed", "completed"}, seq : Nat]

\* Tables, tasks and storage keep their shape: a fire of a row that no longer
\* exists, a sweep of a deleted backup and a stale tick list included.
SchedTypeOK ==
  /\ plan \in [Plans -> PlanValues \cup {NONE}]
  /\ sched \in [Rows -> RowValues]
  /\ \A s \in Rows : sched[s].exists => sched[s].cron # NONE
  /\ minted \subseteq Rows /\ touched \subseteq Plans
  /\ tick \subseteq Listed /\ in_flight \subseteq Rows
  /\ job \in [Jobs -> JobValues] /\ backup \in [Jobs -> BackupValues]
  /\ blobs \subseteq Keys /\ now \in 0 .. MaxNow /\ up \in BOOLEAN
  /\ edits \in 0 .. MaxEdits /\ crashes \in 0 .. MaxCrashes /\ drops \in 0 .. MaxDrops

CronFire(j, s) == Running(j) /\ job[j].kind = "cron" /\ job[j].sid = s

\* The double-fire guard of run_tick (runner.rs): whatever the ticks, edits,
\* deletions and restarts in between, a schedule never has two cron fires at
\* once, and it is in in_flight exactly while it has one.
OneFirePerSchedule ==
  \A s \in Rows :
    /\ s \in in_flight <=> \E j \in Jobs : CronFire(j, s)
    /\ \A i, j \in Jobs : CronFire(i, s) /\ CronFire(j, s) => i = j

\* Some other backup of the same target began in the same second: the two
\* have one key and one blob.
SharesKey(b) == \E c \in Jobs \ {b} : job[c].key = job[b].key

DeletionBegun(b) == \E j \in Jobs : job[j].victim = b

\* A backup the panel lists as completed can be restored: its blob is in
\* storage, unless a deletion of this very backup has begun (and perhaps died
\* half way), or a backup of the same second shares its key.  Neither sweeps
\* of other backups, overlapping runs, deletes of running backups nor crashes
\* take it away.
CompletedIsRestorable ==
  \A b \in Jobs :
    backup[b].exists /\ backup[b].status = "completed" /\ ~SharesKey(b) /\ ~DeletionBegun(b)
      => job[b].key \in blobs

\* Retention keeps at least one backup (for counts of 1 and more): once a
\* backup of a plan has completed, overlapping fires, manual triggers and
\* half-finished sweeps, each with a list of its own to delete, never leave
\* the plan without a completed backup.  Only delete_backup may.
PlanKeepsABackup ==
  \A b \in Plans :
    /\ \E j \in Jobs : job[j].plan = b /\ backup[j].status = "completed"
    /\ ~ \E j \in Jobs : job[j].kind = "delete" /\ job[job[j].victim].plan = b
    => \E c \in Jobs : job[c].plan = b /\ backup[c].exists /\ backup[c].status = "completed"

\* Every plan is mirrored by the row that fires it, and nothing but an edit of
\* that row through /schedules makes it differ from the plan
\* (sync_unified_for_backup; is_system rows cannot be deleted).
PlanIsScheduled ==
  \A b \in Plans : plan[b] # NONE =>
    /\ sched[b].exists
    /\ b \notin touched =>
         sched[b].cron = plan[b].cron /\ sched[b].enabled = plan[b].active /\ sched[b].action = b

\* A schedule in flight is released, even when its row is edited or deleted,
\* its action fails, or the core restarts; otherwise every later tick would
\* skip it.
FiresFinish == \A s \in Rows : s \in in_flight ~> s \notin in_flight

\* An enabled schedule is fired, also one the migration left without
\* next_run_at, unless it is disabled or deleted first.  (Jobs is a bound: the
\* claim ends when all have been used.)
EnabledSchedulesFire ==
  \A s \in Rows :
    (sched[s].exists /\ sched[s].enabled) ~>
      \/ ~sched[s].exists \/ ~sched[s].enabled
      \/ \E j \in Jobs : job[j].kind = "cron" /\ job[j].sid = s
      \/ \A j \in Jobs : job[j] # Idle
=============================================================================
