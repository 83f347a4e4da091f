---------------------------- MODULE ServiceDeploy ----------------------------
(* The life of one service: the deploy pipeline of a git service, the       *)
(* compose deploy of a catalog or raw-compose service, the lifecycle        *)
(* handlers (stop, start, restart, redeploy, rollback, env save, remove),   *)
(* cancellation, and the boot-time reconciliation after a crash.            *)
(*                                                                          *)
(* Every operation is a task.  A step of a task is what the code does       *)
(* between two awaits: one scope of the SQLite mutex, one file operation    *)
(* of the stack directory, or one docker command; all tasks interleave.     *)
(* A spawned task runs to its end or until the process dies; a task that    *)
(* runs inside an HTTP handler is also dropped when its client goes away.   *)
EXTENDS Naturals, FiniteSets

CONSTANTS
  Tasks,            \* operations that may be started; a task that opens a
                    \* deployments row is that row's id
  Images,           \* image tags (the YAML that runs an image stands for it)
  MaxEnv,           \* env_json is a version 0..MaxEnv; 0 is the empty map
  Permits,          \* permits of railpack_build_semaphore
  MaxCrashes,       \* bound: process deaths in a behaviour
  MaxDrops,         \* bound: handlers dropped by their client
  Strategies,       \* the kinds of service the instance starts from
  Requests,         \* the API requests the instance makes
  NONE              \* SQL NULL, a missing file, no container

Pipelines == {"dockerfile", "docker-compose", "railpack"}

AllStrategies == Pipelines \cup {"catalog", "compose"}

Inline == {"rollback", "stop", "start", "restart", "redeploy",
           "envsave", "envdeploy", "remove"}

Creates == {"create", "composeCreate"}

Kinds == {"none"} \cup Pipelines \cup Inline \cup Creates

Steps == {"idle", "log", "record", "down", "deploying", "envRead", "envWrite",
          "clone", "envRead2", "envWrite2", "copy", "wipe", "move", "permit",
          "build", "file", "up", "save", "swap", "publish", "rmdir", "delete",
          "finish", "done"}

Envs == 0..MaxEnv

ASSUME ConstantsOK ==
  /\ NONE \notin Images
  /\ Images # {}
  /\ MaxEnv \in Nat
  /\ Permits \in Nat \ {0}
  /\ MaxCrashes \in Nat
  /\ MaxDrops \in Nat
  /\ Strategies \subseteq AllStrategies
  /\ IsFiniteSet(Tasks)

VARIABLES
  svc,              \* the services row (status "gone" once deleted)
  deployments,      \* deployments[t]: status of row t, "none" if absent
  logs,             \* logs[t]: deployment_logs row opened by a create task
  disk,             \* stacks/pier-<name>: docker-compose.yml and .env
  live,             \* the running container: image and env it was created with
  task,             \* the tasks
  held,             \* tasks that hold a railpack build permit
  boot,             \* deploy_reconcile of the current process: its phase,
                    \* whether it saw the container running, and (history)
                    \* the tasks that were live when it read its list
  crashes, drops,   \* how often the process died, a handler was dropped
  calm              \* history: so far one operation at a time, undisturbed

vars == <<svc, deployments, logs, disk, live, task, held, boot, crashes,
          drops, calm>>

Nothing == [img |-> NONE, env |-> 0]

IdleTask == [kind |-> "none", pc |-> "idle", img |-> NONE, old |-> NONE,
             env |-> 0, ok |-> TRUE]

Booted == [phase |-> "idle", running |-> FALSE]

Exists == svc.status # "gone"

Git == svc.strategy \in Pipelines

Live(t) == task[t].pc \notin {"idle", "done"}

At(t, s) == task[t].pc = s

InProgress == {t \in Tasks : deployments[t] = "building"}

\* UPDATE services SET ... WHERE id = ?: no row, no effect.
Updated(row) == IF Exists THEN row ELSE svc

-----------------------------------------------------------------------------
(* The order of the steps of each kind of task.                             *)

AfterClone(k) == CASE k = "docker-compose" -> "envRead2"
                   [] k = "railpack"       -> "permit"
                   [] OTHER                -> "build"

AfterDown(k) == CASE k = "stop"     -> "finish"
                  [] k = "remove"   -> "rmdir"
                  [] k = "redeploy" -> "deploying"
                  [] OTHER          -> "envRead"

AfterEnv(k) == CASE k \in Pipelines   -> "clone"
                 [] k = "envsave"     -> "done"
                 [] k = "envdeploy"   -> "deploying"
                 [] OTHER             -> "file"

AfterUp(k) == CASE k \in Pipelines                        -> "save"
                [] k = "rollback"                         -> "swap"
                [] k \in {"redeploy", "composeCreate"}    -> "publish"
                [] OTHER                                  -> "finish"

Goto(t, s) == [task EXCEPT ![t].pc = s]

Fail(t) == [task EXCEPT ![t].pc = "finish", ![t].ok = FALSE]

\* A task that ends keeps only its kind and the row it opened.
Ended(t) == [task EXCEPT ![t] = [IdleTask EXCEPT !.kind = task[t].kind,
                                                 !.pc = "done"]]

-----------------------------------------------------------------------------
(* Initial states: a git or catalog service that is up and running, or a    *)
(* service just inserted at 'deploying' whose create task was spawned.      *)

Row(status, strategy, image, compose) ==
  [status |-> status, strategy |-> strategy, image |-> image, prev |-> NONE,
   compose |-> compose, env |-> 0, dirty |-> FALSE]

Established(i, k) ==
  /\ svc = Row("running", k, i, i)
  /\ disk = [img |-> i, env |-> 0]
  /\ live = [img |-> i, env |-> 0]
  /\ task = [t \in Tasks |-> IdleTask]

Created(i, k, t) ==
  /\ svc = Row("deploying", k, NONE, i)
  /\ disk = Nothing
  /\ live = Nothing
  /\ task = [u \in Tasks |->
               IF u = t
               THEN [IdleTask EXCEPT
                       !.kind = IF k = "compose" THEN "composeCreate" ELSE "create",
                       !.pc = "log", !.img = i]
               ELSE IdleTask]

Init ==
  /\ \E i \in Images, k \in Strategies :
        \/ Established(i, k)
        \/ k \notin Pipelines /\ \E t \in Tasks : Created(i, k, t)
  /\ deployments = [t \in Tasks |-> "none"]
  /\ logs = [t \in Tasks |-> "none"]
  /\ held = {}
  /\ boot = Booted
  /\ crashes = 0
  /\ drops = 0
  /\ calm = TRUE

-----------------------------------------------------------------------------
(* API requests.  Each starts a task after the handler's own checks.        *)

Begin(t, k, s, i, o) ==
  /\ At(t, "idle")
  /\ task' = [task EXCEPT ![t] = [kind |-> k, pc |-> s, img |-> i, old |-> o,
                                  env |-> 0, ok |-> TRUE]]
  /\ calm' = (calm /\ boot.phase = "idle" /\ \A u \in Tasks : ~Live(u))
  /\ UNCHANGED <<deployments, logs, disk, live, held, boot, crashes, drops>>

\* Manual deploy, CI deploy and a push webhook: spawn the pipeline.
ManualDeploy(t, i) ==
  /\ "deploy" \in Requests /\ Exists /\ Git
  /\ Begin(t, svc.strategy, "record", i, NONE)
  /\ UNCHANGED svc

\* Redeploy of a git service: status first, then the spawned pipeline.
RedeployGit(t, i) ==
  /\ "redeploy" \in Requests /\ Exists /\ Git
  /\ Begin(t, svc.strategy, "record", i, NONE)
  /\ svc' = [svc EXCEPT !.status = "deploying"]

\* Redeploy of a catalog service: inline, from the stored compose content.
RedeployCompose(t) ==
  /\ "redeploy" \in Requests /\ Exists /\ ~Git /\ svc.compose # NONE
  /\ Begin(t, "redeploy", "down", svc.compose, NONE)
  /\ UNCHANGED svc

Stop(t) ==
  /\ "stop" \in Requests /\ Exists
  /\ Begin(t, "stop", "down", NONE, NONE)
  /\ UNCHANGED svc

Start(t) ==
  /\ "start" \in Requests /\ Exists /\ svc.compose # NONE
  /\ Begin(t, "start", "envRead", svc.compose, NONE)
  /\ UNCHANGED svc

Restart(t) ==
  /\ "restart" \in Requests /\ Exists /\ svc.compose # NONE
  /\ Begin(t, "restart", "down", svc.compose, NONE)
  /\ UNCHANGED svc

\* The handler reads both tags; without a previous one it refuses.
Rollback(t) ==
  /\ "rollback" \in Requests /\ Exists /\ svc.prev # NONE
  /\ Begin(t, "rollback", "record", svc.prev, svc.image)
  /\ UNCHANGED svc

\* Saving the environment stores it and marks it not yet applied.
SaveEnv(t, e, redeploy) ==
  /\ "env" \in Requests /\ Exists
  /\ Begin(t, IF redeploy THEN "envdeploy" ELSE "envsave", "envRead",
           svc.compose, NONE)
  /\ svc' = [svc EXCEPT !.env = e, !.dirty = TRUE]

Remove(t) ==
  /\ "remove" \in Requests /\ Exists
  /\ Begin(t, "remove", "down", NONE, NONE)
  /\ UNCHANGED svc

\* Mutant of LastInProgress: the rows are counted before the UPDATE.
NoneInProgress(d) == InProgress = {}

\* still_active = 0 once row d is closed.
LastInProgress(d) == InProgress \subseteq {d}

\* Cancelling closes the row; the build task behind it keeps running.
Cancel(d) ==
  /\ "cancel" \in Requests
  /\ deployments[d] = "building"
  /\ deployments' = [deployments EXCEPT ![d] = "cancelled"]
  /\ svc' = IF LastInProgress(d) /\ svc.status = "deploying"
            THEN [svc EXCEPT !.status = "running"]
            ELSE svc
  /\ calm' = FALSE
  /\ UNCHANGED <<logs, disk, live, task, held, boot, crashes, drops>>

-----------------------------------------------------------------------------
(* Steps of the tasks.                                                      *)

\* A create task opens its Action History row before it deploys.
OpenLog(t) ==
  /\ At(t, "log")
  /\ logs' = IF Exists THEN [logs EXCEPT ![t] = "running"] ELSE logs
  /\ task' = Goto(t, "envRead")
  /\ UNCHANGED <<svc, deployments, disk, live, held, boot, crashes, drops, calm>>

\* Mutant of Superseded: the rows in progress are left alone.
OnlyOpened(t) == [deployments EXCEPT ![t] = "building"]

\* UPDATE deployments SET status = 'cancelled' ..., then INSERT.
Superseded(t) == [d \in Tasks |-> IF d = t THEN "building"
                                 ELSE IF d \in InProgress THEN "cancelled"
                                 ELSE deployments[d]]

\* The pipeline re-reads the service (gone: it returns), supersedes every
\* row in progress, opens its own and marks the service, in one lock scope.
RecordPipeline(t) ==
  /\ At(t, "record") /\ task[t].kind \in Pipelines
  /\ \/ /\ Exists
        /\ deployments' = Superseded(t)
        /\ svc' = [svc EXCEPT !.status = "deploying"]
        /\ task' = Goto(t, "envRead")
     \/ /\ ~Exists
        /\ task' = Ended(t)
        /\ UNCHANGED <<svc, deployments>>
  /\ UNCHANGED <<logs, disk, live, held, boot, crashes, drops, calm>>

\* A rollback opens its row without superseding the others.  The foreign
\* key rejects the row of a deleted service; that error is ignored.
RecordRollback(t) ==
  /\ At(t, "record") /\ task[t].kind = "rollback"
  /\ deployments' = IF Exists THEN [deployments EXCEPT ![t] = "building"]
                              ELSE deployments
  /\ svc' = Updated([svc EXCEPT !.status = "deploying"])
  /\ task' = Goto(t, "down")
  /\ UNCHANGED <<logs, disk, live, held, boot, crashes, drops, calm>>

\* docker compose down.  It errs when there is no compose file or docker
\* cannot be spawned; the exit status of the command is never looked at, so
\* a `down` that failed also counts as done.  Only stop keeps the result.
Down(t) ==
  /\ At(t, "down")
  /\ \E ran \in BOOLEAN :
       /\ ran => disk.img # NONE
       /\ live' \in IF ran THEN {Nothing, live} ELSE {live}
       /\ task' = [task EXCEPT ![t].pc = AfterDown(task[t].kind),
                               ![t].ok = (task[t].kind = "stop" => ran)]
  /\ UNCHANGED <<svc, deployments, logs, disk, held, boot, crashes, drops, calm>>

\* Redeploy and "Save & Redeploy" mark the service; the latter also stores
\* the regenerated YAML, or hands a git service over to a spawned pipeline.
MarkDeploying(t) ==
  /\ At(t, "deploying")
  /\ \/ /\ task[t].kind = "redeploy"
        /\ svc' = Updated([svc EXCEPT !.status = "deploying"])
        /\ task' = Goto(t, "envRead")
     \/ /\ task[t].kind = "envdeploy" /\ Git
        /\ svc' = Updated([svc EXCEPT !.status = "deploying"])
        /\ \E i \in Images :
             task' = [task EXCEPT ![t].kind = svc.strategy,
                                  ![t].pc = "record", ![t].img = i]
     \/ /\ task[t].kind = "envdeploy" /\ ~Git /\ task[t].img # NONE
        /\ svc' = Updated([svc EXCEPT !.status = "deploying",
                                      !.compose = task[t].img])
        /\ task' = Goto(t, "envRead2")
     \/ /\ task[t].kind = "envdeploy" /\ ~Git /\ task[t].img = NONE
        /\ task' = Ended(t)
        /\ UNCHANGED svc
  /\ UNCHANGED <<deployments, logs, disk, live, held, boot, crashes, drops, calm>>

\* Mutant of StoredEnv: a missing row is not mapped to the empty environment.
StoredEnvOrNull == IF Exists THEN svc.env ELSE NONE

\* SELECT env_json: a missing row or NULL gives the empty environment.
StoredEnv == IF Exists THEN svc.env ELSE 0

\* write_env_file reads env_json under the lock ...
EnvRead(t) ==
  /\ task[t].pc \in {"envRead", "envRead2"}
  /\ task' = [task EXCEPT
                ![t].pc = IF At(t, "envRead") THEN "envWrite" ELSE "envWrite2",
                ![t].env = StoredEnv]
  /\ UNCHANGED <<svc, deployments, logs, disk, live, held, boot, crashes,
                 drops, calm>>

\* ... and replaces .env (temporary file and rename) after awaits.
EnvWrite(t) ==
  /\ task[t].pc \in {"envWrite", "envWrite2"}
  /\ disk' = [disk EXCEPT !.env = task[t].env]
  /\ LET s == IF At(t, "envWrite") THEN AfterEnv(task[t].kind)
              ELSE IF task[t].kind \in Pipelines THEN "copy" ELSE "file"
     IN task' = IF s = "done" THEN Ended(t) ELSE Goto(t, s)
  /\ UNCHANGED <<svc, deployments, logs, live, held, boot, crashes, drops, calm>>

\* Clone URL, git clone, root_path and compose_path: each can fail.
Clone(t) ==
  /\ At(t, "clone")
  /\ task' \in {Goto(t, AfterClone(task[t].kind)), Fail(t)}
  /\ UNCHANGED <<svc, deployments, logs, disk, live, held, boot, crashes,
                 drops, calm>>

\* Railpack builds wait for a permit and keep it for the match arm.
AcquirePermit(t) ==
  /\ At(t, "permit")
  /\ Cardinality(held) < Permits
  /\ held' = held \cup {t}
  /\ task' = Goto(t, "build")
  /\ UNCHANGED <<svc, deployments, logs, disk, live, boot, crashes, drops, calm>>

Build(t) ==
  /\ At(t, "build")
  /\ task' \in {Goto(t, "file"), Fail(t)}
  /\ UNCHANGED <<svc, deployments, logs, disk, live, held, boot, crashes,
                 drops, calm>>

\* docker-compose strategy: the clone, with a copy of the stack's .env,
\* replaces the stack directory.
CopyEnv(t) ==
  /\ At(t, "copy")
  /\ task' = [task EXCEPT ![t].pc = "wipe", ![t].env = disk.env]
  /\ UNCHANGED <<svc, deployments, logs, disk, live, held, boot, crashes,
                 drops, calm>>

WipeStackDir(t) ==
  /\ At(t, "wipe")
  /\ disk' = Nothing
  /\ task' = Goto(t, "move")
  /\ UNCHANGED <<svc, deployments, logs, live, held, boot, crashes, drops, calm>>

MoveContext(t) ==
  /\ At(t, "move")
  /\ disk' = [img |-> task[t].img, env |-> task[t].env]
  /\ task' = Goto(t, "up")
  /\ UNCHANGED <<svc, deployments, logs, live, held, boot, crashes, drops, calm>>

\* deploy_stack writes docker-compose.yml ...
WriteCompose(t) ==
  /\ At(t, "file")
  /\ disk' = [disk EXCEPT !.img = task[t].img]
  /\ task' = Goto(t, "up")
  /\ UNCHANGED <<svc, deployments, logs, live, held, boot, crashes, drops, calm>>

\* ... and runs `docker compose up`, which starts what the two files say at
\* that moment.  A failed `up` may leave the old container, none, or the
\* new one.  Success leaves the railpack arm and returns its permit.
Up(t) ==
  /\ At(t, "up")
  /\ \/ /\ disk.img # NONE
        /\ live' = disk
        /\ task' = Goto(t, AfterUp(task[t].kind))
        /\ held' = held \ {t}
     \/ /\ live' \in {live, Nothing, disk}
        /\ task' = Fail(t)
        /\ UNCHANGED held
  /\ UNCHANGED <<svc, deployments, logs, disk, boot, crashes, drops, calm>>

\* The pipeline records its image and whatever compose file is on disk,
\* also when its row was superseded meanwhile.
SaveImage(t) ==
  /\ At(t, "save")
  /\ svc' = Updated([svc EXCEPT !.prev = svc.image, !.image = task[t].img,
                                !.compose = disk.img])
  /\ task' = [task EXCEPT ![t].pc = "publish", ![t].old = disk.img]
  /\ UNCHANGED <<deployments, logs, disk, live, held, boot, crashes, drops, calm>>

\* Mutant of Swapped: the stored compose content keeps the newer image.
SwappedTags(t) == [svc EXCEPT !.image = task[t].img, !.prev = task[t].old]

Swapped(t) == [svc EXCEPT !.image = task[t].img, !.prev = task[t].old,
                          !.compose = task[t].img]

\* The rollback swaps the tags it read when it started.
SwapImage(t) ==
  /\ At(t, "swap")
  /\ svc' = Updated(Swapped(t))
  /\ task' = Goto(t, "finish")
  /\ UNCHANGED <<deployments, logs, disk, live, held, boot, crashes, drops, calm>>

\* The YAML the second `up` of a task runs: what the pipeline read back from
\* disk, or the YAML the other kinds deployed in the first place.
PublishedYaml(t) == IF task[t].kind \in Pipelines THEN task[t].old ELSE task[t].img

\* persist_env_from_disk: an empty env_json is filled from .env.
EnvFromDisk(row, e) == IF row.env = 0 /\ Exists THEN [row EXCEPT !.env = e] ELSE row

\* Ports found in the image cost a second `up` (a failure is only logged);
\* then a pipeline copies .env back into an empty env_json.
Publish(t) ==
  /\ At(t, "publish")
  /\ \/ UNCHANGED <<disk, live, calm>>
     \/ /\ disk' = [img |-> PublishedYaml(t), env |-> StoredEnv]
        /\ \/ disk'.img # NONE /\ live' = disk' /\ UNCHANGED calm
           \/ live' \in {live, Nothing, disk'} /\ calm' = FALSE
  /\ svc' = IF task[t].kind \in Pipelines THEN EnvFromDisk(svc, disk'.env) ELSE svc
  /\ task' = Goto(t, "finish")
  /\ UNCHANGED <<deployments, logs, held, boot, crashes, drops>>

\* Mutant of StillOpen: the row is finalised whatever happened to it.
OpenOrClosed(t) == deployments[t] # "none"

\* ... WHERE id = ? AND status IN ('building', 'pending')
StillOpen(t) == deployments[t] = "building"

\* Mutant of Released: an error return forgets the permit.
ReleasedOnSuccess(t) == IF task[t].ok THEN held \ {t} ELSE held

\* The permit is dropped when the pipeline returns.
Released(t) == held \ {t}

\* finish_deployment: only a row still in progress is finalised, and only
\* then is the service touched.  An error return drops the build permit.
FinishDeployment(t) ==
  /\ At(t, "finish") /\ task[t].kind \in Pipelines \cup {"rollback"}
  /\ IF StillOpen(t)
     THEN /\ deployments' = [deployments EXCEPT
                               ![t] = IF task[t].ok THEN "success" ELSE "failed"]
          /\ svc' = [svc EXCEPT !.status = IF task[t].ok THEN "running" ELSE "failed",
                                !.dirty = svc.dirty /\ ~task[t].ok]
     ELSE UNCHANGED <<deployments, svc>>
  /\ task' = Ended(t)
  /\ held' = Released(t)
  /\ UNCHANGED <<logs, disk, live, boot, crashes, drops, calm>>

\* A create task settles the row only if it is still 'deploying'.
FinishCreate(t) ==
  /\ At(t, "finish") /\ task[t].kind \in Creates
  /\ svc' = IF svc.status = "deploying"
            THEN [svc EXCEPT !.status = IF task[t].ok THEN "running" ELSE "failed"]
            ELSE svc
  /\ logs' = IF logs[t] = "none" THEN logs
             ELSE [logs EXCEPT ![t] = IF task[t].ok THEN "success" ELSE "failed"]
  /\ task' = Ended(t)
  /\ UNCHANGED <<deployments, disk, live, held, boot, crashes, drops, calm>>

\* start, restart, redeploy and "Save & Redeploy" write status and env_dirty
\* unconditionally.
FinishInline(t) ==
  /\ At(t, "finish")
  /\ task[t].kind \in {"start", "restart", "redeploy", "envdeploy"}
  /\ svc' = Updated([svc EXCEPT
                       !.status = IF task[t].ok THEN "running" ELSE "failed",
                       !.dirty = ~task[t].ok])
  /\ task' = Ended(t)
  /\ UNCHANGED <<deployments, logs, disk, live, held, boot, crashes, drops, calm>>

\* A stop whose `down` returned an error leaves the status alone.
FinishStop(t) ==
  /\ At(t, "finish") /\ task[t].kind = "stop"
  /\ svc' = IF task[t].ok THEN Updated([svc EXCEPT !.status = "stopped"]) ELSE svc
  /\ task' = Ended(t)
  /\ UNCHANGED <<deployments, logs, disk, live, held, boot, crashes, drops, calm>>

RemoveStackDir(t) ==
  /\ At(t, "rmdir")
  /\ disk' = Nothing
  /\ task' = Goto(t, "delete")
  /\ UNCHANGED <<svc, deployments, logs, live, held, boot, crashes, drops, calm>>

\* DELETE FROM services cascades to deployments and deployment_logs.
DeleteService(t) ==
  /\ At(t, "delete")
  /\ svc' = [svc EXCEPT !.status = "gone"]
  /\ deployments' = [d \in Tasks |-> "none"]
  /\ logs' = [d \in Tasks |-> "none"]
  /\ task' = Ended(t)
  /\ UNCHANGED <<disk, live, held, boot, crashes, drops, calm>>

-----------------------------------------------------------------------------
(* Failures and recovery.                                                   *)

\* What docker may still do after whoever started it is gone.
Orphaned(T) == (IF \E t \in T : At(t, "up") THEN {Nothing, disk} ELSE {})
               \cup (IF \E t \in T : At(t, "down") THEN {Nothing} ELSE {})
               \cup {live}

\* axum drops a handler whose client went away, at the await it is in.
DropHandler(t) ==
  /\ drops < MaxDrops
  /\ task[t].kind \in Inline
  /\ task[t].pc \in {"down", "envWrite", "envWrite2", "file", "up", "publish",
                     "rmdir"}
  /\ live' \in Orphaned({t})
  /\ task' = Ended(t)
  /\ drops' = drops + 1
  /\ calm' = FALSE
  /\ UNCHANGED <<svc, deployments, logs, disk, held, boot, crashes>>

\* The process dies with all its tasks; the database, the files and the
\* containers stay.  The next process starts its reconciliation.
Crash ==
  /\ crashes < MaxCrashes
  /\ live' \in Orphaned(Tasks)
  /\ task' = [t \in Tasks |->
                IF Live(t) THEN [IdleTask EXCEPT !.kind = task[t].kind, !.pc = "done"]
                ELSE task[t]]
  /\ held' = {}
  /\ boot' = [Booted EXCEPT !.phase = "list"]
  /\ crashes' = crashes + 1
  /\ calm' = FALSE
  /\ UNCHANGED <<svc, deployments, logs, disk, drops>>

\* reconcile: the services at 'deploying' are listed under the lock,
ReconcileList ==
  /\ boot.phase = "list"
  /\ boot' = IF svc.status = "deploying"
             THEN [phase |-> "containers", running |-> FALSE]
             ELSE Booted
  /\ UNCHANGED <<svc, deployments, logs, disk, live, task, held, crashes, drops, calm>>

\* then docker lists the containers (an error ends the reconciliation),
ReconcileContainers ==
  /\ boot.phase = "containers"
  /\ boot' \in {[boot EXCEPT !.phase = "settle", !.running = (live.img # NONE)],
                [Booted EXCEPT !.phase = "gaveup"]}
  /\ UNCHANGED <<svc, deployments, logs, disk, live, task, held, crashes, drops, calm>>

\* Mutant of Settled: a service without a container is left as it is.
SettledIfRunning == IF boot.running THEN "running" ELSE svc.status

Settled == IF boot.running THEN "running" ELSE "failed"

\* then a service still at 'deploying' is settled and its open log closed.
ReconcileSettle ==
  /\ boot.phase = "settle"
  /\ svc' = IF svc.status = "deploying"
            THEN [svc EXCEPT !.status = Settled]
            ELSE svc
  /\ logs' = [t \in Tasks |-> IF logs[t] # "running" THEN logs[t]
                              ELSE IF boot.running THEN "success" ELSE "failed"]
  /\ boot' = Booted
  /\ UNCHANGED <<deployments, disk, live, task, held, crashes, drops, calm>>

-----------------------------------------------------------------------------
Request(t) ==
  \/ \E i \in Images : ManualDeploy(t, i) \/ RedeployGit(t, i)
  \/ RedeployCompose(t) \/ Stop(t) \/ Start(t) \/ Restart(t)
  \/ Rollback(t) \/ Remove(t)
  \/ \E e \in Envs, redeploy \in BOOLEAN : SaveEnv(t, e, redeploy)
  \/ Cancel(t)

Step(t) ==
  \/ OpenLog(t) \/ RecordPipeline(t) \/ RecordRollback(t) \/ Down(t)
  \/ MarkDeploying(t) \/ EnvRead(t) \/ EnvWrite(t) \/ Clone(t)
  \/ AcquirePermit(t) \/ Build(t) \/ CopyEnv(t) \/ WipeStackDir(t)
  \/ MoveContext(t) \/ WriteCompose(t) \/ Up(t) \/ SaveImage(t) \/ SwapImage(t)
  \/ Publish(t) \/ FinishDeployment(t) \/ FinishCreate(t) \/ FinishInline(t)
  \/ FinishStop(t) \/ RemoveStackDir(t) \/ DeleteService(t)

Reconcile == ReconcileList \/ ReconcileContainers \/ ReconcileSettle

Next ==
  \/ \E t \in Tasks : Request(t) \/ Step(t) \/ DropHandler(t)
  \/ Crash
  \/ Reconcile

Spec == Init /\ [][Next]_vars

\* Spawned tasks and handlers are polled until they end, docker and git
\* commands return, and the reconciliation runs; nobody has to make requests,
\* crash or disconnect.
FairSpec ==
  /\ Spec
  /\ \A t \in Tasks : WF_vars(Step(t))
  /\ WF_vars(Reconcile)

-----------------------------------------------------------------------------
(* Properties.                                                              *)

ImageOrNone == Images \cup {NONE}

ServiceRow == [status : {"running", "deploying", "failed", "stopped", "gone"},
               strategy : AllStrategies, image : ImageOrNone, prev : ImageOrNone,
               compose : ImageOrNone, env : Envs, dirty : BOOLEAN]

RowStatus == {"none", "building", "success", "failed", "cancelled"}

Stack == [img : ImageOrNone, env : Envs]

TaskState == [kind : Kinds, pc : Steps, img : ImageOrNone, old : ImageOrNone,
              env : Envs, ok : BOOLEAN]

BootState == [phase : {"idle", "list", "containers", "settle", "gaveup"},
              running : BOOLEAN]

\* Type correctness of every variable.
TypeOK ==
  /\ svc \in ServiceRow
  /\ deployments \in [Tasks -> RowStatus]
  /\ logs \in [Tasks -> {"none", "running", "success", "failed"}]
  /\ disk \in Stack
  /\ live \in Stack
  /\ task \in [Tasks -> TaskState]
  /\ held \subseteq Tasks
  /\ boot \in BootState
  /\ crashes \in Nat /\ drops \in Nat /\ calm \in BOOLEAN

\* The task will still write services.status: it has not reached its row
\* yet, or its row is still open, or it writes the status unconditionally.
WillSettle(t) ==
  /\ Live(t)
  /\ \/ task[t].kind \in Pipelines /\ At(t, "record")
     \/ deployments[t] = "building"
     \/ task[t].kind \in Creates \cup {"start", "restart", "redeploy"}
     \/ task[t].kind = "envdeploy" /\ (Git \/ task[t].img # NONE)

\* A row in progress whose task died with an earlier process.
StaleRow(d) == deployments[d] = "building" /\ ~Live(d)

\* A service at 'deploying' is never abandoned: some running task will still
\* write its status, or the boot reconciliation is about to, or a row left
\* behind by a crash can be cancelled.  The two ways the code does lose the
\* row are named: a handler dropped by its client, and a reconciliation that
\* docker failed.  (finish_deployment, cancel, the supersede of the pipeline,
\* the guarded finish of the create tasks and deploy_reconcile together.)
DeployingHasOwner ==
  svc.status = "deploying" =>
    \/ \E t \in Tasks : WillSettle(t) \/ StaleRow(t)
    \/ boot.phase # "idle"
    \/ drops > 0

\* Under one operation at a time, with no cancel, crash or disconnect and no
\* failed port publication, a service shown as running without "environment
\* changes not applied" really runs the stored compose content with the
\* stored environment, the files on disk agree, and the recorded tag of a git
\* service is the one that runs, whatever failed before.
CalmServiceIsFaithful ==
  calm /\ svc.status = "running" /\ ~svc.dirty /\ (\A t \in Tasks : ~Live(t)) =>
    /\ live = [img |-> svc.compose, env |-> svc.env]
    /\ disk = live
    /\ Git => svc.image = svc.compose

\* No build permit leaks: a permit is held only by a live railpack task
\* between its acquisition and the end of the match arm, on every error path.
PermitsReturned ==
  /\ \A t \in held : /\ task[t].kind = "railpack"
                      /\ task[t].pc \in {"build", "file", "up", "finish"}
  /\ Cardinality(held) <= Permits

\* The deployments table as the abstract ledger sees it.
RollbackRows == {t \in Tasks : deployments[t] # "none" /\ task[t].kind = "rollback"}

Ledger == INSTANCE DeploymentLedger WITH
            Rows <- Tasks, rows <- deployments, rollbacks <- RollbackRows,
            gone <- ~Exists

\* Whatever tasks, cancels and crashes do, the deployments table behaves like
\* the ledger: rows open once, terminal rows are final (finish_deployment
\* never resurrects a cancelled row), and pipelines supersede each other.
LedgerRefinement == Ledger!LedgerSpec

\* At most one pipeline row is in progress; rollbacks may run beside it.
OnePipelineInProgress ==
  \A d, e \in InProgress :
    task[d].kind \in Pipelines /\ task[e].kind \in Pipelines => d = e

\* 'deploying' is a transient state: it ends, unless a crash left an open row
\* or one of the two named losses happened.
DeploySettles ==
  svc.status = "deploying" ~>
    \/ svc.status # "deploying"
    \/ \E d \in Tasks : StaleRow(d)
    \/ boot.phase = "gaveup"
    \/ drops > 0
=============================================================================
