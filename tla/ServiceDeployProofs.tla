------------------------ MODULE ServiceDeployProofs ------------------------
(* Proofs about ServiceDeploy for every set of tasks and images and every   *)
(* bound, and, from the section "Ports" on, about Ports for every set of    *)
(* services, containers, requests and host ports. The two models share no   *)
(* variable; no proof uses both.                                            *)
EXTENDS ServiceDeploy, Ports, FiniteSetTheorems, TLAPS

-----------------------------------------------------------------------------
(* Types of the helpers.                                                    *)

LEMMA NothingType == Nothing \in Stack /\ IdleTask \in TaskState /\ Booted \in BootState
BY ConstantsOK DEF Nothing, Stack, IdleTask, TaskState, Booted, BootState,
   ImageOrNone, Envs, Kinds, Steps

LEMMA GotoType ==
  ASSUME TypeOK, NEW t \in Tasks, NEW s \in Steps
  PROVE  /\ Goto(t, s) \in [Tasks -> TaskState]
         /\ Fail(t) \in [Tasks -> TaskState]
         /\ Ended(t) \in [Tasks -> TaskState]
<1>0. task \in [Tasks -> TaskState] /\ task[t] \in TaskState
  BY DEF TypeOK
<1>1. "finish" \in Steps /\ "done" \in Steps
  BY DEF Steps
<1>2. [task[t] EXCEPT !.pc = s] \in TaskState
  BY <1>0 DEF TaskState
<1>3. [task[t] EXCEPT !.pc = "finish", !.ok = FALSE] \in TaskState
  BY <1>0, <1>1 DEF TaskState
<1>4. [IdleTask EXCEPT !.kind = task[t].kind, !.pc = "done"] \in TaskState
  BY <1>0, <1>1, NothingType DEF TaskState
<1>5. Goto(t, s) \in [Tasks -> TaskState]
  BY <1>0, <1>2 DEF Goto
<1>6. Fail(t) \in [Tasks -> TaskState]
  BY <1>0, <1>3 DEF Fail
<1> QED BY <1>0, <1>4, <1>5, <1>6 DEF Ended

LEMMA AfterType ==
  ASSUME NEW k
  PROVE  /\ AfterClone(k) \in Steps /\ AfterDown(k) \in Steps
         /\ AfterEnv(k) \in Steps /\ AfterUp(k) \in Steps
BY DEF AfterClone, AfterDown, AfterEnv, AfterUp, Steps

LEMMA InitType == Init => TypeOK
<1> SUFFICES ASSUME Init PROVE TypeOK
  OBVIOUS
<1> USE ConstantsOK
<1>1. PICK i \in Images, k \in Strategies :
         Established(i, k) \/ \E t \in Tasks : Created(i, k, t)
  BY DEF Init
<1>2. /\ svc \in ServiceRow /\ disk \in Stack /\ live \in Stack
      /\ task \in [Tasks -> TaskState]
  <2>1. CASE Established(i, k)
    BY <2>1, NothingType DEF Established, Row, ServiceRow, Stack, ImageOrNone, Envs
  <2>2. ASSUME NEW t \in Tasks, Created(i, k, t)
        PROVE  /\ svc \in ServiceRow /\ disk \in Stack /\ live \in Stack
               /\ task \in [Tasks -> TaskState]
    BY <2>2, NothingType DEF Created, Row, ServiceRow, ImageOrNone, Envs, IdleTask,
       TaskState, Kinds, Creates, Steps
  <2> QED BY <1>1, <2>1, <2>2
<1> QED BY <1>2, NothingType DEF Init, TypeOK, RowStatus

-----------------------------------------------------------------------------
(* Requests and task steps preserve the types.                              *)

LEMMA BeginType ==
  ASSUME TypeOK, NEW t \in Tasks, NEW k \in Kinds, NEW s \in Steps,
         NEW i \in ImageOrNone, NEW o \in ImageOrNone, Begin(t, k, s, i, o),
         svc' \in ServiceRow
  PROVE  TypeOK'
BY ConstantsOK DEF Begin, TypeOK, TaskState, Envs

LEMMA RequestType ==
  ASSUME TypeOK, NEW t \in Tasks, Request(t)
  PROVE  TypeOK'
<1> USE DEF ImageOrNone
<1>0. svc \in ServiceRow /\ svc.image \in ImageOrNone /\ svc.prev \in ImageOrNone
      /\ svc.compose \in ImageOrNone /\ svc.strategy \in AllStrategies
  BY DEF TypeOK, ServiceRow
<1>k. Pipelines \subseteq Kinds /\ Inline \subseteq Kinds
      /\ {"record", "down", "envRead"} \subseteq Steps
  BY DEF Kinds, Steps
<1>1. ASSUME NEW i \in Images, ManualDeploy(t, i) PROVE TypeOK'
  <2>1. Begin(t, svc.strategy, "record", i, NONE) /\ svc.strategy \in Kinds
    BY <1>1, <1>k DEF ManualDeploy, Git
  <2> QED BY <1>1, <1>0, <1>k, <2>1, BeginType DEF ManualDeploy
<1>2. ASSUME NEW i \in Images, RedeployGit(t, i) PROVE TypeOK'
  <2>1. Begin(t, svc.strategy, "record", i, NONE) /\ svc.strategy \in Kinds
    BY <1>2, <1>k DEF RedeployGit, Git
  <2>2. svc' \in ServiceRow
    BY <1>2, <1>0 DEF RedeployGit, ServiceRow
  <2> QED BY <1>0, <1>k, <2>1, <2>2, BeginType
<1>3. CASE RedeployCompose(t)
  BY <1>3, <1>0, <1>k, BeginType DEF RedeployCompose, Inline
<1>4. CASE Stop(t)
  BY <1>4, <1>0, <1>k, BeginType DEF Stop, Inline
<1>5. CASE Start(t)
  BY <1>5, <1>0, <1>k, BeginType DEF Start, Inline
<1>6. CASE Restart(t)
  BY <1>6, <1>0, <1>k, BeginType DEF Restart, Inline
<1>7. CASE Rollback(t)
  BY <1>7, <1>0, <1>k, BeginType DEF Rollback, Inline
<1>8. CASE Remove(t)
  BY <1>8, <1>0, <1>k, BeginType DEF Remove, Inline
<1>9. ASSUME NEW e \in Envs, NEW redeploy \in BOOLEAN, SaveEnv(t, e, redeploy)
      PROVE  TypeOK'
  <2> DEFINE k == IF redeploy THEN "envdeploy" ELSE "envsave"
  <2>1. k \in Kinds
    BY <1>k DEF Inline
  <2>2. svc' \in ServiceRow
    BY <1>9, <1>0 DEF SaveEnv, ServiceRow
  <2>3. Begin(t, k, "envRead", svc.compose, NONE)
    BY <1>9 DEF SaveEnv
  <2> QED BY <1>0, <1>k, <2>1, <2>2, <2>3, BeginType
<1>10. CASE Cancel(t)
  BY <1>10 DEF Cancel, TypeOK, RowStatus, ServiceRow
<1> QED
  BY <1>1, <1>2, <1>3, <1>4, <1>5, <1>6, <1>7, <1>8, <1>9, <1>10 DEF Request

LEMMA EnvFromDiskType ==
  ASSUME NEW row \in ServiceRow, NEW e \in Envs
  PROVE  EnvFromDisk(row, e) \in ServiceRow
BY DEF EnvFromDisk, ServiceRow

LEMMA StepType ==
  ASSUME TypeOK, NEW t \in Tasks, Step(t)
  PROVE  TypeOK'
<1> USE ConstantsOK, GotoType, NothingType
<1>0. /\ {"idle", "log", "record", "down", "deploying", "envRead", "envWrite",
          "clone", "envRead2", "envWrite2", "copy", "wipe", "move", "permit",
          "build", "file", "up", "save", "swap", "publish", "rmdir", "delete",
          "finish", "done"} \subseteq Steps
      /\ 0 \in Envs /\ NONE \in ImageOrNone /\ Images \subseteq ImageOrNone
      /\ Pipelines \subseteq Kinds
  BY DEF Steps, Envs, ImageOrNone, Kinds
<1>t. /\ task[t] \in TaskState /\ task[t].img \in ImageOrNone
      /\ task[t].old \in ImageOrNone /\ task[t].env \in Envs
      /\ svc.env \in Envs /\ disk.env \in Envs /\ disk.img \in ImageOrNone
      /\ svc.image \in ImageOrNone /\ StoredEnv \in Envs
  BY <1>0 DEF TypeOK, TaskState, ServiceRow, Stack, StoredEnv
<1>g. /\ \A s \in Steps : Goto(t, s) \in [Tasks -> TaskState]
      /\ Fail(t) \in [Tasks -> TaskState]
      /\ Ended(t) \in [Tasks -> TaskState]
  BY <1>0
<1>1. CASE OpenLog(t)
  BY <1>1, <1>0 DEF OpenLog, TypeOK
<1>2. CASE RecordPipeline(t)
  <2>1. Superseded(t) \in [Tasks -> RowStatus]
    BY DEF Superseded, TypeOK, RowStatus, InProgress
  <2>2. [svc EXCEPT !.status = "deploying"] \in ServiceRow
    BY DEF TypeOK, ServiceRow
  <2>3. task' \in [Tasks -> TaskState] /\ svc' \in ServiceRow
        /\ deployments' \in [Tasks -> RowStatus]
    BY <1>2, <1>0, <1>g, <2>1, <2>2 DEF RecordPipeline, TypeOK
  <2> QED BY <1>2, <2>3 DEF RecordPipeline, TypeOK
<1>3. CASE RecordRollback(t)
  <2>1. svc' \in ServiceRow
    BY <1>3 DEF RecordRollback, Updated, TypeOK, ServiceRow
  <2>2. deployments' \in [Tasks -> RowStatus]
    BY <1>3 DEF RecordRollback, TypeOK, RowStatus
  <2> QED BY <1>3, <1>0, <2>1, <2>2 DEF RecordRollback, TypeOK
<1>4. CASE Down(t)
  <2>1. task' \in [Tasks -> TaskState]
    <3>1. PICK ran \in BOOLEAN :
             task' = [task EXCEPT ![t].pc = AfterDown(task[t].kind),
                                  ![t].ok = (task[t].kind = "stop" => ran)]
      BY <1>4 DEF Down
    <3>2. PICK b \in BOOLEAN :
             task' = [task EXCEPT ![t].pc = AfterDown(task[t].kind), ![t].ok = b]
      BY <3>1, Zenon
    <3> QED BY <3>2, AfterType DEF TypeOK, TaskState
  <2>2. live' \in Stack
    BY <1>4 DEF Down, TypeOK
  <2> QED BY <1>4, <2>1, <2>2 DEF Down, TypeOK
<1>5. CASE MarkDeploying(t)
  <2>1. svc' \in ServiceRow
    <3>1. /\ [svc EXCEPT !.status = "deploying"] \in ServiceRow
          /\ [svc EXCEPT !.status = "deploying", !.compose = task[t].img] \in ServiceRow
          /\ svc \in ServiceRow
      BY <1>t DEF TypeOK, ServiceRow
    <3> QED BY <1>5, <3>1 DEF MarkDeploying, Updated
  <2>2. task' \in [Tasks -> TaskState]
    <3>1. ASSUME NEW i \in Images, svc.strategy \in Pipelines
          PROVE  [task EXCEPT ![t].kind = svc.strategy, ![t].pc = "record",
                              ![t].img = i] \in [Tasks -> TaskState]
      <4>1. task \in [Tasks -> TaskState] /\ task[t] \in TaskState
        BY <1>0 DEF TypeOK
      <4>2. svc.strategy \in Kinds /\ "record" \in Steps /\ i \in ImageOrNone
        BY <3>1 DEF Pipelines, Kinds, Steps, ImageOrNone
      <4>3. [task[t] EXCEPT !.kind = svc.strategy, !.pc = "record", !.img = i] \in TaskState
        BY <4>1, <4>2 DEF TaskState
      <4> QED BY <4>1, <4>3
    <3>2. CASE \E s \in Steps : task' = Goto(t, s) \/ task' = Ended(t)
      BY <3>2, <1>g
    <3>3. CASE Git /\ \E i \in Images :
                 task' = [task EXCEPT ![t].kind = svc.strategy,
                                      ![t].pc = "record", ![t].img = i]
      <4>1. svc.strategy \in Pipelines
        BY <3>3 DEF Git
      <4>2. PICK i \in Images : task' = [task EXCEPT ![t].kind = svc.strategy,
                                                    ![t].pc = "record", ![t].img = i]
        BY <3>3
      <4>3. [task EXCEPT ![t].kind = svc.strategy, ![t].pc = "record", ![t].img = i] \in [Tasks -> TaskState]
        BY <3>1, <4>1
      <4> QED BY <4>2, <4>3
    <3>4. "envRead" \in Steps /\ "envRead2" \in Steps
      BY DEF Steps
    <3>5. \/ \E s \in Steps : task' = Goto(t, s) \/ task' = Ended(t)
          \/ Git /\ \E i \in Images :
                task' = [task EXCEPT ![t].kind = svc.strategy,
                                     ![t].pc = "record", ![t].img = i]
      BY <1>5, <3>4 DEF MarkDeploying
    <3> QED BY <3>2, <3>3, <3>5
  <2> QED BY <1>5, <2>1, <2>2 DEF MarkDeploying, TypeOK
<1>6. CASE EnvRead(t)
  BY <1>6, <1>0, <1>t DEF EnvRead, TypeOK, TaskState
<1>7. CASE EnvWrite(t)
  <2>1. task' \in [Tasks -> TaskState]
    BY <1>7, <1>0, AfterType DEF EnvWrite
  <2>2. disk' \in Stack
    BY <1>7, <1>t DEF EnvWrite, TypeOK, Stack
  <2> QED BY <1>7, <2>1, <2>2 DEF EnvWrite, TypeOK
<1>8. CASE Clone(t)
  BY <1>8, AfterType DEF Clone, TypeOK
<1>9. CASE AcquirePermit(t)
  BY <1>9, <1>0 DEF AcquirePermit, TypeOK
<1>10. CASE Build(t)
  BY <1>10, <1>0 DEF Build, TypeOK
<1>11. CASE CopyEnv(t)
  BY <1>11, <1>0, <1>t DEF CopyEnv, TypeOK, TaskState
<1>12. CASE WipeStackDir(t)
  BY <1>12, <1>0 DEF WipeStackDir, TypeOK
<1>13. CASE MoveContext(t)
  BY <1>13, <1>0, <1>t DEF MoveContext, TypeOK, Stack
<1>14. CASE WriteCompose(t)
  BY <1>14, <1>0, <1>t DEF WriteCompose, TypeOK, Stack
<1>15. CASE Up(t)
  BY <1>15, AfterType DEF Up, TypeOK
<1>16. CASE SaveImage(t)
  <2>1. svc' \in ServiceRow
    BY <1>16, <1>t DEF SaveImage, Updated, TypeOK, ServiceRow
  <2>2. task' \in [Tasks -> TaskState]
    BY <1>16, <1>0, <1>t DEF SaveImage, TypeOK, TaskState
  <2> QED BY <1>16, <2>1, <2>2 DEF SaveImage, TypeOK
<1>17. CASE SwapImage(t)
  <2>1. svc' \in ServiceRow
    BY <1>17, <1>t DEF SwapImage, Swapped, Updated, TypeOK, ServiceRow
  <2> QED BY <1>17, <1>0, <2>1 DEF SwapImage, TypeOK
<1>18. CASE Publish(t)
  <2>0. [img |-> PublishedYaml(t), env |-> StoredEnv] \in Stack
    BY <1>t DEF PublishedYaml, Stack
  <2>1. disk' \in Stack /\ live' \in Stack /\ calm' \in BOOLEAN
    <3>1. CASE UNCHANGED <<disk, live, calm>>
      BY <3>1 DEF TypeOK
    <3>2. CASE ~UNCHANGED <<disk, live, calm>>
      BY <3>2, <1>18, <2>0 DEF Publish, TypeOK
    <3> QED BY <3>1, <3>2
  <2>2. svc' \in ServiceRow
    BY <1>18, <2>1, EnvFromDiskType DEF Publish, TypeOK, Stack
  <2> QED BY <1>18, <1>0, <2>1, <2>2 DEF Publish, TypeOK
<1>19. CASE FinishDeployment(t)
  <2>1. svc' \in ServiceRow
    <3>1. ASSUME NEW b \in BOOLEAN
          PROVE  [svc EXCEPT !.status = IF task[t].ok THEN "running" ELSE "failed",
                             !.dirty = b] \in ServiceRow
      BY DEF TypeOK, ServiceRow
    <3>2. PICK b \in BOOLEAN : b = (svc.dirty /\ ~task[t].ok)
      BY Zenon
    <3> QED BY <1>19, <3>1, <3>2 DEF FinishDeployment, TypeOK
  <2>2. deployments' \in [Tasks -> RowStatus]
    BY <1>19 DEF FinishDeployment, TypeOK, RowStatus
  <2> QED BY <1>19, <1>0, <2>1, <2>2 DEF FinishDeployment, Released, TypeOK
<1>20. CASE FinishCreate(t)
  <2>1. svc' \in ServiceRow
    BY <1>20 DEF FinishCreate, TypeOK, ServiceRow
  <2> QED BY <1>20, <1>0, <2>1 DEF FinishCreate, TypeOK
<1>21. CASE FinishInline(t)
  <2>1. svc' \in ServiceRow
    BY <1>21, <1>t DEF FinishInline, Updated, TypeOK, ServiceRow, TaskState
  <2> QED BY <1>21, <1>0, <2>1 DEF FinishInline, TypeOK
<1>22. CASE FinishStop(t)
  <2>1. svc' \in ServiceRow
    BY <1>22 DEF FinishStop, Updated, TypeOK, ServiceRow
  <2> QED BY <1>22, <1>0, <2>1 DEF FinishStop, TypeOK
<1>23. CASE RemoveStackDir(t)
  BY <1>23, <1>0 DEF RemoveStackDir, TypeOK
<1>24. CASE DeleteService(t)
  <2>1. svc' \in ServiceRow
    BY <1>24 DEF DeleteService, TypeOK, ServiceRow
  <2> QED BY <1>24, <1>0, <2>1 DEF DeleteService, TypeOK, RowStatus
<1> QED
  BY <1>1, <1>2, <1>3, <1>4, <1>5, <1>6, <1>7, <1>8, <1>9, <1>10, <1>11, <1>12,
     <1>13, <1>14, <1>15, <1>16, <1>17, <1>18, <1>19, <1>20, <1>21, <1>22,
     <1>23, <1>24 DEF Step

-----------------------------------------------------------------------------
(* Failures and recovery preserve the types.                                *)

LEMMA OrphanedType ==
  ASSUME TypeOK, NEW T
  PROVE  Orphaned(T) \subseteq Stack
BY NothingType DEF Orphaned, TypeOK

LEMMA FailureType ==
  ASSUME TypeOK,
         (\E t \in Tasks : DropHandler(t)) \/ Crash \/ Reconcile
  PROVE  TypeOK'
<1> USE NothingType
<1>1. ASSUME NEW t \in Tasks, DropHandler(t) PROVE TypeOK'
  <2>1. live' \in Stack /\ task' \in [Tasks -> TaskState]
    BY <1>1, OrphanedType, GotoType DEF DropHandler, Steps
  <2>2. drops \in Nat /\ drops' = drops + 1 /\ calm' = FALSE
    BY <1>1 DEF DropHandler, TypeOK
  <2>3. drops' \in Nat
    BY <2>2, SMT
  <2>3b. calm' \in BOOLEAN
    BY <2>2, Zenon
  <2>4. UNCHANGED <<svc, deployments, logs, disk, held, boot, crashes>>
    BY <1>1 DEF DropHandler
  <2> QED BY <2>1, <2>3, <2>3b, <2>4 DEF TypeOK
<1>2. CASE Crash
  <2>1. live' \in Stack
    BY <1>2, OrphanedType DEF Crash
  <2>2. task' \in [Tasks -> TaskState]
    <3>1. ASSUME NEW t \in Tasks
          PROVE  [IdleTask EXCEPT !.kind = task[t].kind, !.pc = "done"] \in TaskState
      BY DEF TypeOK, TaskState, Steps
    <3> QED BY <1>2, <3>1 DEF Crash, TypeOK
  <2>3. boot' \in BootState
    BY <1>2 DEF Crash, BootState
  <2>4. crashes \in Nat /\ crashes' = crashes + 1 /\ calm' = FALSE
    BY <1>2 DEF Crash, TypeOK
  <2>5. crashes' \in Nat
    BY <2>4, SMT
  <2>5b. calm' \in BOOLEAN
    BY <2>4, Zenon
  <2>6. UNCHANGED <<svc, deployments, logs, disk, drops>> /\ held' = {}
    BY <1>2 DEF Crash
  <2> QED BY <2>1, <2>2, <2>3, <2>5, <2>5b, <2>6 DEF TypeOK
<1>3. CASE ReconcileList
  BY <1>3 DEF ReconcileList, TypeOK, BootState
<1>4. CASE ReconcileContainers
  BY <1>4 DEF ReconcileContainers, TypeOK, BootState
<1>5. CASE ReconcileSettle
  <2>1. svc' \in ServiceRow
    BY <1>5 DEF ReconcileSettle, Settled, TypeOK, ServiceRow
  <2>2. logs' \in [Tasks -> {"none", "running", "success", "failed"}]
    BY <1>5 DEF ReconcileSettle, TypeOK
  <2> QED BY <1>5, <2>1, <2>2 DEF ReconcileSettle, TypeOK
<1> QED BY <1>1, <1>2, <1>3, <1>4, <1>5 DEF Reconcile

\* Every variable keeps its type in every behaviour: the tables, the stack
\* directory, the container, the tasks and the reconciliation.
THEOREM TypeCorrect == Spec => []TypeOK
<1>1. Init => TypeOK
  BY InitType
<1>2. TypeOK /\ [Next]_vars => TypeOK'
  <2>1. ASSUME TypeOK, UNCHANGED vars PROVE TypeOK'
    BY <2>1 DEF TypeOK, vars
  <2> QED BY <2>1, RequestType, StepType, FailureType DEF Next
<1> QED BY <1>1, <1>2, PTL DEF Spec

-----------------------------------------------------------------------------
(* Rows and owners.                                                         *)

\* The strengthening the row and owner theorems need: a deployments row
\* exists only for a pipeline or rollback that has recorded it, and a deleted
\* service has no rows.
RowInv ==
  /\ \A t \in Tasks : deployments[t] # "none" =>
        /\ task[t].kind \in Pipelines \cup {"rollback"}
        /\ task[t].pc \notin {"idle", "record"}
  /\ ~Exists => \A t \in Tasks : deployments[t] = "none"

\* The inductive invariant.
DeployInv == TypeOK /\ RowInv /\ OnePipelineInProgress /\ DeployingHasOwner

\* What a step in the middle of a task leaves alone.
Progress(t) ==
  /\ svc'.status = svc.status /\ svc'.strategy = svc.strategy
  /\ deployments' = deployments
  /\ \A u \in Tasks : u # t => task'[u] = task[u]
  /\ task'[t].kind = task[t].kind /\ task'[t].img = task[t].img
  /\ task[t].pc \notin {"idle", "record", "done"}
  /\ task'[t].pc \notin {"idle", "record", "done"}
  /\ boot' = boot /\ drops' = drops

MiddleStep(t) ==
  \/ OpenLog(t) \/ Down(t) \/ EnvRead(t) \/ Clone(t) \/ AcquirePermit(t)
  \/ Build(t) \/ CopyEnv(t) \/ WipeStackDir(t) \/ MoveContext(t)
  \/ WriteCompose(t) \/ Up(t) \/ SaveImage(t) \/ SwapImage(t) \/ Publish(t)
  \/ RemoveStackDir(t)

LEMMA AfterInner ==
  ASSUME NEW k
  PROVE  /\ AfterClone(k) \notin {"idle", "record", "done"}
         /\ AfterDown(k) \notin {"idle", "record", "done"}
         /\ AfterUp(k) \notin {"idle", "record", "done"}
BY DEF AfterClone, AfterDown, AfterUp

\* Moving the program counter of t is all a Goto or a Fail does to kinds,
\* images and other tasks.
LEMMA GotoFrame ==
  ASSUME TypeOK, NEW t \in Tasks, NEW s,
         task' = Goto(t, s) \/ (task' = Fail(t) /\ s = "finish")
  PROVE  /\ \A u \in Tasks : u # t => task'[u] = task[u]
         /\ task'[t].kind = task[t].kind /\ task'[t].img = task[t].img
         /\ task'[t].pc = s
BY DEF Goto, Fail, TypeOK, TaskState

LEMMA MiddleIsProgress ==
  ASSUME TypeOK, NEW t \in Tasks, MiddleStep(t)
  PROVE  Progress(t)
<1> USE DEF At
<1>1. CASE OpenLog(t)
  BY <1>1, GotoFrame DEF OpenLog, Progress
<1>2. CASE Down(t)
  BY <1>2, AfterInner DEF Down, Progress, TypeOK, TaskState
<1>3. CASE EnvRead(t)
  BY <1>3 DEF EnvRead, Progress, TypeOK, TaskState
<1>4. CASE Clone(t)
  BY <1>4, GotoFrame, AfterInner DEF Clone, Progress
<1>5. CASE AcquirePermit(t)
  BY <1>5, GotoFrame DEF AcquirePermit, Progress
<1>6. CASE Build(t)
  BY <1>6, GotoFrame DEF Build, Progress
<1>7. CASE CopyEnv(t)
  BY <1>7 DEF CopyEnv, Progress, TypeOK, TaskState
<1>8. CASE WipeStackDir(t)
  BY <1>8, GotoFrame DEF WipeStackDir, Progress
<1>9. CASE MoveContext(t)
  BY <1>9, GotoFrame DEF MoveContext, Progress
<1>10. CASE WriteCompose(t)
  BY <1>10, GotoFrame DEF WriteCompose, Progress
<1>11. CASE Up(t)
  BY <1>11, GotoFrame, AfterInner DEF Up, Progress
<1>12. CASE SaveImage(t)
  BY <1>12 DEF SaveImage, Updated, Progress, TypeOK, TaskState, ServiceRow
<1>13. CASE SwapImage(t)
  <2>1. svc'.status = svc.status /\ svc'.strategy = svc.strategy
    BY <1>13 DEF SwapImage, Swapped, Updated, TypeOK, ServiceRow
  <2> QED BY <1>13, <2>1, GotoFrame DEF SwapImage, Progress
<1>14. CASE Publish(t)
  <2>1. svc'.status = svc.status /\ svc'.strategy = svc.strategy
    BY <1>14 DEF Publish, EnvFromDisk, TypeOK, ServiceRow
  <2> QED BY <1>14, <2>1, GotoFrame DEF Publish, Progress
<1>15. CASE RemoveStackDir(t)
  BY <1>15, GotoFrame DEF RemoveStackDir, Progress
<1> QED
  BY <1>1, <1>2, <1>3, <1>4, <1>5, <1>6, <1>7, <1>8, <1>9, <1>10, <1>11, <1>12,
     <1>13, <1>14, <1>15 DEF MiddleStep

LEMMA ProgressInv ==
  ASSUME DeployInv, NEW t \in Tasks, Progress(t)
  PROVE  RowInv' /\ OnePipelineInProgress' /\ DeployingHasOwner'
<1> USE DEF DeployInv
<1>1. RowInv'
  BY DEF Progress, RowInv, Exists
<1>2. OnePipelineInProgress'
  BY DEF Progress, OnePipelineInProgress, InProgress
<1>3. ASSUME NEW u \in Tasks, WillSettle(u) PROVE WillSettle(u)'
  BY <1>3 DEF Progress, WillSettle, Live, At, Git
<1>4. ASSUME NEW u \in Tasks, StaleRow(u) PROVE StaleRow(u)'
  BY <1>4 DEF Progress, StaleRow, Live
<1>5. DeployingHasOwner'
  BY <1>3, <1>4 DEF Progress, DeployingHasOwner
<1> QED BY <1>1, <1>2, <1>5

\* A request starts an idle task, which has no row.
LEMMA BeginInv ==
  ASSUME DeployInv, NEW t \in Tasks, NEW k, NEW s, NEW i, NEW o,
         Begin(t, k, s, i, o), svc'.strategy = svc.strategy, Exists, Exists',
         svc'.status = svc.status \/ (k \in Pipelines /\ s = "record"),
         s \notin {"idle", "done"}
  PROVE  RowInv' /\ OnePipelineInProgress' /\ DeployingHasOwner'
<1> USE DEF DeployInv
<1>0. /\ deployments' = deployments /\ boot' = boot /\ drops' = drops
      /\ deployments[t] = "none"
      /\ \A u \in Tasks : u # t => task'[u] = task[u]
      /\ task'[t].kind = k /\ task'[t].pc = s
  BY DEF Begin, At, RowInv, TypeOK
<1>1. RowInv'
  BY <1>0 DEF RowInv
<1>2. OnePipelineInProgress'
  BY <1>0 DEF OnePipelineInProgress, InProgress
<1>3. ASSUME NEW u \in Tasks, WillSettle(u) PROVE u # t /\ WillSettle(u)'
  BY <1>0, <1>3 DEF WillSettle, Live, At, Git, Begin
<1>4. ASSUME NEW u \in Tasks, StaleRow(u) PROVE StaleRow(u)'
  BY <1>0, <1>4 DEF StaleRow, Live
<1>5. CASE svc'.status = svc.status
  BY <1>0, <1>1, <1>2, <1>3, <1>4, <1>5 DEF DeployingHasOwner
<1>6. CASE k \in Pipelines /\ s = "record"
  <2>1. WillSettle(t)'
    BY <1>0, <1>6 DEF WillSettle, Live, At
  <2> QED BY <1>1, <1>2, <2>1 DEF DeployingHasOwner
<1> QED BY <1>1, <1>2, <1>5, <1>6

LEMMA RequestInv ==
  ASSUME DeployInv, NEW t \in Tasks, Request(t)
  PROVE  RowInv' /\ OnePipelineInProgress' /\ DeployingHasOwner'
<1> USE DEF DeployInv
<1>0. svc \in ServiceRow
  BY DEF TypeOK
<1>1. ASSUME NEW i \in Images, ManualDeploy(t, i)
      PROVE  RowInv' /\ OnePipelineInProgress' /\ DeployingHasOwner'
  BY <1>1, BeginInv DEF ManualDeploy, Exists
<1>2. ASSUME NEW i \in Images, RedeployGit(t, i)
      PROVE  RowInv' /\ OnePipelineInProgress' /\ DeployingHasOwner'
  <2>1. svc'.strategy = svc.strategy /\ svc'.status = "deploying"
    BY <1>0, <1>2 DEF RedeployGit, ServiceRow
  <2> QED BY <1>2, <2>1, BeginInv DEF RedeployGit, Exists, Git
<1>3. CASE RedeployCompose(t)
  BY <1>3, BeginInv DEF RedeployCompose, Exists
<1>4. CASE Stop(t)
  BY <1>4, BeginInv DEF Stop, Exists
<1>5. CASE Start(t)
  BY <1>5, BeginInv DEF Start, Exists
<1>6. CASE Restart(t)
  BY <1>6, BeginInv DEF Restart, Exists
<1>7. CASE Rollback(t)
  BY <1>7, BeginInv DEF Rollback, Exists
<1>8. CASE Remove(t)
  BY <1>8, BeginInv DEF Remove, Exists
<1>9. ASSUME NEW e \in Envs, NEW redeploy \in BOOLEAN, SaveEnv(t, e, redeploy)
      PROVE  RowInv' /\ OnePipelineInProgress' /\ DeployingHasOwner'
  <2>1. svc'.strategy = svc.strategy /\ svc'.status = svc.status
    BY <1>0, <1>9 DEF SaveEnv, ServiceRow
  <2> QED BY <1>9, <2>1, BeginInv DEF SaveEnv, Exists
<1>10. CASE Cancel(t)
  <2>0. /\ task' = task /\ boot' = boot /\ drops' = drops
        /\ svc'.strategy = svc.strategy
        /\ \A u \in Tasks : u # t => deployments'[u] = deployments[u]
        /\ deployments'[t] = "cancelled" /\ deployments[t] = "building"
        /\ Exists /\ Exists'
    BY <1>0, <1>10 DEF Cancel, TypeOK, ServiceRow, RowInv, Exists
  <2>1. RowInv'
    BY <2>0 DEF RowInv
  <2>2. OnePipelineInProgress'
    BY <2>0 DEF OnePipelineInProgress, InProgress
  <2>3. CASE LastInProgress(t)
    <3>1. svc'.status # "deploying"
      BY <1>0, <1>10, <2>3 DEF Cancel, ServiceRow
    <3> QED BY <2>1, <2>2, <3>1 DEF DeployingHasOwner
  <2>4. CASE ~LastInProgress(t)
    <3>1. PICK d \in Tasks : d # t /\ deployments[d] = "building"
      BY <2>4 DEF LastInProgress, InProgress
    <3>2. WillSettle(d)' \/ StaleRow(d)'
      BY <2>0, <3>1 DEF WillSettle, StaleRow, Live
    <3> QED BY <2>1, <2>2, <3>2 DEF DeployingHasOwner
  <2> QED BY <2>3, <2>4
<1> QED
  BY <1>1, <1>2, <1>3, <1>4, <1>5, <1>6, <1>7, <1>8, <1>9, <1>10 DEF Request

\* A task that ends: nothing else changes hands, and it keeps its kind.
LEMMA EndedFrame ==
  ASSUME TypeOK, NEW t \in Tasks, task' = Ended(t)
  PROVE  /\ \A u \in Tasks : u # t => task'[u] = task[u]
         /\ task'[t].kind = task[t].kind /\ task'[t].pc = "done"
BY DEF Ended, IdleTask, TypeOK, TaskState

LEMMA RecordInv ==
  ASSUME DeployInv, NEW t \in Tasks, RecordPipeline(t) \/ RecordRollback(t)
  PROVE  RowInv' /\ OnePipelineInProgress' /\ DeployingHasOwner'
<1> USE DEF DeployInv
<1>0. svc \in ServiceRow /\ deployments[t] = "none"
  BY DEF TypeOK, RowInv, RecordPipeline, RecordRollback, At
<1>1. CASE RecordPipeline(t) /\ Exists
  <2>1. /\ deployments' = Superseded(t) /\ svc' = [svc EXCEPT !.status = "deploying"]
        /\ task' = Goto(t, "envRead") /\ task[t].kind \in Pipelines
    BY <1>1 DEF RecordPipeline
  <2>2. /\ \A u \in Tasks : u # t => task'[u] = task[u]
        /\ task'[t].kind = task[t].kind /\ task'[t].pc = "envRead"
    BY <2>1, GotoFrame
  <2>3. /\ deployments'[t] = "building"
        /\ \A u \in Tasks : u # t => /\ deployments'[u] # "building"
                                     /\ deployments'[u] # "none" => deployments[u] # "none"
    BY <2>1 DEF Superseded, InProgress
  <2>4. Exists'
    BY <1>0, <2>1 DEF Exists, ServiceRow
  <2>5. RowInv'
    BY <2>1, <2>2, <2>3, <2>4 DEF RowInv
  <2>6. OnePipelineInProgress'
    BY <2>3 DEF OnePipelineInProgress, InProgress
  <2>7. WillSettle(t)'
    BY <2>2, <2>3 DEF WillSettle, Live
  <2> QED BY <2>5, <2>6, <2>7 DEF DeployingHasOwner
<1>2. CASE RecordPipeline(t) /\ ~Exists
  <2>1. svc' = svc /\ deployments' = deployments /\ task' = Ended(t)
    BY <1>2 DEF RecordPipeline
  <2>2. \A u \in Tasks : deployments'[u] = "none"
    BY <1>2, <2>1 DEF RowInv
  <2> QED BY <1>2, <2>1, <2>2 DEF RowInv, OnePipelineInProgress, InProgress,
             DeployingHasOwner, Exists
<1>3. CASE RecordRollback(t)
  <2>1. /\ task' = Goto(t, "down") /\ task[t].kind = "rollback"
        /\ boot' = boot /\ drops' = drops
    BY <1>3 DEF RecordRollback
  <2>2. /\ \A u \in Tasks : u # t => task'[u] = task[u]
        /\ task'[t].kind = "rollback" /\ task'[t].pc = "down"
    BY <2>1, GotoFrame
  <2>3. CASE Exists
    <3>1. /\ deployments'[t] = "building"
          /\ \A u \in Tasks : u # t => deployments'[u] = deployments[u]
          /\ svc' = [svc EXCEPT !.status = "deploying"]
      BY <1>3, <2>3 DEF RecordRollback, Updated, TypeOK
    <3>2. Exists'
      BY <1>0, <3>1 DEF Exists, ServiceRow
    <3>3. RowInv'
      BY <2>2, <3>1, <3>2 DEF RowInv
    <3>4. OnePipelineInProgress'
      BY <2>2, <3>1 DEF OnePipelineInProgress, InProgress, Pipelines
    <3>5. WillSettle(t)'
      BY <2>2, <3>1 DEF WillSettle, Live
    <3> QED BY <3>3, <3>4, <3>5 DEF DeployingHasOwner
  <2>4. CASE ~Exists
    <3>1. deployments' = deployments /\ svc' = svc
      BY <1>3, <2>4 DEF RecordRollback, Updated
    <3>2. \A u \in Tasks : deployments'[u] = "none"
      BY <2>4, <3>1 DEF RowInv
    <3> QED BY <2>4, <3>1, <3>2 DEF RowInv, OnePipelineInProgress, InProgress,
               DeployingHasOwner, Exists
  <2> QED BY <2>3, <2>4
<1> QED BY <1>1, <1>2, <1>3

\* A task without a row that hands over or ends.
LEMMA MarkDeployingInv ==
  ASSUME DeployInv, NEW t \in Tasks, MarkDeploying(t)
  PROVE  RowInv' /\ OnePipelineInProgress' /\ DeployingHasOwner'
<1> USE DEF DeployInv
<1>0. /\ svc \in ServiceRow /\ deployments' = deployments /\ deployments[t] = "none"
      /\ boot' = boot /\ drops' = drops
      /\ task[t].kind \in {"redeploy", "envdeploy"} /\ At(t, "deploying")
  BY DEF TypeOK, MarkDeploying, RowInv, Pipelines
<1>1. (Exists' <=> Exists) /\ svc'.strategy = svc.strategy
  BY <1>0 DEF MarkDeploying, Updated, Exists, ServiceRow
<1>2. \A u \in Tasks : u # t => task'[u] = task[u]
  <2>1. CASE \E s \in Steps : task' = Goto(t, s)
    BY <2>1, GotoFrame
  <2>2. CASE \E i \in Images :
               task' = [task EXCEPT ![t].kind = svc.strategy,
                                    ![t].pc = "record", ![t].img = i]
    BY <2>2 DEF TypeOK
  <2>3. CASE task' = Ended(t)
    BY <2>3, EndedFrame
  <2> QED BY <2>1, <2>2, <2>3 DEF MarkDeploying, Steps
<1>3. RowInv'
  BY <1>0, <1>1, <1>2 DEF RowInv
<1>4. OnePipelineInProgress'
  BY <1>0, <1>2 DEF OnePipelineInProgress, InProgress
<1>5. CASE task' = Ended(t)
  <2>1. svc' = svc /\ task[t].kind = "envdeploy" /\ ~Git /\ task[t].img = NONE
    BY <1>0, <1>5, EndedFrame, GotoFrame, ConstantsOK
    DEF MarkDeploying, TypeOK, TaskState
  <2>2. ~WillSettle(t) /\ ~StaleRow(t)
    BY <1>0, <2>1 DEF WillSettle, StaleRow, At, Pipelines, Creates
  <2>3. \A u \in Tasks : /\ WillSettle(u) => WillSettle(u)'
                         /\ StaleRow(u) => StaleRow(u)'
    BY <1>0, <1>2, <2>1, <2>2 DEF WillSettle, StaleRow, Live, At, Git
  <2> QED BY <1>0, <1>3, <1>4, <2>1, <2>3 DEF DeployingHasOwner
<1>6. CASE task' # Ended(t)
  <2>1. WillSettle(t)'
    <3>1. CASE task[t].kind = "redeploy"
      <4>1. task'[t].kind = "redeploy" /\ task'[t].pc = "envRead"
        BY <3>1, <1>6, GotoFrame DEF MarkDeploying
      <4> QED BY <4>1 DEF WillSettle, Live
    <3>2. CASE task[t].kind = "envdeploy" /\ Git
      <4>1. task'[t].kind \in Pipelines /\ task'[t].pc = "record"
        BY <3>2, <1>6 DEF MarkDeploying, TypeOK, TaskState, Git
      <4> QED BY <4>1 DEF WillSettle, Live, At
    <3>3. CASE task[t].kind = "envdeploy" /\ ~Git
      <4>1. /\ task'[t].kind = "envdeploy" /\ task'[t].pc = "envRead2"
            /\ task'[t].img = task[t].img /\ task[t].img # NONE
        BY <3>3, <1>6, GotoFrame DEF MarkDeploying
      <4> QED BY <4>1 DEF WillSettle, Live
    <3> QED BY <1>0, <3>1, <3>2, <3>3
  <2> QED BY <1>3, <1>4, <2>1 DEF DeployingHasOwner
<1> QED BY <1>5, <1>6

\* A task that ends without a row and without owning the status.
LEMMA EndedInv ==
  ASSUME DeployInv, NEW t \in Tasks, task' = Ended(t), Live(t),
         deployments' = deployments, boot' = boot, drops' = drops,
         svc'.strategy = svc.strategy, Exists' <=> Exists,
         (svc'.status = svc.status /\ ~WillSettle(t)) \/ svc'.status # "deploying"
  PROVE  RowInv' /\ OnePipelineInProgress' /\ DeployingHasOwner'
<1> USE DEF DeployInv
<1>0. /\ \A u \in Tasks : u # t => task'[u] = task[u]
      /\ task'[t].kind = task[t].kind /\ task'[t].pc = "done"
  BY EndedFrame
<1>1. RowInv'
  BY <1>0 DEF RowInv
<1>2. OnePipelineInProgress'
  BY <1>0 DEF OnePipelineInProgress, InProgress
<1>3. CASE svc'.status = svc.status /\ ~WillSettle(t)
  <2>1. \A u \in Tasks : /\ WillSettle(u) => WillSettle(u)'
                         /\ StaleRow(u) => StaleRow(u)'
    BY <1>0, <1>3 DEF WillSettle, StaleRow, Live, At, Git
  <2> QED BY <1>1, <1>2, <1>3, <2>1 DEF DeployingHasOwner
<1>4. CASE svc'.status # "deploying"
  BY <1>1, <1>2, <1>4 DEF DeployingHasOwner
<1> QED BY <1>3, <1>4

LEMMA EnvWriteInv ==
  ASSUME DeployInv, NEW t \in Tasks, EnvWrite(t)
  PROVE  RowInv' /\ OnePipelineInProgress' /\ DeployingHasOwner'
<1> USE DEF DeployInv
<1>0. /\ svc' = svc /\ deployments' = deployments /\ boot' = boot /\ drops' = drops
      /\ task[t].pc \in {"envWrite", "envWrite2"}
  BY DEF EnvWrite
<1>1. CASE task[t].kind = "envsave" /\ At(t, "envWrite")
  <2>1. task' = Ended(t)
    BY <1>1 DEF EnvWrite, AfterEnv, Pipelines
  <2>2. deployments[t] = "none"
    BY <1>1 DEF RowInv, Pipelines
  <2>3. Live(t) /\ ~WillSettle(t)
    BY <1>0, <1>1, <2>2 DEF Live, WillSettle, Pipelines, Creates
  <2> QED BY <1>0, <2>1, <2>3, EndedInv DEF Exists
<1>2. CASE ~(task[t].kind = "envsave" /\ At(t, "envWrite"))
  <2>1. PICK s : task' = Goto(t, s) /\ s \notin {"idle", "record", "done"}
    BY <1>0, <1>2 DEF EnvWrite, AfterEnv, At
  <2>2. Progress(t)
    BY <1>0, <2>1, GotoFrame DEF Progress
  <2> QED BY <2>2, ProgressInv
<1> QED BY <1>1, <1>2

LEMMA FinishInv ==
  ASSUME DeployInv, NEW t \in Tasks,
         FinishDeployment(t) \/ FinishCreate(t) \/ FinishInline(t) \/ FinishStop(t)
  PROVE  RowInv' /\ OnePipelineInProgress' /\ DeployingHasOwner'
<1> USE DEF DeployInv
<1>0. /\ svc \in ServiceRow /\ task' = Ended(t) /\ boot' = boot /\ drops' = drops
      /\ At(t, "finish") /\ Live(t)
  BY DEF TypeOK, FinishDeployment, FinishCreate, FinishInline, FinishStop, Live, At
<1>f. /\ \A u \in Tasks : u # t => task'[u] = task[u]
      /\ task'[t].kind = task[t].kind /\ task'[t].pc = "done"
  BY <1>0, EndedFrame
<1>1. CASE FinishDeployment(t) /\ deployments[t] = "building"
  <2>1. /\ \A u \in Tasks : u # t => deployments'[u] = deployments[u]
        /\ deployments'[t] \in {"success", "failed"}
        /\ svc'.status \in {"running", "failed"}
    BY <1>0, <1>1 DEF FinishDeployment, StillOpen, TypeOK, ServiceRow
  <2>2. Exists /\ Exists'
    BY <1>1, <2>1 DEF RowInv, Exists
  <2>3. RowInv'
    BY <1>f, <1>1, <2>1, <2>2 DEF RowInv, FinishDeployment
  <2>4. OnePipelineInProgress'
    BY <1>f, <2>1 DEF OnePipelineInProgress, InProgress
  <2> QED BY <2>1, <2>3, <2>4 DEF DeployingHasOwner
<1>2. CASE FinishDeployment(t) /\ deployments[t] # "building"
  <2>1. svc' = svc /\ deployments' = deployments
    BY <1>2 DEF FinishDeployment, StillOpen
  <2>2. ~WillSettle(t)
    BY <1>0, <1>2 DEF FinishDeployment, WillSettle, At, Pipelines, Creates
  <2> QED BY <1>0, <2>1, <2>2, EndedInv DEF Exists
<1>3. CASE FinishCreate(t)
  <2>1. /\ deployments' = deployments /\ svc'.strategy = svc.strategy
        /\ svc'.status # "deploying" /\ (Exists' <=> Exists)
    BY <1>0, <1>3 DEF FinishCreate, ServiceRow, Exists
  <2> QED BY <1>0, <2>1, EndedInv
<1>4. CASE FinishInline(t)
  <2>1. /\ deployments' = deployments /\ svc'.strategy = svc.strategy
        /\ svc'.status # "deploying" /\ (Exists' <=> Exists)
    BY <1>0, <1>4 DEF FinishInline, Updated, ServiceRow, Exists
  <2> QED BY <1>0, <2>1, EndedInv
<1>5. CASE FinishStop(t)
  <2>1. /\ deployments' = deployments /\ svc'.strategy = svc.strategy
        /\ svc'.status = svc.status \/ svc'.status # "deploying"
        /\ (Exists' <=> Exists)
    BY <1>0, <1>5 DEF FinishStop, Updated, ServiceRow, Exists
  <2>2. deployments[t] = "none"
    BY <1>5 DEF FinishStop, RowInv, Pipelines
  <2>3. ~WillSettle(t)
    BY <1>0, <1>5, <2>2 DEF FinishStop, WillSettle, At, Pipelines, Creates
  <2> QED BY <1>0, <2>1, <2>3, EndedInv
<1> QED BY <1>1, <1>2, <1>3, <1>4, <1>5

LEMMA DeleteInv ==
  ASSUME DeployInv, NEW t \in Tasks, DeleteService(t)
  PROVE  RowInv' /\ OnePipelineInProgress' /\ DeployingHasOwner'
<1>1. svc'.status = "gone" /\ \A u \in Tasks : deployments'[u] = "none"
  BY DEF DeployInv, TypeOK, ServiceRow, DeleteService
<1> QED BY <1>1 DEF RowInv, OnePipelineInProgress, InProgress, DeployingHasOwner

\* After a crash the reconciliation is pending; rows keep their tasks' kinds.
LEMMA FailureInv ==
  ASSUME DeployInv, (\E t \in Tasks : DropHandler(t)) \/ Crash \/ Reconcile
  PROVE  RowInv' /\ OnePipelineInProgress' /\ DeployingHasOwner'
<1> USE DEF DeployInv
<1>1. ASSUME NEW t \in Tasks, DropHandler(t)
      PROVE  RowInv' /\ OnePipelineInProgress' /\ DeployingHasOwner'
  <2>1. /\ svc' = svc /\ deployments' = deployments /\ task' = Ended(t)
        /\ drops \in Nat /\ drops' = drops + 1
    BY <1>1 DEF DropHandler, TypeOK
  <2>2. /\ \A u \in Tasks : u # t => task'[u] = task[u]
        /\ task'[t].kind = task[t].kind /\ task'[t].pc = "done"
    BY <2>1, EndedFrame
  <2>3. drops' > 0
    BY <2>1
  <2>4. RowInv'
    BY <2>1, <2>2 DEF RowInv, Exists
  <2>5. OnePipelineInProgress'
    BY <2>1, <2>2 DEF OnePipelineInProgress, InProgress
  <2> QED BY <2>3, <2>4, <2>5 DEF DeployingHasOwner
<1>2. CASE Crash
  <2>1. /\ svc' = svc /\ deployments' = deployments /\ boot'.phase = "list"
    BY <1>2 DEF Crash, Booted
  <2>2. \A u \in Tasks : /\ task'[u].kind = task[u].kind
                         /\ task[u].pc # "idle" => task'[u].pc = "done"
    BY <1>2 DEF Crash, Live, IdleTask, TypeOK, TaskState
  <2>3. RowInv'
    BY <2>1, <2>2 DEF RowInv, Exists
  <2>4. OnePipelineInProgress'
    BY <2>1, <2>2 DEF OnePipelineInProgress, InProgress
  <2> QED BY <2>1, <2>3, <2>4 DEF DeployingHasOwner
<1>3. CASE Reconcile
  <2>0. svc \in ServiceRow /\ boot \in BootState
    BY DEF TypeOK
  <2>1. deployments' = deployments /\ task' = task /\ (Exists' <=> Exists)
    BY <1>3, <2>0 DEF Reconcile, ReconcileList, ReconcileContainers,
       ReconcileSettle, Settled, ServiceRow, Exists
  <2>4. svc'.status = "deploying" => boot'.phase # "idle"
    <3>1. CASE ReconcileList
      BY <3>1 DEF ReconcileList
    <3>2. CASE ReconcileContainers
      <4>1. boot'.phase \in {"settle", "gaveup"}
        BY <2>0, <3>2 DEF ReconcileContainers, Booted, BootState
      <4> QED BY <4>1
    <3>3. CASE ReconcileSettle
      BY <2>0, <3>3 DEF ReconcileSettle, Settled, ServiceRow
    <3> QED BY <1>3, <3>1, <3>2, <3>3 DEF Reconcile
  <2>2. RowInv'
    BY <2>1 DEF RowInv, Exists
  <2>3. OnePipelineInProgress'
    BY <2>1 DEF OnePipelineInProgress, InProgress
  <2> QED BY <2>2, <2>3, <2>4 DEF DeployingHasOwner
<1> QED BY <1>1, <1>2, <1>3

LEMMA DeployInvStep == DeployInv /\ [Next]_vars => DeployInv'
<1> SUFFICES ASSUME DeployInv, [Next]_vars PROVE DeployInv'
  OBVIOUS
<1>0. TypeOK
  BY DEF DeployInv
<1>1. ASSUME NEW t \in Tasks, Request(t) PROVE DeployInv'
  BY <1>0, <1>1, RequestInv, RequestType DEF DeployInv
<1>2. ASSUME NEW t \in Tasks, Step(t) PROVE DeployInv'
  <2>1. TypeOK'
    BY <1>0, <1>2, StepType
  <2>2. RowInv' /\ OnePipelineInProgress' /\ DeployingHasOwner'
    BY <1>0, <1>2, MiddleIsProgress, ProgressInv, RecordInv, MarkDeployingInv,
       EnvWriteInv, FinishInv, DeleteInv DEF Step, MiddleStep
  <2> QED BY <2>1, <2>2 DEF DeployInv
<1>3. CASE (\E t \in Tasks : DropHandler(t)) \/ Crash \/ Reconcile
  BY <1>0, <1>3, FailureInv, FailureType DEF DeployInv
<1>4. CASE UNCHANGED vars
  <2>1. TypeOK'
    BY <1>0, <1>4 DEF TypeOK, vars
  <2>2. RowInv' /\ OnePipelineInProgress' /\ DeployingHasOwner'
    BY <1>4 DEF vars, DeployInv, RowInv, OnePipelineInProgress, DeployingHasOwner,
       InProgress, WillSettle, StaleRow, Live, At, Git, Exists
  <2> QED BY <2>1, <2>2 DEF DeployInv
<1> QED BY <1>1, <1>2, <1>3, <1>4 DEF Next

LEMMA DeployInvInit == Init => DeployInv
<1> SUFFICES ASSUME Init PROVE DeployInv
  OBVIOUS
<1>1. TypeOK
  BY InitType
<1>2. \A t \in Tasks : deployments[t] = "none"
  BY DEF Init
<1>3. RowInv /\ OnePipelineInProgress
  BY <1>2 DEF RowInv, OnePipelineInProgress, InProgress
<1>4. DeployingHasOwner
  <2>1. PICK i \in Images, k \in Strategies :
           Established(i, k) \/ \E t \in Tasks : Created(i, k, t)
    BY DEF Init
  <2>2. CASE Established(i, k)
    BY <2>2 DEF Established, Row, DeployingHasOwner
  <2>3. ASSUME NEW t \in Tasks, Created(i, k, t) PROVE DeployingHasOwner
    <3>1. task[t].kind \in Creates /\ task[t].pc = "log"
      BY <2>3 DEF Created, IdleTask, Creates
    <3> QED BY <3>1 DEF DeployingHasOwner, WillSettle, Live
  <2> QED BY <2>1, <2>2, <2>3
<1> QED BY <1>1, <1>3, <1>4 DEF DeployInv

LEMMA DeployInvAlways == Spec => []DeployInv
BY DeployInvInit, DeployInvStep, PTL DEF Spec

\* A service at 'deploying' always has a task, a pending reconciliation or a
\* cancellable row that can move it on, for any number of operations, crashes
\* and requests; only a dropped handler can abandon it.
THEOREM NeverAbandoned == Spec => []DeployingHasOwner
<1>1. DeployInv => DeployingHasOwner
  BY DEF DeployInv
<1> QED BY <1>1, DeployInvAlways, PTL

\* However many pipelines are started for a service, at most one of their
\* rows is in progress.
THEOREM SinglePipeline == Spec => []OnePipelineInProgress
<1>1. DeployInv => OnePipelineInProgress
  BY DEF DeployInv
<1> QED BY <1>1, DeployInvAlways, PTL

-----------------------------------------------------------------------------
(* Refinement of the deployments ledger.                                    *)

\* The rows, their kinds and the existence of the service stay as they are.
RowsUntouched ==
  /\ deployments' = deployments
  /\ Exists' <=> Exists
  /\ \A u \in Tasks : deployments[u] # "none" => task'[u].kind = task[u].kind

LEMMA UntouchedStutters ==
  ASSUME RowsUntouched
  PROVE  UNCHANGED Ledger!ledgerVars
<1>1. RollbackRows' = RollbackRows
  BY DEF RowsUntouched, RollbackRows
<1>2. (~Exists)' = ~Exists
  BY Zenon DEF RowsUntouched
<1> QED BY <1>1, <1>2, Zenon DEF RowsUntouched, Ledger!ledgerVars

\* Every action but the five below leaves the rows untouched.
LEMMA MostStepsUntouched ==
  ASSUME DeployInv, [Next]_vars,
         \A t \in Tasks : /\ ~RecordPipeline(t) /\ ~RecordRollback(t) /\ ~Cancel(t)
                          /\ ~FinishDeployment(t) /\ ~DeleteService(t)
  PROVE  RowsUntouched
<1> USE DEF DeployInv
<1>0. svc \in ServiceRow
  BY DEF TypeOK
<1>1. ASSUME NEW t \in Tasks, Request(t) PROVE RowsUntouched
  <2>1. \E k, s, i, o : Begin(t, k, s, i, o)
    BY <1>1 DEF Request, ManualDeploy, RedeployGit, RedeployCompose, Stop, Start,
       Restart, Rollback, Remove, SaveEnv
  <2>2. /\ deployments' = deployments /\ deployments[t] = "none"
        /\ \A u \in Tasks : u # t => task'[u] = task[u]
    BY <2>1 DEF Begin, At, RowInv, TypeOK
  <2>3. Exists' <=> Exists
    BY <1>0, <1>1 DEF Request, ManualDeploy, RedeployGit, RedeployCompose, Stop,
       Start, Restart, Rollback, Remove, SaveEnv, Exists, ServiceRow
  <2> QED BY <2>2, <2>3 DEF RowsUntouched
<1>2. ASSUME NEW t \in Tasks, Step(t) PROVE RowsUntouched
  <2>1. CASE MiddleStep(t)
    BY <2>1, MiddleIsProgress DEF Progress, RowsUntouched, Exists
  <2>2. CASE MarkDeploying(t)
    <3>1. /\ deployments' = deployments /\ deployments[t] = "none"
          /\ Exists' <=> Exists
      BY <1>0, <2>2 DEF MarkDeploying, RowInv, Pipelines, Updated, Exists, ServiceRow
    <3>2. \A u \in Tasks : u # t => task'[u] = task[u]
      <4>1. CASE \E s \in Steps : task' = Goto(t, s)
        BY <4>1, GotoFrame
      <4>2. CASE \E i \in Images :
                   task' = [task EXCEPT ![t].kind = svc.strategy,
                                        ![t].pc = "record", ![t].img = i]
        BY <4>2 DEF TypeOK
      <4>3. CASE task' = Ended(t)
        BY <4>3, EndedFrame
      <4> QED BY <2>2, <4>1, <4>2, <4>3 DEF MarkDeploying, Steps
    <3> QED BY <3>1, <3>2 DEF RowsUntouched
  <2>3. CASE EnvWrite(t)
    <3>1. deployments' = deployments /\ svc' = svc
          /\ (task' = Ended(t) \/ \E s : task' = Goto(t, s))
      BY <2>3 DEF EnvWrite
    <3>2. \A u \in Tasks : task'[u].kind = task[u].kind
      BY <3>1, EndedFrame, GotoFrame
    <3> QED BY <3>1, <3>2 DEF RowsUntouched, Exists
  <2>4. CASE FinishCreate(t) \/ FinishInline(t) \/ FinishStop(t)
    <3>1. deployments' = deployments /\ task' = Ended(t)
      BY <2>4 DEF FinishCreate, FinishInline, FinishStop
    <3>2. Exists' <=> Exists
      BY <1>0, <2>4 DEF FinishCreate, FinishInline, FinishStop, Updated, Exists,
         ServiceRow
    <3> QED BY <3>1, <3>2, EndedFrame DEF RowsUntouched
  <2> QED BY <1>2, <2>1, <2>2, <2>3, <2>4 DEF Step, MiddleStep
<1>3. ASSUME NEW t \in Tasks, DropHandler(t) PROVE RowsUntouched
  BY <1>3, EndedFrame DEF DropHandler, RowsUntouched, Exists
<1>4. CASE Crash
  BY <1>4 DEF Crash, RowsUntouched, Exists, IdleTask
<1>5. CASE Reconcile
  BY <1>0, <1>5 DEF Reconcile, ReconcileList, ReconcileContainers,
     ReconcileSettle, Settled, ServiceRow, RowsUntouched, Exists
<1>6. CASE UNCHANGED vars
  BY <1>6 DEF vars, RowsUntouched, Exists
<1> QED BY <1>1, <1>2, <1>3, <1>4, <1>5, <1>6 DEF Next

LEMMA LedgerStep ==
  ASSUME DeployInv, [Next]_vars
  PROVE  [Ledger!LedgerNext]_(Ledger!ledgerVars)
<1> USE DEF DeployInv
<1>0. svc \in ServiceRow /\ deployments \in [Tasks -> RowStatus]
  BY DEF TypeOK
<1>1. ASSUME NEW t \in Tasks, RecordPipeline(t), Exists
      PROVE  Ledger!OpenPipeline(t)
  <2>1. /\ deployments' = Superseded(t) /\ task' = Goto(t, "envRead")
        /\ svc' = [svc EXCEPT !.status = "deploying"]
        /\ task[t].kind \in Pipelines /\ At(t, "record")
    BY <1>1 DEF RecordPipeline
  <2>2. deployments[t] = "none"
    BY <2>1 DEF RowInv, At
  <2>3. \A u \in Tasks : task'[u].kind = task[u].kind
    BY <2>1, GotoFrame
  <2>4. RollbackRows' = RollbackRows
    BY <2>1, <2>2, <2>3 DEF RollbackRows, Superseded, InProgress, Pipelines
  <2>5. Exists' <=> Exists
    BY <1>0, <1>1, <2>1 DEF Exists, ServiceRow
  <2>6. (~Exists)' = ~Exists
    BY <2>5, Zenon
  <2>7. deployments' = [q \in Tasks |-> IF q = t THEN "building"
                             ELSE IF deployments[q] = "building" THEN "cancelled"
                             ELSE deployments[q]]
    BY <2>1 DEF Superseded, InProgress
  <2> QED BY <1>1, <2>2, <2>4, <2>6, <2>7, Zenon DEF Ledger!OpenPipeline
<1>2. ASSUME NEW t \in Tasks, RecordRollback(t), Exists
      PROVE  Ledger!OpenRollback(t)
  <2>1. /\ deployments' = [deployments EXCEPT ![t] = "building"]
        /\ task' = Goto(t, "down")
        /\ svc' = [svc EXCEPT !.status = "deploying"]
        /\ task[t].kind = "rollback" /\ At(t, "record")
    BY <1>2 DEF RecordRollback, Updated
  <2>2. deployments[t] = "none"
    BY <2>1 DEF RowInv, At
  <2>3. \A u \in Tasks : task'[u].kind = task[u].kind
    BY <2>1, GotoFrame
  <2>4. RollbackRows' = RollbackRows \cup {t}
    BY <1>0, <2>1, <2>2, <2>3 DEF RollbackRows
  <2>5. Exists' <=> Exists
    BY <1>0, <1>2, <2>1 DEF Exists, ServiceRow
  <2>6. (~Exists)' = ~Exists
    BY <2>5, Zenon
  <2> QED BY <1>2, <2>1, <2>2, <2>4, <2>6, Zenon DEF Ledger!OpenRollback
<1>3. ASSUME NEW t \in Tasks, deployments[t] = "building",
             Cancel(t) \/ FinishDeployment(t)
      PROVE  Ledger!CloseRow(t)
  <2>1. PICK s \in {"success", "failed", "cancelled"} :
           deployments' = [deployments EXCEPT ![t] = s]
    BY <1>3 DEF Cancel, FinishDeployment, StillOpen
  <2>2. \A u \in Tasks : task'[u].kind = task[u].kind
    BY <1>3, EndedFrame DEF Cancel, FinishDeployment
  <2>3. RollbackRows' = RollbackRows
    BY <1>0, <1>3, <2>1, <2>2 DEF RollbackRows
  <2>4. Exists' <=> Exists
    BY <1>0, <1>3 DEF Cancel, FinishDeployment, StillOpen, RowInv, Exists, ServiceRow
  <2>5. (~Exists)' = ~Exists
    BY <2>4, Zenon
  <2> QED BY <1>3, <2>1, <2>3, <2>5 DEF Ledger!CloseRow, Ledger!Terminal
<1>4. ASSUME NEW t \in Tasks, DeleteService(t)
      PROVE  Ledger!DropLedger
  <2>1. deployments' = [d \in Tasks |-> "none"] /\ svc'.status = "gone"
    BY <1>0, <1>4 DEF DeleteService, ServiceRow
  <2>2. RollbackRows' = {}
    BY <2>1 DEF RollbackRows
  <2>3. ~Exists'
    BY <2>1 DEF Exists
  <2>4. (~Exists)' = TRUE
    BY <2>3, Zenon
  <2> QED BY <2>1, <2>2, <2>4, Zenon DEF Ledger!DropLedger
<1>5. ASSUME NEW t \in Tasks,
             \/ (RecordPipeline(t) \/ RecordRollback(t)) /\ ~Exists
             \/ FinishDeployment(t) /\ deployments[t] # "building"
      PROVE  RowsUntouched
  <2>1. deployments' = deployments /\ svc' = svc
        /\ (task' = Ended(t) \/ \E s : task' = Goto(t, s))
    BY <1>5 DEF RecordPipeline, RecordRollback, Updated, FinishDeployment, StillOpen
  <2>2. \A u \in Tasks : task'[u].kind = task[u].kind
    BY <2>1, EndedFrame, GotoFrame
  <2> QED BY <2>1, <2>2 DEF RowsUntouched, Exists
<1>6. ASSUME NEW t \in Tasks, Cancel(t) PROVE deployments[t] = "building"
  BY <1>6 DEF Cancel
<1> QED
  BY <1>1, <1>2, <1>3, <1>4, <1>5, <1>6, MostStepsUntouched, UntouchedStutters
  DEF Ledger!LedgerNext

\* The deployments table of a service implements the ledger: rows open once
\* and only while the service exists, a terminal row never changes, a pipeline
\* supersedes what is in progress, and rows vanish only with their service.
THEOREM ImplementsLedger == Spec => LedgerRefinement
<1>1. Init => Ledger!LedgerInit
  <2> SUFFICES ASSUME Init PROVE Ledger!LedgerInit
    OBVIOUS
  <2>1. deployments = [t \in Tasks |-> "none"]
    BY DEF Init
  <2>2. RollbackRows = {}
    BY <2>1 DEF RollbackRows
  <2>3. Exists
    BY DEF Init, Established, Created, Row, Exists
  <2>4. (~Exists) = FALSE
    BY <2>3, Zenon
  <2> QED BY <2>1, <2>2, <2>4, Zenon DEF Ledger!LedgerInit
<1>2. DeployInv /\ [Next]_vars => [Ledger!LedgerNext]_(Ledger!ledgerVars)
  BY LedgerStep
<1> QED BY <1>1, <1>2, DeployInvAlways, PTL DEF Spec, LedgerRefinement, Ledger!LedgerSpec

-----------------------------------------------------------------------------
(* Build permits.                                                           *)

Holding == {"build", "file", "up", "finish"}

\* Inductive form of PermitsReturned: only railpack tasks wait for a permit,
\* and the set of holders is finite.
PermitInv ==
  /\ \A t \in held : task[t].kind = "railpack" /\ task[t].pc \in Holding
  /\ \A t \in Tasks : task[t].pc = "permit" => task[t].kind = "railpack"
  /\ Cardinality(held) <= Permits

\* A task that is not at one of the permit steps leaves the permits alone and
\* does not get to "permit".
AwayFromPermits(t) ==
  /\ held' = held
  /\ \A u \in Tasks : u # t => task'[u] = task[u]
  /\ t \notin held
  /\ task'[t].pc # "permit"

LEMMA AwayInv ==
  ASSUME TypeOK, PermitInv, NEW t \in Tasks, AwayFromPermits(t)
  PROVE  PermitInv'
BY DEF TypeOK, PermitInv, AwayFromPermits

LEMMA AfterNotPermit ==
  ASSUME NEW k
  PROVE  /\ AfterDown(k) # "permit" /\ AfterEnv(k) # "permit" /\ AfterUp(k) # "permit"
         /\ AfterClone(k) = "permit" => k = "railpack"
BY DEF AfterDown, AfterEnv, AfterUp, AfterClone

LEMMA HeldFinite ==
  ASSUME TypeOK
  PROVE  IsFiniteSet(held) /\ Cardinality(held) \in Nat
<1>1. IsFiniteSet(held)
  BY ConstantsOK, FS_Subset DEF TypeOK
<1> QED BY <1>1, FS_CardinalityType

LEMMA ReleaseKeepsBound ==
  ASSUME TypeOK, PermitInv, NEW t \in Tasks
  PROVE  Cardinality(held \ {t}) <= Permits
<1> DEFINE c == Cardinality(held)
           r == Cardinality(held \ {t})
<1>1. c \in Nat /\ c <= Permits
  BY HeldFinite DEF PermitInv
<1>2. Permits \in Nat
  BY ConstantsOK
<1>3. r = IF t \in held THEN c - 1 ELSE c
  BY HeldFinite, FS_RemoveElement
<1> HIDE DEF c, r
<1>4. r = c - 1 \/ r = c
  BY <1>3
<1>5. r <= Permits
  BY <1>1, <1>2, <1>4
<1> QED BY <1>5 DEF r

LEMMA AcquireKeepsBound ==
  ASSUME TypeOK, NEW t \in Tasks, Cardinality(held) < Permits
  PROVE  Cardinality(held \cup {t}) <= Permits
<1> DEFINE c == Cardinality(held)
           r == Cardinality(held \cup {t})
<1>1. c \in Nat /\ c < Permits
  BY HeldFinite
<1>2. Permits \in Nat
  BY ConstantsOK
<1>3. r = IF t \in held THEN c ELSE c + 1
  BY HeldFinite, FS_AddElement
<1> HIDE DEF c, r
<1>4. r = c + 1 \/ r = c
  BY <1>3
<1>5. r <= Permits
  BY <1>1, <1>2, <1>4
<1> QED BY <1>5 DEF r

LEMMA EmptyWithinBound == Cardinality({}) <= Permits
<1>1. Cardinality({}) = 0
  BY FS_EmptySet
<1>2. Permits \in Nat
  BY ConstantsOK
<1> QED BY <1>1, <1>2

LEMMA PermitStep ==
  ASSUME TypeOK, PermitInv, NEW t \in Tasks, Step(t)
  PROVE  PermitInv'
<1> USE DEF At
<1>1. CASE AcquirePermit(t)
  <2>1. task' = Goto(t, "build") /\ held' = held \cup {t} /\ Cardinality(held) < Permits
        /\ task[t].pc = "permit"
    BY <1>1 DEF AcquirePermit
  <2>2. Cardinality(held') <= Permits
    BY <2>1, AcquireKeepsBound
  <2> QED BY <2>1, <2>2, GotoFrame DEF PermitInv, Holding, TypeOK
<1>2. CASE Build(t) \/ WriteCompose(t)
  <2>1. PICK s \in {"file", "up", "finish"} :
           task' = Goto(t, s) \/ (task' = Fail(t) /\ s = "finish")
    BY <1>2 DEF Build, WriteCompose
  <2>2. held' = held
    BY <1>2 DEF Build, WriteCompose
  <2> QED BY <2>1, <2>2, GotoFrame DEF PermitInv, Holding, TypeOK
<1>3. CASE Up(t)
  <2>1. CASE held' = held \ {t} /\ task' = Goto(t, AfterUp(task[t].kind))
    <3>1. Cardinality(held') <= Permits
      BY <2>1, ReleaseKeepsBound
    <3> QED BY <2>1, <3>1, GotoFrame, AfterNotPermit DEF PermitInv, TypeOK
  <2>2. CASE held' = held /\ task' = Fail(t)
    BY <2>2, GotoFrame DEF PermitInv, Holding, TypeOK
  <2> QED BY <1>3, <2>1, <2>2 DEF Up
<1>4. CASE FinishDeployment(t)
  <2>1. held' = held \ {t} /\ task' = Ended(t)
    BY <1>4 DEF FinishDeployment, Released
  <2>2. Cardinality(held') <= Permits
    BY <2>1, ReleaseKeepsBound
  <2> QED BY <2>1, <2>2, EndedFrame DEF PermitInv, TypeOK
<1>5. CASE Clone(t)
  <2>1. held' = held /\ t \notin held
    BY <1>5 DEF Clone, PermitInv, Holding
  <2>2. PICK s : /\ task' = Goto(t, s) \/ (task' = Fail(t) /\ s = "finish")
                 /\ s = AfterClone(task[t].kind) \/ s = "finish"
    BY <1>5 DEF Clone
  <2> QED BY <2>1, <2>2, GotoFrame, AfterNotPermit DEF PermitInv, TypeOK
<1>6. CASE OpenLog(t) \/ RecordPipeline(t) \/ RecordRollback(t) \/ WipeStackDir(t)
           \/ MoveContext(t) \/ SwapImage(t) \/ Publish(t) \/ RemoveStackDir(t)
           \/ DeleteService(t)
  <2>1. held' = held /\ t \notin held
    BY <1>6 DEF OpenLog, RecordPipeline, RecordRollback, WipeStackDir, MoveContext,
       SwapImage, Publish, RemoveStackDir, DeleteService, PermitInv, Holding
  <2>2. task' = Ended(t) \/ \E s \in Steps \ {"permit"} : task' = Goto(t, s)
    BY <1>6 DEF OpenLog, RecordPipeline, RecordRollback, WipeStackDir, MoveContext,
       SwapImage, Publish, RemoveStackDir, DeleteService, Steps
  <2> QED BY <2>1, <2>2, EndedFrame, GotoFrame, AwayInv DEF AwayFromPermits
<1>7. CASE Down(t)
  BY <1>7, AfterNotPermit, AwayInv
  DEF Down, AwayFromPermits, PermitInv, Holding, TypeOK, TaskState
<1>8. CASE MarkDeploying(t)
  <2>1. held' = held /\ t \notin held
    BY <1>8 DEF MarkDeploying, PermitInv, Holding
  <2>2. \/ task' = Ended(t) \/ \E s \in Steps \ {"permit"} : task' = Goto(t, s)
        \/ \E i \in Images :
              task' = [task EXCEPT ![t].kind = svc.strategy,
                                   ![t].pc = "record", ![t].img = i]
    BY <1>8 DEF MarkDeploying, Steps
  <2>3. (\A u \in Tasks : u # t => task'[u] = task[u]) /\ task'[t].pc # "permit"
    <3>1. CASE \E i \in Images :
                 task' = [task EXCEPT ![t].kind = svc.strategy,
                                      ![t].pc = "record", ![t].img = i]
      BY <3>1 DEF TypeOK, TaskState
    <3> QED BY <2>2, <3>1, EndedFrame, GotoFrame
  <2> QED BY <2>1, <2>3, AwayInv DEF AwayFromPermits
<1>9. CASE EnvRead(t) \/ CopyEnv(t) \/ SaveImage(t)
  BY <1>9, AwayInv DEF EnvRead, CopyEnv, SaveImage, AwayFromPermits, PermitInv,
     Holding, TypeOK, TaskState
<1>10. CASE EnvWrite(t)
  <2>1. held' = held /\ t \notin held
    BY <1>10 DEF EnvWrite, PermitInv, Holding
  <2>2. task' = Ended(t) \/ \E s : s # "permit" /\ task' = Goto(t, s)
    BY <1>10, AfterNotPermit DEF EnvWrite
  <2> QED BY <2>1, <2>2, EndedFrame, GotoFrame, AwayInv DEF AwayFromPermits
<1>11. CASE FinishCreate(t) \/ FinishInline(t) \/ FinishStop(t)
  <2>1. held' = held /\ t \notin held /\ task' = Ended(t)
    BY <1>11 DEF FinishCreate, FinishInline, FinishStop, PermitInv, Creates
  <2> QED BY <2>1, EndedFrame, AwayInv DEF AwayFromPermits
<1> QED
  BY <1>1, <1>2, <1>3, <1>4, <1>5, <1>6, <1>7, <1>8, <1>9, <1>10, <1>11 DEF Step

\* Whatever fails, is cancelled or superseded, no permit of the railpack
\* semaphore is lost: holders are live railpack tasks inside the match arm,
\* and there are never more of them than permits.
THEOREM PermitsNeverLeak == Spec => []PermitsReturned
<1>1. Init => PermitInv
  <2> SUFFICES ASSUME Init PROVE PermitInv
    OBVIOUS
  <2>1. held = {} /\ Cardinality(held) <= Permits
    BY EmptyWithinBound DEF Init
  <2>2. \A t \in Tasks : task[t].pc # "permit"
    <3>1. PICK i \in Images, k \in Strategies :
             \/ Established(i, k)
             \/ k \notin Pipelines /\ \E t \in Tasks : Created(i, k, t)
      BY DEF Init
    <3>2. CASE Established(i, k)
      BY <3>2 DEF Established, IdleTask
    <3>3. CASE \E t \in Tasks : Created(i, k, t)
      BY <3>3 DEF Created, IdleTask
    <3> QED BY <3>1, <3>2, <3>3
  <2> QED BY <2>1, <2>2 DEF PermitInv
<1>2. TypeOK /\ PermitInv /\ [Next]_vars => PermitInv'
  <2> SUFFICES ASSUME TypeOK, PermitInv, [Next]_vars PROVE PermitInv'
    OBVIOUS
  <2>1. ASSUME NEW t \in Tasks, Request(t) PROVE PermitInv'
    <3>1. CASE Cancel(t)
      BY <3>1 DEF Cancel, PermitInv
    <3>2. CASE \E k, s, i, o : s # "permit" /\ Begin(t, k, s, i, o)
      BY <3>2, AwayInv DEF Begin, At, AwayFromPermits, PermitInv, Holding, TypeOK
    <3> QED BY <2>1, <3>1, <3>2 DEF Request, ManualDeploy, RedeployGit,
               RedeployCompose, Stop, Start, Restart, Rollback, Remove, SaveEnv
  <2>2. ASSUME NEW t \in Tasks, DropHandler(t) PROVE PermitInv'
    <3>1. held' = held /\ t \notin held /\ task' = Ended(t)
      BY <2>2 DEF DropHandler, PermitInv, Inline
    <3> QED BY <3>1, EndedFrame, AwayInv DEF AwayFromPermits
  <2>3. CASE Crash
    <3>1. held' = {} /\ Cardinality(held') <= Permits
      BY <2>3, EmptyWithinBound DEF Crash
    <3>2. \A t \in Tasks : task'[t].pc # "permit"
      BY <2>3 DEF Crash, Live, IdleTask
    <3> QED BY <3>1, <3>2 DEF PermitInv
  <2>4. CASE Reconcile \/ UNCHANGED vars
    BY <2>4 DEF Reconcile, ReconcileList, ReconcileContainers, ReconcileSettle,
       vars, PermitInv
  <2> QED BY <2>1, <2>2, <2>3, <2>4, PermitStep DEF Next
<1>3. PermitInv => PermitsReturned
  BY DEF PermitInv, PermitsReturned, Holding
<1> QED BY <1>1, <1>2, <1>3, TypeCorrect, PTL DEF Spec

-----------------------------------------------------------------------------
(* A service that is shown as running is faithful, when undisturbed.         *)

\* What the panel shows as running and up to date, and what runs and lies on the disk then.
Shown == svc.status = "running" /\ ~svc.dirty
Runs == live = [img |-> svc.compose, env |-> svc.env] /\ disk = live
Shows == Shown => Runs

\* Tasks that deploy the compose content the row has when they begin.
Given == Creates \cup {"start", "restart", "redeploy", "envdeploy"}

\* How far an undisturbed task has brought the row, the files and the container.
OnTrack(t) ==
  LET k == task[t].kind
      pc == task[t].pc IN
  /\ Exists /\ k # "none"
  /\ k = "stop" => pc \in {"down", "finish"} /\ (pc = "down" \/ ~task[t].ok => Shows)
  /\ k = "remove" => pc \in {"down", "rmdir", "delete"}
  /\ k = "envsave" => pc \in {"envRead", "envWrite"}
  /\ k \in {"envsave", "envdeploy"} => svc.dirty
  /\ k \in Creates \/ (k \in Pipelines \cup {"rollback"} /\ pc # "record") => svc.status = "deploying"
  /\ k \in Given => task[t].img = svc.compose
  /\ pc \in {"envWrite", "envWrite2", "wipe", "move"} => task[t].env = svc.env
  /\ pc \in {"clone", "copy", "permit", "build", "file"} => disk.env = svc.env
  /\ pc \in {"up", "save", "swap"} => disk = [img |-> task[t].img, env |-> svc.env]
  /\ pc \in {"save", "swap"} => live = disk
  /\ pc = "publish" => Runs /\ PublishedYaml(t) = svc.compose
  /\ pc = "finish" /\ task[t].ok /\ k # "stop" => Runs

\* In a calm history one task at most is under way and on track, and nothing is reconciled.
CalmInv ==
  calm =>
    /\ boot.phase = "idle"
    /\ Git => svc.image = svc.compose
    /\ \A t, u \in Tasks : Live(t) /\ Live(u) => t = u
    /\ (\A t \in Tasks : ~Live(t)) => Shows
    /\ \A t \in Tasks : Live(t) => OnTrack(t)

-----------------------------------------------------------------------------
(* Steps of an undisturbed task.                                             *)

\* What is kept of a task that goes on to step s.
LEMMA GoesOn ==
  ASSUME TypeOK, NEW t \in Tasks, NEW s, task' = Goto(t, s)
  PROVE  /\ \A u \in Tasks \ {t} : task'[u] = task[u]
         /\ task'[t].pc = s /\ task'[t].kind = task[t].kind /\ task'[t].img = task[t].img
         /\ task'[t].old = task[t].old /\ task'[t].env = task[t].env /\ task'[t].ok = task[t].ok
<1>1. task \in [Tasks -> TaskState] /\ task[t] \in TaskState
  BY DEF TypeOK
<1>2. task' = [task EXCEPT ![t] = [task[t] EXCEPT !.pc = s]]
  BY DEF Goto
<1> QED BY <1>1, <1>2 DEF TaskState

LEMMA FailsOn ==
  ASSUME TypeOK, NEW t \in Tasks, task' = Fail(t)
  PROVE  /\ \A u \in Tasks \ {t} : task'[u] = task[u]
         /\ task'[t].pc = "finish" /\ task'[t].ok = FALSE /\ task'[t].kind = task[t].kind
         /\ task'[t].img = task[t].img
<1>1. task \in [Tasks -> TaskState] /\ task[t] \in TaskState
  BY DEF TypeOK
<1>2. task' = [task EXCEPT ![t] = [task[t] EXCEPT !.pc = "finish", !.ok = FALSE]]
  BY DEF Fail
<1> QED BY <1>1, <1>2 DEF TaskState

LEMMA EndsHere ==
  ASSUME TypeOK, NEW t \in Tasks, task' = Ended(t)
  PROVE  (\A u \in Tasks \ {t} : task'[u] = task[u]) /\ ~Live(t)'
BY DEF TypeOK, Ended, IdleTask, Live

\* A calm step of the one task that is live.
LEMMA CalmKept ==
  ASSUME CalmInv, NEW t \in Tasks, Live(t), calm' => calm, boot' = boot,
         \A u \in Tasks \ {t} : task'[u] = task[u],
         calm' => (Git => svc.image = svc.compose)',
         calm' => (Live(t)' => OnTrack(t)'),
         calm' => (~Live(t)' => Shows')
  PROVE  CalmInv'
<1> SUFFICES ASSUME calm'
             PROVE  /\ boot'.phase = "idle"
                    /\ (Git => svc.image = svc.compose)'
                    /\ \A a, b \in Tasks : Live(a)' /\ Live(b)' => a = b
                    /\ (\A a \in Tasks : ~Live(a)') => Shows'
                    /\ \A a \in Tasks : Live(a)' => OnTrack(a)'
  BY DEF CalmInv
<1>1. boot.phase = "idle" /\ \A u \in Tasks \ {t} : ~Live(u)
  BY DEF CalmInv
<1>2. \A u \in Tasks \ {t} : ~Live(u)'
  BY <1>1 DEF Live
<1> QED BY <1>1, <1>2

\* What a calm history says of the live task.
LEMMA Calmly ==
  ASSUME CalmInv, calm, NEW t \in Tasks, Live(t)
  PROVE  OnTrack(t) /\ (Git => svc.image = svc.compose)
BY DEF CalmInv

\* What a task can be doing.
LEMMA TaskKind ==
  ASSUME TypeOK, NEW t \in Tasks
  PROVE  task[t].kind \in Kinds /\ task[t].ok \in BOOLEAN
BY DEF TypeOK, TaskState

\* Steps that touch neither the row nor the files nor the container.
QuietStep(t) ==
  \/ Clone(t) \/ AcquirePermit(t) \/ Build(t) \/ CopyEnv(t) \/ EnvRead(t) \/ OpenLog(t)

LEMMA QuietCalm ==
  ASSUME TypeOK, CalmInv, NEW t \in Tasks, QuietStep(t)
  PROVE  CalmInv'
<1>1. /\ UNCHANGED <<svc, disk, live, boot, calm>> /\ Live(t)
      /\ task[t].pc \in {"clone", "permit", "build", "copy", "envRead", "envRead2", "log"}
  BY DEF QuietStep, Clone, AcquirePermit, Build, CopyEnv, EnvRead, OpenLog, At, Live
<1>2. calm' => (Git => svc.image = svc.compose)'
  BY <1>1, Calmly DEF Git
<1>3. CASE task' = Fail(t) /\ task[t].pc \in {"clone", "build"}
  <2>1. /\ \A u \in Tasks \ {t} : task'[u] = task[u]
        /\ task'[t].pc = "finish" /\ task'[t].ok = FALSE /\ task'[t].kind = task[t].kind
        /\ task'[t].img = task[t].img
    BY <1>3, FailsOn
  <2>2. calm' => OnTrack(t)'
    BY <1>1, <1>3, <2>1, Calmly DEF OnTrack, Exists, Pipelines, Creates
  <2>3. Live(t)'
    BY <2>1 DEF Live
  <2> QED BY <1>1, <1>2, <2>1, <2>2, <2>3, CalmKept
<1>4. ASSUME NEW s, task' = Goto(t, s),
             \/ At(t, "clone") /\ s \in {"envRead2", "permit", "build"}
             \/ At(t, "permit") /\ s = "build"
             \/ At(t, "build") /\ s = "file"
             \/ At(t, "log") /\ s = "envRead"
      PROVE  CalmInv'
  <2>1. /\ \A u \in Tasks \ {t} : task'[u] = task[u]
        /\ task'[t].pc = s /\ task'[t].kind = task[t].kind /\ task'[t].img = task[t].img
        /\ task'[t].old = task[t].old /\ task'[t].env = task[t].env /\ task'[t].ok = task[t].ok
    BY <1>4, GoesOn
  <2>2. calm' => OnTrack(t)'
    BY <1>1, <1>4, <2>1, Calmly DEF At, OnTrack, Exists, Shows, Shown, Runs, Pipelines, Creates
  <2>3. Live(t)'
    BY <1>4, <2>1 DEF Live
  <2> QED BY <1>1, <1>2, <2>1, <2>2, <2>3, CalmKept
<1>5. ASSUME NEW s, NEW e, task' = [task EXCEPT ![t].pc = s, ![t].env = e],
             \/ At(t, "copy") /\ s = "wipe" /\ e = disk.env
             \/ At(t, "envRead") /\ s = "envWrite" /\ e = StoredEnv
             \/ At(t, "envRead2") /\ s = "envWrite2" /\ e = StoredEnv
      PROVE  CalmInv'
  <2>1. /\ \A u \in Tasks \ {t} : task'[u] = task[u]
        /\ task'[t].pc = s /\ task'[t].kind = task[t].kind /\ task'[t].img = task[t].img
        /\ task'[t].env = e
    <3>1. task \in [Tasks -> TaskState] /\ task[t] \in TaskState
      BY DEF TypeOK
    <3>2. task' = [task EXCEPT ![t] = [task[t] EXCEPT !.pc = s, !.env = e]]
      BY <1>5, <3>1
    <3> QED BY <3>1, <3>2 DEF TaskState
  <2>2. calm' => OnTrack(t)'
    BY <1>1, <1>5, <2>1, Calmly DEF At, OnTrack, Exists, Shows, Shown, Runs, Pipelines, Creates, StoredEnv
  <2>3. Live(t)'
    BY <1>5, <2>1 DEF Live
  <2> QED BY <1>1, <1>2, <2>1, <2>2, <2>3, CalmKept
<1>6. CASE Clone(t)
  BY <1>3, <1>4, <1>6 DEF Clone, AfterClone, At
<1>7. CASE AcquirePermit(t) \/ Build(t) \/ OpenLog(t)
  BY <1>3, <1>4, <1>7 DEF AcquirePermit, Build, OpenLog, At
<1>8. CASE CopyEnv(t)
  BY <1>5, <1>8 DEF CopyEnv
<1>9. CASE EnvRead(t)
  BY <1>5, <1>9 DEF EnvRead, At
<1> QED BY <1>6, <1>7, <1>8, <1>9 DEF QuietStep
\* Steps that open the row of a pipeline or of a rollback.
LEMMA RecordCalm ==
  ASSUME TypeOK, CalmInv, NEW t \in Tasks, RecordPipeline(t) \/ RecordRollback(t)
  PROVE  CalmInv'
<1>1. /\ UNCHANGED <<disk, live, boot, calm>> /\ Live(t) /\ At(t, "record")
      /\ task[t].kind \in Pipelines \cup {"rollback"}
  BY DEF RecordPipeline, RecordRollback, At, Live
<1>2. CASE Exists
  <2>1. svc' = [svc EXCEPT !.status = "deploying"]
    BY <1>2 DEF RecordPipeline, RecordRollback, Updated
  <2>2. /\ svc'.status = "deploying" /\ svc'.env = svc.env /\ svc'.image = svc.image
        /\ svc'.compose = svc.compose /\ svc'.strategy = svc.strategy
    BY <2>1 DEF TypeOK, ServiceRow
  <2>3. calm' => (Git => svc.image = svc.compose)'
    BY <1>1, <2>2, Calmly DEF Git
  <2>4. PICK s \in {"envRead", "down"} : task' = Goto(t, s)
    BY <1>2 DEF RecordPipeline, RecordRollback
  <2>5. /\ \A u \in Tasks \ {t} : task'[u] = task[u]
        /\ task'[t].pc = s /\ task'[t].kind = task[t].kind /\ task'[t].img = task[t].img
    BY <2>4, GoesOn
  <2>6. calm' => OnTrack(t)'
    BY <1>1, <2>2, <2>5 DEF OnTrack, Exists, Pipelines, Creates, Given
  <2>7. Live(t)'
    BY <2>5 DEF Live
  <2> QED BY <1>1, <2>3, <2>5, <2>6, <2>7, CalmKept
<1>3. CASE ~Exists
  <2>1. ~calm
    BY <1>1, <1>3, Calmly DEF OnTrack
  <2> QED BY <1>1, <2>1 DEF CalmInv
<1> QED BY <1>2, <1>3

\* docker compose down.
LEMMA DownCalm ==
  ASSUME TypeOK, CalmInv, NEW t \in Tasks, Down(t)
  PROVE  CalmInv'
<1>1. UNCHANGED <<svc, disk, boot, calm>> /\ Live(t) /\ task[t].pc = "down"
  BY DEF Down, At, Live
<1>2. PICK ran \in BOOLEAN :
         /\ ~ran => live' = live
         /\ task' = [task EXCEPT ![t].pc = AfterDown(task[t].kind),
                                 ![t].ok = (task[t].kind = "stop" => ran)]
  BY DEF Down
<1>3. /\ \A u \in Tasks \ {t} : task'[u] = task[u]
      /\ task'[t].pc = AfterDown(task[t].kind) /\ task'[t].kind = task[t].kind
      /\ task'[t].img = task[t].img /\ (task[t].kind = "stop" => task'[t].ok = ran)
  <2>1. task \in [Tasks -> TaskState] /\ task[t] \in TaskState
    BY DEF TypeOK
  <2>2. task' = [task EXCEPT ![t] = [task[t] EXCEPT !.pc = AfterDown(task[t].kind),
                                                    !.ok = (task[t].kind = "stop" => ran)]]
    BY <1>2
  <2>3. task'[t] = [task[t] EXCEPT !.pc = AfterDown(task[t].kind),
                                   !.ok = (task[t].kind = "stop" => ran)]
    BY <2>1, <2>2
  <2>4. task[t].kind = "stop" => task'[t].ok = ran
    BY <2>1, <2>3 DEF TaskState
  <2> QED BY <2>1, <2>2, <2>3, <2>4 DEF TaskState
<1>4. calm' => (Git => svc.image = svc.compose)'
  BY <1>1, Calmly DEF Git
<1>5. Live(t)'
  BY <1>3 DEF Live, AfterDown
<1>6. ~ran => live' = live
  BY <1>2
<1>7. CASE task[t].kind = "stop"
  <2>1. task'[t].pc = "finish" /\ task'[t].kind = "stop" /\ task'[t].ok = ran
    BY <1>3, <1>7 DEF AfterDown
  <2>2. calm' => (~task'[t].ok => Shows')
    BY <1>1, <1>6, <1>7, <2>1, Calmly DEF OnTrack, Shows, Shown, Runs
  <2>3. calm' => OnTrack(t)'
    BY <1>1, <1>3, <2>1, <2>2, Calmly DEF OnTrack, Exists, Pipelines, Creates, Given
  <2> QED BY <1>1, <1>3, <1>4, <1>5, <2>3, CalmKept
<1>8. CASE task[t].kind # "stop"
  <2>1. calm' => OnTrack(t)'
    BY <1>1, <1>3, <1>8, Calmly DEF OnTrack, AfterDown, Exists, Pipelines, Creates, Given
  <2> QED BY <1>1, <1>3, <1>4, <1>5, <2>1, CalmKept
<1> QED BY <1>7, <1>8

\* Redeploy and "Save & Redeploy" mark the service.
LEMMA MarkDeployingCalm ==
  ASSUME TypeOK, CalmInv, NEW t \in Tasks, MarkDeploying(t)
  PROVE  CalmInv'
<1>1. UNCHANGED <<disk, live, boot, calm>> /\ Live(t) /\ task[t].pc = "deploying"
  BY DEF MarkDeploying, At, Live
<1>2. CASE task[t].kind = "envdeploy" /\ ~Git /\ task[t].img = NONE
  <2>1. svc' = svc /\ task' = Ended(t)
    BY <1>2 DEF MarkDeploying
  <2>2. calm' => Shows'
    BY <1>1, <1>2, <2>1, Calmly DEF OnTrack, Shows, Shown
  <2>3. calm' => (Git => svc.image = svc.compose)'
    BY <1>1, <2>1, Calmly DEF Git
  <2> QED BY <1>1, <2>1, <2>2, <2>3, EndsHere, CalmKept
<1>3. ASSUME ~(task[t].kind = "envdeploy" /\ ~Git /\ task[t].img = NONE), Exists
      PROVE  CalmInv'
  <2>1. /\ svc'.status = "deploying" /\ svc'.env = svc.env /\ svc'.image = svc.image
        /\ svc'.strategy = svc.strategy /\ svc'.dirty = svc.dirty
        /\ svc'.compose \in {svc.compose, task[t].img}
        /\ Git => svc'.compose = svc.compose
        /\ task[t].kind # "envdeploy" => svc'.compose = svc.compose
    <3>1. CASE svc' = [svc EXCEPT !.status = "deploying"]
      BY <3>1 DEF TypeOK, ServiceRow
    <3>2. CASE ~Git /\ task[t].kind = "envdeploy"
               /\ svc' = [svc EXCEPT !.status = "deploying", !.compose = task[t].img]
      BY <3>2 DEF TypeOK, ServiceRow
    <3> QED BY <1>3, <3>1, <3>2 DEF MarkDeploying, Updated
  <2>2. calm' => (Git => svc.image = svc.compose)'
    BY <1>1, <2>1, Calmly DEF Git
  <2>3. task[t].kind \in {"redeploy", "envdeploy"}
    BY DEF MarkDeploying
  <2>4. calm' => svc'.compose = svc.compose
    BY <1>1, <2>1, <2>3, Calmly DEF OnTrack, Given
  <2>5. CASE task[t].kind = "envdeploy" /\ Git
    <3>1. PICK i \in Images :
             task' = [task EXCEPT ![t].kind = svc.strategy, ![t].pc = "record", ![t].img = i]
      BY <2>5 DEF MarkDeploying
    <3>2. /\ \A u \in Tasks \ {t} : task'[u] = task[u]
          /\ task'[t].pc = "record" /\ task'[t].kind = svc.strategy
      <4>1. task \in [Tasks -> TaskState] /\ task[t] \in TaskState
        BY DEF TypeOK
      <4>2. task' = [task EXCEPT ![t] = [task[t] EXCEPT !.kind = svc.strategy,
                                                        !.pc = "record", !.img = i]]
        BY <3>1
      <4> QED BY <4>1, <4>2 DEF TaskState
    <3>3. calm' => OnTrack(t)'
      BY <1>1, <2>1, <2>5, <3>2 DEF OnTrack, Exists, Git, Pipelines, Creates, Given
    <3>4. Live(t)'
      BY <3>2 DEF Live
    <3> QED BY <1>1, <2>2, <3>2, <3>3, <3>4, CalmKept
  <2>6. CASE ~(task[t].kind = "envdeploy" /\ Git)
    <3>1. PICK s \in {"envRead", "envRead2"} : task' = Goto(t, s)
      BY <1>3, <2>6 DEF MarkDeploying
    <3>2. /\ \A u \in Tasks \ {t} : task'[u] = task[u]
          /\ task'[t].pc = s /\ task'[t].kind = task[t].kind /\ task'[t].img = task[t].img
      BY <3>1, GoesOn
    <3>3. calm' => OnTrack(t)'
      BY <1>1, <2>1, <2>3, <2>4, <3>2, Calmly DEF OnTrack, Exists, Pipelines, Creates, Given
    <3>4. Live(t)'
      BY <3>2 DEF Live
    <3> QED BY <1>1, <2>2, <3>2, <3>3, <3>4, CalmKept
  <2> QED BY <2>5, <2>6
<1>4. CASE ~Exists
  <2>1. ~calm
    BY <1>1, <1>4, Calmly DEF OnTrack
  <2> QED BY <1>1, <2>1 DEF CalmInv
<1> QED BY <1>2, <1>3, <1>4
\* Steps that write the stack directory.
FileStep(t) ==
  EnvWrite(t) \/ WipeStackDir(t) \/ MoveContext(t) \/ WriteCompose(t) \/ RemoveStackDir(t)

LEMMA FileCalm ==
  ASSUME TypeOK, CalmInv, NEW t \in Tasks, FileStep(t)
  PROVE  CalmInv'
<1>1. /\ UNCHANGED <<svc, live, boot, calm>> /\ Live(t)
      /\ task[t].pc \in {"envWrite", "envWrite2", "wipe", "move", "file", "rmdir"}
  BY DEF FileStep, EnvWrite, WipeStackDir, MoveContext, WriteCompose, RemoveStackDir, At, Live
<1>2. calm' => (Git => svc.image = svc.compose)'
  BY <1>1, Calmly DEF Git
<1>3. disk \in Stack /\ task[t] \in TaskState
  BY DEF TypeOK
<1>4. ASSUME NEW s, task' = Goto(t, s), s \notin {"idle", "done"}, calm' => OnTrack(t)'
      PROVE  CalmInv'
  <2>1. (\A u \in Tasks \ {t} : task'[u] = task[u]) /\ Live(t)'
    BY <1>4, GoesOn DEF Live
  <2> QED BY <1>1, <1>2, <1>4, <2>1, CalmKept
<1>5. CASE EnvWrite(t)
  <2>1. task[t].pc \in {"envWrite", "envWrite2"} /\ disk' = [disk EXCEPT !.env = task[t].env]
    BY <1>5 DEF EnvWrite
  <2>2. calm' => disk'.env = svc'.env
    BY <1>1, <1>3, <2>1, Calmly DEF OnTrack, Stack
  <2>3. CASE At(t, "envWrite") /\ AfterEnv(task[t].kind) = "done"
    <3>1. task' = Ended(t) /\ task[t].kind = "envsave"
      BY <1>5, <2>3 DEF EnvWrite, AfterEnv
    <3>2. calm' => Shows'
      BY <1>1, <3>1, Calmly DEF OnTrack, Shows, Shown
    <3> QED BY <1>1, <1>2, <3>1, <3>2, EndsHere, CalmKept
  <2>4. CASE ~(At(t, "envWrite") /\ AfterEnv(task[t].kind) = "done")
    <3>1. PICK s \in {"clone", "deploying", "file", "copy"} :
             /\ task' = Goto(t, s)
             /\ s = "clone" => task[t].kind \in Pipelines
             /\ s = "deploying" => task[t].kind = "envdeploy"
             /\ s = "copy" => task[t].kind \in Pipelines
             /\ s = "file" => task[t].kind # "envsave" \/ task[t].pc = "envWrite2"
      BY <1>5, <2>1, <2>4 DEF EnvWrite, AfterEnv, At, Pipelines
    <3>2. task'[t].pc = s /\ task'[t].kind = task[t].kind /\ task'[t].img = task[t].img
      BY <3>1, GoesOn
    <3>3. calm' => OnTrack(t)'
      BY <1>1, <2>1, <2>2, <3>1, <3>2, Calmly DEF OnTrack, Exists, Pipelines, Creates, Given
    <3> QED BY <1>4, <3>1, <3>3
  <2> QED BY <2>3, <2>4
<1>6. CASE WipeStackDir(t)
  <2>1. task[t].pc = "wipe" /\ task' = Goto(t, "move")
    BY <1>6 DEF WipeStackDir, At
  <2>2. /\ task'[t].pc = "move" /\ task'[t].kind = task[t].kind /\ task'[t].img = task[t].img
        /\ task'[t].env = task[t].env
    BY <2>1, GoesOn
  <2>3. calm' => OnTrack(t)'
    BY <1>1, <2>1, <2>2, Calmly DEF OnTrack, Exists, Pipelines, Creates, Given
  <2> QED BY <1>4, <2>1, <2>3
<1>7. CASE MoveContext(t)
  <2>1. /\ task[t].pc = "move" /\ task' = Goto(t, "up")
        /\ disk' = [img |-> task[t].img, env |-> task[t].env]
    BY <1>7 DEF MoveContext, At
  <2>2. /\ task'[t].pc = "up" /\ task'[t].kind = task[t].kind /\ task'[t].img = task[t].img
    BY <2>1, GoesOn
  <2>3. calm' => OnTrack(t)'
    BY <1>1, <2>1, <2>2, Calmly DEF OnTrack, Exists, Pipelines, Creates, Given
  <2> QED BY <1>4, <2>1, <2>3
<1>8. CASE WriteCompose(t)
  <2>1. /\ task[t].pc = "file" /\ task' = Goto(t, "up")
        /\ disk' = [disk EXCEPT !.img = task[t].img]
    BY <1>8 DEF WriteCompose, At
  <2>2. /\ task'[t].pc = "up" /\ task'[t].kind = task[t].kind /\ task'[t].img = task[t].img
    BY <2>1, GoesOn
  <2>3. disk' = [img |-> task[t].img, env |-> disk.env]
    BY <1>3, <2>1 DEF Stack
  <2>4. calm' => OnTrack(t)'
    BY <1>1, <2>1, <2>2, <2>3, Calmly, ZenonT(40) DEF OnTrack, Exists, Pipelines, Creates, Given
  <2> QED BY <1>4, <2>1, <2>4
<1>9. CASE RemoveStackDir(t)
  <2>1. task[t].pc = "rmdir" /\ task' = Goto(t, "delete")
    BY <1>9 DEF RemoveStackDir, At
  <2>2. task'[t].pc = "delete" /\ task'[t].kind = task[t].kind /\ task'[t].img = task[t].img
    BY <2>1, GoesOn
  <2>3. calm' => OnTrack(t)'
    BY <1>1, <2>1, <2>2, Calmly DEF OnTrack, Exists, Pipelines, Creates, Given
  <2> QED BY <1>4, <2>1, <2>3
<1> QED BY <1>5, <1>6, <1>7, <1>8, <1>9 DEF FileStep

\* docker compose up.
LEMMA UpCalm ==
  ASSUME TypeOK, CalmInv, NEW t \in Tasks, Up(t)
  PROVE  CalmInv'
<1>1. UNCHANGED <<svc, disk, boot, calm>> /\ Live(t) /\ task[t].pc = "up"
  BY DEF Up, At, Live
<1>2. calm' => (Git => svc.image = svc.compose)'
  BY <1>1, Calmly DEF Git
<1>3. CASE live' = disk /\ task' = Goto(t, AfterUp(task[t].kind))
  <2>1. /\ \A u \in Tasks \ {t} : task'[u] = task[u]
        /\ task'[t].pc = AfterUp(task[t].kind) /\ task'[t].kind = task[t].kind
        /\ task'[t].img = task[t].img /\ task'[t].ok = task[t].ok
    BY <1>3, GoesOn
  <2>2. Live(t)'
    BY <2>1 DEF Live, AfterUp
  <2>3. calm' => disk' = [img |-> task[t].img, env |-> svc.env] /\ live' = disk'
    BY <1>1, <1>3, Calmly DEF OnTrack
  <2>4. /\ task'[t].pc \in {"save", "swap", "publish", "finish"}
        /\ task[t].kind \in Pipelines <=> task'[t].pc = "save"
        /\ task[t].kind = "rollback" <=> task'[t].pc = "swap"
    BY <2>1 DEF AfterUp, Pipelines, Creates
  <2>5. calm' => (task'[t].pc \in {"publish", "finish"} => task[t].kind \in Given)
    BY <1>1, <2>4, Calmly, TaskKind DEF OnTrack, Kinds, Inline, Creates, Given
  <2>6. calm' => (task'[t].pc \in {"publish", "finish"} => task[t].img = svc.compose)
    BY <1>1, <2>5, Calmly DEF OnTrack
  <2>7. calm' => OnTrack(t)'
    <3> SUFFICES ASSUME calm' PROVE OnTrack(t)'
      OBVIOUS
    <3>1. task'[t].pc \in {"publish", "finish"} => Runs'
      BY <1>1, <2>3, <2>6 DEF Runs
    <3>2. task'[t].pc = "publish" => PublishedYaml(t)' = svc'.compose
      BY <1>1, <2>1, <2>4, <2>6 DEF PublishedYaml
    <3>3. task[t].kind \notin {"stop", "remove", "envsave"}
      BY <1>1, Calmly DEF OnTrack
    <3> QED BY <1>1, <2>1, <2>3, <2>4, <3>1, <3>2, <3>3, Calmly DEF OnTrack, Exists, Pipelines, Creates, Given
  <2> QED BY <1>1, <1>2, <2>1, <2>2, <2>7, CalmKept
<1>4. CASE task' = Fail(t)
  <2>1. /\ \A u \in Tasks \ {t} : task'[u] = task[u]
        /\ task'[t].pc = "finish" /\ task'[t].ok = FALSE /\ task'[t].kind = task[t].kind
        /\ task'[t].img = task[t].img
    BY <1>4, FailsOn
  <2>2. calm' => OnTrack(t)'
    BY <1>1, <2>1, Calmly DEF OnTrack, Exists, Pipelines, Creates, Given
  <2>3. Live(t)'
    BY <2>1 DEF Live
  <2> QED BY <1>1, <1>2, <2>1, <2>2, <2>3, CalmKept
<1> QED BY <1>3, <1>4 DEF Up
\* The pipeline records its image and the compose file on disk.
LEMMA SaveCalm ==
  ASSUME TypeOK, CalmInv, NEW t \in Tasks, SaveImage(t)
  PROVE  CalmInv'
<1>1. UNCHANGED <<disk, live, boot, calm>> /\ Live(t) /\ task[t].pc = "save"
  BY DEF SaveImage, At, Live
<1>2. task' = [task EXCEPT ![t].pc = "publish", ![t].old = disk.img]
  BY DEF SaveImage
<1>3. /\ \A u \in Tasks \ {t} : task'[u] = task[u]
      /\ task'[t].pc = "publish" /\ task'[t].kind = task[t].kind
      /\ task'[t].img = task[t].img /\ task'[t].old = disk.img
  <2>1. task \in [Tasks -> TaskState] /\ task[t] \in TaskState
    BY DEF TypeOK
  <2>2. task' = [task EXCEPT ![t] = [task[t] EXCEPT !.pc = "publish", !.old = disk.img]]
    BY <1>2
  <2> QED BY <2>1, <2>2 DEF TaskState
<1>4. Live(t)'
  BY <1>3 DEF Live
<1>5. CASE calm
  <2>1. OnTrack(t) /\ Exists
    BY <1>1, <1>5, Calmly DEF OnTrack
  <2>2. disk = [img |-> task[t].img, env |-> svc.env] /\ live = disk
    BY <1>1, <2>1 DEF OnTrack
  <2>3. svc' = [svc EXCEPT !.prev = svc.image, !.image = task[t].img, !.compose = disk.img]
    BY <2>1 DEF SaveImage, Updated
  <2>4. /\ svc'.status = svc.status /\ svc'.env = svc.env /\ svc'.dirty = svc.dirty
        /\ svc'.image = task[t].img /\ svc'.compose = task[t].img
    BY <2>2, <2>3 DEF TypeOK, ServiceRow
  <2>5. Runs' /\ PublishedYaml(t)' = svc'.compose
    BY <1>1, <1>3, <2>2, <2>4, <2>5 DEF Runs, PublishedYaml
  <2>6. OnTrack(t)'
    BY <1>1, <1>3, <2>1, <2>4, <2>5 DEF OnTrack, Exists, Pipelines, Creates, Given
  <2>7. (Git => svc.image = svc.compose)'
    BY <2>4
  <2> QED BY <1>1, <1>3, <1>4, <2>6, <2>7, CalmKept
<1> QED BY <1>1, <1>5 DEF CalmInv

\* The rollback swaps the tags.
LEMMA SwapCalm ==
  ASSUME TypeOK, CalmInv, NEW t \in Tasks, SwapImage(t)
  PROVE  CalmInv'
<1>1. UNCHANGED <<disk, live, boot, calm>> /\ Live(t) /\ task[t].pc = "swap"
  BY DEF SwapImage, At, Live
<1>2. task' = Goto(t, "finish")
  BY DEF SwapImage
<1>3. /\ \A u \in Tasks \ {t} : task'[u] = task[u]
      /\ task'[t].pc = "finish" /\ task'[t].kind = task[t].kind /\ task'[t].img = task[t].img
  BY <1>2, GoesOn
<1>4. Live(t)'
  BY <1>3 DEF Live
<1>5. CASE calm
  <2>1. OnTrack(t) /\ Exists
    BY <1>1, <1>5, Calmly DEF OnTrack
  <2>2. disk = [img |-> task[t].img, env |-> svc.env] /\ live = disk
    BY <1>1, <2>1 DEF OnTrack
  <2>3. svc' = Swapped(t)
    BY <2>1 DEF SwapImage, Updated
  <2>4. /\ svc'.status = svc.status /\ svc'.env = svc.env /\ svc'.dirty = svc.dirty
        /\ svc'.image = task[t].img /\ svc'.compose = task[t].img
    BY <2>3 DEF TypeOK, ServiceRow, Swapped
  <2>5. Runs'
    BY <1>1, <2>2, <2>4 DEF Runs
  <2>6. OnTrack(t)'
    BY <1>1, <1>3, <2>1, <2>4, <2>5 DEF OnTrack, Exists, Pipelines, Creates, Given
  <2>7. (Git => svc.image = svc.compose)'
    BY <2>4
  <2> QED BY <1>1, <1>3, <1>4, <2>6, <2>7, CalmKept
<1> QED BY <1>1, <1>5 DEF CalmInv

\* The second `up` and the environment copied back from disk.
LEMMA PublishCalm ==
  ASSUME TypeOK, CalmInv, NEW t \in Tasks, Publish(t)
  PROVE  CalmInv'
<1>1. boot' = boot /\ Live(t) /\ task[t].pc = "publish" /\ task' = Goto(t, "finish")
  BY DEF Publish, At, Live
<1>2. /\ \A u \in Tasks \ {t} : task'[u] = task[u]
      /\ task'[t].pc = "finish" /\ task'[t].kind = task[t].kind /\ task'[t].img = task[t].img
  BY <1>1, GoesOn
<1>3. Live(t)'
  BY <1>2 DEF Live
<1>4. CASE ~calm'
  BY <1>4 DEF CalmInv
<1>5. CASE calm'
  <2>1. calm
    BY <1>5 DEF Publish
  <2>2. OnTrack(t) /\ Exists /\ Runs /\ PublishedYaml(t) = svc.compose
    BY <1>1, <2>1, Calmly DEF OnTrack
  <2>3. /\ disk' = [img |-> svc.compose, env |-> svc.env]
        /\ live' = disk'
    <3>1. CASE UNCHANGED <<disk, live, calm>>
      BY <2>2, <3>1 DEF Runs
    <3>2. CASE disk' = [img |-> PublishedYaml(t), env |-> StoredEnv] /\ live' = disk'
      BY <2>2, <3>2 DEF StoredEnv
    <3> QED BY <1>5, <3>1, <3>2 DEF Publish
  <2>4. svc' = svc
    <3>1. disk'.env = svc.env
      BY <2>3
    <3>2. svc.env = 0 => [svc EXCEPT !.env = disk'.env] = svc
      BY <3>1 DEF TypeOK, ServiceRow
    <3> QED BY <3>2 DEF Publish, EnvFromDisk
  <2>5. Runs'
    BY <2>3, <2>4 DEF Runs
  <2>6. OnTrack(t)'
    BY <1>1, <1>2, <2>2, <2>4, <2>5 DEF OnTrack, Exists, Pipelines, Creates, Given
  <2>7. (Git => svc.image = svc.compose)'
    BY <1>1, <2>1, <2>4, Calmly DEF Git
  <2> QED BY <1>1, <1>2, <1>3, <2>1, <2>6, <2>7, CalmKept
<1> QED BY <1>4, <1>5

\* Steps that end the task.
FinishStep(t) ==
  \/ FinishDeployment(t) \/ FinishCreate(t) \/ FinishInline(t) \/ FinishStop(t)
  \/ DeleteService(t)

LEMMA FinishCalm ==
  ASSUME TypeOK, CalmInv, NEW t \in Tasks, FinishStep(t)
  PROVE  CalmInv'
<1>1. /\ UNCHANGED <<disk, live, boot, calm>> /\ Live(t) /\ task' = Ended(t)
      /\ task[t].pc \in {"finish", "delete"}
  BY DEF FinishStep, FinishDeployment, FinishCreate, FinishInline, FinishStop,
     DeleteService, At, Live
<1>2. CASE ~calm
  BY <1>1, <1>2 DEF CalmInv
<1>3. ASSUME calm, Shown' => Shown \/ (task[t].ok /\ At(t, "finish") /\ task[t].kind # "stop"),
             Shown /\ Shown' => Shows,
             svc'.env = svc.env, svc'.compose = svc.compose, svc'.image = svc.image,
             svc'.strategy = svc.strategy
      PROVE  CalmInv'
  <2>1. OnTrack(t) /\ (Git => svc.image = svc.compose)
    BY <1>1, <1>3, Calmly
  <2>2. Shows'
    BY <1>1, <1>3, <2>1 DEF OnTrack, Shows, Runs, At
  <2>3. (Git => svc.image = svc.compose)'
    BY <1>3, <2>1 DEF Git
  <2> QED BY <1>1, <2>2, <2>3, EndsHere, CalmKept
<1>4. ASSUME calm PROVE OnTrack(t) /\ Exists
  BY <1>1, <1>4, Calmly DEF OnTrack
<1>5. CASE calm /\ FinishDeployment(t)
  <2>1. task[t].kind \in Pipelines \cup {"rollback"} /\ At(t, "finish")
    BY <1>5 DEF FinishDeployment
  <2>2. svc.status = "deploying"
    BY <1>4, <1>5, <2>1 DEF OnTrack, At
  <2>3. CASE svc' = svc
    BY <1>3, <1>5, <2>2, <2>3 DEF Shown
  <2>4. CASE svc' = [svc EXCEPT !.status = IF task[t].ok THEN "running" ELSE "failed",
                                !.dirty = svc.dirty /\ ~task[t].ok]
    <3>1. /\ svc'.status = IF task[t].ok THEN "running" ELSE "failed"
          /\ svc'.env = svc.env /\ svc'.compose = svc.compose /\ svc'.image = svc.image
          /\ svc'.strategy = svc.strategy
      BY <2>4 DEF TypeOK, ServiceRow
    <3> QED BY <1>3, <1>5, <2>1, <2>2, <3>1 DEF Shown, Pipelines
  <2> QED BY <1>5, <2>3, <2>4 DEF FinishDeployment
<1>6. CASE calm /\ FinishCreate(t)
  <2>1. task[t].kind \in Creates /\ At(t, "finish")
    BY <1>6 DEF FinishCreate
  <2>2. svc.status = "deploying"
    BY <1>4, <1>6, <2>1 DEF OnTrack
  <2>3. svc' = [svc EXCEPT !.status = IF task[t].ok THEN "running" ELSE "failed"]
    BY <1>6, <2>2 DEF FinishCreate
  <2>4. /\ svc'.status = IF task[t].ok THEN "running" ELSE "failed"
        /\ svc'.env = svc.env /\ svc'.compose = svc.compose /\ svc'.image = svc.image
        /\ svc'.strategy = svc.strategy
    BY <2>3 DEF TypeOK, ServiceRow
  <2> QED BY <1>3, <1>6, <2>1, <2>2, <2>4 DEF Shown, Creates
<1>7. CASE calm /\ FinishInline(t)
  <2>1. task[t].kind \in {"start", "restart", "redeploy", "envdeploy"} /\ At(t, "finish")
    BY <1>7 DEF FinishInline
  <2>2. svc' = [svc EXCEPT !.status = IF task[t].ok THEN "running" ELSE "failed",
                           !.dirty = ~task[t].ok]
    BY <1>4, <1>7 DEF FinishInline, Updated
  <2>3. /\ svc'.status = IF task[t].ok THEN "running" ELSE "failed"
        /\ svc'.env = svc.env /\ svc'.compose = svc.compose /\ svc'.image = svc.image
        /\ svc'.strategy = svc.strategy
    BY <2>2 DEF TypeOK, ServiceRow
  <2>4. Shown' => task[t].ok
    BY <2>3 DEF Shown
  <2>5. (Git => svc.image = svc.compose)' /\ Shows'
    BY <1>1, <1>4, <1>7, <2>1, <2>3, <2>4, Calmly DEF Git, OnTrack, Shows, Runs, At
  <2> QED BY <1>1, <2>5, EndsHere, CalmKept
<1>8. CASE calm /\ FinishStop(t)
  <2>1. task[t].kind = "stop" /\ At(t, "finish")
    BY <1>8 DEF FinishStop
  <2>2. CASE svc' = svc /\ ~task[t].ok
    <3>1. Shows
      BY <1>4, <1>8, <2>1, <2>2 DEF OnTrack
    <3> QED BY <1>3, <1>8, <2>2, <3>1 DEF Shown
  <2>3. CASE svc' = [svc EXCEPT !.status = "stopped"]
    <3>1. /\ svc'.status = "stopped" /\ svc'.env = svc.env /\ svc'.compose = svc.compose
          /\ svc'.image = svc.image /\ svc'.strategy = svc.strategy
      BY <2>3 DEF TypeOK, ServiceRow
    <3> QED BY <1>3, <1>8, <3>1 DEF Shown
  <2> QED BY <1>4, <1>8, <2>2, <2>3 DEF FinishStop, Updated
<1>9. CASE calm /\ DeleteService(t)
  <2>1. svc' = [svc EXCEPT !.status = "gone"]
    BY <1>9 DEF DeleteService
  <2>2. /\ svc'.status = "gone" /\ svc'.env = svc.env /\ svc'.compose = svc.compose
        /\ svc'.image = svc.image /\ svc'.strategy = svc.strategy
    BY <2>1 DEF TypeOK, ServiceRow
  <2> QED BY <1>3, <1>9, <2>2 DEF Shown
<1> QED BY <1>2, <1>5, <1>6, <1>7, <1>8, <1>9 DEF FinishStep
-----------------------------------------------------------------------------
(* Requests, failures and the reconciliation.                                *)

\* What a request finds when the history stays calm.
LEMMA BeginFinds ==
  ASSUME CalmInv, NEW t, NEW k, NEW s, NEW i, NEW o, Begin(t, k, s, i, o), calm'
  PROVE  Shows /\ (Git => svc.image = svc.compose) /\ boot.phase = "idle"
         /\ boot' = boot /\ disk' = disk /\ live' = live /\ \A u \in Tasks : ~Live(u)
BY DEF Begin, CalmInv

\* The task of a request that begins on track.
LEMMA BeginCalm ==
  ASSUME TypeOK, CalmInv, NEW t \in Tasks, NEW k, NEW s, NEW i, NEW o,
         Begin(t, k, s, i, o), s \notin {"idle", "done"},
         svc'.image = svc.image, svc'.compose = svc.compose, svc'.strategy = svc.strategy,
         calm' => ( task'[t].kind = k /\ task'[t].pc = s /\ task'[t].img = i => OnTrack(t)')
  PROVE  CalmInv'
<1> SUFFICES ASSUME calm' PROVE CalmInv'
  BY DEF CalmInv
<1>1. /\ (Git => svc.image = svc.compose) /\ boot'.phase = "idle"
      /\ \A u \in Tasks : ~Live(u)
  BY BeginFinds
<1>2. task' = [task EXCEPT ![t] = [kind |-> k, pc |-> s, img |-> i, old |-> o,
                                   env |-> 0, ok |-> TRUE]]
  BY DEF Begin
<1>3. /\ \A u \in Tasks \ {t} : task'[u] = task[u]
      /\ task'[t].kind = k /\ task'[t].pc = s /\ task'[t].img = i
  BY <1>2 DEF TypeOK
<1>4. OnTrack(t)'
  BY <1>3
<1>5. \A u \in Tasks \ {t} : ~Live(u)'
  BY <1>1, <1>3 DEF Live
<1>6. Live(t)'
  BY <1>3 DEF Live
<1>7. (Git => svc.image = svc.compose)'
  BY <1>1 DEF Git
<1> QED BY <1>1, <1>4, <1>5, <1>6, <1>7 DEF CalmInv

LEMMA RequestCalm ==
  ASSUME TypeOK, CalmInv, NEW t \in Tasks, Request(t)
  PROVE  CalmInv'
<1>1. ASSUME NEW i \in Images, ManualDeploy(t, i) \/ RedeployGit(t, i)
      PROVE  CalmInv'
  <2>1. Begin(t, svc.strategy, "record", i, NONE) /\ Exists /\ Git
    BY <1>1 DEF ManualDeploy, RedeployGit
  <2>2. /\ svc'.image = svc.image /\ svc'.compose = svc.compose /\ svc'.strategy = svc.strategy
        /\ svc'.status # "gone"
    BY <1>1 DEF ManualDeploy, RedeployGit, TypeOK, ServiceRow, Exists
  <2>3. task'[t].kind = svc.strategy /\ task'[t].pc = "record" => OnTrack(t)'
    BY <2>1, <2>2 DEF OnTrack, Exists, Git, Pipelines, Creates, Given
  <2> QED BY <2>1, <2>2, <2>3, BeginCalm
<1>2. ASSUME NEW k, NEW s, NEW i, NEW o, Begin(t, k, s, i, o), Exists, svc' = svc,
             \/ k \in {"redeploy", "restart"} /\ s = "down" /\ i = svc.compose
             \/ k = "start" /\ s = "envRead" /\ i = svc.compose
             \/ k = "remove" /\ s = "down"
             \/ k = "stop" /\ s = "down"
             \/ k = "rollback" /\ s = "record"
      PROVE  CalmInv'
  <2>1. calm' => Shows'
    BY <1>2, BeginFinds DEF Shows, Shown, Runs
  <2>2. calm' => (task'[t].kind = k /\ task'[t].pc = s /\ task'[t].img = i => OnTrack(t)')
    BY <1>2, <2>1 DEF OnTrack, Exists, Pipelines, Creates, Given
  <2> QED BY <1>2, <2>2, BeginCalm
<1>3. ASSUME NEW e \in Envs, NEW redeploy \in BOOLEAN, SaveEnv(t, e, redeploy)
      PROVE  CalmInv'
  <2> DEFINE k == IF redeploy THEN "envdeploy" ELSE "envsave"
  <2>1. Begin(t, k, "envRead", svc.compose, NONE) /\ Exists
        /\ svc' = [svc EXCEPT !.env = e, !.dirty = TRUE]
    BY <1>3 DEF SaveEnv
  <2>2. /\ svc'.image = svc.image /\ svc'.compose = svc.compose /\ svc'.strategy = svc.strategy
        /\ svc'.status = svc.status /\ svc'.dirty
    BY <2>1 DEF TypeOK, ServiceRow
  <2>3. k \in {"envdeploy", "envsave"}
    OBVIOUS
  <2> HIDE DEF k
  <2>4. task'[t].kind = k /\ task'[t].pc = "envRead" /\ task'[t].img = svc.compose => OnTrack(t)'
    BY <2>1, <2>2, <2>3 DEF OnTrack, Exists, Pipelines, Creates, Given
  <2> QED BY <2>1, <2>2, <2>4, BeginCalm
<1>4. CASE Cancel(t)
  BY <1>4 DEF Cancel, CalmInv
<1>5. CASE RedeployCompose(t)
  BY <1>2, <1>5 DEF RedeployCompose
<1>6. CASE Stop(t)
  BY <1>2, <1>6 DEF Stop
<1>7. CASE Start(t)
  BY <1>2, <1>7 DEF Start
<1>8. CASE Restart(t)
  BY <1>2, <1>8 DEF Restart
<1>9. CASE Rollback(t)
  BY <1>2, <1>9 DEF Rollback
<1>10. CASE Remove(t)
  BY <1>2, <1>10 DEF Remove
<1> QED BY <1>1, <1>3, <1>4, <1>5, <1>6, <1>7, <1>8, <1>9, <1>10 DEF Request

LEMMA StepCalm ==
  ASSUME TypeOK, CalmInv, NEW t \in Tasks, Step(t)
  PROVE  CalmInv'
<1>1. CASE QuietStep(t)
  BY <1>1, QuietCalm
<1>2. CASE FileStep(t)
  BY <1>2, FileCalm
<1>3. CASE FinishStep(t)
  BY <1>3, FinishCalm
<1>4. CASE RecordPipeline(t) \/ RecordRollback(t)
  BY <1>4, RecordCalm
<1>5. CASE Down(t) \/ MarkDeploying(t) \/ Up(t)
  BY <1>5, DownCalm, MarkDeployingCalm, UpCalm
<1>6. CASE SaveImage(t) \/ SwapImage(t) \/ Publish(t)
  BY <1>6, SaveCalm, SwapCalm, PublishCalm
<1> QED BY <1>1, <1>2, <1>3, <1>4, <1>5, <1>6 DEF Step, QuietStep, FileStep, FinishStep

LEMMA CalmInit == Init => CalmInv
<1> SUFFICES ASSUME Init PROVE CalmInv
  OBVIOUS
<1>1. boot.phase = "idle"
  BY DEF Init, Booted
<1>2. PICK i \in Images, k \in Strategies :
         \/ Established(i, k)
         \/ k \notin Pipelines /\ \E t \in Tasks : Created(i, k, t)
  BY DEF Init
<1>3. CASE Established(i, k)
  <2>1. \A t \in Tasks : ~Live(t)
    BY <1>3 DEF Established, IdleTask, Live
  <2>2. Shows /\ (Git => svc.image = svc.compose)
    BY <1>3 DEF Established, Row, Shows, Shown, Runs
  <2> QED BY <1>1, <2>1, <2>2 DEF CalmInv
<1>4. ASSUME NEW t \in Tasks, Created(i, k, t), k \notin Pipelines PROVE CalmInv
  <2>1. svc = Row("deploying", k, NONE, i)
    BY <1>4 DEF Created
  <2>2. svc.status = "deploying" /\ svc.strategy = k /\ svc.compose = i
    BY <2>1 DEF Row
  <2>3. /\ task[t].pc = "log" /\ task[t].img = i /\ task[t].kind \in Creates
        /\ \A u \in Tasks \ {t} : task[u].pc = "idle"
    BY <1>4 DEF Created, IdleTask, Creates
  <2>4. OnTrack(t)
    BY <2>2, <2>3 DEF OnTrack, Exists, Pipelines, Creates, Given
  <2> QED BY <1>1, <1>4, <2>2, <2>3, <2>4 DEF CalmInv, Git, Live
<1> QED BY <1>2, <1>3, <1>4

LEMMA CalmStep == TypeOK /\ CalmInv /\ [Next]_vars => CalmInv'
<1> SUFFICES ASSUME TypeOK, CalmInv, [Next]_vars PROVE CalmInv'
  OBVIOUS
<1>1. ASSUME NEW t \in Tasks, DropHandler(t) PROVE CalmInv'
  BY <1>1 DEF DropHandler, CalmInv
<1>2. CASE Crash
  BY <1>2 DEF Crash, CalmInv
<1>3. CASE Reconcile
  BY <1>3 DEF Reconcile, ReconcileList, ReconcileContainers, ReconcileSettle, CalmInv
<1>4. CASE UNCHANGED vars
  BY <1>4 DEF vars, CalmInv, Git, Live, Shows, Shown, Runs, OnTrack, Exists, PublishedYaml
<1> QED BY <1>1, <1>2, <1>3, <1>4, RequestCalm, StepCalm DEF Next

\* In a history of one undisturbed operation at a time, whatever failed before,
\* a service shown as running and up to date runs its stored compose content
\* with its stored environment, the files on disk agree, and the recorded tag of
\* a git service is the one that runs (the finish of every handler together with
\* write_env_file, deploy_stack and persist_env_from_disk).
THEOREM CalmMeansFaithful == Spec => []CalmServiceIsFaithful
<1>1. CalmInv => CalmServiceIsFaithful
  BY DEF CalmInv, CalmServiceIsFaithful, Shows, Shown, Runs
<1> QED BY <1>1, CalmInit, CalmStep, TypeCorrect, PTL DEF Spec

-----------------------------------------------------------------------------
(* Ports: the inductive invariant.                                           *)

\* A row, or the flags planned for one, that faces the world has its public port.
Telling(x) == x.pub => x.pport # NULL
Flags == {f \in [pub : BOOLEAN, pport : PortNumbers \cup {NULL}] : Telling(f)}
RowValue == {x \in PortRow : Telling(x)}
Lines == Line \cup {NULL}

DeployOps == {"create", "create_compose", "dockerfile", "git", "balance", "redeploy"}
Deploying == {"down", "sources", "compose", "lb_down", "inject", "up", "extract", "image", "finish"}
WithLinesOf == {"down", "sources", "compose", "lb_down", "inject", "up", "extract", "image", "render", "save"}
Switching == {"target", "check", "flip", "read", "list", "inspect", "remove", "create", "verify", "stored",
              "render", "save", "rollback", "ask"}
WithSnap == {"read", "list", "inspect", "remove", "create", "verify", "rollback"}
WithAlloc == {"list", "inspect", "remove", "create", "verify"}
Remaking == {"inspect", "remove", "create", "verify", "stored", "render", "save"}

PortOps == DeployOps \cup {"none", "sync", "toggle", "deferred", "github_app", "remove"}
PortSteps == Switching \cup Deploying \cup {"new", "done", "compute", "flags", "own", "replicas", "delete"}
Settlements == {"no", "sync", "toggle", "balance"}
Statuses == {"absent", "created", "deploying", "running", "failed"}

\* A function of some of the containers.
Partial(V) == UNION {[T -> V] : T \in SUBSET Containers}
Call == [op : PortOps, pc : PortSteps, svc : SUBSET Containers, on : BOOLEAN, ui : PortNumbers \cup {NULL},
         targets : SUBSET Containers, snap : Partial(RowValue), seen : Partial(SUBSET Binding) \cup Partial(Lines),
         upd : Partial(Flags), alloc : Partial(RowValue), left : SUBSET Containers, cur : Containers \cup {NULL},
         own : SUBSET PortNumbers, was : SUBSET PortNumbers, now : SUBSET PortNumbers, binds : SUBSET Binding,
         vol : Calls \cup {EARLIER, NULL}, lines : Partial(Lines), again : BOOLEAN, alone : BOOLEAN]

\* No host port is in two rows.
UniqueHosts(R) ==
  \A j, k \in Containers : j # k /\ R[j] # NULL /\ R[k] # NULL => R[j].host # R[k].host
PortTables == {R \in [Containers -> RowValue \cup {NULL}] : UniqueHosts(R)}

TablesTyped ==
  /\ rows \in PortTables
  /\ cont \in [Containers -> Container \cup {NULL}]
  /\ yaml \in [Containers -> Line \cup {NULL, NOFILE}]
  /\ status \in [Stacks -> Statuses] /\ settled \in [Stacks -> Settlements]
  /\ req \in [Calls -> Call]
  /\ foreign \subseteq PortNumbers /\ events \in 0 .. MaxEvents

AbsentOK == \A s \in Stacks : status[s] = "absent" => \A k \in s : rows[k] = NULL

\* One port per container.
OneEach(binds) == \A x, y \in binds : x.of = y.of => x = y

\* What a request carries at each step.
Fits(q) ==
  /\ q.pc \notin {"new", "done"} => q.svc \in Stacks
  /\ q.pc \in {"compute", "flags"} => q.op \in {"sync", "toggle"}
  /\ q.pc \in Switching => q.op = "toggle"
  /\ q.pc \in Deploying => q.op \in DeployOps
  /\ q.pc \in {"own", "replicas", "lb_down"} => q.op = "balance"
  /\ q.pc \in {"down", "sources", "compose", "extract", "image"} => q.op # "balance"
  /\ q.op = "balance" /\ q.pc # "done" => Single(q.svc)
  /\ q.pc = "compute" => q.seen \in Partial(SUBSET Binding) /\ DOMAIN q.seen \subseteq q.svc
  /\ q.pc = "flags" => DOMAIN q.upd \subseteq q.svc
  /\ q.pc \in {"check", "flip"} =>
       /\ q.targets \subseteq q.svc /\ DOMAIN q.snap = q.targets /\ DOMAIN q.upd = q.targets
       /\ q.on => \A k \in q.targets : q.upd[k].pport # NULL
  /\ q.pc \in WithSnap => DOMAIN q.snap \subseteq q.svc
  /\ q.pc \in WithAlloc => DOMAIN q.alloc \subseteq q.svc
  /\ q.pc \in Remaking => q.left \subseteq q.svc
  /\ q.pc \in {"verify", "stored", "render", "save"} => q.left = {}
  /\ q.pc \in {"remove", "create"} => q.cur \in q.svc /\ OneEach(q.binds) /\ q.vol \in Calls \cup {EARLIER}
  /\ q.pc \in WithLinesOf => DOMAIN q.lines = q.svc
  /\ q.pc = "up" => q.seen \in Partial(Lines) /\ DOMAIN q.seen = q.svc
FitsOK == \A r \in Calls : Fits(req[r])

\* A volume that no switch made.
Volume(v) == v \in Calls => req[v].pc # "new" /\ req[v].op # "toggle"
VolumesOK ==
  /\ \A k \in Containers : cont[k] # NULL => Volume(cont[k].vol)
  /\ \A r \in Calls : req[r].pc \in {"remove", "create"} => Volume(req[r].vol)

\* Only a container as it was found publishes its port twice, and then no other row of the
\* stack has the second number; what a deploy brought up publishes once.
Twice(k, c) == c # NULL /\ \E x, y \in c.binds : x # y /\ x.of = k /\ y.of = k
TwiceOK ==
  /\ \A k \in Containers : Twice(k, cont[k]) =>
       /\ \A x \in cont[k].binds : x.of = k /\ x.any => x.port = PoolEnd
       /\ \A j \in StackOf(k) \ {k} : rows[j] # NULL => rows[j].host # PoolEnd
  /\ \A r \in Calls : req[r].pc \in {"extract", "image"} => \A k \in req[r].svc : ~Twice(k, cont[k])

\* Two requests on one service are not both alone, and what was settled is at rest.
QuietOK ==
  /\ \A r, q \in Calls : r # q /\ Active(r) /\ Active(q) /\ req[r].svc = req[q].svc => ~req[r].alone
  /\ \A r \in Calls : Active(r) => settled[req[r].svc] = "no"

\* The row x of k has a place in its stack; what it says of the container and of the file.
Seat(k, x) == x # NULL /\ (x.tagged \/ Single(StackOf(k)))
PortSaid(x) == IF x.pub THEN x.pport ELSE x.host
Said(k, x) == {[of |-> k, any |-> x.pub, port |-> PortSaid(x)]}
LineSaid(x) == [any |-> x.pub, port |-> PortSaid(x)]
Obeys(k, x, c) == Seat(k, x) /\ c # NULL => c.running /\ c.binds = Said(k, x)

\* The flags f tell what container c of k publishes.
Open(k, c) == {b \in c.binds : b.of = k /\ b.any}
Tells(k, c, f) == (f.pub <=> Open(k, c) # {}) /\ (f.pub => \E b \in Open(k, c) : b.port = f.pport)

\* What is true of k, its row x, its container c and its line y once a request is over.
SettledAt(v, k, x, c, y) ==
  /\ v \in {"toggle", "balance"} => Obeys(k, x, c)
  /\ v = "toggle" /\ Seat(k, x) /\ c # NULL => {[of |-> k, any |-> y.any, port |-> y.port]} = Said(k, x)
  /\ v = "sync" /\ Seat(k, x) /\ c # NULL => Tells(k, c, x)
SettledOK == \A s \in Stacks : \A k \in s : SettledAt(settled[s], k, rows[k], cont[k], yaml[k])

\* How far a request that is alone has brought k.
SteadyAt(q, k, x, c) ==
  /\ q.pc = "compute" => (k \in DOMAIN q.seen <=> c # NULL) /\ (c # NULL => q.seen[k] = c.binds)
  /\ q.pc = "flags" /\ q.op = "sync" /\ Seat(k, x) /\ c # NULL => k \in DOMAIN q.upd /\ Tells(k, c, q.upd[k])
  /\ q.pc \in WithAlloc => (k \in DOMAIN q.alloc <=> x # NULL) /\ (x # NULL => q.alloc[k] = x)
  /\ q.pc \in Remaking /\ k \notin q.left /\ ~(q.pc \in {"remove", "create"} /\ k = q.cur) => Obeys(k, x, c)
  /\ q.pc \in {"remove", "create"} /\ k = q.cur /\ Seat(k, x) => q.binds = Said(k, x)
  /\ q.pc = "save" /\ Seat(k, x) => q.lines[k] = LineSaid(x)
  /\ q.op = "balance" /\ q.pc \in {"lb_down", "inject", "up", "finish"} => x # NULL
  /\ q.op = "balance" /\ q.pc = "up" => q.seen[k] = LineSaid(x)
  /\ q.op = "balance" /\ q.pc = "finish" /\ c # NULL => c.binds = Said(k, x)
Steady(r) == \A k \in req[r].svc : SteadyAt(req[r], k, rows[k], cont[k])
SteadyOK == \A r \in Calls : Active(r) /\ req[r].alone => Steady(r)

PortsInv ==
  TablesTyped /\ AbsentOK /\ FitsOK /\ VolumesOK /\ TwiceOK /\ QuietOK /\ SettledOK /\ SteadyOK

-----------------------------------------------------------------------------
(* Ports: folds over the containers of a stack.                              *)

LEMMA LeastNat ==
  ASSUME NEW T \in SUBSET Nat, T # {}
  PROVE  \E x \in T : \A y \in T : x <= y
<1>1. PICK x \in T : \A y \in T : <<y, x>> \notin OpToRel(<, Nat)
  BY NatLessThanWellFounded, WFMin
<1>2. \A y \in T : ~(y < x)
  BY <1>1 DEF OpToRel
<1> QED BY <1>2

\* The element a fold takes next, and what it leaves.
Taken1(T) == CHOOSE x \in T : TRUE
Rest(T) == T \ {Taken1(T)}

LEMMA RestSmaller ==
  ASSUME NEW T, IsFiniteSet(T), T # {}
  PROVE  /\ Taken1(T) \in T /\ Rest(T) \subseteq T /\ IsFiniteSet(Rest(T))
         /\ Cardinality(Rest(T)) = Cardinality(T) - 1 /\ Cardinality(T) \in Nat
<1>1. Taken1(T) \in T
  BY DEF Taken1
<1> QED BY <1>1, FS_RemoveElement, FS_CardinalityType DEF Rest

\* The subsets of S with n elements at most, and the equation of the fold on them.
Upto(S, n) == {T \in SUBSET S : Cardinality(T) <= n}
FoldsTo(S, n, base, G, f) ==
  \A T \in Upto(S, n) : f[T] = IF T = {} THEN base ELSE G[<<Taken1(T), f[Rest(T)]>>]

FoldsAll(S, base, G, f) ==
  \A T \in SUBSET S : f[T] = IF T = {} THEN base ELSE G[<<Taken1(T), f[Rest(T)]>>]

\* A function that obeys the equation exists ...
LEMMA FoldExists ==
  ASSUME NEW S, IsFiniteSet(S), NEW D, NEW base \in D, NEW G \in [S \X D -> D]
  PROVE  \E f \in [SUBSET S -> D] : FoldsAll(S, base, G, f)
<1> DEFINE Can(n) == \E f \in [Upto(S, n) -> D] : FoldsTo(S, n, base, G, f)
           Bad == {n \in Nat : ~Can(n)}
<1>0. \A T \in SUBSET S : IsFiniteSet(T) /\ Cardinality(T) \in Nat /\ Cardinality(T) <= Cardinality(S)
  BY FS_Subset, FS_CardinalityType
<1>1. Can(0)
  <2> DEFINE g == [T \in Upto(S, 0) |-> base]
  <2>1. \A T \in Upto(S, 0) : T = {}
    BY <1>0, FS_EmptySet DEF Upto
  <2>2. g \in [Upto(S, 0) -> D] /\ FoldsTo(S, 0, base, G, g)
    BY <2>1 DEF FoldsTo
  <2> QED BY <2>2
<1>2. ASSUME NEW n \in Nat, Can(n)
      PROVE  Can(n + 1)
  <2>1. PICK f \in [Upto(S, n) -> D] : FoldsTo(S, n, base, G, f)
    BY <1>2
  <2> DEFINE g == [T \in Upto(S, n + 1) |-> IF T \in Upto(S, n) THEN f[T] ELSE G[<<Taken1(T), f[Rest(T)]>>]]
  <2>2. ASSUME NEW T \in Upto(S, n + 1), T # {}
        PROVE  Taken1(T) \in S /\ Rest(T) \in Upto(S, n)
    <3>1. T \in SUBSET S /\ IsFiniteSet(T) /\ Cardinality(T) <= n + 1
      BY <1>0 DEF Upto
    <3>2. /\ Taken1(T) \in T /\ Rest(T) \subseteq T
          /\ Cardinality(Rest(T)) = Cardinality(T) - 1 /\ Cardinality(T) \in Nat
      BY <2>2, <3>1, RestSmaller
    <3> QED BY <3>1, <3>2 DEF Upto
  <2>3. {} \in Upto(S, n) /\ Upto(S, n) \subseteq Upto(S, n + 1)
    BY <1>0, FS_EmptySet DEF Upto
  <2>4. \A T \in Upto(S, n + 1) : T # {} => <<Taken1(T), f[Rest(T)]>> \in S \X D
    BY <2>2
  <2>5. g \in [Upto(S, n + 1) -> D]
    BY <2>3, <2>4
  <2>6. ASSUME NEW T \in Upto(S, n + 1)
        PROVE  g[T] = IF T = {} THEN base ELSE G[<<Taken1(T), g[Rest(T)]>>]
    <3>1. CASE T = {}
      BY <3>1, <2>1, <2>3 DEF FoldsTo
    <3>2. CASE T # {}
      <4>1. g[Rest(T)] = f[Rest(T)]
        BY <3>2, <2>2, <2>3
      <4> QED BY <3>2, <4>1, <2>1 DEF FoldsTo
    <3> QED BY <3>1, <3>2
  <2> QED BY <2>5, <2>6 DEF FoldsTo
<1>3. Bad = {}
  <2> SUFFICES ASSUME Bad # {} PROVE FALSE
    OBVIOUS
  <2>1. PICK n \in Bad : \A m \in Bad : n <= m
    BY LeastNat
  <2>2. n # 0
    BY <1>1
  <2>3. n - 1 \in Nat /\ ~(n - 1 \in Bad)
    BY <2>1, <2>2
  <2> HIDE DEF Can
  <2>4. Can(n - 1)
    BY <2>3
  <2>5. Can((n - 1) + 1)
    BY <1>2, <2>3, <2>4
  <2>6. (n - 1) + 1 = n
    BY <2>1
  <2> QED BY <2>1, <2>5, <2>6
<1>4. Can(Cardinality(S))
  BY <1>3, <1>0
<1>5. Upto(S, Cardinality(S)) = SUBSET S
  BY <1>0 DEF Upto
<1> QED BY <1>4, <1>5 DEF FoldsTo, FoldsAll

\* ... and what each step keeps in D stays there.
LEMMA FoldStays ==
  ASSUME NEW S, IsFiniteSet(S), NEW D, NEW f, f[{}] \in D,
         \A T \in SUBSET S : T # {} /\ f[Rest(T)] \in D => f[T] \in D
  PROVE  f[S] \in D
<1> DEFINE Bad == {T \in SUBSET S : f[T] \notin D}
<1>1. IsWellFoundedOn(StrictSubsetOrdering(S), SUBSET S)
  BY FS_StrictSubsetOrderingWellFounded, FS_FiniteSubsetsOfFinite
<1>2. ASSUME Bad # {} PROVE FALSE
  <2>0. Bad \subseteq SUBSET S
    OBVIOUS
  <2>1. PICK T \in Bad : \A U \in Bad : <<U, T>> \notin StrictSubsetOrdering(S)
    BY ONLY <1>1, <1>2, <2>0, WFMin
  <2>2. T # {} /\ T \in SUBSET S
    BY <2>1
  <2>3. Taken1(T) \in T /\ Rest(T) \in SUBSET S /\ Rest(T) \subseteq T /\ Rest(T) # T
    BY <2>2 DEF Taken1, Rest
  <2>4. <<Rest(T), T>> \in StrictSubsetOrdering(S)
    BY <2>2, <2>3 DEF StrictSubsetOrdering
  <2> QED BY <2>1, <2>2, <2>3, <2>4
<1> QED BY <1>2

\* The tables a request for s may write.
TablesOf(s) == {R \in PortTables : \A k \in Containers \ s : R[k] = rows[k]}

LEMMA UpsertKeeps ==
  ASSUME NEW k \in Containers, NEW line \in Line, NEW R \in PortTables
  PROVE  Upserted(k, line, R) \in PortTables /\ \A j \in Containers \ {k} : Upserted(k, line, R)[j] = R[j]
<1> DEFINE new == IF R[k] = NULL THEN [NewRow(line.port) EXCEPT !.tagged = ~Single(StackOf(k))]
                  ELSE [R[k] EXCEPT !.host = line.port]
<1>1. line.port \in PortNumbers
  BY DEF Line
<1>2. new \in RowValue /\ new.host = line.port
  <2>1. CASE R[k] = NULL
    BY <1>1, <2>1 DEF NewRow, RowValue, PortRow, Telling, Single
  <2>2. CASE R[k] # NULL
    <3>1. R[k] \in RowValue
      BY <2>2 DEF PortTables
    <3> QED BY <1>1, <2>2, <3>1 DEF RowValue, PortRow, Telling
  <2> QED BY <2>1, <2>2
<1>3. CASE \E j \in Containers \ {k} : R[j] # NULL /\ R[j].host = line.port
  BY <1>3 DEF Upserted
<1>4. CASE ~\E j \in Containers \ {k} : R[j] # NULL /\ R[j].host = line.port
  <2>0. R \in [Containers -> RowValue \cup {NULL}] /\ UniqueHosts(R)
    BY DEF PortTables
  <2>1. Upserted(k, line, R) = [R EXCEPT ![k] = new]
    BY <1>4 DEF Upserted
  <2>2. Upserted(k, line, R) \in [Containers -> RowValue \cup {NULL}]
    BY <2>0, <2>1, <1>2
  <2>3. \A j \in Containers : Upserted(k, line, R)[j] = IF j = k THEN new ELSE R[j]
    BY <2>0, <2>1
  <2>4. UniqueHosts(Upserted(k, line, R))
    <3> DEFINE T == Upserted(k, line, R)
    <3>1. T[k] = new /\ new.host = line.port /\ \A j \in Containers \ {k} : T[j] = R[j]
      BY <2>3, <1>2
    <3>2. \A i, j \in Containers : i # j /\ R[i] # NULL /\ R[j] # NULL => R[i].host # R[j].host
      BY <2>0 DEF UniqueHosts
    <3>3. \A j \in Containers \ {k} : R[j] # NULL => R[j].host # line.port
      BY <1>4
    <3> HIDE DEF T, new
    <3>4. \A i, j \in Containers : i # j /\ T[i] # NULL /\ T[j] # NULL => T[i].host # T[j].host
      BY <3>1, <3>2, <3>3
    <3> QED BY <3>4 DEF UniqueHosts, T
  <2> QED BY <2>2, <2>3, <2>4 DEF PortTables
<1> QED BY <1>3, <1>4

\* update_ports_from_compose after the back-fill: the lines, one after the other.
LEMMA UpsertsKeep ==
  ASSUME NEW s \in SUBSET Containers, IsFiniteSet(s), NEW lines, \A k \in s : lines[k] \in Lines,
         NEW base \in TablesOf(s), NULL \notin Line
  PROVE  FoldSet(LAMBDA k, R : Upserted(k, lines[k], R), base, {k \in s : lines[k] # NULL}) \in TablesOf(s)
<1> DEFINE S == {k \in s : lines[k] # NULL}
           D == TablesOf(s)
           G == [p \in S \X D |-> Upserted(p[1], lines[p[1]], p[2])]
           Rhs(g, T) == IF T = {} THEN base ELSE Upserted(Taken1(T), lines[Taken1(T)], g[Rest(T)])
           iter == CHOOSE g : g = [T \in SUBSET S |-> Rhs(g, T)]
<1>1. IsFiniteSet(S)
  BY FS_Subset
<1>2. \A k \in S : lines[k] \in Line /\ k \in Containers
  BY DEF Lines
<1>3. ASSUME NEW k \in S, NEW R \in D
      PROVE  Upserted(k, lines[k], R) \in D
  BY <1>2, UpsertKeeps DEF TablesOf
<1>4. G \in [S \X D -> D]
  BY <1>3
<1>5. PICK f \in [SUBSET S -> D] : FoldsAll(S, base, G, f)
  <2>1. base \in D
    OBVIOUS
  <2> HIDE DEF S, D, G
  <2> QED BY <1>1, <1>4, <2>1, FoldExists
<1>6. \A T \in SUBSET S : T # {} => Taken1(T) \in S /\ Rest(T) \in SUBSET S
  BY DEF Taken1, Rest
<1>7. \A T \in SUBSET S : f[T] = Rhs(f, T)
  BY <1>5, <1>6 DEF FoldsAll
<1>8. f = [T \in SUBSET S |-> Rhs(f, T)]
  BY <1>5, <1>7
<1>9. iter = [T \in SUBSET S |-> Rhs(iter, T)]
  <2> HIDE DEF S, Rhs
  <2> QED BY <1>8
<1>10. iter[{}] \in D /\ \A T \in SUBSET S : T # {} /\ iter[Rest(T)] \in D => iter[T] \in D
  <2> HIDE DEF iter
  <2>1. iter[{}] = base
    BY <1>9
  <2>2. ASSUME NEW T \in SUBSET S, T # {}, iter[Rest(T)] \in D
        PROVE  iter[T] \in D
    <3>1. iter[T] = Upserted(Taken1(T), lines[Taken1(T)], iter[Rest(T)])
      BY <1>9, <2>2
    <3> QED BY <3>1, <2>2, <1>3, <1>6
  <2> QED BY <2>1, <2>2
<1>11. iter[S] \in D
  <2> HIDE DEF iter, S, D
  <2> QED BY <1>1, <1>10, FoldStays
<1>12. FoldSet(LAMBDA k, R : Upserted(k, lines[k], R), base, S) = iter[S]
  BY DEF FoldSet, MapThenFoldSet, Taken1, Rest
<1> QED BY <1>11, <1>12

\* A port that is granted is one of the host's and in no row.
LEMMA GrantedFree ==
  ASSUME NEW k \in Containers, NEW R, NEW requested \in PortNumbers \cup {NULL}, NEW pool_only, NEW exempt,
         NEW p \in allocate_ports(k, R, requested, pool_only, exempt)
  PROVE  p \in PortNumbers /\ \A j \in Containers : R[j] # NULL => R[j].host # p
<1>1. p \notin UsedHosts(R)
  BY DEF allocate_ports
<1>2. p \in PortNumbers
  <2>1. \A x \in PoolStart .. PoolEnd - 1 : x \in PortNumbers
    BY PortsConstants
  <2> QED BY <2>1, PortsConstants DEF allocate_ports
<1> QED BY <1>1, <1>2 DEF UsedHosts

LEMMA GrantKeeps ==
  ASSUME NEW k \in Containers, NEW R \in PortTables, NEW p \in PortNumbers, NEW x \in RowValue, x.host = p,
         \A j \in Containers \ {k} : R[j] # NULL => R[j].host # p
  PROVE  [R EXCEPT ![k] = x] \in PortTables
<1>1. R \in [Containers -> RowValue \cup {NULL}] /\ UniqueHosts(R)
  BY DEF PortTables
<1>2. \A j \in Containers : [R EXCEPT ![k] = x][j] = IF j = k THEN x ELSE R[j]
  BY <1>1
<1>3. UniqueHosts([R EXCEPT ![k] = x])
  BY <1>1, <1>2 DEF UniqueHosts
<1>4. [R EXCEPT ![k] = x] \in [Containers -> RowValue \cup {NULL}]
  BY <1>1
<1> QED BY <1>3, <1>4 DEF PortTables

LEMMA NewRowIs ==
  ASSUME NEW p \in PortNumbers
  PROVE  NewRow(p) \in RowValue /\ NewRow(p).host = p
BY DEF NewRow, RowValue, PortRow, Telling

\* allocate_ports_from_image, one container after the other.
LEMMA ImagesKeep ==
  ASSUME NEW s \in SUBSET Containers, IsFiniteSet(s), NEW base \in TablesOf(s)
  PROVE  FoldSet(LAMBDA k, R : LET granted == allocate_ports(k, R, NULL, FALSE, {})
                               IN IF granted = {} THEN R ELSE [R EXCEPT ![k] = NewRow(CHOOSE p \in granted : TRUE)],
                 base, s) \in TablesOf(s)
<1> DEFINE D == TablesOf(s)
           Put(k, R) == IF allocate_ports(k, R, NULL, FALSE, {}) = {} THEN R
                        ELSE [R EXCEPT ![k] = NewRow(CHOOSE p \in allocate_ports(k, R, NULL, FALSE, {}) : TRUE)]
           G == [p \in s \X D |-> Put(p[1], p[2])]
           Rhs(g, T) == IF T = {} THEN base ELSE Put(Taken1(T), g[Rest(T)])
           iter == CHOOSE g : g = [T \in SUBSET s |-> Rhs(g, T)]
<1>3. ASSUME NEW k \in s, NEW R \in D
      PROVE  Put(k, R) \in D
  <2> DEFINE granted == allocate_ports(k, R, NULL, FALSE, {})
             p == CHOOSE x \in granted : TRUE
  <2>1. CASE granted = {}
    BY <2>1
  <2>2. CASE granted # {}
    <3>1. p \in granted
      BY <2>2
    <3>2. p \in PortNumbers /\ \A j \in Containers : R[j] # NULL => R[j].host # p
      <4> HIDE DEF p
      <4> QED BY <3>1, GrantedFree
    <3>3. [R EXCEPT ![k] = NewRow(p)] \in PortTables
      <4>1. R \in PortTables
        BY DEF TablesOf
      <4> HIDE DEF p
      <4> QED BY <3>2, <4>1, NewRowIs, GrantKeeps
    <3>4. Put(k, R) = [R EXCEPT ![k] = NewRow(p)]
      BY <2>2
    <3>5. \A j \in Containers \ s : [R EXCEPT ![k] = NewRow(p)][j] = rows[j]
      <4>1. R \in [Containers -> RowValue \cup {NULL}] /\ \A j \in Containers \ s : R[j] = rows[j]
        BY DEF TablesOf, PortTables
      <4> HIDE DEF p
      <4> QED BY <4>1
    <3> QED BY <3>3, <3>4, <3>5 DEF TablesOf
  <2> QED BY <2>1, <2>2
<1>4. G \in [s \X D -> D]
  BY <1>3
<1>5. PICK f \in [SUBSET s -> D] : FoldsAll(s, base, G, f)
  <2>1. base \in D
    OBVIOUS
  <2> HIDE DEF D, G
  <2> QED BY <1>4, <2>1, FoldExists
<1>6. \A T \in SUBSET s : T # {} => Taken1(T) \in s /\ Rest(T) \in SUBSET s
  BY DEF Taken1, Rest
<1>7. \A T \in SUBSET s : f[T] = Rhs(f, T)
  <2> HIDE DEF Put, D
  <2> QED BY <1>5, <1>6 DEF FoldsAll
<1>8. f = [T \in SUBSET s |-> Rhs(f, T)]
  <2> HIDE DEF Rhs, G, D
  <2> QED BY <1>5, <1>7
<1>9. iter = [T \in SUBSET s |-> Rhs(iter, T)]
  <2> HIDE DEF Rhs
  <2> QED BY <1>8
<1>10. iter[{}] \in D /\ \A T \in SUBSET s : T # {} /\ iter[Rest(T)] \in D => iter[T] \in D
  <2> HIDE DEF iter, Put, D
  <2>1. iter[{}] = base
    BY <1>9
  <2>2. ASSUME NEW T \in SUBSET s, T # {}, iter[Rest(T)] \in D
        PROVE  iter[T] \in D
    <3>1. iter[T] = Put(Taken1(T), iter[Rest(T)])
      BY <1>9, <2>2
    <3> QED BY <3>1, <2>2, <1>3, <1>6
  <2> QED BY <2>1, <2>2 DEF D
<1>11. iter[s] \in D
  <2> HIDE DEF iter, D
  <2> QED BY <1>10, FoldStays
<1>12. FoldSet(LAMBDA k, R : LET granted == allocate_ports(k, R, NULL, FALSE, {})
                             IN IF granted = {} THEN R ELSE [R EXCEPT ![k] = NewRow(CHOOSE p \in granted : TRUE)],
               base, s) = iter[s]
  BY DEF FoldSet, MapThenFoldSet, Taken1, Rest
<1> QED BY <1>11, <1>12

-----------------------------------------------------------------------------
(* Ports: the stacks, partial functions, and the values of rows.             *)

LEMMA StackFacts ==
  ASSUME NEW s \in Stacks
  PROVE  /\ s \in SUBSET Containers /\ IsFiniteSet(s) /\ s # {} /\ Cardinality(s) \in Nat
         /\ \A k \in s : k \in Containers /\ StackOf(k) = s
         /\ \A t \in Stacks : t # s => s \cap t = {}
<1>1. s \in SUBSET Containers /\ IsFiniteSet(s) /\ s # {} /\ \A t \in Stacks : t # s => s \cap t = {}
  BY PortsConstants DEF Containers
<1>2. ASSUME NEW k \in s
      PROVE  StackOf(k) = s
  <2>1. StackOf(k) \in Stacks /\ k \in StackOf(k)
    BY DEF StackOf
  <2> QED BY <1>1, <2>1
<1> QED BY <1>1, <1>2, FS_CardinalityType

LEMMA StackOfFacts ==
  ASSUME NEW k \in Containers
  PROVE  StackOf(k) \in Stacks /\ k \in StackOf(k)
BY DEF StackOf, Containers

LEMMA SingleFacts ==
  ASSUME NEW s \in Stacks, Single(s)
  PROVE  \E x \in Containers : s = {x}
<1>1. IsFiniteSet(s) /\ s \in SUBSET Containers
  BY StackFacts
<1>2. \E x : s = {x}
  BY <1>1, FS_Singleton DEF Single
<1> QED BY <1>1, <1>2

LEMMA FirstIn ==
  ASSUME NEW s \in Stacks
  PROVE  First(s) \in s
<1> DEFINE T == {Hosts[k] : k \in s}
<1>1. s \in SUBSET Containers /\ s # {}
  BY StackFacts
<1>2. T \in SUBSET Nat /\ T # {}
  BY <1>1, PortsConstants
<1>3. PICK x \in T : \A y \in T : x <= y
  <2> HIDE DEF T
  <2> QED BY <1>2, LeastNat
<1>4. \E k \in s : \A j \in s : Hosts[k] <= Hosts[j]
  BY <1>3
<1> QED BY <1>4 DEF First

LEMMA PartialIs ==
  ASSUME NEW V, NEW f \in Partial(V)
  PROVE  DOMAIN f \in SUBSET Containers /\ f \in [DOMAIN f -> V] /\ \A k \in DOMAIN f : f[k] \in V
BY DEF Partial

LEMMA PartialMade ==
  ASSUME NEW V, NEW T \in SUBSET Containers, NEW f \in [T -> V]
  PROVE  f \in Partial(V)
BY DEF Partial

LEMMA EmptyPartial ==
  ASSUME NEW V
  PROVE  <<>> \in Partial(V)
<1>1. <<>> \in [{} -> V]
  OBVIOUS
<1> QED BY <1>1, PartialMade

LEMMA RowsPartial ==
  ASSUME NEW R \in [Containers -> RowValue \cup {NULL}], NEW T \in SUBSET Containers, \A k \in T : R[k] # NULL
  PROVE  [k \in T |-> R[k]] \in Partial(RowValue)
<1>1. [k \in T |-> R[k]] \in [T -> RowValue]
  OBVIOUS
<1> QED BY <1>1, PartialMade

LEMMA NullIsNone ==
  /\ NULL \notin RowValue /\ NULL \notin Container /\ NULL \notin Line /\ NOFILE \notin Line
  /\ NULL # NOFILE /\ NULL \notin PortNumbers /\ NULL \notin Calls /\ NOFILE \notin Calls
BY NullIsNoValue, PortsConstants DEF RowValue

LEMMA RowFacts ==
  ASSUME NEW x \in RowValue
  PROVE  /\ x.host \in PortNumbers /\ x.pub \in BOOLEAN /\ x.pport \in PortNumbers \cup {NULL} /\ x.tagged \in BOOLEAN
         /\ (x.pub => x.pport # NULL) /\ x # NULL
         /\ x = [host |-> x.host, pub |-> x.pub, pport |-> x.pport, tagged |-> x.tagged]
BY NullIsNone DEF RowValue, PortRow, Telling

LEMMA NoCallTyped == NoCall \in Call
<1>1. <<>> \in Partial(RowValue) /\ <<>> \in Partial(Lines) /\ <<>> \in Partial(Flags)
  BY EmptyPartial
<1> QED BY <1>1 DEF NoCall, Call, PortOps, PortSteps, DeployOps

LEMMA CallFacts ==
  ASSUME NEW q \in Call
  PROVE  /\ q.op \in PortOps /\ q.pc \in PortSteps /\ q.svc \in SUBSET Containers /\ q.on \in BOOLEAN /\ q.ui \in PortNumbers \cup {NULL}
         /\ q.targets \in SUBSET Containers /\ q.snap \in Partial(RowValue)
         /\ q.seen \in Partial(SUBSET Binding) \cup Partial(Lines)
         /\ q.upd \in Partial(Flags) /\ q.alloc \in Partial(RowValue) /\ q.left \in SUBSET Containers
         /\ q.cur \in Containers \cup {NULL} /\ q.own \in SUBSET PortNumbers /\ q.was \in SUBSET PortNumbers
         /\ q.now \in SUBSET PortNumbers /\ q.binds \in SUBSET Binding /\ q.vol \in Calls \cup {EARLIER, NULL}
         /\ q.lines \in Partial(Lines) /\ q.again \in BOOLEAN /\ q.alone \in BOOLEAN
BY DEF Call

-----------------------------------------------------------------------------
(* Ports: a step of request r on service s keeps the invariant when it keeps *)
(* what concerns the two.                                                    *)

Elsewhere(s) ==
  /\ \A k \in Containers \ s : rows'[k] = rows[k] /\ cont'[k] = cont[k] /\ yaml'[k] = yaml[k]
  /\ \A t \in Stacks \ {s} : status'[t] = status[t] /\ settled'[t] = settled[t]

Enters(r, s) ==
  /\ req[r].pc = "new" /\ req'[r].pc # "new" /\ settled'[s] = "no"
  /\ Active(r)' => req'[r].svc = s
  /\ \A x \in Calls \ {r} : req'[x] = IF Active(x) /\ req[x].svc = s THEN [req[x] EXCEPT !.alone = FALSE] ELSE req[x]
  /\ req'[r].alone => \A x \in Calls \ {r} : ~(Active(x) /\ req[x].svc = s)

Proceeds(r, s) ==
  /\ Active(r) /\ req[r].svc = s /\ req'[r].pc # "new" /\ req'[r].op = req[r].op
  /\ Active(r)' => req'[r].svc = s /\ req'[r].alone = req[r].alone
  /\ \A x \in Calls \ {r} : req'[x] = req[x]

HostsKept(s) == \A k \in s : rows'[k] # NULL => rows[k] # NULL /\ rows'[k].host = rows[k].host

\* Volume, as it is after the step.
VolumeThen(v) == v \in Calls => req'[v].pc # "new" /\ req'[v].op # "toggle"

VolumesKept(r, s) ==
  /\ \A k \in s : cont'[k] # NULL => Volume(cont'[k].vol) \/ (cont'[k].vol = r /\ req'[r].op # "toggle")
  /\ req'[r].pc \in {"remove", "create"} => Volume(req'[r].vol)

TwiceKept(r, s) ==
  /\ \A k \in s : Twice(k, cont'[k]) =>
       Twice(k, cont[k]) /\ cont'[k].binds = cont[k].binds /\ (Single(s) \/ HostsKept(s))
  /\ req'[r].pc \in {"extract", "image"} => \A k \in s : ~Twice(k, cont'[k])

AtRest(r, s) ==
  settled'[s] # "no" =>
    req'[r].pc = "done" /\ req[r].alone /\ \A k \in s : SettledAt(settled'[s], k, rows'[k], cont'[k], yaml'[k])

Keeps(r, s) ==
  /\ TablesTyped' /\ Elsewhere(s) /\ (Enters(r, s) \/ Proceeds(r, s))
  /\ status'[s] = "absent" => \A k \in s : rows'[k] = NULL
  /\ Fits(req'[r]) /\ VolumesKept(r, s) /\ TwiceKept(r, s) /\ AtRest(r, s)
  /\ Active(r)' /\ req'[r].alone => \A k \in s : SteadyAt(req'[r], k, rows'[k], cont'[k])

\* Two stacks have no container in common.
LEMMA OtherStack ==
  ASSUME NEW s \in Stacks, NEW t \in Stacks, t # s, NEW k \in t
  PROVE  k \in Containers \ s
BY StackFacts

LEMMA OthersSame ==
  ASSUME PortsInv, NEW r \in Calls, NEW s \in Stacks, Enters(r, s) \/ Proceeds(r, s), NEW x \in Calls \ {r}
  PROVE  /\ req'[x] = req[x] \/ req'[x] = [req[x] EXCEPT !.alone = FALSE]
         /\ req'[x].pc = req[x].pc /\ req'[x].op = req[x].op /\ req'[x].svc = req[x].svc /\ req'[x].vol = req[x].vol
         /\ Active(x)' <=> Active(x)
         /\ Active(x) /\ req'[x].alone => req'[x] = req[x] /\ req[x].svc # s
<1>1. req[x] \in Call
  BY DEF PortsInv, TablesTyped
<1>2. req'[x] = req[x] \/ req'[x] = [req[x] EXCEPT !.alone = FALSE]
  BY DEF Enters, Proceeds
<1>3. req'[x].pc = req[x].pc /\ req'[x].op = req[x].op /\ req'[x].svc = req[x].svc /\ req'[x].vol = req[x].vol
  BY <1>1, <1>2 DEF Call
<1>4. Active(x)' <=> Active(x)
  BY <1>3 DEF Active
<1>5. ASSUME Active(x), req'[x].alone
      PROVE  req'[x] = req[x] /\ req[x].svc # s
  <2>1. CASE Enters(r, s)
    BY <1>1, <1>5, <2>1 DEF Enters, Call
  <2>2. CASE Proceeds(r, s)
    BY <1>5, <2>2 DEF Proceeds, PortsInv, QuietOK
  <2> QED BY <2>1, <2>2
<1> QED BY <1>2, <1>3, <1>4, <1>5

LEMMA VolumeStays ==
  ASSUME PortsInv, NEW r \in Calls, NEW s \in Stacks, Enters(r, s) \/ Proceeds(r, s), NEW v, Volume(v)
  PROVE  VolumeThen(v)
<1> SUFFICES ASSUME v \in Calls PROVE req'[v].pc # "new" /\ req'[v].op # "toggle"
  BY DEF VolumeThen
<1>1. req[v].pc # "new" /\ req[v].op # "toggle"
  BY DEF Volume
<1>2. CASE v = r
  BY <1>1, <1>2 DEF Enters, Proceeds
<1>3. CASE v # r
  BY <1>1, <1>3, OthersSame
<1> QED BY <1>2, <1>3

LEMMA KeepsInv ==
  ASSUME PortsInv, NEW r \in Calls, NEW s \in Stacks, Keeps(r, s)
  PROVE  PortsInv'
<1>0. /\ Elsewhere(s) /\ (Enters(r, s) \/ Proceeds(r, s))
      /\ Fits(req'[r]) /\ VolumesKept(r, s) /\ TwiceKept(r, s) /\ AtRest(r, s)
      /\ s \in SUBSET Containers /\ req[r] \in Call
  BY StackFacts DEF Keeps, PortsInv, TablesTyped
<1>9. ASSUME NEW x \in Calls, x # r
      PROVE  /\ req'[x] = req[x] \/ req'[x] = [req[x] EXCEPT !.alone = FALSE]
             /\ req'[x].pc = req[x].pc /\ req'[x].op = req[x].op /\ req'[x].svc = req[x].svc /\ req'[x].vol = req[x].vol
             /\ Active(x)' <=> Active(x)
             /\ Active(x) /\ req'[x].alone => req'[x] = req[x] /\ req[x].svc # s
  <2>1. x \in Calls \ {r}
    BY <1>9
  <2> QED BY <1>0, <2>1, OthersSame
<1>1. AbsentOK'
  <2> SUFFICES ASSUME NEW t \in Stacks, status'[t] = "absent", NEW k \in t
               PROVE  rows'[k] = NULL
    BY DEF AbsentOK
  <2>1. CASE t # s
    BY <1>0, <2>1, OtherStack DEF PortsInv, AbsentOK, Elsewhere
  <2> QED BY <2>1 DEF Keeps
<1>2. FitsOK'
  <2> SUFFICES ASSUME NEW x \in Calls \ {r}
               PROVE  Fits(req'[x])
    BY <1>0 DEF FitsOK
  <2>1. Fits(req[x]) /\ req[x] \in Call
    BY DEF PortsInv, FitsOK, TablesTyped
  <2>2. Fits([req[x] EXCEPT !.alone = FALSE])
    BY <2>1 DEF Fits, Call
  <2> QED BY <2>1, <2>2, <1>9
<1>3. VolumesOK'
  <2>1. ASSUME NEW k \in Containers, cont'[k] # NULL
        PROVE  VolumeThen(cont'[k].vol)
    <3>1. CASE k \notin s
      <4>1. Volume(cont[k].vol) /\ cont'[k] = cont[k]
        BY <1>0, <2>1, <3>1 DEF Elsewhere, PortsInv, VolumesOK
      <4> QED BY <1>0, <4>1, VolumeStays
    <3>2. CASE k \in s /\ Volume(cont'[k].vol)
      BY <1>0, <3>2, VolumeStays
    <3>3. CASE k \in s /\ cont'[k].vol = r /\ req'[r].op # "toggle"
      BY <1>0, <3>3 DEF VolumeThen, Enters, Proceeds
    <3> QED BY <1>0, <2>1, <3>1, <3>2, <3>3 DEF VolumesKept
  <2>2. ASSUME NEW x \in Calls, req'[x].pc \in {"remove", "create"}
        PROVE  VolumeThen(req'[x].vol)
    <3>1. CASE x = r
      <4>1. Volume(req'[r].vol)
        BY <1>0, <2>2, <3>1 DEF VolumesKept
      <4> QED BY <1>0, <3>1, <4>1, VolumeStays
    <3>2. CASE x # r
      <4>1. Volume(req[x].vol) /\ req'[x].vol = req[x].vol
        BY <2>2, <3>2, <1>9 DEF PortsInv, VolumesOK
      <4> QED BY <1>0, <4>1, VolumeStays
    <3> QED BY <3>1, <3>2
  <2> QED BY <2>1, <2>2 DEF VolumesOK, Volume, VolumeThen
<1>4. TwiceOK'
  <2>1. ASSUME NEW k \in Containers, Twice(k, cont'[k])
        PROVE  /\ \A x \in cont'[k].binds : x.of = k /\ x.any => x.port = PoolEnd
               /\ \A j \in StackOf(k) \ {k} : rows'[j] # NULL => rows'[j].host # PoolEnd
    <3>1. CASE k \notin s
      <4>1. StackOf(k) \in Stacks /\ k \in StackOf(k)
        BY StackOfFacts
      <4>2. \A j \in StackOf(k) : j \in Containers \ s
        BY <3>1, <4>1, OtherStack
      <4> QED BY <1>0, <2>1, <3>1, <4>2 DEF Elsewhere, PortsInv, TwiceOK
    <3>2. CASE k \in s
      <4>1. Twice(k, cont[k]) /\ cont'[k].binds = cont[k].binds /\ (Single(s) \/ HostsKept(s)) /\ StackOf(k) = s
        BY <1>0, <2>1, <3>2, StackFacts DEF TwiceKept
      <4>2. Single(s) => s \ {k} = {}
        BY <3>2, SingleFacts
      <4> QED BY <1>0, <4>1, <4>2 DEF HostsKept, PortsInv, TwiceOK
    <3> QED BY <3>1, <3>2
  <2>2. ASSUME NEW x \in Calls, req'[x].pc \in {"extract", "image"}, NEW k \in req'[x].svc
        PROVE  ~Twice(k, cont'[k])
    <3>1. CASE x = r
      <4>1. req'[r].svc = s
        BY <1>0, <2>2, <3>1 DEF Enters, Proceeds, Active
      <4> QED BY <1>0, <2>2, <3>1, <4>1 DEF TwiceKept
    <3>2. CASE x # r
      <4>1. req'[x].pc = req[x].pc /\ req'[x].svc = req[x].svc
        BY <1>0, <3>2, OthersSame
      <4>2. ~Twice(k, cont[k])
        BY <2>2, <4>1 DEF PortsInv, TwiceOK
      <4>3. req[x].svc \in Stacks
        BY <2>2, <4>1 DEF PortsInv, FitsOK, Fits
      <4>4. k \notin s => cont'[k] = cont[k]
        BY <1>0, <2>2, <4>1, <4>3, StackFacts DEF Elsewhere
      <4> QED BY <1>0, <4>2, <4>4 DEF TwiceKept
    <3> QED BY <3>1, <3>2
  <2> QED BY <2>1, <2>2 DEF TwiceOK
<1>5. QuietOK'
  <2>1. ASSUME NEW x \in Calls, NEW y \in Calls, x # y, Active(x)', Active(y)', req'[x].svc = req'[y].svc, req'[x].alone
        PROVE  FALSE
    <3>1. CASE x = r
      <4>1. Active(y) /\ req[y].svc = s
        BY <1>0, <2>1, <3>1, <1>9 DEF Enters, Proceeds
      <4>2. CASE Enters(r, s)
        BY <1>0, <2>1, <3>1, <4>1, <4>2 DEF Enters
      <4>3. CASE Proceeds(r, s)
        BY <1>0, <2>1, <3>1, <4>1, <4>3 DEF Proceeds, PortsInv, QuietOK
      <4> QED BY <1>0, <4>2, <4>3
    <3>2. CASE x # r /\ y = r
      <4>1. Active(x) /\ req[x].svc # s
        BY <2>1, <3>2, <1>9
      <4> QED BY <1>0, <2>1, <3>2, <4>1, <1>9 DEF Enters, Proceeds
    <3>3. CASE x # r /\ y # r
      <4>1. Active(x) /\ Active(y) /\ req[x].svc = req[y].svc
        BY <2>1, <3>3, <1>9
      <4>2. req[x].alone
        BY <2>1, <3>3, <4>1, <1>9
      <4> QED BY <2>1, <4>1, <4>2 DEF PortsInv, QuietOK
    <3> QED BY <2>1, <3>1, <3>2, <3>3
  <2>2. ASSUME NEW x \in Calls, Active(x)'
        PROVE  settled'[req'[x].svc] = "no"
    <3>1. CASE x = r
      <4>1. req'[r].svc = s /\ req'[r].pc # "done"
        BY <1>0, <2>2, <3>1 DEF Enters, Proceeds, Active
      <4> QED BY <1>0, <3>1, <4>1 DEF AtRest
    <3>2. CASE x # r
      <4>1. Active(x) /\ req'[x].svc = req[x].svc
        BY <2>2, <3>2, <1>9
      <4>2. settled[req[x].svc] = "no" /\ req[x].svc \in Stacks
        BY <4>1 DEF PortsInv, QuietOK, FitsOK, Fits, Active
      <4>3. CASE req[x].svc # s
        BY <1>0, <4>1, <4>2, <4>3 DEF Elsewhere
      <4>4. CASE req[x].svc = s
        <5>1. ASSUME settled'[s] # "no" PROVE FALSE
          <6>1. Proceeds(r, s) /\ req[r].alone
            BY <1>0, <5>1 DEF AtRest, Enters
          <6> QED BY <1>0, <3>2, <4>1, <4>4, <6>1 DEF Proceeds, PortsInv, QuietOK
        <5> QED BY <4>1, <4>4, <5>1
      <4> QED BY <4>3, <4>4
    <3> QED BY <3>1, <3>2
  <2> QED BY <2>1, <2>2 DEF QuietOK
<1>6. SettledOK'
  <2> SUFFICES ASSUME NEW t \in Stacks, NEW k \in t
               PROVE  SettledAt(settled'[t], k, rows'[k], cont'[k], yaml'[k])
    BY DEF SettledOK
  <2>1. CASE t # s
    <3>1. SettledAt(settled[t], k, rows[k], cont[k], yaml[k])
      BY DEF PortsInv, SettledOK
    <3>2. settled'[t] = settled[t] /\ rows'[k] = rows[k] /\ cont'[k] = cont[k] /\ yaml'[k] = yaml[k]
      BY <1>0, <2>1, OtherStack DEF Elsewhere
    <3> QED BY <3>1, <3>2
  <2>2. CASE t = s /\ settled'[s] = "no"
    BY <2>2 DEF SettledAt
  <2>3. CASE t = s /\ settled'[s] # "no"
    BY <1>0, <2>3 DEF AtRest
  <2> QED BY <2>1, <2>2, <2>3
<1>7. SteadyOK'
  <2> SUFFICES ASSUME NEW x \in Calls, Active(x)', req'[x].alone, NEW k \in req'[x].svc
               PROVE  SteadyAt(req'[x], k, rows'[k], cont'[k])
    BY DEF SteadyOK, Steady
  <2>1. CASE x = r
    BY <1>0, <2>1 DEF Enters, Proceeds, Keeps
  <2>2. CASE x # r
    <3>1. Active(x) /\ req'[x] = req[x] /\ req[x].svc # s
      BY <2>2, <1>9
    <3>2. SteadyAt(req[x], k, rows[k], cont[k]) /\ req[x].svc \in Stacks
      BY <3>1 DEF PortsInv, SteadyOK, Steady, FitsOK, Fits, Active
    <3>3. rows'[k] = rows[k] /\ cont'[k] = cont[k]
      BY <1>0, <3>1, <3>2, OtherStack DEF Elsewhere
    <3> QED BY <3>1, <3>2, <3>3
  <2> QED BY <2>1, <2>2
<1>8. TablesTyped'
  BY DEF Keeps
<1> QED BY <1>1, <1>2, <1>3, <1>4, <1>5, <1>6, <1>7, <1>8 DEF PortsInv

-----------------------------------------------------------------------------
(* Ports: the shapes of a step.                                              *)

LEMMA CallerFacts ==
  ASSUME PortsInv, NEW r \in Calls, Active(r)
  PROVE  /\ req \in [Calls -> Call] /\ req[r] \in Call /\ req[r].svc \in Stacks /\ Fits(req[r])
         /\ settled[req[r].svc] = "no" /\ req[r].pc \notin {"new", "done"}
BY DEF PortsInv, TablesTyped, FitsOK, Fits, Active, QuietOK

\* A step of a request under way, to the record q.
LEMMA StepProceeds ==
  ASSUME PortsInv, NEW r \in Calls, NEW s \in Stacks, Active(r), req[r].svc = s,
         NEW q \in Call, req' = [req EXCEPT ![r] = q], q.op = req[r].op, q.pc # "new",
         q.pc # "done" => q.svc = s /\ q.alone = req[r].alone
  PROVE  Proceeds(r, s) /\ req' \in [Calls -> Call] /\ req'[r] = q
<1>1. req \in [Calls -> Call]
  BY DEF PortsInv, TablesTyped
<1>2. req'[r] = q /\ \A x \in Calls \ {r} : req'[x] = req[x]
  BY <1>1
<1> QED BY <1>1, <1>2 DEF Proceeds, Active

LEMMA TablesAre ==
  ASSUME PortsInv
  PROVE  /\ rows \in PortTables /\ rows \in [Containers -> RowValue \cup {NULL}] /\ UniqueHosts(rows)
         /\ cont \in [Containers -> Container \cup {NULL}]
         /\ yaml \in [Containers -> Line \cup {NULL, NOFILE}]
         /\ status \in [Stacks -> Statuses] /\ settled \in [Stacks -> Settlements]
         /\ foreign \subseteq PortNumbers /\ events \in 0 .. MaxEvents
BY DEF PortsInv, TablesTyped, PortTables

\* The containers stay as they are.
LEMMA CalmKeeps ==
  ASSUME PortsInv, NEW r \in Calls, NEW s \in Stacks, Active(r), req[r].svc = s,
         NEW q \in Call, req' = [req EXCEPT ![r] = q], q.op = req[r].op, q.pc # "new",
         q.pc # "done" => q.svc = s /\ q.alone = req[r].alone,
         cont' = cont, foreign' = foreign, events' \in 0 .. MaxEvents,
         rows' \in TablesOf(s), HostsKept(s) \/ Single(s) \/ \A k \in s : ~Twice(k, cont[k]),
         yaml' \in [Containers -> Line \cup {NULL, NOFILE}], \A k \in Containers \ s : yaml'[k] = yaml[k],
         status' \in [Stacks -> Statuses], \A t \in Stacks \ {s} : status'[t] = status[t],
         status'[s] = "absent" => \A k \in s : rows'[k] = NULL,
         settled' = settled \/ /\ settled' \in [Stacks -> Settlements] /\ AtRest(r, s)
                               /\ \A t \in Stacks \ {s} : settled'[t] = settled[t],
         Fits(q), q.pc \in {"remove", "create"} => Volume(q.vol),
         q.pc \in {"extract", "image"} => \A k \in s : ~Twice(k, cont[k]),
         q.pc # "done" /\ q.alone => \A k \in s : SteadyAt(q, k, rows'[k], cont[k])
  PROVE  \E x \in Stacks : Keeps(r, x)
<1>1. Proceeds(r, s) /\ req' \in [Calls -> Call] /\ req'[r] = q
  BY StepProceeds, ZenonT(40)
<1>2. settled[s] = "no" /\ s \in SUBSET Containers
  BY CallerFacts, StackFacts
<1>3. rows' \in PortTables /\ \A k \in Containers \ s : rows'[k] = rows[k]
  BY DEF TablesOf
<1>4. TablesTyped'
  BY <1>1, <1>3, TablesAre DEF TablesTyped, PortTables, UniqueHosts
<1>5. Elsewhere(s)
  BY <1>3 DEF Elsewhere
<1>6. VolumesKept(r, s)
  <2>1. \A k \in s : cont[k] # NULL => Volume(cont[k].vol)
    BY <1>2 DEF PortsInv, VolumesOK
  <2> QED BY <1>1, <2>1 DEF VolumesKept
<1>7. TwiceKept(r, s)
  BY <1>1 DEF TwiceKept
<1>8. AtRest(r, s)
  BY <1>2 DEF AtRest
<1>9. Active(r)' /\ req'[r].alone => \A k \in s : SteadyAt(req'[r], k, rows'[k], cont'[k])
  BY <1>1 DEF Active
<1> QED BY <1>1, <1>4, <1>5, <1>6, <1>7, <1>8, <1>9 DEF Keeps

\* Only the request changes.
LEMMA ThinkKeeps ==
  ASSUME PortsInv, NEW r \in Calls, NEW s \in Stacks, Active(r), req[r].svc = s,
         NEW q \in Call, req' = [req EXCEPT ![r] = q], q.op = req[r].op, q.pc # "new",
         q.pc # "done" => q.svc = s /\ q.alone = req[r].alone,
         UNCHANGED <<rows, cont, yaml, status, foreign, settled, events>>,
         Fits(q), q.pc \in {"remove", "create"} => Volume(q.vol), q.pc \notin {"extract", "image"},
         q.pc # "done" /\ q.alone => \A k \in s : SteadyAt(q, k, rows[k], cont[k])
  PROVE  \E x \in Stacks : Keeps(r, x)
<1>1. rows' \in TablesOf(s) /\ HostsKept(s)
  BY TablesAre DEF TablesOf, HostsKept
<1>2. status'[s] = "absent" => \A k \in s : rows'[k] = NULL
  BY DEF PortsInv, AbsentOK
<1>3. /\ events' \in 0 .. MaxEvents /\ yaml' \in [Containers -> Line \cup {NULL, NOFILE}]
      /\ status' \in [Stacks -> Statuses]
  BY TablesAre
<1>4. q.pc # "done" /\ q.alone => \A k \in s : SteadyAt(q, k, rows'[k], cont[k])
  OBVIOUS
<1>5. (\A k \in Containers \ s : yaml'[k] = yaml[k]) /\ (\A t \in Stacks \ {s} : status'[t] = status[t])
  OBVIOUS
<1> QED BY <1>1, <1>2, <1>3, <1>4, <1>5, CalmKeeps

\* Docker is called: only containers of the service change.
LEMMA DockerKeeps ==
  ASSUME PortsInv, NEW r \in Calls, NEW s \in Stacks, Active(r), req[r].svc = s,
         NEW q \in Call, req' = [req EXCEPT ![r] = q], q.op = req[r].op, q.pc # "new",
         q.pc # "done" => q.svc = s /\ q.alone = req[r].alone,
         UNCHANGED <<rows, yaml, settled>>, foreign' \subseteq PortNumbers, events' \in 0 .. MaxEvents,
         cont' \in [Containers -> Container \cup {NULL}], \A k \in Containers \ s : cont'[k] = cont[k],
         \A k \in s : Twice(k, cont'[k]) => cont'[k] = cont[k],
         \A k \in s : cont'[k] # NULL /\ cont'[k] # cont[k] =>
           Volume(cont'[k].vol) \/ (cont'[k].vol = r /\ q.op # "toggle"),
         status' \in [Stacks -> Statuses], \A t \in Stacks \ {s} : status'[t] = status[t],
         status'[s] = "absent" => status[s] = "absent",
         Fits(q), q.pc \in {"remove", "create"} => Volume(q.vol),
         q.pc \in {"extract", "image"} => \A k \in s : ~Twice(k, cont'[k]),
         q.pc # "done" /\ q.alone => \A k \in s : SteadyAt(q, k, rows[k], cont'[k])
  PROVE  \E x \in Stacks : Keeps(r, x)
<1>1. Proceeds(r, s) /\ req' \in [Calls -> Call] /\ req'[r] = q
  BY StepProceeds
<1>2. settled[s] = "no" /\ s \in SUBSET Containers
  BY CallerFacts, StackFacts
<1>3. TablesTyped'
  BY <1>1, TablesAre DEF TablesTyped, PortTables, UniqueHosts
<1>4. Elsewhere(s)
  BY DEF Elsewhere
<1>5. VolumesKept(r, s)
  <2>1. \A k \in s : cont[k] # NULL => Volume(cont[k].vol)
    BY <1>2 DEF PortsInv, VolumesOK
  <2> QED BY <1>1, <2>1 DEF VolumesKept
<1>6. TwiceKept(r, s)
  BY <1>1 DEF TwiceKept, HostsKept
<1>7. AtRest(r, s)
  BY <1>2 DEF AtRest
<1>8. status'[s] = "absent" => \A k \in s : rows'[k] = NULL
  BY DEF PortsInv, AbsentOK
<1>9. Active(r)' /\ req'[r].alone => \A k \in s : SteadyAt(req'[r], k, rows'[k], cont'[k])
  BY <1>1 DEF Active
<1> QED BY <1>1, <1>3, <1>4, <1>5, <1>6, <1>7, <1>8, <1>9 DEF Keeps

-----------------------------------------------------------------------------
(* Ports: the sync and the switch.                                           *)

LEMMA HostsStay ==
  ASSUME PortsInv, NEW s \in Stacks, NEW R \in [Containers -> RowValue \cup {NULL}],
         \A k \in Containers : R[k] # NULL => rows[k] # NULL /\ R[k].host = rows[k].host,
         \A k \in Containers \ s : R[k] = rows[k]
  PROVE  R \in TablesOf(s)
<1>1. UniqueHosts(rows)
  BY TablesAre
<1>2. UniqueHosts(R)
  BY <1>1 DEF UniqueHosts
<1> QED BY <1>2 DEF TablesOf, PortTables

LEMMA FlagsKeep ==
  ASSUME PortsInv, NEW s \in Stacks, NEW u \in Partial(Flags) \cup Partial(RowValue), DOMAIN u \subseteq s
  PROVE  /\ WithFlags(rows, u) \in TablesOf(s)
         /\ \A k \in s : /\ WithFlags(rows, u)[k] = NULL <=> rows[k] = NULL
                         /\ rows[k] # NULL => /\ WithFlags(rows, u)[k].host = rows[k].host
                                              /\ WithFlags(rows, u)[k].tagged = rows[k].tagged
                         /\ rows[k] # NULL /\ k \in DOMAIN u => /\ WithFlags(rows, u)[k].pub = u[k].pub
                                                                /\ WithFlags(rows, u)[k].pport = u[k].pport
<1> DEFINE R == WithFlags(rows, u)
<1>0. s \in SUBSET Containers
  BY StackFacts
<1>1. \A k \in DOMAIN u : /\ u[k].pub \in BOOLEAN /\ u[k].pport \in PortNumbers \cup {NULL}
                          /\ u[k].pub => u[k].pport # NULL
  <2>1. CASE u \in Partial(Flags)
    <3>1. \A k \in DOMAIN u : u[k] \in Flags
      BY <2>1, PartialIs
    <3> QED BY <3>1 DEF Flags, Telling
  <2>2. CASE u \in Partial(RowValue)
    <3>1. \A k \in DOMAIN u : u[k] \in RowValue
      BY <2>2, PartialIs
    <3> QED BY <3>1, RowFacts
  <2> QED BY <2>1, <2>2
<1>2. ASSUME NEW k \in Containers
      PROVE  /\ R[k] \in RowValue \cup {NULL}
             /\ R[k] = NULL <=> rows[k] = NULL
             /\ rows[k] # NULL => R[k].host = rows[k].host /\ R[k].tagged = rows[k].tagged
             /\ rows[k] # NULL /\ k \in DOMAIN u => R[k].pub = u[k].pub /\ R[k].pport = u[k].pport
             /\ k \notin DOMAIN u => R[k] = rows[k]
  <2>1. CASE k \in DOMAIN u /\ rows[k] # NULL
    <3>1. rows[k] \in RowValue
      BY <2>1, TablesAre
    <3>2. R[k] = [rows[k] EXCEPT !.pub = u[k].pub, !.pport = u[k].pport]
      BY <2>1 DEF WithFlags
    <3>3. R[k] \in RowValue
      BY <2>1, <3>1, <3>2, <1>1 DEF RowValue, PortRow, Telling
    <3>4. R[k].host = rows[k].host /\ R[k].tagged = rows[k].tagged /\ R[k].pub = u[k].pub /\ R[k].pport = u[k].pport
      BY <3>1, <3>2 DEF RowValue, PortRow
    <3> QED BY <2>1, <3>3, <3>4, NullIsNone
  <2>2. CASE ~(k \in DOMAIN u /\ rows[k] # NULL)
    <3>1. R[k] = rows[k]
      BY <2>2 DEF WithFlags
    <3> QED BY <2>2, <3>1, TablesAre
  <2> QED BY <2>1, <2>2
<1>3. R \in [Containers -> RowValue \cup {NULL}]
  BY <1>2 DEF WithFlags
<1>4. R \in TablesOf(s)
  <2> HIDE DEF R
  <2> QED BY <1>0, <1>2, <1>3, HostsStay
<1> QED BY <1>0, <1>2, <1>4

\* The binding a row is judged by is one that is published; it faces the world just when
\* one of them does.
LEMMA JudgedTells ==
  ASSUME PortsInv, NEW s \in Stacks, NEW k \in s, NEW binds \in SUBSET Binding, \A x \in binds : x.of = k,
         NEW b \in SyncBinding(k, binds),
         ~Twice(k, cont[k]) \/ \A j \in s \ {k} : rows[j] # NULL => rows[j].host # PoolEnd,
         cont[k] # NULL, binds = {x \in cont[k].binds : x.of = k}
  PROVE  Tells(k, cont[k], Judged(k, b))
<1> DEFINE public == {x \in binds : x.any}
           own == {x \in binds : x.port \in {rows[k].pport, rows[k].host}}
           orphan == {x \in binds : x.any /\ \A j \in RowsOf(s) \ {k} : rows[j].host # x.port}
<1>1. StackOf(k) = s
  BY StackFacts
<1>2. b \in binds /\ (own # {} /\ orphan # {} => b.any)
  BY <1>1 DEF SyncBinding
<1>3. Open(k, cont[k]) = public
  BY DEF Open
<1>4. ASSUME NEW x \in public
      PROVE  b.any
  <2>1. CASE b = x
    BY <2>1
  <2>2. CASE b # x /\ orphan = {}
    <3>1. Twice(k, cont[k])
      BY <1>2, <2>2 DEF Twice
    <3>2. x.port = PoolEnd
      BY <3>1 DEF PortsInv, TwiceOK, Containers
    <3>3. x \in orphan
      BY <3>1, <3>2 DEF RowsOf
    <3> QED BY <2>2, <3>3
  <2>3. CASE orphan # {}
    <3>1. own = {} => b \in orphan
      BY <2>3, <1>1 DEF SyncBinding
    <3> QED BY <3>1, <2>3, <1>2
  <2> QED BY <2>1, <2>2, <2>3
<1>5. b.any => b \in public
  BY <1>2
<1>6. Judged(k, b).pub = b.any /\ (b.any => Judged(k, b).pport = b.port)
  BY DEF Judged
<1>7. b.any \in BOOLEAN
  BY <1>2 DEF Binding
<1> QED BY <1>3, <1>4, <1>5, <1>6, <1>7 DEF Tells

\* What compute_sync_updates computes.
LEMMA UpdatesAre ==
  ASSUME PortsInv, NEW s \in Stacks, NEW seen \in Partial(SUBSET Binding), DOMAIN seen \subseteq s,
         NEW u \in compute_sync_updates(s, seen)
  PROVE  /\ u \in Partial(Flags) /\ DOMAIN u \subseteq s
         /\ \A k \in s : /\ Seat(k, rows[k]) /\ cont[k] # NULL
                         /\ \A j \in s : (j \in DOMAIN seen <=> cont[j] # NULL) /\ (cont[j] # NULL => seen[j] = cont[j].binds)
              => k \in DOMAIN u /\ Tells(k, cont[k], u[k])
<1> DEFINE known == {k \in RowsOf(s) : MatchedContainer(s, k, seen) # {}}
           binds(k) == {b \in UNION {seen[c] : c \in MatchedContainer(s, k, seen)} : b.of = k}
           found(k) == IF binds(k) = {} THEN {NotPublished(k)} ELSE {Judged(k, b) : b \in SyncBinding(k, binds(k))}
<1>0. s \in SUBSET Containers /\ \A k \in s : StackOf(k) = s
  BY StackFacts
<1>1. DOMAIN u = known /\ \A k \in known : u[k] \in found(k)
  BY DEF compute_sync_updates
<1>1a. u = [k \in known |-> u[k]]
  BY DEF compute_sync_updates
<1>2. ASSUME NEW k \in known
      PROVE  /\ rows[k] \in RowValue /\ MatchedContainer(s, k, seen) \subseteq DOMAIN seen
             /\ binds(k) \in SUBSET Binding /\ SyncBinding(k, binds(k)) \subseteq binds(k)
  <2>1. rows[k] \in RowValue
    BY <1>0, TablesAre DEF RowsOf
  <2>2. MatchedContainer(s, k, seen) \subseteq DOMAIN seen
    BY DEF MatchedContainer
  <2>3. binds(k) \in SUBSET Binding
    BY <2>2, PartialIs
  <2>4. SyncBinding(k, binds(k)) \subseteq binds(k)
    <3> HIDE DEF binds
    <3> QED BY DEF SyncBinding
  <2> QED BY <2>1, <2>2, <2>3, <2>4
<1>3. ASSUME NEW k \in known
      PROVE  u[k] \in Flags
  <2>1. CASE binds(k) = {}
    <3>1. u[k] = NotPublished(k)
      BY <2>1, <1>1
    <3>2. rows[k].pport \in PortNumbers \cup {NULL}
      BY <1>2, RowFacts
    <3> QED BY <3>1, <3>2 DEF NotPublished, Flags, Telling
  <2>2. CASE binds(k) # {}
    <3>1. PICK b \in SyncBinding(k, binds(k)) : u[k] = Judged(k, b)
      BY <2>2, <1>1
    <3>2. b \in Binding
      BY <1>2
    <3>3. b.any \in BOOLEAN /\ b.port \in PortNumbers
      BY <3>2 DEF Binding
    <3>4. rows[k].pport \in PortNumbers \cup {NULL}
      BY <1>2, RowFacts
    <3> QED BY <3>1, <3>3, <3>4, NullIsNone DEF Judged, Flags, Telling
  <2> QED BY <2>1, <2>2
<1>4. known \subseteq s
  BY DEF RowsOf
<1>5. u \in Partial(Flags)
  <2>1. u \in [known -> Flags]
    <3> HIDE DEF known, found
    <3> QED BY <1>1a, <1>3
  <2> HIDE DEF known
  <2> QED BY <2>1, <1>0, <1>4, PartialMade
<1>6. ASSUME NEW k \in s, Seat(k, rows[k]), cont[k] # NULL,
             \A j \in s : (j \in DOMAIN seen <=> cont[j] # NULL) /\ (cont[j] # NULL => seen[j] = cont[j].binds)
      PROVE  k \in DOMAIN u /\ Tells(k, cont[k], u[k])
  <2>1. MatchedContainer(s, k, seen) = {k}
    <3>1. CASE rows[k].tagged
      BY <3>1, <1>6 DEF MatchedContainer
    <3>2. CASE ~rows[k].tagged
      <4>1. Single(s)
        BY <3>2, <1>0, <1>6 DEF Seat
      <4>2. s = {k}
        BY <4>1, SingleFacts
      <4>3. DOMAIN seen = {k}
        BY <4>2, <1>6
      <4>4. Cardinality(DOMAIN seen) = 1
        BY <4>3, FS_Singleton
      <4> QED BY <3>2, <4>2, <4>3, <4>4 DEF MatchedContainer, RowsOf
    <3> QED BY <3>1, <3>2
  <2>2. k \in known
    BY <2>1, <1>6 DEF Seat, RowsOf
  <2>3. binds(k) = {b \in cont[k].binds : b.of = k}
    BY <2>1, <1>6
  <2>4. CASE binds(k) = {}
    <3>1. u[k] = NotPublished(k)
      BY <2>2, <2>4, <1>1
    <3>2. Open(k, cont[k]) = {}
      BY <2>3, <2>4 DEF Open
    <3> QED BY <2>2, <1>1, <3>1, <3>2 DEF Tells, NotPublished
  <2>5. CASE binds(k) # {}
    <3>1. PICK b \in SyncBinding(k, binds(k)) : u[k] = Judged(k, b)
      BY <2>2, <2>5, <1>1
    <3>2. ~Twice(k, cont[k]) \/ \A j \in s \ {k} : rows[j] # NULL => rows[j].host # PoolEnd
      BY <1>0 DEF PortsInv, TwiceOK
    <3>3. binds(k) \in SUBSET Binding /\ \A x \in binds(k) : x.of = k
      BY <2>2, <1>2
    <3>4. Tells(k, cont[k], Judged(k, b))
      <4> HIDE DEF binds
      <4> QED BY <1>6, <2>3, <3>1, <3>2, <3>3, JudgedTells
    <3> QED BY <2>2, <1>1, <3>1, <3>4
  <2> QED BY <2>4, <2>5
<1> QED BY <1>1, <1>4, <1>5, <1>6

LEMMA SyncComputeKeeps ==
  ASSUME PortsInv, NEW r \in Calls, SyncCompute(r)
  PROVE  \E x \in Stacks : Keeps(r, x)
<1> DEFINE s == req[r].svc
<1>0. req[r].pc = "compute" /\ UNCHANGED <<rows, cont, yaml, status, foreign, settled, events>>
  BY DEF SyncCompute
<1>1. Active(r)
  BY <1>0 DEF Active
<1>2. req \in [Calls -> Call] /\ req[r] \in Call /\ s \in Stacks /\ Fits(req[r])
  BY <1>1, CallerFacts
<1>3. PICK u \in compute_sync_updates(s, req[r].seen) :
        req' = [req EXCEPT ![r].pc = "flags", ![r].seen = <<>>, ![r].upd = u]
  BY DEF SyncCompute
<1> DEFINE q == [req[r] EXCEPT !.pc = "flags", !.seen = <<>>, !.upd = u]
<1>4. req' = [req EXCEPT ![r] = q]
  BY <1>2, <1>3
<1>5. req[r].seen \in Partial(SUBSET Binding) /\ DOMAIN req[r].seen \subseteq s /\ req[r].op \in {"sync", "toggle"}
  BY <1>0, <1>2 DEF Fits
<1>6. /\ u \in Partial(Flags) /\ DOMAIN u \subseteq s
      /\ \A k \in s : /\ Seat(k, rows[k]) /\ cont[k] # NULL
                      /\ \A j \in s : /\ j \in DOMAIN req[r].seen <=> cont[j] # NULL
                                      /\ cont[j] # NULL => req[r].seen[j] = cont[j].binds
           => k \in DOMAIN u /\ Tells(k, cont[k], u[k])
  BY <1>2, <1>5, UpdatesAre
<1>7. q \in Call
  BY <1>2, <1>6, EmptyPartial DEF Call, PortSteps
<1>8. /\ q.pc = "flags" /\ q.svc = s /\ q.op = req[r].op /\ q.alone = req[r].alone /\ q.upd = u
  BY <1>2 DEF Call
<1>9. Fits(q)
  BY <1>5, <1>6, <1>8, <1>2 DEF Fits, Switching, Deploying, WithSnap, WithAlloc, Remaking, WithLinesOf
<1>10. ASSUME q.alone, NEW k \in s
       PROVE  SteadyAt(q, k, rows[k], cont[k])
  <2>1. \A j \in s : SteadyAt(req[r], j, rows[j], cont[j])
    BY <1>1, <1>8, <1>10 DEF PortsInv, SteadyOK, Steady
  <2>2. \A j \in s : /\ j \in DOMAIN req[r].seen <=> cont[j] # NULL
                     /\ cont[j] # NULL => req[r].seen[j] = cont[j].binds
    BY <2>1, <1>0 DEF SteadyAt
  <2>3. Seat(k, rows[k]) /\ cont[k] # NULL => k \in DOMAIN u /\ Tells(k, cont[k], u[k])
    BY <2>2, <1>6
  <2> QED BY <2>3, <1>8 DEF SteadyAt, WithAlloc, Remaking
<1> HIDE DEF q
<1> QED BY <1>0, <1>1, <1>2, <1>4, <1>7, <1>8, <1>9, <1>10, ThinkKeeps

\* After an active step, what the calm steps need of the tables that stay.
LEMMA Unmoved ==
  ASSUME PortsInv, NEW s \in Stacks
  PROVE  /\ UNCHANGED events => events' \in 0 .. MaxEvents
         /\ UNCHANGED yaml => /\ yaml' \in [Containers -> Line \cup {NULL, NOFILE}]
                              /\ \A k \in Containers \ s : yaml'[k] = yaml[k]
         /\ UNCHANGED status => /\ status' \in [Stacks -> Statuses]
                                /\ \A t \in Stacks \ {s} : status'[t] = status[t]
         /\ UNCHANGED rows => rows' \in TablesOf(s) /\ HostsKept(s)
         /\ (status'[s] = "absent" => status[s] = "absent") /\ HostsKept(s)
              => (status'[s] = "absent" => \A k \in s : rows'[k] = NULL)
<1>1. UNCHANGED rows => rows' \in TablesOf(s) /\ HostsKept(s)
  BY TablesAre DEF TablesOf, HostsKept
<1>2. (status'[s] = "absent" => status[s] = "absent") /\ HostsKept(s)
        => (status'[s] = "absent" => \A k \in s : rows'[k] = NULL)
  BY DEF PortsInv, AbsentOK, HostsKept
<1> QED BY <1>1, <1>2, TablesAre

\* An answer ends a request.
LEMMA DoneIs ==
  ASSUME NEW r \in Calls, req[r] \in Call
  PROVE  /\ Done(r) \in Call /\ Done(r).op = req[r].op /\ Done(r).pc = "done" /\ Fits(Done(r))
<1>1. NoCall \in Call
  BY NoCallTyped
<1>2. Done(r) \in Call
  BY <1>1, ZenonT(40) DEF Done, Call, PortSteps
<1>3. Done(r).op = req[r].op /\ Done(r).pc = "done"
  BY DEF Done, NoCall
<1> QED BY <1>2, <1>3 DEF Fits, Switching, Deploying, WithSnap, WithAlloc, Remaking, WithLinesOf

LEMMA SyncWriteKeeps ==
  ASSUME PortsInv, NEW r \in Calls, SyncWrite(r)
  PROVE  \E x \in Stacks : Keeps(r, x)
<1> DEFINE s == req[r].svc
           q == IF req[r].op = "toggle" THEN [req[r] EXCEPT !.pc = "target", !.upd = <<>>] ELSE Done(r)
<1>0. /\ req[r].pc = "flags" /\ UNCHANGED <<cont, yaml, status, foreign, events>> /\ rows' = WithFlags(rows, req[r].upd)
      /\ settled' = [settled EXCEPT ![s] = IF req[r].op = "sync" /\ req[r].alone THEN "sync" ELSE @]
  BY DEF SyncWrite
<1>1. Active(r)
  BY <1>0 DEF Active
<1>2. req \in [Calls -> Call] /\ req[r] \in Call /\ s \in Stacks /\ Fits(req[r]) /\ settled[s] = "no"
  BY <1>1, CallerFacts
<1>3. req' = [req EXCEPT ![r] = q]
  BY <1>2 DEF SyncWrite, End
<1>4. req[r].op \in {"sync", "toggle"} /\ DOMAIN req[r].upd \subseteq s /\ req[r].upd \in Partial(Flags)
  BY <1>0, <1>2, CallFacts DEF Fits
<1>5. /\ rows' \in TablesOf(s)
      /\ \A k \in s : /\ rows'[k] = NULL <=> rows[k] = NULL
                      /\ rows[k] # NULL => rows'[k].host = rows[k].host /\ rows'[k].tagged = rows[k].tagged
                      /\ rows[k] # NULL /\ k \in DOMAIN req[r].upd => /\ rows'[k].pub = req[r].upd[k].pub
                                                                      /\ rows'[k].pport = req[r].upd[k].pport
  BY <1>0, <1>2, <1>4, FlagsKeep
<1>6. HostsKept(s)
  BY <1>5 DEF HostsKept
<1>7. /\ q \in Call /\ q.op = req[r].op /\ q.pc \in {"target", "done"} /\ Fits(q)
      /\ q.pc # "done" => q.svc = s /\ q.alone = req[r].alone
      /\ q.pc = "done" <=> req[r].op # "toggle"
  <2>1. CASE req[r].op # "toggle"
    BY <1>2, <2>1, DoneIs
  <2>2. CASE req[r].op = "toggle"
    <3>1. q \in Call
      BY <1>2, <2>2, EmptyPartial, ZenonT(40) DEF Call, PortSteps, Switching
    <3>2. q.op = req[r].op /\ q.pc = "target" /\ q.svc = s /\ q.alone = req[r].alone
      BY <1>2, <2>2 DEF Call
    <3>3. Fits(q)
      BY <1>2, <2>2, <3>2 DEF Fits, Switching, Deploying, WithSnap, WithAlloc, Remaking, WithLinesOf
    <3> QED BY <2>2, <3>1, <3>2, <3>3
  <2> QED BY <2>1, <2>2
<1>8. \A k \in s : SteadyAt(q, k, rows'[k], cont[k]) \/ q.pc = "done"
  BY <1>7 DEF SteadyAt, WithAlloc, Remaking
<1>9. settled' = settled \/ /\ settled' \in [Stacks -> Settlements] /\ AtRest(r, s)
                            /\ \A t \in Stacks \ {s} : settled'[t] = settled[t]
  <2>1. CASE ~(req[r].op = "sync" /\ req[r].alone)
    BY <1>0, <2>1, TablesAre
  <2>2. CASE req[r].op = "sync" /\ req[r].alone
    <3>1. settled' = [settled EXCEPT ![s] = "sync"]
      BY <1>0, <2>2
    <3>2. req'[r].pc = "done"
      BY <1>2, <1>3, <1>7, <2>2
    <3>3. ASSUME NEW k \in s
          PROVE  SettledAt("sync", k, rows'[k], cont'[k], yaml'[k])
      <4>1. SteadyAt(req[r], k, rows[k], cont[k])
        BY <1>1, <2>2 DEF PortsInv, SteadyOK, Steady
      <4>2. Seat(k, rows[k]) /\ cont[k] # NULL => k \in DOMAIN req[r].upd /\ Tells(k, cont[k], req[r].upd[k])
        BY <4>1, <1>0, <2>2 DEF SteadyAt
      <4>3. Seat(k, rows'[k]) => Seat(k, rows[k])
        BY <1>5 DEF Seat
      <4>4. Seat(k, rows'[k]) /\ cont[k] # NULL => Tells(k, cont[k], rows'[k])
        BY <4>2, <4>3, <1>5 DEF Tells, Seat
      <4> QED BY <4>4, <1>0 DEF SettledAt
    <3>4. settled' \in [Stacks -> Settlements] /\ settled'[s] = "sync" /\ \A t \in Stacks \ {s} : settled'[t] = settled[t]
      BY <3>1, <1>2, TablesAre DEF Settlements
    <3> QED BY <2>2, <3>2, <3>3, <3>4 DEF AtRest
  <2> QED BY <2>1, <2>2
<1> HIDE DEF q
<1> QED BY <1>0, <1>1, <1>2, <1>3, <1>5, <1>6, <1>7, <1>8, <1>9, Unmoved, CalmKeeps

LEMMA TargetKeeps ==
  ASSUME PortsInv, NEW r \in Calls, Target(r)
  PROVE  \E x \in Stacks : Keeps(r, x)
<1> DEFINE s == req[r].svc
           there == req[r].targets \cap RowsOf(s)
           want(k) == IF req[r].on THEN [pub |-> TRUE, pport |-> compute_public_port(req[r].targets = s, TRUE, rows[k], req[r].ui)]
                      ELSE [pub |-> FALSE, pport |-> rows[k].pport]
           snap == [k \in there |-> rows[k]]
           upd == [k \in there |-> want(k)]
           next == [req[r] EXCEPT !.pc = IF req[r].on THEN "check" ELSE "flip", !.targets = there, !.snap = snap, !.upd = upd]
           q == IF there = {} THEN Done(r) ELSE next
<1>0. req[r].pc = "target" /\ UNCHANGED <<rows, cont, yaml, status, foreign, settled, events>>
  BY DEF Target
<1>1. Active(r)
  BY <1>0 DEF Active
<1>2. req \in [Calls -> Call] /\ req[r] \in Call /\ s \in Stacks /\ Fits(req[r])
  BY <1>1, CallerFacts
<1>3. req' = [req EXCEPT ![r] = q]
  BY <1>2 DEF Target, End
<1>4. there \subseteq s /\ there \in SUBSET Containers /\ \A k \in there : rows[k] \in RowValue
  BY <1>2, StackFacts, TablesAre DEF RowsOf
<1>5. snap \in Partial(RowValue)
  BY <1>4, PartialMade
<1>6. \A k \in there : want(k) \in Flags /\ (req[r].on => want(k).pport # NULL)
  <2>1. req[r].ui \in PortNumbers \cup {NULL} /\ req[r].on \in BOOLEAN
    BY <1>2, CallFacts
  <2>2. \A k \in there : rows[k].host \in PortNumbers /\ rows[k].pport \in PortNumbers \cup {NULL}
    BY <1>4, RowFacts
  <2>3. \A k \in there : req[r].on => /\ want(k) = [pub |-> TRUE, pport |-> IF req[r].ui # NULL THEN req[r].ui ELSE rows[k].host]
    BY DEF compute_public_port
  <2>4. \A k \in there : ~req[r].on => /\ want(k) = [pub |-> FALSE, pport |-> rows[k].pport]
    OBVIOUS
  <2>5. ASSUME NEW k \in there
        PROVE  want(k) \in Flags /\ (req[r].on => want(k).pport # NULL)
    <3>1. CASE req[r].on
      <4>1. want(k) = [pub |-> TRUE, pport |-> IF req[r].ui # NULL THEN req[r].ui ELSE rows[k].host]
        BY <2>3, <3>1
      <4> HIDE DEF want
      <4> QED BY <4>1, <2>1, <2>2, NullIsNone DEF Flags, Telling
    <3>2. CASE ~req[r].on
      <4>1. want(k) = [pub |-> FALSE, pport |-> rows[k].pport]
        BY <2>4, <3>2
      <4> HIDE DEF want
      <4> QED BY <4>1, <2>2, <3>2 DEF Flags, Telling
    <3> QED BY <3>1, <3>2
  <2> HIDE DEF want
  <2> QED BY <2>5
<1>7. upd \in Partial(Flags)
  <2>1. upd \in [there -> Flags]
    <3> HIDE DEF want, there
    <3> QED BY <1>6
  <2> HIDE DEF upd, there
  <2> QED BY <2>1, <1>4, PartialMade
<1>8. /\ q \in Call /\ q.op = req[r].op /\ q.pc \in {"check", "flip", "done"} /\ Fits(q)
      /\ q.pc # "done" => q.svc = s /\ q.alone = req[r].alone
  <2>1. CASE there = {}
    BY <1>2, <2>1, DoneIs
  <2>2. CASE there # {}
    <3> HIDE DEF there, snap, upd
    <3>1. q = next
      BY <2>2
    <3>2. next \in Call
      <4>1. (IF req[r].on THEN "check" ELSE "flip") \in PortSteps
        BY DEF PortSteps, Switching
      <4> QED BY <1>2, <1>4, <1>5, <1>7, <4>1 DEF Call
    <3>3. /\ next.op = req[r].op /\ next.pc = IF req[r].on THEN "check" ELSE "flip"
          /\ next.svc = s /\ next.alone = req[r].alone /\ next.targets = there /\ next.snap = snap /\ next.upd = upd
          /\ next.on = req[r].on
      BY <1>2 DEF Call
    <3>4. DOMAIN snap = there /\ DOMAIN upd = there /\ \A k \in there : req[r].on => upd[k].pport # NULL
      BY <1>6 DEF snap, upd
    <3>5. Fits(next)
      <4> HIDE DEF next
      <4> QED BY <1>0, <1>2, <1>4, <3>3, <3>4 DEF Fits, Switching, Deploying, WithSnap, WithAlloc, Remaking, WithLinesOf
    <3> HIDE DEF next
    <3> QED BY <3>1, <3>2, <3>3, <3>5
  <2> QED BY <2>1, <2>2
<1>9. \A k \in s : SteadyAt(q, k, rows[k], cont[k]) \/ q.pc = "done"
  <2> HIDE DEF q
  <2> QED BY <1>8 DEF SteadyAt, WithAlloc, Remaking
<1> HIDE DEF q
<1> QED BY <1>0, <1>1, <1>2, <1>3, <1>8, <1>9, ThinkKeeps

LEMMA CheckConflictKeeps ==
  ASSUME PortsInv, NEW r \in Calls, CheckConflict(r)
  PROVE  \E x \in Stacks : Keeps(r, x)
<1> DEFINE s == req[r].svc
           next == [req[r] EXCEPT !.pc = "flip"]
           q == IF Conflict(r) THEN Done(r) ELSE next
<1>0. req[r].pc = "check" /\ UNCHANGED <<rows, cont, yaml, status, foreign, settled, events>>
  BY DEF CheckConflict
<1>1. Active(r)
  BY <1>0 DEF Active
<1>2. req \in [Calls -> Call] /\ req[r] \in Call /\ s \in Stacks /\ Fits(req[r])
  BY <1>1, CallerFacts
<1>3. req' = [req EXCEPT ![r] = q]
  BY <1>2 DEF CheckConflict, End, CallGoto
<1>4. next \in Call
  BY <1>2 DEF Call, PortSteps, Switching
<1>5. /\ next.op = req[r].op /\ next.pc = "flip" /\ next.svc = s /\ next.alone = req[r].alone
      /\ next.targets = req[r].targets /\ next.snap = req[r].snap /\ next.upd = req[r].upd /\ next.on = req[r].on
  BY <1>2 DEF Call
<1> HIDE DEF next
<1>6. Fits(next)
  BY <1>0, <1>2, <1>5 DEF Fits, Switching, Deploying, WithSnap, WithAlloc, Remaking, WithLinesOf
<1>7. \A k \in s : SteadyAt(next, k, rows[k], cont[k])
  BY <1>5 DEF SteadyAt, WithAlloc, Remaking
<1>8. /\ q \in Call /\ q.op = req[r].op /\ q.pc \in {"flip", "done"} /\ Fits(q)
      /\ q.pc # "done" => q.svc = s /\ q.alone = req[r].alone /\ \A k \in s : SteadyAt(q, k, rows[k], cont[k])
  BY <1>2, <1>4, <1>5, <1>6, <1>7, DoneIs
<1> HIDE DEF q
<1> QED BY <1>0, <1>1, <1>2, <1>3, <1>8, ThinkKeeps

LEMMA FlipKeeps ==
  ASSUME PortsInv, NEW r \in Calls, Flip(r)
  PROVE  \E x \in Stacks : Keeps(r, x)
<1> DEFINE s == req[r].svc
           q == [req[r] EXCEPT !.pc = "read", !.upd = <<>>]
<1>0. req[r].pc = "flip" /\ UNCHANGED <<cont, yaml, status, foreign, settled, events>>
  BY DEF Flip
<1>1. Active(r)
  BY <1>0 DEF Active
<1>2. req \in [Calls -> Call] /\ req[r] \in Call /\ s \in Stacks /\ Fits(req[r])
  BY <1>1, CallerFacts
<1>3. req' = [req EXCEPT ![r] = q]
  BY <1>2 DEF Flip
<1>4. /\ q \in Call
  BY <1>2, EmptyPartial DEF Call, PortSteps, Switching
<1>5. /\ q.op = req[r].op /\ q.pc = "read" /\ q.svc = s /\ q.alone = req[r].alone /\ q.snap = req[r].snap
  BY <1>2 DEF Call
<1>6. /\ req[r].targets \subseteq s /\ DOMAIN req[r].snap = req[r].targets /\ DOMAIN req[r].upd = req[r].targets
      /\ req[r].on => \A k \in req[r].targets : req[r].upd[k].pport # NULL
      /\ req[r].op = "toggle"
  BY <1>0, <1>2 DEF Fits, Switching
<1>7. \A k \in req[r].targets : req[r].upd[k].pport \in PortNumbers \cup {NULL}
  <2>1. req[r].upd \in Partial(Flags)
    BY <1>2, CallFacts
  <2>2. \A k \in DOMAIN req[r].upd : req[r].upd[k] \in Flags
    BY <2>1, PartialIs
  <2> QED BY <2>2, <1>6 DEF Flags
<1>8. Fits(q)
  <2> HIDE DEF q
  <2> QED BY <1>2, <1>5, <1>6 DEF Fits, Switching, Deploying, WithSnap, WithAlloc, Remaking, WithLinesOf
<1>9. ASSUME NEW k \in Containers
      PROVE  /\ rows'[k] \in RowValue \cup {NULL} /\ (k \notin s => rows'[k] = rows[k])
             /\ rows'[k] # NULL => rows[k] # NULL /\ rows'[k].host = rows[k].host
  <2>1. CASE k \notin req[r].targets \/ rows[k] = NULL
    BY <2>1, TablesAre DEF Flip
  <2>2. CASE k \in req[r].targets /\ rows[k] # NULL /\ req[r].on
    <3>1. rows'[k] = [rows[k] EXCEPT !.pub = TRUE, !.pport = req[r].upd[k].pport] /\ rows[k] \in RowValue
      BY <2>2, TablesAre DEF Flip
    <3> QED BY <2>2, <3>1, <1>6, <1>7 DEF RowValue, PortRow, Telling
  <2>3. CASE k \in req[r].targets /\ rows[k] # NULL /\ ~req[r].on
    <3>1. rows'[k] = [rows[k] EXCEPT !.pub = FALSE] /\ rows[k] \in RowValue
      BY <2>3, TablesAre DEF Flip
    <3> QED BY <2>3, <3>1, <1>6 DEF RowValue, PortRow, Telling
  <2> QED BY <2>1, <2>2, <2>3
<1>10. rows' \in [Containers -> RowValue \cup {NULL}]
  BY <1>9 DEF Flip
<1>11. rows' \in TablesOf(s) /\ HostsKept(s)
  <2>1. s \in SUBSET Containers
    BY <1>2, StackFacts
  <2> QED BY <1>2, <1>9, <1>10, <2>1, HostsStay DEF HostsKept
<1>12. \A k \in s : SteadyAt(q, k, rows'[k], cont[k])
  <2> HIDE DEF q
  <2> QED BY <1>5 DEF SteadyAt, WithAlloc, Remaking
<1> HIDE DEF q
<1> QED BY <1>0, <1>1, <1>2, <1>3, <1>4, <1>5, <1>8, <1>11, <1>12, Unmoved, CalmKeeps

-----------------------------------------------------------------------------
(* Ports: the re-creation.                                                   *)

LEMMA ReadRowsKeeps ==
  ASSUME PortsInv, NEW r \in Calls, ReadRows(r)
  PROVE  \E x \in Stacks : Keeps(r, x)
<1> DEFINE s == req[r].svc
           alloc == [k \in RowsOf(s) |-> rows[k]]
           pc == IF public_port_collision(alloc) THEN "rollback" ELSE "list"
           q == [req[r] EXCEPT !.pc = pc, !.alloc = alloc]
<1>0. req[r].pc = "read" /\ UNCHANGED <<rows, cont, yaml, status, foreign, settled, events>>
  BY DEF ReadRows
<1>1. Active(r)
  BY <1>0 DEF Active
<1>2. req \in [Calls -> Call] /\ req[r] \in Call /\ s \in Stacks /\ Fits(req[r])
  BY <1>1, CallerFacts
<1>3. req' = [req EXCEPT ![r] = q]
  BY <1>2 DEF ReadRows
<1>4. alloc \in Partial(RowValue) /\ DOMAIN alloc \subseteq s /\ RowsOf(s) \in SUBSET Containers
  <2>1. RowsOf(s) \in SUBSET Containers /\ RowsOf(s) \subseteq s /\ \A k \in RowsOf(s) : rows[k] # NULL
    BY <1>2, StackFacts DEF RowsOf
  <2>2. rows \in [Containers -> RowValue \cup {NULL}]
    BY TablesAre
  <2> QED BY <2>1, <2>2, RowsPartial
<1>5. \A k \in s : (k \in DOMAIN alloc <=> rows[k] # NULL) /\ (rows[k] # NULL => alloc[k] = rows[k])
  BY DEF RowsOf
<1>6. pc \in {"rollback", "list"}
  OBVIOUS
<1> HIDE DEF alloc, pc
<1>7. q \in Call
  BY <1>2, <1>4, <1>6 DEF Call, PortSteps, Switching
<1>8. q.op = req[r].op /\ q.pc = pc /\ q.svc = s /\ q.alone = req[r].alone /\ q.snap = req[r].snap /\ q.alloc = alloc
  BY <1>2 DEF Call
<1> HIDE DEF q
<1>9. Fits(q)
  BY <1>0, <1>2, <1>4, <1>6, <1>8 DEF Fits, Switching, Deploying, WithSnap, WithAlloc, Remaking, WithLinesOf
<1>10. \A k \in s : SteadyAt(q, k, rows[k], cont[k])
  BY <1>5, <1>6, <1>8 DEF SteadyAt, WithAlloc, Remaking
<1> QED BY <1>0, <1>1, <1>2, <1>3, <1>6, <1>7, <1>8, <1>9, <1>10, ThinkKeeps

\* What containers publish are ports of the host.
LEMMA PublishedPorts ==
  ASSUME PortsInv
  PROVE  /\ \A binds \in SUBSET Binding : PortsOf(binds) \in SUBSET PortNumbers
         /\ \A k \in Containers : cont[k] # NULL =>
              /\ cont[k].binds \in SUBSET Binding /\ cont[k].vol \in Calls \cup {EARLIER}
              /\ PortsOf(cont[k].binds) \in SUBSET PortNumbers
<1>1. \A binds \in SUBSET Binding : PortsOf(binds) \in SUBSET PortNumbers
  BY DEF PortsOf, Binding
<1>2. \A k \in Containers : cont[k] # NULL => cont[k] \in Container
  BY TablesAre
<1>3. \A k \in Containers : cont[k] # NULL => cont[k].binds \in SUBSET Binding /\ cont[k].vol \in Calls \cup {EARLIER}
  BY <1>2 DEF Container
<1> QED BY <1>1, <1>3

LEMMA ListContainersKeeps ==
  ASSUME PortsInv, NEW r \in Calls, ListContainers(r)
  PROVE  \E x \in Stacks : Keeps(r, x)
<1> DEFINE s == req[r].svc
           found == {k \in s : cont[k] # NULL}
           private == {req[r].alloc[k].pport : k \in {j \in DOMAIN req[r].alloc : ~req[r].alloc[j].pub}} \ {NULL}
           pc == IF found = {} THEN "verify" ELSE "inspect"
           own == UNION {PortsOf(cont[k].binds) : k \in {j \in found : cont[j].running}}
           was == IF found = {} THEN private ELSE {}
           q == [req[r] EXCEPT !.pc = pc, !.left = found, !.own = own, !.was = was]
<1>0. req[r].pc = "list" /\ UNCHANGED <<rows, cont, yaml, status, foreign, settled, events>>
  BY DEF ListContainers
<1>1. Active(r)
  BY <1>0 DEF Active
<1>2. req \in [Calls -> Call] /\ req[r] \in Call /\ s \in Stacks /\ Fits(req[r])
  BY <1>1, CallerFacts
<1>3. req' = [req EXCEPT ![r] = q]
  BY <1>2 DEF ListContainers
<1>4. found \subseteq s /\ found \in SUBSET Containers
  BY <1>2, StackFacts
<1>5. own \in SUBSET PortNumbers
  <2>1. \A k \in found : PortsOf(cont[k].binds) \in SUBSET PortNumbers
    BY <1>4, PublishedPorts
  <2> QED BY <2>1
<1>6. was \in SUBSET PortNumbers
  <2>1. req[r].alloc \in Partial(RowValue)
    BY <1>2, CallFacts
  <2>2. \A k \in DOMAIN req[r].alloc : req[r].alloc[k].pport \in PortNumbers \cup {NULL}
    BY <2>1, PartialIs, RowFacts
  <2> QED BY <2>2
<1>7. pc \in {"verify", "inspect"} /\ (pc = "verify" => found = {}) /\ \A k \in s : k \notin found => cont[k] = NULL
  OBVIOUS
<1> HIDE DEF found, pc, own, was
<1>8. q \in Call
  BY <1>2, <1>4, <1>5, <1>6, <1>7 DEF Call, PortSteps, Switching
<1>9. /\ q.op = req[r].op /\ q.pc = pc /\ q.svc = s /\ q.alone = req[r].alone
      /\ q.snap = req[r].snap /\ q.alloc = req[r].alloc /\ q.left = found
  BY <1>2 DEF Call
<1> HIDE DEF q
<1>10. Fits(q)
  BY <1>0, <1>2, <1>4, <1>7, <1>9 DEF Fits, Switching, Deploying, WithSnap, WithAlloc, Remaking, WithLinesOf
<1>11. ASSUME q.alone, NEW k \in s
       PROVE  SteadyAt(q, k, rows[k], cont[k])
  <2>1. SteadyAt(req[r], k, rows[k], cont[k])
    BY <1>1, <1>9, <1>11 DEF PortsInv, SteadyOK, Steady
  <2> QED BY <2>1, <1>0, <1>7, <1>9 DEF SteadyAt, WithAlloc, Remaking, Obeys
<1> QED BY <1>0, <1>1, <1>2, <1>3, <1>7, <1>8, <1>9, <1>10, <1>11, ThinkKeeps

\* The bindings built for a container are what the row says.
LEMMA BuiltBindings ==
  ASSUME PortsInv, NEW s \in Stacks, NEW k \in s, NEW alloc \in Partial(RowValue), DOMAIN alloc \subseteq s
  PROVE  LET new == build_port_bindings(alloc, allocations_for_this_container(alloc, k)) IN
         /\ new \in SUBSET Binding /\ OneEach(new)
         /\ Seat(k, rows[k]) /\ (\A j \in s : (j \in DOMAIN alloc <=> rows[j] # NULL) /\ (rows[j] # NULL => alloc[j] = rows[j]))
              => new = Said(k, rows[k])
<1> DEFINE ks == allocations_for_this_container(alloc, k)
           new == build_port_bindings(alloc, ks)
<1>0. s \in SUBSET Containers /\ StackOf(k) = s
  BY StackFacts
<1>1. ks \subseteq DOMAIN alloc
  BY DEF allocations_for_this_container
<1>2. \A j \in DOMAIN alloc : alloc[j] \in RowValue
  BY PartialIs
<1>3. new \in SUBSET Binding
  <2> SUFFICES ASSUME NEW j \in ks, alloc[j].pub => alloc[j].pport # NULL
               PROVE  [of |-> j, any |-> alloc[j].pub, port |-> IF alloc[j].pub THEN alloc[j].pport ELSE alloc[j].host] \in Binding
    BY DEF build_port_bindings
  <2>1. /\ alloc[j].host \in PortNumbers /\ alloc[j].pub \in BOOLEAN /\ alloc[j].pport \in PortNumbers \cup {NULL}
        /\ j \in Containers
    BY <1>0, <1>1, <1>2, RowFacts
  <2> QED BY <2>1 DEF Binding
<1>4. OneEach(new)
  BY DEF build_port_bindings, OneEach
<1>5. ASSUME Seat(k, rows[k]), \A j \in s : (j \in DOMAIN alloc <=> rows[j] # NULL) /\ (rows[j] # NULL => alloc[j] = rows[j])
      PROVE  new = Said(k, rows[k])
  <2>1. k \in DOMAIN alloc /\ alloc[k] = rows[k]
    BY <1>5 DEF Seat
  <2>2. ks = {k}
    <3>1. CASE rows[k].tagged
      BY <2>1, <3>1 DEF allocations_for_this_container
    <3>2. CASE ~rows[k].tagged
      <4>1. Single(s)
        BY <3>2, <1>0, <1>5 DEF Seat
      <4>2. s = {k}
        BY <4>1, SingleFacts
      <4> QED BY <2>1, <3>2, <4>2 DEF allocations_for_this_container
    <3> QED BY <3>1, <3>2
  <2>3. alloc[k].pub => alloc[k].pport # NULL
    BY <2>1, <1>2, RowFacts
  <2> HIDE DEF ks
  <2>4. new = {[of |-> k, any |-> alloc[k].pub, port |-> IF alloc[k].pub THEN alloc[k].pport ELSE alloc[k].host]}
    BY <2>2, <2>3 DEF build_port_bindings
  <2> QED BY <2>1, <2>4 DEF Said, PortSaid
<1> QED BY <1>3, <1>4, <1>5

LEMMA InspectKeeps ==
  ASSUME PortsInv, NEW r \in Calls, Inspect(r)
  PROVE  \E x \in Stacks : Keeps(r, x)
<1> DEFINE s == req[r].svc
<1>0. req[r].pc = "inspect" /\ UNCHANGED <<rows, cont, yaml, status, foreign, settled, events>>
  BY DEF Inspect
<1>1. Active(r)
  BY <1>0 DEF Active
<1>2. req \in [Calls -> Call] /\ req[r] \in Call /\ s \in Stacks /\ Fits(req[r])
  BY <1>1, CallerFacts
<1> DEFINE new(k) == build_port_bindings(req[r].alloc, allocations_for_this_container(req[r].alloc, k))
           to(k) == [req[r] EXCEPT !.pc = "remove", !.cur = k, !.left = req[r].left \ {k}, !.vol = cont[k].vol,
                       !.was = req[r].was \cup PortsOf(cont[k].binds), !.now = req[r].now \cup PortsOf(new(k)),
                       !.binds = new(k)]
           back == [req[r] EXCEPT !.pc = "rollback"]
<1>3. PICK k \in req[r].left : req' = [req EXCEPT ![r] = IF cont[k] = NULL \/ ~Preflight(r, k) THEN back ELSE to(k)]
  BY DEF Inspect
<1> DEFINE go == to(k)
<1>4. /\ req[r].left \subseteq s /\ DOMAIN req[r].alloc \subseteq s /\ DOMAIN req[r].snap \subseteq s
      /\ req[r].op = "toggle" /\ k \in s /\ k \in Containers /\ req[r].alloc \in Partial(RowValue)
  BY <1>0, <1>2, StackFacts, CallFacts DEF Fits, Switching, WithSnap, WithAlloc, Remaking
<1>5. CASE cont[k] = NULL \/ ~Preflight(r, k)
  <2>1. req' = [req EXCEPT ![r] = back]
    BY <1>3, <1>5
  <2>2. back \in Call
    BY <1>2 DEF Call, PortSteps, Switching
  <2>3. back.op = req[r].op /\ back.pc = "rollback" /\ back.svc = s /\ back.alone = req[r].alone /\ back.snap = req[r].snap
    BY <1>2 DEF Call
  <2> HIDE DEF back
  <2>4. Fits(back) /\ \A j \in s : SteadyAt(back, j, rows[j], cont[j])
    BY <1>2, <1>4, <2>3 DEF Fits, SteadyAt, Switching, Deploying, WithSnap, WithAlloc, Remaking, WithLinesOf
  <2> QED BY <1>0, <1>1, <1>2, <2>1, <2>2, <2>3, <2>4, ThinkKeeps
<1>6. CASE ~(cont[k] = NULL \/ ~Preflight(r, k))
  <2>1. req' = [req EXCEPT ![r] = go]
    BY <1>3, <1>6
  <2>2. /\ new(k) \in SUBSET Binding /\ OneEach(new(k))
        /\ Seat(k, rows[k])
           /\ (\A j \in s : /\ j \in DOMAIN req[r].alloc <=> rows[j] # NULL
                            /\ rows[j] # NULL => req[r].alloc[j] = rows[j])
              => new(k) = Said(k, rows[k])
    BY <1>2, <1>4, BuiltBindings
  <2>3. /\ PortsOf(new(k)) \in SUBSET PortNumbers /\ PortsOf(cont[k].binds) \in SUBSET PortNumbers
        /\ cont[k].vol \in Calls \cup {EARLIER}
    BY <2>2, <1>4, <1>6, PublishedPorts
  <2> HIDE DEF new
  <2>4. go \in Call
    BY <1>2, <1>4, <2>2, <2>3 DEF Call, PortSteps, Switching
  <2>5. /\ go.op = req[r].op /\ go.pc = "remove" /\ go.svc = s /\ go.alone = req[r].alone
        /\ go.snap = req[r].snap /\ go.alloc = req[r].alloc /\ go.left = req[r].left \ {k} /\ go.cur = k
        /\ go.vol = cont[k].vol /\ go.binds = new(k)
    BY <1>2 DEF Call
  <2> HIDE DEF go
  <2>6. Fits(go)
    BY <1>2, <1>4, <2>2, <2>3, <2>5 DEF Fits, Switching, Deploying, WithSnap, WithAlloc, Remaking, WithLinesOf
  <2>7. ASSUME go.alone, NEW j \in s
        PROVE  SteadyAt(go, j, rows[j], cont[j])
    <3>1. \A i \in s : SteadyAt(req[r], i, rows[i], cont[i])
      BY <1>1, <2>5, <2>7 DEF PortsInv, SteadyOK, Steady
    <3>2. \A i \in s : /\ i \in DOMAIN req[r].alloc <=> rows[i] # NULL
                       /\ rows[i] # NULL => req[r].alloc[i] = rows[i]
                       /\ i \notin req[r].left => Obeys(i, rows[i], cont[i])
      BY <3>1, <1>0 DEF SteadyAt, WithAlloc, Remaking
    <3>3. Seat(k, rows[k]) => new(k) = Said(k, rows[k])
      BY <2>2, <3>2
    <3> QED BY <2>5, <3>2, <3>3 DEF SteadyAt, WithAlloc, Remaking
  <2>8. Volume(go.vol)
    BY <1>4, <1>6, <2>5 DEF PortsInv, VolumesOK
  <2> QED BY <1>0, <1>1, <1>2, <2>1, <2>4, <2>5, <2>6, <2>7, <2>8, ThinkKeeps
<1> QED BY <1>5, <1>6

LEMMA VerifyKeeps ==
  ASSUME PortsInv, NEW r \in Calls, Verify(r)
  PROVE  \E x \in Stacks : Keeps(r, x)
<1> DEFINE s == req[r].svc
           pc == IF verify_ports_released(r) THEN "stored" ELSE "rollback"
           snap == IF verify_ports_released(r) THEN <<>> ELSE req[r].snap
           q == [req[r] EXCEPT !.pc = pc, !.snap = snap, !.ui = NULL, !.alloc = <<>>, !.own = {}, !.was = {}, !.now = {}]
<1>0. req[r].pc = "verify" /\ UNCHANGED <<rows, cont, yaml, status, foreign, settled, events>>
  BY DEF Verify
<1>1. Active(r)
  BY <1>0 DEF Active
<1>2. req \in [Calls -> Call] /\ req[r] \in Call /\ s \in Stacks /\ Fits(req[r])
  BY <1>1, CallerFacts
<1>3. req' = [req EXCEPT ![r] = q]
  BY <1>2 DEF Verify
<1>4. snap \in Partial(RowValue) /\ (pc = "rollback" => snap = req[r].snap) /\ pc \in {"stored", "rollback"}
  BY <1>2, CallFacts, EmptyPartial
<1>5. DOMAIN req[r].snap \subseteq s /\ req[r].left = {} /\ req[r].op = "toggle"
  BY <1>0, <1>2 DEF Fits, WithSnap, Switching
<1> HIDE DEF pc, snap
<1>6. q \in Call
  BY <1>2, <1>4, EmptyPartial DEF Call, PortSteps, Switching
<1>7. /\ q.op = req[r].op /\ q.pc = pc /\ q.svc = s /\ q.alone = req[r].alone /\ q.snap = snap /\ q.left = req[r].left
  BY <1>2 DEF Call
<1> HIDE DEF q
<1>8. Fits(q)
  BY <1>2, <1>4, <1>5, <1>7 DEF Fits, Switching, Deploying, WithSnap, WithAlloc, Remaking, WithLinesOf
<1>9. ASSUME q.alone, NEW k \in s
      PROVE  SteadyAt(q, k, rows[k], cont[k])
  <2>1. SteadyAt(req[r], k, rows[k], cont[k])
    BY <1>1, <1>7, <1>9 DEF PortsInv, SteadyOK, Steady
  <2> QED BY <2>1, <1>0, <1>4, <1>5, <1>7 DEF SteadyAt, WithAlloc, Remaking
<1> QED BY <1>0, <1>1, <1>2, <1>3, <1>4, <1>6, <1>7, <1>8, <1>9, ThinkKeeps

LEMMA StopRemoveKeeps ==
  ASSUME PortsInv, NEW r \in Calls, StopRemove(r)
  PROVE  \E x \in Stacks : Keeps(r, x)
<1> DEFINE s == req[r].svc
           k == req[r].cur
           to(pc) == [req[r] EXCEPT !.pc = pc]
<1>0. req[r].pc = "remove" /\ UNCHANGED <<rows, yaml, status, settled>>
  BY DEF StopRemove
<1>1. Active(r)
  BY <1>0 DEF Active
<1>2. req \in [Calls -> Call] /\ req[r] \in Call /\ s \in Stacks /\ Fits(req[r])
  BY <1>1, CallerFacts
<1>3. PICK pc \in {"rollback", "create"} :
        /\ req' = [req EXCEPT ![r] = to(pc)]
        /\ pc = "rollback" => cont' = cont
        /\ pc = "create" => cont' = [cont EXCEPT ![k] = NULL]
  BY <1>2 DEF StopRemove, CallGoto
<1>4. /\ k \in s /\ k \in Containers /\ OneEach(req[r].binds) /\ req[r].vol \in Calls \cup {EARLIER}
      /\ DOMAIN req[r].snap \subseteq s /\ DOMAIN req[r].alloc \subseteq s /\ req[r].left \subseteq s /\ req[r].op = "toggle"
  BY <1>0, <1>2, StackFacts DEF Fits, Switching, WithSnap, WithAlloc, Remaking
<1>5. foreign' \subseteq PortNumbers /\ events' \in 0 .. MaxEvents
  <2>1. \A p \in PortsOf(cont[k].binds) : cont[k] # NULL => p \in PortNumbers
    BY <1>4, PublishedPorts
  <2>2. foreign' = foreign \/ \E p \in PortsOf(cont[k].binds) : cont[k] # NULL /\ foreign' = foreign \cup {p}
    BY DEF StopRemove
  <2>3. Fault \/ Fine
    BY DEF StopRemove
  <2>4. events' \in 0 .. MaxEvents
    BY <2>3, TablesAre, PortsConstants DEF Fault, Fine
  <2> QED BY <2>1, <2>2, <2>4, TablesAre
<1>6. \A j \in Containers : cont'[j] = cont[j] \/ (j = k /\ pc = "create" /\ cont'[j] = NULL)
  BY <1>3, TablesAre
<1>7. cont' \in [Containers -> Container \cup {NULL}]
  BY <1>3, TablesAre
<1>8. to(pc) \in Call
  BY <1>2 DEF Call, PortSteps, Switching
<1> DEFINE q == to(pc)
<1>9. /\ q.op = req[r].op /\ q.pc = pc /\ q.svc = s /\ q.alone = req[r].alone /\ q.vol = req[r].vol
      /\ q.snap = req[r].snap /\ q.alloc = req[r].alloc /\ q.left = req[r].left /\ q.cur = k /\ q.binds = req[r].binds
  BY <1>2 DEF Call
<1> HIDE DEF to
<1>10. Fits(q)
  <2> HIDE DEF q
  <2> QED BY <1>2, <1>4, <1>9 DEF Fits, Switching, Deploying, WithSnap, WithAlloc, Remaking, WithLinesOf
<1>11. ASSUME q.alone, NEW j \in s
       PROVE  SteadyAt(q, j, rows[j], cont'[j])
  <2>1. SteadyAt(req[r], j, rows[j], cont[j])
    BY <1>1, <1>9, <1>11 DEF PortsInv, SteadyOK, Steady
  <2>2. cont'[j] = cont[j] \/ (j = k /\ pc = "create")
    BY <1>2, <1>6, StackFacts
  <2> HIDE DEF q
  <2> QED BY <2>1, <2>2, <1>0, <1>9 DEF SteadyAt, WithAlloc, Remaking
<1>12. Volume(q.vol)
  BY <1>0, <1>9 DEF PortsInv, VolumesOK
<1>13. /\ \A j \in Containers \ s : cont'[j] = cont[j]
       /\ \A j \in s : Twice(j, cont'[j]) => cont'[j] = cont[j]
       /\ \A j \in s : cont'[j] # NULL => cont'[j] = cont[j]
  BY <1>2, <1>4, <1>6, StackFacts DEF Twice
<1> HIDE DEF q
<1>14. req' = [req EXCEPT ![r] = q]
  BY <1>3 DEF q
<1>15. q.pc # "new" /\ q.pc \notin {"extract", "image"} /\ q \in Call
  BY <1>8, <1>9 DEF q
<1> QED BY <1>0, <1>1, <1>2, <1>5, <1>7, <1>9, <1>10, <1>11, <1>12, <1>13, <1>14, <1>15, Unmoved, DockerKeeps

LEMMA CreateStartKeeps ==
  ASSUME PortsInv, NEW r \in Calls, CreateStart(r)
  PROVE  \E x \in Stacks : Keeps(r, x)
<1> DEFINE s == req[r].svc
           k == req[r].cur
           made(up) == [cont EXCEPT ![k] = [binds |-> req[r].binds, vol |-> preserve_volume_mounts(r), running |-> up]]
           next == [req[r] EXCEPT !.pc = IF req[r].left = {} THEN "verify" ELSE "inspect", !.cur = NULL, !.vol = NULL, !.binds = {}]
           fails == [req[r] EXCEPT !.pc = "rollback"]
<1>0. req[r].pc = "create" /\ UNCHANGED <<rows, yaml, status, foreign, settled>>
  BY DEF CreateStart
<1>1. Active(r)
  BY <1>0 DEF Active
<1>2. req \in [Calls -> Call] /\ req[r] \in Call /\ s \in Stacks /\ Fits(req[r])
  BY <1>1, CallerFacts
<1>3. /\ Fine \/ Fault
      /\ \/ req' = [req EXCEPT ![r] = fails] /\ cont' \in {cont, made(FALSE)}
         \/ req' = [req EXCEPT ![r] = next] /\ cont' = made(TRUE)
  BY DEF CreateStart
<1>4. /\ k \in s /\ k \in Containers /\ OneEach(req[r].binds) /\ req[r].vol \in Calls \cup {EARLIER}
      /\ DOMAIN req[r].snap \subseteq s /\ DOMAIN req[r].alloc \subseteq s /\ req[r].left \subseteq s /\ req[r].op = "toggle"
  BY <1>0, <1>2, StackFacts DEF Fits, Switching, WithSnap, WithAlloc, Remaking
<1>5. foreign' \subseteq PortNumbers /\ events' \in 0 .. MaxEvents
  BY <1>0, <1>3, TablesAre, PortsConstants DEF Fault, Fine
<1> DEFINE box(up) == [binds |-> req[r].binds, vol |-> req[r].vol, running |-> up]
<1>6. /\ \A up \in BOOLEAN : box(up) \in Container /\ ~Twice(k, box(up))
      /\ \A up \in BOOLEAN : box(up).vol = req[r].vol /\ box(up).binds = req[r].binds /\ box(up).running = up
  <2>1. req[r].binds \in SUBSET Binding
    BY <1>2, CallFacts
  <2> QED BY <1>4, <2>1 DEF Container, Twice, OneEach
<1>7. \A up \in BOOLEAN : made(up) = [cont EXCEPT ![k] = box(up)]
  BY DEF preserve_volume_mounts
<1> HIDE DEF made, box
<1>8. PICK up \in BOOLEAN : cont' = cont \/ cont' = [cont EXCEPT ![k] = box(up)]
  BY <1>3, <1>7
<1>9. cont' \in [Containers -> Container \cup {NULL}] /\ \A j \in Containers : cont'[j] = cont[j] \/ (j = k /\ cont'[j] = box(up))
  BY <1>6, <1>8, TablesAre
<1>10. /\ \A j \in Containers \ s : cont'[j] = cont[j]
       /\ \A j \in s : Twice(j, cont'[j]) => cont'[j] = cont[j]
       /\ \A j \in s : cont'[j] # NULL /\ cont'[j] # cont[j] => cont'[j].vol = req[r].vol
  BY <1>2, <1>4, <1>6, <1>9, StackFacts
<1>11. Volume(req[r].vol)
  BY <1>0 DEF PortsInv, VolumesOK
<1>12. CASE req' = [req EXCEPT ![r] = fails]
  <2>1. fails \in Call
    BY <1>2 DEF Call, PortSteps, Switching
  <2>2. fails.op = req[r].op /\ fails.pc = "rollback" /\ fails.svc = s /\ fails.alone = req[r].alone /\ fails.snap = req[r].snap
    BY <1>2 DEF Call
  <2> HIDE DEF fails
  <2>3. Fits(fails) /\ \A j \in s : SteadyAt(fails, j, rows[j], cont'[j])
    BY <1>2, <1>4, <2>2 DEF Fits, SteadyAt, Switching, Deploying, WithSnap, WithAlloc, Remaking, WithLinesOf
  <2> QED BY <1>0, <1>1, <1>2, <1>5, <1>9, <1>10, <1>11, <1>12, <2>1, <2>2, <2>3, Unmoved, DockerKeeps
<1>13. CASE req' = [req EXCEPT ![r] = next] /\ cont' = made(TRUE)
  <2>1. next \in Call
    <3>1. (IF req[r].left = {} THEN "verify" ELSE "inspect") \in PortSteps
      BY DEF PortSteps, Switching
    <3> QED BY <1>2, <3>1, ZenonT(40) DEF Call
  <2>2. /\ next.op = req[r].op /\ next.svc = s /\ next.alone = req[r].alone
        /\ next.pc = IF req[r].left = {} THEN "verify" ELSE "inspect"
        /\ next.snap = req[r].snap /\ next.alloc = req[r].alloc /\ next.left = req[r].left
    BY <1>2 DEF Call
  <2> HIDE DEF next
  <2>3. Fits(next)
    BY <1>2, <1>4, <2>2 DEF Fits, Switching, Deploying, WithSnap, WithAlloc, Remaking, WithLinesOf
  <2>4. ASSUME next.alone, NEW j \in s
        PROVE  SteadyAt(next, j, rows[j], cont'[j])
    <3>1. SteadyAt(req[r], j, rows[j], cont[j])
      BY <1>1, <2>2, <2>4 DEF PortsInv, SteadyOK, Steady
    <3>2. cont' = [cont EXCEPT ![k] = box(TRUE)]
      BY <1>13, <1>7
    <3>3. j \in Containers
      BY <1>2, StackFacts
    <3>4. CASE j = k
      <4>1. cont'[j] = box(TRUE)
        BY <3>2, <3>3, <3>4, TablesAre
      <4>2. Obeys(j, rows[j], cont'[j])
        BY <4>1, <3>1, <3>4, <1>0, <1>6 DEF SteadyAt, Obeys
      <4> QED BY <3>1, <4>2, <1>0, <2>2 DEF SteadyAt, WithAlloc, Remaking
    <3>5. CASE j # k
      <4>1. cont'[j] = cont[j]
        BY <3>2, <3>3, <3>5, TablesAre
      <4> QED BY <3>1, <3>5, <4>1, <1>0, <2>2 DEF SteadyAt, WithAlloc, Remaking
    <3> QED BY <3>4, <3>5
  <2> QED BY <1>0, <1>1, <1>2, <1>5, <1>9, <1>10, <1>11, <1>13, <2>1, <2>2, <2>3, <2>4, Unmoved, DockerKeeps, ZenonT(40)
<1> QED BY <1>3, <1>12, <1>13

-----------------------------------------------------------------------------
(* Ports: after the re-creation.                                             *)

LEMMA ReadComposeKeeps ==
  ASSUME PortsInv, NEW r \in Calls, ReadCompose(r)
  PROVE  \E x \in Stacks : Keeps(r, x)
<1> DEFINE s == req[r].svc
           lines == [k \in s |-> yaml[k]]
           next == [req[r] EXCEPT !.pc = "render", !.targets = {}, !.on = FALSE, !.lines = lines]
<1>0. req[r].pc = "stored" /\ UNCHANGED <<rows, cont, yaml, status, foreign, settled, events>>
  BY DEF ReadCompose
<1>1. Active(r)
  BY <1>0 DEF Active
<1>2. req \in [Calls -> Call] /\ req[r] \in Call /\ s \in Stacks /\ Fits(req[r])
  BY <1>1, CallerFacts
<1>3. CASE \E k \in s : yaml[k] = NOFILE
  <2>1. req' = [req EXCEPT ![r] = Done(r)]
    BY <1>3 DEF ReadCompose, End
  <2> QED BY <1>0, <1>1, <1>2, <2>1, DoneIs, ThinkKeeps
<1>4. CASE ~\E k \in s : yaml[k] = NOFILE
  <2>1. req' = [req EXCEPT ![r] = next]
    BY <1>2, <1>4 DEF ReadCompose
  <2>2. lines \in Partial(Lines)
    <3>1. s \in SUBSET Containers
      BY <1>2, StackFacts
    <3>2. lines \in [s -> Lines]
      BY <3>1, <1>4, TablesAre DEF Lines
    <3> QED BY <3>1, <3>2, PartialMade
  <2>3. DOMAIN lines = s
    OBVIOUS
  <2> HIDE DEF lines
  <2>4. next \in Call
    BY <1>2, <2>2 DEF Call, PortSteps, Switching
  <2>5. /\ next.op = req[r].op /\ next.svc = s /\ next.alone = req[r].alone /\ next.pc = "render"
        /\ next.lines = lines /\ next.left = req[r].left
    BY <1>2 DEF Call
  <2> HIDE DEF next
  <2>6. Fits(next)
    BY <1>0, <1>2, <2>3, <2>5 DEF Fits, Switching, Deploying, WithSnap, WithAlloc, Remaking, WithLinesOf
  <2>7. ASSUME next.alone, NEW k \in s
        PROVE  SteadyAt(next, k, rows[k], cont[k])
    <3>1. SteadyAt(req[r], k, rows[k], cont[k])
      BY <1>1, <2>5, <2>7 DEF PortsInv, SteadyOK, Steady
    <3> QED BY <3>1, <1>0, <2>5 DEF SteadyAt, WithAlloc, Remaking
  <2> QED BY <1>0, <1>1, <1>2, <2>1, <2>4, <2>5, <2>6, <2>7, ThinkKeeps
<1> QED BY <1>3, <1>4

\* The lines written for rows say what the rows say.
LEMMA InjectedLines ==
  ASSUME NEW s \in Stacks, NEW lines, \A k \in s : lines[k] \in Lines,
         NEW from, DOMAIN from \subseteq s, \A k \in DOMAIN from : from[k] \in RowValue
  PROVE  /\ inject_ports_into_yaml(s, lines, from) \in [s -> Lines]
         /\ \A k \in DOMAIN from : from[k].tagged \/ Single(s)
              => inject_ports_into_yaml(s, lines, from)[k] = LineSaid(from[k])
<1>1. \A k \in DOMAIN from : /\ from[k].host \in PortNumbers /\ from[k].pub \in BOOLEAN
                             /\ from[k].pport \in PortNumbers \cup {NULL} /\ (from[k].pub => from[k].pport # NULL)
  BY RowFacts
<1>2. \A k \in s : inject_ports_into_yaml(s, lines, from)[k] =
        IF k \in DOMAIN from /\ (from[k].tagged \/ Single(s)) THEN LineSaid(from[k]) ELSE lines[k]
  BY <1>1 DEF inject_ports_into_yaml, LineSaid, PortSaid
<1>3. \A k \in DOMAIN from : LineSaid(from[k]) \in Lines
  BY <1>1 DEF LineSaid, PortSaid, Lines, Line
<1>4. inject_ports_into_yaml(s, lines, from) \in [s -> Lines]
  <2>1. \A k \in s : inject_ports_into_yaml(s, lines, from)[k] \in Lines
    BY <1>2, <1>3
  <2>2. inject_ports_into_yaml(s, lines, from) = [k \in s |-> inject_ports_into_yaml(s, lines, from)[k]]
    BY DEF inject_ports_into_yaml
  <2> QED BY <2>1, <2>2
<1> QED BY <1>2, <1>4

LEMMA RenderComposeKeeps ==
  ASSUME PortsInv, NEW r \in Calls, RenderCompose(r)
  PROVE  \E x \in Stacks : Keeps(r, x)
<1> DEFINE s == req[r].svc
           from == [k \in RowsOf(s) |-> rows[k]]
           lines == inject_ports_into_yaml(s, req[r].lines, from)
           q == [req[r] EXCEPT !.pc = "save", !.lines = lines]
<1>0. req[r].pc = "render" /\ UNCHANGED <<rows, cont, yaml, status, foreign, settled, events>>
  BY DEF RenderCompose
<1>1. Active(r)
  BY <1>0 DEF Active
<1>2. req \in [Calls -> Call] /\ req[r] \in Call /\ s \in Stacks /\ Fits(req[r])
  BY <1>1, CallerFacts
<1>3. req' = [req EXCEPT ![r] = q]
  BY <1>2 DEF RenderCompose
<1>4. s \in SUBSET Containers /\ \A k \in s : StackOf(k) = s
  BY <1>2, StackFacts
<1>5. /\ DOMAIN from = RowsOf(s) /\ RowsOf(s) \subseteq s /\ \A k \in RowsOf(s) : from[k] = rows[k] /\ rows[k] \in RowValue
  BY <1>4, TablesAre DEF RowsOf
<1>6. \A k \in s : req[r].lines[k] \in Lines
  <2>1. DOMAIN req[r].lines = s /\ req[r].lines \in Partial(Lines)
    BY <1>0, <1>2, CallFacts DEF Fits, WithLinesOf
  <2> QED BY <2>1, PartialIs
<1> HIDE DEF from
<1>7. /\ lines \in [s -> Lines]
      /\ \A k \in DOMAIN from : from[k].tagged \/ Single(s) => lines[k] = LineSaid(from[k])
  BY <1>2, <1>5, <1>6, InjectedLines
<1>8. lines \in Partial(Lines) /\ DOMAIN lines = s
  BY <1>4, <1>7, PartialMade
<1> HIDE DEF lines
<1>9. q \in Call
  BY <1>2, <1>8 DEF Call, PortSteps, Switching
<1>10. /\ q.op = req[r].op /\ q.svc = s /\ q.alone = req[r].alone /\ q.pc = "save" /\ q.lines = lines /\ q.left = req[r].left
  BY <1>2 DEF Call
<1> HIDE DEF q
<1>11. Fits(q)
  BY <1>0, <1>2, <1>8, <1>10 DEF Fits, Switching, Deploying, WithSnap, WithAlloc, Remaking, WithLinesOf
<1>12. ASSUME q.alone, NEW k \in s
       PROVE  SteadyAt(q, k, rows[k], cont[k])
  <2>1. SteadyAt(req[r], k, rows[k], cont[k])
    BY <1>1, <1>10, <1>12 DEF PortsInv, SteadyOK, Steady
  <2>2. Seat(k, rows[k]) => lines[k] = LineSaid(rows[k])
    BY <1>4, <1>5, <1>7 DEF Seat, RowsOf
  <2> QED BY <2>1, <2>2, <1>0, <1>10 DEF SteadyAt, WithAlloc, Remaking
<1> QED BY <1>0, <1>1, <1>2, <1>3, <1>9, <1>10, <1>11, <1>12, ThinkKeeps

LEMMA SaveComposeKeeps ==
  ASSUME PortsInv, NEW r \in Calls, SaveCompose(r)
  PROVE  \E x \in Stacks : Keeps(r, x)
<1> DEFINE s == req[r].svc
<1>0. req[r].pc = "save" /\ UNCHANGED <<rows, cont, status, foreign, events>>
  BY DEF SaveCompose
<1>1. Active(r)
  BY <1>0 DEF Active
<1>2. req \in [Calls -> Call] /\ req[r] \in Call /\ s \in Stacks /\ Fits(req[r])
  BY <1>1, CallerFacts
<1>3. req' = [req EXCEPT ![r] = Done(r)] /\ req'[r].pc = "done"
  BY <1>2, DoneIs DEF SaveCompose, End
<1>4. s \in SUBSET Containers /\ \A k \in s : StackOf(k) = s
  BY <1>2, StackFacts
<1>5. DOMAIN req[r].lines = s /\ req[r].left = {} /\ \A k \in s : req[r].lines[k] \in Lines
  <2>1. DOMAIN req[r].lines = s /\ req[r].lines \in Partial(Lines) /\ req[r].left = {}
    BY <1>0, <1>2, CallFacts DEF Fits, WithLinesOf
  <2> QED BY <2>1, PartialIs
<1>6. yaml' \in [Containers -> Line \cup {NULL, NOFILE}] /\ \A k \in Containers \ s : yaml'[k] = yaml[k]
  <2>1. CASE status[s] = "absent"
    BY <2>1, TablesAre DEF SaveCompose
  <2>2. CASE status[s] # "absent"
    BY <2>2, <1>5, TablesAre DEF SaveCompose, WithLines, Lines
  <2> QED BY <2>1, <2>2
<1>7. ASSUME req[r].alone, NEW k \in s
      PROVE  SettledAt("toggle", k, rows'[k], cont'[k], yaml'[k])
  <2>1. SteadyAt(req[r], k, rows[k], cont[k])
    BY <1>1, <1>7 DEF PortsInv, SteadyOK, Steady
  <2>2. Obeys(k, rows[k], cont[k]) /\ (Seat(k, rows[k]) => req[r].lines[k] = LineSaid(rows[k]))
    BY <2>1, <1>0, <1>5 DEF SteadyAt, Remaking
  <2>3. Seat(k, rows[k]) => yaml'[k] = LineSaid(rows[k])
    <3>1. Seat(k, rows[k]) => status[s] # "absent"
      BY <1>2 DEF PortsInv, AbsentOK, Seat
    <3>2. status[s] # "absent" => yaml'[k] = req[r].lines[k]
      BY <1>4 DEF SaveCompose, WithLines
    <3> QED BY <2>2, <3>1, <3>2
  <2>4. Seat(k, rows[k]) => {[of |-> k, any |-> yaml'[k].any, port |-> yaml'[k].port]} = Said(k, rows[k])
    BY <2>3 DEF LineSaid, Said
  <2> QED BY <2>2, <2>4, <1>0 DEF SettledAt
<1>8. settled' = settled \/ /\ settled' \in [Stacks -> Settlements] /\ AtRest(r, s)
                            /\ \A t \in Stacks \ {s} : settled'[t] = settled[t]
  <2>1. CASE ~req[r].alone
    BY <2>1, TablesAre DEF SaveCompose
  <2>2. CASE req[r].alone
    <3>1. settled' = [settled EXCEPT ![s] = "toggle"]
      BY <2>2 DEF SaveCompose
    <3>2. settled' \in [Stacks -> Settlements] /\ settled'[s] = "toggle" /\ \A t \in Stacks \ {s} : settled'[t] = settled[t]
      BY <3>1, <1>2, TablesAre DEF Settlements
    <3> QED BY <2>2, <3>2, <1>3, <1>7 DEF AtRest
  <2> QED BY <2>1, <2>2
<1> QED BY <1>0, <1>1, <1>2, <1>3, <1>6, <1>8, DoneIs, Unmoved, CalmKeeps

LEMMA RollbackKeeps ==
  ASSUME PortsInv, NEW r \in Calls, RollbackSwitch(r)
  PROVE  \E x \in Stacks : Keeps(r, x)
<1> DEFINE s == req[r].svc
           q == [NoCall EXCEPT !.op = "toggle", !.svc = s, !.pc = "ask", !.alone = req[r].alone]
<1>0. /\ req[r].pc = "rollback" /\ UNCHANGED <<cont, yaml, status, foreign, settled, events>>
      /\ rows' = WithFlags(rows, req[r].snap) /\ req' = [req EXCEPT ![r] = q]
  BY DEF RollbackSwitch
<1>1. Active(r)
  BY <1>0 DEF Active
<1>2. req \in [Calls -> Call] /\ req[r] \in Call /\ s \in Stacks /\ Fits(req[r])
  BY <1>1, CallerFacts
<1>3. DOMAIN req[r].snap \subseteq s /\ req[r].snap \in Partial(RowValue) /\ req[r].op = "toggle"
  BY <1>0, <1>2, CallFacts DEF Fits, WithSnap, Switching
<1>4. rows' \in TablesOf(s) /\ HostsKept(s)
  <2>1. /\ WithFlags(rows, req[r].snap) \in TablesOf(s)
        /\ \A k \in s : /\ WithFlags(rows, req[r].snap)[k] = NULL <=> rows[k] = NULL
                        /\ rows[k] # NULL => WithFlags(rows, req[r].snap)[k].host = rows[k].host
    BY <1>2, <1>3, FlagsKeep
  <2> QED BY <2>1, <1>0 DEF HostsKept
<1>5. q \in Call
  <2>1. s \in SUBSET Containers /\ req[r].alone \in BOOLEAN
    BY <1>2, CallFacts
  <2> QED BY <2>1, NoCallTyped DEF Call, PortSteps, Switching, PortOps
<1>6. q.op = "toggle" /\ q.pc = "ask" /\ q.svc = s /\ q.alone = req[r].alone
  BY DEF NoCall
<1> HIDE DEF q
<1>7. Fits(q) /\ \A k \in s : SteadyAt(q, k, rows'[k], cont[k])
  BY <1>2, <1>6 DEF Fits, SteadyAt, Switching, Deploying, WithSnap, WithAlloc, Remaking, WithLinesOf
<1> QED BY <1>0, <1>1, <1>2, <1>3, <1>4, <1>5, <1>6, <1>7, Unmoved, CalmKeeps

\* A status that is not "absent" is written to a service that is there.
LEMMA AskRunningKeeps ==
  ASSUME PortsInv, NEW r \in Calls, AskRunning(r)
  PROVE  \E x \in Stacks : Keeps(r, x)
<1> DEFINE s == req[r].svc
<1>0. req[r].pc = "ask" /\ UNCHANGED <<rows, cont, yaml, foreign, settled, events>> /\ req' = [req EXCEPT ![r] = Done(r)]
  BY DEF AskRunning, End
<1>1. Active(r)
  BY <1>0 DEF Active
<1>2. req \in [Calls -> Call] /\ req[r] \in Call /\ s \in Stacks /\ Fits(req[r])
  BY <1>1, CallerFacts
<1>3. status' \in [Stacks -> Statuses] /\ (status'[s] = "absent" => status[s] = "absent") /\ \A t \in Stacks \ {s} : status'[t] = status[t]
  BY <1>2, TablesAre DEF AskRunning, Statuses
<1>4. rows' \in TablesOf(s) /\ HostsKept(s)
  BY <1>0, <1>2, Unmoved
<1> QED BY <1>0, <1>1, <1>2, <1>3, <1>4, DoneIs, Unmoved, CalmKeeps

-----------------------------------------------------------------------------
(* Ports: the steps of a deploy.                                             *)

LEMMA FetchSourcesKeeps ==
  ASSUME PortsInv, NEW r \in Calls, FetchSources(r)
  PROVE  \E x \in Stacks : Keeps(r, x)
<1> DEFINE s == req[r].svc
           next == [req[r] EXCEPT !.pc = "compose"]
<1>0. req[r].pc = "sources" /\ UNCHANGED <<rows, cont, yaml, foreign, settled>>
  BY DEF FetchSources
<1>1. Active(r)
  BY <1>0 DEF Active
<1>2. req \in [Calls -> Call] /\ req[r] \in Call /\ s \in Stacks /\ Fits(req[r])
  BY <1>1, CallerFacts
<1>3. PICK q \in {next, Done(r)} : req' = [req EXCEPT ![r] = q]
  BY <1>2 DEF FetchSources, CallGoto, End
<1>4. /\ status' \in [Stacks -> Statuses] /\ (status'[s] = "absent" => status[s] = "absent")
      /\ \A t \in Stacks \ {s} : status'[t] = status[t]
  BY <1>2, TablesAre DEF FetchSources, Statuses
<1>5. events' \in 0 .. MaxEvents
  BY TablesAre, PortsConstants DEF FetchSources, Fault, Fine
<1>6. rows' \in TablesOf(s) /\ HostsKept(s)
  BY <1>0, <1>2, Unmoved
<1>7. next \in Call
  BY <1>2 DEF Call, PortSteps, Deploying
<1>8. /\ next.op = req[r].op /\ next.svc = s /\ next.alone = req[r].alone /\ next.pc = "compose" /\ next.lines = req[r].lines
  BY <1>2 DEF Call
<1> HIDE DEF next
<1>9. Fits(next)
  BY <1>0, <1>2, <1>8 DEF Fits, Switching, Deploying, WithSnap, WithAlloc, Remaking, WithLinesOf
<1>10. \A k \in s : SteadyAt(next, k, rows'[k], cont[k])
  BY <1>8 DEF SteadyAt, WithAlloc, Remaking
<1>11. /\ q \in Call /\ q.op = req[r].op /\ q.pc \in {"compose", "done"} /\ Fits(q)
       /\ q.pc # "done" => q.svc = s /\ q.alone = req[r].alone /\ \A k \in s : SteadyAt(q, k, rows'[k], cont[k])
  BY <1>2, <1>3, <1>7, <1>8, <1>9, <1>10, DoneIs
<1> QED BY <1>0, <1>1, <1>2, <1>3, <1>4, <1>5, <1>6, <1>11, Unmoved, CalmKeeps

LEMMA StoreComposeKeeps ==
  ASSUME PortsInv, NEW r \in Calls, StoreCompose(r)
  PROVE  \E x \in Stacks : Keeps(r, x)
<1> DEFINE s == req[r].svc
           q == [req[r] EXCEPT !.pc = "inject"]
<1>0. req[r].pc = "compose" /\ UNCHANGED <<rows, cont, status, foreign, settled, events>>
  BY DEF StoreCompose
<1>1. Active(r)
  BY <1>0 DEF Active
<1>2. req \in [Calls -> Call] /\ req[r] \in Call /\ s \in Stacks /\ Fits(req[r])
  BY <1>1, CallerFacts
<1>3. req' = [req EXCEPT ![r] = q]
  BY <1>2 DEF StoreCompose, CallGoto
<1>4. DOMAIN req[r].lines = s /\ (\A k \in s : req[r].lines[k] \in Lines) /\ req[r].op # "balance"
  <2>1. DOMAIN req[r].lines = s /\ req[r].lines \in Partial(Lines) /\ req[r].op # "balance"
    BY <1>0, <1>2, CallFacts DEF Fits, WithLinesOf
  <2> QED BY <2>1, PartialIs
<1>5. yaml' \in [Containers -> Line \cup {NULL, NOFILE}] /\ \A k \in Containers \ s : yaml'[k] = yaml[k]
  <2>1. CASE status[s] = "absent"
    BY <2>1, TablesAre DEF StoreCompose
  <2>2. CASE status[s] # "absent"
    BY <2>2, <1>4, TablesAre DEF StoreCompose, WithLines, Lines
  <2> QED BY <2>1, <2>2
<1>6. rows' \in TablesOf(s) /\ HostsKept(s)
  BY <1>0, <1>2, Unmoved
<1>7. q \in Call
  BY <1>2 DEF Call, PortSteps, Deploying
<1>8. /\ q.op = req[r].op /\ q.svc = s /\ q.alone = req[r].alone /\ q.pc = "inject" /\ q.lines = req[r].lines
  BY <1>2 DEF Call
<1> HIDE DEF q
<1>9. Fits(q) /\ \A k \in s : SteadyAt(q, k, rows'[k], cont[k])
  BY <1>0, <1>2, <1>4, <1>8 DEF Fits, SteadyAt, Switching, Deploying, WithSnap, WithAlloc, Remaking, WithLinesOf
<1> QED BY <1>0, <1>1, <1>2, <1>3, <1>5, <1>6, <1>7, <1>8, <1>9, Unmoved, CalmKeeps

\* A stack that is down has no containers.
LEMMA DownedIs ==
  ASSUME PortsInv, NEW s \in Stacks
  PROVE  /\ Downed(s) \in [Containers -> Container \cup {NULL}]
         /\ (\A k \in Containers \ s : Downed(s)[k] = cont[k]) /\ \A k \in s : Downed(s)[k] = NULL
<1>1. s \in SUBSET Containers
  BY StackFacts
<1> QED BY <1>1, TablesAre DEF Downed

LEMMA DownKeeps ==
  ASSUME PortsInv, NEW r \in Calls, DownStack(r) \/ DownReplicas(r)
  PROVE  \E x \in Stacks : Keeps(r, x)
<1> DEFINE s == req[r].svc
           q == [req[r] EXCEPT !.pc = "inject"]
<1>0. req[r].pc \in {"down", "lb_down"} /\ UNCHANGED <<rows, yaml, foreign, settled, events>> /\ cont' = Downed(s)
  BY DEF DownStack, DownReplicas
<1>1. Active(r)
  BY <1>0 DEF Active
<1>2. req \in [Calls -> Call] /\ req[r] \in Call /\ s \in Stacks /\ Fits(req[r])
  BY <1>1, CallerFacts
<1>3. req' = [req EXCEPT ![r] = q]
  BY <1>2 DEF DownStack, DownReplicas, CallGoto
<1>4. /\ status' \in [Stacks -> Statuses] /\ (status'[s] = "absent" => status[s] = "absent")
      /\ \A t \in Stacks \ {s} : status'[t] = status[t]
  BY <1>2, TablesAre DEF DownStack, DownReplicas, Statuses
<1>5. /\ cont' \in [Containers -> Container \cup {NULL}]
      /\ (\A k \in Containers \ s : cont'[k] = cont[k]) /\ \A k \in s : cont'[k] = NULL /\ ~Twice(k, cont'[k])
  BY <1>0, <1>2, DownedIs DEF Twice
<1>6. q \in Call
  BY <1>2 DEF Call, PortSteps, Deploying
<1>7. /\ q.op = req[r].op /\ q.svc = s /\ q.alone = req[r].alone /\ q.pc = "inject" /\ q.lines = req[r].lines
  BY <1>2 DEF Call
<1> HIDE DEF q
<1>8. DOMAIN req[r].lines = s /\ req[r].op \in DeployOps /\ (req[r].pc = "down" => req[r].op # "balance")
      /\ (req[r].op = "balance" => Single(s))
  BY <1>0, <1>2 DEF Fits, Deploying, WithLinesOf
<1>9. Fits(q)
  BY <1>2, <1>7, <1>8 DEF Fits, Switching, Deploying, WithSnap, WithAlloc, Remaking, WithLinesOf
<1>10. ASSUME q.alone, NEW k \in s
       PROVE  SteadyAt(q, k, rows[k], cont'[k])
  <2>1. SteadyAt(req[r], k, rows[k], cont[k])
    BY <1>1, <1>7, <1>10 DEF PortsInv, SteadyOK, Steady
  <2> QED BY <2>1, <1>0, <1>7, <1>8 DEF SteadyAt, WithAlloc, Remaking
<1>11. foreign' \subseteq PortNumbers /\ events' \in 0 .. MaxEvents
  BY <1>0, TablesAre
<1> QED BY <1>0, <1>1, <1>2, <1>3, <1>4, <1>5, <1>6, <1>7, <1>9, <1>10, <1>11, DockerKeeps

LEMMA DeleteRowsKeeps ==
  ASSUME PortsInv, NEW r \in Calls, DeleteRows(r)
  PROVE  \E x \in Stacks : Keeps(r, x)
<1> DEFINE s == req[r].svc
<1>0. /\ req[r].pc = "delete" /\ UNCHANGED <<cont, foreign, settled, events>> /\ req' = [req EXCEPT ![r] = Done(r)]
      /\ rows' = free_ports(s) /\ yaml' = WithLines(s, [k \in s |-> NOFILE]) /\ status' = [status EXCEPT ![s] = "absent"]
  BY DEF DeleteRows, End
<1>1. Active(r)
  BY <1>0 DEF Active
<1>2. req \in [Calls -> Call] /\ req[r] \in Call /\ s \in Stacks /\ Fits(req[r]) /\ s \in SUBSET Containers
  BY <1>1, CallerFacts, StackFacts
<1>3. status' \in [Stacks -> Statuses] /\ \A t \in Stacks \ {s} : status'[t] = status[t]
  BY <1>0, <1>2, TablesAre DEF Statuses
<1>4. yaml' \in [Containers -> Line \cup {NULL, NOFILE}] /\ \A k \in Containers \ s : yaml'[k] = yaml[k]
  BY <1>0, TablesAre DEF WithLines
<1>5. /\ rows' \in [Containers -> RowValue \cup {NULL}] /\ \A k \in s : rows'[k] = NULL
      /\ \A k \in Containers : rows'[k] # NULL => rows'[k] = rows[k] /\ rows[k] # NULL
      /\ \A k \in Containers \ s : rows'[k] = rows[k]
  BY <1>0, <1>2, TablesAre DEF free_ports
<1>6. rows' \in TablesOf(s) /\ HostsKept(s)
  BY <1>2, <1>5, HostsStay DEF HostsKept
<1>7. events' \in 0 .. MaxEvents
  BY <1>0, TablesAre
<1> QED BY <1>0, <1>1, <1>2, <1>3, <1>4, <1>5, <1>6, <1>7, DoneIs, CalmKeeps

LEMMA OwnHostPortsKeeps ==
  ASSUME PortsInv, NEW r \in Calls, OwnHostPorts(r)
  PROVE  \E x \in Stacks : Keeps(r, x)
<1> DEFINE s == req[r].svc
           own == {rows[k].host : k \in RowsOf(s)}
           q == [req[r] EXCEPT !.pc = "replicas", !.own = own]
<1>0. req[r].pc = "own" /\ UNCHANGED <<rows, cont, yaml, status, foreign, settled, events>>
  BY DEF OwnHostPorts
<1>1. Active(r)
  BY <1>0 DEF Active
<1>2. req \in [Calls -> Call] /\ req[r] \in Call /\ s \in Stacks /\ Fits(req[r]) /\ s \in SUBSET Containers
  BY <1>1, CallerFacts, StackFacts
<1>3. req' = [req EXCEPT ![r] = q]
  BY <1>2 DEF OwnHostPorts
<1>4. own \in SUBSET PortNumbers
  <2>1. \A k \in RowsOf(s) : rows[k] \in RowValue
    BY <1>2, TablesAre DEF RowsOf
  <2> QED BY <2>1, RowFacts
<1> HIDE DEF own
<1>5. q \in Call
  BY <1>2, <1>4 DEF Call, PortSteps
<1>6. /\ q.op = req[r].op /\ q.svc = s /\ q.alone = req[r].alone /\ q.pc = "replicas"
  BY <1>2 DEF Call
<1> HIDE DEF q
<1>7. Fits(q) /\ \A k \in s : SteadyAt(q, k, rows[k], cont[k])
  BY <1>0, <1>2, <1>6 DEF Fits, SteadyAt, Switching, Deploying, WithSnap, WithAlloc, Remaking, WithLinesOf
<1> QED BY <1>0, <1>1, <1>2, <1>3, <1>5, <1>6, <1>7, ThinkKeeps

\* The back-fill only tags rows.
LEMMA BackfillKeeps ==
  ASSUME PortsInv, NEW s \in Stacks, NEW lines
  PROVE  /\ backfill_orphan_ports(s, lines) \in TablesOf(s)
         /\ \A k \in Containers :
              /\ backfill_orphan_ports(s, lines)[k] = NULL <=> rows[k] = NULL
              /\ rows[k] # NULL => backfill_orphan_ports(s, lines)[k].host = rows[k].host
              /\ Single(s) => backfill_orphan_ports(s, lines)[k] = rows[k]
<1> DEFINE R == backfill_orphan_ports(s, lines)
<1>1. ASSUME NEW k \in Containers
      PROVE  /\ R[k] \in RowValue \cup {NULL} /\ (R[k] = NULL <=> rows[k] = NULL)
             /\ rows[k] # NULL => R[k].host = rows[k].host
             /\ Single(s) \/ k \notin s => R[k] = rows[k]
  <2>1. CASE k \in s /\ ~Single(s) /\ rows[k] # NULL /\ lines[k] # NULL
    <3>1. R[k] = [rows[k] EXCEPT !.tagged = TRUE] /\ rows[k] \in RowValue
      BY <2>1, TablesAre DEF backfill_orphan_ports
    <3>2. R[k] \in RowValue /\ R[k].host = rows[k].host
      BY <3>1 DEF RowValue, PortRow, Telling
    <3> QED BY <2>1, <3>2, NullIsNone
  <2>2. CASE ~(k \in s /\ ~Single(s) /\ rows[k] # NULL /\ lines[k] # NULL)
    <3>1. R[k] = rows[k]
      BY <2>2 DEF backfill_orphan_ports
    <3> QED BY <3>1, TablesAre
  <2> QED BY <2>1, <2>2
<1>2. R \in [Containers -> RowValue \cup {NULL}]
  BY <1>1 DEF backfill_orphan_ports
<1> HIDE DEF R
<1>3. R \in TablesOf(s)
  BY <1>1, <1>2, HostsStay
<1> QED BY <1>1, <1>3 DEF R

LEMMA InjectKeeps ==
  ASSUME PortsInv, NEW r \in Calls, Inject(r)
  PROVE  \E x \in Stacks : Keeps(r, x)
<1> DEFINE s == req[r].svc
           tagged == backfill_orphan_ports(s, req[r].lines)
           from == [k \in RowsOf(s) |-> tagged[k]]
           seen == with_pier_ports(s, req[r].lines)
           q == [req[r] EXCEPT !.pc = "up", !.seen = seen]
<1>0. req[r].pc = "inject" /\ UNCHANGED <<cont, yaml, status, foreign, settled, events>> /\ rows' = tagged
  BY DEF Inject
<1>1. Active(r)
  BY <1>0 DEF Active
<1>2. req \in [Calls -> Call] /\ req[r] \in Call /\ s \in Stacks /\ Fits(req[r])
  BY <1>1, CallerFacts
<1>3. req' = [req EXCEPT ![r] = q]
  BY <1>2 DEF Inject
<1>4. s \in SUBSET Containers /\ \A k \in s : StackOf(k) = s
  BY <1>2, StackFacts
<1>5. /\ DOMAIN req[r].lines = s /\ req[r].lines \in [s -> Lines] /\ req[r].op \in DeployOps
      /\ req[r].op = "balance" => Single(s)
  <2>1. DOMAIN req[r].lines = s /\ req[r].lines \in Partial(Lines) /\ req[r].op \in DeployOps /\ (req[r].op = "balance" => Single(s))
    BY <1>0, <1>2, CallFacts DEF Fits, WithLinesOf, Deploying
  <2> QED BY <2>1, PartialIs
<1>6. /\ tagged \in TablesOf(s)
      /\ \A k \in Containers : /\ tagged[k] = NULL <=> rows[k] = NULL
                               /\ rows[k] # NULL => tagged[k].host = rows[k].host
                               /\ Single(s) => tagged[k] = rows[k]
  BY <1>2, BackfillKeeps
<1> HIDE DEF tagged
<1>7. rows' \in TablesOf(s) /\ HostsKept(s)
  BY <1>0, <1>4, <1>6 DEF HostsKept
<1>8. /\ DOMAIN from = RowsOf(s) /\ RowsOf(s) \subseteq s
      /\ \A k \in RowsOf(s) : from[k] = tagged[k] /\ tagged[k] \in RowValue
  BY <1>4, <1>6 DEF RowsOf, TablesOf, PortTables
<1>9. /\ seen \in [s -> Lines]
      /\ \A k \in s : Single(s) /\ rows[k] # NULL => seen[k] = LineSaid(tagged[k])
  <2>1. CASE RowsOf(s) = {}
    BY <2>1, <1>5 DEF with_pier_ports, RowsOf
  <2>2. CASE RowsOf(s) # {}
    <3>1. seen = inject_ports_into_yaml(s, [k \in s |-> NULL], from)
      BY <2>2 DEF with_pier_ports, tagged
    <3>2. \A k \in s : [j \in s |-> NULL][k] \in Lines
      BY DEF Lines
    <3> HIDE DEF from
    <3>3. /\ inject_ports_into_yaml(s, [k \in s |-> NULL], from) \in [s -> Lines]
          /\ \A k \in DOMAIN from : from[k].tagged \/ Single(s)
               => inject_ports_into_yaml(s, [j \in s |-> NULL], from)[k] = LineSaid(from[k])
      BY <1>2, <1>8, <3>2, InjectedLines
    <3>4. \A k \in s : rows[k] # NULL => k \in DOMAIN from /\ from[k] = tagged[k]
      BY <1>8 DEF RowsOf
    <3> HIDE DEF seen
    <3> QED BY <3>1, <3>3, <3>4
  <2> QED BY <2>1, <2>2
<1> HIDE DEF seen, from
<1>10. seen \in Partial(Lines) /\ DOMAIN seen = s
  BY <1>4, <1>9, PartialMade
<1>11. q \in Call
  BY <1>2, <1>10 DEF Call, PortSteps, Deploying
<1>12. /\ q.op = req[r].op /\ q.svc = s /\ q.alone = req[r].alone /\ q.pc = "up" /\ q.lines = req[r].lines /\ q.seen = seen
  BY <1>2 DEF Call
<1> HIDE DEF q
<1>13. Fits(q)
  BY <1>2, <1>5, <1>10, <1>12 DEF Fits, Switching, Deploying, WithSnap, WithAlloc, Remaking, WithLinesOf
<1>14. ASSUME q.alone, NEW k \in s
       PROVE  SteadyAt(q, k, rows'[k], cont[k])
  <2>1. SteadyAt(req[r], k, rows[k], cont[k])
    BY <1>1, <1>12, <1>14 DEF PortsInv, SteadyOK, Steady
  <2>2. q.op = "balance" => rows[k] # NULL /\ rows'[k] = rows[k] /\ seen[k] = LineSaid(rows[k])
    BY <2>1, <1>0, <1>4, <1>5, <1>6, <1>9, <1>12 DEF SteadyAt
  <2> QED BY <2>2, <1>12 DEF SteadyAt, WithAlloc, Remaking
<1>15. status'[s] = "absent" => \A k \in s : rows'[k] = NULL
  BY <1>0, <1>2, <1>7, Unmoved
<1> QED BY <1>0, <1>1, <1>2, <1>3, <1>7, <1>11, <1>12, <1>13, <1>14, <1>15, Unmoved, CalmKeeps

LEMMA ComposeUpKeeps ==
  ASSUME PortsInv, NEW r \in Calls, ComposeUp(r)
  PROVE  \E x \in Stacks : Keeps(r, x)
<1> DEFINE s == req[r].svc
<1>0. req[r].pc = "up" /\ UNCHANGED <<rows, yaml, status, foreign, settled>>
  BY DEF ComposeUp
<1>1. Active(r)
  BY <1>0 DEF Active
<1>2. req \in [Calls -> Call] /\ req[r] \in Call /\ s \in Stacks /\ Fits(req[r])
  BY <1>1, CallerFacts
<1> DEFINE to(pc) == [req[r] EXCEPT !.seen = <<>>, !.pc = pc]
<1>3. PICK fault \in BOOLEAN, pc \in {"extract", "finish"} :
        /\ Fault \/ Fine
        /\ cont' = Composed(r, fault)
        /\ req' = [req EXCEPT ![r] = to(pc)]
        /\ pc = "extract" => req[r].op \in {"create_compose", "redeploy"}
  <2>1. PICK fault \in BOOLEAN :
          /\ IF fault THEN Fault ELSE Fine
          /\ cont' = Composed(r, fault)
          /\ req' = [req EXCEPT ![r].seen = <<>>, ![r].pc =
               IF req[r].again THEN "finish"
               ELSE IF \A k \in req[r].svc : Composed(r, fault)[k].running
                    THEN IF req[r].op \in {"create_compose", "redeploy"} THEN "extract" ELSE "finish"
                    ELSE "finish"]
    BY DEF ComposeUp
  <2> DEFINE pc == IF req[r].again THEN "finish"
                   ELSE IF \A k \in req[r].svc : Composed(r, fault)[k].running
                        THEN IF req[r].op \in {"create_compose", "redeploy"} THEN "extract" ELSE "finish"
                        ELSE "finish"
  <2>2. pc \in {"extract", "finish"} /\ (pc = "extract" => req[r].op \in {"create_compose", "redeploy"})
    OBVIOUS
  <2>3. req' = [req EXCEPT ![r].seen = <<>>, ![r].pc = pc]
    BY <2>1
  <2> HIDE DEF pc
  <2>4. req' = [req EXCEPT ![r] = to(pc)]
    BY <2>3, <1>2
  <2> QED BY <2>1, <2>2, <2>4
<1>4. s \in SUBSET Containers
  BY <1>2, StackFacts
<1>5. /\ req[r].seen \in Partial(Lines) /\ DOMAIN req[r].seen = s /\ DOMAIN req[r].lines = s
      /\ req[r].op \in DeployOps /\ (req[r].op = "balance" => Single(s))
  BY <1>0, <1>2 DEF Fits, WithLinesOf, Deploying
<1>6. \A k \in s : req[r].seen[k] \in Lines
  BY <1>5, PartialIs
<1> DEFINE free(k) == \A b \in FromLine(k, req[r].seen[k]) :
             /\ b.port \notin foreign \cup UNION {PortsOf(FromLine(j, req[r].seen[j])) : j \in s \ {k}}
             /\ \A j \in Containers \ s : cont[j] # NULL /\ cont[j].running => b.port \notin PortsOf(cont[j].binds)
           box(k) == [binds |-> FromLine(k, req[r].seen[k]), vol |-> IF cont[k] = NULL THEN r ELSE cont[k].vol,
                      running |-> ~fault /\ free(k)]
<1>7. \A k \in Containers : Composed(r, fault)[k] = IF k \notin s THEN cont[k] ELSE box(k)
  BY DEF Composed
<1>8. ASSUME NEW k \in s
      PROVE  FromLine(k, req[r].seen[k]) \in SUBSET Binding /\ \A x, y \in FromLine(k, req[r].seen[k]) : x = y
  <2>1. k \in Containers /\ (req[r].seen[k] # NULL => req[r].seen[k] \in Line)
    BY <1>4, <1>6 DEF Lines
  <2> QED BY <2>1 DEF FromLine, Binding, Line
<1>9. ASSUME NEW k \in s
      PROVE  /\ box(k) \in Container /\ box(k).binds = FromLine(k, req[r].seen[k])
             /\ box(k).vol = r \/ (cont[k] # NULL /\ box(k).vol = cont[k].vol)
  <2>1. (~fault /\ free(k)) \in BOOLEAN
    OBVIOUS
  <2>2. cont[k] # NULL => cont[k].vol \in Calls \cup {EARLIER}
    BY <1>4, PublishedPorts
  <2> HIDE DEF free
  <2> QED BY <1>8, <2>1, <2>2 DEF Container
<1> HIDE DEF box
<1>10. /\ cont' \in [Containers -> Container \cup {NULL}] /\ (\A k \in Containers \ s : cont'[k] = cont[k])
       /\ \A k \in s : cont'[k] = box(k) /\ ~Twice(k, cont'[k])
  <2>1. \A k \in Containers : cont'[k] \in Container \cup {NULL}
    BY <1>3, <1>7, <1>9, TablesAre
  <2>2. cont' = [k \in Containers |-> cont'[k]]
    BY <1>3 DEF Composed
  <2>3. cont' \in [Containers -> Container \cup {NULL}]
    BY <2>1, <2>2
  <2>4. ASSUME NEW k \in s
        PROVE  cont'[k] = box(k) /\ ~Twice(k, cont'[k])
    <3>1. cont'[k] = box(k)
      BY <1>3, <1>4, <1>7
    <3>2. box(k).binds = FromLine(k, req[r].seen[k])
      BY <1>9
    <3>3. ~\E x, y \in FromLine(k, req[r].seen[k]) : x # y
      BY <1>8
    <3> QED BY <3>1, <3>2, <3>3 DEF Twice
  <2>5. \A k \in Containers \ s : cont'[k] = cont[k]
    BY <1>3, <1>7
  <2> QED BY <2>3, <2>4, <2>5
<1> DEFINE q == to(pc)
<1>11. q \in Call
  BY <1>2, EmptyPartial DEF Call, PortSteps, Deploying
<1>12. /\ q.op = req[r].op /\ q.svc = s /\ q.alone = req[r].alone /\ q.pc = pc /\ q.lines = req[r].lines
  BY <1>2 DEF Call
<1>13. req' = [req EXCEPT ![r] = q]
  BY <1>3
<1> HIDE DEF q
<1>14. Fits(q)
  BY <1>2, <1>3, <1>5, <1>12 DEF Fits, Switching, Deploying, WithSnap, WithAlloc, Remaking, WithLinesOf
<1>15. ASSUME q.alone, NEW k \in s
       PROVE  SteadyAt(q, k, rows[k], cont'[k])
  <2>1. SteadyAt(req[r], k, rows[k], cont[k])
    BY <1>1, <1>12, <1>15 DEF PortsInv, SteadyOK, Steady
  <2>2. q.op = "balance" => rows[k] # NULL /\ cont'[k].binds = Said(k, rows[k])
    <3>1. q.op = "balance" => rows[k] # NULL /\ req[r].seen[k] = LineSaid(rows[k])
      BY <2>1, <1>0, <1>12 DEF SteadyAt
    <3>2. rows[k] # NULL => rows[k] \in RowValue
      BY <1>4, TablesAre
    <3>3. rows[k] # NULL => LineSaid(rows[k]) \in Line
      BY <3>2, RowFacts DEF LineSaid, PortSaid, Line
    <3>4. rows[k] # NULL => LineSaid(rows[k]) # NULL
      BY <3>3, NullIsNone
    <3>5. rows[k] # NULL => FromLine(k, LineSaid(rows[k])) = Said(k, rows[k])
      BY <3>4 DEF FromLine, LineSaid, Said
    <3> QED BY <3>1, <3>5, <1>9, <1>10
  <2> QED BY <2>2, <1>3, <1>12 DEF SteadyAt, WithAlloc, Remaking
<1>16. foreign' \subseteq PortNumbers /\ events' \in 0 .. MaxEvents
  BY <1>0, <1>3, TablesAre, PortsConstants DEF Fault, Fine
<1>17. ASSUME NEW k \in s
       PROVE  Volume(cont'[k].vol) \/ (cont'[k].vol = r /\ q.op # "toggle")
  <2>1. q.op # "toggle"
    BY <1>5, <1>12 DEF DeployOps
  <2>2. cont[k] # NULL => Volume(cont[k].vol)
    BY <1>4 DEF PortsInv, VolumesOK
  <2> QED BY <2>1, <2>2, <1>9, <1>10
<1>18. \A k \in s : Twice(k, cont'[k]) => cont'[k] = cont[k]
  BY <1>10
<1>19. q.pc \notin {"new", "remove", "create"} /\ (q.pc \in {"extract", "image"} => \A k \in s : ~Twice(k, cont'[k]))
  BY <1>3, <1>10, <1>12
<1>20. /\ status' \in [Stacks -> Statuses] /\ (\A t \in Stacks \ {s} : status'[t] = status[t])
       /\ status'[s] = "absent" => status[s] = "absent"
  BY <1>0, TablesAre
<1> HIDE DEF to, free
<1> QED BY <1>0, <1>1, <1>2, <1>19, <1>20, <1>10, <1>11, <1>12, <1>13, <1>14, <1>15, <1>16, <1>17, <1>18, DockerKeeps

LEMMA ExtractPortsKeeps ==
  ASSUME PortsInv, NEW r \in Calls, ExtractPorts(r)
  PROVE  \E x \in Stacks : Keeps(r, x)
<1> DEFINE s == req[r].svc
           q == [req[r] EXCEPT !.pc = "image"]
<1>0. /\ req[r].pc = "extract" /\ UNCHANGED <<cont, yaml, status, foreign, settled, events>>
      /\ rows' = IF status[s] = "absent" THEN rows ELSE update_ports_from_compose(s, req[r].lines)
  BY DEF ExtractPorts
<1>1. Active(r)
  BY <1>0 DEF Active
<1>2. req \in [Calls -> Call] /\ req[r] \in Call /\ s \in Stacks /\ Fits(req[r])
  BY <1>1, CallerFacts
<1>3. req' = [req EXCEPT ![r] = q]
  BY <1>2 DEF ExtractPorts, CallGoto
<1>4. DOMAIN req[r].lines = s /\ (\A k \in s : req[r].lines[k] \in Lines) /\ req[r].op # "balance" /\ req[r].op \in DeployOps
  <2>1. DOMAIN req[r].lines = s /\ req[r].lines \in Partial(Lines) /\ req[r].op # "balance" /\ req[r].op \in DeployOps
    BY <1>0, <1>2, CallFacts DEF Fits, WithLinesOf, Deploying
  <2> QED BY <2>1, PartialIs
<1>5. rows' \in TablesOf(s)
  <2>1. CASE status[s] = "absent"
    BY <2>1, <1>0, TablesAre DEF TablesOf
  <2>2. CASE status[s] # "absent"
    <3>1. backfill_orphan_ports(s, req[r].lines) \in TablesOf(s)
      BY <1>2, BackfillKeeps
    <3>2. s \in SUBSET Containers /\ IsFiniteSet(s)
      BY <1>2, StackFacts
    <3>3. update_ports_from_compose(s, req[r].lines) \in TablesOf(s)
      BY <1>4, <3>1, <3>2, NullIsNone, UpsertsKeep DEF update_ports_from_compose
    <3> QED BY <2>2, <3>3, <1>0
  <2> QED BY <2>1, <2>2
<1>6. \A k \in s : ~Twice(k, cont[k])
  BY <1>0 DEF PortsInv, TwiceOK
<1>7. status'[s] = "absent" => \A k \in s : rows'[k] = NULL
  BY <1>0, <1>2 DEF PortsInv, AbsentOK
<1>8. q \in Call
  BY <1>2 DEF Call, PortSteps, Deploying
<1>9. /\ q.op = req[r].op /\ q.svc = s /\ q.alone = req[r].alone /\ q.pc = "image" /\ q.lines = req[r].lines
  BY <1>2 DEF Call
<1> HIDE DEF q
<1>10. Fits(q) /\ \A k \in s : SteadyAt(q, k, rows'[k], cont[k])
  BY <1>0, <1>2, <1>4, <1>9 DEF Fits, SteadyAt, Switching, Deploying, WithSnap, WithAlloc, Remaking, WithLinesOf
<1> QED BY <1>0, <1>1, <1>2, <1>3, <1>5, <1>6, <1>7, <1>8, <1>9, <1>10, Unmoved, CalmKeeps

LEMMA ImagePortsKeeps ==
  ASSUME PortsInv, NEW r \in Calls, ImagePorts(r)
  PROVE  \E x \in Stacks : Keeps(r, x)
<1> DEFINE s == req[r].svc
           again == [req[r] EXCEPT !.pc = "inject", !.again = TRUE]
           over == [req[r] EXCEPT !.pc = "finish"]
           made == FoldSet(LAMBDA k, R : LET granted == allocate_ports(k, R, NULL, FALSE, {})
                             IN IF granted = {} THEN R ELSE [R EXCEPT ![k] = NewRow(CHOOSE p \in granted : TRUE)], rows, s)
<1>0. req[r].pc = "image" /\ UNCHANGED <<cont, yaml, status, foreign, settled, events>>
  BY DEF ImagePorts
<1>1. Active(r)
  BY <1>0 DEF Active
<1>2. req \in [Calls -> Call] /\ req[r] \in Call /\ s \in Stacks /\ Fits(req[r])
  BY <1>1, CallerFacts
<1>3. \/ status[s] # "absent" /\ rows' = made /\ req' = [req EXCEPT ![r] = again]
      \/ rows' = rows /\ req' = [req EXCEPT ![r] = over]
  BY <1>2 DEF ImagePorts, CallGoto
<1>4. PICK q \in {again, over} : req' = [req EXCEPT ![r] = q]
  BY <1>3
<1>5. rows' \in TablesOf(s)
  <2>1. rows \in TablesOf(s)
    BY TablesAre DEF TablesOf
  <2>2. made \in TablesOf(s)
    <3>1. s \in SUBSET Containers /\ IsFiniteSet(s)
      BY <1>2, StackFacts
    <3> QED BY <2>1, <3>1, ImagesKeep
  <2> QED BY <2>1, <2>2, <1>3
<1>6. \A k \in s : ~Twice(k, cont[k])
  BY <1>0 DEF PortsInv, TwiceOK
<1>7. status'[s] = "absent" => \A k \in s : rows'[k] = NULL
  BY <1>0, <1>2, <1>3 DEF PortsInv, AbsentOK
<1> HIDE DEF made
<1>8. again \in Call /\ over \in Call
  BY <1>2, ZenonT(40) DEF Call, PortSteps, Deploying
<1>9. /\ again.op = req[r].op /\ again.svc = s /\ again.alone = req[r].alone /\ again.pc = "inject" /\ again.lines = req[r].lines
      /\ over.op = req[r].op /\ over.svc = s /\ over.alone = req[r].alone /\ over.pc = "finish"
  BY <1>2 DEF Call
<1>10. req[r].op # "balance" /\ req[r].op \in DeployOps /\ DOMAIN req[r].lines = s
  BY <1>0, <1>2 DEF Fits, WithLinesOf, Deploying
<1> HIDE DEF again, over
<1>11. Fits(q) /\ \A k \in s : SteadyAt(q, k, rows'[k], cont[k])
  <2>1. Fits(again) /\ \A k \in s : SteadyAt(again, k, rows'[k], cont[k])
    BY <1>2, <1>9, <1>10 DEF Fits, SteadyAt, Switching, Deploying, WithSnap, WithAlloc, Remaking, WithLinesOf
  <2>2. Fits(over) /\ \A k \in s : SteadyAt(over, k, rows'[k], cont[k])
    BY <1>2, <1>9, <1>10 DEF Fits, SteadyAt, Switching, Deploying, WithSnap, WithAlloc, Remaking, WithLinesOf
  <2> QED BY <2>1, <2>2
<1>12. q \in Call /\ q.op = req[r].op /\ q.svc = s /\ q.alone = req[r].alone /\ q.pc \in {"inject", "finish"}
  BY <1>8, <1>9
<1> QED BY <1>0, <1>1, <1>2, <1>4, <1>5, <1>6, <1>7, <1>11, <1>12, Unmoved, CalmKeeps

LEMMA FinishDeployKeeps ==
  ASSUME PortsInv, NEW r \in Calls, FinishDeploy(r)
  PROVE  \E x \in Stacks : Keeps(r, x)
<1> DEFINE s == req[r].svc
           ok == \A k \in s : cont[k] # NULL /\ cont[k].running
<1>0. /\ req[r].pc = "finish" /\ UNCHANGED <<rows, cont, yaml, foreign, events>> /\ req' = [req EXCEPT ![r] = Done(r)]
      /\ settled' = [settled EXCEPT ![s] = IF req[r].op = "balance" /\ req[r].alone /\ ok THEN "balance" ELSE @]
  BY DEF FinishDeploy, End
<1>1. Active(r)
  BY <1>0 DEF Active
<1>2. req \in [Calls -> Call] /\ req[r] \in Call /\ s \in Stacks /\ Fits(req[r])
  BY <1>1, CallerFacts
<1>3. req'[r].pc = "done"
  BY <1>0, <1>2, DoneIs
<1>4. /\ status' \in [Stacks -> Statuses] /\ (status'[s] = "absent" => status[s] = "absent")
      /\ \A t \in Stacks \ {s} : status'[t] = status[t]
  BY <1>2, TablesAre DEF FinishDeploy, Statuses
<1>5. rows' \in TablesOf(s) /\ HostsKept(s)
  BY <1>0, <1>2, Unmoved
<1>6. ASSUME req[r].op = "balance", req[r].alone, ok, NEW k \in s
      PROVE  SettledAt("balance", k, rows'[k], cont'[k], yaml'[k])
  <2>1. SteadyAt(req[r], k, rows[k], cont[k])
    BY <1>1, <1>6 DEF PortsInv, SteadyOK, Steady
  <2>2. Obeys(k, rows[k], cont[k])
    BY <2>1, <1>0, <1>6 DEF SteadyAt, Obeys
  <2> QED BY <2>2, <1>0 DEF SettledAt
<1>7. settled' = settled \/ /\ settled' \in [Stacks -> Settlements] /\ AtRest(r, s)
                            /\ \A t \in Stacks \ {s} : settled'[t] = settled[t]
  <2>1. CASE ~(req[r].op = "balance" /\ req[r].alone /\ ok)
    <3>1. settled' = [settled EXCEPT ![s] = settled[s]]
      BY <2>1, <1>0
    <3> QED BY <3>1, TablesAre
  <2>2. CASE req[r].op = "balance" /\ req[r].alone /\ ok
    <3>1. settled' = [settled EXCEPT ![s] = "balance"]
      BY <1>0, <2>2
    <3>2. settled' \in [Stacks -> Settlements] /\ settled'[s] = "balance" /\ \A t \in Stacks \ {s} : settled'[t] = settled[t]
      BY <3>1, <1>2, TablesAre DEF Settlements
    <3> QED BY <2>2, <3>2, <1>3, <1>6 DEF AtRest
  <2> QED BY <2>1, <2>2
<1> QED BY <1>0, <1>1, <1>2, <1>4, <1>5, <1>7, DoneIs, Unmoved, CalmKeeps

\* A service of one container gets a row of its own.
LEMMA OneRow ==
  ASSUME PortsInv, NEW s \in Stacks, Single(s), NEW x \in RowValue,
         \A j \in Containers \ s : rows[j] # NULL => rows[j].host # x.host
  PROVE  [k \in Containers |-> IF k \in s THEN x ELSE rows[k]] \in TablesOf(s)
<1> DEFINE R == [k \in Containers |-> IF k \in s THEN x ELSE rows[k]]
<1>1. PICK y \in Containers : s = {y}
  BY SingleFacts
<1>2. R \in [Containers -> RowValue \cup {NULL}]
  BY TablesAre
<1>3. UniqueHosts(R)
  BY <1>1, TablesAre DEF UniqueHosts
<1> QED BY <1>1, <1>2, <1>3 DEF TablesOf, PortTables

LEMMA ReallocateKeeps ==
  ASSUME PortsInv, NEW r \in Calls, Reallocate(r)
  PROVE  \E x \in Stacks : Keeps(r, x)
<1> DEFINE s == req[r].svc
           ui == req[r].ui
           granted(k) == allocate_ports(k, free_ports(s), NULL, TRUE, req[r].own)
           p(k) == CHOOSE x \in granted(k) : TRUE
           new(k) == [NewRow(p(k)) EXCEPT !.pub = ui # NULL, !.pport = ui]
           ok == status[s] # "absent" /\ \A k \in s : granted(k) # {}
           lines == [k \in s |-> [any |-> ui # NULL, port |-> IF ui # NULL THEN ui ELSE new(k).host]]
           next == [req[r] EXCEPT !.pc = "lb_down", !.own = {}, !.ui = NULL, !.lines = lines]
<1>0. req[r].pc = "replicas" /\ UNCHANGED <<cont, yaml, status, foreign, settled, events>>
  BY DEF Reallocate
<1>1. Active(r)
  BY <1>0 DEF Active
<1>2. /\ req \in [Calls -> Call] /\ req[r] \in Call /\ s \in Stacks /\ Fits(req[r])
      /\ s \in SUBSET Containers
  BY <1>1, CallerFacts, StackFacts
<1>3. req[r].op = "balance" /\ Single(s) /\ ui \in PortNumbers \cup {NULL}
  BY <1>0, <1>2, CallFacts DEF Fits
<1>4. CASE ~ok
  <2>1. rows' = free_ports(s) /\ req' = [req EXCEPT ![r] = Done(r)]
    BY <1>4 DEF Reallocate, End
  <2>2. /\ rows' \in [Containers -> RowValue \cup {NULL}] /\ \A k \in s : rows'[k] = NULL
        /\ \A k \in Containers : rows'[k] # NULL => rows'[k] = rows[k] /\ rows[k] # NULL
        /\ \A k \in Containers \ s : rows'[k] = rows[k]
    BY <2>1, <1>2, TablesAre DEF free_ports
  <2>3. rows' \in TablesOf(s) /\ HostsKept(s)
    BY <1>2, <2>2, HostsStay DEF HostsKept
  <2> QED BY <1>0, <1>1, <1>2, <2>1, <2>2, <2>3, DoneIs, Unmoved, CalmKeeps
<1>5. CASE ok
  <2>1. /\ rows' = [k \in Containers |-> IF k \in s THEN new(k) ELSE rows[k]]
        /\ req' = [req EXCEPT ![r] = next]
    BY <1>2, <1>5 DEF Reallocate
  <2>2. PICK y \in Containers : s = {y}
    BY <1>2, <1>3, SingleFacts
  <2> DEFINE G == allocate_ports(y, free_ports(s), NULL, TRUE, req[r].own)
  <2>3. PICK port : port = (CHOOSE x \in G : TRUE) /\ port \in G
    <3>1. G # {}
      BY <1>5, <2>2
    <3> HIDE DEF G
    <3> QED BY <3>1
  <2>4. port \in PortNumbers /\ \A j \in Containers : free_ports(s)[j] # NULL => free_ports(s)[j].host # port
    <3>1. \A R, own : \A x \in allocate_ports(y, R, NULL, TRUE, own) :
            x \in PortNumbers /\ \A j \in Containers : R[j] # NULL => R[j].host # x
      BY GrantedFree
    <3> QED BY <2>3, <3>1
  <2>5. \A j \in Containers \ s : rows[j] # NULL => rows[j].host # port
    BY <2>4 DEF free_ports
  <2> DEFINE row == [NewRow(port) EXCEPT !.pub = ui # NULL, !.pport = ui]
  <2>6. /\ row \in RowValue /\ row.host = port /\ row.pub = (ui # NULL) /\ row.pport = ui
    BY <2>4, <1>3 DEF NewRow, RowValue, PortRow, Telling
  <2>7. new(y) = row
    BY <2>3
  <2> HIDE DEF new, row, G
  <2>8. /\ lines = [k \in s |-> LineSaid(row)]
        /\ rows' = [k \in Containers |-> IF k \in s THEN row ELSE rows[k]]
    <3>1. \A k \in s : new(k) = row
      BY <2>2, <2>7
    <3>2. \A k \in s : [any |-> ui # NULL, port |-> IF ui # NULL THEN ui ELSE new(k).host] = LineSaid(row)
      BY <3>1, <2>6 DEF LineSaid, PortSaid
    <3> QED BY <3>1, <3>2, <2>1
  <2>9. rows' \in TablesOf(s)
    <3>1. [k \in Containers |-> IF k \in s THEN row ELSE rows[k]] \in TablesOf(s)
      BY <1>2, <1>3, <2>5, <2>6, OneRow
    <3> QED BY <3>1, <2>8
  <2>10. LineSaid(row) \in Lines
    BY <2>4, <2>6, <1>3 DEF LineSaid, PortSaid, Lines, Line
  <2> HIDE DEF lines
  <2>11. lines \in Partial(Lines) /\ DOMAIN lines = s
    BY <1>2, <2>8, <2>10, PartialMade
  <2>12. next \in Call
    BY <1>2, <2>11 DEF Call, PortSteps, Deploying
  <2>13. /\ next.op = req[r].op /\ next.svc = s /\ next.alone = req[r].alone /\ next.pc = "lb_down" /\ next.lines = lines
    BY <1>2 DEF Call
  <2> HIDE DEF next
  <2>14. Fits(next)
    BY <1>2, <1>3, <2>11, <2>13 DEF Fits, Switching, Deploying, DeployOps, WithSnap, WithAlloc, Remaking, WithLinesOf
  <2>15. \A k \in s : rows'[k] # NULL
    BY <1>2, <2>6, <2>8, RowFacts
  <2>16. \A k \in s : SteadyAt(next, k, rows'[k], cont[k])
    BY <2>13, <2>15 DEF SteadyAt, WithAlloc, Remaking
  <2>17. status'[s] # "absent"
    BY <1>0, <1>5
  <2> QED BY <1>0, <1>1, <1>2, <1>3, <2>1, <2>9, <2>12, <2>13, <2>14, <2>16, <2>17, Unmoved, CalmKeeps
<1> QED BY <1>4, <1>5

-----------------------------------------------------------------------------
(* Ports: requests that arrive.                                              *)

LEMMA AloneApart ==
  ASSUME NEW q \in Call
  PROVE  \A alone \in BOOLEAN :
           /\ [q EXCEPT !.alone = alone] \in Call /\ (Fits(q) => Fits([q EXCEPT !.alone = alone]))
           /\ [q EXCEPT !.alone = alone].pc = q.pc /\ [q EXCEPT !.alone = alone].op = q.op
           /\ [q EXCEPT !.alone = alone].svc = q.svc /\ [q EXCEPT !.alone = alone].alone = alone
<1> TAKE alone \in BOOLEAN
<1> DEFINE z == [q EXCEPT !.alone = alone]
<1>1. z \in Call
  BY DEF Call
<1>2. /\ z.pc = q.pc /\ z.op = q.op /\ z.svc = q.svc /\ z.on = q.on /\ z.targets = q.targets /\ z.snap = q.snap
      /\ z.seen = q.seen /\ z.upd = q.upd /\ z.alloc = q.alloc /\ z.left = q.left /\ z.cur = q.cur /\ z.binds = q.binds
      /\ z.vol = q.vol /\ z.lines = q.lines /\ z.alone = alone
  BY DEF Call
<1> HIDE DEF z
<1>3. Fits(q) => Fits(z)
  BY <1>2 DEF Fits
<1>4. z \in Call /\ (Fits(q) => Fits(z)) /\ z.pc = q.pc /\ z.op = q.op /\ z.svc = q.svc /\ z.alone = alone
  BY <1>1, <1>2, <1>3
<1> QED BY <1>4 DEF z

LEMMA AloneSteady ==
  ASSUME NEW q \in Call, NEW k, NEW x, NEW c, SteadyAt(q, k, x, c)
  PROVE  \A alone \in BOOLEAN : SteadyAt([q EXCEPT !.alone = alone], k, x, c)
<1> TAKE alone \in BOOLEAN
<1> DEFINE z == [q EXCEPT !.alone = alone]
<1>1. /\ z.pc = q.pc /\ z.op = q.op /\ z.svc = q.svc /\ z.on = q.on /\ z.targets = q.targets /\ z.snap = q.snap
      /\ z.seen = q.seen /\ z.upd = q.upd /\ z.alloc = q.alloc /\ z.left = q.left /\ z.cur = q.cur /\ z.binds = q.binds
      /\ z.vol = q.vol /\ z.lines = q.lines
  BY DEF Call
<1> HIDE DEF z
<1>2. SteadyAt(z, k, x, c)
  BY <1>1 DEF SteadyAt
<1> QED BY <1>2 DEF z

LEMMA ArrivesKeeps ==
  ASSUME PortsInv, NEW r \in Calls, NEW s \in Stacks, NEW op \in PortOps, NEW local \in Call, Arrives(r, op, s, local),
         local.pc \notin {"new", "remove", "create", "extract", "image"},
         UNCHANGED <<foreign, events>>, cont' = cont \/ cont' = Downed(s),
         rows' \in TablesOf(s), HostsKept(s) \/ Single(s),
         yaml' \in [Containers -> Line \cup {NULL, NOFILE}], \A k \in Containers \ s : yaml'[k] = yaml[k],
         status' \in [Stacks -> Statuses], \A t \in Stacks \ {s} : status'[t] = status[t],
         status'[s] = "absent" => \A k \in s : rows'[k] = NULL,
         NEW q \in Call, q = [local EXCEPT !.op = op, !.svc = s], Fits(q),
         \A k \in s : SteadyAt(q, k, rows'[k], cont'[k])
  PROVE  \E x \in Stacks : Keeps(r, x)
<1> DEFINE alone == \A x \in Calls \ {r} : ~(Active(x) /\ req[x].svc = s)
           z == [q EXCEPT !.alone = alone]
<1>0. /\ req[r].pc = "new" /\ settled' = [settled EXCEPT ![s] = "no"]
      /\ req' = [x \in Calls |->
           IF x = r THEN [local EXCEPT !.op = op, !.svc = s, !.alone = alone]
           ELSE IF Active(x) /\ req[x].svc = s THEN [req[x] EXCEPT !.alone = FALSE] ELSE req[x]]
  BY DEF Arrives
<1>1. [local EXCEPT !.op = op, !.svc = s, !.alone = alone] = z
  <2> HIDE DEF alone
  <2> QED OBVIOUS
<1>2. alone \in BOOLEAN
  OBVIOUS
<1>3. req'[r] = z
  BY <1>0, <1>1
<1>4. /\ z \in Call /\ Fits(z) /\ z.pc = q.pc /\ z.op = q.op /\ z.svc = q.svc /\ z.alone = alone
      /\ \A k \in s : SteadyAt(z, k, rows'[k], cont'[k])
  <2> HIDE DEF alone
  <2>1. /\ z \in Call /\ z.pc = q.pc /\ z.op = q.op /\ z.svc = q.svc /\ z.alone = alone
        /\ Fits(z)
    <3>1. \A a \in BOOLEAN :
            /\ [q EXCEPT !.alone = a] \in Call /\ (Fits(q) => Fits([q EXCEPT !.alone = a]))
            /\ [q EXCEPT !.alone = a].pc = q.pc /\ [q EXCEPT !.alone = a].op = q.op
            /\ [q EXCEPT !.alone = a].svc = q.svc /\ [q EXCEPT !.alone = a].alone = a
      BY AloneApart
    <3> QED BY <3>1, <1>2
  <2>2. ASSUME NEW k \in s
        PROVE  SteadyAt(z, k, rows'[k], cont'[k])
    <3>1. SteadyAt(q, k, rows'[k], cont'[k])
      OBVIOUS
    <3>2. \A a \in BOOLEAN : SteadyAt([q EXCEPT !.alone = a], k, rows'[k], cont'[k])
      BY <3>1, AloneSteady
    <3> QED BY <3>2, <1>2
  <2> HIDE DEF z
  <2> QED BY <2>1, <2>2
<1>5. q.op = op /\ q.svc = s /\ q.pc = local.pc
  BY DEF Call
<1>6. req' \in [Calls -> Call]
  <2> DEFINE f(x) == IF x = r THEN z ELSE IF Active(x) /\ req[x].svc = s THEN [req[x] EXCEPT !.alone = FALSE] ELSE req[x]
  <2>1. \A x \in Calls : req[x] \in Call
    BY DEF PortsInv, TablesTyped
  <2>2. \A x \in Calls : [req[x] EXCEPT !.alone = FALSE] \in Call
    BY <2>1, ZenonT(40) DEF Call
  <2>3. \A x \in Calls : f(x) \in Call
    <3> HIDE DEF z
    <3> QED BY <2>1, <2>2, <1>4
  <2>4. req' = [x \in Calls |-> f(x)]
    BY <1>0, <1>1
  <2> HIDE DEF f
  <2> QED BY <2>3, <2>4
<1>7. /\ \A x \in Calls \ {r} : req'[x] = IF Active(x) /\ req[x].svc = s THEN [req[x] EXCEPT !.alone = FALSE] ELSE req[x]
  BY <1>0
<1> HIDE DEF z
<1>8. settled' \in [Stacks -> Settlements] /\ settled'[s] = "no" /\ \A t \in Stacks \ {s} : settled'[t] = settled[t]
  BY <1>0, TablesAre DEF Settlements
<1>9. Enters(r, s)
  BY <1>0, <1>3, <1>4, <1>5, <1>7, <1>8 DEF Enters
<1>10. /\ cont' \in [Containers -> Container \cup {NULL}] /\ (\A k \in Containers \ s : cont'[k] = cont[k])
       /\ \A k \in s : cont'[k] = cont[k] \/ cont'[k] = NULL
  BY DownedIs, TablesAre
<1>11. TablesTyped'
  BY <1>6, <1>8, <1>10, TablesAre DEF TablesTyped, TablesOf, PortTables, UniqueHosts
<1>12. Elsewhere(s)
  BY <1>8, <1>10 DEF Elsewhere, TablesOf
<1>13. VolumesKept(r, s)
  <2>1. \A k \in s : cont[k] # NULL => Volume(cont[k].vol)
    BY StackFacts DEF PortsInv, VolumesOK
  <2> QED BY <2>1, <1>3, <1>4, <1>5, <1>10 DEF VolumesKept
<1>14. TwiceKept(r, s)
  BY <1>3, <1>4, <1>5, <1>10 DEF TwiceKept, Twice
<1>15. AtRest(r, s)
  BY <1>8 DEF AtRest
<1> QED BY <1>3, <1>4, <1>9, <1>11, <1>12, <1>13, <1>14, <1>15 DEF Keeps

\* A request that arrives, and at most takes the stack down.
LEMMA ArrivesUnmoved ==
  ASSUME PortsInv, NEW r \in Calls, NEW s \in Stacks, NEW op \in PortOps, NEW local \in Call, Arrives(r, op, s, local),
         local.pc \notin {"new", "remove", "create", "extract", "image"},
         UNCHANGED <<rows, yaml, status, foreign, events>>, cont' = cont \/ cont' = Downed(s),
         NEW q \in Call, q = [local EXCEPT !.op = op, !.svc = s], Fits(q),
         \A k \in s : SteadyAt(q, k, rows[k], cont'[k])
  PROVE  \E x \in Stacks : Keeps(r, x)
<1>1. rows' \in TablesOf(s) /\ HostsKept(s)
  BY TablesAre DEF TablesOf, HostsKept
<1>2. status'[s] = "absent" => \A k \in s : rows'[k] = NULL
  BY DEF PortsInv, AbsentOK
<1>3. yaml' \in [Containers -> Line \cup {NULL, NOFILE}] /\ status' \in [Stacks -> Statuses]
  BY TablesAre
<1>4. (\A k \in Containers \ s : yaml'[k] = yaml[k]) /\ (\A t \in Stacks \ {s} : status'[t] = status[t])
  OBVIOUS
<1>5. \A k \in s : SteadyAt(q, k, rows'[k], cont'[k])
  OBVIOUS
<1>6. UNCHANGED <<foreign, events>>
  OBVIOUS
<1> QED BY <1>1, <1>2, <1>3, <1>4, <1>5, <1>6, ArrivesKeeps

\* A local state whose only step is pc, with the fields given.
LEMMA SyncKeeps ==
  ASSUME PortsInv, NEW r \in Calls, NEW s \in Stacks, Sync(r, s)
  PROVE  \E x \in Stacks : Keeps(r, x)
<1> DEFINE local == [NoCall EXCEPT !.pc = "compute", !.seen = Bindings(s)]
           q == [local EXCEPT !.op = "sync", !.svc = s]
<1>0. Arrives(r, "sync", s, local) /\ UNCHANGED <<rows, cont, yaml, status, foreign, events>>
  BY DEF Sync
<1>2. /\ Bindings(s) \in Partial(SUBSET Binding) /\ DOMAIN Bindings(s) \subseteq s
      /\ \A k \in s : (k \in DOMAIN Bindings(s) <=> cont[k] # NULL) /\ (cont[k] # NULL => Bindings(s)[k] = cont[k].binds)
  <2>1. s \in SUBSET Containers
    BY StackFacts
  <2>2. Bindings(s) \in [{j \in s : cont[j] # NULL} -> SUBSET Binding]
    BY <2>1, PublishedPorts DEF Bindings
  <2>3. Bindings(s) \in Partial(SUBSET Binding)
    BY <2>1, <2>2, PartialMade
  <2> QED BY <2>3 DEF Bindings
<1>3. local \in Call /\ local.pc = "compute" /\ local.seen = Bindings(s)
  BY <1>2, NoCallTyped DEF Call, PortSteps
<1> HIDE DEF local
<1>4. q \in Call /\ q.pc = "compute" /\ q.op = "sync" /\ q.svc = s /\ q.seen = Bindings(s)
  <2>1. s \in SUBSET Containers
    BY StackFacts
  <2> QED BY <1>3, <2>1 DEF Call, PortOps
<1>5. q = [local EXCEPT !.op = "sync", !.svc = s]
  OBVIOUS
<1> HIDE DEF q
<1>6. Fits(q)
  BY <1>2, <1>4 DEF Fits, Switching, Deploying, WithSnap, WithAlloc, Remaking, WithLinesOf
<1>7. \A k \in s : SteadyAt(q, k, rows[k], cont'[k])
  BY <1>0, <1>2, <1>4 DEF SteadyAt, WithAlloc, Remaking
<1>8. "sync" \in PortOps
  BY DEF PortOps
<1> QED BY <1>0, <1>3, <1>4, <1>5, <1>6, <1>7, <1>8, ArrivesUnmoved

LEMMA SetPortPublicKeeps ==
  ASSUME PortsInv, NEW r \in Calls, NEW s \in Stacks, NEW targets \in {s, {First(s)}}, NEW on \in BOOLEAN,
         NEW ui \in PortNumbers \cup {NULL}, SetPortPublic(r, s, targets, on, ui)
  PROVE  \E x \in Stacks : Keeps(r, x)
<1> DEFINE base == [NoCall EXCEPT !.targets = targets, !.on = on, !.ui = ui]
           local == IF Bindings(s) = <<>> THEN [base EXCEPT !.pc = "target"]
                    ELSE [base EXCEPT !.pc = "compute", !.seen = Bindings(s)]
           q == [local EXCEPT !.op = "toggle", !.svc = s]
<1>0. Arrives(r, "toggle", s, local) /\ UNCHANGED <<rows, cont, yaml, status, foreign, events>>
  BY DEF SetPortPublic
<1>2. /\ Bindings(s) \in Partial(SUBSET Binding) /\ DOMAIN Bindings(s) \subseteq s
      /\ \A k \in s : (k \in DOMAIN Bindings(s) <=> cont[k] # NULL) /\ (cont[k] # NULL => Bindings(s)[k] = cont[k].binds)
  <2>1. s \in SUBSET Containers
    BY StackFacts
  <2>2. Bindings(s) \in [{j \in s : cont[j] # NULL} -> SUBSET Binding]
    BY <2>1, PublishedPorts DEF Bindings
  <2>3. Bindings(s) \in Partial(SUBSET Binding)
    BY <2>1, <2>2, PartialMade
  <2> QED BY <2>3 DEF Bindings
<1>3. /\ local \in Call /\ local.pc \in {"target", "compute"} /\ (local.pc = "compute" => local.seen = Bindings(s))
  <2>1. targets \in SUBSET Containers
    BY StackFacts, FirstIn
  <2>2. base \in Call
    BY <2>1, NoCallTyped DEF Call
  <2> HIDE DEF base
  <2>3. CASE Bindings(s) = <<>>
    <3>1. local = [base EXCEPT !.pc = "target"]
      BY <2>3
    <3> QED BY <2>2, <3>1 DEF Call, PortSteps, Switching
  <2>4. CASE Bindings(s) # <<>>
    <3>1. local = [base EXCEPT !.pc = "compute", !.seen = Bindings(s)]
      BY <2>4
    <3> QED BY <1>2, <2>2, <3>1, ZenonT(40) DEF Call, PortSteps, Switching
  <2> QED BY <2>3, <2>4
<1> HIDE DEF local
<1>4. q \in Call /\ q.pc = local.pc /\ q.op = "toggle" /\ q.svc = s /\ q.seen = local.seen
  <2>1. s \in SUBSET Containers
    BY StackFacts
  <2> QED BY <1>3, <2>1 DEF Call, PortOps
<1>5. q = [local EXCEPT !.op = "toggle", !.svc = s]
  OBVIOUS
<1> HIDE DEF q
<1>6. Fits(q)
  BY <1>2, <1>3, <1>4 DEF Fits, Switching, Deploying, WithSnap, WithAlloc, Remaking, WithLinesOf
<1>7. \A k \in s : SteadyAt(q, k, rows[k], cont'[k])
  BY <1>0, <1>2, <1>3, <1>4 DEF SteadyAt, WithAlloc, Remaking
<1>8. "toggle" \in PortOps
  BY DEF PortOps
<1> QED BY <1>0, <1>3, <1>4, <1>5, <1>6, <1>7, <1>8, ArrivesUnmoved

\* A request that comes with a step, the lines of a file and a port, and no more.
Plain(s, op, local) ==
  /\ local.pc \in {"down", "delete", "own", "compose", "sources", "inject", "done"}
  /\ local.pc \in {"down", "compose", "sources", "inject"} => DOMAIN local.lines = s /\ op \in DeployOps \ {"balance"}
  /\ local.pc = "own" => op = "balance"
  /\ op = "balance" => Single(s)

LEMMA PlainCall ==
  ASSUME NEW s \in Stacks, NEW op \in PortOps, NEW local \in Call, Plain(s, op, local),
         NEW q, q = [local EXCEPT !.op = op, !.svc = s]
  PROVE  /\ q \in Call /\ local.pc \notin {"new", "remove", "create", "extract", "image"}
         /\ Fits(q) /\ \A k, x, c : SteadyAt(q, k, x, c)
<1>1. s \in SUBSET Containers
  BY StackFacts
<1>2. q \in Call /\ q.pc = local.pc /\ q.op = op /\ q.svc = s /\ q.lines = local.lines
  BY <1>1 DEF Call
<1>3. Fits(q)
  BY <1>2 DEF Plain, Fits, Switching, Deploying, WithSnap, WithAlloc, Remaking, WithLinesOf
<1>4. \A k, x, c : SteadyAt(q, k, x, c)
  BY <1>2 DEF Plain, SteadyAt, WithAlloc, Remaking, DeployOps
<1> QED BY <1>2, <1>3, <1>4 DEF Plain

LEMMA RedeployKeeps ==
  ASSUME PortsInv, NEW r \in Calls, NEW s \in Stacks, Redeploy(r, s)
  PROVE  \E x \in Stacks : Keeps(r, x)
<1> DEFINE lines == [k \in s |-> yaml[k]]
           local == [NoCall EXCEPT !.pc = "down", !.lines = lines]
           q == [local EXCEPT !.op = "redeploy", !.svc = s]
<1>0. Arrives(r, "redeploy", s, local) /\ UNCHANGED <<rows, cont, yaml, status, foreign, events>> /\ \A k \in s : yaml[k] # NOFILE
  BY DEF Redeploy
<1>2. lines \in Partial(Lines) /\ DOMAIN lines = s
  <2>1. s \in SUBSET Containers
    BY StackFacts
  <2>2. lines \in [s -> Lines]
    BY <1>0, <2>1, TablesAre DEF Lines
  <2> QED BY <2>1, <2>2, PartialMade
<1> HIDE DEF lines
<1>3. local \in Call /\ local.pc = "down" /\ local.lines = lines
  BY <1>2, NoCallTyped DEF NoCall, Call, PortSteps, Deploying
<1> HIDE DEF local
<1>4. q = [local EXCEPT !.op = "redeploy", !.svc = s]
  OBVIOUS
<1> HIDE DEF q
<1>5. "redeploy" \in PortOps /\ "redeploy" \in DeployOps \ {"balance"}
  BY DEF PortOps, DeployOps
<1>20. Plain(s, "redeploy", local)
  BY <1>2, <1>3, <1>5 DEF Plain
<1>6. /\ q \in Call /\ local.pc \notin {"new", "remove", "create", "extract", "image"}
      /\ Fits(q) /\ \A k, x, c : SteadyAt(q, k, x, c)
  BY <1>3, <1>4, <1>5, <1>20, PlainCall
<1> QED BY <1>0, <1>3, <1>4, <1>5, <1>6, ArrivesUnmoved

LEMMA LoadBalanceKeeps ==
  ASSUME PortsInv, NEW r \in Calls, NEW s \in Stacks, LoadBalance(r, s)
  PROVE  \E x \in Stacks : Keeps(r, x)
<1> DEFINE open == {rows[k].pport : k \in {j \in RowsOf(s) : rows[j].pub}} \ {NULL}
           ui == IF open = {} THEN NULL ELSE CHOOSE p \in open : TRUE
           local == [NoCall EXCEPT !.pc = "own", !.ui = ui]
           q == [local EXCEPT !.op = "balance", !.svc = s]
<1>0. Arrives(r, "balance", s, local) /\ UNCHANGED <<rows, cont, yaml, status, foreign, events>> /\ Single(s)
  BY DEF LoadBalance, Balanceable
<1>2. ui \in PortNumbers \cup {NULL}
  <2>1. \A k \in RowsOf(s) : rows[k].pport \in PortNumbers \cup {NULL}
    BY StackFacts, TablesAre, RowFacts DEF RowsOf
  <2>2. open \subseteq PortNumbers
    BY <2>1
  <2> HIDE DEF open
  <2> QED BY <2>2
<1> HIDE DEF ui
<1>3. local \in Call /\ local.pc = "own" /\ local.lines = <<>>
  BY <1>2, NoCallTyped DEF NoCall, Call, PortSteps, Deploying
<1> HIDE DEF local
<1>4. q = [local EXCEPT !.op = "balance", !.svc = s]
  OBVIOUS
<1> HIDE DEF q
<1>5. "balance" \in PortOps
  BY DEF PortOps, DeployOps
<1>20. Plain(s, "balance", local)
  BY <1>0, <1>3 DEF Plain
<1>6. /\ q \in Call /\ local.pc \notin {"new", "remove", "create", "extract", "image"}
      /\ Fits(q) /\ \A k, x, c : SteadyAt(q, k, x, c)
  BY <1>3, <1>4, <1>5, <1>20, PlainCall
<1> QED BY <1>0, <1>3, <1>4, <1>5, <1>6, ArrivesUnmoved

LEMMA RemoveKeeps ==
  ASSUME PortsInv, NEW r \in Calls, NEW s \in Stacks, RemoveService(r, s)
  PROVE  \E x \in Stacks : Keeps(r, x)
<1> DEFINE local == [NoCall EXCEPT !.pc = "delete"]
           q == [local EXCEPT !.op = "remove", !.svc = s]
<1>0. Arrives(r, "remove", s, local) /\ UNCHANGED <<rows, yaml, status, foreign, events>> /\ cont' = Downed(s)
  BY DEF RemoveService
<1>3. local \in Call /\ local.pc = "delete" /\ local.lines = <<>>
  BY NoCallTyped DEF NoCall, Call, PortSteps, Deploying
<1> HIDE DEF local
<1>4. q = [local EXCEPT !.op = "remove", !.svc = s]
  OBVIOUS
<1> HIDE DEF q
<1>5. "remove" \in PortOps
  BY DEF PortOps
<1>20. Plain(s, "remove", local)
  BY <1>3 DEF Plain
<1>6. /\ q \in Call /\ local.pc \notin {"new", "remove", "create", "extract", "image"}
      /\ Fits(q) /\ \A k, x, c : SteadyAt(q, k, x, c)
  BY <1>3, <1>4, <1>5, <1>20, PlainCall
<1> QED BY <1>0, <1>3, <1>4, <1>5, <1>6, ArrivesUnmoved

LEMMA CreateComposeKeeps ==
  ASSUME PortsInv, NEW r \in Calls, NEW s \in Stacks, CreateCompose(r, s)
  PROVE  \E x \in Stacks : Keeps(r, x)
<1>1. PICK lines \in [s -> {NULL} \cup [any : BOOLEAN, port : Contested]] :
        /\ Arrives(r, "create_compose", s, [NoCall EXCEPT !.pc = "inject", !.lines = lines])
        /\ yaml' = WithLines(s, lines)
  BY DEF CreateCompose
<1> DEFINE local == [NoCall EXCEPT !.pc = "inject", !.lines = lines]
           q == [local EXCEPT !.op = "create_compose", !.svc = s]
<1>0. /\ Arrives(r, "create_compose", s, local) /\ UNCHANGED <<rows, cont, foreign, events>>
      /\ status' = [status EXCEPT ![s] = "deploying"]
  BY <1>1 DEF CreateCompose
<1>2. rows' \in TablesOf(s) /\ HostsKept(s)
  BY <1>0, Unmoved
<1>3. lines \in Partial(Lines) /\ DOMAIN lines = s /\ \A k \in s : lines[k] \in Line \cup {NULL}
  <2>1. s \in SUBSET Containers
    BY StackFacts
  <2>2. Contested \subseteq PortNumbers
    BY PortsConstants DEF Contested
  <2>3. [any : BOOLEAN, port : Contested] \subseteq Line
    BY <2>2 DEF Line
  <2>4. lines \in [s -> Lines]
    BY <2>3 DEF Lines
  <2> QED BY <2>1, <2>4, PartialMade DEF Lines
<1>4. yaml' \in [Containers -> Line \cup {NULL, NOFILE}] /\ \A k \in Containers \ s : yaml'[k] = yaml[k]
  BY <1>1, <1>3, TablesAre DEF WithLines
<1>5. /\ status' \in [Stacks -> Statuses] /\ (\A t \in Stacks \ {s} : status'[t] = status[t]) /\ status'[s] # "absent"
  BY <1>0, TablesAre DEF Statuses
<1>6. local \in Call /\ local.pc = "inject" /\ local.lines = lines
  BY <1>3, NoCallTyped DEF NoCall, Call, PortSteps, Deploying
<1> HIDE DEF local
<1>7. q = [local EXCEPT !.op = "create_compose", !.svc = s]
  OBVIOUS
<1> HIDE DEF q
<1>8. "create_compose" \in PortOps /\ "create_compose" \in DeployOps \ {"balance"}
  BY DEF PortOps, DeployOps
<1>20. Plain(s, "create_compose", local)
  BY <1>3, <1>6, <1>8 DEF Plain
<1>9. /\ q \in Call /\ local.pc \notin {"new", "remove", "create", "extract", "image"}
      /\ Fits(q) /\ \A k, x, c : SteadyAt(q, k, x, c)
  BY <1>6, <1>7, <1>8, <1>20, PlainCall
<1> QED BY <1>6, <1>0, <1>2, <1>4, <1>5, <1>7, <1>8, <1>9, ArrivesKeeps

\* A service written down with a port of its own, or refused.
LEMMA RegisteredKeeps ==
  ASSUME PortsInv, NEW r \in Calls, NEW s \in Stacks, Single(s), NEW op \in PortOps \ {"balance"}, NEW granted,
         NEW st \in Statuses \ {"absent"}, NEW pc, Registered(r, op, s, granted, st, pc),
         \A x \in granted : x \in PortNumbers /\ \A j \in Containers : rows[j] # NULL => rows[j].host # x,
         pc = "done" \/ (pc \in {"compose", "sources"} /\ op \in DeployOps),
         UNCHANGED <<cont, yaml, foreign, events>>
  PROVE  \E x \in Stacks : Keeps(r, x)
<1>1. CASE granted = {}
  <2> DEFINE local == [NoCall EXCEPT !.pc = "done"]
             q == [local EXCEPT !.op = op, !.svc = s]
  <2>1. Arrives(r, op, s, local) /\ UNCHANGED <<rows, status>>
    BY <1>1 DEF Registered
  <2>2. local \in Call /\ local.pc = "done"
    BY NoCallTyped DEF Call, PortSteps
  <2> HIDE DEF local
  <2>3. q = [local EXCEPT !.op = op, !.svc = s]
    OBVIOUS
  <2> HIDE DEF q
  <2>4. Plain(s, op, local)
    BY <2>2 DEF Plain
  <2>5. /\ q \in Call /\ local.pc \notin {"new", "remove", "create", "extract", "image"}
        /\ Fits(q) /\ \A k, x, c : SteadyAt(q, k, x, c)
    BY <2>2, <2>3, <2>4, PlainCall
  <2>6. UNCHANGED <<rows, yaml, status, foreign, events>> /\ cont' = cont /\ op \in PortOps
    BY <2>1
  <2> QED BY <2>1, <2>2, <2>3, <2>5, <2>6, ArrivesUnmoved
<1>2. CASE granted # {}
  <2>1. PICK p : p = (CHOOSE x \in granted : TRUE) /\ p \in granted
    BY <1>2
  <2> DEFINE line == [any |-> FALSE, port |-> p]
             lines == IF pc = "done" THEN <<>> ELSE [k \in s |-> line]
             local == [NoCall EXCEPT !.pc = pc, !.lines = lines]
             q == [local EXCEPT !.op = op, !.svc = s]
  <2>2. /\ Arrives(r, op, s, local) /\ rows' = [k \in Containers |-> IF k \in s THEN NewRow(p) ELSE rows[k]]
        /\ status' = [status EXCEPT ![s] = st]
    BY <1>2, <2>1 DEF Registered
  <2>3. NewRow(p) \in RowValue /\ NewRow(p).host = p /\ \A j \in Containers \ s : rows[j] # NULL => rows[j].host # p
    BY <2>1, NewRowIs
  <2>4. rows' \in TablesOf(s)
    <3>1. [k \in Containers |-> IF k \in s THEN NewRow(p) ELSE rows[k]] \in TablesOf(s)
      BY <2>3, OneRow
    <3> QED BY <2>2, <3>1
  <2>5. line \in Lines
    BY <2>1 DEF Lines, Line
  <2> HIDE DEF line
  <2>6. lines \in Partial(Lines) /\ (pc # "done" => DOMAIN lines = s)
    <3>1. s \in SUBSET Containers
      BY StackFacts
    <3>2. CASE pc = "done"
      BY <3>2, EmptyPartial
    <3>3. CASE pc # "done"
      <4>1. [k \in s |-> line] \in [s -> Lines]
        BY <2>5
      <4> QED BY <3>1, <3>3, <4>1, PartialMade
    <3> QED BY <3>2, <3>3
  <2> HIDE DEF lines
  <2>7. local \in Call /\ local.pc = pc /\ local.lines = lines
    <3>1. pc \in PortSteps
      BY DEF PortSteps, Deploying
    <3>2. [NoCall EXCEPT !.pc = pc, !.lines = lines].pc = pc /\ [NoCall EXCEPT !.pc = pc, !.lines = lines].lines = lines
      BY DEF NoCall
    <3> QED BY <2>6, <3>1, <3>2, NoCallTyped DEF Call
  <2> HIDE DEF local
  <2>8. q = [local EXCEPT !.op = op, !.svc = s]
    OBVIOUS
  <2> HIDE DEF q
  <2>9. Plain(s, op, local)
    BY <2>6, <2>7 DEF Plain
  <2>10. /\ q \in Call /\ local.pc \notin {"new", "remove", "create", "extract", "image"}
         /\ Fits(q) /\ \A k, x, c : SteadyAt(q, k, x, c)
    BY <2>7, <2>8, <2>9, PlainCall
  <2>11. status' \in [Stacks -> Statuses] /\ (\A t \in Stacks \ {s} : status'[t] = status[t]) /\ status'[s] # "absent"
    BY <2>2, TablesAre
  <2>12. yaml' \in [Containers -> Line \cup {NULL, NOFILE}] /\ (\A k \in Containers \ s : yaml'[k] = yaml[k]) /\ cont' = cont
         /\ UNCHANGED <<foreign, events>> /\ op \in PortOps
    BY TablesAre
  <2> QED BY <2>2, <2>4, <2>7, <2>8, <2>10, <2>11, <2>12, ArrivesKeeps
<1> QED BY <1>1, <1>2

LEMMA CreateKeeps ==
  ASSUME PortsInv, NEW r \in Calls, NEW s \in Stacks, Create(r, s)
  PROVE  \E x \in Stacks : Keeps(r, x)
<1>0. s \in SUBSET Containers
  BY StackFacts
<1>1. \A k \in Containers : \A requested \in PortNumbers \cup {NULL} : \A x \in allocate_ports(k, rows, requested, FALSE, {}) :
        x \in PortNumbers /\ \A j \in Containers : rows[j] # NULL => rows[j].host # x
  BY GrantedFree
<1>2. CASE CreateCompose(r, s)
  BY <1>2, CreateComposeKeeps
<1>3. CASE CreateAllocated(r, s)
  <2>1. Single(s) /\ UNCHANGED <<cont, yaml, foreign, events>>
    BY <1>3 DEF CreateAllocated
  <2>2. PICK k \in s, requested \in Contested \cup {NULL} :
          Registered(r, "create", s, allocate_ports(k, rows, requested, FALSE, {}), "deploying", "compose")
    BY <1>3 DEF CreateAllocated
  <2>3. requested \in PortNumbers \cup {NULL}
    BY PortsConstants DEF Contested
  <2>4. \A x \in allocate_ports(k, rows, requested, FALSE, {}) :
          x \in PortNumbers /\ \A j \in Containers : rows[j] # NULL => rows[j].host # x
    BY <1>0, <1>1, <2>3
  <2>5. "create" \in PortOps \ {"balance"} /\ "create" \in DeployOps /\ "deploying" \in Statuses \ {"absent"}
    BY DEF PortOps, DeployOps, Statuses
  <2> QED BY <2>1, <2>2, <2>4, <2>5, RegisteredKeeps
<1>4. ASSUME NEW op \in {"dockerfile", "git"}, Single(s), UNCHANGED <<cont, yaml, foreign, events>>, NEW k \in s,
             Registered(r, op, s, allocate_ports(k, rows, NULL, FALSE, {}), "deploying", "sources")
      PROVE  \E x \in Stacks : Keeps(r, x)
  <2>1. \A x \in allocate_ports(k, rows, NULL, FALSE, {}) :
          x \in PortNumbers /\ \A j \in Containers : rows[j] # NULL => rows[j].host # x
    BY <1>0, <1>1
  <2>2. op \in PortOps \ {"balance"} /\ op \in DeployOps /\ "deploying" \in Statuses \ {"absent"}
    BY DEF PortOps, DeployOps, Statuses
  <2> QED BY <1>4, <2>1, <2>2, RegisteredKeeps
<1>5. CASE CreateDockerfile(r, s)
  BY <1>4, <1>5 DEF CreateDockerfile
<1>6. CASE CreateGitDeploy(r, s)
  BY <1>4, <1>6 DEF CreateGitDeploy
<1>7. ASSUME NEW op \in {"deferred", "github_app"}, Deferred(r, op, s)
      PROVE  \E x \in Stacks : Keeps(r, x)
  <2>0. op \in PortOps \ {"balance"} /\ "created" \in Statuses \ {"absent"}
    BY DEF PortOps, Statuses
  <2>1. UNCHANGED <<cont, yaml, foreign, events>>
    BY <1>7 DEF Deferred
  <2>2. ASSUME Single(s), NEW k \in s, Registered(r, op, s, allocate_ports(k, rows, NULL, FALSE, {}), "created", "done")
        PROVE  \E x \in Stacks : Keeps(r, x)
    <3>1. \A x \in allocate_ports(k, rows, NULL, FALSE, {}) :
            x \in PortNumbers /\ \A j \in Containers : rows[j] # NULL => rows[j].host # x
      BY <1>0, <1>1
    <3> QED BY <2>0, <2>1, <2>2, <3>1, RegisteredKeeps
  <2>3. ASSUME Arrives(r, op, s, [NoCall EXCEPT !.pc = "done"]), status' = [status EXCEPT ![s] = "created"], UNCHANGED rows
        PROVE  \E x \in Stacks : Keeps(r, x)
    <3> DEFINE local == [NoCall EXCEPT !.pc = "done"]
               q == [local EXCEPT !.op = op, !.svc = s]
    <3>1. Arrives(r, op, s, local)
      BY <2>3
    <3>2. local \in Call /\ local.pc = "done"
      BY NoCallTyped DEF Call, PortSteps
    <3> HIDE DEF local
    <3>3. q = [local EXCEPT !.op = op, !.svc = s]
      OBVIOUS
    <3> HIDE DEF q
    <3>4. Plain(s, op, local)
      BY <3>2 DEF Plain
    <3>5. /\ q \in Call /\ local.pc \notin {"new", "remove", "create", "extract", "image"}
          /\ Fits(q) /\ \A k, x, c : SteadyAt(q, k, x, c)
      BY <2>0, <3>2, <3>3, <3>4, PlainCall
    <3>6. status' \in [Stacks -> Statuses] /\ (\A t \in Stacks \ {s} : status'[t] = status[t]) /\ status'[s] # "absent"
      BY <2>3, <2>0, TablesAre
    <3>7. rows' \in TablesOf(s) /\ HostsKept(s)
      BY <2>3, TablesAre DEF TablesOf, HostsKept
    <3>8. yaml' \in [Containers -> Line \cup {NULL, NOFILE}] /\ (\A k \in Containers \ s : yaml'[k] = yaml[k]) /\ cont' = cont
          /\ UNCHANGED <<foreign, events>> /\ op \in PortOps
      BY <2>0, <2>1, TablesAre
    <3> QED BY <3>1, <3>2, <3>3, <3>5, <3>6, <3>7, <3>8, ArrivesKeeps
  <2> QED BY <1>7, <2>2, <2>3 DEF Deferred
<1>8. CASE CreateDeferred(r, s)
  BY <1>7, <1>8 DEF CreateDeferred
<1>9. CASE CreateGithubApp(r, s)
  BY <1>7, <1>9 DEF CreateGithubApp
<1> QED BY <1>2, <1>3, <1>5, <1>6, <1>8, <1>9 DEF Create

-----------------------------------------------------------------------------
(* Ports: the invariant holds.                                               *)

LEMMA PortsInitInv == PortsInit => PortsInv
<1> SUFFICES ASSUME PortsInit PROVE PortsInv
  OBVIOUS
<1>1. PICK old \in {"private", "open", "untold", "untagged", "absent", "held"}, one \in Containers :
        LET open == IF old \in {"open", "untold"} THEN one ELSE NULL
            known == old = "open"
            tagged == old # "untagged"
            there == IF old = "absent" THEN Containers \ {one} ELSE Containers
        IN
        /\ one = First(StackOf(one)) /\ (old \in {"absent", "open"} => Single(StackOf(one)))
        /\ rows = [k \in Containers |-> IF k \notin there THEN NULL
                     ELSE [host |-> Hosts[k], pub |-> (k = open /\ known),
                           pport |-> IF k = open /\ known THEN PoolEnd ELSE NULL,
                           tagged |-> (tagged /\ ~Single(StackOf(k)))]]
        /\ cont = [k \in Containers |-> IF k \notin there THEN NULL
                     ELSE [binds |-> {Lo(k)} \cup IF k = open THEN {[of |-> k, any |-> TRUE, port |-> PoolEnd]} ELSE {},
                           vol |-> EARLIER, running |-> TRUE]]
        /\ yaml = [k \in Containers |-> IF k \notin there THEN NOFILE
                     ELSE [any |-> FALSE, port |-> Hosts[k]]]
        /\ status = [s \in Stacks |-> IF s \subseteq there THEN "running" ELSE "absent"]
        /\ foreign = IF old = "held" THEN {PoolEnd} ELSE {}
        /\ req = [r \in Calls |-> NoCall]
        /\ settled = [s \in Stacks |-> "no"]
        /\ events = 0
  BY DEF PortsInit
<1> DEFINE open == IF old \in {"open", "untold"} THEN one ELSE NULL
           there == IF old = "absent" THEN Containers \ {one} ELSE Containers
           pub(k) == k = open /\ old = "open"
           row(k) == [host |-> Hosts[k], pub |-> pub(k), pport |-> IF pub(k) THEN PoolEnd ELSE NULL,
                      tagged |-> (old # "untagged" /\ ~Single(StackOf(k)))]
           binds(k) == {Lo(k)} \cup IF k = open THEN {[of |-> k, any |-> TRUE, port |-> PoolEnd]} ELSE {}
           box(k) == [binds |-> binds(k), vol |-> EARLIER, running |-> TRUE]
<1>2. /\ old = "absent" => Single(StackOf(one))
      /\ rows = [k \in Containers |-> IF k \notin there THEN NULL ELSE row(k)]
      /\ cont = [k \in Containers |-> IF k \notin there THEN NULL ELSE box(k)]
      /\ yaml = [k \in Containers |-> IF k \notin there THEN NOFILE ELSE [any |-> FALSE, port |-> Hosts[k]]]
      /\ status = [s \in Stacks |-> IF s \subseteq there THEN "running" ELSE "absent"]
      /\ foreign = IF old = "held" THEN {PoolEnd} ELSE {}
      /\ req = [r \in Calls |-> NoCall]
      /\ settled = [s \in Stacks |-> "no"]
      /\ events = 0
  BY <1>1
<1>3. PoolEnd \in PortNumbers /\ (\A k \in Containers : Hosts[k] \in PortNumbers /\ Hosts[k] # PoolEnd)
      /\ \A j, k \in Containers : j # k => Hosts[j] # Hosts[k]
  BY PortsConstants
<1>4. \A k \in Containers : row(k) \in RowValue /\ row(k).host = Hosts[k]
  <2> TAKE k \in Containers
  <2> DEFINE b == pub(k)
             t == old # "untagged" /\ ~Single(StackOf(k))
  <2>1. b \in BOOLEAN /\ t \in BOOLEAN
    OBVIOUS
  <2> HIDE DEF b, t
  <2>2. \A x, y \in BOOLEAN : [host |-> Hosts[k], pub |-> x, pport |-> IF x THEN PoolEnd ELSE NULL, tagged |-> y] \in RowValue
    BY <1>3, NullIsNone DEF RowValue, PortRow, Telling
  <2>3. [host |-> Hosts[k], pub |-> b, pport |-> IF b THEN PoolEnd ELSE NULL, tagged |-> t] \in RowValue
    BY <2>1, <2>2
  <2> QED BY <2>3 DEF b, t
<1>5. \A k \in Containers : binds(k) \in SUBSET Binding /\ box(k) \in Container /\ box(k).vol = EARLIER /\ box(k).binds = binds(k)
  <2> TAKE k \in Containers
  <2>1. Lo(k) \in Binding /\ [of |-> k, any |-> TRUE, port |-> PoolEnd] \in Binding
    BY <1>3 DEF Lo, Binding
  <2>2. binds(k) \in SUBSET Binding
    <3> HIDE DEF open
    <3> QED BY <2>1
  <2> HIDE DEF binds
  <2> QED BY <2>2 DEF Container
<1> HIDE DEF row
<1>6. TablesTyped
  <2>1. rows \in [Containers -> RowValue \cup {NULL}]
    BY <1>2, <1>4
  <2>2. UniqueHosts(rows)
    BY <1>2, <1>3, <1>4 DEF UniqueHosts
  <2>3. cont \in [Containers -> Container \cup {NULL}]
    <3> HIDE DEF box
    <3> QED BY <1>2, <1>5
  <2>4. yaml \in [Containers -> Line \cup {NULL, NOFILE}]
    BY <1>2, <1>3 DEF Line
  <2>5. status \in [Stacks -> Statuses] /\ settled \in [Stacks -> Settlements]
    BY <1>2 DEF Statuses, Settlements
  <2>6. req \in [Calls -> Call]
    BY <1>2, NoCallTyped
  <2>7. foreign \subseteq PortNumbers /\ events \in 0 .. MaxEvents
    BY <1>2, <1>3, PortsConstants
  <2> QED BY <2>1, <2>2, <2>3, <2>4, <2>5, <2>6, <2>7 DEF TablesTyped, PortTables
<1>7. AbsentOK
  <2> SUFFICES ASSUME NEW s \in Stacks, status[s] = "absent", NEW k \in s
               PROVE  rows[k] = NULL
    BY DEF AbsentOK
  <2>1. s \in SUBSET Containers /\ StackOf(k) = s /\ k \in Containers
    BY StackFacts
  <2>2. old = "absent" /\ one \in s
    BY <1>2, <2>1
  <2>3. StackOf(one) = s
    BY <2>2, StackFacts
  <2>4. PICK x \in Containers : s = {x}
    BY <1>2, <2>2, <2>3, SingleFacts
  <2>5. k = one
    BY <2>2, <2>4
  <2> QED BY <1>2, <2>1, <2>2, <2>5
<1>8. \A r \in Calls : req[r] = NoCall /\ req[r].pc = "new"
  BY <1>2 DEF NoCall
<1>9. FitsOK
  BY <1>8 DEF FitsOK, Fits, NoCall, Switching, Deploying, WithSnap, WithAlloc, Remaking, WithLinesOf
<1>10. VolumesOK
  <2> HIDE DEF box
  <2> QED BY <1>2, <1>5, <1>8, NullIsNoValue DEF VolumesOK, Volume
<1>11. TwiceOK
  <2>1. ASSUME NEW k \in Containers, Twice(k, cont[k])
        PROVE  /\ \A x \in cont[k].binds : x.of = k /\ x.any => x.port = PoolEnd
               /\ \A j \in StackOf(k) \ {k} : rows[j] # NULL => rows[j].host # PoolEnd
    <3>1. cont[k].binds = binds(k)
      BY <1>2, <1>5, <2>1 DEF Twice
    <3>2. \A x \in cont[k].binds : x.of = k /\ x.any => x.port = PoolEnd
      BY <3>1 DEF Lo
    <3>3. \A j \in StackOf(k) : j \in Containers
      BY StackOfFacts, StackFacts
    <3>4. \A j \in Containers : rows[j] # NULL => rows[j].host # PoolEnd
      BY <1>2, <1>3, <1>4
    <3> QED BY <3>2, <3>3, <3>4
  <2> QED BY <1>8, <2>1 DEF TwiceOK
<1>12. QuietOK /\ SteadyOK
  BY <1>8 DEF QuietOK, SteadyOK, Active
<1>13. SettledOK
  <2>1. \A s \in Stacks : settled[s] = "no"
    BY <1>2
  <2> QED BY <2>1 DEF SettledOK, SettledAt
<1> QED BY <1>6, <1>7, <1>9, <1>10, <1>11, <1>12, <1>13 DEF PortsInv

LEMMA PortsStepInv ==
  ASSUME PortsInv, NEW r \in Calls, CallStep(r)
  PROVE  \E x \in Stacks : Keeps(r, x)
<1>1. CASE SyncCompute(r) \/ SyncWrite(r)
  BY <1>1, SyncComputeKeeps, SyncWriteKeeps
<1>2. CASE Target(r) \/ CheckConflict(r) \/ Flip(r)
  BY <1>2, TargetKeeps, CheckConflictKeeps, FlipKeeps
<1>3. CASE ReadRows(r) \/ ListContainers(r) \/ Inspect(r)
  BY <1>3, ReadRowsKeeps, ListContainersKeeps, InspectKeeps
<1>4. CASE StopRemove(r) \/ CreateStart(r) \/ Verify(r)
  BY <1>4, StopRemoveKeeps, CreateStartKeeps, VerifyKeeps
<1>5. CASE ReadCompose(r) \/ RenderCompose(r) \/ SaveCompose(r) \/ RollbackSwitch(r) \/ AskRunning(r)
  BY <1>5, ReadComposeKeeps, RenderComposeKeeps, SaveComposeKeeps, RollbackKeeps, AskRunningKeeps
<1>6. CASE StoreCompose(r) \/ DownStack(r) \/ DownReplicas(r) \/ DeleteRows(r) \/ FetchSources(r)
  BY <1>6, StoreComposeKeeps, DownKeeps, DeleteRowsKeeps, FetchSourcesKeeps
<1>7. CASE Inject(r) \/ ComposeUp(r) \/ ExtractPorts(r) \/ ImagePorts(r) \/ FinishDeploy(r)
  BY <1>7, InjectKeeps, ComposeUpKeeps, ExtractPortsKeeps, ImagePortsKeeps, FinishDeployKeeps
<1>8. CASE OwnHostPorts(r) \/ Reallocate(r)
  BY <1>8, OwnHostPortsKeeps, ReallocateKeeps
<1> QED BY <1>1, <1>2, <1>3, <1>4, <1>5, <1>6, <1>7, <1>8 DEF CallStep

LEMMA PortsNextInv ==
  ASSUME PortsInv, [PortsNext]_portVars
  PROVE  PortsInv'
<1>1. CASE PortsNext
  <2>1. PICK r \in Calls :
          \/ Switches(r)
          \/ \E s \in Stacks : Sync(r, s) \/ Create(r, s) \/ Redeploy(r, s) \/ LoadBalance(r, s) \/ RemoveService(r, s)
          \/ CallStep(r)
    BY <1>1 DEF PortsNext
  <2>2. CASE Switches(r)
    <3>0. PICK s \in Stacks : \E targets \in {s, {First(s)}} :
            \/ SetPortPublic(r, s, targets, FALSE, NULL)
            \/ \E ui \in {NULL, PoolEnd} : SetPortPublic(r, s, targets, TRUE, ui)
      BY <2>2 DEF Switches
    <3>1. PICK targets \in {s, {First(s)}} :
            \/ SetPortPublic(r, s, targets, FALSE, NULL)
            \/ \E ui \in {NULL, PoolEnd} : SetPortPublic(r, s, targets, TRUE, ui)
      BY <3>0
    <3>2. PICK on \in BOOLEAN, ui \in PortNumbers \cup {NULL} : SetPortPublic(r, s, targets, on, ui)
      BY <3>1, PortsConstants
    <3> QED BY <3>2, SetPortPublicKeeps, KeepsInv
  <2>3. ASSUME NEW s \in Stacks, Sync(r, s) \/ Create(r, s) \/ Redeploy(r, s) \/ LoadBalance(r, s) \/ RemoveService(r, s)
        PROVE  \E x \in Stacks : Keeps(r, x)
    BY <2>3, SyncKeeps, CreateKeeps, RedeployKeeps, LoadBalanceKeeps, RemoveKeeps
  <2>4. CASE CallStep(r)
    BY <2>4, PortsStepInv, KeepsInv
  <2> QED BY <2>1, <2>2, <2>3, <2>4, KeepsInv
<1>2. CASE UNCHANGED portVars
  BY <1>2 DEF portVars, PortsInv, TablesTyped, AbsentOK, FitsOK, VolumesOK, Volume, TwiceOK, QuietOK, Active,
     SettledOK, SteadyOK, Steady, UniqueHosts, PortTables
<1> QED BY <1>1, <1>2

\* What the requests of all services keep true of the rows, the containers and the files
\* between two steps: the invariant behind the theorems below.
THEOREM PortsInvariant == PortsSpec => []PortsInv
<1>1. PortsInit => PortsInv
  BY PortsInitInv
<1>2. PortsInv /\ [PortsNext]_portVars => PortsInv'
  BY PortsNextInv
<1> QED BY <1>1, <1>2, PTL DEF PortsSpec

\* The columns of port_allocations have their types, host_port is unique through the syncs,
\* the deploys and the new distributions of all services, and a service that is gone has no
\* row (allocate_ports, update_ports_from_compose, free_ports).
THEOREM PortsTypeCorrect == PortsSpec => []PortsTypeOK
<1>1. PortsInv => PortsTypeOK
  <2> SUFFICES ASSUME PortsInv PROVE PortsTypeOK
    OBVIOUS
  <2>1. RowValue \subseteq PortRow
    BY DEF RowValue
  <2> QED BY <2>1, TablesAre DEF PortsTypeOK, PortsInv, AbsentOK, UniqueHosts
<1> QED BY <1>1, PortsInvariant, PTL

\* A switch, or a new distribution, that ran alone and answered ok has left every container
\* of the service running and publishing what its row says, and nothing else; the stored
\* compose file says it too after a switch (set_port_public, recreate_with_port_bindings,
\* sync_compose_after_port_toggle, load_balance).
THEOREM SwitchHolds == PortsSpec => []AppliedToggleHolds
<1>1. PortsInv => AppliedToggleHolds
  <2> SUFFICES ASSUME PortsInv, NEW s \in Stacks, settled[s] \in {"toggle", "balance"}, NEW k \in s, Placed(k)
               PROVE  /\ cont[k].running /\ cont[k].binds = Said(k, rows[k])
                      /\ settled[s] = "toggle" => {[of |-> k, any |-> yaml[k].any, port |-> yaml[k].port]} = Said(k, rows[k])
    BY DEF AppliedToggleHolds, Said, PortSaid
  <2>1. SettledAt(settled[s], k, rows[k], cont[k], yaml[k])
    BY DEF PortsInv, SettledOK
  <2>2. Seat(k, rows[k]) /\ cont[k] # NULL
    BY DEF Placed, Seat
  <2> QED BY <2>1, <2>2 DEF SettledAt, Obeys
<1> QED BY <1>1, PortsInvariant, PTL

\* After a sync that ran alone the rows tell which ports face the world
\* (compute_sync_updates, sync_service_ports).
THEOREM ExposureTold == PortsSpec => []RowsTellExposure
<1>1. PortsInv => RowsTellExposure
  <2> SUFFICES ASSUME PortsInv, NEW s \in Stacks, settled[s] = "sync", NEW k \in s, Placed(k)
               PROVE  /\ rows[k].pub <=> Open(k, cont[k]) # {}
                      /\ rows[k].pub => \E b \in Open(k, cont[k]) : b.port = rows[k].pport
    BY DEF RowsTellExposure, Open
  <2>1. SettledAt(settled[s], k, rows[k], cont[k], yaml[k])
    BY DEF PortsInv, SettledOK
  <2>2. Seat(k, rows[k]) /\ cont[k] # NULL
    BY DEF Placed, Seat
  <2> QED BY <2>1, <2>2 DEF SettledAt, Tells
<1> QED BY <1>1, PortsInvariant, PTL

\* No container mounts a volume that a switch made: what the switch makes again has the
\* data of the container it replaced, whatever else went on (preserve_volume_mounts).
THEOREM VolumeOutlives == PortsSpec => []VolumeOutlivesToggle
<1>1. PortsInv => VolumeOutlivesToggle
  BY DEF PortsInv, VolumesOK, Volume, VolumeOutlivesToggle
<1> QED BY <1>1, PortsInvariant, PTL
=============================================================================
