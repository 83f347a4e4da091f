--------------------------- MODULE SchedulesProofs ---------------------------
(* Theorems about Schedules, for any number of plans, rows and jobs.        *)
EXTENDS Schedules, FiniteSetTheorems, TLAPS

USE DEF dbVars, boundVars

\* What a job carries at each place of its code.
JobShape ==
  \A j \in Jobs :
    /\ job[j].pc = "insert" => job[j].target \in Targets
    /\ job[j].pc = "dump" => job[j].key \in Keys
    /\ job[j].pc \in {"delete", "deleterow"} => job[j].kind = "delete"
    /\ job[j].pc = "release" => job[j].kind = "cron"
    /\ Running(j) /\ job[j].kind = "cron" => job[j].sid \in Rows /\ job[j].cron \in Crons

\* The inductive form of SchedTypeOK.
SchedInv == SchedTypeOK /\ JobShape

\* What ShapeOf asks of one job record.
ShapeOf(x) ==
  /\ x.pc = "insert" => x.target \in Targets
  /\ x.pc = "dump" => x.key \in Keys
  /\ x.pc \in {"delete", "deleterow"} => x.kind = "delete"
  /\ x.pc = "release" => x.kind = "cron"
  /\ x.pc \notin {"idle", "done", "dead"} /\ x.kind = "cron" => x.sid \in Rows /\ x.cron \in Crons

\* A step that changes one job keeps the shape of all of them.
LEMMA OneJob ==
  ASSUME SchedInv, NEW j \in Jobs, NEW x \in JobValues, ShapeOf(x),
         job' = [job EXCEPT ![j] = x]
  PROVE  job' \in [Jobs -> JobValues] /\ JobShape'
BY DEF SchedInv, SchedTypeOK, JobShape, ShapeOf, Running

\* The records a job can be set to have the right fields.
LEMMA JobFields ==
  ASSUME SchedInv, NEW j \in Jobs
  PROVE  /\ job[j] \in JobValues /\ ShapeOf(job[j])
         /\ \A how \in {"done", "dead"} : Ended(j, how) \in JobValues /\ ShapeOf(Ended(j, how))
<1>1. job[j] \in JobValues
  BY DEF SchedInv, SchedTypeOK
<1>2. ShapeOf(job[j])
  BY DEF SchedInv, JobShape, ShapeOf, Running
<1>3. ASSUME NEW how \in {"done", "dead"}
      PROVE  Ended(j, how) \in JobValues /\ ShapeOf(Ended(j, how))
  <2>1. how \in PCs /\ "other" \in Actions
    BY <1>3 DEF PCs, Actions
  <2>2. Ended(j, how) \in JobValues
    BY <1>1, <2>1 DEF Ended, JobValues
  <2>3. Ended(j, how).pc = how
    BY <1>1, <2>1 DEF Ended, JobValues
  <2> QED BY <1>3, <2>2, <2>3 DEF ShapeOf
<1> QED BY <1>1, <1>2, <1>3

\* next_fire of a cron expression is a time a row can wait for.
LEMMA FireIsNext == \A c \in Crons : next_fire(c) \in NextRuns
BY DEF next_fire, NextRuns

\* advance_next_run_at keeps the rows well formed, also for a deleted row.
LEMMA AdvancedType ==
  ASSUME SchedInv, NEW sid \in Rows, NEW c \in Crons
  PROVE  /\ Advanced(sid, c) \in [Rows -> RowValues]
         /\ \A s \in Rows : /\ Advanced(sid, c)[s].exists = sched[s].exists
                            /\ Advanced(sid, c)[s].cron = sched[s].cron
                            /\ Advanced(sid, c)[s].enabled = sched[s].enabled
                            /\ Advanced(sid, c)[s].action = sched[s].action
<1>1. sched \in [Rows -> RowValues]
  BY DEF SchedInv, SchedTypeOK
<1>2. next_fire(c) \in NextRuns
  BY FireIsNext
<1> QED BY <1>1, <1>2 DEF Advanced, RowValues

\* The tables other than sched, and the counters, keep their shape.
OthersOK ==
  /\ plan \in [Plans -> PlanValues \cup {NONE}]
  /\ minted \subseteq Rows /\ touched \subseteq Plans
  /\ tick \subseteq Listed /\ in_flight \subseteq Rows
  /\ backup \in [Jobs -> BackupValues]
  /\ blobs \subseteq Keys /\ now \in 0 .. MaxNow /\ up \in BOOLEAN
  /\ edits \in 0 .. MaxEdits /\ crashes \in 0 .. MaxCrashes /\ drops \in 0 .. MaxDrops

RowsOK ==
  /\ sched \in [Rows -> RowValues]
  /\ \A s \in Rows : sched[s].exists => sched[s].cron # NONE

LEMMA InvParts ==
  /\ SchedInv <=> OthersOK /\ RowsOK /\ job \in [Jobs -> JobValues] /\ JobShape
  /\ SchedInv' <=> OthersOK' /\ RowsOK' /\ job' \in [Jobs -> JobValues] /\ JobShape'
BY DEF SchedInv, SchedTypeOK, OthersOK, RowsOK

\* A row of POST /schedules is a row.
LEMMA CreatedType ==
  ASSUME NEW c \in Crons, NEW a \in Actions, NEW e \in BOOLEAN
  PROVE  Created(c, a, e) \in RowValues /\ Created(c, a, e).cron # NONE
<1>1. next_fire(c) \in NextRuns /\ c # NONE
  BY FireIsNext, ScheduleConstants
<1> QED BY <1>1 DEF Created, RowValues

LEMMA SchedInit == Init => SchedInv
<1> SUFFICES ASSUME Init PROVE SchedInv
  OBVIOUS
<1>1. job \in [Jobs -> JobValues] /\ JobShape
  <2>1. Idle \in JobValues
    BY DEF Idle, JobValues, PCs, Kinds, Actions
  <2>2. Idle.pc = "idle"
    BY DEF Idle
  <2> QED BY <2>1, <2>2 DEF Init, JobShape, Running
<1>2. plan \in [Plans -> PlanValues \cup {NONE}]
  BY ScheduleConstants DEF Init, PlanValues
<1>3. RowsOK
  <2>1. NoRow \in RowValues /\ ~NoRow.exists
    BY DEF NoRow, RowValues, NextRuns, Never, Actions
  <2>2. ASSUME NEW b \in Plans, plan[b] # NONE
        PROVE  /\ Backfilled(b, plan[b]) \in RowValues
               /\ Backfilled(b, plan[b]).cron # NONE
    <3>1. plan[b] \in PlanValues /\ b \in Actions
      BY <1>2, <2>2 DEF Actions
    <3>2. plan[b].cron \in Crons /\ plan[b].active \in BOOLEAN
      BY <3>1 DEF PlanValues
    <3> QED BY <3>1, <3>2, ScheduleConstants DEF Backfilled, RowValues, NextRuns, Never
  <2>3. PICK mine \in SUBSET UserRows, c \in Crons :
          sched = [s \in Rows |-> IF s \in Plans /\ plan[s] # NONE
                                  THEN Backfilled(s, plan[s])
                                  ELSE IF s \in mine THEN Created(c, "other", TRUE) ELSE NoRow]
    BY DEF Init
  <2>4. Created(c, "other", TRUE) \in RowValues /\ Created(c, "other", TRUE).cron # NONE
    BY CreatedType DEF Actions
  <2> QED BY <2>1, <2>2, <2>3, <2>4 DEF RowsOK, Rows
<1>4. OthersOK
  <2>1. NoBackup \in BackupValues
    BY DEF NoBackup, BackupValues
  <2>2. 0 \in 0 .. MaxNow /\ 0 \in 0 .. MaxEdits /\ 0 \in 0 .. MaxCrashes /\ 0 \in 0 .. MaxDrops
    BY ScheduleConstants
  <2> QED BY <1>2, <2>1, <2>2 DEF Init, OthersOK, Rows
<1> QED BY <1>1, <1>3, <1>4, InvParts

\* Steps of the runner and of run_now.
LEMMA RunnerSteps ==
  ASSUME SchedInv, NEW j \in Jobs
  PROVE  /\ \A r \in tick : TickFire(r, j) => SchedInv'
         /\ \A s \in Rows : RunNow(s, j) => SchedInv'
         /\ Dispatch(j) => SchedInv'
         /\ OtherAction(j) => SchedInv'
         /\ Report(j) => SchedInv'
         /\ Release(j) => SchedInv'
<1>0. OthersOK /\ RowsOK /\ job \in [Jobs -> JobValues] /\ JobShape
  BY InvParts
<1>f. /\ job[j] \in JobValues /\ ShapeOf(job[j])
      /\ Ended(j, "done") \in JobValues /\ ShapeOf(Ended(j, "done"))
  BY JobFields
<1>1. ASSUME NEW r \in tick, TickFire(r, j) PROVE SchedInv'
  <2> DEFINE x == [Idle EXCEPT !.pc = "fire", !.kind = "cron", !.sid = r.sid,
                               !.cron = r.cron, !.action = r.action]
  <2>1. r.sid \in Rows /\ r.cron \in Crons /\ r.action \in Actions
    BY <1>0 DEF OthersOK, Listed
  <2>2. x \in JobValues /\ ShapeOf(x)
    BY <2>1 DEF Idle, JobValues, PCs, Kinds, ShapeOf
  <2>3. job' \in [Jobs -> JobValues] /\ JobShape'
    BY <1>1, <2>2, OneJob DEF TickFire
  <2>4. RowsOK' /\ OthersOK'
    BY <1>0, <1>1, <2>1 DEF TickFire, RowsOK, OthersOK
  <2> QED BY <2>3, <2>4, InvParts
<1>2. ASSUME NEW s \in Rows, RunNow(s, j) PROVE SchedInv'
  <2> DEFINE x == [Idle EXCEPT !.pc = "fire", !.kind = "now", !.sid = s,
                               !.action = sched[s].action]
  <2>1. sched[s].action \in Actions
    BY <1>0 DEF RowsOK, RowValues
  <2>2. x \in JobValues /\ ShapeOf(x)
    BY <2>1 DEF Idle, JobValues, PCs, Kinds, ShapeOf
  <2>3. job' \in [Jobs -> JobValues] /\ JobShape'
    BY <1>2, <2>2, OneJob DEF RunNow
  <2>4. RowsOK' /\ OthersOK'
    BY <1>0, <1>2 DEF RunNow, RowsOK, OthersOK
  <2> QED BY <2>3, <2>4, InvParts
<1>3. ASSUME Dispatch(j) PROVE SchedInv'
  <2> DEFINE b == job[j].action
             x == [job[j] EXCEPT !.pc = "insert", !.plan = b, !.target = plan[b].target,
                                 !.retention = plan[b].retention]
             y == [job[j] EXCEPT !.pc = "report"]
  <2>1. b \in Plans
    BY <1>3 DEF Dispatch
  <2>2. y \in JobValues /\ ShapeOf(y)
    BY <1>f, <1>3 DEF Dispatch, JobValues, PCs, ShapeOf
  <2>3. ASSUME plan[b] # NONE PROVE x \in JobValues /\ ShapeOf(x)
    <3>1. plan[b] \in PlanValues
      BY <1>0, <2>1, <2>3 DEF OthersOK
    <3>2. plan[b].target \in Targets /\ plan[b].retention \in Retentions
      BY <3>1 DEF PlanValues
    <3>3. "insert" \in PCs
      BY DEF PCs
    <3>4. x \in JobValues
      BY <1>f, <2>1, <3>2, <3>3 DEF JobValues
    <3>5. /\ x.pc = "insert" /\ x.target = plan[b].target /\ x.kind = job[j].kind
          /\ x.sid = job[j].sid /\ x.cron = job[j].cron
      BY <1>f DEF JobValues
    <3>6. job[j].pc = "fire"
      BY <1>3 DEF Dispatch
    <3> HIDE DEF x, b
    <3>7. ShapeOf(x)
      BY <1>f, <3>2, <3>5, <3>6 DEF ShapeOf
    <3> QED BY <3>4, <3>7
  <2>4. job' = [job EXCEPT ![j] = IF plan[b] # NONE /\ plan[b].active THEN x ELSE y]
    BY <1>3 DEF Dispatch
  <2>5. job' \in [Jobs -> JobValues] /\ JobShape'
    <3>1. CASE plan[b] # NONE /\ plan[b].active
      BY <2>3, <2>4, <3>1, OneJob
    <3>2. CASE ~(plan[b] # NONE /\ plan[b].active)
      BY <2>2, <2>4, <3>2, OneJob
    <3> QED BY <3>1, <3>2
  <2>6. RowsOK' /\ OthersOK'
    BY <1>0, <1>3 DEF Dispatch, RowsOK, OthersOK
  <2> QED BY <2>5, <2>6, InvParts
<1>4. ASSUME OtherAction(j) PROVE SchedInv'
  <2> DEFINE y == [job[j] EXCEPT !.pc = "report"]
  <2>1. y \in JobValues /\ ShapeOf(y)
    BY <1>f, <1>4 DEF OtherAction, JobValues, PCs, ShapeOf
  <2>2. job' = [job EXCEPT ![j] = y]
    BY <1>0, <1>4 DEF OtherAction
  <2>3. RowsOK' /\ OthersOK'
    BY <1>0, <1>4 DEF OtherAction, RowsOK, OthersOK
  <2> QED BY <2>1, <2>2, <2>3, OneJob, InvParts
<1>5. ASSUME Report(j) PROVE SchedInv'
  <2>1. CASE job[j].kind = "cron"
    <3> DEFINE y == [job[j] EXCEPT !.pc = "release"]
    <3>1. y \in JobValues /\ ShapeOf(y)
      BY <1>f, <1>5, <2>1 DEF Report, JobValues, PCs, ShapeOf
    <3>2. job' = [job EXCEPT ![j] = y]
      BY <1>0, <1>5, <2>1 DEF Report
    <3>3. job[j].sid \in Rows /\ job[j].cron \in Crons
      BY <1>f, <1>5, <2>1 DEF Report, ShapeOf
    <3>4. RowsOK'
      BY <1>0, <1>5, <2>1, <3>3, AdvancedType DEF Report, RowsOK
    <3>5. OthersOK'
      BY <1>0, <1>5 DEF Report, OthersOK
    <3> QED BY <3>1, <3>2, <3>4, <3>5, OneJob, InvParts
  <2>2. CASE job[j].kind # "cron"
    <3>1. job' = [job EXCEPT ![j] = Ended(j, "done")]
      BY <1>5, <2>2 DEF Report
    <3>2. RowsOK' /\ OthersOK'
      BY <1>0, <1>5, <2>2 DEF Report, RowsOK, OthersOK
    <3> QED BY <1>f, <3>1, <3>2, OneJob, InvParts
  <2> QED BY <2>1, <2>2
<1>6. ASSUME Release(j) PROVE SchedInv'
  <2>1. RowsOK' /\ OthersOK'
    BY <1>0, <1>6 DEF Release, Released, RowsOK, OthersOK
  <2>2. job' = [job EXCEPT ![j] = Ended(j, "done")]
    BY <1>6 DEF Release
  <2> QED BY <1>f, <2>1, <2>2, OneJob, InvParts
<1> QED BY <1>1, <1>2, <1>3, <1>4, <1>5, <1>6

\* A job that goes on after its backup keeps its shape.
LEMMA ConcludeType ==
  ASSUME SchedInv, NEW j \in Jobs, Running(j)
  PROVE  Conclude(j) \in JobValues /\ ShapeOf(Conclude(j))
<1>1. /\ job[j] \in JobValues /\ ShapeOf(job[j])
      /\ Ended(j, "done") \in JobValues /\ ShapeOf(Ended(j, "done"))
  BY JobFields
<1> DEFINE y == [job[j] EXCEPT !.pc = "report"]
<1>2. y \in JobValues /\ ShapeOf(y)
  BY <1>1 DEF JobValues, PCs, ShapeOf, Running
<1> QED BY <1>1, <1>2 DEF Conclude

\* A status is only written to a row that exists.
LEMMA SetStatusType ==
  ASSUME SchedInv, NEW j \in Jobs, NEW st \in {"failed", "completed"}
  PROVE  SetStatus(j, st) \in [Jobs -> BackupValues]
<1>1. backup \in [Jobs -> BackupValues]
  BY DEF SchedInv, SchedTypeOK
<1> QED BY <1>1 DEF SetStatus, BackupValues

\* A job that moves into its sweep keeps its shape.
LEMMA SweepingShape ==
  ASSUME SchedInv, NEW j \in Jobs, Running(j),
         NEW x \in JobValues, x.pc \in {"sweep", "sweeprow"},
         x.kind = job[j].kind, x.sid = job[j].sid, x.cron = job[j].cron
  PROVE  ShapeOf(x)
BY DEF SchedInv, JobShape, ShapeOf, Running

\* Steps of run_single_backup and trigger_backup up to the completed row.
LEMMA BackupSteps ==
  ASSUME SchedInv, NEW j \in Jobs
  PROVE  /\ \A t \in Targets : Trigger(t, j) => SchedInv'
         /\ InsertBackup(j) => SchedInv'
         /\ Upload(j) => SchedInv'
         /\ BackupFails(j) => SchedInv'
         /\ Complete(j) => SchedInv'
<1>0. OthersOK /\ RowsOK /\ job \in [Jobs -> JobValues] /\ JobShape
  BY InvParts
<1>f. job[j] \in JobValues /\ ShapeOf(job[j])
  BY JobFields
<1>1. ASSUME NEW t \in Targets, Trigger(t, j) PROVE SchedInv'
  <2>1. PICK b \in TriggerPlans(t) :
          job' = [job EXCEPT ![j] = [Idle EXCEPT !.pc = "insert", !.kind = "trigger",
                                                 !.plan = b, !.target = t]]
    BY <1>1 DEF Trigger
  <2>2. b \in Plans
    BY DEF TriggerPlans, ActivePlans
  <2> DEFINE x == [Idle EXCEPT !.pc = "insert", !.kind = "trigger", !.plan = b, !.target = t]
  <2>3. x \in JobValues /\ ShapeOf(x)
    BY <2>2 DEF Idle, JobValues, PCs, Kinds, Actions, ShapeOf
  <2>4. RowsOK' /\ OthersOK'
    BY <1>0, <1>1 DEF Trigger, RowsOK, OthersOK
  <2> QED BY <2>1, <2>3, <2>4, OneJob, InvParts
<1>2. ASSUME InsertBackup(j) PROVE SchedInv'
  <2>1. Running(j) /\ job[j].target \in Targets
    BY <1>2, <1>f DEF InsertBackup, Running, ShapeOf
  <2>2. CASE plan[job[j].plan] # NONE
    <3>1. now' \in 0 .. MaxNow
      BY <1>0, <1>2, <2>2, ScheduleConstants DEF InsertBackup, OthersOK
    <3>2. build_s3_key(job[j].target, now') \in Keys
      BY <2>1, <3>1 DEF build_s3_key, Keys
    <3> DEFINE x == [job[j] EXCEPT !.pc = "dump", !.key = build_s3_key(job[j].target, now')]
    <3>3. x \in JobValues /\ ShapeOf(x)
      <4>1. "dump" \in PCs
        BY DEF PCs
      <4>2. x \in JobValues
        BY <1>f, <3>2, <4>1 DEF JobValues
      <4>3. /\ x.pc = "dump" /\ x.key \in Keys /\ x.kind = job[j].kind
            /\ x.sid = job[j].sid /\ x.cron = job[j].cron
        BY <1>f, <3>2 DEF JobValues
      <4>4. job[j].pc = "insert"
        BY <1>2 DEF InsertBackup
      <4> HIDE DEF x
      <4> QED BY <1>f, <4>2, <4>3, <4>4 DEF ShapeOf
    <3>4. job' = [job EXCEPT ![j] = x]
      BY <1>0, <1>2, <2>2 DEF InsertBackup
    <3>5. Inserted \in Nat
      <4>1. IsFiniteSet({i \in Jobs : job[i].key # NONE})
        BY ScheduleConstants, FS_Subset
      <4> QED BY <4>1, FS_CardinalityType DEF Inserted
    <3>6. backup' \in [Jobs -> BackupValues]
      <4>1. job[j].plan \in Plans \cup {NONE}
        BY <1>f DEF JobValues
      <4>2. [exists |-> TRUE, plan |-> job[j].plan, status |-> "running", seq |-> Inserted]
               \in BackupValues
        BY <3>5, <4>1 DEF BackupValues
      <4> QED BY <1>0, <1>2, <2>2, <4>2 DEF InsertBackup, OthersOK
    <3>7. RowsOK' /\ OthersOK'
      BY <1>0, <1>2, <3>1, <3>6 DEF InsertBackup, RowsOK, OthersOK
    <3> QED BY <3>3, <3>4, <3>7, OneJob, InvParts
  <2>3. CASE plan[job[j].plan] = NONE
    <3>1. job' = [job EXCEPT ![j] = Conclude(j)]
      BY <1>2, <2>3 DEF InsertBackup
    <3>2. RowsOK' /\ OthersOK'
      BY <1>0, <1>2, <2>3 DEF InsertBackup, RowsOK, OthersOK
    <3> QED BY <2>1, <3>1, <3>2, ConcludeType, OneJob, InvParts
  <2> QED BY <2>2, <2>3
<1>3. ASSUME Upload(j) PROVE SchedInv'
  <2>1. job[j].key \in Keys
    BY <1>3, <1>f DEF Upload, ShapeOf
  <2> DEFINE x == [job[j] EXCEPT !.pc = "uploaded"]
  <2>2. x \in JobValues /\ ShapeOf(x)
    BY <1>f, <1>3 DEF Upload, JobValues, PCs, ShapeOf
  <2>3. job' = [job EXCEPT ![j] = x]
    BY <1>0, <1>3 DEF Upload
  <2>4. RowsOK' /\ OthersOK'
    BY <1>0, <1>3, <2>1 DEF Upload, RowsOK, OthersOK
  <2> QED BY <2>2, <2>3, <2>4, OneJob, InvParts
<1>4. ASSUME BackupFails(j) PROVE SchedInv'
  <2>1. Running(j)
    BY <1>4 DEF BackupFails, Running
  <2>2. RowsOK' /\ OthersOK'
    BY <1>0, <1>4, SetStatusType DEF BackupFails, RowsOK, OthersOK
  <2>3. job' = [job EXCEPT ![j] = Conclude(j)]
    BY <1>4 DEF BackupFails
  <2> QED BY <2>1, <2>2, <2>3, ConcludeType, OneJob, InvParts
<1>5. ASSUME Complete(j) PROVE SchedInv'
  <2>1. Running(j) /\ job[j].pc = "uploaded"
    BY <1>5 DEF Complete, Running
  <2>2. RowsOK' /\ OthersOK'
    BY <1>0, <1>5, SetStatusType DEF Complete, RowsOK, OthersOK
  <2> DEFINE old == Beyond(job[j].plan, job[j].retention, SetStatus(j, "completed"))
             x == [job[j] EXCEPT !.pc = "sweep", !.sweep = old]
  <2>3. old \in SUBSET Jobs
    BY DEF Beyond, Completed
  <2>4. job' = [job EXCEPT ![j] = IF job[j].kind = "trigger" THEN Conclude(j) ELSE x]
    BY <1>5 DEF Complete
  <2> HIDE DEF old
  <2>5. x \in JobValues /\ ShapeOf(x)
    <3>1. "sweep" \in PCs
      BY DEF PCs
    <3>2. x \in JobValues
      BY <1>f, <2>3, <3>1 DEF JobValues
    <3>3. /\ x.pc = "sweep" /\ x.kind = job[j].kind
          /\ x.sid = job[j].sid /\ x.cron = job[j].cron
      BY <1>f DEF JobValues
    <3> HIDE DEF x
    <3> QED BY <2>1, <3>2, <3>3, SweepingShape
  <2>6. CASE job[j].kind = "trigger"
    BY <2>1, <2>2, <2>4, <2>6, ConcludeType, OneJob, InvParts
  <2>7. CASE job[j].kind # "trigger"
    BY <2>2, <2>4, <2>5, <2>7, OneJob, InvParts
  <2> QED BY <2>6, <2>7
<1> QED BY <1>1, <1>2, <1>3, <1>4, <1>5

\* Sweeps, delete_backup and dropped handlers.
LEMMA DeletionSteps ==
  ASSUME SchedInv, NEW j \in Jobs
  PROVE  /\ SweepBlob(j) => SchedInv'
         /\ SweepRow(j) => SchedInv'
         /\ SweepDone(j) => SchedInv'
         /\ \A v \in Jobs : DeleteBackup(v, j) => SchedInv'
         /\ DeleteBlob(j) => SchedInv'
         /\ DeleteRow(j) => SchedInv'
         /\ DropHandler(j) => SchedInv'
<1>0. OthersOK /\ RowsOK /\ job \in [Jobs -> JobValues] /\ JobShape
  BY InvParts
<1>f. /\ job[j] \in JobValues /\ ShapeOf(job[j])
      /\ Ended(j, "dead") \in JobValues /\ ShapeOf(Ended(j, "dead"))
  BY JobFields
<1>r. [backup EXCEPT ![job[j].victim] = [@ EXCEPT !.exists = FALSE]] \in [Jobs -> BackupValues]
  BY <1>0 DEF OthersOK, BackupValues
<1>1. ASSUME SweepBlob(j) PROVE SchedInv'
  <2>1. PICK v \in job[j].sweep :
          /\ blobs' \in BlobsAfterDelete(job[v].key)
          /\ job' = [job EXCEPT ![j].pc = "sweeprow", ![j].victim = v]
    BY <1>1 DEF SweepBlob
  <2>2. v \in Jobs
    BY <1>f DEF JobValues
  <2> DEFINE x == [job[j] EXCEPT !.pc = "sweeprow", !.victim = v]
  <2>3. x \in JobValues /\ ShapeOf(x)
    <3>1. "sweeprow" \in PCs
      BY DEF PCs
    <3>2. x \in JobValues
      BY <1>f, <2>2, <3>1 DEF JobValues
    <3>3. /\ x.pc = "sweeprow" /\ x.kind = job[j].kind
          /\ x.sid = job[j].sid /\ x.cron = job[j].cron
      BY <1>f DEF JobValues
    <3>4. Running(j)
      BY <1>1 DEF SweepBlob, Running
    <3> HIDE DEF x
    <3> QED BY <3>2, <3>3, <3>4, SweepingShape
  <2>4. job' = [job EXCEPT ![j] = x]
    BY <1>0, <2>1
  <2>5. RowsOK' /\ OthersOK'
    BY <1>0, <1>1, <2>1 DEF SweepBlob, BlobsAfterDelete, RowsOK, OthersOK
  <2> QED BY <2>3, <2>4, <2>5, OneJob, InvParts
<1>2. ASSUME SweepRow(j) PROVE SchedInv'
  <2> DEFINE x == [job[j] EXCEPT !.pc = "sweep", !.sweep = @ \ {job[j].victim}, !.victim = NONE]
  <2>1. x \in JobValues /\ ShapeOf(x)
    <3>1. "sweep" \in PCs
      BY DEF PCs
    <3>2. x \in JobValues
      BY <1>f, <3>1 DEF JobValues
    <3>3. /\ x.pc = "sweep" /\ x.kind = job[j].kind
          /\ x.sid = job[j].sid /\ x.cron = job[j].cron
      BY <1>f DEF JobValues
    <3>4. Running(j)
      BY <1>2 DEF SweepRow, Running
    <3> HIDE DEF x
    <3> QED BY <3>2, <3>3, <3>4, SweepingShape
  <2>2. job' = [job EXCEPT ![j] = x]
    BY <1>0, <1>2 DEF SweepRow
  <2>3. RowsOK' /\ OthersOK'
    BY <1>0, <1>2, <1>r DEF SweepRow, RowsOK, OthersOK
  <2> QED BY <2>1, <2>2, <2>3, OneJob, InvParts
<1>3. ASSUME SweepDone(j) PROVE SchedInv'
  <2>1. Running(j)
    BY <1>3 DEF SweepDone, Running
  <2>2. RowsOK' /\ OthersOK' /\ job' = [job EXCEPT ![j] = Conclude(j)]
    BY <1>0, <1>3 DEF SweepDone, RowsOK, OthersOK
  <2> QED BY <2>1, <2>2, ConcludeType, OneJob, InvParts
<1>4. ASSUME NEW v \in Jobs, DeleteBackup(v, j) PROVE SchedInv'
  <2> DEFINE x == [Idle EXCEPT !.pc = "delete", !.kind = "delete", !.victim = v]
  <2>1. x \in JobValues /\ ShapeOf(x)
    BY DEF Idle, JobValues, PCs, Kinds, Actions, ShapeOf
  <2>2. RowsOK' /\ OthersOK' /\ job' = [job EXCEPT ![j] = x]
    BY <1>0, <1>4 DEF DeleteBackup, RowsOK, OthersOK
  <2> QED BY <2>1, <2>2, OneJob, InvParts
<1>5. ASSUME DeleteBlob(j) PROVE SchedInv'
  <2>1. PICK pc \in {"done", "deleterow"} : job' = [job EXCEPT ![j].pc = pc]
    BY <1>5 DEF DeleteBlob
  <2> DEFINE x == [job[j] EXCEPT !.pc = pc]
  <2>2. x \in JobValues /\ ShapeOf(x)
    BY <1>f, <1>5 DEF DeleteBlob, JobValues, PCs, ShapeOf
  <2>3. job' = [job EXCEPT ![j] = x]
    BY <1>0, <2>1
  <2>4. RowsOK' /\ OthersOK'
    BY <1>0, <1>5 DEF DeleteBlob, BlobsAfterDelete, RowsOK, OthersOK
  <2> QED BY <2>2, <2>3, <2>4, OneJob, InvParts
<1>6. ASSUME DeleteRow(j) PROVE SchedInv'
  <2> DEFINE x == [job[j] EXCEPT !.pc = "done"]
  <2>1. x \in JobValues /\ ShapeOf(x)
    BY <1>f, <1>6 DEF DeleteRow, JobValues, PCs, ShapeOf
  <2>2. job' = [job EXCEPT ![j] = x]
    BY <1>0, <1>6 DEF DeleteRow
  <2>3. RowsOK' /\ OthersOK'
    BY <1>0, <1>6, <1>r DEF DeleteRow, RowsOK, OthersOK
  <2> QED BY <2>1, <2>2, <2>3, OneJob, InvParts
<1>7. ASSUME DropHandler(j) PROVE SchedInv'
  <2>1. drops' \in 0 .. MaxDrops
    BY <1>0, <1>7, ScheduleConstants DEF DropHandler, OthersOK
  <2>2. RowsOK' /\ OthersOK' /\ job' = [job EXCEPT ![j] = Ended(j, "dead")]
    BY <1>0, <1>7, <2>1 DEF DropHandler, RowsOK, OthersOK
  <2> QED BY <1>f, <2>2, OneJob, InvParts
<1> QED BY <1>1, <1>2, <1>3, <1>4, <1>5, <1>6, <1>7

\* Time, restarts and the listing of a tick.
LEMMA ProcessSteps ==
  ASSUME SchedInv
  PROVE  /\ \A s \in Rows : BecomeDue(s) => SchedInv'
         /\ Crash => SchedInv'
         /\ Boot => SchedInv'
         /\ Tick => SchedInv'
         /\ \A r \in tick : TickSkip(r) => SchedInv'
<1>0. OthersOK /\ RowsOK /\ job \in [Jobs -> JobValues] /\ JobShape
  BY InvParts
<1>1. ASSUME NEW s \in Rows, BecomeDue(s) PROVE SchedInv'
  <2>1. sched[s] \in RowValues /\ sched[s].next \in NextRuns
    BY <1>0 DEF RowsOK, RowValues
  <2>2. sched[s].next \in [at : {"later", "due"}, from : Crons]
    BY <1>1, <2>1 DEF BecomeDue, NextRuns, Never
  <2>3. [sched[s].next EXCEPT !.at = "due"] \in NextRuns
    BY <2>2 DEF NextRuns
  <2>4. RowsOK'
    BY <1>0, <1>1, <2>1, <2>3 DEF BecomeDue, RowsOK, RowValues
  <2>5. OthersOK' /\ job' = job
    BY <1>0, <1>1 DEF BecomeDue, OthersOK
  <2> QED BY <1>0, <2>4, <2>5, InvParts DEF JobShape, Running
<1>2. ASSUME Crash PROVE SchedInv'
  <2>1. crashes' \in 0 .. MaxCrashes
    BY <1>0, <1>2, ScheduleConstants DEF Crash, OthersOK
  <2>2. RowsOK' /\ OthersOK'
    BY <1>0, <1>2, <2>1 DEF Crash, RowsOK, OthersOK
  <2>3. \A j \in Jobs : job'[j] \in JobValues /\ ShapeOf(job'[j])
    BY <1>2, JobFields DEF Crash
  <2>4. job' \in [Jobs -> JobValues] /\ JobShape'
    BY <1>2, <2>3 DEF Crash, JobShape, ShapeOf, Running
  <2> QED BY <2>2, <2>4, InvParts
<1>3. ASSUME Boot PROVE SchedInv'
  <2>1. ASSUME NEW s \in Rows
        PROVE  /\ Seeded(sched[s]) \in RowValues
               /\ Seeded(sched[s]).exists => Seeded(sched[s]).cron # NONE
    <3>1. sched[s] \in RowValues /\ (sched[s].exists => sched[s].cron # NONE)
      BY <1>0 DEF RowsOK
    <3>2. CASE sched[s].exists
      <4>1. sched[s].cron \in Crons
        BY <3>1, <3>2 DEF RowValues
      <4>2. next_fire(sched[s].cron) \in NextRuns
        BY <4>1, FireIsNext
      <4> QED BY <3>1, <4>1, <4>2 DEF Seeded, RowValues
    <3>3. CASE ~sched[s].exists
      BY <3>1, <3>3 DEF Seeded
    <3> QED BY <3>2, <3>3
  <2>2. RowsOK'
    BY <1>3, <2>1 DEF Boot, RowsOK
  <2>3. OthersOK' /\ job' = job
    BY <1>0, <1>3 DEF Boot, OthersOK
  <2> QED BY <1>0, <2>2, <2>3, InvParts DEF JobShape, Running
<1>4. ASSUME Tick PROVE SchedInv'
  <2>1. tick' \subseteq Listed
    <3>1. ASSUME NEW s \in Rows, sched[s].exists
          PROVE  [sid |-> s, cron |-> sched[s].cron, action |-> sched[s].action] \in Listed
      BY <1>0, <3>1 DEF RowsOK, RowValues, Listed
    <3> QED BY <1>4, <3>1 DEF Tick
  <2>2. RowsOK' /\ OthersOK' /\ job' = job
    BY <1>0, <1>4, <2>1 DEF Tick, RowsOK, OthersOK
  <2> QED BY <1>0, <2>2, InvParts DEF JobShape, Running
<1>5. ASSUME NEW r \in tick, TickSkip(r) PROVE SchedInv'
  <2>1. r.sid \in Rows /\ r.cron \in Crons
    BY <1>0 DEF OthersOK, Listed
  <2>2. RowsOK'
    <3>1. sched' = Advanced(r.sid, r.cron)
      BY <1>5 DEF TickSkip
    <3>2. /\ sched' \in [Rows -> RowValues]
          /\ \A s \in Rows : sched'[s].exists = sched[s].exists /\ sched'[s].cron = sched[s].cron
      BY <1>0, <2>1, <3>1, AdvancedType
    <3> QED BY <1>0, <3>2 DEF RowsOK
  <2>3. OthersOK' /\ job' = job
    BY <1>0, <1>5 DEF TickSkip, OthersOK
  <2> QED BY <1>0, <2>2, <2>3, InvParts DEF JobShape, Running
<1> QED BY <1>1, <1>2, <1>3, <1>4, <1>5

\* The mirror of a plan is a well-formed row that exists.
LEMMA MirrorType ==
  ASSUME NEW b \in Plans, NEW p \in PlanValues
  PROVE  /\ Mirror(b, p) \in RowValues
         /\ Mirror(b, p).exists /\ Mirror(b, p).cron = p.cron /\ p.cron # NONE
         /\ Mirror(b, p).enabled = p.active /\ Mirror(b, p).action = b
<1>1. p.cron \in Crons /\ p.active \in BOOLEAN /\ b \in Actions
  BY DEF PlanValues, Actions
<1>2. next_fire(p.cron) \in NextRuns
  BY <1>1, FireIsNext
<1> QED BY <1>1, <1>2, ScheduleConstants DEF Mirror, RowValues

\* A reconfigured action is an action.
LEMMA ReconfiguredType == \A a : Reconfigured(a) \subseteq Actions
BY DEF Reconfigured, Actions

\* Edits of plans and rows.
LEMMA OperatorSteps == SchedInv /\ Operator => SchedInv'
<1> SUFFICES ASSUME SchedInv, Operator PROVE SchedInv'
  OBVIOUS
<1>0. OthersOK /\ RowsOK /\ job \in [Jobs -> JobValues] /\ JobShape
  BY InvParts
<1>e. ASSUME NEW q, Edit(q)
      PROVE  /\ edits' \in 0 .. MaxEdits /\ job' = job /\ tick' = tick
             /\ in_flight' = in_flight /\ blobs' = blobs /\ now' = now /\ up' = up
             /\ crashes' = crashes /\ drops' = drops
  BY <1>0, <1>e, ScheduleConstants DEF Edit, OthersOK
<1>u. \A gone \in SUBSET Plans : Unlinked(gone) \in [Jobs -> BackupValues]
  BY <1>0 DEF Unlinked, OthersOK, BackupValues
<1>n. NoRow \in RowValues /\ ~NoRow.exists
  BY DEF NoRow, RowValues, NextRuns, Never, Actions
<1>j. job' = job => job' \in [Jobs -> JobValues] /\ JobShape'
  BY <1>0 DEF JobShape, Running
<1>1. ASSUME NEW b \in Plans, NEW p \in PlanValues, CreatePlan(b, p) PROVE SchedInv'
  <2>1. Edit("create_schedule") /\ PlansOf(p.target) \in SUBSET Plans
    BY <1>1 DEF CreatePlan, PlansOf
  <2>2. plan' \in [Plans -> PlanValues \cup {NONE}] /\ minted' \subseteq Rows
    BY <1>0, <1>1 DEF CreatePlan, OthersOK, Rows
  <2>3. backup' \in [Jobs -> BackupValues]
    BY <1>1, <1>u, <2>1 DEF CreatePlan
  <2>4. RowsOK'
    BY <1>0, <1>1, MirrorType DEF CreatePlan, RowsOK, Rows
  <2>5. touched' = touched
    BY <1>1 DEF CreatePlan
  <2>6. OthersOK'
    BY <1>0, <1>e, <2>1, <2>2, <2>3, <2>5 DEF OthersOK
  <2> QED BY <1>e, <1>j, <2>1, <2>4, <2>6, InvParts
<1>2. ASSUME NEW b \in Plans, NEW p \in PlanValues, UpdatePlan(b, p) PROVE SchedInv'
  <2>1. Edit("update_schedule")
    BY <1>2 DEF UpdatePlan
  <2>2. /\ plan' \in [Plans -> PlanValues \cup {NONE}] /\ minted' = minted
        /\ touched' \subseteq Plans /\ backup' = backup
    BY <1>0, <1>2 DEF UpdatePlan, OthersOK
  <2>3. RowsOK'
    BY <1>0, <1>2, MirrorType DEF UpdatePlan, MirrorAfterUpdate, RowsOK, Rows
  <2>4. OthersOK'
    BY <1>0, <1>e, <2>1, <2>2 DEF OthersOK
  <2> QED BY <1>e, <1>j, <2>1, <2>3, <2>4, InvParts
<1>3. ASSUME NEW b \in Plans, DeletePlan(b) PROVE SchedInv'
  <2>1. Edit("delete_schedule")
    BY <1>3 DEF DeletePlan
  <2>2. /\ plan' \in [Plans -> PlanValues \cup {NONE}] /\ minted' = minted
        /\ touched' \subseteq Plans /\ backup' \in [Jobs -> BackupValues]
    BY <1>0, <1>3, <1>u DEF DeletePlan, OthersOK
  <2>3. RowsOK'
    BY <1>0, <1>3, <1>n DEF DeletePlan, RowsOK, Rows
  <2>4. OthersOK'
    BY <1>0, <1>e, <2>1, <2>2 DEF OthersOK
  <2> QED BY <1>e, <1>j, <2>1, <2>3, <2>4, InvParts
<1>4. ASSUME NEW s \in UserRows, NEW c \in Crons, NEW a \in Actions, NEW e \in BOOLEAN,
             CreateRow(s, c, a, e)
      PROVE  SchedInv'
  <2>1. Edit("create")
    BY <1>4 DEF CreateRow
  <2>2. /\ plan' = plan /\ minted' \subseteq Rows /\ touched' = touched /\ backup' = backup
    BY <1>0, <1>4 DEF CreateRow, OthersOK, Rows
  <2>3. RowsOK'
    <3>1. Created(c, a, e) \in RowValues /\ Created(c, a, e).cron # NONE
      BY CreatedType
    <3>2. sched' = [sched EXCEPT ![s] = Created(c, a, e)]
      BY <1>4 DEF CreateRow
    <3> QED BY <1>0, <3>1, <3>2 DEF RowsOK
  <2>4. OthersOK'
    BY <1>0, <1>e, <2>1, <2>2 DEF OthersOK
  <2> QED BY <1>e, <1>j, <2>1, <2>3, <2>4, InvParts
<1>5. ASSUME NEW s \in Rows, UpdateRow(s) PROVE SchedInv'
  <2>1. Edit("update")
    BY <1>5 DEF UpdateRow
  <2>2. /\ plan' = plan /\ minted' = minted /\ touched' \subseteq Plans /\ backup' = backup
    BY <1>0, <1>5 DEF UpdateRow, OthersOK
  <2>3. RowsOK'
    <3>1. PICK a \in Actions, e \in BOOLEAN,
            r \in {sched[s]} \cup {[sched[s] EXCEPT !.cron = c, !.next = next_fire(c)] : c \in Crons} :
            sched' = [sched EXCEPT ![s] = [r EXCEPT !.action = a, !.enabled = e]]
      BY <1>5, ReconfiguredType DEF UpdateRow
    <3>2. sched[s] \in RowValues /\ sched[s].exists /\ sched[s].cron # NONE
      BY <1>0, <1>5 DEF RowsOK, UpdateRow
    <3>3. ASSUME NEW c \in Crons
          PROVE  /\ [sched[s] EXCEPT !.cron = c, !.next = next_fire(c)] \in RowValues
                 /\ [sched[s] EXCEPT !.cron = c, !.next = next_fire(c)].cron # NONE
      <4>1. next_fire(c) \in NextRuns /\ c # NONE
        BY FireIsNext, ScheduleConstants
      <4> QED BY <3>2, <4>1 DEF RowValues
    <3>4. r \in RowValues /\ r.cron # NONE
      BY <3>1, <3>2, <3>3
    <3>5. /\ [r EXCEPT !.action = a, !.enabled = e] \in RowValues
          /\ [r EXCEPT !.action = a, !.enabled = e].cron # NONE
      BY <3>4 DEF RowValues
    <3> QED BY <1>0, <3>1, <3>5 DEF RowsOK
  <2>4. OthersOK'
    BY <1>0, <1>e, <2>1, <2>2 DEF OthersOK
  <2> QED BY <1>e, <1>j, <2>1, <2>3, <2>4, InvParts
<1>6. ASSUME NEW s \in Rows, RemoveRow(s) PROVE SchedInv'
  <2>1. Edit("remove")
    BY <1>6 DEF RemoveRow
  <2>2. /\ plan' = plan /\ minted' = minted /\ touched' = touched /\ backup' = backup
    BY <1>6 DEF RemoveRow
  <2>3. RowsOK'
    BY <1>0, <1>6, <1>n DEF RemoveRow, RowsOK
  <2>4. OthersOK'
    BY <1>0, <1>e, <2>1, <2>2 DEF OthersOK
  <2> QED BY <1>e, <1>j, <2>1, <2>3, <2>4, InvParts
<1>7. ASSUME NEW t \in Targets, CreatePlanFails(t) PROVE SchedInv'
  <2>1. Edit("create_schedule") /\ PlansOf(t) \in SUBSET Plans
    BY <1>7 DEF CreatePlanFails, PlansOf
  <2>2. /\ plan' \in [Plans -> PlanValues \cup {NONE}] /\ minted' = minted
        /\ touched' = touched /\ sched' = sched
    BY <1>0, <1>7 DEF CreatePlanFails, OthersOK
  <2>3. backup' \in [Jobs -> BackupValues]
    BY <1>7, <1>u, <2>1 DEF CreatePlanFails
  <2>4. OthersOK' /\ RowsOK'
    BY <1>0, <1>e, <2>1, <2>2, <2>3 DEF OthersOK, RowsOK
  <2> QED BY <1>e, <1>j, <2>1, <2>4, InvParts
<1> QED BY <1>1, <1>2, <1>3, <1>4, <1>5, <1>6, <1>7 DEF Operator

\* SchedInv is inductive.
LEMMA SchedNext == SchedInv /\ [Next]_vars => SchedInv'
<1> SUFFICES ASSUME SchedInv, [Next]_vars PROVE SchedInv'
  OBVIOUS
<1>1. CASE UNCHANGED vars
  BY <1>1, InvParts DEF vars, SchedInv, SchedTypeOK, JobShape, Running
<1>2. CASE Crash \/ Boot \/ Tick \/ Operator \/ \E s \in Rows : BecomeDue(s)
  BY <1>2, ProcessSteps, OperatorSteps
<1>3. CASE \E r \in tick : TickStep(r)
  BY <1>3, ProcessSteps, RunnerSteps DEF TickStep
<1>4. ASSUME NEW j \in Jobs, JobStep(j) \/ Handler(j) PROVE SchedInv'
  BY <1>4, RunnerSteps, BackupSteps, DeletionSteps DEF JobStep, Handler
<1> QED BY <1>1, <1>2, <1>3, <1>4 DEF Next

LEMMA SchedInductive == Spec => []SchedInv
BY SchedInit, SchedNext, PTL DEF Spec

\* Tables, tasks and storage keep their shape, whatever is edited, deleted,
\* dropped or lost between any two steps.
THEOREM SchedTypeCorrect == Spec => []SchedTypeOK
<1>1. SchedInv => SchedTypeOK
  BY DEF SchedInv
<1> QED BY <1>1, SchedInductive, PTL

-----------------------------------------------------------------------------
(* The double-fire guard.                                                   *)

\* x is a job record of a cron fire of schedule s.
FireOf(x, s) == x.pc \notin {"idle", "done", "dead"} /\ x.kind = "cron" /\ x.sid = s

\* A step that changes one job, but not whether it is a fire, keeps the guard.
LEMMA QuietJob ==
  ASSUME SchedInv, OneFirePerSchedule, NEW j \in Jobs, NEW x,
         job' = [job EXCEPT ![j] = x], in_flight' = in_flight,
         \A s \in Rows : FireOf(job[j], s) <=> FireOf(x, s)
  PROVE  OneFirePerSchedule'
<1>1. \A i \in Jobs, s \in Rows : CronFire(i, s)' <=> CronFire(i, s)
  BY DEF SchedInv, SchedTypeOK, CronFire, Running, FireOf
<1> QED BY <1>1 DEF OneFirePerSchedule

\* A job that is no cron fire before and after a step is of no concern.
LEMMA OtherJob ==
  ASSUME SchedInv, OneFirePerSchedule, NEW j \in Jobs, NEW x,
         job' = [job EXCEPT ![j] = x], in_flight' = in_flight,
         job[j].kind # "cron", x.kind # "cron"
  PROVE  OneFirePerSchedule'
BY QuietJob DEF FireOf

\* The fields of a job that ends or goes on.
LEMMA EndedFields ==
  ASSUME SchedInv, NEW j \in Jobs, NEW how
  PROVE  Ended(j, how).pc = how /\ Ended(j, how).kind = job[j].kind /\ Ended(j, how).sid = job[j].sid
<1>1. job[j] \in JobValues
  BY DEF SchedInv, SchedTypeOK
<1> QED BY <1>1 DEF Ended, JobValues

LEMMA ConcludeFires ==
  ASSUME SchedInv, OneFirePerSchedule, NEW j \in Jobs, Running(j),
         job' = [job EXCEPT ![j] = Conclude(j)], in_flight' = in_flight
  PROVE  OneFirePerSchedule'
<1>1. job[j] \in JobValues
  BY DEF SchedInv, SchedTypeOK
<1>2. CASE job[j].kind = "trigger"
  <2>1. Ended(j, "done").kind = job[j].kind
    BY EndedFields
  <2>2. job' = [job EXCEPT ![j] = Ended(j, "done")]
    BY <1>2 DEF Conclude
  <2> QED BY <1>2, <2>1, <2>2, OtherJob
<1>3. CASE job[j].kind # "trigger"
  <2> DEFINE x == [job[j] EXCEPT !.pc = "report"]
  <2>1. x.pc = "report" /\ x.kind = job[j].kind /\ x.sid = job[j].sid
    BY <1>1 DEF JobValues
  <2>2. job' = [job EXCEPT ![j] = x]
    BY <1>3 DEF Conclude
  <2> HIDE DEF x
  <2>3. \A s \in Rows : FireOf(job[j], s) <=> FireOf(x, s)
    BY <2>1 DEF FireOf, Running
  <2> QED BY <2>2, <2>3, QuietJob
<1> QED BY <1>2, <1>3

\* A fire that goes on to another place of its code is still that fire.
LEMMA GoesOn ==
  ASSUME SchedInv, OneFirePerSchedule, NEW j \in Jobs, Running(j), NEW x,
         job' = [job EXCEPT ![j] = x], in_flight' = in_flight,
         x.pc \notin {"idle", "done", "dead"}, x.kind = job[j].kind, x.sid = job[j].sid
  PROVE  OneFirePerSchedule'
<1>1. \A s \in Rows : FireOf(job[j], s) <=> FireOf(x, s)
  BY DEF FireOf, Running
<1> QED BY <1>1, QuietJob

\* Steps of one job.
LEMMA JobFires ==
  ASSUME SchedInv, OneFirePerSchedule, NEW j \in Jobs, JobStep(j)
  PROVE  OneFirePerSchedule'
<1>0. job \in [Jobs -> JobValues] /\ job[j] \in JobValues /\ ShapeOf(job[j])
  BY JobFields DEF SchedInv, SchedTypeOK
<1>1. CASE Dispatch(j)
  <2> DEFINE b == job[j].action
             x == [job[j] EXCEPT !.pc = "insert", !.plan = b, !.target = plan[b].target,
                                 !.retention = plan[b].retention]
             y == [job[j] EXCEPT !.pc = "report"]
  <2>1. Running(j) /\ in_flight' = in_flight
    BY <1>1 DEF Dispatch, Running
  <2>2. /\ x.pc = "insert" /\ x.kind = job[j].kind /\ x.sid = job[j].sid
        /\ y.pc = "report" /\ y.kind = job[j].kind /\ y.sid = job[j].sid
    BY <1>0 DEF JobValues
  <2>3. job' = [job EXCEPT ![j] = IF plan[b] # NONE /\ plan[b].active THEN x ELSE y]
    BY <1>1 DEF Dispatch
  <2> HIDE DEF x, y
  <2>4. CASE plan[b] # NONE /\ plan[b].active
    BY <2>1, <2>2, <2>3, <2>4, GoesOn
  <2>5. CASE ~(plan[b] # NONE /\ plan[b].active)
    BY <2>1, <2>2, <2>3, <2>5, GoesOn
  <2> QED BY <2>4, <2>5
<1>2. CASE OtherAction(j)
  <2> DEFINE x == [job[j] EXCEPT !.pc = "report"]
  <2>1. Running(j) /\ in_flight' = in_flight /\ job' = [job EXCEPT ![j] = x]
    BY <1>0, <1>2 DEF OtherAction, Running
  <2>2. x.pc = "report" /\ x.kind = job[j].kind /\ x.sid = job[j].sid
    BY <1>0 DEF JobValues
  <2> QED BY <2>1, <2>2, GoesOn
<1>3. CASE Report(j)
  <2>1. CASE job[j].kind = "cron"
    <3> DEFINE x == [job[j] EXCEPT !.pc = "release"]
    <3>1. Running(j) /\ in_flight' = in_flight /\ job' = [job EXCEPT ![j] = x]
      BY <1>0, <1>3, <2>1 DEF Report, Running
    <3>2. x.pc = "release" /\ x.kind = job[j].kind /\ x.sid = job[j].sid
      BY <1>0 DEF JobValues
    <3> QED BY <3>1, <3>2, GoesOn
  <2>2. CASE job[j].kind # "cron"
    BY <1>3, <2>2, OtherJob, EndedFields DEF Report
  <2> QED BY <2>1, <2>2
<1>4. CASE Release(j)
  <2> DEFINE s0 == job[j].sid
  <2>1. job[j].kind = "cron" /\ CronFire(j, s0) /\ s0 \in Rows
    BY <1>0, <1>4 DEF Release, ShapeOf, CronFire, Running
  <2>2. /\ in_flight' = in_flight \ {s0}
        /\ job' = [job EXCEPT ![j] = Ended(j, "done")]
    BY <1>4 DEF Release, Released
  <2>3. ASSUME NEW i \in Jobs, NEW s \in Rows
        PROVE  CronFire(i, s)' <=> CronFire(i, s) /\ i # j
    BY <1>0, <2>2, EndedFields DEF CronFire, Running
  <2>4. \A i \in Jobs : CronFire(i, s0) => i = j
    BY <2>1 DEF OneFirePerSchedule
  <2>5. \A s \in Rows : s # s0 => ~CronFire(j, s)
    BY <2>1 DEF CronFire
  <2> QED BY <2>2, <2>3, <2>4, <2>5 DEF OneFirePerSchedule
<1>5. CASE InsertBackup(j)
  <2>1. Running(j) /\ in_flight' = in_flight
    BY <1>5 DEF InsertBackup, Running
  <2>2. CASE plan[job[j].plan] # NONE
    <3> DEFINE x == [job[j] EXCEPT !.pc = "dump", !.key = build_s3_key(job[j].target, now')]
    <3>1. job' = [job EXCEPT ![j] = x]
      BY <1>0, <1>5, <2>2 DEF InsertBackup
    <3>2. x.pc = "dump" /\ x.kind = job[j].kind /\ x.sid = job[j].sid
      BY <1>0 DEF JobValues
    <3> QED BY <2>1, <3>1, <3>2, GoesOn
  <2>3. CASE plan[job[j].plan] = NONE
    BY <1>5, <2>1, <2>3, ConcludeFires DEF InsertBackup
  <2> QED BY <2>2, <2>3
<1>6. CASE Upload(j)
  <2> DEFINE x == [job[j] EXCEPT !.pc = "uploaded"]
  <2>1. Running(j) /\ in_flight' = in_flight /\ job' = [job EXCEPT ![j] = x]
    BY <1>0, <1>6 DEF Upload, Running
  <2>2. x.pc = "uploaded" /\ x.kind = job[j].kind /\ x.sid = job[j].sid
    BY <1>0 DEF JobValues
  <2> QED BY <2>1, <2>2, GoesOn
<1>7. CASE BackupFails(j)
  <2>1. Running(j)
    BY <1>7 DEF BackupFails, Running
  <2> QED BY <1>7, <2>1, ConcludeFires DEF BackupFails
<1>8. CASE Complete(j)
  <2> DEFINE old == Beyond(job[j].plan, job[j].retention, SetStatus(j, "completed"))
             x == [job[j] EXCEPT !.pc = "sweep", !.sweep = old]
  <2>1. Running(j) /\ in_flight' = in_flight
    BY <1>8 DEF Complete, Running
  <2>2. x.pc = "sweep" /\ x.kind = job[j].kind /\ x.sid = job[j].sid
    BY <1>0 DEF JobValues
  <2>3. job' = [job EXCEPT ![j] = IF job[j].kind = "trigger" THEN Conclude(j) ELSE x]
    BY <1>8 DEF Complete
  <2> HIDE DEF x
  <2>4. CASE job[j].kind = "trigger"
    BY <2>1, <2>3, <2>4, ConcludeFires
  <2>5. CASE job[j].kind # "trigger"
    BY <2>1, <2>2, <2>3, <2>5, GoesOn
  <2> QED BY <2>4, <2>5
<1>9. CASE SweepBlob(j)
  <2>1. PICK v \in job[j].sweep : job' = [job EXCEPT ![j].pc = "sweeprow", ![j].victim = v]
    BY <1>9 DEF SweepBlob
  <2> DEFINE x == [job[j] EXCEPT !.pc = "sweeprow", !.victim = v]
  <2>2. Running(j) /\ in_flight' = in_flight /\ job' = [job EXCEPT ![j] = x]
    BY <1>0, <1>9, <2>1 DEF SweepBlob, Running
  <2>3. x.pc = "sweeprow" /\ x.kind = job[j].kind /\ x.sid = job[j].sid
    BY <1>0 DEF JobValues
  <2> QED BY <2>2, <2>3, GoesOn
<1>10. CASE SweepRow(j)
  <2> DEFINE x == [job[j] EXCEPT !.pc = "sweep", !.sweep = @ \ {job[j].victim}, !.victim = NONE]
  <2>1. Running(j) /\ in_flight' = in_flight /\ job' = [job EXCEPT ![j] = x]
    BY <1>0, <1>10 DEF SweepRow, Running
  <2>2. x.pc = "sweep" /\ x.kind = job[j].kind /\ x.sid = job[j].sid
    BY <1>0 DEF JobValues
  <2> QED BY <2>1, <2>2, GoesOn
<1>11. CASE SweepDone(j)
  <2>1. Running(j)
    BY <1>11 DEF SweepDone, Running
  <2> QED BY <1>11, <2>1, ConcludeFires DEF SweepDone
<1>12. CASE DeleteBlob(j)
  <2>1. PICK pc \in {"done", "deleterow"} : job' = [job EXCEPT ![j].pc = pc]
    BY <1>12 DEF DeleteBlob
  <2> DEFINE x == [job[j] EXCEPT !.pc = pc]
  <2>2. x.kind = job[j].kind /\ job[j].kind = "delete"
    BY <1>0, <1>12 DEF DeleteBlob, JobValues, ShapeOf
  <2>3. in_flight' = in_flight /\ job' = [job EXCEPT ![j] = x]
    BY <1>0, <1>12, <2>1 DEF DeleteBlob
  <2> QED BY <2>2, <2>3, OtherJob
<1>13. CASE DeleteRow(j)
  <2> DEFINE x == [job[j] EXCEPT !.pc = "done"]
  <2>1. x.kind = job[j].kind /\ job[j].kind = "delete"
    BY <1>0, <1>13 DEF DeleteRow, JobValues, ShapeOf
  <2>2. in_flight' = in_flight /\ job' = [job EXCEPT ![j] = x]
    BY <1>0, <1>13 DEF DeleteRow
  <2> QED BY <2>1, <2>2, OtherJob
<1> QED BY <1>1, <1>2, <1>3, <1>4, <1>5, <1>6, <1>7, <1>8, <1>9, <1>10, <1>11, <1>12,
           <1>13 DEF JobStep

\* Handlers start jobs that are no cron fires.
LEMMA HandlerFires ==
  ASSUME SchedInv, OneFirePerSchedule, NEW j \in Jobs, Handler(j)
  PROVE  OneFirePerSchedule'
<1>0. job \in [Jobs -> JobValues]
  BY DEF SchedInv, SchedTypeOK
<1>i. job[j] = Idle => job[j].kind # "cron"
  BY ScheduleConstants DEF Idle
<1>1. ASSUME NEW s \in Rows, RunNow(s, j) PROVE OneFirePerSchedule'
  <2> DEFINE x == [Idle EXCEPT !.pc = "fire", !.kind = "now", !.sid = s, !.action = sched[s].action]
  <2>1. x.kind = "now" /\ in_flight' = in_flight /\ job' = [job EXCEPT ![j] = x]
    BY <1>1 DEF RunNow, Idle
  <2> QED BY <1>i, <1>1, <2>1, OtherJob DEF RunNow
<1>2. ASSUME NEW t \in Targets, Trigger(t, j) PROVE OneFirePerSchedule'
  <2>1. PICK b \in TriggerPlans(t) :
          job' = [job EXCEPT ![j] = [Idle EXCEPT !.pc = "insert", !.kind = "trigger",
                                                 !.plan = b, !.target = t]]
    BY <1>2 DEF Trigger
  <2> DEFINE x == [Idle EXCEPT !.pc = "insert", !.kind = "trigger", !.plan = b, !.target = t]
  <2>2. x.kind = "trigger" /\ in_flight' = in_flight /\ job' = [job EXCEPT ![j] = x]
    BY <1>2, <2>1 DEF Trigger, Idle
  <2> QED BY <1>i, <1>2, <2>2, OtherJob DEF Trigger
<1>3. ASSUME NEW v \in Jobs, DeleteBackup(v, j) PROVE OneFirePerSchedule'
  <2> DEFINE x == [Idle EXCEPT !.pc = "delete", !.kind = "delete", !.victim = v]
  <2>1. x.kind = "delete" /\ in_flight' = in_flight /\ job' = [job EXCEPT ![j] = x]
    BY <1>3 DEF DeleteBackup, Idle
  <2> QED BY <1>i, <1>3, <2>1, OtherJob DEF DeleteBackup
<1>4. ASSUME DropHandler(j) PROVE OneFirePerSchedule'
  <2>1. Ended(j, "dead").kind = job[j].kind /\ job[j].kind # "cron"
    BY <1>4, EndedFields DEF DropHandler
  <2>2. job' = [job EXCEPT ![j] = Ended(j, "dead")] /\ in_flight' = in_flight
    BY <1>4 DEF DropHandler
  <2> QED BY <2>1, <2>2, OtherJob
<1> QED BY <1>1, <1>2, <1>3, <1>4 DEF Handler

\* The runner's in_flight set is exact for any number of schedules, ticks,
\* overlapping requests and restarts: no schedule ever has two cron fires.
THEOREM NoDoubleFire == Spec => []OneFirePerSchedule
<1>1. Init => OneFirePerSchedule
  BY DEF Init, OneFirePerSchedule, CronFire, Running, Idle
<1>2. SchedInv /\ OneFirePerSchedule /\ [Next]_vars => OneFirePerSchedule'
  <2> SUFFICES ASSUME SchedInv, OneFirePerSchedule, [Next]_vars PROVE OneFirePerSchedule'
    OBVIOUS
  <2>0. job \in [Jobs -> JobValues] /\ tick \subseteq Listed
    BY DEF SchedInv, SchedTypeOK
  <2>1. CASE job' = job /\ in_flight' = in_flight
    BY <2>1 DEF OneFirePerSchedule, CronFire, Running
  <2>2. CASE UNCHANGED vars \/ Boot \/ Tick \/ Operator \/ \E s \in Rows : BecomeDue(s)
    BY <2>1, <2>2 DEF vars, Boot, Tick, Operator, BecomeDue, CreatePlan, CreatePlanFails,
                      UpdatePlan, DeletePlan, CreateRow, UpdateRow, RemoveRow, Edit
  <2>3. CASE Crash
    <3>1. \A i \in Jobs, s \in Rows : ~CronFire(i, s)'
      BY <2>3, EndedFields DEF Crash, CronFire, Running
    <3> QED BY <2>3, <3>1 DEF Crash, OneFirePerSchedule
  <2>4. ASSUME NEW r \in tick, TickSkip(r) PROVE OneFirePerSchedule'
    BY <2>1, <2>4 DEF TickSkip
  <2>5. ASSUME NEW r \in tick, NEW j \in Jobs, TickFire(r, j) PROVE OneFirePerSchedule'
    <3> DEFINE x == [Idle EXCEPT !.pc = "fire", !.kind = "cron", !.sid = r.sid,
                                 !.cron = r.cron, !.action = r.action]
    <3>1. x.pc = "fire" /\ x.kind = "cron" /\ x.sid = r.sid /\ r.sid \in Rows
      BY <2>0 DEF Idle, Listed
    <3>2. /\ job' = [job EXCEPT ![j] = x] /\ job[j] = Idle
          /\ in_flight' = in_flight \cup {r.sid} /\ r.sid \notin in_flight
      BY <2>5 DEF TickFire, MayFire
    <3> HIDE DEF x
    <3>3. \A s \in Rows : ~CronFire(j, s) /\ (CronFire(j, s)' <=> s = r.sid)
      BY <2>0, <3>1, <3>2 DEF CronFire, Running, Idle
    <3>4. \A i \in Jobs, s \in Rows : i # j => (CronFire(i, s)' <=> CronFire(i, s))
      BY <2>0, <3>2 DEF CronFire, Running
    <3>5. \A i \in Jobs : ~CronFire(i, r.sid)
      BY <3>1, <3>2 DEF OneFirePerSchedule
    <3> QED BY <3>1, <3>2, <3>3, <3>4, <3>5 DEF OneFirePerSchedule
  <2>6. ASSUME NEW j \in Jobs, JobStep(j) \/ Handler(j) PROVE OneFirePerSchedule'
    BY <2>6, JobFires, HandlerFires
  <2> QED BY <2>2, <2>3, <2>4, <2>5, <2>6 DEF Next, TickStep
<1> QED BY <1>1, <1>2, SchedInductive, PTL DEF Spec

-----------------------------------------------------------------------------
(* Plans and their mirrors.                                                 *)

\* A step that leaves the plan alone and writes at most next_run_at keeps it.
LEMMA OnlyNext ==
  ASSUME PlanIsScheduled, plan' = plan, touched' = touched,
         \A s \in Rows : /\ sched'[s].exists = sched[s].exists /\ sched'[s].cron = sched[s].cron
                         /\ sched'[s].enabled = sched[s].enabled
                         /\ sched'[s].action = sched[s].action
  PROVE  PlanIsScheduled'
BY DEF PlanIsScheduled, Rows

\* Every plan keeps the row that fires it, with its cron expression and state,
\* through any sequence of edits, fires and restarts.
THEOREM PlansStayScheduled == Spec => []PlanIsScheduled
<1>1. Init => PlanIsScheduled
  <2> SUFFICES ASSUME Init, NEW b \in Plans, plan[b] # NONE
               PROVE  /\ sched[b].exists /\ sched[b].cron = plan[b].cron
                      /\ sched[b].enabled = plan[b].active /\ sched[b].action = b
    BY DEF PlanIsScheduled
  <2>1. sched[b] = Backfilled(b, plan[b])
    BY DEF Init, Rows
  <2> QED BY <2>1 DEF Backfilled
<1>2. SchedInv /\ PlanIsScheduled /\ [Next]_vars => PlanIsScheduled'
  <2> SUFFICES ASSUME SchedInv, PlanIsScheduled, [Next]_vars PROVE PlanIsScheduled'
    OBVIOUS
  <2>0. /\ sched \in [Rows -> RowValues] /\ plan \in [Plans -> PlanValues \cup {NONE}]
        /\ tick \subseteq Listed
    BY DEF SchedInv, SchedTypeOK
  <2>1. CASE plan' = plan /\ touched' = touched /\ sched' = sched
    BY <2>1 DEF PlanIsScheduled
  <2>2. ASSUME NEW s \in Rows, BecomeDue(s) PROVE PlanIsScheduled'
    <3>1. \A t \in Rows : sched[t] \in RowValues
      BY <2>0
    <3>2. \A t \in Rows : /\ sched'[t].exists = sched[t].exists /\ sched'[t].cron = sched[t].cron
                          /\ sched'[t].enabled = sched[t].enabled
                          /\ sched'[t].action = sched[t].action
      BY <2>0, <2>2, <3>1 DEF BecomeDue, RowValues
    <3> QED BY <2>2, <3>2, OnlyNext DEF BecomeDue
  <2>3. CASE Boot
    <3>1. \A t \in Rows : sched[t] \in RowValues
      BY <2>0
    <3>2. \A t \in Rows : /\ sched'[t].exists = sched[t].exists /\ sched'[t].cron = sched[t].cron
                          /\ sched'[t].enabled = sched[t].enabled
                          /\ sched'[t].action = sched[t].action
      BY <2>3, <3>1 DEF Boot, Seeded, RowValues
    <3> QED BY <2>3, <3>2, OnlyNext DEF Boot
  <2>4. CASE UNCHANGED vars \/ Crash \/ Tick
    BY <2>1, <2>4 DEF vars, Crash, Tick
  <2>5. ASSUME NEW r \in tick, TickSkip(r) PROVE PlanIsScheduled'
    <3>1. r.sid \in Rows /\ r.cron \in Crons
      BY <2>0 DEF Listed
    <3> QED BY <2>5, <3>1, AdvancedType, OnlyNext DEF TickSkip
  <2>6. ASSUME NEW r \in tick, NEW j \in Jobs, TickFire(r, j) PROVE PlanIsScheduled'
    BY <2>1, <2>6 DEF TickFire
  <2>7. ASSUME NEW j \in Jobs, Report(j) PROVE PlanIsScheduled'
    <3>1. CASE job[j].kind = "cron"
      <4>1. job[j].sid \in Rows /\ job[j].cron \in Crons
        BY <2>7, <3>1, JobFields DEF Report, ShapeOf
      <4> QED BY <2>7, <3>1, <4>1, AdvancedType, OnlyNext DEF Report
    <3>2. CASE job[j].kind # "cron"
      BY <2>1, <2>7, <3>2 DEF Report
    <3> QED BY <3>1, <3>2
  <2>8. ASSUME NEW j \in Jobs, JobStep(j) \/ Handler(j) PROVE PlanIsScheduled'
    BY <2>1, <2>7, <2>8 DEF JobStep, Handler, Dispatch, OtherAction, Release, InsertBackup,
         Upload, BackupFails, Complete, SweepBlob, SweepRow, SweepDone, DeleteBlob, DeleteRow,
         RunNow, Trigger, DeleteBackup, DropHandler
  <2>9. ASSUME NEW b \in Plans, NEW p \in PlanValues, CreatePlan(b, p) PROVE PlanIsScheduled'
    BY <2>0, <2>9, MirrorType DEF CreatePlan, PlanIsScheduled, Rows
  <2>10. ASSUME NEW b \in Plans, NEW p \in PlanValues, UpdatePlan(b, p) PROVE PlanIsScheduled'
    BY <2>0, <2>10, MirrorType DEF UpdatePlan, MirrorAfterUpdate, PlanIsScheduled, Rows
  <2>11. ASSUME NEW b \in Plans, DeletePlan(b) PROVE PlanIsScheduled'
    BY <2>0, <2>11 DEF DeletePlan, PlanIsScheduled, Rows
  <2>12. ASSUME NEW s \in UserRows, NEW c \in Crons, NEW a \in Actions, NEW e \in BOOLEAN,
                CreateRow(s, c, a, e)
         PROVE  PlanIsScheduled'
    <3>1. \A b \in Plans : sched'[b] = sched[b]
      BY <2>0, <2>12, ScheduleConstants DEF CreateRow, Rows
    <3> QED BY <2>12, <3>1 DEF CreateRow, PlanIsScheduled
  <2>13. ASSUME NEW s \in Rows, UpdateRow(s) PROVE PlanIsScheduled'
    <3>1. PICK a \in Actions, e \in BOOLEAN,
            r \in {sched[s]} \cup {[sched[s] EXCEPT !.cron = c, !.next = next_fire(c)] : c \in Crons} :
            sched' = [sched EXCEPT ![s] = [r EXCEPT !.action = a, !.enabled = e]]
      BY <2>13, ReconfiguredType DEF UpdateRow
    <3>2. sched[s] \in RowValues /\ sched[s].exists
      BY <2>0, <2>13 DEF UpdateRow
    <3>3. \A c \in Crons : [sched[s] EXCEPT !.cron = c, !.next = next_fire(c)] \in RowValues
                           /\ [sched[s] EXCEPT !.cron = c, !.next = next_fire(c)].exists
      BY <3>2, FireIsNext DEF RowValues
    <3>4. r \in RowValues /\ r.exists
      BY <3>1, <3>2, <3>3
    <3>5. [r EXCEPT !.action = a, !.enabled = e].exists
      BY <3>4 DEF RowValues
    <3>6. \A b \in Plans : (b = s => sched'[b].exists) /\ (b # s => sched'[b] = sched[b])
      BY <2>0, <3>1, <3>5 DEF Rows
    <3>7. plan' = plan /\ touched' = touched \cup ({s} \cap Plans)
      BY <2>13 DEF UpdateRow
    <3> SUFFICES ASSUME NEW b \in Plans, plan[b] # NONE
                 PROVE  /\ sched'[b].exists
                        /\ b \notin touched' => /\ sched'[b].cron = plan[b].cron
                                                /\ sched'[b].enabled = plan[b].active
                                                /\ sched'[b].action = b
      BY <3>7 DEF PlanIsScheduled
    <3> QED BY <3>6, <3>7 DEF PlanIsScheduled
  <2>14. ASSUME NEW s \in Rows, RemoveRow(s) PROVE PlanIsScheduled'
    <3>1. \A b \in Plans : sched'[b] = sched[b]
      BY <2>0, <2>14, ScheduleConstants DEF RemoveRow, Deletable, Rows
    <3> QED BY <2>14, <3>1 DEF RemoveRow, PlanIsScheduled
  <2>15. ASSUME NEW t \in Targets, CreatePlanFails(t) PROVE PlanIsScheduled'
    BY <2>15 DEF CreatePlanFails, PlanIsScheduled
  <2>16. CASE Operator
    BY <2>9, <2>10, <2>11, <2>12, <2>13, <2>14, <2>15, <2>16 DEF Operator
  <2> QED BY <2>2, <2>3, <2>4, <2>5, <2>6, <2>8, <2>16 DEF Next, TickStep
<1> QED BY <1>1, <1>2, SchedInductive, PTL DEF Spec

-----------------------------------------------------------------------------
(* Backups: what is stored, what is swept.                                  *)

Early == {"idle", "fire", "insert"}
Storing == {"dump", "uploaded"}

\* A job and the backups row it makes, from before the INSERT to the end.
LifeOf(x, k) ==
  /\ x.pc \in Early => x.key = NONE /\ ~k.exists /\ k.plan = NONE /\ k.status = "none"
  /\ x.pc \in Early \cup Storing \cup {"sweep"} => x.victim = NONE
  /\ x.pc \in Storing => x.key # NONE /\ k.status # "completed"
  /\ k.exists \/ k.status = "completed" => x.key # NONE
  /\ k.plan \in {NONE, x.plan}
  /\ x.kind = "delete" => x.pc \in {"delete", "deleterow", "done", "dead"} /\ x.victim \in Jobs
  /\ x.pc = "sweeprow" => x.victim \in x.sweep
  /\ x.pc \in Storing \cup {"insert"} => x.plan \in Plans /\ (x.kind # "trigger" => x.retention \in Retentions)

Life == \A j \in Jobs : LifeOf(job[j], backup[j])

\* A completed backup of the same plan is newer.
Superseded(v) ==
  \E d \in Jobs : backup[d].status = "completed" /\ job[d].plan = job[v].plan /\ Before(d, v)

\* A sweep lists completed backups only and, for counts of 1 and more, never the newest.
Lists ==
  \A j \in Jobs : \A v \in job[j].sweep :
    backup[v].status = "completed" /\ (0 \notin Retentions => Superseded(v))

Deleting(v) == \E j \in Jobs : job[j].kind = "delete" /\ job[j].victim = v

Gone ==
  0 \notin Retentions =>
    \A v \in Jobs : backup[v].status = "completed" /\ ~backup[v].exists => Superseded(v) \/ Deleting(v)

Kept(b) == job[b].pc = "uploaded" \/ (backup[b].exists /\ backup[b].status = "completed")

Stored == \A b \in Jobs : Kept(b) => job[b].key \in blobs \/ SharesKey(b) \/ DeletionBegun(b)

BackupInv == Life /\ Lists /\ Gone /\ Stored

\* What no step takes back: the key, plan and age of a backup, its completion, and the
\* victim of a delete_backup.
Steady ==
  \A c \in Jobs :
    /\ job[c].key # NONE => /\ job'[c].key = job[c].key /\ job'[c].plan = job[c].plan
                            /\ backup'[c].seq = backup[c].seq
    /\ backup[c].status = "completed" => backup'[c].status = "completed"
    /\ job[c].kind = "delete" => job'[c].kind = "delete" /\ job'[c].victim = job[c].victim

LEMMA SupersededStays ==
  ASSUME Life, Steady, NEW v \in Jobs, backup[v].status = "completed", Superseded(v)
  PROVE  Superseded(v)'
<1>1. PICK d \in Jobs : backup[d].status = "completed" /\ job[d].plan = job[v].plan /\ Before(d, v)
  BY DEF Superseded
<1>2. job[v].key # NONE /\ job[d].key # NONE
  BY <1>1 DEF Life, LifeOf
<1>3. /\ job'[v].key = job[v].key /\ job'[v].plan = job[v].plan /\ backup'[v].seq = backup[v].seq
      /\ job'[d].key = job[d].key /\ job'[d].plan = job[d].plan /\ backup'[d].seq = backup[d].seq
      /\ backup'[d].status = "completed"
  BY <1>1, <1>2 DEF Steady
<1>4. Before(d, v)'
  BY <1>1, <1>3 DEF Before
<1> QED BY <1>1, <1>3, <1>4 DEF Superseded

LEMMA ListsKept ==
  ASSUME SchedInv, Life, Lists, Steady,
         \A i \in Jobs : \A v \in job'[i].sweep :
           \/ v \in job[i].sweep
           \/ backup'[v].status = "completed" /\ (0 \notin Retentions => Superseded(v)')
  PROVE  Lists'
<1> SUFFICES ASSUME NEW i \in Jobs, NEW v \in job'[i].sweep
             PROVE  backup'[v].status = "completed" /\ (0 \notin Retentions => Superseded(v)')
  BY DEF Lists
<1>1. CASE v \in job[i].sweep
  <2>1. v \in Jobs
    BY <1>1, JobFields DEF JobValues
  <2>2. backup[v].status = "completed" /\ (0 \notin Retentions => Superseded(v))
    BY <1>1 DEF Lists
  <2> QED BY <2>1, <2>2, SupersededStays DEF Steady
<1> QED BY <1>1

LEMMA GoneKept ==
  ASSUME SchedInv, Life, Gone, Steady,
         0 \notin Retentions =>
           \A v \in Jobs : backup'[v].status = "completed" /\ ~backup'[v].exists =>
             \/ backup[v].status = "completed" /\ ~backup[v].exists
             \/ backup[v].status = "completed" /\ Superseded(v)
             \/ Deleting(v)
  PROVE  Gone'
<1> SUFFICES ASSUME 0 \notin Retentions, NEW v \in Jobs, backup'[v].status = "completed", ~backup'[v].exists
             PROVE  Superseded(v)' \/ Deleting(v)'
  BY DEF Gone
<1>1. (backup[v].status = "completed" /\ Superseded(v)) \/ Deleting(v)
  BY DEF Gone
<1>2. CASE Deleting(v)
  BY <1>2 DEF Deleting, Steady
<1> QED BY <1>1, <1>2, SupersededStays

\* A blob goes only with a deletion of one of the backups it belongs to.
LEMMA StoredKept ==
  ASSUME SchedInv, Life, Stored, Steady,
         \A b \in Jobs : Kept(b)' => Kept(b) \/ job'[b].key \in blobs',
         \A key \in blobs \ blobs' : \E v \in Jobs : job[v].key = key /\ DeletionBegun(v)',
         \A b \in Jobs : DeletionBegun(b) /\ Kept(b)' => DeletionBegun(b)'
  PROVE  Stored'
<1> SUFFICES ASSUME NEW b \in Jobs, Kept(b)'
             PROVE  job'[b].key \in blobs' \/ SharesKey(b)' \/ DeletionBegun(b)'
  BY DEF Stored
<1>1. CASE Kept(b)
  <2>1. job[b].key # NONE
    BY <1>1 DEF Kept, Life, LifeOf, Storing
  <2>2. job'[b].key = job[b].key
    BY <2>1 DEF Steady
  <2>3. ASSUME NEW c \in Jobs \ {b}, job[c].key = job[b].key PROVE SharesKey(b)'
    <3>1. job'[c].key = job[c].key
      BY <2>1, <2>3 DEF Steady
    <3> QED BY <2>2, <2>3, <3>1 DEF SharesKey
  <2>4. CASE job[b].key \in blobs /\ job[b].key \notin blobs'
    <3>1. PICK v \in Jobs : job[v].key = job[b].key /\ DeletionBegun(v)'
      BY <2>4
    <3>2. CASE v = b
      BY <3>1, <3>2
    <3>3. CASE v # b
      BY <2>3, <3>1, <3>3
    <3> QED BY <3>2, <3>3
  <2>5. CASE SharesKey(b)
    BY <2>3, <2>5 DEF SharesKey
  <2>6. CASE DeletionBegun(b)
    BY <2>6
  <2> QED BY <1>1, <2>2, <2>4, <2>5, <2>6 DEF Stored
<1> QED BY <1>1

\* A row loses its plan, or is deleted; the rest of it stays.
Fades(k, l) ==
  /\ l.status = k.status /\ l.seq = k.seq
  /\ l.exists => k.exists
  /\ l.plan = k.plan \/ l.plan = NONE

LEMMA FadedLife ==
  ASSUME NEW x, NEW k, NEW l, LifeOf(x, k), Fades(k, l)
  PROVE  LifeOf(x, l)
BY DEF LifeOf, Fades

\* What one job carries on with.
Carries(j, x) ==
  /\ job[j].key # NONE => x.key = job[j].key /\ x.plan = job[j].plan
  /\ job[j].kind = "delete" => x.kind = "delete"
  /\ job[j].victim # NONE => x.victim = job[j].victim

LEMMA OneJobSteady ==
  ASSUME SchedInv, Life, NEW j \in Jobs, NEW x, job' = [job EXCEPT ![j] = x], Carries(j, x),
         \A c \in Jobs : /\ job[c].key # NONE => backup'[c].seq = backup[c].seq
                         /\ backup[c].status = "completed" => backup'[c].status = "completed"
  PROVE  Steady
<1>0. job \in [Jobs -> JobValues]
  BY DEF SchedInv, SchedTypeOK
<1> SUFFICES ASSUME NEW c \in Jobs
             PROVE  /\ job[c].key # NONE => job'[c].key = job[c].key /\ job'[c].plan = job[c].plan
                    /\ job[c].kind = "delete" => job'[c].kind = "delete" /\ job'[c].victim = job[c].victim
  BY DEF Steady
<1>1. CASE c = j
  <2>1. job[j].kind = "delete" => job[j].victim # NONE
    BY ScheduleConstants DEF Life, LifeOf
  <2> QED BY <1>0, <1>1, <2>1 DEF Carries
<1>2. CASE c # j
  BY <1>0, <1>2
<1> QED BY <1>1, <1>2

LEMMA OneJobLife ==
  ASSUME SchedInv, Life, NEW j \in Jobs, NEW x, job' = [job EXCEPT ![j] = x],
         LifeOf(x, backup'[j]), \A c \in Jobs \ {j} : Fades(backup[c], backup'[c])
  PROVE  Life'
<1>0. job \in [Jobs -> JobValues]
  BY DEF SchedInv, SchedTypeOK
<1> SUFFICES ASSUME NEW c \in Jobs PROVE LifeOf(job'[c], backup'[c])
  BY DEF Life
<1>1. CASE c = j
  BY <1>0, <1>1
<1>2. CASE c # j
  <2>1. job'[c] = job[c] /\ LifeOf(job[c], backup[c]) /\ Fades(backup[c], backup'[c])
    BY <1>0, <1>2 DEF Life
  <2> QED BY <2>1, FadedLife
<1> QED BY <1>1, <1>2

\* The victims of other jobs stay; j's does unless it is done with it.
LEMMA OneJobVictims ==
  ASSUME SchedInv, NEW j \in Jobs, NEW x, job' = [job EXCEPT ![j] = x], Carries(j, x)
  PROVE  \A b \in Jobs : DeletionBegun(b) => DeletionBegun(b)'
<1>0. job \in [Jobs -> JobValues]
  BY DEF SchedInv, SchedTypeOK
<1> SUFFICES ASSUME NEW b \in Jobs, NEW i \in Jobs, job[i].victim = b PROVE job'[i].victim = b
  BY DEF DeletionBegun
<1>1. b # NONE
  BY ScheduleConstants
<1>2. CASE i = j
  BY <1>0, <1>1, <1>2 DEF Carries
<1>3. CASE i # j
  BY <1>0, <1>3
<1> QED BY <1>2, <1>3

\* A step of one job that touches neither rows nor blobs.
LEMMA QuietBackup ==
  ASSUME SchedInv, BackupInv, NEW j \in Jobs, NEW x, job' = [job EXCEPT ![j] = x],
         backup' = backup, blobs' = blobs, LifeOf(x, backup[j]), Carries(j, x),
         x.sweep \subseteq job[j].sweep, x.pc = "uploaded" => job[j].pc = "uploaded"
  PROVE  BackupInv'
<1>0. /\ Life /\ Lists /\ Gone /\ Stored /\ job \in [Jobs -> JobValues]
      /\ backup \in [Jobs -> BackupValues]
  BY DEF BackupInv, SchedInv, SchedTypeOK
<1>1. Steady
  BY <1>0, OneJobSteady
<1>2. Life'
  BY <1>0, OneJobLife DEF Fades
<1>3. Lists'
  <2>1. \A i \in Jobs : job'[i].sweep \subseteq job[i].sweep
    BY <1>0
  <2> QED BY <1>0, <1>1, <2>1, ListsKept
<1>4. Gone'
  BY <1>0, <1>1, GoneKept
<1>5. Stored'
  <2>1. \A b \in Jobs : Kept(b)' => Kept(b)
    BY <1>0 DEF Kept
  <2> QED BY <1>0, <1>1, <2>1, OneJobVictims, StoredKept
<1> QED BY <1>2, <1>3, <1>4, <1>5 DEF BackupInv

\* The fields of the records a job can be set to.
LEMMA JobUpdates ==
  ASSUME SchedInv, NEW j \in Jobs
  PROVE  /\ \A how : LET e == Ended(j, how) IN
              /\ e.pc = how /\ e.kind = job[j].kind /\ e.key = job[j].key /\ e.plan = job[j].plan
              /\ e.victim = job[j].victim /\ e.sweep = {}
         /\ \A pc : LET e == [job[j] EXCEPT !.pc = pc] IN
              /\ e.pc = pc /\ e.kind = job[j].kind /\ e.key = job[j].key /\ e.plan = job[j].plan
              /\ e.victim = job[j].victim /\ e.sweep = job[j].sweep /\ e.retention = job[j].retention
<1>1. job[j] \in JobValues
  BY DEF SchedInv, SchedTypeOK
<1> QED BY <1>1 DEF Ended, JobValues

\* A job at the end of its backup: nothing it made is touched.
LEMMA ConcludesQuietly ==
  ASSUME SchedInv, BackupInv, NEW j \in Jobs, job[j].pc \in {"insert", "dump", "uploaded", "sweep"},
         NEW k, job[j].key # NONE \/ (~k.exists /\ k.status # "completed"), k.plan \in {NONE, job[j].plan}
  PROVE  /\ LifeOf(Conclude(j), k) /\ Carries(j, Conclude(j))
         /\ Conclude(j).sweep \subseteq job[j].sweep /\ Conclude(j).pc # "uploaded"
<1>1. LifeOf(job[j], backup[j])
  BY DEF BackupInv, Life
<1>2. job[j].kind # "delete"
  BY <1>1 DEF LifeOf
<1>3. CASE job[j].kind = "trigger"
  <2> DEFINE x == Ended(j, "done")
  <2>1. Conclude(j) = x
    BY <1>3 DEF Conclude
  <2>2. /\ x.pc = "done" /\ x.kind = job[j].kind /\ x.key = job[j].key /\ x.plan = job[j].plan
        /\ x.victim = job[j].victim /\ x.sweep = {}
    BY JobUpdates
  <2> HIDE DEF x
  <2> QED BY <1>2, <2>1, <2>2 DEF LifeOf, Carries, Early, Storing
<1>4. CASE job[j].kind # "trigger"
  <2> DEFINE x == [job[j] EXCEPT !.pc = "report"]
  <2>1. Conclude(j) = x
    BY <1>4 DEF Conclude
  <2>2. /\ x.pc = "report" /\ x.kind = job[j].kind /\ x.key = job[j].key /\ x.plan = job[j].plan
        /\ x.victim = job[j].victim /\ x.sweep = job[j].sweep
    BY JobUpdates
  <2> HIDE DEF x
  <2> QED BY <1>2, <2>1, <2>2 DEF LifeOf, Carries, Early, Storing
<1> QED BY <1>3, <1>4

\* Jobs begin, move between the steps that touch no backup, and end.
LEMMA QuietSteps ==
  ASSUME SchedInv, BackupInv, NEW j \in Jobs,
         \/ Dispatch(j) \/ OtherAction(j) \/ Report(j) \/ Release(j) \/ SweepDone(j) \/ Handler(j)
         \/ \E r \in tick : TickFire(r, j)
  PROVE  BackupInv'
<1>0. /\ LifeOf(job[j], backup[j]) /\ job[j] \in JobValues /\ ShapeOf(job[j])
      /\ job \in [Jobs -> JobValues] /\ plan \in [Plans -> PlanValues \cup {NONE}]
  BY JobFields DEF BackupInv, Life, SchedInv, SchedTypeOK
<1>p. ASSUME NEW pc \in {"report", "release"}, job' = [job EXCEPT ![j] = [job[j] EXCEPT !.pc = pc]],
             backup' = backup, blobs' = blobs, job[j].pc \in {"fire", "report"}, job[j].kind # "delete"
      PROVE  BackupInv'
  <2> DEFINE x == [job[j] EXCEPT !.pc = pc]
  <2>1. /\ x.pc = pc /\ x.kind = job[j].kind /\ x.key = job[j].key /\ x.plan = job[j].plan
        /\ x.victim = job[j].victim /\ x.sweep = job[j].sweep
    BY JobUpdates
  <2>2. job' = [job EXCEPT ![j] = x]
    BY <1>p
  <2> HIDE DEF x
  <2>3. LifeOf(x, backup[j]) /\ Carries(j, x)
    BY <1>0, <1>p, <2>1 DEF LifeOf, Carries, Early, Storing
  <2> QED BY <1>p, <2>1, <2>2, <2>3, QuietBackup
<1>e. ASSUME NEW how \in {"done", "dead"}, job' = [job EXCEPT ![j] = Ended(j, how)],
             backup' = backup, blobs' = blobs
      PROVE  BackupInv'
  <2> DEFINE x == Ended(j, how)
  <2>1. /\ x.pc = how /\ x.kind = job[j].kind /\ x.key = job[j].key /\ x.plan = job[j].plan
        /\ x.victim = job[j].victim /\ x.sweep = {}
    BY JobUpdates
  <2>2. job' = [job EXCEPT ![j] = x]
    BY <1>e
  <2> HIDE DEF x
  <2>3. LifeOf(x, backup[j]) /\ Carries(j, x)
    BY <1>0, <1>e, <2>1 DEF LifeOf, Carries, Early, Storing
  <2> QED BY <1>e, <2>1, <2>2, <2>3, QuietBackup
<1>b. ASSUME job[j] = Idle, NEW x, job' = [job EXCEPT ![j] = x], backup' = backup, blobs' = blobs,
             x.key = NONE, x.sweep = {},
             \/ x.pc = "fire" /\ x.victim = NONE /\ x.kind # "delete"
             \/ x.pc = "insert" /\ x.victim = NONE /\ x.kind = "trigger" /\ x.plan \in Plans
             \/ x.pc = "delete" /\ x.victim \in Jobs
      PROVE  BackupInv'
  <2>1. job[j].pc = "idle" /\ job[j].key = NONE /\ job[j].victim = NONE /\ job[j].kind = NONE
    BY <1>b DEF Idle
  <2>2. ~backup[j].exists /\ backup[j].plan = NONE /\ backup[j].status = "none"
    BY <1>0, <2>1 DEF LifeOf, Early
  <2>3. LifeOf(x, backup[j]) /\ Carries(j, x)
    BY <1>b, <2>1, <2>2, ScheduleConstants DEF LifeOf, Carries, Early, Storing
  <2> QED BY <1>b, <2>3, QuietBackup
<1>1. CASE Dispatch(j)
  <2> DEFINE b == job[j].action
             x == [job[j] EXCEPT !.pc = "insert", !.plan = b, !.target = plan[b].target,
                                 !.retention = plan[b].retention]
  <2>1. job[j].pc = "fire" /\ b \in Plans /\ backup' = backup /\ blobs' = blobs
    BY <1>1 DEF Dispatch
  <2>2. job[j].kind # "delete"
    BY <1>0, <2>1 DEF LifeOf
  <2>3. CASE plan[b] # NONE /\ plan[b].active
    <3>1. job' = [job EXCEPT ![j] = x]
      BY <1>1, <2>3 DEF Dispatch
    <3>2. plan[b] \in PlanValues
      BY <1>0, <2>1, <2>3
    <3>3. plan[b].retention \in Retentions
      BY <3>2 DEF PlanValues
    <3>4. /\ x.pc = "insert" /\ x.kind = job[j].kind /\ x.key = job[j].key
          /\ x.victim = job[j].victim /\ x.sweep = job[j].sweep /\ x.retention = plan[b].retention
          /\ x.plan \in Plans
      BY <1>0, <2>1 DEF JobValues
    <3> HIDE DEF x
    <3>5. LifeOf(x, backup[j]) /\ Carries(j, x)
      BY <1>0, <2>1, <2>2, <3>3, <3>4 DEF LifeOf, Carries, Early, Storing
    <3> QED BY <2>1, <3>1, <3>4, <3>5, QuietBackup
  <2>4. CASE ~(plan[b] # NONE /\ plan[b].active)
    <3>1. job' = [job EXCEPT ![j] = [job[j] EXCEPT !.pc = "report"]]
      BY <1>1, <2>4 DEF Dispatch
    <3> QED BY <1>p, <2>1, <2>2, <3>1
  <2> QED BY <2>3, <2>4
<1>2. CASE OtherAction(j)
  <2>1. /\ job' = [job EXCEPT ![j] = [job[j] EXCEPT !.pc = "report"]] /\ job[j].pc = "fire"
        /\ backup' = backup /\ blobs' = blobs
    BY <1>0, <1>2 DEF OtherAction
  <2>2. job[j].kind # "delete"
    BY <1>0, <2>1 DEF LifeOf
  <2> QED BY <1>p, <2>1, <2>2
<1>3. CASE Report(j)
  <2>1. job[j].pc = "report" /\ backup' = backup /\ blobs' = blobs
    BY <1>3 DEF Report
  <2>2. CASE job[j].kind = "cron"
    <3>1. job' = [job EXCEPT ![j] = [job[j] EXCEPT !.pc = "release"]]
      BY <1>0, <1>3, <2>2 DEF Report
    <3> QED BY <1>p, <2>1, <2>2, <3>1
  <2>3. CASE job[j].kind # "cron"
    <3>1. job' = [job EXCEPT ![j] = Ended(j, "done")]
      BY <1>3, <2>3 DEF Report
    <3> QED BY <1>e, <2>1, <3>1
  <2> QED BY <2>2, <2>3
<1>4. CASE Release(j)
  BY <1>e, <1>4 DEF Release
<1>5. CASE SweepDone(j)
  <2>1. /\ job[j].pc = "sweep" /\ job' = [job EXCEPT ![j] = Conclude(j)]
        /\ backup' = backup /\ blobs' = blobs
    BY <1>5 DEF SweepDone
  <2>2. backup[j].exists \/ backup[j].status = "completed" => job[j].key # NONE
    BY <1>0 DEF LifeOf
  <2>3. backup[j].plan \in {NONE, job[j].plan}
    BY <1>0 DEF LifeOf
  <2>4. /\ LifeOf(Conclude(j), backup[j]) /\ Carries(j, Conclude(j))
        /\ Conclude(j).sweep \subseteq job[j].sweep /\ Conclude(j).pc # "uploaded"
    BY <2>1, <2>2, <2>3, ConcludesQuietly
  <2> QED BY <2>1, <2>4, QuietBackup
<1>6. ASSUME NEW r \in tick, TickFire(r, j) PROVE BackupInv'
  <2> DEFINE x == [Idle EXCEPT !.pc = "fire", !.kind = "cron", !.sid = r.sid,
                               !.cron = r.cron, !.action = r.action]
  <2>1. job[j] = Idle /\ job' = [job EXCEPT ![j] = x] /\ backup' = backup /\ blobs' = blobs
    BY <1>6 DEF TickFire
  <2>2. x.pc = "fire" /\ x.victim = NONE /\ x.kind = "cron" /\ x.key = NONE /\ x.sweep = {}
    BY DEF Idle
  <2> HIDE DEF x
  <2> QED BY <1>b, <2>1, <2>2
<1>7. ASSUME NEW s \in Rows, RunNow(s, j) PROVE BackupInv'
  <2> DEFINE x == [Idle EXCEPT !.pc = "fire", !.kind = "now", !.sid = s, !.action = sched[s].action]
  <2>1. job[j] = Idle /\ job' = [job EXCEPT ![j] = x] /\ backup' = backup /\ blobs' = blobs
    BY <1>7 DEF RunNow
  <2>2. x.pc = "fire" /\ x.victim = NONE /\ x.kind = "now" /\ x.key = NONE /\ x.sweep = {}
    BY DEF Idle
  <2> HIDE DEF x
  <2> QED BY <1>b, <2>1, <2>2
<1>8. ASSUME NEW t \in Targets, Trigger(t, j) PROVE BackupInv'
  <2>1. PICK b \in TriggerPlans(t) :
          job' = [job EXCEPT ![j] = [Idle EXCEPT !.pc = "insert", !.kind = "trigger", !.plan = b, !.target = t]]
    BY <1>8 DEF Trigger
  <2> DEFINE x == [Idle EXCEPT !.pc = "insert", !.kind = "trigger", !.plan = b, !.target = t]
  <2>2. job[j] = Idle /\ job' = [job EXCEPT ![j] = x] /\ backup' = backup /\ blobs' = blobs
    BY <1>8, <2>1 DEF Trigger
  <2>3. x.pc = "insert" /\ x.victim = NONE /\ x.kind = "trigger" /\ x.key = NONE /\ x.sweep = {} /\ x.plan \in Plans
    BY DEF Idle, TriggerPlans, ActivePlans
  <2> HIDE DEF x
  <2> QED BY <1>b, <2>2, <2>3
<1>9. ASSUME NEW v \in Jobs, DeleteBackup(v, j) PROVE BackupInv'
  <2> DEFINE x == [Idle EXCEPT !.pc = "delete", !.kind = "delete", !.victim = v]
  <2>1. job[j] = Idle /\ job' = [job EXCEPT ![j] = x] /\ backup' = backup /\ blobs' = blobs
    BY <1>9 DEF DeleteBackup
  <2>2. x.pc = "delete" /\ x.victim = v /\ x.kind = "delete" /\ x.key = NONE /\ x.sweep = {}
    BY DEF Idle
  <2> HIDE DEF x
  <2> QED BY <1>b, <2>1, <2>2
<1>10. CASE DropHandler(j)
  BY <1>e, <1>10 DEF DropHandler
<1> QED BY <1>1, <1>2, <1>3, <1>4, <1>5, <1>6, <1>7, <1>8, <1>9, <1>10 DEF Handler

\* The row of the backup is inserted, its dump stored, its status written.
LEMMA StoringSteps ==
  ASSUME SchedInv, BackupInv, NEW j \in Jobs, InsertBackup(j) \/ Upload(j) \/ BackupFails(j)
  PROVE  BackupInv'
<1>0. /\ Life /\ Lists /\ Gone /\ Stored /\ job \in [Jobs -> JobValues] /\ backup \in [Jobs -> BackupValues]
      /\ LifeOf(job[j], backup[j]) /\ job[j] \in JobValues /\ ShapeOf(job[j]) /\ backup[j] \in BackupValues
  BY JobFields DEF BackupInv, Life, SchedInv, SchedTypeOK
<1>1. CASE InsertBackup(j) /\ plan[job[j].plan] # NONE
  <2> DEFINE key == build_s3_key(job[j].target, now')
             x == [job[j] EXCEPT !.pc = "dump", !.key = key]
             k == [exists |-> TRUE, plan |-> job[j].plan, status |-> "running", seq |-> Inserted]
  <2>1. job[j].pc = "insert" /\ job[j].target \in Targets /\ now' \in 0 .. MaxNow
    BY <1>0, <1>1, ScheduleConstants DEF InsertBackup, ShapeOf, SchedInv, SchedTypeOK
  <2>2. job' = [job EXCEPT ![j] = x] /\ backup' = [backup EXCEPT ![j] = k] /\ blobs' = blobs
    BY <1>0, <1>1 DEF InsertBackup
  <2>3. key \in Keys /\ key # NONE
    BY <2>1, NoneIsNoKey DEF build_s3_key, Keys
  <2> HIDE DEF key
  <2>4. /\ x.pc = "dump" /\ x.key = key /\ x.kind = job[j].kind /\ x.plan = job[j].plan
        /\ x.victim = job[j].victim /\ x.sweep = job[j].sweep /\ x.retention = job[j].retention
    BY <1>0 DEF JobValues
  <2>5. /\ job[j].key = NONE /\ backup[j].status = "none" /\ job[j].victim = NONE /\ job[j].kind # "delete"
        /\ job[j].plan \in Plans
    BY <1>0, <2>1 DEF LifeOf, Early
  <2>6. backup'[j] = k /\ \A c \in Jobs \ {j} : backup'[c] = backup[c]
    BY <1>0, <2>2
  <2>7. k.exists /\ k.status = "running" /\ k.plan = job[j].plan
    OBVIOUS
  <2> HIDE DEF x, k
  <2>8. LifeOf(x, k) /\ Carries(j, x)
    BY <1>0, <2>1, <2>3, <2>4, <2>5, <2>7 DEF LifeOf, Carries, Early, Storing
  <2>9. Life'
    <3>1. \A c \in Jobs \ {j} : Fades(backup[c], backup'[c])
      BY <2>6 DEF Fades
    <3> QED BY <1>0, <2>2, <2>6, <2>8, <3>1, OneJobLife
  <2>10. Steady
    <3>1. \A c \in Jobs : /\ job[c].key # NONE => backup'[c].seq = backup[c].seq
                          /\ backup[c].status = "completed" => backup'[c].status = "completed"
      BY <2>5, <2>6
    <3> QED BY <1>0, <2>2, <2>8, <3>1, OneJobSteady
  <2>11. Lists'
    <3>1. \A i \in Jobs : job'[i].sweep = job[i].sweep
      BY <1>0, <2>2, <2>4
    <3> QED BY <1>0, <2>10, <3>1, ListsKept
  <2>12. Gone'
    <3>1. \A v \in Jobs : backup'[v].status = "completed" /\ ~backup'[v].exists =>
                            backup[v].status = "completed" /\ ~backup[v].exists
      BY <2>6, <2>7
    <3> QED BY <1>0, <2>10, <3>1, GoneKept
  <2>13. Stored'
    <3>1. \A b \in Jobs : Kept(b)' => Kept(b)
      BY <1>0, <2>2, <2>4, <2>6, <2>7 DEF Kept
    <3> QED BY <1>0, <2>2, <2>8, <2>10, <3>1, OneJobVictims, StoredKept
  <2> QED BY <2>9, <2>11, <2>12, <2>13 DEF BackupInv
<1>2. CASE InsertBackup(j) /\ ~(plan[job[j].plan] # NONE)
  <2>1. /\ job[j].pc = "insert" /\ job' = [job EXCEPT ![j] = Conclude(j)]
        /\ backup' = backup /\ blobs' = blobs
    BY <1>2 DEF InsertBackup
  <2>2. ~backup[j].exists /\ backup[j].status = "none" /\ backup[j].plan = NONE
    BY <1>0, <2>1 DEF LifeOf, Early
  <2>3. /\ LifeOf(Conclude(j), backup[j]) /\ Carries(j, Conclude(j))
        /\ Conclude(j).sweep \subseteq job[j].sweep /\ Conclude(j).pc # "uploaded"
    BY <2>1, <2>2, ConcludesQuietly
  <2> QED BY <2>1, <2>3, QuietBackup
<1>3. CASE Upload(j)
  <2> DEFINE x == [job[j] EXCEPT !.pc = "uploaded"]
  <2>1. /\ job[j].pc = "dump" /\ job' = [job EXCEPT ![j] = x] /\ backup' = backup
        /\ blobs' = blobs \cup {job[j].key}
    BY <1>0, <1>3 DEF Upload
  <2>2. /\ x.pc = "uploaded" /\ x.kind = job[j].kind /\ x.key = job[j].key /\ x.plan = job[j].plan
        /\ x.victim = job[j].victim /\ x.sweep = job[j].sweep /\ x.retention = job[j].retention
    BY JobUpdates
  <2> HIDE DEF x
  <2>3. LifeOf(x, backup[j]) /\ Carries(j, x)
    BY <1>0, <2>1, <2>2 DEF LifeOf, Carries, Early, Storing
  <2>4. Life'
    BY <1>0, <2>1, <2>3, OneJobLife DEF Fades
  <2>5. Steady
    BY <1>0, <2>1, <2>3, OneJobSteady
  <2>6. Lists'
    <3>1. \A i \in Jobs : job'[i].sweep = job[i].sweep
      BY <1>0, <2>1, <2>2
    <3> QED BY <1>0, <2>5, <3>1, ListsKept
  <2>7. Gone'
    BY <1>0, <2>1, <2>5, GoneKept
  <2>8. Stored'
    <3>1. \A b \in Jobs : Kept(b)' => Kept(b) \/ job'[b].key \in blobs'
      BY <1>0, <2>1, <2>2 DEF Kept
    <3> QED BY <1>0, <2>1, <2>3, <2>5, <3>1, OneJobVictims, StoredKept
  <2> QED BY <2>4, <2>6, <2>7, <2>8 DEF BackupInv
<1>4. CASE BackupFails(j)
  <2> DEFINE x == Conclude(j)
  <2>1. /\ job[j].pc \in Storing /\ job' = [job EXCEPT ![j] = x] /\ backup' = SetStatus(j, "failed")
        /\ blobs' = blobs
    BY <1>4 DEF BackupFails, Storing
  <2>2. job[j].key # NONE /\ backup[j].status # "completed" /\ backup[j].plan \in {NONE, job[j].plan}
    BY <1>0, <2>1 DEF LifeOf
  <2>3. /\ \A c \in Jobs \ {j} : backup'[c] = backup[c]
        /\ backup'[j].plan = backup[j].plan /\ backup'[j].seq = backup[j].seq
        /\ backup'[j].status # "completed"
    BY <1>0, <2>1, <2>2 DEF SetStatus, BackupValues
  <2>4. /\ LifeOf(x, backup'[j]) /\ Carries(j, x) /\ x.sweep \subseteq job[j].sweep /\ x.pc # "uploaded"
    BY <2>1, <2>2, <2>3, ConcludesQuietly DEF Storing
  <2> HIDE DEF x
  <2>5. Life'
    <3>1. \A c \in Jobs \ {j} : Fades(backup[c], backup'[c])
      BY <2>3 DEF Fades
    <3> QED BY <1>0, <2>1, <2>4, <3>1, OneJobLife
  <2>6. Steady
    <3>1. \A c \in Jobs : /\ job[c].key # NONE => backup'[c].seq = backup[c].seq
                          /\ backup[c].status = "completed" => backup'[c].status = "completed"
      BY <2>2, <2>3
    <3> QED BY <1>0, <2>1, <2>4, <3>1, OneJobSteady
  <2>7. Lists'
    <3>1. \A i \in Jobs : job'[i].sweep \subseteq job[i].sweep
      BY <1>0, <2>1, <2>4
    <3> QED BY <1>0, <2>6, <3>1, ListsKept
  <2>8. Gone'
    <3>1. \A v \in Jobs : backup'[v].status = "completed" /\ ~backup'[v].exists =>
                            backup[v].status = "completed" /\ ~backup[v].exists
      BY <2>3
    <3> QED BY <1>0, <2>6, <3>1, GoneKept
  <2>9. Stored'
    <3>1. \A b \in Jobs : Kept(b)' => Kept(b)
      BY <1>0, <2>1, <2>3, <2>4 DEF Kept
    <3> QED BY <1>0, <2>1, <2>4, <2>6, <3>1, OneJobVictims, StoredKept
  <2> QED BY <2>5, <2>7, <2>8, <2>9 DEF BackupInv
<1> QED BY <1>1, <1>2, <1>3, <1>4

\* LIMIT -1 OFFSET n lists what n newer backups outlive: with n at least 1, never the newest.
LEMMA BeyondSuperseded ==
  ASSUME NEW b, NEW n \in Retentions, 0 \notin Retentions, NEW table, NEW v \in Beyond(b, n, table)
  PROVE  \E d \in Completed(b, table) : Before(d, v)
<1> DEFINE newer == {d \in Completed(b, table) : Before(d, v)}
<1>1. n \in Nat /\ n # 0
  BY ScheduleConstants
<1>2. Cardinality(newer) >= n
  BY DEF Beyond
<1>3. newer # {}
  BY <1>1, <1>2, FS_EmptySet
<1> QED BY <1>3

LEMMA CompleteStep ==
  ASSUME SchedInv, BackupInv, NEW j \in Jobs, Complete(j)
  PROVE  BackupInv'
<1>0. /\ Life /\ Lists /\ Gone /\ Stored /\ job \in [Jobs -> JobValues] /\ backup \in [Jobs -> BackupValues]
      /\ LifeOf(job[j], backup[j]) /\ job[j] \in JobValues /\ backup[j] \in BackupValues
  BY JobFields DEF BackupInv, Life, SchedInv, SchedTypeOK
<1> DEFINE done == SetStatus(j, "completed")
           old == Beyond(job[j].plan, job[j].retention, done)
           y == [job[j] EXCEPT !.pc = "sweep", !.sweep = old]
           x == IF job[j].kind = "trigger" THEN Conclude(j) ELSE y
<1>1. job[j].pc = "uploaded" /\ job' = [job EXCEPT ![j] = x] /\ backup' = done /\ blobs' = blobs
  BY <1>0 DEF Complete
<1>2. /\ job[j].key # NONE /\ backup[j].status # "completed" /\ backup[j].plan \in {NONE, job[j].plan}
      /\ job[j].plan \in Plans /\ job[j].victim = NONE /\ job[j].kind # "delete"
      /\ (job[j].kind # "trigger" => job[j].retention \in Retentions)
  BY <1>0, <1>1 DEF LifeOf, Storing
<1>3. /\ \A c \in Jobs \ {j} : backup'[c] = backup[c]
      /\ backup'[j].plan = backup[j].plan /\ backup'[j].seq = backup[j].seq
      /\ backup'[j].exists = backup[j].exists
      /\ backup'[j].status = "completed" => backup[j].exists
  BY <1>0, <1>1, <1>2 DEF SetStatus, BackupValues
<1>4. /\ y.pc = "sweep" /\ y.kind = job[j].kind /\ y.key = job[j].key /\ y.plan = job[j].plan
      /\ y.victim = job[j].victim /\ y.sweep = old
  <2> HIDE DEF old
  <2> QED BY <1>0 DEF JobValues
<1>5. LifeOf(x, backup'[j]) /\ Carries(j, x) /\ x.pc # "uploaded"
      /\ (x.sweep \subseteq job[j].sweep \/ (job[j].kind # "trigger" /\ x.sweep = old))
      /\ x.plan = job[j].plan /\ x.key = job[j].key
  <2>1. CASE job[j].kind = "trigger"
    <3>1. x = Conclude(j)
      BY <2>1
    <3> HIDE DEF x
    <3>2. LifeOf(x, backup'[j]) /\ Carries(j, x) /\ x.sweep \subseteq job[j].sweep /\ x.pc # "uploaded"
      BY <1>1, <1>2, <1>3, <3>1, ConcludesQuietly
    <3> QED BY <1>2, <3>2 DEF Carries
  <2>2. CASE job[j].kind # "trigger"
    <3>1. x = y
      BY <2>2
    <3> HIDE DEF x, y, old
    <3>2. LifeOf(y, backup'[j]) /\ Carries(j, y)
      BY <1>2, <1>3, <1>4 DEF LifeOf, Carries, Early, Storing
    <3> QED BY <1>4, <2>2, <3>1, <3>2
  <2> QED BY <2>1, <2>2
<1> HIDE DEF x, y
<1>6. Life'
  <2>1. \A c \in Jobs \ {j} : Fades(backup[c], backup'[c])
    BY <1>3 DEF Fades
  <2> QED BY <1>0, <1>1, <1>5, <2>1, OneJobLife
<1>7. Steady
  <2>1. \A c \in Jobs : /\ job[c].key # NONE => backup'[c].seq = backup[c].seq
                        /\ backup[c].status = "completed" => backup'[c].status = "completed"
    BY <1>2, <1>3
  <2> QED BY <1>0, <1>1, <1>5, <2>1, OneJobSteady
<1>8. Lists'
  <2>1. \A i \in Jobs \ {j} : job'[i] = job[i]
    BY <1>0, <1>1
  <2>2. job'[j] = x
    BY <1>0, <1>1
  <2>3. ASSUME NEW v \in old, job[j].kind # "trigger"
        PROVE  backup'[v].status = "completed" /\ (0 \notin Retentions => Superseded(v)')
    <3>1. v \in Completed(job[j].plan, backup')
      BY <1>1 DEF Beyond
    <3>2. v \in Jobs /\ backup'[v].status = "completed" /\ backup'[v].plan = job[j].plan
      BY <3>1 DEF Completed
    <3>3. ASSUME NEW c \in Jobs, backup'[c].status = "completed", backup'[c].plan = job[j].plan
          PROVE  job'[c].plan = job[j].plan /\ job'[c].key = job[c].key /\ backup'[c].seq = backup[c].seq
      <4>1. backup'[c].plan \in {NONE, job'[c].plan} /\ job[j].plan # NONE
        BY <1>2, <1>6, ScheduleConstants DEF Life, LifeOf
      <4>2. job'[c].key = job[c].key
        BY <1>5, <2>1, <2>2
      <4>3. backup'[c].seq = backup[c].seq
        BY <1>3
      <4> QED BY <3>3, <4>1, <4>2, <4>3
    <3>4. ASSUME 0 \notin Retentions PROVE Superseded(v)'
      <4>1. PICK d \in Completed(job[j].plan, done) : Before(d, v)
        BY <1>2, <2>3, <3>4, BeyondSuperseded
      <4> HIDE DEF done
      <4>2. d \in Jobs /\ backup'[d].status = "completed" /\ backup'[d].plan = job[j].plan
        BY <1>1, <4>1 DEF Completed
      <4>3. Before(d, v)'
        BY <3>2, <3>3, <4>1, <4>2 DEF Before
      <4> QED BY <3>2, <3>3, <4>2, <4>3 DEF Superseded
    <3> QED BY <3>2, <3>4
  <2> HIDE DEF old, done
  <2> QED BY <1>0, <1>5, <1>7, <2>1, <2>2, <2>3, ListsKept
<1>9. Gone'
  <2>1. \A v \in Jobs : backup'[v].status = "completed" /\ ~backup'[v].exists =>
                          backup[v].status = "completed" /\ ~backup[v].exists
    BY <1>3
  <2> QED BY <1>0, <1>7, <2>1, GoneKept
<1>10. Stored'
  <2>1. \A b \in Jobs : Kept(b)' => Kept(b)
    <3>1. Kept(j)
      BY <1>1 DEF Kept
    <3>2. ASSUME NEW b \in Jobs \ {j} PROVE Kept(b)' => Kept(b)
      BY <1>0, <1>1, <1>3 DEF Kept
    <3> QED BY <3>1, <3>2
  <2> QED BY <1>0, <1>1, <1>5, <1>7, <2>1, OneJobVictims, StoredKept
<1> QED BY <1>6, <1>8, <1>9, <1>10 DEF BackupInv

\* Sweeps and delete_backup: the blob first, then the row.
LEMMA RemovalSteps ==
  ASSUME SchedInv, BackupInv, NEW j \in Jobs, SweepBlob(j) \/ SweepRow(j) \/ DeleteBlob(j) \/ DeleteRow(j)
  PROVE  BackupInv'
<1>0. /\ Life /\ Lists /\ Gone /\ Stored /\ job \in [Jobs -> JobValues] /\ backup \in [Jobs -> BackupValues]
      /\ LifeOf(job[j], backup[j]) /\ job[j] \in JobValues /\ ShapeOf(job[j])
      /\ job[j].sweep \subseteq Jobs
  BY JobFields DEF BackupInv, Life, SchedInv, SchedTypeOK, JobValues
<1>b. ASSUME NEW v \in Jobs, NEW x, job' = [job EXCEPT ![j] = x], backup' = backup,
             blobs' \in BlobsAfterDelete(job[v].key), LifeOf(x, backup[j]), Carries(j, x),
             x.sweep = job[j].sweep, x.victim = v, x.pc # "uploaded"
      PROVE  BackupInv'
  <2>1. Life'
    BY <1>0, <1>b, OneJobLife DEF Fades
  <2>2. Steady
    BY <1>0, <1>b, OneJobSteady
  <2>3. Lists'
    <3>1. \A i \in Jobs : job'[i].sweep = job[i].sweep
      BY <1>0, <1>b
    <3> QED BY <1>0, <2>2, <3>1, ListsKept
  <2>4. Gone'
    BY <1>0, <1>b, <2>2, GoneKept
  <2>5. Stored'
    <3>1. \A b \in Jobs : Kept(b)' => Kept(b)
      BY <1>0, <1>b DEF Kept
    <3>2. DeletionBegun(v)'
      BY <1>0, <1>b DEF DeletionBegun
    <3>3. \A key \in blobs \ blobs' : key = job[v].key
      BY <1>b DEF BlobsAfterDelete
    <3> QED BY <1>0, <1>b, <2>2, <3>1, <3>2, <3>3, OneJobVictims, StoredKept
  <2> QED BY <2>1, <2>3, <2>4, <2>5 DEF BackupInv
<1>r. ASSUME NEW v \in Jobs, backup' = [backup EXCEPT ![v] = [@ EXCEPT !.exists = FALSE]]
      PROVE  /\ \A c \in Jobs : Fades(backup[c], backup'[c]) /\ (c # v => backup'[c] = backup[c])
             /\ ~backup'[v].exists
  <2>1. \A c \in Jobs : backup[c] \in BackupValues
    BY <1>0
  <2> DEFINE k == [backup[v] EXCEPT !.exists = FALSE]
  <2>2. k.exists = FALSE /\ k.plan = backup[v].plan /\ k.status = backup[v].status /\ k.seq = backup[v].seq
    BY <2>1 DEF BackupValues
  <2>3. backup' = [backup EXCEPT ![v] = k]
    BY <1>r
  <2> HIDE DEF k
  <2> QED BY <1>0, <2>2, <2>3 DEF Fades
<1>1. CASE SweepBlob(j)
  <2>1. PICK v \in job[j].sweep :
          /\ blobs' \in BlobsAfterDelete(job[v].key)
          /\ job' = [job EXCEPT ![j].pc = "sweeprow", ![j].victim = v]
    BY <1>1 DEF SweepBlob
  <2> DEFINE x == [job[j] EXCEPT !.pc = "sweeprow", !.victim = v]
  <2>2. job[j].pc = "sweep" /\ backup' = backup
    BY <1>1 DEF SweepBlob
  <2>3. job' = [job EXCEPT ![j] = x]
    BY <1>0, <2>1
  <2>4. /\ x.pc = "sweeprow" /\ x.kind = job[j].kind /\ x.key = job[j].key /\ x.plan = job[j].plan
        /\ x.victim = v /\ x.sweep = job[j].sweep
    BY <1>0 DEF JobValues
  <2> HIDE DEF x
  <2>5. LifeOf(x, backup[j]) /\ Carries(j, x)
    BY <1>0, <2>2, <2>4 DEF LifeOf, Carries, Early, Storing
  <2> QED BY <1>0, <1>b, <2>1, <2>2, <2>3, <2>4, <2>5
<1>2. CASE DeleteBlob(j)
  <2> DEFINE v == job[j].victim
  <2>1. /\ job[j].pc = "delete" /\ backup' = backup /\ blobs' \in BlobsAfterDelete(job[v].key)
    BY <1>2 DEF DeleteBlob
  <2>2. job[j].kind = "delete" /\ v \in Jobs
    BY <1>0, <2>1 DEF ShapeOf, LifeOf
  <2>3. PICK pc \in {"done", "deleterow"} : job' = [job EXCEPT ![j].pc = pc]
    BY <1>2 DEF DeleteBlob
  <2> DEFINE x == [job[j] EXCEPT !.pc = pc]
  <2>4. job' = [job EXCEPT ![j] = x]
    BY <1>0, <2>3
  <2>5. /\ x.pc = pc /\ x.kind = job[j].kind /\ x.key = job[j].key /\ x.plan = job[j].plan
        /\ x.victim = job[j].victim /\ x.sweep = job[j].sweep
    BY JobUpdates
  <2> HIDE DEF x
  <2>6. LifeOf(x, backup[j]) /\ Carries(j, x)
    BY <1>0, <2>1, <2>2, <2>3, <2>5 DEF LifeOf, Carries, Early, Storing
  <2> QED BY <1>b, <2>1, <2>2, <2>3, <2>4, <2>5, <2>6
<1>3. CASE DeleteRow(j)
  <2> DEFINE v == job[j].victim
             x == [job[j] EXCEPT !.pc = "done"]
  <2>1. /\ job[j].pc = "deleterow" /\ blobs' = blobs /\ job' = [job EXCEPT ![j] = x]
        /\ backup' = [backup EXCEPT ![v] = [@ EXCEPT !.exists = FALSE]]
    BY <1>0, <1>3 DEF DeleteRow
  <2>2. job[j].kind = "delete" /\ v \in Jobs
    BY <1>0, <2>1 DEF ShapeOf, LifeOf
  <2>3. \A c \in Jobs : Fades(backup[c], backup'[c]) /\ (c # v => backup'[c] = backup[c])
    BY <1>r, <2>1, <2>2
  <2>4. /\ x.pc = "done" /\ x.kind = job[j].kind /\ x.key = job[j].key /\ x.plan = job[j].plan
        /\ x.victim = job[j].victim /\ x.sweep = job[j].sweep
    BY JobUpdates
  <2> HIDE DEF x
  <2>5. LifeOf(x, backup[j]) /\ Carries(j, x)
    BY <1>0, <2>1, <2>2, <2>4 DEF LifeOf, Carries, Early, Storing
  <2>6. Life'
    <3>1. LifeOf(x, backup'[j])
      BY <2>3, <2>5, FadedLife
    <3> QED BY <1>0, <2>1, <2>3, <3>1, OneJobLife
  <2>7. Steady
    BY <1>0, <2>1, <2>3, <2>5, OneJobSteady DEF Fades
  <2>8. Lists'
    <3>1. \A i \in Jobs : job'[i].sweep = job[i].sweep
      BY <1>0, <2>1, <2>4
    <3> QED BY <1>0, <2>7, <3>1, ListsKept
  <2>9. Gone'
    <3>1. Deleting(v)
      BY <2>2 DEF Deleting
    <3>2. \A c \in Jobs : backup'[c].status = "completed" /\ ~backup'[c].exists =>
                            (backup[c].status = "completed" /\ ~backup[c].exists) \/ c = v
      BY <2>3
    <3> QED BY <1>0, <2>7, <3>1, <3>2, GoneKept
  <2>10. Stored'
    <3>1. \A b \in Jobs : Kept(b)' => Kept(b)
      BY <1>0, <2>1, <2>3, <2>4 DEF Kept, Fades
    <3> QED BY <1>0, <2>1, <2>5, <2>7, <3>1, OneJobVictims, StoredKept
  <2> QED BY <2>6, <2>8, <2>9, <2>10 DEF BackupInv
<1>4. CASE SweepRow(j)
  <2>1. /\ job[j].pc = "sweeprow" /\ blobs' = blobs
        /\ backup' = [backup EXCEPT ![job[j].victim] = [@ EXCEPT !.exists = FALSE]]
    BY <1>4 DEF SweepRow
  <2>v. job[j].victim \in job[j].sweep /\ job[j].kind # "delete"
    BY <1>0, <2>1 DEF LifeOf
  <2>3. PICK v \in Jobs : v = job[j].victim /\ v \in job[j].sweep
    BY <1>0, <2>v
  <2> DEFINE x == [job[j] EXCEPT !.pc = "sweep", !.sweep = job[j].sweep \ {v}, !.victim = NONE]
  <2>2. job' = [job EXCEPT ![j] = x]
    BY <1>0, <1>4, <2>3 DEF SweepRow
  <2>4. backup[v].status = "completed" /\ (0 \notin Retentions => Superseded(v))
    BY <1>0, <2>3 DEF Lists
  <2>5. /\ \A c \in Jobs : Fades(backup[c], backup'[c]) /\ (c # v => backup'[c] = backup[c])
        /\ ~backup'[v].exists
    BY <1>r, <2>1, <2>3
  <2>6. /\ x.pc = "sweep" /\ x.kind = job[j].kind /\ x.key = job[j].key /\ x.plan = job[j].plan
        /\ x.victim = NONE /\ x.sweep = job[j].sweep \ {v}
    BY <1>0 DEF JobValues
  <2> HIDE DEF x
  <2>7. LifeOf(x, backup[j])
    BY <1>0, <2>1, <2>v, <2>3, <2>6 DEF LifeOf, Early, Storing
  <2>8. Life'
    <3>1. LifeOf(x, backup'[j])
      BY <2>5, <2>7, FadedLife
    <3> QED BY <1>0, <2>2, <2>5, <3>1, OneJobLife
  <2>9. Steady
    <3> SUFFICES ASSUME NEW c \in Jobs
                 PROVE  /\ job'[c].key = job[c].key /\ job'[c].plan = job[c].plan
                        /\ job[c].kind = "delete" => job'[c] = job[c]
      BY <2>5 DEF Steady, Fades
    <3>1. CASE c = j
      BY <1>0, <2>2, <2>v, <2>6, <3>1
    <3>2. CASE c # j
      BY <1>0, <2>2, <3>2
    <3> QED BY <3>1, <3>2
  <2>10. Lists'
    <3>1. \A i \in Jobs : job'[i].sweep \subseteq job[i].sweep
      BY <1>0, <2>2, <2>6
    <3> QED BY <1>0, <2>9, <3>1, ListsKept
  <2>11. Gone'
    <3>1. \A c \in Jobs : backup'[c].status = "completed" /\ ~backup'[c].exists =>
                            (backup[c].status = "completed" /\ ~backup[c].exists) \/ c = v
      BY <2>5
    <3> QED BY <1>0, <2>4, <2>9, <3>1, GoneKept
  <2>12. Stored'
    <3>1. \A b \in Jobs : Kept(b)' => Kept(b)
      BY <1>0, <2>2, <2>5, <2>6 DEF Kept, Fades
    <3>2. ~Kept(v)'
      <4>1. job[v].pc # "uploaded"
        BY <1>0, <2>3, <2>4 DEF Life, LifeOf, Storing
      <4>2. job'[v].pc # "uploaded"
        BY <1>0, <2>2, <2>3, <2>6, <4>1
      <4> QED BY <2>5, <4>2 DEF Kept
    <3>3. ASSUME NEW b \in Jobs, DeletionBegun(b), Kept(b)' PROVE DeletionBegun(b)'
      <4>1. PICK i \in Jobs : job[i].victim = b
        BY <3>3 DEF DeletionBegun
      <4>2. i # j
        BY <2>3, <3>2, <3>3, <4>1
      <4>3. job'[i] = job[i]
        BY <1>0, <2>2, <4>2
      <4> QED BY <4>1, <4>3 DEF DeletionBegun
    <3> QED BY <1>0, <2>1, <2>9, <3>1, <3>3, StoredKept
  <2> QED BY <2>8, <2>10, <2>11, <2>12 DEF BackupInv
<1> QED BY <1>1, <1>2, <1>3, <1>4

\* A restart loses the jobs, but not what they wrote.
LEMMA CrashBackup ==
  ASSUME SchedInv, BackupInv, Crash
  PROVE  BackupInv'
<1>0. Life /\ Lists /\ Gone /\ Stored
  BY DEF BackupInv
<1>1. backup' = backup /\ blobs' = blobs
  BY DEF Crash
<1>2. ASSUME NEW c \in Jobs
      PROVE  /\ LifeOf(job'[c], backup[c])
             /\ job'[c].key = job[c].key /\ job'[c].plan = job[c].plan /\ job'[c].kind = job[c].kind
             /\ job'[c].victim = job[c].victim /\ job'[c].sweep \subseteq job[c].sweep
             /\ job'[c].pc # "uploaded"
  <2>1. LifeOf(job[c], backup[c])
    BY <1>0 DEF Life
  <2>2. CASE Running(c)
    <3> DEFINE x == Ended(c, "dead")
    <3>1. job'[c] = x
      BY <2>2 DEF Crash
    <3>2. /\ x.pc = "dead" /\ x.kind = job[c].kind /\ x.key = job[c].key /\ x.plan = job[c].plan
          /\ x.victim = job[c].victim /\ x.sweep = {}
      BY JobUpdates
    <3> HIDE DEF x
    <3>3. LifeOf(x, backup[c])
      BY <2>1, <3>2 DEF LifeOf, Early, Storing
    <3> QED BY <3>1, <3>2, <3>3
  <2>3. CASE ~Running(c)
    <3>1. job'[c] = job[c]
      BY <2>3 DEF Crash
    <3> QED BY <2>1, <2>3, <3>1 DEF Running
  <2> QED BY <2>2, <2>3
<1>3. Life'
  BY <1>1, <1>2 DEF Life
<1>4. Steady
  BY <1>1, <1>2 DEF Steady
<1>5. Lists'
  BY <1>0, <1>2, <1>4, ListsKept
<1>6. Gone'
  BY <1>0, <1>1, <1>4, GoneKept
<1>7. Stored'
  <2>1. \A b \in Jobs : Kept(b)' => Kept(b)
    BY <1>1, <1>2 DEF Kept
  <2>2. \A b \in Jobs : DeletionBegun(b) => DeletionBegun(b)'
    BY <1>2 DEF DeletionBegun
  <2> QED BY <1>0, <1>1, <1>4, <2>1, <2>2, StoredKept
<1> QED BY <1>3, <1>5, <1>6, <1>7 DEF BackupInv

\* Jobs and blobs stay; rows may lose their plan (ON DELETE SET NULL).
LEMMA OnlyUnlinked ==
  ASSUME SchedInv, BackupInv, job' = job, blobs' = blobs,
         \A c \in Jobs : Fades(backup[c], backup'[c]) /\ backup'[c].exists = backup[c].exists
  PROVE  BackupInv'
<1>0. Life /\ Lists /\ Gone /\ Stored
  BY DEF BackupInv
<1>1. Life'
  <2> SUFFICES ASSUME NEW c \in Jobs PROVE LifeOf(job[c], backup'[c])
    BY DEF Life
  <2>1. LifeOf(job[c], backup[c]) /\ Fades(backup[c], backup'[c])
    BY <1>0 DEF Life
  <2> QED BY <2>1, FadedLife
<1>2. Steady
  BY DEF Steady, Fades
<1>3. Lists'
  BY <1>0, <1>2, ListsKept
<1>4. Gone'
  <2>1. \A v \in Jobs : backup'[v].status = backup[v].status /\ backup'[v].exists = backup[v].exists
    BY DEF Fades
  <2> QED BY <1>0, <1>2, <2>1, GoneKept
<1>5. Stored'
  <2>1. \A b \in Jobs : Kept(b)' => Kept(b)
    BY DEF Kept, Fades
  <2>2. \A b \in Jobs : DeletionBegun(b) => DeletionBegun(b)'
    BY DEF DeletionBegun
  <2> QED BY <1>0, <1>2, <2>1, <2>2, StoredKept
<1> QED BY <1>1, <1>3, <1>4, <1>5 DEF BackupInv

LEMMA BackupNext == SchedInv /\ BackupInv /\ [Next]_vars => BackupInv'
<1> SUFFICES ASSUME SchedInv, BackupInv, [Next]_vars PROVE BackupInv'
  OBVIOUS
<1>0. backup \in [Jobs -> BackupValues]
  BY DEF SchedInv, SchedTypeOK
<1>1. CASE job' = job /\ blobs' = blobs /\ backup' = backup
  BY <1>1, OnlyUnlinked DEF Fades
<1>2. ASSUME NEW gone, job' = job, blobs' = blobs, backup' = Unlinked(gone) PROVE BackupInv'
  <2>1. \A c \in Jobs : Fades(backup[c], backup'[c]) /\ backup'[c].exists = backup[c].exists
    <3> SUFFICES ASSUME NEW c \in Jobs
                 PROVE  Fades(backup[c], backup'[c]) /\ backup'[c].exists = backup[c].exists
      OBVIOUS
    <3>1. backup[c] \in BackupValues
      BY <1>0
    <3>2. backup'[c] = IF backup[c].plan \in gone THEN [backup[c] EXCEPT !.plan = NONE] ELSE backup[c]
      BY <1>2 DEF Unlinked
    <3> QED BY <3>1, <3>2 DEF Fades, BackupValues
  <2> QED BY <1>2, <2>1, OnlyUnlinked
<1>3. CASE Operator
  <2>1. job' = job /\ blobs' = blobs
    BY <1>3 DEF Operator, CreatePlan, CreatePlanFails, UpdatePlan, DeletePlan, CreateRow, UpdateRow,
                RemoveRow, Edit
  <2>2. backup' = backup \/ \E gone \in SUBSET Plans : backup' = Unlinked(gone)
    BY <1>3 DEF Operator, CreatePlan, CreatePlanFails, UpdatePlan, DeletePlan, CreateRow, UpdateRow,
                RemoveRow, PlansOf
  <2> QED BY <1>1, <1>2, <2>1, <2>2
<1>4. CASE UNCHANGED vars \/ Boot \/ Tick \/ (\E s \in Rows : BecomeDue(s)) \/ \E r \in tick : TickSkip(r)
  BY <1>1, <1>4 DEF vars, Boot, Tick, BecomeDue, TickSkip
<1>5. CASE Crash
  BY <1>5, CrashBackup
<1>6. ASSUME NEW j \in Jobs, JobStep(j) \/ Handler(j) PROVE BackupInv'
  BY <1>6, QuietSteps, StoringSteps, CompleteStep, RemovalSteps DEF JobStep
<1>7. ASSUME NEW r \in tick, NEW j \in Jobs, TickFire(r, j) PROVE BackupInv'
  BY <1>7, QuietSteps
<1> QED BY <1>3, <1>4, <1>5, <1>6, <1>7 DEF Next, TickStep

LEMMA BackupInit == Init => BackupInv
<1> SUFFICES ASSUME Init PROVE BackupInv
  OBVIOUS
<1>1. ASSUME NEW j \in Jobs PROVE job[j] = Idle /\ backup[j] = NoBackup
  BY DEF Init
<1>2. /\ Idle.pc = "idle" /\ Idle.key = NONE /\ Idle.victim = NONE /\ Idle.kind = NONE /\ Idle.sweep = {}
      /\ NoBackup.exists = FALSE /\ NoBackup.plan = NONE /\ NoBackup.status = "none"
  BY DEF Idle, NoBackup
<1>3. LifeOf(Idle, NoBackup)
  BY <1>2, ScheduleConstants DEF LifeOf, Early, Storing
<1>4. Life
  BY <1>1, <1>3 DEF Life
<1> QED BY <1>1, <1>2, <1>4 DEF BackupInv, Lists, Gone, Stored, Kept

LEMMA BackupInductive == Spec => []BackupInv
BY BackupInit, BackupNext, SchedInductive, PTL DEF Spec

\* A backup listed as completed keeps its blob until a deletion of that backup, or of one
\* with the same key, begins: for any number of overlapping runs, sweeps and deletions.
THEOREM CompletedStaysRestorable == Spec => []CompletedIsRestorable
<1>1. BackupInv => CompletedIsRestorable
  BY DEF BackupInv, Stored, Kept, CompletedIsRestorable
<1> QED BY <1>1, BackupInductive, PTL

\* Of finitely many backups one is the newest.
LEMMA NewestBackup ==
  ASSUME SchedInv, NEW S \in SUBSET Jobs, S # {}, \A c \in S : job[c].key # NONE
  PROVE  \E m \in S : \A d \in S : ~Before(d, m)
<1>0. IsFiniteSet(S)
  BY FS_Subset, ScheduleConstants
<1>1. \A c \in S : job[c].key[2] \in Nat /\ backup[c].seq \in Nat
  <2> SUFFICES ASSUME NEW c \in S PROVE job[c].key[2] \in Nat /\ backup[c].seq \in Nat
    OBVIOUS
  <2>1. job[c] \in JobValues /\ backup[c] \in BackupValues
    BY DEF SchedInv, SchedTypeOK
  <2>2. job[c].key \in Keys
    BY <2>1 DEF JobValues
  <2> QED BY <2>1, <2>2, ScheduleConstants DEF Keys, BackupValues
<1>2. \A c, d, e \in S : /\ ~Before(c, c)
                         /\ Before(c, d) /\ Before(d, e) => Before(c, e)
  BY <1>1 DEF Before
<1> DEFINE NoNewest(U) == U # {} /\ \A x \in U : \E y \in U : Before(y, x)
           Bad == {U \in SUBSET S : NoNewest(U)}
<1>3. Bad = {}
  <2> SUFFICES ASSUME Bad # {} PROVE FALSE
    OBVIOUS
  <2>1. IsWellFoundedOn(StrictSubsetOrdering(S), FiniteSubsetsOf(S))
    BY FS_StrictSubsetOrderingWellFounded
  <2>2. Bad \subseteq FiniteSubsetsOf(S)
    BY <1>0, FS_FiniteSubsetsOfFinite
  <2>3. PICK U \in Bad : \A W \in Bad : ~(<<W, U>> \in StrictSubsetOrdering(S))
    BY <2>1, <2>2, WFMin
  <2>4. U \in SUBSET S /\ U # {} /\ \A x \in U : \E y \in U : Before(y, x)
    OBVIOUS
  <2>5. PICK x \in U : TRUE
    BY <2>4
  <2>6. PICK y \in U : Before(y, x)
    BY <2>4
  <2>7. y # x
    BY <1>2, <2>4, <2>6
  <2> DEFINE W == U \ {x}
  <2>8. W \in SUBSET S /\ W # {} /\ W # U
    BY <2>4, <2>7
  <2>9. ASSUME NEW z \in W PROVE \E w \in W : Before(w, z)
    <3>1. PICK w \in U : Before(w, z)
      BY <2>4, <2>9
    <3>2. CASE w # x
      BY <3>1, <3>2
    <3>3. CASE w = x
      <4>1. Before(y, z)
        BY <1>2, <2>4, <2>6, <2>9, <3>1, <3>3
      <4> QED BY <2>7, <4>1
    <3> QED BY <3>2, <3>3
  <2>10. W \in Bad
    BY <2>8, <2>9
  <2>11. <<W, U>> \in StrictSubsetOrdering(S)
    <3>1. <<W, U>> \in (SUBSET S) \X (SUBSET S)
      BY <2>4, <2>8
    <3>2. W \subseteq U
      OBVIOUS
    <3> HIDE DEF W
    <3> QED BY <2>8, <3>1, <3>2 DEF StrictSubsetOrdering
  <2> HIDE DEF W, Bad
  <2> QED BY <2>3, <2>10, <2>11
<1> QED BY <1>3

\* With a retention count of at least 1, sweeps never take the last completed backup of a
\* plan, however many fires and triggers overlap and whichever list each of them works from.
THEOREM RetentionKeepsABackup == 0 \notin Retentions /\ Spec => []PlanKeepsABackup
<1> SUFFICES ASSUME 0 \notin Retentions PROVE Spec => []PlanKeepsABackup
  OBVIOUS
<1>1. SchedInv /\ BackupInv => PlanKeepsABackup
  <2> SUFFICES ASSUME SchedInv, BackupInv, NEW b \in Plans,
                      \E j \in Jobs : job[j].plan = b /\ backup[j].status = "completed",
                      ~ \E j \in Jobs : job[j].kind = "delete" /\ job[job[j].victim].plan = b
               PROVE  \E c \in Jobs : job[c].plan = b /\ backup[c].exists /\ backup[c].status = "completed"
    BY DEF PlanKeepsABackup
  <2> DEFINE S == {c \in Jobs : job[c].plan = b /\ backup[c].status = "completed"}
  <2>1. S \in SUBSET Jobs /\ S # {} /\ \A c \in S : job[c].key # NONE
    BY DEF BackupInv, Life, LifeOf
  <2>2. PICK m \in S : \A d \in S : ~Before(d, m)
    BY <2>1, NewestBackup
  <2>3. ~Superseded(m)
    BY <2>2 DEF Superseded
  <2>4. ~Deleting(m)
    BY <2>2 DEF Deleting
  <2> QED BY <2>2, <2>3, <2>4 DEF BackupInv, Gone
<1> QED BY <1>1, SchedInductive, BackupInductive, PTL

=============================================================================
