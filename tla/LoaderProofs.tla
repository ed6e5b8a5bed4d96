---------------------------- MODULE LoaderProofs ----------------------------
(***************************************************************************)
(* Theorems about the historical loader, for every value of its constants: *)
(* types, the exclusive claim of a task, the plan of a queued job, what a  *)
(* completed task has loaded, the ledger, and the lifecycle of a job.      *)
(* Each rests on an inductive invariant kept by one lemma per part of the  *)
(* next-state relation.                                                    *)
(***************************************************************************)
EXTENDS Loader, FiniteSetTheorems, TLAPS

USE DEF vars, dbVars, dataVars, histVars, budgetVars

(* A command that only sets a job's status keeps the rd_jobs rows typed.   *)
LEMMA JobStatusType ==
  ASSUME TypeOK, NEW j \in Jobs, NEW s \in JobStatus
  PROVE  [job EXCEPT ![j].status = s] \in [Jobs -> JobRow]
BY DEF TypeOK, JobRow

(* Spending one unit of a budget leaves every budget a natural number.     *)
LEMMA BudgetType ==
  ASSUME TypeOK
  PROVE  /\ \A c : SpendCommand(c) => commandsLeft' \in Nat /\ crashesLeft' \in Nat /\ faultsLeft' \in Nat
         /\ SpendCrash => commandsLeft' \in Nat /\ crashesLeft' \in Nat /\ faultsLeft' \in Nat
         /\ SpendFault => commandsLeft' \in Nat /\ crashesLeft' \in Nat /\ faultsLeft' \in Nat
BY DEF TypeOK, SpendCommand, SpendCrash, SpendFault

(* An UPDATE of one rd_tasks row by a well-typed row keeps the table       *)
(* typed.                                                                  *)
LEMMA UpdateTaskType ==
  ASSUME TypeOK, NEW t \in Tasks, NEW row \in TaskRow, UpdateTask(t, row)
  PROVE  task' \in [Tasks -> TaskRow]
BY DEF TypeOK, UpdateTask

(* The row recover_stale_tasks writes for a stale lease is an rd_tasks     *)
(* row.                                                                    *)
LEMMA RecoveredType ==
  ASSUME TypeOK, NEW t \in Tasks
  PROVE  Recovered(t) \in TaskRow
BY ZenonT(60) DEF TypeOK, Recovered, TaskRow, TaskStatus

(* The row the operator's retry writes is an rd_tasks row.                 *)
LEMMA ResetType ==
  ASSUME NEW row \in TaskRow
  PROVE  [row EXCEPT !.status = "pending", !.attempts = 0, !.claimedBy = None,
                     !.completedAt = FALSE] \in TaskRow
<1>1. 0 \in 0..MaxRetries
  BY LoaderAssumption
<1> QED
  BY <1>1 DEF TaskRow, TaskStatus

(* A row that is not in the table is typed.                                *)
LEMMA AbsentType == AbsentTask \in TaskRow
BY LoaderAssumption DEF TaskRow, AbsentTask

(* The tasks whose lease is released under a coroutine are tasks.          *)
LEMMA OvertakeType ==
  ASSUME TypeOK, NEW ts \in SUBSET Tasks, Overtake(ts)
  PROVE  overtaken \subseteq overtaken' /\ overtaken' \subseteq Tasks
BY DEF TypeOK, Overtake

(* An idle coroutine is typed.                                             *)
LEMMA IdleType == Idle \in RunRow
BY LoaderAssumption DEF Idle, RunRow, RunPc

(* The empty database is typed.                                            *)
LEMMA InitType == Init => TypeOK
<1> SUFFICES ASSUME Init PROVE TypeOK
  OBVIOUS
<1>1. job \in [Jobs -> JobRow]
  BY DEF Init, AbsentJob, JobRow
<1>2. task \in [Tasks -> TaskRow]
  BY AbsentType DEF Init
<1>3. file \in [Disks -> [Tasks -> StagingFile]]
  BY DEF Init, NoFile, StagingFile
<1>4. wk \in [Workers -> LoopRow]
  BY DEF Init, At, LoopRow, LoopPc
<1>5. run \in [Workers -> [Tasks -> RunRow]]
  BY IdleType DEF Init
<1> QED
  BY <1>1, <1>2, <1>3, <1>4, <1>5, LoaderAssumption DEF Init, TypeOK


(* Every operator command of main.py keeps the types.                      *)
LEMMA ApiType ==
  ASSUME TypeOK, NEW j \in Jobs, JobAction(j)
  PROVE  TypeOK'
<1> SUFFICES /\ job' \in [Jobs -> JobRow]
             /\ task' \in [Tasks -> TaskRow]
             /\ commandsLeft' \in Nat /\ crashesLeft' \in Nat /\ faultsLeft' \in Nat
             /\ overtaken' \subseteq Tasks /\ raced' \subseteq Jobs
             /\ ApiFrame
  BY DEF TypeOK, ApiFrame
<1> USE JobStatusType, BudgetType DEF SetStatus, HistFrame
<1>1. CASE CreateJob(j)
  BY <1>1 DEF CreateJob, JobStatus, TypeOK
<1>2. CASE PauseJob(j)
  BY <1>2 DEF PauseJob, JobStatus, TypeOK
<1>3. CASE ResumeJob(j)
  BY <1>3 DEF ResumeJob, RestartStatus, JobStatus, TypeOK
<1>4. CASE CancelJob(j)
  BY <1>4 DEF CancelJob, JobStatus, TypeOK
<1>5. CASE RecoverJob(j)
  <2>1. task' \in [Tasks -> TaskRow]
    BY <1>5, RecoveredType DEF RecoverJob, TypeOK
  <2>2. overtaken' \subseteq Tasks
    BY <1>5, OvertakeType DEF RecoverJob, TasksOf
  <2> QED
    BY <1>5, <2>1, <2>2 DEF RecoverJob, JobStatus, TypeOK
<1>6. CASE RetryJob(j)
  <2> DEFINE reset == {t \in TasksOf(j) : /\ job[j].planned
                                          /\ task[t].status \in {"failed", "cancelled"}}
  <2>0. task' = [t \in Tasks |->
                  IF t \in reset
                  THEN [task[t] EXCEPT !.status = "pending", !.attempts = 0,
                                       !.claimedBy = None, !.completedAt = FALSE]
                  ELSE task[t]]
    BY <1>6 DEF RetryJob
  <2> HIDE DEF reset
  <2>1. \A t \in Tasks : [task[t] EXCEPT !.status = "pending", !.attempts = 0,
                            !.claimedBy = None, !.completedAt = FALSE] \in TaskRow
    BY ResetType DEF TypeOK
  <2>2. task' \in [Tasks -> TaskRow]
    BY <2>0, <2>1 DEF TypeOK
  <2>3. job' \in [Jobs -> JobRow]
    <3> DEFINE s == IF job[j].planned THEN "running" ELSE "queued"
    <3>1. s \in JobStatus
      BY DEF JobStatus
    <3>2. job' = [job EXCEPT ![j].status = s]
      BY <1>6 DEF RetryJob, RestartStatus
    <3> HIDE DEF s
    <3> QED
      BY <3>1, <3>2
  <2>4. SpendCommand("retry") /\ ApiFrame
    BY <1>6 DEF RetryJob
  <2>5. overtaken' = overtaken /\ (raced' = raced \/ raced' = raced \union {j})
    BY <1>6 DEF RetryJob
  <2> QED
    BY <2>2, <2>3, <2>4, <2>5 DEF TypeOK
<1>7. CASE DeleteJob(j)
  <2>1. [AbsentJob EXCEPT !.status = "deleted"] \in JobRow
    BY DEF AbsentJob, JobRow
  <2>2. job' \in [Jobs -> JobRow]
    BY <1>7, <2>1 DEF DeleteJob, TypeOK
  <2>3. task' \in [Tasks -> TaskRow]
    BY <1>7, AbsentType DEF DeleteJob, TypeOK
  <2> QED
    BY <1>7, <2>2, <2>3 DEF DeleteJob, TypeOK
<1> QED
  BY <1>1, <1>2, <1>3, <1>4, <1>5, <1>6, <1>7 DEF JobAction

-----------------------------------------------------------------------------
(* A loop at rest, and one that has picked a job, are typed.               *)
LEMMA AtType ==
  ASSUME NEW pc \in LoopPc
  PROVE  /\ At(pc) \in LoopRow
         /\ \A j \in Jobs : [At(pc) EXCEPT !.job = j] \in LoopRow
BY DEF At, LoopRow

(* The row the planner inserts for a task is an rd_tasks row.              *)
LEMMA PlannedRowType ==
  ASSUME NEW t \in Tasks
  PROVE  [AbsentTask EXCEPT !.status = "pending", !.symbols = BatchOf[t]] \in TaskRow
BY AbsentType, LoaderAssumption DEF TaskRow, TaskStatus

(* Every step of planner.py keeps the types.                               *)
LEMMA PlannerType ==
  ASSUME TypeOK, NEW w \in Workers, PlanStep(w) \/ PlanFail(w)
  PROVE  TypeOK'
<1> SUFFICES /\ job' \in [Jobs -> JobRow]
             /\ task' \in [Tasks -> TaskRow]
             /\ wk' \in [Workers -> LoopRow]
             /\ commandsLeft' \in Nat /\ crashesLeft' \in Nat /\ faultsLeft' \in Nat
             /\ PlannerFrame
  BY DEF TypeOK, PlannerFrame
<1> USE BudgetType
<1>1. CASE ClaimJobForPlanning(w)
  <2>1. CASE {j \in Jobs : job[j].status = "queued"} = {}
    BY <1>1, <2>1, AtType DEF ClaimJobForPlanning, TypeOK, LoopPc
  <2>2. CASE {j \in Jobs : job[j].status = "queued"} # {}
    <3>1. PICK j \in Jobs :
            /\ job' = [job EXCEPT ![j].status = "planning", ![j].fresh = TRUE]
            /\ wk' = [wk EXCEPT ![w] = [At("planning") EXCEPT !.job = j]]
      BY <1>1, <2>2 DEF ClaimJobForPlanning
    <3>2. job' \in [Jobs -> JobRow]
      <4>1. [job EXCEPT ![j].status = "planning"] \in [Jobs -> JobRow]
        BY JobStatusType DEF JobStatus
      <4> QED
        BY <3>1, <4>1 DEF JobRow
    <3>3. wk' \in [Workers -> LoopRow]
      <4>1. [At("planning") EXCEPT !.job = j] \in LoopRow
        BY AtType DEF LoopPc
      <4> QED
        BY <3>1, <4>1 DEF TypeOK
    <3> QED
      BY <1>1, <3>2, <3>3 DEF ClaimJobForPlanning, TypeOK
  <2> QED
    BY <2>1, <2>2
<1>2. CASE PlanCommit(w)
  <2>1. wk' \in [Workers -> LoopRow]
    <3>1. wk' = [wk EXCEPT ![w].pc = "announce"]
      BY <1>2 DEF PlanCommit
    <3>2. [wk[w] EXCEPT !.pc = "announce"] \in LoopRow
      BY ZenonT(60) DEF TypeOK, LoopPc, LoopRow
    <3> QED
      BY <3>1, <3>2 DEF TypeOK
  <2>2. job' \in [Jobs -> JobRow]
    <3> DEFINE j == wk[w].job
               row == [status |-> IF job[j].status = "pause_requested"
                                  THEN "paused" ELSE "running",
                       planned |-> TRUE, fresh |-> TRUE]
    <3>1. \/ job' = [job EXCEPT ![j].status = "cancelled"]
          \/ job' = [job EXCEPT ![j] = row]
      BY <1>2 DEF PlanCommit
    <3>2. row \in JobRow
      BY DEF JobRow, JobStatus
    <3>3. [job EXCEPT ![j].status = "cancelled"] \in [Jobs -> JobRow]
      BY DEF TypeOK, JobRow, JobStatus
    <3> QED
      BY <3>1, <3>2, <3>3 DEF TypeOK
  <2>3. task' \in [Tasks -> TaskRow]
    <3> DEFINE planned(t) == [AbsentTask EXCEPT !.status = "pending", !.symbols = BatchOf[t]]
               inserted(t) == JobOf[t] = wk[w].job /\ ~TaskExists(t)
    <3>1. \A t \in Tasks : planned(t) \in TaskRow
      BY PlannedRowType
    <3>2. \/ task' = task
          \/ task' = [t \in Tasks |-> IF inserted(t) THEN planned(t) ELSE task[t]]
      BY <1>2 DEF PlanCommit
    <3>3. task \in [Tasks -> TaskRow]
      BY DEF TypeOK
    <3> HIDE DEF planned, inserted
    <3> QED
      BY <3>1, <3>2, <3>3
  <2> QED
    BY <1>2, <2>1, <2>2, <2>3 DEF PlanCommit, TypeOK
<1>3. CASE PlanAnnounced(w)
  BY <1>3, AtType DEF PlanAnnounced, TypeOK, LoopPc
<1>4. CASE PlanOrphaned(w)
  BY <1>4, AtType DEF PlanOrphaned, TypeOK, LoopPc
<1>5. CASE PlanFail(w)
  <2>1. wk' \in [Workers -> LoopRow]
    BY <1>5, AtType DEF PlanFail, TypeOK, LoopPc
  <2>2. job' \in [Jobs -> JobRow]
    BY <1>5, ZenonT(60) DEF PlanFail, TypeOK, JobRow, JobStatus
  <2> QED
    BY <1>5, <2>1, <2>2 DEF PlanFail, TypeOK
<1> QED
  BY <1>1, <1>2, <1>3, <1>4, <1>5 DEF PlanStep

-----------------------------------------------------------------------------
(* The UPDATE of claim_tasks keeps the rd_tasks rows typed.                *)
LEMMA ClaimRowsType ==
  ASSUME TypeOK, NEW w \in Workers, NEW ts, ClaimRows(w, ts)
  PROVE  task' \in [Tasks -> TaskRow]
<1>1. ASSUME NEW row \in TaskRow
      PROVE  [row EXCEPT !.status = "running", !.claimedBy = w, !.fresh = TRUE,
                !.attempts = IF @ < MaxRetries THEN @ + 1 ELSE @] \in TaskRow
  <2>1. ASSUME NEW n \in 0..MaxRetries
        PROVE  (IF n < MaxRetries THEN n + 1 ELSE n) \in 0..MaxRetries
    BY LoaderAssumption
  <2> QED
    BY <2>1 DEF TaskRow, TaskStatus
<1> QED
  BY <1>1 DEF ClaimRows, TypeOK

(* Every step of the worker's loop keeps the types.                        *)
LEMMA LoopType ==
  ASSUME TypeOK, NEW w \in Workers,
         LoopStep(w) \/ LoopError(w) \/ ClaimThenError(w) \/ Crash(w)
  PROVE  TypeOK'
<1> SUFFICES /\ job' \in [Jobs -> JobRow]
             /\ task' \in [Tasks -> TaskRow]
             /\ wk' \in [Workers -> LoopRow]
             /\ run' \in [Workers -> [Tasks -> RunRow]]
             /\ file' \in [Disks -> [Tasks -> StagingFile]]
             /\ commandsLeft' \in Nat /\ crashesLeft' \in Nat /\ faultsLeft' \in Nat
             /\ overtaken' \subseteq Tasks
             /\ UNCHANGED <<dataVars, tokenDead, raced>>
  BY DEF TypeOK, LoopFrame
<1> USE BudgetType DEF MoveTo, NoBudget, LoopFrame
<1>1. CASE WorkerStart(w)
  BY <1>1, AtType DEF WorkerStart, TypeOK, LoopPc
<1>2. CASE RecoverStaleTasks(w)
  <2>1. task' \in [Tasks -> TaskRow]
    BY <1>2, RecoveredType DEF RecoverStaleTasks, TypeOK
  <2>2. job' \in [Jobs -> JobRow]
    BY <1>2 DEF RecoverStaleTasks, TypeOK, JobRow, JobStatus
  <2>3. wk' \in [Workers -> LoopRow]
    BY <1>2, AtType DEF RecoverStaleTasks, TypeOK, LoopPc
  <2>4. overtaken' \subseteq Tasks
    BY <1>2, OvertakeType DEF RecoverStaleTasks
  <2> QED
    BY <1>2, <2>1, <2>2, <2>3, <2>4 DEF RecoverStaleTasks, TypeOK
<1>3. CASE ApplyJobControls(w)
  <2>1. task' \in [Tasks -> TaskRow]
    <3>1. ASSUME NEW t \in Tasks
          PROVE  [task[t] EXCEPT !.status = "cancelled", !.completedAt = TRUE] \in TaskRow
      BY ZenonT(60) DEF TypeOK, TaskRow, TaskStatus
    <3> QED
      BY <1>3, <3>1 DEF ApplyJobControls, TypeOK
  <2>2. job' \in [Jobs -> JobRow]
    BY <1>3, ZenonT(60) DEF ApplyJobControls, TypeOK, JobRow, JobStatus
  <2>3. wk' \in [Workers -> LoopRow]
    BY <1>3, AtType DEF ApplyJobControls, TypeOK, LoopPc
  <2> QED
    BY <1>3, <2>1, <2>2, <2>3 DEF ApplyJobControls, TypeOK
<1>4. CASE CancelQuietJobs(w)
  <2>2. job' \in [Jobs -> JobRow]
    BY <1>4, ZenonT(60) DEF CancelQuietJobs, TypeOK, JobRow, JobStatus
  <2>3. wk' \in [Workers -> LoopRow]
    BY <1>4, AtType DEF CancelQuietJobs, TypeOK, LoopPc
  <2> QED
    BY <1>4, <2>2, <2>3 DEF CancelQuietJobs, TypeOK
<1>5. CASE NextRunningJob(w)
  BY <1>5, AtType, ZenonT(60) DEF NextRunningJob, TypeOK, LoopPc
<1>6. CASE ClaimTasks(w)
  <2>1. ASSUME NEW t \in Tasks
        PROVE  [pc |-> "begin", complete |-> task[t].status = "staged",
                token |-> task[t].token, rows |-> task[t].rows,
                symbols |-> task[t].symbols] \in RunRow
    BY DEF TypeOK, TaskRow, RunRow, RunPc
  <2>2. run' \in [Workers -> [Tasks -> RunRow]]
    BY <1>6, <2>1, SMTT(30) DEF ClaimTasks, TypeOK
  <2>3. wk' \in [Workers -> LoopRow]
    BY <1>6, AtType, ZenonT(60) DEF ClaimTasks, TypeOK, LoopPc, LoopRow, Claimed, Claimable, TasksOf
  <2> QED
    BY <1>6, <2>2, <2>3, ClaimRowsType DEF ClaimTasks, TypeOK
<1>7. CASE NothingToClaim(w)
  <2>1. [wk[w] EXCEPT !.pc = "finalise"] \in LoopRow
    BY DEF TypeOK, LoopPc, LoopRow
  <2> QED
    BY <1>7, <2>1 DEF NothingToClaim, TypeOK
<1>8. CASE GatherReturns(w)
  BY <1>8, AtType DEF GatherReturns, TypeOK, LoopPc, LoopRow
<1>9. CASE FinaliseIfDone(w)
  <2> DEFINE j == wk[w].job
             o == IF \E t \in TasksOf(j) : Exhausted(t) THEN "failed" ELSE "completed"
             row == [At("outcome") EXCEPT !.job = j, !.outcome = o]
  <2>1. wk' = [wk EXCEPT ![w] = row] \/ wk' = [wk EXCEPT ![w] = At("top")]
    BY <1>9 DEF FinaliseIfDone
  <2>2. j \in Jobs \union {None} /\ o \in {"completed", "failed"}
    BY DEF TypeOK, LoopRow
  <2>3. row \in LoopRow
    <3> HIDE DEF j, o
    <3> QED
      BY <2>2 DEF At, LoopRow, LoopPc
  <2>4. At("top") \in LoopRow
    BY AtType DEF LoopPc
  <2>5. wk' \in [Workers -> LoopRow]
    BY <2>1, <2>3, <2>4 DEF TypeOK
  <2> QED
    BY <1>9, <2>5 DEF FinaliseIfDone, TypeOK
<1>10. CASE SettleJob(w)
  <2>2. job' \in [Jobs -> JobRow]
    <3>1. CASE job[wk[w].job].status = "running"
      <4> DEFINE j == wk[w].job
      <4>1. job' = [job EXCEPT ![j].status = wk[w].outcome]
        BY <1>10, <3>1 DEF SettleJob
      <4>2. wk[w].outcome \in JobStatus
        BY DEF TypeOK, LoopRow, JobStatus
      <4> QED
        BY <4>1, <4>2, ZenonT(60) DEF TypeOK, JobRow
    <3>2. CASE job[wk[w].job].status # "running"
      BY <1>10, <3>2 DEF SettleJob, TypeOK
    <3> QED
      BY <3>1, <3>2
  <2> QED
    BY <1>10, <2>2, AtType DEF SettleJob, TypeOK, LoopPc
<1>11. CASE LoopError(w)
  BY <1>11, AtType DEF LoopError, TypeOK, LoopPc
<1>12. CASE ClaimThenError(w)
  BY <1>12, AtType, ClaimRowsType, SMTT(30) DEF ClaimThenError, TypeOK, LoopPc
<1>13. CASE Crash(w)
  <2>1. wk' \in [Workers -> LoopRow]
    BY <1>13, AtType, ZenonT(60) DEF Crash, TypeOK, LoopPc
  <2>2. run' \in [Workers -> [Tasks -> RunRow]]
    BY <1>13, IdleType, ZenonT(60) DEF Crash, TypeOK
  <2>3. file' \in [Disks -> [Tasks -> StagingFile]]
    <3>1. ASSUME NEW f \in StagingFile
          PROVE  [f EXCEPT !.exists = TRUE, !.torn = TRUE] \in StagingFile
      BY DEF StagingFile
    <3>2. DiskOf[w] \in Disks
      BY DEF Disks
    <3>3. CASE UNCHANGED file
      BY <3>3 DEF TypeOK
    <3>4. ASSUME NEW t \in Tasks,
                 file' = [file EXCEPT ![DiskOf[w]][t] =
                            [@ EXCEPT !.exists = TRUE, !.torn = TRUE]]
          PROVE  file' \in [Disks -> [Tasks -> StagingFile]]
      BY <3>1, <3>2, <3>4 DEF TypeOK
    <3> QED
      BY <1>13, <3>3, <3>4, ZenonT(60) DEF Crash
  <2> QED
    BY <1>13, <2>1, <2>2, <2>3, ZenonT(60) DEF Crash, TypeOK
<1> QED
  BY <1>1, <1>2, <1>3, <1>4, <1>5, <1>6, <1>7, <1>8, <1>9, <1>10, <1>11, <1>12,
     <1>13 DEF LoopStep

-----------------------------------------------------------------------------
(* Moving a coroutine on, or ending it, keeps the coroutines typed.        *)
LEMMA GotoType ==
  ASSUME TypeOK, NEW w \in Workers, NEW t \in Tasks
  PROVE  /\ \A pc \in RunPc : Goto(w, t, pc) => run' \in [Workers -> [Tasks -> RunRow]]
         /\ Finish(w, t) => run' \in [Workers -> [Tasks -> RunRow]]
         /\ \A pc \in RunPc : GoUnlink(w, t, pc) => run' \in [Workers -> [Tasks -> RunRow]]
         /\ \A r \in RunRow : run' = [run EXCEPT ![w][t] = r]
                              => run' \in [Workers -> [Tasks -> RunRow]]
<1>1. ASSUME NEW pc \in RunPc
      PROVE  [run[w][t] EXCEPT !.pc = pc] \in RunRow
  <2>1. run[w][t] \in RunRow
    BY DEF TypeOK
  <2> QED
    BY <2>1 DEF RunRow
<1>2. ASSUME NEW pc \in RunPc, Goto(w, t, pc)
      PROVE  run' \in [Workers -> [Tasks -> RunRow]]
  <2>1. run' = [run EXCEPT ![w][t] = [run[w][t] EXCEPT !.pc = pc]]
    BY <1>2 DEF Goto, TypeOK
  <2> QED
    BY <1>1, <2>1 DEF TypeOK
<1>3. Finish(w, t) => run' \in [Workers -> [Tasks -> RunRow]]
  BY IdleType DEF Finish, TypeOK
<1>4. ASSUME NEW r \in RunRow, run' = [run EXCEPT ![w][t] = r]
      PROVE  run' \in [Workers -> [Tasks -> RunRow]]
  BY <1>4 DEF TypeOK
<1> QED
  BY <1>2, <1>3, <1>4 DEF GoUnlink

(* Replacing or dropping a staging file keeps the files typed.             *)
LEMMA StagingType ==
  ASSUME TypeOK, NEW w \in Workers, NEW t \in Tasks
  PROVE  /\ Staging(w, t) \in StagingFile
         /\ \A f \in StagingFile :
              SetStaging(w, t, f) => file' \in [Disks -> [Tasks -> StagingFile]]
         /\ DropStaging(w, t) => file' \in [Disks -> [Tasks -> StagingFile]]
<1>1. DiskOf[w] \in Disks
  BY DEF Disks
<1>2. ASSUME NEW f \in StagingFile, SetStaging(w, t, f)
      PROVE  file' \in [Disks -> [Tasks -> StagingFile]]
  BY <1>1, <1>2 DEF TypeOK, SetStaging
<1>3. NoFile \in StagingFile
  BY DEF NoFile, StagingFile
<1>4. DropStaging(w, t) => file' \in [Disks -> [Tasks -> StagingFile]]
  BY <1>2, <1>3 DEF DropStaging
<1> QED
  BY <1>1, <1>2, <1>4 DEF TypeOK, Staging

(* There are finitely many bars, so the ledger can count them.             *)
LEMMA BarsAreFinite == IsFiniteSet(Bar)
<1>1. IsFiniteSet(Windows)
  <2> DEFINE f == [u \in Tasks |-> WindowOf[u]]
  <2>1. f \in Surjection(Tasks, Windows)
    BY DEF Surjection, Windows
  <2> QED
    BY <2>1, FS_Surjection, LoaderAssumption
<1>2. IsFiniteSet(1..Pages)
  BY FS_Interval, LoaderAssumption
<1>3. IsFiniteSet(Windows \X (1..Pages))
  BY <1>1, <1>2, FS_Product
<1> DEFINE Nested == Symbols \X (Windows \X (1..Pages))
           f == [x \in Nested |-> <<x[1], x[2][1], x[2][2]>>]
<1>4. IsFiniteSet(Nested)
  BY <1>3, FS_Product, LoaderAssumption
<1>5. f \in [Nested -> Bar]
  BY DEF Bar
<1>6. ASSUME NEW b \in Bar
      PROVE  \E x \in Nested : f[x] = b
  <2>1. PICK s \in Symbols, v \in Windows, p \in 1..Pages : b = <<s, v, p>>
    BY DEF Bar
  <2>2. <<s, <<v, p>>>> \in Nested /\ f[<<s, <<v, p>>>>] = b
    BY <2>1
  <2> QED
    BY <2>2
<1>7. f \in Surjection(Nested, Bar)
  BY <1>5, <1>6 DEF Surjection
<1> QED
  BY <1>4, <1>7, FS_Surjection

(* bulk_load stores only bars, and the ledger stays a natural number.      *)
LEMMA LoadedBarsType ==
  ASSUME TypeOK, NEW w \in Workers, NEW t \in Tasks
  PROVE  /\ Staging(w, t).bars \subseteq Bar
         /\ Cardinality(Staging(w, t).bars \ bars) \in Nat
<1>1. Staging(w, t).bars \subseteq Bar
  BY StagingType DEF StagingFile
<1>2. IsFiniteSet(Staging(w, t).bars \ bars)
  BY <1>1, BarsAreFinite, FS_Subset
<1> QED
  BY <1>1, <1>2, FS_CardinalityType

(* Every step of process_task keeps the types.                             *)
LEMMA RunnerType ==
  ASSUME TypeOK, NEW w \in Workers, NEW t \in Tasks,
         RunStep(w, t) \/ RunError(w, t) \/ RunEscapes(w, t)
  PROVE  TypeOK'
<1> SUFFICES /\ task' \in [Tasks -> TaskRow]
             /\ bars' \subseteq Bar /\ inventory' \in Nat /\ featured' \subseteq Bar
             /\ file' \in [Disks -> [Tasks -> StagingFile]]
             /\ tokenDead' \in [Tasks -> BOOLEAN]
             /\ wk' \in [Workers -> LoopRow]
             /\ run' \in [Workers -> [Tasks -> RunRow]]
             /\ faultsLeft' \in Nat
             /\ UNCHANGED <<job, histVars, commandsLeft, crashesLeft>>
  BY DEF TypeOK
<1> DEFINE r == run[w][t]
<1>a. r \in RunRow /\ task[t] \in TaskRow
  BY DEF TypeOK
<1>b. 0 \in 0..Pages
  BY LoaderAssumption
<1> HIDE DEF r
<1>1. CASE RunBegin(w, t)
  <2> DEFINE reset == (r.token # 0 \/ r.complete) /\ ~Staging(w, t).exists
             q == IF reset
                  THEN [r EXCEPT !.complete = FALSE, !.token = 0, !.rows = FALSE]
                  ELSE r
             pc == IF q.complete THEN "gate" ELSE LoopHead(t, q.symbols)
  <2>1. run' = [run EXCEPT ![w][t] = [q EXCEPT !.pc = pc]]
    BY <1>1 DEF RunBegin, r
  <2>2. q \in RunRow
    <3> HIDE DEF reset
    <3>1. 0 \in 0..Pages
      BY LoaderAssumption
    <3> QED
      BY <1>a, <3>1 DEF RunRow
  <2>3. pc \in RunPc
    <3> HIDE DEF q
    <3> QED
      BY DEF LoopHead, RunPc
  <2>4. [q EXCEPT !.pc = pc] \in RunRow
    <3> HIDE DEF q, pc
    <3> QED
      BY <2>2, <2>3 DEF RunRow
  <2>5. run' \in [Workers -> [Tasks -> RunRow]]
    BY <2>1, <2>4, GotoType
  <2> QED
    BY <1>1, <2>5 DEF RunBegin, RunnerFrame, TypeOK
<1> USE DEF RunnerFrame
<1>2. CASE FetchPage(w, t)
  <2> DEFINE p == IF r.token = 0 THEN 1 ELSE r.token
             new == PageBars(t, r.symbols, p)
             next == IF p < Pages THEN p + 1 ELSE 0
             staged == [Staging(w, t) EXCEPT !.exists = TRUE, !.bars = @ \union new]
             q == [r EXCEPT !.pc = "checkpoint", !.token = next, !.rows = @ \/ new # {}]
  <2>1. p \in 1..Pages /\ next \in 0..Pages
    BY <1>a, LoaderAssumption DEF RunRow
  <2>2. new \subseteq Bar
    <3> HIDE DEF p
    <3> QED
      BY <1>a, <2>1 DEF PageBars, Bar, Windows, RunRow
  <2>3. staged \in StagingFile
    <3> HIDE DEF new
    <3> QED
      BY <2>2, StagingType DEF StagingFile
  <2>4. q \in RunRow
    <3> HIDE DEF new, next
    <3> QED
      BY <1>a, <2>1 DEF RunRow, RunPc
  <2>5. SetStaging(w, t, staged) /\ run' = [run EXCEPT ![w][t] = q]
    <3>1. SetStaging(w, t, staged)
      BY <1>2 DEF FetchPage, AppendMember, r
    <3>2. run' = [run EXCEPT ![w][t] = q]
      BY <1>2 DEF FetchPage, NextToken, r, TypeOK
    <3> QED
      BY <3>1, <3>2
  <2>6. /\ file' \in [Disks -> [Tasks -> StagingFile]]
        /\ run' \in [Workers -> [Tasks -> RunRow]]
    <3> HIDE DEF staged, q
    <3> QED
      BY <2>3, <2>4, <2>5, StagingType, GotoType
  <2> QED
    BY <1>2, <2>6 DEF FetchPage, TypeOK
<1>3. CASE Checkpoint(w, t)
  <2> DEFINE status == IF r.token = 0 THEN "staged" ELSE "running"
             row == [task[t] EXCEPT !.token = r.token, !.rows = r.rows, !.fresh = TRUE,
                                    !.status = status]
             pc == IF IsCancel(t) THEN "cancel"
                   ELSE IF IsPause(t) THEN IF r.token = 0 THEN "pause_staged" ELSE "pause"
                   ELSE IF r.token = 0 THEN "gate" ELSE "fetch"
             q == [r EXCEPT !.complete = (r.token = 0), !.pc = pc]
  <2>1. UpdateTask(t, row) /\ run' = [run EXCEPT ![w][t] = q]
    BY <1>3 DEF Checkpoint, r, TypeOK
  <2>2. status \in TaskStatus /\ pc \in RunPc
    BY DEF TaskStatus, RunPc
  <2>3. row \in TaskRow
    <3> HIDE DEF status
    <3>1. r.token \in 0..Pages /\ r.rows \in BOOLEAN
      BY <1>a DEF RunRow
    <3> QED
      BY <1>a, <2>2, <3>1 DEF TaskRow
  <2>4. q \in RunRow
    <3> HIDE DEF pc
    <3> QED
      BY <1>a, <2>2 DEF RunRow
  <2>5. /\ task' \in [Tasks -> TaskRow]
        /\ run' \in [Workers -> [Tasks -> RunRow]]
    <3> HIDE DEF row, q
    <3> QED
      BY <2>1, <2>3, <2>4, UpdateTaskType, GotoType
  <2> QED
    BY <1>3, <2>5 DEF Checkpoint, TypeOK
<1>4. CASE RejectSymbol(w, t)
  <2>1. PICK s \in Symbols :
          run' = [run EXCEPT ![w][t] = [pc |-> "quarantine", complete |-> FALSE,
                    token |-> 0, rows |-> FALSE, symbols |-> r.symbols \ {s}]]
    BY <1>4, <1>a, LoaderAssumption DEF RejectSymbol, r, RunRow
  <2>2. [pc |-> "quarantine", complete |-> FALSE, token |-> 0, rows |-> FALSE,
         symbols |-> r.symbols \ {s}] \in RunRow
    BY <1>a, LoaderAssumption DEF RunRow, RunPc
  <2>3. run' \in [Workers -> [Tasks -> RunRow]]
    BY <2>1, <2>2, GotoType
  <2> QED
    BY <1>4, <2>3, StagingType DEF RejectSymbol, TypeOK
<1>5. CASE PersistQuarantine(w, t)
  <2> DEFINE row == [task[t] EXCEPT !.symbols = r.symbols, !.token = 0,
                                    !.rows = FALSE, !.fresh = TRUE]
  <2>1. UpdateTask(t, row) /\ Goto(w, t, "quarantined")
    BY <1>5 DEF PersistQuarantine, r
  <2>2. "quarantined" \in RunPc
    BY DEF RunPc
  <2>3. row \in TaskRow
    <3>1. 0 \in 0..Pages /\ r.symbols \in SUBSET Symbols
      BY <1>a, LoaderAssumption DEF RunRow
    <3> QED
      BY <1>a, <3>1 DEF TaskRow
  <2>4. /\ task' \in [Tasks -> TaskRow]
        /\ run' \in [Workers -> [Tasks -> RunRow]]
    <3> HIDE DEF row
    <3> QED
      BY <2>1, <2>2, <2>3, UpdateTaskType, GotoType
  <2> QED
    BY <1>5, <2>4 DEF PersistQuarantine, TypeOK
<1>6. CASE CompleteEmpty(w, t)
  <2>1. [task[t] EXCEPT !.status = "completed", !.rows = FALSE, !.token = 0,
              !.fresh = TRUE, !.claimedBy = None, !.completedAt = TRUE] \in TaskRow
    BY <1>a, <1>b DEF TaskRow, TaskStatus
  <2>2. "event" \in RunPc /\ "unlink_empty" \in RunPc
    BY DEF RunPc, ClosingPc
  <2>3. run' \in [Workers -> [Tasks -> RunRow]]
    BY <1>6, <2>2, GotoType DEF CompleteEmpty
  <2> QED
    BY <1>6, <2>1, <2>3, UpdateTaskType DEF CompleteEmpty, TypeOK
<1>7. CASE ExpiredToken(w, t)
  BY <1>7, StagingType, GotoType DEF ExpiredToken, TypeOK, RunPc
<1>8. CASE ResetCheckpoint(w, t)
  <2>1. [task[t] EXCEPT !.status = "pending", !.token = 0, !.rows = FALSE,
                        !.claimedBy = None] \in TaskRow
    BY <1>a, <1>b DEF TaskRow, TaskStatus
  <2> QED
    BY <1>8, <2>1, UpdateTaskType, GotoType DEF ResetCheckpoint, TypeOK, RunPc, LeavingPc
<1>9. CASE Gate(w, t)
  <2> DEFINE pc == IF IsCancel(t) THEN "cancel"
                   ELSE IF IsPause(t) THEN "pause_staged" ELSE "toload"
  <2>1. Goto(w, t, pc) /\ pc \in RunPc
    BY <1>9 DEF Gate, RunPc
  <2>2. run' \in [Workers -> [Tasks -> RunRow]]
    <3> HIDE DEF pc
    <3> QED
      BY <2>1, GotoType
  <2> QED
    BY <1>9, <2>2 DEF Gate, TypeOK
<1>10. CASE StartLoading(w, t)
  <2>1. [task[t] EXCEPT !.status = "loading", !.fresh = TRUE] \in TaskRow
    BY <1>a DEF TaskRow, TaskStatus
  <2> QED
    BY <1>10, <2>1, UpdateTaskType, GotoType DEF StartLoading, TypeOK, RunPc
<1>11. CASE BulkLoad(w, t)
  <2>1. bars' \subseteq Bar /\ inventory' \in Nat
    BY <1>11, LoadedBarsType DEF BulkLoad, RowsLoaded, TypeOK
  <2>2. run' \in [Workers -> [Tasks -> RunRow]]
    <3> DEFINE pc == IF GenerateFeatures /\ run[w][t].rows THEN "features" ELSE "done"
    <3>1. Goto(w, t, pc) /\ pc \in RunPc
      BY <1>11 DEF BulkLoad, AfterLoad, RunPc
    <3> HIDE DEF pc
    <3> QED
      BY <3>1, GotoType
  <2> QED
    BY <1>11, <2>1, <2>2 DEF BulkLoad, TypeOK
<1>12. CASE RefreshFeatures(w, t)
  BY <1>12, GotoType DEF RefreshFeatures, TypeOK, RunPc
<1>13. CASE CompleteTask(w, t)
  <2>1. [task[t] EXCEPT !.status = "completed", !.token = 0, !.fresh = TRUE,
                        !.completedAt = TRUE] \in TaskRow
    BY <1>a, <1>b DEF TaskRow, TaskStatus
  <2> QED
    BY <1>13, <2>1, UpdateTaskType, GotoType DEF CompleteTask, TypeOK, RunPc, ClosingPc
<1>14. CASE CancelTask(w, t)
  <2>1. [task[t] EXCEPT !.status = "cancelled", !.claimedBy = None, !.fresh = TRUE] \in TaskRow
    BY <1>a DEF TaskRow, TaskStatus
  <2> QED
    BY <1>14, <2>1, UpdateTaskType, GotoType DEF CancelTask, TypeOK, RunPc, LeavingPc
<1>15. CASE PauseTask(w, t)
  <2> DEFINE status == IF r.pc = "pause" THEN "pending" ELSE "staged"
             row == [task[t] EXCEPT !.claimedBy = None, !.fresh = TRUE, !.status = status]
  <2>1. UpdateTask(t, row)
    BY <1>15 DEF PauseTask, r
  <2>2. row \in TaskRow
    <3>1. status \in TaskStatus
      BY DEF TaskStatus
    <3> HIDE DEF status
    <3> QED
      BY <1>a, <3>1 DEF TaskRow
  <2>3. task' \in [Tasks -> TaskRow]
    <3> HIDE DEF row
    <3> QED
      BY <2>1, <2>2, UpdateTaskType
  <2> QED
    BY <1>15, <2>3, GotoType DEF PauseTask, TypeOK
<1>16. ASSUME FailTask(w, t), faultsLeft' \in Nat
       PROVE  TypeOK'
  <2>1. [task[t] EXCEPT !.status = "failed", !.fresh = TRUE] \in TaskRow
    BY <1>a DEF TaskRow, TaskStatus
  <2> QED
    BY <1>16, <2>1, UpdateTaskType, GotoType DEF FailTask, TypeOK, RunPc, LeavingPc
<1>17. CASE RunEscapes(w, t)
  <2>1. wk' \in [Workers -> LoopRow]
    BY <1>17, AtType DEF RunEscapes, TypeOK, LoopPc
  <2> QED
    BY <1>17, <2>1, GotoType DEF RunEscapes, TypeOK
<1>18. CASE RunError(w, t)
  BY <1>16, <1>18 DEF RunError, FailTask, TypeOK
<1>19. CASE LoadError(w, t) \/ ClosedClient(w, t)
  BY <1>16, <1>19 DEF LoadError, ClosedClient, FailTask, TypeOK
<1>20. CASE Requarantined(w, t)
  <2> DEFINE pc == IF r.symbols = {} THEN "empty" ELSE LoopHead(t, r.symbols)
  <2>1. Goto(w, t, pc) /\ pc \in RunPc
    BY <1>20 DEF Requarantined, LoopHead, RunPc, r
  <2>2. run' \in [Workers -> [Tasks -> RunRow]]
    <3> HIDE DEF pc
    <3> QED
      BY <2>1, GotoType
  <2> QED
    BY <1>20, <2>2 DEF Requarantined, TypeOK
<1>21. CASE UnlinkStaging(w, t)
  <2>1. "event" \in RunPc
    BY DEF RunPc, ClosingPc
  <2>2. run' \in [Workers -> [Tasks -> RunRow]]
    BY <1>21, <2>1, GotoType DEF UnlinkStaging
  <2> QED
    BY <1>21, <2>2, StagingType DEF UnlinkStaging, TypeOK
<1>22. CASE LastEvent(w, t)
  BY <1>22, GotoType DEF LastEvent, TypeOK
<1> QED
  BY <1>1, <1>2, <1>3, <1>4, <1>5, <1>6, <1>7, <1>8, <1>9, <1>10, <1>11, <1>12,
     <1>13, <1>14, <1>15, <1>17, <1>18, <1>19, <1>20, <1>21, <1>22 DEF RunStep

(* Expiring leases, planners and page tokens keep the types.               *)
LEMMA LeaseType ==
  ASSUME TypeOK,
         \/ \E t \in Tasks : LeaseExpires(t) \/ LeaseOutlived(t) \/ TokenExpires(t)
         \/ \E j \in Jobs : PlannerExpires(j)
  PROVE  TypeOK'
<1>1. ASSUME NEW t \in Tasks, LeaseExpires(t) \/ LeaseOutlived(t)
      PROVE  TypeOK'
  <2>1. task' \in [Tasks -> TaskRow]
    <3>1. [task[t] EXCEPT !.fresh = FALSE] \in TaskRow
      BY ZenonT(60) DEF TypeOK, TaskRow
    <3> QED
      BY <1>1, <3>1 DEF LeaseExpires, LeaseOutlived, TypeOK
  <2> QED
    BY <1>1, <2>1, BudgetType DEF LeaseExpires, LeaseOutlived, TypeOK, NoBudget, LoopFrame
<1>2. ASSUME NEW t \in Tasks, TokenExpires(t)
      PROVE  TypeOK'
  BY <1>2, BudgetType DEF TokenExpires, TypeOK, LoopFrame
<1>3. ASSUME NEW j \in Jobs, PlannerExpires(j)
      PROVE  TypeOK'
  <2>1. job' \in [Jobs -> JobRow]
    <3>1. [job[j] EXCEPT !.fresh = FALSE] \in JobRow
      BY DEF TypeOK, JobRow
    <3> QED
      BY <1>3, <3>1 DEF PlannerExpires, TypeOK
  <2> QED
    BY <1>3, <2>1 DEF PlannerExpires, TypeOK, NoBudget, LoopFrame
<1> QED
  BY <1>1, <1>2, <1>3

(* Every row, file and local variable stays in the domain the columns and  *)
(* the code give it, whatever the operators, workers and faults do.        *)
THEOREM TypeCorrect == Spec => []TypeOK
<1>1. TypeOK /\ [Next]_vars => TypeOK'
  <2> SUFFICES ASSUME TypeOK, [Next]_vars PROVE TypeOK'
    OBVIOUS
  <2>1. CASE UNCHANGED vars
    BY <2>1 DEF TypeOK
  <2>2. CASE Environment
    BY <2>2, ApiType, LeaseType DEF Environment
  <2>3. CASE Disturbance
    BY <2>3, PlannerType, LoopType, RunnerType, LeaseType DEF Disturbance
  <2> QED
    BY <2>1, <2>2, <2>3, PlannerType, LoopType, RunnerType DEF Next
<1> QED
  BY InitType, <1>1, PTL DEF Spec

-----------------------------------------------------------------------------
(* What every step of process_task has in common: it touches one coroutine *)
(* and one row, never creates or removes the row, leaves the row alone     *)
(* after its last commit, and until then keeps the claim or has completed  *)
(* the row.                                                                *)
Holds(w, t) == task[t].claimedBy = w /\ Engaged(t)
RowHeld(w, t) ==
  /\ Working(w, t) => Holds(w, t)
  /\ Closing(w, t) => task[t].status = "completed"

(* Where only steps that remove staging files are reached.                 *)
UnlinkPc == {"unlink_empty", "unlink", "unlink_cancel"}

(* What one step of process_task can do to a coroutine and its row.        *)
LEMMA RunnerStep ==
  ASSUME TypeOK, NEW w \in Workers, NEW t \in Tasks,
         RunStep(w, t) \/ RunError(w, t) \/ RunEscapes(w, t)
  PROVE  /\ Live(w, t)
         /\ \A v \in Workers, u \in Tasks :
              v # w \/ u # t => run'[v][u] = run[v][u]
         /\ \A u \in Tasks : u # t => task'[u] = task[u]
         /\ TaskExists(t)' <=> TaskExists(t)
         /\ TaskExists(t) /\ RowHeld(w, t) => RowHeld(w, t)'
         /\ Writing(w, t)' => Writing(w, t)
         /\ ~Writing(w, t) => task' = task
         /\ KeepFiles /\ run[w][t].pc \notin UnlinkPc => run'[w][t].pc \notin UnlinkPc
         /\ UNCHANGED <<job, overtaken, raced>>
<1> DEFINE Goal == /\ \A v \in Workers, u \in Tasks :
                        v # w \/ u # t => run'[v][u] = run[v][u]
                   /\ \A u \in Tasks : u # t => task'[u] = task[u]
                   /\ TaskExists(t)' <=> TaskExists(t)
                   /\ TaskExists(t) /\ RowHeld(w, t) => RowHeld(w, t)'
                   /\ Writing(w, t)' => Writing(w, t)
                   /\ ~Writing(w, t) => task' = task
                   /\ KeepFiles /\ run[w][t].pc \notin UnlinkPc => run'[w][t].pc \notin UnlinkPc
           TailPc == ClosingPc \union LeavingPc
           IdlePc == {"idle", "leave"} \union (IF KeepFiles THEN {} ELSE {"unlink_cancel"})
           DonePc == IF KeepFiles THEN {"idle", "event"} ELSE {"idle"} \union ClosingPc
           Moved(pc) == \E r : run' = [run EXCEPT ![w][t] = r] /\ r.pc = pc
           Row(row) == UpdateTask(t, row) /\ row.status \in TaskStatus
           Kept(row) == Holds(w, t) => /\ row.claimedBy = w
                                       /\ row.status \in {"running", "loading", "staged"}
<1>a. ASSUME NEW pc, Moved(pc)
      PROVE  /\ \A v \in Workers, u \in Tasks : v # w \/ u # t => run'[v][u] = run[v][u]
             /\ run'[w][t].pc = pc
  BY <1>a DEF TypeOK
<1>b. ASSUME NEW row, Row(row)
      PROVE  /\ \A u \in Tasks : u # t => task'[u] = task[u]
             /\ TaskExists(t)' <=> TaskExists(t)
             /\ TaskExists(t) => task'[t] = row
  BY <1>b DEF UpdateTask, TaskExists, TypeOK, TaskStatus
<1>c. Working(w, t) => Writing(w, t) /\ ~Closing(w, t)
  BY DEF Working
<1>d. ASSUME NEW pc, Moved(pc)
      PROVE  /\ pc \notin TailPc => ~Closing(w, t)'
             /\ pc \in IdlePc => ~Writing(w, t)' /\ ~Working(w, t)'
             /\ pc \in ClosingPc => ~Working(w, t)'
  BY <1>a, <1>d DEF Closing, Writing, Working, Live, ClosingPc, LeavingPc
<1>e. ASSUME NEW pc, Goto(w, t, pc)
      PROVE  Moved(pc)
  <2>1. run' = [run EXCEPT ![w][t] = [run[w][t] EXCEPT !.pc = pc]]
    BY <1>e DEF Goto, TypeOK
  <2>2. [run[w][t] EXCEPT !.pc = pc].pc = pc
    BY DEF TypeOK, RunRow
  <2> QED
    BY <2>1, <2>2
<1>f. Finish(w, t) => Moved("idle")
  BY DEF Finish, Idle
(* The kinds of step.                                                      *)
<1>1. ASSUME NEW pc, Moved(pc), UNCHANGED task, Working(w, t), pc \notin TailPc
      PROVE  Goal
  BY <1>1, <1>a, <1>c, <1>d DEF TaskExists, RowHeld, Holds, Engaged, UnlinkPc, ClosingPc, LeavingPc
<1>2. ASSUME NEW row, Row(row), Kept(row), Working(w, t), NEW pc, Moved(pc), pc \notin TailPc
      PROVE  Goal
  <2>1. TaskExists(t) => task'[t] = row
    BY <1>b, <1>2
  <2>2. TaskExists(t) /\ Holds(w, t) => Holds(w, t)'
    BY <1>2, <2>1, LoaderAssumption DEF Holds, Engaged
  <2> HIDE DEF Row, Kept, Moved
  <2> QED
    BY <1>2, <1>a, <1>b, <1>c, <1>d, <2>2 DEF RowHeld, UnlinkPc, ClosingPc, LeavingPc
<1>3. ASSUME NEW row, (Row(row) /\ Writing(w, t)) \/ UNCHANGED task,
             NEW pc, Moved(pc), pc \in IdlePc
      PROVE  Goal
  <2>1. ~Writing(w, t)' /\ ~Working(w, t)' /\ ~Closing(w, t)'
    BY <1>3, <1>d DEF Closing, Writing, Live, LeavingPc, ClosingPc
  <2> HIDE DEF Row, Moved
  <2> QED
    BY <1>3, <1>a, <1>b, <2>1 DEF RowHeld, TaskExists, UnlinkPc
<1>4. ASSUME NEW row, Row(row), row.status = "completed", Working(w, t),
             NEW pc, Moved(pc), pc \in DonePc
      PROVE  Goal
  <2>1. ~Working(w, t)'
    BY <1>4, <1>d DEF ClosingPc, LeavingPc
  <2> HIDE DEF Row, Moved
  <2> QED
    BY <1>4, <1>a, <1>b, <1>c, <2>1 DEF RowHeld, UnlinkPc, ClosingPc
<1>5. ASSUME Moved("event"), UNCHANGED task, Closing(w, t)
      PROVE  Goal
  <2>1. Writing(w, t)
    BY <1>5 DEF Closing, Writing, Live, ClosingPc, LeavingPc
  <2>2. ~Working(w, t)'
    BY <1>5, <1>d DEF ClosingPc, LeavingPc
  <2> HIDE DEF Moved
  <2> QED
    BY <1>5, <1>a, <2>1, <2>2 DEF RowHeld, TaskExists, UnlinkPc
<1> HIDE DEF Goal, Moved, Row, Kept
<1> USE DEF RunnerFrame
<1>6. FailTask(w, t) /\ Writing(w, t) => Goal
  <2>1. FailTask(w, t) => Row([task[t] EXCEPT !.status = "failed", !.fresh = TRUE])
    BY DEF FailTask, Row, TaskStatus, TypeOK, TaskRow
  <2>2. FailTask(w, t) => Moved("leave")
    BY <1>e DEF FailTask
  <2> QED
    BY <1>3, <2>1, <2>2 DEF LeavingPc
<1>w. ASSUME NEW pc, run[w][t].pc = pc, pc \notin {"idle"} \union TailPc
      PROVE  Working(w, t) /\ Live(w, t)
  BY <1>w DEF Working, Writing, Live, Closing
<1>7. CASE RunBegin(w, t) \/ FetchPage(w, t) \/ RejectSymbol(w, t)
  <2>1. (\E pc : Moved(pc) /\ pc \notin TailPc) /\ UNCHANGED task
    <3>1. CASE RunBegin(w, t)
      <4> DEFINE reset == (run[w][t].token # 0 \/ run[w][t].complete) /\ ~Staging(w, t).exists
                 q == IF reset
                      THEN [run[w][t] EXCEPT !.complete = FALSE, !.token = 0, !.rows = FALSE]
                      ELSE run[w][t]
                 pc == IF q.complete THEN "gate" ELSE LoopHead(t, q.symbols)
      <4>1. run' = [run EXCEPT ![w][t] = [q EXCEPT !.pc = pc]] /\ UNCHANGED task
        BY <3>1 DEF RunBegin
      <4>2. q \in RunRow
        <5>1. 0 \in 0..Pages /\ run[w][t] \in RunRow
          BY LoaderAssumption DEF TypeOK
        <5> HIDE DEF reset
        <5> QED
          BY <5>1 DEF RunRow
      <4>3. pc \notin TailPc
        <5> HIDE DEF q
        <5> QED
          BY DEF LoopHead, ClosingPc, LeavingPc
      <4> HIDE DEF q, pc
      <4>4. [q EXCEPT !.pc = pc].pc = pc
        BY <4>2 DEF RunRow
      <4> QED
        BY <4>1, <4>3, <4>4 DEF Moved
    <3>2. CASE FetchPage(w, t)
      <4>1. \E tok, rows : run' = [run EXCEPT ![w][t] =
              [run[w][t] EXCEPT !.pc = "checkpoint", !.token = tok, !.rows = rows]]
        BY <3>2 DEF FetchPage
      <4>2. \A tok, rows : [run[w][t] EXCEPT !.pc = "checkpoint", !.token = tok,
                                           !.rows = rows].pc = "checkpoint"
        BY DEF TypeOK, RunRow
      <4> QED
        BY <3>2, <4>1, <4>2, ZenonT(60) DEF Moved, ClosingPc, LeavingPc, FetchPage
    <3>3. CASE RejectSymbol(w, t)
      <4>1. PICK s \in Symbols :
              run' = [run EXCEPT ![w][t] = [pc |-> "quarantine", complete |-> FALSE, token |-> 0,
                        rows |-> FALSE, symbols |-> run[w][t].symbols \ {s}]]
        BY <3>3, LoaderAssumption DEF RejectSymbol
      <4> DEFINE q == [pc |-> "quarantine", complete |-> FALSE, token |-> 0,
                       rows |-> FALSE, symbols |-> run[w][t].symbols \ {s}]
      <4>2. Moved("quarantine")
        <5>1. q.pc = "quarantine"
          OBVIOUS
        <5> HIDE DEF q
        <5>2. run' = [run EXCEPT ![w][t] = q]
          BY <4>1 DEF q
        <5> QED
          BY <5>1, <5>2 DEF Moved
      <4> QED
        BY <3>3, <4>2 DEF RejectSymbol, ClosingPc, LeavingPc
    <3> QED
      BY <1>7, <3>1, <3>2, <3>3
  <2>2. Working(w, t) /\ Live(w, t) /\ UNCHANGED <<job, overtaken, raced>>
    BY <1>7, <1>w DEF RunBegin, FetchPage, RejectSymbol, ClosingPc, LeavingPc
  <2> QED
    BY <1>1, <2>1, <2>2 DEF Goal
<1>8. CASE \/ ExpiredToken(w, t) \/ Gate(w, t) \/ BulkLoad(w, t) \/ RefreshFeatures(w, t)
           \/ Requarantined(w, t)
  <2>1. (\E pc : Goto(w, t, pc) /\ pc \notin TailPc) /\ UNCHANGED task
    <3>1. CASE ExpiredToken(w, t) \/ RefreshFeatures(w, t)
      BY <3>1 DEF ExpiredToken, RefreshFeatures, ClosingPc, LeavingPc
    <3>2. CASE Gate(w, t)
      <4> DEFINE pc == IF IsCancel(t) THEN "cancel"
                       ELSE IF IsPause(t) THEN "pause_staged" ELSE "toload"
      <4>1. Goto(w, t, pc) /\ UNCHANGED task
        BY <3>2 DEF Gate
      <4>2. pc \notin TailPc
        BY DEF ClosingPc, LeavingPc
      <4> QED
        BY <4>1, <4>2
    <3>3. CASE BulkLoad(w, t)
      BY <3>3 DEF BulkLoad, AfterLoad, ClosingPc, LeavingPc
    <3>4. CASE Requarantined(w, t)
      <4> DEFINE left == run[w][t].symbols
                 pc == IF left = {} THEN "empty" ELSE LoopHead(t, left)
      <4>1. Goto(w, t, pc) /\ UNCHANGED task
        BY <3>4 DEF Requarantined
      <4>2. pc \notin TailPc
        BY DEF ClosingPc, LeavingPc, LoopHead
      <4> QED
        BY <4>1, <4>2
    <3> QED
      BY <1>8, <3>1, <3>2, <3>3, <3>4
  <2>2. Working(w, t) /\ Live(w, t) /\ UNCHANGED <<job, overtaken, raced>>
    BY <1>8, <1>w DEF ExpiredToken, Gate, BulkLoad, RefreshFeatures, Requarantined,
       ClosingPc, LeavingPc
  <2> QED
    BY <1>1, <1>e, <2>1, <2>2 DEF Goal
<1>9. CASE Checkpoint(w, t)
  <2> DEFINE row == [task[t] EXCEPT
        !.token = run[w][t].token, !.rows = run[w][t].rows, !.fresh = TRUE,
        !.status = IF run[w][t].token = 0 THEN "staged" ELSE "running"]
             pc == IF IsCancel(t) THEN "cancel"
                   ELSE IF IsPause(t) THEN IF run[w][t].token = 0 THEN "pause_staged" ELSE "pause"
                   ELSE IF run[w][t].token = 0 THEN "gate" ELSE "fetch"
             q == [run[w][t] EXCEPT !.complete = (run[w][t].token = 0), !.pc = pc]
  <2>1. UpdateTask(t, row) /\ run' = [run EXCEPT ![w][t] = q]
    BY <1>9 DEF Checkpoint
  <2>2. Row(row) /\ Kept(row)
    BY <2>1 DEF Row, Kept, Holds, TypeOK, TaskRow, TaskStatus
  <2>3. pc \notin TailPc
    BY DEF ClosingPc, LeavingPc
  <2>4. q.pc = pc
    BY DEF TypeOK, RunRow
  <2>5. Moved(pc)
    <3> HIDE DEF pc, q
    <3> QED
      BY <2>1, <2>4 DEF Moved
  <2>6. Working(w, t) /\ Live(w, t) /\ UNCHANGED <<job, overtaken, raced>>
    BY <1>9, <1>w DEF Checkpoint, ClosingPc, LeavingPc
  <2> HIDE DEF row, pc
  <2> QED
    BY <1>2, <2>2, <2>3, <2>5, <2>6 DEF Goal
<1>10. CASE PersistQuarantine(w, t)
  <2> DEFINE row == [task[t] EXCEPT !.symbols = run[w][t].symbols, !.token = 0,
                                    !.rows = FALSE, !.fresh = TRUE]
  <2>1. UpdateTask(t, row) /\ Moved("quarantined") /\ "quarantined" \notin TailPc
    BY <1>10, <1>e DEF PersistQuarantine, ClosingPc, LeavingPc
  <2>2. Working(w, t) /\ Live(w, t) /\ UNCHANGED <<job, overtaken, raced>>
    BY <1>10, <1>w DEF PersistQuarantine, ClosingPc, LeavingPc
  <2>3. CASE TaskExists(t)
    <3>1. Row(row) /\ Kept(row)
      BY <2>1, <2>3 DEF Row, Kept, Holds, Engaged, TaskExists, TypeOK, TaskRow, TaskStatus
    <3> HIDE DEF row
    <3> QED
      BY <1>2, <2>1, <2>2, <3>1 DEF Goal
  <2>4. CASE ~TaskExists(t)
    <3>1. UNCHANGED task
      BY <2>1, <2>4 DEF UpdateTask, TypeOK
    <3> QED
      BY <1>1, <2>1, <2>2, <3>1 DEF Goal
  <2> QED
    BY <2>3, <2>4
<1>11. CASE StartLoading(w, t)
  <2> DEFINE row == [task[t] EXCEPT !.status = "loading", !.fresh = TRUE]
  <2>1. Row(row) /\ Kept(row) /\ Moved("load") /\ "load" \notin TailPc
    BY <1>11, <1>e DEF StartLoading, Row, Kept, Holds, TypeOK, TaskRow, TaskStatus, ClosingPc, LeavingPc
  <2>2. Working(w, t) /\ Live(w, t) /\ UNCHANGED <<job, overtaken, raced>>
    BY <1>11, <1>w DEF StartLoading, ClosingPc, LeavingPc
  <2> HIDE DEF row
  <2> QED
    BY <1>2, <2>1, <2>2 DEF Goal
<1>12. CASE CompleteEmpty(w, t) \/ CompleteTask(w, t)
  <2>1. \E row : Row(row) /\ row.status = "completed"
    <3>1. CASE CompleteEmpty(w, t)
      <4> DEFINE row == [task[t] EXCEPT !.status = "completed", !.rows = FALSE, !.token = 0,
                            !.fresh = TRUE, !.claimedBy = None, !.completedAt = TRUE]
      <4>1. Row(row) /\ row.status = "completed"
        BY <3>1 DEF CompleteEmpty, Row, TypeOK, TaskRow, TaskStatus
      <4> QED
        BY <4>1
    <3>2. CASE CompleteTask(w, t)
      <4> DEFINE row == [task[t] EXCEPT !.status = "completed", !.token = 0, !.fresh = TRUE,
                                        !.completedAt = TRUE]
      <4>1. Row(row) /\ row.status = "completed"
        BY <3>2 DEF CompleteTask, Row, TypeOK, TaskRow, TaskStatus
      <4> QED
        BY <4>1
    <3> QED
      BY <1>12, <3>1, <3>2
  <2>2. \E pc : Moved(pc) /\ pc \in DonePc
    BY <1>12, <1>e, <1>f DEF CompleteEmpty, CompleteTask, GoUnlink, ClosingPc, LeavingPc
  <2>3. Working(w, t) /\ Live(w, t) /\ UNCHANGED <<job, overtaken, raced>>
    BY <1>12, <1>w DEF CompleteEmpty, CompleteTask, ClosingPc, LeavingPc
  <2> QED
    BY <1>4, <2>1, <2>2, <2>3 DEF Goal
<1>13. CASE ResetCheckpoint(w, t) \/ CancelTask(w, t) \/ PauseTask(w, t)
  <2>1. \E pc : Moved(pc) /\ pc \in IdlePc
    BY <1>13, <1>e, <1>f DEF ResetCheckpoint, CancelTask, PauseTask, GoUnlink
  <2>2. \E row : Row(row)
    <3>1. CASE ResetCheckpoint(w, t)
      <4>1. Row([task[t] EXCEPT !.status = "pending", !.token = 0, !.rows = FALSE,
                              !.claimedBy = None])
        BY <3>1 DEF ResetCheckpoint, Row, TypeOK, TaskRow, TaskStatus
      <4> QED
        BY <4>1
    <3>2. CASE CancelTask(w, t)
      <4>1. Row([task[t] EXCEPT !.status = "cancelled", !.claimedBy = None, !.fresh = TRUE])
        BY <3>2 DEF CancelTask, Row, TypeOK, TaskRow, TaskStatus
      <4> QED
        BY <4>1
    <3>3. CASE PauseTask(w, t)
      <4>1. Row([task[t] EXCEPT !.claimedBy = None, !.fresh = TRUE,
                 !.status = IF run[w][t].pc = "pause" THEN "pending" ELSE "staged"])
        BY <3>3 DEF PauseTask, Row, TypeOK, TaskRow, TaskStatus
      <4> QED
        BY <4>1
    <3> QED
      BY <1>13, <3>1, <3>2, <3>3
  <2>3. Working(w, t) /\ Live(w, t) /\ UNCHANGED <<job, overtaken, raced>>
    BY <1>13, <1>w DEF ResetCheckpoint, CancelTask, PauseTask, ClosingPc, LeavingPc
  <2> QED
    BY <1>3, <1>c, <2>1, <2>2, <2>3 DEF Goal
<1>14. CASE LoadError(w, t) \/ ClosedClient(w, t) \/ RunError(w, t)
  <2>1. FailTask(w, t) /\ run[w][t].pc \in TryPc
    BY <1>14 DEF LoadError, ClosedClient, RunError, TryPc
  <2>2. Writing(w, t) /\ Live(w, t)
    BY <2>1 DEF Writing, Live, TryPc, ClosingPc, LeavingPc
  <2> QED
    BY <1>6, <2>1, <2>2 DEF Goal, FailTask
<1>15. CASE UnlinkStaging(w, t) \/ LastEvent(w, t)
  <2>1. UNCHANGED <<task, job, overtaken, raced>> /\ Live(w, t)
    BY <1>15 DEF UnlinkStaging, LastEvent, Live
  <2>2. Moved("idle") \/ (Moved("event") /\ Closing(w, t))
    BY <1>15, <1>e, <1>f DEF UnlinkStaging, LastEvent, Closing, ClosingPc, LeavingPc
  <2> QED
    BY <1>3, <1>5, <2>1, <2>2 DEF Goal
<1>16. CASE RunEscapes(w, t)
  BY <1>3, <1>f, <1>16 DEF Goal, RunEscapes
<1> QED
  BY <1>7, <1>8, <1>9, <1>10, <1>11, <1>12, <1>13, <1>14, <1>15, <1>16 DEF RunStep

-----------------------------------------------------------------------------
(* ExclusiveClaim alone is not inductive: a row with a coroutine that may  *)
(* still write it is missing only when the job is deleted, or planning     *)
(* could bring it back.                                                    *)
Claimed1(w, t) ==
  t \notin overtaken =>
    /\ TaskExists(t) => RowHeld(w, t)
    /\ Writing(w, t) => /\ TaskExists(t) \/ job[JobOf[t]].status = "deleted"
                        /\ \A v \in Workers \ {w} : ~Writing(v, t)
ClaimInv == \A w \in Workers, t \in Tasks : Claimed1(w, t)

(* A step that leaves every coroutine alone and takes no held row away     *)
(* except by deleting its job, or by releasing it over the coroutine's     *)
(* head, keeps the invariant.                                              *)
LEMMA ClaimFrame ==
  ASSUME ClaimInv, run' = run, overtaken \subseteq overtaken',
         \A w \in Workers, t \in Tasks :
           Writing(w, t) /\ t \notin overtaken' =>
             /\ TaskExists(t)' => /\ TaskExists(t)
                                  /\ task'[t].status = task[t].status
                                  /\ task'[t].claimedBy = task[t].claimedBy
             /\ TaskExists(t)' \/ job'[JobOf[t]].status = "deleted"
  PROVE  ClaimInv'
<1>1. \A w \in Workers, t \in Tasks : /\ Writing(w, t)' <=> Writing(w, t)
                                      /\ Working(w, t)' <=> Working(w, t)
                                      /\ Closing(w, t)' <=> Closing(w, t)
  BY DEF Writing, Working, Closing, Live
<1>2. \A w \in Workers, t \in Tasks : Working(w, t) \/ Closing(w, t) => Writing(w, t)
  BY DEF Writing, Working, Closing, Live, ClosingPc, LeavingPc
<1> QED
  BY <1>1, <1>2 DEF ClaimInv, Claimed1, RowHeld, Holds, Engaged, TaskExists

(* A row its coroutine may still write is held, or completed.              *)
LEMMA HeldRow ==
  ASSUME NEW w, NEW t, RowHeld(w, t), Writing(w, t)
  PROVE  Engaged(t) \/ task[t].status = "completed"
BY DEF RowHeld, Working, Holds

(* Operator commands keep the claims: recover releases only stale leases.  *)
LEMMA ClaimApi ==
  ASSUME TypeOK, ClaimInv, NEW j \in Jobs, JobAction(j)
  PROVE  ClaimInv'
<1>1. run' = run /\ overtaken \subseteq overtaken'
  BY DEF JobAction, CreateJob, PauseJob, ResumeJob, CancelJob, RecoverJob, RetryJob,
     DeleteJob, ApiFrame, HistFrame, Overtake
<1>2. ASSUME NEW w \in Workers, NEW t \in Tasks, Writing(w, t), t \notin overtaken'
      PROVE  /\ TaskExists(t)' => TaskExists(t) /\ task'[t] = task[t]
             /\ TaskExists(t)' \/ job'[JobOf[t]].status = "deleted"
  <2>1. /\ TaskExists(t) => Engaged(t) \/ task[t].status = "completed"
        /\ TaskExists(t) \/ job[JobOf[t]].status = "deleted"
    BY <1>1, <1>2, HeldRow DEF ClaimInv, Claimed1
  <2>2. JobOf[t] \in Jobs
    BY LoaderAssumption
  <2>3. CASE CreateJob(j) \/ PauseJob(j) \/ ResumeJob(j) \/ CancelJob(j)
    <3>1. task' = task /\ job[j].status # "deleted" /\ \E s : SetStatus(j, s)
      BY <2>3 DEF CreateJob, PauseJob, ResumeJob, CancelJob, JobExists, JobStatus
    <3> QED
      BY <2>1, <2>2, <3>1 DEF SetStatus, TypeOK, TaskExists
  <2>4. CASE RecoverJob(j)
    <3>1. job[j].status # "deleted" /\ \E s : SetStatus(j, s)
      BY <2>4 DEF RecoverJob, Recoverable
    <3>2. task'[t] = IF JobOf[t] = j /\ Stale(t) THEN Recovered(t) ELSE task[t]
      BY <2>4 DEF RecoverJob
    <3>4. task'[t] = task[t]
      BY <1>2, <2>4, <3>2 DEF RecoverJob, Overtake, TasksOf
    <3> QED
      BY <2>1, <2>2, <3>1, <3>4 DEF SetStatus, TypeOK, TaskExists
  <2>5. CASE RetryJob(j)
    <3>1. job[j].status # "deleted" /\ \E s : SetStatus(j, s)
      BY <2>5 DEF RetryJob
    <3>2. task[t].status \notin {"failed", "cancelled"} => task'[t] = task[t]
      BY <2>5 DEF RetryJob
    <3>3. task'[t] = task[t]
      BY <2>1, <3>2 DEF Engaged, TaskExists
    <3> QED
      BY <2>1, <2>2, <3>1, <3>3 DEF SetStatus, TypeOK, TaskExists
  <2>6. CASE DeleteJob(j)
    <3>1. /\ task'[t] = IF JobOf[t] = j THEN AbsentTask ELSE task[t]
          /\ job' = [job EXCEPT ![j] = [AbsentJob EXCEPT !.status = "deleted"]]
      BY <2>6 DEF DeleteJob
    <3>2. CASE JobOf[t] = j
      BY <3>1, <3>2 DEF TypeOK, TaskExists, AbsentTask, AbsentJob
    <3>3. CASE JobOf[t] # j
      BY <2>1, <2>2, <3>1, <3>3 DEF TypeOK, TaskExists
    <3> QED
      BY <3>2, <3>3
  <2> QED
    BY <2>3, <2>4, <2>5, <2>6 DEF JobAction
<1> QED
  BY <1>1, <1>2, ClaimFrame, SMTT(60)

(* Planning touches no claimed row.                                        *)
LEMMA ClaimPlanner ==
  ASSUME TypeOK, ClaimInv, NEW w \in Workers, PlanStep(w) \/ PlanFail(w)
  PROVE  ClaimInv'
<1>1. run' = run /\ overtaken' = overtaken
  BY DEF PlanStep, ClaimJobForPlanning, PlanCommit, PlanAnnounced, PlanOrphaned, PlanFail,
     PlannerFrame
<1>2. ASSUME NEW v \in Workers, NEW t \in Tasks, Writing(v, t), t \notin overtaken
      PROVE  /\ TaskExists(t)' => TaskExists(t) /\ task'[t] = task[t]
             /\ TaskExists(t)' \/ job'[JobOf[t]].status = "deleted"
  <2>1. TaskExists(t) \/ job[JobOf[t]].status = "deleted"
    BY <1>2 DEF ClaimInv, Claimed1
  <2>2. JobOf[t] \in Jobs
    BY LoaderAssumption
  <2>3. job[JobOf[t]].status = "deleted" => job'[JobOf[t]].status = "deleted"
    <3>1. \A j \in Jobs : job[j].status = "deleted" => job'[j] = job[j]
      BY DEF PlanStep, ClaimJobForPlanning, PlanCommit, PlanAnnounced, PlanOrphaned,
         PlanFail, JobExists, JobStatus, TypeOK
    <3> QED
      BY <2>2, <3>1, SMTT(30)
  <2>4. CASE PlanCommit(w)
    <3>1. TaskExists(t) => task'[t] = task[t]
      BY <2>4 DEF PlanCommit
    <3>2. ~TaskExists(t) => task'[t] = task[t]
      <4>1. ~TaskExists(t) => JobOf[t] # wk[w].job
        BY <2>1, <2>4 DEF PlanCommit, JobExists, JobStatus
      <4> QED
        BY <2>4, <4>1 DEF PlanCommit
    <3> QED
      BY <2>1, <2>3, <3>1, <3>2 DEF TaskExists
  <2>5. CASE ~PlanCommit(w)
    <3>1. task' = task
      BY <2>5 DEF PlanStep, ClaimJobForPlanning, PlanAnnounced, PlanOrphaned, PlanFail
    <3> QED
      BY <2>1, <2>3, <3>1 DEF TaskExists
  <2> QED
    BY <2>4, <2>5
<1> QED
  BY <1>1, <1>2, ClaimFrame, SMTT(30)

(* No coroutine that may still write it has a row that can be claimed.     *)
LEMMA ClaimableIsFree ==
  ASSUME ClaimInv, NEW j, NEW t \in Claimable(j)
  PROVE  /\ t \in Tasks /\ TaskExists(t) /\ ~Engaged(t)
         /\ t \notin overtaken => \A w \in Workers : ~Writing(w, t)
<1>1. t \in Tasks /\ TaskExists(t) /\ ~Engaged(t) /\ task[t].status # "completed"
  BY SMTT(30) DEF Claimable, TasksOf, TaskExists, Engaged
<1> QED
  BY <1>1, HeldRow DEF ClaimInv, Claimed1

(* The worker's loop claims only unclaimed rows and releases only stale    *)
(* ones.                                                                   *)
LEMMA ClaimLoop ==
  ASSUME TypeOK, ClaimInv, NEW w \in Workers,
         LoopStep(w) \/ LoopError(w) \/ ClaimThenError(w) \/ Crash(w)
  PROVE  ClaimInv'
<1>1. ASSUME NEW t \in Claimable(wk[w].job)
      PROVE  /\ t \in Tasks /\ TaskExists(t) /\ ~Engaged(t)
             /\ t \notin overtaken => \A v \in Workers : ~Writing(v, t)
  BY ClaimableIsFree
<1>2. \A j \in Jobs : job[j].status = "deleted" => job'[j].status = "deleted"
  <2>1. CASE RecoverStaleTasks(w)
    BY <2>1 DEF RecoverStaleTasks
  <2>2. CASE ApplyJobControls(w)
    BY <2>2 DEF ApplyJobControls
  <2>3. CASE CancelQuietJobs(w)
    BY <2>3 DEF CancelQuietJobs
  <2>4. CASE SettleJob(w)
    BY <2>4 DEF SettleJob, TypeOK
  <2>5. CASE job' = job
    BY <2>5
  <2> QED
    BY <2>1, <2>2, <2>3, <2>4, <2>5, ZenonT(60) DEF LoopStep, WorkerStart, NextRunningJob, ClaimTasks,
       NothingToClaim, GatherReturns, FinaliseIfDone, LoopError, ClaimThenError, Crash
<1>3. \A t \in Tasks : job[JobOf[t]].status = "deleted" => job'[JobOf[t]].status = "deleted"
  BY <1>2, LoaderAssumption
<1>4. CASE RecoverStaleTasks(w) \/ ApplyJobControls(w)
  <2>1. run' = run /\ overtaken \subseteq overtaken'
    BY <1>4 DEF RecoverStaleTasks, ApplyJobControls, LoopFrame, Overtake
  <2>2. ASSUME NEW v \in Workers, NEW t \in Tasks, Writing(v, t), t \notin overtaken'
        PROVE  task'[t] = task[t]
    <3>1. TaskExists(t) => Engaged(t) \/ task[t].status = "completed"
      BY <2>1, <2>2, HeldRow DEF ClaimInv, Claimed1
    <3>2. CASE RecoverStaleTasks(w)
      BY <2>2, <3>2 DEF RecoverStaleTasks, Overtake
    <3>3. CASE ApplyJobControls(w)
      BY <3>1, <3>3 DEF ApplyJobControls, Engaged, TaskExists
    <3> QED
      BY <1>4, <3>2, <3>3
  <2> QED
    BY <1>3, <2>1, <2>2, ClaimFrame DEF ClaimInv, Claimed1, TaskExists
<1>5. ASSUME run' = run, task' = task, overtaken' = overtaken
      PROVE  ClaimInv'
  BY <1>3, <1>5, ClaimFrame DEF ClaimInv, Claimed1, TaskExists
<1>6. CASE ClaimTasks(w)
  <2> DEFINE j == wk[w].job
  <2>1. /\ ClaimRows(w, Claimed(j)) /\ overtaken' = overtaken
        /\ \A v \in Workers, t \in Tasks :
             run'[v][t] = IF v = w /\ t \in Claimed(j)
                          THEN [pc |-> "begin", complete |-> task[t].status = "staged",
                                token |-> task[t].token, rows |-> task[t].rows,
                                symbols |-> task[t].symbols]
                          ELSE run[v][t]
    BY <1>6 DEF ClaimTasks, TypeOK, LoopFrame
  <2>2. Claimed(j) \subseteq Claimable(j)
    BY DEF Claimed
  <2>3. ASSUME NEW v \in Workers, NEW t \in Tasks, t \notin Claimed(j)
        PROVE  Claimed1(v, t)'
    <3>1. task'[t] = task[t] /\ \A u \in Workers : run'[u][t] = run[u][t]
      BY <2>1, <2>3 DEF ClaimRows
    <3> QED
      BY <1>3, <2>1, <3>1 DEF ClaimInv, Claimed1, RowHeld, Working, Writing, Closing, Live, Holds, Engaged, TaskExists
  <2>4. ASSUME NEW v \in Workers, NEW t \in Tasks, t \in Claimed(j)
        PROVE  Claimed1(v, t)'
    <3>1. /\ TaskExists(t)
          /\ t \notin overtaken => \A u \in Workers : ~Writing(u, t)
      BY <1>1, <2>2, <2>4
    <3>2. /\ task'[t].status = "running" /\ task'[t].claimedBy = w /\ task'[t].fresh
      <4>1. task[t] \in TaskRow
        BY DEF TypeOK
      <4>2. task'[t] = [task[t] EXCEPT !.status = "running", !.claimedBy = w, !.fresh = TRUE,
                          !.attempts = IF @ < MaxRetries THEN @ + 1 ELSE @]
        BY <2>1, <2>4 DEF ClaimRows
      <4> QED
        BY <4>1, <4>2 DEF TaskRow
    <3>3. ASSUME NEW u \in Workers, t \notin overtaken, Writing(u, t)'
          PROVE  u = w
      <4>1. u # w => run'[u][t] = run[u][t]
        BY <2>1
      <4> QED
        BY <3>1, <3>3, <4>1 DEF Writing, Live
    <3>4. run'[w][t].pc = "begin"
      <4> DEFINE staged == task[t].status = "staged"
      <4> HIDE DEF staged
      <4>1. run'[w][t] = [pc |-> "begin", complete |-> staged, token |-> task[t].token,
                          rows |-> task[t].rows, symbols |-> task[t].symbols]
        BY <2>1, <2>4 DEF staged
      <4> QED
        BY <4>1
    <3>5. t \notin overtaken => (Writing(v, t)' \/ Closing(v, t)' \/ Working(v, t)' => v = w)
      <4>1. Working(v, t)' => Writing(v, t)'
        BY DEF Working
      <4>2. Closing(v, t)' => Writing(v, t)'
        <5>1. \A pc \in ClosingPc : pc # "idle" /\ pc \notin LeavingPc
          BY DEF ClosingPc, LeavingPc
        <5> QED
          BY <5>1 DEF Closing, Writing, Live
      <4> QED
        BY <3>3, <4>1, <4>2
    <3>6. ~Closing(w, t)'
      BY <3>4 DEF Closing, ClosingPc
    <3>7. TaskExists(t)' /\ Holds(w, t)'
      BY <3>2 DEF Holds, Engaged, TaskExists
    <3> QED
      BY <2>1, <3>3, <3>5, <3>6, <3>7 DEF Claimed1, RowHeld
  <2> QED
    BY <2>3, <2>4 DEF ClaimInv
<1>7. CASE ClaimThenError(w)
  <2>1. run' = run /\ ClaimRows(w, Claimed(wk[w].job)) /\ overtaken' = overtaken
    BY <1>7 DEF ClaimThenError, LoopFrame
  <2>2. ASSUME NEW v \in Workers, NEW t \in Tasks, Writing(v, t), t \notin overtaken
        PROVE  task'[t] = task[t]
    <3>1. t \notin Claimed(wk[w].job)
      BY <1>1, <2>2 DEF Claimed
    <3> QED
      BY <2>1, <3>1 DEF ClaimRows
  <2> QED
    BY <1>3, <2>1, <2>2, ClaimFrame DEF ClaimInv, Claimed1, TaskExists
<1>8. CASE Crash(w)
  <2>1. \A v \in Workers, t \in Tasks : run'[v][t] = IF v = w THEN Idle ELSE run[v][t]
    BY <1>8, ZenonT(60) DEF Crash, TypeOK
  <2>2. job' = job /\ task' = task /\ overtaken' = overtaken
    BY <1>8, ZenonT(60) DEF Crash, LoopFrame
  <2>3. \A v \in Workers, t \in Tasks : /\ Writing(v, t)' => Writing(v, t)
                                        /\ Working(v, t)' => Working(v, t)
                                        /\ Closing(v, t)' => Closing(v, t)
    BY <2>1 DEF Writing, Working, Closing, Live, Idle, ClosingPc
  <2> QED
    BY <2>2, <2>3, SMTT(30) DEF ClaimInv, Claimed1, RowHeld, Holds, Engaged, TaskExists
<1> QED
  BY <1>4, <1>5, <1>6, <1>7, <1>8 DEF LoopStep, WorkerStart, CancelQuietJobs, NextRunningJob,
     NothingToClaim, GatherReturns, FinaliseIfDone, SettleJob, LoopError, LoopFrame

(* A step of process_task keeps the claims, its own included.              *)
LEMMA ClaimRunner ==
  ASSUME TypeOK, ClaimInv, NEW w \in Workers, NEW t \in Tasks,
         RunStep(w, t) \/ RunError(w, t) \/ RunEscapes(w, t)
  PROVE  ClaimInv'
<1>1. ASSUME NEW v \in Workers, NEW u \in Tasks, u # t
      PROVE  Claimed1(v, u)'
  <2>1. /\ task'[u] = task[u] /\ job' = job /\ overtaken' = overtaken
        /\ \A x \in Workers : run'[x][u] = run[x][u]
    BY <1>1, RunnerStep
  <2> QED
    BY <2>1 DEF ClaimInv, Claimed1, RowHeld, Working, Writing, Closing, Live, Holds, Engaged,
       TaskExists
<1>2. ASSUME NEW v \in Workers, t \notin overtaken
      PROVE  Claimed1(v, t)'
  <2>1. /\ job' = job
        /\ \A x \in Workers : x # w => run'[x][t] = run[x][t]
        /\ TaskExists(t)' <=> TaskExists(t)
        /\ TaskExists(t) /\ RowHeld(w, t) => RowHeld(w, t)'
        /\ Writing(w, t)' => Writing(w, t)
        /\ ~Writing(w, t) => task' = task
    BY RunnerStep
  <2>2. Claimed1(w, t) /\ Claimed1(v, t)
    BY DEF ClaimInv
  <2>3. \A x \in Workers : x # w => /\ Writing(x, t)' <=> Writing(x, t)
                                    /\ Working(x, t)' <=> Working(x, t)
                                    /\ Closing(x, t)' <=> Closing(x, t)
    BY <2>1 DEF Writing, Working, Closing, Live
  <2>4. CASE v = w
    BY <1>2, <2>1, <2>2, <2>3, <2>4 DEF Claimed1
  <2>5. CASE v # w
    <3>1. Writing(v, t) => ~Writing(w, t)
      BY <1>2, <2>2, <2>5 DEF Claimed1
    <3>2. Working(v, t) \/ Closing(v, t) => Writing(v, t)
      BY DEF Writing, Working, Closing, Live, ClosingPc, LeavingPc
    <3>3. TaskExists(t)' => RowHeld(v, t)'
      BY <1>2, <2>1, <2>2, <2>3, <2>5, <3>1, <3>2
         DEF Claimed1, RowHeld, Holds, Engaged, TaskExists
    <3> QED
      BY <1>2, <2>1, <2>2, <2>3, <2>5, <3>1, <3>3 DEF Claimed1
  <2> QED
    BY <2>4, <2>5
<1>3. overtaken' = overtaken
  BY RunnerStep
<1> QED
  BY <1>1, <1>2, <1>3 DEF ClaimInv, Claimed1

(* An expiring lease takes no row away: recovery will.                     *)
LEMMA ClaimLease ==
  ASSUME TypeOK, ClaimInv,
         \/ \E t \in Tasks : LeaseExpires(t) \/ LeaseOutlived(t) \/ TokenExpires(t)
         \/ \E j \in Jobs : PlannerExpires(j)
  PROVE  ClaimInv'
<1>1. run' = run /\ overtaken' = overtaken
  BY DEF LeaseExpires, LeaseOutlived, TokenExpires, PlannerExpires, LoopFrame
<1>2. \A t \in Tasks : /\ task'[t].status = task[t].status
                       /\ task'[t].claimedBy = task[t].claimedBy
  <2>1. ASSUME NEW u \in Tasks, LeaseExpires(u) \/ LeaseOutlived(u)
        PROVE  \A t \in Tasks : /\ task'[t].status = task[t].status
                                /\ task'[t].claimedBy = task[t].claimedBy
    BY <2>1, SMTT(60) DEF LeaseExpires, LeaseOutlived, TypeOK, TaskRow
  <2>2. ASSUME NEW u \in Tasks, TokenExpires(u)
        PROVE  task' = task
    BY <2>2 DEF TokenExpires
  <2>3. ASSUME NEW j \in Jobs, PlannerExpires(j)
        PROVE  task' = task
    BY <2>3 DEF PlannerExpires
  <2> QED
    BY <2>1, <2>2, <2>3
<1>3. \A j \in Jobs : job'[j].status = job[j].status
  BY DEF LeaseExpires, LeaseOutlived, TokenExpires, PlannerExpires, TypeOK, JobRow
<1>4. \A t \in Tasks : job'[JobOf[t]].status = job[JobOf[t]].status
  BY <1>3, LoaderAssumption
<1> QED
  BY <1>1, <1>2, <1>4, ClaimFrame DEF ClaimInv, Claimed1, TaskExists

(* The claim invariant holds throughout.                                   *)
LEMMA ClaimInvariant == Spec => []ClaimInv
<1>1. Init => ClaimInv
  BY DEF Init, ClaimInv, Claimed1, RowHeld, Working, Writing, Closing, Live, Idle, ClosingPc
<1>2. TypeOK /\ ClaimInv /\ [Next]_vars => ClaimInv'
  <2> SUFFICES ASSUME TypeOK, ClaimInv, [Next]_vars PROVE ClaimInv'
    OBVIOUS
  <2>1. CASE UNCHANGED vars
    BY <2>1 DEF ClaimInv, Claimed1, RowHeld, Working, Writing, Closing, Live, Holds, Engaged,
       TaskExists
  <2>2. CASE Environment
    BY <2>2, ClaimApi, ClaimLease DEF Environment
  <2>3. CASE Disturbance
    BY <2>3, ClaimPlanner, ClaimLoop, ClaimRunner, ClaimLease DEF Disturbance
  <2> QED
    BY <2>1, <2>2, <2>3, ClaimPlanner, ClaimLoop, ClaimRunner DEF Next
<1> QED
  BY TypeCorrect, <1>1, <1>2, PTL DEF Spec

(* Unless its lease was released under a coroutine, no two coroutines ever *)
(* meet on a task that may both write its row, and the row names the       *)
(* worker of the one that works on it, although no UPDATE of process_task  *)
(* checks it.                                                              *)
THEOREM ClaimIsExclusive == Spec => []ExclusiveClaim
<1>1. ClaimInv => ExclusiveClaim
  BY DEF ClaimInv, Claimed1, RowHeld, Holds, ExclusiveClaim
<1> QED
  BY ClaimInvariant, <1>1, PTL

-----------------------------------------------------------------------------
(* total_tasks > 0 exactly where tasks may exist; without it, resume and   *)
(* retry would queue a job that has a plan.                                *)
PlanInv ==
  \A j \in Jobs :
    /\ ~job[j].planned => \A t \in TasksOf(j) : ~TaskExists(t)
    /\ job[j].status \in {"absent", "queued", "planning"} => ~job[j].planned

(* A step that neither plans a job nor creates a row nor queues a planned  *)
(* job keeps the invariant.                                                *)
LEMMA PlanFrame ==
  ASSUME PlanInv,
         \A t \in Tasks : TaskExists(t)' => TaskExists(t),
         \A j \in Jobs :
           \/ job'[j] = job[j]
           \/ /\ job'[j].planned = job[j].planned
              /\ job'[j].status \in {"absent", "queued", "planning"} => ~job[j].planned
           \/ /\ job'[j].status = "deleted"
              /\ \A t \in TasksOf(j) : ~TaskExists(t)'
  PROVE  PlanInv'
BY DEF PlanInv, TasksOf

(* Operator commands put no planned job back into the queue.               *)
LEMMA PlanApi ==
  ASSUME TypeOK, PlanInv, NEW j \in Jobs, JobAction(j)
  PROVE  PlanInv'
<1>1. ASSUME NEW s, SetStatus(j, s), s \in {"absent", "queued", "planning"} => ~job[j].planned
      PROVE  \A i \in Jobs :
               \/ job'[i] = job[i]
               \/ /\ job'[i].planned = job[i].planned
                  /\ job'[i].status \in {"absent", "queued", "planning"} => ~job[i].planned
  BY <1>1 DEF SetStatus, TypeOK, JobRow
<1>2. CASE CreateJob(j) \/ PauseJob(j) \/ ResumeJob(j) \/ CancelJob(j)
  <2>1. task' = task
    BY <1>2 DEF CreateJob, PauseJob, ResumeJob, CancelJob
  <2>2. \E s : SetStatus(j, s) /\ (s \in {"absent", "queued", "planning"} => ~job[j].planned)
    BY <1>2 DEF CreateJob, PauseJob, ResumeJob, RestartStatus, CancelJob, PlanInv
  <2> QED
    BY <1>1, <2>1, <2>2, PlanFrame DEF TaskExists
<1>3. CASE RecoverJob(j)
  <2>1. \A t \in Tasks : TaskExists(t)' => TaskExists(t)
    BY <1>3 DEF RecoverJob, TaskExists, Stale, Engaged
  <2> QED
    BY <1>1, <1>3, <2>1, PlanFrame DEF RecoverJob
<1>4. CASE RetryJob(j)
  <2>1. \A t \in Tasks : TaskExists(t)' => TaskExists(t)
    BY <1>4 DEF RetryJob, TaskExists
  <2>2. \E s : SetStatus(j, s) /\ (s \in {"absent", "queued", "planning"} => ~job[j].planned)
    <3> DEFINE s == IF job[j].planned THEN "running" ELSE "queued"
    <3>1. SetStatus(j, s)
      BY <1>4 DEF RetryJob, RestartStatus
    <3>2. s \in {"absent", "queued", "planning"} => ~job[j].planned
      OBVIOUS
    <3> HIDE DEF s
    <3> QED
      BY <3>1, <3>2
  <2> QED
    BY <1>1, <2>1, <2>2, PlanFrame
<1>5. CASE DeleteJob(j)
  <2>1. \A t \in Tasks : TaskExists(t)' => TaskExists(t) /\ JobOf[t] # j
    BY <1>5 DEF DeleteJob, TaskExists, AbsentTask
  <2>2. \A i \in Jobs : job'[i] = job[i] \/ (i = j /\ job'[i].status = "deleted")
    BY <1>5 DEF DeleteJob, TypeOK, AbsentJob
  <2> QED
    BY <2>1, <2>2, PlanFrame DEF TasksOf
<1> QED
  BY <1>2, <1>3, <1>4, <1>5 DEF JobAction

(* Setting a job's status leaves its planned flag.                         *)
LEMMA StatusOnly ==
  ASSUME TypeOK, NEW j \in Jobs, NEW s
  PROVE  /\ [job[j] EXCEPT !.status = s].planned = job[j].planned
         /\ [job[j] EXCEPT !.status = s].status = s
<1>1. job[j] \in JobRow
  BY DEF TypeOK
<1> QED
  BY <1>1 DEF JobRow

(* Planners insert tasks only in the transaction that marks the job        *)
(* planned.                                                                *)
LEMMA PlanPlanner ==
  ASSUME TypeOK, PlanInv, NEW w \in Workers, PlanStep(w) \/ PlanFail(w)
  PROVE  PlanInv'
<1>1. CASE ClaimJobForPlanning(w)
  <2>1. \A j \in Jobs : \/ job'[j] = job[j]
                        \/ /\ job[j].status = "queued"
                           /\ job'[j].planned = job[j].planned
    <3>1. \/ job' = job
          \/ \E j \in Jobs : /\ job[j].status = "queued"
                            /\ job' = [job EXCEPT ![j].status = "planning", ![j].fresh = TRUE]
      BY <1>1 DEF ClaimJobForPlanning
    <3>2. ASSUME NEW j \in Jobs, job[j].status = "queued",
                 job' = [job EXCEPT ![j].status = "planning", ![j].fresh = TRUE]
          PROVE  \A i \in Jobs : \/ job'[i] = job[i]
                                 \/ /\ job[i].status = "queued"
                                    /\ job'[i].planned = job[i].planned
      BY <3>2 DEF TypeOK, JobRow
    <3> QED
      BY <3>1, <3>2
  <2>2. task' = task
    BY <1>1 DEF ClaimJobForPlanning
  <2> QED
    BY <2>1, <2>2, PlanFrame DEF PlanInv, TaskExists
<1>2. CASE PlanCommit(w)
  <2> DEFINE j == wk[w].job
  <2>1. CASE job[j].status = "cancel_requested"
    <3>1. task' = task /\ job' = [job EXCEPT ![j].status = "cancelled"]
      BY <1>2, <2>1 DEF PlanCommit
    <3>2. \A i \in Jobs : \/ job'[i] = job[i]
                          \/ /\ job'[i].planned = job[i].planned
                             /\ job'[i].status = "cancelled"
      BY <3>1 DEF TypeOK, JobRow
    <3> QED
      BY <3>1, <3>2, PlanFrame DEF TaskExists
  <2>2. CASE job[j].status # "cancel_requested"
    <3>1. /\ \A i \in Jobs \ {j} : job'[i] = job[i]
          /\ j \in Jobs => job'[j].planned /\ job'[j].status \in {"paused", "running"}
      <4> DEFINE row == [status |-> IF job[j].status = "pause_requested"
                                    THEN "paused" ELSE "running",
                         planned |-> TRUE, fresh |-> TRUE]
      <4>1. job' = [job EXCEPT ![j] = row]
        BY <1>2, <2>2 DEF PlanCommit
      <4>2. row.planned /\ row.status \in {"paused", "running"}
        OBVIOUS
      <4> HIDE DEF row, j
      <4> QED
        BY <4>1, <4>2 DEF TypeOK
    <3>2. ASSUME NEW t \in Tasks, JobOf[t] # j
          PROVE  task'[t] = task[t]
      <4> DEFINE planned(u) == [AbsentTask EXCEPT !.status = "pending", !.symbols = BatchOf[u]]
      <4>1. task' = [u \in Tasks |-> IF JobOf[u] = j /\ ~TaskExists(u)
                                     THEN planned(u) ELSE task[u]]
        BY <1>2, <2>2 DEF PlanCommit
      <4> HIDE DEF planned, j
      <4> QED
        BY <3>2, <4>1, SMTT(60)
    <3> QED
      BY <3>1, <3>2 DEF PlanInv, TasksOf, TaskExists
  <2> QED
    BY <2>1, <2>2
<1>3. CASE PlanAnnounced(w) \/ PlanOrphaned(w)
  BY <1>3, PlanFrame DEF PlanAnnounced, PlanOrphaned, TaskExists
<1>4. CASE PlanFail(w)
  <2>1. task' = task
    BY <1>4 DEF PlanFail
  <2>2. \A j \in Jobs : \/ job'[j] = job[j]
                        \/ job'[j].planned = job[j].planned /\ job'[j].status = "failed"
    <3>1. \A j \in Jobs : \/ job'[j] = job[j]
                          \/ job'[j] = [job[j] EXCEPT !.status = "failed"]
      BY <1>4 DEF PlanFail, TypeOK
    <3>2. ASSUME NEW j \in Jobs
          PROVE  /\ [job[j] EXCEPT !.status = "failed"].planned = job[j].planned
                 /\ [job[j] EXCEPT !.status = "failed"].status = "failed"
      BY StatusOnly
    <3> QED
      BY <3>1, <3>2
  <2> QED
    BY <2>1, <2>2, PlanFrame DEF TaskExists
<1> QED
  BY <1>1, <1>2, <1>3, <1>4 DEF PlanStep

(* The worker's loop requeues only jobs that have no task row.             *)
LEMMA PlanLoop ==
  ASSUME TypeOK, PlanInv, NEW w \in Workers,
         LoopStep(w) \/ LoopError(w) \/ ClaimThenError(w) \/ Crash(w)
  PROVE  PlanInv'
<1>1. ASSUME \A t \in Tasks : TaskExists(t)' => TaskExists(t), job' = job
      PROVE  PlanInv'
  BY <1>1, PlanFrame
<1>2. CASE RecoverStaleTasks(w)
  <2>1. \A t \in Tasks : TaskExists(t)' => TaskExists(t)
    BY <1>2 DEF RecoverStaleTasks, TaskExists, Stale, Engaged
  <2>2. \A j \in Jobs : \/ job'[j] = job[j]
                        \/ /\ job[j].status = "planning"
                           /\ job'[j].planned = job[j].planned
    BY <1>2 DEF RecoverStaleTasks, TypeOK, JobRow
  <2> QED
    BY <2>1, <2>2, PlanFrame DEF PlanInv
<1>3. CASE ApplyJobControls(w)
  <2>1. \A t \in Tasks : TaskExists(t)' => TaskExists(t)
    BY <1>3 DEF ApplyJobControls, TaskExists
  <2>2. \A j \in Jobs : \/ job'[j] = job[j]
                        \/ job'[j].planned = job[j].planned /\ job'[j].status = "paused"
    <3>1. \A j \in Jobs : \/ job'[j] = job[j]
                          \/ job'[j] = [job[j] EXCEPT !.status = "paused"]
      BY <1>3 DEF ApplyJobControls
    <3>2. ASSUME NEW j \in Jobs
          PROVE  /\ [job[j] EXCEPT !.status = "paused"].planned = job[j].planned
                 /\ [job[j] EXCEPT !.status = "paused"].status = "paused"
      BY StatusOnly
    <3> QED
      BY <3>1, <3>2
  <2> QED
    BY <2>1, <2>2, PlanFrame, SMTT(60)
<1>4. CASE CancelQuietJobs(w)
  <2>1. \A j \in Jobs : \/ job'[j] = job[j]
                        \/ job'[j].planned = job[j].planned /\ job'[j].status = "cancelled"
    <3>1. \A j \in Jobs : \/ job'[j] = job[j]
                          \/ job'[j] = [job[j] EXCEPT !.status = "cancelled"]
      BY <1>4 DEF CancelQuietJobs
    <3>2. ASSUME NEW j \in Jobs
          PROVE  /\ [job[j] EXCEPT !.status = "cancelled"].planned = job[j].planned
                 /\ [job[j] EXCEPT !.status = "cancelled"].status = "cancelled"
      BY StatusOnly
    <3> QED
      BY <3>1, <3>2
  <2> QED
    BY <1>4, <2>1, PlanFrame DEF CancelQuietJobs, TaskExists
<1>5. CASE SettleJob(w)
  <2>1. \A j \in Jobs : \/ job'[j] = job[j]
                        \/ /\ job'[j].planned = job[j].planned
                           /\ job'[j].status \in {"running", "completed", "failed"}
    BY <1>5 DEF SettleJob, TypeOK, JobRow, LoopRow
  <2> QED
    BY <1>5, <2>1, PlanFrame DEF SettleJob, TaskExists
<1>6. ASSUME NEW ts, ts \subseteq Claimable(wk[w].job), ClaimRows(w, ts)
      PROVE  \A t \in Tasks : TaskExists(t)' => TaskExists(t)
  BY <1>6 DEF ClaimRows, Claimable, TaskExists
<1>7. CASE ClaimTasks(w) \/ ClaimThenError(w)
  <2>1. ClaimRows(w, Claimed(wk[w].job)) /\ job' = job
    BY <1>7 DEF ClaimTasks, ClaimThenError
  <2> QED
    BY <1>1, <1>6, <2>1 DEF Claimed
<1> QED
  BY <1>1, <1>2, <1>3, <1>4, <1>5, <1>7 DEF LoopStep, WorkerStart, NextRunningJob,
     NothingToClaim, GatherReturns, FinaliseIfDone, LoopError, Crash, TaskExists

(* Coroutines create no task row.                                          *)
LEMMA PlanRunner ==
  ASSUME TypeOK, PlanInv, NEW w \in Workers, NEW t \in Tasks,
         RunStep(w, t) \/ RunError(w, t) \/ RunEscapes(w, t)
  PROVE  PlanInv'
<1>1. job' = job /\ \A u \in Tasks : TaskExists(u)' <=> TaskExists(u)
  BY RunnerStep DEF TaskExists
<1> QED
  BY <1>1, PlanFrame

(* Expiring leases create no task row.                                     *)
LEMMA PlanLease ==
  ASSUME TypeOK, PlanInv,
         \/ \E t \in Tasks : LeaseExpires(t) \/ LeaseOutlived(t) \/ TokenExpires(t)
         \/ \E j \in Jobs : PlannerExpires(j)
  PROVE  PlanInv'
<1>1. \A t \in Tasks : task'[t].status = task[t].status
  <2>1. ASSUME NEW u \in Tasks, task' = [task EXCEPT ![u].fresh = FALSE]
        PROVE  \A t \in Tasks : task'[t].status = task[t].status
    BY <2>1 DEF TypeOK, TaskRow
  <2> QED
    BY <2>1 DEF LeaseExpires, LeaseOutlived, TokenExpires, PlannerExpires
<1>2. \A j \in Jobs : job'[j].status = job[j].status /\ job'[j].planned = job[j].planned
  BY DEF LeaseExpires, LeaseOutlived, TokenExpires, PlannerExpires, TypeOK, JobRow
<1> QED
  BY <1>1, <1>2 DEF PlanInv, TaskExists, TasksOf

(* The planning invariant holds throughout, whoever plans.                 *)
LEMMA PlanInvariant == Spec => []PlanInv
<1>1. Init => PlanInv
  BY DEF Init, PlanInv, AbsentJob, AbsentTask, TaskExists, TasksOf
<1>2. TypeOK /\ PlanInv /\ [Next]_vars => PlanInv'
  <2> SUFFICES ASSUME TypeOK, PlanInv, [Next]_vars PROVE PlanInv'
    OBVIOUS
  <2>1. CASE UNCHANGED vars
    BY <2>1 DEF PlanInv, TaskExists, TasksOf
  <2>2. CASE Environment
    BY <2>2, PlanApi, PlanLease DEF Environment
  <2>3. CASE Disturbance
    BY <2>3, PlanPlanner, PlanLoop, PlanRunner, PlanLease DEF Disturbance
  <2> QED
    BY <2>1, <2>2, <2>3, PlanPlanner, PlanLoop, PlanRunner DEF Next
<1> QED
  BY TypeCorrect, <1>1, <1>2, PTL DEF Spec

(* Whatever planners race and fail, a job in the queue or in planning has  *)
(* no task row: a plan is committed whole or not at all, and a job with    *)
(* tasks is never planned again.                                           *)
THEOREM QueuedHasNoPlan == Spec => []QueuedHasNoTasks
<1>1. PlanInv => QueuedHasNoTasks
  BY DEF PlanInv, QueuedHasNoTasks
<1> QED
  BY PlanInvariant, <1>1, PTL

-----------------------------------------------------------------------------
(* CompletedIsLoaded needs to know, for every row and every coroutine at   *)
(* each of its steps, which pages the staging file has.                    *)

(* Every worker sees the same staging directory.                           *)
SharedDisk == \A v, w \in Workers : DiskOf[v] = DiskOf[w]

(* The bars of the first n pages of a task's window.                       *)
Got(t, symbols, n) == (symbols \X {WindowOf[t]} \X (1..n)) \ Dropped

(* A staging file that has them, unless a torn member makes it unreadable. *)
Holding(f, t, symbols, n) ==
  f.exists /\ (f.torn \/ Got(t, symbols, n) \subseteq f.bars)

(* rows says whether there is anything to load.                            *)
Told(t, symbols, n, rows) == rows \/ Got(t, symbols, n) = {}

Loaded(t, symbols, B)  == Got(t, symbols, Pages) \subseteq B
Covered(t, symbols, F) == GenerateFeatures => Got(t, symbols, Pages) \subseteq F

(* What a row k promises of the file f of its task: a live page token that *)
(* the pages before it are on disk, staged or loading that all of them are.*)
RowData(f, t, k, dead) ==
  /\ k.token # 0 =>
       /\ k.symbols \intersect Rejected = {}
       /\ dead \/ Holding(f, t, k.symbols, k.token - 1)
       /\ Told(t, k.symbols, k.token - 1, k.rows)
  /\ k.status \in {"staged", "loading"} =>
       k.token = 0 /\ Holding(f, t, k.symbols, Pages) /\ Told(t, k.symbols, Pages, k.rows)

(* The pages a coroutine at its checkpoint has appended.                   *)
Appended(r) == IF r.token = 0 THEN Pages ELSE r.token - 1

(* What the locals r of the coroutine add to it, at each of its steps;     *)
(* nothing once it has completed the row.                                  *)
RunData(f, t, k, r, B, F) ==
  /\ r.pc \in {"begin", "fetch", "quarantine", "quarantined", "expired"} => k.status = "running"
  /\ r.pc # "quarantine" => r.symbols = k.symbols
  /\ r.pc = "begin" => r.token = k.token /\ r.rows = k.rows
  /\ r.pc = "fetch" /\ r.token # 0 => r.token = k.token /\ r.rows = k.rows
  /\ r.pc = "checkpoint" =>
       /\ r.symbols \intersect Rejected = {}
       /\ Holding(f, t, r.symbols, Appended(r))
       /\ Told(t, r.symbols, Appended(r), r.rows)
  /\ r.pc \in {"quarantine", "quarantined"} => r.token = 0
  /\ r.pc = "quarantined" => k.token = 0
  /\ r.pc = "empty" => r.symbols = {}
  /\ r.pc \in {"gate", "toload", "pause_staged", "load"} \/ (r.pc = "begin" /\ r.complete) =>
       /\ k.token = 0 /\ r.rows = k.rows
       /\ Holding(f, t, r.symbols, Pages) /\ Told(t, r.symbols, Pages, r.rows)
  /\ r.pc \in {"features", "done"} => Loaded(t, r.symbols, B)
  /\ r.pc = "done" => Covered(t, r.symbols, F)

TaskData(t) ==
  TaskExists(t) =>
    /\ task[t].status = "completed" =>
         Loaded(t, task[t].symbols, bars) /\ Covered(t, task[t].symbols, featured)
    /\ \A w \in Workers :
         /\ RowData(Staging(w, t), t, task[t], tokenDead[t])
         /\ Working(w, t) => RunData(Staging(w, t), t, task[t], run[w][t], bars, featured)
DataInv == \A t \in Tasks \ overtaken : TaskData(t)

(* No page holds no bar, every page adds its own, and an empty batch has   *)
(* none.                                                                   *)
LEMMA GotFacts ==
  ASSUME NEW t \in Tasks, NEW S
  PROVE  /\ Got(t, S, 0) = {}
         /\ \A n \in 1..Pages : Got(t, S, n) = Got(t, S, n - 1) \union PageBars(t, S, n)
         /\ \A n : Got(t, {}, n) = {}
<1>1. Got(t, S, 0) = {}
  BY DEF Got
<1>2. ASSUME NEW n \in 1..Pages
      PROVE Got(t, S, n) = Got(t, S, n - 1) \union PageBars(t, S, n)
  <2>1. 1..n = (1..(n-1)) \union {n}
    BY LoaderAssumption
  <2>2. S \X {WindowOf[t]} \X (1..n) =
          (S \X {WindowOf[t]} \X (1..(n-1))) \union (S \X {WindowOf[t]} \X {n})
    BY <2>1
  <2> QED
    BY <2>2 DEF Got, PageBars
<1>3. \A n : Got(t, {}, n) = {}
  BY DEF Got
<1> QED
  BY <1>1, <1>2, <1>3

FileGrows(f, g) == (f.exists => g.exists) /\ (f.torn => g.torn) /\ f.bars \subseteq g.bars

(* Nothing that is promised of a file, of rd_bars or of the features is    *)
(* lost when they grow, or when a page token dies.                         *)
LEMMA DataGrows ==
  ASSUME NEW t, NEW k, NEW r, NEW f, NEW g, NEW dead, NEW dead2,
         NEW B, NEW C, NEW F, NEW G,
         FileGrows(f, g), B \subseteq C, F \subseteq G, dead => dead2
  PROVE  /\ RowData(f, t, k, dead) => RowData(g, t, k, dead2)
         /\ RunData(f, t, k, r, B, F) => RunData(g, t, k, r, C, G)
         /\ \A S, n : Holding(f, t, S, n) => Holding(g, t, S, n)
         /\ \A S : Loaded(t, S, B) => Loaded(t, S, C)
         /\ \A S : Covered(t, S, F) => Covered(t, S, G)
<1>1. \A S, n : Holding(f, t, S, n) => Holding(g, t, S, n)
  BY DEF Holding, FileGrows
<1>2. \A S : Loaded(t, S, B) => Loaded(t, S, C)
  BY DEF Loaded
<1>3. \A S : Covered(t, S, F) => Covered(t, S, G)
  BY DEF Covered
<1>4. RowData(f, t, k, dead) => RowData(g, t, k, dead2)
  BY <1>1 DEF RowData
<1>5. RunData(f, t, k, r, B, F) => RunData(g, t, k, r, C, G)
  BY <1>1, <1>2, <1>3 DEF RunData
<1> QED
  BY <1>1, <1>2, <1>3, <1>4, <1>5

(* A row may be relabelled by anyone while no coroutine works on it.       *)
Relabel(k, l) ==
  /\ l.token = k.token /\ l.rows = k.rows /\ l.symbols = k.symbols
  /\ l.status \in {"staged", "loading"} => k.status \in {"staged", "loading"}
  /\ l.status = "completed" => k.status = "completed"

(* A step that at most relabels the row of t, stops its coroutines and     *)
(* lets its file grow keeps what is promised of t.                         *)
LEMMA DataFrame ==
  ASSUME NEW t \in Tasks, TaskData(t),
         \A w \in Workers : FileGrows(Staging(w, t), Staging(w, t)'),
         bars \subseteq bars', featured \subseteq featured',
         tokenDead[t] => tokenDead'[t],
         TaskExists(t)' => /\ TaskExists(t)
                           /\ Relabel(task[t], task'[t]),
         \A w \in Workers : Working(w, t)' =>
            run'[w][t] = run[w][t] /\ (TaskExists(t)' => task'[t].status = task[t].status)
  PROVE  TaskData(t)'
<1> DEFINE k == task[t]
           l == task'[t]
<1> SUFFICES ASSUME TaskExists(t)'
             PROVE  /\ l.status = "completed" =>
                         Loaded(t, l.symbols, bars') /\ Covered(t, l.symbols, featured')
                    /\ \A w \in Workers :
                         /\ RowData(Staging(w, t)', t, l, tokenDead'[t])
                         /\ Working(w, t)' => RunData(Staging(w, t)', t, l, run'[w][t], bars', featured')
  BY DEF TaskData
<1>1. l.status = "completed" =>
        Loaded(t, l.symbols, bars') /\ Covered(t, l.symbols, featured')
  BY DEF TaskData, Relabel, Loaded, Covered
<1>2. ASSUME NEW w \in Workers
      PROVE  /\ RowData(Staging(w, t)', t, l, tokenDead'[t])
             /\ Working(w, t)' => RunData(Staging(w, t)', t, l, run'[w][t], bars', featured')
  <2>1. RowData(Staging(w, t)', t, k, tokenDead'[t])
    BY DataGrows DEF TaskData
  <2>2. RowData(Staging(w, t)', t, l, tokenDead'[t])
    BY <2>1 DEF RowData, Relabel
  <2>3. Working(w, t)' => RunData(Staging(w, t)', t, k, run'[w][t], bars', featured')
    BY DataGrows DEF TaskData, Working, Writing, Closing, Live
  <2>4. Working(w, t)' => RunData(Staging(w, t)', t, l, run'[w][t], bars', featured')
    BY <2>3 DEF RunData, Relabel
  <2> QED
    BY <2>2, <2>4
<1> QED
  BY <1>1, <1>2

-----------------------------------------------------------------------------
(* A step of anyone but the coroutines: it moves no data and takes no row  *)
(* a coroutine works on.                                                   *)
LEMMA DataOutside ==
  ASSUME DataInv, run' = run, overtaken \subseteq overtaken',
         UNCHANGED <<bars, featured, file>>,
         \A t \in Tasks : tokenDead[t] => tokenDead'[t],
         \A t \in Tasks \ overtaken' : TaskExists(t)' =>
            \/ task'[t] = task[t]
            \/ /\ TaskExists(t) /\ Relabel(task[t], task'[t])
               /\ \A w \in Workers : ~Working(w, t)
  PROVE  DataInv'
<1> SUFFICES ASSUME NEW t \in Tasks \ overtaken' PROVE TaskData(t)'
  BY DEF DataInv
<1>1. \A w \in Workers : FileGrows(Staging(w, t), Staging(w, t)')
  BY DEF FileGrows, Staging
<1>2. \A w \in Workers : Working(w, t)' => Working(w, t) /\ run'[w][t] = run[w][t]
  BY DEF Working, Writing, Closing, Live
<1>3. TaskExists(t)' => TaskExists(t) /\ Relabel(task[t], task'[t])
  BY DEF TaskExists, Relabel
<1>4. \A w \in Workers : Working(w, t)' =>
         run'[w][t] = run[w][t] /\ (TaskExists(t)' => task'[t].status = task[t].status)
  BY <1>2
<1>5. TaskData(t)
  BY DEF DataInv
<1> QED
  BY <1>1, <1>3, <1>4, <1>5, DataFrame

(* Recovery keeps what a row promises.                                     *)
LEMMA DataRecovered ==
  ASSUME TypeOK, NEW t \in Tasks, Stale(t)
  PROVE  TaskExists(t) /\ Relabel(task[t], Recovered(t))
<1>1. TaskExists(t)
  BY DEF Stale, Engaged, TaskExists
<1>2. Relabel(task[t], Recovered(t))
  <2>1. task[t] \in TaskRow
    BY DEF TypeOK
  <2> QED
    BY <2>1 DEF Relabel, Recovered, Stale, Engaged, TaskRow
<1> QED
  BY <1>1, <1>2

(* Operator commands: retry keeps the page token with the file it speaks   *)
(* of.                                                                     *)
LEMMA DataApi ==
  ASSUME TypeOK, ClaimInv, DataInv, NEW j \in Jobs, JobAction(j)
  PROVE  DataInv'
<1>1. run' = run /\ overtaken \subseteq overtaken' /\ UNCHANGED <<bars, featured, file, tokenDead>>
  BY DEF JobAction, CreateJob, PauseJob, ResumeJob, CancelJob, RecoverJob, RetryJob,
     DeleteJob, ApiFrame, HistFrame, Overtake
<1>2. ASSUME NEW t \in Tasks \ overtaken', TaskExists(t)'
      PROVE  \/ task'[t] = task[t]
             \/ /\ TaskExists(t) /\ Relabel(task[t], task'[t])
                /\ \A w \in Workers : ~Working(w, t)
  <2>1. CASE CreateJob(j) \/ PauseJob(j) \/ ResumeJob(j) \/ CancelJob(j)
    BY <2>1 DEF CreateJob, PauseJob, ResumeJob, CancelJob
  <2>2. CASE RecoverJob(j)
    <3>1. task'[t] = IF JobOf[t] = j /\ Stale(t) THEN Recovered(t) ELSE task[t]
      BY <2>2 DEF RecoverJob
    <3>2. JobOf[t] = j /\ Stale(t) => \A w \in Workers : ~Working(w, t)
      BY <1>2, <2>2 DEF RecoverJob, Overtake, TasksOf, Working
    <3> QED
      BY <3>1, <3>2, DataRecovered
  <2>3. CASE RetryJob(j)
    <3>1. \/ task'[t] = task[t]
          \/ /\ task[t].status \in {"failed", "cancelled"}
             /\ task'[t] = [task[t] EXCEPT !.status = "pending", !.attempts = 0,
                                           !.claimedBy = None, !.completedAt = FALSE]
      BY <2>3 DEF RetryJob
    <3>2. task[t] \in TaskRow
      BY DEF TypeOK
    <3>3. CASE /\ task[t].status \in {"failed", "cancelled"}
               /\ task'[t] = [task[t] EXCEPT !.status = "pending", !.attempts = 0,
                                             !.claimedBy = None, !.completedAt = FALSE]
      <4>1. TaskExists(t) /\ Relabel(task[t], task'[t])
        BY <3>2, <3>3 DEF TaskExists, Relabel, TaskRow
      <4>2. \A w \in Workers : ~Working(w, t)
        <5>1. t \notin overtaken /\ task[t].status # "completed" /\ ~Engaged(t)
          BY <1>1, <3>3 DEF Engaged
        <5> QED
          BY <4>1, <5>1 DEF ClaimInv, Claimed1, RowHeld, Holds
      <4> QED
        BY <4>1, <4>2
    <3> QED
      BY <3>1, <3>3
  <2>4. CASE DeleteJob(j)
    BY <1>2, <2>4 DEF DeleteJob, TaskExists, AbsentTask
  <2> QED
    BY <2>1, <2>2, <2>3, <2>4 DEF JobAction
<1> QED
  BY <1>1, <1>2, DataOutside, SMTT(60)

(* Planning: a new row promises nothing of the file it may find.           *)
LEMMA DataPlanner ==
  ASSUME TypeOK, ClaimInv, DataInv, NEW w \in Workers, PlanStep(w) \/ PlanFail(w)
  PROVE  DataInv'
<1>1. run' = run /\ overtaken' = overtaken /\ UNCHANGED <<bars, featured, file, tokenDead>>
  BY DEF PlanStep, ClaimJobForPlanning, PlanCommit, PlanAnnounced, PlanOrphaned, PlanFail,
     PlannerFrame
<1>2. CASE ~PlanCommit(w)
  <2>1. task' = task
    BY <1>2 DEF PlanStep, ClaimJobForPlanning, PlanAnnounced, PlanOrphaned, PlanFail
  <2> QED
    BY <1>1, <2>1, DataOutside
<1>3. CASE PlanCommit(w)
  <2> SUFFICES ASSUME NEW t \in Tasks \ overtaken' PROVE TaskData(t)'
    BY SMTT(60) DEF DataInv
  <2>1. \/ task'[t] = task[t]
        \/ /\ ~TaskExists(t) /\ JobExists(JobOf[t])
           /\ task'[t] = [AbsentTask EXCEPT !.status = "pending", !.symbols = BatchOf[t]]
    BY <1>3 DEF PlanCommit
  <2>2. CASE task'[t] = task[t]
    <3>1. \A v \in Workers : FileGrows(Staging(v, t), Staging(v, t)')
      BY <1>1 DEF FileGrows, Staging
    <3>2. TaskExists(t)' => TaskExists(t) /\ Relabel(task[t], task'[t])
      BY <2>2 DEF TaskExists, Relabel
    <3>3. \A v \in Workers : Working(v, t)' =>
            run'[v][t] = run[v][t] /\ (TaskExists(t)' => task'[t].status = task[t].status)
      BY <1>1, <2>2
    <3> QED
      BY <1>1, <3>1, <3>2, <3>3, DataFrame DEF DataInv
  <2>3. CASE /\ ~TaskExists(t) /\ JobExists(JobOf[t])
             /\ task'[t] = [AbsentTask EXCEPT !.status = "pending", !.symbols = BatchOf[t]]
    <3>1. \A v \in Workers : ~Working(v, t)'
      <4>1. \A v \in Workers : ~Writing(v, t)
        BY <1>1, <2>3 DEF ClaimInv, Claimed1, JobExists, JobStatus
      <4> QED
        BY <1>1, <4>1 DEF Working, Writing, Live
    <3>2. task'[t].status = "pending" /\ task'[t].token = 0
      BY <2>3 DEF AbsentTask
    <3> QED
      BY <3>1, <3>2 DEF TaskData, RowData
  <2> QED
    BY <2>1, <2>2, <2>3
<1> QED
  BY <1>2, <1>3, SMTT(60)

(* A token that expires takes its promise with it.                         *)
LEMMA DataLease ==
  ASSUME TypeOK, ClaimInv, DataInv, NEW t \in Tasks, LeaseExpires(t) \/ LeaseOutlived(t) \/ TokenExpires(t)
  PROVE  DataInv'
<1>1. run' = run /\ overtaken' = overtaken /\ UNCHANGED <<bars, featured, file>>
  BY DEF LeaseExpires, LeaseOutlived, TokenExpires, LoopFrame
<1>2. \A u \in Tasks : tokenDead[u] => tokenDead'[u]
  BY DEF LeaseExpires, LeaseOutlived, TokenExpires, TypeOK
<1>3. ASSUME NEW u \in Tasks, TaskExists(u)'
      PROVE  TaskExists(u) /\ Relabel(task[u], task'[u]) /\ task'[u].status = task[u].status
  <2>1. CASE task'[u] = task[u]
    BY <1>3, <2>1 DEF Relabel, TaskExists
  <2>2. CASE (LeaseExpires(t) \/ LeaseOutlived(t)) /\ u = t
    <3>1. task[u] \in TaskRow /\ task'[u] = [task[u] EXCEPT !.fresh = FALSE]
      BY <2>2 DEF LeaseExpires, LeaseOutlived, TypeOK
    <3> QED
      BY <1>3, <3>1 DEF Relabel, TaskExists, TaskRow
  <2>3. task' = task \/ (\A x \in Tasks \ {t} : task'[x] = task[x])
    BY DEF LeaseExpires, LeaseOutlived, TokenExpires, TypeOK
  <2>4. task' = task \/ LeaseExpires(t) \/ LeaseOutlived(t)
    BY DEF TokenExpires
  <2> QED
    BY <2>1, <2>2, <2>3, <2>4
<1>4. ASSUME NEW u \in Tasks \ overtaken PROVE TaskData(u)'
  <2>1. \A w \in Workers : FileGrows(Staging(w, u), Staging(w, u)')
    BY <1>1 DEF FileGrows, Staging
  <2> QED
    BY <1>1, <1>2, <1>3, <2>1, DataFrame DEF DataInv
<1> QED
  BY <1>1, <1>4 DEF DataInv

(* claim_tasks leaves a row's checkpoint alone.                            *)
LEMMA ClaimedRow ==
  ASSUME TypeOK, NEW w \in Workers, NEW ts, ClaimRows(w, ts), NEW t \in Tasks
  PROVE  /\ t \notin ts => task'[t] = task[t]
         /\ t \in ts => /\ task'[t].status = "running"
                        /\ task'[t].token = task[t].token
                        /\ task'[t].rows = task[t].rows
                        /\ task'[t].symbols = task[t].symbols
<1>1. task[t] \in TaskRow
  BY DEF TypeOK
<1>2. t \in ts => task'[t] = [task[t] EXCEPT !.status = "running", !.claimedBy = w, !.fresh = TRUE,
                                !.attempts = IF @ < MaxRetries THEN @ + 1 ELSE @]
  BY DEF ClaimRows
<1> QED
  BY <1>1, <1>2 DEF ClaimRows, TaskRow

(* A crash leaves every file at least what it was.                         *)
LEMMA CrashGrows ==
  ASSUME TypeOK, NEW w \in Workers, Crash(w), NEW v \in Workers, NEW t \in Tasks
  PROVE  FileGrows(Staging(v, t), Staging(v, t)')
<1>1. Staging(v, t) \in StagingFile
  BY DEF TypeOK, Staging, Disks
<1>2. \/ Staging(v, t)' = Staging(v, t)
      \/ Staging(v, t)' = [Staging(v, t) EXCEPT !.exists = TRUE, !.torn = TRUE]
  <2>1. CASE file' = file
    BY <2>1 DEF Staging
  <2>2. CASE \E u \in Tasks : file' = [file EXCEPT ![DiskOf[w]][u] =
                                         [@ EXCEPT !.exists = TRUE, !.torn = TRUE]]
    <3>1. PICK u \in Tasks : file' = [file EXCEPT ![DiskOf[w]][u] =
                                        [@ EXCEPT !.exists = TRUE, !.torn = TRUE]]
      BY <2>2
    <3>2. DiskOf[v] \in Disks /\ DiskOf[w] \in Disks /\ file \in [Disks -> [Tasks -> StagingFile]]
      BY DEF TypeOK, Disks
    <3>3. CASE DiskOf[v] = DiskOf[w] /\ t = u
      BY <3>1, <3>2, <3>3 DEF Staging
    <3>4. CASE ~(DiskOf[v] = DiskOf[w] /\ t = u)
      BY <3>1, <3>2, <3>4 DEF Staging
    <3> QED
      BY <3>3, <3>4
  <2> QED
    BY <2>1, <2>2, ZenonT(60) DEF Crash
<1> QED
  BY <1>1, <1>2 DEF FileGrows, StagingFile

(* The worker's loop: a coroutine starts with the promises of its row, and *)
(* a staged row's file is complete.                                        *)
LEMMA DataLoop ==
  ASSUME TypeOK, ClaimInv, DataInv, NEW w \in Workers,
         LoopStep(w) \/ LoopError(w) \/ ClaimThenError(w) \/ Crash(w)
  PROVE  DataInv'
<1>1. UNCHANGED <<bars, featured, tokenDead>>
  BY ZenonT(60) DEF LoopStep, WorkerStart, RecoverStaleTasks, ApplyJobControls, CancelQuietJobs,
     NextRunningJob, ClaimTasks, NothingToClaim, GatherReturns, FinaliseIfDone, SettleJob,
     LoopError, ClaimThenError, Crash, LoopFrame
<1>2. CASE RecoverStaleTasks(w)
  <2>1. run' = run /\ file' = file /\ overtaken \subseteq overtaken'
        /\ \A t \in Tasks : task'[t] = IF Stale(t) THEN Recovered(t) ELSE task[t]
    BY <1>2 DEF RecoverStaleTasks, Overtake
  <2>2. \A t \in Tasks \ overtaken' : Stale(t) => \A v \in Workers : ~Working(v, t)
    BY <1>2 DEF RecoverStaleTasks, Overtake, Working
  <2> QED
    BY <1>1, <2>1, <2>2, DataRecovered, DataOutside
<1>3. CASE ApplyJobControls(w)
  <2>1. run' = run /\ file' = file /\ overtaken' = overtaken
    BY <1>3 DEF ApplyJobControls, LoopFrame
  <2>2. ASSUME NEW t \in Tasks \ overtaken, task'[t] # task[t]
        PROVE  /\ TaskExists(t) /\ Relabel(task[t], task'[t])
               /\ \A v \in Workers : ~Working(v, t)
    <3>1. /\ task'[t] = [task[t] EXCEPT !.status = "cancelled", !.completedAt = TRUE]
          /\ TaskExists(t) /\ ~Engaged(t)
      BY <1>3, <2>2 DEF ApplyJobControls, TaskExists, Engaged
    <3>2. Relabel(task[t], task'[t])
      <4>1. task[t] \in TaskRow
        BY DEF TypeOK
      <4> QED
        BY <3>1, <4>1 DEF Relabel, TaskRow
    <3> QED
      BY <3>1, <3>2, SMTT(60) DEF ClaimInv, Claimed1, RowHeld, Holds
  <2> QED
    BY <1>1, <2>1, <2>2, DataOutside, SMTT(60)
<1>4. ASSUME run' = run, file' = file, task' = task, overtaken' = overtaken
      PROVE  DataInv'
  BY <1>1, <1>4, DataOutside
<1>5. CASE ClaimTasks(w)
  <2> DEFINE ts == Claimed(wk[w].job)
  <2>1. /\ ClaimRows(w, ts) /\ file' = file /\ overtaken' = overtaken
        /\ \A v \in Workers, t \in Tasks :
             run'[v][t] = IF v = w /\ t \in ts
                          THEN [pc |-> "begin", complete |-> task[t].status = "staged",
                                token |-> task[t].token, rows |-> task[t].rows,
                                symbols |-> task[t].symbols]
                          ELSE run[v][t]
    BY <1>5 DEF ClaimTasks, TypeOK, LoopFrame
  <2>2. ASSUME NEW t \in Tasks \ overtaken, t \notin ts
        PROVE  TaskData(t)'
    <3>1. task'[t] = task[t] /\ \A v \in Workers : run'[v][t] = run[v][t]
      BY <2>1, <2>2, ClaimedRow
    <3>2. \A v \in Workers : Staging(v, t)' = Staging(v, t)
      BY <2>1 DEF Staging
    <3> QED
      BY <1>1, <3>1, <3>2 DEF DataInv, TaskData, TaskExists, Working, Writing, Closing, Live
  <2>3. ASSUME NEW t \in Tasks \ overtaken, t \in ts
        PROVE  TaskData(t)'
    <3>1. /\ task'[t].status = "running" /\ task'[t].token = task[t].token
          /\ task'[t].rows = task[t].rows /\ task'[t].symbols = task[t].symbols
      BY <2>1, <2>3, ClaimedRow
    <3>2. /\ TaskExists(t) /\ \A v \in Workers : ~Writing(v, t)
      BY <2>3, ClaimableIsFree DEF Claimed
    <3>3. ASSUME NEW v \in Workers
          PROVE  /\ RowData(Staging(v, t), t, task'[t], tokenDead[t])
                 /\ Working(v, t)' => RunData(Staging(v, t), t, task'[t], run'[v][t], bars, featured)
      <4>1. RowData(Staging(v, t), t, task[t], tokenDead[t])
        BY <3>2 DEF DataInv, TaskData
      <4>2. RowData(Staging(v, t), t, task'[t], tokenDead[t])
        BY <3>1, <4>1 DEF RowData
      <4>3. Working(v, t)' => v = w
        <5>1. v # w => run'[v][t] = run[v][t]
          BY <2>1
        <5> QED
          BY <3>2, <5>1 DEF Working, Writing, Live
      <4>4. run'[w][t] = [pc |-> "begin", complete |-> task[t].status = "staged",
                          token |-> task[t].token, rows |-> task[t].rows,
                          symbols |-> task[t].symbols]
        BY <2>1, <2>3
      <4> DEFINE r == run'[w][t]
      <4>5. /\ r.pc = "begin" /\ (r.complete => task[t].status = "staged")
            /\ r.token = task[t].token /\ r.rows = task[t].rows /\ r.symbols = task[t].symbols
        <5> DEFINE staged == task[t].status = "staged"
        <5> HIDE DEF staged
        <5>1. r = [pc |-> "begin", complete |-> staged, token |-> task[t].token,
                   rows |-> task[t].rows, symbols |-> task[t].symbols]
          BY <4>4 DEF staged
        <5>2. r.complete => staged
          BY <5>1
        <5> QED
          BY <5>1, <5>2 DEF staged
      <4> HIDE DEF r
      <4>6. RunData(Staging(v, t), t, task'[t], r, bars, featured)
        BY <3>1, <4>1, <4>5 DEF RunData, RowData
      <4> QED
        BY <4>2, <4>3, <4>6 DEF r
    <3>4. \A v \in Workers : Staging(v, t)' = Staging(v, t)
      BY <2>1 DEF Staging
    <3> QED
      BY <1>1, <3>1, <3>3, <3>4 DEF TaskData
  <2> QED
    BY <2>1, <2>2, <2>3 DEF DataInv
<1>6. CASE ClaimThenError(w)
  <2>1. run' = run /\ file' = file /\ ClaimRows(w, Claimed(wk[w].job)) /\ overtaken' = overtaken
    BY <1>6 DEF ClaimThenError, LoopFrame
  <2>2. ASSUME NEW t \in Tasks \ overtaken, task'[t] # task[t]
        PROVE  /\ TaskExists(t) /\ Relabel(task[t], task'[t])
               /\ \A v \in Workers : ~Working(v, t)
    <3>1. t \in Claimed(wk[w].job)
      BY <2>1, <2>2, ClaimedRow
    <3>2. TaskExists(t) /\ \A v \in Workers : ~Working(v, t)
      BY <2>2, <3>1, ClaimableIsFree DEF Claimed, Working
    <3> QED
      BY <2>1, <3>1, <3>2, ClaimedRow DEF Relabel
  <2> QED
    BY <1>1, <2>1, <2>2, DataOutside
<1>7. CASE Crash(w)
  <2>1. /\ \A v \in Workers, t \in Tasks : run'[v][t] = IF v = w THEN Idle ELSE run[v][t]
        /\ task' = task /\ overtaken' = overtaken
    BY <1>7, ZenonT(60) DEF Crash, TypeOK, LoopFrame
  <2>2. \A v \in Workers, t \in Tasks : Working(v, t)' => run'[v][t] = run[v][t]
    BY <2>1 DEF Working, Writing, Live, Idle
  <2> SUFFICES ASSUME NEW t \in Tasks \ overtaken' PROVE TaskData(t)'
    BY DEF DataInv
  <2>3. \A v \in Workers : FileGrows(Staging(v, t), Staging(v, t)')
    BY <1>7, CrashGrows
  <2>4. TaskExists(t)' => TaskExists(t) /\ Relabel(task[t], task'[t])
    BY <2>1 DEF TaskExists, Relabel
  <2> QED
    BY <1>1, <2>1, <2>2, <2>3, <2>4, DataFrame DEF DataInv
<1> QED
  BY <1>2, <1>3, <1>4, <1>5, <1>6, <1>7 DEF LoopStep, WorkerStart, CancelQuietJobs, NextRunningJob,
     NothingToClaim, GatherReturns, FinaliseIfDone, SettleJob, LoopError, LoopFrame

-----------------------------------------------------------------------------
(* On a shared disk every worker sees what one of them writes.             *)
LEMMA StagingSet ==
  ASSUME TypeOK, SharedDisk, NEW w \in Workers, NEW t \in Tasks, NEW f, SetStaging(w, t, f),
         NEW v \in Workers, NEW u \in Tasks
  PROVE  Staging(v, u)' = IF u = t THEN f ELSE Staging(v, u)
<1>1. DiskOf[v] = DiskOf[w] /\ DiskOf[w] \in Disks
  BY DEF SharedDisk, Disks
<1> QED
  BY <1>1 DEF SetStaging, Staging, TypeOK

(* What a step of process_task leaves of the other tasks.                  *)
LEMMA DataElsewhere ==
  ASSUME TypeOK, SharedDisk, DataInv, NEW w \in Workers, NEW t \in Tasks,
         RunStep(w, t) \/ RunError(w, t) \/ RunEscapes(w, t)
  PROVE  /\ bars \subseteq bars' /\ featured \subseteq featured'
         /\ \A u \in (Tasks \ overtaken) \ {t} : TaskData(u)'
<1>1. bars \subseteq bars' /\ featured \subseteq featured'
  <2>1. CASE BulkLoad(w, t)
    BY <2>1 DEF BulkLoad
  <2>2. CASE RefreshFeatures(w, t)
    BY <2>2 DEF RefreshFeatures
  <2>3. CASE bars' = bars /\ featured' = featured
    BY <2>3
  <2> QED
    BY <2>1, <2>2, <2>3, ZenonT(60) DEF RunStep, RunBegin, FetchPage, Checkpoint, RejectSymbol,
       PersistQuarantine, Requarantined, UnlinkStaging, LastEvent, CompleteEmpty, ExpiredToken, ResetCheckpoint, Gate, StartLoading,
       CompleteTask, CancelTask, PauseTask, LoadError, ClosedClient, RunError, RunEscapes, FailTask
<1>2. \/ file' = file
      \/ \E f : SetStaging(w, t, f)
  BY ZenonT(60) DEF RunStep, RunBegin, FetchPage, Checkpoint, RejectSymbol,
       PersistQuarantine, Requarantined, UnlinkStaging, LastEvent, CompleteEmpty, ExpiredToken, ResetCheckpoint, Gate, StartLoading,
       BulkLoad, RefreshFeatures, CompleteTask, CancelTask, PauseTask, LoadError, ClosedClient,
       RunError, RunEscapes, FailTask, DropStaging
<1>3. ASSUME NEW v \in Workers, NEW u \in Tasks \ {t}
      PROVE  Staging(v, u)' = Staging(v, u)
  <2>1. CASE file' = file
    BY <2>1 DEF Staging
  <2>2. CASE \E f : SetStaging(w, t, f)
    BY <2>2, StagingSet
  <2> QED
    BY <1>2, <2>1, <2>2
<1>4. ASSUME NEW u \in Tasks \ {t}
      PROVE  tokenDead'[u] = tokenDead[u]
  <2>1. tokenDead' = tokenDead \/ tokenDead' = [tokenDead EXCEPT ![t] = FALSE]
    BY ZenonT(60) DEF RunStep, RunBegin, FetchPage, Checkpoint, RejectSymbol,
       PersistQuarantine, Requarantined, UnlinkStaging, LastEvent, CompleteEmpty, ExpiredToken, ResetCheckpoint, Gate, StartLoading,
       BulkLoad, RefreshFeatures, CompleteTask, CancelTask, PauseTask, LoadError, ClosedClient,
       RunError, RunEscapes, FailTask
  <2> QED
    BY <2>1 DEF TypeOK
<1>5. ASSUME NEW u \in (Tasks \ overtaken) \ {t}
      PROVE  TaskData(u)'
  <2>1. task'[u] = task[u] /\ \A v \in Workers : run'[v][u] = run[v][u]
    BY RunnerStep
  <2>2. TaskExists(u)' => TaskExists(u) /\ Relabel(task[u], task'[u])
    BY <2>1 DEF TaskExists, Relabel
  <2>3. \A v \in Workers : FileGrows(Staging(v, u), Staging(v, u)')
    BY <1>3 DEF FileGrows
  <2> QED
    BY <1>1, <1>4, <2>1, <2>2, <2>3, DataFrame DEF DataInv
<1> QED
  BY <1>1, <1>5

(* What follows the commit that completed a row, or ended the work on it,  *)
(* promises nothing and takes nothing away while files are kept; the row   *)
(* it may take back has no other coroutine.                                *)
LEMMA DataTail ==
  ASSUME TypeOK, ClaimInv, DataInv, NEW w \in Workers, NEW t \in Tasks \ overtaken,
         run[w][t].pc \notin UnlinkPc, ~Working(w, t),
         RunStep(w, t) \/ RunError(w, t) \/ RunEscapes(w, t)
  PROVE  TaskData(t)'
<1>1. /\ Live(w, t) /\ TaskData(t)
      /\ \A v \in Workers \ {w} : run'[v][t] = run[v][t]
  BY RunnerStep DEF DataInv
<1>2. run[w][t].pc \in {"event", "leave"}
  BY <1>1 DEF Working, Writing, Closing, Live, UnlinkPc, ClosingPc, LeavingPc
<1>3. LastEvent(w, t) \/ RunEscapes(w, t) \/ (RunError(w, t) /\ Closing(w, t))
  BY <1>2, ZenonT(60) DEF RunStep, RunBegin, FetchPage, Checkpoint, RejectSymbol,
       PersistQuarantine, Requarantined, CompleteEmpty, ExpiredToken, ResetCheckpoint, Gate,
       StartLoading, BulkLoad, RefreshFeatures, CompleteTask, UnlinkStaging, CancelTask, PauseTask,
       LoadError, ClosedClient, RunError, TryPc, Closing, ClosingPc
<1>4. UNCHANGED <<bars, featured, file, tokenDead>>
  BY <1>3 DEF LastEvent, RunEscapes, RunError, FailTask
<1>5. \A v \in Workers : FileGrows(Staging(v, t), Staging(v, t)')
  BY <1>4 DEF FileGrows, Staging
<1>6. ~Working(w, t)'
  <2>1. Finish(w, t) \/ Goto(w, t, "leave")
    BY <1>3 DEF LastEvent, RunEscapes, RunError, FailTask
  <2>2. run'[w][t].pc \in {"idle", "leave"}
    <3>1. CASE Finish(w, t)
      BY <3>1 DEF Finish, Idle, TypeOK
    <3>2. CASE Goto(w, t, "leave")
      BY <3>2 DEF Goto, TypeOK, RunRow
    <3> QED
      BY <2>1, <3>1, <3>2
  <2> QED
    BY <2>2 DEF Working, Writing, Live, LeavingPc
<1>7. CASE task' = task
  <2>1. TaskExists(t)' => TaskExists(t) /\ Relabel(task[t], task'[t])
    BY <1>7 DEF TaskExists, Relabel
  <2>2. \A v \in Workers : Working(v, t)' =>
          run'[v][t] = run[v][t] /\ (TaskExists(t)' => task'[t].status = task[t].status)
    BY <1>1, <1>6, <1>7
  <2> QED
    BY <1>1, <1>4, <1>5, <2>1, <2>2, DataFrame
<1>8. CASE RunError(w, t) /\ Closing(w, t)
  <2>1. \A v \in Workers : ~Working(v, t)'
    <3>1. Writing(w, t)
      BY <1>8 DEF Closing, Writing, Live, ClosingPc, LeavingPc
    <3>2. \A v \in Workers \ {w} : ~Writing(v, t)
      BY <3>1 DEF ClaimInv, Claimed1
    <3> QED
      BY <1>1, <1>6, <3>2 DEF Working, Writing, Live
  <2>2. TaskExists(t)' => TaskExists(t) /\ Relabel(task[t], task'[t])
    <3>1. \/ task'[t] = task[t]
          \/ TaskExists(t) /\ task'[t] = [task[t] EXCEPT !.status = "failed", !.fresh = TRUE]
      BY <1>8 DEF RunError, FailTask, UpdateTask, TypeOK
    <3>2. task[t] \in TaskRow
      BY DEF TypeOK
    <3> QED
      BY <3>1, <3>2 DEF TaskExists, Relabel, TaskRow
  <2> QED
    BY <1>1, <1>4, <1>5, <2>1, <2>2, DataFrame
<1> QED
  BY <1>3, <1>7, <1>8 DEF LastEvent, RunEscapes

(* A step of process_task keeps the promises of its own row.               *)
LEMMA DataOwn ==
  ASSUME TypeOK, ClaimInv, SharedDisk, KeepFiles, DataInv,
         NEW w \in Workers, NEW t \in Tasks \ overtaken, Working(w, t),
         RunStep(w, t) \/ RunError(w, t) \/ RunEscapes(w, t)
  PROVE  TaskData(t)'
<1> DEFINE k == task[t]
           r == run[w][t]
           f == Staging(w, t)
           dead == tokenDead[t]
<1>1. /\ Live(w, t) /\ (TaskExists(t)' <=> TaskExists(t))
      /\ \A v \in Workers \ {w} : run'[v][t] = run[v][t]
      /\ bars \subseteq bars' /\ featured \subseteq featured'
  BY RunnerStep, DataElsewhere
<1> SUFFICES ASSUME TaskExists(t) PROVE TaskData(t)'
  BY <1>1 DEF TaskData
<1>2. /\ k \in TaskRow /\ r \in RunRow /\ f \in StagingFile /\ k.status # "absent"
      /\ RowData(f, t, k, dead) /\ RunData(f, t, k, r, bars, featured)
  <2>1. k \in TaskRow /\ r \in RunRow /\ f \in StagingFile
    BY DEF TypeOK, Staging, Disks
  <2> QED
    BY <1>1, <2>1 DEF DataInv, TaskData, TaskExists
<1>3. \A v \in Workers \ {w} : ~Working(v, t)'
  <2>1. \A v \in Workers \ {w} : ~Writing(v, t)
    BY DEF ClaimInv, Claimed1, Working
  <2> QED
    BY <1>1, <2>1 DEF Working, Writing, Live
<1>4. ASSUME NEW l, NEW q, NEW g,
             task'[t] = l, run'[w][t] = q, Staging(w, t)' = g,
             RowData(g, t, l, tokenDead'[t]),
             l.status = "completed" => Loaded(t, l.symbols, bars') /\ Covered(t, l.symbols, featured'),
             q.pc \notin {"idle"} \union ClosingPc \union LeavingPc =>
               RunData(g, t, l, q, bars', featured')
      PROVE  TaskData(t)'
  <2>1. \A v \in Workers : Staging(v, t)' = g
    <3>1. \A v \in Workers : DiskOf[v] = DiskOf[w]
      BY DEF SharedDisk
    <3> QED
      BY <1>4, <3>1 DEF Staging
  <2>2. \A v \in Workers : Working(v, t)' => v = w
    BY <1>3
  <2>3. Working(w, t)' => run'[w][t].pc \notin {"idle"} \union ClosingPc \union LeavingPc
    BY DEF Working, Writing, Closing, Live
  <2> QED
    BY <1>4, <2>1, <2>2, <2>3 DEF TaskData
<1>5. ASSUME NEW row, UpdateTask(t, row)
      PROVE  task'[t] = row
  BY <1>5 DEF UpdateTask, TypeOK
<1>6. \A q : run' = [run EXCEPT ![w][t] = q] => run'[w][t] = q
  BY DEF TypeOK
<1>7. ASSUME NEW pc, Goto(w, t, pc)
      PROVE  /\ run'[w][t].pc = pc /\ run'[w][t].token = r.token
             /\ run'[w][t].rows = r.rows /\ run'[w][t].symbols = r.symbols
  <2>1. run'[w][t] = [r EXCEPT !.pc = pc]
    BY <1>7 DEF Goto, TypeOK
  <2> QED
    BY <1>2, <2>1 DEF RunRow
<1>8. Finish(w, t) => run'[w][t].pc = "idle"
  BY DEF Finish, Idle, TypeOK
<1>9. file' = file => Staging(w, t)' = f
  BY DEF Staging
<1>10. tokenDead' = [tokenDead EXCEPT ![t] = FALSE] => ~tokenDead'[t]
  BY DEF TypeOK
<1>11. k.status # "completed"
  BY <1>1 DEF ClaimInv, Claimed1, RowHeld, Holds, Engaged
<1> HIDE DEF k, r, f, dead
<1>12. CASE RunBegin(w, t)
  <2> DEFINE q == run'[w][t]
  <2>1. task' = task /\ file' = file /\ tokenDead' = tokenDead /\ r.pc = "begin"
    BY <1>12 DEF RunBegin, r
  <2>2. /\ q.symbols = r.symbols
        /\ q.pc = "gate" => r.complete /\ q.rows = r.rows
        /\ q.pc \in {"gate", "cancel", "pause", "empty", "fetch"}
        /\ q.pc = "empty" => r.symbols = {}
        /\ q.token # 0 => q.token = r.token /\ q.rows = r.rows
    <3> DEFINE reset == (r.token # 0 \/ r.complete) /\ ~f.exists
               p == IF reset
                    THEN [r EXCEPT !.complete = FALSE, !.token = 0, !.rows = FALSE]
                    ELSE r
    <3>1. run'[w][t] = [p EXCEPT !.pc = IF p.complete THEN "gate" ELSE LoopHead(t, p.symbols)]
      BY <1>6, <1>12, Zenon DEF RunBegin, r, f
    <3>2. CASE reset
      <4>1. p = [r EXCEPT !.complete = FALSE, !.token = 0, !.rows = FALSE]
        BY <3>2
      <4>2. q = [p EXCEPT !.pc = LoopHead(t, p.symbols)]
        BY <1>2, <3>1, <4>1 DEF RunRow
      <4>3. q.symbols = r.symbols /\ q.token = 0 /\ q.pc = LoopHead(t, r.symbols)
        BY <1>2, <4>1, <4>2, ZenonT(60) DEF RunRow
      <4> QED
        BY <4>3, ZenonT(60) DEF LoopHead
    <3>3. CASE ~reset
      <4>1. p = r
        BY <3>3
      <4> HIDE DEF p, reset
      <4>2. CASE r.complete
        <5>1. q = [r EXCEPT !.pc = "gate"]
          BY <3>1, <4>1, <4>2
        <5> QED
          BY <1>2, <4>2, <5>1 DEF RunRow
      <4>3. CASE ~r.complete
        <5>1. q = [r EXCEPT !.pc = LoopHead(t, r.symbols)]
          BY <3>1, <4>1, <4>3
        <5>2. q.symbols = r.symbols /\ q.token = r.token /\ q.rows = r.rows
              /\ q.pc = LoopHead(t, r.symbols)
          BY <1>2, <5>1 DEF RunRow
        <5> QED
          BY <5>2 DEF LoopHead
      <4> QED
        BY <4>2, <4>3
    <3> QED
      BY <3>2, <3>3
  <2>3. bars' = bars /\ featured' = featured
    BY <1>12 DEF RunBegin
  <2> HIDE DEF q
  <2>4. RunData(f, t, k, q, bars, featured)
    BY <1>2, <2>1, <2>2 DEF RunData
  <2> QED
    BY <1>2, <1>4, <1>9, <1>11, <2>1, <2>3, <2>4 DEF k, dead, q
<1>13. CASE FetchPage(w, t)
  <2> DEFINE p   == IF r.token = 0 THEN 1 ELSE r.token
             new == PageBars(t, r.symbols, p)
             g   == AppendMember(f, new)
             q   == [r EXCEPT !.pc = "checkpoint", !.token = NextToken(p), !.rows = @ \/ new # {}]
  <2>1. /\ task' = task /\ tokenDead' = tokenDead /\ bars' = bars /\ featured' = featured
        /\ r.pc = "fetch" /\ r.symbols \intersect Rejected = {} /\ ~(r.token # 0 /\ dead)
    BY <1>13 DEF FetchPage, r, dead
  <2>2. run'[w][t] = q
    BY <1>6, <1>13, Zenon DEF FetchPage, r
  <2>3. Staging(w, t)' = g
    <3>1. SetStaging(w, t, g)
      BY <1>13, Zenon DEF FetchPage, r, f
    <3> QED
      BY <3>1, StagingSet
  <2>4. FileGrows(f, g) /\ g.exists /\ g.bars = f.bars \union new
    BY <1>2 DEF AppendMember, FileGrows, StagingFile
  <2>5. RowData(g, t, k, dead)
    BY <1>2, <2>4, DataGrows
  <2>6. /\ q.pc = "checkpoint" /\ q.symbols = r.symbols /\ q.token = NextToken(p)
        /\ q.rows \/ (~r.rows /\ new = {})
    <3>1. q.pc = "checkpoint" /\ q.symbols = r.symbols /\ q.token = NextToken(p)
      BY <1>2 DEF RunRow
    <3>2. q.rows = (r.rows \/ new # {})
      BY <1>2, Zenon DEF RunRow
    <3> QED
      BY <3>1, <3>2
  <2>7. p \in 1..Pages /\ Appended(q) = p
    <3>1. p \in 1..Pages
      BY <1>2, LoaderAssumption DEF RunRow
    <3> HIDE DEF p
    <3>2. Appended(q) = IF NextToken(p) = 0 THEN Pages ELSE NextToken(p) - 1
      BY <2>6 DEF Appended
    <3> QED
      BY <3>1, <3>2, LoaderAssumption DEF NextToken
  <2>8. Got(t, r.symbols, p) = Got(t, r.symbols, p - 1) \union new
    BY <2>7, GotFacts
  <2>9. /\ f.exists /\ ~f.torn => Got(t, r.symbols, p - 1) \subseteq f.bars
        /\ Told(t, r.symbols, p - 1, r.rows)
        /\ ~f.exists => Got(t, r.symbols, p - 1) = {}
    <3>1. CASE r.token = 0
      <4>1. Got(t, r.symbols, p - 1) = {}
        BY <3>1, GotFacts
      <4> QED
        BY <4>1 DEF Told
    <3>2. CASE r.token # 0
      <4>1. r.token = k.token /\ r.rows = k.rows /\ r.symbols = k.symbols /\ p = r.token
        BY <1>2, <2>1, <3>2 DEF RunData
      <4> QED
        BY <1>2, <2>1, <3>2, <4>1 DEF RowData, Holding
    <3> QED
      BY <3>1, <3>2
  <2> HIDE DEF p, new
  <2>10. Holding(g, t, r.symbols, p)
    <3>1. CASE g.torn
      BY <2>4, <3>1 DEF Holding
    <3>2. CASE ~g.torn
      BY <2>4, <2>8, <2>9, <3>2 DEF Holding, FileGrows
    <3> QED
      BY <3>1, <3>2
  <2>11. Told(t, r.symbols, p, q.rows)
    BY <2>6, <2>8, <2>9 DEF Told
  <2> HIDE DEF q, g
  <2>12. RunData(g, t, k, q, bars, featured)
    BY <1>2, <2>1, <2>6, <2>7, <2>10, <2>11 DEF RunData
  <2> QED
    BY <1>4, <1>11, <2>1, <2>2, <2>3, <2>5, <2>12 DEF k, dead
<1>14. CASE Checkpoint(w, t)
  <2> DEFINE l == [k EXCEPT !.token = r.token, !.rows = r.rows, !.fresh = TRUE,
                            !.status = IF r.token = 0 THEN "staged" ELSE "running"]
             q == run'[w][t]
  <2>1. /\ file' = file /\ bars' = bars /\ featured' = featured /\ r.pc = "checkpoint"
        /\ tokenDead' = [tokenDead EXCEPT ![t] = FALSE]
    BY <1>14 DEF Checkpoint, r
  <2>2. task'[t] = l
    BY <1>5, <1>14, Zenon DEF Checkpoint, k, r
  <2>3. /\ q.symbols = r.symbols /\ q.token = r.token /\ q.rows = r.rows
        /\ q.pc \in {"cancel", "pause_staged", "pause", "gate", "fetch"}
        /\ q.pc \in {"pause_staged", "gate"} => r.token = 0
        /\ q.pc = "fetch" => r.token # 0
    <3> DEFINE pc == IF IsCancel(t) THEN "cancel"
                     ELSE IF IsPause(t) THEN IF r.token = 0 THEN "pause_staged" ELSE "pause"
                     ELSE IF r.token = 0 THEN "gate" ELSE "fetch"
    <3>1. q = [r EXCEPT !.complete = (r.token = 0), !.pc = pc]
      BY <1>6, <1>14, Zenon DEF Checkpoint, r
    <3>2. /\ pc \in {"cancel", "pause_staged", "pause", "gate", "fetch"}
          /\ pc \in {"pause_staged", "gate"} => r.token = 0
          /\ pc = "fetch" => r.token # 0
      BY DEF IsCancel, IsPause
    <3> HIDE DEF pc
    <3>3. q.symbols = r.symbols /\ q.token = r.token /\ q.rows = r.rows /\ q.pc = pc
      BY <1>2, <3>1 DEF RunRow
    <3> QED
      BY <3>2, <3>3
  <2> HIDE DEF q
  <2>4. /\ l.token = r.token /\ l.rows = r.rows /\ l.symbols = k.symbols
        /\ l.status = IF r.token = 0 THEN "staged" ELSE "running"
    BY <1>2 DEF TaskRow
  <2> HIDE DEF l
  <2>5. /\ r.symbols = k.symbols /\ r.symbols \intersect Rejected = {}
        /\ Holding(f, t, r.symbols, Appended(r)) /\ Told(t, r.symbols, Appended(r), r.rows)
    BY <1>2, <2>1 DEF RunData
  <2>6. RowData(f, t, l, FALSE)
    BY <2>4, <2>5 DEF RowData, Appended
  <2>7. RunData(f, t, l, q, bars, featured)
    BY <2>3, <2>4, <2>5 DEF RunData, Appended
  <2>8. tokenDead'[t] = FALSE
    BY <2>1 DEF TypeOK
  <2> QED
    BY <1>4, <1>9, <2>1, <2>2, <2>4, <2>6, <2>7, <2>8 DEF q
<1>15. CASE RejectSymbol(w, t)
  <2>1. /\ task' = task /\ tokenDead' = tokenDead /\ bars' = bars /\ featured' = featured
        /\ r.pc = "fetch" /\ r.symbols \intersect Rejected # {}
        /\ DropStaging(w, t)
    BY <1>15 DEF RejectSymbol, r
  <2>2. PICK s : run'[w][t] = [pc |-> "quarantine", complete |-> FALSE, token |-> 0,
                                rows |-> FALSE, symbols |-> r.symbols \ {s}]
    BY <1>6, <1>15 DEF RejectSymbol, r
  <2>3. k.token = 0 /\ k.status = "running"
    BY <1>2, <2>1 DEF RunData, RowData
  <2>4. RowData(NoFile, t, k, dead)
    BY <2>3 DEF RowData
  <2>5. run'[w][t].pc = "quarantine" /\ run'[w][t].token = 0
    BY <2>2
  <2>6. RunData(NoFile, t, k, run'[w][t], bars, featured)
    BY <2>3, <2>5 DEF RunData
  <2>7. Staging(w, t)' = NoFile
    BY <2>1, StagingSet DEF DropStaging
  <2> QED
    BY <1>4, <1>11, <2>1, <2>4, <2>6, <2>7 DEF k, dead
<1>16. CASE PersistQuarantine(w, t)
  <2> DEFINE l == [k EXCEPT !.symbols = r.symbols, !.token = 0, !.rows = FALSE, !.fresh = TRUE]
             q == run'[w][t]
  <2>1. /\ file' = file /\ bars' = bars /\ featured' = featured /\ r.pc = "quarantine"
    BY <1>16 DEF PersistQuarantine, r
  <2>2. task'[t] = l
    BY <1>5, <1>16, Zenon DEF PersistQuarantine, k, r
  <2>3. q.symbols = r.symbols /\ q.token = r.token /\ q.rows = r.rows /\ q.pc = "quarantined"
    <3>1. Goto(w, t, "quarantined")
      BY <1>16 DEF PersistQuarantine
    <3> QED
      BY <1>7, <3>1
  <2> HIDE DEF q
  <2>4. l.token = 0 /\ l.symbols = r.symbols /\ l.status = "running"
    BY <1>2, <2>1 DEF TaskRow, RunData
  <2>5. r.token = 0
    BY <1>2, <2>1 DEF RunData
  <2> HIDE DEF l
  <2>6. RowData(f, t, l, tokenDead'[t])
    BY <2>4 DEF RowData
  <2>7. RunData(f, t, l, q, bars, featured)
    BY <2>3, <2>4, <2>5 DEF RunData
  <2> QED
    BY <1>4, <1>9, <2>1, <2>2, <2>4, <2>6, <2>7 DEF q
<1>17. CASE ExpiredToken(w, t)
  <2>1. /\ task' = task /\ tokenDead' = tokenDead /\ bars' = bars /\ featured' = featured
        /\ r.pc = "fetch" /\ r.token # 0 /\ dead /\ DropStaging(w, t) /\ Goto(w, t, "expired")
    BY <1>17 DEF ExpiredToken, r, dead
  <2>2. k.status = "running" /\ r.symbols = k.symbols
    BY <1>2, <2>1 DEF RunData
  <2>3. RowData(NoFile, t, k, dead)
    BY <1>2, <2>1, <2>2 DEF RowData
  <2>4. run'[w][t].pc = "expired" /\ run'[w][t].symbols = r.symbols
    BY <1>7, <2>1
  <2>5. RunData(NoFile, t, k, run'[w][t], bars, featured)
    BY <2>2, <2>4 DEF RunData
  <2>6. Staging(w, t)' = NoFile
    BY <2>1, StagingSet DEF DropStaging
  <2> QED
    BY <1>4, <1>11, <2>1, <2>3, <2>5, <2>6 DEF k, dead
(* The steps that end the work of the coroutine with its row labelled anew.*)
<1>18. ASSUME run'[w][t].pc \in {"idle", "leave", "event"}, UNCHANGED <<bars, featured, file>>,
              tokenDead'[t] \/ ~tokenDead[t] \/ task'[t].token = 0,
              task'[t].symbols = k.symbols,
              task'[t].token = 0 \/ (task'[t].token = k.token /\ task'[t].rows = k.rows),
              task'[t].status \in {"staged", "loading"} => RowData(f, t, task'[t], FALSE),
              task'[t].status = "completed" =>
                Loaded(t, k.symbols, bars) /\ Covered(t, k.symbols, featured)
       PROVE  TaskData(t)'
  <2>1. RowData(f, t, task'[t], tokenDead'[t])
    BY <1>2, <1>18 DEF RowData, dead
  <2> QED
    BY <1>4, <1>9, <1>18, <2>1 DEF ClosingPc, LeavingPc
<1>19. FailTask(w, t) => TaskData(t)'
  <2> SUFFICES ASSUME FailTask(w, t) PROVE TaskData(t)'
    OBVIOUS
  <2>1. task'[t] = [k EXCEPT !.status = "failed", !.fresh = TRUE]
    BY <1>5 DEF FailTask, k
  <2>2. task'[t].status = "failed" /\ task'[t].token = k.token /\ task'[t].rows = k.rows
        /\ task'[t].symbols = k.symbols
    BY <1>2, <2>1 DEF TaskRow
  <2>3. run'[w][t].pc = "leave" /\ UNCHANGED <<bars, featured, file, tokenDead>>
    BY <1>7 DEF FailTask
  <2>4. tokenDead'[t] \/ ~tokenDead[t]
    BY <2>3
  <2> QED
    BY <1>18, <2>2, <2>3, <2>4
<1>20. CASE LoadError(w, t) \/ ClosedClient(w, t) \/ RunError(w, t)
  BY <1>19, <1>20 DEF LoadError, ClosedClient, RunError
<1>21. CASE RunEscapes(w, t)
  <2>1. /\ Finish(w, t) /\ task' = task /\ UNCHANGED <<bars, featured, file, tokenDead>>
    BY <1>21 DEF RunEscapes
  <2> QED
    BY <1>2, <1>4, <1>8, <1>9, <1>11, <2>1 DEF k, dead
<1>22. CASE CompleteEmpty(w, t)
  <2>1. /\ r.pc = "empty" /\ run'[w][t].pc = "event"
        /\ UNCHANGED <<bars, featured, tokenDead, file>>
    BY <1>7, <1>22 DEF CompleteEmpty, r
  <2>2. task'[t] = [k EXCEPT !.status = "completed", !.rows = FALSE, !.token = 0,
                             !.fresh = TRUE, !.claimedBy = None, !.completedAt = TRUE]
    BY <1>5, <1>22 DEF CompleteEmpty, k
  <2>3. task'[t].status = "completed" /\ task'[t].token = 0 /\ task'[t].symbols = k.symbols
    BY <1>2, <2>2 DEF TaskRow
  <2>4. k.symbols = {}
    BY <1>2, <2>1 DEF RunData
  <2>5. Loaded(t, k.symbols, bars) /\ Covered(t, k.symbols, featured)
    BY <2>4, GotFacts DEF Loaded, Covered
  <2> QED
    BY <1>18, <2>1, <2>3, <2>5
<1>23. CASE ResetCheckpoint(w, t)
  <2>1. run'[w][t].pc = "leave" /\ UNCHANGED <<bars, featured, file>>
    BY <1>7, <1>23 DEF ResetCheckpoint
  <2>2. task'[t] = [k EXCEPT !.status = "pending", !.token = 0, !.rows = FALSE,
                             !.claimedBy = None]
    BY <1>5, <1>23 DEF ResetCheckpoint, k
  <2>3. task'[t].status = "pending" /\ task'[t].token = 0 /\ task'[t].symbols = k.symbols
    BY <1>2, <2>2 DEF TaskRow
  <2> QED
    BY <1>18, <2>1, <2>3
<1>24. CASE Gate(w, t)
  <2> DEFINE q == run'[w][t]
  <2>1. /\ task' = task /\ file' = file /\ tokenDead' = tokenDead /\ r.pc = "gate"
        /\ bars' = bars /\ featured' = featured
    BY <1>24 DEF Gate, r
  <2>2. q.symbols = r.symbols /\ q.rows = r.rows
        /\ q.pc \in {"cancel", "pause_staged", "toload"}
    <3>1. PICK pc : Goto(w, t, pc) /\ pc \in {"cancel", "pause_staged", "toload"}
      BY <1>24 DEF Gate
    <3> QED
      BY <1>7, <3>1
  <2> HIDE DEF q
  <2>3. RunData(f, t, k, q, bars, featured)
    BY <1>2, <2>1, <2>2 DEF RunData
  <2> QED
    BY <1>2, <1>4, <1>9, <1>11, <2>1, <2>3 DEF k, dead, q
<1>25. CASE StartLoading(w, t)
  <2> DEFINE q == run'[w][t]
             l == task'[t]
  <2>1. /\ file' = file /\ tokenDead' = tokenDead /\ r.pc = "toload"
        /\ bars' = bars /\ featured' = featured /\ Goto(w, t, "load")
    BY <1>25 DEF StartLoading, r
  <2>2. task'[t] = [k EXCEPT !.status = "loading", !.fresh = TRUE]
    BY <1>5, <1>25 DEF StartLoading, k
  <2>3. /\ l.status = "loading" /\ l.token = k.token /\ l.rows = k.rows /\ l.symbols = k.symbols
    BY <1>2, <2>2 DEF TaskRow
  <2>4. q.symbols = r.symbols /\ q.rows = r.rows /\ q.pc = "load"
    BY <1>7, <2>1
  <2> HIDE DEF q, l
  <2>5. RunData(f, t, l, q, bars, featured)
    BY <1>2, <2>1, <2>3, <2>4 DEF RunData
  <2>6. RowData(f, t, l, dead)
    BY <1>2, <2>1, <2>3 DEF RowData, RunData
  <2> QED
    BY <1>4, <1>9, <2>1, <2>3, <2>5, <2>6 DEF q, l, dead
<1>26. CASE BulkLoad(w, t)
  <2> DEFINE q == run'[w][t]
  <2>1. /\ task' = task /\ file' = file /\ tokenDead' = tokenDead /\ r.pc = "load"
        /\ bars' = bars \union f.bars /\ featured' = featured /\ f.exists /\ ~f.torn
        /\ Goto(w, t, AfterLoad(w, t))
    BY <1>26 DEF BulkLoad, Readable, r, f
  <2>2. q.symbols = r.symbols /\ q.pc = AfterLoad(w, t)
    BY <1>7, <2>1
  <2>3. /\ q.pc \in {"features", "done"}
        /\ q.pc = "done" => ~GenerateFeatures \/ ~r.rows
    BY <2>2 DEF AfterLoad, r
  <2> HIDE DEF q
  <2>4. /\ r.symbols = k.symbols /\ Got(t, r.symbols, Pages) \subseteq f.bars
        /\ Told(t, r.symbols, Pages, r.rows)
    BY <1>2, <2>1 DEF RunData, Holding
  <2>5. Loaded(t, r.symbols, bars') /\ (q.pc = "done" => Covered(t, r.symbols, featured'))
    BY <2>1, <2>3, <2>4 DEF Loaded, Covered, Told
  <2>6. RunData(f, t, k, q, bars', featured')
    BY <2>2, <2>3, <2>4, <2>5 DEF RunData
  <2> QED
    BY <1>2, <1>4, <1>9, <1>11, <2>1, <2>6 DEF k, dead, q
<1>27. CASE RefreshFeatures(w, t)
  <2> DEFINE q == run'[w][t]
  <2>1. /\ task' = task /\ file' = file /\ tokenDead' = tokenDead /\ r.pc = "features"
        /\ bars' = bars /\ Goto(w, t, "done")
        /\ featured' = featured \union {b \in bars : b[1] \in r.symbols /\ b[2] = WindowOf[t]}
    BY <1>27 DEF RefreshFeatures, r
  <2>2. q.symbols = r.symbols /\ q.pc = "done"
    BY <1>7, <2>1
  <2> HIDE DEF q
  <2>3. r.symbols = k.symbols /\ Got(t, r.symbols, Pages) \subseteq bars
    BY <1>2, <2>1 DEF RunData, Loaded
  <2>4. \A b \in Got(t, r.symbols, Pages) : b[1] \in r.symbols /\ b[2] = WindowOf[t]
    BY DEF Got
  <2>5. Got(t, r.symbols, Pages) \subseteq featured'
    BY <2>1, <2>3, <2>4
  <2>6. RunData(f, t, k, q, bars', featured')
    BY <2>1, <2>2, <2>3, <2>5 DEF RunData, Loaded, Covered
  <2> QED
    BY <1>2, <1>4, <1>9, <1>11, <2>1, <2>6 DEF k, dead, q
<1>28. CASE CompleteTask(w, t)
  <2>1. /\ r.pc = "done" /\ run'[w][t].pc = "idle"
        /\ UNCHANGED <<bars, featured, tokenDead, file>>
    BY <1>8, <1>28 DEF CompleteTask, GoUnlink, r
  <2>2. task'[t] = [k EXCEPT !.status = "completed", !.token = 0, !.fresh = TRUE,
                             !.completedAt = TRUE]
    BY <1>5, <1>28 DEF CompleteTask, k
  <2>3. task'[t].status = "completed" /\ task'[t].token = 0 /\ task'[t].symbols = k.symbols
    BY <1>2, <2>2 DEF TaskRow
  <2>4. Loaded(t, k.symbols, bars) /\ Covered(t, k.symbols, featured)
    BY <1>2, <2>1 DEF RunData
  <2> QED
    BY <1>18, <2>1, <2>3, <2>4
<1>29. CASE CancelTask(w, t)
  <2>1. run'[w][t].pc = "idle" /\ UNCHANGED <<bars, featured, tokenDead, file>>
    BY <1>8, <1>29 DEF CancelTask, GoUnlink
  <2>2. task'[t] = [k EXCEPT !.status = "cancelled", !.claimedBy = None, !.fresh = TRUE]
    BY <1>5, <1>29 DEF CancelTask, k
  <2>3. /\ task'[t].status = "cancelled" /\ task'[t].token = k.token
        /\ task'[t].symbols = k.symbols /\ task'[t].rows = k.rows
    BY <1>2, <2>2 DEF TaskRow
  <2>4. tokenDead'[t] \/ ~tokenDead[t]
    BY <2>1
  <2> QED
    BY <1>18, <2>1, <2>3, <2>4
<1>30. CASE PauseTask(w, t)
  <2>1. /\ run'[w][t].pc = "idle" /\ UNCHANGED <<bars, featured, tokenDead, file>>
        /\ r.pc \in {"pause", "pause_staged"}
    BY <1>8, <1>30 DEF PauseTask, r
  <2>2. task'[t] = [k EXCEPT !.claimedBy = None, !.fresh = TRUE,
                      !.status = IF r.pc = "pause" THEN "pending" ELSE "staged"]
    BY <1>5, <1>30 DEF PauseTask, k, r
  <2>3. /\ task'[t].status = IF r.pc = "pause" THEN "pending" ELSE "staged"
        /\ task'[t].token = k.token
        /\ task'[t].symbols = k.symbols /\ task'[t].rows = k.rows
    BY <1>2, <2>2 DEF TaskRow
  <2>4. tokenDead'[t] \/ ~tokenDead[t]
    BY <2>1
  <2>5. task'[t].status = "staged" => RowData(f, t, task'[t], FALSE)
    BY <1>2, <2>1, <2>3 DEF RowData, RunData
  <2>6. task'[t].status \notin {"completed", "loading"}
    BY <2>3
  <2> QED
    BY <1>18, <2>1, <2>3, <2>4, <2>5, <2>6
<1>31. CASE Requarantined(w, t)
  <2> DEFINE q == run'[w][t]
  <2>1. /\ task' = task /\ file' = file /\ tokenDead' = tokenDead /\ r.pc = "quarantined"
        /\ bars' = bars /\ featured' = featured
    BY <1>31 DEF Requarantined, r
  <2>2. /\ q.symbols = r.symbols /\ q.token = r.token /\ q.rows = r.rows
        /\ q.pc \in {"cancel", "pause", "empty", "fetch"}
        /\ q.pc = "empty" => r.symbols = {}
    <3> DEFINE pc == IF r.symbols = {} THEN "empty" ELSE LoopHead(t, r.symbols)
    <3>1. Goto(w, t, pc)
      BY <1>31, Zenon DEF Requarantined, r
    <3>2. /\ pc \in {"cancel", "pause", "empty", "fetch"}
          /\ pc = "empty" => r.symbols = {}
      BY DEF LoopHead
    <3> HIDE DEF pc
    <3> QED
      BY <1>7, <3>1, <3>2
  <2> HIDE DEF q
  <2>3. r.token = 0
    BY <1>2, <2>1 DEF RunData
  <2>4. RunData(f, t, k, q, bars, featured)
    BY <1>2, <2>1, <2>2, <2>3 DEF RunData
  <2> QED
    BY <1>2, <1>4, <1>9, <1>11, <2>1, <2>4 DEF k, dead, q
<1>32. CASE UnlinkStaging(w, t) \/ LastEvent(w, t)
  <2>1. run[w][t].pc \in ClosingPc \union LeavingPc
    BY <1>32 DEF UnlinkStaging, LastEvent, ClosingPc, LeavingPc
  <2> QED
    BY <2>1 DEF Working, Writing, Closing
<1> QED
  BY <1>12, <1>13, <1>14, <1>15, <1>16, <1>17, <1>20, <1>21, <1>22, <1>23, <1>24, <1>25, <1>26,
     <1>27, <1>28, <1>29, <1>30, <1>31, <1>32 DEF RunStep

(* Kept staging files are never removed after a commit.                    *)
NoUnlink == \A w \in Workers, t \in Tasks : run[w][t].pc \notin UnlinkPc

(* No coroutine gets there when they are kept.                             *)
LEMMA FilesAreKept ==
  ASSUME KeepFiles PROVE Spec => []NoUnlink
<1>1. Init => NoUnlink
  BY DEF Init, NoUnlink, UnlinkPc, Idle
<1>2. TypeOK /\ NoUnlink /\ [Next]_vars => NoUnlink'
  <2> SUFFICES ASSUME TypeOK, NoUnlink, [Next]_vars PROVE NoUnlink'
    OBVIOUS
  <2>1. CASE run' = run
    BY <2>1 DEF NoUnlink
  <2>2. ASSUME NEW w \in Workers, NEW t \in Tasks,
               RunStep(w, t) \/ RunError(w, t) \/ RunEscapes(w, t)
        PROVE  NoUnlink'
    <3>1. /\ \A v \in Workers, u \in Tasks : v # w \/ u # t => run'[v][u] = run[v][u]
          /\ KeepFiles /\ run[w][t].pc \notin UnlinkPc => run'[w][t].pc \notin UnlinkPc
      BY <2>2, RunnerStep
    <3> QED
      BY <3>1 DEF NoUnlink
  <2>3. ASSUME NEW w \in Workers, ClaimTasks(w)
        PROVE  NoUnlink'
    <3>1. \A v \in Workers, u \in Tasks : run'[v][u] = run[v][u] \/ run'[v][u].pc = "begin"
      <4> DEFINE row(u) == [pc |-> "begin", complete |-> task[u].status = "staged",
                            token |-> task[u].token, rows |-> task[u].rows,
                            symbols |-> task[u].symbols]
      <4>1. run' = [run EXCEPT ![w] = [u \in Tasks |->
                      IF u \in Claimed(wk[w].job) THEN row(u) ELSE run[w][u]]]
        BY <2>3, ZenonT(60) DEF ClaimTasks
      <4>2. \A u : row(u).pc = "begin"
        OBVIOUS
      <4> HIDE DEF row
      <4> QED
        BY <4>1, <4>2 DEF TypeOK
    <3> QED
      BY <3>1 DEF NoUnlink, UnlinkPc
  <2>4. ASSUME NEW w \in Workers, Crash(w)
        PROVE  NoUnlink'
    <3>1. \A v \in Workers, u \in Tasks : run'[v][u] = run[v][u] \/ run'[v][u] = Idle
      BY <2>4, ZenonT(60) DEF Crash, TypeOK
    <3> QED
      BY <3>1 DEF NoUnlink, UnlinkPc, Idle
  <2>5. CASE UNCHANGED vars
    BY <2>1, <2>5 DEF vars
  <2>6. CASE Environment
    <3>1. run' = run
      BY <2>6, ZenonT(60) DEF Environment, JobAction, CreateJob, PauseJob, ResumeJob, CancelJob,
         RecoverJob, RetryJob, DeleteJob, ApiFrame, PlannerExpires, LeaseExpires, TokenExpires
    <3> QED
      BY <2>1, <3>1
  <2>7. ASSUME NEW w \in Workers, PlanStep(w) \/ PlanFail(w)
        PROVE  NoUnlink'
    <3>1. run' = run
      BY <2>7, ZenonT(60) DEF PlanStep, ClaimJobForPlanning, PlanCommit, PlanAnnounced,
         PlanOrphaned, PlanFail, PlannerFrame
    <3> QED
      BY <2>1, <3>1
  <2>8. ASSUME NEW w \in Workers, LoopStep(w) \/ LoopError(w) \/ ClaimThenError(w)
        PROVE  NoUnlink'
    <3>1. ClaimTasks(w) \/ run' = run
      BY <2>8, ZenonT(60) DEF LoopStep, WorkerStart, RecoverStaleTasks, ApplyJobControls,
         CancelQuietJobs, NextRunningJob, NothingToClaim, GatherReturns, FinaliseIfDone,
         SettleJob, LoopError, ClaimThenError
    <3> QED
      BY <2>1, <2>3, <3>1
  <2>9. CASE Disturbance
    BY <2>1, <2>2, <2>4, <2>7, <2>8, <2>9 DEF Disturbance, LeaseOutlived
  <2> QED
    BY <2>2, <2>5, <2>6, <2>7, <2>8, <2>9 DEF Next
<1> QED
  BY TypeCorrect, <1>1, <1>2, PTL DEF Spec

(* The promises hold throughout, as long as one disk is shared and files   *)
(* are kept on a cancel.                                                   *)
LEMMA DataInvariant ==
  ASSUME KeepFiles, SharedDisk PROVE Spec => []DataInv
<1>1. Init => DataInv
  BY DEF Init, DataInv, TaskData, TaskExists, AbsentTask
<1>2. TypeOK /\ ClaimInv /\ NoUnlink /\ DataInv /\ [Next]_vars => DataInv'
  <2> SUFFICES ASSUME TypeOK, ClaimInv, NoUnlink, DataInv, [Next]_vars PROVE DataInv'
    OBVIOUS
  <2>1. CASE UNCHANGED vars
    <3>1. \A w \in Workers, t \in Tasks : Staging(w, t)' = Staging(w, t)
      BY <2>1 DEF Staging
    <3> QED
      BY <2>1, <3>1 DEF DataInv, TaskData, TaskExists, Working, Writing, Closing, Live
  <2>2. ASSUME NEW w \in Workers, NEW t \in Tasks,
               RunStep(w, t) \/ RunError(w, t) \/ RunEscapes(w, t)
        PROVE  DataInv'
    <3>1. overtaken' = overtaken /\ run[w][t].pc \notin UnlinkPc
      BY <2>2, RunnerStep DEF NoUnlink
    <3>2. t \notin overtaken => TaskData(t)'
      BY <2>2, <3>1, DataOwn, DataTail
    <3>3. \A u \in (Tasks \ overtaken) \ {t} : TaskData(u)'
      BY <2>2, DataElsewhere
    <3> QED
      BY <3>1, <3>2, <3>3 DEF DataInv
  <2>3. ASSUME NEW j \in Jobs, PlannerExpires(j)
        PROVE  DataInv'
    <3>1. UNCHANGED <<run, task, overtaken, bars, featured, file, tokenDead>>
      BY <2>3 DEF PlannerExpires, LoopFrame
    <3> QED
      BY <3>1, DataOutside
  <2>4. CASE Environment
    BY <2>3, <2>4, DataApi, DataLease DEF Environment
  <2>5. CASE Disturbance
    BY <2>2, <2>5, DataPlanner, DataLoop, DataLease DEF Disturbance
  <2> QED
    BY <2>1, <2>2, <2>4, <2>5, DataPlanner, DataLoop DEF Next
<1> QED
  BY TypeCorrect, ClaimInvariant, FilesAreKept, <1>1, <1>2, PTL DEF Spec

(* However often a task is interrupted, retried, released or moved to      *)
(* another worker, a completed task has every bar of its symbols and       *)
(* window in rd_bars, and the daily features cover them. Each hypothesis   *)
(* is needed: without kept files loader_lost_page is a counterexample, and *)
(* a worker on a disk of its own continues at a page token whose pages are *)
(* on another one.                                                         *)
THEOREM CompletedTaskIsLoaded ==
  ASSUME KeepFiles, SharedDisk PROVE Spec => []CompletedIsLoaded
<1>1. DataInv => CompletedIsLoaded
  <2>1. \A t \in Tasks : TaskBars(t) = Got(t, task[t].symbols, Pages)
    BY DEF TaskBars, Got
  <2> QED
    BY <2>1 DEF DataInv, TaskData, TaskExists, CompletedIsLoaded, Loaded, Covered
<1> QED
  BY DataInvariant, <1>1, PTL

-----------------------------------------------------------------------------
(* The ledger counts the rows of rd_bars: bulk_load adds exactly the rows  *)
(* it inserts, whatever of the file was loaded before.                     *)
THEOREM LedgerIsExact == Spec => []InventoryExact
<1>1. Init => InventoryExact
  BY FS_EmptySet DEF Init, InventoryExact
<1>2. TypeOK /\ InventoryExact /\ [Next]_vars => InventoryExact'
  <2> SUFFICES ASSUME TypeOK, InventoryExact, [Next]_vars PROVE InventoryExact'
    OBVIOUS
  <2>1. CASE UNCHANGED <<bars, inventory>>
    BY <2>1 DEF InventoryExact
  <2>2. ASSUME NEW w \in Workers, NEW t \in Tasks, BulkLoad(w, t)
        PROVE  InventoryExact'
    <3> DEFINE new == Staging(w, t).bars \ bars
    <3>1. inventory' = inventory + Cardinality(new) /\ bars' = bars \union new
      BY <2>2 DEF BulkLoad, RowsLoaded
    <3>2. IsFiniteSet(bars) /\ IsFiniteSet(new)
      <4>1. bars \subseteq Bar /\ new \subseteq Bar
        BY LoadedBarsType DEF TypeOK
      <4> QED
        BY <4>1, BarsAreFinite, FS_Subset
    <3>3. bars \intersect new = {}
      OBVIOUS
    <3> HIDE DEF new
    <3>4. Cardinality(bars \union new) = Cardinality(bars) + Cardinality(new)
      BY <3>2, <3>3, FS_Union, FS_EmptySet, FS_CardinalityType
    <3> QED
      BY <3>1, <3>4 DEF InventoryExact
  <2>3. CASE Environment
    <3>1. UNCHANGED <<bars, inventory>>
      BY <2>3, ZenonT(60) DEF Environment, JobAction, CreateJob, PauseJob, ResumeJob, CancelJob,
         RecoverJob, RetryJob, DeleteJob, ApiFrame, PlannerExpires, LeaseExpires, TokenExpires,
         LoopFrame
    <3> QED
      BY <2>1, <3>1
  <2>4. ASSUME NEW w \in Workers, LoopStep(w) \/ LoopError(w) \/ ClaimThenError(w) \/ Crash(w)
        PROVE  UNCHANGED <<bars, inventory>>
    BY <2>4, ZenonT(60) DEF LoopStep, WorkerStart, RecoverStaleTasks, ApplyJobControls,
       CancelQuietJobs, NextRunningJob, ClaimTasks, NothingToClaim, GatherReturns,
       FinaliseIfDone, SettleJob, LoopError, ClaimThenError, Crash, LoopFrame
  <2>5. ASSUME NEW w \in Workers, PlanStep(w) \/ PlanFail(w)
        PROVE  UNCHANGED <<bars, inventory>>
    BY <2>5, ZenonT(60) DEF PlanStep, ClaimJobForPlanning, PlanCommit, PlanAnnounced,
       PlanOrphaned, PlanFail, PlannerFrame
  <2>6. ASSUME NEW w \in Workers, NEW t \in Tasks, RunStep(w, t) \/ RunError(w, t) \/ RunEscapes(w, t)
        PROVE  InventoryExact'
    <3>1. CASE ~BulkLoad(w, t)
      <4>1. UNCHANGED <<bars, inventory>>
        BY <2>6, <3>1, ZenonT(60) DEF RunStep, RunBegin, FetchPage, Checkpoint, RejectSymbol,
           PersistQuarantine, Requarantined, CompleteEmpty, ExpiredToken, ResetCheckpoint, Gate,
           StartLoading, RefreshFeatures, CompleteTask, UnlinkStaging, LastEvent, CancelTask,
           PauseTask, LoadError, ClosedClient, RunError, RunEscapes, FailTask
      <4> QED
        BY <2>1, <4>1
    <3> QED
      BY <2>2, <3>1
  <2>7. CASE Disturbance
    <3>1. ASSUME NEW t \in Tasks, LeaseOutlived(t) PROVE UNCHANGED <<bars, inventory>>
      BY <3>1 DEF LeaseOutlived, LoopFrame
    <3> QED
      BY <2>1, <2>4, <2>5, <2>6, <2>7, <3>1 DEF Disturbance
  <2> QED
    BY <2>1, <2>3, <2>4, <2>5, <2>6, <2>7 DEF Next
<1> QED
  BY TypeCorrect, <1>1, <1>2, PTL DEF Spec

-----------------------------------------------------------------------------
(* The loader implements JobLifecycle, for any number of jobs, tasks and   *)
(* workers: every step of an operator, a planner, a worker loop, a         *)
(* coroutine or the clock is a step JobLifecycle permits, or none.  And a  *)
(* job is settled by what its tasks became.                                *)

(* A new status leaves the rest of the job's row, and so its planning mark, alone. *)
LEMMA Relabelled ==
  ASSUME NEW r \in JobRow, NEW s
  PROVE  [r EXCEPT !.status = s].status = s /\ [r EXCEPT !.status = s].planned = r.planned
BY DEF JobRow

(* What a step leaves of the abstract state.                               *)
LEMMA SameStatus == ASSUME job' = job PROVE StatusOf' = StatusOf /\ PlannedOf' = PlannedOf
BY DEF StatusOf, PlannedOf
(* A step that writes no task row leaves every stage as it was.            *)
LEMMA SameStage == ASSUME task' = task, run' = run PROVE StageOf' = StageOf
BY DEF StageOf, Engaged, Closing

(* Nor does one that leaves the status, the claim and the tails alone.     *)
LEMMA StageKept ==
  ASSUME NEW t \in Tasks,
         task'[t].status = task[t].status, task'[t].claimedBy = task[t].claimedBy,
         \A w \in Workers : Closing(w, t)' <=> Closing(w, t)
  PROVE  StageOf'[t] = StageOf[t]
BY DEF StageOf, Engaged

(* A row that only one process writes, the coroutines as they were.        *)
LEMMA RowKept ==
  ASSUME NEW t \in Tasks, task'[t] = task[t],
         \A w \in Workers : run'[w][t] = run[w][t]
  PROVE  StageOf'[t] = StageOf[t]
BY StageKept DEF Closing

Plans(w, j) == wk[w].pc \in {"planning", "announce"} /\ wk[w].job = j

(* The jobs with a planner change only with the loops that plan them.       *)
LEMMA SamePlanner ==
  ASSUME \A w \in Workers, j \in Jobs : Plans(w, j)' <=> Plans(w, j)
  PROVE  PlannerOf' = PlannerOf
BY DEF PlannerOf, Plans

(* A step that moves no worker loop leaves the planners as they were.      *)
LEMMA SameLoops == ASSUME wk' = wk PROVE PlannerOf' = PlannerOf
BY DEF PlannerOf

(* Which rows stand for which stage.                                       *)
LEMMA StageCases ==
  ASSUME TypeOK, NEW t \in Tasks
  PROVE  /\ StageOf[t] = "none" <=> ~TaskExists(t)
         /\ StageOf[t] = "held" <=> Engaged(t)
         /\ StageOf[t] = "open" <=> \/ task[t].status \in {"pending", "failed"}
                                    \/ task[t].status = "staged" /\ task[t].claimedBy = None
         /\ StageOf[t] \in {"closing", "done"} <=> task[t].status = "completed"
         /\ StageOf[t] = "closing" <=> /\ task[t].status = "completed"
                                       /\ \E w \in Workers : Closing(w, t)
         /\ StageOf[t] = "dropped" <=> task[t].status = "cancelled"
<1>1. task[t].status \in TaskStatus \union {"absent"}
  BY DEF TypeOK, TaskRow
<1> QED
  BY <1>1 DEF StageOf, TaskExists, Engaged, TaskStatus

(* A worker that stops planning: the job loses its planner, unless another *)
(* worker plans it too.                                                    *)
LEMMA PlannerLeaves ==
  ASSUME TypeOK, NEW w \in Workers, NEW row, wk' = [wk EXCEPT ![w] = row],
         row.pc \notin {"planning", "announce"}
  PROVE  /\ (\A j \in Jobs : ~Plans(w, j)) => PlannerOf' = PlannerOf
         /\ \A j \in Jobs : Plans(w, j) =>
              /\ PlannerOf[j]
              /\ PlannerOf' = PlannerOf \/ PlannerOf' = [PlannerOf EXCEPT ![j] = FALSE]
<1>1. \A v \in Workers \ {w} : wk'[v] = wk[v]
  BY DEF TypeOK
<1>2. wk'[w] = row
  BY DEF TypeOK
<1>3. \A v \in Workers, j \in Jobs : Plans(v, j)' <=> v # w /\ Plans(v, j)
  BY <1>1, <1>2 DEF Plans
<1>4. ASSUME NEW j \in Jobs, Plans(w, j)
      PROVE  /\ PlannerOf[j]
             /\ PlannerOf' = PlannerOf \/ PlannerOf' = [PlannerOf EXCEPT ![j] = FALSE]
  <2>1. \A i \in Jobs \ {j} : ~Plans(w, i)
    BY <1>4 DEF Plans
  <2>2. \A i \in Jobs \ {j} : (\E v \in Workers : Plans(v, i)') <=> \E v \in Workers : Plans(v, i)
    BY <1>3, <2>1
  <2>3. PlannerOf[j]
    BY <1>4 DEF PlannerOf, Plans
  <2>4. CASE \E v \in Workers : Plans(v, j)'
    BY <1>4, <2>2, <2>4, <1>3 DEF PlannerOf, Plans
  <2>5. CASE ~\E v \in Workers : Plans(v, j)'
    <3> DEFINE P(i) == \E v \in Workers : Plans(v, i)
    <3>1. PlannerOf = [i \in Jobs |-> P(i)] /\ PlannerOf' = [i \in Jobs |-> P(i)']
      BY DEF PlannerOf, Plans
    <3>2. P(j)' = FALSE /\ \A i \in Jobs \ {j} : P(i)' = P(i)
      BY <2>2, <2>5
    <3> HIDE DEF P
    <3>3. PlannerOf' = [PlannerOf EXCEPT ![j] = FALSE]
      BY <3>1, <3>2
    <3> QED
      BY <2>3, <3>3
  <2> QED
    BY <2>3, <2>4, <2>5
<1>5. ASSUME \A j \in Jobs : ~Plans(w, j) PROVE PlannerOf' = PlannerOf
  BY <1>3, <1>5, SamePlanner
<1> QED
  BY <1>4, <1>5

(* Where no row and no coroutine changes, nobody leaves a task.            *)
LEMMA NobodyLeft ==
  ASSUME task' = task, run' = run PROVE Lifecycle!Left
<1>1. StageOf' = [t \in Tasks |-> IF t \in {} THEN "done" ELSE StageOf[t]]
  BY SameStage DEF StageOf
<1>2. {} \in SUBSET {t \in Tasks : StageOf[t] = "closing"}
  OBVIOUS
<1>3. Lifecycle!Restage({}, "done")
  BY <1>1 DEF Lifecycle!Restage
<1> QED
  BY <1>2, <1>3, Zenon DEF Lifecycle!Left

(* A worker leaves its planning or whatever it does; the job it planned    *)
(* stays as it is, or becomes failed.                                      *)
LEMMA LoopLeaves ==
  ASSUME TypeOK, NEW w \in Workers, NEW row, wk' = [wk EXCEPT ![w] = row],
         row.pc \notin {"planning", "announce"}, Lifecycle!Left, overtaken' = overtaken,
         \/ job' = job
         \/ /\ wk[w].pc \in {"planning", "announce"} /\ JobExists(wk[w].job)
            /\ job' = [job EXCEPT ![wk[w].job].status = "failed"]
  PROVE  Lifecycle!Next \/ UNCHANGED Lifecycle!vars
<1>2. CASE \E j \in Jobs : Plans(w, j)
  <2>1. PICK j \in Jobs : Plans(w, j)
    BY <1>2
  <2>2. /\ PlannerOf[j]
        /\ PlannerOf' = PlannerOf \/ PlannerOf' = [PlannerOf EXCEPT ![j] = FALSE]
    BY <2>1, PlannerLeaves
  <2>3. /\ PlannedOf' = PlannedOf
        /\ \/ StatusOf' = StatusOf
           \/ Lifecycle!Exists(j) /\ StatusOf' = [StatusOf EXCEPT ![j] = "failed"]
    <3>1. CASE job' = job
      BY <3>1, SameStatus
    <3>2. CASE JobExists(j) /\ job' = [job EXCEPT ![j].status = "failed"]
      BY <3>2 DEF StatusOf, PlannedOf, TypeOK, JobRow, JobStatus, JobExists, Lifecycle!Exists
    <3> QED
      BY <2>1, <3>1, <3>2 DEF Plans
  <2>4. Lifecycle!Abandon(j)
    BY <2>2, <2>3 DEF Lifecycle!Abandon
  <2> QED
    BY <2>4 DEF Lifecycle!Next
<1>3. CASE \A j \in Jobs : ~Plans(w, j)
  <2>1. PlannerOf' = PlannerOf
    BY <1>3, PlannerLeaves
  <2>2. job' = job
    BY <1>3 DEF Plans, TypeOK
  <2>3. Lifecycle!Leave
    BY <2>1, <2>2, SameStatus DEF Lifecycle!Leave
  <2> QED
    BY <2>3 DEF Lifecycle!Next
<1> QED
  BY <1>2, <1>3

-----------------------------------------------------------------------------
(* A route of the operator is a step of the operator or of recovery, or    *)
(* changes nothing that JobLifecycle sees.                                  *)
LEMMA RefineApi ==
  ASSUME TypeOK, NEW j \in Jobs, JobAction(j)
  PROVE  Lifecycle!Command(j)
<1>1. PlannerOf' = PlannerOf /\ run' = run
  BY SameLoops DEF JobAction, CreateJob, PauseJob, ResumeJob, CancelJob, RecoverJob, RetryJob,
     DeleteJob, ApiFrame
<1>2. ASSUME NEW s, SetStatus(j, s)
      PROVE  /\ StatusOf' = [StatusOf EXCEPT ![j] = s]
             /\ PlannedOf' = PlannedOf
  BY <1>2 DEF SetStatus, StatusOf, PlannedOf, TypeOK, JobRow
<1>3. /\ StatusOf[j] = job[j].status /\ PlannedOf[j] = job[j].planned
      /\ StatusOf[j] \in JobStatus \union {"absent", "deleted"}
      /\ StatusOf[j] \in JobStatus <=> StatusOf[j] \notin {"absent", "deleted"}
  BY DEF StatusOf, PlannedOf, TypeOK, JobRow, JobStatus
<1>4. CASE CreateJob(j)
  <2>1. Lifecycle!Create(j)
    BY <1>1, <1>2, <1>3, <1>4, SameStage
       DEF CreateJob, HistFrame, histVars, Lifecycle!Create, Lifecycle!Move
  <2> QED
    BY <2>1 DEF Lifecycle!Command
<1>5. CASE PauseJob(j)
  <2>1. Lifecycle!Pause(j)
    BY <1>1, <1>2, <1>3, <1>5, SameStage
       DEF PauseJob, HistFrame, histVars, Lifecycle!Pause, Lifecycle!Move
  <2> QED
    BY <2>1 DEF Lifecycle!Command
<1>6. CASE ResumeJob(j)
  <2>1. Lifecycle!Resume(j)
    BY <1>1, <1>2, <1>3, <1>6, SameStage
       DEF ResumeJob, HistFrame, histVars, RestartStatus, Lifecycle!Resume, Lifecycle!Move, Lifecycle!Restart
  <2> QED
    BY <2>1 DEF Lifecycle!Command
<1>7. CASE CancelJob(j)
  <2>1. Lifecycle!Cancel(j)
    BY <1>1, <1>2, <1>3, <1>7, SameStage
       DEF CancelJob, HistFrame, histVars, JobExists, Lifecycle!Cancel, Lifecycle!Exists
  <2> QED
    BY <2>1 DEF Lifecycle!Command
<1>8. CASE RecoverJob(j)
  <2> DEFINE ts == {t \in Tasks : JobOf[t] = j /\ Stale(t)}
  <2>1. \A t \in ts : StageOf[t] = "held" /\ JobOf[t] = j
    BY StageCases DEF Stale
  <2>2. \A t \in Tasks : StageOf'[t] = IF t \in ts THEN "open" ELSE StageOf[t]
    <3>1. ASSUME NEW t \in ts PROVE StageOf'[t] = "open"
      <4>1. task'[t] = Recovered(t)
        BY <1>8 DEF RecoverJob
      <4>2. task'[t].claimedBy = None /\ task'[t].status \in {"pending", "staged"}
        BY <4>1 DEF Recovered, TypeOK, TaskRow
      <4> QED
        BY <4>2 DEF StageOf, Engaged
    <3>2. ASSUME NEW t \in Tasks, t \notin ts PROVE StageOf'[t] = StageOf[t]
      <4>1. task'[t] = task[t]
        BY <1>8, <3>2 DEF RecoverJob
      <4> QED
        BY <1>1, <4>1, RowKept
    <3> QED
      BY <3>1, <3>2
  <2>3. Lifecycle!Restage(ts, "open")
    BY <2>2 DEF Lifecycle!Restage, StageOf
  <2>4. Lifecycle!Move(j, {"running", "pause_requested", "paused"}, "running") /\ PlannedOf' = PlannedOf
    BY <1>2, <1>3, <1>8 DEF RecoverJob, Recoverable, Lifecycle!Move
  <2>5. ts \in SUBSET {t \in Lifecycle!TasksIn(j) : StageOf[t] = "held"}
    BY <2>1 DEF Lifecycle!TasksIn
  <2>6. Lifecycle!Released(ts)
    <3>1. \E xs \in SUBSET ts : overtaken' = overtaken \union xs
      BY <1>8 DEF RecoverJob, Overtake, TasksOf
    <3> QED
      BY <2>3, <3>1 DEF Lifecycle!Released
  <2>7. Lifecycle!Recover(j)
    BY <1>1, <2>4, <2>5, <2>6 DEF Lifecycle!Recover
  <2> QED
    BY <2>7 DEF Lifecycle!Command
<1>9. CASE RetryJob(j)
  <2> DEFINE reset == {t \in TasksOf(j) : job[j].planned /\ task[t].status \in {"failed", "cancelled"}}
             ts == {t \in Lifecycle!TasksIn(j) : PlannedOf[j] /\ StageOf[t] = "dropped"}
  <2>1. \A t \in Tasks : task'[t] = IF t \in reset
                                    THEN [task[t] EXCEPT !.status = "pending", !.attempts = 0,
                                                         !.claimedBy = None,
                                                         !.completedAt = FALSE]
                                    ELSE task[t]
    BY <1>9 DEF RetryJob
  <2>2. \A t \in Tasks : StageOf'[t] = IF t \in ts THEN "open" ELSE StageOf[t]
    <3>1. ASSUME NEW t \in reset PROVE StageOf'[t] = "open"
      <4>1. task'[t].status = "pending"
        BY <2>1, <3>1 DEF TypeOK, TaskRow, TasksOf
      <4> QED
        BY <3>1, <4>1 DEF StageOf, Engaged, TasksOf
    <3>2. \A t \in reset : t \notin ts => StageOf[t] = "open"
      BY <1>3, StageCases DEF TasksOf, Lifecycle!TasksIn
    <3>3. \A t \in ts : t \in reset
      BY <1>3, StageCases DEF TasksOf, Lifecycle!TasksIn
    <3>4. ASSUME NEW t \in Tasks, t \notin reset PROVE StageOf'[t] = StageOf[t]
      <4>1. task'[t] = task[t]
        BY <2>1, <3>4
      <4> QED
        BY <1>1, <4>1, RowKept
    <3> QED
      BY <3>1, <3>2, <3>3, <3>4
  <2>3. Lifecycle!Restage(ts, "open")
    BY <2>2 DEF Lifecycle!Restage, StageOf
  <2>4. Lifecycle!Move(j, {"failed", "cancelled"}, Lifecycle!Restart(j)) /\ PlannedOf' = PlannedOf
    BY <1>2, <1>3, <1>9 DEF RetryJob, RestartStatus, Lifecycle!Move, Lifecycle!Restart
  <2>5. Lifecycle!Retry(j)
    BY <1>1, <1>9, <2>3, <2>4 DEF RetryJob, Lifecycle!Retry
  <2> QED
    BY <2>5 DEF Lifecycle!Command
<1>10. CASE DeleteJob(j)
  <2>1. /\ StatusOf' = [StatusOf EXCEPT ![j] = "deleted"]
        /\ PlannedOf' = [PlannedOf EXCEPT ![j] = FALSE]
    BY <1>10 DEF DeleteJob, StatusOf, PlannedOf, AbsentJob, TypeOK, JobRow
  <2>2. \A t \in Tasks : StageOf'[t] = IF JobOf[t] = j THEN "none" ELSE StageOf[t]
    <3>1. \A t \in Tasks : task'[t] = IF JobOf[t] = j THEN AbsentTask ELSE task[t]
      BY <1>10 DEF DeleteJob
    <3>2. ASSUME NEW t \in Tasks, JobOf[t] = j PROVE StageOf'[t] = "none"
      BY <3>1, <3>2 DEF StageOf, AbsentTask
    <3>3. ASSUME NEW t \in Tasks, JobOf[t] # j PROVE StageOf'[t] = StageOf[t]
      BY <1>1, <3>1, <3>3, RowKept
    <3> QED
      BY <3>2, <3>3
  <2>3. Lifecycle!Restage(Lifecycle!TasksIn(j), "none")
    BY <2>2 DEF Lifecycle!Restage, Lifecycle!TasksIn, StageOf
  <2>4. Lifecycle!Delete(j)
    BY <1>1, <1>3, <1>10, <2>1, <2>3 DEF DeleteJob, HistFrame, histVars, Lifecycle!Delete, Lifecycle!Move
  <2> QED
    BY <2>4 DEF Lifecycle!Command
<1> QED
  BY <1>4, <1>5, <1>6, <1>7, <1>8, <1>9, <1>10 DEF JobAction

-----------------------------------------------------------------------------
(* A planner starts, commits, fails or loses its worker.                   *)
LEMMA RefinePlanner ==
  ASSUME TypeOK, NEW w \in Workers, PlanStep(w) \/ PlanFail(w)
  PROVE  Lifecycle!Next \/ UNCHANGED Lifecycle!vars
<1>0. run' = run /\ overtaken' = overtaken
  BY DEF PlanStep, ClaimJobForPlanning, PlanCommit, PlanAnnounced, PlanOrphaned, PlanFail,
     PlannerFrame, histVars
<1>1. CASE ClaimJobForPlanning(w)
  <2>1. CASE {j \in Jobs : job[j].status = "queued"} = {}
    <3>1. /\ wk[w].pc = "plan" /\ wk' = [wk EXCEPT ![w] = At("pick")]
          /\ job' = job /\ task' = task
      BY <1>1, <2>1 DEF ClaimJobForPlanning
    <3>2. PlannerOf' = PlannerOf
      BY <3>1, SamePlanner DEF Plans, At, TypeOK
    <3> QED
      BY <1>0, <3>1, <3>2, SameStatus, SameStage DEF Lifecycle!vars
  <2>2. CASE {j \in Jobs : job[j].status = "queued"} # {}
    <3>1. PICK j \in Jobs :
            /\ job[j].status = "queued"
            /\ job' = [job EXCEPT ![j].status = "planning", ![j].fresh = TRUE]
            /\ wk' = [wk EXCEPT ![w] = [At("planning") EXCEPT !.job = j]]
      BY <1>1, <2>2 DEF ClaimJobForPlanning
    <3>2. wk[w].pc = "plan" /\ task' = task
      BY <1>1 DEF ClaimJobForPlanning
    <3>3. /\ StatusOf[j] = "queued"
          /\ StatusOf' = [StatusOf EXCEPT ![j] = "planning"]
          /\ PlannedOf' = PlannedOf
      BY <3>1 DEF StatusOf, PlannedOf, TypeOK, JobRow
    <3>4. PlannerOf' = [PlannerOf EXCEPT ![j] = TRUE]
      <4> DEFINE P(i) == \E v \in Workers : Plans(v, i)
      <4>1. \A v \in Workers, i \in Jobs : Plans(v, i)' <=> Plans(v, i) \/ (v = w /\ i = j)
        BY <3>1, <3>2 DEF Plans, At, TypeOK
      <4>2. PlannerOf = [i \in Jobs |-> P(i)] /\ PlannerOf' = [i \in Jobs |-> P(i)']
        BY DEF PlannerOf, Plans
      <4>3. P(j)' = TRUE /\ \A i \in Jobs \ {j} : P(i)' = P(i)
        BY <4>1
      <4> HIDE DEF P
      <4> QED
        BY <4>2, <4>3
    <3>5. Lifecycle!StartPlanning(j)
      BY <1>0, <3>2, <3>3, <3>4, SameStage DEF Lifecycle!StartPlanning, Lifecycle!Move
    <3> QED
      BY <3>5 DEF Lifecycle!Next
  <2> QED
    BY <2>1, <2>2
<1>2. CASE PlanCommit(w)
  <2> DEFINE j == wk[w].job
  <2>1. PlannerOf' = PlannerOf
    <3>1. /\ wk[w].pc = "planning" /\ wk[w] \in LoopRow
          /\ wk' = [wk EXCEPT ![w].pc = "announce"]
      BY <1>2 DEF PlanCommit, TypeOK
    <3>2. wk'[w].pc = "announce" /\ wk'[w].job = wk[w].job
      BY <3>1 DEF LoopRow, TypeOK
    <3>3. \A v \in Workers \ {w} : wk'[v] = wk[v]
      BY <3>1 DEF TypeOK
    <3> QED
      BY <3>1, <3>2, <3>3, SamePlanner DEF Plans
  <2>2. CASE j \in Jobs
    <3>1. PlannerOf[j] /\ Lifecycle!Exists(j) /\ StatusOf[j] = job[j].status
      BY <1>2, <2>2 DEF PlanCommit, PlannerOf, JobExists, JobStatus, Lifecycle!Exists, StatusOf
    <3>2. CASE job[j].status = "cancel_requested"
      <4>1. job' = [job EXCEPT ![j].status = "cancelled"] /\ task' = task
        BY <1>2, <3>2 DEF PlanCommit
      <4>2. StatusOf' = [StatusOf EXCEPT ![j] = "cancelled"] /\ PlannedOf' = PlannedOf
        BY <2>2, <4>1 DEF StatusOf, PlannedOf, TypeOK, JobRow
      <4>3. Lifecycle!Commit(j)
        BY <1>0, <2>1, <3>1, <3>2, <4>1, <4>2, SameStage DEF Lifecycle!Commit, Lifecycle!Move
      <4> QED
        BY <2>2, <4>3 DEF Lifecycle!Next
    <3>3. CASE job[j].status # "cancel_requested"
      <4> DEFINE s == IF job[j].status = "pause_requested" THEN "paused" ELSE "running"
                 ts == {t \in Lifecycle!TasksIn(j) : StageOf[t] = "none"}
                 new(t) == [AbsentTask EXCEPT !.status = "pending", !.symbols = BatchOf[t]]
      <4>1. /\ job' = [job EXCEPT ![j] = [status |-> s, planned |-> TRUE, fresh |-> TRUE]]
            /\ task' = [t \in Tasks |-> IF JobOf[t] = j /\ ~TaskExists(t) THEN new(t) ELSE task[t]]
        BY <1>2, <3>3 DEF PlanCommit
      <4>2. /\ StatusOf' = [StatusOf EXCEPT ![j] = IF @ = "pause_requested" THEN "paused" ELSE "running"]
            /\ PlannedOf' = [PlannedOf EXCEPT ![j] = TRUE]
        BY <2>2, <4>1 DEF StatusOf, PlannedOf, TypeOK
      <4>3. \A t \in Tasks : StageOf'[t] = IF t \in ts THEN "open" ELSE StageOf[t]
        <5>1. \A t \in Tasks : t \in ts <=> JobOf[t] = j /\ ~TaskExists(t)
          BY StageCases DEF Lifecycle!TasksIn
        <5>2. ASSUME NEW t \in Tasks, t \in ts PROVE StageOf'[t] = "open"
          <6>1. task'[t] = new(t)
            BY <4>1, <5>1, <5>2
          <6>2. task'[t].status = "pending"
            BY <6>1 DEF AbsentTask
          <6> QED
            BY <6>2 DEF StageOf, Engaged
        <5>3. ASSUME NEW t \in Tasks, t \notin ts PROVE StageOf'[t] = StageOf[t]
          <6>1. task'[t] = task[t]
            BY <4>1, <5>1, <5>3
          <6> QED
            BY <1>0, <6>1, RowKept
        <5> QED
          BY <5>2, <5>3
      <4>4. Lifecycle!Restage(ts, "open")
        BY <4>3 DEF Lifecycle!Restage, StageOf
      <4>5. Lifecycle!Commit(j)
        BY <1>0, <2>1, <3>1, <3>3, <4>2, <4>4 DEF Lifecycle!Commit
      <4> QED
        BY <2>2, <4>5 DEF Lifecycle!Next
    <3> QED
      BY <3>2, <3>3, Zenon, ZenonT(60)
  <2>3. CASE j \notin Jobs
    <3>1. StatusOf' = StatusOf /\ PlannedOf' = PlannedOf
      <4>1. \E x : job' = [job EXCEPT ![j] = x]
        BY <1>2, Zenon DEF PlanCommit
      <4>2. \A i \in Jobs : job'[i] = job[i]
        BY <2>3, <4>1 DEF TypeOK
      <4> QED
        BY <4>2 DEF StatusOf, PlannedOf
    <3>2. \A t \in Tasks : task'[t] = task[t]
      <4>1. \A t \in Tasks : JobOf[t] # j
        BY <2>3, LoaderAssumption
      <4>2. \/ task' = task
            \/ task' = [t \in Tasks |->
                  IF JobOf[t] = j /\ ~TaskExists(t)
                  THEN [AbsentTask EXCEPT !.status = "pending", !.symbols = BatchOf[t]]
                  ELSE task[t]]
        BY <1>2, Zenon DEF PlanCommit
      <4> QED
        BY <4>1, <4>2
    <3>3. StageOf' = StageOf
      BY <1>0, <3>2 DEF StageOf, Engaged, Closing
    <3> QED
      BY <1>0, <2>1, <3>1, <3>3 DEF Lifecycle!vars
  <2> QED
    BY <2>2, <2>3
<1>3. CASE PlanAnnounced(w) \/ PlanFail(w) \/ PlanOrphaned(w)
  <2>1. At("top").pc \notin {"planning", "announce"}
    BY DEF At
  <2>2. /\ wk' = [wk EXCEPT ![w] = At("top")] /\ task' = task
        /\ \/ job' = job
           \/ /\ wk[w].pc \in {"planning", "announce"} /\ JobExists(wk[w].job)
              /\ job' = [job EXCEPT ![wk[w].job].status = "failed"]
    BY <1>3 DEF PlanAnnounced, PlanFail, PlanOrphaned
  <2> QED
    BY <1>0, <2>1, <2>2, LoopLeaves, NobodyLeft
<1> QED
  BY <1>1, <1>2, <1>3, SMTT(60) DEF PlanStep

-----------------------------------------------------------------------------
(* A loop that moves on without a write is not seen.                        *)
LEMMA StutterLoop ==
  ASSUME TypeOK, NEW w \in Workers, job' = job, task' = task, run' = run,
         overtaken' = overtaken,
         \E row : /\ wk' = [wk EXCEPT ![w] = row]
                  /\ row.pc \notin {"planning", "announce"}
  PROVE  Lifecycle!Next \/ UNCHANGED Lifecycle!vars
BY LoopLeaves, NobodyLeft

(* A claim of open tasks of a job holds them.                              *)
LEMMA RefineClaim ==
  ASSUME TypeOK, NEW w \in Workers, NEW j, Claimed(j) # {}, ClaimRows(w, Claimed(j)),
         job' = job, PlannerOf' = PlannerOf, overtaken' = overtaken,
         \A v \in Workers, t \in Tasks : t \notin Claimed(j) => run'[v][t] = run[v][t]
  PROVE  Lifecycle!Next
<1>1. j \in Jobs
  BY LoaderAssumption DEF Claimed, Claimable, TasksOf
<1>2. \A t \in Claimed(j) : t \in Lifecycle!TasksIn(j) /\ StageOf[t] = "open"
  BY StageCases DEF Claimed, Claimable, TasksOf, Lifecycle!TasksIn
<1>3. \A t \in Tasks : StageOf'[t] = IF t \in Claimed(j) THEN "held" ELSE StageOf[t]
  <2>1. ASSUME NEW t \in Tasks, t \in Claimed(j) PROVE StageOf'[t] = "held"
    <3>1. task'[t].status = "running"
      BY <2>1, ClaimedRow
    <3> QED
      BY <3>1 DEF StageOf, Engaged
  <2>2. ASSUME NEW t \in Tasks, t \notin Claimed(j) PROVE StageOf'[t] = StageOf[t]
    <3>1. task'[t] = task[t]
      BY <2>2 DEF ClaimRows
    <3> QED
      BY <2>2, <3>1, RowKept
  <2> QED
    BY <2>1, <2>2
<1>4. Lifecycle!Restage(Claimed(j), "held")
  BY <1>3 DEF Lifecycle!Restage, StageOf
<1>5. Lifecycle!Claim(j)
  BY <1>2, <1>4, SameStatus DEF Lifecycle!Claim
<1> QED
  BY <1>1, <1>5 DEF Lifecycle!Next

(* A job is quiet when none of its tasks is open or held.                  *)
LEMMA QuietCases ==
  ASSUME TypeOK, NEW j \in Jobs
  PROVE  Lifecycle!Quiet(j) <=> Quiet(j)
BY StageCases DEF Lifecycle!Quiet, Quiet, Lifecycle!TasksIn, TasksOf

(* A step of the worker loop is one of recovery, of a control that falls   *)
(* quiet, of a claim or of the finalisation, or is not seen.                *)
LEMMA RefineLoop ==
  ASSUME TypeOK, PlanInv, NEW w \in Workers,
         LoopStep(w) \/ LoopError(w) \/ ClaimThenError(w) \/ Crash(w)
  PROVE  Lifecycle!Next \/ UNCHANGED Lifecycle!vars
<1>1. CASE WorkerStart(w)
  <2>1. At("boot").pc \notin {"planning", "announce"}
    BY DEF At
  <2> QED
    BY <1>1, <2>1, StutterLoop DEF WorkerStart, LoopFrame, MoveTo, dbVars, histVars
<1>2. CASE RecoverStaleTasks(w)
  <2> DEFINE ts == {t \in Tasks : Stale(t)}
             js == {j \in Jobs : job[j].status = "planning" /\ ~job[j].fresh}
  <2>1. PlannerOf' = PlannerOf
    BY <1>2, SamePlanner DEF RecoverStaleTasks, MoveTo, Plans, At, TypeOK
  <2>2. \A t \in ts : StageOf[t] = "held"
    BY StageCases DEF Stale
  <2>3. \A t \in Tasks : StageOf'[t] = IF t \in ts THEN "open" ELSE StageOf[t]
    <3>1. ASSUME NEW t \in Tasks, t \in ts PROVE StageOf'[t] = "open"
      <4>1. task'[t] = Recovered(t)
        BY <1>2, <3>1 DEF RecoverStaleTasks
      <4>2. task'[t].claimedBy = None /\ task'[t].status \in {"pending", "staged"}
        BY <4>1 DEF Recovered, TypeOK, TaskRow
      <4> QED
        BY <4>2 DEF StageOf, Engaged
    <3>2. ASSUME NEW t \in Tasks, t \notin ts PROVE StageOf'[t] = StageOf[t]
      <4>1. task'[t] = task[t]
        BY <1>2, <3>2 DEF RecoverStaleTasks
      <4> QED
        BY <1>2, <4>1, RowKept DEF RecoverStaleTasks
    <3> QED
      BY <3>1, <3>2
  <2>4. Lifecycle!Released(ts)
    <3>1. Lifecycle!Restage(ts, "open")
      BY <2>3 DEF Lifecycle!Restage, StageOf
    <3>2. \E xs \in SUBSET ts : overtaken' = overtaken \union xs
      BY <1>2 DEF RecoverStaleTasks, Overtake
    <3> QED
      BY <3>1, <3>2 DEF Lifecycle!Released
  <2>5. \A j \in Jobs : /\ job'[j].status = IF j \in js THEN "queued" ELSE job[j].status
                        /\ job'[j].planned = job[j].planned
    <3>1. \A j \in js : ~\E t \in TasksOf(j) : TaskExists(t)
      BY DEF PlanInv
    <3>2. ASSUME NEW j \in js PROVE job'[j] = [job[j] EXCEPT !.status = "queued"]
      BY <1>2, <3>1 DEF RecoverStaleTasks
    <3>3. ASSUME NEW j \in Jobs, j \notin js PROVE job'[j] = job[j]
      BY <1>2, <3>3 DEF RecoverStaleTasks
    <3> HIDE DEF js
    <3>4. ASSUME NEW j \in Jobs PROVE job[j] \in JobRow
      BY DEF TypeOK
    <3>5. ASSUME NEW j \in Jobs, j \in js
          PROVE  job'[j].status = "queued" /\ job'[j].planned = job[j].planned
      <4>1. job'[j] = [job[j] EXCEPT !.status = "queued"]
        BY <3>2, <3>5
      <4>2. /\ [job[j] EXCEPT !.status = "queued"].status = "queued"
            /\ [job[j] EXCEPT !.status = "queued"].planned = job[j].planned
        BY <3>4, <3>5, Relabelled
      <4> QED
        BY <4>1, <4>2
    <3>6. ASSUME NEW j \in Jobs, ~(j \in js)
          PROVE  job'[j].status = job[j].status /\ job'[j].planned = job[j].planned
      BY <3>3, <3>6
    <3> QED
      BY <3>5, <3>6
  <2>6. /\ StatusOf' = [j \in Jobs |-> IF j \in js THEN "queued" ELSE StatusOf[j]]
        /\ PlannedOf' = PlannedOf
    <3> HIDE DEF js
    <3> QED
      BY <2>5 DEF StatusOf, PlannedOf
  <2>7. js \in SUBSET {j \in Jobs : StatusOf[j] = "planning"}
    BY DEF StatusOf
  <2>8. Lifecycle!Release
    BY <2>1, <2>2, <2>4, <2>6, <2>7 DEF Lifecycle!Release
  <2> QED
    BY <2>8 DEF Lifecycle!Next
<1>3. CASE ApplyJobControls(w)
  <2> DEFINE ts == {t \in Tasks : StatusOf[JobOf[t]] = "cancel_requested" /\ StageOf[t] = "open"}
             quiet(j) == job[j].status = "pause_requested" /\ Quiet(j)
  <2>1. PlannerOf' = PlannerOf
    BY <1>3, SamePlanner DEF ApplyJobControls, MoveTo, Plans, At, TypeOK
  <2>2. \A t \in Tasks : t \in ts <=>
          /\ job[JobOf[t]].status = "cancel_requested"
          /\ \/ task[t].status \in {"pending", "failed"}
             \/ task[t].status = "staged" /\ task[t].claimedBy = None
    BY StageCases, LoaderAssumption, SMTT(60) DEF StatusOf
  <2>3. \A t \in Tasks : task'[t] = 
            IF t \in ts THEN [task[t] EXCEPT !.status = "cancelled", !.completedAt = TRUE]
            ELSE task[t]
    BY <1>3, <2>2 DEF ApplyJobControls
  <2>4. \A t \in Tasks : StageOf'[t] = IF t \in ts THEN "dropped" ELSE StageOf[t]
    <3>1. ASSUME NEW t \in Tasks, t \in ts PROVE StageOf'[t] = "dropped"
      <4>1. task'[t].status = "cancelled"
        BY <2>3, <3>1, ZenonT(60) DEF TypeOK, TaskRow
      <4> QED
        BY <4>1 DEF StageOf, Engaged
    <3>2. ASSUME NEW t \in Tasks, t \notin ts PROVE StageOf'[t] = StageOf[t]
      <4>1. task'[t] = task[t]
        BY <2>3, <3>2
      <4> QED
        BY <1>3, <4>1, RowKept DEF ApplyJobControls
    <3> QED
      BY <3>1, <3>2
  <2>5. Lifecycle!Restage(ts, "dropped")
    BY <2>4 DEF Lifecycle!Restage, StageOf
  <2>6. \A j \in Jobs : /\ job'[j].status = IF quiet(j) THEN "paused" ELSE job[j].status
                        /\ job'[j].planned = job[j].planned
    <3>1. \A j \in Jobs : job'[j] = IF quiet(j) THEN [job[j] EXCEPT !.status = "paused"] ELSE job[j]
      BY <1>3 DEF ApplyJobControls
    <3> HIDE DEF quiet
    <3>2. ASSUME NEW j \in Jobs, quiet(j) PROVE job'[j] = [job[j] EXCEPT !.status = "paused"]
      BY <3>1, <3>2
    <3>3. ASSUME NEW j \in Jobs, ~quiet(j) PROVE job'[j] = job[j]
      BY <3>1, <3>3
    <3>4. ASSUME NEW j \in Jobs PROVE job[j] \in JobRow
      BY DEF TypeOK
    <3>5. ASSUME NEW j \in Jobs, quiet(j)
          PROVE  job'[j].status = "paused" /\ job'[j].planned = job[j].planned
      <4>1. job'[j] = [job[j] EXCEPT !.status = "paused"]
        BY <3>2, <3>5
      <4>2. /\ [job[j] EXCEPT !.status = "paused"].status = "paused"
            /\ [job[j] EXCEPT !.status = "paused"].planned = job[j].planned
        BY <3>4, <3>5, Relabelled
      <4> QED
        BY <4>1, <4>2
    <3>6. ASSUME NEW j \in Jobs, ~(quiet(j))
          PROVE  job'[j].status = job[j].status /\ job'[j].planned = job[j].planned
      BY <3>3, <3>6
    <3> QED
      BY <3>5, <3>6
  <2>7. /\ StatusOf' = [j \in Jobs |-> IF StatusOf[j] = "pause_requested" /\ Lifecycle!Quiet(j)
                                       THEN "paused" ELSE StatusOf[j]]
        /\ PlannedOf' = PlannedOf
    <3>1. \A j \in Jobs : quiet(j) <=> StatusOf[j] = "pause_requested" /\ Lifecycle!Quiet(j)
      BY QuietCases, SMTT(60) DEF StatusOf
    <3> HIDE DEF quiet
    <3> QED
      BY <2>6, <3>1 DEF StatusOf, PlannedOf
  <2>8. Lifecycle!PauseQuiet
    BY <1>3, <2>1, <2>5, <2>7 DEF ApplyJobControls, LoopFrame, histVars, Lifecycle!PauseQuiet
  <2> QED
    BY <2>8 DEF Lifecycle!Next
<1>4. CASE CancelQuietJobs(w)
  <2> DEFINE quiet(j) == job[j].status = "cancel_requested" /\ Quiet(j)
  <2>1. PlannerOf' = PlannerOf
    BY <1>4, SamePlanner DEF CancelQuietJobs, MoveTo, Plans, At, TypeOK
  <2>2. StageOf' = StageOf
    BY <1>4, SameStage DEF CancelQuietJobs
  <2>3. \A j \in Jobs : /\ job'[j].status = IF quiet(j) THEN "cancelled" ELSE job[j].status
                        /\ job'[j].planned = job[j].planned
    <3>1. \A j \in Jobs : job'[j] = IF quiet(j) THEN [job[j] EXCEPT !.status = "cancelled"] ELSE job[j]
      BY <1>4 DEF CancelQuietJobs
    <3> HIDE DEF quiet
    <3>2. ASSUME NEW j \in Jobs, quiet(j) PROVE job'[j] = [job[j] EXCEPT !.status = "cancelled"]
      BY <3>1, <3>2
    <3>3. ASSUME NEW j \in Jobs, ~quiet(j) PROVE job'[j] = job[j]
      BY <3>1, <3>3
    <3>4. ASSUME NEW j \in Jobs PROVE job[j] \in JobRow
      BY DEF TypeOK
    <3>5. ASSUME NEW j \in Jobs, quiet(j)
          PROVE  job'[j].status = "cancelled" /\ job'[j].planned = job[j].planned
      <4>1. job'[j] = [job[j] EXCEPT !.status = "cancelled"]
        BY <3>2, <3>5
      <4>2. /\ [job[j] EXCEPT !.status = "cancelled"].status = "cancelled"
            /\ [job[j] EXCEPT !.status = "cancelled"].planned = job[j].planned
        BY <3>4, <3>5, Relabelled
      <4> QED
        BY <4>1, <4>2
    <3>6. ASSUME NEW j \in Jobs, ~(quiet(j))
          PROVE  job'[j].status = job[j].status /\ job'[j].planned = job[j].planned
      BY <3>3, <3>6
    <3> QED
      BY <3>5, <3>6
  <2>4. /\ StatusOf' = [j \in Jobs |-> IF StatusOf[j] = "cancel_requested" /\ Lifecycle!Quiet(j)
                                       THEN "cancelled" ELSE StatusOf[j]]
        /\ PlannedOf' = PlannedOf
    <3>1. \A j \in Jobs : quiet(j) <=> StatusOf[j] = "cancel_requested" /\ Lifecycle!Quiet(j)
      BY QuietCases DEF StatusOf
    <3> HIDE DEF quiet
    <3> QED
      BY <2>3, <3>1 DEF StatusOf, PlannedOf
  <2>5. Lifecycle!CancelQuiet
    BY <1>4, <2>1, <2>2, <2>4 DEF CancelQuietJobs, LoopFrame, histVars, Lifecycle!CancelQuiet
  <2> QED
    BY <2>5 DEF Lifecycle!Next
<1>5. CASE NextRunningJob(w)
  <2>1. \E row : MoveTo(w, row) /\ row.pc \notin {"planning", "announce"}
    <3>1. CASE \E j \in Jobs : Workable(j)
      <4>1. PICK j \in Jobs : MoveTo(w, [At("claim") EXCEPT !.job = j])
        BY <1>5, <3>1 DEF NextRunningJob
      <4>2. [At("claim") EXCEPT !.job = j].pc \notin {"planning", "announce"}
        BY DEF At
      <4> QED
        BY <4>1, <4>2
    <3>2. CASE ~\E j \in Jobs : Workable(j)
      <4>1. MoveTo(w, At("top"))
        BY <1>5, <3>2 DEF NextRunningJob
      <4>2. At("top").pc \notin {"planning", "announce"}
        BY DEF At
      <4> QED
        BY <4>1, <4>2
    <3> QED
      BY <3>1, <3>2
  <2> QED
    BY <1>5, <2>1, StutterLoop DEF NextRunningJob, LoopFrame, MoveTo, dbVars,
       histVars
<1>6. CASE ClaimTasks(w)
  <2>1. PlannerOf' = PlannerOf
    BY <1>6, SamePlanner DEF ClaimTasks, MoveTo, Plans, At, TypeOK
  <2>2. ASSUME NEW v \in Workers, NEW t \in Tasks, t \notin Claimed(wk[w].job)
        PROVE  run'[v][t] = run[v][t]
    BY <1>6, <2>2 DEF ClaimTasks, TypeOK
  <2>3. /\ Claimed(wk[w].job) # {} /\ ClaimRows(w, Claimed(wk[w].job))
        /\ job' = job /\ overtaken' = overtaken
    BY <1>6 DEF ClaimTasks, LoopFrame, histVars
  <2> QED
    BY <2>1, <2>2, <2>3, RefineClaim
<1>7. CASE ClaimThenError(w)
  <2>1. PlannerOf' = PlannerOf
    BY <1>7, SamePlanner DEF ClaimThenError, MoveTo, Plans, At, TypeOK
  <2> QED
    BY <1>7, <2>1, RefineClaim DEF ClaimThenError, LoopFrame, histVars
<1>8. CASE NothingToClaim(w)
  <2>1. [wk[w] EXCEPT !.pc = "finalise"].pc \notin {"planning", "announce"}
    BY DEF TypeOK, LoopRow
  <2> QED
    BY <1>8, <2>1, StutterLoop DEF NothingToClaim, LoopFrame, MoveTo, dbVars,
       histVars
<1>9. CASE GatherReturns(w)
  <2>1. [At("finalise") EXCEPT !.job = wk[w].job].pc \notin {"planning", "announce"}
    BY DEF At
  <2> QED
    BY <1>9, <2>1, StutterLoop DEF GatherReturns, LoopFrame, MoveTo, dbVars,
       histVars
<1>10. CASE FinaliseIfDone(w)
  <2>1. \E row : MoveTo(w, row) /\ row.pc \notin {"planning", "announce"}
    <3>1. CASE Settled(wk[w].job)
      <4> DEFINE row == [At("outcome") EXCEPT !.job = wk[w].job,
                           !.outcome = IF \E t \in TasksOf(wk[w].job) : Exhausted(t)
                                       THEN "failed" ELSE "completed"]
      <4>1. MoveTo(w, row)
        BY <1>10, <3>1 DEF FinaliseIfDone
      <4>2. row.pc = "outcome"
        BY DEF At
      <4> QED
        BY <4>1, <4>2
    <3>2. CASE ~Settled(wk[w].job)
      <4>1. MoveTo(w, At("top"))
        BY <1>10, <3>2 DEF FinaliseIfDone
      <4>2. At("top").pc = "top"
        BY DEF At
      <4> QED
        BY <4>1, <4>2
    <3> QED
      BY <3>1, <3>2
  <2> QED
    BY <1>10, <2>1, StutterLoop DEF FinaliseIfDone, LoopFrame, MoveTo, dbVars,
       histVars
<1>11. CASE SettleJob(w)
  <2> DEFINE j == wk[w].job
  <2>1. PlannerOf' = PlannerOf
    BY <1>11, SamePlanner DEF SettleJob, MoveTo, Plans, At, TypeOK
  <2>2. StageOf' = StageOf
    BY <1>11, SameStage DEF SettleJob
  <2>a. overtaken' = overtaken
    BY <1>11 DEF SettleJob, LoopFrame, histVars
  <2>3. wk[w].outcome \in {"running", "completed", "failed"}
    BY DEF TypeOK, LoopRow
  <2>4. CASE j \in Jobs /\ job[j].status = "running" /\ wk[w].outcome # "running"
    <3>1. job' = [job EXCEPT ![j].status = wk[w].outcome]
      BY <1>11, <2>4 DEF SettleJob
    <3>2. /\ StatusOf[j] = "running" /\ StatusOf' = [StatusOf EXCEPT ![j] = wk[w].outcome]
          /\ PlannedOf' = PlannedOf
      BY <2>4, <3>1 DEF StatusOf, PlannedOf, TypeOK, JobRow
    <3>3. Lifecycle!Finish(j)
      BY <2>1, <2>2, <2>a, <2>3, <2>4, <3>2 DEF Lifecycle!Finish, Lifecycle!Move
    <3> QED
      BY <2>4, <3>3 DEF Lifecycle!Next
  <2>5. CASE ~(j \in Jobs /\ job[j].status = "running" /\ wk[w].outcome # "running")
    <3>1. ASSUME job[j].status = "running" PROVE job' = job
      <4>1. job' = [job EXCEPT ![j].status = wk[w].outcome]
        BY <1>11, <3>1 DEF SettleJob
      <4>2. CASE j \in Jobs
        <5>1. [job[j] EXCEPT !.status = "running"] = job[j]
          BY <3>1, <4>2 DEF TypeOK, JobRow
        <5> QED
          BY <2>5, <3>1, <4>1, <4>2, <5>1 DEF TypeOK
      <4>3. CASE j \notin Jobs
        BY <4>1, <4>3 DEF TypeOK
      <4> QED
        BY <4>2, <4>3
    <3>2. ASSUME job[j].status # "running" PROVE job' = job
      BY <1>11, <3>2 DEF SettleJob
    <3>3. job' = job
      BY <3>1, <3>2
    <3> QED
      BY <2>1, <2>2, <2>a, <3>3, SameStatus DEF Lifecycle!vars
  <2> QED
    BY <2>4, <2>5
<1>12. CASE LoopError(w)
  <2>1. At("top").pc \notin {"planning", "announce"}
    BY DEF At
  <2> QED
    BY <1>12, <2>1, StutterLoop, Zenon DEF LoopError, LoopFrame, MoveTo, dbVars,
       histVars
<1>13. CASE Crash(w)
  <2>1. At("down").pc \notin {"planning", "announce"}
    BY DEF At
  <2>2. /\ wk' = [wk EXCEPT ![w] = At("down")] /\ task' = task /\ job' = job
        /\ run' = [run EXCEPT ![w] = [t \in Tasks |-> Idle]] /\ overtaken' = overtaken
    BY <1>13, Zenon DEF Crash, MoveTo, LoopFrame, dbVars, histVars
  <2> DEFINE ts == {t \in Tasks : StageOf[t] = "closing" /\ StageOf'[t] # "closing"}
  <2>3. ASSUME NEW t \in Tasks
        PROVE  StageOf'[t] = IF t \in ts THEN "done" ELSE StageOf[t]
    <3>1. \A v \in Workers : Closing(v, t)' => Closing(v, t)
      BY <2>2 DEF Closing, ClosingPc, Idle, TypeOK
    <3>2. task'[t] = task[t]
      BY <2>2
    <3> QED
      BY <3>1, <3>2 DEF StageOf, Engaged
  <2>4. Lifecycle!Restage(ts, "done")
    BY <2>3 DEF Lifecycle!Restage, StageOf
  <2>5. Lifecycle!Left
    <3>1. ts \in SUBSET {t \in Tasks : StageOf[t] = "closing"}
      OBVIOUS
    <3> HIDE DEF ts
    <3> QED
      BY <2>4, <3>1, Zenon DEF Lifecycle!Left
  <2> QED
    BY <2>1, <2>2, <2>5, LoopLeaves
<1> QED
  BY <1>1, <1>2, <1>3, <1>4, <1>5, <1>6, <1>7, <1>8, <1>9, <1>10, <1>11, <1>12, <1>13 DEF LoopStep

-----------------------------------------------------------------------------
(* The tail of a coroutine ends, goes on, or takes the completion back.    *)
LEMMA ClosingStep ==
  ASSUME TypeOK, NEW w \in Workers, NEW t \in Tasks, Closing(w, t),
         RunStep(w, t) \/ RunError(w, t) \/ RunEscapes(w, t)
  PROVE  task' = task \/ (TaskExists(t) => task'[t].status = "failed")
<1>1. run[w][t].pc \in ClosingPc
  BY DEF Closing
<1>2. CASE UnlinkStaging(w, t) \/ LastEvent(w, t) \/ RunEscapes(w, t)
  BY <1>2 DEF UnlinkStaging, LastEvent, RunEscapes
<1>3. CASE RunError(w, t)
  <2>1. UpdateTask(t, [task[t] EXCEPT !.status = "failed", !.fresh = TRUE])
    BY <1>3 DEF RunError, FailTask
  <2>2. TaskExists(t) => task'[t] = [task[t] EXCEPT !.status = "failed", !.fresh = TRUE]
    BY <2>1 DEF UpdateTask, TypeOK
  <2>3. [task[t] EXCEPT !.status = "failed", !.fresh = TRUE].status = "failed"
    BY DEF TypeOK, TaskRow
  <2> QED
    BY <2>2, <2>3
<1>4. CASE RunStep(w, t) /\ ~UnlinkStaging(w, t) /\ ~LastEvent(w, t)
  BY <1>1, <1>4 DEF RunStep, RunBegin, FetchPage, Checkpoint, RejectSymbol, PersistQuarantine,
     Requarantined, CompleteEmpty, ExpiredToken, ResetCheckpoint, Gate, StartLoading, BulkLoad,
     RefreshFeatures, CompleteTask, CancelTask, PauseTask, LoadError, ClosedClient, ClosingPc
<1> QED
  BY <1>2, <1>3, <1>4

(* A coroutine works on the task it holds, or ends what follows its        *)
(* completion: the step settles that task, or nobody sees it.              *)
LEMMA RefineRunner ==
  ASSUME TypeOK, ClaimInv, TypeOK', NEW w \in Workers, NEW t \in Tasks,
         RunStep(w, t) \/ RunError(w, t) \/ RunEscapes(w, t)
  PROVE  Lifecycle!Next \/ UNCHANGED Lifecycle!vars
<1>1. PlannerOf' = PlannerOf
  <2>1. CASE RunStep(w, t)
    <3>1. RunnerFrame
      BY <2>1, Zenon DEF RunStep, FailTask, RunBegin, FetchPage, Checkpoint, RejectSymbol,
         PersistQuarantine, Requarantined, CompleteEmpty, ExpiredToken, ResetCheckpoint, Gate,
         StartLoading, BulkLoad, RefreshFeatures, CompleteTask, UnlinkStaging, LastEvent,
         CancelTask, PauseTask, LoadError, ClosedClient
    <3> QED
      BY <3>1, SameLoops, Zenon DEF RunnerFrame
  <2>2. CASE RunError(w, t)
    <3>1. RunnerFrame
      BY <2>2 DEF RunError, FailTask
    <3> QED
      BY <3>1, SameLoops, Zenon DEF RunnerFrame
  <2>3. CASE RunEscapes(w, t)
    <3>1. CASE wk' = wk
      BY <3>1, SameLoops
    <3>2. CASE wk' # wk
      <4>1. wk[w].pc = "gather" /\ wk' = [wk EXCEPT ![w] = At("top")]
        BY <2>3, <3>2 DEF RunEscapes, Awaited
      <4> QED
        BY <4>1, SamePlanner DEF Plans, At, TypeOK
    <3> QED
      BY <3>1, <3>2
  <2> QED
    BY <2>1, <2>2, <2>3
<1>2. StatusOf' = StatusOf /\ PlannedOf' = PlannedOf /\ overtaken' = overtaken
  BY RunnerStep, SameStatus
<1>3. \A u \in Tasks \ {t} : StageOf'[u] = StageOf[u]
  BY RunnerStep, RowKept
<1>4. ASSUME StageOf'[t] = StageOf[t]
      PROVE  UNCHANGED Lifecycle!vars
  <2>1. StageOf' = StageOf
    BY <1>3, <1>4 DEF StageOf
  <2> QED
    BY <1>1, <1>2, <2>1 DEF Lifecycle!vars
<1>5. ASSUME NEW s, StageOf'[t] = s
      PROVE  StageOf' = [StageOf EXCEPT ![t] = s]
  <2>1. StageOf = [u \in Tasks |-> StageOf[u]] /\ StageOf' = [u \in Tasks |-> StageOf'[u]]
    BY DEF StageOf
  <2>2. \A u \in Tasks : StageOf'[u] = IF u = t THEN s ELSE StageOf[u]
    BY <1>3, <1>5
  <2> QED
    BY <2>1, <2>2
<1>6. CASE ~TaskExists(t)
  BY <1>4, <1>6, RunnerStep DEF StageOf, TaskExists
<1>7. CASE ~Writing(w, t)
  <2>1. task' = task /\ ~Writing(w, t)'
    BY <1>7, RunnerStep
  <2>2. \A v \in Workers : Closing(v, t) => Writing(v, t)
    BY DEF Writing, Closing, Live, ClosingPc, LeavingPc
  <2>3. Closing(w, t)' => Writing(w, t)'
    BY DEF Writing, Closing, Live, ClosingPc, LeavingPc
  <2>4. \A v \in Workers \ {w} : run'[v][t] = run[v][t]
    BY RunnerStep
  <2>5. \A v \in Workers : Closing(v, t)' <=> Closing(v, t)
    BY <1>7, <2>1, <2>2, <2>3, <2>4 DEF Closing
  <2> QED
    BY <1>4, <2>1, <2>5, StageKept
<1>8. CASE TaskExists(t) /\ Writing(w, t)
  <2>1. StageOf'[t] \in Lifecycle!Stages
    BY <1>8, RunnerStep DEF StageOf, TaskExists, Lifecycle!Stages
  <2>2. ASSUME t \in overtaken
        PROVE  Lifecycle!Settle(t)
    <3>1. StageOf[t] # "none"
      BY <1>8, StageCases
    <3> QED
      BY <1>1, <1>2, <1>5, <2>1, <2>2, <3>1 DEF Lifecycle!Settle
  <2>3. ASSUME t \notin overtaken
        PROVE  RowHeld(w, t) /\ \A v \in Workers \ {w} : ~Writing(v, t)
    BY <1>8, <2>3 DEF ClaimInv, Claimed1
  <2>4. CASE t \notin overtaken /\ Working(w, t)
    <3>1. StageOf[t] = "held"
      BY <2>3, <2>4, StageCases DEF RowHeld, Holds
    <3>2. CASE StageOf'[t] = "held"
      BY <1>4, <3>1, <3>2
    <3>3. CASE StageOf'[t] # "held"
      <4>1. StageOf'[t] \in {"open", "closing", "done", "dropped"}
        BY <2>1, <3>3 DEF Lifecycle!Stages
      <4>2. Lifecycle!Settle(t)
        BY <1>1, <1>2, <1>5, <3>1, <4>1 DEF Lifecycle!Settle
      <4> QED
        BY <4>2 DEF Lifecycle!Next
    <3> QED
      BY <3>2, <3>3
  <2>5. CASE t \notin overtaken /\ Closing(w, t)
    <3>1. StageOf[t] = "closing" /\ task[t].status = "completed"
      BY <2>3, <2>5, StageCases DEF RowHeld
    <3>2. CASE task' = task
      <4>1. StageOf'[t] \in {"closing", "done"}
        BY <3>1, <3>2 DEF StageOf, Engaged
      <4>2. CASE StageOf'[t] = "closing"
        BY <1>4, <3>1, <4>2
      <4>3. CASE StageOf'[t] = "done"
        <5>1. StageOf' = [u \in Tasks |-> IF u \in {t} THEN "done" ELSE StageOf[u]]
          BY <1>3, <4>3 DEF StageOf
        <5>2. {t} \in SUBSET {u \in Tasks : StageOf[u] = "closing"}
          BY <3>1
        <5>3. Lifecycle!Restage({t}, "done")
          BY <5>1 DEF Lifecycle!Restage
        <5>4. Lifecycle!Left
          BY <5>2, <5>3, Zenon DEF Lifecycle!Left
        <5>5. Lifecycle!Leave
          BY <1>1, <1>2, <5>4 DEF Lifecycle!Leave
        <5> QED
          BY <5>5 DEF Lifecycle!Next
      <4> QED
        BY <4>1, <4>2, <4>3
    <3>3. CASE task'[t].status = "failed"
      <4>1. StageOf'[t] = "open"
        BY <3>3 DEF StageOf, Engaged
      <4>2. Lifecycle!Settle(t)
        BY <1>1, <1>2, <1>5, <3>1, <4>1 DEF Lifecycle!Settle
      <4> QED
        BY <4>2 DEF Lifecycle!Next
    <3> QED
      BY <1>8, <2>5, <3>2, <3>3, ClosingStep
  <2> QED
    BY <1>8, <2>2, <2>4, <2>5 DEF Working, Lifecycle!Next
<1> QED
  BY <1>6, <1>7, <1>8

(* Time passes: the heartbeats are not part of the promise.                *)
LEMMA RefineLease ==
  ASSUME TypeOK,
         \/ \E t \in Tasks : LeaseExpires(t) \/ LeaseOutlived(t) \/ TokenExpires(t)
         \/ \E j \in Jobs : PlannerExpires(j)
  PROVE  UNCHANGED Lifecycle!vars
<1>1. PlannerOf' = PlannerOf
  BY SameLoops, Zenon DEF LeaseExpires, LeaseOutlived, TokenExpires, PlannerExpires, dbVars
<1>2. \A t \in Tasks : task'[t].status = task[t].status /\ task'[t].claimedBy = task[t].claimedBy
  <2>1. task' = task \/ \E q \in Tasks : task' = [task EXCEPT ![q].fresh = FALSE]
    BY Zenon DEF LeaseExpires, LeaseOutlived, TokenExpires, PlannerExpires, dbVars
  <2> QED
    BY <2>1 DEF TypeOK, TaskRow
<1>3. \A j \in Jobs : job'[j].status = job[j].status /\ job'[j].planned = job[j].planned
  <2>1. job' = job \/ \E i \in Jobs : job' = [job EXCEPT ![i].fresh = FALSE]
    BY Zenon DEF LeaseExpires, LeaseOutlived, TokenExpires, PlannerExpires, dbVars
  <2> QED
    BY <2>1 DEF TypeOK, JobRow
<1>4. run' = run /\ overtaken' = overtaken
  BY Zenon DEF LeaseExpires, LeaseOutlived, TokenExpires, PlannerExpires, LoopFrame, histVars
<1>5. StageOf' = StageOf
  BY <1>2, <1>4 DEF StageOf, Engaged, Closing
<1>6. StatusOf' = StatusOf /\ PlannedOf' = PlannedOf
  BY <1>3 DEF StatusOf, PlannedOf
<1> QED
  BY <1>1, <1>4, <1>5, <1>6 DEF Lifecycle!vars

-----------------------------------------------------------------------------
(* Whatever workers race, stop, fail or outlive their leases, the loader   *)
(* moves jobs and tasks as JobLifecycle promises.                          *)
THEOREM LoaderImplementsLifecycle == Spec => ImplementsLifecycle
<1>1. Init => Lifecycle!Init
  <2> SUFFICES ASSUME Init PROVE Lifecycle!Init
    OBVIOUS
  <2>1. StatusOf = [j \in Jobs |-> "absent"] /\ PlannedOf = [j \in Jobs |-> FALSE]
    BY DEF Init, StatusOf, PlannedOf, AbsentJob
  <2>2. PlannerOf = [j \in Jobs |-> FALSE]
    <3>1. \A j \in Jobs, w \in Workers : ~Plans(w, j)
      BY DEF Init, Plans, At
    <3> QED
      BY <3>1 DEF PlannerOf, Plans
  <2>3. StageOf = [t \in Tasks |-> "none"]
    BY DEF Init, StageOf, AbsentTask
  <2>4. overtaken = {}
    BY DEF Init
  <2> QED
    BY <2>1, <2>2, <2>3, <2>4 DEF Lifecycle!Init
<1>2. TypeOK /\ ClaimInv /\ PlanInv /\ TypeOK' /\ [Next]_vars => [Lifecycle!Next]_(Lifecycle!vars)
  <2> SUFFICES ASSUME TypeOK, ClaimInv, PlanInv, TypeOK', [Next]_vars
               PROVE  Lifecycle!Next \/ UNCHANGED Lifecycle!vars
    OBVIOUS
  <2>1. CASE UNCHANGED vars
    BY <2>1, SameStatus, SameStage, SameLoops DEF vars, dbVars, histVars, Lifecycle!vars
  <2>2. CASE Environment
    <3>1. ASSUME NEW j \in Jobs, JobAction(j) PROVE Lifecycle!Next
      BY <3>1, RefineApi DEF Lifecycle!Next
    <3> QED
      BY <2>2, <3>1, RefineLease DEF Environment
  <2>3. CASE Disturbance
    BY <2>3, RefinePlanner, RefineLoop, RefineRunner, RefineLease DEF Disturbance
  <2> QED
    BY <2>1, <2>2, <2>3, RefinePlanner, RefineLoop, RefineRunner DEF Next
<1>3. Spec => [](TypeOK /\ ClaimInv /\ PlanInv)
  BY TypeCorrect, ClaimInvariant, PlanInvariant, PTL
<1> QED
  BY <1>1, <1>2, <1>3, PTL DEF Spec, ImplementsLifecycle, Lifecycle!Spec

-----------------------------------------------------------------------------
(* SettledJobIsDone: the SELECT of finalise_if_done and its UPDATE are two *)
(* statements, so what the first one counts must survive every step of     *)
(* anyone until the second.                                                *)
USE DEF vars, dbVars, dataVars, histVars, budgetVars

(* A completed row has been stamped, and only a row can be.                *)
DoneInv ==
  \A t \in Tasks : /\ task[t].status = "completed" => task[t].completedAt
                   /\ task[t].completedAt => TaskExists(t)

(* What a step may do with a row: a completed one is stamped; and while    *)
(* the operator does not retry its job, the stamp stays and a task with    *)
(* nothing left to do stays so, unless it is overtaken.                    *)
Rests(t) ==
  /\ task'[t].status = "completed" => task'[t].completedAt
  /\ task'[t].completedAt => TaskExists(t)'
  /\ TaskExists(t)' /\ ~RetryJob(JobOf[t]) =>
       /\ task[t].completedAt => task'[t].completedAt
       /\ t \notin overtaken' =>
            /\ task[t].status = "cancelled" => task'[t].status = "cancelled"
            /\ Exhausted(t) => \/ /\ task'[t].status = "failed"
                                  /\ task'[t].attempts = task[t].attempts
                               \/ task'[t].status = "cancelled"

(* A row nobody writes rests.                                              *)
LEMMA RestsUnchanged ==
  ASSUME DoneInv, NEW t \in Tasks, task'[t] = task[t] PROVE Rests(t)
BY DEF DoneInv, Rests, Exhausted, TaskExists

(* The same of a row that keeps its stamp and is neither cancelled nor     *)
(* spent, nor becomes completed.                                           *)
LEMMA RestsStamped ==
  ASSUME DoneInv, NEW t \in Tasks, TaskExists(t)',
         task'[t].completedAt = task[t].completedAt, task'[t].status # "completed",
         task[t].status # "cancelled", ~Exhausted(t)
  PROVE  Rests(t)
BY DEF DoneInv, Rests, TaskExists

(* A released lease takes nothing back.                                    *)
LEMMA RestsRecovered ==
  ASSUME TypeOK, DoneInv, NEW t \in Tasks, Stale(t), task'[t] = Recovered(t)
  PROVE  Rests(t)
<1>1. task[t].status # "cancelled" /\ ~Exhausted(t)
  BY DEF Stale, Engaged, Exhausted
<1>2. /\ Recovered(t).status \in {"pending", "staged"}
      /\ Recovered(t).completedAt = task[t].completedAt
  BY DEF Recovered, TypeOK, TaskRow
<1> QED
  BY <1>1, <1>2, RestsStamped DEF TaskExists

(* Operator commands: recover releases stale leases only, retry is the     *)
(* exception.                                                              *)
LEMMA RestsApi ==
  ASSUME TypeOK, DoneInv, NEW j \in Jobs, JobAction(j), NEW t \in Tasks
  PROVE  Rests(t)
<1>1. CASE CreateJob(j) \/ PauseJob(j) \/ ResumeJob(j) \/ CancelJob(j)
  BY <1>1, RestsUnchanged DEF CreateJob, PauseJob, ResumeJob, CancelJob
<1>2. CASE RecoverJob(j)
  <2>1. task'[t] = task[t] \/ (Stale(t) /\ task'[t] = Recovered(t))
    BY <1>2 DEF RecoverJob
  <2> QED
    BY <2>1, RestsUnchanged, RestsRecovered
<1>3. CASE RetryJob(j)
  <2>1. CASE task'[t] = task[t]
    BY <2>1, RestsUnchanged
  <2>2. CASE task'[t] # task[t]
    <3>1. /\ JobOf[t] = j
          /\ task'[t] = [task[t] EXCEPT !.status = "pending", !.attempts = 0,
                                        !.claimedBy = None, !.completedAt = FALSE]
      BY <1>3, <2>2 DEF RetryJob, TasksOf
    <3>2. task'[t].status = "pending" /\ task'[t].completedAt = FALSE
      BY <3>1 DEF TypeOK, TaskRow
    <3> QED
      BY <1>3, <3>1, <3>2 DEF Rests
  <2> QED
    BY <2>1, <2>2
<1>4. CASE DeleteJob(j)
  <2>1. task'[t] = task[t] \/ task'[t] = AbsentTask
    BY <1>4 DEF DeleteJob
  <2> QED
    BY <2>1, RestsUnchanged DEF Rests, TaskExists, AbsentTask
<1> QED
  BY <1>1, <1>2, <1>3, <1>4 DEF JobAction

(* A plan leaves the rows alone that exist.                                *)
LEMMA RestsPlanner ==
  ASSUME DoneInv, NEW w \in Workers, PlanStep(w) \/ PlanFail(w), NEW t \in Tasks
  PROVE  Rests(t)
<1>1. \/ task'[t] = task[t]
      \/ /\ ~TaskExists(t)
         /\ task'[t] = [AbsentTask EXCEPT !.status = "pending", !.symbols = BatchOf[t]]
  BY DEF PlanStep, ClaimJobForPlanning, PlanCommit, PlanAnnounced, PlanOrphaned, PlanFail
<1>2. [AbsentTask EXCEPT !.status = "pending", !.symbols = BatchOf[t]].status = "pending"
      /\ [AbsentTask EXCEPT !.status = "pending", !.symbols = BatchOf[t]].completedAt = FALSE
  BY DEF AbsentTask
<1>3. ~TaskExists(t) => ~task[t].completedAt /\ task[t].status # "cancelled" /\ ~Exhausted(t)
  BY DEF DoneInv, TaskExists, Exhausted
<1> QED
  BY <1>1, <1>2, <1>3, RestsUnchanged DEF Rests, TaskExists

(* The worker's loop may cancel a spent task and claims none.              *)
LEMMA RestsLoop ==
  ASSUME TypeOK, DoneInv, NEW w \in Workers,
         LoopStep(w) \/ LoopError(w) \/ ClaimThenError(w) \/ Crash(w), NEW t \in Tasks
  PROVE  Rests(t)
<1>1. CASE RecoverStaleTasks(w)
  <2>1. task'[t] = task[t] \/ (Stale(t) /\ task'[t] = Recovered(t))
    BY <1>1 DEF RecoverStaleTasks
  <2> QED
    BY <2>1, RestsUnchanged, RestsRecovered
<1>2. CASE ApplyJobControls(w)
  <2>1. \/ task'[t] = task[t]
        \/ task'[t] = [task[t] EXCEPT !.status = "cancelled", !.completedAt = TRUE]
    BY <1>2 DEF ApplyJobControls
  <2>2. /\ [task[t] EXCEPT !.status = "cancelled", !.completedAt = TRUE].status = "cancelled"
        /\ [task[t] EXCEPT !.status = "cancelled", !.completedAt = TRUE].completedAt = TRUE
    BY DEF TypeOK, TaskRow
  <2> QED
    BY <2>1, <2>2, RestsUnchanged DEF Rests, TaskExists
<1>3. CASE ClaimTasks(w) \/ ClaimThenError(w)
  <2>1. ClaimRows(w, Claimed(wk[w].job))
    BY <1>3 DEF ClaimTasks, ClaimThenError
  <2>2. CASE t \notin Claimed(wk[w].job)
    BY <2>1, <2>2, RestsUnchanged DEF ClaimRows
  <2>3. CASE t \in Claimed(wk[w].job)
    <3>1. t \in Claimable(wk[w].job)
      BY <2>3 DEF Claimed
    <3>2. task[t].status # "cancelled" /\ ~Exhausted(t)
      BY <3>1, LoaderAssumption DEF Claimable, Exhausted, TypeOK, TaskRow
    <3>3. task'[t] = [task[t] EXCEPT !.status = "running", !.claimedBy = w, !.fresh = TRUE,
                        !.attempts = IF @ < MaxRetries THEN @ + 1 ELSE @]
      BY <2>1, <2>3 DEF ClaimRows
    <3>4. task[t] \in TaskRow
      BY DEF TypeOK
    <3>5. task'[t].status = "running" /\ task'[t].completedAt = task[t].completedAt
      BY <3>3, <3>4 DEF TaskRow
    <3> QED
      BY <3>2, <3>5, RestsStamped DEF TaskExists
  <2> QED
    BY <2>2, <2>3
<1>4. CASE task' = task
  BY <1>4, RestsUnchanged
<1> QED
  BY <1>1, <1>2, <1>3, <1>4, ZenonT(60) DEF LoopStep, WorkerStart, CancelQuietJobs, NextRunningJob,
     NothingToClaim, GatherReturns, FinaliseIfDone, SettleJob, LoopError, Crash

(* A coroutine stamps what it completes and never takes a stamp away.      *)
LEMMA StampRunner ==
  ASSUME TypeOK, NEW w \in Workers, NEW t \in Tasks,
         RunStep(w, t) \/ RunError(w, t) \/ RunEscapes(w, t)
  PROVE  \/ task'[t] = task[t]
         \/ /\ TaskExists(t)
            /\ task[t].completedAt => task'[t].completedAt
            /\ task'[t].status = "completed" =>
                 task'[t].completedAt \/ task[t].status = "completed"
<1> DEFINE Goal == \/ task'[t] = task[t]
                   \/ /\ TaskExists(t)
                      /\ task[t].completedAt => task'[t].completedAt
                      /\ task'[t].status = "completed" =>
                           task'[t].completedAt \/ task[t].status = "completed"
<1>1. task[t] \in TaskRow
  BY DEF TypeOK
<1>2. ASSUME NEW row, UpdateTask(t, row), task[t].completedAt => row.completedAt,
             row.status = "completed" => row.completedAt \/ task[t].status = "completed"
      PROVE  Goal
  BY <1>2 DEF UpdateTask, TypeOK
<1>3. CASE Checkpoint(w, t)
  <2> DEFINE s == IF run[w][t].token = 0 THEN "staged" ELSE "running"
             row == [task[t] EXCEPT !.token = run[w][t].token, !.rows = run[w][t].rows,
                       !.fresh = TRUE, !.status = s]
  <2>1. UpdateTask(t, row)
    BY <1>3 DEF Checkpoint
  <2>2. s # "completed"
    OBVIOUS
  <2>3. row.status = s /\ row.completedAt = task[t].completedAt
    <3> HIDE DEF s
    <3> QED
      BY <1>1 DEF TaskRow
  <2> HIDE DEF row, s
  <2> QED
    BY <1>2, <2>1, <2>2, <2>3
<1>4. CASE PersistQuarantine(w, t)
  <2> DEFINE row == [task[t] EXCEPT !.symbols = run[w][t].symbols, !.token = 0, !.rows = FALSE,
                       !.fresh = TRUE]
  <2>1. UpdateTask(t, row)
    BY <1>4 DEF PersistQuarantine
  <2>2. row.status = task[t].status /\ row.completedAt = task[t].completedAt
    BY <1>1 DEF TaskRow
  <2> HIDE DEF row
  <2> QED
    BY <1>2, <2>1, <2>2
<1>5. CASE CompleteEmpty(w, t) \/ CompleteTask(w, t)
  <2> DEFINE empty == [task[t] EXCEPT !.status = "completed", !.rows = FALSE, !.token = 0,
                         !.fresh = TRUE, !.claimedBy = None, !.completedAt = TRUE]
             full == [task[t] EXCEPT !.status = "completed", !.token = 0, !.fresh = TRUE,
                        !.completedAt = TRUE]
  <2>1. UpdateTask(t, empty) \/ UpdateTask(t, full)
    BY <1>5 DEF CompleteEmpty, CompleteTask
  <2>2. empty.completedAt = TRUE /\ full.completedAt = TRUE
    BY <1>1 DEF TaskRow
  <2> HIDE DEF empty, full
  <2> QED
    BY <1>2, <2>1, <2>2
<1>6. CASE ResetCheckpoint(w, t)
  <2> DEFINE row == [task[t] EXCEPT !.status = "pending", !.token = 0, !.rows = FALSE,
                       !.claimedBy = None]
  <2>1. UpdateTask(t, row)
    BY <1>6 DEF ResetCheckpoint
  <2>2. row.status = "pending" /\ row.completedAt = task[t].completedAt
    BY <1>1 DEF TaskRow
  <2> HIDE DEF row
  <2> QED
    BY <1>2, <2>1, <2>2
<1>7. CASE StartLoading(w, t)
  <2> DEFINE row == [task[t] EXCEPT !.status = "loading", !.fresh = TRUE]
  <2>1. UpdateTask(t, row)
    BY <1>7 DEF StartLoading
  <2>2. row.status = "loading" /\ row.completedAt = task[t].completedAt
    BY <1>1 DEF TaskRow
  <2> HIDE DEF row
  <2> QED
    BY <1>2, <2>1, <2>2
<1>8. CASE CancelTask(w, t)
  <2> DEFINE row == [task[t] EXCEPT !.status = "cancelled", !.claimedBy = None, !.fresh = TRUE]
  <2>1. UpdateTask(t, row)
    BY <1>8 DEF CancelTask
  <2>2. row.status = "cancelled" /\ row.completedAt = task[t].completedAt
    BY <1>1 DEF TaskRow
  <2> HIDE DEF row
  <2> QED
    BY <1>2, <2>1, <2>2
<1>9. CASE PauseTask(w, t)
  <2> DEFINE s == IF run[w][t].pc = "pause" THEN "pending" ELSE "staged"
             row == [task[t] EXCEPT !.claimedBy = None, !.fresh = TRUE, !.status = s]
  <2>1. UpdateTask(t, row)
    BY <1>9 DEF PauseTask
  <2>2. s # "completed"
    OBVIOUS
  <2>3. row.status = s /\ row.completedAt = task[t].completedAt
    <3> HIDE DEF s
    <3> QED
      BY <1>1 DEF TaskRow
  <2> HIDE DEF row, s
  <2> QED
    BY <1>2, <2>1, <2>2, <2>3
<1>10. CASE FailTask(w, t)
  <2> DEFINE row == [task[t] EXCEPT !.status = "failed", !.fresh = TRUE]
  <2>1. UpdateTask(t, row)
    BY <1>10 DEF FailTask
  <2>2. row.status = "failed" /\ row.completedAt = task[t].completedAt
    BY <1>1 DEF TaskRow
  <2> HIDE DEF row
  <2> QED
    BY <1>2, <2>1, <2>2
<1>11. CASE task' = task
  BY <1>11
<1> HIDE DEF Goal
<1> QED
  BY <1>3, <1>4, <1>5, <1>6, <1>7, <1>8, <1>9, <1>10, <1>11, ZenonT(60) DEF RunStep, RunBegin,
     FetchPage, RejectSymbol, Requarantined, ExpiredToken, Gate, BulkLoad, RefreshFeatures,
     UnlinkStaging, LastEvent, LoadError, ClosedClient, RunError, RunEscapes

(* Without an overtaken lease it writes only a row it holds or completed.  *)
LEMMA RestsRunner ==
  ASSUME TypeOK, ClaimInv, DoneInv, NEW w \in Workers, NEW u \in Tasks,
         RunStep(w, u) \/ RunError(w, u) \/ RunEscapes(w, u), NEW t \in Tasks
  PROVE  Rests(t)
<1>1. CASE task'[t] = task[t]
  BY <1>1, RestsUnchanged
<1>2. CASE task'[t] # task[t]
  <2>1. /\ t = u /\ Writing(w, t) /\ overtaken' = overtaken
        /\ TaskExists(t)' <=> TaskExists(t)
    BY <1>2, RunnerStep
  <2>2. /\ TaskExists(t)
        /\ task[t].completedAt => task'[t].completedAt
        /\ task'[t].status = "completed" =>
             task'[t].completedAt \/ task[t].status = "completed"
    BY <1>2, <2>1, StampRunner
  <2>3. ASSUME t \notin overtaken
        PROVE  task[t].status # "cancelled" /\ ~Exhausted(t)
    <3>1. Engaged(t) \/ task[t].status = "completed"
      BY <2>1, <2>2, <2>3, HeldRow DEF ClaimInv, Claimed1
    <3> QED
      BY <3>1 DEF Engaged, Exhausted
  <2> QED
    BY <2>1, <2>2, <2>3 DEF DoneInv, Rests
<1> QED
  BY <1>1, <1>2

(* Only an engaged row has a lease.                                        *)
LEMMA RestsLease ==
  ASSUME TypeOK, DoneInv, NEW t \in Tasks,
         \/ \E u \in Tasks : LeaseExpires(u) \/ LeaseOutlived(u) \/ TokenExpires(u)
         \/ \E j \in Jobs : PlannerExpires(j)
  PROVE  Rests(t)
<1>1. \/ task'[t] = task[t]
      \/ Engaged(t) /\ task'[t] = [task[t] EXCEPT !.fresh = FALSE]
  BY DEF LeaseExpires, LeaseOutlived, TokenExpires, PlannerExpires, TypeOK
<1>2. [task[t] EXCEPT !.fresh = FALSE].status = task[t].status
      /\ [task[t] EXCEPT !.fresh = FALSE].completedAt = task[t].completedAt
  BY DEF TypeOK, TaskRow
<1>3. Engaged(t) => /\ task[t].status \notin {"completed", "cancelled", "absent"}
                    /\ ~Exhausted(t)
  BY DEF Engaged, Exhausted
<1> QED
  BY <1>1, <1>2, <1>3, RestsUnchanged, RestsStamped DEF TaskExists

(* So every step lets the tasks rest.                                      *)
LEMMA RestsNext ==
  ASSUME TypeOK, ClaimInv, DoneInv, [Next]_vars
  PROVE  \A t \in Tasks : Rests(t)
<1> SUFFICES ASSUME NEW t \in Tasks PROVE Rests(t)
  OBVIOUS
<1>1. CASE UNCHANGED vars
  BY <1>1, RestsUnchanged
<1>2. CASE Environment
  BY <1>2, RestsApi, RestsLease DEF Environment
<1>3. CASE Disturbance
  BY <1>3, RestsPlanner, RestsLoop, RestsRunner, RestsLease DEF Disturbance
<1> QED
  BY <1>1, <1>2, <1>3, RestsPlanner, RestsLoop, RestsRunner DEF Next

-----------------------------------------------------------------------------
(* How rows come and go: a plan brings all the tasks of its job, only a    *)
(* deleted job loses one, and a deleted job does not come back.            *)
AllExist(j) == \A t \in TasksOf(j) : TaskExists(t)
Gone(j) == job[j].status = "deleted"
Steady(j) ==
  /\ \/ \A t \in TasksOf(j) : TaskExists(t)' <=> TaskExists(t)
     \/ AllExist(j)'
     \/ Gone(j)' /\ \A t \in TasksOf(j) : ~TaskExists(t)'
  /\ Gone(j) => Gone(j)'

(* A step that creates and removes no row is steady.                       *)
LEMMA SteadySame ==
  ASSUME NEW j \in Jobs, \A t \in Tasks : TaskExists(t)' <=> TaskExists(t),
         Gone(j) => Gone(j)'
  PROVE  Steady(j)
BY DEF Steady, TasksOf

(* So is every step.                                                       *)
LEMMA SteadyNext ==
  ASSUME TypeOK, [Next]_vars, NEW j \in Jobs
  PROVE  Steady(j)
<1>1. CASE UNCHANGED vars
  BY <1>1, SteadySame DEF TaskExists, Gone
<1>2. ASSUME NEW i \in Jobs, JobAction(i)
      PROVE  Steady(j)
  <2>1. CASE DeleteJob(i)
    <3>1. CASE j = i
      <4>1. /\ \A t \in TasksOf(j) : ~TaskExists(t)'
            /\ job'[j].status = "deleted"
        BY <2>1, <3>1 DEF DeleteJob, TasksOf, TaskExists, AbsentTask, AbsentJob, TypeOK
      <4> QED
        BY <4>1 DEF Steady, Gone
    <3>2. CASE j # i
      <4>1. job'[j] = job[j] /\ \A t \in TasksOf(j) : task'[t] = task[t]
        BY <2>1, <3>2 DEF DeleteJob, TasksOf, TypeOK
      <4> QED
        BY <4>1 DEF Steady, Gone, TaskExists
    <3> QED
      BY <3>1, <3>2
  <2>2. CASE ~DeleteJob(i)
    <3>1. job[i].status # "deleted" /\ \E s : SetStatus(i, s)
      BY <1>2, <2>2 DEF JobAction, CreateJob, PauseJob, ResumeJob, CancelJob, RecoverJob,
         Recoverable, RetryJob, JobExists, JobStatus
    <3>2. Gone(j) => Gone(j)'
      BY <3>1 DEF SetStatus, TypeOK, Gone
    <3>3. \A t \in Tasks : TaskExists(t)' <=> TaskExists(t)
      <4>1. CASE RecoverJob(i)
        <5> SUFFICES ASSUME NEW t \in Tasks PROVE TaskExists(t)' <=> TaskExists(t)
          OBVIOUS
        <5>1. task'[t] = task[t] \/ (Stale(t) /\ task'[t] = Recovered(t))
          BY <4>1 DEF RecoverJob
        <5>2. Stale(t) => TaskExists(t) /\ Recovered(t).status # "absent"
          BY DEF Stale, Engaged, Recovered, TaskExists, TypeOK, TaskRow
        <5> QED
          BY <5>1, <5>2 DEF TaskExists
      <4>2. CASE RetryJob(i)
        <5> SUFFICES ASSUME NEW t \in Tasks PROVE TaskExists(t)' <=> TaskExists(t)
          OBVIOUS
        <5>1. \/ task'[t] = task[t]
              \/ /\ task[t].status \in {"failed", "cancelled"}
                 /\ task'[t] = [task[t] EXCEPT !.status = "pending", !.attempts = 0,
                                               !.claimedBy = None, !.completedAt = FALSE]
          BY <4>2 DEF RetryJob
        <5> QED
          BY <5>1 DEF TaskExists, TypeOK, TaskRow
      <4>3. CASE task' = task
        BY <4>3 DEF TaskExists
      <4> QED
        BY <1>2, <2>2, <4>1, <4>2, <4>3 DEF JobAction, CreateJob, PauseJob, ResumeJob, CancelJob
    <3> QED
      BY <3>2, <3>3, SteadySame, SMTT(60)
  <2> QED
    BY <2>1, <2>2
<1>3. ASSUME NEW w \in Workers, PlanStep(w) \/ PlanFail(w)
      PROVE  Steady(j)
  <2>1. Gone(j) => Gone(j)'
    <3>1. CASE ClaimJobForPlanning(w)
      BY <3>1, ZenonT(60) DEF ClaimJobForPlanning, Gone, TypeOK
    <3>2. CASE PlanCommit(w)
      <4>1. JobExists(wk[w].job) /\ \E r : job' = [job EXCEPT ![wk[w].job] = r]
        BY <3>2 DEF PlanCommit
      <4> QED
        BY <4>1, SMTT(60) DEF Gone, TypeOK, JobExists, JobStatus
    <3>3. CASE PlanFail(w)
      <4>1. \/ job' = job
            \/ JobExists(wk[w].job) /\ \E r : job' = [job EXCEPT ![wk[w].job] = r]
        BY <3>3 DEF PlanFail
      <4> QED
        BY <4>1 DEF Gone, TypeOK, JobExists, JobStatus
    <3>4. CASE job' = job
      BY <3>4 DEF Gone
    <3> QED
      BY <1>3, <3>1, <3>2, <3>3, <3>4 DEF PlanStep, PlanAnnounced, PlanOrphaned
  <2>2. CASE task' = task
    BY <2>1, <2>2, SteadySame DEF TaskExists
  <2>3. CASE PlanCommit(w) /\ task' # task
    <3>1. \A t \in Tasks : task'[t] =
             IF JobOf[t] = wk[w].job /\ ~TaskExists(t)
             THEN [AbsentTask EXCEPT !.status = "pending", !.symbols = BatchOf[t]]
             ELSE task[t]
      BY <2>3 DEF PlanCommit
    <3>2. \A t \in Tasks : [AbsentTask EXCEPT !.status = "pending",
                                              !.symbols = BatchOf[t]].status = "pending"
      BY DEF AbsentTask
    <3>3. CASE j = wk[w].job
      <4>1. AllExist(j)'
        BY <3>1, <3>2, <3>3 DEF AllExist, TasksOf, TaskExists
      <4> QED
        BY <2>1, <4>1 DEF Steady
    <3>4. CASE j # wk[w].job
      <4>1. \A t \in TasksOf(j) : task'[t] = task[t]
        BY <3>1, <3>4 DEF TasksOf
      <4> QED
        BY <2>1, <4>1 DEF Steady, TaskExists
    <3> QED
      BY <3>3, <3>4
  <2> QED
    BY <1>3, <2>2, <2>3 DEF PlanStep, ClaimJobForPlanning, PlanAnnounced, PlanOrphaned, PlanFail
<1>4. ASSUME NEW w \in Workers, LoopStep(w) \/ LoopError(w) \/ ClaimThenError(w) \/ Crash(w)
      PROVE  Steady(j)
  <2>1. Gone(j) => Gone(j)'
    <3>1. CASE RecoverStaleTasks(w) \/ ApplyJobControls(w) \/ CancelQuietJobs(w)
      BY <3>1 DEF RecoverStaleTasks, ApplyJobControls, CancelQuietJobs, Gone
    <3>2. CASE SettleJob(w)
      BY <3>2 DEF SettleJob, Gone, TypeOK
    <3>3. CASE job' = job
      BY <3>3 DEF Gone
    <3> QED
      BY <1>4, <3>1, <3>2, <3>3, ZenonT(60) DEF LoopStep, WorkerStart, NextRunningJob, ClaimTasks,
         NothingToClaim, GatherReturns, FinaliseIfDone, LoopError, ClaimThenError, Crash
  <2>2. ASSUME NEW t \in Tasks
        PROVE  TaskExists(t)' <=> TaskExists(t)
    <3>1. CASE RecoverStaleTasks(w)
      <4>1. task'[t] = task[t] \/ (Stale(t) /\ task'[t] = Recovered(t))
        BY <3>1 DEF RecoverStaleTasks
      <4>2. Stale(t) => TaskExists(t) /\ Recovered(t).status # "absent"
        BY DEF Stale, Engaged, Recovered, TaskExists, TypeOK, TaskRow
      <4> QED
        BY <4>1, <4>2 DEF TaskExists
    <3>2. CASE ApplyJobControls(w)
      <4>1. \/ task'[t] = task[t]
            \/ /\ TaskExists(t)
               /\ task'[t] = [task[t] EXCEPT !.status = "cancelled", !.completedAt = TRUE]
        BY <3>2 DEF ApplyJobControls, TaskExists
      <4> QED
        BY <4>1 DEF TaskExists, TypeOK, TaskRow
    <3>3. CASE ClaimTasks(w) \/ ClaimThenError(w)
      <4>1. ClaimRows(w, Claimed(wk[w].job))
        BY <3>3 DEF ClaimTasks, ClaimThenError
      <4>2. \/ task'[t] = task[t]
            \/ TaskExists(t) /\ task'[t].status = "running"
        <5>1. CASE t \in Claimed(wk[w].job)
          <6>1. TaskExists(t)
            BY <5>1 DEF Claimed, Claimable, TaskExists
          <6>2. task'[t].status = "running"
            BY <4>1, <5>1, ClaimedRow, SMTT(60)
          <6> QED
            BY <6>1, <6>2
        <5>2. CASE t \notin Claimed(wk[w].job)
          BY <4>1, <5>2 DEF ClaimRows
        <5> QED
          BY <5>1, <5>2
      <4> QED
        BY <4>2 DEF TaskExists
    <3>4. CASE task' = task
      BY <3>4 DEF TaskExists
    <3> QED
      BY <1>4, <3>1, <3>2, <3>3, <3>4, ZenonT(60) DEF LoopStep, WorkerStart, CancelQuietJobs,
         NextRunningJob, NothingToClaim, GatherReturns, FinaliseIfDone, SettleJob, LoopError, Crash
  <2> QED
    BY <2>1, <2>2, SteadySame
<1>5. ASSUME NEW w \in Workers, NEW t \in Tasks, RunStep(w, t) \/ RunError(w, t) \/ RunEscapes(w, t)
      PROVE  Steady(j)
  <2>1. job' = job /\ \A u \in Tasks : TaskExists(u)' <=> TaskExists(u)
    BY <1>5, RunnerStep DEF TaskExists
  <2> QED
    BY <2>1, SteadySame DEF Gone
<1>6. ASSUME \/ \E t \in Tasks : LeaseExpires(t) \/ LeaseOutlived(t) \/ TokenExpires(t)
             \/ \E i \in Jobs : PlannerExpires(i)
      PROVE  Steady(j)
  <2>1. \A t \in Tasks : task'[t].status = task[t].status
    <3>1. task' = task \/ \E q \in Tasks : task' = [task EXCEPT ![q].fresh = FALSE]
      BY <1>6, Zenon DEF LeaseExpires, LeaseOutlived, TokenExpires, PlannerExpires, dbVars
    <3> QED
      BY <3>1, SMTT(60) DEF TypeOK, TaskRow
  <2>2. job'[j].status = job[j].status
    <3>1. job' = job \/ \E i \in Jobs : job' = [job EXCEPT ![i].fresh = FALSE]
      BY <1>6, Zenon DEF LeaseExpires, LeaseOutlived, TokenExpires, PlannerExpires, dbVars
    <3> QED
      BY <3>1 DEF TypeOK, JobRow
  <2> QED
    BY <2>1, <2>2, SteadySame DEF TaskExists, Gone
<1>7. CASE Environment
  BY <1>2, <1>6, <1>7 DEF Environment
<1>8. CASE Disturbance
  BY <1>3, <1>4, <1>5, <1>6, <1>8 DEF Disturbance
<1> QED
  BY <1>1, <1>3, <1>4, <1>5, <1>7, <1>8 DEF Next

-----------------------------------------------------------------------------
WorkPc == {"claim", "gather", "finalise", "outcome"}

(* How a worker comes to a job and to its outcome.                         *)
Counts(w) ==
  LET j == wk[w].job IN
  /\ wk[w].pc = "finalise" /\ Settled(j) /\ task' = task /\ job' = job
  /\ wk'[w].job = j
  /\ wk'[w].outcome = IF \E t \in TasksOf(j) : Exhausted(t) THEN "failed" ELSE "completed"
Turns(w) ==
  \/ wk'[w] = wk[w]
  \/ wk'[w].pc \notin WorkPc
  \/ /\ wk'[w].pc = "claim" /\ wk'[w].job \in Jobs
     /\ \E t \in TasksOf(wk'[w].job) : TaskExists(t)
     /\ task' = task /\ job' = job
  \/ wk'[w].pc \in {"gather", "finalise"} /\ wk'[w].job = wk[w].job /\ wk[w].pc \in {"claim", "gather"}
  \/ wk'[w].pc = "outcome" /\ Counts(w)

(* A worker's loop moves in one of these ways.                             *)
LEMMA TurnsLoop ==
  ASSUME TypeOK, NEW w \in Workers,
         LoopStep(w) \/ LoopError(w) \/ ClaimThenError(w) \/ Crash(w)
  PROVE  Turns(w)
<1>1. \A row : MoveTo(w, row) => wk'[w] = row
  BY DEF MoveTo, TypeOK
<1>2. \A pc : At(pc).pc = pc
  BY DEF At
<1>3. CASE NextRunningJob(w)
  <2>1. CASE \E j \in Jobs : Workable(j)
    <3>1. PICK j \in Jobs : Workable(j) /\ MoveTo(w, [At("claim") EXCEPT !.job = j])
      BY <1>3, <2>1 DEF NextRunningJob
    <3>2. wk'[w] = [At("claim") EXCEPT !.job = j]
      BY <1>1, <3>1
    <3>3. wk'[w].pc = "claim" /\ wk'[w].job = j
      BY <3>2 DEF At
    <3>4. \E t \in TasksOf(j) : TaskExists(t)
      BY <3>1 DEF Workable, TaskExists
    <3>5. task' = task /\ job' = job
      BY <1>3 DEF NextRunningJob
    <3> QED
      BY <3>3, <3>4, <3>5 DEF Turns
  <2>2. CASE ~\E j \in Jobs : Workable(j)
    <3>1. wk'[w] = At("top")
      BY <1>1, <1>3, <2>2 DEF NextRunningJob
    <3> QED
      BY <1>2, <3>1 DEF Turns, WorkPc
  <2> QED
    BY <2>1, <2>2
<1>4. CASE ClaimTasks(w)
  <2>1. wk[w].pc = "claim"
        /\ wk'[w] = [At("gather") EXCEPT !.job = wk[w].job, !.batch = Claimed(wk[w].job)]
    BY <1>1, <1>4 DEF ClaimTasks
  <2> QED
    BY <2>1 DEF At, Turns
<1>5. CASE NothingToClaim(w)
  <2>1. wk[w].pc = "claim" /\ wk'[w] = [wk[w] EXCEPT !.pc = "finalise"]
    BY <1>1, <1>5 DEF NothingToClaim
  <2> QED
    BY <2>1 DEF Turns, TypeOK, LoopRow
<1>6. CASE GatherReturns(w)
  <2>1. wk[w].pc = "gather" /\ wk'[w] = [At("finalise") EXCEPT !.job = wk[w].job]
    BY <1>1, <1>6 DEF GatherReturns
  <2> QED
    BY <2>1 DEF At, Turns
<1>7. CASE FinaliseIfDone(w)
  <2> DEFINE j == wk[w].job
             out == IF \E t \in TasksOf(j) : Exhausted(t) THEN "failed" ELSE "completed"
  <2>1. CASE Settled(j)
    <3>1. wk'[w] = [At("outcome") EXCEPT !.job = j, !.outcome = out]
      BY <1>1, <1>7, <2>1 DEF FinaliseIfDone
    <3> HIDE DEF out
    <3>2. wk'[w].pc = "outcome" /\ wk'[w].job = j /\ wk'[w].outcome = out
      BY <3>1 DEF At
    <3>3. wk[w].pc = "finalise" /\ task' = task /\ job' = job
      BY <1>7 DEF FinaliseIfDone
    <3> QED
      BY <2>1, <3>2, <3>3 DEF Turns, Counts, out
  <2>2. CASE ~Settled(j)
    <3>1. wk'[w] = At("top")
      BY <1>1, <1>7, <2>2 DEF FinaliseIfDone
    <3> QED
      BY <1>2, <3>1 DEF Turns, WorkPc
  <2> QED
    BY <2>1, <2>2
<1>8. CASE \E pc \in LoopPc \ WorkPc : MoveTo(w, At(pc))
  BY <1>1, <1>2, <1>8 DEF Turns
<1>9. CASE \/ WorkerStart(w) \/ RecoverStaleTasks(w) \/ ApplyJobControls(w) \/ CancelQuietJobs(w)
           \/ SettleJob(w) \/ LoopError(w) \/ ClaimThenError(w) \/ Crash(w)
  <2>1. \E pc \in {"boot", "top", "controls", "cancels", "plan", "down"} : MoveTo(w, At(pc))
    BY <1>9, ZenonT(60) DEF WorkerStart, RecoverStaleTasks, ApplyJobControls, CancelQuietJobs,
       SettleJob, LoopError, ClaimThenError, Crash
  <2> QED
    BY <1>8, <2>1 DEF LoopPc, WorkPc
<1> QED
  BY <1>3, <1>4, <1>5, <1>6, <1>7, <1>9 DEF LoopStep

(* Nobody else moves it, except back to its top.                           *)
LEMMA TurnsNext ==
  ASSUME TypeOK, [Next]_vars, NEW w \in Workers
  PROVE  Turns(w)
<1>1. ASSUME wk' = wk PROVE Turns(w)
  BY <1>1 DEF Turns
<1>2. CASE UNCHANGED vars
  BY <1>1, <1>2
<1>3. CASE Environment
  <2>1. wk' = wk
    BY <1>3, ZenonT(60) DEF Environment, JobAction, CreateJob, PauseJob, ResumeJob, CancelJob,
       RecoverJob, RetryJob, DeleteJob, ApiFrame, PlannerExpires, LeaseExpires, TokenExpires
  <2> QED
    BY <1>1, <2>1
<1>4. ASSUME NEW v \in Workers, PlanStep(v) \/ PlanFail(v)
      PROVE  Turns(w)
  <2>1. \E row : /\ wk' = [wk EXCEPT ![v] = row]
                 /\ row.pc \notin WorkPc
    <3>1. CASE PlanCommit(v)
      <4>1. wk' = [wk EXCEPT ![v] = [wk[v] EXCEPT !.pc = "announce"]]
        BY <3>1 DEF PlanCommit, TypeOK
      <4>2. [wk[v] EXCEPT !.pc = "announce"].pc \notin WorkPc
        BY DEF TypeOK, LoopRow, WorkPc
      <4> QED
        BY <4>1, <4>2
    <3>2. ASSUME NEW j, wk' = [wk EXCEPT ![v] = [At("planning") EXCEPT !.job = j]]
          PROVE  \E row : wk' = [wk EXCEPT ![v] = row] /\ row.pc \notin WorkPc
      <4>1. [At("planning") EXCEPT !.job = j].pc \notin WorkPc
        BY DEF At, WorkPc
      <4> QED
        BY <3>2, <4>1
    <3>3. ASSUME NEW pc \in {"top", "pick"}, wk' = [wk EXCEPT ![v] = At(pc)]
          PROVE  \E row : wk' = [wk EXCEPT ![v] = row] /\ row.pc \notin WorkPc
      <4>1. At(pc).pc \notin WorkPc
        BY DEF At, WorkPc
      <4> QED
        BY <3>3, <4>1
    <3> QED
      BY <1>4, <3>1, <3>2, <3>3, ZenonT(60) DEF PlanStep, ClaimJobForPlanning, PlanAnnounced,
         PlanOrphaned, PlanFail
  <2> QED
    BY <2>1 DEF Turns, TypeOK
<1>5. ASSUME NEW v \in Workers, LoopStep(v) \/ LoopError(v) \/ ClaimThenError(v) \/ Crash(v)
      PROVE  Turns(w)
  <2>1. CASE v = w
    BY <1>5, <2>1, TurnsLoop
  <2>2. CASE v # w
    <3>1. \E row : wk' = [wk EXCEPT ![v] = row]
      BY <1>5, ZenonT(60) DEF LoopStep, WorkerStart, RecoverStaleTasks, ApplyJobControls,
         CancelQuietJobs, NextRunningJob, ClaimTasks, NothingToClaim, GatherReturns,
         FinaliseIfDone, SettleJob, LoopError, ClaimThenError, Crash, MoveTo
    <3> QED
      BY <2>2, <3>1 DEF Turns, TypeOK
  <2> QED
    BY <2>1, <2>2
<1>6. ASSUME NEW v \in Workers, NEW t \in Tasks, RunStep(v, t) \/ RunError(v, t) \/ RunEscapes(v, t)
      PROVE  Turns(w)
  <2>1. wk' = wk \/ wk' = [wk EXCEPT ![v] = At("top")]
    BY <1>6, ZenonT(60) DEF RunStep, RunBegin, FetchPage, Checkpoint, RejectSymbol,
       PersistQuarantine, Requarantined, CompleteEmpty, ExpiredToken, ResetCheckpoint, Gate,
       StartLoading, BulkLoad, RefreshFeatures, CompleteTask, UnlinkStaging, LastEvent,
       CancelTask, PauseTask, LoadError, ClosedClient, RunError, RunEscapes, FailTask, RunnerFrame
  <2>2. At("top").pc \notin WorkPc
    BY DEF At, WorkPc
  <2> QED
    BY <2>1, <2>2 DEF Turns, TypeOK
<1>7. CASE Disturbance
  <2>1. ASSUME NEW t \in Tasks, LeaseOutlived(t) PROVE Turns(w)
    BY <1>1, <2>1 DEF LeaseOutlived
  <2> QED
    BY <1>4, <1>5, <1>6, <1>7, <2>1 DEF Disturbance
<1> QED
  BY <1>2, <1>3, <1>4, <1>5, <1>6, <1>7 DEF Next

(* A job is completed by nothing but the count of a worker at its outcome. *)
LEMMA CompletedBy ==
  ASSUME TypeOK, [Next]_vars, NEW j \in Jobs, job'[j].status = "completed"
  PROVE  \/ job[j].status = "completed"
         \/ \E w \in Workers : /\ wk[w].pc = "outcome" /\ wk[w].job = j
                               /\ wk[w].outcome = "completed" /\ job[j].status = "running"
                               /\ task' = task /\ histVars' = histVars
<1> DEFINE Goal == \/ job[j].status = "completed"
                   \/ \E w \in Workers : /\ wk[w].pc = "outcome" /\ wk[w].job = j
                                         /\ wk[w].outcome = "completed"
                                         /\ job[j].status = "running" /\ task' = task
                                         /\ histVars' = histVars
<1>1. ASSUME job'[j].status = job[j].status PROVE Goal
  BY <1>1
<1>2. CASE UNCHANGED vars
  BY <1>1, <1>2
<1>3. ASSUME NEW i \in Jobs, NEW s, s # "completed", SetStatus(i, s) PROVE Goal
  <2>1. job'[j].status = job[j].status \/ job'[j].status = s
    BY <1>3 DEF SetStatus, TypeOK, JobRow
  <2> QED
    BY <1>1, <1>3, <2>1
<1>4. ASSUME NEW i \in Jobs, JobAction(i) PROVE Goal
  <2>1. CASE DeleteJob(i)
    <3>1. job'[j] = job[j] \/ job'[j].status = "deleted"
      BY <2>1 DEF DeleteJob, TypeOK, AbsentJob
    <3> QED
      BY <1>1, <3>1
  <2>2. CASE ~DeleteJob(i)
    <3>1. \E s : s # "completed" /\ SetStatus(i, s)
      BY <1>4, <2>2 DEF JobAction, CreateJob, PauseJob, ResumeJob, CancelJob, RecoverJob,
         RetryJob, RestartStatus
    <3> QED
      BY <1>3, <3>1, SMTT(60)
  <2> QED
    BY <2>1, <2>2
<1>5. ASSUME NEW w \in Workers, PlanStep(w) \/ PlanFail(w) PROVE Goal
  <2>1. CASE ClaimJobForPlanning(w)
    <3>1. \/ job' = job
          \/ \E i \in Jobs : job' = [job EXCEPT ![i].status = "planning", ![i].fresh = TRUE]
      BY <2>1 DEF ClaimJobForPlanning
    <3>2. job'[j].status = job[j].status \/ job'[j].status = "planning"
      BY <3>1, ZenonT(60) DEF TypeOK, JobRow
    <3> QED
      BY <1>1, <3>2
  <2>2. CASE PlanCommit(w)
    <3>1. job'[j] = job[j] \/ job'[j].status \in {"cancelled", "paused", "running"}
      <4>1. CASE job' = [job EXCEPT ![wk[w].job].status = "cancelled"]
        BY <4>1 DEF TypeOK, JobRow
      <4>2. ASSUME NEW s \in {"paused", "running"},
                   job' = [job EXCEPT ![wk[w].job] = [status |-> s, planned |-> TRUE, fresh |-> TRUE]]
            PROVE  job'[j] = job[j] \/ job'[j].status = s
        BY <4>2 DEF TypeOK
      <4> QED
        BY <2>2, <4>1, <4>2 DEF PlanCommit
    <3> QED
      BY <1>1, <3>1
  <2>3. CASE PlanFail(w)
    <3>1. job'[j].status = job[j].status \/ job'[j].status = "failed"
      BY <2>3 DEF PlanFail, TypeOK, JobRow
    <3> QED
      BY <1>1, <3>1
  <2>4. CASE job' = job
    BY <1>1, <2>4
  <2> QED
    BY <1>5, <2>1, <2>2, <2>3, <2>4 DEF PlanStep, PlanAnnounced, PlanOrphaned
<1>6. ASSUME NEW w \in Workers, LoopStep(w) \/ LoopError(w) \/ ClaimThenError(w) \/ Crash(w)
      PROVE  Goal
  <2>1. CASE RecoverStaleTasks(w) \/ ApplyJobControls(w) \/ CancelQuietJobs(w)
    <3>1. job'[j] = job[j] \/ job'[j].status \in {"running", "queued", "paused", "cancelled"}
      <4>1. \A s : [job[j] EXCEPT !.status = s].status = s
        BY DEF TypeOK, JobRow
      <4>2. CASE RecoverStaleTasks(w)
        <5>1. job'[j] = job[j] \/ \E s \in {"running", "queued"} : job'[j] = [job[j] EXCEPT !.status = s]
          BY <4>2 DEF RecoverStaleTasks
        <5> QED
          BY <4>1, <5>1
      <4>3. CASE ApplyJobControls(w) \/ CancelQuietJobs(w)
        BY <4>1, <4>3 DEF ApplyJobControls, CancelQuietJobs
      <4> QED
        BY <2>1, <4>2, <4>3
    <3> QED
      BY <1>1, <3>1
  <2>2. CASE SettleJob(w)
    <3>1. CASE wk[w].job = j /\ job[j].status = "running"
      <4>1. job'[j].status = wk[w].outcome
        BY <2>2, <3>1 DEF SettleJob, TypeOK, JobRow
      <4> QED
        BY <2>2, <3>1, <4>1 DEF SettleJob, LoopFrame
    <3>2. CASE ~(wk[w].job = j /\ job[j].status = "running")
      <4>1. job'[j] = job[j]
        BY <2>2, <3>2 DEF SettleJob, TypeOK
      <4> QED
        BY <1>1, <4>1
    <3> QED
      BY <3>1, <3>2
  <2>3. CASE job' = job
    BY <1>1, <2>3
  <2> QED
    BY <1>6, <2>1, <2>2, <2>3, ZenonT(60) DEF LoopStep, WorkerStart, NextRunningJob, ClaimTasks,
       NothingToClaim, GatherReturns, FinaliseIfDone, LoopError, ClaimThenError, Crash
<1>7. ASSUME NEW w \in Workers, NEW t \in Tasks, RunStep(w, t) \/ RunError(w, t) \/ RunEscapes(w, t)
      PROVE  Goal
  BY <1>1, <1>7, RunnerStep
<1>8. ASSUME \/ \E t \in Tasks : LeaseExpires(t) \/ LeaseOutlived(t) \/ TokenExpires(t)
             \/ \E i \in Jobs : PlannerExpires(i)
      PROVE  Goal
  <2>1. job' = job \/ \E i \in Jobs : job' = [job EXCEPT ![i].fresh = FALSE]
    BY <1>8, Zenon DEF LeaseExpires, LeaseOutlived, TokenExpires, PlannerExpires, dbVars
  <2>2. job'[j].status = job[j].status
    BY <2>1 DEF TypeOK, JobRow
  <2> QED
    BY <1>1, <2>2
<1>9. CASE Environment
  BY <1>4, <1>8, <1>9 DEF Environment
<1>10. CASE Disturbance
  BY <1>5, <1>6, <1>7, <1>8, <1>10 DEF Disturbance
<1> QED
  BY <1>2, <1>5, <1>6, <1>7, <1>9, <1>10 DEF Next

-----------------------------------------------------------------------------
(* What is remembered of leases and retries is never forgotten.            *)
LEMMA HistGrows ==
  ASSUME TypeOK, [Next]_vars
  PROVE  overtaken \subseteq overtaken' /\ raced \subseteq raced'
<1> DEFINE Goal == overtaken \subseteq overtaken' /\ raced \subseteq raced'
<1>1. ASSUME histVars' = histVars PROVE Goal
  BY <1>1
<1>2. CASE UNCHANGED vars
  BY <1>2, SMTT(60)
<1>3. ASSUME NEW j \in Jobs, JobAction(j) PROVE Goal
  BY <1>3 DEF JobAction, CreateJob, PauseJob, ResumeJob, CancelJob, RecoverJob, RetryJob,
     DeleteJob, HistFrame, Overtake
<1>4. ASSUME NEW w \in Workers, PlanStep(w) \/ PlanFail(w) PROVE Goal
  <2>1. histVars' = histVars
    BY <1>4, ZenonT(60) DEF PlanStep, ClaimJobForPlanning, PlanCommit, PlanAnnounced,
       PlanOrphaned, PlanFail, PlannerFrame
  <2> QED
    BY <1>1, <2>1
<1>5. ASSUME NEW w \in Workers, LoopStep(w) \/ LoopError(w) \/ ClaimThenError(w) \/ Crash(w)
      PROVE  Goal
  <2>1. CASE RecoverStaleTasks(w)
    BY <2>1 DEF RecoverStaleTasks, Overtake
  <2>2. CASE ~RecoverStaleTasks(w)
    <3>1. LoopFrame
      BY <1>5, <2>2, ZenonT(60) DEF LoopStep, WorkerStart, ApplyJobControls, CancelQuietJobs,
         NextRunningJob, ClaimTasks, NothingToClaim, GatherReturns, FinaliseIfDone, SettleJob,
         LoopError, ClaimThenError, Crash
    <3> QED
      BY <1>1, <3>1, Zenon DEF LoopFrame
  <2> QED
    BY <2>1, <2>2
<1>6. ASSUME NEW w \in Workers, NEW t \in Tasks, RunStep(w, t) \/ RunError(w, t) \/ RunEscapes(w, t)
      PROVE  Goal
  BY <1>6, RunnerStep
<1>7. ASSUME \/ \E t \in Tasks : LeaseExpires(t) \/ LeaseOutlived(t) \/ TokenExpires(t)
             \/ \E i \in Jobs : PlannerExpires(i)
      PROVE  Goal
  <2>1. histVars' = histVars
    BY <1>7, Zenon DEF LeaseExpires, LeaseOutlived, TokenExpires, PlannerExpires, LoopFrame
  <2> QED
    BY <1>1, <2>1
<1>8. CASE Environment
  BY <1>3, <1>7, <1>8 DEF Environment
<1>9. CASE Disturbance
  BY <1>4, <1>5, <1>6, <1>7, <1>9 DEF Disturbance
<1> QED
  BY <1>2, <1>4, <1>5, <1>6, <1>8, <1>9 DEF Next

(* A retry of a job some worker has counted is remembered, and takes no    *)
(* completed job.                                                          *)
LEMMA RetryIsRemembered ==
  ASSUME TypeOK, NEW j \in Jobs, RetryJob(j)
  PROVE  /\ job'[j].status # "completed"
         /\ \A w \in Workers : wk[w].pc = "outcome" /\ wk[w].job = j => j \in raced'
<1>1. job'[j].status \in {"running", "queued"}
  BY DEF RetryJob, SetStatus, RestartStatus, TypeOK, JobRow
<1>2. \A w \in Workers : Counted(w, j) => j \in raced'
  BY DEF RetryJob
<1> QED
  BY <1>1, <1>2 DEF Counted

-----------------------------------------------------------------------------
(* What a worker at its outcome has counted.                               *)
CountHolds(w) ==
  /\ \A t \in TasksOf(wk[w].job) \ overtaken :
       Closed(t) \/ (wk[w].outcome = "failed" /\ Exhausted(t))
  /\ wk[w].outcome = "failed" =>
       \E t \in TasksOf(wk[w].job) :
         t \in overtaken \/ Exhausted(t) \/ task[t].status = "cancelled"

(* A job has all of its tasks or none, and a worker at work on one found   *)
(* them all; the rest is SettledJobIsDone without its guard.               *)
SettleInv ==
  /\ \A j \in Jobs : (\E t \in TasksOf(j) : TaskExists(t)) => AllExist(j)
  /\ \A w \in Workers : wk[w].pc \in WorkPc =>
       wk[w].job \in Jobs /\ (Gone(wk[w].job) \/ AllExist(wk[w].job))
  /\ \A w \in Workers : wk[w].pc = "outcome" =>
       Gone(wk[w].job) \/ wk[w].job \in raced \/ CountHolds(w)
  /\ \A j \in Jobs \ raced : job[j].status = "completed" =>
       \A t \in TasksOf(j) \ overtaken : Closed(t)

(* The counts, and what completed jobs are made of, survive every step.    *)
LEMMA SettleStep ==
  ASSUME TypeOK, ClaimInv, DoneInv, SettleInv, [Next]_vars
  PROVE  SettleInv'
<1>1. \A t \in Tasks : Rests(t)
  BY RestsNext
<1>2. \A j \in Jobs : Steady(j)
  BY SteadyNext
<1>3. \A w \in Workers : Turns(w)
  BY TurnsNext
<1>0. overtaken \subseteq overtaken' /\ raced \subseteq raced'
  BY HistGrows
<1>4. \A j \in Jobs : AllExist(j) => Gone(j)' \/ AllExist(j)'
  BY <1>2 DEF Steady, AllExist, TasksOf
<1>5. ASSUME NEW j \in Jobs, \E t \in TasksOf(j) : TaskExists(t)'
      PROVE  AllExist(j)'
  <2>1. CASE \A t \in TasksOf(j) : TaskExists(t)' <=> TaskExists(t)
    BY <1>5, <2>1 DEF SettleInv, AllExist, TasksOf
  <2>2. CASE \A t \in TasksOf(j) : ~TaskExists(t)'
    BY <1>5, <2>2
  <2> QED
    BY <1>2, <2>1, <2>2 DEF Steady
<1>6. ASSUME NEW w \in Workers, wk'[w].pc \in WorkPc
      PROVE  /\ wk'[w].job \in Jobs
             /\ job'[wk'[w].job].status = "deleted" \/ \A t \in TasksOf(wk'[w].job) : TaskExists(t)'
  <2>1. ASSUME wk'[w].job = wk[w].job, wk[w].pc \in WorkPc
        PROVE  /\ wk'[w].job \in Jobs
               /\ job'[wk'[w].job].status = "deleted" \/ \A t \in TasksOf(wk'[w].job) : TaskExists(t)'
    <3>1. wk[w].job \in Jobs /\ (Gone(wk[w].job) \/ AllExist(wk[w].job))
      BY <2>1 DEF SettleInv
    <3> DEFINE j == wk[w].job
    <3> HIDE DEF j
    <3>2. j \in Jobs /\ (Gone(j) \/ AllExist(j))
      BY <3>1 DEF j
    <3>3. job'[j].status = "deleted" \/ \A t \in TasksOf(j) : TaskExists(t)'
      BY <1>2, <1>4, <3>2 DEF Steady, Gone, AllExist, TasksOf
    <3> QED
      BY <2>1, <3>2, <3>3 DEF j
  <2>2. ASSUME wk'[w].job \in Jobs, \E t \in TasksOf(wk'[w].job) : TaskExists(t),
               task' = task
        PROVE  \A t \in TasksOf(wk'[w].job) : TaskExists(t)'
    <3>1. AllExist(wk'[w].job)
      BY <2>2 DEF SettleInv
    <3> QED
      BY <2>2, <3>1 DEF AllExist, TaskExists
  <2> QED
    BY <1>3, <1>6, <2>1, <2>2 DEF Turns, WorkPc, Counts
<1>7. ASSUME NEW j \in Jobs, ~RetryJob(j), NEW t \in TasksOf(j), TaskExists(t)', t \notin overtaken'
      PROVE  /\ Closed(t) => task'[t].status = "cancelled" \/ task'[t].completedAt
             /\ task[t].status = "cancelled" => task'[t].status = "cancelled"
             /\ Exhausted(t) => \/ task'[t].status = "failed" /\ task'[t].attempts = task[t].attempts
                                \/ task'[t].status = "cancelled"
  <2>1. Rests(t) /\ JobOf[t] = j /\ t \in Tasks
    BY <1>1 DEF TasksOf
  <2>2. Closed(t) => task[t].status = "cancelled" \/ task[t].completedAt
    BY <2>1 DEF Closed, DoneInv
  <2> QED
    BY <1>7, <2>1, <2>2 DEF Rests
<1>8. ASSUME NEW w \in Workers, wk'[w].pc = "outcome"
      PROVE  Gone(wk[w].job)' \/ (wk[w].job \in raced)' \/ CountHolds(w)'
  <2> DEFINE j == wk'[w].job
  <2>1. j \in Jobs
    BY <1>6, <1>8 DEF WorkPc
  <2>2. CASE wk'[w] = wk[w]
    <3>1. Gone(wk[w].job) \/ wk[w].job \in raced \/ CountHolds(w)
      BY <1>8, <2>2 DEF SettleInv
    <3>2. CASE Gone(wk[w].job)
      BY <1>2, <2>1, <2>2, <3>2 DEF Steady, Gone
    <3>3. CASE wk[w].job \in raced
      BY <1>0, <2>2, <3>3
    <3>4. CASE CountHolds(w) /\ job'[j].status # "deleted" /\ j \notin raced'
      <4>1. \A t \in TasksOf(j) : TaskExists(t)'
        BY <1>6, <1>8, <3>4 DEF WorkPc
      <4>2. ~RetryJob(j)
        BY <1>8, <2>1, <2>2, <3>4, RetryIsRemembered
      <4>3. \A t \in TasksOf(j) : t \notin overtaken' =>
              /\ Closed(t) => task'[t].status = "cancelled" \/ task'[t].completedAt
              /\ task[t].status = "cancelled" => task'[t].status = "cancelled"
              /\ Exhausted(t) => \/ task'[t].status = "failed" /\ task'[t].attempts = task[t].attempts
                                 \/ task'[t].status = "cancelled"
        BY <1>7, <2>1, <4>1, <4>2
      <4>4. \A t \in TasksOf(j) : t \notin overtaken' =>
              Closed(t) \/ (wk[w].outcome = "failed" /\ Exhausted(t))
        BY <1>0, <2>2, <3>4 DEF CountHolds
      <4>5. \A t \in TasksOf(j) : t \notin overtaken' =>
              Closed(t)' \/ (wk'[w].outcome = "failed" /\ Exhausted(t)')
        BY <2>2, <4>3, <4>4 DEF Closed, Exhausted
      <4>6. ASSUME wk'[w].outcome = "failed"
            PROVE  \E t \in TasksOf(j) :
                     t \in overtaken' \/ Exhausted(t)' \/ task'[t].status = "cancelled"
        <5>1. PICK t \in TasksOf(j) : t \in overtaken \/ Exhausted(t) \/ task[t].status = "cancelled"
          BY <2>2, <3>4, <4>6 DEF CountHolds
        <5>2. t \in overtaken' \/ Exhausted(t)' \/ task'[t].status = "cancelled"
          BY <1>0, <4>3, <5>1 DEF Exhausted
        <5> QED
          BY <5>2
      <4> QED
        BY <4>5, <4>6 DEF CountHolds, TasksOf
    <3> QED
      BY <3>1, <3>2, <3>3, <3>4 DEF Gone
  <2>3. CASE Counts(w)
    <3>1. j = wk[w].job /\ Settled(j) /\ task' = task /\ job' = job
          /\ wk'[w].outcome = IF \E t \in TasksOf(j) : Exhausted(t) THEN "failed" ELSE "completed"
      BY <2>3 DEF Counts
    <3>2. CASE job'[j].status # "deleted"
      <4>1. \A t \in TasksOf(j) : TaskExists(t)
        BY <1>6, <1>8, <3>1, <3>2 DEF WorkPc, TaskExists
      <4>2. \A t \in TasksOf(j) : Closed(t) \/ Exhausted(t)
        <5> SUFFICES ASSUME NEW t \in TasksOf(j) PROVE Closed(t) \/ Exhausted(t)
          OBVIOUS
        <5>1. task[t].status \in TaskStatus
          BY <4>1 DEF TasksOf, TaskExists, TypeOK, TaskRow
        <5> QED
          BY <3>1, <5>1 DEF Settled, Closed, TaskStatus
      <4>3. \A t \in TasksOf(j) : (Closed(t)' <=> Closed(t)) /\ (Exhausted(t)' <=> Exhausted(t))
        BY <3>1 DEF Closed, Exhausted
      <4>4. \A t \in TasksOf(j) : Closed(t)' \/ (wk'[w].outcome = "failed" /\ Exhausted(t)')
        BY <3>1, <4>2, <4>3
      <4>5. wk'[w].outcome = "failed" => \E t \in TasksOf(j) : Exhausted(t)'
        BY <3>1, <4>3
      <4> QED
        BY <4>4, <4>5 DEF CountHolds, TasksOf
    <3> QED
      BY <3>2 DEF Gone
  <2> QED
    BY <1>3, <1>8, <2>2, <2>3 DEF Turns, WorkPc
<1>9. ASSUME NEW j \in Jobs, j \notin raced', job'[j].status = "completed",
             NEW t \in TasksOf(j), t \notin overtaken'
      PROVE  Closed(t)'
  <2>0. j \notin raced /\ t \notin overtaken /\ t \in Tasks
    BY <1>0, <1>9 DEF TasksOf
  <2>1. CASE job[j].status = "completed"
    <3>1. Closed(t)
      BY <2>0, <2>1 DEF SettleInv
    <3>2. AllExist(j)
      BY <2>0, <3>1 DEF SettleInv, DoneInv, Closed, TaskExists
    <3>3. TaskExists(t)'
      BY <1>4, <1>9, <3>2 DEF Gone, AllExist, TasksOf
    <3>4. ~RetryJob(j)
      BY <1>9, RetryIsRemembered
    <3> QED
      BY <1>7, <1>9, <3>1, <3>3, <3>4 DEF Closed
  <2>2. ASSUME NEW w \in Workers, wk[w].pc = "outcome", wk[w].job = j,
               wk[w].outcome = "completed", job[j].status = "running", task' = task
        PROVE  Closed(t)'
    <3>1. CountHolds(w)
      BY <2>0, <2>2 DEF SettleInv, Gone
    <3> QED
      BY <2>0, <2>2, <3>1 DEF CountHolds, Closed
  <2> QED
    BY <1>9, <2>1, <2>2, CompletedBy
<1> QED
  <2>1. (\A j \in Jobs : (\E t \in TasksOf(j) : TaskExists(t)) => AllExist(j))'
    BY <1>5 DEF TasksOf
  <2>2. (\A w \in Workers : wk[w].pc \in WorkPc =>
           wk[w].job \in Jobs /\ (Gone(wk[w].job) \/ AllExist(wk[w].job)))'
    BY <1>6 DEF Gone, AllExist, TasksOf
  <2>3. (\A w \in Workers : wk[w].pc = "outcome" =>
           Gone(wk[w].job) \/ wk[w].job \in raced \/ CountHolds(w))'
    BY <1>8
  <2>4. (\A j \in Jobs \ raced : job[j].status = "completed" =>
           \A t \in TasksOf(j) \ overtaken : Closed(t))'
    BY <1>9 DEF TasksOf
  <2> QED
    BY <2>1, <2>2, <2>3, <2>4 DEF SettleInv

(* A completed job left no task that was never done, and the count of      *)
(* finalise_if_done is still true when its UPDATE comes, for any number of *)
(* workers, planners, commands and stops between the two; unless a lease   *)
(* was released under a coroutine of the task, or the operator retried the *)
(* job in between.                                                         *)
THEOREM JobSettlesByItsTasks == Spec => []SettledJobIsDone
<1>1. Init => DoneInv /\ SettleInv
  BY DEF Init, DoneInv, SettleInv, TaskExists, AbsentTask, AbsentJob, At, WorkPc, TasksOf
<1>2. TypeOK /\ ClaimInv /\ DoneInv /\ [Next]_vars => DoneInv'
  BY RestsNext DEF DoneInv, Rests
<1>3. TypeOK /\ ClaimInv /\ DoneInv /\ SettleInv /\ [Next]_vars => SettleInv'
  BY SettleStep
<1>4. SettleInv => SettledJobIsDone
  <2> SUFFICES ASSUME SettleInv PROVE SettledJobIsDone
    OBVIOUS
  <2>1. ASSUME NEW j \in Jobs \ raced, job[j].status = "completed"
        PROVE  \A t \in TasksOf(j) \ overtaken : Closed(t)
    BY <2>1 DEF SettleInv
  <2>2. ASSUME NEW w \in Workers, Settling(w), wk[w].job \notin raced
        PROVE  CountHolds(w)
    BY <2>2 DEF Settling, SettleInv, Gone
  <2>3. ASSUME NEW w \in Workers, Settling(w), wk[w].job \notin raced, wk[w].outcome = "failed"
        PROVE  \E t \in TasksOf(wk[w].job) : t \in overtaken \/ task[t].status # "completed"
    BY <2>2, <2>3 DEF CountHolds, Exhausted
  <2> QED
    BY <2>1, <2>2, <2>3 DEF SettledJobIsDone, CountHolds
<1> QED
  BY TypeCorrect, ClaimInvariant, <1>1, <1>2, <1>3, <1>4, PTL DEF Spec
=============================================================================
