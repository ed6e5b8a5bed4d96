----------------------------- MODULE WorkerLoop -----------------------------
(***************************************************************************)
(* run_worker: the loop that recovers stale leases, applies pause and      *)
(* cancel requests, plans queued jobs, claims tasks of the oldest running  *)
(* job, waits for their coroutines and finalises the job.                  *)
(***************************************************************************)
EXTENDS LoaderState

LoopFrame == UNCHANGED <<dataVars, histVars>>
NoBudget  == UNCHANGED budgetVars

MoveTo(w, row) == wk' = [wk EXCEPT ![w] = row]

WorkerStart(w) ==
  /\ wk[w].pc = "down"
  /\ MoveTo(w, At("boot"))
  /\ UNCHANGED <<dbVars, file, tokenDead, run>> /\ NoBudget /\ LoopFrame

(* recover_stale_tasks, at the start and then at most once a minute.  A    *)
(* job whose planner fell silent is queued again, or set running when its  *)
(* tasks exist.                                                            *)
RecoverStaleTasks(w) ==
  /\ wk[w].pc \in {"boot", "top"}
  /\ task' = [t \in Tasks |-> IF Stale(t) THEN Recovered(t) ELSE task[t]]
  /\ job' = [j \in Jobs |->
               IF job[j].status = "planning" /\ ~job[j].fresh
               THEN [job[j] EXCEPT !.status =
                       IF \E t \in TasksOf(j) : TaskExists(t) THEN "running" ELSE "queued"]
               ELSE job[j]]
  /\ MoveTo(w, At(IF wk[w].pc = "boot" THEN "top" ELSE "controls"))
  /\ Overtake(Tasks) /\ UNCHANGED raced
  /\ UNCHANGED <<dataVars, file, tokenDead, run>> /\ NoBudget

QuietUnstaged(j) ==
  \A t \in TasksOf(j) : task[t].status \notin {"running", "loading", "staged"}

(* NOT EXISTS a task some worker may be working on.                        *)
Quiet(j) == \A t \in TasksOf(j) : ~Engaged(t)

(* apply_job_controls, its first two statements: quiet jobs are paused,    *)
(* unclaimed tasks of jobs to cancel are cancelled.                        *)
ApplyJobControls(w) ==
  /\ wk[w].pc \in {"top", "controls"}
  /\ job' = [j \in Jobs |->
               IF job[j].status = "pause_requested" /\ Quiet(j)
               THEN [job[j] EXCEPT !.status = "paused"] ELSE job[j]]
  /\ task' = [t \in Tasks |->
               IF /\ job[JobOf[t]].status = "cancel_requested"
                  /\ \/ task[t].status \in {"pending", "failed"}
                     \/ task[t].status = "staged" /\ task[t].claimedBy = None
               THEN [task[t] EXCEPT !.status = "cancelled", !.completedAt = TRUE] ELSE task[t]]
  /\ MoveTo(w, At("cancels"))
  /\ UNCHANGED <<file, tokenDead, run>> /\ NoBudget /\ LoopFrame

(* Its third statement, under READ COMMITTED a snapshot of its own.        *)
CancelQuietJobs(w) ==
  /\ wk[w].pc = "cancels"
  /\ job' = [j \in Jobs |->
               IF job[j].status = "cancel_requested" /\ Quiet(j)
               THEN [job[j] EXCEPT !.status = "cancelled"] ELSE job[j]]
  /\ MoveTo(w, At("plan"))
  /\ UNCHANGED <<task, file, tokenDead, run>> /\ NoBudget /\ LoopFrame

WorkableUnstaged(j) ==
  /\ job[j].status = "running"
  /\ \E t \in TasksOf(j) : task[t].status \in {"pending", "failed"}

(* next_running_job: a failed task counts even when its retries are spent. *)
Workable(j) ==
  /\ job[j].status = "running"
  /\ \E t \in TasksOf(j) :
       \/ task[t].status \in {"pending", "failed"}
       \/ task[t].status = "staged" /\ task[t].claimedBy = None

NextRunningJob(w) ==
  /\ wk[w].pc = "pick"
  /\ IF \E j \in Jobs : Workable(j)
     THEN \E j \in Jobs :
            /\ Workable(j)
            /\ \A i \in Jobs : i < j => ~Workable(i)
            /\ MoveTo(w, [At("claim") EXCEPT !.job = j])
     ELSE MoveTo(w, At("top"))
  /\ UNCHANGED <<dbVars, file, tokenDead, run>> /\ NoBudget /\ LoopFrame

ClaimableWhoever(j) ==
  {t \in TasksOf(j) :
     \/ task[t].status \in {"pending", "staged"}
     \/ task[t].status = "failed" /\ task[t].attempts < MaxRetries}

Claimable(j) ==
  {t \in TasksOf(j) :
     \/ task[t].status = "pending"
     \/ task[t].status = "staged" /\ task[t].claimedBy = None
     \/ task[t].status = "failed" /\ task[t].attempts < MaxRetries}

(* ORDER BY id LIMIT Concurrency                                           *)
Claimed(j) ==
  {t \in Claimable(j) : Cardinality({u \in Claimable(j) : u < t}) < Concurrency}

(* The UPDATE of claim_tasks.  attempts is compared with max_retries only, *)
(* so it may saturate there.                                               *)
ClaimRows(w, ts) ==
  task' = [t \in Tasks |->
             IF t \in ts
             THEN [task[t] EXCEPT !.status = "running", !.claimedBy = w, !.fresh = TRUE,
                     !.attempts = IF @ < MaxRetries THEN @ + 1 ELSE @]
             ELSE task[t]]

(* claim_tasks does not look at the job's status again.  The coroutines    *)
(* start from the rows as they were before the claim: a staged row skips   *)
(* the download.  (Bound: a worker has one coroutine of a task, and waits  *)
(* here for an orphan it has of it.)                                       *)
ClaimTasks(w) ==
  LET j == wk[w].job IN
  /\ wk[w].pc = "claim"
  /\ Claimed(j) # {}
  /\ \A t \in Claimed(j) : ~Live(w, t)
  /\ ClaimRows(w, Claimed(j))
  /\ run' = [run EXCEPT ![w] = [t \in Tasks |->
               IF t \in Claimed(j)
               THEN [pc |-> "begin", complete |-> task[t].status = "staged",
                     token |-> task[t].token, rows |-> task[t].rows,
                     symbols |-> task[t].symbols]
               ELSE @[t]]]
  /\ MoveTo(w, [At("gather") EXCEPT !.job = j, !.batch = Claimed(j)])
  /\ UNCHANGED <<job, file, tokenDead>> /\ NoBudget /\ LoopFrame

NothingToClaim(w) ==
  /\ wk[w].pc = "claim"
  /\ Claimable(wk[w].job) = {}
  /\ MoveTo(w, [wk[w] EXCEPT !.pc = "finalise"])
  /\ UNCHANGED <<dbVars, file, tokenDead, run>> /\ NoBudget /\ LoopFrame

(* asyncio.gather returns when every coroutine of the batch has.           *)
GatherReturns(w) ==
  /\ wk[w].pc = "gather"
  /\ \A t \in wk[w].batch : ~Live(w, t)
  /\ MoveTo(w, [At("finalise") EXCEPT !.job = wk[w].job])
  /\ UNCHANGED <<dbVars, file, tokenDead, run>> /\ NoBudget /\ LoopFrame

(* finalise_if_done: the SELECT that counts the job's tasks ...            *)
Exhausted(t) == task[t].status = "failed" /\ task[t].attempts >= MaxRetries
SettledUnstaged(j) ==
  \A t \in TasksOf(j) :
    /\ task[t].status \notin {"pending", "running"}
    /\ task[t].status = "failed" => Exhausted(t)
Settled(j) ==
  \A t \in TasksOf(j) :
    /\ task[t].status \notin {"pending", "running", "staged", "loading"}
    /\ task[t].status = "failed" => Exhausted(t)

FinaliseIfDone(w) ==
  LET j == wk[w].job IN
  /\ wk[w].pc = "finalise"
  /\ IF Settled(j)
     THEN MoveTo(w, [At("outcome") EXCEPT !.job = j,
                       !.outcome = IF \E t \in TasksOf(j) : Exhausted(t)
                                   THEN "failed" ELSE "completed"])
     ELSE MoveTo(w, At("top"))
  /\ UNCHANGED <<dbVars, file, tokenDead, run>> /\ NoBudget /\ LoopFrame

(* ... and the UPDATE that settles the job if it is still running.         *)
SettleJob(w) ==
  LET j == wk[w].job IN
  /\ wk[w].pc = "outcome"
  /\ job' = IF job[j].status = "running"
            THEN [job EXCEPT ![j].status = wk[w].outcome] ELSE job
  /\ MoveTo(w, At("top"))
  /\ UNCHANGED <<task, file, tokenDead, run>> /\ NoBudget /\ LoopFrame

LoopStep(w) ==
  \/ WorkerStart(w)
  \/ RecoverStaleTasks(w)
  \/ ApplyJobControls(w)
  \/ CancelQuietJobs(w)
  \/ NextRunningJob(w)
  \/ ClaimTasks(w)
  \/ NothingToClaim(w)
  \/ GatherReturns(w)
  \/ FinaliseIfDone(w)
  \/ SettleJob(w)

-----------------------------------------------------------------------------
(* The loop's own exception handler: a call of the loop fails and it       *)
(* starts over.  Inside apply_job_controls a failure or a crash rolls the  *)
(* whole transaction back, so neither falls between its statements.        *)
LoopError(w) ==
  /\ wk[w].pc \in LoopPc \ {"down", "boot", "top", "gather", "cancels"}
  /\ SpendFault
  /\ MoveTo(w, At("top"))
  /\ UNCHANGED <<dbVars, file, tokenDead, run>> /\ LoopFrame

(* The heartbeat after claim_tasks fails: the tasks are claimed and no     *)
(* coroutine runs for them.                                                *)
ClaimThenError(w) ==
  /\ wk[w].pc = "claim"
  /\ Claimed(wk[w].job) # {}
  /\ SpendFault
  /\ ClaimRows(w, Claimed(wk[w].job))
  /\ MoveTo(w, At("top"))
  /\ UNCHANGED <<job, file, tokenDead, run>> /\ LoopFrame

(* The process dies with its coroutines; the database and the disk stay.   *)
(* At most one append is under way, and it may leave a torn member.        *)
Crash(w) ==
  /\ wk[w].pc \notin {"down", "cancels"}
  /\ SpendCrash
  /\ MoveTo(w, At("down"))
  /\ run' = [run EXCEPT ![w] = [t \in Tasks |-> Idle]]
  /\ \/ UNCHANGED file
     \/ \E t \in Tasks :
          /\ run[w][t].pc = "fetch"
          /\ file' = [file EXCEPT ![DiskOf[w]][t] =
                         [@ EXCEPT !.exists = TRUE, !.torn = TRUE]]
  /\ UNCHANGED <<dbVars, tokenDead>> /\ LoopFrame

-----------------------------------------------------------------------------
(* WORKER_STALE_SECONDS pass without a heartbeat of the task, which nobody *)
(* works on ...                                                            *)
LeaseExpires(t) ==
  /\ Engaged(t) /\ task[t].fresh
  /\ \A w \in Workers : ~Writing(w, t)
  /\ task' = [task EXCEPT ![t].fresh = FALSE]
  /\ UNCHANGED <<job, file, tokenDead, wk, run>> /\ NoBudget /\ LoopFrame

(* ... or whose coroutine is in an overlong call.  A download beats only   *)
(* at checkpoints; a load beats every fifteen seconds for its claimant.    *)
LeaseOutlived(t) ==
  /\ Engaged(t) /\ task[t].fresh
  /\ \E w \in Workers : Writing(w, t)
  /\ \A w \in Workers :
       ~(run[w][t].pc \in {"load", "features"} /\ task[t].claimedBy = w)
  /\ SpendFault
  /\ task' = [task EXCEPT ![t].fresh = FALSE]
  /\ UNCHANGED <<job, file, tokenDead, wk, run>> /\ LoopFrame

PlannerExpires(j) ==
  /\ job[j].status = "planning" /\ job[j].fresh
  /\ job' = [job EXCEPT ![j].fresh = FALSE]
  /\ UNCHANGED <<task, file, tokenDead, wk, run>> /\ NoBudget /\ LoopFrame

(* Alpaca forgets the page token a task has saved.                         *)
TokenExpires(t) ==
  /\ task[t].token # 0 /\ ~tokenDead[t]
  /\ SpendFault
  /\ tokenDead' = [tokenDead EXCEPT ![t] = TRUE]
  /\ UNCHANGED <<dbVars, file, wk, run>> /\ LoopFrame
=============================================================================
