------------------------------ MODULE Planner -------------------------------
(***************************************************************************)
(* claim_job_for_planning and plan_job: a worker claims the oldest queued  *)
(* job, resolves its universe over the network, and commits all of its     *)
(* tasks in one transaction that looks at the job's status once more.      *)
(***************************************************************************)
EXTENDS LoaderState

PlannerFrame == UNCHANGED <<dataVars, file, tokenDead, run, histVars>>

ClaimJobForPlanning(w) ==
  LET queued == {j \in Jobs : job[j].status = "queued"} IN
  /\ wk[w].pc = "plan"
  /\ IF queued = {}
     THEN /\ wk' = [wk EXCEPT ![w] = At("pick")]
          /\ UNCHANGED job
     ELSE \E j \in queued :
            /\ \A i \in queued : j <= i
            /\ job' = [job EXCEPT ![j].status = "planning", ![j].fresh = TRUE]
            /\ wk' = [wk EXCEPT ![w] = [At("planning") EXCEPT !.job = j]]
  /\ UNCHANGED <<task, budgetVars>> /\ PlannerFrame

(* The committing transaction.  Only cancel_requested stops it; any other  *)
(* status the job may have by now is overwritten.  Tasks already planned   *)
(* stay as they are (ON CONFLICT DO NOTHING).                              *)
PlanCommit(w) ==
  LET j == wk[w].job IN
  /\ wk[w].pc = "planning"
  /\ JobExists(j)
  /\ IF job[j].status = "cancel_requested"
     THEN /\ job' = [job EXCEPT ![j].status = "cancelled"]
          /\ UNCHANGED task
     ELSE /\ job' = [job EXCEPT
                ![j] = [status |-> IF @.status = "pause_requested"
                                   THEN "paused" ELSE "running",
                        planned |-> TRUE, fresh |-> TRUE]]
          /\ task' = [t \in Tasks |->
                IF JobOf[t] = j /\ ~TaskExists(t)
                THEN [AbsentTask EXCEPT !.status = "pending", !.symbols = BatchOf[t]]
                ELSE task[t]]
  /\ wk' = [wk EXCEPT ![w].pc = "announce"]
  /\ UNCHANGED budgetVars /\ PlannerFrame

(* The event that reports the plan is written inside the try block too.    *)
PlanAnnounced(w) ==
  /\ wk[w].pc = "announce"
  /\ wk' = [wk EXCEPT ![w] = At("top")]
  /\ UNCHANGED <<job, task, budgetVars>> /\ PlannerFrame

(* Any exception while planning: the universe call fails, it resolves to   *)
(* no symbol, the transaction does or, once it is committed, the event.    *)
(* Whatever the job's status is, it becomes failed.                        *)
PlanFail(w) ==
  LET j == wk[w].job IN
  /\ wk[w].pc \in {"planning", "announce"}
  /\ SpendFault
  /\ job' = IF JobExists(j) THEN [job EXCEPT ![j].status = "failed"] ELSE job
  /\ wk' = [wk EXCEPT ![w] = At("top")]
  /\ UNCHANGED task /\ PlannerFrame

(* The job was deleted meanwhile: no row to lock, nothing to update.       *)
PlanOrphaned(w) ==
  /\ wk[w].pc = "planning"
  /\ ~JobExists(wk[w].job)
  /\ wk' = [wk EXCEPT ![w] = At("top")]
  /\ UNCHANGED <<job, task, budgetVars>> /\ PlannerFrame

PlanStep(w) ==
  \/ ClaimJobForPlanning(w)
  \/ PlanCommit(w)
  \/ PlanAnnounced(w)
  \/ PlanOrphaned(w)
=============================================================================
