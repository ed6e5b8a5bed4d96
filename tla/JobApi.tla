------------------------------- MODULE JobApi -------------------------------
(***************************************************************************)
(* The operator's side: create_job and job_action of the web service.      *)
(* Every command locks the job row (FOR UPDATE) and commits once, so a     *)
(* command is one step; a command the code answers with HTTP 404, 409 or   *)
(* 400 changes nothing and is no step.                                     *)
(***************************************************************************)
EXTENDS LoaderState

ApiFrame  == UNCHANGED <<dataVars, file, tokenDead, wk, run>>
HistFrame == UNCHANGED histVars

SetStatus(j, s) == job' = [job EXCEPT ![j].status = s]

CreateJob(j) ==
  /\ SpendCommand("create")
  /\ job[j].status = "absent"
  /\ \A i \in Jobs : i < j => job[i].status # "absent"
  /\ SetStatus(j, "queued")
  /\ UNCHANGED task /\ HistFrame /\ ApiFrame

PauseJob(j) ==
  /\ SpendCommand("pause")
  /\ job[j].status \in {"running", "planning"}
  /\ SetStatus(j, "pause_requested")
  /\ UNCHANGED task /\ HistFrame /\ ApiFrame

RestartStatusQueued(j) == "queued"

(* Where resume and retry put a job: back to work, or back to the planner. *)
RestartStatus(j) == IF job[j].planned THEN "running" ELSE "queued"

ResumeJob(j) ==
  /\ SpendCommand("resume")
  /\ job[j].status = "paused"
  /\ SetStatus(j, RestartStatus(j))
  /\ UNCHANGED task /\ HistFrame /\ ApiFrame

CancelJob(j) ==
  /\ SpendCommand("cancel")
  /\ JobExists(j)
  /\ job[j].status \notin {"completed", "cancelled"}
  /\ SetStatus(j, "cancel_requested")
  /\ UNCHANGED task /\ HistFrame /\ ApiFrame

RecoverableOnceCancelled(j) ==
  job[j].status \in {"running", "pause_requested", "paused", "cancelled"}

Recoverable(j) == job[j].status \in {"running", "pause_requested", "paused"}

(* Releases the stale leases of the job and forces it back to running.     *)
RecoverJob(j) ==
  /\ SpendCommand("recover")
  /\ Recoverable(j)
  /\ task' = [t \in Tasks |->
                IF JobOf[t] = j /\ Stale(t) THEN Recovered(t) ELSE task[t]]
  /\ SetStatus(j, "running")
  /\ Overtake(TasksOf(j)) /\ UNCHANGED raced
  /\ ApiFrame

(* A worker is between finalise_if_done's count of the tasks and UPDATE.   *)
Counted(w, j) == wk[w].pc = "outcome" /\ wk[w].job = j

(* A retried task keeps its page token, row count and symbols.             *)
RetryJob(j) ==
  /\ SpendCommand("retry")
  /\ job[j].status \in {"failed", "cancelled"}
  /\ LET reset == {t \in TasksOf(j) : /\ job[j].planned
                                      /\ task[t].status \in {"failed", "cancelled"}}
     IN task' = [t \in Tasks |->
                   IF t \in reset
                   THEN [task[t] EXCEPT !.status = "pending", !.attempts = 0,
                                        !.claimedBy = None, !.completedAt = FALSE]
                   ELSE task[t]]
  /\ SetStatus(j, RestartStatus(j))
  /\ raced' = IF \E w \in Workers : Counted(w, j) THEN raced \union {j} ELSE raced
  /\ UNCHANGED overtaken
  /\ ApiFrame

(* ON DELETE CASCADE removes the job's tasks with it.                      *)
DeleteJob(j) ==
  /\ SpendCommand("delete")
  /\ job[j].status \in {"completed", "failed", "cancelled"}
  /\ job' = [job EXCEPT ![j] = [AbsentJob EXCEPT !.status = "deleted"]]
  /\ task' = [t \in Tasks |-> IF JobOf[t] = j THEN AbsentTask ELSE task[t]]
  /\ HistFrame /\ ApiFrame

JobAction(j) ==
  \/ CreateJob(j)
  \/ PauseJob(j)
  \/ ResumeJob(j)
  \/ CancelJob(j)
  \/ RecoverJob(j)
  \/ RetryJob(j)
  \/ DeleteJob(j)
=============================================================================
