---------------------------- MODULE JobLifecycle ----------------------------
(***************************************************************************)
(* What an operator is promised of a load job: the states it can be in,    *)
(* the moves between them, and what becomes of its tasks meanwhile.  Only  *)
(* the operator puts a stopped job back to work, unless a planner still    *)
(* has it in hand; a pause or a cancellation takes effect once nobody      *)
(* works on the job; a task that is done stays done.  A completed task may *)
(* be taken back by what follows its completion, and nothing is promised   *)
(* of a task once its lease was released under its worker.  How tasks are  *)
(* leased, downloaded, staged and recovered is not said here.              *)
(***************************************************************************)
EXTENDS Naturals

CONSTANTS Jobs, Tasks, JobOf

VARIABLES
  status,    (* rd_jobs.status of each job, or absent or deleted           *)
  planned,   (* the job's tasks have been committed                        *)
  planner,   (* some planner has the job in hand                           *)
  stage,     (* of each task: none, open, held, closing, done, dropped     *)
  lost       (* the tasks whose lease was released under a worker of theirs*)

vars == <<status, planned, planner, stage, lost>>

TasksIn(j) == {t \in Tasks : JobOf[t] = j}
Exists(j)  == status[j] \notin {"absent", "deleted"}
Quiet(j)   == \A t \in TasksIn(j) : stage[t] # "held"

Move(j, from, to) == status[j] \in from /\ status' = [status EXCEPT ![j] = to]
Restart(j)        == IF planned[j] THEN "running" ELSE "queued"
Restage(ts, s)    == stage' = [t \in Tasks |-> IF t \in ts THEN s ELSE stage[t]]
Stages            == {"open", "held", "closing", "done", "dropped"}

(* What follows the completion of some tasks is over.                      *)
Left == \E ts \in SUBSET {t \in Tasks : stage[t] = "closing"} : Restage(ts, "done")

(* Leases are released, some of them under those who hold them.            *)
Released(ts) ==
  /\ Restage(ts, "open")
  /\ \E xs \in SUBSET ts : lost' = lost \union xs

Init ==
  /\ status = [j \in Jobs |-> "absent"]
  /\ planned = [j \in Jobs |-> FALSE]
  /\ planner = [j \in Jobs |-> FALSE]
  /\ stage = [t \in Tasks |-> "none"]
  /\ lost = {}

-----------------------------------------------------------------------------
(* The operator                                                            *)

Create(j) == Move(j, {"absent"}, "queued") /\ UNCHANGED <<planned, planner, stage, lost>>
Pause(j)  == /\ Move(j, {"running", "planning"}, "pause_requested")
             /\ UNCHANGED <<planned, planner, stage, lost>>
Resume(j) == Move(j, {"paused"}, Restart(j)) /\ UNCHANGED <<planned, planner, stage, lost>>
Cancel(j) == /\ Exists(j) /\ status[j] \notin {"completed", "cancelled"}
             /\ status' = [status EXCEPT ![j] = "cancel_requested"]
             /\ UNCHANGED <<planned, planner, stage, lost>>
Retry(j)  == /\ Move(j, {"failed", "cancelled"}, Restart(j))
             /\ Restage({t \in TasksIn(j) : planned[j] /\ stage[t] = "dropped"}, "open")
             /\ UNCHANGED <<planned, planner, lost>>
Recover(j) == /\ Move(j, {"running", "pause_requested", "paused"}, "running")
              /\ \E ts \in SUBSET {t \in TasksIn(j) : stage[t] = "held"} : Released(ts)
              /\ UNCHANGED <<planned, planner>>
Delete(j) == /\ Move(j, {"completed", "failed", "cancelled"}, "deleted")
             /\ planned' = [planned EXCEPT ![j] = FALSE]
             /\ Restage(TasksIn(j), "none")
             /\ UNCHANGED <<planner, lost>>

Command(j) ==
  Create(j) \/ Pause(j) \/ Resume(j) \/ Cancel(j) \/ Retry(j) \/ Recover(j) \/ Delete(j)

-----------------------------------------------------------------------------
(* The planners                                                            *)

StartPlanning(j) ==
  /\ Move(j, {"queued"}, "planning")
  /\ planner' = [planner EXCEPT ![j] = TRUE]
  /\ UNCHANGED <<planned, stage, lost>>

(* A plan that comes late meets whatever the operator has asked for since; *)
(* only a cancellation that is still requested is respected.               *)
Commit(j) ==
  /\ planner[j] /\ Exists(j)
  /\ \/ /\ Move(j, {"cancel_requested"}, "cancelled")
        /\ UNCHANGED <<planned, stage>>
     \/ /\ status[j] # "cancel_requested"
        /\ status' = [status EXCEPT ![j] = IF @ = "pause_requested" THEN "paused" ELSE "running"]
        /\ planned' = [planned EXCEPT ![j] = TRUE]
        /\ Restage({t \in TasksIn(j) : stage[t] = "none"}, "open")
  /\ UNCHANGED <<planner, lost>>

(* It fails, after the commit even, or its process ends, with those that   *)
(* are about to leave a task.                                              *)
Abandon(j) ==
  /\ planner[j]
  /\ status' = status \/ (Exists(j) /\ status' = [status EXCEPT ![j] = "failed"])
  /\ planner' = planner \/ planner' = [planner EXCEPT ![j] = FALSE]
  /\ Left
  /\ UNCHANGED <<planned, lost>>

-----------------------------------------------------------------------------
(* The workers                                                             *)

Claim(j) ==
  /\ \E ts \in SUBSET {t \in TasksIn(j) : stage[t] = "open"} : Restage(ts, "held")
  /\ UNCHANGED <<status, planned, planner, lost>>

Settle(t) ==
  /\ \/ /\ stage[t] = "held"
        /\ \E s \in {"open", "closing", "done", "dropped"} : stage' = [stage EXCEPT ![t] = s]
     \/ /\ stage[t] = "closing"
        /\ stage' = [stage EXCEPT ![t] = "open"]
     \/ /\ t \in lost /\ stage[t] # "none"
        /\ \E s \in Stages : stage' = [stage EXCEPT ![t] = s]
  /\ UNCHANGED <<status, planned, planner, lost>>

Leave == Left /\ UNCHANGED <<status, planned, planner, lost>>

(* Leases that ran out are released, jobs whose planner fell silent are    *)
(* queued again.                                                           *)
Release ==
  /\ \E ts \in SUBSET {t \in Tasks : stage[t] = "held"} : Released(ts)
  /\ \E js \in SUBSET {j \in Jobs : status[j] = "planning"} :
       status' = [j \in Jobs |-> IF j \in js THEN "queued" ELSE status[j]]
  /\ UNCHANGED <<planned, planner>>

(* What was requested takes effect.                                        *)
PauseQuiet ==
  /\ status' = [j \in Jobs |-> IF status[j] = "pause_requested" /\ Quiet(j)
                               THEN "paused" ELSE status[j]]
  /\ Restage({t \in Tasks : status[JobOf[t]] = "cancel_requested" /\ stage[t] = "open"}, "dropped")
  /\ UNCHANGED <<planned, planner, lost>>
CancelQuiet ==
  /\ status' = [j \in Jobs |-> IF status[j] = "cancel_requested" /\ Quiet(j)
                               THEN "cancelled" ELSE status[j]]
  /\ UNCHANGED <<planned, planner, stage, lost>>

Finish(j) ==
  /\ \E outcome \in {"completed", "failed"} : Move(j, {"running"}, outcome)
  /\ UNCHANGED <<planned, planner, stage, lost>>

Next ==
  \/ \E j \in Jobs : Command(j) \/ StartPlanning(j) \/ Commit(j) \/ Abandon(j) \/ Claim(j) \/ Finish(j)
  \/ \E t \in Tasks : Settle(t)
  \/ Leave \/ Release \/ PauseQuiet \/ CancelQuiet

Spec == Init /\ [][Next]_vars
=============================================================================
