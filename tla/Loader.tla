------------------------------- MODULE Loader -------------------------------
(***************************************************************************)
(* The historical loader: operators, planners, worker loops and their      *)
(* coroutines over one database, with crashes, failing calls and expiring  *)
(* leases.                                                                 *)
(***************************************************************************)
EXTENDS JobApi, Planner, TaskRunner, WorkerLoop

Environment ==
  \/ \E j \in Jobs : JobAction(j)
  \/ \E j \in Jobs : PlannerExpires(j)
  \/ \E t \in Tasks : LeaseExpires(t)
  \/ \E t \in Tasks : TokenExpires(t)

Disturbance ==
  \/ \E w \in Workers : PlanFail(w)
  \/ \E w \in Workers : LoopError(w)
  \/ \E w \in Workers : ClaimThenError(w)
  \/ \E w \in Workers : Crash(w)
  \/ \E w \in Workers, t \in Tasks : RunError(w, t)
  \/ \E w \in Workers, t \in Tasks : RunEscapes(w, t)
  \/ \E t \in Tasks : LeaseOutlived(t)

Next ==
  \/ Environment
  \/ Disturbance
  \/ \E w \in Workers : LoopStep(w)
  \/ \E w \in Workers : PlanStep(w)
  \/ \E w \in Workers, t \in Tasks : RunStep(w, t)

Spec == Init /\ [][Next]_vars

(* A worker's loop and every coroutine keep running, the host restarts a   *)
(* dead worker, recovery is due again and again, and time passes on an     *)
(* abandoned lease.  Nothing is assumed of operators, faults and crashes.  *)
Fairness ==
  /\ \A w \in Workers : WF_vars(LoopStep(w) \/ PlanStep(w))
  /\ \A w \in Workers : SF_vars(RecoverStaleTasks(w))
  /\ \A w \in Workers, t \in Tasks : WF_vars(RunStep(w, t))
  /\ \A t \in Tasks : WF_vars(LeaseExpires(t))
  /\ \A j \in Jobs : WF_vars(PlannerExpires(j))

FairSpec == Spec /\ Fairness

-----------------------------------------------------------------------------
(* A job that is not planned yet has no task row: whatever planners race,  *)
(* a job returned to the queue never has half a plan, and the branch of    *)
(* recover_stale_tasks for a planning job with tasks is never taken.       *)
QueuedHasNoTasks ==
  \A j \in Jobs :
    job[j].status \in {"queued", "planning"} =>
      ~job[j].planned /\ \A t \in TasksOf(j) : ~TaskExists(t)

(* Two coroutines that may still write a task's row never meet, and the    *)
(* one there is holds the row's claim until it has completed the row.  The *)
(* UPDATEs of process_task check neither: it holds of every task, but of   *)
(* one whose lease was released under a coroutine in an overlong call.     *)
ExclusiveClaim ==
  \A t \in Tasks \ overtaken : \A w \in Workers :
    /\ Working(w, t) /\ TaskExists(t) => task[t].claimedBy = w /\ Engaged(t)
    /\ Closing(w, t) /\ TaskExists(t) => task[t].status = "completed"
    /\ Writing(w, t) => \A v \in Workers \ {w} : ~Writing(v, t)

(* A job is settled by what its tasks became.  A completed one has no task *)
(* that was never done: each was completed or cancelled, although the      *)
(* failing tail of its own coroutine may have marked it failed since, and  *)
(* another worker may have claimed it then.  What finalise_if_done counted *)
(* still holds in this sense when its UPDATE finds the job running,        *)
(* whatever other workers and the operator did in between, and the job     *)
(* fails only over a task that is not completed.  Exempt are overtaken     *)
(* tasks, and a job the operator retried between the count and the UPDATE. *)
(* A completed job may have cancelled tasks: the late plan of a second     *)
(* planner puts a cancelled job back to work.                              *)
Closed(t)   == task[t].status \in {"completed", "cancelled"} \/ task[t].completedAt
Settling(w) == wk[w].pc = "outcome" /\ job[wk[w].job].status = "running"
SettledJobIsDone ==
  /\ \A j \in Jobs \ raced : job[j].status = "completed" =>
       \A t \in TasksOf(j) \ overtaken : Closed(t)
  /\ \A w \in Workers : Settling(w) /\ wk[w].job \notin raced =>
       /\ \A t \in TasksOf(wk[w].job) \ overtaken :
            Closed(t) \/ (wk[w].outcome = "failed" /\ Exhausted(t))
       /\ wk[w].outcome = "failed" =>
            \E t \in TasksOf(wk[w].job) : t \in overtaken \/ task[t].status # "completed"

(* What JobLifecycle promises of jobs and tasks, the loader does: no race  *)
(* of workers, stop, failing call or stale lease moves a job otherwise, or *)
(* takes back a completed task once its coroutine has ended, unless a      *)
(* lease was released under a coroutine of it.                             *)
StatusOf  == [j \in Jobs |-> job[j].status]
PlannedOf == [j \in Jobs |-> job[j].planned]
PlannerOf == [j \in Jobs |-> \E w \in Workers :
                               wk[w].pc \in {"planning", "announce"} /\ wk[w].job = j]
StageOf   == [t \in Tasks |->
               IF task[t].status = "absent" THEN "none"
               ELSE IF Engaged(t) THEN "held"
               ELSE IF task[t].status = "completed"
                    THEN IF \E w \in Workers : Closing(w, t) THEN "closing" ELSE "done"
               ELSE IF task[t].status = "cancelled" THEN "dropped" ELSE "open"]
Lifecycle == INSTANCE JobLifecycle WITH
  status <- StatusOf, planned <- PlannedOf, planner <- PlannerOf, stage <- StageOf,
  lost <- overtaken
ImplementsLifecycle == Lifecycle!Spec

-----------------------------------------------------------------------------
TaskBars(t) == (task[t].symbols \X {WindowOf[t]} \X (1..Pages)) \ Dropped

(* README: task restarts are safe.  A completed task has every bar of its  *)
(* symbols and window in rd_bars, whatever was interrupted on the way, and *)
(* the daily features, when asked for, cover them; unless its lease was    *)
(* released under a coroutine, so that two wrote one staging file.         *)
CompletedIsLoaded ==
  \A t \in Tasks \ overtaken : task[t].status = "completed" =>
    /\ TaskBars(t) \subseteq bars
    /\ GenerateFeatures => TaskBars(t) \subseteq featured

(* With conflict_policy=skip the ledger counts the rows of rd_bars exactly,*)
(* however often a file is loaded and whatever windows overlap.            *)
InventoryExact == inventory = Cardinality(bars)

-----------------------------------------------------------------------------
(* A cancel or pause request is always answered.                           *)
StopsAnswered ==
  \A j \in Jobs, s \in {"cancel_requested", "pause_requested"} :
    job[j].status = s ~> job[j].status # s

(* A task some worker holds is settled or released, crashes included.      *)
EngagedIsReleased ==
  \A t \in Tasks : Engaged(t) ~> ~Engaged(t)

(* Every task of a running job is worked on until it is completed or its   *)
(* retries are spent, whatever it was in the middle of.                    *)
TaskSettles ==
  \A t \in Tasks :
    TaskExists(t) ~> \/ task[t].status \in {"completed", "cancelled"}
                     \/ Exhausted(t)
                     \/ job[JobOf[t]].status # "running"
=============================================================================
