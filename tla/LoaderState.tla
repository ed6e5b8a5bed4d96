----------------------------- MODULE LoaderState -----------------------------
(***************************************************************************)
(* The state the historical loader keeps: the control tables rd_jobs and   *)
(* rd_tasks, the loaded rd_bars with the rd_inventory ledger and the daily *)
(* features, the staging files on the workers' disks, and the local        *)
(* variables of the worker loop and of every process_task coroutine.       *)
(*                                                                         *)
(* One database transaction is one step.  Wall-clock time appears only as  *)
(* the freshness of a heartbeat: a row is fresh until now() has passed it  *)
(* by WORKER_STALE_SECONDS.                                                *)
(***************************************************************************)
EXTENDS Integers, FiniteSets

CONSTANTS
  Jobs,            (* job numbers, in created_at order                     *)
  Tasks,           (* rd_tasks.id values, in id order                      *)
  JobOf,           (* the job each task is planned for                     *)
  WindowOf,        (* the date window of each task                         *)
  Symbols,         (* symbols of the universe                              *)
  BatchOf,         (* the symbols of each task's batch                     *)
  Rejected,        (* symbols Alpaca answers with "invalid symbol"         *)
  Pages,           (* number of response pages of a window                 *)
  Dropped,         (* bars the session filter of _write_page drops         *)
  Workers,         (* worker processes                                     *)
  DiskOf,          (* the disk holding each worker's staging directory     *)
  None,            (* SQL NULL in claimed_by                               *)
  MaxRetries,      (* config.performance.max_retries                       *)
  Concurrency,     (* min(config concurrency, max_global_concurrency)      *)
  KeepFiles,       (* config.storage.keep_staging_files                    *)
  GenerateFeatures,(* config.storage.generate_daily_features               *)
  Commands,        (* the operator commands a run exercises                *)
  MaxCommands,     (* bound: operator commands per behaviour               *)
  MaxCrashes,      (* bound: worker crashes per behaviour                  *)
  MaxFaults        (* bound: failing or overlong calls per behaviour       *)

CommandNames ==
  {"create", "pause", "resume", "cancel", "recover", "retry", "delete"}

ASSUME LoaderAssumption ==
  /\ Jobs \subseteq Nat
  /\ Tasks \subseteq Nat /\ IsFiniteSet(Tasks)
  /\ IsFiniteSet(Symbols)
  /\ JobOf \in [Tasks -> Jobs]
  /\ BatchOf \in [Tasks -> SUBSET Symbols]
  /\ Rejected \subseteq Symbols
  /\ Pages \in Nat \ {0}
  /\ None \notin Workers
  /\ MaxRetries \in Nat \ {0}
  /\ Concurrency \in Nat \ {0}
  /\ KeepFiles \in BOOLEAN
  /\ GenerateFeatures \in BOOLEAN
  /\ Commands \subseteq CommandNames
  /\ MaxCommands \in Nat /\ MaxCrashes \in Nat /\ MaxFaults \in Nat

VARIABLES
  job,        (* rd_jobs row of each job                                   *)
  task,       (* rd_tasks row of each task                                 *)
  bars,       (* keys present in rd_bars                                   *)
  inventory,  (* rd_inventory.rows_loaded                                  *)
  featured,   (* bars the last refresh of rd_daily_features covered        *)
  file,       (* staging file of each task on each disk                    *)
  tokenDead,  (* Alpaca no longer accepts the page token of the task row   *)
  wk,         (* program counter and locals of each worker loop            *)
  run,        (* process_task coroutine of each worker and task            *)
  overtaken,  (* history: tasks whose lease was released under a coroutine *)
  raced,      (* history: jobs retried between a count and its UPDATE      *)
  commandsLeft, crashesLeft, faultsLeft

dbVars     == <<job, task>>
dataVars   == <<bars, inventory, featured>>
histVars   == <<overtaken, raced>>
budgetVars == <<commandsLeft, crashesLeft, faultsLeft>>
vars       == <<dbVars, dataVars, file, tokenDead, wk, run, histVars, budgetVars>>

-----------------------------------------------------------------------------
JobStatus ==
  {"queued", "planning", "running", "pause_requested", "paused",
   "cancel_requested", "cancelled", "completed", "failed"}

TaskStatus ==
  {"pending", "running", "staged", "loading", "completed", "failed", "cancelled"}

(* "absent" and "deleted" stand for a row that is not in the table.        *)
JobRow  == [status : JobStatus \union {"absent", "deleted"},
            planned : BOOLEAN,      (* total_tasks > 0                     *)
            fresh : BOOLEAN]
TaskRow == [status : TaskStatus \union {"absent"},
            claimedBy : Workers \union {None},
            attempts : 0..MaxRetries,
            fresh : BOOLEAN,
            token : 0..Pages,       (* 0: NULL, p: the token of page p     *)
            rows : BOOLEAN,         (* rows_staged > 0                     *)
            completedAt : BOOLEAN,  (* completed_at IS NOT NULL            *)
            symbols : SUBSET Symbols]

Windows == {WindowOf[t] : t \in Tasks}
Bar     == Symbols \X Windows \X (1..Pages)
Disks   == {DiskOf[w] : w \in Workers}

(* A gzip file of appended members; a hard stop in the middle of an append *)
(* leaves a torn member that no later append repairs.                      *)
StagingFile == [exists : BOOLEAN, torn : BOOLEAN, bars : SUBSET Bar]
NoFile      == [exists |-> FALSE, torn |-> FALSE, bars |-> {}]

(* After the commit that completes the row a coroutine is in its tail,     *)
(* whose failure the handler still writes to the row; after the commit of  *)
(* a handler it only leaves.                                               *)
ClosingPc == {"unlink_empty", "event", "unlink"}
LeavingPc == {"unlink_cancel", "leave"}
RunPc  == {"idle", "begin", "fetch", "checkpoint", "quarantine", "quarantined",
           "expired", "empty", "cancel", "pause", "pause_staged", "gate", "toload",
           "load", "features", "done"} \union ClosingPc \union LeavingPc
RunRow == [pc : RunPc, complete : BOOLEAN, token : 0..Pages, rows : BOOLEAN,
           symbols : SUBSET Symbols]
Idle   == [pc |-> "idle", complete |-> FALSE, token |-> 0, rows |-> FALSE,
           symbols |-> {}]

LoopPc  == {"down", "boot", "top", "controls", "cancels", "plan", "planning",
            "announce", "pick", "claim", "gather", "finalise", "outcome"}
LoopRow == [pc : LoopPc, job : Jobs \union {None}, batch : SUBSET Tasks,
            outcome : {"running", "completed", "failed"}]
At(pc)  == [pc |-> pc, job |-> None, batch |-> {}, outcome |-> "running"]

AbsentJob  == [status |-> "absent", planned |-> FALSE, fresh |-> FALSE]
AbsentTask == [status |-> "absent", claimedBy |-> None, attempts |-> 0,
               fresh |-> FALSE, token |-> 0, rows |-> FALSE,
               completedAt |-> FALSE, symbols |-> {}]

-----------------------------------------------------------------------------
TasksOf(j)    == {t \in Tasks : JobOf[t] = j}
JobExists(j)  == job[j].status \in JobStatus
TaskExists(t) == task[t].status # "absent"
Live(w, t)    == run[w][t].pc # "idle"
Closing(w, t) == run[w][t].pc \in ClosingPc
(* It may still write the row of t ...                                     *)
Writing(w, t) == Live(w, t) /\ run[w][t].pc \notin LeavingPc
(* ... and has not completed it yet.                                       *)
Working(w, t) == Writing(w, t) /\ ~Closing(w, t)

(* The worker's loop awaits the coroutine of t.  One that outlived the     *)
(* gather of its batch is an orphan, and its Alpaca client is closed.      *)
Awaited(w, t) == wk[w].pc = "gather" /\ t \in wk[w].batch

(* UPDATE rd_tasks ... WHERE id=t: no row, no effect.                      *)
UpdateTask(t, row) == task' = [task EXCEPT ![t] = IF TaskExists(t) THEN row ELSE @]

(* A task some worker may be working on, as the SQL of apply_job_controls  *)
(* sees it.                                                                *)
Engaged(t) ==
  \/ task[t].status \in {"running", "loading"}
  \/ task[t].status = "staged" /\ task[t].claimedBy # None

StaleRunning(t) == task[t].status = "running" /\ ~task[t].fresh

(* A stale lease: released by recover_stale_tasks and by the operator's    *)
(* recover command.  loading returns to staged, running to pending.        *)
Stale(t) == Engaged(t) /\ ~task[t].fresh
Recovered(t) ==
  [task[t] EXCEPT !.claimedBy = None,
                  !.status = IF @ = "running" THEN "pending" ELSE "staged"]

(* The leases of ts are released; some of the tasks still have a coroutine *)
(* that nobody told.                                                       *)
Overtake(ts) ==
  overtaken' = overtaken \union {t \in ts : Stale(t) /\ \E w \in Workers : Writing(w, t)}

SpendCommand(c) ==
  /\ c \in Commands
  /\ commandsLeft > 0
  /\ commandsLeft' = commandsLeft - 1
  /\ UNCHANGED <<crashesLeft, faultsLeft>>
SpendCrash ==
  /\ crashesLeft > 0
  /\ crashesLeft' = crashesLeft - 1
  /\ UNCHANGED <<commandsLeft, faultsLeft>>
SpendFault ==
  /\ faultsLeft > 0
  /\ faultsLeft' = faultsLeft - 1
  /\ UNCHANGED <<commandsLeft, crashesLeft>>

-----------------------------------------------------------------------------
Init ==
  /\ job = [j \in Jobs |-> AbsentJob]
  /\ task = [t \in Tasks |-> AbsentTask]
  /\ bars = {} /\ inventory = 0 /\ featured = {}
  /\ file = [d \in Disks |-> [t \in Tasks |-> NoFile]]
  /\ tokenDead = [t \in Tasks |-> FALSE]
  /\ wk = [w \in Workers |-> At("down")]
  /\ run = [w \in Workers |-> [t \in Tasks |-> Idle]]
  /\ overtaken = {} /\ raced = {}
  /\ commandsLeft = MaxCommands
  /\ crashesLeft = MaxCrashes
  /\ faultsLeft = MaxFaults

(* Every row and every local variable stays in the domain its column or    *)
(* the code gives it.                                                      *)
TypeOK ==
  /\ job \in [Jobs -> JobRow]
  /\ task \in [Tasks -> TaskRow]
  /\ bars \subseteq Bar /\ inventory \in Nat /\ featured \subseteq Bar
  /\ file \in [Disks -> [Tasks -> StagingFile]]
  /\ tokenDead \in [Tasks -> BOOLEAN]
  /\ wk \in [Workers -> LoopRow]
  /\ run \in [Workers -> [Tasks -> RunRow]]
  /\ overtaken \subseteq Tasks /\ raced \subseteq Jobs
  /\ commandsLeft \in Nat /\ crashesLeft \in Nat /\ faultsLeft \in Nat
=============================================================================
