----------------------------- MODULE TaskRunner -----------------------------
(***************************************************************************)
(* process_task: one coroutine that downloads a task page by page into a   *)
(* gzip staging file, checkpoints every page, loads the file into rd_bars  *)
(* and settles the task.  Every file operation and every transaction is a  *)
(* step of its own, because a crash may fall between any two of them, and  *)
(* so is what follows the commit that ends the work on a row.              *)
(* None of the UPDATE statements looks at the row's status or claimed_by.  *)
(***************************************************************************)
EXTENDS LoaderState

Staging(w, t)        == file[DiskOf[w]][t]
SetStaging(w, t, f)  == file' = [file EXCEPT ![DiskOf[w]][t] = f]
DropStaging(w, t)    == SetStaging(w, t, NoFile)

Goto(w, t, pc) == run' = [run EXCEPT ![w][t].pc = pc]
Finish(w, t)   == run' = [run EXCEPT ![w][t] = Idle]
(* What a commit is followed by when the staging files are not kept.       *)
GoUnlink(w, t, pc) == IF KeepFiles THEN Finish(w, t) ELSE Goto(w, t, pc)

RunnerFrame == UNCHANGED <<job, wk, histVars, commandsLeft, crashesLeft>>

(* _job_control: a deleted job reads as cancel_requested.                  *)
IsCancel(t) == job[JobOf[t]].status \in {"cancel_requested", "cancelled",
                                         "absent", "deleted"}
IsPause(t)  == job[JobOf[t]].status \in {"pause_requested", "paused"}

(* Where the download loop goes after it has read the job's status.        *)
LoopHead(t, symbols) ==
  IF IsCancel(t) THEN "cancel"
  ELSE IF IsPause(t) THEN "pause"
  ELSE IF symbols = {} THEN "empty" ELSE "fetch"

(* The bars of page p that _write_page keeps.                              *)
PageBars(t, symbols, p) == (symbols \X {WindowOf[t]} \X {p}) \ Dropped

-----------------------------------------------------------------------------
(* The checkpoint the claimed row carries is dropped, in the coroutine's   *)
(* locals only, when the staging file it speaks of is not on this disk.    *)
RunBegin(w, t) ==
  LET r     == run[w][t]
      reset == (r.token # 0 \/ r.complete) /\ ~Staging(w, t).exists
      q     == IF reset
               THEN [r EXCEPT !.complete = FALSE, !.token = 0, !.rows = FALSE]
               ELSE r
  IN
  /\ r.pc = "begin"
  /\ run' = [run EXCEPT ![w][t] =
               [q EXCEPT !.pc = IF q.complete THEN "gate" ELSE LoopHead(t, q.symbols)]]
  /\ UNCHANGED <<task, dataVars, file, tokenDead, faultsLeft>> /\ RunnerFrame

NextTokenEndless(p) == p + 1
NextToken(p)        == IF p < Pages THEN p + 1 ELSE 0

AppendMember(f, new)    == [f EXCEPT !.exists = TRUE, !.bars = @ \union new]

(* A page arrives and is appended to the staging file.                     *)
FetchPage(w, t) ==
  LET r    == run[w][t]
      p    == IF r.token = 0 THEN 1 ELSE r.token
      new  == PageBars(t, r.symbols, p)
  IN
  /\ r.pc = "fetch" /\ Awaited(w, t)
  /\ r.symbols \intersect Rejected = {}
  /\ ~(r.token # 0 /\ tokenDead[t])
  /\ SetStaging(w, t, AppendMember(Staging(w, t), new))
  /\ run' = [run EXCEPT ![w][t] =
               [r EXCEPT !.pc = "checkpoint", !.token = NextToken(p), !.rows = @ \/ new # {}]]
  /\ UNCHANGED <<task, dataVars, tokenDead, faultsLeft>> /\ RunnerFrame

(* _checkpoint: the page is acknowledged and the job's status read, in one *)
(* statement.                                                              *)
Checkpoint(w, t) ==
  LET r == run[w][t] IN
  /\ r.pc = "checkpoint"
  /\ UpdateTask(t, [task[t] EXCEPT
        !.token = r.token, !.rows = r.rows, !.fresh = TRUE,
        !.status = IF r.token = 0 THEN "staged" ELSE "running"])
  /\ tokenDead' = [tokenDead EXCEPT ![t] = FALSE]
  /\ run' = [run EXCEPT ![w][t] = [r EXCEPT !.complete = (r.token = 0),
        !.pc = IF IsCancel(t) THEN "cancel"
               ELSE IF IsPause(t) THEN IF r.token = 0 THEN "pause_staged" ELSE "pause"
               ELSE IF r.token = 0 THEN "gate" ELSE "fetch"]]
  /\ UNCHANGED <<dataVars, file, faultsLeft>> /\ RunnerFrame

(* Alpaca rejects one symbol of the batch: the partial file goes first ... *)
RejectSymbol(w, t) ==
  LET r == run[w][t] IN
  /\ r.pc = "fetch" /\ Awaited(w, t)
  /\ \E s \in r.symbols \intersect Rejected :
       run' = [run EXCEPT ![w][t] =
                 [pc |-> "quarantine", complete |-> FALSE, token |-> 0,
                  rows |-> FALSE, symbols |-> r.symbols \ {s}]]
  /\ DropStaging(w, t)
  /\ UNCHANGED <<task, dataVars, tokenDead, faultsLeft>> /\ RunnerFrame

(* ... then _persist_quarantined_symbol commits the reduced batch ...      *)
PersistQuarantine(w, t) ==
  LET r == run[w][t] IN
  /\ r.pc = "quarantine"
  /\ UpdateTask(t, [task[t] EXCEPT !.symbols = r.symbols, !.token = 0,
                                   !.rows = FALSE, !.fresh = TRUE])
  /\ tokenDead' = [tokenDead EXCEPT ![t] = FALSE]
  /\ Goto(w, t, "quarantined")
  /\ UNCHANGED <<dataVars, file, faultsLeft>> /\ RunnerFrame

(* ... and once its event is written, the download goes on with what is    *)
(* left.                                                                   *)
Requarantined(w, t) ==
  LET left == run[w][t].symbols IN
  /\ run[w][t].pc = "quarantined"
  /\ Goto(w, t, IF left = {} THEN "empty" ELSE LoopHead(t, left))
  /\ UNCHANGED <<task, dataVars, file, tokenDead, faultsLeft>> /\ RunnerFrame

(* _complete_empty_task: nothing is left to download.  The unlink and the  *)
(* event follow the commit.                                                *)
CompleteEmpty(w, t) ==
  /\ run[w][t].pc = "empty"
  /\ UpdateTask(t, [task[t] EXCEPT !.status = "completed", !.rows = FALSE, !.token = 0,
                          !.fresh = TRUE, !.claimedBy = None, !.completedAt = TRUE])
  /\ Goto(w, t, IF KeepFiles THEN "event" ELSE "unlink_empty")
  /\ UNCHANGED <<dataVars, file, tokenDead, faultsLeft>> /\ RunnerFrame

(* HTTP 400 for a saved page token: the partial file goes first, then the  *)
(* row returns to pending with its checkpoint cleared.                     *)
ExpiredToken(w, t) ==
  /\ run[w][t].pc = "fetch" /\ Awaited(w, t)
  /\ run[w][t].token # 0 /\ tokenDead[t]
  /\ run[w][t].symbols \intersect Rejected = {}
  /\ DropStaging(w, t)
  /\ Goto(w, t, "expired")
  /\ UNCHANGED <<task, dataVars, tokenDead, faultsLeft>> /\ RunnerFrame

ResetCheckpoint(w, t) ==
  /\ run[w][t].pc = "expired"
  /\ UpdateTask(t, [task[t] EXCEPT !.status = "pending", !.token = 0, !.rows = FALSE,
                                   !.claimedBy = None])
  /\ tokenDead' = [tokenDead EXCEPT ![t] = FALSE]
  /\ Goto(w, t, "leave")
  /\ UNCHANGED <<dataVars, file, faultsLeft>> /\ RunnerFrame

-----------------------------------------------------------------------------
(* The last look at the job's status before the load.                      *)
Gate(w, t) ==
  /\ run[w][t].pc = "gate"
  /\ Goto(w, t, IF IsCancel(t) THEN "cancel"
                ELSE IF IsPause(t) THEN "pause_staged" ELSE "toload")
  /\ UNCHANGED <<task, dataVars, file, tokenDead, faultsLeft>> /\ RunnerFrame

StartLoading(w, t) ==
  /\ run[w][t].pc = "toload"
  /\ UpdateTask(t, [task[t] EXCEPT !.status = "loading", !.fresh = TRUE])
  /\ Goto(w, t, "load")
  /\ UNCHANGED <<dataVars, file, tokenDead, faultsLeft>> /\ RunnerFrame

Readable(f) == f.exists /\ ~f.torn

RowsStaged(staged)  == Cardinality(staged)
RowsLoaded(staged)  == Cardinality(staged \ bars)

AfterFirstLoad(w, t) ==
  IF GenerateFeatures /\ ~(Staging(w, t).bars \subseteq bars) THEN "features" ELSE "done"
AfterLoad(w, t) == IF GenerateFeatures /\ run[w][t].rows THEN "features" ELSE "done"

(* bulk_load: COPY, the deduplicated insert and the ledger in one          *)
(* transaction; with conflict_policy=skip rowcount is the number of keys   *)
(* that were new.                                                          *)
BulkLoad(w, t) ==
  LET staged == Staging(w, t).bars IN
  /\ run[w][t].pc = "load"
  /\ Readable(Staging(w, t))
  /\ bars' = bars \union staged
  /\ inventory' = inventory + RowsLoaded(staged)
  /\ Goto(w, t, AfterLoad(w, t))
  /\ UNCHANGED <<task, featured, file, tokenDead, faultsLeft>> /\ RunnerFrame

(* refresh_daily_features recomputes the task's symbols from rd_bars.      *)
RefreshFeatures(w, t) ==
  /\ run[w][t].pc = "features"
  /\ featured' = featured \union
       {b \in bars : b[1] \in run[w][t].symbols /\ b[2] = WindowOf[t]}
  /\ Goto(w, t, "done")
  /\ UNCHANGED <<task, bars, inventory, file, tokenDead, faultsLeft>>
  /\ RunnerFrame

CompleteTask(w, t) ==
  /\ run[w][t].pc = "done"
  /\ UpdateTask(t, [task[t] EXCEPT !.status = "completed", !.token = 0, !.fresh = TRUE,
                                   !.completedAt = TRUE])
  /\ GoUnlink(w, t, "unlink")
  /\ UNCHANGED <<dataVars, file, tokenDead, faultsLeft>> /\ RunnerFrame

(* path.unlink after a commit; an empty task's event comes after it.       *)
UnlinkStaging(w, t) ==
  /\ run[w][t].pc \in {"unlink_empty", "unlink", "unlink_cancel"}
  /\ DropStaging(w, t)
  /\ IF run[w][t].pc = "unlink_empty" THEN Goto(w, t, "event") ELSE Finish(w, t)
  /\ UNCHANGED <<task, dataVars, tokenDead, faultsLeft>> /\ RunnerFrame

(* The event that ends a coroutine is written.                             *)
LastEvent(w, t) ==
  /\ run[w][t].pc \in {"event", "leave"}
  /\ Finish(w, t)
  /\ UNCHANGED <<task, dataVars, file, tokenDead, faultsLeft>> /\ RunnerFrame

-----------------------------------------------------------------------------
(* The TaskControl handler.                                                *)
CancelTask(w, t) ==
  /\ run[w][t].pc = "cancel"
  /\ UpdateTask(t, [task[t] EXCEPT !.status = "cancelled", !.claimedBy = None,
                                   !.fresh = TRUE])
  /\ GoUnlink(w, t, "unlink_cancel")
  /\ UNCHANGED <<dataVars, file, tokenDead, faultsLeft>> /\ RunnerFrame

PauseTask(w, t) ==
  /\ run[w][t].pc \in {"pause", "pause_staged"}
  /\ UpdateTask(t, [task[t] EXCEPT !.claimedBy = None, !.fresh = TRUE,
        !.status = IF run[w][t].pc = "pause" THEN "pending" ELSE "staged"])
  /\ Finish(w, t)
  /\ UNCHANGED <<dataVars, file, tokenDead, faultsLeft>> /\ RunnerFrame

(* The generic handler: the row is marked failed, whatever its status, the *)
(* file stays, and claimed_by keeps the worker.                            *)
FailTask(w, t) ==
  /\ UpdateTask(t, [task[t] EXCEPT !.status = "failed", !.fresh = TRUE])
  /\ Goto(w, t, "leave")
  /\ UNCHANGED <<dataVars, file, tokenDead>> /\ RunnerFrame

(* The tail after the commit of status='completed' is in the try block too.*)
TryPc == {"begin", "fetch", "checkpoint", "quarantine", "quarantined", "empty", "gate",
          "toload", "load", "features", "done"} \union ClosingPc

(* A call inside the try block fails: network, database or disk.           *)
RunError(w, t) ==
  /\ run[w][t].pc \in TryPc
  /\ faultsLeft > 0 /\ faultsLeft' = faultsLeft - 1
  /\ FailTask(w, t)

(* bulk_load raises: the staging file is missing or cannot be decompressed.*)
LoadError(w, t) ==
  /\ run[w][t].pc = "load"
  /\ ~Readable(Staging(w, t))
  /\ UNCHANGED faultsLeft
  /\ FailTask(w, t)

(* An orphan asks a client that async with has closed.                     *)
ClosedClient(w, t) ==
  /\ run[w][t].pc = "fetch" /\ ~Awaited(w, t)
  /\ UNCHANGED faultsLeft
  /\ FailTask(w, t)

(* An exception no handler catches: the event of a dropped checkpoint, or  *)
(* the UPDATE, the unlink or the event of a handler itself.  It leaves     *)
(* gather, whose other coroutines go on as orphans, and the loop starts    *)
(* over.                                                                   *)
RunEscapes(w, t) ==
  /\ Live(w, t)
  /\ faultsLeft > 0 /\ faultsLeft' = faultsLeft - 1
  /\ Finish(w, t)
  /\ wk' = IF Awaited(w, t) THEN [wk EXCEPT ![w] = At("top")] ELSE wk
  /\ UNCHANGED <<job, task, dataVars, file, tokenDead, histVars, commandsLeft, crashesLeft>>

RunStep(w, t) ==
  \/ RunBegin(w, t)
  \/ FetchPage(w, t)
  \/ Checkpoint(w, t)
  \/ RejectSymbol(w, t)
  \/ PersistQuarantine(w, t)
  \/ Requarantined(w, t)
  \/ CompleteEmpty(w, t)
  \/ ExpiredToken(w, t)
  \/ ResetCheckpoint(w, t)
  \/ Gate(w, t)
  \/ StartLoading(w, t)
  \/ BulkLoad(w, t)
  \/ RefreshFeatures(w, t)
  \/ CompleteTask(w, t)
  \/ UnlinkStaging(w, t)
  \/ LastEvent(w, t)
  \/ CancelTask(w, t)
  \/ PauseTask(w, t)
  \/ LoadError(w, t)
  \/ ClosedClient(w, t)
=============================================================================
