---------------------------- MODULE ScanSchedule ----------------------------
(***************************************************************************)
(* Who starts an Oversold scan, and what becomes of it.  The worker's      *)
(* scheduler starts the nightly scan; the web processes start scheduled    *)
(* scans for an external timer and manual ones for two public routes.      *)
(* Each looks at the rows of or_scans before it inserts one, each in its   *)
(* own way.                                                                *)
(*                                                                         *)
(* A tick is the scheduler's poll of five minutes.  Only the ticks around  *)
(* the nightly window are counted, NightTicks of them on each date; a row  *)
(* of an earlier date is older than every limit.                           *)
(***************************************************************************)
EXTENDS Integers, FiniteSets

CONSTANTS
  Scheduler,     (* the scan task of the worker process                    *)
  Requests,      (* slots for POST requests that start scans               *)
  HostOf,        (* the process each of these runs in                      *)
  None,          (* SQL NULL, Python None                                  *)
  Bootstrap,     (* OVERSOLD_PRIMARY_BOOTSTRAP_ON_START                    *)
  NightTicks,    (* ticks of a date                                        *)
  WorkerWindow,  (* 22:45 to 23:05, as ticks of a date                     *)
  WebWindow,     (* 22:45 to 22:59                                         *)
  Stale,         (* 30 minutes                                             *)
  Cooldown,      (* 300 seconds                                            *)
  Horizon,       (* bound: last tick of the clock                          *)
  MaxScans,      (* bound: rows of or_scans                                *)
  MaxCrashes,    (* bound: process crashes per behaviour                   *)
  MaxFaults      (* bound: failing calls per behaviour                     *)

Actors  == Requests \union {Scheduler}
ScanIds == 1..MaxScans
Ticks   == 0..Horizon

DateOf(c) == c \div NightTicks
Minute(c) == c % NightTicks
First(S)  == CHOOSE m \in S : \A n \in S : m <= n
Last(S)   == CHOOSE m \in S : \A n \in S : m >= n

ASSUME ScanAssumption ==
  /\ Scheduler \notin Requests
  /\ DOMAIN HostOf = Actors
  /\ \A r \in Requests : HostOf[r] # HostOf[Scheduler]
  /\ None \notin Nat
  /\ Bootstrap \in BOOLEAN
  /\ NightTicks \in Nat \ {0}
  /\ WorkerWindow \in (SUBSET (0..(NightTicks - 1))) \ {{}}
  /\ WebWindow \subseteq WorkerWindow
  /\ Stale \in Nat /\ Cooldown \in Nat /\ Cooldown <= Stale
  /\ Horizon \in Nat /\ MaxScans \in Nat /\ MaxCrashes \in Nat /\ MaxFaults \in Nat

VARIABLES
  scan,        (* or_scans, in the order of the inserts                    *)
  act,         (* the coroutine of each actor                              *)
  lastRun,     (* last_run_date of the worker's scheduler                  *)
  polled,      (* it has polled in this tick                               *)
  watching,    (* history: it polls since the window opened, or earlier    *)
  clock,
  crashesLeft, faultsLeft

budgets == <<crashesLeft, faultsLeft>>
loop    == <<lastRun, polled, watching>>
vars    == <<scan, act, loop, clock, budgets>>

-----------------------------------------------------------------------------
ScanStatus == {"running", "completed", "failed"}
ScanRow == [trigger : {"scheduled", "manual"},
            by : {"worker", "web", "v2"},        (* who inserted it        *)
            status : ScanStatus \union {"none"},
            started : Ticks,
            evidence : BOOLEAN]                  (* version in metadata    *)
NoScan  == [trigger |-> "manual", by |-> "web", status |-> "none", started |-> 0,
            evidence |-> FALSE]

ActPc   == {"down", "dead", "boot", "sleep", "insert", "idle", "scheduled", "manual", "v2",
            "execute", "stamp", "done"}
ActRow  == [pc : ActPc, trigger : {"scheduled", "manual"}, scan : ScanIds \union {0}]
At(pc)  == [pc |-> pc, trigger |-> "manual", scan |-> 0]

Exists(s)    == scan[s].status # "none"
Rows         == {s \in ScanIds : Exists(s)}
OnDate(s, d) == Exists(s) /\ DateOf(scan[s].started) = d

(* started_at >= now() - n                                                 *)
Within(s, n) == OnDate(s, DateOf(clock)) /\ clock - scan[s].started <= n

SpendFault ==
  /\ faultsLeft > 0 /\ faultsLeft' = faultsLeft - 1
  /\ UNCHANGED crashesLeft

Become(a, row) == act' = [act EXCEPT ![a] = row]

(* _create_scan, and the insert of _create_or_reuse_scan.                  *)
Inserted(trigger, by) ==
  [trigger |-> trigger, by |-> by, status |-> "running", started |-> clock,
   evidence |-> FALSE]
NextId(s) == ~Exists(s) /\ \A i \in ScanIds : i < s => Exists(i)

Init ==
  /\ scan = [s \in ScanIds |-> NoScan]
  /\ act = [a \in Actors |-> At(IF a = Scheduler THEN "down" ELSE "idle")]
  /\ lastRun = None /\ polled = FALSE /\ watching = FALSE
  /\ clock = 0
  /\ crashesLeft = MaxCrashes /\ faultsLeft = MaxFaults

-----------------------------------------------------------------------------
(* _scan_state                                                             *)
Latest == {s \in Rows : \A i \in Rows : i <= s}
ScanRunningEver == \E s \in Rows : scan[s].status = "running"
ScanRunning == \E s \in Rows : scan[s].status = "running" /\ Within(s, Stale)

EnterLoop ==
  /\ Become(Scheduler, At("sleep"))
  /\ watching' = (Minute(clock) <= First(WorkerWindow))

WorkerStart ==
  /\ act[Scheduler].pc = "down"
  /\ Become(Scheduler, At("boot"))
  /\ lastRun' = None /\ polled' = FALSE /\ watching' = FALSE
  /\ UNCHANGED <<scan, clock, budgets>>

BootstrapRequired ==
  /\ Bootstrap /\ ~ScanRunning
  /\ ~\E s \in Latest : scan[s].status = "completed" /\ scan[s].evidence

(* bootstrap_scan_required                                                 *)
Boot ==
  /\ act[Scheduler].pc = "boot"
  /\ IF BootstrapRequired
     THEN Become(Scheduler, [At("insert") EXCEPT !.trigger = "manual"]) /\ UNCHANGED watching
     ELSE EnterLoop
  /\ UNCHANGED <<scan, lastRun, polled, clock, budgets>>

(* The look at the table is outside every try: the scheduler's task ends   *)
(* and the worker goes on without it.                                      *)
BootFails ==
  /\ act[Scheduler].pc = "boot" /\ Bootstrap
  /\ SpendFault
  /\ Become(Scheduler, At("dead"))
  /\ UNCHANGED <<scan, loop, clock>>

DueOnce == Minute(clock) \in WorkerWindow /\ lastRun = None
(* scheduled_scan_due                                                      *)
Due == Minute(clock) \in WorkerWindow /\ lastRun # DateOf(clock)

ScannedNever == FALSE
(* The latest scan is tonight's, scheduled, completed and with evidence.   *)
Scanned ==
  \E s \in Latest : /\ scan[s].status = "completed" /\ scan[s].trigger = "scheduled"
                    /\ OnDate(s, DateOf(clock)) /\ scan[s].evidence

(* One round of run_oversold_scan_scheduler, up to the insert.             *)
Poll ==
  /\ act[Scheduler].pc = "sleep" /\ ~polled
  /\ polled' = TRUE
  /\ IF Due /\ ~ScanRunning /\ ~Scanned
     THEN Become(Scheduler, [At("insert") EXCEPT !.trigger = "scheduled"])
     ELSE UNCHANGED act
  /\ lastRun' = IF Due /\ ~ScanRunning /\ Scanned THEN DateOf(clock) ELSE lastRun
  /\ UNCHANGED <<scan, watching, clock, budgets>>

(* The row is inserted without another look at the table.                  *)
WorkerInsert ==
  /\ act[Scheduler].pc = "insert"
  /\ \E s \in ScanIds :
       /\ NextId(s)
       /\ scan' = [scan EXCEPT ![s] = Inserted(act[Scheduler].trigger, "worker")]
       /\ Become(Scheduler, [act[Scheduler] EXCEPT !.pc = "execute", !.scan = s])
  /\ UNCHANGED <<loop, clock, budgets>>

(* _run_scan has returned, whatever became of the scan.                    *)
WorkerDone ==
  /\ act[Scheduler].pc = "done"
  /\ IF act[Scheduler].trigger = "scheduled"
     THEN /\ lastRun' = DateOf(clock)
          /\ polled' = TRUE
          /\ Become(Scheduler, At("sleep")) /\ UNCHANGED watching
     ELSE EnterLoop /\ UNCHANGED <<lastRun, polled>>
  /\ UNCHANGED <<scan, clock, budgets>>

(* An exception ends the round, which sleeps until the next poll, or the   *)
(* bootstrap scan, which goes on with the first.                           *)
EndRound ==
  /\ EnterLoop
  /\ polled' = (act[Scheduler].pc = "sleep" \/ act[Scheduler].trigger = "scheduled")
  /\ UNCHANGED lastRun

WorkerError ==
  /\ act[Scheduler].pc \in {"sleep", "insert", "done"}
  /\ act[Scheduler].pc = "sleep" => ~polled /\ Due
  /\ SpendFault
  /\ EndRound
  /\ UNCHANGED <<scan, clock>>

-----------------------------------------------------------------------------
(* The routes call the database without an await, so one request of a web  *)
(* process at a time is between its look at the table and its insert.      *)
Deciding(h) ==
  \E r \in Requests : HostOf[r] = h /\ act[r].pc \in {"scheduled", "manual", "v2"}

(* _existing_scheduled_scan                                                *)
ScheduledExists ==
  \E s \in Rows : /\ scan[s].trigger = "scheduled" /\ OnDate(s, DateOf(clock))
                  /\ scan[s].status \in {"running", "completed"}

(* _recent_manual_scan                                                     *)
RecentManual ==
  \E s \in Rows : /\ scan[s].trigger = "manual" /\ Within(s, Cooldown)
                  /\ scan[s].status \in {"running", "completed"}

(* POST /api/oversold/run, up to the insert.                               *)
AskScan(r) ==
  /\ act[r].pc = "idle" /\ ~Deciding(HostOf[r])
  /\ \/ /\ Minute(clock) \in WebWindow /\ ~ScheduledExists
        /\ Become(r, [At("scheduled") EXCEPT !.trigger = "scheduled"])
     \/ ~RecentManual /\ Become(r, At("manual"))
  /\ UNCHANGED <<scan, loop, clock, budgets>>

LockAlwaysFree == TRUE
(* pg_try_advisory_xact_lock: no other transaction holds it.               *)
LockFree == ~\E r \in Requests : act[r].pc = "v2"

RecoverableAny(s) == Exists(s) /\ ~Within(s, Stale)
Recoverable(s)    == scan[s].status = "running" /\ ~Within(s, Stale)

(* UPDATE or_scans SET status='failed': marked stale by V2 recovery.       *)
AsFailed(row) == [row EXCEPT !.status = "failed"]

Recovered == [s \in ScanIds |-> IF Recoverable(s) THEN AsFailed(scan[s]) ELSE scan[s]]

Recent ==
  \E s \in Rows : Within(s, Cooldown) /\ scan[s].status \in {"running", "completed"}

(* POST /api/oversold-v2/run: _create_or_reuse_scan takes the lock or      *)
(* answers at once, and commits at once when it reuses a scan.             *)
AskV2(r) ==
  /\ act[r].pc = "idle" /\ ~Deciding(HostOf[r])
  /\ LockFree
  /\ IF Recent
     THEN scan' = Recovered /\ UNCHANGED act
     ELSE Become(r, At("v2")) /\ UNCHANGED scan
  /\ UNCHANGED <<loop, clock, budgets>>

RequestInsert(r) ==
  /\ act[r].pc \in {"scheduled", "manual", "v2"}
  /\ LET v2   == act[r].pc = "v2"
         rows == IF v2 THEN Recovered ELSE scan
     IN \E s \in ScanIds :
          /\ NextId(s)
          /\ scan' = [rows EXCEPT ![s] =
                        Inserted(act[r].trigger, IF v2 THEN "v2" ELSE "web")]
          /\ Become(r, [act[r] EXCEPT !.pc = "execute", !.scan = s])
  /\ UNCHANGED <<loop, clock, budgets>>

(* The database fails before the insert is committed.                      *)
RequestError(r) ==
  /\ act[r].pc \in {"scheduled", "manual", "v2"}
  /\ SpendFault
  /\ Become(r, At("idle"))
  /\ UNCHANGED <<scan, loop, clock>>

-----------------------------------------------------------------------------
(* execute_scan settles its row without a look at the row's status; the    *)
(* metadata of a completed scan is written anew.  Nothing is seen of a     *)
(* scan before that, so one that waits for the _scan_lock of its process   *)
(* is one that takes longer.                                               *)
Complete(a) ==
  /\ act[a].pc = "execute"
  /\ scan' = [scan EXCEPT ![act[a].scan] =
                [@ EXCEPT !.status = "completed", !.evidence = FALSE]]
  /\ Become(a, [act[a] EXCEPT !.pc = "stamp"])
  /\ UNCHANGED <<loop, clock, budgets>>

ScanFails(a) ==
  /\ act[a].pc = "execute"
  /\ SpendFault
  /\ scan' = [scan EXCEPT ![act[a].scan] = AsFailed(@)]
  /\ Become(a, [act[a] EXCEPT !.pc = "stamp"])
  /\ UNCHANGED <<loop, clock>>

(* Where the caller goes on.                                               *)
Return(a) == IF a = Scheduler THEN [act[a] EXCEPT !.pc = "done"] ELSE At("idle")

(* The version of the primary evidence, in a transaction of its own, after *)
(* a failed scan too.                                                      *)
Stamp(a) ==
  /\ act[a].pc = "stamp"
  /\ scan' = [scan EXCEPT ![act[a].scan].evidence = TRUE]
  /\ Become(a, Return(a))
  /\ UNCHANGED <<loop, clock, budgets>>

(* ... whose failure is logged and forgotten.                              *)
StampFails(a) ==
  /\ act[a].pc = "stamp"
  /\ SpendFault
  /\ Become(a, Return(a))
  /\ UNCHANGED <<scan, loop, clock>>

(* Neither the scan nor its failure could be written: the row stays        *)
(* running, the exception reaches the caller.                              *)
ScanEscapes(a) ==
  /\ act[a].pc = "execute"
  /\ SpendFault
  /\ IF a = Scheduler
     THEN EndRound
     ELSE Become(a, At("idle")) /\ UNCHANGED loop
  /\ UNCHANGED <<scan, clock>>

-----------------------------------------------------------------------------
(* A process stops, in a deployment or a crash; its scans stay running.    *)
Crash(h) ==
  /\ crashesLeft > 0 /\ crashesLeft' = crashesLeft - 1
  /\ act' = [a \in Actors |->
               IF HostOf[a] # h THEN act[a]
               ELSE At(IF a = Scheduler THEN "down" ELSE "idle")]
  /\ UNCHANGED <<scan, loop, clock, faultsLeft>>

(* Time passes while scans are executed and wait, but no scan lasts until  *)
(* the next date: their calls have timeouts and bounded retries.  The      *)
(* steps before an insert take no time, and the scheduler polls once a     *)
(* tick.                                                                   *)
Tick ==
  /\ clock < Horizon
  /\ Minute(clock) = NightTicks - 1 =>
       ~\E a \in Actors : act[a].pc \in {"execute", "stamp"}
  /\ ~\E a \in Actors : act[a].pc \in {"boot", "insert", "scheduled", "manual", "v2", "done"}
  /\ act[Scheduler].pc = "sleep" => polled
  /\ clock' = clock + 1 /\ polled' = FALSE
  /\ watching' = (watching \/ (act[Scheduler].pc = "sleep" /\ Minute(clock') = 0))
  /\ UNCHANGED <<scan, act, lastRun, budgets>>

Next ==
  \/ WorkerStart \/ Boot \/ BootFails \/ Poll \/ WorkerInsert \/ WorkerDone \/ WorkerError
  \/ \E r \in Requests : AskScan(r) \/ AskV2(r) \/ RequestInsert(r) \/ RequestError(r)
  \/ \E a \in Actors : \/ Complete(a) \/ Stamp(a)
                       \/ ScanFails(a) \/ StampFails(a) \/ ScanEscapes(a)
  \/ \E h \in {HostOf[a] : a \in Actors} : Crash(h)
  \/ Tick

Spec == Init /\ [][Next]_vars

-----------------------------------------------------------------------------
(* Every row and every local variable stays in its domain, the CHECK       *)
(* constraints of or_scans among them.                                     *)
TypeOK ==
  /\ scan \in [ScanIds -> ScanRow]
  /\ act \in [Actors -> ActRow]
  /\ lastRun \in Ticks \union {None}
  /\ polled \in BOOLEAN /\ watching \in BOOLEAN
  /\ clock \in Ticks
  /\ crashesLeft \in Nat /\ faultsLeft \in Nat

(* oversold_primary_evidence_runtime.py calls a completed scan immutable:  *)
(* neither a failing stamp, nor the recovery of stale scans, nor a scan    *)
(* that waited for the lock for long takes a completion back.              *)
CompletedIsFinal ==
  [][\A s \in ScanIds :
       scan[s].status = "completed" => scan'[s].status = "completed"]_vars

(* The public button starts no second scan within the cooldown of one that *)
(* it started and that has not failed, whichever web processes answer.     *)
ManualIsSerial ==
  [][\A s \in ScanIds :
       ~Exists(s) /\ Exists(s)' /\ scan'[s].by = "v2" =>
         \A i \in Rows : /\ scan[i].by = "v2" /\ Within(i, Cooldown)
                         => scan[i].status = "failed"]_vars

(* On a date with no scan but the scheduler's, it completes at most one    *)
(* nightly scan with evidence, whatever is restarted in between.           *)
EvidencedOnce ==
  \A s, i \in Rows :
    LET Nightly(j) == /\ scan[j].trigger = "scheduled" /\ scan[j].status = "completed"
                      /\ scan[j].evidence
    IN  /\ DateOf(scan[s].started) = DateOf(scan[i].started)
        /\ Nightly(s) /\ Nightly(i)
        /\ \A j \in Rows : OnDate(j, DateOf(scan[s].started)) => scan[j].by = "worker"
        => s = i

(* The window is over and the scheduler has polled all through it.         *)
WindowWatched ==
  /\ Minute(clock) > Last(WorkerWindow)
  /\ act[Scheduler].pc # "down" /\ watching

(* A night the scheduler has watched has its scan, unless another scan was *)
(* started since thirty minutes before the window closes: an older row,    *)
(* left running or settled, never keeps the scheduler from its scan.       *)
NightlyUnlessBlocked ==
  WindowWatched =>
    \E s \in Rows :
      /\ OnDate(s, DateOf(clock))
      /\ \/ scan[s].trigger = "scheduled"
         \/ Minute(scan[s].started) + Stale >= Last(WorkerWindow)

=============================================================================
