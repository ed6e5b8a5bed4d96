-------------------------- MODULE IntradayRequests --------------------------
(***************************************************************************)
(* Intraday profitability scans on request.  The public API queues a       *)
(* request, the worker's queue task claims it, attaches it to the running  *)
(* scan or starts one, and enrols every candidate of the completed scan    *)
(* for outcome tracking.  A web process may start scans of its own, and a  *)
(* deployment runs the old and the new worker side by side.                *)
(*                                                                         *)
(* A tick is five minutes.  The task counts the sleeps of its wait for a   *)
(* scan, never the time its polls and its other statements take: a tick    *)
(* may pass in them uncounted.                                             *)
(***************************************************************************)
EXTENDS Integers, FiniteSets

CONSTANTS
  Workers,       (* worker processes                                        *)
  MaxRequests,   (* bound: rows the public API inserts in ip_scan_requests  *)
  MaxScans,      (* bound: rows of ip_scans                                 *)
  Ranks,         (* the ranked candidates of a scan                         *)
  None,          (* SQL NULL, Python None                                   *)
  ScanStale,     (* 20 minutes: a running scan is given up                  *)
  MaxWait,       (* 25 minutes: MAX_SCAN_WAIT_SECONDS                       *)
  RequestStale,  (* 30 minutes: STALE_REQUEST_MINUTES                       *)
  MaxSlow,       (* bound: ticks that pass uncounted while a request is served *)
  MaxWebScans,   (* bound: scans the web process starts                     *)
  MaxMishaps     (* bound: crashes of a process and failing database calls  *)

Requests == 1..MaxRequests
Scans    == 1..MaxScans
Unsettled == {"queued", "running"}
Settled   == {"completed", "failed"}

ASSUME RequestAssumption ==
  /\ None \notin Nat \union Unsettled \union Settled
  /\ MaxRequests \in Nat /\ MaxScans \in Nat
  /\ ScanStale \in Nat /\ MaxWait \in Nat /\ RequestStale \in Nat
  /\ ScanStale < MaxWait /\ MaxWait < RequestStale
  /\ MaxSlow \in Nat /\ MaxWebScans \in Nat /\ MaxMishaps \in Nat

VARIABLES
  request,     (* ip_scan_requests                                          *)
  scan,        (* ip_scans                                                  *)
  tracked,     (* candidates with a row in ip_selected_candidates           *)
  reviewed,    (* scans marked with the audited scoring version             *)
  task,        (* the queue task of each worker                             *)
  web,         (* scans the web process is executing                        *)
  webLeft, mishapsLeft

vars == <<request, scan, tracked, reviewed, task, web, webLeft, mishapsLeft>>
bounds == <<webLeft, mishapsLeft>>

Off        == [pc |-> "off", req |-> None, scan |-> None, waited |-> 0,
               slow |-> 0, verdict |-> None, todo |-> {}]
Idle       == [Off EXCEPT !.pc = "idle"]
(* The steps of the task that are over at once, unless a tick finds them    *)
(* slow.                                                                    *)
Prompt     == {"boot", "attach", "linkRun", "linkWait", "read", "mark", "enrol",
               "finish"}
PCs        == Prompt \union {"off", "idle", "execute", "wait", "ended"}
Attending  == (Prompt \ {"boot"}) \union {"wait"}
TaskRow    == [pc : PCs, req : Requests \union {None}, scan : Scans \union {None},
               waited : 0..MaxWait,     (* sleeps counted by the wait    *)
               slow : 0..MaxSlow,       (* time no sleep has counted     *)
               verdict : Settled \union {None}, todo : SUBSET Scans]
RequestRow == [status : {None} \union Unsettled \union Settled,
               scan : Scans \union {None}, age : 0..RequestStale]
ScanRow    == [status : {None, "running"} \union Settled, age : 0..ScanStale]
CandsOf(s) == {s} \X Ranks

TypeOK ==
  /\ request \in [Requests -> RequestRow]
  /\ scan \in [Scans -> ScanRow]
  /\ tracked \subseteq Scans \X Ranks
  /\ reviewed \subseteq Scans
  /\ task \in [Workers -> TaskRow]
  /\ web \subseteq Scans
  /\ webLeft \in 0..MaxWebScans
  /\ mishapsLeft \in 0..MaxMishaps

Init ==
  /\ request = [r \in Requests |-> [status |-> None, scan |-> None, age |-> 0]]
  /\ scan = [s \in Scans |-> [status |-> None, age |-> 0]]
  /\ tracked = {} /\ reviewed = {}
  /\ task = [w \in Workers |-> Off]
  /\ web = {}
  /\ webLeft = MaxWebScans
  /\ mishapsLeft = MaxMishaps

-----------------------------------------------------------------------------
(* The public API and the page.                                             *)

(* The index on the unsettled rows admits one; a second caller is given it. *)
Active == {r \in Requests : request[r].status \in Unsettled}

QueueRequest(r) ==
  /\ request[r].status = None
  /\ \A q \in 1..(r - 1) : request[q].status # None
  /\ Active = {}
  /\ request' = [request EXCEPT ![r].status = "queued"]
  /\ UNCHANGED <<scan, tracked, reviewed, task, web, bounds>>

(* A candidate is selected by hand before or after its scan is enrolled.    *)
SelectCandidate(c) ==
  /\ c \notin tracked
  /\ scan[c[1]].status = "completed"
  /\ tracked' = tracked \union {c}
  /\ UNCHANGED <<request, scan, reviewed, task, web, bounds>>

-----------------------------------------------------------------------------
(* Scans.                                                                   *)

(* Variant: the recovery looks at no status.                                *)
StuckEver(s) == scan[s].status # None

Stuck(s) == scan[s].status = "running" /\ scan[s].age >= ScanStale

Recovered ==
  [s \in Scans |-> IF Stuck(s) THEN [status |-> "failed", age |-> 0]
                               ELSE scan[s]]

(* The scan a caller of _create_scan is given, under the advisory lock.     *)
CreateScan(s, duplicate) ==
  LET running == {t \in Scans : Recovered[t].status = "running"}
  IN IF duplicate
     THEN s \in running /\ scan' = Recovered
     ELSE /\ running = {}
          /\ scan[s].status = None
          /\ \A t \in 1..(s - 1) : scan[t].status # None
          /\ scan' = [Recovered EXCEPT ![s].status = "running"]

ScanEnds(s, status) == scan' = [scan EXCEPT ![s] = [status |-> status, age |-> 0]]

WebScan(s) ==
  /\ webLeft > 0
  /\ \/ CreateScan(s, FALSE) /\ web' = web \union {s}
     \/ CreateScan(s, TRUE) /\ UNCHANGED web
  /\ webLeft' = webLeft - 1
  /\ UNCHANGED <<request, tracked, reviewed, task, mishapsLeft>>

WebScanEnds(s) ==
  /\ s \in web
  /\ \E status \in Settled : ScanEnds(s, status)
  /\ web' = web \ {s}
  /\ UNCHANGED <<request, tracked, reviewed, task, bounds>>

WebCrash ==
  /\ web # {} /\ mishapsLeft > 0
  /\ web' = {}
  /\ mishapsLeft' = mishapsLeft - 1
  /\ UNCHANGED <<request, scan, tracked, reviewed, task, webLeft>>

-----------------------------------------------------------------------------
(* The queue task of a worker.                                              *)

At(w, pc)   == task[w].pc = pc
Become(w, row) == task' = [task EXCEPT ![w] = row]
Goto(w, pc) == Become(w, [task[w] EXCEPT !.pc = pc])
Settle(w, verdict) == Become(w, [task[w] EXCEPT !.pc = "finish", !.verdict = verdict])

Untracked(s) == scan[s].status = "completed" /\ ~(CandsOf(s) \subseteq tracked)

(* ensure_request_schema lists the scans to backfill ...                    *)
Start(w) ==
  /\ At(w, "off")
  /\ Become(w, [Off EXCEPT !.pc = "boot", !.todo = {s \in Scans : Untracked(s)}])
  /\ UNCHANGED <<request, scan, tracked, reviewed, web, bounds>>

Enrolled(s) == IF scan[s].status = "completed" THEN tracked \union CandsOf(s)
                                               ELSE tracked

(* ... and enrols them one by one before the first poll.                    *)
Backfill(w) ==
  /\ At(w, "boot")
  /\ IF task[w].todo = {} THEN Become(w, Idle) /\ UNCHANGED tracked
     ELSE \E s \in task[w].todo :
            /\ tracked' = Enrolled(s)
            /\ Become(w, [task[w] EXCEPT !.todo = @ \ {s}])
  /\ UNCHANGED <<request, scan, reviewed, web, bounds>>

(* Nothing catches an error of the backfill: the queue task ends, and with  *)
(* it the tracker and the outcome scheduler of this process.                *)
BackfillFails(w) ==
  /\ At(w, "boot") /\ mishapsLeft > 0
  /\ Become(w, [Off EXCEPT !.pc = "ended"])
  /\ mishapsLeft' = mishapsLeft - 1
  /\ UNCHANGED <<request, scan, tracked, reviewed, web, webLeft>>

Abandoned(r) == request[r].status = "running" /\ request[r].age >= RequestStale

AsSettled(row, status) == [row EXCEPT !.status = status, !.age = 0]

(* Variant: nothing is recovered.                                           *)
NotRecovered == request

Unblocked ==
  [r \in Requests |-> IF Abandoned(r) THEN AsSettled(request[r], "failed")
                                      ELSE request[r]]

Claim(w) ==
  /\ At(w, "idle")
  /\ \/ \E r \in Requests :
          /\ request[r].status = "queued"
          /\ request' = [Unblocked EXCEPT ![r].status = "running"]
          /\ Become(w, [Idle EXCEPT !.pc = "attach", !.req = r])
     \/ /\ \A r \in Requests : request[r].status # "queued"
        /\ Unblocked # request
        /\ request' = Unblocked
        /\ UNCHANGED task
  /\ UNCHANGED <<scan, tracked, reviewed, web, bounds>>

Attach(w) ==
  /\ At(w, "attach")
  /\ \E s \in Scans, duplicate \in BOOLEAN :
       /\ CreateScan(s, duplicate)
       /\ Become(w, [task[w] EXCEPT !.pc = IF duplicate THEN "linkWait" ELSE "linkRun",
                                    !.scan = s])
  /\ UNCHANGED <<request, tracked, reviewed, web, bounds>>

Link(w) ==
  /\ task[w].pc \in {"linkRun", "linkWait"}
  /\ request' = [request EXCEPT ![task[w].req].scan = task[w].scan]
  /\ Goto(w, IF At(w, "linkWait") THEN "wait" ELSE "execute")
  /\ UNCHANGED <<scan, tracked, reviewed, web, bounds>>

Execute(w) ==
  /\ At(w, "execute")
  /\ \E status \in Settled : ScanEnds(task[w].scan, status)
  /\ Goto(w, "read")
  /\ UNCHANGED <<request, tracked, reviewed, web, bounds>>

(* Variant: whatever status is read is written, a running one too.           *)
ReadScanRaw(w) ==
  /\ task[w].pc \in {"read", "wait"}
  /\ IF scan[task[w].scan].status = "completed" THEN Goto(w, "mark")
                                                ELSE Settle(w, scan[task[w].scan].status)
  /\ UNCHANGED <<request, scan, tracked, reviewed, web, bounds>>

(* The status read decides: mark and enrol a completed scan, or fail.       *)
ReadScan(w) ==
  /\ task[w].pc \in {"read", "wait"}
  /\ scan[task[w].scan].status \in Settled
  /\ IF scan[task[w].scan].status = "completed" THEN Goto(w, "mark")
                                                ELSE Settle(w, "failed")
  /\ UNCHANGED <<request, scan, tracked, reviewed, web, bounds>>

(* Variant: the wait has no limit.                                         *)
NeverExpired(w) == FALSE

Expired(w) == task[w].waited >= MaxWait

WaitExpires(w) ==
  /\ At(w, "wait")
  /\ Expired(w)
  /\ Settle(w, "failed")
  /\ UNCHANGED <<request, scan, tracked, reviewed, web, bounds>>

(* Variant: the request is finished before its candidates are enrolled.     *)
MarkAndSettle(w) ==
  /\ At(w, "mark")
  /\ reviewed' = reviewed \union {task[w].scan}
  /\ Settle(w, "completed")
  /\ UNCHANGED <<request, scan, tracked, web, bounds>>

Mark(w) ==
  /\ At(w, "mark")
  /\ reviewed' = IF scan[task[w].scan].status = "completed"
                 THEN reviewed \union {task[w].scan} ELSE reviewed
  /\ Goto(w, "enrol")
  /\ UNCHANGED <<request, scan, tracked, web, bounds>>

Enrol(w) ==
  /\ At(w, "enrol")
  /\ tracked' = Enrolled(task[w].scan)
  /\ Settle(w, "completed")
  /\ UNCHANGED <<request, scan, reviewed, web, bounds>>

(* The row is written by its id, whatever has become of it since the claim. *)
Finish(w) ==
  /\ At(w, "finish")
  /\ request' = [request EXCEPT ![task[w].req] = AsSettled(@, task[w].verdict)]
  /\ Become(w, Idle)
  /\ UNCHANGED <<scan, tracked, reviewed, web, bounds>>

(* A failing call fails the request; if that write fails too, or the write  *)
(* of a failure, the request stays as it is and the task polls again.       *)
DatabaseError(w) ==
  /\ mishapsLeft > 0
  /\ task[w].pc \in Attending
  /\ IF At(w, "finish") /\ task[w].verdict = "failed"
     THEN Become(w, Idle)
     ELSE Settle(w, "failed")
  /\ mishapsLeft' = mishapsLeft - 1
  /\ UNCHANGED <<request, scan, tracked, reviewed, web, webLeft>>

Crash(w) ==
  /\ ~At(w, "off") /\ mishapsLeft > 0
  /\ Become(w, Off)
  /\ mishapsLeft' = mishapsLeft - 1
  /\ UNCHANGED <<request, scan, tracked, reviewed, web, webLeft>>

-----------------------------------------------------------------------------
Older(age, limit) == IF age < limit THEN age + 1 ELSE limit

CanClaim(w) ==
  At(w, "idle") /\ \E r \in Requests : request[r].status = "queued" \/ Abandoned(r)

CanRead(w) ==
  At(w, "wait") /\ (Expired(w) \/ scan[task[w].scan].status \in Settled)

(* Tasks in a slow statement or poll do not count the tick.                *)
Tick ==
  \E late \in SUBSET {w \in Workers : task[w].pc \in Attending /\ task[w].slow < MaxSlow} :
    /\ \A w \in Workers \ late : task[w].pc \notin Prompt /\ ~CanClaim(w) /\ ~CanRead(w)
    /\ request' = [r \in Requests |-> IF request[r].status = "running"
                     THEN [request[r] EXCEPT !.age = Older(@, RequestStale)] ELSE request[r]]
    /\ scan' = [s \in Scans |-> IF scan[s].status = "running"
                     THEN [scan[s] EXCEPT !.age = Older(@, ScanStale)] ELSE scan[s]]
    /\ task' = [w \in Workers |->
                  IF w \in late THEN [task[w] EXCEPT !.slow = @ + 1]
                  ELSE IF At(w, "wait") THEN [task[w] EXCEPT !.waited = Older(@, MaxWait)]
                  ELSE task[w]]
    /\ UNCHANGED <<tracked, reviewed, web, bounds>>

Serve(w) ==
  \/ Backfill(w) \/ Claim(w) \/ Attach(w) \/ Link(w) \/ Execute(w)
  \/ ReadScan(w) \/ WaitExpires(w) \/ Mark(w) \/ Enrol(w) \/ Finish(w)

Next ==
  \/ \E r \in Requests : QueueRequest(r)
  \/ \E c \in Scans \X Ranks : SelectCandidate(c)
  \/ \E s \in Scans : WebScan(s) \/ WebScanEnds(s)
  \/ WebCrash
  \/ \E w \in Workers :
       \/ Start(w) \/ Serve(w) \/ BackfillFails(w) \/ DatabaseError(w) \/ Crash(w)
  \/ Tick

(* A worker is restarted, its task runs, and time passes.  The web process  *)
(* owes nothing: a scan it loses is recovered by age.                       *)
Spec ==
  /\ Init /\ [][Next]_vars
  /\ WF_vars(Tick)
  /\ \A w \in Workers : WF_vars(Start(w)) /\ WF_vars(Serve(w))

-----------------------------------------------------------------------------
(* A request says completed only when its scan completed, was marked with   *)
(* the audited version, and has every ranked candidate under tracking: the  *)
(* calibration population is never the user's selection (_process_request). *)
CompletedIsEnrolled ==
  \A r \in Requests : request[r].status = "completed" =>
    LET s == request[r].scan
    IN /\ s \in reviewed
       /\ scan[s].status = "completed"
       /\ CandsOf(s) \subseteq tracked

(* No candidate is tracked whose scan did not complete, although scans are  *)
(* recovered as failed while their executor may still finish them.          *)
TrackedIsCompleted ==
  \A c \in tracked : scan[c[1]].status = "completed"

(* Two workers never serve the same request: a claim that was given up is  *)
(* not handed out again.  And the 25 minutes of waiting fit in the 30 after*)
(* which a claim is given up: a worker still waiting for a scan has lost   *)
(* its request only if the five minutes between the two went by uncounted, *)
(* in slow polls and statements (_claim_request, _wait_for_scan).          *)
ServedByOne ==
  \A w \in Workers :
    /\ At(w, "wait") /\ request[task[w].req].status # "running" =>
         task[w].slow >= RequestStale - MaxWait
    /\ \A v \in Workers \ {w} : task[v].req # None => task[v].req # task[w].req

(* A queued request is answered: crashes, restarts, dead scans and failing  *)
(* writes included, unless the backfill of every worker failed at its start.*)
QueuedSettles ==
  \A r \in Requests : request[r].status = "queued"
    ~> \/ request[r].status \in Settled
       \/ \A w \in Workers : At(w, "ended")
=============================================================================
