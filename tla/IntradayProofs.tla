--------------------------- MODULE IntradayProofs ---------------------------
(***************************************************************************)
(* Proofs about IntradayRequests, for any number of workers, requests and  *)
(* scans, any limits in the order of the code's, and any mishaps.          *)
(***************************************************************************)
EXTENDS IntradayRequests, TLAPS

HasScan == {"linkRun", "linkWait", "execute", "wait", "read", "mark", "enrol"}
Linked  == {"execute", "wait", "read", "mark", "enrol"}
Serving == {"attach", "finish"} \union HasScan
Waiting == {"attach", "linkRun", "linkWait", "wait"}

Completed(s)    == s \in Scans /\ scan[s].status = "completed"
Delivered(s)    == Completed(s) /\ s \in reviewed /\ CandsOf(s) \subseteq tracked
Executes(w, s)  == task[w].pc \in {"linkRun", "execute"} /\ task[w].scan = s

-----------------------------------------------------------------------------
(* A scan has one executor from its insertion on, and none once completed. *)
ExecInv ==
  /\ \A s \in web : scan[s].status \notin {None, "completed"}
  /\ \A w \in Workers, s \in Scans : Executes(w, s) =>
       /\ s \notin web
       /\ scan[s].status \notin {None, "completed"}
       /\ \A v \in Workers \ {w} : ~Executes(v, s)

(* A request is served by the worker that claimed it, and settled rows are *)
(* served by nobody, except those given up as failed.                      *)
OwnerInv ==
  \A w \in Workers :
    /\ task[w].pc \in Serving <=> task[w].req # None
    /\ task[w].pc \in HasScan => task[w].scan # None
    /\ task[w].pc = "finish" => task[w].verdict # None
    /\ task[w].pc \in Linked => request[task[w].req].scan = task[w].scan
    /\ task[w].pc \in Serving =>
         request[task[w].req].status \notin {None, "queued", "completed"}
    /\ \A v \in Workers \ {w} : task[v].req # None => task[v].req # task[w].req

(* Between its claim and the end of its wait a request ages by the time    *)
(* waited and the time nobody counted; one given up had reached the limit. *)
AgeInv ==
  /\ \A r \in Requests : request[r].status \in {None, "queued"} => request[r].age = 0
  /\ \A w \in Workers : task[w].pc \in Waiting =>
       IF request[task[w].req].status = "running"
       THEN request[task[w].req].age <= task[w].waited + task[w].slow
       ELSE RequestStale <= task[w].waited + task[w].slow

(* What each step of the enrolment has established for the next.           *)
EnrolInv ==
  /\ \A c \in tracked : Completed(c[1])
  /\ \A w \in Workers :
       /\ task[w].pc \in {"mark", "enrol"} => Completed(task[w].scan)
       /\ task[w].pc = "enrol" => task[w].scan \in reviewed
       /\ task[w].pc = "finish" /\ task[w].verdict = "completed" =>
            Delivered(request[task[w].req].scan)
  /\ \A r \in Requests : request[r].status = "completed" => Delivered(request[r].scan)

IInv == ExecInv /\ OwnerInv /\ AgeInv /\ EnrolInv

-----------------------------------------------------------------------------
(* The rows the actions write.                                             *)
LEMMA SettledRow ==
  ASSUME NEW r \in RequestRow, NEW status \in Unsettled \union Settled
  PROVE  /\ AsSettled(r, status) \in RequestRow
         /\ AsSettled(r, status).status = status
         /\ AsSettled(r, status).scan = r.scan
         /\ AsSettled(r, status).age = 0
<1> DEFINE q == [r EXCEPT !.status = status]
<1>1. q \in RequestRow /\ q.status = status /\ q.scan = r.scan
  BY DEF RequestRow
<1>2. AsSettled(r, status) = [q EXCEPT !.age = 0]
  BY DEF AsSettled
<1> HIDE DEF q
<1> QED
  BY <1>1, <1>2, RequestAssumption DEF RequestRow

(* A task that goes on to another step.                                    *)
LEMMA MovedRow ==
  ASSUME NEW t \in TaskRow, NEW pc \in PCs
  PROVE  LET q == [t EXCEPT !.pc = pc]
         IN  /\ q \in TaskRow
             /\ q.pc = pc /\ q.req = t.req /\ q.scan = t.scan
             /\ q.waited = t.waited /\ q.slow = t.slow
             /\ q.verdict = t.verdict /\ q.todo = t.todo
BY DEF TaskRow

(* A task that settles with a verdict.                                     *)
LEMMA VerdictRow ==
  ASSUME NEW t \in TaskRow, NEW v \in Settled \union {None}
  PROVE  LET q == [t EXCEPT !.pc = "finish", !.verdict = v]
         IN  /\ q \in TaskRow
             /\ q.pc = "finish" /\ q.req = t.req /\ q.scan = t.scan
             /\ q.waited = t.waited /\ q.verdict = v /\ q.todo = t.todo
<1> DEFINE q == [t EXCEPT !.pc = "finish"]
<1>1. /\ q \in TaskRow
      /\ q.pc = "finish" /\ q.req = t.req /\ q.scan = t.scan
      /\ q.waited = t.waited /\ q.todo = t.todo
  BY DEF TaskRow, PCs, Prompt
<1> HIDE DEF q
<1>2. LET p == [q EXCEPT !.verdict = v]
      IN  /\ p \in TaskRow
          /\ p.pc = "finish" /\ p.req = t.req /\ p.scan = t.scan
          /\ p.waited = t.waited /\ p.verdict = v /\ p.todo = t.todo
  BY <1>1 DEF TaskRow
<1> QED
  BY <1>2 DEF q

(* A task that is given its scan.                                          *)
Attached(t, pc, s) == [t EXCEPT !.pc = pc, !.scan = s]

(* ... and keeps its request.                                             *)
LEMMA AttachedRow ==
  ASSUME NEW t \in TaskRow, NEW pc \in PCs, NEW s \in Scans
  PROVE  /\ Attached(t, pc, s) \in TaskRow
         /\ Attached(t, pc, s).pc = pc /\ Attached(t, pc, s).scan = s
         /\ Attached(t, pc, s).req = t.req
         /\ Attached(t, pc, s).waited = t.waited /\ Attached(t, pc, s).slow = t.slow
<1> DEFINE q == [t EXCEPT !.pc = pc]
<1>1. /\ q \in TaskRow /\ q.pc = pc /\ q.req = t.req
      /\ q.waited = t.waited /\ q.slow = t.slow
  BY DEF TaskRow
<1>2. Attached(t, pc, s) = [q EXCEPT !.scan = s]
  BY DEF Attached
<1> HIDE DEF q
<1> QED
  BY <1>1, <1>2 DEF TaskRow

(* A task that has stopped, or polls.                                      *)
LEMMA IdleRows ==
  /\ Off \in TaskRow /\ Off.pc = "off" /\ Off.req = None
  /\ Idle \in TaskRow /\ Idle.pc = "idle" /\ Idle.req = None
BY RequestAssumption DEF Off, Idle, TaskRow, PCs, Prompt

(* A task that has claimed a request.                                      *)
LEMMA ClaimedRow ==
  ASSUME NEW r \in Requests
  PROVE  LET q == [Idle EXCEPT !.pc = "attach", !.req = r]
         IN  q \in TaskRow /\ q.pc = "attach" /\ q.req = r /\ q.waited = 0 /\ q.slow = 0
<1> DEFINE q == [Idle EXCEPT !.pc = "attach"]
<1>1. q \in TaskRow /\ q.pc = "attach" /\ q.waited = 0 /\ q.slow = 0
  <2>1. Idle \in TaskRow /\ Idle.waited = 0 /\ Idle.slow = 0
    BY IdleRows DEF Idle, Off
  <2> QED
    BY <2>1 DEF TaskRow, PCs, Prompt
<1> HIDE DEF q
<1>2. LET p == [q EXCEPT !.req = r]
      IN  p \in TaskRow /\ p.pc = "attach" /\ p.req = r /\ p.waited = 0 /\ p.slow = 0
  BY <1>1 DEF TaskRow
<1> QED
  BY <1>2 DEF q

(* A worker that takes a step leaves the others' tasks alone.              *)
LEMMA Becomes ==
  ASSUME TypeOK, NEW w \in Workers, NEW row \in TaskRow, Become(w, row)
  PROVE  /\ task' \in [Workers -> TaskRow]
         /\ task'[w] = row
         /\ \A v \in Workers \ {w} : task'[v] = task[v]
BY DEF Become, TypeOK

(* What is delivered stays delivered.                                      *)
LEMMA DeliveredStays ==
  ASSUME \A s \in Scans : scan[s].status = "completed" => scan'[s].status = "completed",
         tracked \subseteq tracked', reviewed \subseteq reviewed'
  PROVE  \A s : /\ Completed(s) => Completed(s)'
                /\ Delivered(s) => Delivered(s)'
BY DEF Completed, Delivered

(* A serving task has a request, and no two the same one.                  *)
LEMMA Serves ==
  ASSUME TypeOK, OwnerInv, NEW w \in Workers, task[w].pc \in Serving
  PROVE  /\ task[w] \in TaskRow
         /\ task[w].req \in Requests
         /\ task[w].pc \in HasScan => task[w].scan \in Scans
         /\ \A v \in Workers \ {w} :
              task[v].pc \in Serving => task[v].req \in Requests \ {task[w].req}
<1>1. ASSUME NEW v \in Workers, task[v].pc \in Serving
      PROVE  task[v] \in TaskRow /\ task[v].req \in Requests /\ task[v].req # None
  BY <1>1 DEF OwnerInv, TypeOK, TaskRow
<1>2. task[w].pc \in HasScan => task[w].scan \in Scans
  BY <1>1 DEF OwnerInv, TaskRow
<1>3. ASSUME NEW v \in Workers \ {w}, task[v].pc \in Serving PROVE task[v].req # task[w].req
  BY <1>1, <1>3 DEF OwnerInv
<1> QED
  BY <1>1, <1>2, <1>3

-----------------------------------------------------------------------------
(* The request is linked to its scan by the worker that serves it.         *)
LEMMA LinkKeeps ==
  ASSUME TypeOK, IInv, NEW w \in Workers, Link(w) PROVE TypeOK' /\ IInv'
<1> DEFINE r == task[w].req
           pc == IF At(w, "linkWait") THEN "wait" ELSE "execute"
           row == [task[w] EXCEPT !.pc = pc]
<1>1. /\ task[w] \in TaskRow /\ r \in Requests /\ task[w].scan \in Scans
      /\ \A v \in Workers \ {w} : task[v].pc \in Serving => task[v].req \in Requests \ {r}
  BY Serves DEF IInv, Link, Serving, HasScan
<1>2. /\ task'[w].pc = pc /\ task'[w].req = r /\ task'[w].scan = task[w].scan
      /\ task'[w].waited = task[w].waited /\ task'[w].slow = task[w].slow
      /\ \A v \in Workers \ {w} : task'[v] = task[v]
      /\ task' \in [Workers -> TaskRow]
  <2>1. pc \in PCs
    BY DEF PCs, Prompt
  <2>2. /\ row \in TaskRow /\ row.pc = pc /\ row.req = r /\ row.scan = task[w].scan
        /\ row.waited = task[w].waited /\ row.slow = task[w].slow
    BY <1>1, <2>1, MovedRow
  <2>3. Become(w, row)
    BY DEF Link, Goto
  <2> HIDE DEF row
  <2> QED
    BY <2>2, <2>3, Becomes
<1>3. /\ request' \in [Requests -> RequestRow]
      /\ request'[r].status = request[r].status /\ request'[r].age = request[r].age
      /\ request'[r].scan = task[w].scan
      /\ \A q \in Requests \ {r} : request'[q] = request[q]
  BY <1>1 DEF Link, TypeOK, RequestRow
<1>4. UNCHANGED <<scan, tracked, reviewed, web, bounds>>
  BY DEF Link
<1> HIDE DEF r, pc, row
<1>5. TypeOK'
  BY <1>2, <1>3, <1>4 DEF TypeOK, bounds
<1>6. task[w].pc = IF pc = "wait" THEN "linkWait" ELSE "linkRun"
  BY DEF Link, At, pc
<1>7. pc \in {"wait", "execute"}
  BY DEF pc
<1>8. ExecInv'
  BY <1>2, <1>4, <1>6, <1>7 DEF IInv, ExecInv, Executes
<1>9. OwnerInv'
  BY <1>1, <1>2, <1>3, <1>6, <1>7 DEF IInv, OwnerInv, Serving, HasScan, Linked, r
<1>10. AgeInv'
  BY <1>1, <1>2, <1>3, <1>6, <1>7 DEF IInv, AgeInv, Waiting, OwnerInv, Serving, HasScan, r
<1>11. EnrolInv'
  <2>1. \A s : (Completed(s) <=> Completed(s)') /\ (Delivered(s) <=> Delivered(s)')
    BY <1>4 DEF Completed, Delivered
  <2>2. request[r].status # "completed"
    BY <1>1, <1>6, <1>7 DEF IInv, OwnerInv, Serving, HasScan, r
  <2>3. \A v \in Workers \ {w} : task[v].pc = "finish" => task[v].req \in Requests \ {r}
    BY DEF IInv, OwnerInv, Serving, TypeOK, TaskRow, r
  <2> QED
    BY <1>1, <1>2, <1>3, <1>4, <1>6, <1>7, <2>1, <2>2, <2>3 DEF IInv, EnrolInv
<1> QED
  BY <1>5, <1>8, <1>9, <1>10, <1>11 DEF IInv

(* A step of a task that writes no row: it is over, it gives its request   *)
(* up, or it has read that its scan completed.                             *)
LEMMA TaskMoves ==
  ASSUME TypeOK, IInv, NEW w \in Workers,
         UNCHANGED <<request, scan, tracked, reviewed, web>>,
         webLeft' \in 0..MaxWebScans, mishapsLeft' \in 0..MaxMishaps,
         NEW row \in TaskRow, Become(w, row),
         \/ row.pc \notin Serving /\ row.req = None
         \/ /\ task[w].pc \in Serving /\ row.req = task[w].req
            /\ row.pc = "finish" /\ row.verdict = "failed"
         \/ /\ task[w].pc \in {"read", "wait"} /\ row.req = task[w].req
            /\ row.pc = "mark" /\ row.scan = task[w].scan /\ Completed(row.scan)
  PROVE  TypeOK' /\ IInv'
<1>1. /\ task'[w] = row
      /\ \A v \in Workers \ {w} : task'[v] = task[v]
      /\ task' \in [Workers -> TaskRow]
  BY Becomes
<1>2. /\ \A v \in Workers : task[v].pc \in Serving => task[v].req \in Requests
      /\ \A v \in Workers : task[v].pc \in HasScan => task[v].scan \in Scans
  BY Serves DEF IInv, Serving
<1>3. TypeOK'
  BY <1>1 DEF TypeOK
<1>4. ExecInv'
  BY <1>1 DEF IInv, ExecInv, Executes, Serving, HasScan
<1>5. OwnerInv'
  BY <1>1, <1>2, RequestAssumption DEF IInv, OwnerInv, Serving, HasScan, Linked, Settled
<1>6. AgeInv'
  BY <1>1, <1>2 DEF IInv, AgeInv, Waiting, OwnerInv, Serving, HasScan
<1>7. EnrolInv'
  <2>1. \A s : (Completed(s) <=> Completed(s)') /\ (Delivered(s) <=> Delivered(s)')
    BY DEF Completed, Delivered
  <2> QED
    BY <1>1, <1>2, <2>1 DEF IInv, EnrolInv, Serving, HasScan
<1> QED
  BY <1>3, <1>4, <1>5, <1>6, <1>7 DEF IInv

(* What becomes of the scans when a caller is given one.                   *)
LEMMA CreateEffect ==
  ASSUME TypeOK, NEW s \in Scans, NEW duplicate \in BOOLEAN, CreateScan(s, duplicate)
  PROVE  /\ scan' \in [Scans -> ScanRow]
         /\ \A t \in Scans :
              /\ scan[t].status = "completed" => scan'[t].status = "completed"
              /\ scan[t].status \notin {None, "completed"} =>
                   scan'[t].status \notin {None, "completed"}
         /\ ~duplicate => scan[s].status = None /\ scan'[s].status = "running"
<1>1. /\ Recovered \in [Scans -> ScanRow]
      /\ \A t \in Scans : \/ Recovered[t] = scan[t]
                          \/ scan[t].status = "running" /\ Recovered[t].status = "failed"
  BY RequestAssumption DEF Recovered, Stuck, ScanRow, Settled, TypeOK
<1>2. CASE duplicate
  BY <1>1, <1>2, RequestAssumption DEF CreateScan, Settled
<1>3. CASE ~duplicate
  <2>1. scan[s].status = None /\ scan' = [Recovered EXCEPT ![s].status = "running"]
    BY <1>3 DEF CreateScan
  <2>2. scan' \in [Scans -> ScanRow] /\ scan'[s].status = "running"
    BY <1>1, <2>1 DEF ScanRow
  <2>3. \A t \in Scans \ {s} : scan'[t] = Recovered[t]
    BY <1>1, <2>1
  <2> QED
    BY <1>1, <2>1, <2>2, <2>3, RequestAssumption DEF Settled, Unsettled
<1> QED
  BY <1>2, <1>3

(* A step that leaves the requests and the tasks alone, and takes back     *)
(* nothing of what has been delivered.                                     *)
LEMMA ScansMove ==
  ASSUME TypeOK, IInv, UNCHANGED <<request, task>>,
         scan' \in [Scans -> ScanRow], web' \subseteq Scans,
         reviewed \subseteq reviewed', reviewed' \subseteq Scans,
         tracked \subseteq tracked', tracked' \subseteq Scans \X Ranks,
         \A c \in tracked' \ tracked : Completed(c[1])',
         webLeft' \in 0..MaxWebScans, mishapsLeft' \in 0..MaxMishaps,
         ExecInv',
         \A s \in Scans : scan[s].status = "completed" => scan'[s].status = "completed"
  PROVE  TypeOK' /\ IInv'
<1>1. \A s : (Completed(s) => Completed(s)') /\ (Delivered(s) => Delivered(s)')
  BY DeliveredStays
<1>2. TypeOK'
  BY DEF TypeOK
<1>3. OwnerInv' /\ AgeInv'
  BY DEF IInv, OwnerInv, AgeInv
<1>4. EnrolInv'
  BY <1>1 DEF IInv, EnrolInv
<1> QED
  BY <1>2, <1>3, <1>4 DEF IInv

(* The web process: the scan it starts, joins, ends or loses.              *)
LEMMA WebKeeps ==
  ASSUME TypeOK, IInv,
         \/ WebCrash
         \/ \E s \in Scans : WebScan(s) \/ WebScanEnds(s)
  PROVE  TypeOK' /\ IInv'
<1>1. CASE WebCrash
  <2>1. ExecInv'
    BY <1>1 DEF WebCrash, IInv, ExecInv, Executes
  <2> QED
    BY <1>1, <2>1, ScansMove, RequestAssumption DEF WebCrash, TypeOK
<1>2. ASSUME NEW s \in Scans, WebScan(s) PROVE TypeOK' /\ IInv'
  <2>1. PICK duplicate \in BOOLEAN :
          CreateScan(s, duplicate) /\ web' = IF duplicate THEN web ELSE web \union {s}
    BY <1>2 DEF WebScan
  <2>2. /\ scan' \in [Scans -> ScanRow]
        /\ \A t \in Scans :
             /\ scan[t].status = "completed" => scan'[t].status = "completed"
             /\ scan[t].status \notin {None, "completed"} =>
                  scan'[t].status \notin {None, "completed"}
        /\ ~duplicate => scan[s].status = None /\ scan'[s].status = "running"
    BY <2>1, CreateEffect
  <2>3. UNCHANGED <<request, tracked, reviewed, task, mishapsLeft>>
        /\ webLeft > 0 /\ webLeft' = webLeft - 1
    BY <1>2 DEF WebScan
  <2>4. ExecInv'
    BY <2>1, <2>2, <2>3, RequestAssumption DEF IInv, ExecInv, Executes, Unsettled, TypeOK
  <2> QED
    BY <2>1, <2>2, <2>3, <2>4, ScansMove, RequestAssumption DEF TypeOK
<1>3. ASSUME NEW s \in Scans, WebScanEnds(s) PROVE TypeOK' /\ IInv'
  <2>1. PICK status \in Settled : ScanEnds(s, status)
    BY <1>3 DEF WebScanEnds
  <2>2. /\ s \in web /\ web' = web \ {s}
        /\ UNCHANGED <<request, tracked, reviewed, task, bounds>>
    BY <1>3 DEF WebScanEnds
  <2>3. /\ scan' \in [Scans -> ScanRow]
        /\ \A t \in Scans \ {s} : scan'[t] = scan[t]
    BY <2>1, RequestAssumption DEF ScanEnds, ScanRow, TypeOK
  <2>4. scan[s].status # "completed"
    BY <2>2 DEF IInv, ExecInv
  <2>5. ExecInv'
    BY <2>2, <2>3 DEF IInv, ExecInv, Executes, TypeOK
  <2> QED
    BY <2>2, <2>3, <2>4, <2>5, ScansMove DEF TypeOK, bounds
<1> QED
  BY <1>1, <1>2, <1>3

(* A user selects a candidate of a completed scan.                         *)
LEMMA SelectKeeps ==
  ASSUME TypeOK, IInv, NEW c \in Scans \X Ranks, SelectCandidate(c)
  PROVE  TypeOK' /\ IInv'
<1>1. /\ tracked' = tracked \union {c} /\ scan[c[1]].status = "completed"
      /\ UNCHANGED <<request, scan, reviewed, task, web, bounds>>
  BY DEF SelectCandidate
<1>2. ExecInv'
  BY <1>1 DEF IInv, ExecInv, Executes
<1>3. Completed(c[1])'
  BY <1>1 DEF Completed
<1>4. /\ scan' \in [Scans -> ScanRow] /\ web' \subseteq Scans /\ reviewed' \subseteq Scans
      /\ tracked' \subseteq Scans \X Ranks
      /\ webLeft' \in 0..MaxWebScans /\ mishapsLeft' \in 0..MaxMishaps
  BY <1>1 DEF TypeOK, bounds
<1> QED
  BY <1>1, <1>2, <1>3, <1>4, ScansMove

(* A worker that starts lists the scans of its backfill; one whose         *)
(* backfill fails, or that crashes, serves nothing any more.               *)
LEMMA RestartKeeps ==
  ASSUME TypeOK, IInv, NEW w \in Workers, Start(w) \/ BackfillFails(w) \/ Crash(w)
  PROVE  TypeOK' /\ IInv'
<1>1. UNCHANGED <<request, scan, tracked, reviewed, web>>
  BY DEF Start, BackfillFails, Crash
<1>2. webLeft' \in 0..MaxWebScans /\ mishapsLeft' \in 0..MaxMishaps
  BY RequestAssumption DEF Start, BackfillFails, Crash, TypeOK, bounds
<1>3. \E row \in TaskRow : Become(w, row) /\ row.pc \notin Serving /\ row.req = None
  <2>1. CASE Start(w)
    <3> DEFINE row == [Off EXCEPT !.pc = "boot", !.todo = {s \in Scans : Untracked(s)}]
    <3> DEFINE q == [Off EXCEPT !.pc = "boot"]
    <3>0. q \in TaskRow /\ q.pc = "boot" /\ q.req = None
      BY RequestAssumption DEF Off, TaskRow, PCs, Prompt
    <3> HIDE DEF q
    <3>1. row \in TaskRow /\ row.pc = "boot" /\ row.req = None
      <4>1. row = [q EXCEPT !.todo = {s \in Scans : Untracked(s)}]
        BY DEF q
      <4> HIDE DEF row
      <4> QED
        BY <3>0, <4>1 DEF TaskRow
    <3>2. Become(w, row)
      BY <2>1 DEF Start
    <3> QED
      BY <3>1, <3>2 DEF Serving, HasScan
  <2>2. CASE BackfillFails(w)
    <3> DEFINE row == [Off EXCEPT !.pc = "ended"]
    <3>1. row \in TaskRow /\ row.pc = "ended" /\ row.req = None
      BY RequestAssumption DEF Off, TaskRow, PCs, Prompt
    <3>2. Become(w, row)
      BY <2>2 DEF BackfillFails
    <3> QED
      BY <3>1, <3>2 DEF Serving, HasScan
  <2>3. CASE Crash(w)
    BY <2>3, IdleRows DEF Crash, Serving, HasScan
  <2> QED
    BY <2>1, <2>2, <2>3
<1> QED
  BY <1>1, <1>2, <1>3, TaskMoves

(* The backfill enrols completed scans only.                               *)
LEMMA BackfillKeeps ==
  ASSUME TypeOK, IInv, NEW w \in Workers, Backfill(w) PROVE TypeOK' /\ IInv'
<1>1. /\ UNCHANGED <<request, scan, reviewed, web, bounds>> /\ task[w].pc = "boot"
      /\ task[w] \in TaskRow
  BY DEF Backfill, At, TypeOK
<1>2. CASE task[w].todo = {}
  <2>1. Become(w, Idle) /\ UNCHANGED tracked
    BY <1>2 DEF Backfill
  <2>2. webLeft' \in 0..MaxWebScans /\ mishapsLeft' \in 0..MaxMishaps
    BY <1>1 DEF TypeOK, bounds
  <2> QED
    BY <1>1, <2>1, <2>2, IdleRows, TaskMoves DEF Serving, HasScan
<1>3. CASE task[w].todo # {}
  <2>1. PICK s \in task[w].todo :
          tracked' = Enrolled(s) /\ Become(w, [task[w] EXCEPT !.todo = @ \ {s}])
    BY <1>3 DEF Backfill
  <2> DEFINE row == [task[w] EXCEPT !.todo = @ \ {s}]
  <2>2. row \in TaskRow /\ row.pc = "boot" /\ row.req = task[w].req
    BY <1>1 DEF TaskRow
  <2> HIDE DEF row
  <2>3. /\ task'[w] = row
        /\ \A v \in Workers \ {w} : task'[v] = task[v]
        /\ task' \in [Workers -> TaskRow]
    BY <2>1, <2>2, Becomes DEF row
  <2>4. s \in Scans
    BY <1>1 DEF TaskRow
  <2>5. /\ tracked \subseteq tracked' /\ tracked' \subseteq Scans \X Ranks
        /\ \A c \in tracked' \ tracked : Completed(c[1])'
    BY <1>1, <2>1, <2>4 DEF Enrolled, CandsOf, Completed, TypeOK
  <2>6. TypeOK'
    BY <1>1, <2>3, <2>5 DEF TypeOK, bounds
  <2>7. \A t : (Completed(t) => Completed(t)') /\ (Delivered(t) => Delivered(t)')
    BY <1>1, <2>5, DeliveredStays
  <2>8. ExecInv'
    BY <1>1, <2>2, <2>3 DEF IInv, ExecInv, Executes
  <2>9. OwnerInv' /\ AgeInv'
    BY <1>1, <2>2, <2>3 DEF IInv, OwnerInv, AgeInv, Waiting, Serving, HasScan, Linked
  <2>10. EnrolInv'
    BY <1>1, <2>2, <2>3, <2>5, <2>7 DEF IInv, EnrolInv
  <2> QED
    BY <2>6, <2>8, <2>9, <2>10 DEF IInv
<1> QED
  BY <1>2, <1>3

(* A new request is served by nobody.                                      *)
LEMMA QueueKeeps ==
  ASSUME TypeOK, IInv, NEW r \in Requests, QueueRequest(r) PROVE TypeOK' /\ IInv'
<1>1. /\ request[r].status = None
      /\ request' = [request EXCEPT ![r].status = "queued"]
      /\ UNCHANGED <<scan, tracked, reviewed, task, web, bounds>>
  BY DEF QueueRequest
<1>2. /\ request' \in [Requests -> RequestRow]
      /\ request'[r].status = "queued" /\ request'[r].age = request[r].age
      /\ \A q \in Requests \ {r} : request'[q] = request[q]
  BY <1>1 DEF TypeOK, RequestRow, Unsettled
<1>3. \A w \in Workers : task[w].pc \in Serving => task[w].req \in Requests \ {r}
  BY <1>1, Serves DEF IInv, OwnerInv
<1>4. TypeOK'
  BY <1>1, <1>2 DEF TypeOK, bounds
<1>5. ExecInv'
  BY <1>1 DEF IInv, ExecInv, Executes
<1>6. OwnerInv'
  BY <1>1, <1>2, <1>3 DEF IInv, OwnerInv, Serving, HasScan, Linked
<1>7. AgeInv'
  BY <1>1, <1>2, <1>3 DEF IInv, AgeInv, Waiting, Serving, HasScan
<1>8. EnrolInv'
  <2>1. \A s : (Completed(s) <=> Completed(s)') /\ (Delivered(s) <=> Delivered(s)')
    BY <1>1 DEF Completed, Delivered
  <2> QED
    BY <1>1, <1>2, <1>3, <2>1 DEF IInv, EnrolInv, Serving
<1> QED
  BY <1>4, <1>5, <1>6, <1>7, <1>8 DEF IInv

(* What giving up abandoned requests changes.                              *)
LEMMA UnblockEffect ==
  ASSUME TypeOK
  PROVE  /\ Unblocked \in [Requests -> RequestRow]
         /\ \A q \in Requests :
              \/ Unblocked[q] = request[q] /\ ~Abandoned(q)
              \/ /\ Abandoned(q)
                 /\ Unblocked[q].status = "failed" /\ Unblocked[q].age = 0
                 /\ Unblocked[q].scan = request[q].scan
<1>1. ASSUME NEW q \in Requests
      PROVE  LET row == AsSettled(request[q], "failed")
             IN  row \in RequestRow /\ row.status = "failed" /\ row.age = 0
                 /\ row.scan = request[q].scan
  BY SettledRow DEF TypeOK, Settled
<1>2. \A q \in Requests : request[q] \in RequestRow
  BY SMTT(60) DEF TypeOK
<1> QED
  BY <1>1, <1>2 DEF Unblocked

(* A claim: abandoned requests are given up, those waited for only when    *)
(* their time is up; the one that is claimed was served by nobody.         *)
LEMMA ClaimKeeps ==
  ASSUME TypeOK, IInv, NEW w \in Workers, Claim(w) PROVE TypeOK' /\ IInv'
<1>1. UNCHANGED <<scan, tracked, reviewed, web, bounds>> /\ task[w].pc = "idle"
  BY DEF Claim, At
<1>2. ASSUME NEW v \in Workers, task[v].pc \in Waiting, Abandoned(task[v].req)
      PROVE  RequestStale <= task[v].waited + task[v].slow
  <2>1. task[v] \in TaskRow /\ task[v].req \in Requests
    BY <1>2, Serves DEF TypeOK, IInv, Waiting, Serving, HasScan
  <2>2. request[task[v].req].age \in 0..RequestStale
    BY <2>1 DEF TypeOK, RequestRow
  <2> QED
    BY <1>2, <2>1, <2>2, RequestAssumption DEF IInv, AgeInv, Abandoned, TaskRow
<1>3. \A s : (Completed(s) <=> Completed(s)') /\ (Delivered(s) <=> Delivered(s)')
  BY <1>1 DEF Completed, Delivered
<1>4. CASE request' = Unblocked /\ UNCHANGED task
  <2>1. TypeOK'
    BY <1>1, <1>4, UnblockEffect DEF TypeOK, bounds
  <2>2. ExecInv'
    BY <1>1, <1>4 DEF IInv, ExecInv, Executes
  <2>3. OwnerInv'
    BY <1>4, UnblockEffect, Serves, RequestAssumption
    DEF IInv, OwnerInv, Serving, HasScan, Linked, Settled
  <2>4. AgeInv'
    BY <1>2, <1>4, UnblockEffect, Serves, RequestAssumption
    DEF IInv, AgeInv, Waiting, Serving, HasScan, Settled
  <2>5. EnrolInv'
    BY <1>1, <1>3, <1>4, UnblockEffect, Serves DEF IInv, EnrolInv, Serving
  <2> QED
    BY <2>1, <2>2, <2>3, <2>4, <2>5 DEF IInv
<1>5. ASSUME NEW r \in Requests, request[r].status = "queued",
             request' = [Unblocked EXCEPT ![r].status = "running"],
             Become(w, [Idle EXCEPT !.pc = "attach", !.req = r])
      PROVE  TypeOK' /\ IInv'
  <2>1. /\ task'[w].pc = "attach" /\ task'[w].req = r
        /\ task'[w].waited = 0 /\ task'[w].slow = 0
        /\ \A v \in Workers \ {w} : task'[v] = task[v]
        /\ task' \in [Workers -> TaskRow]
    <3> DEFINE row == [Idle EXCEPT !.pc = "attach", !.req = r]
    <3>1. /\ row \in TaskRow /\ row.pc = "attach" /\ row.req = r
          /\ row.waited = 0 /\ row.slow = 0
      BY ClaimedRow
    <3>2. Become(w, row)
      BY <1>5
    <3> HIDE DEF row
    <3> QED
      BY <3>1, <3>2, Becomes
  <2>2. Unblocked[r] = request[r]
    BY <1>5, UnblockEffect DEF Abandoned
  <2>3. /\ request' \in [Requests -> RequestRow]
        /\ request'[r].status = "running" /\ request'[r].age = 0
        /\ \A q \in Requests \ {r} : request'[q] = Unblocked[q]
    <3>1. request[r].age = 0
      BY <1>5 DEF IInv, AgeInv
    <3> QED
      BY <1>5, <2>2, <3>1, UnblockEffect DEF RequestRow, Unsettled
  <2>4. \A v \in Workers : task[v].pc \in Serving => task[v].req \in Requests \ {r}
    BY <1>5, Serves DEF IInv, OwnerInv
  <2>5. TypeOK'
    BY <1>1, <2>1, <2>3 DEF TypeOK, bounds
  <2>6. ExecInv'
    BY <1>1, <2>1 DEF IInv, ExecInv, Executes
  <2>7. OwnerInv'
    <3>1. \A v \in Workers : task[v].req # None => task[v].req \in Requests \ {r}
      BY <2>4 DEF IInv, OwnerInv
    <3>2. \A q \in Requests \ {r} :
            request'[q].scan = request[q].scan /\ request'[q].status \in {request[q].status, "failed"}
      BY <2>3, UnblockEffect
    <3>3. "failed" # None /\ "running" # None /\ r # None
      BY RequestAssumption DEF Settled, Unsettled, Requests
    <3> DEFINE own(v) == /\ task[v].pc \in Serving <=> task[v].req # None
                         /\ task[v].pc \in HasScan => task[v].scan # None
                         /\ task[v].pc = "finish" => task[v].verdict # None
                         /\ task[v].pc \in Linked => request[task[v].req].scan = task[v].scan
                         /\ task[v].pc \in Serving =>
                              request[task[v].req].status \notin {None, "queued", "completed"}
    <3>4. own(w)'
      BY <2>1, <2>3, <3>3 DEF Serving, HasScan, Linked
    <3>5. ASSUME NEW v \in Workers \ {w}
          PROVE  own(v)'
      <4>1. own(v) /\ task'[v] = task[v]
        BY <2>1 DEF IInv, OwnerInv
      <4>2. task[v].pc \in Serving => task[v].req \in Requests \ {r}
        BY <2>4
      <4> QED
        BY <3>2, <3>3, <4>1, <4>2 DEF Serving, Linked, HasScan
    <3>6. ASSUME NEW u \in Workers, NEW v \in Workers \ {u}, task'[v].req # None
          PROVE  task'[v].req # task'[u].req
      <4>1. CASE u = w
        BY <2>1, <3>1, <3>6, <4>1
      <4>2. CASE v = w
        BY <2>1, <3>1, <3>3, <3>6, <4>2
      <4>3. CASE u # w /\ v # w
        BY <2>1, <3>6, <4>3 DEF IInv, OwnerInv
      <4> QED
        BY <4>1, <4>2, <4>3
    <3> QED
      BY <3>4, <3>5, <3>6 DEF OwnerInv
  <2>8. AgeInv'
    BY <1>2, <2>1, <2>3, <2>4, UnblockEffect, RequestAssumption
    DEF IInv, AgeInv, Waiting, Serving, HasScan, Settled
  <2>9. EnrolInv'
    BY <1>1, <1>3, <2>1, <2>3, <2>4, UnblockEffect DEF IInv, EnrolInv, Serving
  <2> QED
    BY <2>5, <2>6, <2>7, <2>8, <2>9 DEF IInv
<1> QED
  BY <1>4, <1>5 DEF Claim

(* A worker attached to a scan executes it only if it is new.              *)
LEMMA AttachKeeps ==
  ASSUME TypeOK, IInv, NEW w \in Workers, Attach(w) PROVE TypeOK' /\ IInv'
<1>1. PICK s \in Scans, duplicate \in BOOLEAN :
        /\ CreateScan(s, duplicate)
        /\ Become(w, [task[w] EXCEPT !.pc = IF duplicate THEN "linkWait" ELSE "linkRun",
                                     !.scan = s])
  BY DEF Attach
<1>2. /\ task[w].pc = "attach" /\ task[w] \in TaskRow
      /\ UNCHANGED <<request, tracked, reviewed, web, bounds>>
  BY DEF Attach, At, TypeOK
<1>3. PICK pc \in {"linkWait", "linkRun"} :
        pc = IF duplicate THEN "linkWait" ELSE "linkRun"
  OBVIOUS
<1> DEFINE row == Attached(task[w], pc, s)
<1>4. /\ row \in TaskRow
      /\ row.pc = pc /\ row.req = task[w].req /\ row.scan = s
      /\ row.waited = task[w].waited /\ row.slow = task[w].slow
  <2>1. pc \in PCs /\ s \in Scans
    BY <1>1, <1>3 DEF PCs, Prompt
  <2> QED
    BY <1>2, <2>1, AttachedRow
<1>5. /\ Become(w, row)
      /\ pc \in {"linkWait", "linkRun"} /\ (pc = "linkRun" => ~duplicate)
  BY <1>1, <1>3 DEF Attached
<1> HIDE DEF row
<1>6. /\ task'[w] = row
      /\ \A v \in Workers \ {w} : task'[v] = task[v]
      /\ task' \in [Workers -> TaskRow]
  BY <1>4, <1>5, Becomes
<1>7. /\ scan' \in [Scans -> ScanRow]
      /\ \A t \in Scans :
           /\ scan[t].status = "completed" => scan'[t].status = "completed"
           /\ scan[t].status \notin {None, "completed"} =>
                scan'[t].status \notin {None, "completed"}
      /\ ~duplicate => scan[s].status = None /\ scan'[s].status = "running"
  BY <1>1, CreateEffect
<1>8. \A t : (Completed(t) => Completed(t)') /\ (Delivered(t) => Delivered(t)')
  BY <1>2, <1>7, DeliveredStays
<1>9. TypeOK'
  BY <1>2, <1>6, <1>7 DEF TypeOK, bounds
<1>10. ExecInv'
  <2>1. \A t \in web : scan'[t].status \notin {None, "completed"}
    BY <1>7 DEF IInv, ExecInv, TypeOK
  <2>2. \A v \in Workers \ {w}, t \in Scans : Executes(v, t)' <=> Executes(v, t)
    BY <1>6 DEF Executes
  <2>3. \A t \in Scans : Executes(w, t)' => t = s /\ ~duplicate
    BY <1>4, <1>5, <1>6 DEF Executes
  <2>4. ~duplicate => /\ s \notin web /\ scan'[s].status \notin {None, "completed"}
                      /\ \A v \in Workers : ~Executes(v, s)
    BY <1>7, RequestAssumption DEF IInv, ExecInv, Unsettled
  <2>5. \A v \in Workers \ {w}, t \in Scans : Executes(v, t) =>
          /\ t \notin web
          /\ scan'[t].status \notin {None, "completed"}
          /\ \A u \in Workers \ {v} : ~Executes(u, t)
    BY <1>7 DEF IInv, ExecInv
  <2> QED
    BY <1>2, <2>1, <2>2, <2>3, <2>4, <2>5 DEF ExecInv
<1>11. OwnerInv'
  BY <1>2, <1>4, <1>5, <1>6, RequestAssumption DEF IInv, OwnerInv, Serving, HasScan, Linked, Scans
<1>12. AgeInv'
  BY <1>2, <1>4, <1>5, <1>6 DEF IInv, AgeInv, Waiting
<1>13. EnrolInv'
  BY <1>2, <1>4, <1>5, <1>6, <1>8 DEF IInv, EnrolInv
<1> QED
  BY <1>9, <1>10, <1>11, <1>12, <1>13 DEF IInv

(* The executor settles its scan, whatever recovery has made of it.        *)
LEMMA ExecuteKeeps ==
  ASSUME TypeOK, IInv, NEW w \in Workers, Execute(w) PROVE TypeOK' /\ IInv'
<1> DEFINE s == task[w].scan
<1>1. PICK status \in Settled : ScanEnds(s, status)
  BY DEF Execute
<1>2. /\ task[w].pc = "execute" /\ task[w] \in TaskRow /\ s \in Scans
      /\ UNCHANGED <<request, tracked, reviewed, web, bounds>>
      /\ Become(w, [task[w] EXCEPT !.pc = "read"])
  BY Serves DEF Execute, Goto, At, IInv, Serving, HasScan
<1>3. /\ task'[w].pc = "read" /\ task'[w].req = task[w].req /\ task'[w].scan = s
      /\ \A v \in Workers \ {w} : task'[v] = task[v]
      /\ task' \in [Workers -> TaskRow]
  <2> DEFINE row == [task[w] EXCEPT !.pc = "read"]
  <2>1. /\ row \in TaskRow
        /\ row.pc = "read" /\ row.req = task[w].req /\ row.scan = s
    <3>1. "read" \in PCs
      BY DEF PCs, Prompt
    <3> QED
      BY <1>2, <3>1, MovedRow
  <2>2. Become(w, row)
    BY <1>2
  <2> HIDE DEF row
  <2> QED
    BY <2>1, <2>2, Becomes
<1> HIDE DEF s
<1>4. scan' \in [Scans -> ScanRow] /\ \A t \in Scans \ {s} : scan'[t] = scan[t]
  BY <1>1, <1>2, RequestAssumption DEF ScanEnds, ScanRow, TypeOK
<1>5. /\ scan[s].status # "completed" /\ s \notin web
      /\ \A v \in Workers \ {w} : ~Executes(v, s)
  BY <1>2 DEF IInv, ExecInv, Executes, s
<1>6. \A t : (Completed(t) => Completed(t)') /\ (Delivered(t) => Delivered(t)')
  BY <1>2, <1>4, <1>5, DeliveredStays
<1>7. TypeOK'
  BY <1>2, <1>3, <1>4 DEF TypeOK, bounds
<1>8. ExecInv'
  BY <1>2, <1>3, <1>4, <1>5 DEF IInv, ExecInv, Executes, TypeOK
<1>9. OwnerInv'
  BY <1>2, <1>3 DEF IInv, OwnerInv, Serving, HasScan, Linked, s
<1>10. AgeInv'
  BY <1>2, <1>3 DEF IInv, AgeInv, Waiting
<1>11. EnrolInv'
  BY <1>2, <1>3, <1>6 DEF IInv, EnrolInv
<1> QED
  BY <1>7, <1>8, <1>9, <1>10, <1>11 DEF IInv

(* Reading the scan, giving the wait up, or failing.                       *)
LEMMA ReadKeeps ==
  ASSUME TypeOK, IInv, NEW w \in Workers,
         ReadScan(w) \/ WaitExpires(w) \/ DatabaseError(w)
  PROVE  TypeOK' /\ IInv'
<1>1. UNCHANGED <<request, scan, tracked, reviewed, web>> /\ task[w] \in TaskRow
  BY DEF ReadScan, WaitExpires, DatabaseError, TypeOK
<1>2. webLeft' \in 0..MaxWebScans /\ mishapsLeft' \in 0..MaxMishaps
  BY RequestAssumption DEF ReadScan, WaitExpires, DatabaseError, TypeOK, bounds
<1>3. CASE Settle(w, "failed") /\ task[w].pc \in Serving
  <2> DEFINE row == [task[w] EXCEPT !.pc = "finish", !.verdict = "failed"]
  <2>1. /\ row \in TaskRow
        /\ row.pc = "finish" /\ row.req = task[w].req /\ row.verdict = "failed"
    BY <1>1, VerdictRow, ZenonT(60) DEF Settled
  <2>2. Become(w, row)
    BY <1>3 DEF Settle
  <2> HIDE DEF row
  <2> QED
    BY <1>1, <1>2, <1>3, <2>1, <2>2, TaskMoves, SMTT(30)
<1>4. CASE Become(w, Idle)
  BY <1>1, <1>2, <1>4, IdleRows, TaskMoves DEF Serving, HasScan
<1>5. CASE Goto(w, "mark") /\ task[w].pc \in {"read", "wait"}
           /\ scan[task[w].scan].status = "completed"
  <2> DEFINE row == [task[w] EXCEPT !.pc = "mark"]
  <2>1. /\ row \in TaskRow
        /\ row.pc = "mark" /\ row.req = task[w].req /\ row.scan = task[w].scan
    <3>1. "mark" \in PCs
      BY DEF PCs, Prompt
    <3> QED
      BY <1>1, <3>1, MovedRow
  <2>2. Become(w, row)
    BY <1>5 DEF Goto
  <2>3. Completed(row.scan)
    BY <1>5, <2>1, Serves DEF IInv, Completed, Serving, HasScan
  <2> HIDE DEF row
  <2> QED
    BY <1>1, <1>2, <1>5, <2>1, <2>2, <2>3, TaskMoves
<1> QED
  BY <1>3, <1>4, <1>5
  DEF ReadScan, WaitExpires, DatabaseError, At, Serving, HasScan, Attending, Prompt

(* The completed scan is marked with the audited version ...               *)
LEMMA MarkKeeps ==
  ASSUME TypeOK, IInv, NEW w \in Workers, Mark(w) PROVE TypeOK' /\ IInv'
<1>1. /\ task[w].pc = "mark" /\ task[w] \in TaskRow
      /\ UNCHANGED <<request, scan, tracked, web, bounds>>
      /\ Become(w, [task[w] EXCEPT !.pc = "enrol"])
  BY DEF Mark, Goto, At, TypeOK
<1>2. Completed(task[w].scan)
  BY <1>1 DEF IInv, EnrolInv
<1>3. reviewed' = reviewed \union {task[w].scan}
  BY <1>2 DEF Mark, Completed
<1>4. /\ task'[w].pc = "enrol" /\ task'[w].req = task[w].req
      /\ task'[w].scan = task[w].scan
      /\ \A v \in Workers \ {w} : task'[v] = task[v]
      /\ task' \in [Workers -> TaskRow]
  <2> DEFINE row == [task[w] EXCEPT !.pc = "enrol"]
  <2>1. /\ row \in TaskRow
        /\ row.pc = "enrol" /\ row.req = task[w].req /\ row.scan = task[w].scan
    <3>1. "enrol" \in PCs
      BY DEF PCs, Prompt
    <3> QED
      BY <1>1, <3>1, MovedRow
  <2>2. Become(w, row)
    BY <1>1
  <2> HIDE DEF row
  <2> QED
    BY <2>1, <2>2, Becomes
<1>5. \A t : (Completed(t) => Completed(t)') /\ (Delivered(t) => Delivered(t)')
  BY <1>1, <1>3, DeliveredStays
<1>6. TypeOK'
  BY <1>1, <1>2, <1>3, <1>4 DEF TypeOK, bounds, Completed
<1>7. ExecInv'
  BY <1>1, <1>4 DEF IInv, ExecInv, Executes
<1>8. OwnerInv'
  BY <1>1, <1>4 DEF IInv, OwnerInv, Serving, HasScan, Linked
<1>9. AgeInv'
  BY <1>1, <1>4 DEF IInv, AgeInv, Waiting
<1>10. EnrolInv'
  BY <1>1, <1>2, <1>3, <1>4, <1>5 DEF IInv, EnrolInv
<1> QED
  BY <1>6, <1>7, <1>8, <1>9, <1>10 DEF IInv

(* ... and every candidate of it enrolled before the request is settled.   *)
LEMMA EnrolKeeps ==
  ASSUME TypeOK, IInv, NEW w \in Workers, Enrol(w) PROVE TypeOK' /\ IInv'
<1>0. PICK s : s = task[w].scan
  OBVIOUS
<1>1. /\ task[w].pc = "enrol" /\ task[w] \in TaskRow
      /\ UNCHANGED <<request, scan, reviewed, web, bounds>>
      /\ Become(w, [task[w] EXCEPT !.pc = "finish", !.verdict = "completed"])
      /\ tracked' = Enrolled(s)
  BY <1>0 DEF Enrol, Settle, At, TypeOK
<1>2. Completed(s) /\ s \in reviewed /\ request[task[w].req].scan = s
  BY <1>0, <1>1 DEF IInv, EnrolInv, OwnerInv, Linked
<1>3. tracked' = tracked \union CandsOf(s)
  BY <1>1, <1>2 DEF Enrolled, Completed
<1>4. /\ task'[w].pc = "finish" /\ task'[w].req = task[w].req
      /\ task'[w].verdict = "completed"
      /\ \A v \in Workers \ {w} : task'[v] = task[v]
      /\ task' \in [Workers -> TaskRow]
  <2> DEFINE row == [task[w] EXCEPT !.pc = "finish", !.verdict = "completed"]
  <2>1. /\ row \in TaskRow
        /\ row.pc = "finish" /\ row.req = task[w].req /\ row.verdict = "completed"
    <3>1. "completed" \in Settled \union {None}
      BY DEF Settled
    <3> QED
      BY <1>1, <3>1, VerdictRow
  <2>2. Become(w, row)
    BY <1>1
  <2> HIDE DEF row
  <2> QED
    BY <2>1, <2>2, Becomes
<1>5. \A t : (Completed(t) => Completed(t)') /\ (Delivered(t) => Delivered(t)')
  BY <1>1, <1>3, DeliveredStays
<1>6. Delivered(s)'
  BY <1>1, <1>2, <1>3, <1>5 DEF Delivered
<1>7. /\ \A c \in tracked' \ tracked : c[1] = s
      /\ tracked' \subseteq Scans \X Ranks
  BY <1>2, <1>3 DEF CandsOf, Completed, TypeOK
<1>8. TypeOK'
  BY <1>1, <1>4, <1>7 DEF TypeOK, bounds
<1>9. ExecInv'
  BY <1>1, <1>4 DEF IInv, ExecInv, Executes
<1>10. OwnerInv'
  BY <1>1, <1>4, RequestAssumption DEF IInv, OwnerInv, Serving, HasScan, Linked, Settled
<1>11. AgeInv'
  BY <1>1, <1>4 DEF IInv, AgeInv, Waiting
<1>12. EnrolInv'
  BY <1>1, <1>2, <1>4, <1>5, <1>6, <1>7 DEF IInv, EnrolInv
<1> QED
  BY <1>8, <1>9, <1>10, <1>11, <1>12 DEF IInv

(* The request is settled by its owner alone.                              *)
LEMMA FinishKeeps ==
  ASSUME TypeOK, IInv, NEW w \in Workers, Finish(w) PROVE TypeOK' /\ IInv'
<1> DEFINE r == task[w].req
<1>1. /\ task[w].pc = "finish" /\ task[w] \in TaskRow /\ r \in Requests
      /\ \A v \in Workers \ {w} : task[v].pc \in Serving => task[v].req \in Requests \ {r}
      /\ UNCHANGED <<scan, tracked, reviewed, web, bounds>>
      /\ Become(w, Idle)
      /\ request' = [request EXCEPT ![r] = AsSettled(@, task[w].verdict)]
  BY Serves DEF Finish, At, IInv, Serving
<1>2. /\ task'[w] = Idle /\ \A v \in Workers \ {w} : task'[v] = task[v]
      /\ task' \in [Workers -> TaskRow]
  BY <1>1, IdleRows, Becomes
<1>3. task[w].verdict \in Settled
  BY <1>1 DEF IInv, OwnerInv, TaskRow
<1> HIDE DEF r
<1>4. /\ request' \in [Requests -> RequestRow]
      /\ request'[r].status = task[w].verdict /\ request'[r].scan = request[r].scan
      /\ \A q \in Requests \ {r} : request'[q] = request[q]
  BY <1>1, <1>3, SettledRow DEF TypeOK
<1>5. \A s : (Completed(s) <=> Completed(s)') /\ (Delivered(s) <=> Delivered(s)')
  BY <1>1 DEF Completed, Delivered
<1>6. TypeOK'
  BY <1>1, <1>2, <1>4 DEF TypeOK, bounds
<1>7. ExecInv'
  BY <1>1, <1>2, IdleRows DEF IInv, ExecInv, Executes
<1>8. OwnerInv'
  BY <1>1, <1>2, <1>4, IdleRows DEF IInv, OwnerInv, Serving, HasScan, Linked
<1>9. AgeInv'
  BY <1>1, <1>2, <1>3, <1>4, IdleRows, RequestAssumption DEF IInv, AgeInv, Waiting, Serving, HasScan, Settled
<1>10. EnrolInv'
  BY <1>1, <1>2, <1>4, <1>5, IdleRows DEF IInv, EnrolInv, Serving, r
<1> QED
  BY <1>6, <1>7, <1>8, <1>9, <1>10 DEF IInv

(* A tick ages the claims and is counted by a wait's sleeps or by nobody.  *)
LEMMA TickKeeps == ASSUME TypeOK, IInv, Tick PROVE TypeOK' /\ IInv'
<1>1. UNCHANGED <<tracked, reviewed, web, bounds>>
  BY DEF Tick
<1>2. PICK late \in SUBSET {w \in Workers : task[w].pc \in Attending /\ task[w].slow < MaxSlow} :
        /\ \A w \in Workers \ late : task[w].pc \notin Prompt /\ ~CanRead(w)
        /\ task' = [w \in Workers |->
                     IF w \in late THEN [task[w] EXCEPT !.slow = @ + 1]
                     ELSE IF At(w, "wait") THEN [task[w] EXCEPT !.waited = Older(@, MaxWait)]
                     ELSE task[w]]
  BY DEF Tick
<1>3. /\ request' \in [Requests -> RequestRow]
      /\ \A r \in Requests :
           /\ request'[r].status = request[r].status /\ request'[r].scan = request[r].scan
           /\ request[r].status = "running" => request'[r].age = Older(request[r].age, RequestStale)
           /\ request[r].status # "running" => request'[r].age = request[r].age
  <2>1. request' = [r \in Requests |-> IF request[r].status = "running"
                      THEN [request[r] EXCEPT !.age = Older(@, RequestStale)] ELSE request[r]]
    BY DEF Tick
  <2> QED
    BY <2>1, RequestAssumption, SMTT(30) DEF Older, TypeOK, RequestRow
<1>4. /\ scan' \in [Scans -> ScanRow]
      /\ \A s \in Scans : scan'[s].status = scan[s].status
  <2>1. scan' = [s \in Scans |-> IF scan[s].status = "running"
                   THEN [scan[s] EXCEPT !.age = Older(@, ScanStale)] ELSE scan[s]]
    BY DEF Tick
  <2> QED
    BY <2>1, RequestAssumption DEF Older, TypeOK, ScanRow
<1>5. /\ task' \in [Workers -> TaskRow]
      /\ \A w \in Workers :
           /\ task'[w].pc = task[w].pc /\ task'[w].req = task[w].req
           /\ task'[w].scan = task[w].scan /\ task'[w].verdict = task[w].verdict
           /\ task'[w].slow = IF w \in late THEN task[w].slow + 1 ELSE task[w].slow
           /\ task'[w].waited = IF w \notin late /\ At(w, "wait")
                                THEN Older(task[w].waited, MaxWait) ELSE task[w].waited
  <2>1. \A w \in Workers : task[w] \in TaskRow
    BY DEF TypeOK
  <2>2. ASSUME NEW w \in Workers
        PROVE  LET row == [task[w] EXCEPT !.waited = Older(@, MaxWait)]
               IN  /\ row \in TaskRow
                   /\ row.pc = task[w].pc /\ row.req = task[w].req
                   /\ row.scan = task[w].scan /\ row.verdict = task[w].verdict
                   /\ row.slow = task[w].slow
                   /\ row.waited = Older(task[w].waited, MaxWait)
    BY <2>1, RequestAssumption DEF Older, TaskRow
  <2>3. ASSUME NEW w \in Workers, w \in late
        PROVE  LET row == [task[w] EXCEPT !.slow = @ + 1]
               IN  /\ row \in TaskRow
                   /\ row.pc = task[w].pc /\ row.req = task[w].req
                   /\ row.scan = task[w].scan /\ row.verdict = task[w].verdict
                   /\ row.slow = task[w].slow + 1
                   /\ row.waited = task[w].waited
    <3>1. task[w].slow \in 0..MaxSlow /\ task[w].slow < MaxSlow
      BY <1>2, <2>1, <2>3 DEF TaskRow
    <3> QED
      BY <2>1, <3>1, RequestAssumption DEF TaskRow
  <2> QED
    BY <1>2, <2>1, <2>2, <2>3
<1>6. TypeOK'
  BY <1>1, <1>3, <1>4, <1>5 DEF TypeOK, bounds
<1>7. ExecInv'
  <2>1. web' = web
    BY <1>1
  <2>2. \A s \in web : s \in Scans
    BY DEF TypeOK
  <2>3. \A w \in Workers, s \in Scans : Executes(w, s)' <=> Executes(w, s)
    BY <1>5 DEF Executes
  <2>4. \A s \in web' : scan'[s].status \notin {None, "completed"}
    BY <1>4, <2>1, <2>2 DEF IInv, ExecInv
  <2>5. ASSUME NEW w \in Workers, NEW s \in Scans, Executes(w, s)'
        PROVE  /\ s \notin web'
               /\ scan'[s].status \notin {None, "completed"}
               /\ \A v \in Workers \ {w} : ~Executes(v, s)'
    BY <1>4, <2>1, <2>3, <2>5 DEF IInv, ExecInv
  <2> QED
    BY <2>4, <2>5 DEF ExecInv
<1>8. \A w \in Workers : task[w].pc \in Serving => task[w].req \in Requests
  BY Serves DEF IInv
<1>9. OwnerInv'
  BY <1>3, <1>5, <1>8 DEF IInv, OwnerInv, Serving, HasScan, Linked
<1>10. AgeInv'
  <2>1. \A r \in Requests : request'[r].status \in {None, "queued"} => request'[r].age = 0
    BY <1>3, RequestAssumption DEF IInv, AgeInv, Unsettled
  <2>2. ASSUME NEW w \in Workers, task'[w].pc \in Waiting
        PROVE  IF request'[task'[w].req].status = "running"
               THEN request'[task'[w].req].age <= task'[w].waited + task'[w].slow
               ELSE RequestStale <= task'[w].waited + task'[w].slow
    <3>1. task[w].pc \in Waiting /\ task[w].req \in Requests /\ task'[w].req = task[w].req
      BY <1>5, <1>8, <2>2 DEF Waiting, Serving, HasScan
    <3>2. IF request[task[w].req].status = "running"
          THEN request[task[w].req].age <= task[w].waited + task[w].slow
          ELSE RequestStale <= task[w].waited + task[w].slow
      BY <3>1 DEF IInv, AgeInv
    <3>3. /\ task[w].waited \in 0..MaxWait /\ task[w].slow \in Nat
          /\ request[task[w].req].age \in 0..RequestStale
      BY <3>1, RequestAssumption DEF TypeOK, TaskRow, RequestRow
    <3>4. w \notin late => At(w, "wait") /\ task[w].waited < MaxWait
      BY <1>2, <3>1, <3>3, RequestAssumption DEF CanRead, Expired, At, Waiting, Prompt
    <3>5. task'[w].waited + task'[w].slow = task[w].waited + task[w].slow + 1
      BY <1>5, <3>3, <3>4, RequestAssumption DEF Older
    <3>6. /\ request'[task[w].req].status = request[task[w].req].status
          /\ request[task[w].req].status = "running" =>
               request'[task[w].req].age <= request[task[w].req].age + 1
      BY <1>3, <3>1, <3>3, RequestAssumption DEF Older
    <3>7. request'[task[w].req].age \in Nat
      BY <1>3, <3>1, RequestAssumption DEF RequestRow
    <3>8. task'[w].waited + task'[w].slow \in Nat
      BY <3>3, <3>5
    <3> QED
      BY <3>1, <3>2, <3>3, <3>5, <3>6, <3>7, <3>8, RequestAssumption
  <2> QED
    BY <2>1, <2>2 DEF AgeInv
<1>11. EnrolInv'
  <2>1. \A s : (Completed(s) <=> Completed(s)') /\ (Delivered(s) <=> Delivered(s)')
    BY <1>1, <1>4 DEF Completed, Delivered
  <2> QED
    BY <1>1, <1>3, <1>5, <1>8, <2>1 DEF IInv, EnrolInv, Serving
<1> QED
  BY <1>6, <1>7, <1>9, <1>10, <1>11 DEF IInv

-----------------------------------------------------------------------------
(* Nothing is queued, executed or enrolled to begin with.                  *)
LEMMA InitKeeps == Init => TypeOK /\ IInv
<1> SUFFICES ASSUME Init PROVE TypeOK /\ IInv
  OBVIOUS
<1>1. TypeOK
  BY IdleRows, RequestAssumption DEF Init, TypeOK, RequestRow, ScanRow
<1>2. \A w \in Workers : task[w] = Off
  BY DEF Init
<1>3. \A r \in Requests : request[r].status = None /\ request[r].age = 0
  BY DEF Init
<1>4. web = {} /\ tracked = {}
  BY DEF Init
<1>5. ExecInv /\ OwnerInv /\ AgeInv /\ EnrolInv
  BY <1>2, <1>3, <1>4, IdleRows, RequestAssumption
  DEF ExecInv, OwnerInv, AgeInv, Waiting, EnrolInv, Executes, Serving, HasScan, Linked, Settled
<1> QED
  BY <1>1, <1>5 DEF IInv

(* Every step preserves the types and the inductive invariant.             *)
LEMMA StepKeeps == TypeOK /\ IInv /\ [Next]_vars => TypeOK' /\ IInv'
<1> SUFFICES ASSUME TypeOK, IInv, [Next]_vars PROVE TypeOK' /\ IInv'
  OBVIOUS
<1>1. CASE UNCHANGED vars
  <2>1. TypeOK'
    BY <1>1 DEF vars, TypeOK
  <2>2. ExecInv' /\ OwnerInv' /\ AgeInv'
    BY <1>1 DEF vars, IInv, ExecInv, OwnerInv, AgeInv, Executes
  <2>3. EnrolInv'
    BY <1>1 DEF vars, IInv, EnrolInv, Completed, Delivered
  <2> QED
    BY <2>1, <2>2, <2>3 DEF IInv
<1>2. CASE \E r \in Requests : QueueRequest(r)
  BY <1>2, QueueKeeps
<1>3. CASE \E c \in Scans \X Ranks : SelectCandidate(c)
  BY <1>3, SelectKeeps
<1>4. CASE WebCrash \/ \E s \in Scans : WebScan(s) \/ WebScanEnds(s)
  BY <1>4, WebKeeps
<1>5. ASSUME NEW w \in Workers, Start(w) \/ BackfillFails(w) \/ Crash(w)
      PROVE  TypeOK' /\ IInv'
  BY <1>5, RestartKeeps
<1>6. ASSUME NEW w \in Workers, Serve(w) \/ DatabaseError(w)
      PROVE  TypeOK' /\ IInv'
  BY <1>6, BackfillKeeps, ClaimKeeps, AttachKeeps, LinkKeeps, ExecuteKeeps, ReadKeeps,
     MarkKeeps, EnrolKeeps, FinishKeeps DEF Serve
<1>7. CASE Tick
  BY <1>7, TickKeeps
<1> QED
  BY <1>1, <1>2, <1>3, <1>4, <1>5, <1>6, <1>7 DEF Next

(* The types and the inductive invariant hold throughout.                  *)
LEMMA Invariant == Spec => [](TypeOK /\ IInv)
BY InitKeeps, StepKeeps, PTL DEF Spec

(* Every row and every local variable of the intraday requests stays in    *)
(* its domain.                                                             *)
THEOREM RequestTypes == Spec => []TypeOK
BY Invariant, PTL

(* A completed request has its whole scan under tracking, however many     *)
(* workers, crashes and user selections there are.                         *)
THEOREM CompletedRequestsAreEnrolled == Spec => []CompletedIsEnrolled
<1>1. IInv => CompletedIsEnrolled
  BY DEF IInv, EnrolInv, CompletedIsEnrolled, Delivered, Completed
<1> QED
  BY <1>1, Invariant, PTL

(* Only candidates of completed scans are tracked: a scan has one executor *)
(* and, once completed, none.                                              *)
THEOREM TrackedCandidatesAreCompleted == Spec => []TrackedIsCompleted
<1>1. IInv => TrackedIsCompleted
  BY DEF IInv, EnrolInv, TrackedIsCompleted, Completed
<1> QED
  BY <1>1, Invariant, PTL

(* No two workers serve one request, and a worker has lost the one it      *)
(* waits for only when more time than the margin of the two limits went by *)
(* uncounted.                                                              *)
THEOREM RequestsAreServedByOne == Spec => []ServedByOne
<1>1. ASSUME TypeOK, IInv PROVE ServedByOne
  <2>1. ASSUME NEW w \in Workers, At(w, "wait"), request[task[w].req].status # "running"
        PROVE  task[w].slow >= RequestStale - MaxWait
    <3>1. RequestStale <= task[w].waited + task[w].slow
      BY <1>1, <2>1 DEF IInv, AgeInv, Waiting, At
    <3>2. task[w].waited \in 0..MaxWait /\ task[w].slow \in 0..MaxSlow
      BY <1>1 DEF TypeOK, TaskRow
    <3> QED
      BY <3>1, <3>2, RequestAssumption
  <2> QED
    BY <1>1, <2>1 DEF IInv, OwnerInv, ServedByOne
<1> QED
  BY <1>1, Invariant, PTL
=============================================================================
