----------------------------- MODULE ScanProofs -----------------------------
(***************************************************************************)
(* Proofs about ScanSchedule, for any number of web processes and          *)
(* requests, any windows and limits, and any crashes and failing calls.    *)
(***************************************************************************)
EXTENDS ScanSchedule, TLAPS, WellFoundedInduction

Owning == {"execute", "stamp"}

(* A scan has one owner, until it is settled and stamped, and is completed *)
(* by nobody else.                                                         *)
OwnInv ==
  \A a \in Actors : act[a].pc \in Owning =>
    /\ act[a].scan \in Rows
    /\ act[a].pc = "execute" => scan[act[a].scan].status # "completed"
    /\ \A b \in Actors \ {a} : act[b].pc \in Owning => act[b].scan # act[a].scan

(* A scan is failed under its owner only by the recovery of stale ones.    *)
FailInv ==
  \A a \in Actors :
    act[a].pc = "execute" /\ scan[act[a].scan].status = "failed" =>
      ~Within(act[a].scan, Stale)

(* The transaction lock has one holder, and what the holder saw still      *)
(* holds: no scan of its kind is running or completed in the cooldown.     *)
LockInv ==
  /\ act[Scheduler].pc # "v2"
  /\ \A r \in Requests : act[r].pc = "v2" =>
       /\ \A q \in Requests \ {r} : act[q].pc # "v2"
       /\ \A i \in Rows : scan[i].by = "v2" /\ Within(i, Cooldown) => scan[i].status = "failed"

TimeInv == \A i \in Rows : scan[i].started <= clock

IInv == OwnInv /\ FailInv /\ LockInv /\ TimeInv

-----------------------------------------------------------------------------
(* Dates follow the clock.                                                 *)
LEMMA DateMonotone ==
  ASSUME NEW m \in Nat, NEW n \in Nat, m <= n PROVE DateOf(m) \in Nat /\ DateOf(m) <= DateOf(n)
<1>1. NightTicks \in Nat \ {0}
  BY ScanAssumption
<1> DEFINE d == NightTicks
<1>2. /\ m \div d \in Int /\ m % d \in 0..(d - 1) /\ m = d * (m \div d) + (m % d)
      /\ n \div d \in Int /\ n % d \in 0..(d - 1) /\ n = d * (n \div d) + (n % d)
  BY <1>1
<1>3. m \div d >= 0
  BY <1>1, <1>2
<1>4. m \div d <= n \div d
  BY <1>1, <1>2
<1> QED
  BY <1>2, <1>3, <1>4 DEF DateOf

(* A date is no larger than its tick.                                      *)
LEMMA DateSmall == ASSUME NEW n \in Nat PROVE DateOf(n) \in Nat /\ DateOf(n) <= n
<1>1. NightTicks \in Nat \ {0}
  BY ScanAssumption
<1> DEFINE d == NightTicks
<1>2. n \div d \in Int /\ n % d \in 0..(d - 1) /\ n = d * (n \div d) + (n % d)
  BY <1>1
<1>3. n \div d >= 0 /\ n \div d <= n
  BY <1>1, <1>2
<1> QED
  BY <1>2, <1>3 DEF DateOf

-----------------------------------------------------------------------------
(* The coroutines the actions leave behind.                                *)
LEMMA AtRow ==
  ASSUME NEW pc \in ActPc
  PROVE  /\ At(pc) \in ActRow /\ At(pc).pc = pc
         /\ \A t \in {"scheduled", "manual"} :
              LET q == [At(pc) EXCEPT !.trigger = t] IN q \in ActRow /\ q.pc = pc
BY DEF At, ActRow

(* A coroutine that goes on keeps its scan.                                *)
LEMMA MovedRow ==
  ASSUME NEW t \in ActRow, NEW pc \in ActPc
  PROVE  LET q == [t EXCEPT !.pc = pc]
         IN  q \in ActRow /\ q.pc = pc /\ q.scan = t.scan
BY DEF ActRow

(* A coroutine that takes a scan up.                                       *)
LEMMA ExecuteRow ==
  ASSUME NEW t \in ActRow, NEW s \in ScanIds
  PROVE  LET q == [t EXCEPT !.pc = "execute", !.scan = s]
         IN  q \in ActRow /\ q.pc = "execute" /\ q.scan = s
<1> DEFINE q == [t EXCEPT !.pc = "execute"]
<1>1. q \in ActRow /\ q.pc = "execute"
  BY DEF ActRow, ActPc
<1> HIDE DEF q
<1>2. LET p == [q EXCEPT !.scan = s] IN p \in ActRow /\ p.pc = "execute" /\ p.scan = s
  BY <1>1 DEF ActRow
<1> QED
  BY <1>2 DEF q

(* Rows of or_scans.                                                       *)
LEMMA ScanRows ==
  ASSUME NEW row \in ScanRow
  PROVE  /\ AsFailed(row) \in ScanRow /\ AsFailed(row).status = "failed"
         /\ AsFailed(row).by = row.by /\ AsFailed(row).started = row.started
         /\ LET q == [row EXCEPT !.evidence = TRUE]
            IN  /\ q \in ScanRow /\ q.status = row.status
                /\ q.by = row.by /\ q.started = row.started
         /\ LET q == [row EXCEPT !.status = "completed", !.evidence = FALSE]
            IN  /\ q \in ScanRow /\ q.status = "completed"
                /\ q.by = row.by /\ q.started = row.started
<1>1. /\ AsFailed(row) \in ScanRow /\ AsFailed(row).status = "failed"
      /\ AsFailed(row).by = row.by /\ AsFailed(row).started = row.started
  BY DEF AsFailed, ScanRow, ScanStatus
<1>2. LET q == [row EXCEPT !.evidence = TRUE]
      IN  /\ q \in ScanRow /\ q.status = row.status
          /\ q.by = row.by /\ q.started = row.started
  BY DEF ScanRow
<1>3. LET q == [row EXCEPT !.status = "completed", !.evidence = FALSE]
      IN  /\ q \in ScanRow /\ q.status = "completed"
          /\ q.by = row.by /\ q.started = row.started
  <2> DEFINE p == [row EXCEPT !.status = "completed"]
  <2>1. /\ p \in ScanRow /\ p.status = "completed"
        /\ p.by = row.by /\ p.started = row.started
    BY DEF ScanRow, ScanStatus
  <2> HIDE DEF p
  <2>2. LET q == [p EXCEPT !.evidence = FALSE]
        IN  /\ q \in ScanRow /\ q.status = "completed"
            /\ q.by = row.by /\ q.started = row.started
    BY <2>1 DEF ScanRow
  <2> QED
    BY <2>2 DEF p
<1> QED
  BY <1>1, <1>2, <1>3

(* The row of a new scan.                                                  *)
LEMMA InsertedRow ==
  ASSUME TypeOK, NEW trigger \in {"scheduled", "manual"}, NEW by \in {"worker", "web", "v2"}
  PROVE  /\ Inserted(trigger, by) \in ScanRow /\ Inserted(trigger, by).status = "running"
         /\ Inserted(trigger, by).by = by /\ Inserted(trigger, by).started = clock
BY DEF Inserted, ScanRow, ScanStatus, TypeOK

(* A coroutine that takes a step leaves the others alone.                  *)
LEMMA Becomes ==
  ASSUME TypeOK, NEW a \in Actors, NEW row \in ActRow, Become(a, row)
  PROVE  /\ act' \in [Actors -> ActRow]
         /\ act'[a] = row
         /\ \A b \in Actors \ {a} : act'[b] = act[b]
BY DEF Become, TypeOK

(* The recovery of stale scans fails running scans only, and none of the   *)
(* last thirty minutes.                                                    *)
LEMMA RecoveredEffect ==
  ASSUME TypeOK
  PROVE  /\ Recovered \in [ScanIds -> ScanRow]
         /\ \A i \in ScanIds :
              \/ Recovered[i] = scan[i]
              \/ /\ scan[i].status = "running" /\ ~Within(i, Stale)
                 /\ Recovered[i].status = "failed"
                 /\ Recovered[i].by = scan[i].by /\ Recovered[i].started = scan[i].started
<1>1. \A i \in ScanIds : scan[i] \in ScanRow
  BY DEF TypeOK
<1>2. \A i \in ScanIds :
        /\ AsFailed(scan[i]) \in ScanRow /\ AsFailed(scan[i]).status = "failed"
        /\ AsFailed(scan[i]).by = scan[i].by /\ AsFailed(scan[i]).started = scan[i].started
  BY <1>1, ScanRows
<1> QED
  BY <1>1, <1>2 DEF Recovered, Recoverable

(* A step that keeps the start of every row and the clock keeps its age.   *)
LEMMA SameAge ==
  ASSUME clock' = clock, NEW i, scan'[i].started = scan[i].started,
         scan'[i].status = "none" <=> scan[i].status = "none"
  PROVE  /\ Exists(i)' <=> Exists(i)
         /\ \A n : Within(i, n)' <=> Within(i, n)
BY DEF Exists, Within, OnDate

-----------------------------------------------------------------------------
(* A step of a coroutine that writes no row and takes up no scan; the lock *)
(* is taken by one that finds it free and nothing recent.                  *)
LEMMA ActMoves ==
  ASSUME TypeOK, IInv, UNCHANGED <<scan, clock>>,
         NEW a \in Actors, NEW row \in ActRow, Become(a, row),
         row.pc \notin Owning,
         row.pc = "v2" => a \in Requests /\ LockFree /\ ~Recent
  PROVE  IInv'
<1>1. /\ act'[a] = row
      /\ \A b \in Actors \ {a} : act'[b] = act[b]
  BY Becomes
<1>2. \A i \in ScanIds : (Exists(i)' <=> Exists(i)) /\ \A n : Within(i, n)' <=> Within(i, n)
  BY SameAge
<1>3. Rows' = Rows /\ Rows \subseteq ScanIds
  BY <1>2 DEF Rows
<1>4. OwnInv'
  BY <1>1, <1>3 DEF IInv, OwnInv
<1>5. FailInv'
  BY <1>1, <1>2, <1>3 DEF IInv, FailInv, OwnInv, Owning
<1>6. LockInv'
  <2>1. act'[Scheduler].pc # "v2"
    BY <1>1, ScanAssumption DEF IInv, LockInv, Actors
  <2>2. ASSUME NEW r \in Requests, act'[r].pc = "v2"
        PROVE  /\ \A q \in Requests \ {r} : act'[q].pc # "v2"
               /\ \A i \in Rows : scan[i].by = "v2" /\ Within(i, Cooldown) => scan[i].status = "failed"
    <3>1. CASE r = a
      <4>1. LockFree /\ ~Recent
        BY <1>1, <2>2, <3>1
      <4>2. \A i \in Rows : scan[i].status \in {"running", "completed", "failed"}
        BY <1>3 DEF TypeOK, ScanRow, ScanStatus, Rows, Exists
      <4> QED
        BY <1>1, <3>1, <4>1, <4>2 DEF LockFree, Recent, Actors
    <3>2. CASE r # a
      BY <1>1, <2>2, <3>2 DEF IInv, LockInv, LockFree, Actors
    <3> QED
      BY <3>1, <3>2
  <2> QED
    BY <1>2, <1>3, <2>1, <2>2 DEF LockInv
<1>7. TimeInv'
  BY <1>3 DEF IInv, TimeInv
<1> QED
  BY <1>4, <1>5, <1>6, <1>7 DEF IInv

(* A scan is inserted, after a recovery of stale ones or without; one of   *)
(* the public button only by the holder of the lock.                       *)
LEMMA InsertKeeps ==
  ASSUME TypeOK, IInv, NEW a \in Actors, NEW s \in ScanIds, NextId(s),
         NEW trigger \in {"scheduled", "manual"}, NEW by \in {"worker", "web", "v2"},
         NEW rows, rows = scan \/ rows = Recovered,
         scan' = [rows EXCEPT ![s] = Inserted(trigger, by)],
         Become(a, [act[a] EXCEPT !.pc = "execute", !.scan = s]),
         clock' = clock,
         by = "v2" => act[a].pc = "v2"
  PROVE  /\ IInv'
         /\ scan' \in [ScanIds -> ScanRow] /\ act' \in [Actors -> ActRow]
<1>1. /\ act' \in [Actors -> ActRow]
      /\ act'[a].pc = "execute" /\ act'[a].scan = s
      /\ \A b \in Actors \ {a} : act'[b] = act[b]
  <2> DEFINE row == [act[a] EXCEPT !.pc = "execute", !.scan = s]
  <2>1. act[a] \in ActRow
    BY DEF TypeOK
  <2>2. row \in ActRow /\ row.pc = "execute" /\ row.scan = s
    BY <2>1, ExecuteRow
  <2>3. Become(a, row)
    OBVIOUS
  <2> HIDE DEF row
  <2> QED
    BY <2>2, <2>3, Becomes
<1>2. /\ rows \in [ScanIds -> ScanRow]
      /\ \A i \in ScanIds :
           \/ rows[i] = scan[i]
           \/ /\ scan[i].status = "running" /\ ~Within(i, Stale)
              /\ rows[i].status = "failed"
              /\ rows[i].by = scan[i].by /\ rows[i].started = scan[i].started
  BY RecoveredEffect DEF TypeOK
<1>3. /\ scan' \in [ScanIds -> ScanRow]
      /\ scan'[s].status = "running" /\ scan'[s].by = by /\ scan'[s].started = clock
      /\ \A i \in ScanIds \ {s} : scan'[i] = rows[i]
  BY <1>2, InsertedRow
<1>4. s \notin Rows
  BY DEF NextId, Rows
<1>5. /\ Rows' = Rows \union {s} /\ Rows \subseteq ScanIds
      /\ \A i \in Rows : \A n : Within(i, n)' <=> Within(i, n)
  <2>1. \A i \in ScanIds \ {s} : scan'[i].started = scan[i].started
                                /\ (scan'[i].status = "none" <=> scan[i].status = "none")
    BY <1>2, <1>3
  <2>2. \A i \in ScanIds \ {s} : (Exists(i)' <=> Exists(i)) /\ \A n : Within(i, n)' <=> Within(i, n)
    BY <2>1, SameAge
  <2>3. Exists(s)'
    BY <1>3 DEF Exists
  <2> QED
    BY <1>4, <2>2, <2>3 DEF Rows
<1>6. OwnInv'
  BY <1>1, <1>2, <1>3, <1>4, <1>5 DEF IInv, OwnInv, Owning
<1>7. FailInv'
  BY <1>1, <1>2, <1>3, <1>4, <1>5 DEF IInv, FailInv, OwnInv, Owning
<1>8. LockInv'
  <2>1. act'[Scheduler].pc # "v2"
    BY <1>1 DEF IInv, LockInv, Actors
  <2>2. ASSUME NEW r \in Requests, act'[r].pc = "v2"
        PROVE  /\ \A q \in Requests \ {r} : act'[q].pc # "v2"
               /\ \A i \in Rows' : scan'[i].by = "v2" /\ Within(i, Cooldown)' =>
                                     scan'[i].status = "failed"
    <3>1. r # a /\ act[r].pc = "v2"
      BY <1>1, <2>2 DEF Actors
    <3>2. by # "v2"
      BY <3>1 DEF IInv, LockInv, Actors
    <3>3. \A i \in Rows : scan[i].by = "v2" /\ Within(i, Cooldown) => scan[i].status = "failed"
      BY <3>1 DEF IInv, LockInv
    <3>4. \A q \in Requests \ {r} : act'[q].pc # "v2"
      BY <1>1, <3>1 DEF IInv, LockInv, Actors
    <3>5. \A i \in Rows : scan'[i] = rows[i]
      BY <1>3, <1>4, <1>5
    <3> QED
      BY <1>2, <1>3, <1>5, <3>2, <3>3, <3>4, <3>5
  <2> QED
    BY <2>1, <2>2 DEF LockInv
<1>9. TimeInv'
  BY <1>2, <1>3, <1>4, <1>5, ScanAssumption DEF IInv, TimeInv, TypeOK, Ticks
<1> QED
  BY <1>1, <1>3, <1>6, <1>7, <1>8, <1>9 DEF IInv

(* The owner of a scan writes its row: it completes it, fails it, or       *)
(* stamps what it settled.                                                 *)
LEMMA SettleKeeps ==
  ASSUME TypeOK, IInv, NEW a \in Actors, act[a].pc \in Owning, clock' = clock,
         NEW row \in ScanRow, scan' = [scan EXCEPT ![act[a].scan] = row],
         row.by = scan[act[a].scan].by, row.started = scan[act[a].scan].started,
         \/ act[a].pc = "execute" /\ row.status \in {"completed", "failed"}
         \/ act[a].pc = "stamp" /\ row.status = scan[act[a].scan].status,
         NEW next \in ActRow, Become(a, next), next.scan = act[a].scan \/ next.pc \notin Owning,
         next.pc \notin {"execute", "v2"}
  PROVE  /\ IInv'
         /\ scan' \in [ScanIds -> ScanRow] /\ act' \in [Actors -> ActRow]
<1>1. /\ act' \in [Actors -> ActRow]
      /\ act'[a] = next
      /\ \A b \in Actors \ {a} : act'[b] = act[b]
  BY Becomes
<1>2. PICK s : s = act[a].scan
  OBVIOUS
<1>3. /\ s \in Rows /\ Rows \subseteq ScanIds /\ scan[s] \in ScanRow
      /\ act[a].pc = "execute" => scan[s].status # "completed"
      /\ \A b \in Actors \ {a} : act[b].pc \in Owning => act[b].scan # s
  BY <1>2 DEF IInv, OwnInv, Rows, TypeOK
<1>4. /\ scan' \in [ScanIds -> ScanRow] /\ scan'[s] = row
      /\ \A i \in ScanIds \ {s} : scan'[i] = scan[i]
  BY <1>2, <1>3 DEF TypeOK
<1>5. Rows' = Rows /\ \A i \in Rows : \A n : Within(i, n)' <=> Within(i, n)
  <2>1. row.status # "none" /\ scan[s].status # "none"
    BY <1>2, <1>3 DEF Rows, Exists
  <2>2. \A i \in ScanIds : scan'[i].started = scan[i].started
                           /\ (scan'[i].status = "none" <=> scan[i].status = "none")
    BY <1>2, <1>4, <2>1
  <2>3. \A i \in ScanIds : (Exists(i)' <=> Exists(i)) /\ \A n : Within(i, n)' <=> Within(i, n)
    BY <2>2, SameAge
  <2> QED
    BY <1>3, <2>3 DEF Rows
<1>6. OwnInv'
  BY <1>1, <1>2, <1>3, <1>4, <1>5 DEF IInv, OwnInv, Owning
<1>7. FailInv'
  BY <1>1, <1>3, <1>4, <1>5 DEF IInv, FailInv, OwnInv, Owning
<1>8. LockInv'
  <2>1. act'[Scheduler].pc # "v2"
    BY <1>1 DEF IInv, LockInv, Actors
  <2>2. ASSUME NEW r \in Requests, act'[r].pc = "v2"
        PROVE  /\ \A q \in Requests \ {r} : act'[q].pc # "v2"
               /\ \A i \in Rows' : scan'[i].by = "v2" /\ Within(i, Cooldown)' =>
                                     scan'[i].status = "failed"
    <3>1. r # a /\ act[r].pc = "v2"
      BY <1>1, <2>2 DEF Actors
    <3>2. \A q \in Requests \ {r} : act'[q].pc # "v2"
      BY <1>1, <3>1 DEF IInv, LockInv, Actors
    <3>3. \A i \in Rows : scan[i].by = "v2" /\ Within(i, Cooldown) => scan[i].status = "failed"
      BY <3>1 DEF IInv, LockInv
    <3>4. row.by = "v2" /\ Within(s, Cooldown) => row.status = "failed"
      <4>1. Within(s, Cooldown) => Within(s, Stale)
        BY <1>3, ScanAssumption DEF Within, TypeOK, Ticks, ScanRow
      <4> QED
        BY <1>2, <1>3, <3>3, <4>1 DEF IInv, FailInv
    <3> QED
      BY <1>3, <1>4, <1>5, <3>2, <3>3, <3>4
  <2> QED
    BY <2>1, <2>2 DEF LockInv
<1>9. TimeInv'
  BY <1>2, <1>3, <1>4, <1>5 DEF IInv, TimeInv
<1> QED
  BY <1>1, <1>4, <1>6, <1>7, <1>8, <1>9 DEF IInv

(* The public button answers with a recent scan after the recovery.        *)
LEMMA ReuseKeeps ==
  ASSUME TypeOK, IInv, scan' = Recovered, UNCHANGED <<act, clock>>
  PROVE  IInv' /\ scan' \in [ScanIds -> ScanRow]
<1>1. /\ scan' \in [ScanIds -> ScanRow]
      /\ \A i \in ScanIds :
           \/ scan'[i] = scan[i]
           \/ /\ scan[i].status = "running" /\ ~Within(i, Stale)
              /\ scan'[i].status = "failed"
              /\ scan'[i].by = scan[i].by /\ scan'[i].started = scan[i].started
  BY RecoveredEffect
<1>2. \A i \in ScanIds : (Exists(i)' <=> Exists(i)) /\ \A n : Within(i, n)' <=> Within(i, n)
  <2>1. \A i \in ScanIds : scan'[i].started = scan[i].started
                           /\ (scan'[i].status = "none" <=> scan[i].status = "none")
    BY <1>1
  <2> QED
    BY <2>1, SameAge
<1>3. Rows' = Rows /\ Rows \subseteq ScanIds
  BY <1>2 DEF Rows
<1>4. OwnInv'
  BY <1>1, <1>3 DEF IInv, OwnInv
<1>5. FailInv'
  BY <1>1, <1>2, <1>3 DEF IInv, FailInv, OwnInv, Owning
<1>6. LockInv' /\ TimeInv'
  BY <1>1, <1>2, <1>3 DEF IInv, LockInv, TimeInv
<1> QED
  BY <1>1, <1>4, <1>5, <1>6 DEF IInv

(* A process that stops leaves its scans to the recovery.                  *)
LEMMA CrashKeeps ==
  ASSUME TypeOK, IInv, NEW h, Crash(h) PROVE IInv' /\ act' \in [Actors -> ActRow]
<1>1. At("down") \in ActRow /\ At("idle") \in ActRow /\ At("down").pc = "down" /\ At("idle").pc = "idle"
  BY DEF At, ActRow, ActPc
<1>2. /\ act' \in [Actors -> ActRow]
      /\ \A a \in Actors : act'[a] = act[a] \/ act'[a].pc \in {"down", "idle"}
      /\ UNCHANGED <<scan, clock>>
  BY <1>1 DEF Crash, TypeOK
<1>3. \A i \in ScanIds : (Exists(i)' <=> Exists(i)) /\ \A n : Within(i, n)' <=> Within(i, n)
  BY <1>2, SameAge
<1>4. Rows' = Rows /\ Rows \subseteq ScanIds
  BY <1>3 DEF Rows
<1>5. OwnInv'
  BY <1>2, <1>4 DEF IInv, OwnInv, Owning
<1>6. FailInv'
  BY <1>2, <1>3, <1>4 DEF IInv, FailInv, OwnInv, Owning
<1>7. LockInv' /\ TimeInv'
  BY <1>2, <1>3, <1>4, ScanAssumption DEF IInv, LockInv, TimeInv, Actors
<1> QED
  BY <1>2, <1>5, <1>6, <1>7 DEF IInv

(* A row only ages, and no insert is between its look and its row.         *)
LEMMA TickKeeps == ASSUME TypeOK, IInv, Tick PROVE IInv' /\ clock' \in Ticks
<1>1. /\ clock \in Nat /\ clock' = clock + 1 /\ clock' \in Ticks
      /\ UNCHANGED <<scan, act>>
      /\ \A a \in Actors : act[a].pc # "v2"
  BY ScanAssumption DEF Tick, TypeOK, Ticks
<1>2. Rows' = Rows /\ Rows \subseteq ScanIds
  BY <1>1 DEF Rows, Exists
<1>3. ASSUME NEW i \in Rows, Within(i, Stale)' PROVE Within(i, Stale)
  <2> DEFINE m == scan[i].started
  <2>1. m \in Nat /\ m <= clock
    BY <1>2, ScanAssumption DEF IInv, TimeInv, TypeOK, ScanRow, Ticks
  <2>2. /\ DateOf(m) = DateOf(clock + 1) /\ clock + 1 - m <= Stale
    <3>1. scan'[i].started \div NightTicks = clock' \div NightTicks
      BY <1>3 DEF Within, OnDate, DateOf
    <3>2. clock' - scan'[i].started <= Stale
      BY <1>3 DEF Within
    <3>3. scan'[i].started = m /\ clock' = clock + 1
      BY <1>1
    <3> QED
      BY <1>1, <2>1, <3>1, <3>2, <3>3 DEF DateOf
  <2>3. /\ DateOf(m) \in Nat /\ DateOf(m) <= DateOf(clock)
        /\ DateOf(clock) \in Nat /\ DateOf(clock) <= DateOf(clock + 1)
    BY <1>1, <2>1, DateMonotone
  <2>4. DateOf(clock + 1) \in Nat
    BY <1>1, DateSmall
  <2>5. DateOf(m) = DateOf(clock)
    BY <2>2, <2>3, <2>4
  <2>6. clock - m <= Stale
    BY <1>1, <2>1, <2>2, ScanAssumption
  <2> QED
    BY <2>5, <2>6 DEF Within, OnDate, Rows
<1>4. OwnInv'
  BY <1>1, <1>2 DEF IInv, OwnInv
<1>5. FailInv'
  BY <1>1, <1>3 DEF IInv, FailInv, OwnInv, Owning
<1>6. LockInv' /\ TimeInv'
  BY <1>1, <1>2, ScanAssumption DEF IInv, LockInv, TimeInv, Actors, TypeOK, ScanRow, Ticks
<1> QED
  BY <1>1, <1>4, <1>5, <1>6 DEF IInv

-----------------------------------------------------------------------------
(* What no step may do to the rows of the table.                           *)
Final  == \A s \in ScanIds : scan[s].status = "completed" => scan'[s].status = "completed"
Serial == \A s \in ScanIds :
            ~Exists(s) /\ Exists(s)' /\ scan'[s].by = "v2" =>
              \A i \in Rows : scan[i].by = "v2" /\ Within(i, Cooldown) => scan[i].status = "failed"

Kept == TypeOK' /\ IInv' /\ Final /\ Serial

(* A step of the scheduler or a request that writes no row takes up no     *)
(* scan; the lock is taken by one that finds it free and nothing recent.   *)
LEMMA QuietActs ==
  ASSUME TypeOK,
         \/ WorkerStart \/ Boot \/ BootFails \/ Poll \/ WorkerDone \/ WorkerError
         \/ \E r \in Requests : AskScan(r) \/ (AskV2(r) /\ ~Recent) \/ RequestError(r)
         \/ \E a \in Actors : StampFails(a) \/ ScanEscapes(a)
  PROVE  \/ act' = act
         \/ \E a \in Actors, row \in ActRow :
              /\ Become(a, row) /\ row.pc \notin Owning
              /\ row.pc = "v2" => a \in Requests /\ LockFree /\ ~Recent
<1>1. \A pc \in ActPc \ (Owning \union {"v2"}) :
        /\ At(pc) \in ActRow /\ At(pc).pc \notin Owning /\ At(pc).pc # "v2"
        /\ \A t \in {"scheduled", "manual"} :
             LET q == [At(pc) EXCEPT !.trigger = t]
             IN  q \in ActRow /\ q.pc \notin Owning /\ q.pc # "v2"
  BY AtRow
<1>2. /\ {"down", "dead", "boot", "sleep", "insert", "idle", "scheduled", "manual", "done"}
           \subseteq ActPc \ (Owning \union {"v2"})
      /\ "v2" \in ActPc \ Owning
  BY DEF ActPc, Owning
<1>3. Scheduler \in Actors /\ Requests \subseteq Actors
  BY DEF Actors
<1>4. CASE WorkerStart
  BY <1>1, <1>2, <1>3, <1>4 DEF WorkerStart
<1>5. CASE Boot
  BY <1>1, <1>2, <1>3, <1>5 DEF Boot, EnterLoop
<1>6. CASE BootFails
  BY <1>1, <1>2, <1>3, <1>6 DEF BootFails
<1>7. CASE Poll
  BY <1>1, <1>2, <1>3, <1>7 DEF Poll
<1>8. CASE WorkerDone
  BY <1>1, <1>2, <1>3, <1>8 DEF WorkerDone, EnterLoop
<1>9. CASE WorkerError
  BY <1>1, <1>2, <1>3, <1>9 DEF WorkerError, EndRound, EnterLoop
<1>10. ASSUME NEW r \in Requests, AskScan(r) \/ (AskV2(r) /\ ~Recent) \/ RequestError(r)
       PROVE  \E row \in ActRow :
                /\ Become(r, row) /\ row.pc \notin Owning
                /\ row.pc = "v2" => LockFree /\ ~Recent
  <2>1. CASE AskScan(r)
    BY <1>1, <1>2, <2>1 DEF AskScan
  <2>2. CASE AskV2(r) /\ ~Recent
    <3>1. At("v2") \in ActRow /\ At("v2").pc = "v2"
      BY <1>2, AtRow
    <3> QED
      BY <2>2, <3>1 DEF AskV2, Owning
  <2>3. CASE RequestError(r)
    BY <1>1, <1>2, <2>3 DEF RequestError
  <2> QED
    BY <1>10, <2>1, <2>2, <2>3
<1>11. ASSUME NEW a \in Actors, StampFails(a) \/ ScanEscapes(a)
       PROVE  \E row \in ActRow :
                Become(a, row) /\ row.pc \notin Owning /\ row.pc \notin {"v2"}
  <2>1. LET q == [act[a] EXCEPT !.pc = "done"]
        IN  q \in ActRow /\ q.pc \notin Owning /\ q.pc \notin {"v2"}
    <3>1. act[a] \in ActRow /\ "done" \in ActPc
      BY DEF TypeOK, ActPc
    <3> QED
      BY <3>1, MovedRow DEF Owning
  <2>2. CASE StampFails(a)
    BY <1>1, <1>2, <2>1, <2>2 DEF StampFails, Return
  <2>3. CASE ScanEscapes(a)
    BY <1>1, <1>2, <2>3, ZenonT(60) DEF ScanEscapes, EndRound, EnterLoop
  <2> QED
    BY <1>11, <2>2, <2>3
<1> QED
  BY <1>3, <1>4, <1>5, <1>6, <1>7, <1>8, <1>9, <1>10, <1>11

(* A step of the scheduler or a request that writes no row.                *)
LEMMA QuietSteps ==
  ASSUME TypeOK, IInv,
         \/ WorkerStart \/ Boot \/ BootFails \/ Poll \/ WorkerDone \/ WorkerError
         \/ \E r \in Requests : AskScan(r) \/ (AskV2(r) /\ ~Recent) \/ RequestError(r)
         \/ \E a \in Actors : StampFails(a) \/ ScanEscapes(a)
  PROVE  Kept
<1>1. UNCHANGED <<scan, clock>>
  BY DEF WorkerStart, Boot, BootFails, Poll, WorkerDone, WorkerError, AskScan, AskV2, RequestError,
         StampFails, ScanEscapes
<1>2. \/ act' = act
      \/ \E a \in Actors, row \in ActRow :
           /\ Become(a, row) /\ row.pc \notin Owning
           /\ row.pc = "v2" => a \in Requests /\ LockFree /\ ~Recent
  BY QuietActs
<1>3. /\ lastRun' \in Ticks \union {None}
      /\ polled' \in BOOLEAN /\ watching' \in BOOLEAN
      /\ crashesLeft' \in Nat /\ faultsLeft' \in Nat
  <2>1. DateOf(clock) \in Ticks
    BY DateSmall, ScanAssumption DEF TypeOK, Ticks
  <2>2. lastRun' \in Ticks \union {None}
    BY <2>1
    DEF TypeOK, WorkerStart, Boot, BootFails, Poll, WorkerDone, WorkerError, AskScan, AskV2,
        RequestError, StampFails, ScanEscapes, EnterLoop, EndRound, SpendFault, loop, budgets
  <2>3. polled' \in BOOLEAN
    BY DEF TypeOK, WorkerStart, Boot, BootFails, Poll, WorkerDone, WorkerError, AskScan, AskV2,
        RequestError, StampFails, ScanEscapes, EnterLoop, EndRound, SpendFault, loop, budgets
  <2>4. watching' \in BOOLEAN
    <3>1. \/ watching' = watching \/ watching' = FALSE
          \/ watching' = (Minute(clock) <= First(WorkerWindow))
      BY DEF WorkerStart, Boot, BootFails, Poll, WorkerDone, WorkerError, AskScan, AskV2,
        RequestError, StampFails, ScanEscapes, EnterLoop, EndRound, SpendFault, loop, budgets
    <3>2. (Minute(clock) <= First(WorkerWindow)) \in BOOLEAN
      OBVIOUS
    <3> QED
      BY <3>1, <3>2, Zenon DEF TypeOK
  <2>5. crashesLeft' \in Nat /\ faultsLeft' \in Nat
    BY DEF TypeOK, WorkerStart, Boot, BootFails, Poll, WorkerDone, WorkerError, AskScan, AskV2,
        RequestError, StampFails, ScanEscapes, EnterLoop, EndRound, SpendFault, loop, budgets
  <2> QED
    BY <2>2, <2>3, <2>4, <2>5
<1>4. IInv' /\ act' \in [Actors -> ActRow]
  <2>1. CASE act' = act
    <3>1. \A i \in ScanIds : (Exists(i)' <=> Exists(i)) /\ \A n : Within(i, n)' <=> Within(i, n)
      BY <1>1, SameAge
    <3>2. Rows' = Rows /\ Rows \subseteq ScanIds
      BY <3>1 DEF Rows
    <3>3. OwnInv' /\ LockInv' /\ TimeInv'
      BY <1>1, <2>1, <3>1, <3>2 DEF IInv, OwnInv, LockInv, TimeInv
    <3>4. FailInv'
      BY <1>1, <2>1, <3>1, <3>2 DEF IInv, FailInv, OwnInv, Owning
    <3> QED
      BY <2>1, <3>3, <3>4 DEF IInv, TypeOK
  <2> QED
    BY <1>1, <1>2, <2>1, ActMoves, Becomes
<1>5. Final /\ Serial
  BY <1>1 DEF Final, Serial, Exists
<1> QED
  BY <1>1, <1>3, <1>4, <1>5 DEF Kept, TypeOK

(* A scan is inserted.                                                     *)
LEMMA InsertSteps ==
  ASSUME TypeOK, IInv, WorkerInsert \/ \E r \in Requests : RequestInsert(r)
  PROVE  Kept
<1>1. UNCHANGED <<loop, clock, budgets>>
  BY ZenonT(60) DEF WorkerInsert, RequestInsert
<1>2. PICK a \in Actors, s \in ScanIds, trigger \in {"scheduled", "manual"},
           by \in {"worker", "web", "v2"}, rows \in {scan, Recovered} :
        /\ NextId(s)
        /\ scan' = [rows EXCEPT ![s] = Inserted(trigger, by)]
        /\ Become(a, [act[a] EXCEPT !.pc = "execute", !.scan = s])
        /\ by = "v2" => a \in Requests /\ act[a].pc = "v2"
  <2>1. CASE WorkerInsert
    <3>1. Scheduler \in Actors /\ act[Scheduler].trigger \in {"scheduled", "manual"}
      BY DEF Actors, TypeOK, ActRow
    <3> QED
      BY <2>1, <3>1 DEF WorkerInsert
  <2>2. ASSUME NEW r \in Requests, RequestInsert(r)
        PROVE  \E s \in ScanIds, by \in {"web", "v2"}, rows \in {scan, Recovered} :
                 /\ NextId(s)
                 /\ scan' = [rows EXCEPT ![s] = Inserted(act[r].trigger, by)]
                 /\ Become(r, [act[r] EXCEPT !.pc = "execute", !.scan = s])
                 /\ by = "v2" => act[r].pc = "v2"
    <3>1. CASE act[r].pc = "v2"
      BY <2>2, <3>1 DEF RequestInsert
    <3>2. CASE act[r].pc # "v2"
      BY <2>2, <3>2 DEF RequestInsert
    <3> QED
      BY <3>1, <3>2
  <2>3. \A r \in Requests : r \in Actors /\ act[r].trigger \in {"scheduled", "manual"}
    BY DEF Actors, TypeOK, ActRow
  <2> QED
    BY <2>1, <2>2, <2>3, ZenonT(60)
<1>3. /\ IInv'
      /\ scan' \in [ScanIds -> ScanRow] /\ act' \in [Actors -> ActRow]
  BY <1>1, <1>2, InsertKeeps
<1>4. /\ rows \in [ScanIds -> ScanRow]
      /\ \A i \in ScanIds : rows[i] = scan[i] \/ scan[i].status = "running"
      /\ \A i \in ScanIds : Exists(i) => rows[i].status # "none"
      /\ \A i \in ScanIds : rows[i].status # "none" => Exists(i)
  BY <1>2, RecoveredEffect DEF TypeOK, Exists
<1>5. /\ \A i \in ScanIds \ {s} : scan'[i] = rows[i]
      /\ scan'[s].by = by /\ ~Exists(s)
  BY <1>2, <1>4, InsertedRow DEF NextId
<1>6. Final
  BY <1>4, <1>5 DEF Final, Exists
<1>7. Serial
  <2>1. by = "v2" => \A i \in Rows : scan[i].by = "v2" /\ Within(i, Cooldown) =>
                                       scan[i].status = "failed"
    BY <1>2 DEF IInv, LockInv
  <2>2. \A i \in ScanIds \ {s} : Exists(i)' <=> Exists(i)
    BY <1>4, <1>5 DEF Exists
  <2> QED
    BY <1>5, <2>1, <2>2 DEF Serial
<1> QED
  BY <1>1, <1>3, <1>6, <1>7 DEF Kept, TypeOK, loop, budgets

(* The owner of a scan completes it, fails it or stamps it.                *)
LEMMA SettleSteps ==
  ASSUME TypeOK, IInv, NEW a \in Actors, Complete(a) \/ ScanFails(a) \/ Stamp(a)
  PROVE  Kept
<1>1. PICK s : s = act[a].scan
  OBVIOUS
<1>2. /\ act[a].pc \in Owning /\ act[a] \in ActRow
      /\ s \in Rows /\ Rows \subseteq ScanIds /\ scan[s] \in ScanRow
      /\ act[a].pc = "execute" => scan[s].status # "completed"
  BY <1>1 DEF Complete, ScanFails, Stamp, Owning, IInv, OwnInv, TypeOK, Rows
<1>3. UNCHANGED <<loop, clock, crashesLeft>> /\ faultsLeft' \in Nat
  BY SMTT(30) DEF Complete, ScanFails, Stamp, SpendFault, budgets, TypeOK
<1>4. PICK row \in ScanRow :
        /\ scan' = [scan EXCEPT ![s] = row]
        /\ row.by = scan[s].by /\ row.started = scan[s].started
        /\ \/ act[a].pc = "execute" /\ row.status \in {"completed", "failed"}
           \/ act[a].pc = "stamp" /\ row.status = scan[s].status
  BY <1>1, <1>2, ScanRows, ZenonT(60) DEF Complete, ScanFails, Stamp
<1>5. PICK next \in ActRow :
        /\ Become(a, next)
        /\ next.scan = s \/ next.pc \notin Owning
        /\ next.pc \notin {"execute", "v2"}
  <2>1. {"stamp", "done", "idle"} \subseteq ActPc
    BY DEF ActPc
  <2>2. /\ LET q == [act[a] EXCEPT !.pc = "stamp"]
           IN  q \in ActRow /\ q.pc = "stamp" /\ q.scan = s
        /\ LET q == [act[a] EXCEPT !.pc = "done"]
           IN  q \in ActRow /\ q.pc = "done"
        /\ At("idle") \in ActRow /\ At("idle").pc = "idle"
    BY <1>1, <1>2, <2>1, MovedRow, AtRow, ZenonT(60)
  <2>3. CASE Complete(a) \/ ScanFails(a)
    BY <2>2, <2>3 DEF Complete, ScanFails
  <2>4. CASE Stamp(a)
    BY <2>2, <2>4 DEF Stamp, Return, Owning
  <2> QED
    BY <2>3, <2>4
<1>6. /\ IInv'
      /\ scan' \in [ScanIds -> ScanRow] /\ act' \in [Actors -> ActRow]
  BY <1>1, <1>2, <1>3, <1>4, <1>5, SettleKeeps
<1>7. scan'[s] = row /\ \A i \in ScanIds \ {s} : scan'[i] = scan[i]
  BY <1>2, <1>4 DEF TypeOK
<1>8. Final
  BY <1>2, <1>4, <1>7 DEF Final
<1>9. Serial
  BY <1>2, <1>7 DEF Serial, Exists, Rows
<1> QED
  BY <1>3, <1>6, <1>8, <1>9 DEF Kept, TypeOK, loop

(* A reuse, a crash, the clock.                                            *)
LEMMA OtherSteps ==
  ASSUME TypeOK, IInv,
         \/ \E r \in Requests : AskV2(r) /\ Recent
         \/ \E h : Crash(h)
         \/ Tick
  PROVE  Kept
<1>1. CASE \E r \in Requests : AskV2(r) /\ Recent
  <2>1. scan' = Recovered /\ UNCHANGED <<act, loop, clock, budgets>>
    BY <1>1 DEF AskV2
  <2>2. IInv' /\ scan' \in [ScanIds -> ScanRow]
    BY <2>1, ReuseKeeps
  <2>3. \A i \in ScanIds : scan'[i] = scan[i] \/ (scan[i].status = "running" /\ scan'[i].status = "failed")
    BY <2>1, RecoveredEffect
  <2>4. Final /\ Serial
    BY <2>3 DEF Final, Serial, Exists
  <2> QED
    BY <2>1, <2>2, <2>4 DEF Kept, TypeOK, loop, budgets
<1>2. ASSUME NEW h, Crash(h) PROVE Kept
  <2>1. /\ UNCHANGED <<scan, loop, clock, faultsLeft>>
        /\ crashesLeft > 0 /\ crashesLeft' = crashesLeft - 1
    BY <1>2 DEF Crash
  <2>2. IInv' /\ act' \in [Actors -> ActRow]
    BY <1>2, CrashKeeps
  <2>3. Final /\ Serial
    BY <2>1 DEF Final, Serial, Exists
  <2> QED
    BY <2>1, <2>2, <2>3 DEF Kept, TypeOK, loop
<1>3. CASE Tick
  <2>1. /\ UNCHANGED <<scan, act, lastRun, budgets>>
        /\ polled' = FALSE
        /\ watching' = (watching \/ (act[Scheduler].pc = "sleep" /\ Minute(clock') = 0))
    BY <1>3 DEF Tick
  <2>2. IInv' /\ clock' \in Ticks
    BY <1>3, TickKeeps
  <2>3. watching' \in BOOLEAN
    BY <2>1, Zenon
  <2>4. Final /\ Serial
    BY <2>1 DEF Final, Serial, Exists
  <2> QED
    BY <2>1, <2>2, <2>3, <2>4 DEF Kept, TypeOK, budgets
<1> QED
  BY <1>1, <1>2, <1>3

(* Every step keeps the types and the invariant, takes no completion back  *)
(* and lets the public button start no second scan.                        *)
LEMMA StepKeeps == ASSUME TypeOK, IInv, Next PROVE Kept
<1>1. ASSUME NEW r \in Requests, AskV2(r) PROVE Kept
  BY <1>1, QuietSteps, OtherSteps
<1> QED
  BY <1>1, QuietSteps, InsertSteps, SettleSteps, OtherSteps DEF Next

(* The table starts empty, the scheduler down.                             *)
LEMMA InitKeeps == Init => TypeOK /\ IInv
<1> SUFFICES ASSUME Init PROVE TypeOK /\ IInv
  OBVIOUS
<1>1. NoScan \in ScanRow /\ NoScan.status = "none"
  BY ScanAssumption DEF NoScan, ScanRow, Ticks, ScanStatus
<1>2. /\ At("down") \in ActRow /\ At("idle") \in ActRow
      /\ At("down").pc = "down" /\ At("idle").pc = "idle"
  BY DEF At, ActRow, ActPc
<1>3. TypeOK
  <2>1. scan \in [ScanIds -> ScanRow] /\ act \in [Actors -> ActRow]
    BY <1>1, <1>2 DEF Init
  <2>2. /\ clock \in Ticks /\ lastRun = None /\ polled = FALSE /\ watching = FALSE
        /\ crashesLeft \in Nat /\ faultsLeft \in Nat
    BY ScanAssumption DEF Init, Ticks
  <2> QED
    BY <2>1, <2>2 DEF TypeOK
<1>4. Rows = {} /\ \A a \in Actors : act[a].pc \in {"down", "idle"}
  BY <1>1, <1>2 DEF Init, Rows, Exists
<1>5. IInv
  BY <1>4, ScanAssumption DEF IInv, OwnInv, FailInv, LockInv, TimeInv, Owning, Actors
<1> QED
  BY <1>3, <1>5

(* The types and the invariant hold throughout.                            *)
LEMMA Invariant == Spec => [](TypeOK /\ IInv)
<1>1. TypeOK /\ IInv /\ [Next]_vars => TypeOK' /\ IInv'
  <2> SUFFICES ASSUME TypeOK, IInv, [Next]_vars PROVE TypeOK' /\ IInv'
    OBVIOUS
  <2>1. CASE Next
    BY <2>1, StepKeeps DEF Kept
  <2>2. CASE UNCHANGED vars
    <3>1. UNCHANGED <<scan, act, clock, lastRun, polled, watching, crashesLeft, faultsLeft>>
      BY <2>2 DEF vars, loop, budgets
    <3>2. \A i \in ScanIds : (Exists(i)' <=> Exists(i)) /\ \A n : Within(i, n)' <=> Within(i, n)
      BY <3>1, SameAge
    <3>3. Rows' = Rows /\ Rows \subseteq ScanIds
      BY <3>2 DEF Rows
    <3>4. OwnInv' /\ LockInv' /\ TimeInv'
      BY <3>1, <3>2, <3>3 DEF IInv, OwnInv, LockInv, TimeInv
    <3>5. FailInv'
      BY <3>1, <3>2, <3>3 DEF IInv, FailInv, OwnInv, Owning
    <3> QED
      BY <3>1, <3>4, <3>5 DEF IInv, TypeOK
  <2> QED
    BY <2>1, <2>2
<1> QED
  BY <1>1, InitKeeps, PTL DEF Spec

(* The rows of or_scans and the coroutines stay in their domains.          *)
THEOREM ScanTypes == Spec => []TypeOK
BY Invariant, PTL

(* A completed scan stays completed, whatever the recovery of stale scans, *)
(* late executors and failing stamps do.                                   *)
THEOREM CompletedScansAreFinal == Spec => CompletedIsFinal
<1>1. TypeOK /\ IInv /\ [Next]_vars =>
        [\A s \in ScanIds : scan[s].status = "completed" => scan'[s].status = "completed"]_vars
  BY StepKeeps DEF Kept, Final
<1> QED
  BY <1>1, Invariant, PTL DEF Spec, CompletedIsFinal

(* The public button starts no second scan within the cooldown, whichever  *)
(* process answers: what the holder of the lock saw still holds when it    *)
(* inserts.                                                                *)
THEOREM ButtonScansAreSerial == Spec => ManualIsSerial
<1>1. TypeOK /\ IInv /\ [Next]_vars =>
        [\A s \in ScanIds :
           ~Exists(s) /\ Exists(s)' /\ scan'[s].by = "v2" =>
             \A i \in Rows : /\ scan[i].by = "v2" /\ Within(i, Cooldown)
                             => scan[i].status = "failed"]_vars
  BY StepKeeps DEF Kept, Serial
<1> QED
  BY <1>1, Invariant, PTL DEF Spec, ManualIsSerial

-----------------------------------------------------------------------------
(* The night.  What a row of or_scans is, and which steps touch it.        *)
Nightly(s) ==
  scan[s].trigger = "scheduled" /\ scan[s].status = "completed" /\ scan[s].evidence
OnlyWorker(d) == \A k \in Rows : OnDate(k, d) => scan[k].by = "worker"

(* The rows are inserted in the order of their numbers.                    *)
OrderInv ==
  \A i, j \in ScanIds : i < j /\ Exists(j) => Exists(i) /\ scan[i].started <= scan[j].started

(* A request has no row of the worker in hand, and the worker no row that  *)
(* one of its own follows.                                                 *)
HandInv ==
  /\ \A r \in Requests : act[r].pc \in Owning => scan[act[r].scan].by # "worker"
  /\ act[Scheduler].pc \in Owning =>
       \A j \in Rows : j > act[Scheduler].scan => scan[j].by # "worker"

(* Of a date that is the worker's alone: nothing follows the nightly scan  *)
(* with evidence, and whoever is about to insert has found none.           *)
FoundNone ==
  OnlyWorker(DateOf(clock)) => \A s \in Rows : OnDate(s, DateOf(clock)) => ~Nightly(s)
NightInv ==
  /\ \A s \in Rows : Nightly(s) /\ OnlyWorker(DateOf(scan[s].started)) =>
       \A j \in Rows : j > s => DateOf(scan[j].started) # DateOf(scan[s].started)
  /\ act[Scheduler].pc = "insert" => FoundNone

(* What a step that inserts nothing leaves of a row.                       *)
SameRow(i) ==
  /\ Exists(i)' <=> Exists(i)
  /\ scan'[i].trigger = scan[i].trigger /\ scan'[i].by = scan[i].by
  /\ scan'[i].started = scan[i].started
Dim(i) == SameRow(i) /\ (Nightly(i)' => Nightly(i))

(* A coroutine owns what it owned.                                         *)
Carries(a) ==
  act'[a].pc \in Owning => act[a].pc \in Owning /\ act'[a].scan = act[a].scan

-----------------------------------------------------------------------------
(* The writes of a row keep what it was inserted with.                     *)
LEMMA RowWrites ==
  ASSUME NEW row \in ScanRow
  PROVE  /\ AsFailed(row).trigger = row.trigger
         /\ LET q == [row EXCEPT !.evidence = TRUE] IN q.trigger = row.trigger
         /\ LET q == [row EXCEPT !.status = "completed", !.evidence = FALSE]
            IN  q.trigger = row.trigger /\ ~q.evidence
<1>1. AsFailed(row).trigger = row.trigger
  BY DEF AsFailed, ScanRow
<1>2. LET q == [row EXCEPT !.evidence = TRUE] IN q.trigger = row.trigger
  BY DEF ScanRow
<1>3. LET q == [row EXCEPT !.status = "completed", !.evidence = FALSE]
      IN  q.trigger = row.trigger /\ ~q.evidence
  BY DEF ScanRow
<1> QED
  BY <1>1, <1>2, <1>3

(* A row nobody writes.                                                    *)
LEMMA RowLeft == ASSUME NEW i, scan'[i] = scan[i] PROVE Dim(i)
BY DEF Dim, SameRow, Nightly, Exists

(* The recovery of stale scans.                                            *)
LEMMA RecoveredRow ==
  ASSUME TypeOK, NEW i \in ScanIds, scan'[i] = Recovered[i] PROVE Dim(i)
<1>1. scan[i] \in ScanRow
  BY DEF TypeOK
<1>2. CASE scan'[i] = scan[i]
  BY <1>2, RowLeft
<1>3. CASE Recoverable(i) /\ scan'[i] = AsFailed(scan[i])
  BY <1>1, <1>3, ScanRows, RowWrites, ZenonT(60) DEF Dim, SameRow, Nightly, Exists, Recoverable
<1> QED
  BY <1>2, <1>3 DEF Recovered

(* The owner's writes.                                                     *)
LEMMA OwnersWrite ==
  ASSUME TypeOK, IInv, NEW a \in Actors, Complete(a) \/ ScanFails(a) \/ Stamp(a)
  PROVE  /\ act[a].scan \in Rows
         /\ \A i \in ScanIds : SameRow(i) /\ (i # act[a].scan => Dim(i))
         /\ ~Stamp(a) => \A i \in ScanIds : Dim(i)
<1>1. PICK s : s = act[a].scan
  OBVIOUS
<1>2. s \in Rows /\ s \in ScanIds /\ scan[s] \in ScanRow /\ Exists(s)
  BY <1>1 DEF Complete, ScanFails, Stamp, Owning, IInv, OwnInv, TypeOK, Rows
<1>3. \A i \in ScanIds \ {s} : scan'[i] = scan[i]
  BY <1>1, <1>2 DEF Complete, ScanFails, Stamp, TypeOK
<1>4. CASE Complete(a)
  <2>1. scan'[s] = [scan[s] EXCEPT !.status = "completed", !.evidence = FALSE]
    BY <1>1, <1>2, <1>4 DEF Complete, TypeOK
  <2>2. Dim(s)
    BY <1>2, <2>1, ScanRows, RowWrites, ZenonT(60) DEF Dim, SameRow, Nightly, Exists
  <2> QED
    BY <1>1, <1>2, <1>3, <2>2, RowLeft DEF Dim
<1>5. CASE ScanFails(a)
  <2>1. scan'[s] = AsFailed(scan[s])
    BY <1>1, <1>2, <1>5 DEF ScanFails, TypeOK
  <2>2. Dim(s)
    BY <1>2, <2>1, ScanRows, RowWrites, ZenonT(60) DEF Dim, SameRow, Nightly, Exists
  <2> QED
    BY <1>1, <1>2, <1>3, <2>2, RowLeft DEF Dim
<1>6. CASE Stamp(a)
  <2>1. scan'[s] = [scan[s] EXCEPT !.evidence = TRUE]
    BY <1>1, <1>2, <1>6 DEF Stamp, TypeOK
  <2>2. SameRow(s)
    BY <1>2, <2>1, ScanRows, RowWrites, ZenonT(60) DEF SameRow, Exists
  <2> QED
    BY <1>1, <1>2, <1>3, <1>6, <2>2, RowLeft DEF Dim
<1> QED
  BY <1>4, <1>5, <1>6

(* The rows of an insert.                                                  *)
Inserts(a, s) ==
  /\ s \in ScanIds /\ NextId(s) /\ Exists(s)'
  /\ scan'[s].started = clock /\ scan'[s].trigger = act[a].trigger /\ scan'[s].status = "running"
  /\ scan'[s].by = "worker" <=> a = Scheduler
  /\ \A i \in ScanIds \ {s} : Dim(i)
  /\ act'[a].pc = "execute" /\ act'[a].scan = s /\ act'[a].trigger = act[a].trigger
  /\ \A b \in Actors \ {a} : act'[b] = act[b]
  /\ clock' = clock

(* A coroutine that takes a scan up keeps its trigger.                     *)
LEMMA TakesUp ==
  ASSUME TypeOK, NEW a \in Actors, NEW s \in ScanIds,
         Become(a, [act[a] EXCEPT !.pc = "execute", !.scan = s])
  PROVE  /\ act'[a].pc = "execute" /\ act'[a].scan = s /\ act'[a].trigger = act[a].trigger
         /\ \A b \in Actors \ {a} : act'[b] = act[b]
<1> DEFINE row == [act[a] EXCEPT !.pc = "execute", !.scan = s]
<1>1. act[a] \in ActRow
  BY DEF TypeOK
<1>2. row \in ActRow /\ row.pc = "execute" /\ row.scan = s /\ row.trigger = act[a].trigger
  <2>1. row.trigger = act[a].trigger
    BY <1>1 DEF ActRow
  <2> QED
    BY <1>1, <2>1, ExecuteRow
<1> HIDE DEF row
<1>3. act'[a] = row /\ \A b \in Actors \ {a} : act'[b] = act[b]
  BY <1>2, Becomes DEF row
<1> QED
  BY <1>2, <1>3

(* The worker's insert.                                                    *)
LEMMA WorkerInserts ==
  ASSUME TypeOK, WorkerInsert
  PROVE  act[Scheduler].pc = "insert" /\ \E s : Inserts(Scheduler, s)
<1>1. PICK s \in ScanIds :
        /\ NextId(s)
        /\ scan' = [scan EXCEPT ![s] = Inserted(act[Scheduler].trigger, "worker")]
        /\ Become(Scheduler, [act[Scheduler] EXCEPT !.pc = "execute", !.scan = s])
  BY DEF WorkerInsert
<1>2. Scheduler \in Actors /\ clock' = clock /\ act[Scheduler].pc = "insert"
  BY DEF WorkerInsert, Actors
<1>3. scan'[s] = Inserted(act[Scheduler].trigger, "worker")
      /\ \A i \in ScanIds \ {s} : scan'[i] = scan[i]
  BY <1>1 DEF TypeOK
<1>4. /\ scan'[s].started = clock /\ scan'[s].trigger = act[Scheduler].trigger
      /\ scan'[s].status = "running" /\ scan'[s].by = "worker" /\ Exists(s)'
  BY <1>3, SMTT(60) DEF Inserted, Exists
<1> QED
  BY <1>1, <1>2, <1>3, <1>4, TakesUp, RowLeft DEF Inserts

(* A request's insert, after a recovery of stale scans or without.         *)
LEMMA RequestInserts ==
  ASSUME TypeOK, NEW r \in Requests, RequestInsert(r)
  PROVE  \E s : Inserts(r, s)
<1>1. PICK s \in ScanIds, by \in {"web", "v2"}, rows \in {scan, Recovered} :
        /\ NextId(s)
        /\ scan' = [rows EXCEPT ![s] = Inserted(act[r].trigger, by)]
        /\ Become(r, [act[r] EXCEPT !.pc = "execute", !.scan = s])
  <2>1. CASE act[r].pc = "v2"
    BY <2>1 DEF RequestInsert
  <2>2. CASE act[r].pc # "v2"
    BY <2>2 DEF RequestInsert
  <2> QED
    BY <2>1, <2>2
<1>2. r \in Actors /\ clock' = clock /\ r # Scheduler
  BY ScanAssumption DEF RequestInsert, Actors
<1>3. rows \in [ScanIds -> ScanRow]
  BY RecoveredEffect DEF TypeOK
<1>4. scan'[s] = Inserted(act[r].trigger, by) /\ \A i \in ScanIds \ {s} : scan'[i] = rows[i]
  BY <1>1, <1>3
<1>5. /\ scan'[s].started = clock /\ scan'[s].trigger = act[r].trigger
      /\ scan'[s].status = "running" /\ scan'[s].by # "worker" /\ Exists(s)'
  BY <1>4 DEF Inserted, Exists
<1>6. \A i \in ScanIds \ {s} : Dim(i)
  BY <1>4, RowLeft, RecoveredRow
<1> QED
  BY <1>1, <1>2, <1>5, <1>6, TakesUp, ZenonT(60) DEF Inserts

-----------------------------------------------------------------------------
(* The night's rows, step by step.                                         *)
NightRows == OrderInv /\ HandInv /\ NightInv

(* The date of a row that is there, and the rows of a new table.           *)
LEMMA SameRows ==
  ASSUME \A i \in ScanIds : SameRow(i)
  PROVE  /\ Rows' = Rows
         /\ \A d : OnlyWorker(d)' <=> OnlyWorker(d)
         /\ OrderInv => OrderInv'
BY DEF SameRow, Rows, OnlyWorker, OnDate, OrderInv, Exists

(* A step that completes no row with evidence, and inserts none.           *)
LEMMA DimKeeps ==
  ASSUME NightRows, clock' = clock, \A i \in ScanIds : Dim(i), \A b \in Actors : Carries(b),
         act'[Scheduler].pc = "insert" => act[Scheduler].pc = "insert" \/ FoundNone,
         IInv
  PROVE  NightRows'
<1>1. /\ Rows' = Rows /\ Rows \subseteq ScanIds /\ \A d : OnlyWorker(d)' <=> OnlyWorker(d)
      /\ OrderInv'
  BY SameRows DEF Dim, NightRows, Rows
<1>2. \A i \in ScanIds : scan'[i].by = scan[i].by /\ scan'[i].started = scan[i].started
  BY DEF Dim, SameRow
<1>3. HandInv'
  <2>1. \A a \in Actors : act'[a].pc \in Owning => act[a].scan \in Rows
    BY DEF Carries, IInv, OwnInv
  <2> QED
    BY <1>1, <1>2, <2>1 DEF Carries, NightRows, HandInv, Actors
<1>4. FoundNone => FoundNone'
  BY <1>1, <1>2 DEF FoundNone, OnDate, Exists, Dim, Rows
<1>5. NightInv'
  BY <1>1, <1>2, <1>4 DEF NightRows, NightInv, Dim
<1> QED
  BY <1>1, <1>3, <1>5 DEF NightRows

(* The worker's stamp finds no row of its own behind; a request's row is   *)
(* none of the worker's.                                                   *)
LEMMA StampKeeps ==
  ASSUME TypeOK, IInv, NightRows, NEW a \in Actors, Stamp(a)
  PROVE  NightRows'
<1>1. PICK s : s = act[a].scan
  OBVIOUS
<1>2. /\ s \in Rows /\ \A i \in ScanIds : SameRow(i) /\ (i # s => Dim(i))
      /\ act[a].pc \in Owning /\ clock' = clock
  BY <1>1, OwnersWrite DEF Stamp, Owning
<1>3. /\ Rows' = Rows /\ Rows \subseteq ScanIds /\ \A d : OnlyWorker(d)' <=> OnlyWorker(d)
      /\ OrderInv'
  BY <1>2, SameRows DEF NightRows, Rows
<1>4. \A i \in ScanIds : scan'[i].by = scan[i].by /\ scan'[i].started = scan[i].started
  BY <1>2 DEF SameRow
<1>5. /\ \A b \in Actors : Carries(b)
      /\ act'[Scheduler].pc = "insert" => act[Scheduler].pc = "insert" /\ a # Scheduler
  <2>1. act[a] \in ActRow /\ {"done", "idle"} \subseteq ActPc
    BY DEF TypeOK, ActPc
  <2>2. Return(a) \in ActRow /\ Return(a).pc \in {"done", "idle"}
    BY <2>1, MovedRow, AtRow DEF Return
  <2>3. act'[a] = Return(a) /\ \A b \in Actors \ {a} : act'[b] = act[b]
    BY <2>2, Becomes DEF Stamp
  <2> QED
    BY <2>2, <2>3 DEF Carries, Owning, Actors
<1>6. HandInv'
  <2>1. \A b \in Actors : act'[b].pc \in Owning => act[b].scan \in Rows
    BY <1>5 DEF Carries, IInv, OwnInv
  <2> QED
    BY <1>3, <1>4, <1>5, <2>1 DEF Carries, NightRows, HandInv, Actors
<1>7. /\ a = Scheduler => \A j \in Rows : j > s => scan[j].by # "worker"
      /\ a # Scheduler => scan[s].by # "worker"
  BY <1>1, <1>2 DEF NightRows, HandInv, Actors
<1>8. ASSUME NEW i \in Rows, Nightly(i)', OnlyWorker(DateOf(scan[i].started))
      PROVE  \A j \in Rows : j > i => DateOf(scan[j].started) # DateOf(scan[i].started)
  <2>1. CASE i # s
    BY <1>2, <1>3, <1>8, <2>1 DEF Dim, NightRows, NightInv
  <2>2. CASE i = s
    <3>1. \A j \in Rows : DateOf(scan[j].started) = DateOf(scan[s].started)
                          => scan[j].by = "worker"
      BY <1>8, <2>2 DEF OnlyWorker, OnDate, Rows
    <3> QED
      BY <1>2, <1>7, <2>2, <3>1
  <2> QED
    BY <2>1, <2>2
<1>9. act'[Scheduler].pc = "insert" => FoundNone'
  <2> SUFFICES ASSUME act'[Scheduler].pc = "insert", OnlyWorker(DateOf(clock)),
                      NEW i \in Rows, OnDate(i, DateOf(clock))
               PROVE  ~Nightly(i)'
    BY <1>2, <1>3, <1>4 DEF FoundNone, OnDate, SameRow, Exists, Rows
  <2>1. FoundNone /\ a # Scheduler
    BY <1>5 DEF NightRows, NightInv
  <2>2. i # s
    BY <1>7, <2>1 DEF OnlyWorker
  <2> QED
    BY <1>2, <1>3, <2>1, <2>2 DEF FoundNone, Dim
<1> QED
  BY <1>3, <1>4, <1>6, <1>8, <1>9 DEF NightRows, NightInv

-----------------------------------------------------------------------------
(* Where each of its steps leaves the scheduler.                           *)
LEMMA SchedulerSteps ==
  ASSUME TypeOK
  PROVE  /\ WorkerStart => act'[Scheduler].pc = "boot"
         /\ Boot => \/ BootstrapRequired /\ act'[Scheduler].pc = "insert"
                    \/ EnterLoop /\ act'[Scheduler].pc = "sleep"
         /\ BootFails => act'[Scheduler].pc = "dead"
         /\ Poll => \/ /\ Due /\ ~ScanRunning /\ ~Scanned
                       /\ act'[Scheduler].pc = "insert" /\ act'[Scheduler].trigger = "scheduled"
                    \/ ~(Due /\ ~ScanRunning /\ ~Scanned) /\ act' = act
         /\ WorkerDone \/ WorkerError \/ ScanEscapes(Scheduler) => act'[Scheduler].pc = "sleep"
<1>1. Scheduler \in Actors
  BY DEF Actors
<1>2. \A pc \in ActPc : At(pc) \in ActRow /\ At(pc).pc = pc
  BY AtRow
<1>3. {"boot", "dead", "sleep", "insert"} \subseteq ActPc
  BY DEF ActPc
<1>4. \A row \in ActRow : Become(Scheduler, row) => act'[Scheduler] = row
  BY <1>1, Becomes
<1>5. \A pc \in {"boot", "dead", "sleep"} : Become(Scheduler, At(pc)) => act'[Scheduler].pc = pc
  <2> TAKE pc \in {"boot", "dead", "sleep"}
  <2>1. At(pc) \in ActRow /\ At(pc).pc = pc
    BY <1>2, <1>3
  <2> QED
    BY <1>4, <2>1
<1>6. \A t \in {"scheduled", "manual"} :
        Become(Scheduler, [At("insert") EXCEPT !.trigger = t]) =>
          act'[Scheduler].pc = "insert" /\ act'[Scheduler].trigger = t
  <2> TAKE t \in {"scheduled", "manual"}
  <2> DEFINE q == [At("insert") EXCEPT !.trigger = t]
  <2>1. q \in ActRow /\ q.pc = "insert"
    BY <1>3, AtRow
  <2>2. q.trigger = t
    BY DEF At
  <2> HIDE DEF q
  <2>3. Become(Scheduler, q) => act'[Scheduler].pc = "insert" /\ act'[Scheduler].trigger = t
    BY <1>4, <2>1, <2>2
  <2> QED
    BY <2>3 DEF q
<1>7. WorkerStart => act'[Scheduler].pc = "boot"
  BY <1>5 DEF WorkerStart
<1>8. Boot => \/ BootstrapRequired /\ act'[Scheduler].pc = "insert"
              \/ EnterLoop /\ act'[Scheduler].pc = "sleep"
  BY <1>5, <1>6 DEF Boot, EnterLoop
<1>9. BootFails => act'[Scheduler].pc = "dead"
  BY <1>5 DEF BootFails
<1>10. Poll => \/ /\ Due /\ ~ScanRunning /\ ~Scanned
                  /\ act'[Scheduler].pc = "insert" /\ act'[Scheduler].trigger = "scheduled"
               \/ ~(Due /\ ~ScanRunning /\ ~Scanned) /\ act' = act
  BY <1>6 DEF Poll
<1>11. WorkerDone \/ WorkerError \/ ScanEscapes(Scheduler) => Become(Scheduler, At("sleep"))
  BY DEF WorkerDone, WorkerError, ScanEscapes, EndRound, EnterLoop
<1> QED
  BY <1>5, <1>7, <1>8, <1>9, <1>10, <1>11

(* The scheduler settles and stamps the scan it executes.                  *)
LEMMA SchedulerSettles ==
  ASSUME TypeOK
  PROVE  /\ Complete(Scheduler) \/ ScanFails(Scheduler) => act'[Scheduler].pc = "stamp"
         /\ Stamp(Scheduler) \/ StampFails(Scheduler) => act'[Scheduler].pc = "done"
         /\ \/ Complete(Scheduler) \/ ScanFails(Scheduler)
            \/ Stamp(Scheduler) \/ StampFails(Scheduler)
            => /\ act[Scheduler].pc \in Owning
               /\ act'[Scheduler].scan = act[Scheduler].scan
               /\ act'[Scheduler].trigger = act[Scheduler].trigger
<1>1. Scheduler \in Actors /\ act[Scheduler] \in ActRow /\ {"stamp", "done"} \subseteq ActPc
  BY DEF Actors, TypeOK, ActPc
<1>2. \A pc \in {"stamp", "done"} :
        Become(Scheduler, [act[Scheduler] EXCEPT !.pc = pc]) =>
          /\ act'[Scheduler].pc = pc
          /\ act'[Scheduler].scan = act[Scheduler].scan
          /\ act'[Scheduler].trigger = act[Scheduler].trigger
  <2> TAKE pc \in {"stamp", "done"}
  <2> DEFINE q == [act[Scheduler] EXCEPT !.pc = pc]
  <2>1. q \in ActRow /\ q.pc = pc /\ q.scan = act[Scheduler].scan
    BY <1>1, MovedRow
  <2>2. q.trigger = act[Scheduler].trigger
    BY <1>1 DEF ActRow
  <2> HIDE DEF q
  <2>3. Become(Scheduler, q) => act'[Scheduler] = q
    BY <1>1, <2>1, Becomes
  <2> QED
    BY <2>1, <2>2, <2>3 DEF q
<1>3. Complete(Scheduler) \/ ScanFails(Scheduler) =>
        act[Scheduler].pc \in Owning /\ Become(Scheduler, [act[Scheduler] EXCEPT !.pc = "stamp"])
  BY DEF Complete, ScanFails, Owning
<1>4. Stamp(Scheduler) \/ StampFails(Scheduler) =>
        act[Scheduler].pc \in Owning /\ Become(Scheduler, [act[Scheduler] EXCEPT !.pc = "done"])
  BY DEF Stamp, StampFails, Return, Owning
<1> QED
  BY <1>2, <1>3, <1>4

(* The requests leave the scheduler alone.                                 *)
LEMMA RequestSteps ==
  ASSUME TypeOK,
         \/ \E r \in Requests : AskScan(r) \/ AskV2(r) \/ RequestInsert(r) \/ RequestError(r)
         \/ \E r \in Requests : \/ Complete(r) \/ Stamp(r)
                                \/ ScanFails(r) \/ StampFails(r) \/ ScanEscapes(r)
  PROVE  act'[Scheduler] = act[Scheduler] /\ UNCHANGED <<loop, clock>>
<1>1. PICK r \in Requests :
        \/ AskScan(r) \/ AskV2(r) \/ RequestInsert(r) \/ RequestError(r)
        \/ Complete(r) \/ Stamp(r) \/ ScanFails(r) \/ StampFails(r) \/ ScanEscapes(r)
  OBVIOUS
<1>2. r # Scheduler /\ r \in Actors /\ Scheduler \in Actors
  BY ScanAssumption DEF Actors
<1>3. \A row : Become(r, row) => act'[Scheduler] = act[Scheduler]
  BY <1>2, SMTT(60) DEF Become, TypeOK
<1>4. act' = act \/ \E row : Become(r, row)
  BY <1>1, <1>2
  DEF AskScan, AskV2, RequestInsert, RequestError, Complete, Stamp, ScanFails, StampFails, ScanEscapes
<1>5. UNCHANGED <<loop, clock>>
  BY <1>1, <1>2, ZenonT(30)
  DEF AskScan, AskV2, RequestInsert, RequestError, Complete, Stamp, ScanFails, StampFails, ScanEscapes
<1> QED
  BY <1>3, <1>4, <1>5

(* A process stops.                                                        *)
LEMMA CrashStep ==
  ASSUME TypeOK, NEW h, Crash(h)
  PROVE  /\ act'[Scheduler] = act[Scheduler] \/ act'[Scheduler].pc = "down"
         /\ \A a \in Actors : act'[a] = act[a] \/ act'[a].pc \notin Owning
         /\ UNCHANGED <<scan, loop, clock>>
<1>1. \A a \in Actors : act'[a] = act[a]
                         \/ act'[a] = At(IF a = Scheduler THEN "down" ELSE "idle")
  BY DEF Crash
<1>2. At("down").pc = "down" /\ At("idle").pc = "idle"
  BY DEF At
<1>3. Scheduler \in Actors
  BY DEF Actors
<1> QED
  BY <1>1, <1>2, <1>3 DEF Crash, Owning

-----------------------------------------------------------------------------
(* A new row is the last, and no later than now.                           *)
LEMMA InsertsKeep ==
  ASSUME TypeOK, IInv, NightRows, NEW a \in Actors, NEW s, Inserts(a, s),
         a = Scheduler => act[Scheduler].pc = "insert"
  PROVE  NightRows'
<1>1. /\ s \in ScanIds /\ s \notin Rows /\ Rows \subseteq ScanIds /\ ScanIds \subseteq Int
      /\ \A i \in ScanIds : i < s => i \in Rows
      /\ \A i \in ScanIds \ {s} : SameRow(i) /\ (Nightly(i)' => Nightly(i))
      /\ clock' = clock
  BY DEF Inserts, NextId, Rows, Dim, ScanIds
<1>2. Rows' = Rows \union {s}
  BY <1>1 DEF Inserts, Rows, SameRow
<1>3. \A i \in Rows : i < s
  BY <1>1 DEF NightRows, OrderInv, Rows
<1>4. /\ \A i \in Rows : /\ scan'[i].by = scan[i].by /\ scan'[i].started = scan[i].started
                         /\ scan[i].started \in Int /\ scan[i].started <= clock
      /\ scan'[s].started = clock /\ (scan'[s].by = "worker" <=> a = Scheduler)
      /\ scan'[s].status = "running" /\ clock \in Int
  BY <1>1, ScanAssumption DEF SameRow, IInv, TimeInv, TypeOK, ScanRow, Ticks, Inserts
<1>5. /\ act'[a].pc = "execute" /\ act'[a].scan = s
      /\ \A b \in Actors \ {a} : act'[b] = act[b]
  BY DEF Inserts
<1>6. OrderInv'
  <2> SUFFICES ASSUME NEW i \in ScanIds, NEW j \in ScanIds, i < j, j \in Rows'
               PROVE  i \in Rows' /\ scan'[i].started <= scan'[j].started
    BY DEF OrderInv, Rows
  <2>1. CASE j = s
    BY <1>1, <1>2, <1>4, <2>1
  <2>2. CASE j # s
    BY <1>1, <1>2, <1>3, <1>4, <2>2 DEF NightRows, OrderInv, Rows
  <2> QED
    BY <2>1, <2>2
<1>7. HandInv'
  <2>1. ASSUME NEW r \in Requests, act'[r].pc \in Owning
        PROVE  scan'[act'[r].scan].by # "worker"
    <3>1. CASE r = a
      BY <1>4, <1>5, <3>1, ScanAssumption
    <3>2. CASE r # a
      <4>1. act'[r] = act[r] /\ r \in Actors
        BY <1>5, <3>2 DEF Actors
      <4>2. act[r].scan \in Rows /\ scan[act[r].scan].by # "worker"
        BY <2>1, <4>1 DEF IInv, OwnInv, NightRows, HandInv
      <4> QED
        BY <1>4, <4>1, <4>2
    <3> QED
      BY <3>1, <3>2
  <2>2. ASSUME act'[Scheduler].pc \in Owning, NEW j \in Rows', j > act'[Scheduler].scan
        PROVE  scan'[j].by # "worker"
    <3>1. CASE a = Scheduler
      <4>1. j \in Int /\ s \in Int /\ j > s
        BY <1>1, <1>2, <1>5, <2>2, <3>1
      <4>2. j = s \/ j < s
        BY <1>2, <1>3
      <4> QED
        BY <4>1, <4>2
    <3>2. CASE a # Scheduler
      <4>1. act'[Scheduler] = act[Scheduler]
        BY <1>5, <3>2 DEF Actors
      <4>2. CASE j = s
        BY <1>4, <3>2, <4>2
      <4>3. CASE j # s
        <5>1. j \in Rows /\ j > act[Scheduler].scan /\ act[Scheduler].pc \in Owning
          BY <1>2, <2>2, <4>1, <4>3
        <5>2. scan[j].by # "worker"
          BY <5>1 DEF NightRows, HandInv
        <5> QED
          BY <1>4, <5>1, <5>2
      <4> QED
        BY <4>2, <4>3
    <3> QED
      BY <3>1, <3>2
  <2> QED
    BY <2>1, <2>2 DEF HandInv
<1>8. /\ \A d : OnlyWorker(d)' => OnlyWorker(d)
      /\ OnlyWorker(DateOf(clock))' => a = Scheduler
  BY <1>1, <1>2, <1>4 DEF OnlyWorker, OnDate, Rows
<1>9. ASSUME NEW i \in Rows', Nightly(i)', OnlyWorker(DateOf(scan[i].started))',
             NEW j \in Rows', j > i
      PROVE  DateOf(scan'[j].started) # DateOf(scan'[i].started)
  <2>1. i \in Rows /\ Nightly(i)
    BY <1>1, <1>2, <1>4, <1>9 DEF Nightly
  <2>2. OnlyWorker(DateOf(scan[i].started))
    <3>1. PICK d : d = DateOf(scan'[i].started)
      OBVIOUS
    <3>2. OnlyWorker(d)' /\ d = DateOf(scan[i].started)
      BY <1>4, <1>9, <2>1, <3>1 DEF OnlyWorker
    <3> QED
      BY <1>8, <3>2
  <2>3. CASE j # s
    BY <1>2, <1>4, <1>9, <2>1, <2>2, <2>3 DEF NightRows, NightInv
  <2>4. CASE j = s
    <3> SUFFICES ASSUME DateOf(clock) = DateOf(scan[i].started) PROVE FALSE
      BY <1>4, <2>1, <2>4
    <3>1. PICK d : d = DateOf(scan'[i].started)
      OBVIOUS
    <3>2. OnlyWorker(d)' /\ d = DateOf(clock)
      BY <1>4, <1>9, <2>1, <3>1 DEF OnlyWorker
    <3>3. a = Scheduler
      BY <1>1, <1>8, <3>2 DEF OnlyWorker
    <3>4. FoundNone
      BY <3>3 DEF NightRows, NightInv
    <3> QED
      BY <2>1, <2>2, <3>4 DEF FoundNone, OnDate, Rows
  <2> QED
    BY <2>3, <2>4
<1>10. act'[Scheduler].pc = "insert" => FoundNone'
  BY <1>1, <1>5, <1>8 DEF FoundNone, Actors
<1> QED
  BY <1>6, <1>7, <1>9, <1>10 DEF NightRows, NightInv

(* A look at the table finds the nightly scan of a date that is the        *)
(* worker's alone: it is the latest.                                       *)
LEMMA NightlyIsLatest ==
  ASSUME TypeOK, IInv, NightRows, ~FoundNone
  PROVE  Scanned /\ ~BootstrapRequired
<1>1. PICK s \in Rows : OnDate(s, DateOf(clock)) /\ Nightly(s) /\ OnlyWorker(DateOf(clock))
  BY DEF FoundNone
<1>2. /\ Rows \subseteq ScanIds /\ ScanIds \subseteq Int
      /\ \A j \in Rows : scan[j].started \in Nat /\ scan[j].started <= clock
      /\ clock \in Nat
  BY ScanAssumption DEF Rows, ScanIds, TypeOK, ScanRow, Ticks, IInv, TimeInv
<1>3. ASSUME NEW j \in Rows, j > s PROVE FALSE
  <2>1. scan[s].started <= scan[j].started
    BY <1>2, <1>3 DEF NightRows, OrderInv, Rows
  <2>2. /\ DateOf(scan[s].started) \in Nat /\ DateOf(scan[j].started) \in Nat
        /\ DateOf(scan[s].started) <= DateOf(scan[j].started)
        /\ DateOf(clock) \in Nat /\ DateOf(scan[j].started) <= DateOf(clock)
    BY <1>2, <2>1, DateMonotone
  <2>3. DateOf(scan[s].started) = DateOf(clock)
    BY <1>1 DEF OnDate
  <2>4. DateOf(scan[j].started) = DateOf(scan[s].started)
    BY <2>2, <2>3
  <2> QED
    BY <1>1, <1>3, <2>3, <2>4 DEF NightRows, NightInv
<1>4. s \in Latest
  <2>1. ASSUME NEW j \in Rows PROVE j <= s
    <3>1. j \in Int /\ s \in Int
      BY <1>2
    <3>2. ~(j > s)
      BY <1>3
    <3> QED
      BY <3>1, <3>2
  <2> QED
    BY <2>1 DEF Latest
<1> QED
  BY <1>1, <1>4 DEF Scanned, BootstrapRequired, Nightly

(* No step loses sight of the night's scan.                                *)
LEMMA NightKeeps == ASSUME TypeOK, IInv, NightRows, Next PROVE NightRows'
<1>1. ASSUME UNCHANGED <<scan, clock>>, \A b \in Actors : Carries(b),
             act'[Scheduler].pc = "insert" => act[Scheduler].pc = "insert" \/ FoundNone
      PROVE  NightRows'
  BY <1>1, RowLeft, DimKeeps
<1>2. CASE \/ WorkerStart \/ Boot \/ BootFails \/ Poll \/ WorkerDone \/ WorkerError
           \/ \E r \in Requests : AskScan(r) \/ (AskV2(r) /\ ~Recent) \/ RequestError(r)
           \/ \E a \in Actors : StampFails(a) \/ ScanEscapes(a)
  <2>1. UNCHANGED <<scan, clock>>
    BY <1>2
    DEF WorkerStart, Boot, BootFails, Poll, WorkerDone, WorkerError, AskScan, AskV2, RequestError,
        StampFails, ScanEscapes
  <2>2. \A b \in Actors : Carries(b)
    BY <1>2, QuietActs, Becomes DEF Carries
  <2>3. act'[Scheduler].pc = "insert" => act[Scheduler].pc = "insert" \/ FoundNone
    <3>1. CASE Boot \/ Poll
      BY <3>1, SchedulerSteps, NightlyIsLatest
    <3>2. CASE WorkerStart \/ BootFails \/ WorkerDone \/ WorkerError
      BY <3>2, SchedulerSteps
    <3>3. CASE \E r \in Requests : AskScan(r) \/ (AskV2(r) /\ ~Recent) \/ RequestError(r)
      BY <3>3, RequestSteps
    <3>4. CASE \E a \in Actors : StampFails(a) \/ ScanEscapes(a)
      BY <3>4, RequestSteps, SchedulerSteps, SchedulerSettles DEF Actors
    <3> QED
      BY <1>2, <3>1, <3>2, <3>3, <3>4
  <2> QED
    BY <1>1, <2>1, <2>2, <2>3
<1>3. CASE WorkerInsert
  BY <1>3, WorkerInserts, InsertsKeep DEF Actors
<1>4. CASE \E r \in Requests : RequestInsert(r)
  BY <1>4, RequestInserts, InsertsKeep, ScanAssumption DEF Actors
<1>5. ASSUME NEW a \in Actors, Complete(a) \/ ScanFails(a) PROVE NightRows'
  <2>1. \A i \in ScanIds : Dim(i)
    BY <1>5, OwnersWrite DEF Complete, ScanFails, Stamp
  <2>2. PICK row : Become(a, row) /\ row = [act[a] EXCEPT !.pc = "stamp"] /\ clock' = clock
                   /\ act[a].pc \in Owning
    BY <1>5 DEF Complete, ScanFails, Owning
  <2>3. act[a] \in ActRow /\ "stamp" \in ActPc
    BY DEF TypeOK, ActPc
  <2>4. row \in ActRow /\ row.pc = "stamp" /\ row.scan = act[a].scan
    BY <2>2, <2>3, MovedRow
  <2>5. act'[a] = row /\ \A b \in Actors \ {a} : act'[b] = act[b]
    BY <2>2, <2>4, Becomes
  <2>6. /\ \A b \in Actors : Carries(b)
        /\ act'[Scheduler].pc = "insert" => act[Scheduler].pc = "insert"
    BY <2>2, <2>4, <2>5 DEF Carries, Actors
  <2> QED
    BY <2>1, <2>2, <2>6, DimKeeps, SMTT(60)
<1>6. ASSUME NEW a \in Actors, Stamp(a) PROVE NightRows'
  BY <1>6, StampKeeps
<1>7. ASSUME NEW r \in Requests, AskV2(r), Recent PROVE NightRows'
  <2>1. scan' = Recovered /\ UNCHANGED <<act, clock>>
    BY <1>7 DEF AskV2
  <2>2. \A i \in ScanIds : Dim(i)
    BY <2>1, RecoveredRow
  <2> QED
    BY <2>1, <2>2, DimKeeps DEF Carries
<1>8. ASSUME NEW h, Crash(h) PROVE NightRows'
  <2>1. /\ act'[Scheduler] = act[Scheduler] \/ act'[Scheduler].pc = "down"
        /\ \A a \in Actors : act'[a] = act[a] \/ act'[a].pc \notin Owning
        /\ UNCHANGED <<scan, clock>>
    BY <1>8, CrashStep
  <2> QED
    BY <1>1, <2>1 DEF Carries
<1>9. CASE Tick
  <2>1. UNCHANGED <<scan, act>> /\ act[Scheduler].pc # "insert"
    BY <1>9 DEF Tick, Actors
  <2> QED
    BY <2>1 DEF NightRows, OrderInv, HandInv, NightInv, Rows, OnlyWorker, OnDate, Nightly, Exists
<1> QED
  BY <1>2, <1>3, <1>4, <1>5, <1>6, <1>7, <1>8, <1>9 DEF Next

(* The table starts empty.                                                 *)
LEMMA NightStarts == Init => NightRows
<1> SUFFICES ASSUME Init PROVE NightRows
  OBVIOUS
<1>1. \A s \in ScanIds : ~Exists(s)
  BY DEF Init, NoScan, Exists
<1>2. \A a \in Actors : act[a].pc \in {"down", "idle"}
  BY DEF Init, At
<1> QED
  BY <1>1, <1>2 DEF NightRows, OrderInv, HandInv, NightInv, Rows, Owning, Actors

(* The night's invariant holds throughout.                                 *)
LEMMA NightInvariant == Spec => []NightRows
<1>1. TypeOK /\ IInv /\ NightRows /\ [Next]_vars => NightRows'
  <2> SUFFICES ASSUME TypeOK, IInv, NightRows, [Next]_vars PROVE NightRows'
    OBVIOUS
  <2>1. CASE Next
    BY <2>1, NightKeeps
  <2>2. CASE UNCHANGED vars
    <3>1. UNCHANGED <<scan, act, clock>>
      BY <2>2 DEF vars
    <3>2. \A i \in ScanIds : Dim(i)
      BY <3>1, RowLeft
    <3> QED
      BY <3>1, <3>2, DimKeeps DEF Carries
  <2> QED
    BY <2>1, <2>2
<1> QED
  BY <1>1, NightStarts, Invariant, PTL DEF Spec

(* On a date that is the worker's alone no second nightly scan is          *)
(* completed with evidence, whatever is restarted, fails or is polled.     *)
THEOREM NightIsEvidencedOnce == Spec => []EvidencedOnce
<1>1. TypeOK /\ NightRows => EvidencedOnce
  <2> SUFFICES ASSUME TypeOK, NightRows, NEW s \in Rows, NEW i \in Rows,
                      DateOf(scan[s].started) = DateOf(scan[i].started),
                      Nightly(s), Nightly(i), OnlyWorker(DateOf(scan[s].started))
               PROVE  s = i
    BY DEF EvidencedOnce, Nightly, OnlyWorker
  <2>1. s \in Int /\ i \in Int
    BY DEF Rows, ScanIds
  <2>2. ~(i > s) /\ ~(s > i)
    BY DEF NightRows, NightInv
  <2> QED
    BY <2>1, <2>2
<1> QED
  BY <1>1, Invariant, NightInvariant, PTL

-----------------------------------------------------------------------------
(* The watch.  Date d has a scheduled scan; the night has what it is       *)
(* promised.                                                               *)
Tonight(d) == \E s \in Rows : OnDate(s, d) /\ scan[s].trigger = "scheduled"
Covered ==
  \E s \in Rows :
    /\ OnDate(s, DateOf(clock))
    /\ \/ scan[s].trigger = "scheduled"
       \/ Minute(scan[s].started) + Stale >= Last(WorkerWindow)

(* The window is over, or its last tick has been polled.                   *)
Closing ==
  \/ Minute(clock) > Last(WorkerWindow)
  \/ /\ Minute(clock) = Last(WorkerWindow)
     /\ act[Scheduler].pc # "insert"
     /\ act[Scheduler].pc = "sleep" => polled

(* The scheduler remembers no date without a scheduled scan, and has in    *)
(* hand, of its nightly round, one of this date.                           *)
MemoryInv ==
  /\ lastRun # None => Tonight(lastRun)
  /\ act[Scheduler].pc \in {"execute", "stamp", "done"} /\ act[Scheduler].trigger = "scheduled" =>
       /\ act[Scheduler].scan \in Rows
       /\ OnDate(act[Scheduler].scan, DateOf(clock))
       /\ scan[act[Scheduler].scan].trigger = "scheduled"

(* One that has watched since the window opened sleeps or is in its        *)
(* nightly round, and once it has polled the last tick the night is        *)
(* covered.                                                                *)
WatchInv ==
  watching /\ act[Scheduler].pc # "down" =>
    /\ \/ act[Scheduler].pc = "sleep"
       \/ /\ act[Scheduler].pc \in {"insert", "execute", "stamp", "done"}
          /\ act[Scheduler].trigger = "scheduled"
    /\ Closing => Covered

Watched == MemoryInv /\ WatchInv

-----------------------------------------------------------------------------
(* A tick is its date and its minute.                                      *)
LEMMA ClockParts ==
  ASSUME NEW n \in Nat
  PROVE  /\ DateOf(n) \in Nat /\ Minute(n) \in 0..(NightTicks - 1)
         /\ n = NightTicks * DateOf(n) + Minute(n)
<1>1. NightTicks \in Nat \ {0}
  BY ScanAssumption
<1>2. /\ n \div NightTicks \in Int /\ n % NightTicks \in 0..(NightTicks - 1)
      /\ n = NightTicks * (n \div NightTicks) + (n % NightTicks)
  BY <1>1
<1>3. DateOf(n) \in Nat
  BY DateMonotone
<1> QED
  BY <1>2, <1>3 DEF DateOf, Minute

(* Two ticks of a date are as far apart as their minutes.                  *)
LEMMA SameDate ==
  ASSUME NEW m \in Nat, NEW n \in Nat, DateOf(m) = DateOf(n)
  PROVE  m - n = Minute(m) - Minute(n)
<1>1. PICK d \in Int : d = NightTicks * DateOf(m) /\ d = NightTicks * DateOf(n)
  <2>1. NightTicks \in Int /\ DateOf(m) \in Int
    BY ScanAssumption, ClockParts
  <2>2. NightTicks * DateOf(m) \in Int
    BY <2>1
  <2> QED
    BY <2>2
<1>2. /\ m = d + Minute(m) /\ n = d + Minute(n)
      /\ Minute(m) \in Int /\ Minute(n) \in Int
  BY <1>1, ClockParts
<1> QED
  BY <1>2

(* The next tick is the next of the date, or the first of another.         *)
LEMMA NextTick ==
  ASSUME NEW n \in Nat
  PROVE  \/ Minute(n) = NightTicks - 1 /\ Minute(n + 1) = 0
         \/ Minute(n + 1) = Minute(n) + 1 /\ DateOf(n + 1) = DateOf(n)
<1> DEFINE d == NightTicks
           q == DateOf(n)
           p == DateOf(n + 1)
<1>1. /\ d \in Nat /\ d # 0 /\ q \in Nat /\ p \in Nat /\ q <= p
      /\ Minute(n) \in 0..(d - 1) /\ Minute(n + 1) \in 0..(d - 1)
      /\ n = d * q + Minute(n) /\ n + 1 = d * p + Minute(n + 1)
  <2>1. n + 1 \in Nat /\ n <= n + 1
    OBVIOUS
  <2>2. q \in Nat /\ Minute(n) \in 0..(d - 1) /\ n = d * q + Minute(n)
    BY ClockParts
  <2>3. p \in Nat /\ Minute(n + 1) \in 0..(d - 1) /\ n + 1 = d * p + Minute(n + 1)
    BY <2>1, ClockParts
  <2>4. q <= p
    BY <2>1, DateMonotone
  <2>5. d \in Nat /\ d # 0
    BY ScanAssumption
  <2> QED
    BY <2>2, <2>3, <2>4, <2>5
<1> HIDE DEF d, q, p
<1>2. CASE p = q
  <2>1. PICK x \in Int : x = d * q /\ x = d * p
    BY <1>1, <1>2
  <2> QED
    BY <1>1, <1>2, <2>1 DEF d, p, q
<1>3. CASE p = q + 1
  <2>1. d * p = d * q + d
    BY <1>1, <1>3
  <2>2. PICK x \in Int : x = d * q /\ x + d = d * p
    BY <1>1, <2>1
  <2> QED
    BY <1>1, <2>2 DEF d
<1>4. CASE p > q + 1
  <2>1. PICK k \in Nat : p = q + 2 + k
    BY <1>1, <1>4
  <2>2. d * p = d * q + d + d + d * k /\ d * k >= 0
    BY <1>1, <2>1
  <2>3. PICK x \in Int, y \in Int : x = d * q /\ y = d * k /\ x + d + d + y = d * p /\ y >= 0
    BY <1>1, <2>2
  <2> QED
    BY <1>1, <2>3
<1> QED
  BY <1>1, <1>2, <1>3, <1>4

(* The window's last tick.                                                 *)
LEMMA LastTick ==
  /\ Last(WorkerWindow) \in WorkerWindow /\ Last(WorkerWindow) \in Nat
  /\ \A m \in WorkerWindow : m <= Last(WorkerWindow)
<1> DEFINE W == WorkerWindow
           T == {NightTicks - m : m \in W}
           R == OpToRel(<, Nat)
<1>1. W # {} /\ \A m \in W : m \in Nat /\ NightTicks - m \in Nat
  BY ScanAssumption
<1>2. T \in SUBSET Nat /\ T # {}
  BY <1>1
<1>3. PICK x \in T : \A y \in T : ~(<<y, x>> \in R)
  <2>1. IsWellFoundedOn(R, Nat)
    BY NatLessThanWellFounded
  <2> HIDE DEF R, T
  <2> QED
    BY <1>2, <2>1, WFMin
<1>4. \A y \in T : ~(y < x)
  BY <1>2, <1>3 DEF OpToRel
<1>5. PICK m \in W : x = NightTicks - m
  BY <1>3
<1>6. ASSUME NEW k \in W PROVE k <= m
  <2>1. NightTicks - k \in T /\ NightTicks - k \in Nat /\ x \in Nat
    BY <1>1, <1>2
  <2>2. ~(NightTicks - k < NightTicks - m)
    BY <1>4, <1>5, <2>1
  <2> QED
    BY <1>1, <2>2, ScanAssumption
<1>7. Last(W) \in W /\ \A k \in W : Last(W) >= k
  BY <1>6 DEF Last
<1> QED
  BY <1>1, <1>7

-----------------------------------------------------------------------------
(* No step changes what a row was inserted with.                           *)
LEMMA RowsStay == ASSUME TypeOK, IInv, Next PROVE \A i \in Rows : SameRow(i)
<1> USE DEF Dim
<1>1. Rows \subseteq ScanIds
  BY DEF Rows
<1>2. ASSUME scan' = scan PROVE \A i \in ScanIds : SameRow(i)
  BY <1>2, RowLeft
<1>3. ASSUME NEW s, NEW a, Inserts(a, s) PROVE \A i \in Rows : SameRow(i)
  BY <1>1, <1>3 DEF Inserts, NextId, Rows
<1>4. CASE \/ WorkerStart \/ Boot \/ BootFails \/ Poll \/ WorkerDone \/ WorkerError
           \/ \E r \in Requests : AskScan(r) \/ (AskV2(r) /\ ~Recent) \/ RequestError(r)
           \/ \E a \in Actors : StampFails(a) \/ ScanEscapes(a)
           \/ \E h : Crash(h)
           \/ Tick
  <2>1. scan' = scan
    BY <1>4
    DEF WorkerStart, Boot, BootFails, Poll, WorkerDone, WorkerError, AskScan, AskV2, RequestError,
        StampFails, ScanEscapes, Crash, Tick
  <2> QED
    BY <1>1, <1>2, <2>1
<1>5. CASE WorkerInsert \/ \E r \in Requests : RequestInsert(r)
  BY <1>3, <1>5, WorkerInserts, RequestInserts
<1>6. CASE \E a \in Actors : Complete(a) \/ ScanFails(a) \/ Stamp(a)
  BY <1>1, <1>6, OwnersWrite
<1>7. ASSUME NEW r \in Requests, AskV2(r), Recent PROVE \A i \in Rows : SameRow(i)
  <2>1. scan' = Recovered
    BY <1>7 DEF AskV2
  <2> QED
    BY <1>1, <2>1, RecoveredRow
<1> QED
  BY <1>4, <1>5, <1>6, <1>7 DEF Next

(* What is covered stays so.                                               *)
LEMMA CoverStays ==
  ASSUME \A i \in Rows : SameRow(i)
  PROVE  /\ Rows \subseteq Rows'
         /\ \A d, i : i \in Rows /\ OnDate(i, d) => OnDate(i, d)'
         /\ \A d : Tonight(d) => Tonight(d)'
         /\ DateOf(clock') = DateOf(clock) /\ Covered => Covered'
<1>1. Rows \subseteq Rows'
  BY DEF Rows, SameRow
<1>2. \A i \in Rows : /\ scan'[i].started = scan[i].started /\ scan'[i].trigger = scan[i].trigger
                     /\ Exists(i)'
  BY DEF SameRow, Rows
<1>3. \A d, i : i \in Rows /\ OnDate(i, d) => OnDate(i, d)'
  BY <1>2 DEF OnDate
<1>4. \A d : Tonight(d) => Tonight(d)'
  BY <1>1, <1>2, <1>3 DEF Tonight
<1>5. ASSUME DateOf(clock') = DateOf(clock), Covered PROVE Covered'
  <2>1. PICK s \in Rows :
          /\ OnDate(s, DateOf(clock))
          /\ \/ scan[s].trigger = "scheduled"
             \/ Minute(scan[s].started) + Stale >= Last(WorkerWindow)
    BY <1>5 DEF Covered
  <2>2. PICK d : d = DateOf(clock)
    OBVIOUS
  <2>3. OnDate(s, d)' /\ d = DateOf(clock')
    BY <1>3, <1>5, <2>1, <2>2
  <2>4. OnDate(s, DateOf(clock))'
    BY <2>3 DEF OnDate
  <2> QED
    BY <1>1, <1>2, <2>1, <2>4 DEF Covered
<1> QED
  BY <1>1, <1>3, <1>4, <1>5

(* A step that leaves the scheduler and the clock alone.                   *)
LEMMA WatchRests ==
  ASSUME Watched, \A i \in Rows : SameRow(i),
         act'[Scheduler] = act[Scheduler] \/ act'[Scheduler].pc = "down",
         UNCHANGED <<loop, clock>>
  PROVE  Watched'
<1>1. UNCHANGED <<lastRun, polled, watching, clock>>
  BY DEF loop
<1>2. lastRun # None => Tonight(lastRun)'
  <2>1. PICK d : d = lastRun
    OBVIOUS
  <2>2. d # None => Tonight(d)'
    BY <2>1, CoverStays DEF Watched, MemoryInv
  <2> QED
    BY <1>1, <2>1, <2>2 DEF Tonight
<1>3. act'[Scheduler].pc \in {"execute", "stamp", "done"} /\ act'[Scheduler].trigger = "scheduled" =>
        /\ act'[Scheduler].scan \in Rows'
        /\ OnDate(act[Scheduler].scan, DateOf(clock))'
        /\ scan'[act'[Scheduler].scan].trigger = "scheduled"
  BY <1>1, CoverStays DEF Watched, MemoryInv, OnDate, SameRow
<1>4. WatchInv'
  BY <1>1, CoverStays DEF Watched, WatchInv, Closing
<1> QED
  BY <1>1, <1>2, <1>3, <1>4 DEF Watched, MemoryInv

(* The window's first tick.                                                *)
LEMMA FirstTick == First(WorkerWindow) \in WorkerWindow /\ First(WorkerWindow) \in Nat
<1> DEFINE W == WorkerWindow
           R == OpToRel(<, Nat)
<1>1. W \in SUBSET Nat /\ W # {}
  BY ScanAssumption
<1>2. PICK x \in W : \A y \in W : ~(<<y, x>> \in R)
  <2>1. IsWellFoundedOn(R, Nat)
    BY NatLessThanWellFounded
  <2> HIDE DEF R
  <2> QED
    BY <1>1, <2>1, WFMin
<1>3. \A y \in W : ~(y < x)
  BY <1>1, <1>2 DEF OpToRel
<1>4. \A y \in W : x <= y
  BY <1>1, <1>3
<1> QED
  BY <1>1, <1>4 DEF First

(* A round ends, or the first scan: from now on every poll is watched, and *)
(* the window counts as watched unless it has opened.                      *)
LEMMA Sleeps ==
  ASSUME TypeOK, Watched, \A i \in Rows : SameRow(i), clock' = clock,
         act'[Scheduler].pc = "sleep", lastRun' = lastRun,
         watching' => Minute(clock) <= First(WorkerWindow),
         First(WorkerWindow) < Last(WorkerWindow)
  PROVE  Watched'
<1>1. lastRun # None => Tonight(lastRun)'
  <2>1. PICK d : d = lastRun
    OBVIOUS
  <2>2. d # None => Tonight(d)'
    BY <2>1, CoverStays DEF Watched, MemoryInv
  <2> QED
    BY <2>1, <2>2 DEF Tonight
<1>2. ASSUME watching' PROVE ~Closing'
  <2>1. /\ Minute(clock) \in Int /\ First(WorkerWindow) \in Int /\ Last(WorkerWindow) \in Int
        /\ Minute(clock) <= First(WorkerWindow)
    BY <1>2, ClockParts, FirstTick, LastTick DEF TypeOK, Ticks
  <2>2. ~(Minute(clock) > Last(WorkerWindow)) /\ Minute(clock) # Last(WorkerWindow)
    BY <2>1
  <2> QED
    BY <2>2 DEF Closing
<1> QED
  BY <1>1, <1>2 DEF Watched, MemoryInv, WatchInv

(* A step of the nightly round: the scan in hand is tonight's.             *)
LEMMA RoundGoesOn ==
  ASSUME TypeOK, Watched, Next, IInv, UNCHANGED <<lastRun, polled, watching, clock>>,
         act'[Scheduler].pc \in {"execute", "stamp", "done"},
         act'[Scheduler].trigger = act[Scheduler].trigger,
         \/ /\ act[Scheduler].pc \in {"execute", "stamp", "done"}
            /\ act'[Scheduler].scan = act[Scheduler].scan
         \/ act[Scheduler].pc = "insert" /\ \E s : Inserts(Scheduler, s)
  PROVE  Watched'
<1>1. \A i \in Rows : SameRow(i)
  BY RowsStay
<1>2. lastRun # None => Tonight(lastRun)'
  <2>1. PICK d : d = lastRun
    OBVIOUS
  <2>2. d # None => Tonight(d)'
    BY <1>1, <2>1, CoverStays DEF Watched, MemoryInv
  <2> QED
    BY <2>1, <2>2 DEF Tonight
<1>3. PICK s : s = act'[Scheduler].scan
  OBVIOUS
<1>4. act[Scheduler].trigger = "scheduled" =>
        s \in Rows' /\ OnDate(s, DateOf(clock))' /\ scan'[s].trigger = "scheduled"
  <2>1. CASE act[Scheduler].pc \in {"execute", "stamp", "done"} /\ s = act[Scheduler].scan
    BY <1>1, <2>1, CoverStays DEF Watched, MemoryInv, OnDate, SameRow
  <2>2. CASE \E q : Inserts(Scheduler, q)
    BY <1>3, <2>2 DEF Inserts, Rows, OnDate
  <2> QED
    BY <1>3, <2>1, <2>2
<1>5. MemoryInv'
  BY <1>2, <1>3, <1>4 DEF MemoryInv, OnDate
<1>6. WatchInv'
  <2> SUFFICES ASSUME watching
               PROVE  act[Scheduler].trigger = "scheduled" /\ (Closing' => Covered')
    BY DEF WatchInv
  <2>1. act[Scheduler].trigger = "scheduled"
    BY DEF Watched, WatchInv
  <2> QED
    BY <1>4, <2>1 DEF Covered
<1> QED
  BY <1>5, <1>6 DEF Watched

(* A poll of the last tick inserts, or finds what covers the night.        *)
LEMMA PollFinds ==
  ASSUME TypeOK, IInv, Watched,
         Minute(clock) = Last(WorkerWindow), ~(Due /\ ~ScanRunning /\ ~Scanned)
  PROVE  Covered
<1>1. Rows \subseteq ScanIds /\ Stale \in Nat /\ clock \in Nat
      /\ \A s \in Rows : scan[s].started \in Nat
  BY ScanAssumption DEF Rows, TypeOK, ScanRow, Ticks
<1>2. \A d : d = DateOf(clock) /\ Tonight(d) => Covered
  BY DEF Tonight, Covered
<1>3. CASE ~Due
  <2>1. lastRun = DateOf(clock) /\ lastRun # None
    BY <1>1, <1>3, LastTick, ClockParts, ScanAssumption DEF Due
  <2> QED
    BY <1>2, <2>1 DEF Watched, MemoryInv
<1>4. CASE ScanRunning
  <2>1. PICK s \in Rows : OnDate(s, DateOf(clock)) /\ clock - scan[s].started <= Stale
    BY <1>4 DEF ScanRunning, Within
  <2>2. clock - scan[s].started = Minute(clock) - Minute(scan[s].started)
    BY <1>1, <2>1, SameDate DEF OnDate
  <2>3. Minute(clock) \in Int /\ Minute(scan[s].started) \in Int
    BY <1>1, ClockParts
  <2>4. Minute(scan[s].started) + Stale >= Last(WorkerWindow)
    BY <1>1, <2>1, <2>2, <2>3
  <2> QED
    BY <2>1, <2>4 DEF Covered
<1>5. CASE Scanned
  BY <1>2, <1>5 DEF Scanned, Tonight, Latest
<1> QED
  BY <1>3, <1>4, <1>5

(* A poll.                                                                 *)
LEMMA PollKeeps == ASSUME TypeOK, IInv, Watched, Next, Poll PROVE Watched'
<1>1. /\ \A i \in Rows : SameRow(i)
      /\ Rows' = Rows /\ UNCHANGED <<scan, watching, clock>>
      /\ act[Scheduler].pc = "sleep" /\ polled' = TRUE
  BY RowsStay DEF Poll, Rows, Exists
<1>2. lastRun' # None => Tonight(lastRun')
  <2>1. CASE lastRun' = lastRun
    BY <2>1 DEF Watched, MemoryInv
  <2>2. CASE Scanned /\ lastRun' = DateOf(clock)
    BY <2>2 DEF Scanned, Tonight, Latest
  <2> QED
    BY <2>1, <2>2 DEF Poll
<1>3. Tonight(lastRun') => Tonight(lastRun)'
  BY <1>1 DEF Tonight, OnDate, Exists
<1>4. Covered => Covered'
  BY <1>1, CoverStays
<1>5. CASE /\ Due /\ ~ScanRunning /\ ~Scanned
           /\ act'[Scheduler].pc = "insert" /\ act'[Scheduler].trigger = "scheduled"
  <2>1. watching => (Closing' => Covered')
    BY <1>1, <1>4, <1>5 DEF Watched, WatchInv, Closing
  <2> QED
    BY <1>1, <1>2, <1>3, <1>5, <2>1 DEF Watched, MemoryInv, WatchInv
<1>6. CASE ~(Due /\ ~ScanRunning /\ ~Scanned) /\ act' = act
  <2>1. watching => (Closing' => Covered')
    <3>1. CASE Minute(clock) = Last(WorkerWindow)
      BY <1>4, <1>6, <3>1, PollFinds
    <3>2. CASE Minute(clock) # Last(WorkerWindow)
      BY <1>1, <1>4, <1>6, <3>2 DEF Watched, WatchInv, Closing
    <3> QED
      BY <3>1, <3>2
  <2> QED
    BY <1>1, <1>2, <1>3, <1>6, <2>1 DEF Watched, MemoryInv, WatchInv
<1> QED
  BY <1>5, <1>6, SchedulerSteps

(* The worker's scan has returned.                                         *)
LEMMA DoneKeeps ==
  ASSUME TypeOK, IInv, Watched, Next, WorkerDone, First(WorkerWindow) < Last(WorkerWindow)
  PROVE  Watched'
<1>1. /\ \A i \in Rows : SameRow(i)
      /\ Rows' = Rows /\ UNCHANGED <<scan, clock>>
      /\ act[Scheduler].pc = "done" /\ act'[Scheduler].pc = "sleep"
  BY RowsStay, SchedulerSteps DEF WorkerDone, Rows, Exists
<1>2. CASE act[Scheduler].trigger # "scheduled"
  <2>1. lastRun' = lastRun /\ (watching' => Minute(clock) <= First(WorkerWindow))
    BY <1>2, Zenon DEF WorkerDone, EnterLoop
  <2> QED
    BY <1>1, <2>1, Sleeps
<1>3. CASE act[Scheduler].trigger = "scheduled"
  <2>1. lastRun' = DateOf(clock) /\ watching' = watching
    BY <1>3 DEF WorkerDone
  <2>2. Tonight(DateOf(clock))
    BY <1>1, <1>3 DEF Watched, MemoryInv, Tonight
  <2>3. Tonight(lastRun)'
    BY <1>1, <2>1, <2>2 DEF Tonight, OnDate, Exists
  <2>4. watching => Covered'
    BY <1>1, <2>2, CoverStays DEF Tonight, Covered
  <2> QED
    BY <1>1, <2>1, <2>3, <2>4 DEF MemoryInv, WatchInv, Watched
<1> QED
  BY <1>2, <1>3

(* The clock.                                                              *)
LEMMA TickWatch ==
  ASSUME TypeOK, IInv, Watched, Next, Tick, First(WorkerWindow) < Last(WorkerWindow)
  PROVE  Watched'
<1>1. /\ \A i \in Rows : SameRow(i)
      /\ Rows' = Rows /\ UNCHANGED <<scan, act, lastRun>>
      /\ clock \in Nat /\ clock' = clock + 1 /\ polled' = FALSE
      /\ act[Scheduler].pc = "sleep" => polled
      /\ watching' => watching \/ (act[Scheduler].pc = "sleep" /\ Minute(clock') = 0)
  <2>1. watching' => watching \/ (act[Scheduler].pc = "sleep" /\ Minute(clock') = 0)
    BY Zenon DEF Tick
  <2>2. clock \in Nat
    BY DEF TypeOK, Ticks
  <2>3. \A i \in Rows : SameRow(i)
    BY RowsStay
  <2> QED
    BY <2>1, <2>2, <2>3 DEF Tick, Rows, Exists
<1>2. /\ act[Scheduler].pc \notin {"insert", "done"}
      /\ Minute(clock) = NightTicks - 1 => act[Scheduler].pc \notin {"execute", "stamp"}
  BY DEF Tick, Actors
<1>3. lastRun' # None => Tonight(lastRun)'
  BY <1>1 DEF Watched, MemoryInv, Tonight, OnDate, Exists
<1>4. /\ Minute(clock) \in Int /\ First(WorkerWindow) \in Nat /\ Last(WorkerWindow) \in Nat
  BY <1>1, ClockParts, FirstTick, LastTick
<1>5. CASE Minute(clock) = NightTicks - 1 /\ Minute(clock + 1) = 0
  <2>1. ~Closing'
    BY <1>1, <1>4, <1>5 DEF Closing
  <2> QED
    BY <1>1, <1>2, <1>3, <1>5, <2>1 DEF Watched, MemoryInv, WatchInv
<1>6. CASE Minute(clock + 1) = Minute(clock) + 1 /\ DateOf(clock + 1) = DateOf(clock)
  <2>1. DateOf(clock') = DateOf(clock) /\ Minute(clock') = Minute(clock) + 1
    BY <1>1, <1>6
  <2>2. Covered => Covered'
    BY <1>1, <2>1, CoverStays
  <2>3. watching' => watching \/ act[Scheduler].pc = "sleep"
    BY <1>1
  <2>4. MemoryInv'
    BY <1>1, <1>3, <2>1 DEF Watched, MemoryInv, OnDate, Exists
  <2>5. ASSUME watching', act[Scheduler].pc # "down", Closing' PROVE Covered'
    <3>1. watching
      <4>1. Minute(clock) \in 0..(NightTicks - 1)
        BY <1>1, ClockParts
      <4>2. Minute(clock') # 0
        BY <2>1, <4>1
      <4> QED
        BY <1>1, <2>5, <4>2
    <3>2. CASE Minute(clock) >= Last(WorkerWindow)
      <4>1. Closing
        BY <1>1, <1>2, <1>4, <3>2 DEF Closing
      <4> QED
        BY <2>2, <2>5, <3>1, <4>1 DEF Watched, WatchInv
    <3>3. CASE Minute(clock) < Last(WorkerWindow)
      <4>1. Minute(clock') <= Last(WorkerWindow)
        BY <1>4, <2>1, <3>3
      <4>2. act[Scheduler].pc # "sleep"
        BY <1>1, <1>4, <2>1, <2>5, <3>3 DEF Closing
      <4>3. act[Scheduler].pc \in {"execute", "stamp", "done"} /\ act[Scheduler].trigger = "scheduled"
        BY <1>2, <2>5, <3>1, <4>2 DEF Watched, WatchInv
      <4>4. Covered
        BY <4>3 DEF Watched, MemoryInv, Covered
      <4> QED
        BY <2>2, <4>4
    <3> QED
      BY <1>4, <3>2, <3>3
  <2> QED
    BY <1>1, <2>3, <2>4, <2>5 DEF Watched, WatchInv
<1> QED
  BY <1>1, <1>5, <1>6, NextTick

(* No step lets the watch slip.                                            *)
LEMMA WatchKeeps ==
  ASSUME TypeOK, IInv, Watched, Next, First(WorkerWindow) < Last(WorkerWindow)
  PROVE  Watched'
<1>1. /\ \A i \in Rows : SameRow(i)
      /\ act[Scheduler].pc \in {"boot", "dead"} => ~watching
  BY RowsStay DEF Watched, WatchInv
<1>2. ASSUME UNCHANGED <<lastRun, clock>>, ~watching',
             act'[Scheduler].pc \in {"boot", "dead", "insert"}
      PROVE  Watched'
  <2>1. PICK d : d = lastRun
    OBVIOUS
  <2>2. d # None => Tonight(d)'
    BY <1>1, <2>1, CoverStays DEF Watched, MemoryInv
  <2> QED
    BY <1>2, <2>1, <2>2 DEF Watched, MemoryInv, WatchInv, Tonight
<1>3. CASE WorkerStart
  <2>1. act'[Scheduler].pc = "boot" /\ lastRun' = None /\ watching' = FALSE
    BY <1>3, SchedulerSteps DEF WorkerStart
  <2> QED
    BY <2>1 DEF Watched, MemoryInv, WatchInv
<1>4. CASE Boot
  <2>1. CASE BootstrapRequired /\ act'[Scheduler].pc = "insert"
    BY <1>1, <1>2, <1>4, <2>1 DEF Boot
  <2>2. CASE EnterLoop /\ act'[Scheduler].pc = "sleep"
    <3>1. watching' => Minute(clock) <= First(WorkerWindow)
      BY <2>2, Zenon DEF EnterLoop
    <3> QED
      BY <1>1, <1>4, <2>2, <3>1, Sleeps DEF Boot
  <2> QED
    BY <1>4, <2>1, <2>2, SchedulerSteps
<1>5. CASE BootFails
  BY <1>1, <1>2, <1>5, SchedulerSteps DEF BootFails, loop
<1>6. CASE WorkerError \/ ScanEscapes(Scheduler)
  <2>1. act'[Scheduler].pc = "sleep" /\ EndRound /\ clock' = clock
    BY <1>6, SchedulerSteps DEF WorkerError, ScanEscapes
  <2>2. lastRun' = lastRun /\ (watching' => Minute(clock) <= First(WorkerWindow))
    BY <2>1, Zenon DEF EndRound, EnterLoop
  <2> QED
    BY <1>1, <2>1, <2>2, Sleeps
<1>7. CASE WorkerInsert
  <2>1. PICK s : Inserts(Scheduler, s)
    BY <1>7, WorkerInserts
  <2>2. /\ act'[Scheduler].pc = "execute" /\ act'[Scheduler].scan = s
        /\ act'[Scheduler].trigger = act[Scheduler].trigger
        /\ UNCHANGED <<lastRun, polled, watching, clock>>
        /\ act[Scheduler].pc = "insert"
    BY <1>7, <2>1 DEF Inserts, WorkerInsert, loop
  <2> QED
    BY <2>1, <2>2, RoundGoesOn
<1>8. CASE Complete(Scheduler) \/ ScanFails(Scheduler) \/ Stamp(Scheduler) \/ StampFails(Scheduler)
  <2>1. UNCHANGED <<lastRun, polled, watching, clock>>
    BY <1>8 DEF Complete, ScanFails, Stamp, StampFails, loop
  <2>2. /\ act[Scheduler].pc \in {"execute", "stamp", "done"}
        /\ act'[Scheduler].pc \in {"execute", "stamp", "done"}
        /\ act'[Scheduler].scan = act[Scheduler].scan
        /\ act'[Scheduler].trigger = act[Scheduler].trigger
    BY <1>8, SchedulerSettles DEF Owning
  <2> QED
    BY <2>1, <2>2, RoundGoesOn
<1>9. CASE \/ \E r \in Requests : AskScan(r) \/ AskV2(r) \/ RequestInsert(r) \/ RequestError(r)
           \/ \E r \in Requests : \/ Complete(r) \/ Stamp(r)
                                  \/ ScanFails(r) \/ StampFails(r) \/ ScanEscapes(r)
  BY <1>1, <1>9, RequestSteps, WatchRests
<1>10. CASE \E h : Crash(h)
  BY <1>1, <1>10, CrashStep, WatchRests
<1> QED
  BY <1>3, <1>4, <1>5, <1>6, <1>7, <1>8, <1>9, <1>10, PollKeeps, DoneKeeps, TickWatch DEF Next, Actors

(* A night the scheduler has watched is covered, if its window is longer   *)
(* than one poll: what it takes for a failing poll to be made good, or for *)
(* the watch to count as broken.                                           *)
THEOREM WatchedNightIsCovered ==
  ASSUME First(WorkerWindow) < Last(WorkerWindow)
  PROVE  Spec => []NightlyUnlessBlocked
<1>1. Init => Watched
  <2> SUFFICES ASSUME Init PROVE Watched
    OBVIOUS
  <2>1. act[Scheduler].pc = "down"
    BY DEF Init, At, Actors
  <2> QED
    BY <2>1 DEF Init, Watched, MemoryInv, WatchInv
<1>2. TypeOK /\ IInv /\ Watched /\ [Next]_vars => Watched'
  <2> SUFFICES ASSUME TypeOK, IInv, Watched, [Next]_vars PROVE Watched'
    OBVIOUS
  <2>1. CASE Next
    BY <2>1, WatchKeeps
  <2>2. CASE UNCHANGED vars
    <3>1. UNCHANGED <<scan, act, loop, clock>>
      BY <2>2 DEF vars
    <3>2. \A i \in Rows : SameRow(i)
      BY <3>1, RowLeft DEF Dim
    <3> QED
      BY <3>1, <3>2, WatchRests
  <2> QED
    BY <2>1, <2>2
<1>3. Watched => NightlyUnlessBlocked
  BY DEF Watched, WatchInv, Closing, NightlyUnlessBlocked, WindowWatched, Covered
<1> QED
  BY <1>1, <1>2, <1>3, Invariant, PTL DEF Spec
=============================================================================
