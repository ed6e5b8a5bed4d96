---------------------------- MODULE OutcomeProofs ----------------------------
(***************************************************************************)
(* Proofs about OutcomeCycle, for any signals, histories, corporate        *)
(* actions, lags and faults, and however the two processes interleave.     *)
(***************************************************************************)
EXTENDS OutcomeCycle, FiniteSetTheorems, TLAPS

(* A path of three sessions is the whole window, so its touch is the truth,*)
(* and so is every label, even one whose path a slower process shortened.  *)
(* A row that is clear was reviewed after the lag.                         *)
RowRight(s) ==
  /\ row[s].seen = 3 => (row[s].touch <=> Truth(s) = "hit")
  /\ row[s].label # "none" => row[s].label = Truth(s)
  /\ row[s].action = "clear" => WindowEnd(s) + Lag <= day

RowInv == \A s \in Scored : RowRight(s)

(* What the samples of a fit have to be on the day of the fit.             *)
Sound(samples, on) ==
  \A x \in samples : /\ x[1] \notin Old /\ x[2] = Truth(x[1])
                     /\ WindowEnd(x[1]) + Lag <= on

(* What a process holds across a request is still so when it writes.       *)
Held(c) ==
  /\ proc[c].rows \subseteq Scored
  /\ proc[c].pc = "reviewWrite" =>
       /\ proc[c].today <= day
       /\ \A s \in proc[c].rows : WindowEnd(s) + Lag <= proc[c].today
  /\ proc[c].pc = "fit" => Sound(proc[c].samples, proc[c].today)

HeldInv == \A c \in Actors : Held(c)

IInv == TypeOK /\ RowInv /\ HeldInv /\ SamplesAreSound

-----------------------------------------------------------------------------
(* The days of a signal are numbers.                                       *)
LEMMA SignalDays ==
  ASSUME NEW s \in Signals
  PROVE  SignalDay[s] \in Nat /\ WindowEnd(s) \in Nat /\ WindowEnd(s) = SignalDay[s] + 3
BY OutcomeAssumption DEF WindowEnd

(* A path lies in the window, and fills it once it has three sessions.     *)
LEMMA PathInWindow ==
  ASSUME TypeOK, NEW c \in Actors, NEW s \in Signals
  PROVE  /\ Cardinality(Path(c, s)) \in 0..3
         /\ Cardinality(Path(c, s)) = 3 => Path(c, s) = SignalDay[s] + 1 .. WindowEnd(s)
<1> DEFINE W == SignalDay[s] + 1 .. SignalDay[s] + 3
<1>1. SignalDay[s] \in Nat /\ WindowEnd(s) = SignalDay[s] + 3
  BY SignalDays
<1>2. proc[c].bars \subseteq Signals \X Days /\ Days \subseteq Nat
  BY OutcomeAssumption DEF TypeOK, Proc, Days
<1>3. Path(c, s) \subseteq W
  <2>1. \A x \in proc[c].bars : x[2] \in Nat
    BY <1>2
  <2>2. \A x \in proc[c].bars : SignalDay[s] < x[2] /\ x[2] <= WindowEnd(s) => x[2] \in W
    BY <1>1, <2>1
  <2> HIDE DEF W
  <2> QED
    BY <2>2 DEF Path
<1>4. IsFiniteSet(W) /\ Cardinality(W) = 3
  <2>1. SignalDay[s] + 1 \in Int /\ SignalDay[s] + 3 \in Int
    BY <1>1
  <2>2. /\ IsFiniteSet(SignalDay[s] + 1 .. SignalDay[s] + 3)
        /\ Cardinality(SignalDay[s] + 1 .. SignalDay[s] + 3) =
             IF SignalDay[s] + 1 > SignalDay[s] + 3 THEN 0
             ELSE (SignalDay[s] + 3) - (SignalDay[s] + 1) + 1
    BY <2>1, FS_Interval
  <2> QED
    BY <1>1, <2>2
<1> HIDE DEF W
<1>5. /\ IsFiniteSet(Path(c, s)) /\ Cardinality(Path(c, s)) <= 3
      /\ Cardinality(Path(c, s)) = 3 => Path(c, s) = W
  BY <1>3, <1>4, FS_Subset
<1>6. Cardinality(Path(c, s)) \in Nat
  BY <1>5, FS_CardinalityType
<1> QED
  BY <1>1, <1>5, <1>6 DEF W

(* A touch on the whole window is the truth.                               *)
LEMMA TouchIsTruth ==
  ASSUME TypeOK, NEW c \in Actors, NEW s \in Signals, Cardinality(Path(c, s)) = 3
  PROVE  Path(c, s) \cap Touched[s] # {} <=> Truth(s) = "hit"
BY PathInWindow DEF Truth

-----------------------------------------------------------------------------
(* The rows after marking: as they were, but for their labels.             *)
LEMMA MarkedRow ==
  ASSUME TypeOK, NEW s \in Signals
  PROVE  /\ row[s] = None => Marked[s] = None
         /\ row[s] # None =>
              /\ Marked[s] \in Row
              /\ Marked[s].seen = row[s].seen /\ Marked[s].touch = row[s].touch
              /\ Marked[s].action = row[s].action
              /\ \/ Marked[s].label \in {"none", row[s].label}
                 \/ row[s].seen = 3 /\ Marked[s].label = IF row[s].touch THEN "hit" ELSE "miss"
<1>1. row[s] \in Row \union {None}
  BY DEF TypeOK
<1> QED
  BY <1>1 DEF Marked, PathMatured, Row

(* Marking keeps the rows in their domain.                                 *)
LEMMA MarkedType == ASSUME TypeOK PROVE Marked \in [Signals -> Row \union {None}]
BY MarkedRow DEF Marked

(* The last closed session and today are days.                             *)
LEMMA ClosedType ==
  ASSUME TypeOK PROVE Closed \in Days /\ day \in Days /\ Days \subseteq Nat
BY OutcomeAssumption DEF TypeOK, Closed, Days

(* What a process becomes.                                                 *)
LEMMA IdleRow == Idle \in Proc /\ Idle.rows = {} /\ Idle.pc = "idle"
BY OutcomeAssumption DEF Idle, Proc, Days, Steps

(* A process that goes to a step holds no rows.                            *)
LEMMA GotoType ==
  ASSUME TypeOK, NEW c \in Actors, NEW pc \in Steps, Goto(c, pc)
  PROVE  /\ proc' \in [Actors -> Proc]
         /\ proc'[c].rows = {} /\ proc'[c].pc = pc
         /\ \A d \in Actors \ {c} : proc'[d] = proc[d]
<1> DEFINE p == [Idle EXCEPT !.pc = pc, !.boot = proc[c].boot]
<1>1. p \in Proc /\ p.rows = {} /\ p.pc = pc
  <2>1. proc[c].boot \in BOOLEAN
    BY DEF TypeOK, Proc
  <2> QED
    BY <2>1, IdleRow DEF Proc
<1>2. proc' = [proc EXCEPT ![c] = p]
  BY DEF Goto
<1> HIDE DEF p
<1> QED
  BY <1>1, <1>2 DEF TypeOK

(* A process that ends holds nothing.                                      *)
LEMMA IdleType ==
  ASSUME TypeOK, NEW c \in Actors, proc' = [proc EXCEPT ![c] = Idle]
  PROVE  /\ proc' \in [Actors -> Proc]
         /\ proc'[c].rows = {} /\ proc'[c].pc = "idle"
         /\ \A d \in Actors \ {c} : proc'[d] = proc[d]
BY IdleRow DEF TypeOK

(* A process that loads holds the rows it loaded, and today.               *)
LEMMA FetchType ==
  ASSUME TypeOK, NEW c \in Actors, NEW pc \in Steps, NEW S \in SUBSET Signals, Fetch(c, pc, S)
  PROVE  /\ proc' \in [Actors -> Proc]
         /\ proc'[c].rows = S /\ proc'[c].pc = pc /\ proc'[c].today = day
         /\ \A d \in Actors \ {c} : proc'[d] = proc[d]
<1> DEFINE B == {x \in S \X Days : x[2] \in bars[x[1]]}
<1>1. B \in SUBSET (Signals \X Days)
  OBVIOUS
<1>2. proc' = [proc EXCEPT ![c].pc = pc, ![c].closed = Closed, ![c].today = day,
                ![c].rows = S, ![c].bars = B]
  BY DEF Fetch
<1> HIDE DEF B
<1>3. [proc[c] EXCEPT !.pc = pc, !.closed = Closed, !.today = day, !.rows = S, !.bars = B] \in Proc
  BY <1>1, ClosedType, ZenonT(60) DEF TypeOK, Proc
<1>4. proc[c] \in Proc
  BY DEF TypeOK
<1>5. /\ proc' = [proc EXCEPT ![c] = [proc[c] EXCEPT !.pc = pc, !.closed = Closed,
                                     !.today = day, !.rows = S, !.bars = B]]
      /\ proc \in [Actors -> Proc]
  BY <1>2 DEF TypeOK
<1>6. proc' \in [Actors -> Proc] /\ \A d \in Actors \ {c} : proc'[d] = proc[d]
  BY <1>3, <1>5
<1> QED
  BY <1>4, <1>5, <1>6 DEF Proc

(* A process that does none of the two writes has nothing to keep but its  *)
(* rows, which stay scored.                                                *)
LEMMA HeldKept ==
  ASSUME TypeOK, HeldInv, Scored \subseteq Scored', day' \in Nat, day <= day', NEW c \in Actors,
         \A d \in Actors \ {c} : proc'[d] = proc[d],
         \/ proc'[c] = proc[c]
         \/ proc'[c].rows \subseteq Scored /\ proc'[c].pc \notin {"reviewWrite", "fit"}
  PROVE  HeldInv'
<1>1. ASSUME NEW d \in Actors, proc'[d] = proc[d] PROVE Held(d)'
  <2>1. Held(d)
    BY DEF HeldInv
  <2>2. proc[d].today \in Nat /\ day \in Nat
    BY OutcomeAssumption DEF TypeOK, Proc, Days
  <2>3. \A S, on : Sound(S, on)' <=> Sound(S, on)
    BY DEF Sound, Truth, WindowEnd
  <2>4. proc'[d].rows \subseteq Scored'
    BY <1>1, <2>1 DEF Held
  <2>5. proc'[d].pc = "reviewWrite" =>
          /\ proc'[d].today <= day'
          /\ \A s \in proc'[d].rows : (WindowEnd(s) + Lag)' <= proc'[d].today
    BY <1>1, <2>1, <2>2 DEF Held, WindowEnd
  <2> QED
    BY <1>1, <2>1, <2>3, <2>4, <2>5 DEF Held
<1>2. proc'[c].rows \subseteq Scored /\ proc'[c].pc \notin {"reviewWrite", "fit"} => Held(c)'
  BY DEF Held
<1> QED
  BY <1>1, <1>2 DEF HeldInv

(* Rows that are not there yet are written by nobody but Score.            *)
LEMMA ScoredRow == ASSUME TypeOK, NEW s \in Scored PROVE s \in Signals /\ row[s] \in Row
BY DEF TypeOK, Scored

(* A row is never None.                                                    *)
LEMMA WrittenRow == ASSUME NEW x \in Row PROVE x # None
BY OutcomeAssumption

(* The invariant after a step that writes rows it may write, and leaves    *)
(* the calibration runs alone.                                             *)
LEMMA Kept ==
  ASSUME IInv, TypeOK', UNCHANGED runs, day <= day', NEW c \in Actors,
         \A s \in Signals : \/ row'[s] = row[s]
                            \/ row'[s] \in Row /\ RowRight(s)',
         \A d \in Actors \ {c} : proc'[d] = proc[d],
         \/ proc'[c] = proc[c]
         \/ proc'[c].rows \subseteq Scored /\ proc'[c].pc \notin {"reviewWrite", "fit"}
  PROVE  IInv'
<1>1. day \in Nat /\ day' \in Nat
  BY OutcomeAssumption DEF IInv, TypeOK
<1>2. Scored \subseteq Scored'
  <2> SUFFICES ASSUME NEW s \in Scored PROVE row'[s] # None
    BY DEF Scored
  <2>1. s \in Signals /\ row[s] \in Row
    BY ScoredRow DEF IInv
  <2> QED
    BY <2>1, WrittenRow
<1>3. RowInv'
  <2> SUFFICES ASSUME NEW s \in Scored' PROVE RowRight(s)'
    BY DEF RowInv
  <2>1. s \in Signals /\ row'[s] # None
    BY DEF Scored
  <2>2. CASE row'[s] = row[s]
    <3>1. s \in Scored
      BY <2>1, <2>2 DEF Scored
    <3>2. RowRight(s) /\ WindowEnd(s) + Lag \in Nat
      BY <3>1, <2>1, SignalDays, OutcomeAssumption DEF IInv, RowInv
    <3> QED
      BY <1>1, <2>2, <3>2 DEF RowRight, Truth, WindowEnd
  <2> QED
    BY <2>1, <2>2
<1>4. HeldInv'
  BY <1>1, <1>2, HeldKept DEF IInv
<1>5. SamplesAreSound'
  BY DEF IInv, SamplesAreSound, Truth, WindowEnd
<1> QED
  BY <1>3, <1>4, <1>5 DEF IInv

-----------------------------------------------------------------------------
(* The outside.                                                            *)
LEMMA OutsideStep ==
  ASSUME IInv, Tick \/ \E s \in Signals : Score(s) \/ Announce(s) \/ \E d \in Days : Publish(s, d)
  PROVE  IInv'
<1> USE OutcomeAssumption
<1>1. Worker \in Actors
  BY DEF Actors
<1>2. ASSUME Tick PROVE IInv'
  <2>1. day' \in 1..LastDay /\ day <= day' /\ evening' \in BOOLEAN /\ ran' \in BOOLEAN
    <3>1. day \in 1..LastDay /\ evening \in BOOLEAN /\ ran \in BOOLEAN
      BY DEF IInv, TypeOK
    <3>2. CASE evening
      <4>1. /\ day' = IF day < LastDay THEN day + 1 ELSE day
            /\ evening' = FALSE /\ ran' = FALSE
        BY <1>2, <3>2 DEF Tick
      <4>2. day' \in 1..LastDay /\ day <= day'
        BY <3>1, <4>1
      <4> QED
        BY <4>1, <4>2
    <3>3. CASE ~evening
      <4>1. evening' = TRUE /\ day' = day /\ ran' = ran
        BY <1>2, <3>3 DEF Tick
      <4>2. day' \in 1..LastDay /\ day <= day'
        BY <3>1, <4>1
      <4> QED
        BY <3>1, <4>1, <4>2
    <3> QED
      BY <3>2, <3>3
  <2>2. bars' \in [Signals -> SUBSET (1..LastDay)]
    <3>1. bars' = bars \/ \E late \in SUBSET Signals :
            bars' = [s \in Signals |-> IF s \in late THEN bars[s] ELSE bars[s] \union {day}]
      BY <1>2 DEF Tick
    <3>2. day \in 1..LastDay /\ bars \in [Signals -> SUBSET (1..LastDay)]
      BY DEF IInv, TypeOK
    <3> QED
      BY <3>1, <3>2
  <2>3. UNCHANGED <<acted, row, rescored, runs, proc, budget>>
    BY <1>2 DEF Tick
  <2>4. TypeOK'
    BY <2>1, <2>2, <2>3 DEF IInv, TypeOK, budget
  <2> QED
    BY <1>1, <2>1, <2>3, <2>4, Kept
<1>3. ASSUME NEW s \in Signals, NEW d \in Days, Publish(s, d) PROVE IInv'
  <2>1. d \in 1..LastDay
    BY <1>3, ClosedType DEF Publish, IInv, Days
  <2>2. TypeOK'
    BY <1>3, <2>1 DEF Publish, IInv, TypeOK, budget
  <2>3. day' = day /\ day \in Nat /\ UNCHANGED <<row, runs, proc>>
    BY <1>3 DEF Publish, IInv, TypeOK
  <2> QED
    BY <1>1, <2>2, <2>3, Kept
<1>4. ASSUME NEW s \in Signals, Announce(s) PROVE IInv'
  <2>1. TypeOK'
    BY <1>4, ClosedType DEF Announce, IInv, TypeOK, budget
  <2>2. day' = day /\ day \in Nat /\ UNCHANGED <<row, runs, proc>>
    BY <1>4 DEF Announce, IInv, TypeOK
  <2> QED
    BY <1>1, <2>1, <2>2, Kept
<1>5. ASSUME NEW s \in Signals, Score(s) PROVE IInv'
  <2> DEFINE new == [status |-> "pending", seen |-> 0, touch |-> FALSE, label |-> "none",
                     action |-> "unchecked", eligible |-> FALSE, checked |-> None]
  <2>1. new \in Row /\ new.seen = 0 /\ new.label = "none" /\ new.action = "unchecked"
    BY DEF Row
  <2>2. row' = [row EXCEPT ![s] = new] /\ UNCHANGED <<world, rescored, runs, proc, ran, budget>>
    BY <1>5 DEF Score
  <2> HIDE DEF new
  <2>3. TypeOK'
    BY <2>1, <2>2 DEF IInv, TypeOK, world, budget
  <2>4. row'[s] = new /\ \A q \in Signals \ {s} : row'[q] = row[q]
    BY <2>2 DEF IInv, TypeOK
  <2>5. row'[s] \in Row /\ RowRight(s)'
    BY <2>1, <2>4 DEF RowRight
  <2>6. day' = day /\ day \in Nat
    BY <2>2 DEF world, IInv, TypeOK
  <2> QED
    BY <1>1, <2>2, <2>3, <2>4, <2>5, <2>6, Kept
<1> QED
  BY <1>2, <1>3, <1>4, <1>5

-----------------------------------------------------------------------------
(* A row that is marked is right.                                          *)
LEMMA MarkedRight ==
  ASSUME IInv, row' = Marked, day' = day, NEW s \in Signals
  PROVE  row'[s] = row[s] \/ (row'[s] \in Row /\ RowRight(s)')
<1>1. row'[s] = Marked[s]
  OBVIOUS
<1>2. CASE row[s] = None
  BY <1>1, <1>2, MarkedRow DEF IInv
<1>3. CASE row[s] # None
  <2>1. RowRight(s)
    BY <1>3 DEF IInv, RowInv, Scored
  <2>2. Truth(s) \in {"hit", "miss"}
    BY DEF Truth
  <2>3. /\ Marked[s] \in Row
        /\ Marked[s].seen = row[s].seen /\ Marked[s].touch = row[s].touch
        /\ Marked[s].action = row[s].action
        /\ \/ Marked[s].label \in {"none", row[s].label}
           \/ row[s].seen = 3 /\ Marked[s].label = IF row[s].touch THEN "hit" ELSE "miss"
    BY <1>3, MarkedRow DEF IInv
  <2>4. Marked[s].label # "none" => Marked[s].label = Truth(s)
    BY <2>1, <2>2, <2>3 DEF RowRight
  <2> QED
    BY <1>1, <2>1, <2>3, <2>4 DEF RowRight, Truth, WindowEnd
<1> QED
  BY <1>2, <1>3

(* Begin and Mark write the labels and hold nothing.                       *)
LEMMA MarkStep ==
  ASSUME IInv, NEW c \in Actors, Begin(c) \/ Mark(c) PROVE IInv'
<1>1. PICK pc \in {"six", "check", "review"} : Goto(c, pc)
  BY DEF Begin, Mark
<1>2. row' = Marked /\ UNCHANGED <<world, rescored, runs, ran, faultsLeft>>
  BY DEF Begin, Mark, budget
<1>3. requestsLeft' \in 0..MaxRequests
  BY OutcomeAssumption DEF Begin, Mark, budget, IInv, TypeOK
<1>4. pc \in Steps /\ pc \notin {"reviewWrite", "fit"}
  BY DEF Steps
<1>5. /\ proc' \in [Actors -> Proc]
      /\ proc'[c].rows = {} /\ proc'[c].pc = pc
      /\ \A d \in Actors \ {c} : proc'[d] = proc[d]
  BY <1>1, <1>4, GotoType DEF IInv
<1>6. TypeOK'
  BY <1>2, <1>3, <1>5, MarkedType DEF IInv, TypeOK, world
<1>7. day' = day /\ day \in Nat
  BY <1>2 DEF world, IInv, TypeOK
<1>8. \A s \in Signals : row'[s] = row[s] \/ (row'[s] \in Row /\ RowRight(s)')
  BY <1>2, <1>7, MarkedRight
<1> QED
  BY <1>2, <1>4, <1>5, <1>6, <1>7, <1>8, Kept

(* A restart marks the rows and drops what the worker held.                *)
LEMMA RestartStep == ASSUME IInv, Restart PROVE IInv'
<1> DEFINE p == [Idle EXCEPT !.pc = "six", !.boot = TRUE]
<1>1. p \in Proc /\ p.rows = {} /\ p.pc = "six"
  BY IdleRow DEF Proc, Steps
<1>2. proc' = [proc EXCEPT ![Worker] = p] /\ row' = Marked /\ ran' = FALSE
      /\ UNCHANGED <<world, rescored, runs, requestsLeft>> /\ faultsLeft' \in 0..MaxFaults
  BY OutcomeAssumption, SMTT(60) DEF Restart, IInv, TypeOK
<1> HIDE DEF p
<1>3. Worker \in Actors
  BY DEF Actors
<1>4. TypeOK'
  BY <1>1, <1>2, MarkedType DEF IInv, TypeOK, world
<1>5. proc'[Worker] = p /\ \A d \in Actors \ {Worker} : proc'[d] = proc[d]
  BY <1>2, <1>3 DEF IInv, TypeOK
<1>6. day' = day /\ day \in Nat
  BY <1>2 DEF world, IInv, TypeOK
<1>7. \A s \in Signals : row'[s] = row[s] \/ (row'[s] \in Row /\ RowRight(s)')
  BY <1>2, <1>6, MarkedRight
<1>8. proc'[Worker].rows \subseteq Scored /\ proc'[Worker].pc \notin {"reviewWrite", "fit"}
  BY <1>1, <1>5
<1> QED
  BY <1>2, <1>3, <1>4, <1>5, <1>6, <1>7, <1>8, Kept

-----------------------------------------------------------------------------
(* Loading and evaluating.                                                 *)
LEMMA LoadStep ==
  ASSUME IInv, NEW c \in Actors, SixLoad(c) \/ PathLoad(c) PROVE IInv'
<1>1. PICK pc \in {"sixWrite", "pathWrite"}, S \in SUBSET Signals :
        Fetch(c, pc, S) /\ S \subseteq Scored
  BY DEF SixLoad, PathLoad, SixDue, PathDue
<1>2. UNCHANGED <<world, row, rescored, runs, ran, budget>>
  BY DEF SixLoad, PathLoad
<1>3. pc \in Steps /\ pc \notin {"reviewWrite", "fit"}
  BY DEF Steps
<1>4. /\ proc' \in [Actors -> Proc]
      /\ proc'[c].rows = S /\ proc'[c].pc = pc
      /\ \A d \in Actors \ {c} : proc'[d] = proc[d]
  BY <1>1, <1>3, FetchType DEF IInv
<1>5. TypeOK'
  BY <1>2, <1>4 DEF IInv, TypeOK, world, budget
<1>6. day' = day /\ day \in Nat
  BY <1>2 DEF world, IInv, TypeOK
<1> QED
  BY <1>1, <1>2, <1>3, <1>4, <1>5, <1>6, Kept

(* The status of a row is no part of what makes it right.                  *)
LEMMA SixWriteStep ==
  ASSUME IInv, NEW c \in Actors, SixWrite(c) PROVE IInv'
<1>1. PICK status \in [Signals -> {"pending", "matured", "error"}] :
        row' = [s \in Signals |-> IF s \in proc[c].rows
                  THEN [row[s] EXCEPT !.status = status[s]] ELSE row[s]]
  <2>1. CASE row' = [s \in Signals |-> IF s \in proc[c].rows
                       THEN [row[s] EXCEPT !.status = SixStatus(c, s)] ELSE row[s]]
    <3> DEFINE f == [s \in Signals |-> SixStatus(c, s)]
    <3>1. f \in [Signals -> {"pending", "matured", "error"}]
      BY DEF SixStatus
    <3>2. row' = [s \in Signals |-> IF s \in proc[c].rows
                       THEN [row[s] EXCEPT !.status = f[s]] ELSE row[s]]
      BY <2>1
    <3> QED
      BY <3>1, <3>2
  <2>2. CASE row' = [s \in Signals |-> IF s \in proc[c].rows
                       THEN [row[s] EXCEPT !.status = "error"] ELSE row[s]]
    <3> DEFINE f == [s \in Signals |-> "error"]
    <3>1. f \in [Signals -> {"pending", "matured", "error"}]
      OBVIOUS
    <3>2. row' = [s \in Signals |-> IF s \in proc[c].rows
                       THEN [row[s] EXCEPT !.status = f[s]] ELSE row[s]]
      BY <2>2
    <3> QED
      BY <3>1, <3>2
  <2> QED
    BY <2>1, <2>2 DEF SixWrite
<1>2. Goto(c, "path") /\ UNCHANGED <<world, rescored, runs, ran, requestsLeft>>
      /\ faultsLeft' \in 0..MaxFaults
  BY OutcomeAssumption, SMTT(60) DEF SixWrite, IInv, TypeOK
<1>3. "path" \in Steps
  BY DEF Steps
<1>4. /\ proc' \in [Actors -> Proc]
      /\ proc'[c].rows = {} /\ proc'[c].pc = "path"
      /\ \A d \in Actors \ {c} : proc'[d] = proc[d]
  BY <1>2, <1>3, GotoType DEF IInv
<1>5. \A s \in proc[c].rows :
        s \in Signals /\ s \in Scored /\ row[s] \in Row /\ [row[s] EXCEPT !.status = status[s]] \in Row
  <2>1. \A s \in proc[c].rows : s \in Scored
    BY DEF IInv, HeldInv, Held
  <2>2. \A s \in proc[c].rows : s \in Signals /\ row[s] \in Row
    BY <2>1, ScoredRow DEF IInv
  <2> QED
    BY <2>1, <2>2 DEF Row
<1>6. row' \in [Signals -> Row \union {None}]
  BY <1>1, <1>5 DEF IInv, TypeOK
<1>7. TypeOK'
  BY <1>2, <1>4, <1>6 DEF IInv, TypeOK, world
<1>8. day' = day /\ day \in Nat
  BY <1>2 DEF world, IInv, TypeOK
<1>9. ASSUME NEW s \in Signals
      PROVE  row'[s] = row[s] \/ (row'[s] \in Row /\ RowRight(s)')
  <2>1. CASE s \notin proc[c].rows
    BY <1>1, <2>1
  <2>2. CASE s \in proc[c].rows
    <3>1. row'[s] = [row[s] EXCEPT !.status = status[s]] /\ row'[s] \in Row
      BY <1>1, <1>5, <2>2
    <3>2. /\ row'[s].seen = row[s].seen /\ row'[s].touch = row[s].touch
          /\ row'[s].label = row[s].label /\ row'[s].action = row[s].action
      BY <3>1, <1>5, <2>2 DEF Row
    <3>3. RowRight(s)
      BY <1>5, <2>2 DEF IInv, RowInv
    <3> QED
      BY <3>1, <3>2, <3>3, <1>8 DEF RowRight, Truth, WindowEnd
  <2> QED
    BY <2>1, <2>2
<1> QED
  BY <1>2, <1>4, <1>7, <1>8, <1>9, Kept

(* The path a row gets is right, whatever bars had come in when it was     *)
(* loaded; a label stays as it is.                                         *)
LEMMA PathWriteStep ==
  ASSUME IInv, NEW c \in Actors, PathWrite(c) PROVE IInv'
<1>1. /\ Goto(c, "mark") /\ UNCHANGED <<world, rescored, runs, ran, requestsLeft>>
      /\ faultsLeft' \in 0..MaxFaults
  <2>1. Goto(c, "mark") /\ UNCHANGED <<world, rescored, runs, ran, requestsLeft>>
    BY Zenon DEF PathWrite
  <2>2. faultsLeft' = faultsLeft \/ (faultsLeft > 0 /\ faultsLeft' = faultsLeft - 1)
    BY Zenon DEF PathWrite
  <2>3. faultsLeft \in 0..MaxFaults
    BY DEF IInv, TypeOK
  <2>4. faultsLeft' \in 0..MaxFaults
    BY <2>2, <2>3, OutcomeAssumption
  <2> QED
    BY <2>1, <2>4
<1>2. "mark" \in Steps
  BY DEF Steps
<1>3. /\ proc' \in [Actors -> Proc]
      /\ proc'[c].rows = {} /\ proc'[c].pc = "mark"
      /\ \A d \in Actors \ {c} : proc'[d] = proc[d]
  BY <1>1, <1>2, GotoType DEF IInv
<1>4. day' = day /\ day \in Nat
  BY <1>1 DEF world, IInv, TypeOK
<1> DEFINE new(s) == [row[s] EXCEPT !.seen = Cardinality(Path(c, s)),
                                    !.touch = Path(c, s) \cap Touched[s] # {}]
<1>5. ASSUME NEW s \in proc[c].rows
      PROVE  /\ s \in Signals /\ new(s) \in Row /\ RowRight(s)
             /\ new(s).label = row[s].label /\ new(s).action = row[s].action
             /\ new(s).seen = 3 => (new(s).touch <=> Truth(s) = "hit")
  <2>1. s \in Scored
    BY DEF IInv, HeldInv, Held
  <2>2. s \in Signals /\ row[s] \in Row /\ RowRight(s)
    BY <2>1, ScoredRow DEF IInv, RowInv
  <2>3. Cardinality(Path(c, s)) \in 0..3
    BY <2>2, PathInWindow DEF IInv
  <2>4. (Path(c, s) \cap Touched[s] # {}) \in BOOLEAN
    OBVIOUS
  <2>5. /\ new(s) \in Row
        /\ new(s).seen = Cardinality(Path(c, s))
        /\ new(s).touch = (Path(c, s) \cap Touched[s] # {})
        /\ new(s).label = row[s].label /\ new(s).action = row[s].action
    BY <2>2, <2>3, <2>4 DEF Row
  <2>6. Cardinality(Path(c, s)) = 3 => (Path(c, s) \cap Touched[s] # {} <=> Truth(s) = "hit")
    BY <2>2, TouchIsTruth DEF IInv
  <2> HIDE DEF new
  <2> QED
    BY <2>2, <2>5, <2>6
<1>6. \A s \in Signals : row'[s] = row[s] \/ (s \in proc[c].rows /\ row'[s] = new(s))
  <2>1. CASE row' = row
    BY <2>1
  <2>2. CASE row' = [s \in Signals |-> IF s \in proc[c].rows THEN new(s) ELSE row[s]]
    BY <2>2
  <2> QED
    BY <2>1, <2>2 DEF PathWrite
<1>7. row' = [s \in Signals |-> row'[s]]
  BY DEF PathWrite, IInv, TypeOK
<1> HIDE DEF new
<1>8. row' \in [Signals -> Row \union {None}]
  <2>1. \A s \in Signals : row[s] \in Row \union {None}
    BY DEF IInv, TypeOK
  <2>2. \A s \in Signals : row'[s] \in Row \union {None}
    BY <1>5, <1>6, <2>1
  <2> QED
    BY <1>7, <2>2
<1>9. TypeOK'
  BY <1>1, <1>3, <1>8 DEF IInv, TypeOK, world
<1>10. ASSUME NEW s \in Signals
       PROVE  row'[s] = row[s] \/ (row'[s] \in Row /\ RowRight(s)')
  <2>1. CASE row'[s] = row[s]
    BY <2>1
  <2>2. CASE s \in proc[c].rows /\ row'[s] = new(s)
    <3>1. new(s) \in Row /\ RowRight(s) /\ new(s).label = row[s].label
          /\ new(s).action = row[s].action
          /\ (new(s).seen = 3 => (new(s).touch <=> Truth(s) = "hit"))
      BY <1>5, <2>2
    <3> QED
      BY <2>2, <3>1, <1>4 DEF RowRight, Truth, WindowEnd
  <2> QED
    BY <1>6, <2>1, <2>2
<1> QED
  BY <1>1, <1>3, <1>4, <1>9, <1>10, Kept

-----------------------------------------------------------------------------
(* A step that writes neither rows nor runs.                               *)
LEMMA Untouched ==
  ASSUME IInv, TypeOK', UNCHANGED <<day, row, runs>>, NEW c \in Actors,
         \A d \in Actors \ {c} : proc'[d] = proc[d], Held(c)'
  PROVE  IInv'
<1>1. \A s \in Signals : Truth(s)' = Truth(s) /\ WindowEnd(s)' = WindowEnd(s)
  BY DEF Truth, WindowEnd
<1>2. Scored' = Scored
  BY DEF Scored
<1>3. RowInv'
  BY <1>2 DEF IInv, RowInv, RowRight, Truth, WindowEnd
<1>4. \A S, on : Sound(S, on)' <=> Sound(S, on)
  BY DEF Sound, Truth, WindowEnd
<1>5. ASSUME NEW d \in Actors \ {c} PROVE Held(d)'
  <2>1. Held(d) /\ proc'[d] = proc[d]
    BY DEF IInv, HeldInv
  <2> QED
    BY <2>1, <1>2, <1>4 DEF Held, WindowEnd
<1>6. SamplesAreSound'
  BY DEF IInv, SamplesAreSound, Truth, WindowEnd
<1> QED
  BY <1>3, <1>5, <1>6 DEF IInv, HeldInv

(* The rows taken up for review are labelled and past the lag.             *)
LEMMA ReviewLoadStep ==
  ASSUME IInv, NEW c \in Actors, ReviewLoad(c) PROVE IInv'
<1> DEFINE S == {s \in Signals : ReviewDue(s)}
           B == {s \in Signals : acted[s] # None} \X {0}
<1>1. /\ S \in SUBSET Signals /\ S \subseteq Scored
      /\ \A s \in S : WindowEnd(s) + Lag <= day
  BY DEF ReviewDue
<1>2. B \in SUBSET (Signals \X Days)
  BY OutcomeAssumption DEF Days
<1>3. /\ proc' = [proc EXCEPT ![c].pc = "reviewWrite", ![c].today = day,
                    ![c].rows = S, ![c].bars = B]
      /\ UNCHANGED <<world, row, rescored, runs, ran, budget>>
  BY DEF ReviewLoad
<1> HIDE DEF S, B
<1> DEFINE p == [proc[c] EXCEPT !.pc = "reviewWrite", !.today = day, !.rows = S, !.bars = B]
<1>4. proc[c] \in Proc /\ proc \in [Actors -> Proc]
  BY DEF IInv, TypeOK
<1>5. p \in Proc /\ p.pc = "reviewWrite" /\ p.today = day /\ p.rows = S
  BY <1>1, <1>2, <1>4, ClosedType DEF IInv, Proc, Steps
<1>6. proc' = [proc EXCEPT ![c] = p]
  BY <1>3, <1>4
<1> HIDE DEF p
<1>7. /\ proc' \in [Actors -> Proc] /\ proc'[c] = p
      /\ \A d \in Actors \ {c} : proc'[d] = proc[d]
  BY <1>4, <1>5, <1>6
<1>8. TypeOK'
  BY <1>3, <1>7 DEF IInv, TypeOK, world, budget
<1>9. UNCHANGED <<day, row, runs>> /\ Scored' = Scored /\ day \in Nat
  BY <1>3 DEF world, Scored, IInv, TypeOK
<1>10. Held(c)'
  BY <1>1, <1>5, <1>7, <1>9 DEF Held, WindowEnd
<1> QED
  BY <1>7, <1>8, <1>9, <1>10, Untouched

(* A row that comes out clear was past the lag when it was taken up.       *)
LEMMA ReviewWriteStep ==
  ASSUME IInv, NEW c \in Actors, ReviewWrite(c) PROVE IInv'
<1>1. PICK pc \in {"rescore", "check"} :
        /\ Goto(c, pc) /\ UNCHANGED <<world, rescored, runs, ran, requestsLeft>>
        /\ faultsLeft' \in 0..MaxFaults
  <2>1. Goto(c, IF c = Worker THEN "rescore" ELSE "check")
        /\ UNCHANGED <<world, rescored, runs, ran, requestsLeft>>
    BY Zenon DEF ReviewWrite
  <2>2. faultsLeft' = faultsLeft \/ (faultsLeft > 0 /\ faultsLeft' = faultsLeft - 1)
    BY Zenon DEF ReviewWrite
  <2>3. faultsLeft \in 0..MaxFaults
    BY DEF IInv, TypeOK
  <2>4. faultsLeft' \in 0..MaxFaults
    BY <2>2, <2>3, OutcomeAssumption
  <2> QED
    BY <2>1, <2>4, Zenon
<1>2. pc \in Steps /\ pc \notin {"reviewWrite", "fit"}
  BY DEF Steps
<1>3. /\ proc' \in [Actors -> Proc]
      /\ proc'[c].rows = {} /\ proc'[c].pc = pc
      /\ \A d \in Actors \ {c} : proc'[d] = proc[d]
  BY <1>1, <1>2, GotoType DEF IInv
<1>4. day' = day /\ day \in Nat
  BY <1>1 DEF world, IInv, TypeOK
<1>5. PICK action \in [Signals -> {"clear", "affected", "review_error"}],
           eligible \in [Signals -> BOOLEAN] :
        row' = [s \in Signals |-> IF s \in proc[c].rows
                  THEN [row[s] EXCEPT !.action = action[s], !.eligible = eligible[s],
                                      !.checked = proc[c].today] ELSE row[s]]
  <2>1. CASE row' = [s \in Signals |-> IF s \in proc[c].rows
                       THEN [row[s] EXCEPT !.action = Reviewed(c, s),
                              !.eligible = Reviewed(c, s) = "clear",
                              !.checked = proc[c].today] ELSE row[s]]
    <3> DEFINE f == [s \in Signals |-> Reviewed(c, s)]
               g == [s \in Signals |-> Reviewed(c, s) = "clear"]
    <3>1. f \in [Signals -> {"clear", "affected", "review_error"}] /\ g \in [Signals -> BOOLEAN]
      BY DEF Reviewed
    <3>2. row' = [s \in Signals |-> IF s \in proc[c].rows
                  THEN [row[s] EXCEPT !.action = f[s], !.eligible = g[s],
                                      !.checked = proc[c].today] ELSE row[s]]
      BY <2>1, Zenon
    <3> QED
      BY <3>1, <3>2, ZenonT(60)
  <2>2. CASE row' = [s \in Signals |-> IF s \in proc[c].rows
                       THEN [row[s] EXCEPT !.action = "review_error", !.eligible = FALSE,
                                           !.checked = proc[c].today] ELSE row[s]]
    <3> DEFINE f == [s \in Signals |-> "review_error"]
               g == [s \in Signals |-> FALSE]
    <3>1. f \in [Signals -> {"clear", "affected", "review_error"}] /\ g \in [Signals -> BOOLEAN]
      OBVIOUS
    <3>2. row' = [s \in Signals |-> IF s \in proc[c].rows
                  THEN [row[s] EXCEPT !.action = f[s], !.eligible = g[s],
                                      !.checked = proc[c].today] ELSE row[s]]
      BY <2>2, Zenon
    <3> QED
      BY <3>1, <3>2, ZenonT(60)
  <2> QED
    BY <2>1, <2>2, ZenonT(60) DEF ReviewWrite
<1> DEFINE new(s) == [row[s] EXCEPT !.action = action[s], !.eligible = eligible[s],
                                    !.checked = proc[c].today]
<1>6. row' = [s \in Signals |-> IF s \in proc[c].rows THEN new(s) ELSE row[s]]
  BY <1>5
<1>7. ASSUME NEW s \in proc[c].rows
      PROVE  /\ s \in Signals /\ new(s) \in Row /\ RowRight(s)
             /\ new(s).label = row[s].label /\ new(s).seen = row[s].seen
             /\ new(s).touch = row[s].touch
             /\ WindowEnd(s) + Lag <= day
  <2>1. /\ s \in Scored /\ proc[c].today <= day
        /\ WindowEnd(s) + Lag <= proc[c].today
    BY DEF IInv, HeldInv, Held, ReviewWrite
  <2>2. s \in Signals /\ row[s] \in Row /\ RowRight(s)
    BY <2>1, ScoredRow DEF IInv, RowInv
  <2>3. proc[c].today \in Days /\ proc[c].today \in Nat
    BY OutcomeAssumption DEF IInv, TypeOK, Proc, Days
  <2>4. WindowEnd(s) + Lag <= day
    BY <1>4, <2>1, <2>2, <2>3, SignalDays, OutcomeAssumption
  <2>5. /\ new(s) \in Row /\ new(s).label = row[s].label
        /\ new(s).seen = row[s].seen /\ new(s).touch = row[s].touch
    BY <2>2, <2>3 DEF Row
  <2> QED
    BY <2>2, <2>4, <2>5, SMTT(60)
<1> HIDE DEF new
<1>8. row' \in [Signals -> Row \union {None}]
  <2>1. \A s \in Signals : row[s] \in Row \union {None}
    BY DEF IInv, TypeOK
  <2> QED
    BY <1>6, <1>7, <2>1
<1>9. TypeOK'
  BY <1>1, <1>3, <1>8 DEF IInv, TypeOK, world
<1>10. ASSUME NEW s \in Signals
       PROVE  row'[s] = row[s] \/ (row'[s] \in Row /\ RowRight(s)')
  <2>1. CASE s \notin proc[c].rows
    BY <1>6, <2>1
  <2>2. CASE s \in proc[c].rows
    <3>1. row'[s] = new(s)
      BY <1>6, <2>2
    <3>2. /\ new(s) \in Row /\ RowRight(s)
          /\ new(s).label = row[s].label /\ new(s).seen = row[s].seen
          /\ new(s).touch = row[s].touch /\ WindowEnd(s) + Lag <= day
      BY <1>7, <2>2
    <3> QED
      BY <3>1, <3>2, <1>4 DEF RowRight, Truth, WindowEnd
  <2> QED
    BY <2>1, <2>2
<1> QED
  BY <1>1, <1>2, <1>3, <1>4, <1>9, <1>10, Kept

-----------------------------------------------------------------------------
(* Calibration.                                                            *)
LEMMA SamplesSound ==
  ASSUME IInv PROVE Samples \in SUBSET Sample /\ Sound(Samples, day)
<1>1. ASSUME NEW t \in Signals \ Old, t \in Scored, row[t].action = "clear", row[t].label # "none"
      PROVE  /\ row[t].label \in {"hit", "miss"} /\ row[t].label = Truth(t)
             /\ WindowEnd(t) + Lag <= day
  <2>1. RowRight(t)
    BY <1>1 DEF IInv, RowInv
  <2>2. row[t] \in Row
    BY <1>1, ScoredRow DEF IInv
  <2> QED
    BY <1>1, <2>1, <2>2 DEF RowRight, Row
<1>2. \A x \in Samples : \E t \in Signals \ Old :
        /\ x = <<t, row[t].label>> /\ t \in Scored
        /\ row[t].action = "clear" /\ row[t].label # "none"
  BY DEF Samples
<1>3. ASSUME NEW x \in Samples
      PROVE  /\ x \in Sample /\ x[1] \notin Old /\ x[2] = Truth(x[1])
             /\ WindowEnd(x[1]) + Lag <= day
  <2>1. PICK t \in Signals \ Old : /\ x = <<t, row[t].label>> /\ t \in Scored
                                   /\ row[t].action = "clear" /\ row[t].label # "none"
    BY <1>2
  <2>2. /\ row[t].label \in {"hit", "miss"} /\ row[t].label = Truth(t)
        /\ WindowEnd(t) + Lag <= day
    BY <1>1, <2>1
  <2> QED
    BY <2>1, <2>2 DEF Sample
<1> QED
  BY <1>3 DEF Sound

(* A process that turns to a step other than the two that hold something.  *)
LEMMA Released ==
  ASSUME IInv, UNCHANGED <<world, row, runs>>, NEW c \in Actors,
         rescored' \subseteq Old, ran' \in BOOLEAN,
         requestsLeft' = requestsLeft, faultsLeft' \in 0..MaxFaults,
         \/ proc' = [proc EXCEPT ![c] = Idle]
         \/ \E pc \in {"rescore", "check"} : Goto(c, pc)
  PROVE  IInv'
<1>1. /\ proc' \in [Actors -> Proc]
      /\ proc'[c].rows = {} /\ proc'[c].pc \notin {"reviewWrite", "fit"}
      /\ \A d \in Actors \ {c} : proc'[d] = proc[d]
  <2>1. CASE proc' = [proc EXCEPT ![c] = Idle]
    BY <2>1, IdleType DEF IInv
  <2>2. CASE \E pc \in {"rescore", "check"} : Goto(c, pc)
    <3>1. PICK pc \in {"rescore", "check"} : Goto(c, pc)
      BY <2>2
    <3>2. pc \in Steps
      BY DEF Steps
    <3> QED
      BY <3>1, <3>2, GotoType DEF IInv
  <2> QED
    BY <2>1, <2>2
<1>2. TypeOK'
  BY <1>1 DEF IInv, TypeOK, world
<1>3. UNCHANGED <<day, row, runs>>
  BY DEF world
<1>4. Held(c)'
  BY <1>1 DEF Held
<1> QED
  BY <1>1, <1>2, <1>3, <1>4, Untouched

(* Rescoring touches neither rows nor runs.                                *)
LEMMA RescoreStep ==
  ASSUME IInv, NEW c \in Actors, Rescore(c) PROVE IInv'
<1>1. rescored' \subseteq Old /\ ran \in BOOLEAN /\ faultsLeft \in 0..MaxFaults
  BY DEF Rescore, IInv, TypeOK
<1>2. UNCHANGED <<world, row, runs, budget>>
  BY DEF Rescore
<1>3. \/ proc' = [proc EXCEPT ![c] = Idle]
      \/ \E pc \in {"rescore", "check"} : Goto(c, pc)
  BY DEF Rescore, Finish
<1>4. ran' \in BOOLEAN
  BY <1>1 DEF Rescore, Finish
<1> QED
  BY <1>1, <1>2, <1>3, <1>4, Released DEF budget

(* An exception ends or skips a part and drops what was held.              *)
LEMMA FailStep ==
  ASSUME IInv, NEW c \in Actors, CycleFails(c) PROVE IInv'
<1>1. faultsLeft' \in 0..MaxFaults /\ rescored \subseteq Old /\ ran \in BOOLEAN
  BY OutcomeAssumption DEF CycleFails, IInv, TypeOK
<1>2. UNCHANGED <<world, row, rescored, runs, ran, requestsLeft>>
  BY DEF CycleFails
<1>3. \/ proc' = [proc EXCEPT ![c] = Idle]
      \/ \E pc \in {"rescore", "check"} : Goto(c, pc)
  BY DEF CycleFails
<1> QED
  BY <1>1, <1>2, <1>3, Released

(* After its check a process is idle or goes on to rescoring.              *)
LEMMA AfterCheckDoes ==
  ASSUME IInv, NEW c \in Actors, AfterCheck(c)
  PROVE  /\ \/ proc' = [proc EXCEPT ![c] = Idle]
            \/ \E pc \in {"rescore", "check"} : Goto(c, pc)
         /\ ran' \in BOOLEAN
<1>1. ran \in BOOLEAN
  BY DEF IInv, TypeOK
<1> QED
  BY <1>1 DEF AfterCheck, Finish

(* The samples read are sound on the day they are read.                    *)
LEMMA CheckStep ==
  ASSUME IInv, NEW c \in Actors, Check(c) PROVE IInv'
<1>1. UNCHANGED <<world, row, rescored, runs, budget>>
  BY DEF Check
<1>2. CASE AfterCheck(c)
  <2>1. rescored \subseteq Old /\ faultsLeft \in 0..MaxFaults
    BY DEF IInv, TypeOK
  <2> QED
    BY <1>1, <1>2, <2>1, AfterCheckDoes, Released DEF budget
<1>3. CASE /\ proc' = [proc EXCEPT ![c].pc = "fit", ![c].samples = Samples, ![c].today = day]
           /\ UNCHANGED ran
  <2>1. Samples \in SUBSET Sample /\ Sound(Samples, day)
    BY SamplesSound
  <2> DEFINE p == [proc[c] EXCEPT !.pc = "fit", !.samples = Samples, !.today = day]
  <2>2. proc[c] \in Proc /\ proc \in [Actors -> Proc]
    BY DEF IInv, TypeOK
  <2>3. p \in Proc /\ p.pc = "fit" /\ p.today = day /\ p.samples = Samples /\ p.rows = proc[c].rows
    BY <2>1, <2>2, ClosedType DEF IInv, Proc, Steps
  <2>4. proc' = [proc EXCEPT ![c] = p]
    BY <1>3, <2>2
  <2> HIDE DEF p
  <2>5. /\ proc' \in [Actors -> Proc] /\ proc'[c] = p
        /\ \A d \in Actors \ {c} : proc'[d] = proc[d]
    BY <2>2, <2>3, <2>4
  <2>6. TypeOK'
    BY <1>1, <1>3, <2>5 DEF IInv, TypeOK, world, budget
  <2>7. UNCHANGED <<day, row, runs>> /\ Scored' = Scored
    BY <1>1 DEF world, Scored
  <2>8. Held(c)'
    <3>1. proc[c].rows \subseteq Scored
      BY DEF IInv, HeldInv, Held
    <3>2. Sound(Samples, day)' <=> \A x \in Samples' : x[1] \notin Old /\ x[2] = Truth(x[1]) /\ WindowEnd(x[1]) + Lag <= day'
      BY DEF Sound, Truth, WindowEnd
    <3>3. proc'[c].pc = "fit" => Sound(proc'[c].samples, proc'[c].today)
      BY <2>1, <2>3, <2>5
    <3>4. \A S, on : Sound(S, on)' <=> Sound(S, on)
      BY DEF Sound, Truth, WindowEnd
    <3> QED
      BY <2>3, <2>5, <2>7, <3>1, <3>3, <3>4 DEF Held
  <2> QED
    BY <2>5, <2>6, <2>7, <2>8, Untouched
<1> QED
  BY <1>2, <1>3 DEF Check

(* The run that is stored is what was sound on its day.                    *)
LEMMA FitStep ==
  ASSUME IInv, NEW c \in Actors, Fit(c) PROVE IInv'
<1> DEFINE new == [samples |-> proc[c].samples, on |-> proc[c].today]
<1>1. runs' = Append(runs, new) /\ UNCHANGED <<world, row, rescored, budget>>
  BY DEF Fit
<1>2. Sound(proc[c].samples, proc[c].today)
  BY DEF Fit, IInv, HeldInv, Held
<1>3. new \in Run /\ new.samples = proc[c].samples /\ new.on = proc[c].today
  BY DEF IInv, TypeOK, Proc, Run
<1> HIDE DEF new
<1>4. runs \in Seq(Run)
  BY DEF IInv, TypeOK
<1>5. /\ runs' \in Seq(Run)
      /\ \A i \in DOMAIN runs' : (i \in DOMAIN runs /\ runs'[i] = runs[i]) \/ runs'[i] = new
  BY <1>1, <1>3, <1>4
<1>6. \/ proc' = [proc EXCEPT ![c] = Idle]
      \/ \E pc \in {"rescore", "check"} : Goto(c, pc)
  BY AfterCheckDoes DEF Fit
<1>7. ran' \in BOOLEAN
  BY AfterCheckDoes DEF Fit
<1>8. /\ proc' \in [Actors -> Proc]
      /\ proc'[c].rows = {} /\ proc'[c].pc \notin {"reviewWrite", "fit"}
      /\ \A d \in Actors \ {c} : proc'[d] = proc[d]
  <2>1. CASE proc' = [proc EXCEPT ![c] = Idle]
    BY <2>1, IdleType DEF IInv
  <2>2. CASE \E pc \in {"rescore", "check"} : Goto(c, pc)
    <3>1. PICK pc \in {"rescore", "check"} : Goto(c, pc)
      BY <2>2
    <3>2. pc \in Steps
      BY DEF Steps
    <3> QED
      BY <3>1, <3>2, GotoType DEF IInv
  <2> QED
    BY <1>6, <2>1, <2>2
<1>9. TypeOK'
  BY <1>1, <1>5, <1>7, <1>8 DEF IInv, TypeOK, world, budget
<1>10. day' = day /\ row' = row /\ day \in Nat /\ Scored' = Scored
  BY <1>1 DEF world, IInv, TypeOK, Scored
<1>11. RowInv'
  BY <1>10 DEF IInv, RowInv, RowRight, Truth, WindowEnd
<1>12. HeldInv'
  BY <1>8, <1>10, HeldKept DEF IInv
<1>13. SamplesAreSound'
  <2> SUFFICES ASSUME NEW i \in DOMAIN runs' PROVE Sound(runs'[i].samples, runs'[i].on)
    BY DEF SamplesAreSound, Sound, Truth, WindowEnd
  <2>1. CASE i \in DOMAIN runs /\ runs'[i] = runs[i]
    BY <2>1 DEF IInv, SamplesAreSound, Sound
  <2>2. CASE runs'[i] = new
    BY <1>2, <1>3, <2>2
  <2> QED
    BY <1>5, <2>1, <2>2
<1> QED
  BY <1>9, <1>11, <1>12, <1>13 DEF IInv

-----------------------------------------------------------------------------
(* There is no row, no run and no process under way at the start.          *)
LEMMA InitInv == Init => IInv
<1> SUFFICES ASSUME Init PROVE IInv
  OBVIOUS
<1>1. TypeOK
  <2>1. day \in 1..LastDay /\ evening \in BOOLEAN /\ ran \in BOOLEAN
    <3>1. day = 1 /\ evening = FALSE /\ ran = FALSE
      BY DEF Init
    <3>2. day \in 1..LastDay
      BY <3>1, OutcomeAssumption
    <3> QED
      BY <3>1, <3>2
  <2>2. /\ bars \in [Signals -> SUBSET (1..LastDay)]
        /\ acted \in [Signals -> Days \union {None}]
        /\ row \in [Signals -> Row \union {None}]
    BY DEF Init
  <2>3. rescored \subseteq Old /\ runs \in Seq(Run)
    BY DEF Init
  <2>4. proc \in [Actors -> Proc]
    BY IdleRow DEF Init
  <2>5. requestsLeft \in 0..MaxRequests /\ faultsLeft \in 0..MaxFaults
    BY OutcomeAssumption DEF Init
  <2> QED
    BY <2>1, <2>2, <2>3, <2>4, <2>5 DEF TypeOK
<1>2. Scored = {}
  BY DEF Init, Scored
<1>3. RowInv /\ HeldInv
  BY <1>2, IdleRow DEF Init, RowInv, HeldInv, Held
<1>4. SamplesAreSound
  BY DEF Init, SamplesAreSound
<1> QED
  BY <1>1, <1>3, <1>4 DEF IInv

(* One lemma per action, and the steps of the outside together.            *)
LEMMA NextInv == IInv /\ [Next]_vars => IInv'
<1> SUFFICES ASSUME IInv, [Next]_vars PROVE IInv'
  OBVIOUS
<1>1. CASE UNCHANGED vars
  <2>1. UNCHANGED <<world, row, rescored, runs, proc, ran, budget>>
    BY <1>1 DEF vars
  <2>2. TypeOK'
    BY <2>1 DEF IInv, TypeOK, world, budget
  <2>3. Worker \in Actors /\ day' = day /\ day \in Nat
    BY <2>1 DEF Actors, world, IInv, TypeOK
  <2> QED
    BY <2>1, <2>2, <2>3, Kept
<1>2. CASE Tick \/ \E s \in Signals : Score(s) \/ Announce(s) \/ \E d \in Days : Publish(s, d)
  BY <1>2, OutsideStep
<1>3. CASE \E c \in Actors : Begin(c) \/ Step(c) \/ CycleFails(c)
  <2>1. PICK c \in Actors : Begin(c) \/ Step(c) \/ CycleFails(c)
    BY <1>3
  <2>2. CASE Begin(c) \/ Mark(c)
    BY <2>2, MarkStep
  <2>3. CASE SixLoad(c) \/ PathLoad(c)
    BY <2>3, LoadStep
  <2>4. CASE SixWrite(c)
    BY <2>4, SixWriteStep
  <2>5. CASE PathWrite(c)
    BY <2>5, PathWriteStep
  <2>6. CASE ReviewLoad(c)
    BY <2>6, ReviewLoadStep
  <2>7. CASE ReviewWrite(c)
    BY <2>7, ReviewWriteStep
  <2>8. CASE Rescore(c)
    BY <2>8, RescoreStep
  <2>9. CASE Check(c)
    BY <2>9, CheckStep
  <2>10. CASE Fit(c)
    BY <2>10, FitStep
  <2>11. CASE CycleFails(c)
    BY <2>11, FailStep
  <2> QED
    BY <2>1, <2>2, <2>3, <2>4, <2>5, <2>6, <2>7, <2>8, <2>9, <2>10, <2>11 DEF Step
<1>4. CASE Restart
  BY <1>4, RestartStep
<1> QED
  BY <1>1, <1>2, <1>3, <1>4 DEF Next

(* The invariant holds of every behaviour.                                 *)
LEMMA OutcomeInvariant == Spec => []IInv
BY InitInv, NextInv, PTL DEF Spec

(* Every variable keeps its type: the rows, the runs and what a process    *)
(* carries from a request to a write.                                      *)
THEOREM OutcomeTypes == Spec => []TypeOK
<1>1. IInv => TypeOK
  BY DEF IInv
<1> QED
  BY <1>1, OutcomeInvariant, PTL

(* Every calibration was fitted to original scores with their true labels, *)
(* reviewed after the lag, however the worker and a request overlap.       *)
THEOREM SamplesAreAlwaysSound == Spec => []SamplesAreSound
<1>1. IInv => SamplesAreSound
  BY DEF IInv
<1> QED
  BY <1>1, OutcomeInvariant, PTL
==============================================================================
