---------------------------- MODULE OutcomeCycle ----------------------------
(***************************************************************************)
(* What becomes of a scored signal: its outcome row is evaluated from daily*)
(* bars, labelled once three sessions of the exchange's calendar are       *)
(* complete, reviewed for corporate actions after a lag, and then a sample *)
(* of the calibration.  The worker does all of it once an evening, and     *)
(* first when it starts; POST /api/oversold/outcomes/run does it in a web  *)
(* process at any time.                                                    *)
(*                                                                         *)
(* Days are sessions.  The clock stays on LastDay, which stands for itself *)
(* and all later days.  The batches of 500 rows are left out.              *)
(***************************************************************************)
EXTENDS Integers, FiniteSets, Sequences

CONSTANTS
  Signals,      (* scored candidates                                        *)
  SignalDay,    (* the day of each, after whose close it was scored         *)
  Touched,      (* the sessions that reach +5 % over its price              *)
  Old,          (* those an earlier version of the model scored             *)
  Splits,       (* those a material corporate action may befall             *)
  Late,         (* <<signal, session>>: bars that may be published late     *)
  Worker, Web,  (* the two processes                                        *)
  Weeks,        (* sessions to the horizon of six weeks                     *)
  Lag, Recheck, Horizon,     (* days: REVIEW_LAG, RECHECK_INTERVAL, _HORIZON *)
  LastDay, MaxRequests, MaxFaults, MaxRuns,      (* bounds                  *)
  None

Actors == {Worker, Web}
Days   == 0..LastDay

Row == [status : {"pending", "matured", "error"}, seen : 0..3, touch : BOOLEAN,
        label : {"none", "hit", "miss"},
        action : {"unchecked", "clear", "affected", "review_error"},
        eligible : BOOLEAN, checked : Days \union {None}]

ASSUME OutcomeAssumption ==
  /\ SignalDay \in [Signals -> Nat] /\ Touched \in [Signals -> SUBSET Nat]
  /\ Old \subseteq Signals /\ Splits \subseteq Signals
  /\ Late \subseteq Signals \X Nat /\ Worker # Web
  /\ Weeks \in Nat /\ Weeks >= 3
  /\ Lag \in Nat /\ Recheck \in Nat /\ Horizon \in Nat /\ LastDay \in Nat \ {0}
  /\ MaxRequests \in Nat /\ MaxFaults \in Nat /\ MaxRuns \in Nat
  /\ None \notin Nat \union Row

VARIABLES
  day, evening,   (* evening: the session is closed and the cycle is due    *)
  bars,           (* the sessions of each signal the provider has published *)
  acted,          (* the day its corporate action is announced              *)
  row,            (* or_signal_outcomes                                     *)
  rescored,       (* or_model_runs of kind rescore                          *)
  runs,           (* or_calibration_runs                                    *)
  proc,           (* the processes                                          *)
  ran,            (* the worker's last_run_date is today                    *)
  requestsLeft, faultsLeft

world  == <<day, evening, bars, acted>>
budget == <<requestsLeft, faultsLeft>>
vars   == <<world, row, rescored, runs, proc, ran, budget>>

Sample == Signals \X {"hit", "miss"}
Run    == [samples : SUBSET Sample, on : Days]
Steps == {"idle", "six", "sixWrite", "path", "pathWrite", "mark", "review",
          "reviewWrite", "rescore", "check", "fit"}
Proc  == [pc : Steps, boot : BOOLEAN, closed : Days, today : Days,
          rows : SUBSET Signals, bars : SUBSET (Signals \X Days),
          samples : SUBSET Sample]
Idle  == [pc |-> "idle", boot |-> FALSE, closed |-> 0, today |-> 0,
          rows |-> {}, bars |-> {}, samples |-> {}]

TypeOK ==
  /\ day \in 1..LastDay /\ evening \in BOOLEAN
  /\ bars \in [Signals -> SUBSET (1..LastDay)]
  /\ acted \in [Signals -> Days \union {None}]
  /\ row \in [Signals -> Row \union {None}]
  /\ rescored \subseteq Old
  /\ runs \in Seq(Run)
  /\ proc \in [Actors -> Proc]
  /\ ran \in BOOLEAN
  /\ requestsLeft \in 0..MaxRequests /\ faultsLeft \in 0..MaxFaults

Init ==
  /\ day = 1 /\ evening = FALSE
  /\ bars = [s \in Signals |-> {}]
  /\ acted = [s \in Signals |-> None]
  /\ row = [s \in Signals |-> None]
  /\ rescored = {} /\ runs = <<>>
  /\ proc = [c \in Actors |-> Idle]
  /\ ran = FALSE
  /\ requestsLeft = MaxRequests /\ faultsLeft = MaxFaults

-----------------------------------------------------------------------------
(* The outside: sessions close, bars are published, actions announced.      *)

Scored == {s \in Signals : row[s] # None}
Closed == IF evening THEN day ELSE day - 1

WindowEnd(s) == SignalDay[s] + 3
Deadline(s)  == SignalDay[s] + Weeks

(* A cycle, a request and the day's scan do not outlast the night.          *)
Tick ==
  /\ IF evening
     THEN /\ ran /\ \A c \in Actors : proc[c].pc = "idle"
          /\ \A s \in Signals : SignalDay[s] <= day => s \in Scored
          /\ day' = IF day < LastDay THEN day + 1 ELSE day
          /\ evening' = FALSE /\ ran' = FALSE /\ UNCHANGED bars
     ELSE /\ evening' = TRUE /\ UNCHANGED <<day, ran>>
          /\ \E late \in SUBSET {s \in Signals : <<s, day>> \in Late} :
               bars' = [s \in Signals |->
                          IF s \in late THEN bars[s] ELSE bars[s] \union {day}]
  /\ UNCHANGED <<acted, row, rescored, runs, proc, budget>>

Publish(s, d) ==
  /\ d \in 1..Closed /\ d \notin bars[s]
  /\ bars' = [bars EXCEPT ![s] = @ \union {d}]
  /\ UNCHANGED <<day, evening, acted, row, rescored, runs, proc, ran, budget>>

Announce(s) ==
  /\ s \in Splits \cap Scored /\ acted[s] = None
  /\ acted' = [acted EXCEPT ![s] = day]
  /\ UNCHANGED <<day, evening, bars, row, rescored, runs, proc, ran, budget>>

(* The scan stores the score of a signal with its outcome row.              *)
Score(s) ==
  /\ SignalDay[s] <= Closed /\ row[s] = None
  /\ row' = [row EXCEPT ![s] =
       [status |-> "pending", seen |-> 0, touch |-> FALSE, label |-> "none",
        action |-> "unchecked", eligible |-> FALSE, checked |-> None]]
  /\ UNCHANGED <<world, rescored, runs, proc, ran, budget>>

-----------------------------------------------------------------------------
(* The steps of a cycle.  Each reads, asks the provider, and writes later   *)
(* what it read: closed, today and bars are those of the reading.           *)

Goto(c, pc) ==
  proc' = [proc EXCEPT ![c] = [Idle EXCEPT !.pc = pc, !.boot = proc[c].boot]]

(* Variant: two complete sessions mature a path.                            *)
TwoMature(r) == r # None /\ r.seen >= 2

(* The path's contract: three completed sessions of the calendar.           *)
PathMatured(r) == r # None /\ r.seen = 3

(* backfill_target_metadata: a label for a matured path, none without one.  *)
Marked ==
  [s \in Signals |->
    IF row[s] = None THEN None
    ELSE IF PathMatured(row[s]) /\ row[s].label = "none"
         THEN [row[s] EXCEPT !.label = IF row[s].touch THEN "hit" ELSE "miss"]
    ELSE IF ~PathMatured(row[s]) THEN [row[s] EXCEPT !.label = "none"]
    ELSE row[s]]

Begin(c) ==
  /\ proc[c].pc = "idle"
  /\ IF c = Worker THEN evening /\ ~ran /\ UNCHANGED requestsLeft
                   ELSE requestsLeft > 0 /\ requestsLeft' = requestsLeft - 1
  /\ row' = Marked
  /\ Goto(c, "six")
  /\ UNCHANGED <<world, rescored, runs, ran, faultsLeft>>

(* Variant: a row with an error is not taken up again.                      *)
PendingOnly(s) == s \in Scored /\ row[s].status = "pending"

SixDue(s) == s \in Scored /\ row[s].status \in {"pending", "error"}
PathDue(s) == s \in Scored /\ ~PathMatured(row[s])

Fetch(c, pc, rows) ==
  proc' = [proc EXCEPT ![c].pc = pc, ![c].closed = Closed, ![c].today = day,
             ![c].rows = rows,
             ![c].bars = {x \in rows \X Days : x[2] \in bars[x[1]]}]

SixLoad(c) ==
  /\ proc[c].pc = "six"
  /\ Fetch(c, "sixWrite", {s \in Signals : SixDue(s)})
  /\ UNCHANGED <<world, row, rescored, runs, ran, budget>>

SixStatus(c, s) ==
  IF proc[c].closed >= Deadline(s)
     /\ \E x \in proc[c].bars : x[1] = s /\ SignalDay[s] < x[2] /\ x[2] <= Deadline(s)
  THEN "matured" ELSE "pending"

(* The request for bars fails for the whole group, without ending the cycle.*)
SixWrite(c) ==
  /\ proc[c].pc = "sixWrite"
  /\ \/ /\ row' = [s \in Signals |-> IF s \in proc[c].rows
                     THEN [row[s] EXCEPT !.status = SixStatus(c, s)] ELSE row[s]]
        /\ UNCHANGED faultsLeft
     \/ /\ faultsLeft > 0 /\ faultsLeft' = faultsLeft - 1
        /\ row' = [s \in Signals |-> IF s \in proc[c].rows
                     THEN [row[s] EXCEPT !.status = "error"] ELSE row[s]]
  /\ Goto(c, "path")
  /\ UNCHANGED <<world, rescored, runs, ran, requestsLeft>>

PathLoad(c) ==
  /\ proc[c].pc = "path"
  /\ Fetch(c, "pathWrite", {s \in Signals : PathDue(s)})
  /\ UNCHANGED <<world, row, rescored, runs, ran, budget>>

(* The sessions of the window that are complete and have a bar.             *)
Path(c, s) ==
  {x[2] : x \in {y \in proc[c].bars :
                   /\ y[1] = s /\ SignalDay[s] < y[2]
                   /\ y[2] <= WindowEnd(s) /\ y[2] <= proc[c].closed}}

(* A failing request leaves the paths as they are.                          *)
PathWrite(c) ==
  /\ proc[c].pc = "pathWrite"
  /\ \/ /\ row' = [s \in Signals |-> IF s \in proc[c].rows
                     THEN [row[s] EXCEPT !.seen = Cardinality(Path(c, s)),
                                         !.touch = Path(c, s) \cap Touched[s] # {}]
                     ELSE row[s]]
        /\ UNCHANGED faultsLeft
     \/ faultsLeft > 0 /\ faultsLeft' = faultsLeft - 1 /\ UNCHANGED row
  /\ Goto(c, "mark")
  /\ UNCHANGED <<world, rescored, runs, ran, requestsLeft>>

Mark(c) ==
  /\ proc[c].pc = "mark"
  /\ row' = Marked
  /\ Goto(c, IF proc[c].boot THEN "check" ELSE "review")
  /\ UNCHANGED <<world, rescored, runs, ran, budget>>

(* After the lag; again after an error; a clear row once an interval, until *)
(* the horizon of the rechecks.                                             *)
ReviewDue(s) ==
  /\ s \in Scored /\ row[s].status \in {"pending", "matured"}
  /\ row[s].label # "none" /\ WindowEnd(s) + Lag <= day
  /\ \/ row[s].action \in {"unchecked", "review_error"}
     \/ /\ row[s].action = "clear" /\ WindowEnd(s) >= day - Horizon
        /\ row[s].checked = None \/ row[s].checked + Recheck <= day

ReviewLoad(c) ==
  /\ proc[c].pc = "review"
  /\ proc' = [proc EXCEPT ![c].pc = "reviewWrite", ![c].today = day,
                ![c].rows = {s \in Signals : ReviewDue(s)},
                ![c].bars = {s \in Signals : acted[s] # None} \X {0}]
  /\ UNCHANGED <<world, row, rescored, runs, ran, budget>>

(* bars holds the signals of the actions fetched.                           *)
Reviewed(c, s) ==
  IF <<s, 0>> \in proc[c].bars THEN "affected" ELSE "clear"

ReviewWrite(c) ==
  /\ proc[c].pc = "reviewWrite"
  /\ \/ /\ row' = [s \in Signals |-> IF s \in proc[c].rows
                     THEN [row[s] EXCEPT !.action = Reviewed(c, s),
                             !.eligible = Reviewed(c, s) = "clear",
                             !.checked = proc[c].today]
                     ELSE row[s]]
        /\ UNCHANGED faultsLeft
     \/ /\ faultsLeft > 0 /\ faultsLeft' = faultsLeft - 1
        /\ row' = [s \in Signals |-> IF s \in proc[c].rows
                     THEN [row[s] EXCEPT !.action = "review_error", !.eligible = FALSE,
                                         !.checked = proc[c].today]
                     ELSE row[s]]
  /\ Goto(c, IF c = Worker THEN "rescore" ELSE "check")
  /\ UNCHANGED <<world, rescored, runs, ran, requestsLeft>>

Finish(c) ==
  /\ proc' = [proc EXCEPT ![c] = Idle]
  /\ ran' = IF c = Worker /\ ~proc[c].boot THEN TRUE ELSE ran

(* The old signals with a snapshot get a score of this version.             *)
Rescore(c) ==
  /\ proc[c].pc = "rescore"
  /\ rescored' = rescored \union (Old \cap Scored)
  /\ IF proc[c].boot THEN Finish(c) ELSE Goto(c, "check") /\ UNCHANGED ran
  /\ UNCHANGED <<world, row, runs, budget>>

(* Original scores of this version: labelled, reviewed and clear.           *)
Samples ==
  {<<s, row[s].label>> : s \in {t \in Signals \ Old :
     /\ t \in Scored /\ row[t].eligible /\ row[t].action = "clear"
     /\ PathMatured(row[t]) /\ row[t].label # "none" /\ WindowEnd(t) <= Closed}}

(* Variant: samples that were fitted before are not fitted again.           *)
EverFitted(samples) == \E i \in DOMAIN runs : runs[i].samples = samples

(* The hash of the samples is that of the latest run.                       *)
Unchanged(samples) == runs # <<>> /\ runs[Len(runs)].samples = samples

AfterCheck(c) ==
  IF proc[c].boot THEN Goto(c, "rescore") /\ UNCHANGED ran ELSE Finish(c)

Check(c) ==
  /\ proc[c].pc = "check"
  /\ IF Samples = {} \/ Unchanged(Samples) THEN AfterCheck(c)
     ELSE /\ proc' = [proc EXCEPT ![c].pc = "fit", ![c].samples = Samples,
                                  ![c].today = day]
          /\ UNCHANGED ran
  /\ UNCHANGED <<world, row, rescored, runs, budget>>

Fit(c) ==
  /\ proc[c].pc = "fit" /\ Len(runs) < MaxRuns
  /\ runs' = Append(runs, [samples |-> proc[c].samples, on |-> proc[c].today])
  /\ AfterCheck(c)
  /\ UNCHANGED <<world, row, rescored, budget>>

(* An exception ends the cycle, which a later poll begins again; at startup *)
(* it ends the part it occurs in.                                           *)
CycleFails(c) ==
  /\ proc[c].pc # "idle" /\ faultsLeft > 0 /\ faultsLeft' = faultsLeft - 1
  /\ IF proc[c].boot /\ proc[c].pc # "rescore"
     THEN Goto(c, IF proc[c].pc \in {"check", "fit"} THEN "rescore" ELSE "check")
     ELSE proc' = [proc EXCEPT ![c] = Idle]
  /\ UNCHANGED <<world, row, rescored, runs, ran, requestsLeft>>

(* The worker is started anew and catches up before its first poll.         *)
Restart ==
  /\ faultsLeft > 0 /\ faultsLeft' = faultsLeft - 1
  /\ ran' = FALSE /\ row' = Marked
  /\ proc' = [proc EXCEPT ![Worker] = [Idle EXCEPT !.pc = "six", !.boot = TRUE]]
  /\ UNCHANGED <<world, rescored, runs, requestsLeft>>

Step(c) ==
  \/ SixLoad(c) \/ SixWrite(c) \/ PathLoad(c) \/ PathWrite(c) \/ Mark(c)
  \/ ReviewLoad(c) \/ ReviewWrite(c) \/ Rescore(c) \/ Check(c) \/ Fit(c)

Next ==
  \/ Tick
  \/ \E s \in Signals : Score(s) \/ Announce(s) \/ \E d \in Days : Publish(s, d)
  \/ \E c \in Actors : Begin(c) \/ Step(c) \/ CycleFails(c)
  \/ Restart

Spec ==
  /\ Init /\ [][Next]_vars
  /\ WF_vars(Tick)
  /\ WF_vars(Begin(Worker) \/ Step(Worker)) /\ WF_vars(Step(Web))
  /\ WF_vars(\E s \in Signals : Score(s))
  /\ WF_vars(\E s \in Signals, d \in Days : Publish(s, d))

-----------------------------------------------------------------------------
(* Every fit used original scores of this version, each with the label its  *)
(* three sessions really give, and reviewed for corporate actions after the *)
(* lag, whatever a slower process wrote over the rows meanwhile.            *)
Truth(s) ==
  IF Touched[s] \cap (SignalDay[s] + 1 .. WindowEnd(s)) # {} THEN "hit" ELSE "miss"

SamplesAreSound ==
  \A i \in DOMAIN runs : \A x \in runs[i].samples :
    /\ x[1] \notin Old /\ x[2] = Truth(x[1])
    /\ WindowEnd(x[1]) + Lag <= runs[i].on

(* Every row is evaluated, labelled and reviewed in the end, and a signal is*)
(* a sample unless an action befell it that a recheck was still to see: a   *)
(* fault may cost the row one evening's review.                             *)
SeenInTime(s) ==
  acted[s] # None /\ acted[s] + Recheck + MaxFaults <= WindowEnd(s) + Horizon

OutcomesSettle ==
  <>[](\A s \in Signals :
         /\ row[s] # None /\ row[s].status = "matured" /\ row[s].label = Truth(s)
         /\ acted[s] = None => row[s].eligible
         /\ SeenInTime(s) => row[s].action = "affected" /\ ~row[s].eligible)

(* The latest run is a fit of the samples there are, although two processes *)
(* may write their runs in the other order (oversold_calibration_runtime).  *)
CalibrationFollows ==
  <>[](Samples # {} => runs # <<>> /\ runs[Len(runs)].samples = Samples)
=============================================================================
