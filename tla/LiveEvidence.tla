---------------------------- MODULE LiveEvidence ----------------------------
(***************************************************************************)
(* The live E-003C evidence: the daily maintenance queues a loader job for *)
(* each day whose session is over, the freeze writes down the signals of   *)
(* the latest day a job has completed, and the capture records next        *)
(* morning's basket from them and its exit before the close.  The three    *)
(* share rd_jobs and rd_daily_features with the loader and its operator.   *)
(*                                                                         *)
(* The dates are trade dates: weekends and the limit of 14 days of repair  *)
(* are left out.  A day has three slots: the entry window (09:30 to 09:35),*)
(* the exit window (15:58:30 to 15:59:59) and the evening (from 20:15, when*)
(* the all-session day can be complete, to the next morning).              *)
(***************************************************************************)
EXTENDS Integers, FiniteSets, Sequences

CONSTANTS
  LastDay,       (* bound: the trade dates are 1..LastDay; 0 is history     *)
  Captures,      (* capture tasks: two while a deployment overlaps          *)
  Names,         (* symbols                                                 *)
  Thin,          (* those that pass the screen over incomplete features     *)
  MinBasket,     (* MIN_BASKET_NAMES                                        *)
  None,
  MaxJobs,       (* bound: rows of rd_jobs                                  *)
  MaxOps,        (* bound: jobs the operator creates or resumes             *)
  MaxMishaps     (* bound: jobs that stop                                   *)

ASSUME LiveAssumption ==
  /\ LastDay \in Nat \ {0} /\ MinBasket \in Nat \ {0}
  /\ IsFiniteSet(Names) /\ Thin \subseteq Names
  /\ MaxJobs \in Nat /\ MaxOps \in Nat /\ MaxMishaps \in Nat
  /\ None \notin Nat

Dates == 0..LastDay
Days  == 1..LastDay
Slots == {"entry", "exit", "evening"}

VARIABLES
  day, slot,
  job,        (* rd_jobs: the matching jobs, in the order of the inserts    *)
  features,   (* rd_daily_features of each date                             *)
  frozen,     (* ra_e003c_signal_freeze_days with its candidates            *)
  freezer,    (* the maintenance task                                       *)
  live,       (* ra_e003c_live_days                                         *)
  names,      (* ra_e003c_live_candidates of each trade date                *)
  capture,    (* the capture tasks                                          *)
  early,      (* history: the trade dates whose signal was frozen before    *)
  opsLeft, mishapsLeft

clock  == <<day, slot>>
store  == <<job, features>>
book   == <<live, names>>
budget == <<opsLeft, mishapsLeft>>
vars   == <<clock, store, frozen, freezer, book, capture, early, budget>>

Basis   == [date : Dates, prior : Dates \union {None}, whole : BOOLEAN, full : BOOLEAN]
Job     == [lo : Days, hi : Days, status : {"active", "stopped", "completed"},
            fetched : Dates \union {None}, safe : Dates \union {None}]
NameRow == [signal : Dates, name : Names, executable : BOOLEAN,
            included : BOOLEAN, exited : BOOLEAN]
Verdict == [signal : Dates, executable : 0..Cardinality(Names), eligible : BOOLEAN]
Still   == [pc |-> "idle", signal |-> None, list |-> {}]

TypeOK ==
  /\ day \in Days /\ slot \in Slots
  /\ job \in Seq(Job) /\ Len(job) <= MaxJobs
  /\ features \in [Dates -> {"none", "partial", "full"}]
  /\ frozen \in [Dates -> Basis \union {None}]
  /\ freezer \in Basis \union {None}
  /\ live \in [Days -> Verdict \union {None}]
  /\ names \in [Days -> SUBSET NameRow]
  /\ capture \in [Captures -> [pc : {"idle", "quotes", "exit"},
                              signal : Dates \union {None},
                              list : SUBSET (Names \union NameRow)]]
  /\ early \subseteq Days
  /\ opsLeft \in 0..MaxOps /\ mishapsLeft \in 0..MaxMishaps

Init ==
  /\ day = 1 /\ slot = "entry"
  /\ job = <<>>
  /\ features = [d \in Dates |-> IF d = 0 THEN "full" ELSE "none"]
  /\ frozen = [d \in Dates |-> None]
  /\ freezer = None
  /\ live = [t \in Days |-> None]
  /\ names = [t \in Days |-> {}]
  /\ capture = [c \in Captures |-> Still]
  /\ early = {}
  /\ opsLeft = MaxOps /\ mishapsLeft = MaxMishaps

LatestOf(S) == CHOOSE d \in S : \A e \in S : e <= d

(* The latest date whose all-session day is over.                          *)
SafeDate == IF slot = "evening" THEN day ELSE day - 1

-----------------------------------------------------------------------------
(* The loader, as its jobs and features look from here.                     *)

Covers(j, d) == job[j].lo <= d /\ d <= job[j].hi

NewJob(lo, hi) ==
  [lo |-> lo, hi |-> hi, status |-> "active", fetched |-> None, safe |-> None]

(* The operator loads a range, today's unfinished session included.         *)
OperatorJob ==
  /\ opsLeft > 0 /\ Len(job) < MaxJobs
  /\ \E lo \in Days : lo <= day /\ job' = Append(job, NewJob(lo, day))
  /\ opsLeft' = opsLeft - 1
  /\ UNCHANGED <<clock, features, frozen, freezer, book, capture, early,
                 mishapsLeft>>

(* What there is of a day's session is downloaded and aggregated: all of it *)
(* once the day is safe.  Bars are added, never removed.                    *)
Aggregated(d) ==
  IF d <= SafeDate \/ features[d] = "full" THEN "full" ELSE "partial"

JobFetches(j) ==
  /\ job[j].status = "active" /\ job[j].fetched = None
  /\ features' = [d \in Dates |-> IF d \in Days /\ Covers(j, d) THEN Aggregated(d)
                                                               ELSE features[d]]
  /\ job' = [job EXCEPT ![j].fetched = SafeDate]
  /\ UNCHANGED <<clock, frozen, freezer, book, capture, early, budget>>

JobCompletes(j) ==
  /\ job[j].status = "active" /\ job[j].fetched # None
  /\ job' = [job EXCEPT ![j].status = "completed", ![j].safe = SafeDate]
  /\ UNCHANGED <<clock, features, frozen, freezer, book, capture, early,
                 budget>>

(* A job fails, is paused or cancelled; the operator may let it go on.      *)
JobStops(j) ==
  /\ job[j].status = "active" /\ mishapsLeft > 0
  /\ job' = [job EXCEPT ![j].status = "stopped"]
  /\ mishapsLeft' = mishapsLeft - 1
  /\ UNCHANGED <<clock, features, frozen, freezer, book, capture, early,
                 opsLeft>>

JobResumes(j) ==
  /\ job[j].status = "stopped" /\ opsLeft > 0
  /\ job' = [job EXCEPT ![j].status = "active"]
  /\ opsLeft' = opsLeft - 1
  /\ UNCHANGED <<clock, features, frozen, freezer, book, capture, early,
                 mishapsLeft>>

-----------------------------------------------------------------------------
(* The maintenance task: queue what is missing, then freeze.                *)

(* Variant: a job that completed at any time is a proof.                    *)
Claimed(d) == \E j \in DOMAIN job : job[j].status = "completed" /\ Covers(j, d)

(* A job that covers the date completed after 20:15 of that date.           *)
Proven(d) ==
  \E j \in DOMAIN job :
    job[j].status = "completed" /\ Covers(j, d) /\ job[j].safe >= d

DayIsLoaded(d)    == features[d] # "none" /\ Proven(d)
HasCoveringJob(d) == \E j \in DOMAIN job : job[j].status = "active" /\ Covers(j, d)

LatestFeatureDate == LatestOf({d \in Dates : features[d] # "none"})

(* Variant: a day with features is never gone back to.                      *)
NextMissing == LatestFeatureDate + 1

(* From the day after the latest features; from that day, if it is partial. *)
FirstMissing ==
  IF LatestFeatureDate = SafeDate /\ ~DayIsLoaded(SafeDate)
  THEN SafeDate ELSE LatestFeatureDate + 1

Missing ==
  {d \in Days : /\ FirstMissing <= d /\ d <= SafeDate
                /\ ~DayIsLoaded(d) /\ ~HasCoveringJob(d)}

(* Dates in their order.                                                   *)
Ascending(S) ==
  {s \in [1..Cardinality(S) -> S] : \A m, n \in DOMAIN s : m < n => s[m] < s[n]}

DailyJobs(dates) == [n \in DOMAIN dates |-> NewJob(dates[n], dates[n])]

(* The latest date with features, a proof, and no job at work on it.        *)
Freezable ==
  {d \in Days : /\ d <= SafeDate /\ features[d] # "none"
                /\ Proven(d) /\ ~HasCoveringJob(d)}

(* The screen compares the date with the one before it that has features.   *)
Screened(d) ==
  LET before == {e \in Dates : e < d /\ features[e] # "none"}
      prior  == IF before = {} THEN None ELSE LatestOf(before)
  IN [date |-> d, prior |-> prior, whole |-> features[d] = "full",
      full |-> features[d] = "full" /\ prior # None /\ features[prior] = "full"]

Candidates(basis) ==
  IF basis.prior = None THEN {} ELSE IF basis.full THEN Names ELSE Thin

Unfrozen == Freezable # {} /\ frozen[LatestOf(Freezable)] = None

Maintain ==
  /\ freezer = None
  /\ Missing # {} \/ Unfrozen
  /\ Len(job) + Cardinality(Missing) <= MaxJobs
  /\ \E dates \in Ascending(Missing) : job' = job \o DailyJobs(dates)
  /\ freezer' = IF Unfrozen THEN Screened(LatestOf(Freezable)) ELSE None
  /\ UNCHANGED <<clock, features, frozen, book, capture, early, budget>>

(* The candidates read are written in a later transaction.                  *)
Freeze ==
  /\ freezer # None
  /\ frozen' = [frozen EXCEPT ![freezer.date] = IF @ = None THEN freezer ELSE @]
  /\ freezer' = None
  /\ UNCHANGED <<clock, store, book, capture, early, budget>>

FreezeFails ==
  /\ freezer # None
  /\ freezer' = None
  /\ UNCHANGED <<clock, store, frozen, book, capture, early, budget>>

-----------------------------------------------------------------------------
(* The capture tasks.                                                       *)

LatestSignalDate == LatestOf({d \in Dates : d < day /\ features[d] # "none"})

(* The frozen list when there is one, and a fresh screen otherwise.         *)
EntryCandidates(d) ==
  Candidates(IF frozen[d] # None THEN frozen[d] ELSE Screened(d))

EntryBegins(c) ==
  /\ slot = "entry"
  /\ capture[c].pc = "idle" /\ live[day] = None
  /\ capture' = [capture EXCEPT ![c] =
       [pc |-> "quotes", signal |-> LatestSignalDate,
        list |-> EntryCandidates(LatestSignalDate)]]
  /\ UNCHANGED <<clock, store, frozen, freezer, book, early, budget>>

(* Variant: the verdict of the basket is written by the first capture only. *)
UpsertedOnce(rows, signal, list, executable, eligible) ==
  LET known == {r.name : r \in rows}
  IN {[r EXCEPT !.executable = r.name \in executable] : r \in rows} \union
     {[signal |-> signal, name |-> n, executable |-> n \in executable,
       included |-> eligible /\ n \in executable, exited |-> FALSE]
        : n \in list \ known}

(* The upsert replaces the day, and the row of each name of this list.      *)
Upserted(rows, signal, list, executable, eligible) ==
  LET old(n) == {r \in rows : r.signal = signal /\ r.name = n}
  IN {r \in rows : r.signal # signal \/ r.name \notin list} \union
     {[signal |-> signal, name |-> n, executable |-> n \in executable,
       included |-> eligible /\ n \in executable,
       exited |-> \E r \in old(n) : r.exited] : n \in list}

EntryWrites(c) ==
  /\ capture[c].pc = "quotes"
  /\ \E executable \in SUBSET capture[c].list :
       LET count    == Cardinality(executable)
           eligible == count >= MinBasket
       IN /\ live' = [live EXCEPT ![day] = [signal |-> capture[c].signal,
                        executable |-> count, eligible |-> eligible]]
          /\ names' = [names EXCEPT ![day] =
               Upserted(@, capture[c].signal, capture[c].list, executable, eligible)]
  /\ capture' = [capture EXCEPT ![c] = Still]
  /\ UNCHANGED <<clock, store, frozen, freezer, early, budget>>

Included == {r \in names[day] : r.included}

ExitBegins(c) ==
  /\ slot = "exit"
  /\ capture[c].pc = "idle" /\ Included # {}
  /\ capture' = [capture EXCEPT ![c] = [Still EXCEPT !.pc = "exit", !.list = Included]]
  /\ UNCHANGED <<clock, store, frozen, freezer, book, early, budget>>

(* Names without a quote of the exit window keep what an earlier poll wrote.*)
ExitWrites(c) ==
  /\ capture[c].pc = "exit"
  /\ \E quoted \in SUBSET capture[c].list :
       names' = [names EXCEPT ![day] =
         {[r EXCEPT !.exited = @ \/ \E q \in quoted : q.name = r.name /\ q.signal = r.signal]
            : r \in @}]
  /\ capture' = [capture EXCEPT ![c] = Still]
  /\ UNCHANGED <<clock, store, frozen, freezer, live, early, budget>>

(* A failing call or a restart: nothing is written, a later poll tries.     *)
CaptureFails(c) ==
  /\ capture[c].pc # "idle"
  /\ capture' = [capture EXCEPT ![c] = Still]
  /\ UNCHANGED <<clock, store, frozen, freezer, book, early, budget>>

-----------------------------------------------------------------------------
(* A request does not outlast a slot; the maintenance may miss one.         *)
Tick ==
  /\ \A c \in Captures : capture[c].pc = "idle"
  /\ freezer = None
  /\ \/ slot = "entry" /\ slot' = "exit" /\ UNCHANGED <<day, early>>
     \/ slot = "exit" /\ slot' = "evening" /\ UNCHANGED <<day, early>>
     \/ /\ slot = "evening" /\ day < LastDay
        /\ day' = day + 1 /\ slot' = "entry"
        /\ early' = IF frozen[day] # None THEN early \union {day + 1} ELSE early
  /\ UNCHANGED <<store, frozen, freezer, book, capture, budget>>

Next ==
  \/ OperatorJob
  \/ \E j \in DOMAIN job :
       JobFetches(j) \/ JobCompletes(j) \/ JobStops(j) \/ JobResumes(j)
  \/ Maintain \/ Freeze \/ FreezeFails
  \/ \E c \in Captures : \/ EntryBegins(c) \/ EntryWrites(c) \/ ExitBegins(c)
                         \/ ExitWrites(c) \/ CaptureFails(c)
  \/ Tick

Spec ==
  /\ Init /\ [][Next]_vars
  /\ WF_vars(Maintain) /\ WF_vars(Freeze)
  /\ \A j \in 1..MaxJobs :
       WF_vars(j \in DOMAIN job /\ (JobFetches(j) \/ JobCompletes(j)))

-----------------------------------------------------------------------------
(* A job whose download of a date began before its session was over, and    *)
(* which completed after: its completion time proves too much.              *)
Straddles(d) ==
  \E j \in DOMAIN job :
    /\ job[j].status = "completed" /\ Covers(j, d)
    /\ job[j].safe >= d /\ job[j].fetched < d

(* What is frozen of a date was screened over its whole session, unless an  *)
(* operator's job straddled the close (_feature_date_has_completed...).     *)
FrozenIsWhole ==
  \A d \in Days : frozen[d] # None /\ ~Straddles(d) => frozen[d].whole

(* A basket whose signal was frozen before its session is the frozen list,  *)
(* with one verdict for the day and its names, whichever of the overlapping *)
(* captures wrote last, and only its included names have an exit.           *)
BasketIsFrozenList ==
  \A t \in early : live[t] # None =>
    LET included == {r \in names[t] : r.included}
    IN /\ {r.name : r \in names[t]} = Candidates(frozen[t - 1])
       /\ \A r \in names[t] : r.signal = t - 1 /\ (r.exited => r.included)
       /\ included = IF live[t].eligible THEN {r \in names[t] : r.executable} ELSE {}
       /\ live[t].executable = Cardinality({r \in names[t] : r.executable})

(* The last day is loaded in the end, although an operator's job left part  *)
(* of it before the close and a job for it stops (queue_safe_missing_days). *)
LastDayLoads == [](day = LastDay /\ slot = "evening" => <>DayIsLoaded(LastDay))
=============================================================================
