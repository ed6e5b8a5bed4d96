------------------------- MODULE LiveEvidenceProofs -------------------------
(***************************************************************************)
(* Proofs about LiveEvidence: for any number of dates, captures, names and *)
(* jobs, what is frozen was screened over whole sessions, and the basket   *)
(* of the next morning is the frozen list.                                 *)
(***************************************************************************)
EXTENDS LiveEvidence, FiniteSetTheorems, SequenceTheorems, WellFoundedInduction, TLAPS

(* What a coroutine holds suits the step it has reached, and the history   *)
(* has features.                                                           *)
Holds(k) ==
  /\ k.pc = "quotes" => k.signal \in Dates /\ k.list \subseteq Names
  /\ k.pc = "exit"   => k.list \subseteq NameRow

TypeInv ==
  /\ TypeOK
  /\ \A c \in Captures : Holds(capture[c])
  /\ features[0] # "none"

(* What was safe when a job's download began is full once it has begun,    *)
(* and a job that completes has downloaded.                                *)
Delivered(k, f) ==
  /\ k.status = "completed" => k.fetched # None
  /\ k.fetched # None =>
       \A d \in Days : k.lo <= d /\ d <= k.hi /\ d <= k.fetched => f[d] = "full"
JobInv == \A j \in DOMAIN job : Delivered(job[j], features)

(* What the maintenance carries from its reading to its writing, and what  *)
(* it has written, was screened over a whole session or is excused.        *)
Grounded(d, basis) == features[d] # "none" /\ (basis.whole \/ Straddles(d))
FreezeInv ==
  /\ freezer # None => freezer.date \in Days /\ Grounded(freezer.date, freezer)
  /\ \A d \in Dates : frozen[d] # None => d \in Days /\ Grounded(d, frozen[d])

(* The rows of a basket: which names of the list had quotes, and which of  *)
(* these have an exit.                                                     *)
Row(d, e, X, E, n) ==
  [signal |-> d, name |-> n, executable |-> n \in X,
   included |-> e /\ n \in X, exited |-> n \in E]
Basket(d, list, l, rows) ==
  \E X \in SUBSET list : \E E \in SUBSET X :
    /\ E # {} => l.eligible
    /\ l.executable = Cardinality(X)
    /\ rows = {Row(d, l.eligible, X, E, n) : n \in list}

(* What a capture holds of a day whose signal was frozen in time.          *)
Captured(k) ==
  /\ k.pc = "quotes" => /\ slot = "entry"
                        /\ day \in early => /\ k.signal = day - 1
                                            /\ k.list = Candidates(frozen[day - 1])
  /\ k.pc = "exit" => /\ slot = "exit"
                      /\ \A q \in k.list : \E r \in names[day] :
                           r.included /\ r.name = q.name

BasketInv ==
  /\ \A t \in early : t <= day /\ t - 1 \in Dates /\ frozen[t - 1] # None
  /\ \A c \in Captures : Captured(capture[c])
  /\ \A t \in Days : t > day => live[t] = None /\ names[t] = {}
  /\ slot = "entry" => \A r \in names[day] : ~r.exited
  /\ \A t \in early :
       \/ live[t] = None /\ names[t] = {}
       \/ Basket(t - 1, Candidates(frozen[t - 1]), live[t], names[t])

IInv == TypeInv /\ JobInv /\ FreezeInv /\ BasketInv

USE DEF clock, store, book, budget

-----------------------------------------------------------------------------
(* A set of dates that is not empty has a latest.                          *)
LEMMA LatestIs ==
  ASSUME NEW S \in SUBSET Dates, S # {}
  PROVE  LatestOf(S) \in S /\ \A e \in S : e <= LatestOf(S)
<1> USE LiveAssumption DEF Dates
<1> DEFINE R == OpToRel(<, Nat)
           T == {LastDay - d : d \in S}
<1>1. T \in SUBSET Nat /\ T # {}
  <2>1. \A d \in S : d \in Nat /\ LastDay - d \in Nat
    OBVIOUS
  <2> QED
    BY <2>1
<1>2. PICK x \in T : \A y \in T : ~(<<y, x>> \in R)
  <2>1. IsWellFoundedOn(R, Nat)
    BY NatLessThanWellFounded
  <2> HIDE DEF R, T
  <2> QED
    BY <1>1, <2>1, WFMin
<1>3. \A y \in T : ~(y < x)
  BY <1>1, <1>2 DEF OpToRel
<1>4. PICK d \in S : x = LastDay - d
  BY <1>2
<1>5. \A e \in S : e <= d
  <2> TAKE e \in S
  <2>1. LastDay - e \in T
    OBVIOUS
  <2>2. ~(LastDay - e < LastDay - d)
    BY <1>3, <1>4, <2>1
  <2> QED
    BY <2>2
<1> HIDE DEF T, R, Dates
<1> QED
  BY <1>5 DEF LatestOf

(* One job's row is written.                                               *)
LEMMA JobEdit ==
  ASSUME TypeOK, NEW j \in DOMAIN job, NEW k \in Job, job' = [job EXCEPT ![j] = k]
  PROVE  /\ job' \in Seq(Job) /\ Len(job') <= MaxJobs
         /\ DOMAIN job' = DOMAIN job /\ job'[j] = k
         /\ \A i \in DOMAIN job : i # j => job'[i] = job[i]
<1>1. job \in Seq(Job) /\ Len(job) <= MaxJobs /\ j \in 1..Len(job)
  BY DEF TypeOK
<1>2. /\ job' \in Seq(Job) /\ Len(job') = Len(job)
      /\ \A i \in 1..Len(job) : job'[i] = IF i = j THEN k ELSE job[i]
  BY <1>1, ExceptSeq
<1>3. DOMAIN job' = 1..Len(job') /\ DOMAIN job = 1..Len(job)
  BY <1>1, <1>2
<1> QED
  BY <1>1, <1>2, <1>3

(* Jobs are queued behind the others.                                      *)
LEMMA JobsQueued ==
  ASSUME TypeOK, NEW rows \in Seq(Job), Len(job) + Len(rows) <= MaxJobs, job' = job \o rows,
         \A i \in 1..Len(rows) : rows[i].status = "active" /\ rows[i].fetched = None
  PROVE  /\ job' \in Seq(Job) /\ Len(job') <= MaxJobs
         /\ DOMAIN job \subseteq DOMAIN job'
         /\ \A i \in DOMAIN job : job'[i] = job[i]
         /\ \A i \in DOMAIN job' \ DOMAIN job :
              job'[i].status = "active" /\ job'[i].fetched = None
<1>1. job \in Seq(Job) /\ DOMAIN job = 1..Len(job) /\ Len(job) \in Nat /\ Len(rows) \in Nat
  BY DEF TypeOK
<1>2. /\ job' \in Seq(Job) /\ Len(job') = Len(job) + Len(rows)
      /\ \A i \in 1..Len(job) + Len(rows) :
           job'[i] = IF i <= Len(job) THEN job[i] ELSE rows[i - Len(job)]
  BY <1>1, ConcatProperties
<1>3. DOMAIN job' = 1..(Len(job) + Len(rows))
  BY <1>2
<1>4. \A i \in DOMAIN job' \ DOMAIN job : i - Len(job) \in 1..Len(rows) /\ ~(i <= Len(job))
  BY <1>1, <1>3
<1> QED
  BY <1>1, <1>2, <1>3, <1>4

(* A new job's row.                                                        *)
LEMMA NewJobRow ==
  ASSUME NEW lo \in Days, NEW hi \in Days
  PROVE  NewJob(lo, hi) \in Job /\ NewJob(lo, hi).status = "active" /\ NewJob(lo, hi).fetched = None
BY DEF NewJob, Job

(* What every step leaves: a completed job, a date with features.          *)
JobsKeep == /\ DOMAIN job \subseteq DOMAIN job'
            /\ \A j \in DOMAIN job : job[j].status = "completed" => job'[j] = job[j]
FeaturesKeep == \A d \in Dates : features[d] # "none" => features'[d] # "none"

(* An excuse stays one.                                                    *)
LEMMA ExcuseStays ==
  ASSUME JobsKeep, NEW d, Straddles(d) PROVE Straddles(d)'
BY DEF JobsKeep, Straddles, Covers

-----------------------------------------------------------------------------
(* The loader's side.                                                      *)

(* What every step keeps of the jobs and the features.                     *)
StoreKept ==
  /\ job' \in Seq(Job) /\ Len(job') <= MaxJobs
  /\ features' \in [Dates -> {"none", "partial", "full"}] /\ features'[0] # "none"
  /\ JobInv' /\ JobsKeep /\ FeaturesKeep

(* A step that touches neither keeps both.                                 *)
LEMMA StoreUnchanged ==
  ASSUME TypeInv, JobInv, UNCHANGED <<job, features>> PROVE StoreKept
BY DEF TypeInv, TypeOK, JobInv, StoreKept, JobsKeep, FeaturesKeep

(* The last safe date is a date.                                           *)
LEMMA SafeIsDate == ASSUME TypeOK PROVE SafeDate \in Dates /\ SafeDate <= day
BY LiveAssumption DEF TypeOK, SafeDate, Dates, Days

(* The fields a status change leaves to its row.                           *)
LEMMA JobWithStatus ==
  ASSUME NEW k \in Job, NEW s \in {"active", "stopped", "completed"}
  PROVE  /\ [k EXCEPT !.status = s] \in Job
         /\ [k EXCEPT !.status = s].status = s
         /\ [k EXCEPT !.status = s].fetched = k.fetched
         /\ [k EXCEPT !.status = s].lo = k.lo /\ [k EXCEPT !.status = s].hi = k.hi
BY DEF Job

(* And those a download leaves.                                            *)
LEMMA JobWithFetched ==
  ASSUME NEW k \in Job, NEW f \in Dates
  PROVE  /\ [k EXCEPT !.fetched = f] \in Job
         /\ [k EXCEPT !.fetched = f].status = k.status
         /\ [k EXCEPT !.fetched = f].fetched = f
         /\ [k EXCEPT !.fetched = f].lo = k.lo /\ [k EXCEPT !.fetched = f].hi = k.hi
BY DEF Job

(* The operator's jobs have downloaded nothing yet.                        *)
LEMMA OperatorJobKeeps == ASSUME TypeInv, JobInv, OperatorJob PROVE StoreKept
<1>1. PICK lo \in Days : job' = Append(job, NewJob(lo, day))
  BY DEF OperatorJob
<1> DEFINE rows == <<NewJob(lo, day)>>
<1>2. rows \in Seq(Job) /\ Len(rows) = 1
      /\ rows[1].status = "active" /\ rows[1].fetched = None
  BY NewJobRow DEF TypeInv, TypeOK
<1>3. job' = job \o rows
  BY <1>1 DEF TypeInv, TypeOK
<1>4. Len(job) + Len(rows) <= MaxJobs
  BY <1>2, LiveAssumption DEF OperatorJob, TypeInv, TypeOK
<1>5. /\ job' \in Seq(Job) /\ Len(job') <= MaxJobs
      /\ DOMAIN job \subseteq DOMAIN job'
      /\ \A i \in DOMAIN job : job'[i] = job[i]
      /\ \A i \in DOMAIN job' \ DOMAIN job :
           job'[i].status = "active" /\ job'[i].fetched = None
  <2> HIDE DEF rows
  <2>1. \A i \in 1..Len(rows) : rows[i].status = "active" /\ rows[i].fetched = None
    <3> TAKE i \in 1..Len(rows)
    <3>1. i = 1
      BY <1>2
    <3> QED
      BY <1>2, <3>1
  <2> QED
    BY <1>2, <1>3, <1>4, <2>1, JobsQueued DEF TypeInv
<1> QED
  BY <1>5 DEF StoreKept, JobsKeep, FeaturesKeep, JobInv, Delivered, OperatorJob, TypeInv, TypeOK

(* A download makes what is safe full, and takes no feature back.          *)
LEMMA JobFetchesKeeps ==
  ASSUME TypeInv, JobInv, NEW j \in DOMAIN job, JobFetches(j) PROVE StoreKept
<1> DEFINE k == [job[j] EXCEPT !.fetched = SafeDate]
<1>1. job[j] \in Job /\ SafeDate \in Dates
  BY SafeIsDate DEF TypeInv, TypeOK
<1>2. /\ k \in Job /\ k.status = job[j].status /\ k.fetched = SafeDate
      /\ k.lo = job[j].lo /\ k.hi = job[j].hi
  BY <1>1, JobWithFetched
<1>3. job' = [job EXCEPT ![j] = k]
  BY DEF JobFetches
<1> HIDE DEF k
<1>4. /\ job' \in Seq(Job) /\ Len(job') <= MaxJobs
      /\ DOMAIN job' = DOMAIN job /\ job'[j] = k
      /\ \A i \in DOMAIN job : i # j => job'[i] = job[i]
  BY <1>2, <1>3, JobEdit DEF TypeInv
<1>5. \A d \in Dates :
        features'[d] = IF d \in Days /\ Covers(j, d) THEN Aggregated(d) ELSE features[d]
  BY DEF JobFetches
<1>6. /\ features' \in [Dates -> {"none", "partial", "full"}] /\ features'[0] # "none"
      /\ FeaturesKeep /\ \A d \in Dates : features[d] = "full" => features'[d] = "full"
  <2>1. 0 \in Dates /\ 0 \notin Days
    BY LiveAssumption DEF Dates, Days
  <2> QED
    BY <1>5, <2>1 DEF JobFetches, Aggregated, FeaturesKeep, TypeInv, TypeOK
<1>7. \A d \in Days : k.lo <= d /\ d <= k.hi /\ d <= SafeDate => features'[d] = "full"
  BY <1>2, <1>5 DEF Covers, Aggregated, Days, Dates
<1>8. Delivered(k, features')
  BY <1>2, <1>7 DEF Delivered, JobFetches
<1>9. \A i \in DOMAIN job : i # j => Delivered(job[i], features')
  BY <1>6 DEF JobInv, Delivered, Days, Dates
<1> QED
  BY <1>4, <1>6, <1>8, <1>9 DEF StoreKept, JobsKeep, JobInv, JobFetches

(* A job that completes has downloaded; one that stops or goes on downloads*)
(* nothing by it.                                                          *)
LEMMA JobSettlesKeeps ==
  ASSUME TypeInv, JobInv, NEW j \in DOMAIN job, JobCompletes(j) \/ JobStops(j) \/ JobResumes(j)
  PROVE  StoreKept
<1>1. job[j] \in Job /\ SafeDate \in Dates
  BY SafeIsDate DEF TypeInv, TypeOK
<1>2. PICK k \in Job :
        /\ job' = [job EXCEPT ![j] = k]
        /\ k.status = "completed" => k.fetched # None
        /\ k.fetched = job[j].fetched /\ k.lo = job[j].lo /\ k.hi = job[j].hi
  <2>1. CASE JobCompletes(j)
    <3>1. [job[j] EXCEPT !.status = "completed", !.safe = SafeDate] \in Job
      BY <1>1 DEF Job
    <3>2. LET k == [job[j] EXCEPT !.status = "completed", !.safe = SafeDate]
          IN k.fetched = job[j].fetched /\ k.lo = job[j].lo /\ k.hi = job[j].hi
      BY <1>1 DEF Job
    <3> QED
      BY <2>1, <3>1, <3>2 DEF JobCompletes
  <2>2. CASE JobStops(j)
    BY <1>1, <2>2, JobWithStatus DEF JobStops
  <2>3. CASE JobResumes(j)
    BY <1>1, <2>3, JobWithStatus DEF JobResumes
  <2> QED
    BY <2>1, <2>2, <2>3
<1>3. /\ job' \in Seq(Job) /\ Len(job') <= MaxJobs
      /\ DOMAIN job' = DOMAIN job /\ job'[j] = k
      /\ \A i \in DOMAIN job : i # j => job'[i] = job[i]
  BY <1>2, JobEdit DEF TypeInv
<1>4. features' = features /\ job[j].status # "completed"
  BY DEF JobCompletes, JobStops, JobResumes
<1>5. Delivered(k, features)
  BY <1>2 DEF JobInv, Delivered
<1> QED
  BY <1>3, <1>4, <1>5 DEF StoreKept, JobsKeep, FeaturesKeep, JobInv, TypeInv, TypeOK

-----------------------------------------------------------------------------
(* The maintenance.                                                        *)

(* What it queues has downloaded nothing yet.                              *)
LEMMA MaintainKeeps == ASSUME TypeInv, JobInv, Maintain PROVE StoreKept
<1>1. PICK dates \in Ascending(Missing) : job' = job \o DailyJobs(dates)
  BY DEF Maintain
<1>2. Missing \subseteq Days /\ Cardinality(Missing) \in Nat
  <2>1. Missing \subseteq Days
    BY DEF Missing
  <2>2. IsFiniteSet(Days)
    BY FS_Interval, LiveAssumption DEF Days
  <2> QED
    BY <2>1, <2>2, FS_Subset, FS_CardinalityType
<1> DEFINE rows == DailyJobs(dates)
<1>3. /\ rows \in Seq(Job) /\ Len(rows) = Cardinality(Missing)
      /\ \A i \in 1..Len(rows) : rows[i].status = "active" /\ rows[i].fetched = None
  <2>1. DOMAIN dates = 1..Cardinality(Missing)
        /\ \A i \in 1..Cardinality(Missing) : dates[i] \in Days
    BY <1>2 DEF Ascending
  <2>2. /\ rows = [i \in 1..Cardinality(Missing) |-> NewJob(dates[i], dates[i])]
        /\ \A i \in 1..Cardinality(Missing) : NewJob(dates[i], dates[i]) \in Job
    BY <2>1, NewJobRow DEF DailyJobs
  <2>3. rows \in Seq(Job) /\ Len(rows) = Cardinality(Missing)
    BY <1>2, <2>2
  <2>4. \A i \in 1..Cardinality(Missing) : rows[i] = NewJob(dates[i], dates[i])
    BY <2>2
  <2> HIDE DEF rows
  <2> QED
    BY <2>1, <2>3, <2>4, NewJobRow
<1> HIDE DEF rows
<1>4. /\ job' \in Seq(Job) /\ Len(job') <= MaxJobs
      /\ DOMAIN job \subseteq DOMAIN job'
      /\ \A i \in DOMAIN job : job'[i] = job[i]
      /\ \A i \in DOMAIN job' \ DOMAIN job :
           job'[i].status = "active" /\ job'[i].fetched = None
  <2>1. job' = job \o rows
    BY <1>1 DEF rows
  <2>2. Len(job) + Len(rows) <= MaxJobs
    BY <1>3 DEF Maintain
  <2> QED
    BY <1>3, <2>1, <2>2, JobsQueued DEF TypeInv
<1> QED
  BY <1>4 DEF StoreKept, JobsKeep, FeaturesKeep, JobInv, Delivered, Maintain, TypeInv, TypeOK

(* What it may freeze was completed, and is whole unless a download of it  *)
(* began too early.                                                        *)
LEMMA FreezableIsGrounded ==
  ASSUME TypeInv, JobInv, NEW d \in Freezable
  PROVE  d \in Days /\ Screened(d).date = d /\ Grounded(d, Screened(d))
<1>1. PICK j \in DOMAIN job :
        job[j].status = "completed" /\ Covers(j, d) /\ job[j].safe >= d
  BY DEF Freezable, Proven
<1>2. CASE job[j].fetched < d
  BY <1>1, <1>2 DEF Freezable, Straddles, Grounded, Screened
<1>3. CASE ~(job[j].fetched < d)
  <2>1. job[j] \in Job /\ job[j].fetched # None /\ d \in Days
    BY <1>1 DEF TypeInv, TypeOK, JobInv, Delivered, Freezable
  <2>2. d <= job[j].fetched
    BY <1>3, <2>1 DEF Job, Dates, Days
  <2>3. features[d] = "full"
    BY <1>1, <2>1, <2>2 DEF JobInv, Delivered, Covers
  <2> QED
    BY <2>1, <2>3 DEF Grounded, Screened
<1> QED
  BY <1>2, <1>3

(* What was screened is a basis.                                           *)
LEMMA ScreenedIsBasis ==
  ASSUME TypeInv, NEW d \in Dates PROVE Screened(d) \in Basis
<1> DEFINE before == {e \in Dates : e < d /\ features[e] # "none"}
           prior  == IF before = {} THEN None ELSE LatestOf(before)
           whole  == features[d] = "full"
           full   == features[d] = "full" /\ prior # None /\ features[prior] = "full"
<1>1. prior \in Dates \union {None}
  <2>1. before \in SUBSET Dates
    OBVIOUS
  <2> HIDE DEF before
  <2> QED
    BY <2>1, LatestIs
<1>2. whole \in BOOLEAN /\ full \in BOOLEAN
  OBVIOUS
<1>3. Screened(d) = [date |-> d, prior |-> prior, whole |-> whole, full |-> full]
  BY DEF Screened
<1> HIDE DEF before, prior, whole, full
<1> QED
  BY <1>1, <1>2, <1>3 DEF Basis

(* A step that freezes nothing keeps what is frozen grounded.              *)
LEMMA FreezeKept ==
  ASSUME FreezeInv, StoreKept, frozen' = frozen, freezer' = freezer \/ freezer' = None
  PROVE  FreezeInv'
<1>1. ASSUME NEW d \in Dates, NEW b, Grounded(d, b) PROVE Grounded(d, b)'
  BY <1>1, ExcuseStays DEF Grounded, StoreKept, FeaturesKeep
<1>2. Days \subseteq Dates
  BY DEF Days, Dates
<1> QED
  BY <1>1, <1>2 DEF FreezeInv

(* The latest of what may be frozen is read.                               *)
LEMMA MaintainReads ==
  ASSUME TypeInv, JobInv, FreezeInv, Maintain, StoreKept
  PROVE  FreezeInv' /\ freezer' \in Basis \union {None}
<1>1. CASE ~Unfrozen
  BY <1>1, FreezeKept DEF Maintain
<1>2. CASE Unfrozen
  <2>1. PICK d \in Freezable : d = LatestOf(Freezable)
    <3>1. Freezable \in SUBSET Dates /\ Freezable # {}
      BY <1>2 DEF Freezable, Unfrozen, Days, Dates
    <3> QED
      BY <3>1, LatestIs
  <2>2. PICK b : b = Screened(d)
    OBVIOUS
  <2>3. freezer' = b /\ frozen' = frozen /\ d \in Dates
    BY <1>2, <2>1, <2>2 DEF Maintain, Freezable, Days, Dates
  <2>4. d \in Days /\ b.date = d /\ Grounded(d, b)
    BY <2>2, FreezableIsGrounded
  <2>5. ASSUME NEW e \in Dates, NEW basis, Grounded(e, basis) PROVE Grounded(e, basis)'
    BY <2>5, ExcuseStays DEF Grounded, StoreKept, FeaturesKeep
  <2>6. Grounded(d, b)'
    BY <2>3, <2>4, <2>5
  <2>7. FreezeInv'
    BY <2>3, <2>4, <2>5, <2>6 DEF FreezeInv
  <2>8. freezer' \in Basis
    BY <2>2, <2>3, ScreenedIsBasis
  <2> QED
    BY <2>7, <2>8
<1> QED
  BY <1>1, <1>2

(* It is written unless another reading was.                               *)
LEMMA FreezeWrites ==
  ASSUME TypeInv, FreezeInv, Freeze, StoreKept
  PROVE  /\ FreezeInv' /\ frozen' \in [Dates -> Basis \union {None}]
         /\ \A d \in Dates : frozen[d] # None => frozen'[d] = frozen[d]
<1>1. freezer \in Basis /\ freezer.date \in Days /\ Grounded(freezer.date, freezer)
  BY DEF Freeze, FreezeInv, TypeInv, TypeOK
<1>2. freezer' = None /\ UNCHANGED <<job, features>>
  BY DEF Freeze
<1>3. \A d \in Dates : \/ frozen'[d] = frozen[d]
                       \/ d = freezer.date /\ frozen[d] = None /\ frozen'[d] = freezer
  BY DEF Freeze, TypeInv, TypeOK
<1>4. frozen' \in [Dates -> Basis \union {None}]
  BY <1>1 DEF Freeze, TypeInv, TypeOK
<1>5. \A d \in Dates : frozen'[d] # None => d \in Days /\ Grounded(d, frozen'[d])
  BY <1>1, <1>3 DEF FreezeInv
<1> QED
  BY <1>2, <1>3, <1>4, <1>5 DEF FreezeInv, Grounded, Straddles, Covers

-----------------------------------------------------------------------------
(* The captures.                                                           *)

CaptureRow == [pc : {"idle", "quotes", "exit"}, signal : Dates \union {None},
               list : SUBSET (Names \union NameRow)]

(* The variables a capture writes, and those only the clock does.          *)
BookTyped ==
  /\ live \in [Days -> Verdict \union {None}] /\ names \in [Days -> SUBSET NameRow]
  /\ capture \in [Captures -> CaptureRow] /\ \A c \in Captures : Holds(capture[c])
ClockTyped == day \in Days /\ slot \in Slots /\ early \subseteq Days

(* A step of neither leaves the baskets alone, whatever else is frozen.    *)
LEMMA BasketKept ==
  ASSUME TypeInv, BasketInv, UNCHANGED <<clock, book, capture, early>>,
         \A d \in Dates : frozen[d] # None => frozen'[d] = frozen[d]
  PROVE  BookTyped' /\ ClockTyped' /\ BasketInv'
<1>1. BookTyped' /\ ClockTyped'
  BY DEF TypeInv, TypeOK, BookTyped, ClockTyped, CaptureRow
<1>2. \A t \in early : t - 1 \in Dates /\ frozen[t - 1] # None /\ frozen'[t - 1] = frozen[t - 1]
  BY DEF BasketInv
<1>3. \A c \in Captures : Captured(capture[c])'
  BY <1>2 DEF BasketInv, Captured
<1>4. \A t \in early : \/ live[t] = None /\ names[t] = {}
                       \/ Basket(t - 1, Candidates(frozen'[t - 1]), live[t], names[t])
  BY <1>2 DEF BasketInv
<1> QED
  BY <1>1, <1>2, <1>3, <1>4 DEF BasketInv

(* One capture moves, and the books are as they were.                      *)
LEMMA CaptureKept ==
  ASSUME TypeInv, BasketInv, NEW c \in Captures, NEW k \in CaptureRow, Holds(k), Captured(k),
         capture' = [capture EXCEPT ![c] = k], UNCHANGED <<clock, book, early, frozen>>
  PROVE  BookTyped' /\ ClockTyped' /\ BasketInv'
<1>1. /\ capture' \in [Captures -> CaptureRow]
      /\ \A e \in Captures : capture'[e] = IF e = c THEN k ELSE capture[e]
  BY DEF TypeInv, TypeOK, CaptureRow
<1>2. BookTyped' /\ ClockTyped'
  BY <1>1 DEF TypeInv, TypeOK, BookTyped, ClockTyped, Holds
<1>3. \A e \in Captures : Captured(capture'[e])
  BY <1>1 DEF BasketInv
<1>4. \A e \in Captures : Captured(capture[e])'
  BY <1>3 DEF Captured
<1> QED
  BY <1>2, <1>4 DEF BasketInv

(* A capture that gives up holds nothing.                                  *)
LEMMA StillRow == Still \in CaptureRow /\ Holds(Still) /\ Captured(Still) /\ Still.pc = "idle"
BY DEF Still, CaptureRow, Holds, Captured

(* The candidates are names.                                               *)
LEMMA CandidatesAreNames == \A basis : Candidates(basis) \subseteq Names
BY LiveAssumption DEF Candidates

(* The entry begins from the latest features before the day.               *)
LEMMA SignalIs ==
  ASSUME TypeInv
  PROVE  LatestSignalDate \in Dates
         /\ (day - 1 \in Dates /\ features[day - 1] # "none" => LatestSignalDate = day - 1)
<1>1. PICK S : S = {d \in Dates : d < day /\ features[d] # "none"}
  OBVIOUS
<1>2. 0 \in Dates /\ 0 < day /\ day \in Nat
  BY LiveAssumption DEF TypeInv, TypeOK, Dates, Days
<1>3. S \in SUBSET Dates /\ S # {}
  BY <1>1, <1>2 DEF TypeInv
<1>4. LatestOf(S) \in S /\ \A e \in S : e <= LatestOf(S)
  BY <1>3, LatestIs
<1>5. ASSUME day - 1 \in Dates, features[day - 1] # "none" PROVE LatestOf(S) = day - 1
  <2>1. day - 1 \in S
    BY <1>1, <1>2, <1>5
  <2>2. LatestOf(S) \in Nat /\ LatestOf(S) < day
    BY <1>1, <1>4 DEF Dates
  <2> QED
    BY <1>2, <1>4, <2>1, <2>2
<1> QED
  BY <1>1, <1>3, <1>4, <1>5 DEF LatestSignalDate

(* A capture reads the frozen list of a day that was frozen in time.       *)
LEMMA EntryBeginsKeeps ==
  ASSUME TypeInv, FreezeInv, BasketInv, NEW c \in Captures, EntryBegins(c)
  PROVE  BookTyped' /\ ClockTyped' /\ BasketInv'
<1>1. PICK k : k = [pc |-> "quotes", signal |-> LatestSignalDate,
                    list |-> EntryCandidates(LatestSignalDate)]
  OBVIOUS
<1>2. k \in CaptureRow /\ Holds(k)
  BY <1>1, SignalIs, CandidatesAreNames DEF CaptureRow, Holds, EntryCandidates
<1>3. Captured(k)
  <2>1. slot = "entry" /\ k.pc = "quotes"
    BY <1>1 DEF EntryBegins
  <2>2. ASSUME day \in early
        PROVE  k.signal = day - 1 /\ k.list = Candidates(frozen[day - 1])
    <3>1. day - 1 \in Dates /\ frozen[day - 1] # None /\ features[day - 1] # "none"
      BY <2>2 DEF BasketInv, FreezeInv, Grounded
    <3>2. LatestSignalDate = day - 1
      BY <3>1, SignalIs
    <3> QED
      BY <1>1, <3>1, <3>2 DEF EntryCandidates
  <2> QED
    BY <2>1, <2>2 DEF Captured
<1>4. capture' = [capture EXCEPT ![c] = k] /\ UNCHANGED <<clock, book, early, frozen>>
  BY <1>1 DEF EntryBegins
<1> QED
  BY <1>2, <1>3, <1>4, CaptureKept

(* The exit begins from the included names.                                *)
LEMMA ExitBeginsKeeps ==
  ASSUME TypeInv, BasketInv, NEW c \in Captures, ExitBegins(c)
  PROVE  BookTyped' /\ ClockTyped' /\ BasketInv'
<1>1. PICK k : k = [Still EXCEPT !.pc = "exit", !.list = Included]
  OBVIOUS
<1>2. Included \subseteq NameRow /\ \A q \in Included : q \in names[day] /\ q.included
  BY DEF Included, TypeInv, TypeOK
<1>3. k.pc = "exit" /\ k.list = Included /\ k \in CaptureRow
  BY <1>1, <1>2 DEF Still, CaptureRow
<1>4. Holds(k) /\ Captured(k)
  BY <1>2, <1>3 DEF Holds, Captured, ExitBegins
<1>5. capture' = [capture EXCEPT ![c] = k] /\ UNCHANGED <<clock, book, early, frozen>>
  BY <1>1 DEF ExitBegins
<1> QED
  BY <1>3, <1>4, <1>5, CaptureKept

(* A failing capture.                                                      *)
LEMMA CaptureFailsKeeps ==
  ASSUME TypeInv, BasketInv, NEW c \in Captures, CaptureFails(c)
  PROVE  BookTyped' /\ ClockTyped' /\ BasketInv'
BY StillRow, CaptureKept DEF CaptureFails

-----------------------------------------------------------------------------
(* The entry is written.                                                   *)

(* What the fields of a basket's row say.                                  *)
LEMMA RowFields ==
  ASSUME NEW d, NEW e, NEW X, NEW E, NEW n
  PROVE  /\ Row(d, e, X, E, n).signal = d /\ Row(d, e, X, E, n).name = n
         /\ Row(d, e, X, E, n).executable <=> n \in X
         /\ Row(d, e, X, E, n).included <=> (e /\ n \in X)
         /\ Row(d, e, X, E, n).exited <=> n \in E
BY DEF Row

(* An upsert writes rows of a name table, and no exit where there was none.*)
LEMMA UpsertTyped ==
  ASSUME NEW rows \in SUBSET NameRow, NEW s \in Dates, NEW L \in SUBSET Names,
         NEW X \in SUBSET L, NEW e \in BOOLEAN, \A r \in rows : ~r.exited
  PROVE  /\ Upserted(rows, s, L, X, e) \subseteq NameRow
         /\ \A r \in Upserted(rows, s, L, X, e) : ~r.exited
<1> DEFINE old(n) == {r \in rows : r.signal = s /\ r.name = n}
           exit(n) == \E r \in old(n) : r.exited
           incl(n) == e /\ n \in X
           row(n) == [signal |-> s, name |-> n, executable |-> n \in X,
                      included |-> incl(n), exited |-> exit(n)]
<1>1. Upserted(rows, s, L, X, e) = {r \in rows : r.signal # s \/ r.name \notin L}
                                    \union {row(n) : n \in L}
  BY DEF Upserted
<1>2. ASSUME NEW n \in L PROVE row(n) \in NameRow /\ ~row(n).exited
  <2>1. incl(n) \in BOOLEAN /\ ~exit(n) /\ exit(n) \in BOOLEAN
    OBVIOUS
  <2> HIDE DEF incl, exit, old
  <2>2. row(n).exited = exit(n)
    OBVIOUS
  <2>3. row(n) \in NameRow
    BY <2>1 DEF NameRow
  <2> QED
    BY <2>1, <2>2, <2>3
<1> HIDE DEF row
<1> QED
  BY <1>1, <1>2

(* Where every row is of this signal and this list, the upsert replaces    *)
(* them all.                                                               *)
LEMMA UpsertReplaces ==
  ASSUME NEW rows, NEW s, NEW L, NEW X \in SUBSET L, NEW e \in BOOLEAN,
         \A r \in rows : ~r.exited /\ r.signal = s /\ r.name \in L
  PROVE  \A r : r \in Upserted(rows, s, L, X, e) <=> \E n \in L : r = Row(s, e, X, {}, n)
<1> DEFINE old(n) == {r \in rows : r.signal = s /\ r.name = n}
           exit(n) == \E r \in old(n) : r.exited
           row(n) == [signal |-> s, name |-> n, executable |-> n \in X,
                      included |-> e /\ n \in X, exited |-> exit(n)]
<1>1. Upserted(rows, s, L, X, e) = {r \in rows : r.signal # s \/ r.name \notin L}
                                    \union {row(n) : n \in L}
  BY DEF Upserted
<1>2. {r \in rows : r.signal # s \/ r.name \notin L} = {}
  OBVIOUS
<1>3. ASSUME NEW n \in L PROVE row(n) = Row(s, e, X, {}, n)
  <2>1. exit(n) = FALSE /\ (n \in {}) = FALSE
    OBVIOUS
  <2> HIDE DEF exit
  <2> QED
    BY <2>1 DEF Row
<1> HIDE DEF row
<1> QED
  BY <1>1, <1>2, <1>3

(* The basket that is written is the one of its list.                      *)
LEMMA EntryWritesKeeps ==
  ASSUME TypeInv, BasketInv, NEW c \in Captures, EntryWrites(c)
  PROVE  BookTyped' /\ ClockTyped' /\ BasketInv'
<1>0. PICK s, L : s = capture[c].signal /\ L = capture[c].list
  OBVIOUS
<1>1. slot = "entry" /\ s \in Dates /\ L \in SUBSET Names /\ day \in Days
  BY <1>0 DEF EntryWrites, TypeInv, TypeOK, Holds, BasketInv, Captured
<1>2. PICK X, l :
        /\ X \in SUBSET L
        /\ l = [signal |-> s, executable |-> Cardinality(X),
                eligible |-> Cardinality(X) >= MinBasket]
        /\ live' = [live EXCEPT ![day] = l]
        /\ names' = [names EXCEPT ![day] = Upserted(@, s, L, X, Cardinality(X) >= MinBasket)]
  BY <1>0 DEF EntryWrites
<1>3. PICK e \in BOOLEAN : e = (Cardinality(X) >= MinBasket)
  <2>1. (Cardinality(X) >= MinBasket) \in BOOLEAN
    OBVIOUS
  <2> QED
    BY <2>1, Zenon
<1>4. l \in Verdict /\ l.eligible = e /\ l.executable = Cardinality(X)
  <2>1. Cardinality(X) \in 0..Cardinality(Names)
    BY <1>1, <1>2, LiveAssumption, FS_Subset, FS_CardinalityType
  <2>2. l = [signal |-> s, executable |-> Cardinality(X), eligible |-> e]
    BY <1>2, <1>3
  <2> QED
    BY <1>1, <2>1, <2>2 DEF Verdict
<1> DEFINE U == Upserted(names[day], s, L, X, e)
<1>5. /\ names[day] \in SUBSET NameRow /\ \A r \in names[day] : ~r.exited
      /\ names' = [names EXCEPT ![day] = U]
  BY <1>1, <1>2, <1>3 DEF TypeInv, TypeOK, BasketInv
<1>6. U \subseteq NameRow /\ \A r \in U : ~r.exited
  BY <1>1, <1>2, <1>5, UpsertTyped
<1>7. capture' = [capture EXCEPT ![c] = Still] /\ UNCHANGED <<clock, early, frozen>>
  BY DEF EntryWrites
<1>8. day \in early => Basket(day - 1, Candidates(frozen[day - 1]), l, U)
  <2> SUFFICES ASSUME day \in early
               PROVE  Basket(day - 1, Candidates(frozen[day - 1]), l, U)
    OBVIOUS
  <2>1. s = day - 1 /\ L = Candidates(frozen[day - 1])
    BY <1>0 DEF EntryWrites, BasketInv, Captured
  <2>2. \A r \in names[day] : r.signal = s /\ r.name \in L
    <3>1. CASE names[day] = {}
      BY <3>1
    <3>2. CASE Basket(day - 1, Candidates(frozen[day - 1]), live[day], names[day])
      BY <2>1, <3>2, RowFields DEF Basket
    <3> QED
      BY <3>1, <3>2 DEF BasketInv
  <2>3. U = {Row(s, e, X, {}, n) : n \in L}
    <3>1. \A r \in names[day] : ~r.exited /\ r.signal = s /\ r.name \in L
      BY <1>5, <2>2
    <3>2. \A r : r \in U <=> \E n \in L : r = Row(s, e, X, {}, n)
      BY <1>2, <3>1, UpsertReplaces DEF U
    <3> QED
      BY <3>2
  <2> HIDE DEF U
  <2>4. {} \in SUBSET X
    OBVIOUS
  <2> QED
    BY <1>2, <1>4, <2>1, <2>3, <2>4 DEF Basket
<1> HIDE DEF U
<1>9. BookTyped' /\ ClockTyped'
  BY <1>1, <1>2, <1>4, <1>5, <1>6, <1>7, StillRow DEF TypeInv, TypeOK, BookTyped, ClockTyped, CaptureRow
<1>10. \A e2 \in Captures : Captured(capture[e2])'
  <2> TAKE e2 \in Captures
  <2>1. capture'[e2] = IF e2 = c THEN Still ELSE capture[e2]
    BY <1>7 DEF TypeInv, TypeOK
  <2>2. Captured(capture[e2]) /\ capture[e2].pc # "exit"
    BY <1>1 DEF BasketInv, Captured
  <2> QED
    BY <1>7, <2>1, <2>2, StillRow DEF Captured, Still
<1>11. \A t \in Days : t # day => live'[t] = live[t] /\ names'[t] = names[t]
  BY <1>2, <1>5 DEF TypeInv, TypeOK
<1>12. live'[day] = l /\ names'[day] = U
  BY <1>1, <1>2, <1>5 DEF TypeInv, TypeOK
<1>13. \A t \in early : \/ live'[t] = None /\ names'[t] = {}
                        \/ Basket(t - 1, Candidates(frozen[t - 1]), live'[t], names'[t])
  BY <1>8, <1>11, <1>12 DEF BasketInv, TypeInv, TypeOK
<1>14. \A t \in Days : t > day => live'[t] = None /\ names'[t] = {}
  BY <1>1, <1>11 DEF BasketInv, Days
<1> QED
  BY <1>6, <1>7, <1>9, <1>10, <1>12, <1>13, <1>14 DEF BasketInv

-----------------------------------------------------------------------------
(* The exit is written.                                                    *)

(* A row of a name table with an exit more, or without.                    *)
LEMMA ExitedRow ==
  ASSUME NEW r \in NameRow, NEW x \in BOOLEAN
  PROVE  /\ [r EXCEPT !.exited = x] \in NameRow /\ [r EXCEPT !.exited = x].exited = x
         /\ [r EXCEPT !.exited = x].signal = r.signal /\ [r EXCEPT !.exited = x].name = r.name
         /\ [r EXCEPT !.exited = x].executable = r.executable
         /\ [r EXCEPT !.exited = x].included = r.included
BY DEF NameRow

(* A basket's row with an exit more is one of the basket with that exit.   *)
LEMMA RowExits ==
  ASSUME NEW d, NEW e, NEW X, NEW E, NEW F, NEW n, NEW x, x = (n \in F)
  PROVE  [Row(d, e, X, E, n) EXCEPT !.exited = x] = Row(d, e, X, F, n)
BY DEF Row

(* The basket keeps its list and its verdict, and exits only what is in it.*)
LEMMA ExitWritesKeeps ==
  ASSUME TypeInv, BasketInv, NEW c \in Captures, ExitWrites(c)
  PROVE  BookTyped' /\ ClockTyped' /\ BasketInv'
<1>1. /\ slot = "exit" /\ day \in Days /\ names[day] \subseteq NameRow
      /\ \A q \in capture[c].list : \E r \in names[day] : r.included /\ r.name = q.name
  BY DEF ExitWrites, TypeInv, TypeOK, BasketInv, Captured
<1>2. PICK quoted \in SUBSET capture[c].list :
        names' = [names EXCEPT ![day] =
          {[r EXCEPT !.exited = @ \/ \E q \in quoted : q.name = r.name /\ q.signal = r.signal]
             : r \in @}]
  BY DEF ExitWrites
<1> DEFINE hit(r) == r.exited \/ \E q \in quoted : q.name = r.name /\ q.signal = r.signal
           with(r) == [r EXCEPT !.exited = hit(r)]
           U == {with(r) : r \in names[day]}
<1>3. names' = [names EXCEPT ![day] = U]
  BY <1>2
<1>4. ASSUME NEW r \in names[day]
      PROVE  /\ with(r) \in NameRow /\ with(r).name = r.name /\ with(r).included = r.included
  <2>1. hit(r) \in BOOLEAN
    <3>1. r.exited \in BOOLEAN
      BY <1>1 DEF NameRow
    <3> QED
      BY <3>1
  <2> HIDE DEF hit
  <2> QED
    BY <1>1, <2>1, ExitedRow
<1>5. ASSUME day \in early, Basket(day - 1, Candidates(frozen[day - 1]), live[day], names[day])
      PROVE  Basket(day - 1, Candidates(frozen[day - 1]), live[day], U)
  <2>1. PICK d, L, e : d = day - 1 /\ L = Candidates(frozen[day - 1]) /\ e = live[day].eligible
    OBVIOUS
  <2>2. PICK X, E :
          /\ X \in SUBSET L /\ E \subseteq X
          /\ E # {} => live[day].eligible
          /\ live[day].executable = Cardinality(X)
          /\ names[day] = {Row(d, e, X, E, n) : n \in L}
    BY <1>5, <2>1 DEF Basket
  <2> DEFINE F == {n \in L : hit(Row(d, e, X, E, n))}
  <2>3. F \in SUBSET X /\ (F # {} => live[day].eligible)
    <3>1. ASSUME NEW n \in F PROVE n \in X /\ live[day].eligible
      <4>1. CASE n \in E
        BY <2>2, <4>1
      <4>2. CASE n \notin E
        <5>1. PICK q \in quoted : q.name = n
          BY <3>1, <4>2, RowFields
        <5>2. PICK r \in names[day] : r.included /\ r.name = n
          BY <1>1, <5>1
        <5>3. PICK m \in L : r = Row(d, e, X, E, m)
          BY <2>2, <5>2
        <5>4. m = n /\ e /\ m \in X
          BY <5>2, <5>3, RowFields
        <5> QED
          BY <2>1, <5>4
      <4> QED
        BY <4>1, <4>2
    <3> HIDE DEF F
    <3> QED
      BY <3>1
  <2>4. ASSUME NEW n \in L PROVE with(Row(d, e, X, E, n)) = Row(d, e, X, F, n)
    <3>1. hit(Row(d, e, X, E, n)) = (n \in F)
      OBVIOUS
    <3> HIDE DEF hit, F
    <3> QED
      BY <3>1, RowExits
  <2> HIDE DEF F, with, hit
  <2>5. U = {Row(d, e, X, F, n) : n \in L}
    BY <2>2, <2>4
  <2> HIDE DEF U
  <2> QED
    BY <2>1, <2>2, <2>3, <2>5 DEF Basket
<1>6. names[day] = {} => U = {}
  OBVIOUS
<1>7. U \subseteq NameRow
  BY <1>4
<1>8. \A r \in names[day] : \E u \in U : u.name = r.name /\ u.included = r.included
  <2> TAKE r \in names[day]
  <2>1. with(r) \in U /\ with(r).name = r.name /\ with(r).included = r.included
    BY <1>4
  <2> HIDE DEF U, with, hit
  <2> QED
    BY <2>1
<1> HIDE DEF U, with, hit
<1>9. /\ names'[day] = U /\ \A t \in Days : t # day => names'[t] = names[t]
      /\ names' \in [Days -> SUBSET NameRow]
  BY <1>1, <1>3, <1>7 DEF TypeInv, TypeOK
<1>10. capture' = [capture EXCEPT ![c] = Still] /\ UNCHANGED <<clock, live, early, frozen>>
  BY DEF ExitWrites
<1>11. BookTyped' /\ ClockTyped'
  BY <1>9, <1>10, StillRow DEF TypeInv, TypeOK, BookTyped, ClockTyped, CaptureRow
<1>12. \A e2 \in Captures : Captured(capture[e2])'
  <2> TAKE e2 \in Captures
  <2>1. capture'[e2] = IF e2 = c THEN Still ELSE capture[e2]
    BY <1>10 DEF TypeInv, TypeOK
  <2>2. Captured(capture[e2])
    BY DEF BasketInv
  <2>3. CASE e2 = c
    BY <2>1, <2>3 DEF Captured, Still
  <2>4. CASE e2 # c
    <3>1. capture'[e2] = capture[e2]
      BY <2>1, <2>4
    <3>2. capture[e2].pc # "quotes"
      BY <1>1, <2>2 DEF Captured
    <3>3. capture[e2].pc = "exit" =>
            \A q \in capture[e2].list : \E u \in U : u.included /\ u.name = q.name
      BY <1>8, <2>2 DEF Captured
    <3> QED
      BY <1>1, <1>9, <1>10, <3>1, <3>2, <3>3 DEF Captured
  <2> QED
    BY <2>3, <2>4
<1>13. \A t \in early : \/ live[t] = None /\ names'[t] = {}
                        \/ Basket(t - 1, Candidates(frozen[t - 1]), live[t], names'[t])
  BY <1>5, <1>6, <1>9 DEF BasketInv, TypeInv, TypeOK
<1>14. \A t \in Days : t > day => live[t] = None /\ names'[t] = {}
  BY <1>1, <1>9 DEF BasketInv, Days
<1> QED
  BY <1>1, <1>9, <1>10, <1>11, <1>12, <1>13, <1>14 DEF BasketInv

-----------------------------------------------------------------------------
(* The clock moves while nobody is at work: the next day has no basket, and*)
(* it is known whether its signal is frozen in time.                       *)
LEMMA TickKeeps ==
  ASSUME TypeInv, BasketInv, Tick
  PROVE  BookTyped' /\ ClockTyped' /\ BasketInv'
<1>1. /\ UNCHANGED <<book, capture, frozen>>
      /\ \A c \in Captures : capture[c].pc = "idle"
  BY DEF Tick
<1>2. \A c \in Captures : Captured(capture[c])'
  BY <1>1 DEF Captured
<1>3. CASE UNCHANGED <<day, early>> /\ slot' \in {"exit", "evening"}
  <2>1. BookTyped' /\ ClockTyped'
    BY <1>1, <1>3 DEF TypeInv, TypeOK, BookTyped, ClockTyped, CaptureRow, Slots
  <2> QED
    BY <1>1, <1>2, <1>3, <2>1 DEF BasketInv
<1>4. CASE /\ day < LastDay /\ day' = day + 1 /\ slot' = "entry"
           /\ early' = IF frozen[day] # None THEN early \union {day + 1} ELSE early
  <2>1. day \in Nat /\ day \in Days /\ day + 1 \in Days /\ day \in Dates
    BY <1>4, LiveAssumption DEF TypeInv, TypeOK, Days, Dates
  <2>2. BookTyped' /\ ClockTyped'
    BY <1>1, <1>4, <2>1 DEF TypeInv, TypeOK, BookTyped, ClockTyped, CaptureRow, Slots
  <2>3. live[day + 1] = None /\ names[day + 1] = {}
    BY <2>1 DEF BasketInv
  <2>4. \A t \in early' : t \in early \/ (t = day + 1 /\ frozen[day] # None)
    BY <1>4
  <2>5. \A t \in early' : t <= day + 1 /\ t - 1 \in Dates /\ frozen[t - 1] # None
    <3> TAKE t \in early'
    <3>1. CASE t \in early
      BY <2>1, <3>1 DEF BasketInv, TypeInv, TypeOK, Days
    <3>2. CASE t = day + 1 /\ frozen[day] # None
      <4>1. t - 1 = day
        BY <2>1, <3>2
      <4> QED
        BY <2>1, <3>2, <4>1
    <3> QED
      BY <2>4, <3>1, <3>2
  <2>6. \A t \in early' : \/ live[t] = None /\ names[t] = {}
                          \/ Basket(t - 1, Candidates(frozen[t - 1]), live[t], names[t])
    BY <2>3, <2>4 DEF BasketInv
  <2>7. \A t \in Days : t > day + 1 => live[t] = None /\ names[t] = {}
    BY <2>1 DEF BasketInv, Days
  <2> QED
    BY <1>1, <1>2, <1>4, <2>2, <2>3, <2>5, <2>6, <2>7 DEF BasketInv
<1> QED
  BY <1>3, <1>4 DEF Tick

-----------------------------------------------------------------------------
(* The whole step.                                                         *)

FreezeTyped == frozen \in [Dates -> Basis \union {None}] /\ freezer \in Basis \union {None}
BudgetTyped == opsLeft \in 0..MaxOps /\ mishapsLeft \in 0..MaxMishaps

(* The parts of the invariant, each kept by a lemma of its own.            *)
LEMMA Assembled ==
  ASSUME StoreKept, FreezeInv', FreezeTyped', BookTyped', ClockTyped', BasketInv', BudgetTyped'
  PROVE  IInv'
BY DEF IInv, TypeInv, TypeOK, StoreKept, FreezeTyped, BookTyped, ClockTyped, BudgetTyped, CaptureRow

(* The budgets only shrink.                                                *)
LEMMA BudgetsShrink == ASSUME TypeInv, [Next]_vars PROVE BudgetTyped'
<1> USE LiveAssumption DEF TypeInv, TypeOK, BudgetTyped
<1>1. CASE OperatorJob
  BY <1>1 DEF OperatorJob
<1>2. ASSUME NEW j \in DOMAIN job,
             JobFetches(j) \/ JobCompletes(j) \/ JobStops(j) \/ JobResumes(j)
      PROVE  BudgetTyped'
  BY <1>2 DEF JobFetches, JobCompletes, JobStops, JobResumes
<1>3. CASE Maintain \/ Freeze \/ FreezeFails
  BY <1>3 DEF Maintain, Freeze, FreezeFails
<1>4. ASSUME NEW c \in Captures,
             EntryBegins(c) \/ EntryWrites(c) \/ ExitBegins(c) \/ ExitWrites(c) \/ CaptureFails(c)
      PROVE  BudgetTyped'
  BY <1>4 DEF EntryBegins, EntryWrites, ExitBegins, ExitWrites, CaptureFails
<1>5. CASE Tick \/ UNCHANGED vars
  BY <1>5 DEF Tick, vars
<1> QED
  BY <1>1, <1>2, <1>3, <1>4, <1>5 DEF Next

(* The steps of the loader and the maintenance leave the books alone.      *)
LEMMA StoreSteps ==
  ASSUME IInv, \/ OperatorJob \/ Maintain
               \/ \E j \in DOMAIN job :
                    JobFetches(j) \/ JobCompletes(j) \/ JobStops(j) \/ JobResumes(j)
  PROVE  /\ StoreKept /\ FreezeInv' /\ FreezeTyped'
         /\ BookTyped' /\ ClockTyped' /\ BasketInv'
<1> USE DEF IInv
<1>1. StoreKept
  BY OperatorJobKeeps, MaintainKeeps, JobFetchesKeeps, JobSettlesKeeps, SMTT(60)
<1>2. UNCHANGED <<clock, frozen, book, capture, early>>
  BY DEF OperatorJob, Maintain, JobFetches, JobCompletes, JobStops, JobResumes
<1>3. BookTyped' /\ ClockTyped' /\ BasketInv'
  BY <1>2, BasketKept
<1>4. FreezeInv' /\ FreezeTyped'
  <2>1. CASE Maintain
    BY <1>1, <1>2, <2>1, MaintainReads DEF TypeInv, TypeOK, FreezeTyped
  <2>2. CASE ~Maintain
    <3>1. freezer' = freezer
      BY <2>2 DEF OperatorJob, JobFetches, JobCompletes, JobStops, JobResumes
    <3> QED
      BY <1>1, <1>2, <3>1, FreezeKept, SMTT(60) DEF TypeInv, TypeOK, FreezeTyped
  <2> QED
    BY <2>1, <2>2
<1> QED
  BY <1>1, <1>3, <1>4

(* The freeze, the captures and the clock leave the loader's side alone.   *)
LEMMA OtherSteps ==
  ASSUME IInv, \/ Freeze \/ FreezeFails \/ Tick \/ UNCHANGED vars
               \/ \E c \in Captures : \/ EntryBegins(c) \/ EntryWrites(c) \/ ExitBegins(c)
                                      \/ ExitWrites(c) \/ CaptureFails(c)
  PROVE  /\ StoreKept /\ FreezeInv' /\ FreezeTyped'
         /\ BookTyped' /\ ClockTyped' /\ BasketInv'
<1> USE DEF IInv
<1>1. StoreKept
  BY StoreUnchanged DEF Freeze, FreezeFails, Tick, vars,
                        EntryBegins, EntryWrites, ExitBegins, ExitWrites, CaptureFails
<1>2. CASE Freeze
  <2>1. UNCHANGED <<clock, book, capture, early>> /\ freezer' = None
    BY <1>2 DEF Freeze
  <2>2. /\ FreezeInv' /\ frozen' \in [Dates -> Basis \union {None}]
        /\ \A d \in Dates : frozen[d] # None => frozen'[d] = frozen[d]
    BY <1>1, <1>2, FreezeWrites
  <2>3. BookTyped' /\ ClockTyped' /\ BasketInv'
    BY <2>1, <2>2, BasketKept
  <2>4. FreezeTyped'
    BY <2>1, <2>2 DEF FreezeTyped
  <2> QED
    BY <1>1, <2>2, <2>3, <2>4
<1>3. CASE ~Freeze
  <2>1. frozen' = frozen /\ (freezer' = freezer \/ freezer' = None)
    BY <1>3 DEF FreezeFails, Tick, vars,
                EntryBegins, EntryWrites, ExitBegins, ExitWrites, CaptureFails
  <2>2. FreezeInv' /\ FreezeTyped'
    BY <1>1, <2>1, FreezeKept DEF TypeInv, TypeOK, FreezeTyped
  <2>3. BookTyped' /\ ClockTyped' /\ BasketInv'
    <3>1. CASE FreezeFails \/ UNCHANGED vars
      <4>1. UNCHANGED <<clock, book, capture, early>> /\ frozen' = frozen
        BY <3>1 DEF FreezeFails, vars
      <4> QED
        BY <4>1, BasketKept
    <3>2. CASE Tick
      BY <3>2, TickKeeps
    <3>3. ASSUME NEW c \in Captures, EntryBegins(c) \/ EntryWrites(c) \/ ExitBegins(c)
                                     \/ ExitWrites(c) \/ CaptureFails(c)
          PROVE  BookTyped' /\ ClockTyped' /\ BasketInv'
      BY <3>3, EntryBeginsKeeps, EntryWritesKeeps, ExitBeginsKeeps, ExitWritesKeeps,
         CaptureFailsKeeps
    <3> QED
      BY <1>3, <3>1, <3>2, <3>3
  <2> QED
    BY <1>1, <2>2, <2>3
<1> QED
  BY <1>2, <1>3

(* Every step keeps the invariant.                                         *)
LEMMA StepKeeps == ASSUME IInv, [Next]_vars PROVE IInv'
<1>1. BudgetTyped'
  BY BudgetsShrink DEF IInv
<1>2. /\ StoreKept /\ FreezeInv' /\ FreezeTyped'
      /\ BookTyped' /\ ClockTyped' /\ BasketInv'
  BY StoreSteps, OtherSteps DEF Next
<1> QED
  BY <1>1, <1>2, Assembled

(* Nothing is frozen and no job is queued at first.                        *)
LEMMA InitKeeps == ASSUME Init PROVE IInv
<1> USE LiveAssumption DEF Init, Dates, Days
<1>1. TypeInv
  <2>1. /\ day \in Days /\ slot \in Slots /\ job \in Seq(Job) /\ Len(job) <= MaxJobs
        /\ features \in [Dates -> {"none", "partial", "full"}] /\ features[0] # "none"
    BY DEF Slots
  <2>2. /\ frozen \in [Dates -> Basis \union {None}] /\ freezer \in Basis \union {None}
        /\ live \in [Days -> Verdict \union {None}] /\ names \in [Days -> SUBSET NameRow]
        /\ early \subseteq Days /\ opsLeft \in 0..MaxOps /\ mishapsLeft \in 0..MaxMishaps
    OBVIOUS
  <2>3. capture \in [Captures -> CaptureRow] /\ \A c \in Captures : Holds(capture[c])
    BY StillRow
  <2> QED
    BY <2>1, <2>2, <2>3 DEF TypeInv, TypeOK, CaptureRow
<1>2. JobInv /\ FreezeInv
  BY DEF JobInv, FreezeInv
<1>3. BasketInv
  BY StillRow DEF BasketInv
<1> QED
  BY <1>1, <1>2, <1>3 DEF IInv

(* The invariant of the live evidence.                                     *)
LEMMA Invariant == Spec => []IInv
<1>1. Init => IInv
  BY InitKeeps
<1>2. IInv /\ [Next]_vars => IInv'
  BY StepKeeps
<1> QED
  BY <1>1, <1>2, PTL DEF Spec

-----------------------------------------------------------------------------
(* Every table and every local variable of the live evidence stays in its  *)
(* domain, a capture that overlaps another included.                       *)
THEOREM LiveTypes == Spec => []TypeOK
<1>1. IInv => TypeOK
  BY DEF IInv, TypeInv
<1> QED
  BY <1>1, Invariant, PTL

(* What is frozen of a date was screened over its whole session, whatever  *)
(* jobs the operator ran, unless one of them straddled the close.          *)
THEOREM FrozenSignalsAreWhole == Spec => []FrozenIsWhole
<1>1. IInv => FrozenIsWhole
  BY DEF IInv, FreezeInv, FrozenIsWhole, Grounded, Days, Dates
<1> QED
  BY <1>1, Invariant, PTL

(* A basket's executable rows are as many as its executable names.         *)
LEMMA RowsCount ==
  ASSUME NEW d, NEW e, NEW L, IsFiniteSet(L), NEW X \in SUBSET L, NEW E
  PROVE  Cardinality({r \in {Row(d, e, X, E, n) : n \in L} : r.executable}) = Cardinality(X)
<1> DEFINE S == {r \in {Row(d, e, X, E, n) : n \in L} : r.executable}
           f == [n \in X |-> Row(d, e, X, E, n)]
<1>1. f \in Bijection(X, S)
  <2>1. \A n \in X : Row(d, e, X, E, n) \in S /\ Row(d, e, X, E, n).name = n
    BY RowFields
  <2>2. \A r \in S : \E n \in X : r = Row(d, e, X, E, n)
    <3> TAKE r \in S
    <3>1. PICK n \in L : r = Row(d, e, X, E, n) /\ r.executable
      OBVIOUS
    <3> QED
      BY <3>1, RowFields
  <2> HIDE DEF S
  <2>3. f \in Injection(X, S)
    BY <2>1 DEF Injection, IsInjective
  <2>4. f \in Surjection(X, S)
    BY <2>1, <2>2 DEF Surjection
  <2> QED
    BY <2>3, <2>4 DEF Bijection
<1>2. IsFiniteSet(X)
  BY FS_Subset
<1> HIDE DEF S, f
<1>3. Cardinality(X) = Cardinality(S)
  BY <1>1, <1>2, FS_Bijection DEF ExistsBijection
<1> QED
  BY <1>3 DEF S

(* What BasketIsFrozenList says of the basket of one day.                  *)
ListOf(d, L, l, rows) ==
  /\ {r.name : r \in rows} = L
  /\ \A r \in rows : r.signal = d /\ (r.exited => r.included)
  /\ {r \in rows : r.included} = IF l.eligible THEN {r \in rows : r.executable} ELSE {}
  /\ l.executable = Cardinality({r \in rows : r.executable})

(* A basket of the invariant's shape is the frozen list, with one verdict. *)
LEMMA BasketRows ==
  ASSUME NEW d, NEW L, IsFiniteSet(L), NEW l \in Verdict, NEW rows,
         Basket(d, L, l, rows)
  PROVE  ListOf(d, L, l, rows)
<1>1. PICK e : e = l.eligible
  OBVIOUS
<1>2. PICK X, E :
        /\ X \in SUBSET L /\ E \subseteq X
        /\ E # {} => l.eligible
        /\ l.executable = Cardinality(X)
        /\ rows = {Row(d, e, X, E, n) : n \in L}
  BY <1>1 DEF Basket
<1>3. \A n \in L : /\ Row(d, e, X, E, n) \in rows
                   /\ Row(d, e, X, E, n).name = n
  BY <1>2, RowFields
<1>4. \A r \in rows : \E n \in L :
        /\ r.signal = d /\ r.name = n
        /\ r.executable <=> n \in X
        /\ r.included <=> (e /\ n \in X)
        /\ r.exited <=> n \in E
  <2> TAKE r \in rows
  <2>1. PICK n \in L : r = Row(d, e, X, E, n)
    BY <1>2
  <2> QED
    BY <2>1, RowFields
<1>5. {r.name : r \in rows} = L
  BY <1>3, <1>4
<1>6. \A r \in rows : r.signal = d /\ (r.exited => r.included)
  BY <1>1, <1>2, <1>4
<1>7. {r \in rows : r.included} = IF l.eligible THEN {r \in rows : r.executable} ELSE {}
  BY <1>1, <1>4
<1>8. Cardinality(X) = Cardinality({r \in rows : r.executable})
  BY <1>2, RowsCount
<1> QED
  BY <1>2, <1>5, <1>6, <1>7, <1>8 DEF ListOf

(* The basket of a morning whose signal was frozen in time is the frozen   *)
(* list, whichever of the overlapping captures wrote last: one verdict for *)
(* the day and its names, exits of included names only.                    *)
THEOREM BasketsAreFrozenLists == Spec => []BasketIsFrozenList
<1>1. ASSUME IInv PROVE BasketIsFrozenList
  <2> SUFFICES ASSUME NEW t \in early, live[t] # None
               PROVE  ListOf(t - 1, Candidates(frozen[t - 1]), live[t], names[t])
    BY DEF BasketIsFrozenList, ListOf
  <2>1. Basket(t - 1, Candidates(frozen[t - 1]), live[t], names[t])
    BY <1>1 DEF IInv, BasketInv
  <2>2. live[t] \in Verdict
    BY <1>1 DEF IInv, TypeInv, TypeOK
  <2>3. IsFiniteSet(Candidates(frozen[t - 1]))
    BY CandidatesAreNames, LiveAssumption, FS_Subset
  <2> QED
    BY <2>1, <2>2, <2>3, BasketRows
<1> QED
  BY <1>1, Invariant, PTL
=============================================================================
