-------------------------- MODULE IntradayTracking --------------------------
(***************************************************************************)
(* The outcomes of the tracked intraday candidates.  A pass of the tracker *)
(* loads the rows still open, asks the market data provider for the minute *)
(* bars since the scan, and writes each row by its id.  Two trackers run   *)
(* while a deployment overlaps, and a bar is published some time after its *)
(* minute.                                                                 *)
(*                                                                         *)
(* A tick is a minute of one session; the scan's evidence ends in minute   *)
(* 0.  A price is known by the minute of its bar; the open of a bar is its *)
(* first price, the rest is Growing until the bar is out.                  *)
(***************************************************************************)
EXTENDS Integers, FiniteSets

CONSTANTS
  Trackers,      (* tracker tasks, one in each worker process               *)
  Leaving,       (* those of a process being replaced: they start one pass   *)
  NumRows,       (* rows of ip_selected_candidates, in the order of a load  *)
  None,          (* SQL NULL                                                *)
  Growing,       (* the price of a bar whose minute is not over or not out  *)
  Early,         (* rows enrolled at the scan; the others are backfilled     *)
  Limit,         (* 2000: rows of a load                                    *)
  HorizonEnd,    (* scan + 120 minutes                                      *)
  MarketClose,
  Settle,        (* 3 minutes: SETTLE_SECONDS                               *)
  Trades,        (* the minutes each symbol trades in: the histories to try *)
  LastMinute,    (* bound: the clock                                        *)
  MaxMishaps     (* bound: failing requests and crashes                     *)

Rows    == 1..NumRows
Minutes == 0..(MarketClose - 1)

ASSUME TrackingAssumption ==
  /\ Leaving \subseteq Trackers
  /\ NumRows \in Nat /\ Limit \in Nat \ {0} /\ Settle \in Nat /\ MaxMishaps \in Nat
  /\ HorizonEnd \in Nat /\ MarketClose \in Nat /\ LastMinute \in Nat
  /\ 0 < HorizonEnd /\ HorizonEnd <= MarketClose
  /\ MarketClose + Settle <= LastMinute
  /\ Trades \subseteq [Rows -> SUBSET Minutes]
  /\ None \notin Nat \union {"tracking", "closed"} /\ Growing \notin Nat /\ Growing # None

VARIABLES
  clock,
  published,   (* the bars of the minutes before it are out                 *)
  traded,      (* the minutes in which each symbol traded                   *)
  row,         (* the rows                                                  *)
  pass,        (* the pass of each tracker                                  *)
  mishapsLeft

vars == <<clock, published, traded, row, pass, mishapsLeft>>

Earliest(S) == CHOOSE m \in S : \A n \in S : m <= n
Latest(S)   == CHOOSE m \in S : \A n \in S : n <= m

New == [status |-> "tracking", horizon |-> "pending", entryAt |-> None,
        horizonAt |-> None, closeAt |-> None, ranged |-> {}]

Asleep  == [pc |-> "asleep", now |-> 0, seen |-> 0, rows |-> {}]
Over(t) == [Asleep EXCEPT !.pc = IF t \in Leaving THEN "gone" ELSE "asleep"]

RowType  == [status : {None, "tracking", "closed"}, horizon : {"pending", "matured"},
             entryAt : Minutes \union {None}, horizonAt : Minutes \union {None, Growing},
             closeAt : Minutes \union {None, Growing},
             ranged : SUBSET (Minutes \union {Growing})]
PassType == [pc : {"asleep", "fetch", "persist", "gone"}, now : 0..LastMinute,
             seen : 0..LastMinute, rows : SUBSET Rows]

TypeOK ==
  /\ clock \in 0..LastMinute /\ published \in 0..clock
  /\ traded \in Trades
  /\ row \in [Rows -> RowType]
  /\ pass \in [Trackers -> PassType]
  /\ mishapsLeft \in 0..MaxMishaps

Init ==
  /\ clock = 0 /\ published = 0
  /\ traded \in Trades
  /\ row = [r \in Rows |-> IF r \in Early THEN New ELSE [New EXCEPT !.status = None]]
  /\ pass = [t \in Trackers |-> Asleep]
  /\ mishapsLeft = MaxMishaps

-----------------------------------------------------------------------------
(* A candidate is enrolled after its scan, or by a backfill much later.     *)
Enrol(r) ==
  /\ row[r].status = None
  /\ row' = [row EXCEPT ![r] = New]
  /\ UNCHANGED <<clock, published, traded, pass, mishapsLeft>>

-----------------------------------------------------------------------------
(* A pass: load, fetch, and one write for each row.                         *)

(* Variant: a load takes the rows whose horizon is pending, and no others.  *)
OpenUntilMatured(r) == row[r].status # None /\ row[r].horizon = "pending"

Open(r) == row[r].status = "tracking" \/ (row[r].status # None /\ row[r].horizon = "pending")

Loaded == {r \in Rows : Open(r) /\ Cardinality({q \in 1..(r - 1) : Open(q)}) < Limit}

Load(t) ==
  /\ pass[t].pc = "asleep"
  /\ Loaded # {}
  /\ pass' = [pass EXCEPT ![t] = [pc |-> "fetch", now |-> clock, seen |-> 0,
                                  rows |-> Loaded]]
  /\ UNCHANGED <<clock, published, traded, row, mishapsLeft>>

Fetch(t) ==
  /\ pass[t].pc = "fetch"
  /\ pass' = [pass EXCEPT ![t].pc = "persist", ![t].seen = published]
  /\ UNCHANGED <<clock, published, traded, row, mishapsLeft>>

(* A request that fails leaves every row as it is but for its error.        *)
FetchFails(t) ==
  /\ pass[t].pc = "fetch" /\ mishapsLeft > 0
  /\ pass' = [pass EXCEPT ![t] = Over(t)]
  /\ mishapsLeft' = mishapsLeft - 1
  /\ UNCHANGED <<clock, published, traded, row>>

(* The bars used: those asked for up to the time of the load, from the      *)
(* first full minute after the evidence to the close.  The provider's last  *)
(* bar may be of a minute that is not over.                                 *)
FirstFullMinute == 1

Clean(t, r) ==
  {m \in traded[r] : /\ FirstFullMinute <= m /\ m < MarketClose
                     /\ m <= pass[t].now /\ m <= pass[t].seen}

(* Variant: the bars are taken as out when their minute ends.               *)
HasEnded(now, end) == now >= end

PriceAt(t, m) == IF m < pass[t].seen THEN m ELSE Growing

HasSettled(now, end) == now >= end + Settle

Coalesce(a, b) == IF a = None THEN b ELSE a

Outcome(t, r) ==
  LET clean   == Clean(t, r)
      before  == {m \in clean : m < HorizonEnd}
      matured == HasSettled(pass[t].now, HorizonEnd) /\ before # {}
      closed  == HasSettled(pass[t].now, MarketClose) /\ clean # {}
  IN [entryAt   |-> IF clean = {} THEN None ELSE Earliest(clean),
      ranged    |-> {PriceAt(t, m) : m \in clean},
      matured   |-> matured,
      horizonAt |-> IF matured THEN PriceAt(t, Latest(before)) ELSE None,
      closed    |-> closed,
      closeAt   |-> IF closed THEN PriceAt(t, Latest(clean)) ELSE None]

(* Variants: closed stays closed; the two status columns are confused.      *)
MergedClosed(old, new) ==
  [entryAt |-> Coalesce(old.entryAt, new.entryAt), ranged |-> new.ranged,
   horizonAt |-> Coalesce(new.horizonAt, old.horizonAt),
   horizon |-> IF new.matured THEN "matured" ELSE old.horizon,
   closeAt |-> Coalesce(new.closeAt, old.closeAt),
   status |-> IF new.closed THEN "closed" ELSE old.status]
MergedMixed(old, new) ==
  [MergedClosed(old, new) EXCEPT !.horizon = IF new.closed THEN "closed" ELSE @]

Merged(old, new) ==
  [entryAt   |-> Coalesce(old.entryAt, new.entryAt),
   ranged    |-> new.ranged,
   horizonAt |-> Coalesce(new.horizonAt, old.horizonAt),
   horizon   |-> IF new.matured THEN "matured" ELSE old.horizon,
   closeAt   |-> Coalesce(new.closeAt, old.closeAt),
   status    |-> IF new.closed THEN "closed" ELSE "tracking"]

(* The pass goes on with its other rows, if there are any.                  *)
Written(t, r) ==
  IF pass[t].rows = {r} THEN Over(t) ELSE [pass[t] EXCEPT !.rows = @ \ {r}]

Persist(t) ==
  /\ pass[t].pc = "persist"
  /\ \E r \in pass[t].rows :
       /\ row' = [row EXCEPT ![r] = Merged(@, Outcome(t, r))]
       /\ pass' = [pass EXCEPT ![t] = Written(t, r)]
  /\ UNCHANGED <<clock, published, traded, mishapsLeft>>

Crash(t) ==
  /\ pass[t].pc \in {"fetch", "persist"} /\ mishapsLeft > 0
  /\ pass' = [pass EXCEPT ![t] = Over(t)]
  /\ mishapsLeft' = mishapsLeft - 1
  /\ UNCHANGED <<clock, published, traded, row>>

-----------------------------------------------------------------------------
(* The provider publishes in order, at most Settle minutes late.            *)

Publish ==
  /\ published < clock
  /\ published' = published + 1
  /\ UNCHANGED <<clock, traded, row, pass, mishapsLeft>>

Tick ==
  /\ clock < LastMinute
  /\ clock - published < Settle
  /\ clock' = clock + 1
  /\ UNCHANGED <<published, traded, row, pass, mishapsLeft>>

Track(t) == Load(t) \/ Fetch(t) \/ Persist(t)

Next ==
  \/ \E r \in Rows : Enrol(r)
  \/ \E t \in Trackers : Track(t) \/ FetchFails(t) \/ Crash(t)
  \/ Publish \/ Tick

Spec ==
  /\ Init /\ [][Next]_vars
  /\ WF_vars(Publish) /\ WF_vars(Tick)
  /\ \A t \in Trackers : WF_vars(Track(t))

-----------------------------------------------------------------------------
Usable(r)      == {m \in traded[r] : FirstFullMinute <= m}
BeforeEnd(r)   == {m \in Usable(r) : m < HorizonEnd}

(* A matured horizon price is the close of the last whole minute before the *)
(* fixed horizon: it was not taken from a bar that was still growing, or    *)
(* before a later one was out (_tracking_outcome).                          *)
MaturedIsFinal ==
  \A r \in Rows : row[r].horizon = "matured" =>
    /\ BeforeEnd(r) # {}
    /\ row[r].horizonAt = Latest(BeforeEnd(r))

(* A closed row has its whole history: the extremes range over every bar    *)
(* between the evidence and the close, entry and close are its ends.  A     *)
(* pass that loaded the row before the close and writes it after another    *)
(* pass closed it opens it again, so that it is refreshed (_persist_outcome)*)
ClosedIsComplete ==
  \A r \in Rows : row[r].status = "closed" =>
    /\ row[r].ranged = Usable(r)
    /\ row[r].entryAt = Earliest(Usable(r))
    /\ row[r].closeAt = Latest(Usable(r))

(* No pass can finish a row without a bar before its horizon.               *)
Endless == {r \in Rows : BeforeEnd(r) = {}}

(* Every other row is finished, unless the endless ones fill the load: they *)
(* are loaded by every pass, for ever, and the oldest come first.           *)
FinishesUnlessFull ==
  \A r \in Rows :
    (row[r].status # None /\ r \notin Endless /\ Cardinality(Endless) < Limit) ~>
      (row[r].status = "closed" /\ row[r].horizon = "matured")
=============================================================================
