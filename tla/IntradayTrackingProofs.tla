----------------------- MODULE IntradayTrackingProofs -----------------------
(***************************************************************************)
(* Proofs about IntradayTracking: whatever histories the symbols have, and *)
(* however many trackers, rows, failing requests and crashes there are,    *)
(* what a row records as final is what the whole history gives.            *)
(***************************************************************************)
EXTENDS IntradayTracking, WellFoundedInduction, TLAPS

(* The provider is at most Settle minutes late, so what a pass has fetched *)
(* reaches to Settle minutes before its load.                              *)
LateInv ==
  /\ clock <= published + Settle
  /\ \A t \in Trackers :
       /\ pass[t].pc \in {"fetch", "persist"} => pass[t].now <= clock
       /\ pass[t].pc = "persist" => /\ pass[t].now <= pass[t].seen + Settle
                                    /\ pass[t].seen <= published

(* An entry that is there is the first bar, and is never replaced.         *)
EntryInv ==
  \A r \in Rows : row[r].entryAt # None => row[r].entryAt = Earliest(Usable(r))

IInv == LateInv /\ EntryInv /\ MaturedIsFinal /\ ClosedIsComplete

-----------------------------------------------------------------------------
(* A set of minutes has a first.                                           *)
LEMMA LeastExists ==
  ASSUME NEW S \in SUBSET Nat, S # {}
  PROVE  \E m \in S : \A n \in S : m <= n
<1> DEFINE R == OpToRel(<, Nat)
<1>1. IsWellFoundedOn(R, Nat)
  BY NatLessThanWellFounded
<1>2. PICK x \in S : \A y \in S : ~(<<y, x>> \in R)
  <2> HIDE DEF R
  <2> QED BY <1>1, WFMin
<1>3. \A y \in S : ~(y < x)
  BY <1>2 DEF OpToRel
<1> QED
  BY <1>3

(* The first usable minute belongs to the set and precedes the others.     *)
LEMMA EarliestIs ==
  ASSUME NEW S \in SUBSET Nat, S # {}
  PROVE  Earliest(S) \in S /\ \A n \in S : Earliest(S) <= n
BY LeastExists DEF Earliest

(* A bounded one has a last.                                               *)
LEMMA LatestIs ==
  ASSUME NEW b \in Nat, NEW S \in SUBSET (0..b), S # {}
  PROVE  Latest(S) \in S
<1> DEFINE T == {b - m : m \in S}
<1>1. T \in SUBSET Nat /\ T # {}
  <2>1. \A m \in S : m \in Nat /\ b - m \in Nat
    OBVIOUS
  <2> QED BY <2>1
<1>2. PICK k \in T : \A n \in T : k <= n
  <2> HIDE DEF T
  <2> QED BY <1>1, LeastExists
<1>3. PICK m \in S : k = b - m
  BY <1>2
<1>4. \A n \in S : b - m <= b - n
  BY <1>2, <1>3
<1>5. \A n \in S : n <= m
  BY <1>4
<1> QED
  BY <1>5 DEF Latest

-----------------------------------------------------------------------------
(* The rows start empty and the trackers asleep.                           *)
LEMMA InitType == Init => TypeOK
<1> SUFFICES ASSUME Init PROVE TypeOK
  OBVIOUS
<1>1. New \in RowType /\ [New EXCEPT !.status = None] \in RowType
  BY DEF New, RowType
<1>2. Asleep \in PassType
  BY TrackingAssumption DEF Asleep, PassType
<1>3. /\ row = [r \in Rows |-> IF r \in Early THEN New ELSE [New EXCEPT !.status = None]]
      /\ pass = [t \in Trackers |-> Asleep]
  BY DEF Init
<1>4. row \in [Rows -> RowType] /\ pass \in [Trackers -> PassType]
  BY <1>1, <1>2, <1>3
<1> QED
  BY <1>4, TrackingAssumption DEF Init, TypeOK

(* Nothing outside the history is used of a row.                           *)
LEMMA CleanIsUsable ==
  ASSUME TypeOK, NEW t \in Trackers, NEW r \in Rows
  PROVE  /\ traded[r] \in SUBSET Minutes /\ Minutes \in SUBSET Nat
         /\ Usable(r) \in SUBSET Minutes /\ Clean(t, r) \in SUBSET Usable(r)
         /\ Clean(t, r) = {m \in Usable(r) : m <= pass[t].now /\ m <= pass[t].seen}
<1>1. traded[r] \in SUBSET Minutes
  BY TrackingAssumption DEF TypeOK
<1>2. Minutes \in SUBSET Nat /\ \A m \in Minutes : m < MarketClose
  BY TrackingAssumption DEF Minutes
<1> QED
  BY <1>1, <1>2 DEF Clean, Usable, FirstFullMinute

(* What a pass computes of a row lies in its domain.                       *)
LEMMA OutcomeType ==
  ASSUME TypeOK, NEW t \in Trackers, NEW r \in Rows
  PROVE  LET o == Outcome(t, r)
         IN  /\ o.entryAt \in Minutes \union {None}
             /\ o.ranged \in SUBSET (Minutes \union {Growing})
             /\ o.matured \in BOOLEAN /\ o.closed \in BOOLEAN
             /\ o.horizonAt \in Minutes \union {None, Growing}
             /\ o.closeAt \in Minutes \union {None, Growing}
             /\ ~o.matured => o.horizonAt = None
             /\ o.entryAt # None => Clean(t, r) # {} /\ o.entryAt = Earliest(Clean(t, r))
<1> DEFINE clean   == Clean(t, r)
           before  == {m \in clean : m < HorizonEnd}
           matured == HasSettled(pass[t].now, HorizonEnd) /\ before # {}
           closed  == HasSettled(pass[t].now, MarketClose) /\ clean # {}
<1>1. clean \in SUBSET Minutes /\ Minutes \in SUBSET Nat /\ MarketClose \in Nat \ {0}
      /\ Minutes = 0..(MarketClose - 1)
  BY CleanIsUsable, TrackingAssumption DEF Minutes
<1>2. clean # {} => Earliest(clean) \in clean /\ Latest(clean) \in clean
  <2> HIDE DEF clean
  <2>1. MarketClose - 1 \in Nat
    BY <1>1
  <2> QED BY <1>1, <2>1, EarliestIs, LatestIs
<1>3. before # {} => Latest(before) \in before
  <2>1. MarketClose - 1 \in Nat /\ before \in SUBSET (0..(MarketClose - 1))
    BY <1>1
  <2> HIDE DEF before
  <2> QED BY <2>1, LatestIs
<1>4. \A m \in Minutes : PriceAt(t, m) \in Minutes \union {Growing}
  BY DEF PriceAt
<1>5. Outcome(t, r) =
        [entryAt   |-> IF clean = {} THEN None ELSE Earliest(clean),
         ranged    |-> {PriceAt(t, m) : m \in clean},
         matured   |-> matured,
         horizonAt |-> IF matured THEN PriceAt(t, Latest(before)) ELSE None,
         closed    |-> closed,
         closeAt   |-> IF closed THEN PriceAt(t, Latest(clean)) ELSE None]
  BY DEF Outcome
<1>6. matured \in BOOLEAN /\ closed \in BOOLEAN /\ (matured => before # {}) /\ (closed => clean # {})
  BY DEF HasSettled
<1>7. before \in SUBSET clean
  OBVIOUS
<1> HIDE DEF clean, before, matured, closed
<1>8. {PriceAt(t, m) : m \in clean} \in SUBSET (Minutes \union {Growing})
  BY <1>1, <1>4
<1>9. closed => PriceAt(t, Latest(clean)) \in Minutes \union {Growing}
  BY <1>1, <1>2, <1>4, <1>6
<1>10. matured => PriceAt(t, Latest(before)) \in Minutes \union {Growing}
  BY <1>1, <1>3, <1>4, <1>6, <1>7
<1>11. clean # {} => Earliest(clean) \in Minutes
  BY <1>1, <1>2
<1> QED
  BY <1>5, <1>6, <1>8, <1>9, <1>10, <1>11 DEF clean

(* One step per action, one domain per variable it changes.                *)
LEMMA NextType == TypeOK /\ [Next]_vars => TypeOK'
<1> SUFFICES ASSUME TypeOK, [Next]_vars PROVE TypeOK'
  OBVIOUS
<1> USE TrackingAssumption
<1>1. ASSUME NEW r \in Rows, Enrol(r) PROVE TypeOK'
  BY <1>1 DEF Enrol, TypeOK, New, RowType
<1>2. ASSUME NEW t \in Trackers, Load(t) PROVE TypeOK'
  <2>1. Loaded \in SUBSET Rows
    BY DEF Loaded
  <2> DEFINE p == [pc |-> "fetch", now |-> clock, seen |-> 0, rows |-> Loaded]
  <2>2. p \in PassType
    BY <2>1 DEF TypeOK, PassType
  <2>3. pass' = [pass EXCEPT ![t] = p]
    BY <1>2 DEF Load
  <2> HIDE DEF p
  <2>4. pass' \in [Trackers -> PassType]
    BY <2>2, <2>3 DEF TypeOK
  <2>5. UNCHANGED <<clock, published, traded, row, mishapsLeft>>
    BY <1>2 DEF Load
  <2> QED
    BY <2>4, <2>5 DEF TypeOK
<1>3. ASSUME NEW t \in Trackers, Fetch(t) PROVE TypeOK'
  <2>1. published \in 0..LastMinute
    BY DEF TypeOK
  <2>2. pass' \in [Trackers -> PassType]
    BY <1>3, <2>1, ZenonT(60) DEF Fetch, TypeOK, PassType
  <2>3. UNCHANGED <<clock, published, traded, row, mishapsLeft>>
    BY <1>3 DEF Fetch
  <2> QED
    BY <2>2, <2>3 DEF TypeOK
<1>4. ASSUME NEW t \in Trackers, Persist(t) PROVE TypeOK'
  <2>1. PICK r \in Rows :
          /\ row' = [row EXCEPT ![r] = Merged(@, Outcome(t, r))]
          /\ pass' = [pass EXCEPT ![t] = Written(t, r)]
    BY <1>4 DEF Persist, TypeOK, PassType
  <2>2. Merged(row[r], Outcome(t, r)) \in RowType
    <3>1. row[r] \in RowType
      BY DEF TypeOK
    <3> DEFINE o == Outcome(t, r)
    <3>2. /\ o.entryAt \in Minutes \union {None}
          /\ o.ranged \in SUBSET (Minutes \union {Growing})
          /\ o.horizonAt \in Minutes \union {None, Growing}
          /\ o.closeAt \in Minutes \union {None, Growing}
      BY OutcomeType
    <3> HIDE DEF o
    <3>3. Merged(row[r], o) \in RowType
      BY <3>1, <3>2 DEF Merged, Coalesce, RowType
    <3> QED BY <3>3 DEF o
  <2>3. pass' \in [Trackers -> PassType]
    <3>1. pass[t] \in PassType /\ Over(t) \in PassType
      BY DEF TypeOK, PassType, Over, Asleep
    <3>2. Written(t, r) \in PassType
      BY <3>1 DEF PassType, Written
    <3> QED
      BY <2>1, <3>2 DEF TypeOK
  <2> QED
    BY <1>4, <2>1, <2>2, <2>3 DEF Persist, TypeOK
<1>5. ASSUME NEW t \in Trackers, FetchFails(t) \/ Crash(t) PROVE TypeOK'
  BY <1>5 DEF FetchFails, Crash, TypeOK, PassType, Over, Asleep
<1>6. ASSUME Publish PROVE TypeOK'
  BY <1>6 DEF Publish, TypeOK
<1>7. ASSUME Tick PROVE TypeOK'
  BY <1>7 DEF Tick, TypeOK
<1>8. CASE UNCHANGED vars
  BY <1>8 DEF vars, TypeOK
<1> QED
  BY <1>1, <1>2, <1>3, <1>4, <1>5, <1>6, <1>7, <1>8 DEF Next, Track

-----------------------------------------------------------------------------
(* No row is matured or closed at the start.                               *)
LEMMA InitInv == Init => IInv
BY TrackingAssumption
DEF Init, IInv, LateInv, EntryInv, MaturedIsFinal, ClosedIsComplete, New, Asleep, Rows

(* A pass under way knows no bar later than its own minute.                *)
LEMMA NextLate == TypeOK /\ LateInv /\ [Next]_vars => LateInv'
<1> SUFFICES ASSUME TypeOK, LateInv, [Next]_vars PROVE LateInv'
  OBVIOUS
<1> USE TrackingAssumption
<1>1. ASSUME NEW r \in Rows, Enrol(r) PROVE LateInv'
  BY <1>1 DEF Enrol, LateInv
<1>2. ASSUME NEW t \in Trackers, Load(t) PROVE LateInv'
  BY <1>2 DEF Load, TypeOK, PassType, LateInv
<1>3. ASSUME NEW t \in Trackers, Fetch(t) PROVE LateInv'
  BY <1>3 DEF Fetch, TypeOK, PassType, LateInv
<1>4. ASSUME NEW t \in Trackers, Persist(t) PROVE LateInv'
  BY <1>4 DEF Persist, Written, TypeOK, PassType, LateInv, Over, Asleep
<1>5. ASSUME NEW t \in Trackers, FetchFails(t) \/ Crash(t) PROVE LateInv'
  BY <1>5 DEF FetchFails, Crash, TypeOK, PassType, LateInv, Over, Asleep
<1>6. ASSUME Publish PROVE LateInv'
  BY <1>6 DEF Publish, TypeOK, PassType, LateInv
<1>7. ASSUME Tick PROVE LateInv'
  BY <1>7 DEF Tick, TypeOK, PassType, LateInv
<1>8. CASE UNCHANGED vars
  BY <1>8 DEF vars, LateInv
<1> QED
  BY <1>1, <1>2, <1>3, <1>4, <1>5, <1>6, <1>7, <1>8 DEF Next, Track

-----------------------------------------------------------------------------
(* What a pass writes is right: an entry is the first bar of all, a matured*)
(* row had every bar before the horizon, a closed one all of them, and     *)
(* none of them was still growing.                                         *)
LEMMA OutcomeIsRight ==
  ASSUME TypeOK, LateInv, NEW t \in Trackers, NEW r \in Rows, pass[t].pc = "persist"
  PROVE  LET o == Outcome(t, r)
         IN  /\ o.entryAt # None => o.entryAt = Earliest(Usable(r))
             /\ o.matured => BeforeEnd(r) # {} /\ o.horizonAt = Latest(BeforeEnd(r))
                             /\ o.horizonAt # None
             /\ o.closed => /\ o.ranged = Usable(r)
                            /\ o.entryAt = Earliest(Usable(r)) /\ o.entryAt # None
                            /\ o.closeAt = Latest(Usable(r)) /\ o.closeAt # None
<1> USE TrackingAssumption
<1> DEFINE clean   == Clean(t, r)
           before  == {m \in clean : m < HorizonEnd}
           matured == HasSettled(pass[t].now, HorizonEnd) /\ before # {}
           closed  == HasSettled(pass[t].now, MarketClose) /\ clean # {}
           now     == pass[t].now
           seen    == pass[t].seen
<1>1. /\ Usable(r) \in SUBSET Minutes /\ clean \in SUBSET Usable(r)
      /\ clean = {m \in Usable(r) : m <= now /\ m <= seen}
      /\ Minutes \in SUBSET Nat /\ Minutes = 0..(MarketClose - 1)
  BY CleanIsUsable DEF Minutes
<1>2. now \in Nat /\ seen \in Nat /\ now <= seen + Settle
  BY DEF TypeOK, PassType, LateInv
<1>3. Outcome(t, r) =
        [entryAt   |-> IF clean = {} THEN None ELSE Earliest(clean),
         ranged    |-> {PriceAt(t, m) : m \in clean},
         matured   |-> matured,
         horizonAt |-> IF matured THEN PriceAt(t, Latest(before)) ELSE None,
         closed    |-> closed,
         closeAt   |-> IF closed THEN PriceAt(t, Latest(clean)) ELSE None]
  BY DEF Outcome
<1>4. BeforeEnd(r) = {m \in Usable(r) : m < HorizonEnd}
  BY DEF BeforeEnd
<1>5. \A m \in Nat : m < seen => PriceAt(t, m) = m
  BY DEF PriceAt
<1>6. clean # {} => Earliest(clean) = Earliest(Usable(r)) /\ Earliest(clean) # None
  <2> SUFFICES ASSUME clean # {}
               PROVE  Earliest(clean) = Earliest(Usable(r)) /\ Earliest(clean) # None
    OBVIOUS
  <2> HIDE DEF clean, now, seen
  <2>1. clean \in SUBSET Nat /\ Usable(r) \in SUBSET Nat /\ Usable(r) # {}
    BY <1>1
  <2>2. Earliest(clean) \in clean /\ \A n \in clean : Earliest(clean) <= n
    BY <2>1, EarliestIs
  <2>3. Earliest(Usable(r)) \in Usable(r) /\ \A n \in Usable(r) : Earliest(Usable(r)) <= n
    BY <2>1, EarliestIs
  <2>4. Earliest(Usable(r)) \in clean
    BY <1>1, <1>2, <2>1, <2>2, <2>3
  <2> QED
    BY <2>1, <2>2, <2>3, <2>4, <1>1
<1>7. matured => /\ BeforeEnd(r) # {} /\ PriceAt(t, Latest(before)) = Latest(BeforeEnd(r))
                 /\ PriceAt(t, Latest(before)) # None
  <2> SUFFICES ASSUME matured PROVE
                 /\ BeforeEnd(r) # {} /\ PriceAt(t, Latest(before)) = Latest(BeforeEnd(r))
                 /\ PriceAt(t, Latest(before)) # None
    OBVIOUS
  <2>1. HorizonEnd <= seen /\ HorizonEnd <= now /\ before # {}
    BY <1>2 DEF HasSettled
  <2>2. before = BeforeEnd(r)
    <3> HIDE DEF now, seen
    <3> QED BY <1>1, <1>2, <1>4, <2>1
  <2>3. before \in SUBSET (0..(MarketClose - 1)) /\ MarketClose - 1 \in Nat
    BY <1>1
  <2>4. Latest(before) \in before
    <3> HIDE DEF before
    <3> QED BY <2>1, <2>3, LatestIs
  <2>5. Latest(before) \in Nat /\ Latest(before) < seen
    BY <1>1, <1>2, <2>1, <2>4
  <2> QED
    BY <1>5, <2>1, <2>2, <2>5
<1>8. closed => /\ {PriceAt(t, m) : m \in clean} = Usable(r) /\ clean = Usable(r)
                /\ PriceAt(t, Latest(clean)) = Latest(Usable(r))
                /\ PriceAt(t, Latest(clean)) # None
  <2> SUFFICES ASSUME closed PROVE
                /\ {PriceAt(t, m) : m \in clean} = Usable(r) /\ clean = Usable(r)
                /\ PriceAt(t, Latest(clean)) = Latest(Usable(r))
                /\ PriceAt(t, Latest(clean)) # None
    OBVIOUS
  <2>1. MarketClose <= seen /\ MarketClose <= now /\ clean # {}
    BY <1>2 DEF HasSettled
  <2>2. clean = Usable(r)
    <3> HIDE DEF clean, now, seen
    <3>1. \A m \in Usable(r) : m \in Nat /\ m < MarketClose
      BY <1>1
    <3>2. \A m \in Usable(r) : m <= now /\ m <= seen
      BY <3>1, <2>1, <1>2
    <3> QED BY <1>1, <3>2
  <2>3. \A m \in clean : m \in Nat /\ m < seen
    <3> HIDE DEF clean, now, seen
    <3> QED BY <1>1, <1>2, <2>1
  <2>4. \A m \in clean : PriceAt(t, m) = m
    BY <1>5, <2>3
  <2>5. clean \in SUBSET (0..(MarketClose - 1)) /\ MarketClose - 1 \in Nat
    BY <1>1
  <2>6. Latest(clean) \in clean
    <3> HIDE DEF clean
    <3> QED BY <2>1, <2>5, LatestIs
  <2> HIDE DEF clean, seen
  <2> QED
    BY <2>2, <2>3, <2>4, <2>6
<1> HIDE DEF clean, before, matured, closed
<1>9. closed => clean # {}
  BY DEF closed, clean
<1> QED
  BY <1>3, <1>6, <1>7, <1>8, <1>9

(* Only Persist changes a row; what it writes is right by OutcomeIsRight.  *)
LEMMA NextInv == TypeOK /\ IInv /\ [Next]_vars => IInv'
<1> SUFFICES ASSUME TypeOK, IInv, [Next]_vars PROVE IInv'
  OBVIOUS
<1> USE TrackingAssumption
<1>1. LateInv'
  BY NextLate DEF IInv
<1> SUFFICES EntryInv' /\ MaturedIsFinal' /\ ClosedIsComplete'
  BY <1>1 DEF IInv
<1>2. ASSUME UNCHANGED <<row, traded>> PROVE EntryInv' /\ MaturedIsFinal' /\ ClosedIsComplete'
  BY <1>2 DEF IInv, EntryInv, MaturedIsFinal, ClosedIsComplete, Usable, BeforeEnd
<1>3. ASSUME NEW q \in Rows, Enrol(q) PROVE EntryInv' /\ MaturedIsFinal' /\ ClosedIsComplete'
  BY <1>3 DEF Enrol, New, TypeOK, IInv, EntryInv, MaturedIsFinal, ClosedIsComplete, Usable,
              BeforeEnd
<1>4. ASSUME NEW t \in Trackers, Persist(t)
      PROVE  EntryInv' /\ MaturedIsFinal' /\ ClosedIsComplete'
  <2>1. PICK q \in Rows : row' = [row EXCEPT ![q] = Merged(@, Outcome(t, q))]
    BY <1>4 DEF Persist, TypeOK, PassType
  <2>2. traded' = traded /\ pass[t].pc = "persist"
    BY <1>4 DEF Persist
  <2>3. \A r \in Rows : Usable(r)' = Usable(r) /\ BeforeEnd(r)' = BeforeEnd(r)
    BY <2>2 DEF Usable, BeforeEnd
  <2>4. \A r \in Rows \ {q} : row'[r] = row[r]
    BY <2>1 DEF TypeOK
  <2> DEFINE o == Outcome(t, q)
             n == Merged(row[q], o)
  <2>5. row'[q] = n
    BY <2>1 DEF TypeOK
  <2>6. /\ o.entryAt # None => o.entryAt = Earliest(Usable(q))
        /\ o.matured => BeforeEnd(q) # {} /\ o.horizonAt = Latest(BeforeEnd(q))
                        /\ o.horizonAt # None
        /\ o.closed => /\ o.ranged = Usable(q)
                       /\ o.entryAt = Earliest(Usable(q)) /\ o.entryAt # None
                       /\ o.closeAt = Latest(Usable(q)) /\ o.closeAt # None
    BY <2>2, OutcomeIsRight DEF IInv
  <2>7. ~o.matured => o.horizonAt = None
    BY OutcomeType
  <2> HIDE DEF o
  <2>8. n.entryAt # None => n.entryAt = Earliest(Usable(q))
    BY <2>6 DEF Merged, Coalesce, IInv, EntryInv
  <2>9. n.horizon = "matured" => BeforeEnd(q) # {} /\ n.horizonAt = Latest(BeforeEnd(q))
    BY <2>6, <2>7 DEF Merged, Coalesce, IInv, MaturedIsFinal
  <2>10. n.status = "closed" => /\ n.ranged = Usable(q)
                                /\ n.entryAt = Earliest(Usable(q))
                                /\ n.closeAt = Latest(Usable(q))
    BY <2>6 DEF Merged, Coalesce, IInv, EntryInv
  <2> HIDE DEF n
  <2>11. EntryInv'
    BY <2>3, <2>4, <2>5, <2>8 DEF IInv, EntryInv
  <2>12. MaturedIsFinal'
    BY <2>3, <2>4, <2>5, <2>9 DEF IInv, MaturedIsFinal
  <2>13. ClosedIsComplete'
    BY <2>3, <2>4, <2>5, <2>10 DEF IInv, ClosedIsComplete
  <2> QED
    BY <2>11, <2>12, <2>13
<1>5. ASSUME NEW t \in Trackers, Load(t) \/ Fetch(t) \/ FetchFails(t) \/ Crash(t)
      PROVE  UNCHANGED <<row, traded>>
  BY <1>5 DEF Load, Fetch, FetchFails, Crash
<1>6. ASSUME Publish \/ Tick \/ UNCHANGED vars PROVE UNCHANGED <<row, traded>>
  BY <1>6 DEF Publish, Tick, vars
<1> QED
  BY <1>2, <1>3, <1>4, <1>5, <1>6 DEF Next, Track

-----------------------------------------------------------------------------
(* Rows and passes stay in their domains (intraday_profitability_tracking).*)
THEOREM TrackerTypes == Spec => []TypeOK
<1>1. Init => TypeOK
  BY InitType
<1>2. TypeOK /\ [Next]_vars => TypeOK'
  BY NextType
<1> QED
  BY <1>1, <1>2, PTL DEF Spec

(* Every reachable state satisfies the invariant.                          *)
LEMMA TrackingInvariant == Spec => []IInv
<1>1. Init => IInv
  BY InitInv
<1>2. TypeOK /\ IInv /\ [Next]_vars => IInv'
  BY NextInv
<1> QED
  BY <1>1, <1>2, TrackerTypes, PTL DEF Spec

(* A matured horizon price is the close of the last whole minute before    *)
(* the horizon, however late the bars and however many trackers overlap    *)
(* (_tracking_outcome, _persist_outcome).                                  *)
THEOREM MaturedPricesAreFinal == Spec => []MaturedIsFinal
<1>1. IInv => MaturedIsFinal
  BY DEF IInv
<1> QED
  BY <1>1, TrackingInvariant, PTL

(* A closed row has its whole history (_tracking_outcome, _persist_outcome).*)
THEOREM ClosedRowsAreComplete == Spec => []ClosedIsComplete
<1>1. IInv => ClosedIsComplete
  BY DEF IInv
<1> QED
  BY <1>1, TrackingInvariant, PTL
=============================================================================
