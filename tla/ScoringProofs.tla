----------------------------- MODULE ScoringProofs -----------------------------
(****************************************************************************)
(* Proofs about the scorer, for every candidate whose figures are whole      *)
(* numbers: every score is a point of 0..100, a shut gate stays shut, and an *)
(* INVESTIGATE stands on what the gates ask for, with any source removed.    *)
(****************************************************************************)
EXTENDS Scoring, FiniteSetTheorems, WellFoundedInduction, TLAPS

Points == 0..100

-----------------------------------------------------------------------------
(* Least and greatest members                                               *)

(* A set of naturals has a least member.                                    *)
LEMMA NatMin ==
  ASSUME NEW S \in SUBSET Nat, S # {} PROVE Min(S) \in S /\ \A x \in S : Min(S) <= x
<1> DEFINE R == OpToRel(<, Nat)
<1>1. PICK x \in S : \A y \in S : ~(<<y, x>> \in R)
  <2>1. IsWellFoundedOn(R, Nat)
    BY NatLessThanWellFounded
  <2> HIDE DEF R
  <2> QED
    BY <2>1, WFMin
<1>2. \A y \in S : ~(y < x)
  BY <1>1 DEF OpToRel
<1>3. \A y \in S : x <= y
  BY <1>2
<1> QED
  BY <1>3 DEF Min

(* A bounded one a greatest.                                                *)
LEMMA PointMax ==
  ASSUME NEW S \in SUBSET Points, S # {} PROVE Max(S) \in S /\ \A x \in S : x <= Max(S)
<1> DEFINE T == {100 - x : x \in S}
<1>1. T \in SUBSET Nat /\ T # {}
  <2>1. \A x \in S : x \in Int /\ 0 <= x /\ x <= 100
    BY DEF Points
  <2>2. \A x \in S : 100 - x \in Nat
    BY <2>1
  <2> QED
    BY <2>2
<1>2. Min(T) \in T /\ \A y \in T : Min(T) <= y
  BY <1>1, NatMin
<1>3. PICK x \in S : Min(T) = 100 - x
  BY <1>2
<1>4. \A y \in S : y <= x
  <2> SUFFICES ASSUME NEW y \in S PROVE y <= x
    OBVIOUS
  <2>1. 100 - y \in T /\ y \in Int /\ x \in Int
    BY DEF Points
  <2>2. 100 - x <= 100 - y
    BY <1>2, <1>3, <2>1
  <2> QED
    BY <2>1, <2>2
<1> QED
  BY <1>4 DEF Max

-----------------------------------------------------------------------------
(* Points and records                                                       *)

(* A point is a whole number between 0 and 100.                             *)
LEMMA PointIs == \A v : v \in Points <=> v \in Int /\ 0 <= v /\ v <= 100
BY DEF Points

(* Clamped figures are points.                                              *)
LEMMA ClampIsPoint == ASSUME NEW v \in Int PROVE Clamp(v) \in Points
BY PointIs DEF Clamp, Min, Max

(* A clamped figure is no more than the figure, unless that is negative.    *)
LEMMA ClampBound ==
  ASSUME NEW v \in Int PROVE Clamp(v) = IF v <= 0 THEN 0 ELSE IF v >= 100 THEN 100 ELSE v
BY DEF Clamp, Min, Max

(* The greater and the smaller of two figures.                              *)
LEMMA TwoFigures ==
  ASSUME NEW a \in Int, NEW b \in Int
  PROVE  AtLeast(a, b) = (IF a >= b THEN a ELSE b) /\ AtMost(a, b) = (IF a <= b THEN a ELSE b)
BY DEF AtLeast, AtMost, Min, Max

(* Rounded per cents are whole.                                             *)
LEMMA PctIsWhole == ASSUME NEW a \in Int PROVE Pct(a) \in Int
BY DEF Pct

(* The fields of a merged record.                                           *)
Over(b, f, g) ==
  /\ DOMAIN b = DOMAIN f \cup DOMAIN g
  /\ \A k \in DOMAIN f : b[k] = f[k]
  /\ \A k \in DOMAIN g : k \notin DOMAIN f => b[k] = g[k]

(* They are those of the first, then those only the second has.             *)
LEMMA Merged == \A f, g : Over(f ++ g, f, g)
BY DEF ++, Over

-----------------------------------------------------------------------------
(* The evidence                                                             *)

Causes   == {"VERIFIED", "PARTIALLY_VERIFIED", "UNVERIFIED", "CONFLICTING"}
Classes  == DOMAIN ClassCaps
Verdicts == {"PASS", "WATCH", "INVESTIGATE"}
Event(p) ==
  /\ DOMAIN p = {"name", "damage", "rever", "horizon"}
  /\ p.damage \in Points /\ p.rever \in Points /\ p.horizon \in Points

(* Every row of the table names an event in points.                         *)
LEMMA TableRows == \A i \in DOMAIN EventTable : Event(EventTable[i][2])
<1>1. \A n, d, r, h : d \in Points /\ r \in Points /\ h \in Points => Event(Profile(n, d, r, h))
  BY DEF Profile, Event
<1>2. \A n, d, r, h : d \in 0..100 /\ r \in 0..100 /\ h \in 0..100 => Event(Profile(n, d, r, h))
  BY <1>1 DEF Points
<1> QED
  BY <1>2 DEF EventTable

(* So does the event the signals raise.                                     *)
LEMMA EventType == ASSUME NEW sig, NEW class PROVE Event(EventProfile(sig, class))
<1> DEFINE raised == sig \cup {s \in {"miss_intact"} : {"secondary_miss", "primary_success"} \subseteq sig}
           rows   == {i \in DOMAIN EventTable : EventTable[i][1] \cap raised # {}}
           row    == EventTable[Min(rows)][2]
<1>1. Event(ClassProfile(class))
  <2>1. \A n : /\ Event(Profile(n, 76, 22, 28)) /\ Event(Profile(n, 90, 10, 12))
               /\ Event(Profile(n, 45, 30, 35))
    BY PointIs DEF Profile, Event
  <2> QED
    BY <2>1 DEF ClassProfile
<1>2. ASSUME rows # {} PROVE Event(row)
  <2>1. DOMAIN EventTable = 1..20
    BY DEF EventTable
  <2>2. rows \in SUBSET Nat
    BY <2>1
  <2>3. Min(rows) \in rows
    BY <1>2, <2>2, NatMin
  <2> QED
    BY <2>3, TableRows
<1>3. \A p : Event(p) => Event([p EXCEPT !.damage = 27])
  BY PointIs DEF Event
<1>4. EventProfile(sig, class) = IF rows = {} THEN ClassProfile(class)
     ELSE IF row.name = "analyst_only" /\ "target_cut" \in sig
          THEN [row EXCEPT !.damage = 27] ELSE row
  BY DEF EventProfile
<1> HIDE DEF row, rows
<1> QED
  BY <1>1, <1>2, <1>3, <1>4

(* A figure of the news makes an event worse within its points.             *)
LEMMA HardenType ==
  ASSUME NEW p, Event(p), NEW row \in Points \X Points \X Points
  PROVE  Event(Harden(p, row))
<1>1. \A a, b \in Points : AtLeast(a, b) \in Points /\ AtMost(a, b) \in Points
  BY TwoFigures, PointIs
<1>2. row[1] \in Points /\ row[2] \in Points /\ row[3] \in Points
  OBVIOUS
<1> QED
  BY <1>1, <1>2 DEF Harden, Event

(* So do all the figures together, and what they rename it to.              *)
LEMMA QuantifiedType ==
  ASSUME NEW p, Event(p), NEW arts, NEW tech PROVE Event(Quantified(p, arts, tech))
<1> DEFINE
      miss  == Ladder(Worst(arts, "miss"),
                 <<<<30, <<78, 24, 30>>>>, <<15, <<68, 35, 42>>>>, <<5, <<58, 44, 100>>>>>>, NoRow)
      cut   == Ladder(Worst(arts, "cut"),
                 <<<<15, <<75, 28, 34>>>>, <<7, <<65, 38, 100>>>>, <<3, <<56, 100, 100>>>>>>, NoRow)
      yoy   == Ladder(Worst(arts, "yoy"),
                 <<<<40, <<80, 24, 30>>>>, <<20, <<68, 34, 100>>>>, <<10, <<58, 100, 100>>>>>>, NoRow)
      stake == Ladder(Worst(arts, "stake"),
                 <<<<90, <<72, 32, 40>>>>, <<50, <<60, 42, 100>>>>>>, NoRow)
      hard  == Harden(Harden(Harden(Harden(p, miss), cut), yoy), stake)
      R     == Points \X Points \X Points
<1>1. miss \in R
  <2>1. miss \in {<<78, 24, 30>>, <<68, 35, 42>>, <<58, 44, 100>>, <<0, 100, 100>>}
    BY DEF Ladder, Min, NoRow
  <2> HIDE DEF miss
  <2> QED
    BY <2>1, PointIs
<1>2. cut \in R
  <2>1. cut \in {<<75, 28, 34>>, <<65, 38, 100>>, <<56, 100, 100>>, <<0, 100, 100>>}
    BY DEF Ladder, Min, NoRow
  <2> HIDE DEF cut
  <2> QED
    BY <2>1, PointIs
<1>3. yoy \in R
  <2>1. yoy \in {<<80, 24, 30>>, <<68, 34, 100>>, <<58, 100, 100>>, <<0, 100, 100>>}
    BY DEF Ladder, Min, NoRow
  <2> HIDE DEF yoy
  <2> QED
    BY <2>1, PointIs
<1>4. stake \in R
  <2>1. stake \in {<<72, 32, 40>>, <<60, 42, 100>>, <<0, 100, 100>>}
    BY DEF Ladder, Min, NoRow
  <2> HIDE DEF stake
  <2> QED
    BY <2>1, PointIs
<1>5. Event(hard)
  <2> HIDE DEF miss, cut, yoy, stake
  <2> QED
    BY <1>1, <1>2, <1>3, <1>4, HardenType
<1>6. \A h, n : Event(h) => Event([h EXCEPT !.name = n])
  BY DEF Event
<1>7. \A h : Event(h) =>
        Event([h EXCEPT !.name = "post_spike_unwind", !.damage = AtMost(@, 35),
                        !.rever = AtLeast(@, 60), !.horizon = AtLeast(@, 58)])
  <2>1. \A a \in Points : AtMost(a, 35) \in Points /\ AtLeast(a, 60) \in Points /\ AtLeast(a, 58) \in Points
    BY TwoFigures, PointIs
  <2> QED
    BY <2>1 DEF Event
<1> DEFINE named(n) == [hard EXCEPT !.name = n]
           spiked   == [hard EXCEPT !.name = "post_spike_unwind", !.damage = AtMost(@, 35),
                                    !.rever = AtLeast(@, 60), !.horizon = AtLeast(@, 58)]
<1>8. \/ Quantified(p, arts, tech) = hard
      \/ Quantified(p, arts, tech) = named("quantified_earnings_deterioration")
      \/ Quantified(p, arts, tech) = named("control_transaction")
      \/ Quantified(p, arts, tech) = spiked
  BY DEF Quantified
<1> HIDE DEF hard
<1>9. Event(named("quantified_earnings_deterioration")) /\ Event(named("control_transaction"))
  BY <1>5, <1>6
<1>10. Event(spiked)
  BY <1>5, <1>7
<1> HIDE DEF named, spiked
<1> QED
  BY <1>5, <1>8, <1>9, <1>10

(* The rules that follow keep damage and reversibility points.              *)
LEMMA AdjustedType ==
  ASSUME NEW p, Event(p), NEW sig, NEW flags, NEW arts PROVE Event(Adjusted(p, sig, flags, arts))
<1> DEFINE
      reaffirmed == "guidance_reaffirmed" \in sig /\ "guidance_cut" \notin sig
      intact     == {"primary_success", "secondary_miss"} \subseteq sig
      raised     == {"target_raise", "analyst_only"} \subseteq sig
      low == AtMost(AtMost(AtMost(p.damage, IF reaffirmed THEN 30 ELSE 100),
                           IF intact THEN 45 ELSE 100), IF raised THEN 18 ELSE 100)
      floors == {0} \cup {x \in {72} : Conflicting(sig)}
                \cup {x \in {60} : /\ "clinical" \in flags /\ "biotech" \in Said(arts)
                                   /\ "primary_success" \notin sig}
                \cup {x \in {55} : "dilution" \in flags}
                \cup {x \in {90} : "solvency" \in flags}
      up == AtLeast(AtLeast(p.rever, IF reaffirmed THEN 76 ELSE 0), IF raised THEN 86 ELSE 0)
<1>1. \A a, b \in Points : AtLeast(a, b) \in Points /\ AtMost(a, b) \in Points
  BY TwoFigures, PointIs
<1>2. 0 \in Points /\ 100 \in Points /\ 30 \in Points /\ 45 \in Points /\ 18 \in Points
      /\ 72 \in Points /\ 60 \in Points /\ 55 \in Points /\ 90 \in Points /\ 76 \in Points
      /\ 86 \in Points /\ 35 \in Points
  BY PointIs
<1>3. p.damage \in Points /\ p.rever \in Points /\ p.horizon \in Points
  BY DEF Event
<1>4. low \in Points
  BY <1>1, <1>2, <1>3
<1>5. Max(floors) \in Points
  <2>1. floors \in SUBSET Points /\ floors # {}
    BY <1>2
  <2> HIDE DEF floors
  <2> QED
    BY <2>1, PointMax
<1>6. up \in Points
  BY <1>1, <1>2, <1>3
<1>7. Adjusted(p, sig, flags, arts) =
        [p EXCEPT !.damage = AtLeast(low, Max(floors)),
                  !.rever = IF Conflicting(sig) THEN AtMost(up, 35) ELSE up]
  BY DEF Adjusted
<1> HIDE DEF low, floors, up
<1>8. \A d, r \in Points : Event([p EXCEPT !.damage = d, !.rever = r])
  BY <1>3 DEF Event
<1>9. PICK d \in Points : d = AtLeast(low, Max(floors))
  BY <1>1, <1>4, <1>5
<1>10. PICK r \in Points : r = (IF Conflicting(sig) THEN AtMost(up, 35) ELSE up)
  BY <1>1, <1>2, <1>6
<1>11. Adjusted(p, sig, flags, arts) = [p EXCEPT !.damage = d, !.rever = r]
  BY <1>7, <1>9, <1>10
<1> QED
  BY <1>8, <1>11

(* Source quality is a point.                                               *)
LEMMA SourceQualityType ==
  ASSUME NEW arts, NEW recognised \in BOOLEAN, NEW conflicting \in BOOLEAN
  PROVE  SourceQuality(arts, recognised, conflicting) \in Points
<1> DEFINE
      docs    == Documents(arts)
      sources == Cardinality({a.source : a \in docs})
      fresh   == Min({a.age : a \in docs})
      first   == CASE sources <= 1 -> 58 [] sources = 2 -> 70 [] sources = 3 -> 79 [] OTHER -> 85
      plain   == first + If(\E a \in docs : a.standing # "plain", 9)
                 + (IF fresh <= 12 THEN 7 ELSE IF fresh <= 36 THEN 3 ELSE If(fresh > 72, -8))
                 - If(~recognised, 20) - If(conflicting, 14)
      backed  == AtLeast(plain, IF recognised /\ ~conflicting THEN 90 ELSE 58)
<1>1. first \in Int
  BY DEF If
<1>2. plain \in Int
  <2> HIDE DEF first
  <2> QED
    BY <1>1 DEF If
<1>3. backed \in Int /\ AtMost(backed, 72) \in Int
  <2> HIDE DEF plain
  <2>1. (IF recognised /\ ~conflicting THEN 90 ELSE 58) \in Int
    OBVIOUS
  <2>2. backed \in Int
    BY <1>2, <2>1, TwoFigures
  <2> QED
    BY <2>2, TwoFigures
<1>4. SourceQuality(arts, recognised, conflicting) \in
        {15, Clamp(AtMost(backed, 72)), Clamp(backed), Clamp(plain)}
  BY DEF SourceQuality
<1> HIDE DEF backed, plain
<1> QED
  BY <1>2, <1>3, <1>4, ClampIsPoint, PointIs

(* The cause is one of four.                                                *)
LEMMA CauseType ==
  ASSUME NEW news, NEW verified, NEW conflicting, NEW quality
  PROVE  CauseStatus(news, verified, conflicting, quality) \in Causes
BY DEF CauseStatus, Causes

(* A financing has a class, a severity in points, and a veto or none.       *)
LEMMA FinancingType ==
  ASSUME NEW news, NEW fund
  PROVE  LET f == Financing(news, fund)
         IN f.class \in Classes /\ f.severity \in Points /\ f.veto \in BOOLEAN
<1>1. \A said : FinancingSeverity(said, fund) \in Points
  <2> SUFFICES ASSUME NEW said PROVE FinancingSeverity(said, fund) \in Points
    OBVIOUS
  <2>1. Ladder(fund.shares_yoy, <<<<50, 35>>, <<25, 25>>, <<10, 12>>>>, 0) \in {35, 25, 12, 0}
    BY DEF Ladder, Min
  <2>2. \A t, n : n \in Int => If(t, n) \in Int
    BY DEF If
  <2> QED
    BY <2>1, <2>2, ClampIsPoint DEF FinancingSeverity
<1>2. 0 \in Points /\ DOMAIN ClassCaps =
        {"capital_distress", "material_dilution", "financing_benign", "not_applicable"}
  BY PointIs DEF ClassCaps
<1> QED
  BY <1>1, <1>2 DEF Financing, Classes

-----------------------------------------------------------------------------
(* The component scores                                                     *)

(* A figure carried linearly from one interval to another is whole.         *)
LEMMA LinearIsWhole ==
  \A v, low, high, from, to, fallback \in Int :
    low < high => Linear(v, low, high, from, to, fallback) \in Int
<1> TAKE v, low, high, from, to, fallback \in Int
<1> HAVE low < high
<1> DEFINE at == AtLeast(low, AtMost(high, v))
<1>1. at \in Int
  BY TwoFigures
<1>2. ((to - from) * (at - low) + (high - low) \div 2) \div (high - low) \in Int
  <2>1. (high - low) \in Int /\ high - low > 0 /\ (high - low) \div 2 \in Int
    OBVIOUS
  <2>2. (to - from) * (at - low) \in Int
    BY <1>1
  <2> HIDE DEF at
  <2>3. \A n, d \in Int : d > 0 => n \div d \in Int
    OBVIOUS
  <2> QED
    BY <2>1, <2>2, <2>3
<1>3. Linear(v, low, high, from, to, fallback) =
        IF v = Missing THEN fallback
        ELSE from + ((to - from) * (at - low) + (high - low) \div 2) \div (high - low)
  BY DEF Linear, AtLeast, AtMost
<1> HIDE DEF at
<1> QED
  BY <1>2, <1>3

(* The market record a candidate carries.                                   *)
LEMMA MarketFigures ==
  ASSUME NEW c, Candidate(c)
  PROVE  /\ c.mkt.drop \in Int /\ c.mkt.shock \in Int /\ c.mkt.atr \in Int
         /\ c.mkt.drawdown \in Int /\ c.mkt.sma20 \in Int /\ c.mkt.sma50 \in Int
         /\ c.mkt.rsi \in Int /\ c.mkt.rvol \in Int /\ c.mkt.relative \in Int
         /\ c.mkt.dollars \in Int /\ c.mkt.spread \in Int /\ c.mkt.range \in Int
         /\ c.mkt.from_open \in Int /\ c.mkt.reclaim \in Int /\ c.mkt.complete \in Int
         /\ c.mkt.extended \in BOOLEAN
BY DEF Candidate, Market

(* The filings it carries.                                                  *)
LEMMA FiledFigures ==
  ASSUME NEW c, Candidate(c)
  PROVE  /\ c.fund.coverage \in Nat /\ c.fund.age \in Int /\ c.fund.shares_yoy \in Int
         /\ c.fund.runway \in Int /\ c.fund.mcap \in Int /\ c.fund.gap \in Int
         /\ Filed(c.fund) \in BOOLEAN
         /\ ~Filed(c.fund) => /\ c.fund.runway = Missing /\ c.fund.current = Missing
                              /\ c.fund.cash = Missing
BY DEF Candidate, Filings, Filed

(* Liquidity and spread are scored in whole points.                         *)
LEMMA ExecutionIsWhole ==
  ASSUME NEW m PROVE Liquidity(m) \in Int /\ SpreadScore(m) \in Int
<1>1. Liquidity(m) \in {35, 95, 84, 67, 45, 15}
  BY DEF Liquidity, Ladder, Min
<1>2. SpreadScore(m) \in {35, 12, 38, 68, 85, 95}
  BY DEF SpreadScore, Ladder, Min
<1> QED
  BY <1>1, <1>2

(* The dislocation of the price is whole.                                   *)
LEMMA DislocationIsWhole ==
  ASSUME NEW c, Candidate(c) PROVE DropScore(c.mkt) \in Int /\ Dislocation(c.mkt) \in Int
<1> DEFINE shock == Linear(c.mkt.shock, 15, 50, 40, 98, DropScore(c.mkt))
           atr   == Linear(c.mkt.atr, 15, 50, 40, 98, shock)
<1>1. \A v, f \in Int : Linear(v, 15, 45, 55, 95, f) \in Int /\ Linear(v, 15, 50, 40, 98, f) \in Int
  <2> TAKE v, f \in Int
  <2>1. Linear(v, 15, 45, 55, 95, f) \in Int
    BY LinearIsWhole
  <2>2. Linear(v, 15, 50, 40, 98, f) \in Int
    BY LinearIsWhole
  <2> QED
    BY <2>1, <2>2
<1>2. DropScore(c.mkt) \in Int
  <2>1. c.mkt.drop \in Int /\ 45 \in Int
    BY MarketFigures
  <2>2. Linear(c.mkt.drop, 15, 45, 55, 95, 45) \in Int
    BY <1>1, <2>1
  <2> QED
    BY <2>2 DEF DropScore
<1>3. shock \in Int
  BY <1>1, <1>2, MarketFigures
<1>4. atr \in Int
  <2> HIDE DEF shock
  <2> QED
    BY <1>1, <1>3, MarketFigures
<1>5. Dislocation(c.mkt) = Pct(45 * DropScore(c.mkt) + 35 * shock + 20 * atr)
  BY DEF Dislocation
<1> HIDE DEF shock, atr
<1> QED
  BY <1>2, <1>3, <1>4, <1>5, PctIsWhole

(* The fall below the moving averages is whole.                             *)
LEMMA FallIsWhole == ASSUME NEW c, Candidate(c) PROVE MovingAverageFall(c.mkt) \in Int
<1> DEFINE known == {k \in {"sma20", "sma50"} : c.mkt[k] # Missing}
           fall  == AtLeast(0, Fallen(c.mkt.sma20)) + AtLeast(0, Fallen(c.mkt.sma50))
<1>1. \A v \in Int : AtLeast(0, Fallen(v)) \in Int
  BY TwoFigures DEF Fallen, Missing
<1>2. fall \in Int
  BY <1>1, MarketFigures
<1>3. IsFiniteSet(known)
  <2>1. IsFiniteSet({"sma20"} \cup {"sma50"})
    BY FS_Singleton, FS_AddElement
  <2>2. known \in SUBSET ({"sma20"} \cup {"sma50"})
    OBVIOUS
  <2> HIDE DEF known
  <2> QED
    BY <2>1, <2>2, FS_Subset
<1>4. known # {} => Cardinality(known) \in Nat /\ Cardinality(known) # 0
  BY <1>3, FS_CardinalityType, FS_EmptySet
<1>5. MovingAverageFall(c.mkt) = IF known = {} THEN c.mkt.drop ELSE fall \div Cardinality(known)
  BY DEF MovingAverageFall
<1>6. known # {} => fall \div Cardinality(known) \in Int
  <2> HIDE DEF fall, known
  <2>1. \A n, d \in Int : d > 0 => n \div d \in Int
    OBVIOUS
  <2> QED
    BY <1>2, <1>4, <2>1
<1> HIDE DEF fall, known
<1> QED
  BY <1>5, <1>6, MarketFigures

(* The setup is a point.                                                    *)
LEMMA SetupType == ASSUME NEW c, Candidate(c) PROVE SetupScore(c.mkt) \in Points
<1> DEFINE
      m    == c.mkt
      drop == DropScore(m)
      rsi  == IF m.rsi = Missing THEN AtMost(80, drop)
              ELSE Ladder(m.rsi, <<<<46, 18>>, <<36, 40>>, <<26, 68>>, <<16, 86>>>>, 95)
      shock  == Linear(m.shock, 15, 50, 40, 98, drop)
      down   == IF m.drawdown = Missing THEN m.drop ELSE m.drawdown
      ago    == Linear(down, 15, 60, 45, 92, drop)
      below  == Linear(MovingAverageFall(m), 10, 40, 40, 95, drop)
      volume == Linear(m.rvol, 8, 40, 32, 94, 45)
      behind == Linear(m.relative, 3, 25, 35, 95, 50)
      traded == Pct(60 * Liquidity(m) + 40 * SpreadScore(m))
      sum    == 15 * drop + 20 * shock + 10 * ago + 15 * below + 10 * rsi + 10 * volume
                + 10 * behind + 10 * traded
<1>1. drop \in Int
  BY DislocationIsWhole
<1>2. \A v, f \in Int :
        /\ Linear(v, 15, 50, 40, 98, f) \in Int /\ Linear(v, 15, 60, 45, 92, f) \in Int
        /\ Linear(v, 10, 40, 40, 95, f) \in Int /\ Linear(v, 8, 40, 32, 94, f) \in Int
        /\ Linear(v, 3, 25, 35, 95, f) \in Int
  <2> TAKE v, f \in Int
  <2>1. Linear(v, 15, 50, 40, 98, f) \in Int
    BY LinearIsWhole
  <2>2. Linear(v, 15, 60, 45, 92, f) \in Int
    BY LinearIsWhole
  <2>3. Linear(v, 10, 40, 40, 95, f) \in Int
    BY LinearIsWhole
  <2>4. Linear(v, 8, 40, 32, 94, f) \in Int
    BY LinearIsWhole
  <2>5. Linear(v, 3, 25, 35, 95, f) \in Int
    BY LinearIsWhole
  <2> QED
    BY <2>1, <2>2, <2>3, <2>4, <2>5
<1>3. shock \in Int /\ ago \in Int /\ below \in Int
  <2>1. down \in Int /\ m.shock \in Int /\ MovingAverageFall(m) \in Int
    BY MarketFigures, FallIsWhole
  <2> HIDE DEF drop, down, m
  <2> QED
    BY <1>1, <1>2, <2>1, ZenonT(60)
<1>4. volume \in Int /\ behind \in Int
  <2>1. m.rvol \in Int /\ m.relative \in Int /\ 45 \in Int /\ 50 \in Int
    BY MarketFigures
  <2> HIDE DEF m
  <2>2. volume \in Int
    BY <1>2, <2>1
  <2>3. behind \in Int
    BY <1>2, <2>1
  <2> QED
    BY <2>2, <2>3
<1>5. rsi \in Int
  <2>1. Ladder(m.rsi, <<<<46, 18>>, <<36, 40>>, <<26, 68>>, <<16, 86>>>>, 95) \in {18, 40, 68, 86, 95}
    BY DEF Ladder, Min
  <2>2. AtMost(80, drop) \in Int
    BY <1>1, TwoFigures
  <2> QED
    BY <2>1, <2>2
<1>6. traded \in Int
  BY ExecutionIsWhole, PctIsWhole
<1>7. sum \in Int
  <2> HIDE DEF drop, rsi, shock, ago, below, volume, behind, traded
  <2> QED
    BY <1>1, <1>3, <1>4, <1>5, <1>6
<1>8. Clamp(Pct(sum)) \in Points
  <2> HIDE DEF sum
  <2> QED
    BY <1>7, PctIsWhole, ClampIsPoint
<1>9. SetupCap(m) \in Points
  <2>1. SetupCap(m) \in {30, 40, 50, 55, 100}
    BY DEF SetupCap
  <2> QED
    BY <2>1, PointIs
<1>10. SetupScore(m) = AtMost(Clamp(Pct(sum)), SetupCap(m))
  BY DEF SetupScore
<1> HIDE DEF sum
<1>11. \A a, b \in Points : AtMost(a, b) \in Points
  BY TwoFigures, PointIs
<1> QED
  BY <1>8, <1>9, <1>10, <1>11

(* So is the confirmation.                                                  *)
LEMMA ConfirmationType == ASSUME NEW c, Candidate(c) PROVE ConfirmationScore(c.mkt) \in Points
<1> DEFINE
      m        == c.mkt
      range    == Clamp(IF m.range = Missing THEN 30 ELSE m.range)
      reversal == IF m.from_open = Missing THEN 35 ELSE Clamp(50 + 7 * m.from_open)
      reclaim  == IF m.reclaim = Missing THEN 40 ELSE Clamp(35 + Pct(75 * m.reclaim))
      vwap     == Ladder(m.vwap, <<<<10, 88>>, <<0, 72>>, <<-10, 50>>, <<-900, 25>>>>, 35)
      volume   == IF m.rvol = Missing THEN 35
                  ELSE IF m.rvol >= 20 /\ range >= 55 THEN 88
                  ELSE IF m.rvol * 10 >= 125 /\ range >= 45 THEN 70
                  ELSE IF range < 25 THEN 20 ELSE 46
      spread   == IF m.spread = Missing THEN 35
                  ELSE Ladder(m.spread, <<<<501, 10>>, <<201, 30>>, <<101, 62>>, <<51, 80>>>>, 92)
      sum      == 25 * range + 20 * reversal + 20 * reclaim + 15 * vwap + 10 * volume + 10 * spread
<1>1. \A v \in Int : Clamp(v) \in Int
  BY ClampIsPoint, PointIs
<1>2. range \in Int
  <2>1. (IF m.range = Missing THEN 30 ELSE m.range) \in Int
    BY MarketFigures
  <2> QED
    BY <1>1, <2>1
<1>3. reversal \in Int
  <2>1. 50 + 7 * m.from_open \in Int
    BY MarketFigures
  <2> QED
    BY <1>1, <2>1
<1>4. reclaim \in Int
  <2>1. 35 + Pct(75 * m.reclaim) \in Int
    BY MarketFigures, PctIsWhole
  <2> QED
    BY <1>1, <2>1
<1>5. vwap \in {88, 72, 50, 25, 35}
  BY DEF Ladder, Min
<1>6. volume \in {35, 88, 70, 20, 46}
  OBVIOUS
<1>7. spread \in {10, 30, 62, 80, 92, 35}
  BY DEF Ladder, Min
<1>8. sum \in Int
  <2> HIDE DEF range, reversal, reclaim, vwap, volume, spread
  <2> QED
    BY <1>2, <1>3, <1>4, <1>5, <1>6, <1>7
<1>9. ConfirmationScore(m) = Clamp(Pct(sum))
  BY DEF ConfirmationScore
<1> HIDE DEF sum
<1> QED
  BY <1>8, <1>9, PctIsWhole, ClampIsPoint

(* Resilience is a point, and little without filings.                       *)
LEMMA ResilienceType ==
  ASSUME NEW c, Candidate(c), NEW sig, NEW flags
  PROVE  /\ Resilience(c.fund, sig, flags) \in Points
         /\ ~Filed(c.fund) => Resilience(c.fund, sig, flags) <= 50
<1> DEFINE
      fund  == c.fund
      rated == Rate(fund.cash, <<<<30, 18>>, <<15, 10>>, <<5, 0>>>>, -15)
      owed  == Rate(fund.liabilities, <<<<90, -22>>, <<80, -10>>, <<51, 0>>>>, 10)
      own   == Rate(fund.equity, <<<<30, 10>>, <<13, 0>>, <<6, -8>>>>, -20)
      sold  == Rate(fund.revenue, <<<<10, 10>>, <<-9, 0>>, <<-24, -8>>>>, -16)
      made  == Rate(fund.margin, <<<<5, 8>>, <<0, 0>>, <<-19, -7>>>>, -14)
      moved == Rate(fund.margin_delta, <<<<5, 5>>, <<-9, 0>>>>, -10)
      more  == Rate(fund.shares_yoy, <<<<50, -25>>, <<20, -15>>, <<10, -7>>, <<-4, 0>>>>, 4)
      sum   == 50 + rated + owed + own + sold + made + moved + more
      base  == IF ~Filed(fund) THEN 45
               ELSE IF fund.age > 180 THEN 45 + Pct(65 * (sum - 45)) ELSE sum
      event == IF "existential" \in sig THEN AtMost(base, 18)
               ELSE IF "catastrophic" \in sig THEN AtMost(base, 20)
               ELSE base - If("dilution" \in sig, 10)
      last  == event + If(sig \cap Reversible # {}, 5) - If("guidance_cut" \in sig, 6)
<1>1. /\ rated \in {0, 18, 10, -15} /\ owed \in {0, -22, -10, 10} /\ own \in {0, 10, -8, -20}
      /\ sold \in {0, 10, -8, -16} /\ made \in {0, 8, -7, -14} /\ moved \in {0, 5, -10}
      /\ more \in {0, -25, -15, -7, 4}
  <2>1. rated \in {0, 18, 10, -15}
    BY DEF Rate, Ladder, Min
  <2>2. owed \in {0, -22, -10, 10}
    BY DEF Rate, Ladder, Min
  <2>3. own \in {0, 10, -8, -20}
    BY DEF Rate, Ladder, Min
  <2>4. sold \in {0, 10, -8, -16}
    BY DEF Rate, Ladder, Min
  <2>5. made \in {0, 8, -7, -14}
    BY DEF Rate, Ladder, Min
  <2>6. moved \in {0, 5, -10}
    BY DEF Rate, Ladder, Min
  <2>7. more \in {0, -25, -15, -7, 4}
    BY DEF Rate, Ladder, Min
  <2> HIDE DEF rated, owed, own, sold, made, moved, more
  <2> QED
    BY <2>1, <2>2, <2>3, <2>4, <2>5, <2>6, <2>7
<1>2. sum \in Int
  <2> HIDE DEF rated, owed, own, sold, made, moved, more
  <2> QED
    BY <1>1
<1>3. base \in Int /\ (~Filed(fund) => base = 45)
  <2> HIDE DEF sum
  <2>1. Pct(65 * (sum - 45)) \in Int
    BY <1>2, PctIsWhole
  <2> QED
    BY <1>2, <2>1
<1>4. event \in Int /\ (~Filed(fund) => event <= 45)
  <2> HIDE DEF base
  <2>1. AtMost(base, 18) = (IF base <= 18 THEN base ELSE 18)
        /\ AtMost(base, 20) = (IF base <= 20 THEN base ELSE 20)
    BY <1>3, TwoFigures
  <2>2. If("dilution" \in sig, 10) \in {0, 10}
    BY DEF If
  <2> QED
    BY <1>3, <2>1, <2>2
<1>5. last \in Int /\ (~Filed(fund) => last <= 50)
  <2> HIDE DEF event
  <2>1. If(sig \cap Reversible # {}, 5) \in {0, 5} /\ If("guidance_cut" \in sig, 6) \in {0, 6}
    BY DEF If
  <2> QED
    BY <1>4, <2>1
<1>6. Resilience(fund, sig, flags) = Clamp(last)
  BY DEF Resilience
<1> HIDE DEF last, fund
<1> QED
  BY <1>5, <1>6, ClampIsPoint, ClampBound DEF fund

(* The run-up before the fall costs whole points and caps the setup.        *)
LEMMA SpikeType ==
  ASSUME NEW m
  PROVE  PostSpike(m).penalty \in Int /\ PostSpike(m).cap \in Points
<1> DEFINE
      row == IF m.runup < 50 THEN <<0, 100>>
             ELSE Ladder(m.over_baseline, <<<<30, <<25, 35>>>>, <<10, <<18, 45>>>>,
                                            <<0, <<12, 55>>>>>>, <<4, 75>>)
      extreme == m.runup >= 100 /\ m.over_baseline >= 0
<1>1. row \in {<<0, 100>>, <<25, 35>>, <<18, 45>>, <<12, 55>>, <<4, 75>>}
  BY DEF Ladder, Min
<1>2. row[1] \in Int /\ row[2] \in Points
  <2> HIDE DEF row
  <2> QED
    BY <1>1, PointIs
<1>3. AtMost(30, row[1] + If(extreme, 4)) \in Int
  <2> HIDE DEF row, extreme
  <2>1. If(extreme, 4) \in {0, 4}
    BY DEF If
  <2>2. row[1] + If(extreme, 4) \in Int
    BY <1>2, <2>1
  <2> QED
    BY <2>2, TwoFigures
<1>4. 32 \in Points
  BY PointIs
<1>5. PostSpike(m).penalty = AtMost(30, row[1] + If(extreme, 4))
      /\ PostSpike(m).cap = (IF extreme /\ m.over_baseline >= 10 THEN 32 ELSE row[2])
  BY DEF PostSpike
<1> HIDE DEF row, extreme
<1> QED
  BY <1>2, <1>3, <1>4, <1>5

(* The confidence that filings add is whole.                                *)
LEMMA FilingConfidenceIsWhole ==
  ASSUME NEW c, Candidate(c) PROVE FilingConfidence(c.fund) \in Int
<1>1. 45 + 4 * AtMost(c.fund.coverage, 10) \in Int
  BY FiledFigures, TwoFigures
<1>2. Clamp(45 + 4 * AtMost(c.fund.coverage, 10)) \in Int
  BY <1>1, ClampIsPoint, PointIs
<1>3. If(c.fund.age > 180, 12) \in {0, 12}
  BY DEF If
<1> QED
  BY <1>2, <1>3 DEF FilingConfidence

(* Survivability is a point, and little without filings.                    *)
LEMMA SurvivabilityType ==
  ASSUME NEW c, Candidate(c), NEW base \in Points, NEW x, x.class \in Classes
  PROVE  /\ Survivability(base, c.fund, x) \in Points
         /\ ~Filed(c.fund) /\ base <= 50 => Survivability(base, c.fund, x) <= 50
<1> DEFINE
      fund   == c.fund
      runway == IF fund.runway = Missing THEN 100
                ELSE Ladder(fund.runway, <<<<12, 100>>, <<6, 45>>, <<3, 25>>>>, 12)
      now    == Rate(fund.current, <<<<15, 6>>, <<7, 0>>>>, -15)
      debt   == Ladder(fund.debt, <<<<75, 18>>, <<50, 8>>>>, 0)
      cash   == Rate(fund.cash, <<<<20, 6>>, <<3, 0>>>>, -12)
      moved  == AtMost(base, runway) + If(fund.runway >= 24, 8) + now - debt + cash
      solid  == IF fund.liabilities >= 100 THEN AtMost(moved, 15) ELSE moved
      shares == solid - If(fund.shares_yoy >= 20 /\ fund.shares_yoy < 50, 12)
      caps   == {100, ClassCaps[x.class]}
                \cup {p \in {30} : fund.shares_yoy >= 50}
                \cup {p \in {8} : "existential" \in x.sig}
                \cup {p \in {20} : "primary_failure" \in x.sig}
                \cup {p \in {18} : x.damage >= 80}
                \cup {p \in {45} : x.damage >= 65 \/ (Critical(x) /\ ~Filed(fund))}
<1>1. runway \in {100, 45, 25, 12} /\ (~Filed(fund) => runway = 100)
  <2>1. runway \in {100, 45, 25, 12}
    BY DEF Ladder, Min
  <2>2. ~Filed(fund) => runway = 100
    BY FiledFigures
  <2> QED
    BY <2>1, <2>2
<1>2. now \in {0, 6, -15} /\ (~Filed(fund) => now = 0)
  <2>1. now \in {0, 6, -15}
    BY DEF Rate, Ladder, Min
  <2>2. ~Filed(fund) => now = 0
    BY FiledFigures DEF Rate
  <2> QED
    BY <2>1, <2>2
<1>3. debt \in {0, 18, 8}
  BY DEF Ladder, Min
<1>4. cash \in {0, 6, -12} /\ (~Filed(fund) => cash = 0)
  <2>1. cash \in {0, 6, -12}
    BY DEF Rate, Ladder, Min
  <2>2. ~Filed(fund) => cash = 0
    BY FiledFigures DEF Rate
  <2> QED
    BY <2>1, <2>2
<1>5. If(fund.runway >= 24, 8) \in {0, 8} /\ (~Filed(fund) => If(fund.runway >= 24, 8) = 0)
  BY FiledFigures DEF If, Missing
<1>6. base \in Int /\ base <= 100 /\ 0 <= base
  BY PointIs
<1>7. moved \in Int /\ (~Filed(fund) /\ base <= 50 => moved <= 50)
  <2> HIDE DEF fund, runway, now, debt, cash
  <2>1. AtMost(base, runway) = (IF base <= runway THEN base ELSE runway)
    BY <1>1, <1>6, TwoFigures
  <2>2. moved \in Int
    BY <1>1, <1>2, <1>3, <1>4, <1>5, <1>6, <2>1
  <2>3. ASSUME ~Filed(fund), base <= 50 PROVE moved <= 50
    <3>1. runway = 100 /\ now = 0 /\ cash = 0 /\ If(fund.runway >= 24, 8) = 0
      BY <1>1, <1>2, <1>4, <1>5, <2>3
    <3> QED
      BY <1>3, <1>6, <2>1, <2>3, <3>1
  <2> QED
    BY <2>2, <2>3
<1>8. solid \in Int /\ solid <= moved
  <2> HIDE DEF moved
  <2> QED
    BY <1>7, TwoFigures
<1>9. shares \in Int /\ shares <= moved
  <2> HIDE DEF solid, moved
  <2>1. If(fund.shares_yoy >= 20 /\ fund.shares_yoy < 50, 12) \in {0, 12}
    BY DEF If
  <2> QED
    BY <1>7, <1>8, <2>1
<1>10. caps \in SUBSET Nat /\ caps # {}
  <2>1. ClassCaps[x.class] \in {10, 38, 68, 100}
    BY DEF Classes, ClassCaps
  <2> QED
    BY <2>1
<1>11. AtMost(shares, Min(caps)) \in Int /\ AtMost(shares, Min(caps)) <= shares
  <2> HIDE DEF shares, caps
  <2>1. Min(caps) \in caps
    BY <1>10, NatMin
  <2>2. \A p \in caps : p \in Int
    BY <1>10
  <2>3. Min(caps) \in Int
    BY <2>1, <2>2
  <2> QED
    BY <1>9, <2>3, TwoFigures
<1>12. Survivability(base, fund, x) = Clamp(AtMost(shares, Min(caps)))
  BY DEF Survivability
<1>13. Filed(fund) \in BOOLEAN
  BY DEF Filed
<1> HIDE DEF shares, caps, moved
<1> QED
  BY <1>7, <1>9, <1>11, <1>12, ClampIsPoint, ClampBound

(* The fit of a thesis to three sessions is a point.                        *)
LEMMA FitType ==
  ASSUME NEW name, NEW horizon \in Points, NEW damage \in Points
  PROVE  ThreeSessionFit(name, horizon, damage) \in Points
<1>1. \A n \in DOMAIN FitTable : FitTable[n] \in Points
  <2>1. \A n \in DOMAIN FitTable : FitTable[n] \in
          {88, 95, 82, 68, 62, 58, 48, 46, 42, 35, 30, 25, 20, 18, 8, 5}
    BY DEF FitTable
  <2> QED
    BY <2>1, PointIs
<1>2. Clamp(AtMost(55, Pct(55 * horizon + 45 * AtLeast(5, 100 - damage)))) \in Points
  <2>1. horizon \in Int /\ 100 - damage \in Int
    BY PointIs
  <2>2. 55 * horizon + 45 * AtLeast(5, 100 - damage) \in Int
    BY <2>1, TwoFigures
  <2>3. Pct(55 * horizon + 45 * AtLeast(5, 100 - damage)) \in Int
    BY <2>2, PctIsWhole
  <2>4. AtMost(55, Pct(55 * horizon + 45 * AtLeast(5, 100 - damage))) \in Int
    BY <2>3, TwoFigures
  <2> QED
    BY <2>4, ClampIsPoint
<1> QED
  BY <1>1, <1>2 DEF ThreeSessionFit

(* Overreaction is a point.                                                 *)
LEMMA OverreactionType ==
  ASSUME NEW setup \in Points, NEW x, x.rever \in Points, x.damage \in Points
  PROVE  Overreaction(setup, x) \in Points
<1> DEFINE value == 50 + Pct(55 * (setup - 50) + 35 * (x.rever - 50) - 80 * (x.damage - 50))
           caps  == {100} \cup {p \in {45} : x.cause = "UNVERIFIED"}
                    \cup {p \in {40} : x.cause = "CONFLICTING"} \cup {p \in {30} : x.spiked}
<1>1. value \in Int
  <2>1. setup \in Int /\ x.rever \in Int /\ x.damage \in Int
    BY PointIs
  <2> QED
    BY <2>1, PctIsWhole
<1>2. caps \in SUBSET Nat /\ caps # {}
  OBVIOUS
<1>3. AtMost(value, Min(caps)) \in Int
  <2> HIDE DEF value, caps
  <2>1. Min(caps) \in caps
    BY <1>2, NatMin
  <2>2. \A p \in caps : p \in Int
    BY <1>2
  <2>3. Min(caps) \in Int
    BY <2>1, <2>2
  <2> QED
    BY <1>1, <2>3, TwoFigures
<1>4. Overreaction(setup, x) = Clamp(AtMost(value, Min(caps)))
  BY DEF Overreaction
<1> HIDE DEF value, caps
<1> QED
  BY <1>3, <1>4, ClampIsPoint

(* So is the tail risk.                                                     *)
LEMMA TailRiskType ==
  ASSUME NEW x, x.damage \in Points, x.severity \in Points, NEW surv
  PROVE  TailRisk(x, surv) \in Points
<1> DEFINE
      weak  == Ladder(-surv, <<<<-24, 85>>, <<-44, 70>>>>, 0)
      tails == {x.damage, x.severity, weak}
               \cup {s \in {100} : x.veto}
               \cup {s \in {90} : x.name \in StructuralProfiles \/ "existential" \in x.sig}
               \cup {s \in {92} : "primary_failure" \in x.sig}
               \cup {s \in {95} : x.class = "capital_distress"}
<1>1. weak \in {85, 70, 0}
  BY DEF Ladder, Min
<1>2. tails \in SUBSET Points /\ tails # {}
  <2> HIDE DEF weak
  <2>1. weak \in Points /\ 100 \in Points /\ 90 \in Points /\ 92 \in Points /\ 95 \in Points
    BY <1>1, PointIs
  <2> QED
    BY <2>1
<1>3. TailRisk(x, surv) = Clamp(Max(tails))
  BY DEF TailRisk
<1> HIDE DEF tails
<1>4. Max(tails) \in Points
  BY <1>2, PointMax
<1> QED
  BY <1>3, <1>4, ClampIsPoint, PointIs

-----------------------------------------------------------------------------
(* Weighted means                                                           *)

Six == {"overreaction", "reversibility", "survivability", "three_session_fit",
        "confirmation", "technical_exhaustion"}
Figures(v)   == \A k \in Six : v[k] \in Int
Weighting(w) == DOMAIN w = Six /\ \A k \in Six : w[k] \in Nat

(* The logarithms are naturals up to 4605, from 0.                          *)
LEMMA LogTable == (\A i \in 1..100 : Ln[i] \in Nat /\ Ln[i] <= 4605) /\ Ln[1] = 0
BY DEF Ln

(* A weighted mean is a point.                                              *)
LEMMA GeometricType ==
  ASSUME NEW v, Figures(v), NEW w, Weighting(w) PROVE Geometric(v, w) \in Points
<1> DEFINE
      log(k) == Ln[AtLeast(1, Clamp(v[k]))]
      parts  == [k \in DOMAIN w |-> w[k] * log(k)]
      total  == Total(w)
      logs   == Total(parts)
      at     == AtMost(4605, (logs + total - 1) \div total)
<1>1. \A k \in Six : log(k) \in Nat
  <2> SUFFICES ASSUME NEW k \in Six PROVE log(k) \in Nat
    OBVIOUS
  <2>1. Clamp(v[k]) \in Points
    BY ClampIsPoint DEF Figures
  <2>2. AtLeast(1, Clamp(v[k])) \in 1..100
    BY <2>1, TwoFigures, PointIs
  <2> QED
    BY <2>2, LogTable, SMTT(60)
<1>2. \A k \in Six : parts[k] \in Nat
  <2> SUFFICES ASSUME NEW k \in Six PROVE parts[k] \in Nat
    OBVIOUS
  <2>1. w[k] \in Nat /\ log(k) \in Nat /\ parts[k] = w[k] * log(k)
    BY <1>1 DEF Weighting
  <2> HIDE DEF log, parts
  <2>2. \A a, b \in Nat : a * b \in Nat
    OBVIOUS
  <2> QED
    BY <2>1, <2>2
<1>3. total \in Nat
  BY DEF Total, Weighting, Six
<1>4. logs \in Nat
  <2> HIDE DEF parts
  <2> QED
    BY <1>2 DEF Total, Six
<1>5. ASSUME total # 0 PROVE ExpTable[at] \in Points
  <2> HIDE DEF total, logs
  <2>1. \A n, d \in Nat : d # 0 => n \div d \in Nat
    OBVIOUS
  <2>2. (logs + total - 1) \div total \in Nat
    <3>1. logs + total - 1 \in Nat
      BY <1>3, <1>4, <1>5
    <3> QED
      BY <1>3, <1>5, <2>1, <3>1
  <2>3. at \in Int /\ 0 <= at /\ at <= 4605
    <3> DEFINE n == (logs + total - 1) \div total
    <3>1. n \in Int /\ n >= 0
      BY <2>2
    <3>2. at = AtMost(4605, n)
      OBVIOUS
    <3> HIDE DEF n, at
    <3>3. at = IF 4605 <= n THEN 4605 ELSE n
      BY <3>1, <3>2, TwoFigures
    <3> QED
      BY <3>1, <3>3
  <2> DEFINE S == {i \in 1..100 : Ln[i] <= at}
  <2> HIDE DEF at
  <2>4. S \in SUBSET Points
    BY PointIs
  <2>5. 1 \in S
    <3>1. 1 \in 1..100 /\ Ln[1] <= at
      BY <2>3, LogTable
    <3> QED
      BY <3>1
  <2>6. ExpTable[at] = Max(S)
    <3> DEFINE D == 0..4605
    <3>1. at \in D
      BY <2>3
    <3>2. ExpTable = [x \in D |-> Max({i \in 1..100 : Ln[i] <= x})]
      BY DEF ExpTable
    <3> HIDE DEF D
    <3> QED
      BY <3>1, <3>2
  <2> HIDE DEF S
  <2>7. Max(S) \in S
    BY <2>4, <2>5, PointMax
  <2> QED
    BY <2>4, <2>6, <2>7
<1>6. Geometric(v, w) = IF total = 0 THEN 0 ELSE ExpTable[at]
  BY DEF Geometric
<1> HIDE DEF total, at
<1> QED
  BY <1>5, <1>6, PointIs

(* A discounted mean is whole; a confidence of 54 leaves it 70 at most.     *)
LEMMA DiscountedType ==
  ASSUME NEW v, Figures(v), NEW w, Weighting(w), NEW conf \in Points, NEW tail \in Points
  PROVE  /\ Discounted(v, w, conf, tail) \in Int
         /\ conf <= 54 => Discounted(v, w, conf, tail) <= 70
<1> DEFINE G    == Geometric(v, w)
           rate == 3500 + 65 * conf
           loss == AtMost(24, Pct(35 * AtLeast(0, tail - 40)))
<1>1. G \in Int /\ 0 <= G /\ G <= 100
  BY GeometricType, PointIs
<1>2. conf \in Int /\ 0 <= conf /\ rate \in Int /\ 0 <= rate /\ tail \in Int
  BY PointIs
<1>3. loss \in Int /\ 0 <= loss
  <2> DEFINE over == AtLeast(0, tail - 40)
  <2>1. over \in Int /\ 0 <= over
    BY <1>2, TwoFigures
  <2>2. loss = AtMost(24, Pct(35 * over))
    OBVIOUS
  <2> HIDE DEF over, loss
  <2>3. Pct(35 * over) \in Int /\ 0 <= Pct(35 * over)
    BY <2>1 DEF Pct
  <2> QED
    BY <2>2, <2>3, TwoFigures
<1>4. Discounted(v, w, conf, tail) = (G * rate + 5000) \div 10000 - loss
  BY DEF Discounted
<1>5. conf <= 54 => rate <= 7010
  BY <1>2
<1> HIDE DEF G, rate, loss
<1>6. G * rate \in Int
  BY <1>1, <1>2
<1>7. G * rate <= 100 * rate
  <2>1. (100 - G) * rate >= 0
    BY <1>1, <1>2
  <2>2. (100 - G) * rate = 100 * rate - G * rate
    BY <1>1, <1>2
  <2> QED
    BY <1>1, <1>2, <2>1, <2>2
<1> DEFINE P == G * rate
<1>8. P \in Int /\ P <= 100 * rate
  BY <1>6, <1>7
<1>9. Discounted(v, w, conf, tail) = (P + 5000) \div 10000 - loss
  BY <1>4
<1> HIDE DEF P
<1> QED
  BY <1>2, <1>3, <1>5, <1>8, <1>9

(* A cap is its value or 100.                                               *)
LEMMA CapIs == \A t, n : Cap(t, n) = n \/ Cap(t, n) = 100
BY DEF Cap

(* What the economics allow: 48 only without a veto and with a limited       *)
(* damage and tail, 66 only with a verified cause.                          *)
LEMMA EconomicCapType ==
  ASSUME NEW c, NEW r, NEW tail \in Points, r.damage \in Points, r.cause \in Causes
  PROVE  LET cap == EconomicCap(c, r, tail)
         IN /\ cap \in Points
            /\ cap >= 48 => /\ ~r.veto /\ r.damage < 65 /\ tail < 75
                            /\ r.class # "capital_distress"
            /\ cap >= 66 => r.cause = "VERIFIED"
<1> DEFINE S == {
  Cap(r.veto, 15), Cap(r.damage >= 80, 20), Cap(r.damage >= 65, 45),
  Cap(tail >= 90, 18), Cap(tail >= 75, 35),
  Cap(r.class = "capital_distress", 15), Cap(r.class = "material_dilution", 40),
  Cap(r.spiked, 30), Cap(r.cause = "UNVERIFIED", 45), Cap(r.cause = "CONFLICTING", 40),
  Cap(r.cause = "PARTIALLY_VERIFIED", 65), Cap(r.critical /\ ~Filed(c.fund), 55),
  Cap(c.mkt.extended, 50)}
<1>1. EconomicCap(c, r, tail) = Min(S)
  BY DEF EconomicCap
<1>2. \A p \in S : p \in Int /\ 0 <= p /\ p <= 100
  <2>1. \A t, n : n \in {15, 20, 45, 18, 35, 40, 30, 65, 55, 50} =>
          Cap(t, n) \in Int /\ 0 <= Cap(t, n) /\ Cap(t, n) <= 100
    BY DEF Cap
  <2> QED
    BY <2>1
<1>3. S \in SUBSET Nat /\ S # {}
  <2>1. S # {}
    OBVIOUS
  <2> HIDE DEF S
  <2> QED
    BY <1>2, <2>1
<1>4. Min(S) \in S /\ \A p \in S : Min(S) <= p
  <2> HIDE DEF S
  <2> QED
    BY <1>3, NatMin
<1>5. Min(S) \in Points /\ Min(S) \in Int
  <2> HIDE DEF S
  <2> QED
    BY <1>2, <1>4, PointIs
<1>6. Min(S) >= 48 => ~r.veto /\ r.damage < 65 /\ tail < 75 /\ r.class # "capital_distress"
  <2>1. Cap(r.veto, 15) \in S /\ Cap(r.damage >= 65, 45) \in S /\ Cap(tail >= 75, 35) \in S
        /\ Cap(r.class = "capital_distress", 15) \in S
    OBVIOUS
  <2> HIDE DEF S
  <2>2. ASSUME Min(S) >= 48
        PROVE \A t : /\ Cap(t, 15) \in S => ~t
                     /\ Cap(t, 45) \in S => ~t
                     /\ Cap(t, 35) \in S => ~t
    BY <1>4, <1>5, <2>2 DEF Cap
  <2>3. r.damage \in Int /\ tail \in Int
    BY PointIs
  <2>4. ASSUME Min(S) >= 48
        PROVE ~r.veto /\ ~(r.damage >= 65) /\ ~(tail >= 75) /\ r.class # "capital_distress"
    BY <2>1, <2>2, <2>4
  <2> QED
    BY <2>3, <2>4
<1>7. Min(S) >= 66 => r.cause = "VERIFIED"
  <2>1. Cap(r.cause = "UNVERIFIED", 45) \in S /\ Cap(r.cause = "CONFLICTING", 40) \in S
        /\ Cap(r.cause = "PARTIALLY_VERIFIED", 65) \in S
    OBVIOUS
  <2> HIDE DEF S
  <2>2. ASSUME Min(S) >= 66
        PROVE \A t : /\ Cap(t, 45) \in S => ~t
                     /\ Cap(t, 40) \in S => ~t
                     /\ Cap(t, 65) \in S => ~t
    BY <1>4, <1>5, <2>2 DEF Cap
  <2>3. ASSUME Min(S) >= 66
        PROVE r.cause # "UNVERIFIED" /\ r.cause # "CONFLICTING" /\ r.cause # "PARTIALLY_VERIFIED"
    BY <2>1, <2>2, <2>3
  <2> QED
    BY <2>3 DEF Causes
<1> HIDE DEF S
<1> QED
  BY <1>1, <1>5, <1>6, <1>7

-----------------------------------------------------------------------------
(* v3.1 and v3.2                                                            *)

(* The least of some points is one of them.                                 *)
LEMMA PointMin ==
  ASSUME NEW S \in SUBSET Points, S # {}
  PROVE  Min(S) \in S /\ Min(S) \in Points /\ \A x \in S : Min(S) <= x
<1>1. \A x \in S : x \in Int /\ 0 <= x
  BY PointIs
<1>2. S \in SUBSET Nat
  BY <1>1
<1>3. Min(S) \in S /\ \A x \in S : Min(S) <= x
  BY <1>2, NatMin
<1> QED
  BY <1>3

(* What every layer leaves of its components.                               *)
PartNames == {"conf", "setup", "confirm", "catalyst", "resilience", "damage", "rever", "horizon"}
Parts(c, r) ==
  /\ PartNames \cup {"sig", "name", "cause", "veto"} \subseteq DOMAIN r
  /\ \A k \in PartNames : r[k] \in Points
  /\ r.cause \in Causes
  /\ ~Filed(c.fund) => r.resilience <= 50
Result(c, r) ==
  /\ Parts(c, r)
  /\ {"score", "verdict"} \subseteq DOMAIN r
  /\ r.score \in Points /\ r.verdict \in Verdicts

(* The core of a score, discounted by confidence, is whole.                 *)
LEMMA CoreIsWhole ==
  ASSUME NEW c, NEW r, Parts(c, r) PROVE ShrunkTo50(Core(r), r.conf) \in Int
<1>1. r.setup \in Int /\ r.catalyst \in Int /\ r.resilience \in Int /\ r.confirm \in Int
      /\ r.conf \in Int
  BY PointIs DEF Parts, PartNames
<1>2. Core(r) \in Int
  BY <1>1, PctIsWhole DEF Core
<1>3. (Core(r) - 50) * r.conf \in Int
  BY <1>1, <1>2
<1> QED
  BY <1>3, PctIsWhole DEF ShrunkTo50

(* The components of v3.1.                                                  *)
LEMMA EventPartsType ==
  ASSUME NEW c, Candidate(c), NEW arts, NEW sig, NEW p, Event(p), NEW verified,
         NEW quality \in Points
  PROVE  Parts(c, EventParts(c, arts, sig, p, verified, quality))
<1> DEFINE
      market == Clamp(Pct(65 * Dislocation(c.mkt) + 35 * p.rever - 45 * p.damage) + 25)
      cat    == AtMost(Clamp(Pct(50 * p.rever + 25 * p.horizon + 25 * market)), Cap(~verified, 35))
      conf   == Clamp(Pct(65 * quality + 25 * c.mkt.complete + 10 * FilingConfidence(c.fund)))
      r      == EventParts(c, arts, sig, p, verified, quality)
<1>1. p.damage \in Points /\ p.rever \in Points /\ p.horizon \in Points /\ p.damage \in Int
      /\ p.rever \in Int /\ p.horizon \in Int
  BY PointIs DEF Event
<1>2. market \in Int
  <2>1. Pct(65 * Dislocation(c.mkt) + 35 * p.rever - 45 * p.damage) + 25 \in Int
    BY <1>1, DislocationIsWhole, PctIsWhole
  <2> QED
    BY <2>1, ClampIsPoint, PointIs
<1>3. cat \in Points
  <2> HIDE DEF market
  <2>1. Pct(50 * p.rever + 25 * p.horizon + 25 * market) \in Int
    BY <1>1, <1>2, PctIsWhole
  <2>2. Clamp(Pct(50 * p.rever + 25 * p.horizon + 25 * market)) \in Points
    BY <2>1, ClampIsPoint
  <2>3. Cap(~verified, 35) \in Points
    BY CapIs, PointIs
  <2>4. \A a, b \in Points : AtMost(a, b) \in Points
    BY TwoFigures, PointIs
  <2> QED
    BY <2>2, <2>3, <2>4
<1>4. conf \in Points
  <2>1. quality \in Int
    BY PointIs
  <2>2. Pct(65 * quality + 25 * c.mkt.complete + 10 * FilingConfidence(c.fund)) \in Int
    BY <2>1, MarketFigures, FilingConfidenceIsWhole, PctIsWhole
  <2> QED
    BY <2>2, ClampIsPoint
<1>5. /\ DOMAIN r = {"sig", "name", "damage", "rever", "horizon", "setup", "confirm", "catalyst",
                     "resilience", "conf", "cause", "lead", "verified", "veto"}
      /\ r.damage = p.damage /\ r.rever = p.rever /\ r.horizon = p.horizon
      /\ r.setup = SetupScore(c.mkt) /\ r.confirm = ConfirmationScore(c.mkt)
      /\ r.catalyst = cat /\ r.conf = conf
      /\ r.resilience = Resilience(c.fund, sig, RiskFlags(arts, c.fund))
      /\ r.cause = CauseStatus(c.news, verified, Conflicting(sig), quality)
  BY DEF EventParts
<1> HIDE DEF cat, conf, r
<1>6. r.setup \in Points /\ r.confirm \in Points
  BY <1>5, SetupType, ConfirmationType
<1>7. r.resilience \in Points /\ (~Filed(c.fund) => r.resilience <= 50)
  BY <1>5, ResilienceType
<1>8. r.cause \in Causes
  BY <1>5, CauseType
<1>9. Parts(c, r)
  BY <1>1, <1>3, <1>4, <1>5, <1>6, <1>7, <1>8 DEF Parts, PartNames
<1> QED
  BY <1>9 DEF r

(* The score of v3.1.                                                       *)
LEMMA BaseScoreType == ASSUME NEW c, NEW r, Parts(c, r) PROVE BaseScore(r) \in Points
<1> DEFINE penalty == AtMost(15, AtLeast(0, r.damage - 25) \div 5)
           core    == Clamp(ShrunkTo50(Core(r), r.conf) - penalty)
           worn    == Ladder(r.damage, <<<<85, 20>>, <<70, 40>>, <<50, 65>>, <<30, 85>>>>, 100)
           S       == {core, worn, Cap(~r.verified, 60), Cap(r.veto, 20)}
<1>1. penalty \in Int
  <2>1. r.damage \in Int
    BY PointIs DEF Parts, PartNames
  <2>2. AtLeast(0, r.damage - 25) \in Int
    BY <2>1, TwoFigures
  <2>3. AtLeast(0, r.damage - 25) \div 5 \in Int
    BY <2>2
  <2> QED
    BY <2>3, TwoFigures
<1>2. core \in Points
  <2> HIDE DEF penalty
  <2>1. ShrunkTo50(Core(r), r.conf) - penalty \in Int
    BY <1>1, CoreIsWhole
  <2> QED
    BY <2>1, ClampIsPoint
<1>3. worn \in Points
  <2>1. worn \in {20, 40, 65, 85, 100}
    BY DEF Ladder, Min
  <2> HIDE DEF worn
  <2> QED
    BY <2>1, PointIs
<1>4. Cap(~r.verified, 60) \in Points /\ Cap(r.veto, 20) \in Points
  BY CapIs, PointIs
<1>5. BaseScore(r) = Min(S)
  BY DEF BaseScore
<1>6. S \in SUBSET Points /\ S # {}
  <2> HIDE DEF core, worn
  <2> QED
    BY <1>2, <1>3, <1>4
<1> HIDE DEF S
<1> QED
  BY <1>5, <1>6, PointMin

(* A score and a verdict put before the components.                         *)
LEMMA ScoreBeforeParts ==
  ASSUME NEW c, NEW new, NEW old, Parts(c, old),
         {"score", "verdict"} \subseteq DOMAIN new, DOMAIN new \subseteq {"score", "verdict", "gates"},
         new.score \in Points, new.verdict \in Verdicts
  PROVE  Result(c, new ++ old)
<1> DEFINE b == new ++ old
<1>1. Over(b, new, old)
  BY Merged
<1> HIDE DEF b
<1>2. Parts(c, b)
  BY <1>1 DEF Over, Parts, PartNames
<1>3. Result(c, b)
  BY <1>1, <1>2 DEF Over, Result
<1> QED
  BY <1>3 DEF b

(* The result of v3.1.                                                      *)
LEMMA BaseType == ASSUME NEW c, Candidate(c) PROVE Result(c, Base(c))
<1> DEFINE arts == Causal(c.news)
           sig  == Signals(arts, c.fund)
           flags == RiskFlags(arts, c.fund)
           class == IF arts = {} THEN "other" ELSE c.class
           p    == Adjusted(Quantified(EventProfile(sig, class), arts, c.mkt), sig, flags, arts)
           recognised == CauseRecognised(sig, arts, c.mkt)
           quality == SourceQuality(arts, recognised, Conflicting(sig))
           e    == EventParts(c, arts, sig, p, arts # {} /\ recognised, quality)
           new    == [score |-> BaseScore(e),
                    verdict |-> IF e.veto \/ BaseScore(e) < 55 THEN "PASS"
                                ELSE IF BaseScore(e) >= 75 /\ e.verified THEN "INVESTIGATE"
                                ELSE "WATCH"]
<1>1. Base(c) = new ++ e
  BY DEF Base, Attributed, Explained, Judged, Scored, BaseResult
<1>2. Event(p)
  BY EventType, QuantifiedType, AdjustedType
<1>3. recognised \in BOOLEAN /\ Conflicting(sig) \in BOOLEAN
  BY DEF CauseRecognised, Conflicting
<1>4. quality \in Points
  <2> HIDE DEF recognised, sig, arts
  <2> QED
    BY <1>3, SourceQualityType
<1>5. Parts(c, e)
  <2> HIDE DEF p, quality, recognised, sig, arts
  <2> QED
    BY <1>2, <1>4, EventPartsType
<1> HIDE DEF e
<1>6. BaseScore(e) \in Points
  BY <1>5, BaseScoreType
<1>7. DOMAIN new = {"score", "verdict"} /\ new.score \in Points /\ new.verdict \in Verdicts
  BY <1>6 DEF Verdicts
<1> HIDE DEF new
<1> QED
  BY <1>1, <1>5, <1>7, ScoreBeforeParts

(* Whatever the gates, the verdict is one of three.                         *)
LEMMA VerdictIs == \A pass, gates, score, watch : Verdict(pass, gates, score, watch) \in Verdicts
BY DEF Verdict, Verdicts

(* What v3.2 adds to the components.                                        *)
Parts2(c, r) ==
  /\ Parts(c, r)
  /\ {"class", "severity", "spiked"} \subseteq DOMAIN r
  /\ r.class \in Classes /\ r.severity \in Points

(* Its rewriting of the components keeps them points.                       *)
LEMMA FinancedPartsType ==
  ASSUME NEW c, NEW r, Parts(c, r), NEW fin, fin.class \in Classes, fin.severity \in Points,
         NEW spike, spike.cap \in Points
  PROVE  Parts2(c, FinancedParts(r, fin, spike))
<1> DEFINE
      thinned == AtLeast(18, 68 - Pct(45 * fin.severity))
      cats == {r.catalyst, Cap(fin.class = "capital_distress", 18),
               Cap(fin.class = "material_dilution", thinned),
               Cap(r.cause = "UNVERIFIED", 30), Cap(r.cause = "CONFLICTING", 28),
               Cap(r.cause = "PARTIALLY_VERIFIED", 55)}
      diluted == AtMost(82, 45 + Pct(45 * fin.severity))
      harm == CASE fin.class = "capital_distress" -> 88
                [] fin.class = "material_dilution" -> diluted
                [] fin.class = "financing_benign" -> 35
                [] OTHER -> 0
      confs == {r.conf, Cap(r.cause = "UNVERIFIED", 45), Cap(r.cause = "CONFLICTING", 55)}
      new == [class |-> fin.class, severity |-> fin.severity, spiked |-> spike.dominant,
              name |-> Taxonomy(r, fin.class, spike.dominant), veto |-> r.veto \/ fin.veto,
              setup |-> AtMost(r.setup, spike.cap), catalyst |-> Min(cats),
              damage |-> AtLeast(r.damage, harm),
              resilience |-> AtMost(r.resilience, Cap(fin.class = "capital_distress", 22)),
              conf |-> Min(confs)]
<1>1. \A a, b \in Points : AtLeast(a, b) \in Points /\ AtMost(a, b) \in Points /\ AtMost(a, b) <= a
  BY TwoFigures, PointIs
<1>2. 88 \in Points /\ 35 \in Points /\ 0 \in Points /\ 82 \in Points /\ 18 \in Points
      /\ 30 \in Points /\ 28 \in Points /\ 55 \in Points /\ 22 \in Points /\ 45 \in Points
      /\ 100 \in Points
  BY PointIs
<1>3. r.conf \in Points /\ r.setup \in Points /\ r.catalyst \in Points /\ r.resilience \in Points
      /\ r.damage \in Points /\ r.rever \in Points /\ r.horizon \in Points /\ r.confirm \in Points
  BY DEF Parts, PartNames
<1>4. Pct(45 * fin.severity) \in Int /\ 0 <= Pct(45 * fin.severity) /\ Pct(45 * fin.severity) <= 45
  <2>1. fin.severity \in Int /\ 0 <= fin.severity /\ fin.severity <= 100
    BY PointIs
  <2> QED
    BY <2>1 DEF Pct
<1>5. thinned \in Points /\ diluted \in Points
  <2> DEFINE n == Pct(45 * fin.severity)
  <2>1. n \in Int /\ 0 <= n /\ n <= 45
    BY <1>4
  <2> HIDE DEF n
  <2>2. AtLeast(18, 68 - n) \in Points /\ AtMost(82, 45 + n) \in Points
    BY <2>1, TwoFigures, PointIs
  <2> QED
    BY <2>2 DEF n
<1>6. harm \in Points
  <2> HIDE DEF diluted
  <2>1. harm \in {88, diluted, 35, 0}
    OBVIOUS
  <2> HIDE DEF harm
  <2> QED
    BY <1>2, <1>5, <2>1
<1>7. Min(cats) \in Points
  <2> HIDE DEF thinned
  <2>1. cats \in SUBSET Points /\ cats # {}
    BY <1>2, <1>3, <1>5 DEF Cap
  <2> HIDE DEF cats
  <2> QED
    BY <2>1, PointMin
<1>8. Min(confs) \in Points
  <2>1. confs \in SUBSET Points /\ confs # {}
    BY <1>2, <1>3 DEF Cap
  <2> HIDE DEF confs
  <2> QED
    BY <2>1, PointMin
<1>9. Cap(fin.class = "capital_distress", 22) \in Points
  BY <1>2 DEF Cap
<1>10. /\ DOMAIN new = {"class", "severity", "spiked", "name", "veto", "setup", "catalyst",
                        "damage", "resilience", "conf"}
       /\ new.class \in Classes /\ new.severity \in Points /\ new.conf = Min(confs)
       /\ new.setup = AtMost(r.setup, spike.cap) /\ new.catalyst = Min(cats)
       /\ new.damage = AtLeast(r.damage, harm)
       /\ new.resilience = AtMost(r.resilience, Cap(fin.class = "capital_distress", 22))
  OBVIOUS
<1>11. FinancedParts(r, fin, spike) = new ++ r
  BY DEF FinancedParts
<1> HIDE DEF new, cats, confs, harm, thinned, diluted
<1>12. new.setup \in Points /\ new.catalyst \in Points /\ new.damage \in Points
       /\ new.resilience \in Points /\ new.conf \in Points
  BY <1>1, <1>3, <1>6, <1>7, <1>8, <1>9, <1>10
<1>13. ~Filed(c.fund) => new.resilience <= 50
  <2>1. r.resilience \in Int /\ new.resilience \in Int
    BY <1>3, <1>12, PointIs
  <2>2. new.resilience <= r.resilience
    BY <1>1, <1>3, <1>9, <1>10
  <2>3. ~Filed(c.fund) => r.resilience <= 50
    BY DEF Parts
  <2> QED
    BY <2>1, <2>2, <2>3
<1> DEFINE b == new ++ r
<1>14. Over(b, new, r)
  BY Merged
<1> HIDE DEF b
<1>15. Parts(c, b)
  <2>1. PartNames \cup {"sig", "name", "cause", "veto"} \subseteq DOMAIN b
    BY <1>10, <1>14 DEF Over, Parts
  <2>2. \A k \in PartNames : b[k] \in Points
    BY <1>3, <1>10, <1>12, <1>14 DEF Over, Parts, PartNames
  <2>3. b.cause \in Causes /\ b.resilience = new.resilience
    BY <1>10, <1>14 DEF Over, Parts
  <2> QED
    BY <1>13, <2>1, <2>2, <2>3 DEF Parts
<1>16. Parts2(c, b)
  BY <1>10, <1>14, <1>15 DEF Over, Parts2
<1> QED
  BY <1>11, <1>16 DEF b

(* The score of v3.2.                                                       *)
LEMMA HierarchyScoreType ==
  ASSUME NEW c, NEW r, Parts2(c, r), NEW spike, spike.penalty \in Int
  PROVE  HierarchyScore(r, spike) \in Points
<1> DEFINE dilution == IF r.class = "financing_benign" THEN 0
                       ELSE AtMost(25, Pct(30 * AtLeast(0, r.severity - 25)))
           penalty  == AtMost(22, Pct(28 * AtLeast(0, r.damage - 20)))
           core == Clamp(ShrunkTo50(Core(r), r.conf) - penalty - spike.penalty - dilution)
           worn == Ladder(r.damage, <<<<80, 20>>, <<65, 42>>, <<50, 62>>, <<30, 82>>>>, 100)
           S    == {core, worn, Cap(r.cause = "UNVERIFIED", 50),
                    Cap(r.cause = "PARTIALLY_VERIFIED", 65), Cap(r.cause = "CONFLICTING", 45),
                    Cap(r.veto, 20)}
<1>1. r.severity \in Int /\ r.damage \in Int
  BY PointIs DEF Parts2, Parts, PartNames
<1>2. dilution \in Int
  <2>1. AtLeast(0, r.severity - 25) \in Int
    BY <1>1, TwoFigures
  <2>2. Pct(30 * AtLeast(0, r.severity - 25)) \in Int
    BY <2>1, PctIsWhole
  <2> QED
    BY <2>2, TwoFigures
<1>3. penalty \in Int
  <2>1. AtLeast(0, r.damage - 20) \in Int
    BY <1>1, TwoFigures
  <2>2. Pct(28 * AtLeast(0, r.damage - 20)) \in Int
    BY <2>1, PctIsWhole
  <2> QED
    BY <2>2, TwoFigures
<1>4. core \in Points
  <2> HIDE DEF penalty, dilution
  <2>1. ShrunkTo50(Core(r), r.conf) \in Int
    BY CoreIsWhole DEF Parts2
  <2>2. ShrunkTo50(Core(r), r.conf) - penalty - spike.penalty - dilution \in Int
    BY <1>2, <1>3, <2>1
  <2> QED
    BY <2>2, ClampIsPoint
<1>5. worn \in Points
  <2>1. worn \in {20, 42, 62, 82, 100}
    BY DEF Ladder, Min
  <2> HIDE DEF worn
  <2> QED
    BY <2>1, PointIs
<1>6. 50 \in Points /\ 65 \in Points /\ 45 \in Points /\ 20 \in Points /\ 100 \in Points
  BY PointIs
<1>7. S \in SUBSET Points /\ S # {}
  <2> HIDE DEF core, worn
  <2> QED
    BY <1>4, <1>5, <1>6 DEF Cap
<1>8. HierarchyScore(r, spike) = Min(S)
  BY DEF HierarchyScore
<1> HIDE DEF S
<1> QED
  BY <1>7, <1>8, PointMin

(* A gated result keeps its components and has a score and a verdict.       *)
LEMMA GatedType ==
  ASSUME NEW c, NEW r, Parts(c, r), NEW score \in Points, NEW gates, NEW pass, NEW watch
  PROVE  /\ Result(c, Gated(r, score, gates, pass, watch))
         /\ {"score", "verdict", "gates"} \subseteq DOMAIN Gated(r, score, gates, pass, watch)
         /\ DOMAIN r \subseteq DOMAIN Gated(r, score, gates, pass, watch)
         /\ Gated(r, score, gates, pass, watch).score = score
         /\ Gated(r, score, gates, pass, watch).gates = gates
         /\ Gated(r, score, gates, pass, watch).verdict = Verdict(pass, gates, score, watch)
         /\ \A k \in DOMAIN r \ {"score", "verdict", "gates"} :
              Gated(r, score, gates, pass, watch)[k] = r[k]
<1> DEFINE new == [score |-> score, gates |-> gates, verdict |-> Verdict(pass, gates, score, watch)]
           g   == Gated(r, score, gates, pass, watch)
<1>1. /\ DOMAIN new = {"score", "gates", "verdict"} /\ new.score = score /\ new.gates = gates
      /\ new.verdict = Verdict(pass, gates, score, watch)
  OBVIOUS
<1>2. g = new ++ r
  BY DEF Gated
<1> HIDE DEF new, g
<1>3. Over(g, new, r)
  BY <1>2, Merged
<1>4. new.verdict \in Verdicts /\ new.score \in Points
  BY <1>1, VerdictIs
<1>5. Result(c, g)
  BY <1>1, <1>2, <1>4, ScoreBeforeParts
<1>6. {"score", "verdict", "gates"} \subseteq DOMAIN g /\ DOMAIN r \subseteq DOMAIN g
      /\ g.score = score /\ g.gates = gates /\ g.verdict = Verdict(pass, gates, score, watch)
  BY <1>1, <1>3 DEF Over
<1>7. \A k \in DOMAIN r \ {"score", "verdict", "gates"} : g[k] = r[k]
  BY <1>1, <1>3 DEF Over
<1> QED
  BY <1>5, <1>6, <1>7 DEF g

(* The result of v3.2.                                                      *)
Result2(c, r) == Result(c, r) /\ Parts2(c, r)

(* It is one.                                                               *)
LEMMA HierarchyType ==
  ASSUME NEW c, Candidate(c), NEW r, Result(c, r) PROVE Result2(c, Hierarchy(c, r))
<1> DEFINE fin   == Financing(c.news, c.fund)
           spike == PostSpike(c.mkt)
           e     == FinancedParts(r, fin, spike)
           score == HierarchyScore(e, spike)
           gates == HierarchyGates(c, e, spike, score)
           pass  == \/ e.veto \/ e.class = "capital_distress" \/ e.damage >= 80
                    \/ score < 55 \/ (e.cause = "UNVERIFIED" /\ e.conf < 45)
           h     == Gated(e, score, gates, pass, 0)
<1>1. fin.class \in Classes /\ fin.severity \in Points
  BY FinancingType
<1>2. spike.penalty \in Int /\ spike.cap \in Points
  BY SpikeType
<1>3. Hierarchy(c, r) = h
  BY DEF Hierarchy, Unspiked, Financed, HierarchyResult
<1> HIDE DEF fin, spike
<1>4. Parts2(c, e)
  BY <1>1, <1>2, FinancedPartsType DEF Result
<1> HIDE DEF e
<1>5. score \in Points
  BY <1>2, <1>4, HierarchyScoreType
<1> HIDE DEF score, gates, pass
<1>6. Parts(c, e)
  BY <1>4 DEF Parts2
<1>7. Result(c, h)
  BY <1>5, <1>6, GatedType
<1>8. DOMAIN e \subseteq DOMAIN h /\ \A k \in DOMAIN e \ {"score", "verdict", "gates"} : h[k] = e[k]
  BY <1>5, <1>6, GatedType
<1> HIDE DEF h
<1>9. Parts2(c, h)
  BY <1>4, <1>7, <1>8 DEF Parts2, Result
<1> QED
  BY <1>3, <1>7, <1>9 DEF Result2, h

-----------------------------------------------------------------------------
(* v3.3                                                                     *)

(* What v3.3 adds to the components.                                        *)
Parts3(c, r) ==
  /\ Parts2(c, r)
  /\ {"over", "surv", "fit", "tail", "critical"} \subseteq DOMAIN r
  /\ r.over \in Points /\ r.surv \in Points /\ r.fit \in Points /\ r.tail \in Points
  /\ ~Filed(c.fund) => r.surv <= 50

(* The components of a thesis are points.                                   *)
LEMMA ThesisPartsType ==
  ASSUME NEW c, Candidate(c), NEW r, Parts2(c, r)
  PROVE  Parts3(c, ThesisParts(r, Survivability(r.resilience, c.fund, r)))
<1> DEFINE surv == Survivability(r.resilience, c.fund, r)
           new  == [fit |-> ThreeSessionFit(r.name, r.horizon, r.damage), surv |-> surv,
                    over |-> Overreaction(r.setup, r), tail |-> TailRisk(r, surv),
                    critical |-> Critical(r)]
<1>1. /\ r.resilience \in Points /\ r.horizon \in Points /\ r.damage \in Points
      /\ r.setup \in Points /\ r.rever \in Points /\ r.severity \in Points /\ r.class \in Classes
      /\ ~Filed(c.fund) => r.resilience <= 50
  BY DEF Parts2, Parts, PartNames
<1>2. surv \in Points /\ (~Filed(c.fund) => surv <= 50)
  BY <1>1, SurvivabilityType
<1> HIDE DEF surv
<1>3. /\ ThreeSessionFit(r.name, r.horizon, r.damage) \in Points
      /\ Overreaction(r.setup, r) \in Points /\ TailRisk(r, surv) \in Points
  BY <1>1, FitType, OverreactionType, TailRiskType
<1>4. /\ DOMAIN new = {"fit", "surv", "over", "tail", "critical"}
      /\ new.fit \in Points /\ new.surv = surv /\ new.over \in Points /\ new.tail \in Points
  BY <1>3
<1>5. ThesisParts(r, surv) = new ++ r
  BY DEF ThesisParts
<1> DEFINE b == new ++ r
<1> HIDE DEF new
<1>6. Over(b, new, r)
  BY Merged
<1> HIDE DEF b
<1>7. Parts(c, b)
  BY <1>4, <1>6 DEF Over, Parts2, Parts, PartNames
<1>8. Parts2(c, b)
  BY <1>4, <1>6, <1>7 DEF Over, Parts2
<1>9. Parts3(c, b)
  BY <1>2, <1>4, <1>6, <1>8 DEF Over, Parts3
<1> QED
  BY <1>5, <1>9 DEF b, surv

(* The six components, and the weights of the base score.                   *)
LEMMA ComponentsType ==
  ASSUME NEW c, NEW r, Parts3(c, r)
  PROVE  /\ DOMAIN Components(r) = Six /\ \A k \in Six : Components(r)[k] \in Points
         /\ Figures(Components(r)) /\ Weighting(Balanced)
<1>1. /\ r.over \in Points /\ r.rever \in Points /\ r.surv \in Points /\ r.fit \in Points
      /\ r.confirm \in Points /\ r.setup \in Points
  BY DEF Parts3, Parts2, Parts, PartNames
<1>2. DOMAIN Components(r) = Six /\ \A k \in Six : Components(r)[k] \in Points
  BY <1>1 DEF Components, Six
<1>3. Figures(Components(r))
  BY <1>2, PointIs DEF Figures
<1>4. Weighting(Balanced)
  BY DEF Weighting, Balanced, Six
<1> QED
  BY <1>2, <1>3, <1>4

(* What the gates of v3.3 that are never replaced say when they are open.   *)
Traded(c) == c.mkt.dollars >= 2000
Kept(c, r) ==
  /\ EconomicGateNames \subseteq DOMAIN r.gates
  /\ r.gates.survivability => r.surv >= 55
  /\ r.gates.damage_not_high => r.damage <= 60
  /\ r.gates.tail_risk_acceptable => r.tail <= 60
  /\ r.gates.liquidity => Traded(c)
  /\ r.gates.regular_session_confirmation => ~c.mkt.extended

(* The result of v3.3.                                                      *)
Result3(c, r) == Result(c, r) /\ Parts3(c, r) /\ "gates" \in DOMAIN r /\ Kept(c, r)

(* It is one.                                                               *)
LEMMA EconomicsType ==
  ASSUME NEW c, Candidate(c), NEW r, Result2(c, r) PROVE Result3(c, Economics(c, r))
<1> DEFINE e     == ThesisParts(r, Survivability(r.resilience, c.fund, r))
           pre   == PreCap(Components(e), Balanced, e.conf, e.tail)
           cap   == EconomicCap(c, e, e.tail)
           score == AtMost(pre, cap)
           gates == EconomicGates(c, e, score)
           pass  == Severe(e) \/ e.class = "capital_distress" \/ score < 40
           h     == Gated(e, score, gates, pass, 48)
<1>1. Economics(c, r) = h
  BY DEF Economics, Thesis, EconomicsResult
<1>2. Parts3(c, e)
  BY ThesisPartsType DEF Result2
<1> HIDE DEF e
<1>3. e.conf \in Points /\ e.tail \in Points /\ e.damage \in Points /\ e.cause \in Causes
  BY <1>2 DEF Parts3, Parts2, Parts, PartNames
<1>4. pre \in Points
  <2>1. Discounted(Components(e), Balanced, e.conf, e.tail) \in Int
    BY <1>2, <1>3, ComponentsType, DiscountedType
  <2> QED
    BY <2>1, ClampIsPoint DEF PreCap
<1>5. cap \in Points
  BY <1>3, EconomicCapType
<1>6. score \in Points
  <2> HIDE DEF pre, cap
  <2>1. \A a, b \in Points : AtMost(a, b) \in Points
    BY TwoFigures, PointIs
  <2> QED
    BY <1>4, <1>5, <2>1
<1> HIDE DEF score
<1>7. /\ EconomicGateNames \subseteq DOMAIN gates
      /\ gates.survivability => e.surv >= 55
      /\ gates.damage_not_high => e.damage <= 60
      /\ gates.tail_risk_acceptable => e.tail <= 60
      /\ gates.liquidity => Traded(c)
      /\ gates.regular_session_confirmation => ~c.mkt.extended
  <2>1. EconomicGateNames \subseteq DOMAIN gates
    BY DEF EconomicGates, EconomicGateNames
  <2>2. gates.survivability => e.surv >= 55
    BY DEF EconomicGates
  <2>3. gates.damage_not_high => e.damage <= 60
    BY DEF EconomicGates
  <2>4. gates.tail_risk_acceptable => e.tail <= 60
    BY DEF EconomicGates
  <2>5. gates.liquidity => Traded(c)
    <3>1. gates.liquidity = Traded(c)
      BY DEF EconomicGates, Traded
    <3> HIDE DEF gates
    <3> QED
      BY <3>1
  <2>6. gates.regular_session_confirmation => ~c.mkt.extended
    BY DEF EconomicGates
  <2> QED
    BY <2>1, <2>2, <2>3, <2>4, <2>5, <2>6
<1> HIDE DEF gates, pass
<1>8. Parts(c, e)
  BY <1>2 DEF Parts3, Parts2
<1>9. Result(c, h) /\ {"score", "verdict", "gates"} \subseteq DOMAIN h /\ DOMAIN e \subseteq DOMAIN h
      /\ h.gates = gates /\ \A k \in DOMAIN e \ {"score", "verdict", "gates"} : h[k] = e[k]
  BY <1>6, <1>8, GatedType
<1> HIDE DEF h
<1>10. Parts(c, h)
  BY <1>9 DEF Result
<1>11. Parts2(c, h)
  BY <1>2, <1>9, <1>10 DEF Parts2, Parts3
<1>12. Parts3(c, h)
  BY <1>2, <1>9, <1>11 DEF Parts3
<1>13. h.surv = e.surv /\ h.damage = e.damage /\ h.tail = e.tail
  BY <1>2, <1>8, <1>9 DEF Parts3, Parts, PartNames
<1>14. Kept(c, h)
  BY <1>7, <1>9, <1>13 DEF Kept
<1> QED
  BY <1>1, <1>9, <1>12, <1>14 DEF Result3, h

-----------------------------------------------------------------------------
(* v3.4: contradictions, friction and caps                                  *)

(* The authority of an article, and the best of some.                       *)
LEMMA BestIs ==
  \A arts : arts # {} => Best(arts) \in {12, 20, 22, 30} /\ \E a \in arts : Best(arts) = Authority(a)
<1> SUFFICES ASSUME NEW arts, arts # {}
             PROVE Best(arts) \in {12, 20, 22, 30} /\ \E a \in arts : Best(arts) = Authority(a)
  OBVIOUS
<1> DEFINE S == {Authority(a) : a \in arts}
<1>1. \A a : Authority(a) \in {12, 20, 22, 30}
  BY DEF Authority
<1>2. 12 \in Points /\ 20 \in Points /\ 22 \in Points /\ 30 \in Points
  BY PointIs
<1>3. S \in SUBSET Points /\ S # {}
  BY <1>1, <1>2
<1>4. Best(arts) = Max(S)
  BY DEF Best
<1>5. Max(S) \in S
  <2> HIDE DEF S
  <2> QED
    BY <1>3, PointMax
<1> QED
  BY <1>1, <1>4, <1>5

(* How far the evidence contradicts itself is a point.                      *)
LEMMA ContradictionType == ASSUME NEW c PROVE Contradiction(c) \in Points
<1> DEFINE
      pos(claim)   == Side(c, claim, 1)
      neg(claim)   == Side(c, claim, 2)
      filed(side)  == \E a \in side : a.primary
      weight(claim) == 20 + AtMost(Best(pos(claim)), Best(neg(claim)))
                       + If(filed(pos(claim)) \/ filed(neg(claim)), 10)
                       + If(filed(pos(claim)) /\ filed(neg(claim)), 10)
      part(claim) == IF claim \in Unresolved(c) THEN weight(claim) ELSE 0
      sum == part("guidance") + part("operations") + part("clinical") + part("regulatory")
             + part("financing") + part("solvency") + If(Cardinality(Unresolved(c)) > 1, 10)
<1>1. \A t : If(t, 10) \in Int
  BY DEF If
<1>2. \A claim : part(claim) \in Int
  <2> SUFFICES ASSUME NEW claim, claim \in Unresolved(c) PROVE weight(claim) \in Int
    OBVIOUS
  <2>1. pos(claim) # {} /\ neg(claim) # {}
    BY DEF Unresolved
  <2> HIDE DEF pos, neg, filed
  <2>2. Best(pos(claim)) \in Int /\ Best(neg(claim)) \in Int
    BY <2>1, BestIs
  <2>3. AtMost(Best(pos(claim)), Best(neg(claim))) \in Int
    BY <2>2, TwoFigures
  <2> QED
    BY <1>1, <2>3
<1>3. sum \in Int
  <2> HIDE DEF part
  <2> QED
    BY <1>1, <1>2
<1>4. Contradiction(c) = Clamp(sum)
  BY DEF Contradiction
<1> HIDE DEF sum
<1> QED
  BY <1>3, <1>4, ClampIsPoint

(* Friction is whole and never below nothing.                               *)
LEMMA FrictionType ==
  ASSUME NEW c, Candidate(c)
  PROVE  /\ Friction(c) \in Int /\ 0 <= Friction(c)
         /\ FrictionPenalty(c) \in Int /\ 0 <= FrictionPenalty(c)
         /\ AtMost(15, Pct(4 * Friction(c))) \in Int /\ 0 <= AtMost(15, Pct(4 * Friction(c)))
<1> DEFINE slip == Ladder(c.mkt.dollars, <<<<100000, 8>>, <<25000, 15>>, <<5000, 30>>,
                                          <<2000, 55>>, <<500, 90>>>>, 150)
           few   == Ladder(c.fund.mcap, <<<<75, 0>>, <<25, 18>>>>, 35)
           small == IF c.fund.mcap = Missing THEN 0 ELSE few
           wide  == AtLeast(0, c.mkt.spread)
<1>1. slip \in {8, 15, 30, 55, 90, 150}
  BY DEF Ladder, Min
<1>2. few \in {0, 18, 35}
  BY DEF Ladder, Min
<1>3. small \in {0, 18, 35}
  <2> HIDE DEF few
  <2> QED
    BY <1>2
<1>4. wide \in Int /\ 0 <= wide
  BY MarketFigures, TwoFigures
<1>5. Friction(c) = wide + 2 * (slip + small)
  BY DEF Friction
<1> HIDE DEF wide, slip, small
<1>6. Friction(c) \in Int /\ 0 <= Friction(c)
  BY <1>1, <1>3, <1>4, <1>5
<1>7. Pct((5 * Friction(c)) \div 2) \in Int /\ 0 <= Pct((5 * Friction(c)) \div 2)
  <2> DEFINE half == (5 * Friction(c)) \div 2
  <2>1. half \in Int /\ 0 <= half
    BY <1>6
  <2> HIDE DEF half
  <2>2. Pct(half) \in Int /\ 0 <= Pct(half)
    BY <2>1 DEF Pct
  <2> QED
    BY <2>2 DEF half
<1>8. Pct(4 * Friction(c)) \in Int /\ 0 <= Pct(4 * Friction(c))
  BY <1>6 DEF Pct
<1> QED
  BY <1>6, <1>7, <1>8, TwoFigures DEF FrictionPenalty

(* What the sourcing allows of confidence, and the rest of the score.       *)
LEMMA CapTypes ==
  ASSUME NEW c, NEW family, NEW cause, NEW severity
  PROVE  ConfidenceCap(c, family, cause) \in Points /\ ExternalCap(c, severity) \in Points
<1>1. ConfidenceCap(c, family, cause) \in {42, 45, 95, 86, 80, 68, 65, 52}
  BY DEF ConfidenceCap
<1> DEFINE S == {Cap(severity >= 75, 30), Cap(severity >= 50, 50),
                 Cap(c.fund.mcap # Missing /\ c.fund.mcap < 25, 40),
                 Cap(c.fund.mcap # Missing /\ c.fund.mcap < 75, 65)}
<1>2. S \in SUBSET Points /\ S # {}
  <2>1. 30 \in Points /\ 50 \in Points /\ 40 \in Points /\ 65 \in Points /\ 100 \in Points
    BY PointIs
  <2> QED
    BY <2>1 DEF Cap
<1>3. ExternalCap(c, severity) = Min(S)
  BY DEF ExternalCap
<1> HIDE DEF S
<1> QED
  BY <1>1, <1>2, <1>3, PointMin, PointIs

-----------------------------------------------------------------------------
(* v3.4: scenarios                                                          *)

ScenarioNames == Downside \cup {"modest_upside"}
Scene(s) == /\ DOMAIN s.values = Six /\ \A k \in Six : s.values[k] \in Points
            /\ s.conf \in Points /\ s.tail \in Points

(* The uncertainty of every component is whole.                             *)
LEMMA UncertaintyIsWhole ==
  ASSUME NEW c, Candidate(c), NEW r, r.conf \in Points, r.contradiction \in Points, NEW family
  PROVE  DOMAIN Uncertainty(c, r, family) = Six /\ Figures(Uncertainty(c, r, family))
<1> DEFINE
      base  == AtLeast(3, Pct(18 * (100 - r.conf)))
      cause == (CASE r.cause = "VERIFIED" -> 0 [] r.cause = "PARTIALLY_VERIFIED" -> 8 [] OTHER -> 16)
               + Pct(10 * r.contradiction)
      late  == If(c.mkt.extended, 8)
      known == AtLeast(4, 14 - AtMost(10, c.fund.coverage))
      funds == (IF Filed(c.fund) THEN known ELSE 20)
               + If(c.fund.mcap # Missing /\ c.fund.mcap < 75, 5)
      u     == Uncertainty(c, r, family)
<1>1. r.conf \in Int /\ r.contradiction \in Int
  BY PointIs
<1>2. base \in Int
  <2>1. Pct(18 * (100 - r.conf)) \in Int
    BY <1>1, PctIsWhole
  <2> QED
    BY <2>1, TwoFigures
<1>3. cause \in Int
  <2>1. Pct(10 * r.contradiction) \in Int
    BY <1>1, PctIsWhole
  <2> QED
    BY <2>1
<1>4. late \in Int
  BY DEF If
<1>5. funds \in Int
  <2>1. known \in Int
    <3>1. 14 - AtMost(10, c.fund.coverage) \in Int
      BY FiledFigures, TwoFigures
    <3> QED
      BY <3>1, TwoFigures
  <2>2. If(c.fund.mcap # Missing /\ c.fund.mcap < 75, 5) \in Int
    BY DEF If
  <2> HIDE DEF known
  <2> QED
    BY <2>1, <2>2
<1>6. /\ DOMAIN u = Six
      /\ u.overreaction = AtMost(30, base + cause + late)
      /\ u.reversibility = AtMost(30, base + cause)
      /\ u.survivability = AtMost(30, base + funds)
      /\ u.three_session_fit = AtMost(25, base + (IF family = "unknown" THEN 8 ELSE 2))
      /\ u.confirmation = AtMost(22, base + late)
      /\ u.technical_exhaustion = AtMost(12, Pct(55 * base))
  BY DEF Uncertainty, Six
<1> HIDE DEF base, cause, late, funds, u
<1>7. Pct(55 * base) \in Int
  BY <1>2, PctIsWhole
<1>8. \A k \in Six : u[k] \in Int
  <2>1. u.overreaction \in Int /\ u.reversibility \in Int /\ u.survivability \in Int
        /\ u.three_session_fit \in Int /\ u.confirmation \in Int /\ u.technical_exhaustion \in Int
    BY <1>2, <1>3, <1>4, <1>5, <1>6, <1>7, TwoFigures
  <2> QED
    BY <2>1 DEF Six
<1> QED
  BY <1>6, <1>8 DEF Figures, u

(* A moved component is a point.                                            *)
LEMMA MovedType ==
  ASSUME NEW c, NEW r, Parts3(c, r), NEW u, DOMAIN u = Six, Figures(u), NEW keys, NEW share \in Int
  PROVE  DOMAIN Moved(r, u, keys, share) = Six
         /\ \A k \in Six : Moved(r, u, keys, share)[k] \in Points
<1>1. \A k \in Six : Components(r)[k] \in Points /\ Components(r)[k] \in Int
  BY ComponentsType, PointIs
<1>2. \A k \in Six : Clamp(Components(r)[k] + Pct(share * u[k])) \in Points
  <2> SUFFICES ASSUME NEW k \in Six PROVE Clamp(Components(r)[k] + Pct(share * u[k])) \in Points
    OBVIOUS
  <2>1. share * u[k] \in Int
    BY DEF Figures
  <2>2. Components(r)[k] + Pct(share * u[k]) \in Int
    BY <1>1, <2>1, PctIsWhole
  <2> QED
    BY <2>2, ClampIsPoint
<1> QED
  BY <1>1, <1>2 DEF Moved

(* Each scenario is of points; the evidence and the joint one cost ten of   *)
(* the confidence, and none of the downside takes from the tail.            *)
LEMMA ScenariosType ==
  ASSUME NEW c, NEW r, Parts3(c, r), r.contradiction \in Points,
         NEW u, DOMAIN u = Six, Figures(u)
  PROVE  /\ DOMAIN Scenarios(r, u) = ScenarioNames
         /\ \A n \in ScenarioNames : Scene(Scenarios(r, u)[n])
         /\ r.conf <= 64 => \A n \in {"evidence_downside", "joint_downside"} :
                              Scenarios(r, u)[n].conf <= 54
         /\ \A n \in Downside : r.tail <= Scenarios(r, u)[n].tail
<1> DEFINE s == Scenarios(r, u)
<1>1. \A v, conf, tail : conf \in Int /\ conf <= 100 /\ tail \in Int /\ DOMAIN v = Six
                         /\ (\A k \in Six : v[k] \in Points) => Scene(Scenario(v, conf, tail))
  <2> SUFFICES ASSUME NEW v, NEW conf \in Int, conf <= 100, NEW tail \in Int, DOMAIN v = Six,
                      \A k \in Six : v[k] \in Points
               PROVE Scene(Scenario(v, conf, tail))
    OBVIOUS
  <2>1. AtLeast(0, conf) \in Points
    BY TwoFigures, PointIs
  <2>2. Clamp(tail) \in Points
    BY ClampIsPoint
  <2> QED
    BY <2>1, <2>2 DEF Scene, Scenario
<1>2. r.conf \in Int /\ 0 <= r.conf /\ r.conf <= 100 /\ r.tail \in Int /\ r.contradiction \in Int
  BY PointIs DEF Parts3, Parts2, Parts, PartNames
<1>3. DOMAIN Components(r) = Six /\ \A k \in Six : Components(r)[k] \in Points
  BY ComponentsType
<1>4. \A keys, share : share \in Int => DOMAIN Moved(r, u, keys, share) = Six
                       /\ \A k \in Six : Moved(r, u, keys, share)[k] \in Points
  BY MovedType
<1>5. \A keys : /\ DOMAIN Moved(r, u, keys, -100) = Six /\ DOMAIN Moved(r, u, keys, -65) = Six
                /\ DOMAIN Moved(r, u, keys, 35) = Six
                /\ \A k \in Six : /\ Moved(r, u, keys, -100)[k] \in Points
                                  /\ Moved(r, u, keys, -65)[k] \in Points
                                  /\ Moved(r, u, keys, 35)[k] \in Points
  <2>1. -100 \in Int /\ -65 \in Int /\ 35 \in Int
    OBVIOUS
  <2> QED
    BY <1>4, <2>1
<1>6. Pct(10 * r.contradiction) \in Int /\ AtLeast(8, Pct(65 * u.survivability)) \in Int
  <2>1. u.survivability \in Int
    BY DEF Figures, Six
  <2>2. Pct(65 * u.survivability) \in Int /\ Pct(10 * r.contradiction) \in Int
    BY <1>2, <2>1, PctIsWhole
  <2> QED
    BY <2>2, TwoFigures
<1>7. Scene(Scenario(Components(r), r.conf, r.tail))
  BY <1>1, <1>2, <1>3
<1>8. Scene(Scenario(Moved(r, u, {"overreaction", "reversibility"}, -100),
                     r.conf - 10, r.tail + Pct(10 * r.contradiction)))
  <2>1. r.conf - 10 \in Int /\ r.conf - 10 <= 100 /\ r.tail + Pct(10 * r.contradiction) \in Int
    BY <1>2, <1>6
  <2> QED
    BY <1>1, <1>5, <2>1
<1>9. Scene(Scenario(Moved(r, u, {"survivability"}, -100), r.conf,
                     r.tail + AtLeast(8, Pct(65 * u.survivability))))
  <2>1. r.tail + AtLeast(8, Pct(65 * u.survivability)) \in Int
    BY <1>2, <1>6
  <2> QED
    BY <1>1, <1>2, <1>5, <2>1
<1>10. Scene(Scenario(Moved(r, u, {"three_session_fit", "confirmation"}, -100), r.conf, r.tail + 5))
  <2>1. r.tail + 5 \in Int
    BY <1>2
  <2> QED
    BY <1>1, <1>2, <1>5, <2>1
<1>11. Scene(Scenario(Moved(r, u, DOMAIN u, -65), r.conf - 10, r.tail + 12))
  <2>1. r.conf - 10 \in Int /\ r.conf - 10 <= 100 /\ r.tail + 12 \in Int
    BY <1>2
  <2> QED
    BY <1>1, <1>5, <2>1
<1>12. Scene(Scenario(Moved(r, u, DOMAIN u, 35), r.conf, r.tail - 5))
  <2>1. r.tail - 5 \in Int
    BY <1>2
  <2> QED
    BY <1>1, <1>2, <1>5, <2>1
<1>13. DOMAIN s = ScenarioNames
  BY DEF Scenarios, ScenarioNames, Downside
<1>14. \A n \in ScenarioNames : Scene(s[n])
  <2>1. Scene(s.base_reliable) /\ Scene(s.evidence_downside) /\ Scene(s.financial_downside)
        /\ Scene(s.timing_downside) /\ Scene(s.joint_downside) /\ Scene(s.modest_upside)
    BY <1>7, <1>8, <1>9, <1>10, <1>11, <1>12 DEF Scenarios
  <2> QED
    BY <2>1 DEF ScenarioNames, Downside
<1>15. s.evidence_downside.conf = AtLeast(0, r.conf - 10)
       /\ s.joint_downside.conf = AtLeast(0, r.conf - 10)
  BY DEF Scenarios, Scenario
<1>16. r.conf <= 64 => AtLeast(0, r.conf - 10) <= 54
  BY <1>2, TwoFigures
<1>17. \A n \in Downside : r.tail <= s[n].tail
  <2> DEFINE more == AtLeast(8, Pct(65 * u.survivability))
             told == Pct(10 * r.contradiction)
  <2>1. /\ s.base_reliable.tail = Clamp(r.tail)
        /\ s.evidence_downside.tail = Clamp(r.tail + told)
        /\ s.financial_downside.tail = Clamp(r.tail + more)
        /\ s.timing_downside.tail = Clamp(r.tail + 5)
        /\ s.joint_downside.tail = Clamp(r.tail + 12)
    BY DEF Scenarios, Scenario
  <2>2. told \in Int /\ 0 <= told
    <3>1. r.contradiction \in Int /\ 0 <= r.contradiction
      BY PointIs
    <3> QED
      BY <3>1 DEF Pct
  <2>3. more \in Int /\ 0 <= more
    <3> DEFINE n == Pct(65 * u.survivability)
    <3>1. u.survivability \in Int
      BY DEF Figures, Six
    <3>2. n \in Int
      BY <3>1, PctIsWhole
    <3> HIDE DEF n
    <3>3. AtLeast(8, n) \in Int /\ 0 <= AtLeast(8, n)
      BY <3>2, TwoFigures
    <3> QED
      BY <3>3 DEF n
  <2> HIDE DEF s, more, told
  <2>4. r.tail \in Int /\ 0 <= r.tail /\ r.tail <= 100
    BY PointIs DEF Parts3
  <2>5. \A k \in Int : 0 <= k => r.tail <= Clamp(r.tail + k)
    BY <2>4, ClampBound
  <2>6. r.tail <= Clamp(r.tail) /\ r.tail <= Clamp(r.tail + 5) /\ r.tail <= Clamp(r.tail + 12)
    BY <2>4, ClampBound
  <2> QED
    BY <2>1, <2>2, <2>3, <2>5, <2>6 DEF Downside
<1> HIDE DEF s
<1>18. r.conf <= 64 => \A n \in {"evidence_downside", "joint_downside"} : s[n].conf <= 54
  BY <1>15, <1>16
<1> QED
  BY <1>13, <1>14, <1>17, <1>18 DEF s

-----------------------------------------------------------------------------
(* v3.4: the result                                                         *)

(* The score under a scenario is a point.                                   *)
LEMMA ScenarioScoreType ==
  ASSUME NEW c, NEW r, r.damage \in Points, r.cause \in Causes, r.external \in Points,
         NEW s, Scene(s), NEW w, Weighting(w), NEW conf \in Points
  PROVE  ScenarioScore(c, r, s, w, conf) \in Points
<1> DEFINE S == {PreCap(s.values, w, conf, s.tail), EconomicCap(c, r, s.tail), r.external}
<1>1. s.tail \in Points /\ Figures(s.values)
  BY PointIs DEF Scene, Figures
<1>2. PreCap(s.values, w, conf, s.tail) \in Points
  <2>1. Discounted(s.values, w, conf, s.tail) \in Int
    BY <1>1, DiscountedType
  <2> QED
    BY <2>1, ClampIsPoint DEF PreCap
<1>3. EconomicCap(c, r, s.tail) \in Points
  BY <1>1, EconomicCapType
<1>4. S \in SUBSET Points /\ S # {}
  BY <1>2, <1>3
<1>5. ScenarioScore(c, r, s, w, conf) = Min(S)
  BY DEF ScenarioScore
<1> HIDE DEF S
<1> QED
  BY <1>4, <1>5, PointMin

(* The conservative score is a point.                                       *)
LEMMA ConservativeType ==
  ASSUME NEW c, Candidate(c), NEW conf \in Points, NEW severity,
         NEW score, \A n \in Downside : score[n] \in Points
  PROVE  Conservative(c, conf, severity, score) \in Points
<1> DEFINE
      lowest  == CHOOSE n \in Downside : \A m \in Downside : score[n] <= score[m]
      others  == {score[n] : n \in Downside \ {lowest}}
      haircut == IF Filed(c.fund) THEN 0 ELSE AtMost(6, AtMost(12, conf) \div 4)
      rub     == AtMost(15, Pct(4 * Friction(c)))
      mean    == (score[lowest] + Min(others)) \div 2
      S       == {AtLeast(0, mean - rub - haircut), Cap(severity >= 75, 30), Cap(severity >= 50, 50)}
<1>1. lowest \in Downside
  <2> DEFINE all == {score[n] : n \in Downside}
  <2>1. all \in SUBSET Points /\ all # {}
    BY DEF Downside
  <2>2. PICK n \in Downside : Min(all) = score[n]
    <3>1. Min(all) \in all
      <4> HIDE DEF all
      <4> QED
        BY <2>1, PointMin
    <3> QED
      BY <3>1
  <2>3. \A m \in Downside : Min(all) <= score[m]
    <3>1. \A x \in all : Min(all) <= x
      <4> HIDE DEF all
      <4> QED
        BY <2>1, PointMin
    <3> QED
      BY <3>1
  <2>4. \A m \in Downside : score[n] <= score[m]
    BY <2>2, <2>3
  <2> QED
    BY <2>4
<1> HIDE DEF lowest
<1>2. Min(others) \in Points
  <2>1. others \in SUBSET Points
    OBVIOUS
  <2>2. PICK n \in Downside : n # lowest
    BY DEF Downside
  <2>3. others # {}
    BY <2>2
  <2> HIDE DEF others
  <2> QED
    BY <2>1, <2>3, PointMin
<1>3. score[lowest] \in Points
  BY <1>1
<1>4. mean \in Int /\ mean <= 100
  <2> DEFINE a == score[lowest]
             b == Min(others)
  <2>1. a \in Int /\ a <= 100 /\ b \in Int /\ b <= 100
    BY <1>2, <1>3, PointIs
  <2> HIDE DEF a, b
  <2>2. (a + b) \div 2 \in Int /\ (a + b) \div 2 <= 100
    BY <2>1
  <2> QED
    BY <2>2 DEF a, b
<1>5. haircut \in Int /\ 0 <= haircut
  <2>1. conf \in Int /\ 0 <= conf
    BY PointIs
  <2>2. AtMost(12, conf) \in Int /\ 0 <= AtMost(12, conf)
    BY <2>1, TwoFigures
  <2> DEFINE n == AtMost(12, conf) \div 4
  <2>3. n \in Int /\ 0 <= n
    BY <2>2
  <2> HIDE DEF n
  <2>4. AtMost(6, n) \in Int /\ 0 <= AtMost(6, n)
    BY <2>3, TwoFigures
  <2> QED
    BY <2>4 DEF n
<1>6. rub \in Int /\ 0 <= rub
  BY FrictionType
<1>7. AtLeast(0, mean - rub - haircut) \in Points
  <2> HIDE DEF mean, rub, haircut
  <2> QED
    BY <1>4, <1>5, <1>6, TwoFigures, PointIs
<1>8. S \in SUBSET Points /\ S # {}
  <2>1. 30 \in Points /\ 50 \in Points /\ 100 \in Points
    BY PointIs
  <2> HIDE DEF mean, rub, haircut
  <2> QED
    BY <1>7, <2>1 DEF Cap
<1>9. Conservative(c, conf, severity, score) = Min(S)
  BY DEF Conservative, lowest
<1> HIDE DEF S
<1> QED
  BY <1>8, <1>9, PointMin

(* The economic gates pass from one release to the next.                    *)
Inherited(b, r) ==
  /\ EconomicGateNames \subseteq DOMAIN b.gates
  /\ \A g \in EconomicGateNames : b.gates[g] = r.gates[g]

(* What they say passes with them.                                          *)
LEMMA KeptPasses ==
  ASSUME NEW c, NEW r, Kept(c, r), NEW b, Inherited(b, r),
         b.surv = r.surv, b.damage = r.damage, b.tail = r.tail
  PROVE  Kept(c, b)
<1>1. /\ b.gates.survivability = r.gates.survivability
      /\ b.gates.damage_not_high = r.gates.damage_not_high
      /\ b.gates.tail_risk_acceptable = r.gates.tail_risk_acceptable
      /\ b.gates.liquidity = r.gates.liquidity
      /\ b.gates.regular_session_confirmation = r.gates.regular_session_confirmation
  BY DEF Inherited, EconomicGateNames
<1> QED
  BY <1>1 DEF Kept, Inherited

(* Of v3.4 on: scenarios of points, and two of them on less confidence.     *)
Stress(c, r) ==
  /\ {"contradiction", "external", "scenarios"} \subseteq DOMAIN r
  /\ r.contradiction \in Points /\ r.external \in Points
  /\ DOMAIN r.scenarios = ScenarioNames
  /\ \A n \in ScenarioNames : Scene(r.scenarios[n])
  /\ \A n \in Downside : r.tail <= r.scenarios[n].tail

(* The result of v3.4.                                                      *)
Result4(c, r) ==
  /\ Result3(c, r) /\ Stress(c, r)
  /\ Filed(c.fund) /\ r.conf <= 64 =>
       \A n \in {"evidence_downside", "joint_downside"} : r.scenarios[n].conf <= 54

(* The components under what the evidence leaves of their confidence.       *)
LEMMA DoubtedType ==
  ASSUME NEW c, NEW r, Result3(c, r), NEW severity \in Points, NEW cause \in Causes,
         NEW external \in Points, NEW conf \in Points
  PROVE  LET d == [contradiction |-> severity, cause |-> cause, external |-> external,
                   conf |-> conf] ++ r
         IN /\ Result3(c, d) /\ d.gates = r.gates /\ d.contradiction = severity
            /\ d.external = external /\ d.conf = conf /\ d.cause = cause
            /\ {"contradiction", "external"} \subseteq DOMAIN d
<1> DEFINE new == [contradiction |-> severity, cause |-> cause, external |-> external,
                   conf |-> conf]
           d   == new ++ r
<1>1. /\ DOMAIN new = {"contradiction", "cause", "external", "conf"}
      /\ new.contradiction = severity /\ new.cause = cause /\ new.external = external
      /\ new.conf = conf
  OBVIOUS
<1> HIDE DEF new
<1>2. Over(d, new, r)
  BY Merged
<1> HIDE DEF d
<1>3. Parts(c, r) /\ Parts2(c, r) /\ Parts3(c, r)
  BY DEF Result3, Parts3, Parts2
<1>4. Parts(c, d)
  BY <1>1, <1>2, <1>3 DEF Over, Parts, PartNames
<1>5. Result(c, d)
  BY <1>1, <1>2, <1>4 DEF Over, Result, Result3
<1>6. Parts2(c, d)
  BY <1>1, <1>2, <1>3, <1>4 DEF Over, Parts2
<1>7. Parts3(c, d)
  BY <1>1, <1>2, <1>3, <1>6 DEF Over, Parts3
<1>8. d.gates = r.gates /\ "gates" \in DOMAIN d
  BY <1>1, <1>2 DEF Over, Result3
<1>9. d.surv = r.surv /\ d.damage = r.damage /\ d.tail = r.tail
  BY <1>1, <1>2, <1>3 DEF Over, Parts3, Parts, PartNames
<1>10. Kept(c, d)
  <2>1. Inherited(d, r)
    BY <1>8 DEF Inherited, Result3, Kept
  <2> QED
    BY <1>9, <2>1, KeptPasses DEF Result3
<1>11. Result3(c, d)
  BY <1>5, <1>7, <1>8, <1>10 DEF Result3
<1>12. {"contradiction", "external"} \subseteq DOMAIN d /\ d.contradiction = severity
       /\ d.external = external /\ d.conf = conf /\ d.cause = cause
  BY <1>1, <1>2 DEF Over
<1> QED
  BY <1>8, <1>11, <1>12 DEF d, new

(* The result of v3.4 is one, and passes the economic gates on.             *)
LEMMA ReliabilityType ==
  ASSUME NEW c, Candidate(c), NEW r, Result3(c, r)
  PROVE  Result4(c, Reliability(c, r)) /\ Inherited(Reliability(c, r), r)
<1> DEFINE
      severity == Contradiction(c)
      cause    == IF severity >= 60 THEN "CONFLICTING" ELSE r.cause
      external == ExternalCap(c, severity)
      conf     == Clamp(AtMost(r.conf, ConfidenceCap(c, Family(r.name), cause))
                        - AtMost(25, Pct(18 * severity)))
      d     == [contradiction |-> severity, cause |-> cause, external |-> external,
                conf |-> conf] ++ r
      u     == Uncertainty(c, d, Family(d.name))
      s     == Scenarios(d, u)
      score == [n \in DOMAIN s |-> ScenarioScore(c, d, s[n], Balanced, s[n].conf)]
      final == Conservative(c, d.conf, d.contradiction, score)
      fresh == ReliabilityGates(c, Family(d.name), s, score, d.contradiction, final)
      gates == fresh ++ d.gates
      pass  == Severe(d) \/ d.contradiction >= 75 \/ final < 40
      g     == Gated(d, final, gates, pass, 48)
      left  == IF Filed(c.fund) THEN d.conf ELSE AtLeast(0, d.conf - 12)
      new   == [scenarios |-> s, conf |-> left]
      b     == new ++ g
<1>1. Reliability(c, r) = b
  BY DEF Reliability, Contested, Doubted, Relevant, Spanned, Stressed, ReliabilityResult
<1>2. severity \in Points /\ external \in Points
  BY ContradictionType, CapTypes
<1>3. cause \in Causes
  BY DEF Result3, Result, Parts, Causes
<1>4. conf \in Points
  <2> DEFINE most == ConfidenceCap(c, Family(r.name), cause)
  <2> HIDE DEF cause
  <2>1. most \in Int /\ r.conf \in Int /\ severity \in Int
    BY <1>2, CapTypes, PointIs DEF Result3, Result, Parts, PartNames
  <2> HIDE DEF most, severity
  <2>2. AtMost(r.conf, most) \in Int
    BY <2>1, TwoFigures
  <2>3. Pct(18 * severity) \in Int
    BY <2>1, PctIsWhole
  <2>4. AtMost(25, Pct(18 * severity)) \in Int
    BY <2>3, TwoFigures
  <2>5. AtMost(r.conf, most) - AtMost(25, Pct(18 * severity)) \in Int
    BY <2>2, <2>4
  <2> QED
    BY <2>5, ClampIsPoint DEF most
<1> HIDE DEF severity, cause, external, conf
<1>5. /\ Result3(c, d) /\ d.gates = r.gates /\ d.contradiction = severity
      /\ d.external = external /\ {"contradiction", "external"} \subseteq DOMAIN d
  BY <1>2, <1>3, <1>4, DoubtedType
<1> HIDE DEF d
<1>6. Parts3(c, d) /\ Parts(c, d) /\ d.conf \in Points /\ d.damage \in Points
      /\ d.cause \in Causes /\ d.contradiction \in Points /\ d.external \in Points
  BY <1>2, <1>5 DEF Result3, Parts3, Parts2, Parts, PartNames
<1>7. DOMAIN u = Six /\ Figures(u)
  BY <1>6, UncertaintyIsWhole
<1> HIDE DEF u
<1>8. /\ DOMAIN s = ScenarioNames /\ \A n \in ScenarioNames : Scene(s[n])
      /\ d.conf <= 64 => \A n \in {"evidence_downside", "joint_downside"} : s[n].conf <= 54
      /\ \A n \in Downside : d.tail <= s[n].tail
  BY <1>6, <1>7, ScenariosType
<1> HIDE DEF s
<1>9. \A n \in Downside : score[n] \in Points
  <2> SUFFICES ASSUME NEW n \in Downside PROVE score[n] \in Points
    OBVIOUS
  <2>1. n \in DOMAIN s /\ Scene(s[n]) /\ s[n].conf \in Points
    BY <1>8 DEF ScenarioNames, Scene
  <2>2. Weighting(Balanced)
    BY <1>6, ComponentsType
  <2>3. ScenarioScore(c, d, s[n], Balanced, s[n].conf) \in Points
    BY <1>6, <2>1, <2>2, ScenarioScoreType
  <2> QED
    BY <2>1, <2>3
<1> HIDE DEF score
<1>10. final \in Points
  BY <1>6, <1>9, ConservativeType
<1> HIDE DEF final
<1>11. DOMAIN fresh = {"conservative_opportunity_threshold", "score_stability",
         "stress_gate_pass_rate", "no_material_evidence_contradiction",
         "causal_evidence_independence", "execution_friction", "not_extreme_microcap"}
  BY DEF ReliabilityGates
<1> HIDE DEF fresh
<1>12. EconomicGateNames \subseteq DOMAIN gates
       /\ \A n \in EconomicGateNames : gates[n] = r.gates[n]
  <2>1. Over(gates, fresh, d.gates)
    BY Merged
  <2> HIDE DEF gates
  <2>2. EconomicGateNames \subseteq DOMAIN d.gates
    BY <1>5 DEF Result3, Kept
  <2>3. \A n \in EconomicGateNames : n \notin DOMAIN fresh
    BY <1>11 DEF EconomicGateNames
  <2> QED
    BY <1>5, <2>1, <2>2, <2>3 DEF Over
<1> HIDE DEF gates, pass
<1>13. /\ Result(c, g) /\ {"score", "verdict", "gates"} \subseteq DOMAIN g /\ DOMAIN d \subseteq DOMAIN g
       /\ g.gates = gates /\ \A k \in DOMAIN d \ {"score", "verdict", "gates"} : g[k] = d[k]
  BY <1>6, <1>10, GatedType
<1> HIDE DEF g
<1>14. left \in Points
  <2>1. d.conf \in Int /\ d.conf <= 100
    BY <1>6, PointIs
  <2>2. AtLeast(0, d.conf - 12) \in Points
    BY <2>1, TwoFigures, PointIs
  <2> QED
    BY <1>6, <2>2
<1>15. DOMAIN new = {"scenarios", "conf"} /\ new.scenarios = s /\ new.conf = left
  OBVIOUS
<1>16. Filed(c.fund) => left = d.conf
  OBVIOUS
<1> HIDE DEF left, new
<1>17. Over(b, new, g)
  BY Merged
<1> HIDE DEF b
<1>18. Parts(c, b)
  BY <1>13, <1>14, <1>15, <1>17 DEF Over, Result, Parts, PartNames
<1>19. Result(c, b) /\ "gates" \in DOMAIN b /\ b.gates = gates
  BY <1>13, <1>15, <1>17, <1>18 DEF Over, Result
<1>20. \A k \in DOMAIN d \ {"score", "verdict", "gates", "scenarios", "conf"} :
         k \in DOMAIN b /\ b[k] = d[k]
  BY <1>13, <1>15, <1>17 DEF Over
<1>21. Parts2(c, b)
  BY <1>6, <1>18, <1>20 DEF Parts2, Parts3
<1>22. Parts3(c, b)
  BY <1>6, <1>20, <1>21 DEF Parts3
<1>23. b.surv = d.surv /\ b.damage = d.damage /\ b.tail = d.tail
  BY <1>6, <1>20 DEF Parts3, Parts, PartNames
<1>24. Inherited(b, r)
  BY <1>12, <1>19 DEF Inherited
<1>25. Kept(c, b)
  <2>1. Inherited(b, d)
    BY <1>5, <1>24 DEF Inherited
  <2> QED
    BY <1>5, <1>23, <2>1, KeptPasses DEF Result3
<1>26. Result3(c, b)
  BY <1>19, <1>22, <1>25 DEF Result3
<1>27. b.scenarios = s /\ b.conf = left /\ "scenarios" \in DOMAIN b
  BY <1>15, <1>17 DEF Over
<1>28. Stress(c, b)
  <2>1. {"contradiction", "external"} \subseteq DOMAIN b /\ b.contradiction = d.contradiction
        /\ b.external = d.external
    BY <1>5, <1>20
  <2> QED
    BY <1>6, <1>8, <1>23, <1>27, <2>1 DEF Stress
<1>29. Filed(c.fund) /\ b.conf <= 64 =>
         \A n \in {"evidence_downside", "joint_downside"} : b.scenarios[n].conf <= 54
  BY <1>8, <1>16, <1>27
<1>30. Result4(c, b)
  BY <1>26, <1>28, <1>29 DEF Result4
<1> QED
  BY <1>1, <1>24, <1>30, SMTT(60) DEF b

-----------------------------------------------------------------------------
(* The grid, and the lowest of its scores                                   *)

(* The k-th lowest of k scores or more is one of them, reached by k of them *)
(* and with fewer than k below it.                                          *)
LEMMA NthIs ==
  ASSUME NEW D, IsFiniteSet(D), NEW scores, DOMAIN scores = D, \A m \in D : scores[m] \in Points,
         NEW k \in Nat, 1 <= k, k <= Cardinality(D)
  PROVE  /\ \E m \in D : Nth(scores, k) = scores[m]
         /\ Cardinality({m \in D : scores[m] < Nth(scores, k)}) < k
<1> DEFINE image   == {scores[m] : m \in D}
           upTo(v) == {m \in D : scores[m] <= v}
           V       == {v \in image : Cardinality(upTo(v)) >= k}
           under(v) == {m \in D : scores[m] < v}
<1>1. \A v : IsFiniteSet(upTo(v)) /\ Cardinality(upTo(v)) \in Nat
  <2> TAKE v
  <2>1. upTo(v) \in SUBSET D
    OBVIOUS
  <2> HIDE DEF upTo
  <2>2. IsFiniteSet(upTo(v))
    BY <2>1, FS_Subset
  <2> QED
    BY <2>2, FS_CardinalityType
<1>2. D # {}
  BY FS_EmptySet
<1>3. image \in SUBSET Points /\ image # {}
  BY <1>2
<1>4. \A v \in image : v \in Int
  BY <1>3, PointIs
<1>5. \A m \in D : scores[m] \in Int /\ scores[m] \in image
  BY PointIs
<1>6. V # {}
  <2> DEFINE top == Max(image)
  <2>1. top \in image /\ \A v \in image : v <= top
    <3> HIDE DEF image
    <3> QED
      BY <1>3, PointMax
  <2> HIDE DEF top
  <2>2. upTo(top) = D
    BY <2>1
  <2>3. Cardinality(upTo(top)) >= k
    BY <2>2
  <2> QED
    BY <2>1, <2>3
<1>7. PICK v \in V : \A w \in V : v <= w
  <2>1. V \in SUBSET Points
    BY <1>3
  <2> HIDE DEF V
  <2>2. Min(V) \in V /\ \A w \in V : Min(V) <= w
    BY <1>6, <2>1, PointMin
  <2> QED
    BY <2>2
<1>8. v \in image /\ Cardinality(upTo(v)) >= k
  OBVIOUS
<1>9. Cardinality(under(v)) < k
  <2>1. CASE under(v) = {}
    BY <2>1, FS_EmptySet
  <2>2. CASE under(v) # {}
    <3> DEFINE low == {scores[m] : m \in under(v)}
               w   == Max(low)
    <3>1. low \in SUBSET Points /\ low # {}
      BY <2>2
    <3>2. w \in low /\ \A x \in low : x <= w
      <4> HIDE DEF low
      <4> QED
        BY <3>1, PointMax
    <3> HIDE DEF w
    <3>3. w \in image /\ w < v
      BY <3>2
    <3>4. w \in Int /\ v \in Int
      BY <1>4, <1>8, <3>3
    <3>5. upTo(w) = under(v)
      <4>1. \A m \in under(v) : scores[m] <= w
        BY <3>2
      <4>2. \A m \in D : scores[m] <= w => scores[m] < v
        BY <1>5, <3>3, <3>4
      <4> QED
        BY <4>1, <4>2
    <3>6. w \notin V
      <4>1. w \in V => v <= w
        BY <1>7
      <4> HIDE DEF V
      <4> QED
        BY <3>3, <3>4, <4>1
    <3>7. ~(Cardinality(upTo(w)) >= k)
      BY <3>3, <3>6
    <3> HIDE DEF upTo, under
    <3>8. Cardinality(upTo(w)) < k
      BY <1>1, <3>7
    <3> QED
      BY <3>5, <3>8
  <2> QED
    BY <2>1, <2>2
<1>10. Nth(scores, k) = CHOOSE x \in image : Cardinality(upTo(x)) >= k /\ Cardinality(under(x)) < k
  BY DEF Nth
<1> DEFINE n == CHOOSE x \in image : Cardinality(upTo(x)) >= k /\ Cardinality(under(x)) < k
<1>11. n \in image /\ Cardinality(under(n)) < k
  <2> HIDE DEF image, upTo, under
  <2> QED
    BY <1>8, <1>9
<1> HIDE DEF n
<1>12. n = Nth(scores, k)
  BY <1>10 DEF n
<1> QED
  BY <1>11, <1>12

(* k scores that are no more than x keep the k-th lowest there.             *)
LEMMA NthBound ==
  ASSUME NEW D, IsFiniteSet(D), NEW scores, DOMAIN scores = D, \A m \in D : scores[m] \in Points,
         NEW k \in Nat, 1 <= k, k <= Cardinality(D), NEW x \in Int,
         NEW L \in SUBSET D, k <= Cardinality(L), \A m \in L : scores[m] <= x
  PROVE  Nth(scores, k) <= x
<1> DEFINE n == Nth(scores, k)
           under == {m \in D : scores[m] < n}
<1>1. (\E m \in D : n = scores[m]) /\ Cardinality(under) < k
  BY NthIs
<1>2. n \in Int /\ \A m \in D : scores[m] \in Int
  BY <1>1, PointIs
<1> HIDE DEF n
<1> SUFFICES ASSUME ~(n <= x) PROVE FALSE
  BY DEF n
<1>3. L \in SUBSET under
  <2>1. \A m \in L : scores[m] < n
    BY <1>2
  <2> QED
    BY <2>1
<1>4. IsFiniteSet(under)
  BY FS_Subset
<1> HIDE DEF under
<1>5. Cardinality(L) <= Cardinality(under) /\ Cardinality(L) \in Nat /\ Cardinality(under) \in Nat
  BY <1>3, <1>4, FS_Subset, FS_CardinalityType
<1> QED
  BY <1>1, <1>5

(* Adding a new member to a finite set.                                     *)
LEMMA OneMore ==
  ASSUME NEW S, IsFiniteSet(S), NEW n \in Nat, Cardinality(S) = n, NEW x, x \notin S
  PROVE  IsFiniteSet(S \cup {x}) /\ Cardinality(S \cup {x}) = n + 1
BY FS_AddElement

(* The weightings are seven, the scenarios of the downside five.            *)
LEMMA GridSides ==
  /\ IsFiniteSet(Downside) /\ Cardinality(Downside) = 5
  /\ IsFiniteSet(DOMAIN WeightSets) /\ Cardinality(DOMAIN WeightSets) = 7
  /\ IsFiniteSet({"evidence_downside", "joint_downside"})
  /\ Cardinality({"evidence_downside", "joint_downside"}) = 2
<1> DEFINE a == {"evidence_downside"}
           b == a \cup {"joint_downside"}
           d == b \cup {"base_reliable"}
           e == d \cup {"financial_downside"}
           f == e \cup {"timing_downside"}
<1>1. IsFiniteSet(a) /\ Cardinality(a) = 1
  BY FS_Singleton
<1>2. IsFiniteSet(b) /\ Cardinality(b) = 2
  BY <1>1, OneMore
<1>3. IsFiniteSet(d) /\ Cardinality(d) = 3
  BY <1>2, OneMore
<1>4. IsFiniteSet(e) /\ Cardinality(e) = 4
  BY <1>3, OneMore
<1>5. IsFiniteSet(f) /\ Cardinality(f) = 5
  BY <1>4, OneMore
<1>6. Downside = f /\ b = {"evidence_downside", "joint_downside"}
  BY DEF Downside
<1> DEFINE w1 == {"balanced"}
           w2 == w1 \cup {"economic_damage_focus"}
           w3 == w2 \cup {"survival_focus"}
           w4 == w3 \cup {"reversibility_focus"}
           w5 == w4 \cup {"timing_focus"}
           w6 == w5 \cup {"confirmation_focus"}
           w7 == w6 \cup {"technical_light"}
<1>7. IsFiniteSet(w1) /\ Cardinality(w1) = 1
  BY FS_Singleton
<1>8. IsFiniteSet(w2) /\ Cardinality(w2) = 2
  BY <1>7, OneMore
<1>9. IsFiniteSet(w3) /\ Cardinality(w3) = 3
  BY <1>8, OneMore
<1>10. IsFiniteSet(w4) /\ Cardinality(w4) = 4
  BY <1>9, OneMore
<1>11. IsFiniteSet(w5) /\ Cardinality(w5) = 5
  BY <1>10, OneMore
<1>12. IsFiniteSet(w6) /\ Cardinality(w6) = 6
  BY <1>11, OneMore
<1>13. IsFiniteSet(w7) /\ Cardinality(w7) = 7
  BY <1>12, OneMore
<1>14. DOMAIN WeightSets = w7
  BY DEF WeightSets
<1> QED
  BY <1>2, <1>5, <1>6, <1>13, <1>14

(* The grid has 35 points, 14 of them under less confidence.                *)
Doubtful == {"evidence_downside", "joint_downside"} \X DOMAIN WeightSets

(* So it has.                                                               *)
LEMMA GridIs ==
  /\ IsFiniteSet(Grid) /\ Cardinality(Grid) = 35
  /\ Doubtful \in SUBSET Grid /\ Cardinality(Doubtful) = 14
<1>1. IsFiniteSet(Grid) /\ Cardinality(Grid) = 35
  BY GridSides, FS_Product DEF Grid
<1>2. Cardinality(Doubtful) = 14
  BY GridSides, FS_Product, SMTT(60) DEF Doubtful
<1>3. Doubtful \in SUBSET Grid
  BY DEF Doubtful, Grid, Downside
<1> QED
  BY <1>1, <1>2, <1>3

(* Every weighting of the grid is one.                                      *)
LEMMA WeightSetsType == \A n \in DOMAIN WeightSets : Weighting(WeightSets[n])
<1>1. /\ Weighting(Weights(31, 22, 24, 13, 7, 3)) /\ Weighting(Weights(24, 18, 31, 14, 9, 4))
      /\ Weighting(Weights(25, 30, 20, 14, 8, 3)) /\ Weighting(Weights(24, 19, 18, 27, 9, 3))
      /\ Weighting(Weights(25, 20, 19, 15, 17, 4)) /\ Weighting(Weights(30, 24, 22, 15, 7, 2))
  BY DEF Weighting, Weights, Six
<1>2. Weighting(Balanced)
  BY DEF Weighting, Balanced, Six
<1> QED
  BY <1>1, <1>2 DEF WeightSets

(* The lower quartile of a grid of points is a point, one of them reaches   *)
(* it, and fourteen that are no more than x keep it there.                  *)
LEMMA QuartileIs ==
  ASSUME NEW scores, DOMAIN scores = Grid, \A m \in Grid : scores[m] \in Points
  PROVE  /\ LowerQuartile(scores) \in Points
         /\ \E m \in Grid : LowerQuartile(scores) <= scores[m]
         /\ \A x \in Int : (\A m \in Doubtful : scores[m] <= x) => LowerQuartile(scores) <= x
<1> DEFINE p == Nth(scores, 9)
           q == Nth(scores, 10)
<1>1. (\E m \in Grid : p = scores[m]) /\ (\E m \in Grid : q = scores[m])
  <2>1. \A k \in Nat : 1 <= k /\ k <= 35 => \E m \in Grid : Nth(scores, k) = scores[m]
    <3> TAKE k \in Nat
    <3> HAVE 1 <= k /\ k <= 35
    <3>1. IsFiniteSet(Grid) /\ k <= Cardinality(Grid)
      BY GridIs
    <3>2. \A D : /\ IsFiniteSet(D) /\ DOMAIN scores = D /\ k <= Cardinality(D)
                 /\ \A m \in D : scores[m] \in Points
                 => \E m \in D : Nth(scores, k) = scores[m]
      BY NthIs
    <3> QED
      BY <3>1, <3>2
  <2>2. \E m \in Grid : p = scores[m]
    BY <2>1
  <2>3. \E m \in Grid : q = scores[m]
    BY <2>1
  <2> QED
    BY <2>2, <2>3
<1>2. \A x \in Int : (\A m \in Doubtful : scores[m] <= x) => p <= x /\ q <= x
  <2> SUFFICES ASSUME NEW x \in Int, \A m \in Doubtful : scores[m] <= x PROVE p <= x /\ q <= x
    OBVIOUS
  <2>1. p <= x
    BY GridIs, NthBound
  <2>2. q <= x
    BY GridIs, NthBound
  <2> QED
    BY <2>1, <2>2
<1>3. LowerQuartile(scores) = (p + q) \div 2
  BY DEF LowerQuartile
<1> HIDE DEF p, q
<1>4. p \in Int /\ 0 <= p /\ p <= 100 /\ q \in Int /\ 0 <= q /\ q <= 100
  BY <1>1, PointIs
<1>5. (p + q) \div 2 \in Int /\ 0 <= (p + q) \div 2 /\ (p + q) \div 2 <= 100
      /\ ((p + q) \div 2 <= p \/ (p + q) \div 2 <= q)
  BY <1>4
<1>6. \A x \in Int : p <= x /\ q <= x => (p + q) \div 2 <= x
  BY <1>4
<1>7. LowerQuartile(scores) \in Points
  BY <1>3, <1>5, PointIs
<1> QED
  BY <1>1, <1>2, <1>3, <1>5, <1>6, <1>7

-----------------------------------------------------------------------------
(* v3.5                                                                     *)

(* The limit of v3.5 is a point, and a low one on a gross contradiction.    *)
LEMMA RobustLimitType ==
  ASSUME NEW r, NEW m
  PROVE  RobustLimit(r, m) \in Points /\ (r.contradiction >= 75 => RobustLimit(r, m) <= 30)
<1> DEFINE S == {Cap(m.count < 2, 60), Cap(m.aligned < 40, 45), Cap(m.aligned < 60, 65),
       Cap(r.critical /\ m.quality < 40, 45), Cap(r.critical /\ m.quality < 60, 60),
       Cap(m.wobble > 100, 55), Cap(m.depends > 20, 60),
       Cap(r.contradiction >= 75, 30), Cap(r.contradiction >= 50, 50)}
<1>1. S \in SUBSET Points /\ S # {}
  <2>1. 60 \in Points /\ 45 \in Points /\ 65 \in Points /\ 55 \in Points /\ 30 \in Points
        /\ 50 \in Points /\ 100 \in Points
    BY PointIs
  <2> QED
    BY <2>1 DEF Cap
<1>2. r.contradiction >= 75 => 30 \in S
  BY DEF Cap
<1>3. RobustLimit(r, m) = Min(S)
  BY DEF RobustLimit
<1> HIDE DEF S
<1>4. Min(S) \in Points /\ \A x \in S : Min(S) <= x
  BY <1>1, PointMin
<1> QED
  BY <1>2, <1>3, <1>4

(* With two origins, one of them filed or both strong, the cap is far above *)
(* the confidence that the gates ask for.                                   *)
LEMMA ClusterCapType ==
  ASSUME NEW c, NEW family
  PROVE  /\ ClusterCap(c, family) \in Points
         /\ /\ Cardinality(Origins(c, family)) >= 2
            /\ \/ PrimaryOrigins(c, family) # {}
               \/ Cardinality(StrongOrigins(c, family)) >= 2
            => ClusterCap(c, family) > 64
<1>1. ClusterCap(c, family) \in {45, 78, 62, 96, 92, 82, 70}
  BY DEF ClusterCap
<1>2. ASSUME Cardinality(Origins(c, family)) >= 2,
             PrimaryOrigins(c, family) # {} \/ Cardinality(StrongOrigins(c, family)) >= 2
      PROVE  ClusterCap(c, family) \in {96, 92, 82}
  <2>1. Cardinality(Origins(c, family)) # 0 /\ Cardinality(Origins(c, family)) # 1
    BY <1>2
  <2> QED
    BY <1>2, <2>1 DEF ClusterCap
<1> QED
  BY <1>1, <1>2, PointIs

(* What the gates of v3.5 say that v3.9 keeps.                              *)
Provenance(c, r) ==
  /\ {"no_material_evidence_contradiction", "causal_provenance_independence"} \subseteq DOMAIN r.gates
  /\ r.gates.no_material_evidence_contradiction => r.contradiction < 50
  /\ r.gates.causal_provenance_independence =>
       /\ Origins(c, Family(r.name)) # {}
       /\ Filed(c.fund) /\ r.conf <= 64 =>
            \A n \in {"evidence_downside", "joint_downside"} : r.scenarios[n].conf <= 54

(* The result of v3.5.                                                      *)
Result5(c, r) ==
  /\ Result3(c, r) /\ Stress(c, r) /\ Provenance(c, r)
  /\ "limit" \in DOMAIN r /\ r.limit \in Points
  /\ r.contradiction >= 75 => r.limit <= 30

(* The gates of v3.5 keep the economic ones and bring two that count here.  *)
FreshGates(c, r, family, m, gates) ==
  /\ EconomicGateNames \subseteq DOMAIN gates
  /\ \A g \in EconomicGateNames : gates[g] = r.gates[g]
  /\ {"no_material_evidence_contradiction", "causal_provenance_independence"} \subseteq DOMAIN gates
  /\ gates.no_material_evidence_contradiction = (r.contradiction < 50)
  /\ gates.causal_provenance_independence =
       (/\ m.count >= 2
        /\ \/ PrimaryOrigins(c, family) # {}
           \/ Cardinality(StrongOrigins(c, family)) >= 2)

(* They are these.                                                          *)
LEMMA RobustGatesIs ==
  ASSUME NEW c, NEW r, EconomicGateNames \subseteq DOMAIN r.gates, NEW family, NEW m, NEW score
  PROVE  FreshGates(c, r, family, m, Aliased(RobustGates(c, r, family, m, score)))
<1> DEFINE
      fresh == [robust_opportunity_threshold |-> score >= 72, ensemble_median |-> m.median >= 75,
        weight_stability |-> m.wobble <= 60, component_independence |-> m.depends <= 15,
        causal_provenance_independence |-> /\ m.count >= 2
          /\ \/ PrimaryOrigins(c, family) # {}
             \/ Cardinality(StrongOrigins(c, family)) >= 2,
        event_cutoff_alignment |-> m.aligned >= 60,
        critical_fundamental_data_quality |-> ~r.critical \/ m.quality >= 60,
        no_material_evidence_contradiction |-> r.contradiction < 50,
        execution_friction |-> Friction(c) <= 150]
      kept  == Keep(r.gates, DOMAIN r.gates \ V34Gates)
      both  == fresh ++ kept
      alias == [causal_evidence_independence |-> both.causal_provenance_independence,
        conservative_opportunity_threshold |-> both.robust_opportunity_threshold,
        score_stability |-> both.weight_stability,
        stress_gate_pass_rate |-> both.ensemble_median /\ both.component_independence,
        not_extreme_microcap |-> TRUE]
      gates == alias ++ both
<1>1. Aliased(RobustGates(c, r, family, m, score)) = gates
  BY DEF Aliased, RobustGates
<1>2. DOMAIN fresh = {"robust_opportunity_threshold", "ensemble_median", "weight_stability",
        "component_independence", "causal_provenance_independence", "event_cutoff_alignment",
        "critical_fundamental_data_quality", "no_material_evidence_contradiction",
        "execution_friction"}
  OBVIOUS
<1>3. fresh.no_material_evidence_contradiction = (r.contradiction < 50)
  OBVIOUS
<1>4. fresh.causal_provenance_independence =
        (/\ m.count >= 2
         /\ \/ PrimaryOrigins(c, family) # {}
            \/ Cardinality(StrongOrigins(c, family)) >= 2)
  OBVIOUS
<1> HIDE DEF fresh
<1>5. \A g \in EconomicGateNames : g \in DOMAIN kept /\ kept[g] = r.gates[g]
  BY DEF Keep, V34Gates, EconomicGateNames
<1> HIDE DEF kept
<1>6. Over(both, fresh, kept)
  BY Merged
<1> HIDE DEF both
<1>7. DOMAIN alias = {"causal_evidence_independence", "conservative_opportunity_threshold",
        "score_stability", "stress_gate_pass_rate", "not_extreme_microcap"}
  OBVIOUS
<1> HIDE DEF alias
<1>8. Over(gates, alias, both)
  BY Merged
<1> HIDE DEF gates
<1>9. \A g \in EconomicGateNames : g \notin DOMAIN fresh /\ g \notin DOMAIN alias
  BY <1>2, <1>7 DEF EconomicGateNames
<1>10. EconomicGateNames \subseteq DOMAIN gates /\ \A g \in EconomicGateNames : gates[g] = r.gates[g]
  BY <1>5, <1>6, <1>8, <1>9 DEF Over
<1>11. /\ {"no_material_evidence_contradiction", "causal_provenance_independence"}
             \subseteq DOMAIN gates
       /\ gates.no_material_evidence_contradiction = fresh.no_material_evidence_contradiction
       /\ gates.causal_provenance_independence = fresh.causal_provenance_independence
  BY <1>2, <1>6, <1>7, <1>8 DEF Over
<1>12. gates.no_material_evidence_contradiction = (r.contradiction < 50)
  BY <1>3, <1>11
<1>13. gates.causal_provenance_independence =
        (/\ m.count >= 2
         /\ \/ PrimaryOrigins(c, family) # {}
            \/ Cardinality(StrongOrigins(c, family)) >= 2)
  BY <1>4, <1>11
<1> QED
  BY <1>1, <1>10, <1>11, <1>12, <1>13 DEF FreshGates

(* The result of v3.5 is one, and passes the economic gates on.             *)
LEMMA RobustnessType ==
  ASSUME NEW c, Candidate(c), NEW r, Result4(c, r)
  PROVE  Result5(c, Robustness(c, r)) /\ Inherited(Robustness(c, r), r)
<1> DEFINE
      family  == Family(r.name)
      cap     == ClusterCap(c, family)
      robust  == AtMost(r.conf, cap)
      conf    == [n \in DOMAIN r.scenarios |->
                    IF r.scenarios[n].conf = 0 THEN robust
                    ELSE AtMost(robust, r.scenarios[n].conf)]
      members == [m \in Grid |-> ScenarioScore(c, r, r.scenarios[m[1]], WeightSets[m[2]], conf[m[1]])]
      meas    == Measures(c, r, family, robust, conf, members)
      limit   == RobustLimit(r, meas)
      score   == AtMost(AtLeast(0, meas.quartile - FrictionPenalty(c)), limit)
      gates   == Aliased(RobustGates(c, r, family, meas, score))
      pass    == Severe(r) \/ r.contradiction >= 75 \/ score < 40
      g       == Gated(r, score, gates, pass, 48)
      new     == [conf |-> meas.conf, limit |-> limit]
      b       == new ++ g
<1>1. Robustness(c, r) = b
  BY DEF Robustness, Clustered, Weighed, Measured, Limited, RobustResult
<1>2. /\ Result3(c, r) /\ Stress(c, r) /\ Parts3(c, r) /\ Parts(c, r)
      /\ r.conf \in Points /\ r.damage \in Points /\ r.cause \in Causes /\ r.external \in Points
      /\ r.contradiction \in Points /\ "name" \in DOMAIN r
  BY DEF Result4, Result3, Stress, Parts3, Parts2, Parts, PartNames
<1>3. cap \in Points
  BY ClusterCapType
<1> HIDE DEF cap
<1>4. robust \in Points
  BY <1>2, <1>3, TwoFigures, PointIs
<1>5. robust <= 64 /\ cap > 64 => r.conf <= 64
  BY <1>2, <1>3, TwoFigures, PointIs
<1> HIDE DEF robust
<1>6. DOMAIN r.scenarios = ScenarioNames /\ \A n \in ScenarioNames : Scene(r.scenarios[n])
  BY <1>2 DEF Stress
<1>7. \A n \in ScenarioNames : conf[n] \in Points
  <2> SUFFICES ASSUME NEW n \in ScenarioNames PROVE conf[n] \in Points
    OBVIOUS
  <2>1. r.scenarios[n].conf \in Points
    BY <1>6 DEF Scene
  <2>2. AtMost(robust, r.scenarios[n].conf) \in Points
    BY <1>4, <2>1, TwoFigures, PointIs
  <2> QED
    BY <1>4, <1>6, <2>2
<1> HIDE DEF conf
<1>8. DOMAIN members = Grid /\ \A m \in Grid : members[m] \in Points
  <2>1. ASSUME NEW m \in Grid PROVE members[m] \in Points
    <3>1. m[1] \in ScenarioNames /\ m[2] \in DOMAIN WeightSets
      BY DEF Grid, ScenarioNames
    <3>2. Scene(r.scenarios[m[1]]) /\ conf[m[1]] \in Points /\ Weighting(WeightSets[m[2]])
      BY <1>6, <1>7, <3>1, WeightSetsType
    <3>3. ScenarioScore(c, r, r.scenarios[m[1]], WeightSets[m[2]], conf[m[1]]) \in Points
      BY <1>2, <3>2, ScenarioScoreType
    <3> QED
      BY <3>3
  <2> QED
    BY <2>1
<1> HIDE DEF members
<1>9. meas.conf = robust /\ meas.quartile \in Points
      /\ meas.count = Cardinality(Origins(c, family))
  BY <1>8, QuartileIs DEF Measures
<1> HIDE DEF meas
<1>10. limit \in Points /\ (r.contradiction >= 75 => limit <= 30)
  BY RobustLimitType
<1> HIDE DEF limit
<1>11. score \in Points
  <2> DEFINE left == AtLeast(0, meas.quartile - FrictionPenalty(c))
  <2>1. meas.quartile \in Int /\ meas.quartile <= 100
    BY <1>9, PointIs
  <2>2. meas.quartile - FrictionPenalty(c) \in Int /\ meas.quartile - FrictionPenalty(c) <= 100
    BY <2>1, FrictionType
  <2>3. left \in Points
    BY <2>2, TwoFigures, PointIs
  <2> HIDE DEF left
  <2>4. AtMost(left, limit) \in Points
    BY <1>10, <2>3, TwoFigures, PointIs
  <2> QED
    BY <2>4 DEF left
<1> HIDE DEF score
<1>12. FreshGates(c, r, family, meas, gates)
  <2>1. EconomicGateNames \subseteq DOMAIN r.gates
    BY <1>2 DEF Result3, Kept
  <2> QED
    BY <2>1, RobustGatesIs
<1> HIDE DEF gates, pass
<1>13. /\ Result(c, g) /\ {"score", "verdict", "gates"} \subseteq DOMAIN g /\ DOMAIN r \subseteq DOMAIN g
       /\ g.gates = gates /\ \A k \in DOMAIN r \ {"score", "verdict", "gates"} : g[k] = r[k]
  BY <1>2, <1>11, GatedType
<1> HIDE DEF g
<1>14. DOMAIN new = {"conf", "limit"} /\ new.conf = robust /\ new.limit = limit
  BY <1>9
<1> HIDE DEF new
<1>15. Over(b, new, g)
  BY Merged
<1> HIDE DEF b
<1>16. \A k \in DOMAIN r \ {"score", "verdict", "gates", "limit", "conf"} :
         k \in DOMAIN b /\ b[k] = r[k]
  BY <1>13, <1>14, <1>15 DEF Over
<1>17. /\ b.conf = robust /\ b.limit = limit /\ "limit" \in DOMAIN b
       /\ "gates" \in DOMAIN b /\ b.gates = gates
  BY <1>13, <1>14, <1>15 DEF Over
<1>18. Parts(c, b)
  BY <1>4, <1>13, <1>14, <1>15 DEF Over, Result, Parts, PartNames
<1>19. Result(c, b)
  BY <1>13, <1>14, <1>15, <1>18 DEF Over, Result
<1>20. Parts2(c, b)
  BY <1>2, <1>16, <1>18 DEF Parts2, Parts3
<1>21. Parts3(c, b)
  BY <1>2, <1>16, <1>20 DEF Parts3
<1>22. b.surv = r.surv /\ b.damage = r.damage /\ b.tail = r.tail /\ b.name = r.name
  BY <1>2, <1>16 DEF Parts3, Parts, PartNames
<1>23. Inherited(b, r)
  BY <1>12, <1>17 DEF Inherited, FreshGates
<1>24. Kept(c, b)
  BY <1>2, <1>22, <1>23, KeptPasses DEF Result3
<1>25. Result3(c, b)
  BY <1>17, <1>19, <1>21, <1>24 DEF Result3
<1>26. /\ b.contradiction = r.contradiction /\ b.external = r.external
       /\ b.scenarios = r.scenarios
       /\ {"contradiction", "external", "scenarios"} \subseteq DOMAIN b
  BY <1>2, <1>16 DEF Stress
<1>27. Stress(c, b)
  BY <1>2, <1>22, <1>26 DEF Stress
<1>28. b.gates.no_material_evidence_contradiction => b.contradiction < 50
  BY <1>12, <1>17, <1>26 DEF FreshGates
<1>29. ASSUME b.gates.causal_provenance_independence
       PROVE  /\ Origins(c, family) # {}
              /\ Filed(c.fund) /\ b.conf <= 64 =>
                   \A n \in {"evidence_downside", "joint_downside"} : b.scenarios[n].conf <= 54
  <2>1. /\ Cardinality(Origins(c, family)) >= 2
        /\ PrimaryOrigins(c, family) # {} \/ Cardinality(StrongOrigins(c, family)) >= 2
    BY <1>9, <1>12, <1>17, <1>29 DEF FreshGates
  <2>2. Origins(c, family) # {}
    BY <2>1, FS_EmptySet
  <2>3. cap > 64
    BY <2>1, ClusterCapType DEF cap
  <2> QED
    BY <1>5, <1>17, <1>26, <2>2, <2>3 DEF Result4
<1>30. Provenance(c, b)
  BY <1>12, <1>17, <1>22, <1>28, <1>29 DEF Provenance, FreshGates
<1>31. Result5(c, b)
  BY <1>10, <1>17, <1>25, <1>26, <1>27, <1>30 DEF Result5
<1> QED
  BY <1>1, <1>23, <1>31, SMTT(60) DEF b

-----------------------------------------------------------------------------
(* v3.9                                                                     *)

(* The smallest of three figures.                                           *)
LEMMA ThreeFigures ==
  ASSUME NEW a \in Int, NEW b \in Int, NEW d \in Int
  PROVE  Min({a, b, d}) \in Int /\ Min({a, b, d}) <= a /\ Min({a, b, d}) <= b /\ Min({a, b, d}) <= d
BY DEF Min

(* What a score of v3.9 vouches for, and the gates of its own.              *)
Vouched(c, a) ==
  /\ {"robust_opportunity_threshold", "execution_input_integrity"} \subseteq DOMAIN a.gates
  /\ a.gates.robust_opportunity_threshold => a.score >= 72
  /\ a.gates.execution_input_integrity => c.quote \in {"absent", "observed"}
  /\ a.score >= 48 => ~Severe(a) /\ a.class # "capital_distress" /\ ~(a.contradiction >= 75)
  /\ a.score >= 72 => a.cause = "VERIFIED"
  /\ (\A n \in {"evidence_downside", "joint_downside"} : a.scenarios[n].conf <= 54)
       => a.score <= 70
Result6(c, a) == Result3(c, a) /\ Stress(c, a) /\ Provenance(c, a) /\ Vouched(c, a)

(* A member of the grid is no more than the limit, than what the economics  *)
(* allow under its scenario, and than its discounted mean.                  *)
LEMMA MemberIs ==
  ASSUME NEW c, Candidate(c), NEW limit \in Points, NEW raw \in Int, NEW cap \in Points,
         NEW external \in Points
  PROVE  LET m == AtMost(limit, AtLeast(0, Min({raw, cap, external}) - FrictionPenalty(c)))
         IN m \in Points /\ m <= limit /\ m <= cap /\ (m <= raw \/ m = 0)
<1> DEFINE low  == Min({raw, cap, external})
           left == AtLeast(0, low - FrictionPenalty(c))
<1>1. limit \in Int /\ 0 <= limit /\ limit <= 100 /\ cap \in Int /\ 0 <= cap /\ cap <= 100
      /\ external \in Int
  BY PointIs
<1>2. low \in Int /\ low <= raw /\ low <= cap
  BY <1>1, ThreeFigures
<1>3. FrictionPenalty(c) \in Int /\ 0 <= FrictionPenalty(c)
  BY FrictionType
<1> HIDE DEF low
<1>4. left \in Int /\ 0 <= left /\ left <= cap /\ (left <= raw \/ left = 0)
  BY <1>1, <1>2, <1>3, TwoFigures
<1> HIDE DEF left
<1>5. AtMost(limit, left) = IF limit <= left THEN limit ELSE left
  BY <1>1, <1>4, TwoFigures
<1>6. AtMost(limit, left) \in Points
  BY <1>1, <1>4, <1>5, PointIs
<1>7. AtMost(limit, left) <= limit /\ AtMost(limit, left) <= cap
      /\ (AtMost(limit, left) <= raw \/ AtMost(limit, left) = 0)
  BY <1>1, <1>4, <1>5
<1> QED
  BY <1>6, <1>7 DEF left, low

(* Its members are points; 48 of them vouches for the candidate, 72 for its *)
(* cause.                                                                   *)
LEMMA MembersType ==
  ASSUME NEW c, Candidate(c), NEW r, Result5(c, r), NEW m \in Grid
  PROVE  LET v == AuditedMembers(c, r, AuditedRaw(r))[m]
         IN /\ v \in Points
            /\ v >= 48 => ~Severe(r) /\ r.class # "capital_distress" /\ ~(r.contradiction >= 75)
            /\ v >= 72 => r.cause = "VERIFIED"
            /\ r.scenarios[m[1]].conf <= 54 => v <= 70
<1> DEFINE s    == r.scenarios[m[1]]
           conf == AtMost(r.conf, s.conf)
           raw  == Discounted(s.values, WeightSets[m[2]], conf, s.tail)
           cap  == EconomicCap(c, r, s.tail)
           v    == AtMost(r.limit, AtLeast(0, Min({raw, cap, r.external}) - FrictionPenalty(c)))
<1>1. AuditedMembers(c, r, AuditedRaw(r))[m] = v
  BY DEF AuditedMembers, AuditedRaw, AuditedConf
<1>2. m[1] \in Downside /\ m[1] \in ScenarioNames /\ m[2] \in DOMAIN WeightSets
  BY DEF Grid, ScenarioNames
<1>3. /\ r.conf \in Points /\ r.damage \in Points /\ r.cause \in Causes /\ r.tail \in Points
      /\ r.external \in Points /\ r.contradiction \in Points /\ r.limit \in Points
      /\ r.contradiction >= 75 => r.limit <= 30
  BY DEF Result5, Stress, Result3, Parts3, Parts2, Parts, PartNames
<1>4. Scene(s) /\ r.tail <= s.tail
  BY <1>2 DEF Result5, Stress
<1> HIDE DEF s
<1>5. s.conf \in Points /\ s.tail \in Points /\ Figures(s.values)
  BY <1>4, PointIs DEF Scene, Figures
<1>6. conf \in Points /\ (s.conf <= 54 => conf <= 54)
  BY <1>3, <1>5, TwoFigures, PointIs
<1> HIDE DEF conf
<1>7. raw \in Int /\ (s.conf <= 54 => raw <= 70)
  BY <1>2, <1>5, <1>6, WeightSetsType, DiscountedType
<1> HIDE DEF raw
<1>8. /\ cap \in Points
      /\ cap >= 48 => ~r.veto /\ r.damage < 65 /\ s.tail < 75 /\ r.class # "capital_distress"
      /\ cap >= 66 => r.cause = "VERIFIED"
  BY <1>3, <1>5, EconomicCapType
<1> HIDE DEF cap
<1>9. v \in Points /\ v <= r.limit /\ v <= cap /\ (v <= raw \/ v = 0)
  BY <1>3, <1>7, <1>8, MemberIs, SMTT(60)
<1> HIDE DEF v
<1>10. /\ v \in Int /\ cap \in Int /\ r.limit \in Int /\ s.tail \in Int /\ r.tail \in Int
       /\ r.damage \in Int /\ r.contradiction \in Int
  BY <1>3, <1>5, <1>8, <1>9, PointIs
<1>11. ASSUME v >= 48
       PROVE  ~Severe(r) /\ r.class # "capital_distress" /\ ~(r.contradiction >= 75)
  <2>1. cap >= 48 /\ ~(r.limit <= 30)
    BY <1>9, <1>10, <1>11
  <2>2. ~r.veto /\ r.damage < 65 /\ s.tail < 75 /\ r.class # "capital_distress"
    BY <1>8, <2>1
  <2>3. ~(r.tail >= 90) /\ ~(r.damage >= 80)
    BY <1>4, <1>10, <2>2
  <2> QED
    BY <1>3, <2>1, <2>2, <2>3 DEF Severe
<1>12. v >= 72 => r.cause = "VERIFIED"
  BY <1>8, <1>9, <1>10
<1>13. s.conf <= 54 => v <= 70
  BY <1>7, <1>9, <1>10
<1> QED
  BY <1>1, <1>9, <1>11, <1>12, <1>13 DEF v, s

(* A quote that the audit accepts is not stale.                              *)
LEMMA QuoteAccepted == ASSUME NEW c, ExecutionInputs(c) PROVE c.quote \in {"absent", "observed"}
BY DEF ExecutionInputs

(* The audited result, and the economic gates it passes on.                 *)
LEMMA AuditedType ==
  ASSUME NEW c, Candidate(c), NEW r, Result5(c, r)
  PROVE  /\ Result6(c, Audited(c, r)) /\ Inherited(Audited(c, r), r)
         /\ DOMAIN r \subseteq DOMAIN Audited(c, r)
         /\ \A k \in DOMAIN r \ {"score", "gates"} : Audited(c, r)[k] = r[k]
<1> DEFINE
      raw     == AuditedRaw(r)
      members == AuditedMembers(c, r, raw)
      score   == LowerQuartile(members)
      a       == Audited(c, r)
<1>1. PICK fresh :
        /\ DOMAIN fresh = {"robust_opportunity_threshold", "ensemble_median", "weight_stability",
             "component_independence", "complete_sensitivity_grid", "execution_input_integrity",
             "execution_friction", "measured_stress_acceptance"}
        /\ fresh.robust_opportunity_threshold = (score >= 72)
        /\ fresh.execution_input_integrity = ExecutionInputs(c)
        /\ a = [score |-> score,
                gates |-> fresh ++ Keep(r.gates, DOMAIN r.gates \ Aliases)] ++ r
  <2> DEFINE new == AuditedGates(c, r, raw, members)
  <2>1. a = [score |-> score,
             gates |-> new ++ Keep(r.gates, DOMAIN r.gates \ Aliases)] ++ r
    BY Zenon DEF Audited, AuditedResult
  <2> HIDE DEF score, a, members, raw
  <2>2. DOMAIN new = {"robust_opportunity_threshold", "ensemble_median", "weight_stability",
          "component_independence", "complete_sensitivity_grid", "execution_input_integrity",
          "execution_friction", "measured_stress_acceptance"}
    BY DEF AuditedGates
  <2>3. new.robust_opportunity_threshold = (LowerQuartile(members) >= 72)
    BY DEF AuditedGates
  <2>4. new.execution_input_integrity = ExecutionInputs(c)
    BY DEF AuditedGates
  <2> HIDE DEF new
  <2> QED
    BY <2>1, <2>2, <2>3, <2>4 DEF score
<1> DEFINE kept  == Keep(r.gates, DOMAIN r.gates \ Aliases)
           gates == fresh ++ kept
           new   == [score |-> score, gates |-> gates]
<1>2. DOMAIN members = Grid /\ \A m \in Grid : members[m] \in Points
  <2>1. DOMAIN members = Grid
    BY DEF AuditedMembers
  <2> QED
    BY <2>1, MembersType
<1> HIDE DEF a
<1>3. /\ score \in Points /\ \E m \in Grid : score <= members[m]
      /\ \A x \in Int : (\A m \in Doubtful : members[m] <= x) => score <= x
  <2> HIDE DEF members
  <2> QED
    BY <1>2, QuartileIs
<1>4. PICK m \in Grid : score <= members[m]
  BY <1>3
<1>5. score \in Int /\ members[m] \in Int
  BY <1>2, <1>3, PointIs
<1>6. score >= 48 => ~Severe(r) /\ r.class # "capital_distress" /\ ~(r.contradiction >= 75)
  <2>1. members[m] >= 48 => ~Severe(r) /\ r.class # "capital_distress" /\ ~(r.contradiction >= 75)
    BY MembersType
  <2> HIDE DEF score, members
  <2>2. score >= 48 => members[m] >= 48
    BY <1>4, <1>5
  <2> QED
    BY <2>1, <2>2
<1>7. score >= 72 => r.cause = "VERIFIED"
  <2>1. members[m] >= 72 => r.cause = "VERIFIED"
    BY MembersType
  <2> HIDE DEF score, members
  <2>2. score >= 72 => members[m] >= 72
    BY <1>4, <1>5
  <2> QED
    BY <2>1, <2>2
<1>8. ASSUME \A n \in {"evidence_downside", "joint_downside"} : r.scenarios[n].conf <= 54
      PROVE  score <= 70
  <2>1. \A d \in Doubtful : members[d] <= 70
    <3> SUFFICES ASSUME NEW d \in Doubtful PROVE members[d] <= 70
      OBVIOUS
    <3>1. d \in Grid /\ d[1] \in {"evidence_downside", "joint_downside"}
      BY GridIs DEF Doubtful
    <3>2. r.scenarios[d[1]].conf <= 54
      BY <1>8, <3>1
    <3> QED
      BY <3>1, <3>2, MembersType
  <2> HIDE DEF score, members
  <2> QED
    BY <1>3, <2>1
<1> HIDE DEF score, members
<1>9. /\ Result3(c, r) /\ Stress(c, r) /\ Provenance(c, r) /\ Parts3(c, r) /\ Parts2(c, r)
      /\ Parts(c, r) /\ Result(c, r) /\ EconomicGateNames \subseteq DOMAIN r.gates
  BY DEF Result5, Result3, Parts3, Parts2, Kept
<1>10. \A n \in EconomicGateNames \cup {"no_material_evidence_contradiction",
                                        "causal_provenance_independence"} :
         n \in DOMAIN kept /\ kept[n] = r.gates[n] /\ n \notin DOMAIN fresh
  <2>1. \A n \in EconomicGateNames \cup {"no_material_evidence_contradiction",
                                         "causal_provenance_independence"} :
          n \in DOMAIN r.gates
    BY <1>9 DEF Provenance
  <2>2. \A n \in EconomicGateNames \cup {"no_material_evidence_contradiction",
                                         "causal_provenance_independence"} :
          n \notin Aliases /\ n \notin DOMAIN fresh
    BY <1>1 DEF EconomicGateNames, Aliases
  <2> QED
    BY <2>1, <2>2 DEF Keep
<1>11. DOMAIN new = {"score", "gates"} /\ new.score = score /\ new.gates = gates
  OBVIOUS
<1>12. a = new ++ r
  BY <1>1
<1> HIDE DEF kept, new
<1>13. Over(gates, fresh, kept)
  BY Merged
<1> HIDE DEF gates
<1>14. Over(a, new, r)
  BY <1>12, Merged
<1>15. /\ DOMAIN r \subseteq DOMAIN a /\ \A k \in DOMAIN r \ {"score", "gates"} : a[k] = r[k]
       /\ a.score = score /\ a.gates = gates
  BY <1>11, <1>14 DEF Over
<1>16. \A n \in EconomicGateNames \cup {"no_material_evidence_contradiction",
                                        "causal_provenance_independence"} :
         n \in DOMAIN a.gates /\ a.gates[n] = r.gates[n]
  BY <1>10, <1>13, <1>15 DEF Over
<1>17. Inherited(a, r)
  BY <1>16 DEF Inherited
<1>18. Parts(c, a)
  BY <1>9, <1>15 DEF Parts, PartNames
<1>19. Result(c, a)
  BY <1>3, <1>9, <1>15, <1>18 DEF Result
<1>20. Parts2(c, a)
  BY <1>9, <1>15, <1>18 DEF Parts2
<1>21. Parts3(c, a)
  BY <1>9, <1>15, <1>20 DEF Parts3
<1>22. /\ a.surv = r.surv /\ a.damage = r.damage /\ a.tail = r.tail /\ a.name = r.name
       /\ a.veto = r.veto /\ a.class = r.class /\ a.cause = r.cause /\ a.conf = r.conf
  BY <1>9, <1>15 DEF Parts3, Parts2, Parts, PartNames
<1>23. Result3(c, a)
  <2>1. Kept(c, a)
    BY <1>9, <1>17, <1>22, KeptPasses DEF Result3
  <2> QED
    BY <1>9, <1>15, <1>19, <1>21, <2>1 DEF Result3
<1>24. /\ {"contradiction", "external", "scenarios"} \subseteq DOMAIN a
       /\ a.contradiction = r.contradiction /\ a.external = r.external /\ a.scenarios = r.scenarios
  BY <1>9, <1>15 DEF Stress
<1>25. Stress(c, a)
  BY <1>9, <1>22, <1>24 DEF Stress
<1>26. Provenance(c, a)
  <2>1. /\ a.gates.no_material_evidence_contradiction = r.gates.no_material_evidence_contradiction
        /\ a.gates.causal_provenance_independence = r.gates.causal_provenance_independence
        /\ {"no_material_evidence_contradiction", "causal_provenance_independence"}
             \subseteq DOMAIN a.gates
    BY <1>16
  <2> QED
    BY <1>9, <1>22, <1>24, <2>1 DEF Provenance
<1>27. Vouched(c, a)
  <2>1. /\ {"robust_opportunity_threshold", "execution_input_integrity"} \subseteq DOMAIN a.gates
        /\ a.gates.robust_opportunity_threshold = (score >= 72)
        /\ a.gates.execution_input_integrity = ExecutionInputs(c)
    BY <1>1, <1>13, <1>15 DEF Over
  <2>2. a.gates.robust_opportunity_threshold => a.score >= 72
    BY <1>15, <2>1
  <2>3. a.gates.execution_input_integrity => c.quote \in {"absent", "observed"}
    BY <2>1, QuoteAccepted
  <2>4. Severe(a) = Severe(r)
    BY <1>22 DEF Severe
  <2> QED
    BY <1>6, <1>7, <1>8, <1>15, <1>22, <1>24, <2>1, <2>2, <2>3, <2>4 DEF Vouched
<1>28. Result6(c, a)
  BY <1>23, <1>25, <1>26, <1>27 DEF Result6
<1> QED
  BY <1>15, <1>17, <1>28 DEF a

(* The gates that the figures of a result answer for.                       *)
CountingGates == EconomicGateNames \cup
  {"no_material_evidence_contradiction", "causal_provenance_independence",
   "robust_opportunity_threshold", "execution_input_integrity"}

(* A result that keeps the figures and those gates is one too.              *)
LEMMA KeptResult ==
  ASSUME NEW c, NEW a, Result6(c, a), NEW b,
         DOMAIN a \subseteq DOMAIN b, \A k \in DOMAIN a \ {"verdict", "gates"} : b[k] = a[k],
         b.verdict \in Verdicts, CountingGates \subseteq DOMAIN b.gates,
         \A n \in CountingGates : b.gates[n] = a.gates[n]
  PROVE  Result6(c, b) /\ Inherited(b, a)
<1>1. /\ Result3(c, a) /\ Stress(c, a) /\ Provenance(c, a) /\ Vouched(c, a) /\ Kept(c, a)
      /\ Parts3(c, a) /\ Parts2(c, a) /\ Parts(c, a) /\ Result(c, a) /\ "gates" \in DOMAIN a
  BY DEF Result6, Result3, Parts3, Parts2
<1>2. Inherited(b, a)
  BY DEF Inherited, CountingGates
<1>3. Parts(c, b)
  BY <1>1 DEF Parts, PartNames
<1>4. Result(c, b)
  BY <1>1, <1>3 DEF Result
<1>5. Parts2(c, b)
  BY <1>1, <1>3 DEF Parts2
<1>6. Parts3(c, b)
  BY <1>1, <1>5 DEF Parts3
<1>7. /\ b.surv = a.surv /\ b.damage = a.damage /\ b.tail = a.tail /\ b.name = a.name
      /\ b.veto = a.veto /\ b.class = a.class /\ b.cause = a.cause /\ b.conf = a.conf
      /\ b.score = a.score
  BY <1>1 DEF Parts3, Parts2, Parts, PartNames, Result
<1>8. Result3(c, b)
  <2>1. Kept(c, b)
    BY <1>1, <1>2, <1>7, KeptPasses
  <2> QED
    BY <1>1, <1>4, <1>6, <2>1 DEF Result3
<1>9. /\ {"contradiction", "external", "scenarios"} \subseteq DOMAIN b
      /\ b.contradiction = a.contradiction /\ b.external = a.external /\ b.scenarios = a.scenarios
  BY <1>1 DEF Stress
<1>10. Stress(c, b)
  BY <1>1, <1>7, <1>9 DEF Stress
<1>11. /\ b.gates.no_material_evidence_contradiction = a.gates.no_material_evidence_contradiction
       /\ b.gates.causal_provenance_independence = a.gates.causal_provenance_independence
       /\ b.gates.robust_opportunity_threshold = a.gates.robust_opportunity_threshold
       /\ b.gates.execution_input_integrity = a.gates.execution_input_integrity
       /\ {"no_material_evidence_contradiction", "causal_provenance_independence",
           "robust_opportunity_threshold", "execution_input_integrity"} \subseteq DOMAIN b.gates
  BY DEF CountingGates
<1>12. Provenance(c, b)
  BY <1>1, <1>7, <1>9, <1>11 DEF Provenance
<1>13. Vouched(c, b)
  <2>1. Severe(b) = Severe(a)
    BY <1>7 DEF Severe
  <2> QED
    BY <1>1, <1>7, <1>9, <1>11, <2>1 DEF Vouched
<1> QED
  BY <1>2, <1>8, <1>10, <1>12, <1>13 DEF Result6

(* The verdict follows the gates, and passes over no score of 48.           *)
LEMMA DecidedType ==
  ASSUME NEW c, NEW a, Result6(c, a)
  PROVE  /\ Result6(c, Decided(a)) /\ Inherited(Decided(a), a)
         /\ Decided(a).gates = a.gates /\ Decided(a).score = a.score /\ Decided(a).name = a.name
         /\ Decided(a).veto = a.veto
         /\ Decided(a).verdict = "INVESTIGATE" => Open(a.gates)
         /\ a.score >= 48 => Decided(a).verdict # "PASS"
<1> DEFINE pass == Severe(a) \/ a.class = "capital_distress" \/ a.contradiction >= 75 \/ a.score < 48
           v    == Verdict(pass, a.gates, a.score, 48)
           new  == [verdict |-> v]
           b    == Decided(a)
<1>1. b = new ++ a
  BY DEF Decided
<1>2. /\ a.score \in Int /\ {"score", "gates", "name", "verdict", "veto"} \subseteq DOMAIN a
      /\ CountingGates \subseteq DOMAIN a.gates
      /\ a.score >= 48 => ~Severe(a) /\ a.class # "capital_distress" /\ ~(a.contradiction >= 75)
  BY PointIs DEF Result6, Result3, Result, Parts, Vouched, Provenance, Kept, CountingGates
<1>3. a.score >= 48 => ~pass
  BY <1>2
<1> HIDE DEF pass, b
<1>4. v \in Verdicts
  BY VerdictIs
<1>5. v = "INVESTIGATE" => Open(a.gates)
  BY DEF Verdict
<1>6. a.score >= 48 => v # "PASS"
  BY <1>2, <1>3 DEF Verdict
<1> HIDE DEF v
<1>7. DOMAIN new = {"verdict"} /\ new.verdict = v
  OBVIOUS
<1> HIDE DEF new
<1>8. Over(b, new, a)
  BY <1>1, Merged
<1>9. /\ DOMAIN a \subseteq DOMAIN b /\ b.verdict = v
      /\ \A k \in DOMAIN a \ {"verdict"} : b[k] = a[k]
  BY <1>7, <1>8 DEF Over
<1>10. b.gates = a.gates /\ b.score = a.score /\ b.name = a.name /\ b.veto = a.veto
  BY <1>2, <1>9
<1>11. Result6(c, b) /\ Inherited(b, a)
  BY <1>2, <1>4, <1>9, <1>10, KeptResult
<1> QED
  BY <1>5, <1>6, <1>9, <1>10, <1>11 DEF b

(* The two gates of the removal come on top; the first vouches for a score  *)
(* of 48 without each source.                                               *)
LEMMA RemovalType ==
  ASSUME NEW c, NEW a, Result6(c, a)
  PROVE  LET b == SourceRemoval(c, a)
         IN /\ Result6(c, b) /\ Inherited(b, a) /\ b.name = a.name
            /\ "source_removal_robustness" \in DOMAIN b.gates
            /\ b.gates.source_removal_robustness =>
                 \A o \in Origins(c, Family(a.name)) :
                   Replay(Without(c, Family(a.name), o)).score >= 48
<1> DEFINE
      origins  == Origins(c, Family(a.name))
      replays  == [o \in origins |-> Replay(Without(c, Family(a.name), o))]
      complete == c.reproduced /\ origins # {} /\ Cardinality(origins) <= MaxReplays
      robust   == complete /\ \A o \in origins : replays[o].score >= 48 /\ ~replays[o].veto
      fresh    == [source_removal_robustness |-> robust,
                   declared_origin_independence |-> Cardinality(origins) >= 2]
      gates    == fresh ++ a.gates
      new      == [gates |-> gates]
      b        == SourceRemoval(c, a)
<1>1. b = new ++ a
  BY DEF SourceRemoval
<1>2. robust => \A o \in origins : Replay(Without(c, Family(a.name), o)).score >= 48
  <2> SUFFICES ASSUME robust, NEW o \in origins
               PROVE  Replay(Without(c, Family(a.name), o)).score >= 48
    OBVIOUS
  <2>1. replays[o].score >= 48
    OBVIOUS
  <2>2. replays[o] = Replay(Without(c, Family(a.name), o))
    OBVIOUS
  <2> HIDE DEF replays
  <2> QED
    BY <2>1, <2>2
<1> HIDE DEF robust, b
<1>3. DOMAIN fresh = {"source_removal_robustness", "declared_origin_independence"}
      /\ fresh.source_removal_robustness = robust
  OBVIOUS
<1> HIDE DEF fresh
<1>4. Over(gates, fresh, a.gates)
  BY Merged
<1> HIDE DEF gates
<1>5. DOMAIN new = {"gates"} /\ new.gates = gates
  OBVIOUS
<1> HIDE DEF new
<1>6. Over(b, new, a)
  BY <1>1, Merged
<1>7. /\ {"gates", "name", "verdict"} \subseteq DOMAIN a /\ a.verdict \in Verdicts
      /\ CountingGates \subseteq DOMAIN a.gates
  BY DEF Result6, Result3, Result, Parts, Vouched, Provenance, Kept, CountingGates
<1>8. /\ DOMAIN a \subseteq DOMAIN b /\ b.gates = gates
      /\ \A k \in DOMAIN a \ {"gates"} : b[k] = a[k]
  BY <1>5, <1>6 DEF Over
<1>9. b.name = a.name /\ b.verdict = a.verdict
  BY <1>7, <1>8
<1>10. CountingGates \subseteq DOMAIN b.gates
       /\ \A n \in CountingGates : b.gates[n] = a.gates[n]
  <2>1. \A n \in CountingGates : n \notin DOMAIN fresh
    BY <1>3 DEF CountingGates, EconomicGateNames
  <2> QED
    BY <1>4, <1>7, <1>8, <2>1 DEF Over
<1>11. Result6(c, b) /\ Inherited(b, a)
  BY <1>7, <1>8, <1>9, <1>10, KeptResult
<1>12. "source_removal_robustness" \in DOMAIN b.gates
       /\ b.gates.source_removal_robustness = robust
  BY <1>3, <1>4, <1>8 DEF Over
<1> QED
  BY <1>2, <1>9, <1>11, <1>12 DEF b

-----------------------------------------------------------------------------
(* The candidates                                                           *)

(* A candidate whose evidence is prepared is one, and so is a candidate     *)
(* without one of its sources.                                              *)
LEMMA PreparedIsCandidate ==
  ASSUME NEW c, Candidate(c) PROVE Candidate([c EXCEPT !.news = Prepared(@)])
<1>1. Prepared(c.news) \subseteq c.news
  BY DEF Prepared, Retained
<1> DEFINE n == Prepared(c.news)
           d == [c EXCEPT !.news = n]
<1>2. d = [c EXCEPT !.news = Prepared(@)]
  OBVIOUS
<1> HIDE DEF n
<1>3. Candidate(d)
  BY <1>1 DEF Candidate, n
<1> QED
  BY <1>2, <1>3

(* Nothing filed: no figures.                                               *)
LEMMA NothingFiled ==
  /\ NoFilings \in Filings /\ NoFilings.runway = Missing /\ NoFilings.current = Missing
  /\ NoFilings.cash = Missing
<1>1. Missing \in Int
  BY DEF Missing
<1>2. NoFilings \in Filings
  BY <1>1 DEF NoFilings, Filings
<1> QED
  BY <1>2 DEF NoFilings

(* Removing a source leaves a candidate.                                    *)
LEMMA WithoutIsCandidate ==
  ASSUME NEW c, Candidate(c), NEW family, NEW o PROVE Candidate(Without(c, family, o))
<1> DEFINE n == c.news \ Cluster(c, family, o)
           f == IF c.fund.root = o THEN NoFilings ELSE c.fund
           w == [c EXCEPT !.news = n, !.fund = f]
<1>1. Without(c, family, o) = w
  BY DEF Without
<1>2. n \subseteq c.news
  OBVIOUS
<1>3. f \in Filings /\ (~Filed(f) => /\ f.runway = Missing /\ f.current = Missing
                                     /\ f.cash = Missing)
  BY NothingFiled DEF Candidate
<1> HIDE DEF n, f
<1>4. Candidate(w)
  BY <1>2, <1>3 DEF Candidate
<1> QED
  BY <1>1, <1>4

(* The result of v3.5 for a candidate, and of its replay.                   *)
LEMMA InnerType == ASSUME NEW c, Candidate(c) PROVE Result5(c, Inner(c))
BY BaseType, HierarchyType, EconomicsType, ReliabilityType, RobustnessType DEF Inner

(* A replay that scores 48 is not passed over.                              *)
LEMMA ReplayIsKept ==
  ASSUME NEW c, Candidate(c), NEW family, NEW o, Replay(Without(c, family, o)).score >= 48
  PROVE  Replay(Without(c, family, o)).verdict # "PASS"
<1> DEFINE w == Without(c, family, o)
           a == Audited(w, Inner(w))
<1>1. Candidate(w)
  BY WithoutIsCandidate
<1>2. Replay(w) = Decided(a)
  BY DEF Replay
<1> HIDE DEF w
<1>3. Result6(w, a)
  BY <1>1, InnerType, AuditedType
<1> HIDE DEF a
<1>4. Decided(a).score = a.score /\ (a.score >= 48 => Decided(a).verdict # "PASS")
  BY <1>3, DecidedType
<1> QED
  BY <1>2, <1>4 DEF w

-----------------------------------------------------------------------------
(* The inductive invariant                                                  *)

(* The final result: the verdict asks for every gate, the gate on removal   *)
(* for a replay of every source.                                            *)
Final(c, r) ==
  /\ Result6(c, r)
  /\ r.verdict = "INVESTIGATE" => Open(r.gates)
  /\ "source_removal_robustness" \in DOMAIN r.gates
  /\ r.gates.source_removal_robustness =>
       \A o \in Origins(c, Family(r.name)) : Replay(Without(c, Family(r.name), o)).score >= 48

ScoringInv ==
  /\ Candidate(cand)
  /\ layer \in {"none", "v31", "v32", "v33", "v34", "v35", "v39"}
  /\ layer = "none" => res = << >>
  /\ layer = "v31" => Result(cand, res)
  /\ layer = "v32" => Result2(cand, res)
  /\ layer = "v33" => Result3(cand, res)
  /\ layer = "v34" => Result4(cand, res)
  /\ layer = "v35" => Result5(cand, res)
  /\ layer = "v39" => Final(cand, res)

(* What v3.9 makes of the result of v3.5.                                   *)
LEMMA FinalType ==
  ASSUME NEW c, Candidate(c), NEW r, Result5(c, r)
  PROVE  /\ Final(c, Decided(SourceRemoval(c, Audited(c, r))))
         /\ Inherited(Decided(SourceRemoval(c, Audited(c, r))), r)
<1> DEFINE a == Audited(c, r)
           s == SourceRemoval(c, a)
           d == Decided(s)
<1>1. Result6(c, a) /\ Inherited(a, r)
  BY AuditedType
<1> HIDE DEF a
<1>2. /\ Result6(c, s) /\ Inherited(s, a) /\ s.name = a.name
      /\ "source_removal_robustness" \in DOMAIN s.gates
      /\ s.gates.source_removal_robustness =>
           \A o \in Origins(c, Family(a.name)) :
             Replay(Without(c, Family(a.name), o)).score >= 48
  BY <1>1, RemovalType
<1> HIDE DEF s
<1>3. /\ Result6(c, d) /\ Inherited(d, s) /\ d.gates = s.gates /\ d.name = s.name
      /\ d.verdict = "INVESTIGATE" => Open(s.gates)
  BY <1>2, DecidedType
<1> HIDE DEF d
<1>4. Inherited(d, r)
  BY <1>1, <1>2, <1>3 DEF Inherited
<1>5. Final(c, d)
  BY <1>2, <1>3 DEF Final
<1> QED
  BY <1>4, <1>5 DEF a, s, d

(* It holds of a candidate not yet scored,                                  *)
LEMMA ScoringInit == Init => ScoringInv
<1> SUFFICES ASSUME Init PROVE ScoringInv
  OBVIOUS
<1>1. PICK c \in Candidates : cand = [c EXCEPT !.news = Prepared(@)]
  BY DEF Init
<1>2. Candidate(cand)
  BY <1>1, CandidateAssumption, PreparedIsCandidate
<1> QED
  BY <1>2 DEF Init, ScoringInv

(* and every release keeps it.                                              *)
LEMMA ScoringNext == ScoringInv /\ [Next]_vars => ScoringInv'
<1> SUFFICES ASSUME ScoringInv, [Next]_vars PROVE ScoringInv'
  OBVIOUS
<1>1. Candidate(cand)
  BY DEF ScoringInv
<1>2. CASE V31
  <2>1. Result(cand, Base(cand))
    BY <1>1, BaseType
  <2> QED
    BY <1>1, <1>2, <2>1 DEF V31, Rescore, ScoringInv
<1>3. CASE V32
  <2>1. Result2(cand, Hierarchy(cand, res))
    BY <1>1, <1>3, HierarchyType DEF V32, Rescore, ScoringInv
  <2> QED
    BY <1>1, <1>3, <2>1 DEF V32, Rescore, ScoringInv
<1>4. CASE V33
  <2>1. Result3(cand, Economics(cand, res))
    BY <1>1, <1>4, EconomicsType DEF V33, Rescore, ScoringInv
  <2> QED
    BY <1>1, <1>4, <2>1 DEF V33, Rescore, ScoringInv
<1>5. CASE V34
  <2>1. Result4(cand, Reliability(cand, res))
    BY <1>1, <1>5, ReliabilityType DEF V34, Rescore, ScoringInv
  <2> QED
    BY <1>1, <1>5, <2>1 DEF V34, Rescore, ScoringInv
<1>6. CASE V35
  <2>1. Result5(cand, Robustness(cand, res))
    BY <1>1, <1>6, RobustnessType DEF V35, Rescore, ScoringInv
  <2> QED
    BY <1>1, <1>6, <2>1 DEF V35, Rescore, ScoringInv
<1>7. CASE V39
  <2>1. Final(cand, Decided(SourceRemoval(cand, Audited(cand, res))))
    BY <1>1, <1>7, FinalType DEF V39, Rescore, ScoringInv
  <2> QED
    BY <1>1, <1>7, <2>1 DEF V39, Rescore, ScoringInv
<1>8. CASE UNCHANGED vars
  BY <1>8 DEF vars, ScoringInv
<1> QED
  BY <1>2, <1>3, <1>4, <1>5, <1>6, <1>7, <1>8 DEF Next

(* So it holds throughout.                                                  *)
LEMMA ScoringInductive == Spec => []ScoringInv
BY ScoringInit, ScoringNext, PTL DEF Spec

-----------------------------------------------------------------------------
(* The properties                                                           *)

(* Every result since v3.1 is one of points, since v3.3 with a thesis,      *)
(* since v3.4 with its scenarios.                                           *)
LEMMA ResultsOf ==
  ASSUME ScoringInv
  PROVE  /\ layer # "none" => Result(cand, res)
         /\ layer \in {"v33", "v34", "v35", "v39"} => Result3(cand, res)
         /\ layer \in {"v34", "v35", "v39"} => Stress(cand, res)
BY DEF ScoringInv, Final, Result6, Result5, Result4, Result3, Result2

(* Every score, confidence and component of every release is a point of     *)
(* 0..100 (the Clamp and min/max chains of oversold_v31.py to _v39.py).      *)
THEOREM ScoresArePoints == Spec => []TypeOK
<1>1. ASSUME ScoringInv PROVE TypeOK
  <2>1. layer \in {Layers[i] : i \in DOMAIN Layers}
    BY <1>1 DEF ScoringInv, Layers
  <2>2. layer = "none" <=> res = << >>
    <3>1. layer # "none" => "score" \in DOMAIN res
      BY <1>1, ResultsOf DEF Result
    <3>2. "score" \notin DOMAIN << >>
      OBVIOUS
    <3> QED
      BY <1>1, <3>1, <3>2 DEF ScoringInv
  <2>3. layer # "none" =>
          /\ \A k \in {"score", "conf", "setup", "confirm", "catalyst", "resilience",
                       "damage", "rever", "horizon"} : res[k] \in 0..100
          /\ res.verdict \in {"PASS", "WATCH", "INVESTIGATE"}
    BY <1>1, ResultsOf DEF Result, Parts, PartNames, Points, Verdicts
  <2>4. layer \in {"v33", "v34", "v35", "v39"} =>
          \A k \in {"over", "surv", "fit", "tail"} : res[k] \in 0..100
    BY <1>1, ResultsOf, SMTT(60) DEF Result3, Parts3, Points
  <2>5. layer \in {"v34", "v35", "v39"} =>
          \A n \in DOMAIN res.scenarios :
            LET s == res.scenarios[n]
            IN /\ {s.conf, s.tail} \subseteq 0..100
               /\ \A k \in DOMAIN s.values : s.values[k] \in 0..100
    BY <1>1, ResultsOf DEF Stress, Scene, Points
  <2> QED
    BY <2>1, <2>2, <2>3, <2>4, <2>5 DEF TypeOK
<1> QED
  BY <1>1, ScoringInductive, PTL

(* INVESTIGATE is published only over figures that pass the gates, those    *)
(* evaluated before the confidence was lowered included.  A thesis without  *)
(* filings fails on survivability; with filings the published confidence is *)
(* that of v3.4, and less than 65 of it leaves two scenarios too little to  *)
(* score 72.                                                                *)
THEOREM InvestigateStandsOnEvidence == Spec => []InvestigateIsSound
<1>1. ASSUME ScoringInv PROVE InvestigateIsSound
  <2> SUFFICES ASSUME layer = "v39", res.verdict = "INVESTIGATE"
               PROVE  /\ res.conf >= 65 /\ res.cause = "VERIFIED" /\ res.contradiction < 50
                      /\ res.score >= 72 /\ res.damage <= 60 /\ res.tail <= 60
                      /\ {a.origin : a \in CausalTo(cand, Family(res.name))} # {}
                      /\ cand.mkt.dollars >= 2000 /\ ~cand.mkt.extended
                      /\ cand.quote \notin {"stale", "crossed"}
    BY DEF InvestigateIsSound
  <2>1. Final(cand, res)
    BY <1>1 DEF ScoringInv
  <2>2. Open(res.gates)
    BY <2>1 DEF Final
  <2>3. /\ Kept(cand, res) /\ Vouched(cand, res) /\ Provenance(cand, res)
        /\ Parts3(cand, res) /\ Parts(cand, res) /\ Result(cand, res)
    BY <2>1 DEF Final, Result6, Result3, Parts3, Parts2
  <2>4. /\ res.gates.survivability /\ res.gates.damage_not_high /\ res.gates.tail_risk_acceptable
        /\ res.gates.liquidity /\ res.gates.regular_session_confirmation
        /\ res.gates.no_material_evidence_contradiction
        /\ res.gates.causal_provenance_independence
        /\ res.gates.robust_opportunity_threshold /\ res.gates.execution_input_integrity
    BY <2>2, <2>3 DEF Open, Kept, Provenance, Vouched, EconomicGateNames
  <2>5. /\ res.surv >= 55 /\ res.damage <= 60 /\ res.tail <= 60 /\ Traded(cand)
        /\ ~cand.mkt.extended
    BY <2>3, <2>4 DEF Kept
  <2>6. /\ res.score >= 72 /\ cand.quote \in {"absent", "observed"}
        /\ res.contradiction < 50 /\ Origins(cand, Family(res.name)) # {}
    BY <2>3, <2>4 DEF Vouched, Provenance
  <2>7. res.cause = "VERIFIED"
    BY <2>3, <2>6 DEF Vouched
  <2>8. Filed(cand.fund)
    BY <2>3, <2>5, PointIs DEF Parts3
  <2>9. res.conf >= 65
    <3> SUFFICES ASSUME ~(res.conf >= 65) PROVE FALSE
      OBVIOUS
    <3>1. res.conf <= 64 /\ res.score \in Int
      BY <2>3, PointIs DEF Parts, PartNames, Result
    <3>2. \A n \in {"evidence_downside", "joint_downside"} : res.scenarios[n].conf <= 54
      BY <2>3, <2>4, <2>8, <3>1 DEF Provenance
    <3>3. res.score <= 70
      BY <2>3, <3>2 DEF Vouched
    <3> QED
      BY <2>6, <3>1, <3>3
  <2>10. {a.origin : a \in CausalTo(cand, Family(res.name))} # {}
    BY <2>6 DEF Origins
  <2>11. cand.mkt.dollars >= 2000
    BY <2>5 DEF Traded
  <2>12. cand.quote \notin {"stale", "crossed"}
    BY <2>6
  <2> QED
    BY <2>5, <2>6, <2>7, <2>9, <2>10, <2>11, <2>12
<1> QED
  BY <1>1, ScoringInductive, PTL

(* Without any one source an INVESTIGATE would not be a PASS: the gate on   *)
(* removal asks for 48 points of every replay, and 48 points answer every   *)
(* reason that v3.9 has to pass.                                            *)
THEOREM NoSourceCarriesIt == Spec => []InvestigateSurvivesRemoval
<1>1. ASSUME ScoringInv PROVE InvestigateSurvivesRemoval
  <2> DEFINE family == Family(res.name)
  <2> SUFFICES ASSUME layer = "v39", res.verdict = "INVESTIGATE",
                      NEW a \in CausalTo(cand, family)
               PROVE  Replay(Without(cand, family, a.origin)).verdict # "PASS"
    BY DEF InvestigateSurvivesRemoval
  <2>1. Final(cand, res) /\ Candidate(cand)
    BY <1>1 DEF ScoringInv
  <2>2. res.gates.source_removal_robustness
    BY <2>1 DEF Final, Open
  <2>3. a.origin \in Origins(cand, family)
    BY DEF Origins
  <2>4. Replay(Without(cand, family, a.origin)).score >= 48
    BY <2>1, <2>2, <2>3 DEF Final
  <2> HIDE DEF family
  <2> QED
    BY <2>1, <2>4, ReplayIsKept
<1> QED
  BY <1>1, ScoringInductive, PTL

(* A gate that v3.3 shut stays shut through v3.4, v3.5 and v3.9, whose lists *)
(* of replaced gates name none of them.                                     *)
THEOREM GatesStayShut == Spec => ShutGatesStayShut
<1> DEFINE P == \A g \in EconomicGateNames :
                  (layer \in {"v33", "v34", "v35"} /\ ~res.gates[g])
                    => g \in DOMAIN res'.gates /\ ~res'.gates[g]
<1>1. ASSUME ScoringInv, [Next]_vars PROVE [P]_vars
  <2>1. Candidate(cand)
    BY <1>1 DEF ScoringInv
  <2>2. layer \in {"v33", "v34", "v35"} /\ Next => Inherited(res', res)
    <3> SUFFICES ASSUME layer \in {"v33", "v34", "v35"}, Next PROVE Inherited(res', res)
      OBVIOUS
    <3>1. CASE V34
      BY <1>1, <2>1, <3>1, ReliabilityType DEF V34, Rescore, ScoringInv
    <3>2. CASE V35
      BY <1>1, <2>1, <3>2, RobustnessType DEF V35, Rescore, ScoringInv
    <3>3. CASE V39
      BY <1>1, <2>1, <3>3, FinalType DEF V39, Rescore, ScoringInv
    <3> QED
      BY <3>1, <3>2, <3>3 DEF Next, V31, V32, V33, Rescore
  <2> QED
    BY <1>1, <2>2 DEF Inherited
<1>2. ScoringInv /\ [Next]_vars => [P]_vars
  BY <1>1
<1> QED
  BY <1>2, ScoringInductive, PTL DEF Spec, ShutGatesStayShut
=============================================================================
