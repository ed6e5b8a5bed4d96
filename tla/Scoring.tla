-------------------------------- MODULE Scoring --------------------------------
(****************************************************************************)
(* One candidate scored, release upon release: v3.5 spreads the downside     *)
(* scenarios over seven weightings and counts where the evidence comes from; *)
(* v3.9 keeps one copy of each text, audits the spread and the quote, and    *)
(* scores the candidate again without each source.  The eligibility gates    *)
(* are a record that v3.4 extends, v3.5 and v3.9 cut and extend again; most  *)
(* were evaluated before v3.4 and v3.5 lowered the confidence they test.     *)
(****************************************************************************)
EXTENDS ScoringLayers

CONSTANTS Candidates,   \* the candidates of a scan
          MaxReplays    \* source clusters that v3.9 removes one at a time

ASSUME ReplayAssumption == MaxReplays \in Nat \ {0}

(* Figures are whole numbers or Missing; what is not filed has no figures    *)
(* (a record of fewer than three is no record).                             *)
NewsItem == [id : Nat, text : Nat, origin : STRING, age : Int, dated : BOOLEAN,
  link : DOMAIN LinkPoints, named : BOOLEAN, hits : Nat, titled : BOOLEAN, event : BOOLEAN,
  generic : BOOLEAN, says : SUBSET STRING, context : BOOLEAN, primary : BOOLEAN,
  source : STRING, standing : {"plain", "release", "major"},
  quant : [miss : Int, cut : Int, yoy : Int, stake : Int, spike : Int]]
Market == [drop : Int, shock : Int, atr : Int, drawdown : Int, sma20 : Int, sma50 : Int,
  rsi : Int, rvol : Int, relative : Int, dollars : Int, spread : Int, range : Int,
  from_open : Int, reclaim : Int, vwap : Int, runup : Int, over_baseline : Int,
  extended : BOOLEAN, complete : Int]
Filings == [coverage : Nat, age : Int, cash : Int, liabilities : Int, equity : Int,
  revenue : Int, margin : Int, margin_delta : Int, operating_margin : Int, cash_flow : Int,
  shares_yoy : Int, runway : Int, current : Int, debt : Int, mcap : Int, gap : Int,
  flags : SUBSET STRING, root : STRING \cup {"none"}]
Candidate(c) ==
  /\ c \in [news : SUBSET NewsItem, mkt : Market, fund : Filings,
            class : {"D", "E", "other"},
            quote : {"absent", "observed", "stale", "crossed"}, reproduced : BOOLEAN]
  /\ ~Filed(c.fund) => /\ c.fund.runway = Missing /\ c.fund.current = Missing
                       /\ c.fund.cash = Missing
ASSUME CandidateAssumption == \A c \in Candidates : Candidate(c)

VARIABLES cand,    \* the candidate being scored, its evidence prepared
          layer,   \* the release whose result res is
          res      \* the result so far

vars == <<cand, layer, res>>

-----------------------------------------------------------------------------
(* Evidence as v3.8 and v3.9 hand it down: valid at the cutoff, one article  *)
(* of each text, the most authoritative, then the oldest.                    *)
Prepared(news) ==
  LET valid == Retained(news)
      ahead(a, b) == \/ Authority(a) > Authority(b)
                     \/ Authority(a) = Authority(b) /\ a.age > b.age
                     \/ Authority(a) = Authority(b) /\ a.age = b.age /\ a.id <= b.id
  IN {a \in valid : \A b \in valid : a.text = b.text => ahead(a, b)}

-----------------------------------------------------------------------------
(* v3.5 *)

Weights(over, rever, surv, fit, confirm, tech) ==
  [overreaction |-> over, reversibility |-> rever, survivability |-> surv,
   three_session_fit |-> fit, confirmation |-> confirm, technical_exhaustion |-> tech]
WeightSets == [balanced |-> Balanced,
  economic_damage_focus |-> Weights(31, 22, 24, 13, 7, 3),
  survival_focus |-> Weights(24, 18, 31, 14, 9, 4),
  reversibility_focus |-> Weights(25, 30, 20, 14, 8, 3),
  timing_focus |-> Weights(24, 19, 18, 27, 9, 3),
  confirmation_focus |-> Weights(25, 20, 19, 15, 17, 4),
  technical_light |-> Weights(30, 24, 22, 15, 7, 2)]
Grid == Downside \X DOMAIN WeightSets

(* Articles of one origin, a common root or near-duplicate wording, are one  *)
(* cluster.                                                                 *)
Origins(c, family) == {a.origin : a \in CausalTo(c, family)}
Cluster(c, family, o) == {a \in CausalTo(c, family) : a.origin = o}
PrimaryOrigins(c, family) == {o \in Origins(c, family) : \E a \in Cluster(c, family, o) : a.primary}
StrongOrigins(c, family) == {o \in Origins(c, family) : Best(Cluster(c, family, o)) >= 20}

ClusterCap(c, family) ==
  LET count == Cardinality(Origins(c, family))
      filed == PrimaryOrigins(c, family) # {}
  IN IF count = 0 THEN 45
     ELSE IF count = 1 THEN IF filed THEN 78 ELSE 62
     ELSE IF filed THEN IF count >= 3 THEN 96 ELSE 92
     ELSE IF Cardinality(StrongOrigins(c, family)) >= 2 THEN 82 ELSE 70

Alignment(c, family) ==
  LET timely(o) == Clamp(Ladder(-Min({a.age : a \in Cluster(c, family, o)}),
                          <<<<-6, 100>>, <<-18, 92>>, <<-36, 80>>, <<-72, 60>>, <<-96, 40>>>>, 20)
                         + If(o \in PrimaryOrigins(c, family), 5))
      scores == [o \in Origins(c, family) |-> timely(o)]
  IN IF Origins(c, family) = {} THEN 0
     ELSE Clamp(Max({scores[o] : o \in DOMAIN scores})
                + If(Cardinality({o \in DOMAIN scores : scores[o] >= 80}) >= 2, 4))

Required == [financing |-> {"cash", "liabilities", "equity", "debt", "current", "runway", "shares_yoy"},
  solvency |-> {"cash", "liabilities", "equity", "debt", "current", "runway", "cash_flow"},
  clinical |-> {"cash", "liabilities", "debt", "current", "runway", "shares_yoy"},
  regulatory |-> {"cash", "liabilities", "debt", "current", "runway"},
  earnings |-> {"revenue", "margin", "operating_margin", "cash", "liabilities", "cash_flow"},
  operations |-> {"cash", "liabilities", "current", "runway"},
  legal |-> {"cash", "liabilities", "current", "runway"}]
RequiredOf(family) == IF family \in DOMAIN Required THEN Required[family]
                      ELSE {"cash", "liabilities", "equity"}

FundamentalQuality(fund, family) ==
  LET needed == RequiredOf(family)
      given  == {k \in needed : fund[k] # Missing}
  IN IF ~Filed(fund) THEN 0
     ELSE Clamp(20 + Ladder(-fund.age, <<<<-120, 20>>, <<-240, 14>>, <<-365, 8>>>>, 3)
                + (40 * Cardinality(given)) \div Cardinality(needed) + AtMost(10, fund.coverage)
                + (IF fund.gap = Missing THEN 5 ELSE Ladder(-fund.gap, <<<<-8, 10>>, <<-18, 6>>>>, 1)))

(* The k-th lowest of the scores *)
Nth(scores, k) ==
  CHOOSE v \in {scores[m] : m \in DOMAIN scores} :
    /\ Cardinality({m \in DOMAIN scores : scores[m] <= v}) >= k
    /\ Cardinality({m \in DOMAIN scores : scores[m] < v}) < k
LowerQuartile(scores) == (Nth(scores, 9) + Nth(scores, 10)) \div 2
Median(scores) == Nth(scores, 18)
Spread(scores, grid) == Max({scores[m] : m \in grid}) - Min({scores[m] : m \in grid})
BaseGrid == {m \in Grid : m[1] = "base_reliable"}

FrictionPenalty(c) == AtMost(12, Pct((5 * Friction(c)) \div 2))

(* Points of the base score that leaving one component out takes away *)
Dependency(c, r, conf) ==
  LET s    == r.scenarios.base_reliable
      full == ScenarioScore(c, r, s, Balanced, conf)
      without(k) == [Balanced EXCEPT ![k] = 0]
  IN Max({AtLeast(0, full - ScenarioScore(c, r, s, without(k), conf)) : k \in DOMAIN Balanced})

V34Gates == {"conservative_opportunity_threshold", "score_stability", "stress_gate_pass_rate",
  "no_material_evidence_contradiction", "causal_evidence_independence",
  "execution_friction", "not_extreme_microcap"}
Keep(gates, names) == [g \in DOMAIN gates \cap names |-> gates[g]]

(* What v3.5 measures of a candidate; wobble is half points of stability that *)
(* the weightings cost the base scenario.                                   *)
Measures(c, r, family, robust, conf, members) ==
  [conf |-> robust, count |-> Cardinality(Origins(c, family)),
   quartile |-> LowerQuartile(members), median |-> Median(members),
   aligned |-> Alignment(c, family), quality |-> FundamentalQuality(c.fund, family),
   wobble |-> 7 * Spread(members, BaseGrid), depends |-> Dependency(c, r, conf.base_reliable)]

RobustLimit(r, m) ==
  Min({Cap(m.count < 2, 60), Cap(m.aligned < 40, 45), Cap(m.aligned < 60, 65),
       Cap(r.critical /\ m.quality < 40, 45), Cap(r.critical /\ m.quality < 60, 60),
       Cap(m.wobble > 100, 55), Cap(m.depends > 20, 60),
       Cap(r.contradiction >= 75, 30), Cap(r.contradiction >= 50, 50)})

RobustGates(c, r, family, m, score) ==
  [robust_opportunity_threshold |-> score >= 72, ensemble_median |-> m.median >= 75,
   weight_stability |-> m.wobble <= 60, component_independence |-> m.depends <= 15,
   causal_provenance_independence |-> /\ m.count >= 2
     /\ \/ PrimaryOrigins(c, family) # {}
        \/ Cardinality(StrongOrigins(c, family)) >= 2,
   event_cutoff_alignment |-> m.aligned >= 60,
   critical_fundamental_data_quality |-> ~r.critical \/ m.quality >= 60,
   no_material_evidence_contradiction |-> r.contradiction < 50,
   execution_friction |-> Friction(c) <= 150]
  ++ Keep(r.gates, DOMAIN r.gates \ V34Gates)

(* The names earlier releases gave the gates that are new here.             *)
Aliased(gates) ==
  [causal_evidence_independence |-> gates.causal_provenance_independence,
   conservative_opportunity_threshold |-> gates.robust_opportunity_threshold,
   score_stability |-> gates.weight_stability,
   stress_gate_pass_rate |-> gates.ensemble_median /\ gates.component_independence,
   not_extreme_microcap |-> TRUE] ++ gates

RobustResult(r, m, limit, score, gates) ==
  [conf |-> m.conf, limit |-> limit]
  ++ Gated(r, score, gates, Severe(r) \/ r.contradiction >= 75 \/ score < 40, 48)
Limited(c, r, m, limit) ==
  LET score == AtMost(AtLeast(0, m.quartile - FrictionPenalty(c)), limit)
  IN RobustResult(r, m, limit, score, Aliased(RobustGates(c, r, Family(r.name), m, score)))
Measured(c, r, m) == Limited(c, r, m, RobustLimit(r, m))
Weighed(c, r, robust, conf) ==
  Measured(c, r, Measures(c, r, Family(r.name), robust, conf,
    [m \in Grid |-> ScenarioScore(c, r, r.scenarios[m[1]], WeightSets[m[2]], conf[m[1]])]))
(* a scenario confidence of 0 reads as absent *)
Clustered(c, r, robust) ==
  Weighed(c, r, robust, [n \in DOMAIN r.scenarios |->
    IF r.scenarios[n].conf = 0 THEN robust ELSE AtMost(robust, r.scenarios[n].conf)])
Robustness(c, r) == Clustered(c, r, AtMost(r.conf, ClusterCap(c, Family(r.name))))

-----------------------------------------------------------------------------
(* v3.9: the audited spread *)

(* Variant: the threshold gates and, with them, those on fit and survival. *)
AliasesWide == {"opportunity_threshold", "conservative_opportunity_threshold",
  "causal_evidence_independence", "score_stability", "stress_gate_pass_rate",
  "survivability", "three_session_fit"}
Aliases == {"opportunity_threshold", "conservative_opportunity_threshold",
  "causal_evidence_independence", "score_stability", "stress_gate_pass_rate"}

(* The quote the market record was taken from: a spread that disagrees with  *)
(* it, a crossed or late quote and one older than five minutes are refused.  *)
(* Variant: an old quote is as good as a fresh one. *)
ExecutionInputsOld(c) == /\ c.mkt.spread # Missing /\ c.mkt.spread <= 2000 /\ c.mkt.dollars > 0
                         /\ c.quote # "crossed"
ExecutionInputs(c) == /\ c.mkt.spread # Missing /\ c.mkt.spread <= 2000 /\ c.mkt.dollars > 0
                      /\ c.quote \in {"absent", "observed"}

(* Each component less a fifth of itself, at least ten points, weights fixed *)
AdverseDrop(r, conf) ==
  LET s    == r.scenarios.base_reliable
      raw(values) == Discounted(values, Balanced, conf, s.tail)
      less(k) == [s.values EXCEPT ![k] = AtLeast(0, @ - AtLeast(10, @ \div 5))]
  IN Max({AtLeast(0, raw(s.values) - raw(less(k))) : k \in DOMAIN Balanced})

AuditedConf(r, n) == AtMost(r.conf, r.scenarios[n].conf)
AuditedRaw(r) ==
  [m \in Grid |-> Discounted(r.scenarios[m[1]].values, WeightSets[m[2]],
                             AuditedConf(r, m[1]), r.scenarios[m[1]].tail)]
AuditedMembers(c, r, raw) ==
  [m \in Grid |-> AtMost(r.limit,
     AtLeast(0, Min({raw[m], EconomicCap(c, r, r.scenarios[m[1]].tail), r.external})
                - FrictionPenalty(c)))]
AuditedGates(c, r, raw, members) ==
  LET (* a base grid pressed flat by a cap measures no stability *)
      flat  == /\ Spread(members, BaseGrid) = 0
               /\ \/ members[<<"base_reliable", "balanced">>] = 0
                  \/ Spread(raw, BaseGrid) > 0
      flips == Cardinality({members[m] >= 72 : m \in BaseGrid}) = 2
  IN [robust_opportunity_threshold |-> LowerQuartile(members) >= 72,
      ensemble_median |-> Median(members) >= 75,
      weight_stability |-> ~flat /\ 7 * Spread(raw, BaseGrid) <= 60 /\ ~flips,
      component_independence |-> AdverseDrop(r, AuditedConf(r, "base_reliable")) <= 15,
      complete_sensitivity_grid |-> TRUE,
      execution_input_integrity |-> ExecutionInputs(c),
      execution_friction |-> Friction(c) <= 150,
      measured_stress_acceptance |->
        5 * Cardinality({m \in Grid : Acceptable(r.scenarios[m[1]], members[m])})
          >= 3 * Cardinality(Grid)]
AuditedResult(c, r, raw, members) ==
  [score |-> LowerQuartile(members),
   gates |-> AuditedGates(c, r, raw, members)
             ++ Keep(r.gates, DOMAIN r.gates \ Aliases)] ++ r
Audited(c, r) == AuditedResult(c, r, AuditedRaw(r), AuditedMembers(c, r, AuditedRaw(r)))

Decided(r) ==
  [verdict |-> Verdict(\/ Severe(r) \/ r.class = "capital_distress" \/ r.contradiction >= 75
                       \/ r.score < 48, r.gates, r.score, 48)] ++ r

-----------------------------------------------------------------------------
(* v3.9: the candidate without one source *)

NoFilings ==
  [coverage |-> 0, age |-> Missing, cash |-> Missing, liabilities |-> Missing,
   equity |-> Missing, revenue |-> Missing, margin |-> Missing, margin_delta |-> Missing,
   operating_margin |-> Missing, cash_flow |-> Missing, shares_yoy |-> Missing,
   runway |-> Missing, current |-> Missing, debt |-> Missing, mcap |-> Missing,
   gap |-> Missing, flags |-> {}, root |-> "none"]

(* The filings go with the source they came from. *)
Without(c, family, o) ==
  [c EXCEPT !.news = @ \ Cluster(c, family, o), !.fund = IF @.root = o THEN NoFilings ELSE @]

Inner(c) == Robustness(c, Reliability(c, Economics(c, Hierarchy(c, Base(c)))))
Replay(c) == Decided(Audited(c, Inner(c)))

(* Variant: the filing is not removed. *)
SourceRemovalKept(c, r) ==
  LET family  == Family(r.name)
      origins == Origins(c, family)
      tried   == origins \ PrimaryOrigins(c, family)
      replays == [o \in tried |-> Replay(Without(c, family, o))]
      complete == c.reproduced /\ origins # {} /\ Cardinality(origins) <= MaxReplays
  IN [gates |-> [source_removal_robustness |->
                   complete /\ \A o \in tried : replays[o].score >= 48 /\ ~replays[o].veto,
                 declared_origin_independence |-> Cardinality(origins) >= 2] ++ r.gates] ++ r
SourceRemoval(c, r) ==
  LET family  == Family(r.name)
      origins == Origins(c, family)
      replays == [o \in origins |-> Replay(Without(c, family, o))]
      complete == c.reproduced /\ origins # {} /\ Cardinality(origins) <= MaxReplays
  IN [gates |-> [source_removal_robustness |->
                   complete /\ \A o \in origins : replays[o].score >= 48 /\ ~replays[o].veto,
                 declared_origin_independence |-> Cardinality(origins) >= 2] ++ r.gates] ++ r

-----------------------------------------------------------------------------

Init == /\ cand \in {[c EXCEPT !.news = Prepared(@)] : c \in Candidates}
        /\ layer = "none"
        /\ res = << >>

Rescore(from, to, result) ==
  /\ layer = from /\ layer' = to
  /\ res' = result
  /\ UNCHANGED cand

V31 == Rescore("none", "v31", Base(cand))
V32 == Rescore("v31", "v32", Hierarchy(cand, res))
V33 == Rescore("v32", "v33", Economics(cand, res))
V34 == Rescore("v33", "v34", Reliability(cand, res))
V35 == Rescore("v34", "v35", Robustness(cand, res))
V39 == Rescore("v35", "v39", Decided(SourceRemoval(cand, Audited(cand, res))))

Next == V31 \/ V32 \/ V33 \/ V34 \/ V35 \/ V39
Spec == Init /\ [][Next]_vars

-----------------------------------------------------------------------------
(* Properties *)

Layers == <<"none", "v31", "v32", "v33", "v34", "v35", "v39">>

(* Every score, confidence and component of every release is a point of      *)
(* 0..100, whatever a release subtracts, and the verdict is one of three.    *)
TypeOK ==
  /\ layer \in {Layers[i] : i \in DOMAIN Layers}
  /\ layer = "none" <=> res = << >>
  /\ layer # "none" =>
       /\ \A k \in {"score", "conf", "setup", "confirm", "catalyst", "resilience",
                    "damage", "rever", "horizon"} : res[k] \in 0..100
       /\ res.verdict \in {"PASS", "WATCH", "INVESTIGATE"}
  /\ layer \in {"v33", "v34", "v35", "v39"} =>
       \A k \in {"over", "surv", "fit", "tail"} : res[k] \in 0..100
  /\ layer \in {"v34", "v35", "v39"} =>
       \A n \in DOMAIN res.scenarios :
         LET s == res.scenarios[n]
         IN /\ {s.conf, s.tail} \subseteq 0..100
            /\ \A k \in DOMAIN s.values : s.values[k] \in 0..100

(* The gates of v3.3 that no later release replaces *)
EconomicGateNames == {"cause_verified_or_strong_partial", "evidence_confidence",
  "overreaction_quality", "survivability", "three_session_fit", "damage_not_high",
  "tail_risk_acceptable", "critical_fundamentals_available", "no_structural_veto",
  "no_capital_distress", "dilution_not_material", "dilution_not_severe",
  "post_spike_not_dominant", "liquidity", "spread_quality", "regular_session_confirmation"}

(* INVESTIGATE is published only over evidence that still supports it: the    *)
(* gates on confidence and cause were evaluated in v3.3, before v3.4 and v3.5  *)
(* lowered the confidence and could call the cause conflicting, and v3.9       *)
(* copies them; the published figures pass them all the same.                  *)
InvestigateIsSound ==
  layer = "v39" /\ res.verdict = "INVESTIGATE" =>
    /\ res.conf >= 65 /\ res.cause = "VERIFIED" /\ res.contradiction < 50
    /\ res.score >= 72 /\ res.damage <= 60 /\ res.tail <= 60
    /\ {a.origin : a \in CausalTo(cand, Family(res.name))} # {}
    /\ cand.mkt.dollars >= 2000 /\ ~cand.mkt.extended /\ cand.quote \notin {"stale", "crossed"}

(* No single source carries an INVESTIGATE: without any one of them the        *)
(* candidate would still not be passed over.  The gate that v3.9 computes asks *)
(* for a score of 48 and no veto only; the verdict of the replay, with its     *)
(* other reasons to pass, is never looked at.                                  *)
InvestigateSurvivesRemoval ==
  layer = "v39" /\ res.verdict = "INVESTIGATE" =>
    \A a \in CausalTo(cand, Family(res.name)) :
      Replay(Without(cand, Family(res.name), a.origin)).verdict # "PASS"

(* A gate that v3.3 shut stays shut to the end.  The releases after it build   *)
(* their gates by naming those they replace: none of the lists drops a gate    *)
(* that has no replacement, and none evaluates one anew that the candidate     *)
(* would then pass.                                                           *)
ShutGatesStayShut ==
  [][\A g \in EconomicGateNames :
       (layer \in {"v33", "v34", "v35"} /\ ~res.gates[g])
         => g \in DOMAIN res'.gates /\ ~res'.gates[g]]_vars
================================================================================
