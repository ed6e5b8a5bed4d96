----------------------------- MODULE ScoringLayers -----------------------------
(****************************************************************************)
(* The layers of the scorer up to v3.4.  Each release wraps score_candidate  *)
(* of the one before it and rewrites part of its result: v3.1 components,    *)
(* v3.2 cause and financing, v3.3 economics, v3.4 reliability.  What a later *)
(* release does not rewrite stays as an earlier one left it.                 *)
(*                                                                          *)
(* A candidate c is the evidence, market, filings and quote at its cutoff; a *)
(* result r is a record that every layer extends.                            *)
(****************************************************************************)
EXTENDS ScoringEconomics

(* The fields of f, then those that only g has.                             *)
f ++ g == [k \in DOMAIN f \cup DOMAIN g |-> IF k \in DOMAIN f THEN f[k] ELSE g[k]]

Cap(test, value) == IF test THEN value ELSE 100
Open(gates) == \A g \in DOMAIN gates : gates[g]
Verdict(pass, gates, score, watch) ==
  IF pass THEN "PASS" ELSE IF Open(gates) THEN "INVESTIGATE"
  ELSE IF score >= watch THEN "WATCH" ELSE "PASS"

-----------------------------------------------------------------------------
(* v3.1: the components *)

ShrunkTo50(core, conf) == 50 + Pct((core - 50) * conf)
Core(s) == Pct(25 * s.setup + 35 * s.catalyst + 15 * s.resilience + 25 * s.confirm)

EventParts(c, arts, sig, p, verified, quality) ==
  LET market == Clamp(Pct(65 * Dislocation(c.mkt) + 35 * p.rever - 45 * p.damage) + 25)
  IN [sig |-> sig, name |-> p.name, damage |-> p.damage, rever |-> p.rever,
      horizon |-> p.horizon, setup |-> SetupScore(c.mkt), confirm |-> ConfirmationScore(c.mkt),
      catalyst |-> AtMost(Clamp(Pct(50 * p.rever + 25 * p.horizon + 25 * market)),
                          Cap(~verified, 35)),
      resilience |-> Resilience(c.fund, sig, RiskFlags(arts, c.fund)),
      conf |-> Clamp(Pct(65 * quality + 25 * c.mkt.complete + 10 * FilingConfidence(c.fund))),
      cause |-> CauseStatus(c.news, verified, Conflicting(sig), quality),
      lead |-> Said(Leading(arts)), verified |-> verified, veto |-> p.name \in VetoProfiles]

BaseScore(r) ==
  LET penalty == AtMost(15, AtLeast(0, r.damage - 25) \div 5)
  IN Min({Clamp(ShrunkTo50(Core(r), r.conf) - penalty),
          Ladder(r.damage, <<<<85, 20>>, <<70, 40>>, <<50, 65>>, <<30, 85>>>>, 100),
          Cap(~r.verified, 60), Cap(r.veto, 20)})

BaseResult(r, score) ==
  [score |-> score,
   verdict |-> IF r.veto \/ score < 55 THEN "PASS"
               ELSE IF score >= 75 /\ r.verified THEN "INVESTIGATE" ELSE "WATCH"] ++ r

Scored(r) == BaseResult(r, BaseScore(r))
Judged(c, arts, sig, p, recognised) ==
  Scored(EventParts(c, arts, sig, p, arts # {} /\ recognised,
                    SourceQuality(arts, recognised, Conflicting(sig))))
Explained(c, arts, sig) ==
  Judged(c, arts, sig,
         Adjusted(Quantified(EventProfile(sig, IF arts = {} THEN "other" ELSE c.class),
                             arts, c.mkt), sig, RiskFlags(arts, c.fund), arts),
         CauseRecognised(sig, arts, c.mkt))
Attributed(c, arts) == Explained(c, arts, Signals(arts, c.fund))
Base(c) == Attributed(c, Causal(c.news))

-----------------------------------------------------------------------------
(* v3.2: price path, financing and cause *)

Taxonomy(r, class, spiked) ==
  IF class # "not_applicable" THEN class
  ELSE IF spiked THEN "post_spike_unwind"
  ELSE IF r.name = "quantified_earnings_deterioration" THEN r.name
  ELSE IF "guidance_cut" \in r.sig THEN "guidance_reduction"
  ELSE IF "temporary" \in r.sig THEN "temporary_operational_issue"
  ELSE IF "analyst" \in r.sig THEN "analyst_action"
  ELSE IF "primary_failure" \in r.sig THEN "binary_thesis_failure"
  ELSE IF "fda_rejection" \in r.sig THEN "regulatory_issue"
  ELSE IF "fraud" \in r.sig THEN "fraud_or_governance"
  ELSE IF "legal" \in r.sig
       THEN IF "lawsuit_title" \in r.lead THEN "litigation" ELSE "regulatory_issue"
  ELSE IF "sector_selloff" \in r.sig THEN "sentiment_overreaction"
  ELSE r.name

FinancedParts(r, fin, spike) ==
  [class |-> fin.class, severity |-> fin.severity, spiked |-> spike.dominant,
   name |-> Taxonomy(r, fin.class, spike.dominant), veto |-> r.veto \/ fin.veto,
   setup |-> AtMost(r.setup, spike.cap),
   catalyst |-> Min({r.catalyst,
     Cap(fin.class = "capital_distress", 18),
     Cap(fin.class = "material_dilution", AtLeast(18, 68 - Pct(45 * fin.severity))),
     Cap(r.cause = "UNVERIFIED", 30), Cap(r.cause = "CONFLICTING", 28),
     Cap(r.cause = "PARTIALLY_VERIFIED", 55)}),
   damage |-> AtLeast(r.damage,
     CASE fin.class = "capital_distress" -> 88
       [] fin.class = "material_dilution" -> AtMost(82, 45 + Pct(45 * fin.severity))
       [] fin.class = "financing_benign" -> 35
       [] OTHER -> 0),
   resilience |-> AtMost(r.resilience, Cap(fin.class = "capital_distress", 22)),
   conf |-> Min({r.conf, Cap(r.cause = "UNVERIFIED", 45), Cap(r.cause = "CONFLICTING", 55)})] ++ r

HierarchyScore(r, spike) ==
  LET dilution == IF r.class = "financing_benign" THEN 0
                  ELSE AtMost(25, Pct(30 * AtLeast(0, r.severity - 25)))
      penalty  == AtMost(22, Pct(28 * AtLeast(0, r.damage - 20)))
  IN Min({Clamp(ShrunkTo50(Core(r), r.conf) - penalty - spike.penalty - dilution),
          Ladder(r.damage, <<<<80, 20>>, <<65, 42>>, <<50, 62>>, <<30, 82>>>>, 100),
          Cap(r.cause = "UNVERIFIED", 50), Cap(r.cause = "PARTIALLY_VERIFIED", 65),
          Cap(r.cause = "CONFLICTING", 45), Cap(r.veto, 20)})

HierarchyGates(c, r, spike, score) ==
  [score_threshold |-> score >= 75,
   cause_verified_or_strong_partial |-> \/ r.cause = "VERIFIED"
                                        \/ r.cause = "PARTIALLY_VERIFIED" /\ r.conf >= 75,
   evidence_confidence |-> r.conf >= 65, damage_not_high |-> r.damage <= 64,
   no_structural_veto |-> ~r.veto, no_capital_distress |-> r.class # "capital_distress",
   post_spike_not_dominant |-> spike.penalty <= 12, dilution_not_severe |-> r.severity <= 45,
   liquidity |-> c.mkt.dollars >= 500,
   spread_quality |-> c.mkt.spread # Missing /\ c.mkt.spread <= 500,
   market_data_completeness |-> c.mkt.complete >= 50]

(* A result with its score, its gates and the verdict they give.            *)
Gated(r, score, gates, pass, watch) ==
  [score |-> score, gates |-> gates, verdict |-> Verdict(pass, gates, score, watch)] ++ r

HierarchyResult(c, r, spike, score) ==
  Gated(r, score, HierarchyGates(c, r, spike, score),
        \/ r.veto \/ r.class = "capital_distress" \/ r.damage >= 80
        \/ score < 55 \/ (r.cause = "UNVERIFIED" /\ r.conf < 45), 0)
Financed(c, r, spike) == HierarchyResult(c, r, spike, HierarchyScore(r, spike))
Unspiked(c, r, fin, spike) == Financed(c, FinancedParts(r, fin, spike), spike)
Hierarchy(c, r) == Unspiked(c, r, Financing(c.news, c.fund), PostSpike(c.mkt))

-----------------------------------------------------------------------------
(* v3.3: the economics of a three-session thesis *)

Balanced == [overreaction |-> 28, reversibility |-> 22, survivability |-> 20,
  three_session_fit |-> 15, confirmation |-> 10, technical_exhaustion |-> 5]

(* Components weighed, discounted by confidence, less the tail penalty. *)
Discounted(values, weights, conf, tail) ==
  (Geometric(values, weights) * (3500 + 65 * conf) + 5000) \div 10000
    - AtMost(24, Pct(35 * AtLeast(0, tail - 40)))
(* Variant: what the penalty takes below zero is kept. *)
PreCapLoose(values, weights, conf, tail) == Discounted(values, weights, conf, tail)
PreCap(values, weights, conf, tail) == Clamp(Discounted(values, weights, conf, tail))

EconomicCap(c, r, tail) == Min({
  Cap(r.veto, 15), Cap(r.damage >= 80, 20), Cap(r.damage >= 65, 45),
  Cap(tail >= 90, 18), Cap(tail >= 75, 35),
  Cap(r.class = "capital_distress", 15), Cap(r.class = "material_dilution", 40),
  Cap(r.spiked, 30), Cap(r.cause = "UNVERIFIED", 45), Cap(r.cause = "CONFLICTING", 40),
  Cap(r.cause = "PARTIALLY_VERIFIED", 65), Cap(r.critical /\ ~Filed(c.fund), 55),
  Cap(c.mkt.extended, 50)})

Components(r) == [overreaction |-> r.over, reversibility |-> r.rever,
  survivability |-> r.surv, three_session_fit |-> r.fit, confirmation |-> r.confirm,
  technical_exhaustion |-> r.setup]

EconomicGates(c, r, score) ==
  [opportunity_threshold |-> score >= 72,
   cause_verified_or_strong_partial |-> \/ r.cause = "VERIFIED"
                                        \/ r.cause = "PARTIALLY_VERIFIED" /\ r.conf >= 75,
   evidence_confidence |-> r.conf >= 65, overreaction_quality |-> r.over >= 60,
   survivability |-> r.surv >= 55, three_session_fit |-> r.fit >= 55,
   damage_not_high |-> r.damage <= 60, tail_risk_acceptable |-> r.tail <= 60,
   critical_fundamentals_available |-> ~r.critical \/ Filed(c.fund),
   no_structural_veto |-> ~r.veto, no_capital_distress |-> r.class # "capital_distress",
   dilution_not_material |-> r.class # "material_dilution",
   dilution_not_severe |-> r.class # "material_dilution",
   post_spike_not_dominant |-> ~r.spiked, liquidity |-> c.mkt.dollars >= 2000,
   spread_quality |-> c.mkt.spread # Missing /\ c.mkt.spread <= 300,
   regular_session_confirmation |-> ~c.mkt.extended]

(* What makes every later release answer PASS, however high the score. *)
Severe(r) == r.veto \/ r.tail >= 90 \/ r.damage >= 80

ThesisParts(r, surv) ==
  [fit |-> ThreeSessionFit(r.name, r.horizon, r.damage), surv |-> surv,
   over |-> Overreaction(r.setup, r), tail |-> TailRisk(r, surv), critical |-> Critical(r)] ++ r
EconomicsResult(c, r, score) ==
  Gated(r, score, EconomicGates(c, r, score),
        Severe(r) \/ r.class = "capital_distress" \/ score < 40, 48)
Thesis(c, r) ==
  EconomicsResult(c, r, AtMost(PreCap(Components(r), Balanced, r.conf, r.tail),
                               EconomicCap(c, r, r.tail)))
Economics(c, r) == Thesis(c, ThesisParts(r, Survivability(r.resilience, c.fund, r)))

-----------------------------------------------------------------------------
(* v3.4: relevance, contradictions, friction and downside scenarios *)

FamilyOf == [capital_distress |-> "financing", material_dilution |-> "financing",
  financing_benign |-> "financing", survivable_financing_or_dilution |-> "financing",
  catastrophic_financing |-> "financing", listing_risk |-> "financing",
  quantified_earnings_deterioration |-> "earnings", guidance_reduction |-> "earnings",
  guidance_reset |-> "earnings", guidance_reaffirmed |-> "earnings",
  earnings_miss |-> "earnings", clinical_safety_or_hold |-> "clinical",
  secondary_endpoint_miss_primary_intact |-> "clinical", regulatory_issue |-> "regulatory",
  temporary_operational_issue |-> "operations", temporary_disruption_resolved |-> "operations",
  fraud_or_governance |-> "legal", litigation |-> "legal", analyst_action |-> "analyst",
  control_transaction |-> "transaction", post_spike_unwind |-> "spike",
  existential_or_solvency |-> "solvency"]
Family(name) == IF name \in DOMAIN FamilyOf THEN FamilyOf[name] ELSE "unknown"

(* What an article says when one of the family's keywords is in it. *)
Keywords == [financing |-> {"offering", "convertible", "warrant", "private_placement"},
  earnings |-> {"guidance_cut", "guidance_reaffirmed", "earnings_miss", "earnings_release"},
  clinical |-> {"primary_failure", "primary_success", "secondary_miss", "safety"},
  regulatory |-> {"fda_rejection", "clinical_hold", "approval"},
  operations |-> {"temporary", "resumed", "customer_loss"},
  legal |-> {"lawsuit", "fraud"}, analyst |-> {"analyst", "target_cut", "target_raise"},
  transaction |-> {"merger"}, spike |-> {"rally"},
  solvency |-> {"bankruptcy", "going_concern", "going_concern_other"}, unknown |-> {}]

Matching(c, family) == {a \in c.news : a.says \cap Keywords[family] # {}}
CausalTo(c, family) == {a \in Matching(c, family) : ~a.context /\ a.age <= 96}

(* In tenths *)
Authority(a) == IF a.primary THEN IF a.context THEN 22 ELSE 30
  ELSE CASE a.standing = "major" -> 22 [] a.standing = "release" -> 20 [] OTHER -> 12
Best(arts) == Max({Authority(a) : a \in arts})
Sources(arts) == Cardinality({a.source : a \in arts})

Claims == [guidance |-> <<{"guidance_reaffirmed"}, {"guidance_cut"}>>,
  operations |-> <<{"resumed"}, {"temporary"}>>,
  clinical |-> <<{"primary_success"}, {"primary_failure"}>>,
  regulatory |-> <<{"approval"}, {"fda_rejection", "clinical_hold"}>>,
  financing |-> <<{"non_dilutive"}, {"warrant", "convertible", "deep_discount"}>>,
  solvency |-> <<{"liquidity"}, {"bankruptcy", "going_concern", "going_concern_other"}>>]

(* Contradicted by the evidence, unless news of a resumption or of an        *)
(* approval is the later.                                                   *)
Side(c, claim, i) == {a \in c.news : a.says \cap Claims[claim][i] # {}}
Unresolved(c) == {claim \in DOMAIN Claims :
  LET pos == Side(c, claim, 1)
      neg == Side(c, claim, 2)
  IN /\ pos # {} /\ neg # {}
     /\ claim \in {"operations", "regulatory"} => Min({a.age : a \in pos}) >= Min({a.age : a \in neg})}

Contradiction(c) ==
  LET weight(claim) ==
        LET pos == Side(c, claim, 1)
            neg == Side(c, claim, 2)
            filed(side) == \E a \in side : a.primary
        IN 20 + AtMost(Best(pos), Best(neg)) + If(filed(pos) \/ filed(neg), 10)
           + If(filed(pos) /\ filed(neg), 10)
      part(claim) == IF claim \in Unresolved(c) THEN weight(claim) ELSE 0
  IN Clamp(part("guidance") + part("operations") + part("clinical") + part("regulatory")
           + part("financing") + part("solvency") + If(Cardinality(Unresolved(c)) > 1, 10))

(* Round trip, in hundredths of a per cent *)
Friction(c) ==
  LET slip == Ladder(c.mkt.dollars, <<<<100000, 8>>, <<25000, 15>>, <<5000, 30>>,
                                      <<2000, 55>>, <<500, 90>>>>, 150)
      small == IF c.fund.mcap = Missing THEN 0 ELSE Ladder(c.fund.mcap, <<<<75, 0>>, <<25, 18>>>>, 35)
  IN AtLeast(0, c.mkt.spread) + 2 * (slip + small)

ConfidenceCap(c, family, cause) ==
  LET causal  == CausalTo(c, family)
      quality == Sources({a \in Matching(c, family) : Authority(a) >= 20})
      filed   == \E a \in causal : a.primary
  IN IF cause = "CONFLICTING" THEN 42
     ELSE IF cause = "UNVERIFIED" THEN 45
     ELSE IF filed THEN IF Sources(causal) >= 2 THEN 95 ELSE 86
     ELSE IF quality >= 2 THEN 80
     ELSE IF quality = 1 THEN 68
     ELSE IF Sources(causal) >= 2 THEN 65 ELSE 52

ExternalCap(c, severity) == Min({Cap(severity >= 75, 30), Cap(severity >= 50, 50),
  Cap(c.fund.mcap # Missing /\ c.fund.mcap < 25, 40),
  Cap(c.fund.mcap # Missing /\ c.fund.mcap < 75, 65)})

Uncertainty(c, r, family) ==
  LET base  == AtLeast(3, Pct(18 * (100 - r.conf)))
      cause == (CASE r.cause = "VERIFIED" -> 0 [] r.cause = "PARTIALLY_VERIFIED" -> 8 [] OTHER -> 16)
               + Pct(10 * r.contradiction)
      late  == If(c.mkt.extended, 8)
      funds == (IF Filed(c.fund) THEN AtLeast(4, 14 - AtMost(10, c.fund.coverage)) ELSE 20)
               + If(c.fund.mcap # Missing /\ c.fund.mcap < 75, 5)
  IN [overreaction |-> AtMost(30, base + cause + late), reversibility |-> AtMost(30, base + cause),
      survivability |-> AtMost(30, base + funds),
      three_session_fit |-> AtMost(25, base + (IF family = "unknown" THEN 8 ELSE 2)),
      confirmation |-> AtMost(22, base + late), technical_exhaustion |-> AtMost(12, Pct(55 * base))]

(* The components, each in keys moved by share per cents of its uncertainty. *)
Moved(r, u, keys, share) ==
  [k \in DOMAIN u |-> IF k \in keys THEN Clamp(Components(r)[k] + Pct(share * u[k]))
                      ELSE Components(r)[k]]

Scenario(values, conf, tail) == [values |-> values, conf |-> AtLeast(0, conf), tail |-> Clamp(tail)]
Downside == {"base_reliable", "evidence_downside", "financial_downside", "timing_downside",
  "joint_downside"}
Scenarios(r, u) == [
  base_reliable |-> Scenario(Components(r), r.conf, r.tail),
  evidence_downside |-> Scenario(Moved(r, u, {"overreaction", "reversibility"}, -100),
                                 r.conf - 10, r.tail + Pct(10 * r.contradiction)),
  financial_downside |-> Scenario(Moved(r, u, {"survivability"}, -100), r.conf,
                                  r.tail + AtLeast(8, Pct(65 * u.survivability))),
  timing_downside |-> Scenario(Moved(r, u, {"three_session_fit", "confirmation"}, -100),
                               r.conf, r.tail + 5),
  joint_downside |-> Scenario(Moved(r, u, DOMAIN u, -65), r.conf - 10, r.tail + 12),
  modest_upside |-> Scenario(Moved(r, u, DOMAIN u, 35), r.conf, r.tail - 5)]

ScenarioScore(c, r, s, weights, conf) ==
  Min({PreCap(s.values, weights, conf, s.tail), EconomicCap(c, r, s.tail), r.external})

(* Past the score and the component thresholds under a scenario *)
Acceptable(s, score) == /\ score >= 72 /\ s.values.overreaction >= 60
                        /\ s.values.survivability >= 55 /\ s.values.three_session_fit >= 55
                        /\ s.tail <= 60

(* The mean of the two worst, less friction and, without filings, a haircut. *)
Conservative(c, conf, severity, score) ==
  LET lowest  == CHOOSE n \in Downside : \A m \in Downside : score[n] <= score[m]
      second  == Min({score[n] : n \in Downside \ {lowest}})
      haircut == IF Filed(c.fund) THEN 0 ELSE AtMost(6, AtMost(12, conf) \div 4)
  IN Min({AtLeast(0, (score[lowest] + second) \div 2 - AtMost(15, Pct(4 * Friction(c))) - haircut),
          Cap(severity >= 75, 30), Cap(severity >= 50, 50)})

ReliabilityGates(c, family, s, score, severity, final) ==
  [conservative_opportunity_threshold |-> final >= 72,
   score_stability |-> 2 * (Max({score[n] : n \in DOMAIN s}) - Min({score[n] : n \in DOMAIN s})) <= 30,
   stress_gate_pass_rate |-> Cardinality({n \in Downside : Acceptable(s[n], score[n])}) >= 3,
   no_material_evidence_contradiction |-> severity < 50,
   causal_evidence_independence |->
     \/ \E a \in CausalTo(c, family) : a.primary
     \/ Sources({a \in Matching(c, family) : Authority(a) >= 20}) >= 2
     \/ Sources(CausalTo(c, family)) >= 2,
   execution_friction |-> Friction(c) <= 150,
   not_extreme_microcap |-> c.fund.mcap = Missing \/ c.fund.mcap >= 25]

(* A candidate without filings loses 12 points of confidence at the end.    *)
ReliabilityResult(c, r, s, score, final) ==
  [scenarios |-> s, conf |-> IF Filed(c.fund) THEN r.conf ELSE AtLeast(0, r.conf - 12)]
  ++ Gated(r, final, ReliabilityGates(c, Family(r.name), s, score, r.contradiction, final) ++ r.gates,
           Severe(r) \/ r.contradiction >= 75 \/ final < 40, 48)
Stressed(c, r, s, score) ==
  ReliabilityResult(c, r, s, score, Conservative(c, r.conf, r.contradiction, score))
Spanned(c, r, s) ==
  Stressed(c, r, s, [n \in DOMAIN s |-> ScenarioScore(c, r, s[n], Balanced, s[n].conf)])
Relevant(c, r) == Spanned(c, r, Scenarios(r, Uncertainty(c, r, Family(r.name))))
Doubted(c, r, severity, cause) ==
  Relevant(c, [contradiction |-> severity, cause |-> cause, external |-> ExternalCap(c, severity),
               conf |-> Clamp(AtMost(r.conf, ConfidenceCap(c, Family(r.name), cause))
                              - AtMost(25, Pct(18 * severity)))] ++ r)
Contested(c, r, severity) ==
  Doubted(c, r, severity, IF severity >= 60 THEN "CONFLICTING" ELSE r.cause)
Reliability(c, r) == Contested(c, r, Contradiction(c))
=============================================================================
