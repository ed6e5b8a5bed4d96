---------------------------- MODULE ScoringEconomics ----------------------------
(****************************************************************************)
(* The component scores of one candidate, from its market record and its     *)
(* filings: setup, confirmation, resilience, and from them the scores of the *)
(* three-session thesis: overreaction, survivability, fit, tail risk.        *)
(*                                                                          *)
(* Whole points and whole per cents; shock_z, ATR multiple, relative volume, *)
(* current ratio and VWAP distance are in tenths, spread in hundredths of a  *)
(* per cent, dollar volume in thousands, market capitalisation in millions.  *)
(****************************************************************************)
EXTENDS ScoringEvidence, Sequences

(* 0 for an absent figure *)
Rate(v, rows, rest) == IF v = Missing THEN 0 ELSE Ladder(v, rows, rest)
Fallen(v) == IF v = Missing THEN Missing ELSE AtLeast(-v, 0)

Linear(v, low, high, from, to, fallback) ==
  IF v = Missing THEN fallback
  ELSE LET at == Max({low, Min({high, v})})
       IN from + ((to - from) * (at - low) + (high - low) \div 2) \div (high - low)

-----------------------------------------------------------------------------
(* Weighted geometric means, by logarithms in thousandths *)

Ln ==
  << 0, 693, 1099, 1386, 1609, 1792, 1946, 2079, 2197, 2303, 2398, 2485, 2565,
     2639, 2708, 2773, 2833, 2890, 2944, 2996, 3045, 3091, 3135, 3178, 3219,
     3258, 3296, 3332, 3367, 3401, 3434, 3466, 3497, 3526, 3555, 3584, 3611,
     3638, 3664, 3689, 3714, 3738, 3761, 3784, 3807, 3829, 3850, 3871, 3892,
     3912, 3932, 3951, 3970, 3989, 4007, 4025, 4043, 4060, 4078, 4094, 4111,
     4127, 4143, 4159, 4174, 4190, 4205, 4220, 4234, 4248, 4263, 4277, 4290,
     4304, 4317, 4331, 4344, 4357, 4369, 4382, 4394, 4407, 4419, 4431, 4443,
     4454, 4466, 4477, 4489, 4500, 4511, 4522, 4533, 4543, 4554, 4564, 4575,
     4585, 4595, 4605 >>

(* The point whose logarithm is nearest below x. *)
ExpTable == [x \in 0..4605 |-> Max({v \in 1..100 : Ln[v] <= x})]
Total(v) == v.overreaction + v.reversibility + v.survivability + v.three_session_fit
            + v.confirmation + v.technical_exhaustion
Geometric(scores, weights) ==
  LET total == Total(weights)
      logs  == Total([k \in DOMAIN weights |-> weights[k] * Ln[AtLeast(1, Clamp(scores[k]))]])
  IN IF total = 0 THEN 0 ELSE ExpTable[AtMost(4605, (logs + total - 1) \div total)]

-----------------------------------------------------------------------------
(* Price damage and its confirmation *)

DropScore(m) == Linear(m.drop, 15, 45, 55, 95, 45)

Dislocation(m) ==
  LET shock == Linear(m.shock, 15, 50, 40, 98, DropScore(m))
      atr   == Linear(m.atr, 15, 50, 40, 98, shock)
  IN Pct(45 * DropScore(m) + 35 * shock + 20 * atr)

Liquidity(m) == IF m.dollars = Missing THEN 35
  ELSE Ladder(m.dollars, <<<<50000, 95>>, <<10000, 84>>, <<2000, 67>>, <<500, 45>>>>, 15)
SpreadScore(m) == IF m.spread = Missing THEN 35
  ELSE Ladder(m.spread, <<<<501, 12>>, <<201, 38>>, <<101, 68>>, <<51, 85>>>>, 95)

MovingAverageFall(m) ==
  LET known == {k \in {"sma20", "sma50"} : m[k] # Missing}
  IN IF known = {} THEN m.drop
     ELSE (AtLeast(0, Fallen(m.sma20)) + AtLeast(0, Fallen(m.sma50))) \div Cardinality(known)

(* A price still above its averages is an unwinding spike, not a setup. *)
SetupCap(m) ==
  LET above == AtLeast(m.sma20, m.sma50)
      calm(bound) == m.shock = Missing \/ m.shock < bound
  IN IF above >= 100 THEN 30
     ELSE IF above >= 50 THEN 40
     ELSE IF above >= 20 /\ calm(20) THEN 50
     ELSE IF above >= 10 /\ calm(15) THEN 55 ELSE 100

SetupScore(m) ==
  LET drop == DropScore(m)
      rsi  == IF m.rsi = Missing THEN AtMost(80, drop)
              ELSE Ladder(m.rsi, <<<<46, 18>>, <<36, 40>>, <<26, 68>>, <<16, 86>>>>, 95)
      sum  == 15 * drop + 20 * Linear(m.shock, 15, 50, 40, 98, drop)
        + 10 * Linear(IF m.drawdown = Missing THEN m.drop ELSE m.drawdown, 15, 60, 45, 92, drop)
        + 15 * Linear(MovingAverageFall(m), 10, 40, 40, 95, drop)
        + 10 * rsi + 10 * Linear(m.rvol, 8, 40, 32, 94, 45)
        + 10 * Linear(m.relative, 3, 25, 35, 95, 50)
        + 10 * Pct(60 * Liquidity(m) + 40 * SpreadScore(m))
  IN AtMost(Clamp(Pct(sum)), SetupCap(m))

ConfirmationScore(m) ==
  LET range    == Clamp(IF m.range = Missing THEN 30 ELSE m.range)
      reversal == IF m.from_open = Missing THEN 35 ELSE Clamp(50 + 7 * m.from_open)
      reclaim  == IF m.reclaim = Missing THEN 40 ELSE Clamp(35 + Pct(75 * m.reclaim))
      vwap     == Ladder(m.vwap, <<<<10, 88>>, <<0, 72>>, <<-10, 50>>, <<-900, 25>>>>, 35)
      volume   == IF m.rvol = Missing THEN 35
                  ELSE IF m.rvol >= 20 /\ range >= 55 THEN 88
                  ELSE IF m.rvol * 10 >= 125 /\ range >= 45 THEN 70
                  ELSE IF range < 25 THEN 20 ELSE 46
      spread   == IF m.spread = Missing THEN 35
                  ELSE Ladder(m.spread, <<<<501, 10>>, <<201, 30>>, <<101, 62>>, <<51, 80>>>>, 92)
  IN Clamp(Pct(25 * range + 20 * reversal + 20 * reclaim + 15 * vwap + 10 * volume + 10 * spread))

(* The run-up before the fall: penalty and setup cap; below its baseline the *)
(* earlier run-up is context only.                                           *)
PostSpike(m) ==
  LET row == IF m.runup < 50 THEN <<0, 100>>
             ELSE Ladder(m.over_baseline, <<<<30, <<25, 35>>>>, <<10, <<18, 45>>>>,
                                            <<0, <<12, 55>>>>>>, <<4, 75>>)
      extreme == m.runup >= 100 /\ m.over_baseline >= 0
  IN [penalty |-> AtMost(30, row[1] + If(extreme, 4)),
      cap |-> IF extreme /\ m.over_baseline >= 10 THEN 32 ELSE row[2],
      dominant |-> m.runup >= 50 /\ m.over_baseline >= 0]

-----------------------------------------------------------------------------
(* Filings *)

Filed(fund) == fund.coverage > 0

Resilience(fund, sig, flags) ==
  LET sum == 50
        + Rate(fund.cash, <<<<30, 18>>, <<15, 10>>, <<5, 0>>>>, -15)
        + Rate(fund.liabilities, <<<<90, -22>>, <<80, -10>>, <<51, 0>>>>, 10)
        + Rate(fund.equity, <<<<30, 10>>, <<13, 0>>, <<6, -8>>>>, -20)
        + Rate(fund.revenue, <<<<10, 10>>, <<-9, 0>>, <<-24, -8>>>>, -16)
        + Rate(fund.margin, <<<<5, 8>>, <<0, 0>>, <<-19, -7>>>>, -14)
        + Rate(fund.margin_delta, <<<<5, 5>>, <<-9, 0>>>>, -10)
        + Rate(fund.shares_yoy, <<<<50, -25>>, <<20, -15>>, <<10, -7>>, <<-4, 0>>>>, 4)
      base  == IF ~Filed(fund) THEN 45
               ELSE IF fund.age > 180 THEN 45 + Pct(65 * (sum - 45)) ELSE sum
      event == IF "existential" \in sig THEN AtMost(base, 18)
               ELSE IF "catastrophic" \in sig THEN AtMost(base, 20)
               ELSE base - If("dilution" \in sig, 10)
  IN Clamp(event + If(sig \cap Reversible # {}, 5) - If("guidance_cut" \in sig, 6))

FilingConfidence(fund) ==
  IF ~Filed(fund) THEN 35
  ELSE Clamp(45 + 4 * AtMost(fund.coverage, 10)) - If(fund.age > 180, 12)

CriticalProfiles == {"financing_benign", "material_dilution", "capital_distress",
  "quantified_earnings_deterioration", "earnings_miss", "guidance_reset",
  "guidance_reduction", "listing_risk"}

(* x: event name, signals, damage and financing class, as in ScoringLayers *)
Critical(x) ==
  x.name \in CriticalProfiles \/ x.class # "not_applicable" \/ x.damage >= 55
    \/ "existential" \in x.sig

ClassCaps == [capital_distress |-> 10, material_dilution |-> 38, financing_benign |-> 68,
              not_applicable |-> 100]

Survivability(base, fund, x) ==
  LET runway == IF fund.runway = Missing THEN 100
                ELSE Ladder(fund.runway, <<<<12, 100>>, <<6, 45>>, <<3, 25>>>>, 12)
      moved  == AtMost(base, runway) + If(fund.runway >= 24, 8)
                + Rate(fund.current, <<<<15, 6>>, <<7, 0>>>>, -15)
                - Ladder(fund.debt, <<<<75, 18>>, <<50, 8>>>>, 0)
                + Rate(fund.cash, <<<<20, 6>>, <<3, 0>>>>, -12)
      solid  == IF fund.liabilities >= 100 THEN AtMost(moved, 15) ELSE moved
      shares == solid - If(fund.shares_yoy >= 20 /\ fund.shares_yoy < 50, 12)
      caps   == {100, ClassCaps[x.class]}
                \cup {c \in {30} : fund.shares_yoy >= 50}
                \cup {c \in {8} : "existential" \in x.sig}
                \cup {c \in {20} : "primary_failure" \in x.sig}
                \cup {c \in {18} : x.damage >= 80}
                \cup {c \in {45} : x.damage >= 65 \/ (Critical(x) /\ ~Filed(fund))}
  IN Clamp(AtMost(shares, Min(caps)))

-----------------------------------------------------------------------------
(* The three-session thesis *)

FitTable == [temporary_operational_issue |-> 88, temporary_disruption_resolved |-> 95,
  guidance_reaffirmed |-> 82, analyst_action |-> 68,
  secondary_endpoint_miss_primary_intact |-> 62, financing_benign |-> 58,
  management_departure |-> 48, earnings_miss |-> 46, quantified_earnings_deterioration |-> 42,
  guidance_reduction |-> 35, regulatory_issue |-> 30, litigation |-> 30, security_breach |-> 30,
  control_transaction |-> 25, post_spike_unwind |-> 20, material_dilution |-> 20,
  listing_risk |-> 18, capital_distress |-> 8, binary_thesis_failure |-> 5,
  fraud_or_governance |-> 5, unknown |-> 30]

(* A name the table does not know gets at most 55. *)
ThreeSessionFit(name, horizon, damage) ==
  IF name \in DOMAIN FitTable THEN FitTable[name]
  ELSE Clamp(AtMost(55, Pct(55 * horizon + 45 * AtLeast(5, 100 - damage))))

Overreaction(setup, x) ==
  LET value == 50 + Pct(55 * (setup - 50) + 35 * (x.rever - 50) - 80 * (x.damage - 50))
      caps  == {100} \cup {c \in {45} : x.cause = "UNVERIFIED"}
               \cup {c \in {40} : x.cause = "CONFLICTING"} \cup {c \in {30} : x.spiked}
  IN Clamp(AtMost(value, Min(caps)))

StructuralProfiles == {"capital_distress", "binary_thesis_failure", "fraud_or_governance",
  "existential_or_solvency"}

TailRisk(x, survivability) ==
  Clamp(Max({x.damage, x.severity, Ladder(-survivability, <<<<-24, 85>>, <<-44, 70>>>>, 0)}
    \cup {s \in {100} : x.veto}
    \cup {s \in {90} : x.name \in StructuralProfiles \/ "existential" \in x.sig}
    \cup {s \in {92} : "primary_failure" \in x.sig}
    \cup {s \in {95} : x.class = "capital_distress"}))
=============================================================================
