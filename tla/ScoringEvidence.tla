---------------------------- MODULE ScoringEvidence ----------------------------
(****************************************************************************)
(* What the scorer takes from the news: which articles count, what event    *)
(* they assert about the issuer, how damaging and reversible it is, how well *)
(* it is sourced, and what a financing does to the capital structure.        *)
(*                                                                          *)
(* Scores are whole points, percentages whole per cents, Missing is None.    *)
(* An article's text is the set of things it says, one token per word list   *)
(* of the code; two clauses of one article about the same thing are one      *)
(* token.  "bankruptcy" and "going_concern" are asserted of the issuer,      *)
(* "going_concern_other" of somebody else (its vendor, its customer);        *)
(* "lawsuit_title" says that the headline itself speaks of a lawsuit.        *)
(****************************************************************************)
EXTENDS Integers, FiniteSets, FiniteSetsExt

Missing == -1000

(* a/100 to the nearest point *)
Pct(a) == (a + 50) \div 100
Clamp(v) == Max({0, Min({100, v})})
AtLeast(a, b) == Max({a, b})
AtMost(a, b) == Min({a, b})
If(test, points) == IF test THEN points ELSE 0

(* The first row of a ladder whose bound v reaches, and what the rest get. *)
Ladder(v, rows, rest) ==
  LET hit == {i \in DOMAIN rows : v >= rows[i][1]}
  IN IF hit = {} THEN rest ELSE rows[Min(hit)][2]

-----------------------------------------------------------------------------
(* Evidence that exists at the cutoff *)

(* Hours from the article's latest version to the cutoff; an undated one and *)
(* one from after the cutoff are not evidence.                              *)
Available(a) == a.dated /\ a.age >= 0

LinkPoints == [untagged |-> 55, sole |-> 78, few |-> 48, many |-> 12, other |-> 0]

Relevance(a) ==
  LET raw == LinkPoints[a.link] + If(a.named, 18) + AtMost(24, 8 * a.hits)
             + If(a.titled, 10) + If(a.event, 7) - If(a.generic, 25)
  IN Clamp(IF a.generic /\ ~a.named /\ a.hits = 0 THEN AtMost(raw, 12) ELSE raw)

DirectEvent(a) == Relevance(a) >= 70 /\ a.event

Retained(news) == {a \in news : Available(a)}
Causal(news) == {a \in Retained(news) : Relevance(a) >= 48}
Said(arts) == UNION {a.says : a \in arts}

(* The primary catalyst: the most relevant article, of those the oldest.    *)
Leading(arts) ==
  {a \in arts : \A b \in arts : \/ Relevance(a) > Relevance(b)
                                \/ Relevance(a) = Relevance(b) /\ a.age >= b.age}

(* The class the scan gives the candidate from its news alone, whoever the   *)
(* words are about; the scorer takes it as given, in the replays too.       *)
CatalystClass(news) ==
  LET said == Said(Causal({a \in news : ~a.primary}))
  IN IF said \cap {"bankruptcy", "going_concern", "going_concern_other", "fraud"} # {} THEN "E"
     ELSE IF said \cap {"structural", "customer_loss"} # {} THEN "D" ELSE "other"

-----------------------------------------------------------------------------
(* Signals *)

(* Asserted of the issuer; of somebody else, conditional or denied does not *)
(* count here.                                                              *)
IssuerInsolvent == {"bankruptcy", "going_concern"}

RiskFlags(arts, fund) ==
  LET said == Said(arts)
      when == [solvency |-> IssuerInsolvent,
               dilution |-> {"offering", "convertible", "warrant", "private_placement"},
               clinical |-> {"primary_failure", "secondary_miss", "primary_success",
                             "fda_rejection"},
               legal |-> {"lawsuit", "fraud"},
               management |-> {"management_departure"},
               delisting |-> {"listing_deficiency"}]
  IN {f \in DOMAIN when : when[f] \cap said # {}} \cup fund.flags

(* Signals the words alone raise, and those only a biotechnology text can. *)
PlainSignals == {"temporary", "resumed", "sector_selloff", "guidance_cut",
  "guidance_reaffirmed", "earnings_miss", "fraud", "structural", "customer_loss",
  "security_breach", "management_departure"}
ClinicalSignals == {"primary_failure", "secondary_miss", "primary_success",
  "fda_rejection", "clinical_hold", "safety"}
OperatingMaterial == {"guidance_cut", "earnings_miss", "dilution", "primary_failure",
  "fda_rejection", "clinical_hold", "safety", "existential", "fraud", "structural",
  "customer_loss", "security_breach", "legal"}

(* Nothing but analysts moved the price: no operating event, no results. *)
AnalystOnly(base, said) ==
  /\ "analyst" \in base /\ base \cap OperatingMaterial = {}
  /\ "earnings_release" \notin said

Signals(arts, fund) ==
  LET said  == Said(arts)
      flags == RiskFlags(arts, fund)
      base  == (said \cap PlainSignals)
               \cup (IF "biotech" \in said THEN said \cap ClinicalSignals ELSE {})
               \cup {s \in {"existential"} : "solvency" \in flags}
               \cup {s \in {"dilution"} : "dilution" \in flags}
               \cup {s \in {"legal"} : "legal" \in flags}
               \cup {s \in {"management_departure"} : "management" \in flags}
               \cup {s \in {"listing_risk"} : "delisting" \in flags}
               \cup {s \in {"analyst"} : "analyst" \in said}
               \cup (said \cap {"target_cut", "target_raise"})
  IN base \cup {s \in {"analyst_only"} : AnalystOnly(base, said)}
          \cup {s \in {"catastrophic"} : {"dilution", "existential"} \subseteq base}

Profile(name, damage, rever, horizon) ==
  [name |-> name, damage |-> damage, rever |-> rever, horizon |-> horizon]

(* The first row one of whose signals is raised names the event. *)
EventTable == <<
  <<{"existential"},       Profile("existential_or_solvency", 95, 5, 5)>>,
  <<{"primary_failure"},   Profile("core_pivotal_trial_failure", 93, 8, 10)>>,
  <<{"catastrophic"},      Profile("catastrophic_financing", 91, 10, 12)>>,
  <<{"fraud"},             Profile("fraud_or_accounting", 88, 12, 15)>>,
  <<{"fda_rejection"},     Profile("fda_rejection_or_crl", 87, 15, 18)>>,
  <<{"structural", "customer_loss"},
                           Profile("structural_business_impairment", 82, 18, 22)>>,
  <<{"clinical_hold", "safety"}, Profile("clinical_safety_or_hold", 78, 24, 28)>>,
  <<{"guidance_cut"},      Profile("guidance_reset", 68, 32, 38)>>,
  <<{"legal"},             Profile("legal_or_regulatory", 62, 38, 45)>>,
  <<{"security_breach"},   Profile("security_breach", 60, 45, 52)>>,
  <<{"dilution"},          Profile("survivable_financing_or_dilution", 58, 46, 52)>>,
  <<{"earnings_miss"},     Profile("earnings_miss", 55, 45, 50)>>,
  <<{"miss_intact"},       Profile("secondary_endpoint_miss_primary_intact", 42, 60, 64)>>,
  <<{"management_departure"}, Profile("management_departure", 45, 54, 58)>>,
  <<{"listing_risk"},      Profile("listing_risk", 65, 36, 42)>>,
  <<{"resumed"},           Profile("temporary_disruption_resolved", 18, 93, 92)>>,
  <<{"temporary"},         Profile("temporary_operational_disruption", 25, 87, 86)>>,
  <<{"sector_selloff"},    Profile("broad_sector_risk_off", 18, 89, 86)>>,
  <<{"analyst_only"},      Profile("analyst_only", 20, 82, 80)>>,
  <<{"guidance_reaffirmed"}, Profile("guidance_reaffirmed", 25, 78, 76)>>>>

(* No signal names it: the class the scan gave does.                        *)
ClassProfile(class) ==
  CASE class = "D" -> Profile("structural_class_without_specific_rule", 76, 22, 28)
    [] class = "E" -> Profile("existential_class_without_specific_rule", 90, 10, 12)
    [] OTHER -> Profile("unknown", 45, 30, 35)

VetoProfiles == {"existential_or_solvency", "core_pivotal_trial_failure",
  "catastrophic_financing"}

EventProfile(sig, class) ==
  LET raised == sig \cup {s \in {"miss_intact"} :
                            {"secondary_miss", "primary_success"} \subseteq sig}
      rows   == {i \in DOMAIN EventTable : EventTable[i][1] \cap raised # {}}
      row    == EventTable[Min(rows)][2]
  IN IF rows = {} THEN ClassProfile(class)
     ELSE IF row.name = "analyst_only" /\ "target_cut" \in sig
          THEN [row EXCEPT !.damage = 27] ELSE row

-----------------------------------------------------------------------------
(* Quantified events *)

(* The worst figure of a kind that the causal text gives, in whole per cents. *)
Worst(arts, figure) ==
  LET given == {a.quant[figure] : a \in arts} \ {Missing}
  IN IF given = {} THEN Missing ELSE Max(given)

(* <<damage at least, reversibility at most, horizon at most>> *)
Harden(p, row) == [p EXCEPT !.damage = AtLeast(@, row[1]), !.rever = AtMost(@, row[2]),
                            !.horizon = AtMost(@, row[3])]
NoRow == <<0, 100, 100>>

PostSpikeText(arts, tech) ==
  \/ Worst(arts, "spike") >= 50
  \/ tech.sma20 >= 40
  \/ /\ tech.sma20 >= 20
     /\ tech.shock = Missing \/ tech.shock < 20

QuantifiedEarnings(arts) ==
  Worst(arts, "miss") > 2 \/ Worst(arts, "cut") > 2 \/ Worst(arts, "yoy") > 5

Quantified(p, arts, tech) ==
  LET miss  == Ladder(Worst(arts, "miss"),
                 <<<<30, <<78, 24, 30>>>>, <<15, <<68, 35, 42>>>>, <<5, <<58, 44, 100>>>>>>, NoRow)
      cut   == Ladder(Worst(arts, "cut"),
                 <<<<15, <<75, 28, 34>>>>, <<7, <<65, 38, 100>>>>, <<3, <<56, 100, 100>>>>>>, NoRow)
      yoy   == Ladder(Worst(arts, "yoy"),
                 <<<<40, <<80, 24, 30>>>>, <<20, <<68, 34, 100>>>>, <<10, <<58, 100, 100>>>>>>, NoRow)
      stake == Ladder(Worst(arts, "stake"),
                 <<<<90, <<72, 32, 40>>>>, <<50, <<60, 42, 100>>>>>>, NoRow)
      hard  == Harden(Harden(Harden(Harden(p, miss), cut), yoy), stake)
      takeover == Worst(arts, "stake") >= 50
  IN IF p.name # "unknown" THEN hard
     ELSE IF QuantifiedEarnings(arts)
          THEN [hard EXCEPT !.name = "quantified_earnings_deterioration"]
     ELSE IF takeover THEN [hard EXCEPT !.name = "control_transaction"]
     ELSE IF PostSpikeText(arts, tech)
          THEN [hard EXCEPT !.name = "post_spike_unwind", !.damage = AtMost(@, 35),
                            !.rever = AtLeast(@, 60), !.horizon = AtLeast(@, 58)]
     ELSE hard

-----------------------------------------------------------------------------
(* The event: profile after every rule that moves damage or reversibility *)

Reversible == {"temporary", "resumed", "sector_selloff", "analyst_only"}
StructuralSignals == {"structural", "existential", "guidance_cut", "primary_failure",
  "fda_rejection"}

Conflicting(sig) == sig \cap Reversible # {} /\ sig \cap StructuralSignals # {}

(* Lowering rules first, raising rules after them, as in the code. *)
Adjusted(p, sig, flags, arts) ==
  LET reaffirmed == "guidance_reaffirmed" \in sig /\ "guidance_cut" \notin sig
      intact     == {"primary_success", "secondary_miss"} \subseteq sig
      raised     == {"target_raise", "analyst_only"} \subseteq sig
      low == AtMost(AtMost(AtMost(p.damage, IF reaffirmed THEN 30 ELSE 100),
                           IF intact THEN 45 ELSE 100), IF raised THEN 18 ELSE 100)
      floors == {0} \cup {x \in {72} : Conflicting(sig)}
                \cup {x \in {60} : /\ "clinical" \in flags /\ "biotech" \in Said(arts)
                                   /\ "primary_success" \notin sig}
                \cup {x \in {55} : "dilution" \in flags}
                \cup {x \in {90} : "solvency" \in flags}
      up == AtLeast(AtLeast(p.rever, IF reaffirmed THEN 76 ELSE 0), IF raised THEN 86 ELSE 0)
  IN [p EXCEPT !.damage = AtLeast(low, Max(floors)),
               !.rever = IF Conflicting(sig) THEN AtMost(up, 35) ELSE up]

CauseRecognised(sig, arts, tech) ==
  \/ sig \ {"analyst", "target_cut", "target_raise", "primary_success"} # {}
  \/ QuantifiedEarnings(arts) \/ Worst(arts, "stake") >= 50 \/ PostSpikeText(arts, tech)

-----------------------------------------------------------------------------
(* How well the cause is sourced *)

Documents(arts) == {a \in arts : ~a.context}

SourceQuality(arts, recognised, conflicting) ==
  LET docs    == Documents(arts)
      sources == Cardinality({a.source : a \in docs})
      fresh   == Min({a.age : a \in docs})
      plain   == (CASE sources <= 1 -> 58 [] sources = 2 -> 70 [] sources = 3 -> 79 [] OTHER -> 85)
                 + If(\E a \in docs : a.standing # "plain", 9)
                 + (IF fresh <= 12 THEN 7 ELSE IF fresh <= 36 THEN 3 ELSE If(fresh > 72, -8))
                 - If(~recognised, 20) - If(conflicting, 14)
      backed  == AtLeast(plain, IF recognised /\ ~conflicting THEN 90 ELSE 58)
  IN IF docs = {} THEN 15
     ELSE IF \E a \in docs : a.primary
          THEN Clamp(IF conflicting THEN AtMost(backed, 72) ELSE backed)
     ELSE Clamp(plain)

(* verified: the cause was recognised in causal news *)
CauseStatus(news, verified, conflicting, quality) ==
  LET direct == \E a \in Retained(news) :
                  /\ ~a.generic
                  /\ DirectEvent(a) \/ (a.link = "untagged" /\ a.event /\ Relevance(a) >= 48)
  IN IF conflicting THEN "CONFLICTING"
     ELSE IF ~verified THEN IF Causal(news) = {} THEN "UNVERIFIED" ELSE "PARTIALLY_VERIFIED"
     ELSE IF quality >= 65 /\ direct THEN "VERIFIED" ELSE "PARTIALLY_VERIFIED"

-----------------------------------------------------------------------------
(* Financing *)

(* Read from every retained article, causal or not. *)
FinancingSeverity(said, fund) ==
  LET financing == said \cap {"offering", "private_placement", "convertible", "warrant"} # {}
  IN Clamp((IF financing THEN 20 ELSE 15)
     + Ladder(fund.shares_yoy, <<<<50, 35>>, <<25, 25>>, <<10, 12>>>>, 0)
     + If("deep_discount" \in said, 25) + If("convertible" \in said, 12)
     + If("warrant" \in said, 10) + If("repeated_raise" \in said, 15)
     + If("reverse_split" \in said, 25) + If("listing_deficiency" \in said, 20)
     + If(said \cap {"going_concern", "going_concern_other"} # {}, 35)
     + If(fund.cash # Missing /\ fund.cash <= 3, 15)
     + If(fund.liabilities # Missing /\ fund.liabilities >= 90, 10)
     + If(fund.equity # Missing /\ fund.equity <= 5, 10))

Financing(news, fund) ==
  LET said      == Said(Retained(news))
      financing == said \cap {"offering", "private_placement", "convertible", "warrant"} # {}
      concern   == said \cap {"going_concern", "going_concern_other"} # {}
      severity  == FinancingSeverity(said, fund)
      class     == IF severity >= 75 \/ {"reverse_split", "listing_deficiency"} \subseteq said
                      \/ concern THEN "capital_distress"
                   ELSE IF severity >= 40 THEN "material_dilution" ELSE "financing_benign"
  IN IF ~financing /\ ~concern /\ said \cap {"reverse_split", "listing_deficiency"} = {}
     THEN [class |-> "not_applicable", severity |-> 0, veto |-> FALSE]
     ELSE [class |-> class, severity |-> severity,
           veto |-> severity >= 85 \/ (concern /\ financing)]
=============================================================================
