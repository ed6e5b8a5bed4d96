------------------------------- MODULE MCScoring -------------------------------
(* Candidates for TLC: up to three of nine articles about one issuer in a      *)
(* market that turned, up to two of them in others and with other filings, and *)
(* the three that agree with copies, a late quote or a moved root; a lawsuit, a *)
(* hold that is lifted, and an outage whose company loses a client.            *)
EXTENDS Scoring

NoFigures == [miss |-> Missing, cut |-> Missing, yoy |-> Missing, stake |-> Missing,
              spike |-> Missing]
Article(id, origin, age, source, standing, says) ==
  [id |-> id, text |-> id, origin |-> origin, age |-> age, dated |-> TRUE, link |-> "sole",
   named |-> TRUE, hits |-> 3, titled |-> TRUE, event |-> TRUE, generic |-> FALSE,
   says |-> says, context |-> FALSE, primary |-> source = "sec", source |-> source,
   standing |-> standing, quant |-> NoFigures]

Outage  == Article(1, "company", 3, "ir", "release", {"temporary", "guidance_reaffirmed"})
Filing  == Article(2, "filing", 2, "sec", "release", {"temporary"})
Wire    == Article(3, "wire", 1, "reuters", "major", {"resumed", "guidance_reaffirmed"})
Copy    == Article(4, "company", 2, "dow", "major", {"temporary", "guidance_reaffirmed"})
Vendor  == Article(5, "vendor", 5, "blog", "plain", {"going_concern_other"})
Loss    == Article(6, "loss", 2, "ir", "release", {"customer_loss"})
Affirm  == Article(7, "filing", 2, "sec", "release", {"guidance_reaffirmed"})
Raise   == Article(8, "raise", 20, "ir", "release", {"offering", "warrant"})
Miss    == [Article(9, "wire", 8, "reuters", "major", {"earnings_miss", "guidance_cut"})
              EXCEPT !.quant.miss = 18]
Repost  == [Article(10, "company", 1, "blog", "plain", {"temporary", "guidance_reaffirmed"})
              EXCEPT !.text = 1]
Future  == [Article(11, "filing", -1, "sec", "release", {"resumed"}) EXCEPT !.text = 2]
Suit    == Article(13, "suit", 30, "reuters", "major", {"lawsuit", "lawsuit_title"})
Hold    == Article(14, "hold", 6, "reuters", "major", {"biotech", "clinical_hold"})
Lifted  == Article(15, "lifted", 2, "ir", "release", {"biotech", "approval"})
Client  == Article(16, "company", 2, "ir", "release", {"customer_loss"})
Local   == Article(12, "local", 4, "gazette", "plain", {"temporary"})

Articles == {Outage, Filing, Wire, Copy, Vendor, Loss, Affirm, Raise, Miss}

Calm == [drop |-> 28, shock |-> Missing, atr |-> 140, drawdown |-> 29, sma20 |-> -28,
  sma50 |-> -28, rsi |-> 0, rvol |-> 37, relative |-> Missing, dollars |-> 50000,
  spread |-> 25, range |-> 84, from_open |-> 18, reclaim |-> 28, vwap |-> 67,
  runup |-> 0, over_baseline |-> 0, extended |-> FALSE, complete |-> 92]
Thin == [Calm EXCEPT !.dollars = 1500, !.spread = 180, !.range = 30, !.from_open = -2,
                     !.complete = 60]
Late == [Calm EXCEPT !.extended = TRUE]
Spiked == [Calm EXCEPT !.runup = 80, !.over_baseline = 15]

Strong == [coverage |-> 18, age |-> 50, cash |-> 34, liabilities |-> 30, equity |-> 70,
  revenue |-> 12, margin |-> 14, margin_delta |-> 2, operating_margin |-> 16,
  cash_flow |-> Missing, shares_yoy |-> 1, runway |-> 42, current |-> 24, debt |-> 8,
  mcap |-> 1200, gap |-> Missing, flags |-> {}, root |-> "none"]
Rooted == [Strong EXCEPT !.root = "filing"]
Weak == [Strong EXCEPT !.cash = 3, !.liabilities = 92, !.equity = 5, !.runway = 5,
                       !.shares_yoy = 55, !.mcap = 60, !.coverage = 9, !.gap = 20,
                       !.flags = {"dilution"}]
Young == [Strong EXCEPT !.mcap = 60, !.coverage = 5, !.age = 200, !.runway = 20]

Cand(news, mkt, fund, quote, reproduced) ==
  [news |-> news, mkt |-> mkt, fund |-> fund, class |-> CatalystClass(news), quote |-> quote, reproduced |-> reproduced]
Few(n) == UNION {kSubset(k, Articles) : k \in 0..n}
Best3 == {Outage, Filing, Wire}

MCCandidates ==
  {Cand(news, Calm, Strong, "observed", TRUE) : news \in Few(3)}
  \cup {Cand(news, mkt, Strong, "absent", TRUE) : news \in Few(2), mkt \in {Thin, Spiked, Late}}
  \cup {Cand(news, Calm, fund, "observed", TRUE) : news \in Few(2), fund \in {Weak, NoFilings}}
  \cup {Cand(news, Calm, fund, quote, reproduced) :
          news \in {Best3 \cup more : more \in {{}, {Repost, Future}, {Vendor}, {Copy, Miss},
                                               {Local}, {Hold, Lifted}}}
                   \cup {{Suit}, {Outage, Client, Lifted}},
          fund \in {Strong, Rooted, Young}, quote \in {"observed", "stale"},
          reproduced \in BOOLEAN}
================================================================================
