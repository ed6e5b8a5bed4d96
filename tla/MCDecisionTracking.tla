------------------------- MODULE MCDecisionTracking -------------------------
(***************************************************************************)
(* Constants for checking DecisionTracking with TLC.                       *)
(***************************************************************************)
EXTENDS DecisionTracking, TLC

CONSTANTS b1, b2, g1, k1, k2, close, mid, aapl, msft, web, worker

OneSymbol  == [c \in Candidates |-> aapl]
Hosts      == [p \in Procs |-> IF p = k1 THEN worker ELSE web]

RepeatPass   == {"pass"}
FollowStopReview == {"investigate", "pass", "unreviewed", "watch"}

BackgroundSymmetry == Permutations(Background)
=============================================================================
