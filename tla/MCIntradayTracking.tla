------------------------- MODULE MCIntradayTracking -------------------------
(* Constants for checking IntradayTracking with TLC: a session of four      *)
(* minutes with the horizon in the third, and bars at most a minute late.   *)
EXTENDS IntradayTracking

(* A symbol with no bar before its horizon, one that trades on, and one    *)
(* that trades once or in the minute of the scan.                          *)
SomeTrades == {<<{0, 2}, {1}>>, <<{1, 2}, {0, 1}>>}
=============================================================================
