----------------------------- MODULE MCIntraday -----------------------------
(* Constants for checking IntradayRequests with TLC: twenty, twenty-five    *)
(* and thirty minutes are kept in their order as 1, 2 and 3 ticks.          *)
EXTENDS IntradayRequests
=============================================================================
