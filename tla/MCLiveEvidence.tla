--------------------------- MODULE MCLiveEvidence ---------------------------
(* Constants for checking LiveEvidence with TLC: two trade dates, two       *)
(* overlapping captures, and a basket of two names out of two.              *)
EXTENDS LiveEvidence
=============================================================================
