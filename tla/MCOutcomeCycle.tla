--------------------------- MODULE MCOutcomeCycle ---------------------------
(* Constants for checking OutcomeCycle with TLC: two current signals on     *)
(* successive days and one of an earlier model.                             *)
EXTENDS OutcomeCycle

CONSTANTS a, b, c0

MCSignalDay == [s \in Signals |-> IF s = b THEN 1 ELSE 0]
(* a touches only in its last session, b only after its window.             *)
MCTouched   == [s \in Signals |-> IF s = a THEN {3} ELSE IF s = b THEN {5} ELSE {1}]
MCLate      == {<<a, 2>>}
=============================================================================
