------------------------------ MODULE MCLoader ------------------------------
(***************************************************************************)
(* Constants for checking Loader with TLC.                                 *)
(***************************************************************************)
EXTENDS Loader, TLC

CONSTANTS w1, w2, d1, d2, aapl, msft

OneJob         == {1}
TwoJobs        == {1, 2}
JobOfOne       == [t \in Tasks |-> 1]
JobOfEach      == [t \in Tasks |-> t]
OwnWindow      == [t \in Tasks |-> t]
SameWindow     == [t \in Tasks |-> 1]
OneDisk        == [w \in Workers |-> d1]
WholeBatch     == [t \in Tasks |-> Symbols]
SplitBatch     == [t \in Tasks |-> IF t = 1 THEN {aapl} ELSE {msft}]
NoBars         == {}

WorkerSymmetry == Permutations(Workers)

AllCommands    == CommandNames
CreateOnly     == {"create"}
CancelOnly     == CommandNames \ {"pause", "resume"}
StopAndGo      == {"create", "pause", "resume", "cancel"}
=============================================================================
