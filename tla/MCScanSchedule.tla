--------------------------- MODULE MCScanSchedule ---------------------------
(***************************************************************************)
(* Constants for checking ScanSchedule with TLC.  The fast scheduler polls *)
(* every five minutes: tick 0 of a date is 22:35, tick 2 is 22:45, tick 6  *)
(* is 23:05.  The slow one (OVERSOLD_WORKER_SCAN_POLL_SECONDS) polls every *)
(* twenty: tick 0 is 22:25, tick 1 is 22:45, tick 2 is 23:05.              *)
(***************************************************************************)
EXTENDS ScanSchedule, TLC

CONSTANTS sched, r1, r2, worker, web1, web2

Hosts == [a \in Actors |->
            IF a = Scheduler THEN worker ELSE IF a = r1 THEN web1 ELSE web2]

(* The two web processes, each with its request, are interchangeable.      *)
WebSymmetry == {r1 :> r2 @@ r2 :> r1 @@ web1 :> web2 @@ web2 :> web1}

SlowWindow  == 1..2
SlowWebHalf == {1}
FastWindow  == 2..6
FastWebHalf == 2..4
=============================================================================
