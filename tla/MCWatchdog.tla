----------------------------- MODULE MCWatchdog -----------------------------
(* In units of half an hour, the seconds of main.py and heartbeat.py: a    *)
(* sweep is due every two of them and stale after three.                   *)
EXTENDS Watchdog
PeriodDef == [t \in Loops |-> IF t = Sweep THEN 2 ELSE 1]
StaleDef == [t \in Tasks |-> IF t = Sweep THEN 3 ELSE IF t = Ingest THEN 3 ELSE IF t = Dispatcher THEN 0 ELSE 4]
=============================================================================
