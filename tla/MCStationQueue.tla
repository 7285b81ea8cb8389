----------------------------- MODULE MCStationQueue -----------------------------
(* One transaction of the length LastEvent gives; d1 alone or with d2 runs     *)
(* send_queued_messages.                                                       *)
EXTENDS StationQueue

CONSTANTS d1, d2

OneDrain == {d1}
TwoDrains == {d1, d2}
===============================================================================
