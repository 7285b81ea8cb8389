--------------------------- MODULE TransactionRecord ---------------------------
(***************************************************************************)
(* What SQL_DB promises about a transaction, whatever the order in which   *)
(* its events arrive: the record only moves forward (`newest`), becomes    *)
(* active again only when it does, and is closed for good once the event   *)
(* `Last` is in.  -1 stands for "no event yet".                            *)
(***************************************************************************)
EXTENDS Integers

CONSTANT Last

VARIABLES newest, active

recordVars == <<newest, active>>

Init == newest = -1 /\ active = FALSE

\* A more recent event is recorded; the last one closes the transaction.
Advance(n) ==
    /\ n > newest
    /\ newest' = n
    /\ active' \in BOOLEAN
    /\ n = Last => active' = FALSE

\* The charge point is taken for offline.
Deactivate ==
    /\ active
    /\ active' = FALSE
    /\ UNCHANGED newest

Next == Deactivate \/ \E n \in 0 .. Last : Advance(n)

Spec == Init /\ [][Next]_recordVars
===============================================================================
