------------------------------- MODULE RpcPromise -------------------------------
(***************************************************************************)
(* What a caller of send_request_wait_response may rely on.  A call is     *)
(* issued once and ends once; the service handles it once at most, maybe   *)
(* after the caller has given up; a call that ends with an answer was      *)
(* handled, and the answer is its own.                                     *)
(***************************************************************************)
CONSTANTS Calls, \* the requests that are ever made
          None   \* no answer

VARIABLES outcome, \* [Calls -> {"idle", "pending", "answered", "failed"}]
          served,  \* calls the service has handled
          answer   \* [Calls -> Calls \cup {None}]: the call the answer is for

promiseVars == <<outcome, served, answer>>

Init ==
    /\ outcome = [c \in Calls |-> "idle"]
    /\ served = {}
    /\ answer = [c \in Calls |-> None]

Issue(c) ==
    /\ outcome[c] = "idle"
    /\ outcome' = [outcome EXCEPT ![c] = "pending"]
    /\ UNCHANGED <<served, answer>>

Serve(c) ==
    /\ outcome[c] # "idle"
    /\ c \notin served
    /\ served' = served \cup {c}
    /\ UNCHANGED <<outcome, answer>>

Answer(c) ==
    /\ outcome[c] = "pending"
    /\ c \in served
    /\ outcome' = [outcome EXCEPT ![c] = "answered"]
    /\ answer' = [answer EXCEPT ![c] = c]
    /\ UNCHANGED served

\* Calls fail one by one, or together when their process stops.
Fail(C) ==
    /\ \A c \in C : outcome[c] = "pending"
    /\ outcome' = [c \in Calls |-> IF c \in C THEN "failed" ELSE outcome[c]]
    /\ UNCHANGED <<served, answer>>

Next ==
    \/ \E c \in Calls : Issue(c) \/ Serve(c) \/ Answer(c)
    \/ \E C \in SUBSET Calls : Fail(C)

Spec == Init /\ [][Next]_promiseVars
===============================================================================
