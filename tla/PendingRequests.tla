----------------------------- MODULE PendingRequests -----------------------------
(***************************************************************************)
(* Requests of the CSMS whose result comes in later messages of the station *)
(* (chargePointRepr.py).  async_request collects the reports of a request   *)
(* in multiple_response_requests; requestStartTransaction waits in          *)
(* wait_start_transaction for the event of the transaction it started.      *)
(*                                                                          *)
(* Either makes its call first, adds an entry with a future when the answer *)
(* is back, and waits for the future or a timeout.  The later messages are  *)
(* handled by other tasks, which find the entry by its id alone.            *)
(***************************************************************************)
EXTENDS Naturals, Sequences

CONSTANTS Reports,  \* calls of async_request
          Starts,   \* calls of requestStartTransaction
          Logged,   \* those of Reports whose messages are published to the broker
                    \* before the entry is looked up (not NotifyMonitoringReport)
          Keys,     \* the ids in the two maps
          Ids,      \* the assignments of ids to requests that are considered
          Parts,    \* number of reports that answer a request
          Repeats,  \* bound: how often the event of a start is received
          NoCall

Calls == Reports \cup Starts

ASSUME CallsAssumption == Reports \cap Starts = {} /\ Logged \subseteq Reports
ASSUME KeysAssumption ==
    /\ Ids \subseteq [Calls -> Keys]
    /\ \A f \in Ids, r \in Reports, s \in Starts : f[r] # f[s] \* keys of different maps
ASSUME BoundsAssumption == Parts \in Nat \ {0} /\ Repeats \in Nat
ASSUME NoCallAssumption == NoCall \notin Calls

VARIABLES keyOf,    \* a member of Ids, the same all along: the id of each request
          stage,    \* [Calls -> Stage]: where the task of the request is
          fut,      \* [Calls -> Fut]: the future it waits for
          entry,    \* [Keys -> Calls \cup {NoCall}]: the two maps
          data,     \* [Calls -> Seq(Message)]: the data of the entry
          arrived,  \* [Calls -> Nat]: messages received for a request
          handling, \* messages whose handler has not reached the maps yet
          handled,  \* messages whose handler has
          raised,   \* messages whose handler ended with an exception
          result    \* [Calls -> Seq(Message) \cup {NoCall}]: what a request returned

task == <<keyOf, stage, fut, result>>
inbox == <<arrived, handling>>
outcome == <<handled, raised>>
requests == <<keyOf, stage, fut, entry, data, arrived, handling, handled, raised, result>>

\* "accepted": the answer is here and the task is not resumed yet.
Stage == {"idle", "calling", "accepted", "waiting", "returned", "failed"}
Fut == {"none", "pending", "done", "cancelled"}
Limit(c) == IF c \in Reports THEN Parts ELSE Repeats
Message == [of : Calls, part : Nat]
IsLast(m) == m.of \in Starts \/ m.part = Parts

RequestsInit ==
    /\ keyOf \in Ids
    /\ stage = [c \in Calls |-> "idle"]
    /\ fut = [c \in Calls |-> "none"]
    /\ entry = [k \in Keys |-> NoCall]
    /\ data = [c \in Calls |-> <<>>]
    /\ arrived = [c \in Calls |-> 0]
    /\ handling = {}
    /\ handled = {}
    /\ raised = {}
    /\ result = [c \in Calls |-> NoCall]

-------------------------------------------------------------------------------
(* The request.                                                            *)

\* The ocpp library lets one call through at a time.
Call(c) ==
    /\ stage[c] = "idle"
    /\ \A d \in Calls : stage[d] # "calling"
    /\ stage' = [stage EXCEPT ![c] = "calling"]
    /\ UNCHANGED <<keyOf, fut, result, entry, data, inbox, outcome>>

\* The station accepts.
Accept(c) ==
    /\ stage[c] = "calling"
    /\ stage' = [stage EXCEPT ![c] = "accepted"]
    /\ UNCHANGED <<keyOf, fut, result, entry, data, inbox, outcome>>

\* It refuses, or there is no answer; or it starts a transaction whose id it gives
\* at once, so that there is nothing to wait for (line 299).
Refuse(c) ==
    /\ stage[c] = "calling"
    /\ stage' = [stage EXCEPT ![c] = "failed"]
    /\ UNCHANGED <<keyOf, fut, result, entry, data, inbox, outcome>>

AcceptWithId(s) ==
    /\ stage[s] = "calling"
    /\ stage' = [stage EXCEPT ![s] = "returned"]
    /\ result' = [result EXCEPT ![s] = <<>>]
    /\ UNCHANGED <<keyOf, fut, entry, data, inbox, outcome>>

\* The entry is made, over an older one with that id (lines 301-303, 433-436).
Register(c) ==
    /\ stage[c] = "accepted"
    /\ stage' = [stage EXCEPT ![c] = "waiting"]
    /\ fut' = [fut EXCEPT ![c] = "pending"]
    /\ entry' = [entry EXCEPT ![keyOf[c]] = c]
    /\ data' = [data EXCEPT ![c] = <<>>]
    /\ UNCHANGED <<keyOf, result, inbox, outcome>>

\* Variant for the mutation runs: the timeout ends nothing.
ExpireNever(c) == FALSE /\ UNCHANGED requests

\* wait_for cancels the future and raises: async_request fails, a start returns
\* without a transaction.  The entry stays.
Expire(c) ==
    /\ stage[c] = "waiting" /\ fut[c] = "pending"
    /\ fut' = [fut EXCEPT ![c] = "cancelled"]
    /\ stage' = [stage EXCEPT ![c] = IF c \in Reports THEN "failed" ELSE "returned"]
    /\ UNCHANGED <<keyOf, result, entry, data, inbox, outcome>>

\* The task is resumed with a result.  async_request returns the data under its id
\* and removes the entry, whose ever it is (lines 438-439); without one it fails.
Return(c) ==
    /\ stage[c] = "waiting" /\ fut[c] = "done"
    /\ LET owner == IF c \in Reports THEN entry[keyOf[c]] ELSE c
       IN  IF owner = NoCall
           THEN stage' = [stage EXCEPT ![c] = "failed"] /\ UNCHANGED <<result, entry>>
           ELSE /\ stage' = [stage EXCEPT ![c] = "returned"]
                /\ result' = [result EXCEPT ![c] = data[owner]]
                /\ entry' = IF c \in Reports
                            THEN [entry EXCEPT ![keyOf[c]] = NoCall] ELSE entry
    /\ UNCHANGED <<keyOf, fut, data, inbox, outcome>>

-------------------------------------------------------------------------------
(* The station's later messages.                                           *)

\* The next message is received.  Reports are handled inside the receive loop, one
\* at a time and in order; events of a transaction by tasks of their own.
Arrive(c) ==
    /\ stage[c] \notin {"idle", "calling"}
    /\ arrived[c] < Limit(c)
    /\ c \in Reports => \A m \in handling : m.of \in Starts
    /\ arrived' = [arrived EXCEPT ![c] = @ + 1]
    /\ handling' = handling \cup {[of |-> c, part |-> arrived[c] + 1]}
    /\ UNCHANGED <<task, entry, data, outcome>>

\* Variant for the mutation runs: the map is looked up as soon as the message is here.
ReadyAtOnce(m) == m \in handling

\* A handler that publishes first lets the task of the request be resumed before it
\* goes on.
Ready(m) ==
    m \in handling /\ (m.of \in Logged \cup Starts => stage[m.of] # "accepted")

\* set_result: it raises on a future that is not pending.
Complete(m, owner) ==
    IF fut[owner] = "pending"
    THEN fut' = [fut EXCEPT ![owner] = "done"] /\ UNCHANGED raised
    ELSE raised' = raised \cup {m} /\ UNCHANGED fut

Finished(m) == handling' = handling \ {m} /\ handled' = handled \cup {m}

\* Variants for the mutation runs: every report is taken for the last one; not even
\* the last one ends the wait.
LookupEveryIsLast(m) ==
    /\ Ready(m) /\ Finished(m)
    /\ LET owner == entry[keyOf[m.of]]
       IN  IF owner = NoCall
           THEN UNCHANGED <<data, fut, raised>>
           ELSE /\ data' = [data EXCEPT ![owner] = Append(@, m)]
                /\ Complete(m, owner)
    /\ UNCHANGED <<keyOf, stage, result, entry, arrived>>
LookupLastOnly(m) ==
    /\ Ready(m) /\ Finished(m)
    /\ LET owner == entry[keyOf[m.of]]
       IN  IF owner = NoCall
           THEN UNCHANGED <<data, fut, raised>>
           ELSE /\ data' = [data EXCEPT ![owner] = Append(@, m)]
                /\ IF m.part = Parts + 1 THEN Complete(m, owner)
                   ELSE UNCHANGED <<fut, raised>>
    /\ UNCHANGED <<keyOf, stage, result, entry, arrived>>

\* received_message_async_request: a report nobody has asked for is dropped.
Lookup(m) ==
    /\ Ready(m) /\ Finished(m)
    /\ LET owner == entry[keyOf[m.of]]
       IN  IF owner = NoCall
           THEN UNCHANGED <<data, fut, raised>>
           ELSE /\ data' = [data EXCEPT ![owner] = Append(@, m)]
                /\ IF IsLast(m) THEN Complete(m, owner) ELSE UNCHANGED <<fut, raised>>
    /\ UNCHANGED <<keyOf, stage, result, entry, arrived>>

\* after_TransactionEvent of an event with a remote_start_id: it removes the entry,
\* and raises when there is none.
Follow(m) ==
    /\ Ready(m) /\ Finished(m)
    /\ LET owner == entry[keyOf[m.of]]
       IN  IF owner = NoCall
           THEN raised' = raised \cup {m} /\ UNCHANGED <<data, fut>>
           ELSE Complete(m, owner) /\ data' = [data EXCEPT ![owner] = <<m>>]
    /\ entry' = [entry EXCEPT ![keyOf[m.of]] = NoCall]
    /\ UNCHANGED <<keyOf, stage, result, arrived>>

HandlerStep(m) ==
    \/ m.of \in Reports /\ Lookup(m)
    \/ m.of \in Starts /\ Follow(m)

RequestStep(c) == Register(c) \/ Expire(c) \/ Return(c)

RequestsNext ==
    \/ \E c \in Calls : Call(c) \/ Accept(c) \/ Refuse(c) \/ RequestStep(c) \/ Arrive(c)
    \/ \E s \in Starts : AcceptWithId(s)
    \/ \E m \in handling : HandlerStep(m)

\* The event loop resumes the tasks, and timeouts go off, that of the call included;
\* nothing is assumed of the station.  No publish is waited for: those of the handlers are
\* not fair.
RequestsFairness ==
    \A c \in Calls : WF_requests(RequestStep(c)) /\ WF_requests(Accept(c) \/ Refuse(c))

RequestsSpec == RequestsInit /\ [][RequestsNext]_requests
RequestsFairSpec == RequestsSpec /\ RequestsFairness

-------------------------------------------------------------------------------
(* Properties.                                                             *)

\* Every variable stays in its domain, and an entry is under the id of its request.
RequestsTypeOK ==
    /\ keyOf \in Ids
    /\ stage \in [Calls -> Stage]
    /\ fut \in [Calls -> Fut]
    /\ entry \in [Keys -> Calls \cup {NoCall}]
    /\ \A k \in Keys : entry[k] # NoCall => keyOf[entry[k]] = k
    /\ data \in [Calls -> Seq(Message)]
    /\ arrived \in [Calls -> Nat]
    /\ handling \subseteq Message /\ handled \subseteq Message
    /\ raised \subseteq handled
    /\ result \in [Calls -> Seq(Message) \cup {NoCall}]

\* No other request uses the id of c.
Unique(c) == \A d \in Calls : keyOf[d] = keyOf[c] => d = c

\* async_request returns the reports of its own request, all of them and in order
\* (lines 438, 789), when its id is unique and its reports are published first.
ReturnsAllReports ==
    \A c \in Logged :
        Unique(c) /\ stage[c] = "returned" =>
            result[c] = [i \in 1 .. Parts |-> [of |-> c, part |-> i]]

\* Line 791 "last message": once it is handled, the request it is for does not wait
\* for its timeout.
LastEndsWait ==
    \A m \in handled :
        m.of \in Logged \cup Starts /\ Unique(m.of) /\ IsLast(m) /\ stage[m.of] = "waiting" =>
            fut[m.of] = "done"

\* The handler of a message raises only when nobody waits for the message any more.
RaisesOnlyLate ==
    [][\A m \in raised' \ raised :
          Unique(m.of) => stage[m.of] \in {"returned", "failed"} \/ fut[m.of] = "done"]_requests

\* Every request ends, whatever the station sends.
EveryRequestEnds ==
    \A c \in Calls : stage[c] = "calling" ~> stage[c] \in {"returned", "failed"}
===============================================================================
