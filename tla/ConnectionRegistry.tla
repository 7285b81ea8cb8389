--------------------------- MODULE ConnectionRegistry ---------------------------
(***************************************************************************)
(* The OCPP server's map from charge point ids to live connections         *)
(* (OCPP_Server.connected_CPs) and on_cp_connect, the coroutine that runs   *)
(* once per websocket.  The API's requests are dispatched through the map   *)
(* (handle_api_request), and a station whose id is in it is refused.        *)
(*                                                                          *)
(* Every await of on_cp_connect is a place where the coroutines of other    *)
(* sockets run: the id is checked before the database is asked and          *)
(* registered after.                                                        *)
(***************************************************************************)
CONSTANTS Sockets,       \* the connections ever opened
          Ids,           \* charge point ids stations connect with
          IdOf,          \* [Sockets -> Ids]: the id in the path of the connection
          KnownIds,      \* ids in the Charge_Point table
          OverlappingIds,\* ids whose connections may be set up concurrently
          ErrorIds,      \* ids whose cp.start() may end with another exception
                         \* than a WebSocketException
          NoSocket

ASSUME IdOfAssumption == IdOf \in [Sockets -> Ids]
ASSUME NoSocketAssumption == NoSocket \notin Sockets
ASSUME HazardIdsAssumption == OverlappingIds \subseteq Ids /\ ErrorIds \subseteq Ids

VARIABLES pc,       \* [Sockets -> PC]: where the socket's coroutine is
          open,     \* sockets whose connection is open
          connected \* [Ids -> Sockets], NoSocket: connected_CPs

registry == <<pc, open, connected>>

\* "checking": select awaited, "verifying": verify_protocols awaited, "leaving":
\* set_on_off(False) awaited, "failed": the coroutine ended with an exception.
PC == {"away", "checking", "verifying", "serving", "leaving", "refused",
       "ended", "failed"}

RegistryInit ==
    /\ pc = [s \in Sockets |-> "away"]
    /\ open = {}
    /\ connected = [i \in Ids |-> NoSocket]

\* No other connection of the id is between its check and its registration.
Undisturbed(s) ==
    \A t \in Sockets : IdOf[t] = IdOf[s] => pc[t] \notin {"checking", "verifying"}

\* Variant for the mutation runs: the id is not looked up.
ArriveUnchecked(s) ==
    /\ pc[s] = "away"
    /\ IdOf[s] \in OverlappingIds \/ Undisturbed(s)
    /\ open' = open \cup {s}
    /\ pc' = [pc EXCEPT ![s] = "checking"]
    /\ UNCHANGED connected

\* Lines 144-152, up to the first await.
Arrive(s) ==
    /\ pc[s] = "away"
    /\ IdOf[s] \in OverlappingIds \/ Undisturbed(s)
    /\ open' = open \cup {s}
    /\ pc' = [pc EXCEPT ![s] = IF connected[IdOf[s]] # NoSocket THEN "refused" ELSE "checking"]
    /\ UNCHANGED connected

\* The database answers with the ids it knows (lines 152-157).
SelectAnswered(s) ==
    /\ pc[s] = "checking"
    /\ pc' = [pc EXCEPT ![s] = IF IdOf[s] \in KnownIds THEN "verifying" ELSE "refused"]
    /\ UNCHANGED <<open, connected>>

\* The database does not answer: the exception ends the coroutine.
SelectFails(s) ==
    /\ pc[s] = "checking"
    /\ pc' = [pc EXCEPT ![s] = "failed"]
    /\ open' = open \ {s}
    /\ UNCHANGED connected

\* verify_protocols returns, having closed the connection when the protocols do not
\* match; the charge point is registered all the same (lines 157-166).
Register(s) ==
    /\ pc[s] = "verifying"
    /\ pc' = [pc EXCEPT ![s] = "serving"]
    /\ open' \in {open, open \ {s}}
    /\ connected' = [connected EXCEPT ![IdOf[s]] = s]

\* The station closes the connection, or it breaks.
Drop(s) ==
    /\ s \in open
    /\ open' = open \ {s}
    /\ UNCHANGED <<pc, connected>>

\* cp.start() raises a WebSocketException (lines 166-171).
ConnectionLost(s) ==
    /\ pc[s] = "serving"
    /\ s \notin open
    /\ pc' = [pc EXCEPT ![s] = "leaving"]
    /\ UNCHANGED <<open, connected>>

\* cp.start() raises anything else: a handler such as on_ReservationStatusUpdate
\* returns None and the ocpp library cannot convert it.  The library closes the
\* connection; lines 170-172 are not reached.
HandlerError(s) ==
    /\ IdOf[s] \in ErrorIds
    /\ pc[s] = "serving"
    /\ pc' = [pc EXCEPT ![s] = "failed"]
    /\ open' = open \ {s}
    /\ UNCHANGED connected

\* Variant for the mutation runs: the id is not removed.
UnregisterKeepsId(s) ==
    /\ pc[s] = "leaving"
    /\ pc' = [pc EXCEPT ![s] = "ended"]
    /\ UNCHANGED <<open, connected>>

\* set_on_off is done, the id is removed (line 172): whichever connection is under
\* it, and with a KeyError when none is.
Unregister(s) ==
    /\ pc[s] = "leaving"
    /\ pc' = [pc EXCEPT ![s] = IF connected[IdOf[s]] = NoSocket THEN "failed" ELSE "ended"]
    /\ connected' = [connected EXCEPT ![IdOf[s]] = NoSocket]
    /\ UNCHANGED open

\* A refused connection is closed (lines 148, 155).
CloseRefused(s) ==
    /\ pc[s] = "refused"
    /\ pc' = [pc EXCEPT ![s] = "ended"]
    /\ open' = open \ {s}
    /\ UNCHANGED connected

CoroutineStep(s) ==
    SelectAnswered(s) \/ SelectFails(s) \/ Register(s) \/ ConnectionLost(s)
        \/ Unregister(s) \/ CloseRefused(s)

RegistryNext == \E s \in Sockets : Arrive(s) \/ CoroutineStep(s) \/ Drop(s) \/ HandlerError(s)

\* The event loop resumes every coroutine whose await is over; a publish ends, the
\* database request then ends by its timeout at the latest, and a broken connection is
\* noticed by the keepalive of the websockets library.
RegistryFairness == \A s \in Sockets : WF_registry(CoroutineStep(s))

RegistrySpec == RegistryInit /\ [][RegistryNext]_registry
RegistryFairSpec == RegistrySpec /\ RegistryFairness

-------------------------------------------------------------------------------
(* Properties.                                                             *)

\* Every variable stays in its domain; a connection is under its own id.
RegistryTypeOK ==
    /\ pc \in [Sockets -> PC]
    /\ open \subseteq Sockets
    /\ connected \in [Ids -> Sockets \cup {NoSocket}]
    /\ \A i \in Ids : connected[i] # NoSocket => IdOf[connected[i]] = i

\* Lines 170-172 "when cp ends remove from connections": an id is in the map only
\* while the coroutine of its connection runs.  Otherwise the API's requests go to
\* a dead connection and the station's next connection is refused.  An error
\* that escapes leaves its id in the map for ever.
RegisteredIsServed ==
    \A i \in Ids \ ErrorIds :
        connected[i] # NoSocket => pc[connected[i]] \in {"serving", "leaving"}

\* A connection that is served is the one in the map: the API reaches the station
\* (lines 186-191), and no second connection of that id is served beside it, which
\* line 147 refuses with "Id already taken".  Overlapping connections are left out: two
\* that pass the check before either is registered are both served.
ServedEntry(s) == pc[s] = "serving" => connected[IdOf[s]] = s
ServedIsRegistered == \A s \in Sockets : IdOf[s] \notin OverlappingIds => ServedEntry(s)

\* A station is refused only if its id is unknown or another connection of that id
\* is still served or winding up: it never locks itself out.
RefusedOnlyWhileServed ==
    [][\A s \in Sockets : IdOf[s] \notin ErrorIds /\ pc[s] = "away" /\ pc'[s] = "refused" =>
          \E t \in Sockets : IdOf[t] = IdOf[s] /\ pc[t] \in {"serving", "leaving"}]_registry

\* A connection that was served and is lost does not stay in the map.
LostIsRemoved ==
    \A s \in Sockets : IdOf[s] \notin ErrorIds =>
        (pc[s] = "serving" /\ s \notin open ~> connected[IdOf[s]] # s)
===============================================================================
