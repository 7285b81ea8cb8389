--------------------------- MODULE StationTransactions ---------------------------
(***************************************************************************)
(* What the full station client knows of its EVSEs and transactions, and   *)
(* the CSMS's remote requests it forwards (charge_station.py).             *)
(*                                                                         *)
(* The decision point, which controls the charging station, reports to     *)
(* the client by the fanout exchange, and the client calls the CSMS for    *)
(* each report.  A remote request is handled inside the loop that reads    *)
(* the websocket: while it waits for the decision point, the answers to    *)
(* the client's own calls wait too.  A decision point that answers only    *)
(* between its reports therefore closes a circle, which the timeouts open. *)
(* How events are queued and sent again is the matter of StationQueue.     *)
(***************************************************************************)
EXTENDS Naturals, Sequences, SequencesExt

CONSTANTS EVSEs,
          LastTran,   \* the transactions are 1 .. LastTran, in the order they start
          Requests,   \* remote requests of the CSMS
          MaxQueued,  \* bound: reports on their way, to the client or to the CSMS
          MaxCuts,   \* bound: lost connections and restarts of the client
          Nothing

Trans == 1 .. LastTran

ASSUME NothingAssumption == Nothing \notin EVSEs \cup Trans \cup Requests
ASSUME ClientBounds == LastTran \in Nat /\ MaxQueued \in Nat /\ MaxCuts \in Nat

VARIABLES phase, at,   \* the transactions at the station, and their EVSEs
          reports,     \* the decision point's requests on the exchange
          waiting,     \* it waits for the response to one
          asked,       \* the kinds of the client's requests to it
          ongoing,     \* ongoing_transactions
          known,       \* DOMAIN known_evses
          current,     \* the transactions in known_evses
          evseOf,      \* Transaction.evseId
          status,      \* of the last BootNotification
          up,          \* connection_active
          calls,       \* number of reports in the line at the lock of call
          wire,        \* where the first of them is
          inbox,       \* what the websocket has for the client
          handling,    \* the request the loop waits in, or Nothing
          req,         \* [Requests -> RequestState]
          cuts, restarted,
          orderly, patient  \* the decision point; never change

physical == <<phase, at>>
evses == <<ongoing, known, current, evseOf>>
connection == <<status, up, cuts, restarted>>
line == <<calls, wire>>
loop == <<inbox, handling>>
point == <<orderly, patient>>
client == <<physical, reports, waiting, asked, evses, connection, line, loop, req, point>>

\* token: the event has an id_token the client looks at.
Report == [event : {"status", "started", "updated", "ended"}, evse : EVSEs \cup {Nothing},
           tran : Trans \cup {Nothing}, token : BOOLEAN]
Kind == {"start", "stop", "unlock", "other"}
RequestState == {"new", "sent", "asking", "answered", "lost"}
ToClient == [kind : Kind \cup {"answer"}, req : Requests \cup {Nothing},
             about : EVSEs \cup Trans \cup {Nothing}]
Answer == [kind |-> "answer", req |-> Nothing, about |-> Nothing]

ClientInit ==
    /\ phase = [t \in Trans |-> "new"] /\ at = [t \in Trans |-> Nothing]
    /\ reports = <<>> /\ waiting = FALSE /\ asked = <<>>
    /\ ongoing = {} /\ known = {}
    /\ current = [e \in EVSEs |-> Nothing] /\ evseOf = [t \in Trans |-> Nothing]
    /\ status = "none" /\ up = FALSE /\ cuts = 0 /\ restarted = FALSE
    /\ calls = 0 /\ wire = "idle"
    /\ inbox = <<>> /\ handling = Nothing
    /\ req = [r \in Requests |-> "new"]
    /\ orderly \in BOOLEAN /\ patient \in BOOLEAN

Running(e) == {t \in Trans : phase[t] = "running" /\ at[t] = e}

-------------------------------------------------------------------------------
(* The decision point.  An orderly one tells of an EVSE before the EVSE's  *)
(* transactions and reports no tokens; a patient one does nothing while it *)
(* waits for the response to a report.                                     *)

Send(event, e, t) ==
    /\ ~waiting /\ waiting' = patient
    /\ Len(reports) + calls < MaxQueued
    /\ \E token \in BOOLEAN :
        /\ token => ~orderly /\ event # "status"
        /\ reports' = Append(reports, [event |-> event, evse |-> e, tran |-> t, token |-> token])
    /\ UNCHANGED <<asked, evses, connection, line, loop, req, point>>

Told(e) == e \in known \/ \E i \in DOMAIN reports : reports[i].event = "status" /\ reports[i].evse = e

Announce(e) ==
    /\ ~Told(e)
    /\ Send("status", e, Nothing)
    /\ UNCHANGED physical

\* Only the first event has to name the EVSE.
Start(t, e) ==
    /\ phase[t] = "new" /\ \A u \in 1 .. t - 1 : phase[u] # "new"
    /\ Running(e) = {}
    /\ orderly => Told(e)
    /\ phase' = [phase EXCEPT ![t] = "running"]
    /\ at' = [at EXCEPT ![t] = e]
    /\ Send("started", e, t)

Update(t) ==
    /\ phase[t] = "running"
    /\ \E e \in {at[t], Nothing} : Send("updated", e, t)
    /\ UNCHANGED physical

End(t) ==
    /\ phase[t] = "running"
    /\ phase' = [phase EXCEPT ![t] = "over"]
    /\ \E e \in {at[t], Nothing} : Send("ended", e, t)
    /\ UNCHANGED at

\* No response in 5 seconds.
StopWaiting ==
    /\ waiting /\ waiting' = FALSE
    /\ UNCHANGED <<physical, reports, asked, evses, connection, line, loop, req, point>>

Answered(r) == req' = [req EXCEPT ![r] = IF @ = "lost" THEN "lost" ELSE "answered"]

\* It answers a request of the client.  The answer goes to whichever request with the same
\* intent is waiting.
Decide ==
    /\ ~waiting /\ asked # <<>>
    /\ asked' = Tail(asked)
    /\ IF handling # Nothing /\ handling.kind = Head(asked)
       THEN handling' = Nothing /\ Answered(handling.req)
       ELSE UNCHANGED <<handling, req>>
    /\ UNCHANGED <<physical, reports, waiting, evses, connection, line, inbox, point>>

-------------------------------------------------------------------------------
(* The reports in the client.                                              *)

\* The report that is next, if there is one.
Incoming == {reports[i] : i \in DOMAIN reports \cap {1}}
Take == reports' = Tail(reports)
Taken == <<physical, asked, connection, wire, loop, req, point>>

\* The report is called to the CSMS.  Without connection, or before the station is
\* accepted, the call fails at once: an event is queued and answered to the decision
\* point, a status notification raises.
Call(m) ==
    IF up /\ status = "accepted"
    THEN calls' = calls + 1 /\ UNCHANGED waiting
    ELSE UNCHANGED calls /\ waiting' = (waiting /\ m.event = "status")

TakeStatus ==
    \E m \in Incoming :
        /\ Take /\ m.event = "status"
        /\ known' = known \cup {m.evse}
        /\ Call(m)
        /\ UNCHANGED <<Taken, ongoing, current, evseOf>>

TakeEvent ==
    \E m \in Incoming :
        /\ Take /\ m.event \in {"started", "updated"} /\ ~m.token
        /\ m.evse \in known \cup {Nothing}
        /\ ongoing' = ongoing \cup {m.tran}
        /\ IF m.evse = Nothing THEN UNCHANGED <<current, evseOf>>
           ELSE /\ evseOf' = [evseOf EXCEPT ![m.tran] = m.evse]
                /\ current' = [current EXCEPT ![m.evse] = m.tran]
        /\ Call(m)
        /\ UNCHANGED <<Taken, known>>

\* The EVSE of the last event of a transaction: the one it names or, a new object
\* Transaction having none, the one noted for it.
Place(m) ==
    IF m.evse # Nothing THEN m.evse
    ELSE IF m.tran \in ongoing THEN evseOf[m.tran] ELSE Nothing

\* Variant for the mutation runs: the EVSE is freed only when the event names it.
TakeEndedNamed ==
    \E m \in Incoming :
        /\ Take /\ m.event = "ended" /\ ~m.token
        /\ Place(m) \in known
        /\ ongoing' = ongoing \ {m.tran}
        /\ evseOf' = [evseOf EXCEPT ![m.tran] = Nothing]
        /\ current' = IF m.evse # Nothing THEN [current EXCEPT ![m.evse] = Nothing] ELSE current
        /\ Call(m)
        /\ UNCHANGED <<Taken, known>>

TakeEnded ==
    \E m \in Incoming :
        /\ Take /\ m.event = "ended" /\ ~m.token
        /\ Place(m) \in known
        /\ ongoing' = ongoing \ {m.tran}
        /\ evseOf' = [evseOf EXCEPT ![m.tran] = Nothing]
        /\ current' = [current EXCEPT ![Place(m)] = Nothing]
        /\ Call(m)
        /\ UNCHANGED <<Taken, known>>

\* The handler raises, its event is lost and not answered; what it has noted stays.  A
\* token: Transaction has no start_idtoken.  An EVSE the client was not told of.  The end
\* of a transaction whose EVSE the client does not know.
TakeRaises ==
    \E m \in Incoming :
        /\ Take /\ m.event # "status"
        /\ LET noPlace == m.event = "ended" /\ m.evse = Nothing /\ Place(m) \notin known
           IN  /\ m.token \/ m.evse \notin known \cup {Nothing} \/ noPlace
               /\ ongoing' = IF noPlace /\ ~m.token THEN ongoing \ {m.tran}
                             ELSE ongoing \cup {m.tran}
        /\ evseOf' = IF m.token \/ m.evse = Nothing THEN evseOf
                     ELSE [evseOf EXCEPT ![m.tran] = m.evse]
        /\ UNCHANGED <<Taken, known, current, calls, waiting>>

-------------------------------------------------------------------------------
(* The calls of the client and its connection.                             *)

\* The first call in the line is sent, and the CSMS answers it.
Transmit ==
    /\ calls > 0 /\ wire = "idle" /\ up
    /\ wire' = "answered"
    /\ inbox' = Append(inbox, Answer)
    /\ UNCHANGED <<physical, reports, waiting, asked, evses, connection, calls, handling, req,
                   point>>

\* Variant for the mutation runs: the late answer is taken for the next call's.
CallFailsKeepsAnswer ==
    /\ calls > 0
    /\ calls' = calls - 1 /\ wire' = "idle"
    /\ waiting' = FALSE
    /\ UNCHANGED <<physical, reports, asked, evses, connection, loop, req, point>>

\* An answer that comes too late is not looked at.
DropAnswer ==
    IF wire = "answered"
    THEN \E i \in DOMAIN inbox : inbox[i] = Answer /\ inbox' = RemoveAt(inbox, i)
    ELSE UNCHANGED inbox

\* The answer does not come in 30 seconds, or cannot be asked for any more.  The event is
\* queued.
CallFails ==
    /\ calls > 0
    /\ calls' = calls - 1 /\ wire' = "idle"
    /\ DropAnswer
    /\ waiting' = FALSE
    /\ UNCHANGED <<physical, reports, asked, evses, connection, handling, req, point>>

\* The BootNotification is answered, with "pending" and "rejected" taken together.
Boot ==
    /\ up
    /\ status' \in {"accepted", "refused"}
    /\ UNCHANGED <<physical, reports, waiting, asked, evses, up, cuts, restarted, line, loop,
                   req, point>>

Reconnect ==
    /\ ~up /\ handling = Nothing
    /\ up' = TRUE
    /\ UNCHANGED <<physical, reports, waiting, asked, evses, status, cuts, restarted, line,
                   loop, req, point>>

Lost == req' = [r \in Requests |-> IF req[r] \in {"sent", "asking"} THEN "lost" ELSE req[r]]

\* A handler goes on, and its answer goes nowhere.
Disconnect ==
    /\ up /\ up' = FALSE
    /\ cuts < MaxCuts /\ cuts' = cuts + 1
    /\ wire' = IF wire = "idle" THEN "idle" ELSE "cut"
    /\ inbox' = <<>>
    /\ Lost
    /\ UNCHANGED <<physical, reports, waiting, asked, evses, status, restarted, calls, handling,
                   point>>

\* The client is stopped and started again.  The broker keeps its queue.
RestartClient ==
    /\ cuts < MaxCuts /\ cuts' = cuts + 1
    /\ restarted' = TRUE
    /\ ongoing' = {} /\ known' = {}
    /\ current' = [e \in EVSEs |-> Nothing] /\ evseOf' = [t \in Trans |-> Nothing]
    /\ status' = "none" /\ up' = FALSE
    /\ calls' = 0 /\ wire' = "idle" /\ inbox' = <<>> /\ handling' = Nothing
    /\ Lost
    /\ UNCHANGED <<physical, reports, waiting, asked, point>>

-------------------------------------------------------------------------------
(* The requests of the CSMS.                                               *)

Subjects(k) == CASE k = "stop" -> Trans [] k = "other" -> {Nothing} [] OTHER -> EVSEs

Request(r) ==
    /\ req[r] = "new" /\ up
    /\ req' = [req EXCEPT ![r] = "sent"]
    /\ \E k \in Kind : \E x \in Subjects(k) :
        inbox' = Append(inbox, [kind |-> k, req |-> r, about |-> x])
    /\ UNCHANGED <<physical, reports, waiting, asked, evses, connection, line, handling,
                   point>>

\* The loop reads the next message.
Reads == handling = Nothing /\ inbox # <<>> /\ inbox' = Tail(inbox)

ReadAnswer ==
    /\ Reads /\ Head(inbox) = Answer
    /\ calls' = calls - 1 /\ wire' = "idle"
    /\ waiting' = FALSE
    /\ UNCHANGED <<physical, reports, asked, evses, connection, handling, req, point>>

\* Requests that never get to the decision point: a station that is not accepted refuses
\* them, one that did not boot those to start; the transaction to stop and the EVSE to
\* unlock must be there.
Barred(m) ==
    \/ m.kind # "other" /\ status = "refused"
    \/ m.kind = "start" /\ status # "accepted"
    \/ m.kind = "stop" /\ m.about \notin ongoing
    \/ m.kind = "unlock" /\ m.about \notin known

\* Of the other requests a station that is not accepted refuses some, and some are
\* answered from its database.
AnswerAtOnce ==
    /\ Reads /\ Head(inbox) # Answer
    /\ Barred(Head(inbox)) \/ Head(inbox).kind = "other"
    /\ Answered(Head(inbox).req)
    /\ UNCHANGED <<physical, reports, waiting, asked, evses, connection, line, handling,
                   point>>

AskPoint ==
    /\ Reads /\ Head(inbox) # Answer /\ ~Barred(Head(inbox))
    /\ handling' = Head(inbox)
    /\ req' = [req EXCEPT ![Head(inbox).req] = "asking"]
    /\ asked' = Append(asked, Head(inbox).kind)
    /\ UNCHANGED <<physical, reports, waiting, evses, connection, line, point>>

\* Variant for the mutation runs: no timeout while the connection is there.
StopAskingWhenDown ==
    /\ handling # Nothing /\ ~up
    /\ handling' = Nothing
    /\ Answered(handling.req)
    /\ UNCHANGED <<physical, reports, waiting, asked, evses, connection, line, inbox,
                   point>>

\* The decision point did not answer in 5 seconds: the CSMS is told "rejected".
StopAsking ==
    /\ handling # Nothing
    /\ handling' = Nothing
    /\ Answered(handling.req)
    /\ UNCHANGED <<physical, reports, waiting, asked, evses, connection, line, inbox,
                   point>>

-------------------------------------------------------------------------------
Read == ReadAnswer \/ AnswerAtOnce \/ AskPoint

ClientNext ==
    \/ \E e \in EVSEs : Announce(e) \/ \E t \in Trans : Start(t, e)
    \/ \E t \in Trans : Update(t) \/ End(t)
    \/ StopWaiting \/ Decide
    \/ TakeStatus \/ TakeEvent \/ TakeEnded \/ TakeRaises
    \/ Transmit \/ CallFails
    \/ Boot \/ Reconnect \/ Disconnect \/ RestartClient
    \/ Read \/ StopAsking
    \/ \E r \in Requests : Request(r)

\* The client's loop runs, and its timer; a publish for the decision point ends, which
\* wait_for does not see to (rabbit_handler.py:159).
ClientFairness == WF_client(Read) /\ WF_client(StopAsking)

ClientSpec == ClientInit /\ [][ClientNext]_client /\ ClientFairness

-------------------------------------------------------------------------------
\* Every variable stays in its domain; the loop waits only in a request the CSMS sent, and
\* an answer of the CSMS is for the first call in the line (charge_station.py:129-448).
ClientTypeOK ==
    /\ phase \in [Trans -> {"new", "running", "over"}]
    /\ at \in [Trans -> EVSEs \cup {Nothing}]
    /\ reports \in Seq(Report) /\ Len(reports) + calls <= MaxQueued
    /\ waiting \in BOOLEAN /\ asked \in Seq(Kind)
    /\ ongoing \subseteq Trans /\ known \subseteq EVSEs
    /\ current \in [EVSEs -> Trans \cup {Nothing}]
    /\ evseOf \in [Trans -> EVSEs \cup {Nothing}]
    /\ status \in {"none", "accepted", "refused"}
    /\ up \in BOOLEAN /\ cuts \in 0 .. MaxCuts /\ restarted \in BOOLEAN
    /\ calls \in 0 .. MaxQueued /\ wire \in {"idle", "answered", "cut"}
    /\ inbox \in Seq(ToClient)
    /\ handling \in ToClient \cup {Nothing}
    /\ handling # Nothing => req[handling.req] \in {"asking", "lost"}
    /\ wire = "answered" <=> Contains(inbox, Answer)
    /\ wire # "idle" => calls > 0
    /\ req \in [Requests -> RequestState]
    /\ orderly \in BOOLEAN /\ patient \in BOOLEAN

\* When no report of an EVSE's transactions is on its way, known_evses shows the
\* transaction that runs there, or none, and ongoing_transactions has exactly the running
\* ones, though reports were given up, calls failed and the connection was lost - as long
\* as the decision point is orderly and the client is not restarted
\* (charge_station.py:168-209).
KnowsStation ==
    orderly /\ ~restarted =>
        \A e \in EVSEs :
            (\A i \in DOMAIN reports : reports[i].tran = Nothing \/ at[reports[i].tran] # e) =>
                /\ {current[e]} \ {Nothing} = Running(e)
                /\ {t \in ongoing : at[t] = e} = Running(e)

\* A remote request is answered or lost with the connection, although the decision point
\* may be waiting for the very loop that waits for it (charge_station.py:332-448): once the
\* request is published, the timer of 5 seconds ends the wait.
RemoteRequestsEnd ==
    \A r \in Requests : (req[r] = "sent") ~> (req[r] \in {"answered", "lost"})
===============================================================================
