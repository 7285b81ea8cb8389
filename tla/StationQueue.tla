------------------------------ MODULE StationQueue ------------------------------
(***************************************************************************)
(* How the full station client delivers the events of a transaction         *)
(* (charge_station.py, db_CS.py): each event is sent by a task of its own,  *)
(* goes to queued_messages when that fails, and is sent from there by       *)
(* send_queued_messages, which runs after an accepted BootNotification.     *)
(*                                                                          *)
(* The ocpp library lets one call through at a time: calls is the line at   *)
(* its lock, with the call in progress at the head.  Events are numbered in *)
(* the order the decision point reports them.                               *)
(***************************************************************************)
EXTENDS Naturals, Sequences, FiniteSets

CONSTANTS LastEvent,   \* the events of the transaction are 1 .. LastEvent
          Drains,      \* BootNotifications that may be under way at a time
          NoDrain,     \* the sender of a call that is not made by one
          MaxDrops,    \* bound on the losses of the connection
          MaxTimeouts, \* bound on the calls that time out while connected
          MaxStops     \* bound on the restarts of the client by SIGINT

ASSUME StationBounds ==
    /\ LastEvent \in Nat /\ MaxDrops \in Nat
    /\ MaxTimeouts \in Nat /\ MaxStops \in Nat
ASSUME DrainAssumption == NoDrain \notin Drains

Events == 1 .. LastEvent

VARIABLES occurred, \* number of events reported so far
          up,       \* the connection to the CSMS: connection_active
          booted,   \* status is accepted
          queue,    \* queued_messages
          calls,    \* the line at the lock of call: by whom, which event
          wire,     \* where the call at the head is
          received, \* events the CSMS has got
          drops, timeouts, stops

env == <<drops, timeouts, stops>>
station == <<occurred, up, booted, queue, calls, wire, received, env>>

\* "idle": not sent yet.  "cut": sent on a connection that is gone since.
Wire == {"idle", "sent", "answered", "cut"}
Call(d, e) == [by |-> d, event |-> e]
BootNotification == 0

\* d has a call in the line: request_boot_notification and the run of
\* send_queued_messages that follows.
Busy(d) == \E i \in DOMAIN calls : calls[i].by = d

Init ==
    /\ occurred = 0
    /\ up = FALSE
    /\ booted = FALSE
    /\ queue = <<>>
    /\ calls = <<>>
    /\ wire = "idle"
    /\ received = {}
    /\ drops = 0 /\ timeouts = 0 /\ stops = 0

-------------------------------------------------------------------------------
(* request_transaction_event and send_queued_messages.                     *)

\* The next event reaches line 208: it is called when connected and booted, else queued.
\* Handlers that raise or return before that are TakeRaises of StationTransactions.
Occur ==
    /\ occurred < LastEvent
    /\ occurred' = occurred + 1
    /\ IF up /\ booted
       THEN calls' = Append(calls, Call(NoDrain, occurred + 1)) /\ UNCHANGED queue
       ELSE queue' = Append(queue, occurred + 1) /\ UNCHANGED calls
    /\ UNCHANGED <<up, booted, wire, received, env>>

\* The loop of run d over the queue q, the line being c: it calls the first message
\* without removing it, and ends when there is none or no connection.
Loop(d, q, c) ==
    calls' = IF up /\ q # <<>> THEN Append(c, Call(d, Head(q))) ELSE c

\* The decision point asks for a BootNotification.
Boot(d) ==
    /\ up
    /\ ~Busy(d)
    /\ calls' = Append(calls, Call(d, BootNotification))
    /\ UNCHANGED <<occurred, up, booted, queue, wire, received, env>>

Send ==
    /\ calls # <<>> /\ wire = "idle" /\ up
    /\ wire' = "sent"
    /\ UNCHANGED <<occurred, up, booted, queue, calls, received, env>>

\* The CSMS handles the message and answers.
Handle ==
    /\ wire = "sent"
    /\ wire' = "answered"
    /\ received' = received \cup ({Head(calls).event} \ {BootNotification})
    /\ UNCHANGED <<occurred, up, booted, queue, calls, env>>

\* The answer arrives; a CALLERROR counts as one, since call suppresses it.  The event of
\* a task is done.  An accepted BootNotification
\* sets the status and starts send_queued_messages, which takes the first message
\* off the queue, whichever it is now, when a message was answered.
Return ==
    /\ wire = "answered"
    /\ wire' = "idle"
    /\ LET c == Head(calls)
           q == IF queue = <<>> \/ c.event = BootNotification THEN queue ELSE Tail(queue)
       IN  IF c.by = NoDrain
           THEN calls' = Tail(calls) /\ UNCHANGED <<booted, queue>>
           ELSE /\ booted' = (booted \/ c.event = BootNotification)
                /\ queue' = q
                /\ Loop(c.by, q, Tail(calls))
    /\ UNCHANGED <<occurred, up, received, env>>

\* Variants for the mutation runs: an event that cannot be sent is dropped; a run of
\* send_queued_messages gives up.
FailDropsEvent ==
    LET c == Head(calls)
    IN  IF c.by \in Drains /\ c.event # BootNotification
        THEN Loop(c.by, queue, Tail(calls)) /\ UNCHANGED queue
        ELSE calls' = Tail(calls) /\ UNCHANGED queue
FailEndsRun ==
    LET c == Head(calls)
    IN  /\ calls' = Tail(calls)
        /\ queue' = IF c.by = NoDrain THEN Append(queue, c.event) ELSE queue

\* The call at the head raises.  A task queues its event; a failed BootNotification
\* leaves everything as it is (its handler raises too); a run of
\* send_queued_messages tries again.
Fail ==
    LET c == Head(calls)
    IN  CASE c.by = NoDrain -> calls' = Tail(calls) /\ queue' = Append(queue, c.event)
          [] c.event = BootNotification -> calls' = Tail(calls) /\ UNCHANGED queue
          [] OTHER -> Loop(c.by, queue, Tail(calls)) /\ UNCHANGED queue

\* There is no connection to send on.
SendFails ==
    /\ calls # <<>> /\ wire = "idle" /\ ~up
    /\ Fail
    /\ UNCHANGED <<occurred, up, booted, wire, received, env>>

\* No answer within the response timeout: never, on a connection that is gone.
Timeout ==
    /\ \/ wire = "cut" /\ UNCHANGED timeouts
       \/ /\ wire \in {"sent", "answered"}
          /\ timeouts < MaxTimeouts
          /\ timeouts' = timeouts + 1
    /\ wire' = "idle"
    /\ Fail
    /\ UNCHANGED <<occurred, up, booted, received, drops, stops>>

-------------------------------------------------------------------------------
(* The connection and the process.                                         *)

Restore ==
    /\ ~up
    /\ up' = TRUE
    /\ UNCHANGED <<occurred, booted, queue, calls, wire, received, env>>

Drop ==
    /\ up
    /\ drops < MaxDrops
    /\ drops' = drops + 1
    /\ up' = FALSE
    /\ wire' = IF wire = "idle" THEN "idle" ELSE "cut"
    /\ UNCHANGED <<occurred, booted, queue, calls, received, timeouts, stops>>

\* Variant for the mutation runs: the queue is not stored.
StopForgets ==
    /\ stops < MaxStops
    /\ stops' = stops + 1
    /\ queue' = <<>>
    /\ calls' = <<>> /\ wire' = "idle"
    /\ up' = FALSE /\ booted' = FALSE
    /\ UNCHANGED <<occurred, received, drops, timeouts>>

\* SIGINT and a new start: the queue is stored and read back; calls in progress are
\* not part of it.
Stop ==
    /\ stops < MaxStops
    /\ stops' = stops + 1
    /\ calls' = <<>> /\ wire' = "idle"
    /\ up' = FALSE /\ booted' = FALSE
    /\ UNCHANGED <<occurred, queue, received, drops, timeouts>>

-------------------------------------------------------------------------------
CallStep == Send \/ Return \/ SendFails \/ Timeout

Next ==
    \/ Occur \/ CallStep \/ Handle
    \/ \E d \in Drains : Boot(d)
    \/ Restore \/ Drop \/ Stop

\* The event loop runs ready tasks, the timeout of call goes off, a CSMS that is
\* reached answers, so that its publishes end, and the client reconnects.  Nobody has to
\* send a BootNotification.
Fairness == WF_station(CallStep) /\ WF_station(Handle) /\ WF_station(Restore)

Spec == Init /\ [][Next]_station
FairSpec == Spec /\ Fairness

-------------------------------------------------------------------------------
(* Properties.                                                             *)

InQueue(e) == \E i \in DOMAIN queue : queue[i] = e
InCall(e) == \E i \in DOMAIN calls : calls[i].event = e

\* Every variable stays in its domain, and a call is in progress only if there is one.
StationTypeOK ==
    /\ occurred \in 0 .. LastEvent
    /\ up \in BOOLEAN /\ booted \in BOOLEAN
    /\ queue \in Seq(Events)
    /\ calls \in Seq([by : Drains \cup {NoDrain}, event : Events \cup {BootNotification}])
    /\ wire \in Wire /\ (calls = <<>> => wire = "idle")
    /\ received \subseteq Events
    /\ drops \in 0 .. MaxDrops /\ timeouts \in 0 .. MaxTimeouts /\ stops \in 0 .. MaxStops

\* Line 214 "Store request in message queue": every event that was to be sent (line 208)
\* has reached the CSMS, is in the queue or is being sent.  A restart loses the calls in
\* progress, and an event whose handler raises or returns before line 208, for its token,
\* an EVSE that was not announced or an end without a place, never gets there.
NothingLost ==
    stops = 0 => \A e \in 1 .. occurred : e \in received \/ InQueue(e) \/ InCall(e)

\* A queued event leaves the queue only when the CSMS has it, across lost
\* connections, timeouts and restarts.
QueuedUntilReceived ==
    [][\A e \in Events : InQueue(e) /\ e \notin received => InQueue(e)']_station

Draining == \E i \in DOMAIN calls : calls[i].by \in Drains /\ calls[i].event \in Events

\* Once send_queued_messages runs it empties the queue or loses the connection, as long
\* as its calls await an answer (one that raises at once, after the status was lost,
\* makes lines 149-159 spin).
DrainEmptiesQueue ==
    Draining ~> queue = <<>> \/ ~up
===============================================================================
