-------------------------------- MODULE RabbitRpc --------------------------------
(***************************************************************************)
(* Request and response over RabbitMQ (rabbit_handler.py): the tasks of one *)
(* requesting process, the broker, and the process that handles requests.   *)
(*                                                                          *)
(* A call registers a future in `futures` under the key of its message,     *)
(* publishes the message, and waits for the future or a timeout.  Responses *)
(* are matched by that key alone.  A Topic_Message's key is a fresh uuid; a *)
(* Fanout_Message's is its intent, which other calls share: KeyOf says      *)
(* which, so one module covers both.                                        *)
(***************************************************************************)
EXTENDS Naturals

CONSTANTS Calls,     \* the calls of send_request_wait_response
          Keys,      \* the keys of the futures map
          KeyOf,     \* [Calls -> Keys]: create_request_id
          MaxCrashes,\* bound on the crashes of either process
          None

ASSUME KeyOfAssumption == KeyOf \in [Calls -> Keys]
ASSUME NoCallAssumption == None \notin Calls
ASSUME MaxCrashesAssumption == MaxCrashes \in Nat

VARIABLES pc,        \* [Calls -> PC]: where the task of the call is
          fut,       \* [Calls -> Fut]: its future
          answer,    \* [Calls -> Calls], None: the request whose response it got
          futures,   \* [Keys -> Calls], None: self.futures of the requester
          req,       \* [Calls -> Req]: the request message
          handled,   \* [Calls -> Nat]: how often handle_request ran for it
          responses, \* calls whose response is in the response queue
          crashes    \* number of crashes so far

caller == <<pc, fut, answer, futures>>
service == <<req, handled>>
vars == <<pc, fut, answer, futures, req, handled, responses, crashes>>

\* "expired": wait_for has cancelled the future and the task is not resumed yet.
\* "lost": the task ended with the KeyError of futures.pop (line 172).
PC == {"idle", "publishing", "waiting", "expired",
       "answered", "timedout", "lost", "unsent", "dead"}
Ended == {"answered", "timedout", "lost", "unsent", "dead"}
Fut == {"none", "pending", "done", "cancelled"}
Req == {"none", "queued", "acked", "handling", "over"}

Init ==
    /\ pc = [c \in Calls |-> "idle"]
    /\ fut = [c \in Calls |-> "none"]
    /\ answer = [c \in Calls |-> None]
    /\ futures = [k \in Keys |-> None]
    /\ req = [c \in Calls |-> "none"]
    /\ handled = [c \in Calls |-> 0]
    /\ responses = {}
    /\ crashes = 0

-------------------------------------------------------------------------------
(* The requester: send_request_wait_response.                              *)

\* Lines 148-156.  A key in use is overwritten.
Start(c) ==
    /\ pc[c] = "idle"
    /\ pc' = [pc EXCEPT ![c] = "publishing"]
    /\ fut' = [fut EXCEPT ![c] = "pending"]
    /\ futures' = [futures EXCEPT ![KeyOf[c]] = c]
    /\ UNCHANGED <<answer, service, responses, crashes>>

\* The broker routes the message of a publish in progress.
Route(c) ==
    /\ pc[c] = "publishing"
    /\ req[c] = "none"
    /\ req' = [req EXCEPT ![c] = "queued"]
    /\ UNCHANGED <<caller, handled, responses, crashes>>

\* The publish is confirmed and the task starts to wait.
Published(c) ==
    /\ pc[c] = "publishing"
    /\ req[c] # "none"
    /\ pc' = [pc EXCEPT ![c] = "waiting"]
    /\ UNCHANGED <<fut, answer, futures, service, responses, crashes>>

\* The publish raises.  It is outside the try block: the entry of the map stays.
PublishFails(c) ==
    /\ pc[c] = "publishing"
    /\ pc' = [pc EXCEPT ![c] = "unsent"]
    /\ UNCHANGED <<fut, answer, futures, service, responses, crashes>>

\* Variant for the mutation runs: the task resumes without a result.
ReturnEarly(c) ==
    /\ pc[c] = "waiting"
    /\ pc' = [pc EXCEPT ![c] = "answered"]
    /\ UNCHANGED <<fut, answer, futures, service, responses, crashes>>

\* The wait is over because the future has a result.
Return(c) ==
    /\ pc[c] = "waiting"
    /\ fut[c] = "done"
    /\ pc' = [pc EXCEPT ![c] = "answered"]
    /\ UNCHANGED <<fut, answer, futures, service, responses, crashes>>

\* Variant for the mutation runs: no timeout.
ExpireNever(c) == FALSE /\ UNCHANGED vars

\* The timer of wait_for fires: the future is cancelled, the task will run later.
Expire(c) ==
    /\ pc[c] = "waiting"
    /\ fut[c] = "pending"
    /\ pc' = [pc EXCEPT ![c] = "expired"]
    /\ fut' = [fut EXCEPT ![c] = "cancelled"]
    /\ UNCHANGED <<answer, futures, service, responses, crashes>>

\* Variant for the mutation runs: the map keeps the key of a call that timed out.
GiveUpKeepsEntry(c) ==
    /\ pc[c] = "expired"
    /\ pc' = [pc EXCEPT ![c] = "timedout"]
    /\ UNCHANGED <<fut, answer, futures, service, responses, crashes>>

\* The except block: the key is popped, whichever call registered it last; when a
\* response has popped it meanwhile the pop itself raises.
GiveUp(c) ==
    /\ pc[c] = "expired"
    /\ pc' = [pc EXCEPT ![c] = IF futures[KeyOf[c]] = None THEN "lost" ELSE "timedout"]
    /\ futures' = [futures EXCEPT ![KeyOf[c]] = None]
    /\ UNCHANGED <<fut, answer, service, responses, crashes>>

\* Variant for the mutation runs: on_response sets the result of whichever call
\* waits, without looking at the correlation id.
OnResponseAnyKey(c) ==
    /\ c \in responses
    /\ responses' = responses \ {c}
    /\ \E k \in Keys :
        /\ futures[k] # None
        /\ LET d == futures[k]
           IN  /\ futures' = [futures EXCEPT ![k] = None]
               /\ fut[d] = "pending"
               /\ fut' = [fut EXCEPT ![d] = "done"]
               /\ answer' = [answer EXCEPT ![d] = c]
    /\ UNCHANGED <<pc, service, crashes>>

\* on_response for the response to call c.  Without an entry it is ignored.  A
\* cancelled future refuses the result; the entry is gone all the same.
OnResponse(c) ==
    /\ c \in responses
    /\ responses' = responses \ {c}
    /\ LET d == futures[KeyOf[c]]
       IN  /\ futures' = [futures EXCEPT ![KeyOf[c]] = None]
           /\ IF d # None /\ fut[d] = "pending"
              THEN /\ fut' = [fut EXCEPT ![d] = "done"]
                   /\ answer' = [answer EXCEPT ![d] = c]
              ELSE UNCHANGED <<fut, answer>>
    /\ UNCHANGED <<pc, service, crashes>>

\* The requesting process stops and starts again: its tasks and its map are gone,
\* what the broker holds for it is not.
RequesterCrash ==
    /\ crashes < MaxCrashes
    /\ crashes' = crashes + 1
    /\ pc' = [c \in Calls |-> IF pc[c] \in {"idle"} \cup Ended THEN pc[c] ELSE "dead"]
    /\ futures' = [k \in Keys |-> None]
    /\ UNCHANGED <<fut, answer, service, responses>>

-------------------------------------------------------------------------------
(* The handling process: on_request.                                       *)

\* unpack: the message is acknowledged before anything else happens.
Ack(c) ==
    /\ req[c] = "queued"
    /\ req' = [req EXCEPT ![c] = "acked"]
    /\ UNCHANGED <<caller, handled, responses, crashes>>

\* handle_request starts.
Handle(c) ==
    /\ req[c] = "acked"
    /\ req' = [req EXCEPT ![c] = "handling"]
    /\ handled' = [handled EXCEPT ![c] = @ + 1]
    /\ UNCHANGED <<caller, responses, crashes>>

\* It returned content or raised: either way a response is published.
Respond(c) ==
    /\ req[c] = "handling"
    /\ req' = [req EXCEPT ![c] = "over"]
    /\ responses' = responses \cup {c}
    /\ UNCHANGED <<caller, handled, crashes>>

\* It returned None: nothing is sent back (line 136).  The same when publishing
\* the response fails.
StaySilent(c) ==
    /\ req[c] = "handling"
    /\ req' = [req EXCEPT ![c] = "over"]
    /\ UNCHANGED <<caller, handled, responses, crashes>>

\* The process stops: what it has acknowledged is lost, the rest stays queued.
ServiceCrash ==
    /\ crashes < MaxCrashes
    /\ crashes' = crashes + 1
    /\ req' = [c \in Calls |-> IF req[c] \in {"acked", "handling"} THEN "over" ELSE req[c]]
    /\ UNCHANGED <<caller, handled, responses>>

-------------------------------------------------------------------------------
\* The steps of a task that waits.
WaitStep(c) == Return(c) \/ Expire(c) \/ GiveUp(c)
CallStep(c) == Published(c) \/ PublishFails(c) \/ WaitStep(c)

Next ==
    \/ \E c \in Calls :
        \/ Start(c) \/ CallStep(c) \/ OnResponse(c)
        \/ Route(c) \/ Ack(c) \/ Handle(c) \/ Respond(c) \/ StaySilent(c)
    \/ RequesterCrash
    \/ ServiceCrash

\* The event loop runs a ready task and fires a due timer.  Nothing is assumed of the
\* broker, not even that it lets a publish end, of the handling process or of new calls.
Fairness == \A c \in Calls : WF_vars(WaitStep(c))

Spec == Init /\ [][Next]_vars
FairSpec == Spec /\ Fairness

-------------------------------------------------------------------------------
(* Properties.                                                             *)

\* Every variable stays in its domain, and an entry of the map is under its key.
TypeOK ==
    /\ pc \in [Calls -> PC]
    /\ fut \in [Calls -> Fut]
    /\ answer \in [Calls -> Calls \cup {None}]
    /\ futures \in [Keys -> Calls \cup {None}]
    /\ \A k \in Keys : futures[k] # None => KeyOf[futures[k]] = k
    /\ req \in [Calls -> Req]
    /\ handled \in [Calls -> Nat]
    /\ responses \subseteq Calls
    /\ crashes \in 0 .. MaxCrashes

\* A call that returns content returns the answer to its own request, however late,
\* and after whatever crash, responses arrive (lines 99-109).
RightAnswer == \A c \in Calls : answer[c] # None => answer[c] = c

\* No request is handled twice, not even when the handling process stops in the
\* middle: it is acknowledged before it is handled (line 91).
HandledAtMostOnce == \A c \in Calls : handled[c] <= 1

\* The map holds no entry of a call that is over, except of one whose publish failed
\* (line 159 is outside the try block).
NoStaleEntry ==
    \A k \in Keys : futures[k] # None =>
        pc[futures[k]] \in {"publishing", "waiting", "expired", "unsent"}

\* A call is waiting with an unanswered future only while its entry is in the map:
\* a response that arrives in time finds it (lines 104-109).
WaitingIsReachable ==
    \A c \in Calls :
        pc[c] \in {"publishing", "waiting"} /\ fut[c] = "pending"
            => futures[KeyOf[c]] = c

\* A call ends with the KeyError of line 172 only when its response came after all.
LostOnlyAfterResponse ==
    \A c \in Calls : pc[c] = "lost" => req[c] = "over" /\ c \notin responses

\* A call whose request was published ends, whatever the broker and the other process do
\* after that: the timeout sees to it (line 163).  Nothing bounds the publish itself, which
\* is awaited outside wait_for (line 159): a broker that blocks it blocks the call.
EveryCallEnds ==
    \A c \in Calls : pc[c] = "waiting" ~> pc[c] \in Ended

\* What the caller sees of a call: the future is internal until the task resumes.
Outcome ==
    [c \in Calls |->
        CASE pc[c] = "idle" -> "idle"
          [] pc[c] \in {"publishing", "waiting", "expired"} -> "pending"
          [] pc[c] = "answered" -> "answered"
          [] OTHER -> "failed"]

Promise == INSTANCE RpcPromise WITH
    outcome <- Outcome,
    served <- {c \in Calls : handled[c] > 0},
    answer <- [c \in Calls |-> IF pc[c] = "answered" THEN answer[c] ELSE None]

\* With unique keys the futures, timeouts, late responses and crashes add up to a
\* call that ends once, with its own answer or an exception.
ImplementsPromise == Promise!Spec
===============================================================================
