---------------------------- MODULE RabbitRpcProofs ----------------------------
(***************************************************************************)
(* RabbitRpc for any number of calls and crashes.  What on_response may    *)
(* rely on rests on the uniqueness of the keys, which create_request_id    *)
(* provides for Topic_Message and not for Fanout_Message; at-most-once     *)
(* handling does not depend on it.                                         *)
(***************************************************************************)
EXTENDS RabbitRpc, TLAPS

UniqueKeys == \A c, d \in Calls : KeyOf[c] = KeyOf[d] => c = d

-------------------------------------------------------------------------------
(* The life of a request message and its response.                            *)

MessageInv ==
    /\ \A c \in Calls : req[c] = "handling" => handled[c] = 1
    /\ \A c \in Calls : req[c] \in {"none", "queued", "acked"} => handled[c] = 0
    /\ \A c \in Calls : handled[c] \in {0, 1}
    /\ \A c \in responses : req[c] = "over" /\ handled[c] = 1
    /\ \A c \in Calls : pc[c] = "idle" => req[c] = "none"

\* The future, the map and the task of a call.  Under unique keys an entry is popped
\* by its own call or by its own response.
FutureInv ==
    /\ \A c \in Calls : pc[c] = "idle" => fut[c] = "none"
    /\ \A c \in Calls : pc[c] \in {"publishing", "waiting"} => fut[c] \in {"pending", "done"}
    /\ \A c \in Calls : pc[c] = "expired" => fut[c] = "cancelled"
    /\ \A c \in Calls : pc[c] = "answered" => fut[c] = "done"
    /\ \A c \in Calls : answer[c] = IF fut[c] = "done" THEN c ELSE None
    /\ \A c \in Calls : fut[c] = "done" => handled[c] = 1
    /\ \A k \in Keys : futures[k] # None =>
          /\ pc[futures[k]] \in {"publishing", "waiting", "expired", "unsent"}
          /\ fut[futures[k]] # "done"
    /\ \A c \in Calls :
          pc[c] = "expired" /\ futures[KeyOf[c]] # c => req[c] = "over" /\ c \notin responses
    /\ WaitingIsReachable
    /\ LostOnlyAfterResponse

IInv == TypeOK /\ MessageInv /\ FutureInv

-------------------------------------------------------------------------------
(* Types.                                                                     *)

\* The initial state is well typed.
LEMMA InitTypeOK == Init => TypeOK
  BY MaxCrashesAssumption DEF Init, TypeOK, PC, Fut, Req

\* Every step keeps the types.
LEMMA NextTypeOK == TypeOK /\ [Next]_vars => TypeOK'
<1> SUFFICES ASSUME TypeOK, [Next]_vars PROVE TypeOK'
  OBVIOUS
<1> USE DEF TypeOK, PC, Fut, Req, caller, service
<1>1. ASSUME NEW c \in Calls, Start(c) PROVE TypeOK'
  BY <1>1, KeyOfAssumption DEF Start
<1>2. ASSUME NEW c \in Calls, CallStep(c) PROVE TypeOK'
  <2>1. CASE Published(c) \/ PublishFails(c) \/ Return(c) \/ Expire(c)
    BY <2>1 DEF Published, PublishFails, Return, Expire
  <2>2. CASE GiveUp(c)
    BY <2>2, KeyOfAssumption DEF GiveUp
  <2> QED BY <1>2, <2>1, <2>2 DEF CallStep, WaitStep
<1>3. ASSUME NEW c \in Calls, OnResponse(c) PROVE TypeOK'
  BY <1>3, KeyOfAssumption DEF OnResponse
<1>4. ASSUME NEW c \in Calls, Route(c) \/ Ack(c) \/ Handle(c) PROVE TypeOK'
  BY <1>4 DEF Route, Ack, Handle
<1>5. ASSUME NEW c \in Calls, Respond(c) \/ StaySilent(c) PROVE TypeOK'
  BY <1>5 DEF Respond, StaySilent
<1>6. CASE RequesterCrash
  BY <1>6, MaxCrashesAssumption DEF RequesterCrash, Ended
<1>7. CASE ServiceCrash
  BY <1>7, MaxCrashesAssumption DEF ServiceCrash
<1>8. CASE UNCHANGED vars
  BY <1>8 DEF vars
<1> QED BY <1>1, <1>2, <1>3, <1>4, <1>5, <1>6, <1>7, <1>8 DEF Next

\* TypeOK holds in every reachable state.
THEOREM TypeCorrect == Spec => []TypeOK
  BY InitTypeOK, NextTypeOK, PTL DEF Spec

-------------------------------------------------------------------------------
(* Messages: handled at most once, whatever the keys.                         *)

\* Every step keeps the message invariant.
LEMMA NextMessageInv == TypeOK /\ MessageInv /\ [Next]_vars => MessageInv'
<1> SUFFICES ASSUME TypeOK, MessageInv, [Next]_vars PROVE MessageInv'
  OBVIOUS
<1> USE DEF TypeOK, MessageInv, caller, service
<1>1. ASSUME NEW c \in Calls, Start(c) PROVE MessageInv'
  BY <1>1 DEF Start
<1>2. ASSUME NEW c \in Calls, CallStep(c) PROVE MessageInv'
  BY <1>2 DEF CallStep, WaitStep, Published, PublishFails, Return, Expire, GiveUp
<1>3. ASSUME NEW c \in Calls, OnResponse(c) PROVE MessageInv'
  BY <1>3 DEF OnResponse
<1>4. ASSUME NEW c \in Calls, Route(c) \/ Ack(c) \/ Handle(c) PROVE MessageInv'
  BY <1>4 DEF Route, Ack, Handle
<1>5. ASSUME NEW c \in Calls, Respond(c) \/ StaySilent(c) PROVE MessageInv'
  BY <1>5 DEF Respond, StaySilent
<1>6. CASE RequesterCrash
  BY <1>6 DEF RequesterCrash
<1>7. CASE ServiceCrash
  BY <1>7 DEF ServiceCrash
<1>8. CASE UNCHANGED vars
  BY <1>8 DEF vars
<1> QED BY <1>1, <1>2, <1>3, <1>4, <1>5, <1>6, <1>7, <1>8 DEF Next

\* No request is handled twice: the acknowledgement comes first.
THEOREM AtMostOnce == Spec => []HandledAtMostOnce
<1>1. Init => MessageInv
  BY DEF Init, MessageInv
<1>2. MessageInv => HandledAtMostOnce
  <2> SUFFICES ASSUME MessageInv, NEW c \in Calls PROVE handled[c] <= 1
    BY DEF HandledAtMostOnce
  <2>1. handled[c] = 0 \/ handled[c] = 1
    BY DEF MessageInv
  <2> QED BY <2>1
<1> QED BY <1>1, <1>2, InitTypeOK, NextTypeOK, NextMessageInv, PTL DEF Spec

-------------------------------------------------------------------------------
(* Futures: with unique keys a response finds the call it belongs to.         *)

\* Every step keeps the invariant.
LEMMA NextFutureInv ==
    ASSUME UniqueKeys, IInv, TypeOK', [Next]_vars
    PROVE  FutureInv'
<1> USE DEF IInv, TypeOK, MessageInv, FutureInv, caller, service,
            WaitingIsReachable, LostOnlyAfterResponse
<1>1. ASSUME NEW c \in Calls, Start(c) PROVE FutureInv'
  BY <1>1, KeyOfAssumption, NoCallAssumption DEF Start, UniqueKeys
<1>2. ASSUME NEW c \in Calls, CallStep(c) PROVE FutureInv'
  <2>1. CASE Published(c)
    BY <2>1 DEF Published
  <2>2. CASE PublishFails(c)
    BY <2>2 DEF PublishFails
  <2>3. CASE Return(c)
    BY <2>3 DEF Return
  <2>4. CASE Expire(c)
    BY <2>4 DEF Expire
  <2>5. CASE GiveUp(c)
    BY <2>5, KeyOfAssumption, NoCallAssumption DEF GiveUp, UniqueKeys
  <2> QED BY <1>2, <2>1, <2>2, <2>3, <2>4, <2>5 DEF CallStep, WaitStep
<1>3. ASSUME NEW c \in Calls, OnResponse(c) PROVE FutureInv'
  BY <1>3, KeyOfAssumption, NoCallAssumption DEF OnResponse, UniqueKeys
<1>4. ASSUME NEW c \in Calls, Route(c) \/ Ack(c) \/ Handle(c) PROVE FutureInv'
  BY <1>4 DEF Route, Ack, Handle
<1>5. ASSUME NEW c \in Calls, Respond(c) \/ StaySilent(c) PROVE FutureInv'
  BY <1>5 DEF Respond, StaySilent
<1>6. CASE RequesterCrash
  BY <1>6, KeyOfAssumption DEF RequesterCrash, Ended
<1>7. CASE ServiceCrash
  BY <1>7 DEF ServiceCrash
<1>8. CASE UNCHANGED vars
  BY <1>8 DEF vars
<1> QED BY <1>1, <1>2, <1>3, <1>4, <1>5, <1>6, <1>7, <1>8 DEF Next

\* With unique keys the invariant holds in every reachable state.
LEMMA Invariant ==
    ASSUME UniqueKeys
    PROVE  Spec => []IInv
<1>1. Init => IInv
  BY InitTypeOK DEF Init, IInv, MessageInv, FutureInv, WaitingIsReachable,
     LostOnlyAfterResponse
<1>2. IInv /\ [Next]_vars => IInv'
  BY NextTypeOK, NextMessageInv, NextFutureInv DEF IInv
<1> QED BY <1>1, <1>2, PTL DEF Spec

\* With unique keys a call gets the response to its own request or none.
THEOREM AnswersAreRight ==
    ASSUME UniqueKeys
    PROVE  Spec => []RightAnswer
<1>1. IInv => RightAnswer
  BY DEF IInv, FutureInv, RightAnswer
<1> QED BY <1>1, Invariant, PTL

\* With unique keys the map holds entries of running calls only, but for those whose
\* publish failed.
THEOREM MapHasNoStaleEntry ==
    ASSUME UniqueKeys
    PROVE  Spec => []NoStaleEntry
<1>1. IInv => NoStaleEntry
  BY DEF IInv, FutureInv, NoStaleEntry
<1> QED BY <1>1, Invariant, PTL

\* With unique keys a waiting call is found by its response.
THEOREM ResponsesReachWaitingCalls ==
    ASSUME UniqueKeys
    PROVE  Spec => [](WaitingIsReachable /\ LostOnlyAfterResponse)
<1>1. IInv => WaitingIsReachable /\ LostOnlyAfterResponse
  BY DEF IInv, FutureInv
<1> QED BY <1>1, Invariant, PTL

-------------------------------------------------------------------------------
(* The machinery of futures implements the promise to the caller.             *)

\* The three variables of RpcPromise.
Served == {c \in Calls : handled[c] > 0}
Received == [c \in Calls |-> IF pc[c] = "answered" THEN answer[c] ELSE None]
promised == <<Outcome, Served, Received>>

\* Every step is a step of the promise or invisible to the caller.
LEMMA StepImplements ==
    ASSUME IInv, IInv', [Next]_vars
    PROVE  [Promise!Next]_promised
<1> USE DEF promised
<1>1. ASSUME NEW c \in Calls, Start(c) PROVE Promise!Issue(c)
  BY <1>1 DEF IInv, TypeOK, Start, Promise!Issue, Outcome, Served, Received, service
<1>2. ASSUME NEW c \in Calls, Return(c) PROVE Promise!Answer(c)
  <2>1. answer[c] = c /\ handled[c] = 1
    BY <1>2 DEF IInv, FutureInv, Return
  <2>2. c \in Served /\ UNCHANGED Served
    BY <1>2, <2>1 DEF Return, Served, service
  <2>3. Outcome[c] = "pending" /\ Outcome' = [Outcome EXCEPT ![c] = "answered"]
    BY <1>2 DEF IInv, TypeOK, Return, Outcome
  <2>4. Received' = [Received EXCEPT ![c] = c]
    BY <1>2, <2>1 DEF IInv, TypeOK, Return, Received
  <2> QED BY <2>2, <2>3, <2>4 DEF Promise!Answer, Served, Received
<1>3. ASSUME NEW c \in Calls, PublishFails(c) \/ GiveUp(c) PROVE Promise!Fail({c})
  BY <1>3 DEF IInv, TypeOK, PublishFails, GiveUp, Promise!Fail, Outcome, Served,
     Received, service
<1>4. CASE RequesterCrash
  <2> DEFINE C == {c \in Calls : pc[c] \in {"publishing", "waiting", "expired"}}
  <2>1. Promise!Fail(C)
    BY <1>4 DEF IInv, TypeOK, PC, Ended, RequesterCrash, Promise!Fail, Outcome,
       Served, Received, service
  <2> QED BY <2>1 DEF Promise!Next
<1>5. ASSUME NEW c \in Calls, Handle(c) PROVE Promise!Serve(c)
  <2>1. handled[c] = 0 /\ pc[c] # "idle"
    BY <1>5 DEF IInv, MessageInv, Handle
  <2>2. Served' = Served \cup {c}
    BY <1>5, <2>1 DEF IInv, TypeOK, Handle, Served
  <2>3. Outcome[c] # "idle"
    BY <2>1 DEF Outcome
  <2> QED BY <1>5, <2>1, <2>2, <2>3 DEF Handle, Promise!Serve, Outcome, Served,
             Received, caller
<1>6. ASSUME NEW c \in Calls, Published(c) \/ Expire(c) PROVE UNCHANGED promised
  BY <1>6 DEF IInv, TypeOK, Published, Expire, Outcome, Served, Received, service
<1>7. ASSUME NEW c \in Calls, OnResponse(c) PROVE UNCHANGED promised
  <2>1. Received' = Received
    <3> SUFFICES ASSUME NEW d \in Calls, pc[d] = "answered" PROVE answer'[d] = answer[d]
      BY <1>7 DEF OnResponse, Received
    <3>1. fut[d] = "done"
      BY DEF IInv, FutureInv
    <3> QED BY <1>7, <3>1 DEF IInv, TypeOK, OnResponse
  <2> QED BY <1>7, <2>1 DEF OnResponse, Outcome, Served, service
<1>8. ASSUME NEW c \in Calls,
             Route(c) \/ Ack(c) \/ Respond(c) \/ StaySilent(c) \/ ServiceCrash
      PROVE  UNCHANGED promised
  BY <1>8 DEF Route, Ack, Respond, StaySilent, ServiceCrash, Outcome, Served,
     Received, caller
<1>9. CASE ServiceCrash \/ UNCHANGED vars
  BY <1>9 DEF ServiceCrash, vars, Outcome, Served, Received, caller, service
<1> QED BY <1>1, <1>2, <1>3, <1>4, <1>5, <1>6, <1>7, <1>8, <1>9
        DEF Next, CallStep, WaitStep, Promise!Next

\* For any number of calls and crashes: a call ends once, with its own answer or an
\* exception, and its request is handled once at most.
THEOREM RpcImplementsPromise ==
    ASSUME UniqueKeys
    PROVE  Spec => ImplementsPromise
<1>1. Init => Promise!Init
  BY DEF Init, Promise!Init, Outcome
<1>2. IInv /\ IInv' /\ [Next]_vars => [Promise!Next]_promised
  BY StepImplements
<1> QED BY <1>1, <1>2, Invariant, PTL
    DEF Spec, ImplementsPromise, Promise!Spec, Promise!promiseVars, promised, Served,
        Received
===============================================================================
