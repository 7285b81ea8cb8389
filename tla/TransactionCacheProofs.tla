-------------------------- MODULE TransactionCacheProofs --------------------------
(***************************************************************************)
(* TransactionCache for any transactions, calls and actions: a call raises *)
(* only after the end of its transaction, the cache never names an action  *)
(* that a careful caller's station does not take, and it follows events    *)
(* that come in order.                                                     *)
(***************************************************************************)
EXTENDS TransactionCache, TLAPS

-------------------------------------------------------------------------------
(* The queue.                                                              *)

\* The elements of Append are the old ones and the new one.
LEMMA AppendElements ==
    ASSUME NEW S, NEW q \in Seq(S), NEW x \in S
    PROVE  /\ Append(q, x) \in Seq(S)
           /\ \A i \in DOMAIN Append(q, x) : Append(q, x)[i] = x \/ \E j \in DOMAIN q : Append(q, x)[i] = q[j]
<1>1. Append(q, x) \in Seq(S) /\ DOMAIN Append(q, x) = 1 .. Len(q) + 1 /\ DOMAIN q = 1 .. Len(q)
  OBVIOUS
<1>2. ASSUME NEW i \in 1 .. Len(q) + 1
      PROVE  Append(q, x)[i] = x \/ (i \in 1 .. Len(q) /\ Append(q, x)[i] = q[i])
  OBVIOUS
<1> QED BY <1>1, <1>2

\* The head and the elements of the tail are elements.
LEMMA TailElements ==
    ASSUME NEW S, NEW q \in Seq(S), q # <<>>
    PROVE  /\ Head(q) \in S /\ Tail(q) \in Seq(S)
           /\ 1 \in DOMAIN q /\ Head(q) = q[1]
           /\ \A i \in DOMAIN Tail(q) : \E j \in DOMAIN q : Tail(q)[i] = q[j]
<1>1. /\ DOMAIN q = 1 .. Len(q) /\ Len(q) \in Nat \ {0} /\ Head(q) = q[1]
      /\ Tail(q) \in Seq(S) /\ DOMAIN Tail(q) = 1 .. Len(q) - 1
  OBVIOUS
<1>2. ASSUME NEW i \in 1 .. Len(q) - 1
      PROVE  i + 1 \in 1 .. Len(q) /\ Tail(q)[i] = q[i + 1]
  BY <1>1
<1>3. Head(q) \in S
  BY <1>1
<1> QED BY <1>1, <1>2, <1>3

-------------------------------------------------------------------------------
(* The invariant.                                                          *)

\* No event reaches the API before it occurred.
EventsOccurred == \A i \in DOMAIN toApi : toApi[i].n <= occurred[toApi[i].tran]

\* A call that is on its way has found an entry, which goes only when the transaction ends.
CallsHaveEntry ==
    \A c \in Calls : pc[c] \in {"calling", "accepted"} =>
        cache[tran[c]] # Absent \/ occurred[tran[c]] = LastEvent

IInv == TypeOK /\ EventsOccurred /\ CallsHaveEntry /\ RaisedOnlyAfterEnd

\* The initial state.
LEMMA InitIInv == Init => IInv
<1> SUFFICES ASSUME Init PROVE IInv
  OBVIOUS
<1>1. <<>> \in Seq(Event) /\ DOMAIN <<>> = {}
  OBVIOUS
<1>2. /\ occurred \in [Trans -> 0 .. LastEvent] /\ repeats \in 0 .. MaxRepeats
      /\ cache \in [Trans -> Entry] /\ pc \in [Calls -> PC]
      /\ tran \in [Calls -> Trans] /\ want \in [Calls -> Actions]
      /\ acting \in Actions \cup {Unset}
  BY EventsAssumption DEF Init, Entry, PC
<1>3. restarted \in BOOLEAN /\ orderly \in BOOLEAN /\ careful \in BOOLEAN
  BY Zenon DEF Init
<1>4. TypeOK
  BY <1>1, <1>2, <1>3 DEF Init, TypeOK
<1>5. EventsOccurred
  BY <1>1 DEF Init, EventsOccurred
<1> QED BY <1>4, <1>5 DEF Init, IInv, CallsHaveEntry, RaisedOnlyAfterEnd

\* What is queued stays behind what occurred, when that goes on and a new event is queued.
LEMMA QueueGrows ==
    ASSUME TypeOK, EventsOccurred, occurred' \in [Trans -> 0 .. LastEvent],
           \A y \in Trans : occurred[y] <= occurred'[y],
           NEW e \in Event, e.n <= occurred'[e.tran],
           toApi' = Append(toApi, e) \/ toApi' = toApi
    PROVE  toApi' \in Seq(Event) /\ EventsOccurred'
<1>1. ASSUME NEW i \in DOMAIN toApi PROVE toApi[i].n <= occurred'[toApi[i].tran]
  <2>1. toApi[i] \in Event
    BY DEF TypeOK
  <2>2. toApi[i].tran \in Trans /\ toApi[i].n \in Nat
    BY <2>1, EventsAssumption DEF Event
  <2>3. toApi[i].n <= occurred[toApi[i].tran]
    BY DEF EventsOccurred
  <2>4. occurred[toApi[i].tran] \in Nat /\ occurred'[toApi[i].tran] \in Nat
    BY <2>2, EventsAssumption DEF TypeOK
  <2>5. occurred[toApi[i].tran] <= occurred'[toApi[i].tran]
    BY <2>2
  <2> QED BY <2>2, <2>3, <2>4, <2>5
<1>2. CASE toApi' = Append(toApi, e)
  <2>1. toApi' \in Seq(Event)
        /\ \A i \in DOMAIN toApi' : toApi'[i] = e \/ \E j \in DOMAIN toApi : toApi'[i] = toApi[j]
    BY <1>2, AppendElements DEF TypeOK
  <2> QED BY <1>1, <2>1 DEF EventsOccurred
<1>3. CASE toApi' = toApi
  BY <1>1, <1>3 DEF EventsOccurred, TypeOK
<1> QED BY <1>2, <1>3

\* Nor does taking from the queue change that.
LEMMA QueueShrinks ==
    ASSUME TypeOK, EventsOccurred, UNCHANGED occurred,
           toApi' = toApi \/ (toApi # <<>> /\ toApi' = Tail(toApi))
    PROVE  toApi' \in Seq(Event) /\ EventsOccurred'
<1>1. CASE toApi' = toApi
  BY <1>1 DEF TypeOK, EventsOccurred
<1>2. CASE toApi # <<>> /\ toApi' = Tail(toApi)
  <2>1. toApi' \in Seq(Event)
        /\ \A i \in DOMAIN toApi' : \E j \in DOMAIN toApi : toApi'[i] = toApi[j]
    BY <1>2, TailElements DEF TypeOK
  <2> QED BY <2>1 DEF EventsOccurred
<1> QED BY <1>1, <1>2

\* The event at the head has a transaction, and has occurred.
LEMMA HeadEvent ==
    ASSUME TypeOK, EventsOccurred, toApi # <<>>
    PROVE  /\ Head(toApi).tran \in Trans
           /\ Head(toApi).n = LastEvent => occurred[Head(toApi).tran] = LastEvent
<1>1. Head(toApi) \in Event /\ 1 \in DOMAIN toApi /\ Head(toApi) = toApi[1]
  BY TailElements DEF TypeOK
<1>2. Head(toApi).n <= occurred[Head(toApi).tran]
  BY <1>1 DEF EventsOccurred
<1>3. Head(toApi).tran \in Trans
  BY <1>1 DEF Event
<1>4. occurred[Head(toApi).tran] \in 0 .. LastEvent
  BY <1>3 DEF TypeOK
<1> QED BY <1>2, <1>3, <1>4, EventsAssumption

\* The types, and what is on its way to the API.
LEMMA NextEvents == IInv /\ [Next]_vars => TypeOK' /\ EventsOccurred'
<1> SUFFICES ASSUME TypeOK, EventsOccurred, [Next]_vars PROVE TypeOK' /\ EventsOccurred'
  BY DEF IInv
<1> DEFINE Other == /\ repeats \in 0 .. MaxRepeats /\ cache \in [Trans -> Entry]
                    /\ pc \in [Calls -> PC] /\ tran \in [Calls -> Trans]
                    /\ want \in [Calls -> Actions] /\ acting \in Actions \cup {Unset}
                    /\ restarted \in BOOLEAN /\ orderly \in BOOLEAN /\ careful \in BOOLEAN
<1>a. Other /\ occurred \in [Trans -> 0 .. LastEvent] /\ toApi \in Seq(Event)
  BY DEF TypeOK
<1>b. occurred' \in [Trans -> 0 .. LastEvent] /\ toApi' \in Seq(Event) /\ Other' => TypeOK'
  BY DEF TypeOK
<1> HIDE DEF Other
<1>1. ASSUME NEW x \in Trans, Occur(x) PROVE TypeOK' /\ EventsOccurred'
  <2> DEFINE e == [tran |-> x, n |-> occurred[x] + 1]
  <2>1. occurred[x] \in Nat /\ occurred[x] < LastEvent
    BY <1>1, <1>a, EventsAssumption DEF Occur
  <2>2. e \in Event /\ e.tran = x /\ e.n = occurred[x] + 1
    BY <2>1, EventsAssumption DEF Event
  <2>3. /\ occurred' \in [Trans -> 0 .. LastEvent] /\ occurred'[x] = occurred[x] + 1
        /\ \A y \in Trans : occurred[y] <= occurred'[y]
    BY <1>1, <1>a, <2>1, EventsAssumption DEF Occur
  <2>4. e.n <= occurred'[e.tran]
    BY <2>1, <2>2, <2>3
  <2>5. toApi' = Append(toApi, e) \/ toApi' = toApi
    BY <1>1 DEF Occur
  <2>6. toApi' \in Seq(Event) /\ EventsOccurred'
    BY <2>2, <2>3, <2>4, <2>5, QueueGrows
  <2>7. Other'
    BY <1>1, <1>a DEF Occur, call, behaviour, Other
  <2> QED BY <1>b, <2>3, <2>6, <2>7
<1>2. ASSUME NEW x \in Trans, SendLate(x) PROVE TypeOK' /\ EventsOccurred'
  <2>1. PICK n \in 1 .. occurred[x] : toApi' = Append(toApi, [tran |-> x, n |-> n])
    BY <1>2 DEF SendLate
  <2> DEFINE e == [tran |-> x, n |-> n]
  <2>2. occurred[x] \in 0 .. LastEvent /\ UNCHANGED occurred
    BY <1>2, <1>a DEF SendLate
  <2>3. e \in Event /\ e.tran = x /\ e.n <= occurred[x]
    BY <2>1, <2>2, EventsAssumption DEF Event
  <2>4. \A y \in Trans : occurred[y] <= occurred'[y]
    BY <1>a, <2>2, EventsAssumption
  <2>5. toApi' \in Seq(Event) /\ EventsOccurred'
    BY <1>a, <2>1, <2>2, <2>3, <2>4, QueueGrows
  <2>6. Other'
    BY <1>2, <1>a, EventsAssumption DEF SendLate, call, behaviour, Other
  <2> QED BY <1>a, <1>b, <2>2, <2>5, <2>6
<1>3. CASE OnEvent
  <2>1. toApi' \in Seq(Event) /\ EventsOccurred'
    BY <1>3, QueueShrinks DEF OnEvent
  <2>2. Head(toApi).tran \in Trans
    BY <1>3, HeadEvent DEF OnEvent
  <2>3. cache' \in [Trans -> Entry]
    BY <1>3, <1>a, <2>2 DEF OnEvent, Entry, Other
  <2>4. Other'
    BY <1>3, <1>a, <2>3 DEF OnEvent, call, behaviour, Other
  <2> QED BY <1>3, <1>a, <1>b, <2>1, <2>4 DEF OnEvent
<1>4. ASSUME NEW c \in Calls, Begin(c) \/ Selected(c) \/ Take(c) \/ Refuse(c) \/ Finish(c)
      PROVE  TypeOK' /\ EventsOccurred'
  <2>1. UNCHANGED <<occurred, toApi>>
    BY <1>4 DEF Begin, Selected, Take, Refuse, Finish
  <2>2. EventsOccurred'
    BY <2>1 DEF EventsOccurred
  <2>3. pc' \in [Calls -> PC]
    BY <1>4, <1>a DEF Begin, Selected, Take, Refuse, Finish, Goto, PC, Other
  <2>4. cache' \in [Trans -> Entry] /\ acting' \in Actions \cup {Unset}
    BY <1>4, <1>a DEF Begin, Selected, Take, Refuse, Finish, Entry, Other
  <2>5. UNCHANGED <<repeats, tran, want, restarted, orderly, careful>>
    BY <1>4 DEF Begin, Selected, Take, Refuse, Finish, Goto, behaviour
  <2>6. Other'
    BY <1>a, <2>3, <2>4, <2>5 DEF Other
  <2> QED BY <1>a, <1>b, <2>1, <2>2, <2>6
<1>5. CASE Restart
  <2>1. toApi' \in Seq(Event) /\ EventsOccurred'
    BY <1>5, QueueShrinks DEF Restart
  <2>2. pc' \in [Calls -> PC] /\ cache' \in [Trans -> Entry]
    BY <1>5, <1>a DEF Restart, PC, Entry, Other
  <2>3. Other'
    BY <1>5, <1>a, <2>2, Zenon DEF Restart, behaviour, Other
  <2> QED BY <1>5, <1>a, <1>b, <2>1, <2>3 DEF Restart
<1>6. CASE UNCHANGED vars
  <2>1. EventsOccurred'
    BY <1>6 DEF vars, EventsOccurred
  <2>2. Other'
    BY <1>6, <1>a DEF vars, call, behaviour, Other
  <2> QED BY <1>6, <1>a, <1>b, <2>1, <2>2 DEF vars
<1> QED BY <1>1, <1>2, <1>3, <1>4, <1>5, <1>6 DEF Next

\* The calls.
LEMMA NextCalls == IInv /\ [Next]_vars => CallsHaveEntry' /\ RaisedOnlyAfterEnd'
<1> SUFFICES ASSUME IInv, [Next]_vars PROVE CallsHaveEntry' /\ RaisedOnlyAfterEnd'
  OBVIOUS
<1> USE EventsAssumption, ValuesAssumption
    DEF IInv, TypeOK, CallsHaveEntry, RaisedOnlyAfterEnd, PC, call, behaviour
<1>1. ASSUME NEW x \in Trans, Occur(x) PROVE CallsHaveEntry' /\ RaisedOnlyAfterEnd'
  <2>1. \A y \in Trans : occurred[y] = LastEvent => occurred'[y] = LastEvent
    BY <1>1 DEF Occur
  <2> QED BY <1>1, <2>1 DEF Occur
<1>2. ASSUME NEW x \in Trans, SendLate(x) PROVE CallsHaveEntry' /\ RaisedOnlyAfterEnd'
  BY <1>2 DEF SendLate
<1>3. CASE OnEvent
  <2>1. /\ Head(toApi).tran \in Trans
        /\ Head(toApi).n = LastEvent => occurred[Head(toApi).tran] = LastEvent
    BY <1>3, HeadEvent DEF OnEvent
  <2>2. \A y \in Trans : cache'[y] = Absent => cache[y] = Absent \/ occurred[y] = LastEvent
    BY <1>3, <2>1 DEF OnEvent
  <2> QED BY <1>3, <2>2 DEF OnEvent
<1>4. ASSUME NEW c \in Calls, Begin(c) \/ Selected(c) \/ Take(c) \/ Refuse(c) \/ Finish(c)
      PROVE  CallsHaveEntry' /\ RaisedOnlyAfterEnd'
  <2>1. want[c] # Absent
    OBVIOUS
  <2> QED BY <1>4, <2>1 DEF Begin, Selected, Take, Refuse, Finish, Goto
<1>5. CASE Restart
  BY <1>5 DEF Restart, InProgress
<1>6. CASE UNCHANGED vars
  BY <1>6 DEF vars
<1> QED BY <1>1, <1>2, <1>3, <1>4, <1>5, <1>6 DEF Next

\* The invariant holds.
LEMMA Invariant == Spec => []IInv
<1>1. IInv /\ [Next]_vars => IInv'
  BY NextEvents, NextCalls DEF IInv
<1> QED BY <1>1, InitIInv, PTL DEF Spec

\* Every variable of the cache, its queue and its callers stays in its domain.
THEOREM TypeCorrect == Spec => []TypeOK
<1>1. IInv => TypeOK
  BY DEF IInv
<1> QED BY <1>1, Invariant, PTL

\* set_transaction_limits fails with the station already changed (service.py:235) only
\* when the transaction has ended.
THEOREM RaisesAfterEnd == Spec => []RaisedOnlyAfterEnd
<1>1. IInv => RaisedOnlyAfterEnd
  BY DEF IInv
<1> QED BY <1>1, Invariant, PTL

-------------------------------------------------------------------------------
(* The action of an entry is the station's.                                *)

\* A careful caller has one call in progress, all calls are for one transaction, only its
\* entry has an action, and that is what the station does unless an answer is on its way.
Careful ==
    careful =>
        /\ \A c, d \in Calls : tran[c] = tran[d]
        /\ \A c, d \in Calls : InProgress(c) /\ InProgress(d) => c = d
        /\ \A x \in Trans : cache[x] \in Actions => \A c \in Calls : x = tran[c]
        /\ \A c \in Calls : pc[c] = "accepted" => acting = want[c]
        /\ (\A c \in Calls : pc[c] # "accepted")
               => \A x \in Trans : cache[x] \in Actions => acting = cache[x]

\* It holds initially.
LEMMA InitCareful == Init => Careful
  BY ValuesAssumption DEF Init, Careful, InProgress

\* Every step preserves it.
LEMMA NextCareful == TypeOK /\ Careful /\ [Next]_vars => Careful'
<1> SUFFICES ASSUME TypeOK, Careful, [Next]_vars, careful PROVE Careful'
  BY DEF Careful, Next, vars, behaviour, Occur, SendLate, OnEvent, Begin, Selected, Take,
         Refuse, Finish, Restart
<1> USE ValuesAssumption DEF TypeOK, Careful, InProgress, Entry, PC, call, behaviour
<1>1. ASSUME NEW x \in Trans, Occur(x) \/ SendLate(x) PROVE Careful'
  BY <1>1 DEF Occur, SendLate
<1>2. CASE OnEvent
  <2>1. \A y \in Trans : cache'[y] \in Actions => cache[y] = cache'[y]
    <3>1. Head(toApi) \in Event
      BY <1>2, TailElements DEF OnEvent
    <3>2. Head(toApi).tran \in Trans
      BY <3>1 DEF Event
    <3> QED BY <1>2, <3>2 DEF OnEvent
  <2> QED BY <1>2, <2>1 DEF OnEvent
<1>3. ASSUME NEW c \in Calls, Begin(c) PROVE Careful'
  BY <1>3 DEF Begin, Goto
<1>4. ASSUME NEW c \in Calls, Selected(c) \/ Refuse(c) PROVE Careful'
  <2>1. /\ UNCHANGED <<tran, want, cache, acting>>
        /\ \A d \in Calls : d # c => pc'[d] = pc[d]
        /\ pc[c] \in {"selecting", "calling"}
        /\ pc'[c] \in {"notFound", "refused", "failed"}
    BY <1>4 DEF Selected, Refuse, Goto
  <2>2. \A d \in Calls : pc[d] # "accepted" /\ pc'[d] # "accepted"
    BY <2>1
  <2> QED BY <2>1, <2>2
<1>5. ASSUME NEW c \in Calls, Take(c) PROVE Careful'
  BY <1>5 DEF Take, Goto
<1>6. ASSUME NEW c \in Calls, Finish(c) PROVE Careful'
  <2>1. /\ UNCHANGED <<tran, want, acting>>
        /\ \A d \in Calls : d # c => pc'[d] = pc[d]
        /\ pc[c] = "accepted" /\ pc'[c] \in {"raised", "set"}
    BY <1>6 DEF Finish, Goto
  <2>2. \A d \in Calls : ~(InProgress(d))'
    BY <2>1
  <2>3. acting = want[c] /\ tran[c] \in Trans /\ \A d \in Calls : tran[d] = tran[c]
    BY <2>1
  <2>4. \A x \in Trans : cache'[x] \in Actions => x = tran[c] /\ cache'[x] = want[c]
    <3>1. CASE cache[tran[c]] = Absent
      BY <1>6, <2>3, <3>1 DEF Finish
    <3>2. CASE cache[tran[c]] # Absent
      BY <1>6, <2>3, <3>2 DEF Finish
    <3> QED BY <3>1, <3>2
  <2> QED BY <2>1, <2>2, <2>3, <2>4
<1>7. CASE Restart
  BY <1>7 DEF Restart
<1>8. CASE UNCHANGED vars
  BY <1>8 DEF vars
<1> QED BY <1>1, <1>2, <1>3, <1>4, <1>5, <1>6, <1>7, <1>8 DEF Next

\* set_transaction_limits leaves the station alone only when it takes the action already,
\* as long as calls are careful (service.py:220-235).
THEOREM CachedIsActing == Spec => []CachedActionIsActing
<1>1. Careful => CachedActionIsActing
  BY DEF Careful, CachedActionIsActing
<1> QED BY <1>1, InitCareful, NextCareful, TypeCorrect, PTL DEF Spec
-------------------------------------------------------------------------------
(* The cache follows the transactions.                                     *)

Queued(x, k) == \E i \in DOMAIN toApi : toApi[i].tran = x /\ toApi[i].n = k

\* The events of a transaction are queued in order ...
InOrder ==
    \A i, j \in DOMAIN toApi :
        i < j /\ toApi[i].tran = toApi[j].tran => toApi[i].n < toApi[j].n

\* ... and after a queued event all that follow it: none is left out.
NoGaps ==
    \A i \in DOMAIN toApi : \A k \in 1 .. LastEvent :
        toApi[i].n <= k /\ k <= occurred[toApi[i].tran] => Queued(toApi[i].tran, k)

\* An entry goes: its transaction is under way or has its ended event queued.
EntriesGo ==
    \A x \in Trans : cache[x] # Absent =>
        occurred[x] >= 1 /\ (occurred[x] < LastEvent \/ Queued(x, LastEvent))

\* An entry comes: a transaction without one has its first event queued, or has ended.
EntriesCome ==
    ~restarted => \A x \in Trans : cache[x] = Absent /\ occurred[x] >= 1 =>
                      Queued(x, 1) \/ occurred[x] = LastEvent

Follows == orderly => InOrder /\ NoGaps /\ EntriesGo /\ EntriesCome

\* Where the elements of Append are.
LEMMA AppendAt ==
    ASSUME NEW S, NEW q \in Seq(S), NEW e \in S
    PROVE  /\ Len(q) \in Nat /\ DOMAIN q = 1 .. Len(q)
           /\ DOMAIN Append(q, e) = 1 .. Len(q) + 1
           /\ \A i \in 1 .. Len(q) : Append(q, e)[i] = q[i]
           /\ Append(q, e)[Len(q) + 1] = e
  OBVIOUS

\* Where the elements of Tail are.
LEMMA TailAt ==
    ASSUME NEW S, NEW q \in Seq(S), q # <<>>
    PROVE  /\ Len(q) \in Nat \ {0} /\ DOMAIN q = 1 .. Len(q)
           /\ DOMAIN Tail(q) = 1 .. Len(q) - 1
           /\ \A i \in 1 .. Len(q) - 1 : Tail(q)[i] = q[i + 1]
           /\ Head(q) = q[1]
<1>1. Len(q) \in Nat \ {0} /\ DOMAIN q = 1 .. Len(q) /\ Head(q) = q[1]
  OBVIOUS
<1>2. DOMAIN Tail(q) = 1 .. Len(q) - 1
  OBVIOUS
<1>3. ASSUME NEW i \in 1 .. Len(q) - 1 PROVE Tail(q)[i] = q[i + 1]
  BY <1>1
<1> QED BY <1>1, <1>2, <1>3

\* A queued event is of a transaction, and numbered.
LEMMA QueuedEvent ==
    ASSUME TypeOK, NEW i \in DOMAIN toApi
    PROVE  /\ toApi[i].tran \in Trans /\ toApi[i].n \in 1 .. LastEvent
           /\ occurred[toApi[i].tran] \in 0 .. LastEvent
<1>1. toApi[i] \in Event
  BY DEF TypeOK
<1>2. toApi[i].tran \in Trans /\ toApi[i].n \in 1 .. LastEvent
  BY <1>1 DEF Event
<1> QED BY <1>2 DEF TypeOK

\* The next event keeps the order, and none is left out.
LEMMA OccurFollows ==
    ASSUME TypeOK, EventsOccurred, Follows, orderly, NEW x \in Trans, Occur(x)
    PROVE  Follows'
<1> DEFINE e == [tran |-> x, n |-> occurred[x] + 1]
           L == Len(toApi)
<1>1. occurred[x] \in Nat /\ occurred[x] < LastEvent /\ LastEvent \in Nat
  BY EventsAssumption DEF Occur, TypeOK
<1>2. e \in Event /\ e.tran = x /\ e.n = occurred[x] + 1
  BY <1>1 DEF Event
<1>3. /\ toApi' = Append(toApi, e) /\ UNCHANGED <<cache, restarted, orderly>>
      /\ occurred' = [occurred EXCEPT ![x] = @ + 1]
  BY DEF Occur, behaviour
<1> HIDE DEF e
<1>4. /\ L \in Nat /\ DOMAIN toApi = 1 .. L /\ DOMAIN toApi' = 1 .. L + 1
      /\ \A i \in 1 .. L : toApi'[i] = toApi[i]
      /\ toApi'[L + 1] = e
  BY <1>2, <1>3, AppendAt DEF TypeOK
<1> HIDE DEF L
<1>5. occurred'[x] = occurred[x] + 1 /\ \A y \in Trans : y # x => occurred'[y] = occurred[y]
  BY <1>3 DEF TypeOK
<1>6. \A y, k : Queued(y, k) => Queued(y, k)'
  BY <1>4 DEF Queued
<1>7. \A k : k = occurred[x] + 1 => Queued(x, k)'
  BY <1>2, <1>4 DEF Queued
<1>8. InOrder'
  <2> SUFFICES ASSUME NEW i \in 1 .. L + 1, NEW j \in 1 .. L + 1, i < j,
                      toApi'[i].tran = toApi'[j].tran
               PROVE  toApi'[i].n < toApi'[j].n
    BY <1>4 DEF InOrder
  <2>1. i \in 1 .. L /\ toApi'[i] = toApi[i]
    BY <1>4
  <2>2. CASE j = L + 1
    <3>1. toApi[i].tran = x /\ toApi'[j].n = occurred[x] + 1
      BY <1>2, <1>4, <2>1, <2>2
    <3>2. toApi[i].n <= occurred[x] /\ toApi[i].n \in 1 .. LastEvent
      BY <1>4, <2>1, <3>1, QueuedEvent DEF EventsOccurred
    <3> QED BY <1>1, <2>1, <3>1, <3>2
  <2>3. CASE j \in 1 .. L
    BY <1>4, <2>1, <2>3 DEF Follows, InOrder
  <2> QED BY <1>4, <2>2, <2>3
<1>9. NoGaps'
  <2> SUFFICES ASSUME NEW i \in 1 .. L + 1, NEW k \in 1 .. LastEvent,
                      toApi'[i].n <= k, k <= occurred'[toApi'[i].tran],
                      NEW y, y = toApi'[i].tran
               PROVE  Queued(y, k)'
    BY <1>4 DEF NoGaps, Queued
  <2>1. CASE i = L + 1
    BY <1>1, <1>2, <1>4, <1>5, <1>7, <2>1
  <2>2. CASE i \in 1 .. L
    <3>1. toApi'[i] = toApi[i] /\ toApi[i].tran \in Trans
      BY <1>4, <2>2, QueuedEvent
    <3>2. CASE k <= occurred[toApi[i].tran]
      BY <1>4, <1>6, <2>2, <3>1, <3>2 DEF Follows, NoGaps
    <3>3. CASE ~(k <= occurred[toApi[i].tran])
      <4>1. toApi[i].tran = x
        BY <1>5, <3>1, <3>3
      <4>2. k = occurred[x] + 1
        BY <1>1, <1>5, <3>1, <3>3, <4>1
      <4> QED BY <1>7, <3>1, <4>1, <4>2
    <3> QED BY <3>2, <3>3
  <2> QED BY <1>4, <2>1, <2>2
<1>10. \A y \in Trans : y = x => occurred'[y] >= 1
                                 /\ (occurred'[y] < LastEvent \/ Queued(y, LastEvent)')
  BY <1>1, <1>5, <1>7
<1>11. EntriesGo'
  <2> SUFFICES ASSUME NEW y \in Trans, cache[y] # Absent
               PROVE  occurred'[y] >= 1 /\ (occurred'[y] < LastEvent \/ Queued(y, LastEvent)')
    BY <1>3 DEF EntriesGo, Queued
  <2>1. CASE y = x
    BY <1>10, <2>1
  <2>2. CASE y # x
    BY <1>5, <1>6, <2>2 DEF Follows, EntriesGo
  <2> QED BY <2>1, <2>2
<1>12. EntriesCome'
  <2> SUFFICES ASSUME NEW y \in Trans, ~restarted, cache[y] = Absent, occurred'[y] >= 1
               PROVE  Queued(y, 1)' \/ occurred'[y] = LastEvent
    BY <1>3 DEF EntriesCome, Queued
  <2>1. CASE y = x /\ occurred[x] = 0
    BY <1>7, <2>1
  <2>2. CASE y = x /\ occurred[x] # 0
    BY <1>1, <1>6, <2>2 DEF Follows, EntriesCome
  <2>3. CASE y # x
    BY <1>5, <1>6, <2>3 DEF Follows, EntriesCome
  <2> QED BY <2>1, <2>2, <2>3
<1> QED BY <1>8, <1>9, <1>11, <1>12 DEF Follows

\* Taking the head of the queue keeps the order, leaves no gap, and no other event out.
LEMMA TakeFollows ==
    ASSUME TypeOK, EventsOccurred, InOrder, NoGaps,
           toApi # <<>>, toApi' = Tail(toApi), UNCHANGED occurred
    PROVE  /\ InOrder' /\ NoGaps'
           /\ \A y, k : Queued(y, k) /\ ~(Head(toApi).tran = y /\ Head(toApi).n = k)
                            => Queued(y, k)'
<1> DEFINE L == Len(toApi)
<1>1. /\ L \in Nat \ {0} /\ DOMAIN toApi = 1 .. L /\ DOMAIN toApi' = 1 .. L - 1
      /\ \A i \in 1 .. L - 1 : toApi'[i] = toApi[i + 1]
      /\ Head(toApi) = toApi[1]
  BY TailAt DEF TypeOK
<1> HIDE DEF L
<1>2. ASSUME NEW y, NEW k, NEW j \in 1 .. L, toApi[j].tran = y, toApi[j].n = k, j # 1
      PROVE  Queued(y, k)'
  <2>1. j - 1 \in 1 .. L - 1 /\ toApi'[j - 1] = toApi[j]
    BY <1>1, <1>2
  <2> QED BY <1>1, <1>2, <2>1 DEF Queued
<1>3. \A y, k : Queued(y, k) /\ ~(Head(toApi).tran = y /\ Head(toApi).n = k)
                    => Queued(y, k)'
  BY <1>1, <1>2 DEF Queued
<1>4. InOrder'
  <2> SUFFICES ASSUME NEW i \in 1 .. L - 1, NEW j \in 1 .. L - 1, i < j,
                      toApi'[i].tran = toApi'[j].tran
               PROVE  toApi'[i].n < toApi'[j].n
    BY <1>1 DEF InOrder
  <2>1. i + 1 \in 1 .. L /\ j + 1 \in 1 .. L /\ i + 1 < j + 1
    BY <1>1
  <2> QED BY <1>1, <2>1 DEF InOrder
<1>5. NoGaps'
  <2> SUFFICES ASSUME NEW i \in 1 .. L - 1, NEW k \in 1 .. LastEvent,
                      toApi'[i].n <= k, k <= occurred[toApi'[i].tran],
                      NEW y, y = toApi'[i].tran
               PROVE  Queued(y, k)'
    BY <1>1 DEF NoGaps, Queued
  <2>1. i + 1 \in 1 .. L /\ 1 < i + 1 /\ 1 \in 1 .. L /\ toApi'[i] = toApi[i + 1]
    BY <1>1
  <2>2. PICK j \in 1 .. L : toApi[j].tran = toApi[i + 1].tran /\ toApi[j].n = k
    BY <1>1, <2>1 DEF NoGaps, Queued
  <2>3. j # 1
    <3>1. SUFFICES ASSUME j = 1 PROVE FALSE
      OBVIOUS
    <3>2. k < toApi[i + 1].n
      BY <1>1, <2>1, <2>2, <3>1 DEF InOrder
    <3>3. toApi[i + 1].n \in 1 .. LastEvent /\ toApi[i + 1].n <= k
      BY <1>1, <2>1, QueuedEvent
    <3> QED BY <3>2, <3>3, EventsAssumption
  <2> QED BY <1>2, <2>1, <2>2, <2>3
<1> QED BY <1>3, <1>4, <1>5

\* Handling the head of the queue.
LEMMA OnEventFollows ==
    ASSUME TypeOK, EventsOccurred, Follows, orderly, OnEvent
    PROVE  Follows'
<1> DEFINE e == Head(toApi)
<1>1. /\ InOrder /\ NoGaps /\ EntriesGo /\ EntriesCome
      /\ toApi # <<>> /\ toApi' = Tail(toApi) /\ UNCHANGED <<occurred, restarted, orderly>>
      /\ cache' = [cache EXCEPT ![e.tran] =
                      IF e.n = LastEvent THEN Absent ELSE IF @ = Absent THEN Unset ELSE @]
  BY DEF Follows, OnEvent, behaviour
<1>2. /\ InOrder' /\ NoGaps'
      /\ \A y, k : Queued(y, k) /\ ~(e.tran = y /\ e.n = k) => Queued(y, k)'
  BY <1>1, TakeFollows
<1>3. 1 \in DOMAIN toApi /\ e = toApi[1]
  BY <1>1, TailElements DEF TypeOK
<1>4. /\ e.tran \in Trans /\ e.n \in 1 .. LastEvent
      /\ occurred[e.tran] \in 0 .. LastEvent /\ e.n <= occurred[e.tran]
  BY <1>3, QueuedEvent DEF EventsOccurred
<1> HIDE DEF e
<1>5. /\ \A y \in Trans : y # e.tran => cache'[y] = cache[y]
      /\ cache'[e.tran] = Absent <=> e.n = LastEvent
  BY <1>1, <1>4, ValuesAssumption DEF TypeOK, Entry
<1>6. e.n # LastEvent /\ occurred[e.tran] = LastEvent => Queued(e.tran, LastEvent)
  BY <1>1, <1>3, <1>4, EventsAssumption DEF NoGaps
<1>7. EntriesGo'
  <2> SUFFICES ASSUME NEW y \in Trans, cache'[y] # Absent
               PROVE  occurred[y] >= 1 /\ (occurred[y] < LastEvent \/ Queued(y, LastEvent)')
    BY <1>1 DEF EntriesGo, Queued
  <2>1. CASE y = e.tran
    BY <1>2, <1>4, <1>5, <1>6, <2>1, EventsAssumption
  <2>2. CASE y # e.tran
    BY <1>1, <1>2, <1>5, <2>2 DEF EntriesGo
  <2> QED BY <2>1, <2>2
<1>8. EntriesCome'
  <2> SUFFICES ASSUME NEW y \in Trans, ~restarted, cache'[y] = Absent, occurred[y] >= 1
               PROVE  Queued(y, 1)' \/ occurred[y] = LastEvent
    BY <1>1 DEF EntriesCome, Queued
  <2>1. CASE y = e.tran
    BY <1>4, <1>5, <2>1, EventsAssumption
  <2>2. CASE y # e.tran
    BY <1>1, <1>2, <1>5, <2>2 DEF EntriesCome
  <2> QED BY <2>1, <2>2
<1> QED BY <1>2, <1>7, <1>8 DEF Follows

\* The initial state.
LEMMA InitFollows == Init => Follows
<1>1. DOMAIN <<>> = {}
  OBVIOUS
<1> QED BY <1>1 DEF Init, Follows, InOrder, NoGaps, EntriesGo, EntriesCome

\* Every step preserves it.
LEMMA NextFollows == IInv /\ Follows /\ [Next]_vars => Follows'
<1> SUFFICES ASSUME TypeOK, EventsOccurred, Follows, [Next]_vars, orderly PROVE Follows'
  BY DEF IInv, Follows, Next, vars, behaviour, Occur, SendLate, OnEvent, Begin, Selected,
         Take, Refuse, Finish, Restart
<1>1. ASSUME NEW x \in Trans, Occur(x) \/ SendLate(x) PROVE Follows'
  BY <1>1, OccurFollows DEF SendLate
<1>2. CASE OnEvent
  BY <1>2, OnEventFollows
<1>3. ASSUME UNCHANGED <<occurred, toApi, restarted, orderly>>,
             \A x \in Trans : cache'[x] = Absent <=> cache[x] = Absent
      PROVE  Follows'
  BY <1>3 DEF Follows, InOrder, NoGaps, EntriesGo, EntriesCome, Queued
<1>4. ASSUME NEW c \in Calls, Begin(c) \/ Selected(c) \/ Take(c) \/ Refuse(c) \/ Finish(c)
      PROVE  Follows'
  <2>1. UNCHANGED <<occurred, toApi, restarted, orderly>>
    BY <1>4 DEF Begin, Selected, Take, Refuse, Finish, behaviour
  <2>2. \A x \in Trans : cache'[x] = Absent <=> cache[x] = Absent
    <3>1. want[c] # Absent
      BY ValuesAssumption DEF TypeOK
    <3> QED BY <1>4, <3>1 DEF Begin, Selected, Take, Refuse, Finish, TypeOK
  <2> QED BY <1>3, <2>1, <2>2
<1>5. CASE Restart
  <2>1. UNCHANGED occurred /\ restarted' /\ \A x \in Trans : cache'[x] = Absent
    BY <1>5 DEF Restart
  <2>2. CASE toApi' = toApi
    BY <2>1, <2>2 DEF Follows, InOrder, NoGaps, EntriesGo, EntriesCome, Queued
  <2>3. CASE toApi # <<>> /\ toApi' = Tail(toApi)
    <3>1. InOrder' /\ NoGaps'
      BY <2>1, <2>3, TakeFollows DEF Follows
    <3> QED BY <2>1, <3>1 DEF Follows, EntriesGo, EntriesCome
  <2> QED BY <1>5, <2>2, <2>3 DEF Restart
<1>6. CASE UNCHANGED vars
  BY <1>3, <1>6 DEF vars, behaviour
<1> QED BY <1>1, <1>2, <1>4, <1>5, <1>6 DEF Next

\* Where every event is sent once and in order (service.py:30-40), the cache names the
\* transactions that are under way, and without a restart all of them, once the events
\* in its queue are handled.
THEOREM CacheFollowsTransactions == Spec => []CacheFollows
<1>1. IInv /\ Follows => CacheFollows
  <2> SUFFICES ASSUME TypeOK, Follows, orderly, toApi = <<>> PROVE CacheFollows
    BY DEF IInv, CacheFollows
  <2>1. \A x, k : ~Queued(x, k)
    BY DEF Queued
  <2>2. \A x \in Trans : occurred[x] \in 0 .. LastEvent
    BY DEF TypeOK
  <2>3. ASSUME NEW x \in Trans, cache[x] # Absent
        PROVE  occurred[x] \in 1 .. (LastEvent - 1)
    BY <2>1, <2>2, <2>3, EventsAssumption DEF Follows, EntriesGo
  <2>4. ASSUME NEW x \in Trans, occurred[x] \in 1 .. (LastEvent - 1), ~restarted
        PROVE  cache[x] # Absent
    BY <2>1, <2>2, <2>4, EventsAssumption DEF Follows, EntriesCome
  <2> QED BY <2>3, <2>4 DEF CacheFollows
<1> QED BY <1>1, Invariant, InitFollows, NextFollows, PTL DEF Spec
===============================================================================
