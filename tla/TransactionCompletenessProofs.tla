---------------------- MODULE TransactionCompletenessProofs ----------------------
(***************************************************************************)
(* The delivery of a transaction's events (StationQueue) and the check that *)
(* the CSMS has them all (TransactionCompleteness), for any number of       *)
(* events, losses, timeouts, restarts and tasks.                            *)
(***************************************************************************)
EXTENDS TransactionCompleteness, TLAPS

-------------------------------------------------------------------------------
(* The line at the lock.                                                      *)

Line == [by : Drains \cup {NoDrain}, event : Events \cup {BootNotification}]

\* The first k calls leave the line, and one of M joins it at the end.
Shift(k, M) ==
    \A i \in DOMAIN calls' :
        /\ i \in Nat \ {0}
        /\ \/ i + k \in DOMAIN calls /\ calls'[i] = calls[i + k]
           \/ calls'[i] \in M /\ \A j \in DOMAIN calls' : j <= i

\* Where the elements of Append and of Tail are.
LEMMA AppendAt ==
    ASSUME NEW S, NEW q \in Seq(S), NEW m \in S
    PROVE  /\ Append(q, m) \in Seq(S) /\ Append(q, m) # <<>>
           /\ Len(q) \in Nat /\ DOMAIN q = 1 .. Len(q) /\ DOMAIN Append(q, m) = 1 .. Len(q) + 1
           /\ \A i \in 1 .. Len(q) : Append(q, m)[i] = q[i]
           /\ Append(q, m)[Len(q) + 1] = m
           /\ q # <<>> => Head(Append(q, m)) = Head(q)
<1>1. /\ Append(q, m) \in Seq(S) /\ Len(q) \in Nat /\ DOMAIN q = 1 .. Len(q)
      /\ DOMAIN Append(q, m) = 1 .. Len(q) + 1
      /\ \A i \in 1 .. Len(q) : Append(q, m)[i] = q[i]
      /\ Append(q, m)[Len(q) + 1] = m
  OBVIOUS
<1>2. Append(q, m) # <<>> /\ Head(Append(q, m)) = Append(q, m)[1]
  BY <1>1
<1>3. q # <<>> => Len(q) > 0 /\ Head(q) = q[1]
  OBVIOUS
<1> QED BY <1>1, <1>2, <1>3
LEMMA TailAt ==
    ASSUME NEW S, NEW q \in Seq(S), q # <<>>
    PROVE  /\ Tail(q) \in Seq(S) /\ Head(q) = q[1] /\ Head(q) \in S
           /\ Len(q) \in Nat \ {0} /\ DOMAIN q = 1 .. Len(q) /\ DOMAIN Tail(q) = 1 .. Len(q) - 1
           /\ \A i \in 1 .. Len(q) - 1 : Tail(q)[i] = q[i + 1]
<1>1. /\ Len(q) \in Nat \ {0} /\ DOMAIN q = 1 .. Len(q) /\ Head(q) = q[1] /\ q[1] \in S
      /\ Tail(q) \in Seq(S) /\ DOMAIN Tail(q) = 1 .. Len(q) - 1
  OBVIOUS
<1>2. ASSUME NEW i \in 1 .. Len(q) - 1 PROVE Tail(q)[i] = q[i + 1]
  BY <1>1
<1> QED BY <1>1, <1>2

\* The four ways in which the line changes.
LEMMA Shifts ==
    ASSUME calls \in Seq(Line)
    PROVE  /\ calls' = calls => Shift(0, {})
           /\ \A m \in Line : calls' = Append(calls, m) => Shift(0, {m})
           /\ calls # <<>> /\ calls' = Tail(calls) => Shift(1, {})
           /\ \A m \in Line : calls # <<>> /\ calls' = Append(Tail(calls), m) => Shift(1, {m})
<1> DEFINE L == Len(calls)
<1>1. L \in Nat /\ DOMAIN calls = 1 .. L
  OBVIOUS
<1>2. calls' = calls => Shift(0, {})
  BY <1>1 DEF Shift
<1>3. ASSUME NEW m \in Line, calls' = Append(calls, m) PROVE Shift(0, {m})
  <2>1. /\ DOMAIN calls' = 1 .. L + 1 /\ calls'[L + 1] = m
        /\ \A i \in 1 .. L : calls'[i] = calls[i]
    BY <1>3, AppendAt
  <2> HIDE DEF L
  <2> QED BY <1>1, <2>1 DEF Shift
<1>4. ASSUME calls # <<>>, calls' = Tail(calls) PROVE Shift(1, {})
  <2>1. /\ L # 0 /\ DOMAIN calls' = 1 .. L - 1 /\ \A i \in 1 .. L - 1 : calls'[i] = calls[i + 1]
    BY <1>4, TailAt
  <2> HIDE DEF L
  <2> QED BY <1>1, <2>1 DEF Shift
<1>5. ASSUME NEW m \in Line, calls # <<>>, calls' = Append(Tail(calls), m) PROVE Shift(1, {m})
  <2> DEFINE T == Tail(calls)
  <2>1. /\ L # 0 /\ DOMAIN T = 1 .. L - 1 /\ \A i \in 1 .. L - 1 : T[i] = calls[i + 1]
        /\ T \in Seq(Line)
    BY <1>5, TailAt
  <2>2. Len(T) = L - 1
    BY <1>1, <2>1
  <2> HIDE DEF L, T
  <2>3. /\ DOMAIN calls' = 1 .. Len(T) + 1 /\ calls'[Len(T) + 1] = m
        /\ \A i \in 1 .. Len(T) : calls'[i] = T[i]
    BY <1>5, <2>1, AppendAt DEF T
  <2>4. /\ DOMAIN calls' = 1 .. L /\ calls'[L] = m
        /\ \A i \in 1 .. L - 1 : calls'[i] = calls[i + 1]
    BY <1>1, <2>1, <2>2, <2>3
  <2> QED BY <1>1, <2>4 DEF Shift
<1> QED BY <1>2, <1>3, <1>4, <1>5
-------------------------------------------------------------------------------
(* The station.                                                               *)

\* A task calls an event; a BootNotification and the run after it have one call in the line.
TasksCallEvents == \A i \in DOMAIN calls : calls[i].by = NoDrain => calls[i].event \in Events
OneCall ==
    \A i, j \in DOMAIN calls : calls[i].by = calls[j].by /\ calls[i].by \in Drains => i = j

\* What was answered is known to the CSMS; nothing is anywhere before it occurred.
AnsweredGot == wire = "answered" => Head(calls).event \in received \cup {BootNotification}
HasOccurred ==
    /\ \A i \in DOMAIN queue : queue[i] <= occurred
    /\ \A i \in DOMAIN calls : calls[i].event <= occurred
    /\ \A e \in received : e <= occurred

\* No task is behind the last event in the line, so the CSMS gets it after theirs.
LastComesLast ==
    \A i, j \in DOMAIN calls :
        calls[i].event = LastEvent /\ LastEvent # 0 /\ calls[j].by = NoDrain => j <= i
LastReceived ==
    LastEvent \in received =>
        \A j \in DOMAIN calls : calls[j].by = NoDrain => calls[j].event \in received

StationInv ==
    /\ StationTypeOK /\ TasksCallEvents /\ OneCall /\ AnsweredGot /\ HasOccurred
    /\ LastComesLast /\ LastReceived

\* The initial state.
LEMMA InitStation == Init => StationInv
<1> SUFFICES ASSUME Init PROVE StationInv
  OBVIOUS
<1>1. /\ <<>> \in Seq(Events) /\ DOMAIN <<>> = {}
      /\ <<>> \in Seq([by : Drains \cup {NoDrain}, event : Events \cup {BootNotification}])
  OBVIOUS
<1>2. StationTypeOK
  <2>1. /\ queue \in Seq(Events)
        /\ calls \in Seq([by : Drains \cup {NoDrain}, event : Events \cup {BootNotification}])
    BY <1>1 DEF Init
  <2>2. /\ occurred \in 0 .. LastEvent
        /\ drops \in 0 .. MaxDrops /\ timeouts \in 0 .. MaxTimeouts /\ stops \in 0 .. MaxStops
    BY StationBounds DEF Init
  <2> QED BY <2>1, <2>2 DEF Init, StationTypeOK, Wire
<1>3. /\ TasksCallEvents /\ OneCall /\ AnsweredGot /\ HasOccurred
      /\ LastComesLast /\ LastReceived
  BY <1>1 DEF Init, TasksCallEvents, OneCall, AnsweredGot, HasOccurred, LastComesLast,
              LastReceived
<1> QED BY <1>2, <1>3 DEF StationInv

\* What the answer to a call changes.
LEMMA ReturnCases ==
    ASSUME StationInv, Return
    PROVE  /\ calls # <<>> /\ Head(calls) = calls[1] /\ 1 \in DOMAIN calls
           /\ wire = "answered" /\ wire' = "idle" /\ booted' \in BOOLEAN
           /\ UNCHANGED <<occurred, up, received, drops, timeouts, stops>>
           /\ \/ calls[1].by = NoDrain /\ calls' = Tail(calls) /\ queue' = queue
              \/ /\ calls[1].by \in Drains
                 /\ \/ queue' = queue /\ (calls[1].event = BootNotification \/ queue = <<>>)
                    \/ queue # <<>> /\ calls[1].event # BootNotification /\ queue' = Tail(queue)
                 /\ \/ calls' = Tail(calls)
                    \/ /\ queue' # <<>>
                       /\ calls' = Append(Tail(calls), Call(calls[1].by, Head(queue')))
<1>1. wire = "answered" /\ wire' = "idle" /\ UNCHANGED <<occurred, up, received, drops, timeouts, stops>>
  BY DEF Return, env
<1>2. calls # <<>> /\ calls \in Seq(Line) /\ booted \in BOOLEAN
  BY <1>1 DEF StationInv, StationTypeOK, Line
<1>3. /\ Head(calls) = calls[1] /\ 1 \in DOMAIN calls /\ Head(calls) \in Line
  BY <1>2, TailAt
<1>4. CASE Head(calls).by = NoDrain
  BY <1>1, <1>2, <1>3, <1>4 DEF Return
<1>5. CASE Head(calls).by # NoDrain
  <2> DEFINE c == Head(calls)
             q == IF queue = <<>> \/ c.event = BootNotification THEN queue ELSE Tail(queue)
  <2>1. c.by \in Drains
    BY <1>3, <1>5 DEF Line
  <2>2. booted' = (booted \/ c.event = BootNotification) /\ queue' = q /\ Loop(c.by, q, Tail(calls))
    BY <1>5 DEF Return
  <2>3. \/ calls' = Tail(calls)
        \/ queue' # <<>> /\ calls' = Append(Tail(calls), Call(c.by, Head(queue')))
    BY <2>2 DEF Loop
  <2> QED BY <1>1, <1>2, <1>3, <2>1, <2>2, <2>3
<1> QED BY <1>4, <1>5

\* What a call that fails changes.
LEMMA FailCases ==
    ASSUME StationInv, Fail, calls # <<>>
    PROVE  /\ Head(calls) = calls[1] /\ 1 \in DOMAIN calls
           /\ \/ /\ calls[1].by = NoDrain /\ calls[1].event \in Events
                 /\ calls' = Tail(calls) /\ queue' = Append(queue, calls[1].event)
              \/ /\ calls[1].by \in Drains /\ queue' = queue
                 /\ \/ calls' = Tail(calls)
                    \/ /\ queue # <<>>
                       /\ calls' = Append(Tail(calls), Call(calls[1].by, Head(queue)))
<1>1. calls \in Seq(Line)
  BY DEF StationInv, StationTypeOK, Line
<1>2. Head(calls) = calls[1] /\ 1 \in DOMAIN calls /\ Head(calls) \in Line
  BY <1>1, TailAt
<1> DEFINE c == Head(calls)
<1>3. CASE c.by = NoDrain
  <2>1. c.event \in Events
    BY <1>2, <1>3 DEF StationInv, TasksCallEvents
  <2>2. c.event # BootNotification
    BY <2>1, StationBounds DEF Events, BootNotification
  <2> QED BY <1>2, <1>3, <2>1, <2>2 DEF Fail
<1>4. CASE c.by # NoDrain
  <2>1. c.by \in Drains
    BY <1>2, <1>4 DEF Line
  <2>2. CASE c.event = BootNotification
    BY <1>2, <1>4, <2>1, <2>2 DEF Fail
  <2>3. CASE c.event # BootNotification
    BY <1>2, <1>4, <2>1, <2>3 DEF Fail, Loop
  <2> QED BY <2>2, <2>3
<1> QED BY <1>3, <1>4

\* What stays true of the line when calls leave it and one joins it.
LEMMA LineKept ==
    ASSUME StationInv, NEW k \in {0, 1}, NEW M \in SUBSET Line, Shift(k, M),
           occurred' \in 0 .. LastEvent, occurred <= occurred', received' = received,
           \A m \in M :
              /\ m.event <= occurred'
              /\ m.by = NoDrain => m.event \in Events /\ m.event = occurred + 1 /\ occurred < LastEvent
              /\ m.by \in Drains => \A i \in DOMAIN calls : calls[i].by = m.by => i = k
    PROVE  /\ TasksCallEvents' /\ OneCall' /\ LastComesLast' /\ LastReceived'
           /\ \A i \in DOMAIN calls' : calls'[i].event <= occurred'
<1>1. /\ calls \in Seq(Line) /\ occurred \in Nat /\ LastEvent \in Nat
      /\ received \subseteq Events /\ k \in Nat
  BY StationBounds DEF StationInv, StationTypeOK, Line
<1>2. ASSUME NEW i \in DOMAIN calls PROVE i \in Nat /\ calls[i] \in Line /\ calls[i].event \in Nat
  <2>1. i \in Nat /\ calls[i] \in Line
    BY <1>1
  <2> QED BY <2>1 DEF Line, Events, BootNotification
<1>3. TasksCallEvents'
  BY DEF TasksCallEvents, Shift, StationInv
<1>4. OneCall'
  <2> SUFFICES ASSUME NEW i \in DOMAIN calls', NEW j \in DOMAIN calls',
                      calls'[i].by = calls'[j].by, calls'[i].by \in Drains
               PROVE  i = j
    BY DEF OneCall
  <2>1. i \in Nat \ {0} /\ j \in Nat \ {0}
    BY DEF Shift
  <2>2. CASE /\ i + k \in DOMAIN calls /\ calls'[i] = calls[i + k]
             /\ j + k \in DOMAIN calls /\ calls'[j] = calls[j + k]
    <3>1. i + k = j + k
      BY <2>2 DEF StationInv, OneCall
    <3> QED BY <1>1, <2>1, <3>1
  <2>3. CASE /\ i + k \in DOMAIN calls /\ calls'[i] = calls[i + k] /\ calls'[j] \in M
    <3>1. i + k = k
      BY <2>3
    <3> QED BY <1>1, <2>1, <3>1
  <2>4. CASE /\ j + k \in DOMAIN calls /\ calls'[j] = calls[j + k] /\ calls'[i] \in M
    <3>1. j + k = k
      BY <2>4
    <3> QED BY <1>1, <2>1, <3>1
  <2>5. CASE (\A b \in DOMAIN calls' : b <= i) /\ (\A b \in DOMAIN calls' : b <= j)
    BY <2>1, <2>5
  <2> QED BY <2>2, <2>3, <2>4, <2>5 DEF Shift
<1>5. \A i \in DOMAIN calls : calls[i].event <= occurred
  BY DEF StationInv, HasOccurred
<1>6. ASSUME NEW i \in DOMAIN calls' PROVE calls'[i].event <= occurred'
  <2>1. CASE i + k \in DOMAIN calls /\ calls'[i] = calls[i + k]
    <3>1. calls[i + k].event <= occurred /\ calls[i + k].event \in Nat
      BY <1>2, <1>5, <2>1
    <3> QED BY <1>1, <2>1, <3>1
  <2> QED BY <2>1 DEF Shift
<1>7. LastComesLast'
  <2> SUFFICES ASSUME NEW i \in DOMAIN calls', NEW j \in DOMAIN calls',
                      calls'[i].event = LastEvent, LastEvent # 0, calls'[j].by = NoDrain
               PROVE  j <= i
    BY DEF LastComesLast
  <2>1. i \in Nat \ {0} /\ j \in Nat \ {0}
    BY DEF Shift
  <2>2. CASE \A b \in DOMAIN calls' : b <= i
    BY <2>2
  <2>3. CASE /\ i + k \in DOMAIN calls /\ calls'[i] = calls[i + k]
             /\ j + k \in DOMAIN calls /\ calls'[j] = calls[j + k]
    <3>1. j + k <= i + k
      BY <2>3 DEF StationInv, LastComesLast
    <3> QED BY <1>1, <2>1, <3>1
  <2>4. CASE i + k \in DOMAIN calls /\ calls'[i] = calls[i + k] /\ calls'[j] \in M
    <3>1. LastEvent <= occurred /\ occurred < LastEvent
      BY <1>5, <2>4
    <3> QED BY <1>1, <3>1
  <2> QED BY <2>2, <2>3, <2>4 DEF Shift
<1>8. LastReceived'
  <2> SUFFICES ASSUME LastEvent \in received, NEW j \in DOMAIN calls', calls'[j].by = NoDrain
               PROVE  calls'[j].event \in received
    BY DEF LastReceived
  <2>1. LastEvent <= occurred
    BY DEF StationInv, HasOccurred
  <2>2. calls'[j] \notin M
    BY <1>1, <2>1
  <2> QED BY <2>2 DEF Shift, StationInv, LastReceived
<1> QED BY <1>3, <1>4, <1>6, <1>7, <1>8

\* The invariant is inductive.
LEMMA NextStation == StationInv /\ [Next]_station => StationInv'
<1> SUFFICES ASSUME StationInv, [Next]_station PROVE StationInv'
  OBVIOUS
<1>a. /\ calls \in Seq(Line) /\ queue \in Seq(Events) /\ occurred \in 0 .. LastEvent
      /\ received \subseteq Events /\ LastEvent \in Nat /\ up \in BOOLEAN /\ booted \in BOOLEAN
      /\ wire \in Wire /\ drops \in 0 .. MaxDrops /\ timeouts \in 0 .. MaxTimeouts
      /\ stops \in 0 .. MaxStops
  BY StationBounds DEF StationInv, StationTypeOK, Line
<1>b. StationTypeOK /\ HasOccurred /\ AnsweredGot
  BY DEF StationInv
<1>c. ASSUME NEW d, NEW e, d \in Drains \cup {NoDrain}, e \in Events \cup {BootNotification}
      PROVE  Call(d, e) \in Line /\ Call(d, e).by = d /\ Call(d, e).event = e
  BY <1>c DEF Call, Line
<1>d. 0 \in {0, 1} /\ 1 \in {0, 1} /\ {} \in SUBSET Line /\ occurred <= occurred
      /\ \A i \in DOMAIN calls : i \in Nat \ {0}
  BY <1>a
\* The steps that leave the line alone.
<1>1. ASSUME UNCHANGED <<occurred, queue, calls, received>>, StationTypeOK', AnsweredGot'
      PROVE  StationInv'
  BY <1>1 DEF StationInv, TasksCallEvents, OneCall, HasOccurred, LastComesLast, LastReceived
<1>2. CASE Send
  BY <1>1, <1>2, <1>b DEF Send, env, StationTypeOK, Wire, AnsweredGot
<1>3. CASE Restore
  BY <1>1, <1>3, <1>b DEF Restore, env, StationTypeOK, AnsweredGot
<1>4. CASE Drop
  <2>1. /\ up' = FALSE /\ drops' \in 0 .. MaxDrops /\ wire' = IF wire = "idle" THEN "idle" ELSE "cut"
        /\ UNCHANGED <<occurred, booted, queue, calls, received, timeouts, stops>>
    BY <1>4, <1>a, StationBounds DEF Drop
  <2>2. StationTypeOK'
    BY <1>a, <1>b, <2>1 DEF StationTypeOK, Wire, Line
  <2>3. AnsweredGot'
    BY <2>1 DEF AnsweredGot
  <2> QED BY <1>1, <2>1, <2>2, <2>3
<1>5. CASE UNCHANGED station
  BY <1>1, <1>5, <1>b DEF station, env, StationTypeOK, AnsweredGot
<1>6. CASE Stop
  <2>1. /\ calls' = <<>> /\ wire' = "idle" /\ up' = FALSE /\ booted' = FALSE
        /\ stops' \in 0 .. MaxStops /\ UNCHANGED <<occurred, queue, received, drops, timeouts>>
    BY <1>6, <1>a, StationBounds DEF Stop
  <2>2. DOMAIN calls' = {} /\ calls' \in Seq(Line)
    BY <2>1
  <2>3. StationTypeOK'
    BY <1>a, <2>1, <2>2 DEF StationTypeOK, Wire, Line
  <2>4. HasOccurred'
    BY <1>b, <2>1, <2>2 DEF HasOccurred
  <2> QED BY <2>1, <2>2, <2>3, <2>4
          DEF StationInv, TasksCallEvents, OneCall, AnsweredGot, LastComesLast, LastReceived
\* A message is handled: the line is what it was, but the CSMS has one event more.
<1>7. CASE Handle
  <2>1. /\ wire = "sent" /\ wire' = "answered" /\ UNCHANGED <<occurred, queue, calls>>
        /\ received' = received \cup ({Head(calls).event} \ {BootNotification})
        /\ UNCHANGED <<up, booted, drops, timeouts, stops>>
    BY <1>7 DEF Handle, env
  <2>2. calls # <<>>
    BY <1>b, <2>1 DEF StationTypeOK
  <2>3. Head(calls) = calls[1] /\ 1 \in DOMAIN calls /\ Head(calls) \in Line
    BY <1>a, <2>2, TailAt
  <2>4. StationTypeOK'
    BY <1>a, <2>1, <2>2, <2>3 DEF StationTypeOK, Wire, Line
  <2>5. AnsweredGot'
    BY <2>1 DEF AnsweredGot
  <2>6. HasOccurred'
    BY <1>b, <2>1, <2>3 DEF HasOccurred
  <2>7. TasksCallEvents' /\ OneCall' /\ LastComesLast'
    BY <2>1 DEF StationInv, TasksCallEvents, OneCall, LastComesLast
  <2>8. LastReceived'
    <3> SUFFICES ASSUME LastEvent \in received', NEW j \in DOMAIN calls, calls[j].by = NoDrain
                 PROVE  calls[j].event \in received'
      BY <2>1 DEF LastReceived
    <3>1. CASE LastEvent \in received
      BY <2>1, <3>1 DEF StationInv, LastReceived
    <3>2. CASE LastEvent = calls[1].event /\ LastEvent # BootNotification
      <4>1. j <= 1
        BY <2>3, <3>2 DEF StationInv, LastComesLast, BootNotification
      <4>2. j = 1
        BY <1>d, <4>1
      <4> QED BY <2>1, <2>3, <3>2, <4>2
    <3> QED BY <2>1, <2>3, <3>1, <3>2
  <2> QED BY <2>4, <2>5, <2>6, <2>7, <2>8 DEF StationInv
\* The steps that change the line.
<1>8. ASSUME NEW k \in {0, 1}, NEW M \in SUBSET Line, Shift(k, M),
             occurred' \in 0 .. LastEvent, occurred <= occurred', received' = received,
             \A m \in M :
                /\ m.event <= occurred'
                /\ m.by = NoDrain => m.event \in Events /\ m.event = occurred + 1 /\ occurred < LastEvent
                /\ m.by \in Drains => \A i \in DOMAIN calls : calls[i].by = m.by => i = k,
             StationTypeOK', AnsweredGot', \A i \in DOMAIN queue' : queue'[i] <= occurred'
      PROVE  StationInv'
  <2>1. \A e \in received : e <= occurred'
    <3>1. \A e \in received : e \in Nat /\ e <= occurred
      BY <1>a, <1>b DEF Events, HasOccurred
    <3> QED BY <1>a, <1>8, <3>1
  <2>2. /\ TasksCallEvents' /\ OneCall' /\ LastComesLast' /\ LastReceived'
        /\ \A i \in DOMAIN calls' : calls'[i].event <= occurred'
    BY <1>8, LineKept
  <2> QED BY <1>8, <2>1, <2>2 DEF StationInv, HasOccurred
<1>9. CASE Occur
  <2> DEFINE m == Call(NoDrain, occurred + 1)
  <2>1. /\ occurred < LastEvent /\ occurred' = occurred + 1 /\ occurred' \in 0 .. LastEvent
        /\ occurred <= occurred' /\ occurred' \in Events
        /\ UNCHANGED <<up, booted, wire, received, drops, timeouts, stops>>
    BY <1>9, <1>a DEF Occur, env, Events
  <2>2. m \in Line /\ m.by = NoDrain /\ m.event = occurred + 1
    BY <1>c, <2>1
  <2>3. \A i \in DOMAIN queue : queue[i] \in Nat /\ queue[i] <= occurred
    BY <1>a, <1>b DEF HasOccurred, Events
  <2>4. CASE up /\ booted
    <3>1. calls' = Append(calls, m) /\ queue' = queue
      BY <1>9, <2>4 DEF Occur
    <3> HIDE DEF m
    <3>2. /\ calls' \in Seq(Line) /\ calls' # <<>>
          /\ calls # <<>> => Head(calls') = Head(calls)
      BY <1>a, <2>2, <3>1, AppendAt
    <3>3. Shift(0, {m}) /\ {m} \in SUBSET Line
      BY <1>a, <2>2, <3>1, Shifts
    <3>4. StationTypeOK'
      BY <1>a, <2>1, <3>1, <3>2 DEF StationTypeOK, Line
    <3>5. AnsweredGot'
      BY <1>b, <2>1, <3>2 DEF AnsweredGot, StationTypeOK
    <3>6. \A i \in DOMAIN queue' : queue'[i] <= occurred'
      BY <1>a, <2>1, <2>3, <3>1
    <3>7. \A b \in {m} :
              /\ b.event <= occurred'
              /\ b.by = NoDrain => b.event \in Events /\ b.event = occurred + 1 /\ occurred < LastEvent
              /\ b.by \in Drains => \A i \in DOMAIN calls : calls[i].by = b.by => i = 0
      BY <1>a, <2>1, <2>2, DrainAssumption
    <3> QED BY <1>8, <1>d, <2>1, <3>3, <3>4, <3>5, <3>6, <3>7
  <2>5. CASE ~(up /\ booted)
    <3>1. calls' = calls /\ queue' = Append(queue, occurred')
      BY <1>9, <2>1, <2>5 DEF Occur
    <3>2. queue' \in Seq(Events) /\ \A i \in DOMAIN queue' : queue'[i] <= occurred'
      <4> DEFINE L == Len(queue)
      <4>1. /\ queue' \in Seq(Events) /\ L \in Nat /\ DOMAIN queue = 1 .. L
            /\ DOMAIN queue' = 1 .. L + 1 /\ queue'[L + 1] = occurred'
            /\ \A i \in 1 .. L : queue'[i] = queue[i]
        BY <1>a, <2>1, <3>1, AppendAt
      <4> HIDE DEF L
      <4> QED BY <1>a, <2>1, <2>3, <4>1
    <3>3. StationTypeOK' /\ AnsweredGot'
      BY <1>a, <1>b, <2>1, <3>1, <3>2 DEF StationTypeOK, AnsweredGot, Line
    <3>4. Shift(0, {})
      BY <1>a, <3>1, Shifts
    <3> QED BY <1>8, <1>d, <2>1, <3>2, <3>3, <3>4
  <2> QED BY <2>4, <2>5
<1>10. ASSUME NEW d \in Drains, Boot(d) PROVE StationInv'
  <2> DEFINE m == Call(d, BootNotification)
  <2>1. /\ calls' = Append(calls, m) /\ ~Busy(d)
        /\ UNCHANGED <<occurred, up, booted, queue, wire, received, drops, timeouts, stops>>
    BY <1>10 DEF Boot, env
  <2>2. m \in Line /\ m.by = d /\ m.event = BootNotification
    BY <1>c
  <2> HIDE DEF m
  <2>3. /\ calls' \in Seq(Line) /\ calls' # <<>>
        /\ calls # <<>> => Head(calls') = Head(calls)
    BY <1>a, <2>1, <2>2, AppendAt
  <2>4. Shift(0, {m}) /\ {m} \in SUBSET Line
    BY <1>a, <2>1, <2>2, Shifts
  <2>5. StationTypeOK'
    BY <1>a, <2>1, <2>3 DEF StationTypeOK, Line
  <2>6. AnsweredGot'
    BY <1>b, <2>1, <2>3 DEF AnsweredGot, StationTypeOK
  <2>7. \A b \in {m} :
            /\ b.event <= occurred'
            /\ b.by = NoDrain => b.event \in Events /\ b.event = occurred + 1 /\ occurred < LastEvent
            /\ b.by \in Drains => \A i \in DOMAIN calls : calls[i].by = b.by => i = 0
    BY <1>a, <2>1, <2>2, DrainAssumption DEF BootNotification, Busy
  <2>8. \A i \in DOMAIN queue' : queue'[i] <= occurred'
    BY <1>b, <2>1 DEF HasOccurred
  <2> QED BY <1>8, <1>a, <1>d, <2>1, <2>4, <2>5, <2>6, <2>7, <2>8
\* The first call leaves the line, and its sender may call the head of its queue.
<1>11. ASSUME calls # <<>>, wire' = "idle", received' = received, occurred' = occurred,
              queue' \in Seq(Events), \A i \in DOMAIN queue' : queue'[i] <= occurred,
              \/ calls' = Tail(calls)
              \/ /\ calls[1].by \in Drains /\ queue' # <<>>
                 /\ calls' = Append(Tail(calls), Call(calls[1].by, Head(queue'))),
              up' \in BOOLEAN, booted' \in BOOLEAN, drops' \in 0 .. MaxDrops,
              timeouts' \in 0 .. MaxTimeouts, stops' \in 0 .. MaxStops
       PROVE  StationInv'
  <2>1. Tail(calls) \in Seq(Line) /\ 1 \in DOMAIN calls
    BY <1>a, <1>11, TailAt
  <2>2. AnsweredGot'
    BY <1>11 DEF AnsweredGot
  <2>3. CASE calls' = Tail(calls)
    <3>1. Shift(1, {})
      BY <1>a, <1>11, <2>3, Shifts
    <3>2. StationTypeOK'
      BY <1>a, <1>11, <2>1, <2>3 DEF StationTypeOK, Wire, Line
    <3> QED BY <1>8, <1>a, <1>d, <1>11, <2>2, <3>1, <3>2
  <2>4. CASE /\ calls[1].by \in Drains /\ queue' # <<>>
             /\ calls' = Append(Tail(calls), Call(calls[1].by, Head(queue')))
    <3> DEFINE d == calls[1].by
               e == Head(queue')
               m == Call(d, e)
    <3>1. e \in Events /\ e <= occurred
      <4>1. e = queue'[1] /\ 1 \in DOMAIN queue' /\ e \in Events
        BY <1>11, <2>4, TailAt
      <4> QED BY <1>11, <4>1
    <3>2. m \in Line /\ m.by = d /\ m.event = e /\ d \in Drains
      BY <1>c, <2>4, <3>1
    <3>3. calls' = Append(Tail(calls), m)
      BY <2>4
    <3> HIDE DEF m, e, d
    <3>4. Shift(1, {m}) /\ {m} \in SUBSET Line
      BY <1>a, <1>11, <3>2, <3>3, Shifts
    <3>5. calls' \in Seq(Line) /\ calls' # <<>>
      BY <2>1, <3>2, <3>3, AppendAt
    <3>6. StationTypeOK'
      BY <1>a, <1>11, <3>5 DEF StationTypeOK, Wire, Line
    <3>7. \A i \in DOMAIN calls : calls[i].by = d => i = 1
      BY <2>1, <3>2 DEF StationInv, OneCall, d
    <3>8. \A b \in {m} :
              /\ b.event <= occurred'
              /\ b.by = NoDrain => b.event \in Events /\ b.event = occurred + 1 /\ occurred < LastEvent
              /\ b.by \in Drains => \A i \in DOMAIN calls : calls[i].by = b.by => i = 1
      BY <1>11, <3>1, <3>2, <3>7, DrainAssumption
    <3> QED BY <1>8, <1>a, <1>d, <1>11, <2>2, <3>4, <3>6, <3>8
  <2> QED BY <1>11, <2>3, <2>4
<1>12. CASE Return
  <2>1. queue' = queue \/ (queue # <<>> /\ queue' = Tail(queue))
    BY <1>12, ReturnCases
  <2>2. queue' \in Seq(Events) /\ \A i \in DOMAIN queue' : queue'[i] <= occurred
    <3>1. CASE queue' = queue
      BY <1>a, <1>b, <3>1 DEF HasOccurred
    <3>2. CASE queue # <<>> /\ queue' = Tail(queue)
      <4> DEFINE L == Len(queue)
      <4>1. /\ queue' \in Seq(Events) /\ L \in Nat \ {0} /\ DOMAIN queue = 1 .. L
            /\ DOMAIN queue' = 1 .. L - 1 /\ \A i \in 1 .. L - 1 : queue'[i] = queue[i + 1]
        BY <1>a, <3>2, TailAt
      <4> HIDE DEF L
      <4>2. \A i \in 1 .. L - 1 : i + 1 \in DOMAIN queue
        BY <4>1
      <4> QED BY <1>b, <4>1, <4>2 DEF HasOccurred
    <3> QED BY <2>1, <3>1, <3>2
  <2>3. /\ calls # <<>> /\ wire' = "idle" /\ received' = received /\ occurred' = occurred
        /\ booted' \in BOOLEAN /\ UNCHANGED <<up, drops, timeouts, stops>>
        /\ \/ calls' = Tail(calls)
           \/ /\ calls[1].by \in Drains /\ queue' # <<>>
              /\ calls' = Append(Tail(calls), Call(calls[1].by, Head(queue')))
    BY <1>12, ReturnCases
  <2> QED BY <1>11, <1>a, <2>2, <2>3
<1>13. CASE SendFails \/ Timeout
  <2>1. /\ calls # <<>> /\ wire' = "idle" /\ Fail
        /\ UNCHANGED <<occurred, up, booted, received, drops, stops>>
        /\ timeouts' \in 0 .. MaxTimeouts
    BY <1>13, <1>a, <1>b, StationBounds DEF SendFails, Timeout, env, StationTypeOK
  <2>2. /\ 1 \in DOMAIN calls
        /\ queue' = queue \/ (calls[1].event \in Events /\ queue' = Append(queue, calls[1].event))
        /\ \/ calls' = Tail(calls)
           \/ /\ calls[1].by \in Drains /\ queue' # <<>>
              /\ calls' = Append(Tail(calls), Call(calls[1].by, Head(queue')))
    BY <2>1, FailCases
  <2>3. queue' \in Seq(Events) /\ \A i \in DOMAIN queue' : queue'[i] <= occurred
    <3>1. CASE queue' = queue
      BY <1>a, <1>b, <3>1 DEF HasOccurred
    <3>2. CASE calls[1].event \in Events /\ queue' = Append(queue, calls[1].event)
      <4> DEFINE L == Len(queue)
      <4>1. /\ queue' \in Seq(Events) /\ L \in Nat /\ DOMAIN queue = 1 .. L
            /\ DOMAIN queue' = 1 .. L + 1 /\ queue'[L + 1] = calls[1].event
            /\ \A i \in 1 .. L : queue'[i] = queue[i]
        BY <1>a, <3>2, AppendAt
      <4> HIDE DEF L
      <4>2. calls[1].event <= occurred
        BY <1>b, <2>2 DEF HasOccurred
      <4> QED BY <1>b, <4>1, <4>2 DEF HasOccurred
    <3> QED BY <2>2, <3>1, <3>2
  <2> QED BY <1>11, <1>a, <2>1, <2>2, <2>3
<1> QED BY <1>2, <1>3, <1>4, <1>5, <1>6, <1>7, <1>9, <1>10, <1>12, <1>13 DEF Next, CallStep

\* The station, whatever the CSMS does.
LEMMA StationInvariant == Spec => []StationInv
  BY InitStation, NextStation, PTL DEF Spec

-------------------------------------------------------------------------------
(* Nothing is lost while one run of send_queued_messages is under way at a    *)
(* time: what it calls is the head of the queue, which only its own answer    *)
(* removes.                                                                   *)

AtMostOneDrain == \A d, e \in Drains : d = e

DrainsHead ==
    \A i \in DOMAIN calls :
        calls[i].by \in Drains /\ calls[i].event # BootNotification =>
            queue # <<>> /\ calls[i].event = Head(queue)

\* The head of the queue stays, and what joins the line is no event of a run's or that head.
LEMMA DrainsHeadKept ==
    ASSUME DrainsHead, NEW k \in {0, 1}, NEW M, Shift(k, M),
           queue # <<>> => queue' # <<>> /\ Head(queue') = Head(queue),
           \A m \in M : m.by \in Drains /\ m.event # BootNotification =>
                            queue' # <<>> /\ m.event = Head(queue')
    PROVE  DrainsHead'
  BY DEF DrainsHead, Shift

\* The step.
LEMMA NextDrainsHead ==
    ASSUME AtMostOneDrain
    PROVE  StationInv /\ DrainsHead /\ [Next]_station => DrainsHead'
<1> SUFFICES ASSUME StationInv, DrainsHead, [Next]_station PROVE DrainsHead'
  OBVIOUS
<1>a. calls \in Seq(Line) /\ queue \in Seq(Events) /\ occurred \in 0 .. LastEvent /\ LastEvent \in Nat
  BY StationBounds DEF StationInv, StationTypeOK, Line
<1>b. ASSUME NEW d, NEW e, d \in Drains \cup {NoDrain}, e \in Events \cup {BootNotification}
      PROVE  Call(d, e) \in Line /\ Call(d, e).by = d /\ Call(d, e).event = e
  BY <1>b DEF Call, Line
<1>c. 0 \in {0, 1} /\ 1 \in {0, 1}
  OBVIOUS
<1>1. CASE Send \/ Handle \/ Restore \/ Drop \/ UNCHANGED station
  <2>1. UNCHANGED <<queue, calls>>
    BY <1>1 DEF Send, Handle, Restore, Drop, station
  <2> QED BY <2>1 DEF DrainsHead
<1>2. CASE Stop
  <2>1. calls' = <<>> /\ DOMAIN <<>> = {}
    BY <1>2 DEF Stop
  <2> QED BY <2>1 DEF DrainsHead
<1>3. CASE Occur
  <2>1. occurred + 1 \in Events
    BY <1>3, <1>a DEF Occur, Events
  <2>2. CASE up /\ booted
    <3> DEFINE m == Call(NoDrain, occurred + 1)
    <3>1. calls' = Append(calls, m) /\ queue' = queue
      BY <1>3, <2>2 DEF Occur
    <3>2. m \in Line /\ m.by = NoDrain
      BY <1>b, <2>1
    <3> HIDE DEF m
    <3>3. Shift(0, {m})
      BY <1>a, <3>1, <3>2, Shifts
    <3> QED BY <1>c, <3>1, <3>2, <3>3, DrainAssumption, DrainsHeadKept
  <2>3. CASE ~(up /\ booted)
    <3>1. calls' = calls /\ queue' = Append(queue, occurred + 1)
      BY <1>3, <2>3 DEF Occur
    <3> QED BY <1>a, <2>1, <3>1, AppendAt DEF DrainsHead
  <2> QED BY <2>2, <2>3
<1>4. ASSUME NEW d \in Drains, Boot(d) PROVE DrainsHead'
  <2> DEFINE m == Call(d, BootNotification)
  <2>1. calls' = Append(calls, m) /\ queue' = queue
    BY <1>4 DEF Boot
  <2>2. m \in Line /\ m.event = BootNotification
    BY <1>b
  <2> HIDE DEF m
  <2>3. Shift(0, {m})
    BY <1>a, <2>1, <2>2, Shifts
  <2> QED BY <1>c, <2>1, <2>2, <2>3, DrainsHeadKept
\* The first call leaves the line, and its sender may call the head of its queue.
<1>5. ASSUME calls # <<>>, calls[1].by \in Drains \/
                           (queue # <<>> => queue' # <<>> /\ Head(queue') = Head(queue)),
             queue' \in Seq(Events),
             \/ calls' = Tail(calls)
             \/ /\ calls[1].by \in Drains /\ queue' # <<>>
                /\ calls' = Append(Tail(calls), Call(calls[1].by, Head(queue')))
      PROVE  DrainsHead'
  <2>1. PICK M \in SUBSET Line : Shift(1, M) /\ \A m \in M : queue' # <<>> /\ m.event = Head(queue')
    <3>1. CASE calls' = Tail(calls)
      BY <1>a, <1>5, <3>1, Shifts
    <3>2. CASE /\ calls[1].by \in Drains /\ queue' # <<>>
               /\ calls' = Append(Tail(calls), Call(calls[1].by, Head(queue')))
      <4> DEFINE d == calls[1].by
                 e == Head(queue')
                 m == Call(d, e)
      <4>1. e \in Events
        BY <1>5, <3>2, TailAt
      <4>2. m \in Line /\ m.event = e /\ calls' = Append(Tail(calls), m)
        BY <1>b, <3>2, <4>1
      <4> HIDE DEF m
      <4>3. Shift(1, {m}) /\ {m} \in SUBSET Line
        BY <1>a, <1>5, <4>2, Shifts
      <4> QED BY <3>2, <4>2, <4>3
    <3> QED BY <1>5, <3>1, <3>2
  <2>2. CASE queue # <<>> => queue' # <<>> /\ Head(queue') = Head(queue)
    BY <1>c, <2>1, <2>2, DrainsHeadKept
  <2>3. CASE calls[1].by \in Drains
    <3> SUFFICES ASSUME NEW i \in DOMAIN calls', calls'[i].by \in Drains,
                        calls'[i].event # BootNotification
                 PROVE  queue' # <<>> /\ calls'[i].event = Head(queue')
      BY DEF DrainsHead
    <3>1. CASE i + 1 \in DOMAIN calls /\ calls'[i] = calls[i + 1]
      <4>1. calls[i + 1].by = calls[1].by /\ 1 \in DOMAIN calls
        BY <1>a, <1>5, <2>3, <3>1, TailAt DEF AtMostOneDrain
      <4>2. i + 1 = 1
        BY <2>3, <3>1, <4>1 DEF StationInv, OneCall
      <4>3. i \in Nat \ {0}
        BY <2>1 DEF Shift
      <4> QED BY <4>2, <4>3
    <3> QED BY <2>1, <3>1 DEF Shift
  <2> QED BY <1>5, <2>2, <2>3
<1>6. CASE Return
  <2>1. /\ calls # <<>>
        /\ queue' = queue \/ (calls[1].by \in Drains /\ queue # <<>> /\ queue' = Tail(queue))
        /\ \/ calls' = Tail(calls)
           \/ /\ calls[1].by \in Drains /\ queue' # <<>>
              /\ calls' = Append(Tail(calls), Call(calls[1].by, Head(queue')))
    BY <1>6, ReturnCases
  <2>2. queue' \in Seq(Events)
    BY <1>a, <2>1, TailAt
  <2> QED BY <1>5, <2>1, <2>2
<1>7. CASE SendFails \/ Timeout
  <2>1. calls # <<>> /\ Fail
    BY <1>7 DEF SendFails, Timeout, StationInv, StationTypeOK
  <2>2. /\ queue' = queue \/ (calls[1].event \in Events /\ queue' = Append(queue, calls[1].event))
        /\ \/ calls' = Tail(calls)
           \/ /\ calls[1].by \in Drains /\ queue' # <<>>
              /\ calls' = Append(Tail(calls), Call(calls[1].by, Head(queue')))
    BY <2>1, FailCases
  <2>3. /\ queue' \in Seq(Events)
        /\ queue # <<>> => queue' # <<>> /\ Head(queue') = Head(queue)
    <3>1. CASE queue' = queue
      BY <1>a, <3>1
    <3>2. CASE calls[1].event \in Events /\ queue' = Append(queue, calls[1].event)
      BY <1>a, <3>2, AppendAt
    <3> QED BY <2>2, <3>1, <3>2
  <2> QED BY <1>5, <2>1, <2>2, <2>3
<1> QED BY <1>1, <1>2, <1>3, <1>4, <1>6, <1>7 DEF Next, CallStep

\* Append loses nothing, Tail only the head.
LEMMA AppendHas ==
    ASSUME NEW S, NEW q \in Seq(S), NEW m \in S
    PROVE  /\ \A i \in DOMAIN q : i \in DOMAIN Append(q, m) /\ Append(q, m)[i] = q[i]
           /\ \E j \in DOMAIN Append(q, m) : Append(q, m)[j] = m
  BY AppendAt
LEMMA TailHas ==
    ASSUME NEW S, NEW q \in Seq(S), q # <<>>, NEW i \in DOMAIN q, i # 1
    PROVE  \E j \in DOMAIN Tail(q) : Tail(q)[j] = q[i]
<1> DEFINE L == Len(q)
<1>1. /\ L \in Nat \ {0} /\ DOMAIN q = 1 .. L /\ DOMAIN Tail(q) = 1 .. L - 1
      /\ \A j \in 1 .. L - 1 : Tail(q)[j] = q[j + 1]
  BY TailAt
<1> HIDE DEF L
<1>2. i - 1 \in 1 .. L - 1 /\ (i - 1) + 1 = i
  BY <1>1
<1> QED BY <1>1, <1>2


\* The two steps that take an event from the line or from the queue.
LEMMA EventReturned ==
    ASSUME AtMostOneDrain, StationInv, DrainsHead, Return, NEW e \in Events, e \notin received
    PROVE  /\ InQueue(e) => InQueue(e)'
           /\ InCall(e) => InCall(e)'
<1>a. calls \in Seq(Line) /\ queue \in Seq(Events) /\ 0 \notin Events
  BY StationBounds DEF StationInv, StationTypeOK, Line, Events
<1>1. /\ calls # <<>> /\ Head(calls) = calls[1] /\ 1 \in DOMAIN calls /\ wire = "answered"
      /\ \/ queue' = queue
         \/ /\ calls[1].by \in Drains /\ calls[1].event # BootNotification
            /\ queue # <<>> /\ queue' = Tail(queue)
      /\ \/ calls' = Tail(calls)
         \/ /\ calls[1].by \in Drains /\ queue' # <<>>
            /\ calls' = Append(Tail(calls), Call(calls[1].by, Head(queue')))
  BY ReturnCases
<1>2. calls[1].event \in received \cup {BootNotification} /\ calls[1].event # e
  BY <1>a, <1>1 DEF StationInv, AnsweredGot, BootNotification
<1>3. ASSUME InQueue(e) PROVE InQueue(e)'
  <2>1. PICK i \in DOMAIN queue : queue[i] = e
    BY <1>3 DEF InQueue
  <2>2. CASE queue' = queue
    BY <2>1, <2>2 DEF InQueue
  <2>3. CASE /\ calls[1].by \in Drains /\ calls[1].event # BootNotification
             /\ queue # <<>> /\ queue' = Tail(queue)
    <3>1. Head(queue) = queue[1] /\ calls[1].event = Head(queue)
      BY <1>a, <1>1, <2>3, TailAt DEF DrainsHead
    <3>2. i # 1
      BY <1>2, <2>1, <3>1
    <3>3. \E j \in DOMAIN Tail(queue) : Tail(queue)[j] = queue[i]
      BY <1>a, <2>3, <3>2, TailHas
    <3> QED BY <2>1, <2>3, <3>3 DEF InQueue
  <2> QED BY <1>1, <2>2, <2>3
<1>4. queue' \in Seq(Events)
  BY <1>a, <1>1, TailAt
<1>5. ASSUME InCall(e) PROVE InCall(e)'
  <2>1. PICK i \in DOMAIN calls : calls[i].event = e
    BY <1>5 DEF InCall
  <2>2. i # 1
    BY <1>2, <2>1
  <2>3. PICK j \in DOMAIN Tail(calls) : Tail(calls)[j] = calls[i]
    BY <1>a, <1>1, <2>2, TailHas
  <2>4. CASE calls' = Tail(calls)
    BY <2>1, <2>3, <2>4 DEF InCall
  <2>5. CASE /\ calls[1].by \in Drains /\ queue' # <<>>
             /\ calls' = Append(Tail(calls), Call(calls[1].by, Head(queue')))
    <3> DEFINE T == Tail(calls)
               m == Call(calls[1].by, Head(queue'))
    <3>1. T \in Seq(Line) /\ m \in Line
      BY <1>a, <1>1, <1>4, <2>5, TailAt DEF Call, Line
    <3>2. j \in DOMAIN Append(T, m) /\ Append(T, m)[j] = T[j]
      BY <2>3, <3>1, AppendHas
    <3> QED BY <2>1, <2>3, <2>5, <3>2 DEF InCall
  <2> QED BY <1>1, <2>4, <2>5
<1> QED BY <1>3, <1>5
LEMMA EventFailed ==
    ASSUME StationInv, DrainsHead, Fail, calls # <<>>, NEW e \in Events
    PROVE  /\ InQueue(e) => InQueue(e)'
           /\ InCall(e) => InCall(e)' \/ InQueue(e)'
<1>a. calls \in Seq(Line) /\ queue \in Seq(Events) /\ 0 \notin Events
  BY StationBounds DEF StationInv, StationTypeOK, Line, Events
<1>1. /\ Head(calls) = calls[1] /\ 1 \in DOMAIN calls
      /\ \/ /\ calls[1].by = NoDrain /\ calls[1].event \in Events
            /\ calls' = Tail(calls) /\ queue' = Append(queue, calls[1].event)
         \/ /\ calls[1].by \in Drains /\ queue' = queue
            /\ \/ calls' = Tail(calls)
               \/ /\ queue # <<>>
                  /\ calls' = Append(Tail(calls), Call(calls[1].by, Head(queue)))
  BY FailCases
<1>2. ASSUME InQueue(e) PROVE InQueue(e)'
  <2>1. PICK i \in DOMAIN queue : queue[i] = e
    BY <1>2 DEF InQueue
  <2>2. CASE queue' = queue
    BY <2>1, <2>2 DEF InQueue
  <2>3. CASE calls[1].event \in Events /\ queue' = Append(queue, calls[1].event)
    BY <1>a, <2>1, <2>3, AppendHas DEF InQueue
  <2> QED BY <1>1, <2>2, <2>3
\* The event of the call that failed goes to the queue, or is its head.
<1>3. ASSUME calls[1].event = e PROVE InQueue(e)'
  <2>1. CASE calls[1].event \in Events /\ queue' = Append(queue, calls[1].event)
    BY <1>a, <1>3, <2>1, AppendHas DEF InQueue
  <2>2. CASE calls[1].by \in Drains /\ queue' = queue
    <3>1. queue # <<>> /\ e = Head(queue)
      BY <1>a, <1>1, <1>3, <2>2 DEF DrainsHead, BootNotification
    <3>2. Head(queue) = queue[1] /\ 1 \in DOMAIN queue
      BY <1>a, <3>1, TailAt
    <3> QED BY <2>2, <3>1, <3>2 DEF InQueue
  <2> QED BY <1>1, <2>1, <2>2
<1>4. ASSUME NEW i \in DOMAIN calls, calls[i].event = e, i # 1 PROVE InCall(e)'
  <2>1. PICK j \in DOMAIN Tail(calls) : Tail(calls)[j] = calls[i]
    BY <1>a, <1>4, TailHas
  <2>2. CASE calls' = Tail(calls)
    BY <1>4, <2>1, <2>2 DEF InCall
  <2>3. CASE /\ calls[1].by \in Drains /\ queue # <<>>
             /\ calls' = Append(Tail(calls), Call(calls[1].by, Head(queue)))
    <3> DEFINE T == Tail(calls)
               m == Call(calls[1].by, Head(queue))
    <3>1. T \in Seq(Line) /\ m \in Line
      BY <1>a, <2>3, TailAt DEF Call, Line
    <3>2. j \in DOMAIN Append(T, m) /\ Append(T, m)[j] = T[j]
      BY <2>1, <3>1, AppendHas
    <3> QED BY <1>4, <2>1, <2>3, <3>2 DEF InCall
  <2> QED BY <1>1, <2>2, <2>3
<1> QED BY <1>2, <1>3, <1>4 DEF InCall

\* No step loses an event the CSMS has not got, but a restart those in the line.
LEMMA EventKept ==
    ASSUME AtMostOneDrain, StationInv, DrainsHead, [Next]_station, NEW e \in Events, e \notin received
    PROVE  /\ InQueue(e) => InQueue(e)'
           /\ InCall(e) => InCall(e)' \/ InQueue(e)' \/ stops' > 0
<1>a. calls \in Seq(Line) /\ queue \in Seq(Events) /\ stops \in Nat
      /\ occurred \in 0 .. LastEvent /\ LastEvent \in Nat
  BY StationBounds DEF StationInv, StationTypeOK, Line
<1>1. CASE Send \/ Handle \/ Restore \/ Drop \/ UNCHANGED station
  <2>1. UNCHANGED <<queue, calls>>
    BY <1>1 DEF Send, Handle, Restore, Drop, station
  <2> QED BY <2>1 DEF InQueue, InCall
<1>2. CASE Stop
  BY <1>a, <1>2 DEF Stop, InQueue
<1>3. CASE Occur
  <2>1. occurred + 1 \in Events
    BY <1>3, <1>a DEF Occur, Events
  <2>2. CASE up /\ booted
    <3>1. calls' = Append(calls, Call(NoDrain, occurred + 1)) /\ queue' = queue
      BY <1>3, <2>2 DEF Occur
    <3>2. Call(NoDrain, occurred + 1) \in Line
      BY <2>1 DEF Call, Line
    <3> QED BY <1>a, <3>1, <3>2, AppendHas DEF InQueue, InCall
  <2>3. CASE ~(up /\ booted)
    <3>1. calls' = calls /\ queue' = Append(queue, occurred + 1)
      BY <1>3, <2>3 DEF Occur
    <3> QED BY <1>a, <2>1, <3>1, AppendHas DEF InQueue, InCall
  <2> QED BY <2>2, <2>3
<1>4. ASSUME NEW d \in Drains, Boot(d)
      PROVE  /\ InQueue(e) => InQueue(e)'
             /\ InCall(e) => InCall(e)'
  <2>1. calls' = Append(calls, Call(d, BootNotification)) /\ queue' = queue
    BY <1>4 DEF Boot
  <2>2. Call(d, BootNotification) \in Line
    BY DEF Call, Line
  <2> QED BY <1>a, <2>1, <2>2, AppendHas DEF InQueue, InCall
<1>5. CASE Return
  BY <1>5, EventReturned
<1>6. CASE SendFails \/ Timeout
  <2>1. calls # <<>> /\ Fail
    BY <1>6 DEF SendFails, Timeout, StationInv, StationTypeOK
  <2> QED BY <2>1, EventFailed
<1> QED BY <1>1, <1>2, <1>3, <1>4, <1>5, <1>6 DEF Next, CallStep

\* An event that occurs is called or queued.
LEMMA OccursSomewhere ==
    ASSUME StationInv, Occur, NEW e \in Events, e = occurred + 1
    PROVE  InQueue(e)' \/ InCall(e)'
<1>1. calls \in Seq(Line) /\ queue \in Seq(Events)
  BY DEF StationInv, StationTypeOK, Line
<1>2. CASE up /\ booted
  <2>1. calls' = Append(calls, Call(NoDrain, e)) /\ Call(NoDrain, e) \in Line
    BY <1>2 DEF Occur, Call, Line
  <2>2. Call(NoDrain, e).event = e
    BY DEF Call
  <2> QED BY <1>1, <2>1, <2>2, AppendHas DEF InCall
<1>3. CASE ~(up /\ booted)
  <2>1. queue' = Append(queue, e)
    BY <1>3 DEF Occur
  <2> QED BY <1>1, <2>1, AppendHas DEF InQueue
<1> QED BY <1>2, <1>3

\* The three together are inductive.
LEMMA NextNothingLost ==
    ASSUME AtMostOneDrain
    PROVE  StationInv /\ DrainsHead /\ NothingLost /\ [Next]_station => NothingLost'
<1> SUFFICES ASSUME StationInv, DrainsHead, NothingLost, [Next]_station PROVE NothingLost'
  OBVIOUS
<1>1. /\ occurred \in Nat /\ stops \in Nat /\ stops' \in Nat /\ stops <= stops'
      /\ received \subseteq received'
      /\ occurred' = occurred \/ (Occur /\ occurred' = occurred + 1 /\ occurred < LastEvent)
  <2>1. occurred \in Nat /\ stops \in Nat
    BY StationBounds DEF StationInv, StationTypeOK
  <2> QED BY <2>1
          DEF Next, CallStep, Occur, Send, Return, SendFails, Timeout, Handle, Boot, Restore, Drop,
              Stop, station, env
<1> SUFFICES ASSUME stops' = 0, NEW e \in 1 .. occurred', e \notin received'
             PROVE  InQueue(e)' \/ InCall(e)'
  BY DEF NothingLost
<1>2. stops = 0 /\ e \notin received
  BY <1>1
<1>3. e \in Events /\ (e \in 1 .. occurred \/ (Occur /\ e = occurred + 1))
  BY <1>1, StationBounds DEF Events, StationInv, StationTypeOK
<1>4. CASE e \in 1 .. occurred
  <2>1. InQueue(e) \/ InCall(e)
    BY <1>2, <1>4 DEF NothingLost
  <2> QED BY <1>2, <1>3, <2>1, EventKept
<1>5. CASE Occur /\ e = occurred + 1
  BY <1>3, <1>5, OccursSomewhere
<1> QED BY <1>3, <1>4, <1>5

\* What the run calls is the head of the queue.
LEMMA RunCallsHead == ASSUME AtMostOneDrain PROVE Spec => [](StationInv /\ DrainsHead)
<1>1. Init => DrainsHead
  BY DEF Init, DrainsHead
<1>2. StationInv /\ DrainsHead /\ [Next]_station => DrainsHead'
  BY NextDrainsHead
<1> QED BY <1>1, <1>2, StationInvariant, PTL DEF Spec

\* Line 214 "Store request in message queue": while no two runs of send_queued_messages
\* overlap, no event is lost by lost connections, timeouts and answers in any order, until
\* the client is restarted.
THEOREM NoEventLost == ASSUME AtMostOneDrain PROVE Spec => []NothingLost
<1>1. Init => NothingLost
  BY DEF Init, NothingLost
<1>2. StationInv /\ DrainsHead /\ NothingLost /\ [Next]_station => NothingLost'
  BY NextNothingLost
<1>3. Spec => [](StationInv /\ DrainsHead)
  BY RunCallsHead
<1> QED BY <1>1, <1>2, <1>3, PTL DEF Spec

\* A queued event leaves the queue only when the CSMS has it, restarts included.
THEOREM QueueKeepsEvents == ASSUME AtMostOneDrain PROVE Spec => QueuedUntilReceived
<1>1. StationInv /\ DrainsHead /\ [Next]_station =>
          [\A e \in Events : InQueue(e) /\ e \notin received => InQueue(e)']_station
  BY EventKept
<1>2. Spec => [](StationInv /\ DrainsHead)
  BY RunCallsHead
<1> QED BY <1>1, <1>2, PTL DEF Spec, QueuedUntilReceived

-------------------------------------------------------------------------------
(* The CSMS does nothing to the station's queue and line but handle messages.  *)

LEMMA StationMoves == [CNext]_vars => [Next]_station
<1> SUFFICES ASSUME [CNext]_vars PROVE [Next]_station
  OBVIOUS
<1>1. CASE StationStep
  BY <1>1 DEF StationStep, Next, CallStep
<1>2. CASE SendEvent \/ HandleEvent \/ DropObject \/ StopObject
  BY <1>2 DEF SendEvent, HandleEvent, DropObject, StopObject, Next, CallStep
<1>3. ASSUME NEW i \in Tasks, TaskStep(i) PROVE UNCHANGED station
  BY <1>3 DEF TaskStep, Begin, Answer, Note, Verify
<1>4. CASE UNCHANGED vars
  BY <1>4 DEF vars
<1> QED BY <1>1, <1>2, <1>3, <1>4 DEF CNext

\* The composition implements the station alone: what is proved of StationQueue holds beside
\* any number of status requests.
THEOREM CompletenessImplementsQueue == CSpec => Spec
<1>1. CInit => Init
  BY DEF CInit
<1> QED BY <1>1, StationMoves, PTL DEF CSpec, Spec

-------------------------------------------------------------------------------
(* The types of the CSMS.                                                     *)

CsmsTypeOK ==
    /\ tasks \in 0 .. MaxTasks
    /\ after \in [Tasks -> AfterPC]
    /\ \A i \in Tasks : after[i] = "none" <=> i > tasks
    /\ outOfOrder \in BOOLEAN /\ behind \in BOOLEAN /\ between \in BOOLEAN
    /\ verdicts \subseteq {"complete", "lost"}

\* Request i, or every request of a lost connection, goes on; a new one starts.
LEMMA CsmsStep ==
    ASSUME CsmsTypeOK, NEW i \in Tasks, NEW n \in AfterPC,
           after' = [after EXCEPT ![i] = n], n # "none"
    PROVE  /\ after' \in [Tasks -> AfterPC] /\ after'[i] = n
           /\ \A j \in Tasks : j # i => after'[j] = after[j]
           /\ after[i] # "none" => \A j \in Tasks : after'[j] = "none" <=> j > tasks
  BY DEF CsmsTypeOK

\* What each step of a task does to it.
LEMMA TaskCases ==
    ASSUME CsmsTypeOK, NEW i \in Tasks, TaskStep(i)
    PROVE  \E n \in AfterPC \ {"none"} :
              /\ after' = [after EXCEPT ![i] = n] /\ after[i] # "none"
              /\ UNCHANGED <<station, tasks, between>>
              /\ \/ /\ Begin(i) /\ n \in {"asking", "done"} /\ UNCHANGED <<outOfOrder, behind, verdicts>>
                 \/ /\ Answer(i) /\ n = (IF queue # <<>> THEN "holds" ELSE "empty")
                    /\ UNCHANGED <<outOfOrder, behind, verdicts>>
                 \/ /\ Note(i) /\ n = (IF after[i] = "holds" THEN "done" ELSE "verifying")
                    /\ UNCHANGED verdicts
                 \/ /\ Verify(i) /\ n = "done" /\ UNCHANGED <<outOfOrder, behind>>
<1>1. {"asking", "done", "holds", "empty", "verifying"} \subseteq AfterPC \ {"none"}
  BY DEF AfterPC
<1>2. CASE Begin(i)
  BY <1>1, <1>2 DEF Begin
<1>3. CASE Answer(i)
  BY <1>1, <1>3 DEF Answer
<1>4. CASE Note(i)
  BY <1>1, <1>4 DEF Note
<1>5. CASE Verify(i)
  BY <1>1, <1>5 DEF Verify
<1> QED BY <1>2, <1>3, <1>4, <1>5 DEF TaskStep

\* What the loss of the connection, or of the station, does to the tasks.
Ended(pc) == IF pc \in {"ended", "other", "asking", "holds"} THEN "failed"
             ELSE IF pc = "empty" THEN "verifying" ELSE pc
LEMMA ObjectGone ==
    ASSUME CsmsTypeOK, DropObject \/ StopObject
    PROVE  /\ \A i \in Tasks : after'[i] = Ended(after[i])
           /\ after' \in [Tasks -> AfterPC] /\ \A i \in Tasks : after'[i] = "none" <=> after[i] = "none"
           /\ outOfOrder' = FALSE /\ behind' = FALSE /\ UNCHANGED <<tasks, between, verdicts>>
  BY DEF DropObject, StopObject, Ended, CsmsTypeOK, AfterPC

LEMMA NextCsms == StationInv /\ CsmsTypeOK /\ [CNext]_vars => CsmsTypeOK'
<1> SUFFICES ASSUME StationInv, CsmsTypeOK, [CNext]_vars PROVE CsmsTypeOK'
  OBVIOUS
<1>1. CASE StationStep /\ UNCHANGED csms
  BY <1>1 DEF csms, CsmsTypeOK
<1>2. CASE SendEvent
  <2>1. behind' = Answering /\ Answering \in BOOLEAN
    BY <1>2 DEF SendEvent, Answering
  <2> QED BY <1>2, <2>1 DEF SendEvent, CsmsTypeOK
<1>3. CASE HandleEvent
  <2>1. UNCHANGED <<outOfOrder, behind, between, verdicts>>
    BY <1>3 DEF HandleEvent
  <2>2. CASE Head(calls).event = BootNotification
    BY <1>3, <2>1, <2>2 DEF HandleEvent, CsmsTypeOK
  <2>3. CASE Head(calls).event # BootNotification
    <3> DEFINE n == IF Head(calls).event = LastEvent THEN "ended" ELSE "other"
    <3>1. tasks < MaxTasks /\ tasks' = tasks + 1 /\ after' = [after EXCEPT ![tasks + 1] = n]
      BY <1>3, <2>3 DEF HandleEvent
    <3>2. n \in AfterPC /\ n # "none"
      BY DEF AfterPC
    <3>3. tasks \in Nat /\ tasks + 1 \in Tasks /\ tasks' \in 0 .. MaxTasks
      BY <3>1, TaskBounds DEF CsmsTypeOK, Tasks
    <3> HIDE DEF n
    <3>4. /\ after' \in [Tasks -> AfterPC] /\ after'[tasks + 1] = n
          /\ \A j \in Tasks : j # tasks + 1 => after'[j] = after[j]
      BY <3>1, <3>2, <3>3 DEF CsmsTypeOK
    <3>5. \A j \in Tasks : after'[j] = "none" <=> j > tasks'
      BY <3>1, <3>2, <3>3, <3>4, TaskBounds DEF CsmsTypeOK, Tasks
    <3> QED BY <2>1, <3>3, <3>4, <3>5 DEF CsmsTypeOK
  <2> QED BY <2>2, <2>3
<1>4. CASE DropObject \/ StopObject
  BY <1>4, ObjectGone DEF CsmsTypeOK
<1>5. ASSUME NEW i \in Tasks, TaskStep(i) PROVE CsmsTypeOK'
  <2>1. PICK n \in AfterPC \ {"none"} :
              /\ after' = [after EXCEPT ![i] = n] /\ after[i] # "none"
              /\ UNCHANGED <<station, tasks, between>>
              /\ \/ /\ Begin(i) /\ n \in {"asking", "done"} /\ UNCHANGED <<outOfOrder, behind, verdicts>>
                 \/ /\ Answer(i) /\ n = (IF queue # <<>> THEN "holds" ELSE "empty")
                    /\ UNCHANGED <<outOfOrder, behind, verdicts>>
                 \/ /\ Note(i) /\ n = (IF after[i] = "holds" THEN "done" ELSE "verifying")
                    /\ UNCHANGED verdicts
                 \/ /\ Verify(i) /\ n = "done" /\ UNCHANGED <<outOfOrder, behind>>
    BY <1>5, TaskCases
  <2>2. /\ after' \in [Tasks -> AfterPC]
        /\ \A j \in Tasks : after'[j] = "none" <=> j > tasks
    BY <2>1, CsmsStep
  <2>3. outOfOrder' \in BOOLEAN /\ behind' \in BOOLEAN
    BY <2>1 DEF CsmsTypeOK, Note
  <2>4. verdicts' \subseteq {"complete", "lost"}
    BY <2>1 DEF CsmsTypeOK, Verify
  <2> QED BY <2>1, <2>2, <2>3, <2>4 DEF CsmsTypeOK
<1>6. CASE UNCHANGED vars
  BY <1>6 DEF vars, csms, CsmsTypeOK
<1> QED BY <1>1, <1>2, <1>3, <1>4, <1>5, <1>6 DEF CNext

\* The types of both sides.
LEMMA CsmsInvariant == CSpec => [](StationInv /\ CsmsTypeOK)
<1>1. CInit => CsmsTypeOK
  <2> SUFFICES ASSUME CInit PROVE CsmsTypeOK
    OBVIOUS
  <2>1. between \in BOOLEAN
    BY Zenon DEF CInit
  <2>2. \A i \in Tasks : i > 0
    BY TaskBounds DEF Tasks
  <2>3. /\ tasks \in 0 .. MaxTasks /\ after \in [Tasks -> AfterPC]
        /\ \A i \in Tasks : after[i] = "none" <=> i > tasks
    BY <2>2, TaskBounds DEF CInit, AfterPC
  <2>4. outOfOrder \in BOOLEAN /\ behind \in BOOLEAN /\ verdicts \subseteq {"complete", "lost"}
    BY DEF CInit
  <2> QED BY <2>1, <2>3, <2>4 DEF CsmsTypeOK
<1>2. CSpec => []StationInv
  BY CompletenessImplementsQueue, StationInvariant, PTL
<1> QED BY <1>1, <1>2, NextCsms, PTL DEF CSpec

\* Every variable of the station and of the CSMS stays in its domain, for any number of
\* events, drains and tasks.
THEOREM TypeCorrect == CSpec => []TypeOK
<1>1. StationInv /\ CsmsTypeOK => TypeOK
  BY DEF StationInv, CsmsTypeOK, TypeOK
<1> QED BY <1>1, CsmsInvariant, PTL

-------------------------------------------------------------------------------
(* "Messages lost" is no false alarm.                                          *)

\* The CSMS asks only after the last event, ...
AsksAfterLast ==
    /\ outOfOrder => LastEvent \in received
    /\ \A i \in Tasks :
          after[i] \in {"ended", "asking", "holds", "empty", "verifying"} => LastEvent \in received

\* ... and goes on to the database only when the station holds nothing that is missing.
NoneHeld == \A e \in Events : e \notin received => ~InQueue(e) /\ ~InCall(e)
VerifiesUnheld == \A i \in Tasks : after[i] \in {"empty", "verifying"} => NoneHeld

\* What the station holds it held before, unless it has just occurred.
LEMMA HeldBefore ==
    ASSUME StationInv, [Next]_station, ~Occur, NEW e \in Events, InQueue(e)' \/ InCall(e)'
    PROVE  InQueue(e) \/ InCall(e)
<1>a. calls \in Seq(Line) /\ queue \in Seq(Events) /\ 0 \notin Events
  BY StationBounds DEF StationInv, StationTypeOK, Line, Events
<1>b. ASSUME NEW d, NEW c, d \in Drains \cup {NoDrain}, c \in Events \cup {BootNotification}
      PROVE  Call(d, c) \in Line /\ Call(d, c).event = c
  BY <1>b DEF Call, Line
\* The queue grows by the first call only, the line by the head of the queue only.
<1>1. ASSUME queue' \in Seq(Events),
             \A i \in DOMAIN queue' : queue'[i] = e => InQueue(e) \/ InCall(e),
             NEW k \in {0, 1}, NEW M \in SUBSET Line, Shift(k, M),
             \A m \in M : m.event = BootNotification \/ (queue' # <<>> /\ m.event = Head(queue'))
      PROVE  InQueue(e) \/ InCall(e)
  <2>1. CASE InQueue(e)'
    BY <1>1, <2>1 DEF InQueue
  <2>2. CASE InCall(e)'
    <3>1. PICK i \in DOMAIN calls' : calls'[i].event = e
      BY <2>2 DEF InCall
    <3>2. CASE i + k \in DOMAIN calls /\ calls'[i] = calls[i + k]
      BY <3>1, <3>2 DEF InCall
    <3>3. CASE calls'[i] \in M
      <4>1. queue' # <<>> /\ e = Head(queue')
        BY <1>a, <1>1, <3>1, <3>3 DEF BootNotification
      <4>2. Head(queue') = queue'[1] /\ 1 \in DOMAIN queue'
        BY <1>1, <4>1, TailAt
      <4> QED BY <1>1, <4>1, <4>2
    <3> QED BY <1>1, <3>2, <3>3 DEF Shift
  <2> QED BY <2>1, <2>2
<1>c. 0 \in {0, 1} /\ 1 \in {0, 1} /\ {} \in SUBSET Line
  OBVIOUS
<1>d. queue' = queue => /\ queue' \in Seq(Events)
                        /\ \A i \in DOMAIN queue' : queue'[i] = e => InQueue(e) \/ InCall(e)
  BY <1>a DEF InQueue
<1>2. CASE Send \/ Handle \/ Restore \/ Drop \/ UNCHANGED station
  <2>1. UNCHANGED <<queue, calls>>
    BY <1>2 DEF Send, Handle, Restore, Drop, station
  <2> QED BY <2>1 DEF InQueue, InCall
<1>3. CASE Stop
  <2>1. UNCHANGED queue /\ calls' = <<>> /\ DOMAIN <<>> = {}
    BY <1>3 DEF Stop
  <2> QED BY <2>1 DEF InQueue, InCall
<1>4. ASSUME NEW d \in Drains, Boot(d) PROVE InQueue(e) \/ InCall(e)
  <2> DEFINE m == Call(d, BootNotification)
  <2>1. calls' = Append(calls, m) /\ queue' = queue
    BY <1>4 DEF Boot
  <2>2. m \in Line /\ m.event = BootNotification
    BY <1>b
  <2> HIDE DEF m
  <2>3. Shift(0, {m}) /\ {m} \in SUBSET Line
    BY <1>a, <2>1, <2>2, Shifts
  <2> QED BY <1>1, <1>c, <1>d, <2>1, <2>2, <2>3
<1>5. ASSUME calls # <<>>, queue' \in Seq(Events),
             \A i \in DOMAIN queue' : queue'[i] = e => InQueue(e) \/ InCall(e),
             \/ calls' = Tail(calls)
             \/ /\ calls[1].by \in Drains /\ queue' # <<>>
                /\ calls' = Append(Tail(calls), Call(calls[1].by, Head(queue')))
      PROVE  InQueue(e) \/ InCall(e)
  <2>1. CASE calls' = Tail(calls)
    <3>1. Shift(1, {})
      BY <1>a, <1>5, <2>1, Shifts
    <3> QED BY <1>1, <1>5, <1>c, <3>1
  <2>2. CASE /\ calls[1].by \in Drains /\ queue' # <<>>
             /\ calls' = Append(Tail(calls), Call(calls[1].by, Head(queue')))
    <3> DEFINE h == Head(queue')
               m == Call(calls[1].by, h)
    <3>1. h \in Events
      BY <1>5, <2>2, TailAt
    <3>2. m \in Line /\ m.event = h /\ calls' = Append(Tail(calls), m)
      BY <1>b, <2>2, <3>1
    <3> HIDE DEF m
    <3>3. Shift(1, {m}) /\ {m} \in SUBSET Line
      BY <1>a, <1>5, <3>2, Shifts
    <3> QED BY <1>1, <1>5, <1>c, <2>2, <3>2, <3>3
  <2> QED BY <1>5, <2>1, <2>2
<1>6. CASE Return
  <2>1. /\ calls # <<>>
        /\ queue' = queue \/ (queue # <<>> /\ queue' = Tail(queue))
        /\ \/ calls' = Tail(calls)
           \/ /\ calls[1].by \in Drains /\ queue' # <<>>
              /\ calls' = Append(Tail(calls), Call(calls[1].by, Head(queue')))
    BY <1>6, ReturnCases
  <2>2. CASE queue # <<>> /\ queue' = Tail(queue)
    <3> DEFINE L == Len(queue)
    <3>1. /\ queue' \in Seq(Events) /\ L \in Nat \ {0} /\ DOMAIN queue = 1 .. L
          /\ DOMAIN queue' = 1 .. L - 1 /\ \A i \in 1 .. L - 1 : queue'[i] = queue[i + 1]
      BY <1>a, <2>2, TailAt
    <3> HIDE DEF L
    <3>2. \A i \in 1 .. L - 1 : i + 1 \in DOMAIN queue
      BY <3>1
    <3>3. \A i \in DOMAIN queue' : queue'[i] = e => InQueue(e)
      BY <3>1, <3>2 DEF InQueue
    <3> QED BY <1>5, <2>1, <3>1, <3>3
  <2> QED BY <1>5, <1>d, <2>1, <2>2
<1>7. CASE SendFails \/ Timeout
  <2>1. calls # <<>> /\ Fail
    BY <1>7 DEF SendFails, Timeout, StationInv, StationTypeOK
  <2>2. /\ 1 \in DOMAIN calls
        /\ queue' = queue \/ (calls[1].event \in Events /\ queue' = Append(queue, calls[1].event))
        /\ \/ calls' = Tail(calls)
           \/ /\ calls[1].by \in Drains /\ queue' # <<>>
              /\ calls' = Append(Tail(calls), Call(calls[1].by, Head(queue')))
    BY <2>1, FailCases
  <2>3. CASE calls[1].event \in Events /\ queue' = Append(queue, calls[1].event)
    <3> DEFINE L == Len(queue)
    <3>1. /\ queue' \in Seq(Events) /\ L \in Nat /\ DOMAIN queue = 1 .. L
          /\ DOMAIN queue' = 1 .. L + 1 /\ queue'[L + 1] = calls[1].event
          /\ \A i \in 1 .. L : queue'[i] = queue[i]
      BY <1>a, <2>3, AppendAt
    <3> HIDE DEF L
    <3>2. \A i \in DOMAIN queue' : queue'[i] = e => InQueue(e) \/ InCall(e)
      BY <2>2, <3>1 DEF InQueue, InCall
    <3> QED BY <1>5, <2>1, <2>2, <3>1, <3>2
  <2> QED BY <1>5, <1>d, <2>1, <2>2, <2>3
<1> QED BY <1>2, <1>3, <1>4, <1>6, <1>7 DEF Next, CallStep

\* The CSMS forgets no event; after the last one none occurs.
LEMMA ReceivedGrows ==
    ASSUME StationInv, [Next]_station
    PROVE  received \subseteq received' /\ (LastEvent \in received => ~Occur)
<1>1. received \subseteq received'
  BY DEF Next, CallStep, Occur, Send, Return, SendFails, Timeout, Handle, Boot, Restore, Drop, Stop,
         station
<1>2. ASSUME LastEvent \in received, Occur PROVE FALSE
  <2>1. LastEvent <= occurred /\ occurred < LastEvent /\ occurred \in Nat /\ LastEvent \in Nat
    BY <1>2, StationBounds DEF StationInv, StationTypeOK, HasOccurred, Occur
  <2> QED BY <2>1
<1> QED BY <1>1, <1>2

\* Once it holds nothing that is missing after the last event, it never will.
LEMMA NoneHeldStays ==
    ASSUME StationInv, [Next]_station, NoneHeld, LastEvent \in received
    PROVE  NoneHeld'
<1> SUFFICES ASSUME NEW e \in Events, e \notin received', InQueue(e)' \/ InCall(e)' PROVE FALSE
  BY DEF NoneHeld
<1> QED BY ReceivedGrows, HeldBefore DEF NoneHeld

\* The answer that nothing is held.
LEMMA EmptyMeansNoneHeld ==
    ASSUME StationInv, DrainsHead, LastEvent \in received, queue = <<>>
    PROVE  NoneHeld
<1> SUFFICES ASSUME NEW e \in Events, e \notin received, InQueue(e) \/ InCall(e) PROVE FALSE
  BY DEF NoneHeld
<1>1. ~InQueue(e)
  BY DEF InQueue
<1>2. PICK i \in DOMAIN calls : calls[i].event = e
  BY <1>1 DEF InCall
<1>3. calls[i] \in Line /\ 0 \notin Events
  <2>1. calls \in Seq(Line) /\ 0 \notin Events
    BY StationBounds DEF StationInv, StationTypeOK, Line, Events
  <2> QED BY <1>2, <2>1
<1>4. CASE calls[i].by = NoDrain
  BY <1>2, <1>4 DEF StationInv, LastReceived
<1>5. CASE calls[i].by \in Drains
  BY <1>2, <1>3, <1>5 DEF DrainsHead, BootNotification
<1> QED BY <1>3, <1>4, <1>5 DEF Line

AlarmInv == AsksAfterLast /\ VerifiesUnheld

\* Where the tasks go on without the others, the invariant follows from task i.
LEMMA TaskAlarm ==
    ASSUME StationInv, CsmsTypeOK, AlarmInv, [CNext]_vars, NEW i \in Tasks, NEW n,
           after'[i] = n, \A j \in Tasks : j # i => after'[j] = after[j],
           outOfOrder' => LastEvent \in received',
           n \in {"ended", "asking", "holds", "empty", "verifying"} => LastEvent \in received',
           n \in {"empty", "verifying"} => NoneHeld'
    PROVE  AlarmInv'
<1>1. received \subseteq received'
  BY StationMoves, ReceivedGrows
<1>2. AsksAfterLast'
  BY <1>1 DEF AlarmInv, AsksAfterLast
<1>3. ASSUME NEW j \in Tasks, after'[j] \in {"empty", "verifying"} PROVE NoneHeld'
  <2>1. CASE j # i
    <3>1. NoneHeld /\ LastEvent \in received
      BY <1>3, <2>1 DEF AlarmInv, VerifiesUnheld, AsksAfterLast
    <3> QED BY <3>1, StationMoves, NoneHeldStays
  <2> QED BY <1>3, <2>1
<1> QED BY <1>2, <1>3 DEF AlarmInv, VerifiesUnheld

LEMMA NextAlarm == StationInv /\ DrainsHead /\ CsmsTypeOK /\ AlarmInv /\ [CNext]_vars => AlarmInv'
<1> SUFFICES ASSUME StationInv, DrainsHead, CsmsTypeOK, AlarmInv, [CNext]_vars PROVE AlarmInv'
  OBVIOUS
<1>1. received \subseteq received' /\ (NoneHeld /\ LastEvent \in received => NoneHeld')
  BY StationMoves, ReceivedGrows, NoneHeldStays
<1>2. ASSUME \A j \in Tasks : after'[j] \in {"empty", "verifying"} => after[j] \in {"empty", "verifying"},
             \A j \in Tasks : after'[j] \in {"ended", "asking", "holds"} => after'[j] = after[j],
             outOfOrder' => outOfOrder
      PROVE  AlarmInv'
  BY <1>1, <1>2 DEF AlarmInv, AsksAfterLast, VerifiesUnheld
<1>3. CASE (StationStep /\ UNCHANGED csms) \/ SendEvent \/ UNCHANGED vars
  BY <1>2, <1>3 DEF csms, vars, SendEvent
<1>4. CASE DropObject \/ StopObject
  <2>1. /\ \A j \in Tasks : after'[j] = Ended(after[j])
        /\ outOfOrder' = FALSE
    BY <1>4, ObjectGone
  <2> QED BY <1>2, <2>1 DEF Ended
<1>5. CASE HandleEvent
  <2>1. UNCHANGED outOfOrder /\ Handle
    BY <1>5 DEF HandleEvent
  <2>2. CASE Head(calls).event = BootNotification
    BY <1>2, <1>5, <2>1, <2>2 DEF HandleEvent
  <2>3. CASE Head(calls).event # BootNotification
    <3> DEFINE n == IF Head(calls).event = LastEvent THEN "ended" ELSE "other"
    <3>1. tasks < MaxTasks /\ after' = [after EXCEPT ![tasks + 1] = n]
      BY <1>5, <2>3 DEF HandleEvent
    <3>2. tasks + 1 \in Tasks
      BY <3>1, TaskBounds DEF CsmsTypeOK, Tasks
    <3>3. PICK i \in Tasks : i = tasks + 1
      BY <3>2
    <3>4. after'[i] = n /\ \A j \in Tasks : j # i => after'[j] = after[j]
      BY <3>1, <3>3 DEF CsmsTypeOK
    <3>5. n = "ended" => LastEvent \in received'
      BY <2>1, <2>3 DEF Handle
    <3>6. outOfOrder' => LastEvent \in received'
      BY <1>1, <2>1 DEF AlarmInv, AsksAfterLast
    <3> QED BY <3>4, <3>5, <3>6, TaskAlarm
  <2> QED BY <2>2, <2>3
<1>6. ASSUME NEW i \in Tasks, TaskStep(i) PROVE AlarmInv'
  <2>1. PICK n \in AfterPC \ {"none"} :
              /\ after' = [after EXCEPT ![i] = n] /\ after[i] # "none"
              /\ UNCHANGED <<station, tasks, between>>
              /\ \/ /\ Begin(i) /\ n \in {"asking", "done"} /\ UNCHANGED <<outOfOrder, behind, verdicts>>
                 \/ /\ Answer(i) /\ n = (IF queue # <<>> THEN "holds" ELSE "empty")
                    /\ UNCHANGED <<outOfOrder, behind, verdicts>>
                 \/ /\ Note(i) /\ n = (IF after[i] = "holds" THEN "done" ELSE "verifying")
                    /\ UNCHANGED verdicts
                 \/ /\ Verify(i) /\ n = "done" /\ UNCHANGED <<outOfOrder, behind>>
    BY <1>6, TaskCases
  <2>2. after'[i] = n /\ \A j \in Tasks : j # i => after'[j] = after[j]
    BY <2>1, CsmsStep
  <2>3. UNCHANGED <<queue, calls, received>>
    BY <2>1 DEF station
  <2>4. outOfOrder' => LastEvent \in received
    BY <2>1 DEF AlarmInv, AsksAfterLast, Note
  <2>5. n \in {"ended", "asking", "holds", "empty", "verifying"} => LastEvent \in received
    <3>1. outOfOrder \/ after[i] \in {"ended", "asking", "holds", "empty", "verifying"}
              => LastEvent \in received
      BY DEF AlarmInv, AsksAfterLast
    <3>2. CASE Begin(i) /\ n \in {"asking", "done"}
      <4>1. n = "asking" => after[i] = "ended" \/ outOfOrder
        BY <2>2, <3>2 DEF Begin, CsmsTypeOK
      <4> QED BY <3>1, <3>2, <4>1
    <3>3. CASE Answer(i)
      BY <3>1, <3>3 DEF Answer
    <3>4. CASE Note(i)
      BY <3>1, <3>4 DEF Note
    <3>5. CASE n = "done"
      BY <3>5
    <3> QED BY <2>1, <3>2, <3>3, <3>4, <3>5
  <2>6. n \in {"empty", "verifying"} => NoneHeld
    <3>1. CASE Answer(i) /\ n = (IF queue # <<>> THEN "holds" ELSE "empty")
      BY <2>5, <3>1, EmptyMeansNoneHeld
    <3>2. CASE Note(i) /\ n = (IF after[i] = "holds" THEN "done" ELSE "verifying")
      BY <3>2 DEF Note, AlarmInv, VerifiesUnheld
    <3> QED BY <2>1, <3>1, <3>2
  <2>7. n \in {"empty", "verifying"} => NoneHeld'
    BY <1>1, <2>5, <2>6
  <2> QED BY <2>2, <2>3, <2>4, <2>5, <2>7, TaskAlarm
<1> QED BY <1>3, <1>4, <1>5, <1>6 DEF CNext

\* "Messages lost for transaction" (chargePointRepr.py:783) is never concluded while the
\* missing events are with the station: in its queue, or in a call.
THEOREM NoAlarmIsFalse == ASSUME AtMostOneDrain PROVE CSpec => NoFalseAlarm
<1>1. CSpec => [](StationInv /\ DrainsHead)
  BY RunCallsHead, CompletenessImplementsQueue, PTL
<1>2. CInit => AlarmInv
  BY DEF CInit, Init, AlarmInv, AsksAfterLast, VerifiesUnheld
<1>3. StationInv /\ DrainsHead /\ CsmsTypeOK /\ AlarmInv /\ [CNext]_vars => AlarmInv'
  BY NextAlarm
<1>4. StationInv /\ CsmsTypeOK /\ AlarmInv /\ [CNext]_vars =>
          [\A i \in Tasks :
              /\ after[i] = "verifying" /\ after'[i] = "done"
              /\ "lost" \in verdicts' \ verdicts
              => \E e \in Events \ received : ~InQueue(e) /\ ~InCall(e) /\ e <= occurred]_vars
  <2> SUFFICES ASSUME StationInv, CsmsTypeOK, AlarmInv, CNext, NEW i \in Tasks,
                      after[i] = "verifying", "lost" \in verdicts' \ verdicts
               PROVE  \E e \in Events \ received : ~InQueue(e) /\ ~InCall(e) /\ e <= occurred
    BY DEF vars
  <2>1. \E j \in Tasks : Verify(j)
    BY ObjectGone DEF CNext, csms, SendEvent, HandleEvent, TaskStep, Begin, Answer, Note
  <2>2. received # Events
    BY <2>1 DEF Verify
  <2>3. PICK e \in Events : e \notin received
    BY <2>2 DEF StationInv, StationTypeOK
  <2>4. LastEvent \in received /\ NoneHeld
    BY DEF AlarmInv, AsksAfterLast, VerifiesUnheld
  <2>5. e <= LastEvent /\ LastEvent <= occurred /\ occurred <= LastEvent
    BY <2>4, StationBounds DEF Events, StationInv, HasOccurred, StationTypeOK
  <2>6. e <= occurred
    BY <2>5, StationBounds DEF Events, StationInv, StationTypeOK
  <2> QED BY <2>3, <2>4, <2>6 DEF NoneHeld
<1> QED BY <1>1, <1>2, <1>3, <1>4, CsmsInvariant, PTL DEF CSpec, NoFalseAlarm

-------------------------------------------------------------------------------
(* The CSMS expects only what the station holds.                               *)

\* While an answer is on its way no event is between its sending and the end of its call,
\* but one sent after the answer.
OneAnswer == \A i, j \in Tasks : after[i] \in {"holds", "empty"} /\ after[j] \in {"holds", "empty"} => i = j
AnswersBetween ==
    between /\ Answering /\ wire # "idle" =>
        Head(calls).event = BootNotification \/ (wire = "sent" /\ behind)

\* So what the answer says of the queue is still true when it arrives, ...
HoldsIsTrue == \A i \in Tasks : between /\ after[i] = "holds" => queue # <<>>

\* ... and when the last message leaves the queue, a task that asks again has started.
StillToAsk == {"ended", "other", "asking"}
ExpectsOrAsks ==
    between /\ outOfOrder => queue # <<>> \/ \E i \in Tasks : after[i] \in StillToAsk \cup {"empty"}
HandledAsks ==
    between /\ outOfOrder /\ wire = "answered" /\ Head(calls).event # BootNotification =>
        \E i \in Tasks : after[i] \in StillToAsk

ExpectsInv == OneAnswer /\ AnswersBetween /\ HoldsIsTrue /\ ExpectsOrAsks /\ HandledAsks

\* A step of the station ends the call in progress or leaves its event at the head; a
\* message leaves the queue only with the answer to an event.
LEMMA CallInProgress ==
    ASSUME StationInv, StationStep
    PROVE  \/ wire' = "idle" /\ (queue # <<>> => queue' # <<>>)
           \/ wire' = wire /\ (wire # "idle" => Head(calls') = Head(calls))
                           /\ (queue # <<>> => queue' # <<>>)
           \/ wire' = "idle" /\ wire = "answered" /\ Head(calls).event # BootNotification
<1>a. calls \in Seq(Line) /\ queue \in Seq(Events) /\ occurred \in 0 .. LastEvent /\ LastEvent \in Nat
  BY StationBounds DEF StationInv, StationTypeOK, Line
<1>b. wire # "idle" => calls # <<>>
  BY DEF StationInv, StationTypeOK
<1>c. ASSUME NEW d, NEW e, d \in Drains \cup {NoDrain}, e \in Events \cup {BootNotification}
      PROVE  Call(d, e) \in Line
  BY <1>c DEF Call, Line
<1>d. ASSUME NEW m \in Line, calls' = Append(calls, m)
      PROVE  wire # "idle" => Head(calls') = Head(calls)
  BY <1>a, <1>b, <1>d, AppendAt
<1>e. ASSUME NEW e \in Events, queue' = Append(queue, e) PROVE queue' # <<>>
  BY <1>a, <1>e, AppendAt
<1>1. CASE Occur
  <2>1. wire' = wire /\ occurred + 1 \in Events
    BY <1>a, <1>1 DEF Occur, Events
  <2>2. CASE up /\ booted
    <3>1. calls' = Append(calls, Call(NoDrain, occurred + 1)) /\ queue' = queue
      BY <1>1, <2>2 DEF Occur
    <3>2. Call(NoDrain, occurred + 1) \in Line
      BY <1>c, <2>1
    <3> QED BY <1>d, <2>1, <3>1, <3>2
  <2>3. CASE ~(up /\ booted)
    <3>1. queue' = Append(queue, occurred + 1) /\ calls' = calls
      BY <1>1, <2>3 DEF Occur
    <3> QED BY <1>e, <2>1, <3>1
  <2> QED BY <2>2, <2>3
<1>2. ASSUME NEW d \in Drains, Boot(d)
      PROVE  wire' = wire /\ (wire # "idle" => Head(calls') = Head(calls)) /\ queue' = queue
  <2>1. calls' = Append(calls, Call(d, BootNotification)) /\ wire' = wire /\ queue' = queue
    BY <1>2 DEF Boot
  <2>2. Call(d, BootNotification) \in Line
    BY <1>c
  <2> QED BY <1>d, <2>1, <2>2
<1>3. CASE Return
  BY <1>3, ReturnCases
<1>4. CASE SendFails \/ Timeout
  <2>1. calls # <<>> /\ Fail /\ wire' = "idle"
    BY <1>b, <1>4 DEF SendFails, Timeout
  <2>2. queue' = queue \/ (calls[1].event \in Events /\ queue' = Append(queue, calls[1].event))
    BY <2>1, FailCases
  <2>3. queue # <<>> => queue' # <<>>
    BY <1>e, <2>2
  <2> QED BY <2>1, <2>3
<1>5. CASE Restore
  BY <1>5 DEF Restore
<1> QED BY <1>1, <1>2, <1>3, <1>4, <1>5 DEF StationStep

LEMMA StationExpects ==
    ASSUME StationInv, ExpectsInv, StationStep, UNCHANGED csms
    PROVE  ExpectsInv'
<1>1. UNCHANGED <<tasks, after, outOfOrder, behind, between>> /\ (Answering' <=> Answering)
  BY DEF csms, Answering
<1>2. OneAnswer'
  BY <1>1 DEF ExpectsInv, OneAnswer
<1>3. CASE /\ queue # <<>> => queue' # <<>>
           /\ \/ wire' = "idle"
              \/ wire' = wire /\ (wire # "idle" => Head(calls') = Head(calls))
  <2>1. AnswersBetween'
    BY <1>1, <1>3 DEF ExpectsInv, AnswersBetween
  <2>2. HoldsIsTrue' /\ ExpectsOrAsks'
    BY <1>1, <1>3 DEF ExpectsInv, HoldsIsTrue, ExpectsOrAsks
  <2>3. HandledAsks'
    BY <1>1, <1>3 DEF ExpectsInv, HandledAsks
  <2> QED BY <1>2, <2>1, <2>2, <2>3 DEF ExpectsInv
<1>4. CASE wire' = "idle" /\ wire = "answered" /\ Head(calls).event # BootNotification
  <2>1. between => ~Answering
    BY <1>4 DEF ExpectsInv, AnswersBetween
  <2>2. HoldsIsTrue'
    BY <1>1, <2>1 DEF HoldsIsTrue, Answering
  <2>3. ExpectsOrAsks'
    BY <1>1, <1>4 DEF ExpectsInv, HandledAsks, ExpectsOrAsks
  <2> QED BY <1>2, <1>4, <2>2, <2>3 DEF ExpectsInv, AnswersBetween, HandledAsks
<1> QED BY <1>3, <1>4, CallInProgress

\* The last message of the queue was handled before its answer, and a task started.
LEMMA HandleExpects ==
    ASSUME StationInv, CsmsTypeOK, ExpectsInv, HandleEvent
    PROVE  ExpectsInv'
<1>1. /\ wire = "sent" /\ ~behind /\ wire' = "answered"
      /\ UNCHANGED <<queue, calls, outOfOrder, behind, between>>
  BY DEF HandleEvent, Handle
<1>2. CASE Head(calls).event = BootNotification
  <2>1. UNCHANGED after /\ Head(calls').event = BootNotification
    BY <1>1, <1>2 DEF HandleEvent
  <2> QED BY <1>1, <2>1 DEF ExpectsInv, OneAnswer, AnswersBetween, HoldsIsTrue, ExpectsOrAsks,
                            HandledAsks
<1>3. CASE Head(calls).event # BootNotification
  <2> DEFINE n == IF Head(calls).event = LastEvent THEN "ended" ELSE "other"
  <2>1. tasks < MaxTasks /\ after' = [after EXCEPT ![tasks + 1] = n]
    BY <1>3 DEF HandleEvent
  <2>2. tasks + 1 \in Tasks
    BY <2>1, TaskBounds DEF CsmsTypeOK, Tasks
  <2>3. PICK i \in Tasks : i = tasks + 1
    BY <2>2
  <2>4. after'[i] = n /\ n \in StillToAsk /\ n \notin {"holds", "empty"}
        /\ \A j \in Tasks : j # i => after'[j] = after[j]
    BY <2>1, <2>3 DEF CsmsTypeOK, StillToAsk
  <2> HIDE DEF n
  <2>5. \A j \in Tasks : after'[j] \in {"holds", "empty"} => after'[j] = after[j]
    BY <2>4
  <2>6. between => ~Answering
    BY <1>1, <1>3 DEF ExpectsInv, AnswersBetween
  <2>7. between => ~Answering'
    BY <2>5, <2>6 DEF Answering
  <2>8. OneAnswer'
    BY <2>5 DEF ExpectsInv, OneAnswer
  <2>9. AnswersBetween' /\ HoldsIsTrue'
    BY <1>1, <2>7 DEF AnswersBetween, HoldsIsTrue, Answering
  <2>10. ExpectsOrAsks' /\ HandledAsks'
    BY <2>4 DEF ExpectsOrAsks, HandledAsks
  <2> QED BY <2>8, <2>9, <2>10 DEF ExpectsInv
<1> QED BY <1>2, <1>3

\* A task asks, is answered, notes the answer and goes on.
LEMMA TaskExpects ==
    ASSUME StationInv, CsmsTypeOK, ExpectsInv, NEW i \in Tasks, TaskStep(i)
    PROVE  ExpectsInv'
<1>1. PICK n \in AfterPC \ {"none"} :
              /\ after' = [after EXCEPT ![i] = n] /\ after[i] # "none"
              /\ UNCHANGED <<station, tasks, between>>
              /\ \/ /\ Begin(i) /\ n \in {"asking", "done"} /\ UNCHANGED <<outOfOrder, behind, verdicts>>
                 \/ /\ Answer(i) /\ n = (IF queue # <<>> THEN "holds" ELSE "empty")
                    /\ UNCHANGED <<outOfOrder, behind, verdicts>>
                 \/ /\ Note(i) /\ n = (IF after[i] = "holds" THEN "done" ELSE "verifying")
                    /\ UNCHANGED verdicts
                 \/ /\ Verify(i) /\ n = "done" /\ UNCHANGED <<outOfOrder, behind>>
  BY TaskCases
<1>2. after'[i] = n /\ \A j \in Tasks : j # i => after'[j] = after[j]
  BY <1>1, CsmsStep
<1>3. UNCHANGED <<queue, calls, wire, between>>
  BY <1>1 DEF station
<1>4. CASE /\ n \notin {"holds", "empty"} /\ UNCHANGED <<outOfOrder, behind>>
           /\ after[i] \in StillToAsk \cup {"empty"} /\ outOfOrder => n \in StillToAsk
  <2>1. \A j \in Tasks : after'[j] \in {"holds", "empty"} => after'[j] = after[j]
    BY <1>2, <1>4
  <2>2. Answering' => Answering
    BY <2>1 DEF Answering
  <2>3. OneAnswer' /\ HoldsIsTrue'
    BY <1>3, <2>1 DEF ExpectsInv, OneAnswer, HoldsIsTrue
  <2>4. AnswersBetween'
    BY <1>3, <1>4, <2>2 DEF ExpectsInv, AnswersBetween
  <2>5. \A j \in Tasks : outOfOrder /\ after[j] \in StillToAsk \cup {"empty"} =>
                            after'[j] \in StillToAsk \/ after'[j] = after[j]
    BY <1>2, <1>4
  <2>6. ExpectsOrAsks'
    BY <1>3, <1>4, <2>5 DEF ExpectsInv, ExpectsOrAsks
  <2>7. \A j \in Tasks : outOfOrder /\ after[j] \in StillToAsk => after'[j] \in StillToAsk
    BY <2>5
  <2>8. HandledAsks'
    BY <1>3, <1>4, <2>7 DEF ExpectsInv, HandledAsks
  <2> QED BY <2>3, <2>4, <2>6, <2>8 DEF ExpectsInv
<1>5. CASE Begin(i) /\ n \in {"asking", "done"} /\ UNCHANGED <<outOfOrder, behind, verdicts>>
  <2>1. after[i] \in {"ended", "other"} /\ (outOfOrder => n = "asking")
    BY <1>2, <1>5 DEF Begin, CsmsTypeOK
  <2> QED BY <1>4, <1>5, <2>1 DEF StillToAsk
<1>6. CASE Verify(i) /\ n = "done" /\ UNCHANGED <<outOfOrder, behind>>
  <2>1. after[i] = "verifying"
    BY <1>6 DEF Verify
  <2> QED BY <1>4, <1>6, <2>1 DEF StillToAsk
<1>7. CASE Answer(i) /\ n = (IF queue # <<>> THEN "holds" ELSE "empty")
           /\ UNCHANGED <<outOfOrder, behind, verdicts>>
  <2>1. after[i] = "asking" /\ ~Answering
        /\ (between /\ wire # "idle" => Head(calls).event = BootNotification)
    BY <1>7 DEF Answer
  <2>2. \A j \in Tasks : after'[j] \in {"holds", "empty"} => j = i
    BY <1>2, <2>1 DEF Answering
  <2>3. OneAnswer'
    BY <2>2 DEF OneAnswer
  <2>4. AnswersBetween' /\ HandledAsks'
    BY <1>3, <2>1 DEF AnswersBetween, HandledAsks
  <2>5. HoldsIsTrue'
    <3> SUFFICES ASSUME NEW j \in Tasks, after'[j] = "holds" PROVE queue' # <<>>
      BY DEF HoldsIsTrue
    <3>1. j = i
      BY <2>2
    <3> QED BY <1>2, <1>3, <1>7, <3>1
  <2>6. ExpectsOrAsks'
    <3>1. queue' # <<>> \/ after'[i] = "empty"
      BY <1>2, <1>3, <1>7
    <3> QED BY <3>1 DEF ExpectsOrAsks
  <2> QED BY <2>3, <2>4, <2>5, <2>6 DEF ExpectsInv
<1>8. CASE Note(i) /\ n = (IF after[i] = "holds" THEN "done" ELSE "verifying")
  <2>1. /\ after[i] \in {"holds", "empty"} /\ (wire = "sent" => behind)
        /\ outOfOrder' = (after[i] = "holds")
    BY <1>8 DEF Note
  <2>2. n \notin {"holds", "empty"}
    BY <1>8
  <2>3. \A j \in Tasks : after'[j] \notin {"holds", "empty"}
    BY <1>2, <2>1, <2>2 DEF ExpectsInv, OneAnswer
  <2>4. OneAnswer' /\ HoldsIsTrue' /\ AnswersBetween'
    BY <2>3 DEF OneAnswer, HoldsIsTrue, AnswersBetween, Answering
  <2>5. ExpectsOrAsks'
    BY <1>3, <2>1 DEF ExpectsInv, HoldsIsTrue, ExpectsOrAsks
  <2>6. Answering
    BY <2>1 DEF Answering
  <2>7. HandledAsks'
    BY <1>3, <2>6 DEF ExpectsInv, AnswersBetween, HandledAsks
  <2> QED BY <2>4, <2>5, <2>7 DEF ExpectsInv
<1> QED BY <1>1, <1>5, <1>6, <1>7, <1>8

LEMMA NextExpects == StationInv /\ CsmsTypeOK /\ ExpectsInv /\ [CNext]_vars => ExpectsInv'
<1> SUFFICES ASSUME StationInv, CsmsTypeOK, ExpectsInv, [CNext]_vars PROVE ExpectsInv'
  OBVIOUS
<1>1. CASE StationStep /\ UNCHANGED csms
  BY <1>1, StationExpects
<1>2. CASE SendEvent
  <2>1. /\ wire = "idle" /\ wire' = "sent" /\ behind' = Answering
        /\ UNCHANGED <<queue, calls, after, outOfOrder, between>>
    BY <1>2 DEF SendEvent, Send
  <2>2. Answering' <=> Answering
    BY <2>1 DEF Answering
  <2> QED BY <2>1, <2>2 DEF ExpectsInv, OneAnswer, AnswersBetween, HoldsIsTrue, ExpectsOrAsks,
                            HandledAsks
<1>3. CASE HandleEvent
  BY <1>3, HandleExpects
<1>4. CASE DropObject \/ StopObject
  <2>1. (\A i \in Tasks : after'[i] = Ended(after[i])) /\ outOfOrder' = FALSE
    BY <1>4, ObjectGone
  <2>2. \A i \in Tasks : after'[i] \notin {"holds", "empty"}
    BY <2>1 DEF Ended
  <2> QED BY <2>1, <2>2 DEF ExpectsInv, OneAnswer, AnswersBetween, HoldsIsTrue, ExpectsOrAsks,
                            HandledAsks, Answering
<1>5. ASSUME NEW i \in Tasks, TaskStep(i) PROVE ExpectsInv'
  BY <1>5, TaskExpects
<1>6. CASE UNCHANGED vars
  <2>1. UNCHANGED <<queue, calls, wire, after, outOfOrder, behind, between>>
    BY <1>6 DEF vars, station, csms
  <2> QED BY <2>1 DEF ExpectsInv, OneAnswer, AnswersBetween, HoldsIsTrue, ExpectsOrAsks,
                      HandledAsks, Answering
<1> QED BY <1>1, <1>2, <1>3, <1>4, <1>5, <1>6 DEF CNext

\* The CSMS expects further messages of the transaction (chargePointRepr.py:767-773) only as
\* long as the station holds some, or has not been told of the answer to the last; for any
\* number of drains.
THEOREM ExpectsWhatIsHeld == CSpec => []ExpectsOnlyHeld
<1>1. CInit => ExpectsInv
  BY DEF CInit, Init, ExpectsInv, OneAnswer, AnswersBetween, HoldsIsTrue, ExpectsOrAsks,
         HandledAsks, Answering
<1>2. ExpectsInv => ExpectsOnlyHeld
  BY DEF ExpectsInv, ExpectsOrAsks, StillToAsk, ExpectsOnlyHeld
<1> QED BY <1>1, <1>2, NextExpects, CsmsInvariant, PTL DEF CSpec
===============================================================================
