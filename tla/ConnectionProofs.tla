---------------------------- MODULE ConnectionProofs ----------------------------
(***************************************************************************)
(* The connections of the OCPP server, for any number of sockets, ids,      *)
(* sessions, beats and crashes: the map of connections holds what is served *)
(* and locks no station out (ConnectionRegistry), the database row agrees   *)
(* with the server when nothing is on its way, and a timer takes a station  *)
(* offline only by silence (OnlineTracker).                                 *)
(***************************************************************************)
EXTENDS ConnectionRegistry, OnlineTracker, TLAPS

(***************************************************************************)
(* The map of connections.                                                  *)
(***************************************************************************)

-------------------------------------------------------------------------------
(* Types.                                                                     *)

\* The initial state is well typed.
LEMMA InitRegistry == RegistryInit => RegistryTypeOK
  BY DEF RegistryInit, RegistryTypeOK, PC

\* Every step keeps the types; only Register and Unregister touch the map.
LEMMA NextRegistry == RegistryTypeOK /\ [RegistryNext]_registry => RegistryTypeOK'
<1> SUFFICES ASSUME RegistryTypeOK, [RegistryNext]_registry PROVE RegistryTypeOK'
  OBVIOUS
<1> USE DEF RegistryTypeOK, PC
<1>1. ASSUME NEW s \in Sockets, Arrive(s) \/ Drop(s) \/ HandlerError(s) PROVE RegistryTypeOK'
  BY <1>1 DEF Arrive, Drop, HandlerError
<1>2. ASSUME NEW s \in Sockets, CoroutineStep(s) PROVE RegistryTypeOK'
  <2>1. CASE SelectAnswered(s) \/ SelectFails(s) \/ ConnectionLost(s) \/ CloseRefused(s)
    BY <2>1 DEF SelectAnswered, SelectFails, ConnectionLost, CloseRefused
  <2>2. CASE Register(s)
    BY <2>2, IdOfAssumption, NoSocketAssumption DEF Register
  <2>3. CASE Unregister(s)
    BY <2>3, IdOfAssumption, NoSocketAssumption DEF Unregister
  <2> QED BY <1>2, <2>1, <2>2, <2>3 DEF CoroutineStep
<1>3. CASE UNCHANGED registry
  BY <1>3 DEF registry
<1> QED BY <1>1, <1>2, <1>3 DEF RegistryNext

\* The map and the coroutines stay in their domains, and every connection in the
\* map is under its own id.
THEOREM RegistryTypeCorrect == RegistrySpec => []RegistryTypeOK
  BY InitRegistry, NextRegistry, PTL DEF RegistrySpec

-------------------------------------------------------------------------------
(* No dead connection in the map, when only websocket errors end a connection. *)

\* The step: a connection leaves the states "serving" and "leaving" only by Unregister,
\* which empties the entry of its id, or by an error of an id in ErrorIds.
LEMMA RegisteredStep == RegistryTypeOK /\ RegisteredIsServed /\ [RegistryNext]_registry => RegisteredIsServed'
<1> SUFFICES ASSUME RegistryTypeOK, RegisteredIsServed, [RegistryNext]_registry PROVE RegisteredIsServed'
  OBVIOUS
<1> USE DEF RegistryTypeOK, PC, RegisteredIsServed
<1>1. ASSUME NEW s \in Sockets, Arrive(s) \/ Drop(s) PROVE RegisteredIsServed'
  BY <1>1 DEF Arrive, Drop
<1>2. ASSUME NEW s \in Sockets, CoroutineStep(s) PROVE RegisteredIsServed'
  <2>1. CASE SelectAnswered(s) \/ SelectFails(s) \/ ConnectionLost(s) \/ CloseRefused(s)
    BY <2>1 DEF SelectAnswered, SelectFails, ConnectionLost, CloseRefused
  <2>2. CASE Register(s)
    BY <2>2, IdOfAssumption DEF Register
  <2>3. CASE Unregister(s)
    BY <2>3, IdOfAssumption DEF Unregister
  <2> QED BY <1>2, <2>1, <2>2, <2>3 DEF CoroutineStep
<1>3. CASE UNCHANGED registry
  BY <1>3 DEF registry
<1>4. ASSUME NEW s \in Sockets, HandlerError(s) PROVE RegisteredIsServed'
  BY <1>4, IdOfAssumption DEF HandlerError
<1> QED BY <1>1, <1>2, <1>3, <1>4 DEF RegistryNext

\* Whatever the order of connections, losses and refusals, an id whose handlers
\* raise only websocket errors is in the map only while the coroutine of its
\* connection runs.
THEOREM RegisteredServed == RegistrySpec => []RegisteredIsServed
<1>1. RegistryInit => RegisteredIsServed
  BY DEF RegistryInit, RegisteredIsServed
<1>2. RegistryTypeOK /\ RegisteredIsServed /\ [RegistryNext]_registry => RegisteredIsServed'
  BY RegisteredStep
<1> QED BY <1>1, <1>2, RegistryTypeCorrect, PTL DEF RegistrySpec

\* A station is refused only while a connection of its id is served or winding up,
\* overlapping connections included.
THEOREM NeverLockedOut == RegistrySpec => RefusedOnlyWhileServed
<1>1. RegistryTypeOK /\ RegisteredIsServed /\ [RegistryNext]_registry =>
          [\A s \in Sockets : IdOf[s] \notin ErrorIds /\ pc[s] = "away" /\ pc'[s] = "refused" =>
              \E t \in Sockets : IdOf[t] = IdOf[s] /\ pc[t] \in {"serving", "leaving"}]_registry
  <2> SUFFICES ASSUME RegistryTypeOK, RegisteredIsServed, RegistryNext, NEW s \in Sockets,
                      IdOf[s] \notin ErrorIds, pc[s] = "away", pc'[s] = "refused"
               PROVE  \E t \in Sockets : IdOf[t] = IdOf[s] /\ pc[t] \in {"serving", "leaving"}
    BY DEF registry
  <2>1. Arrive(s)
    BY DEF RegistryTypeOK, RegistryNext, Arrive, CoroutineStep, SelectAnswered, SelectFails, Register,
           ConnectionLost, Unregister, CloseRefused, Drop, HandlerError
  <2>2. connected[IdOf[s]] # NoSocket
    BY <2>1 DEF RegistryTypeOK, Arrive
  <2>3. IdOf[s] \in Ids /\ connected[IdOf[s]] \in Sockets
    BY <2>2, IdOfAssumption DEF RegistryTypeOK
  <2> QED BY <2>2, <2>3 DEF RegistryTypeOK, RegisteredIsServed
<1> QED BY <1>1, RegistryTypeCorrect, RegisteredServed, PTL DEF RegistrySpec, RefusedOnlyWhileServed

-------------------------------------------------------------------------------
(* Every served connection is in the map, when those of one id do not overlap. *)

\* A connection being set up found the map without its id and is the only one of
\* its id being set up; one that is served, or leaving, is the one in the map.
Exclusive(s) == IdOf[s] \notin OverlappingIds
SetUpInv ==
    /\ \A s \in Sockets :
          Exclusive(s) /\ pc[s] \in {"serving", "leaving"} => connected[IdOf[s]] = s
    /\ \A s \in Sockets :
          Exclusive(s) /\ pc[s] \in {"checking", "verifying"} => connected[IdOf[s]] = NoSocket
    /\ \A s, t \in Sockets :
          /\ Exclusive(s) /\ IdOf[s] = IdOf[t]
          /\ pc[s] \in {"checking", "verifying"}
          /\ pc[t] \in {"checking", "verifying"}
          => s = t

\* SetUpInv is preserved, also by the errors that escape.
LEMMA SetUpStep == RegistryTypeOK /\ SetUpInv /\ [RegistryNext]_registry => SetUpInv'
<1> SUFFICES ASSUME RegistryTypeOK, SetUpInv, [RegistryNext]_registry PROVE SetUpInv'
  OBVIOUS
<1> USE DEF RegistryTypeOK, PC, SetUpInv, Exclusive
<1>1. ASSUME NEW s \in Sockets, Arrive(s) PROVE SetUpInv'
  BY <1>1 DEF Arrive, Undisturbed
<1>2. ASSUME NEW s \in Sockets, Drop(s) \/ HandlerError(s) PROVE SetUpInv'
  BY <1>2 DEF Drop, HandlerError
<1>3. ASSUME NEW s \in Sockets, CoroutineStep(s) PROVE SetUpInv'
  <2>1. CASE SelectAnswered(s) \/ SelectFails(s) \/ ConnectionLost(s) \/ CloseRefused(s)
    BY <2>1 DEF SelectAnswered, SelectFails, ConnectionLost, CloseRefused
  <2>2. CASE Register(s)
    <3>1. \A t \in Sockets : Exclusive(t) /\ t # s /\ IdOf[t] = IdOf[s] =>
              pc[t] \notin {"serving", "leaving", "checking", "verifying"}
      BY <2>2, NoSocketAssumption DEF Register
    <3>2. /\ pc' = [pc EXCEPT ![s] = "serving"]
          /\ connected' = [connected EXCEPT ![IdOf[s]] = s]
          /\ \A t \in Sockets : IdOf[t] \in Ids
      BY <2>2, IdOfAssumption DEF Register
    <3>3. ASSUME NEW t \in Sockets, Exclusive(t), pc'[t] \in {"serving", "leaving"}
          PROVE  connected'[IdOf[t]] = t
      BY <3>1, <3>2, <3>3
    <3>4. ASSUME NEW t \in Sockets, Exclusive(t), pc'[t] \in {"checking", "verifying"}
          PROVE  connected'[IdOf[t]] = NoSocket
      BY <3>1, <3>2, <3>4
    <3>5. \A t, u \in Sockets :
              /\ Exclusive(t) /\ IdOf[t] = IdOf[u]
              /\ pc'[t] \in {"checking", "verifying"}
              /\ pc'[u] \in {"checking", "verifying"}
              => t = u
      BY <3>2
    <3> QED BY <3>3, <3>4, <3>5
  <2>3. CASE Unregister(s)
    BY <2>3, IdOfAssumption, NoSocketAssumption DEF Unregister
  <2> QED BY <1>3, <2>1, <2>2, <2>3 DEF CoroutineStep
<1>4. CASE UNCHANGED registry
  BY <1>4 DEF registry
<1> QED BY <1>1, <1>2, <1>3, <1>4 DEF RegistryNext

\* One served connection per id whose connections do not overlap, and the API reaches
\* it.
THEOREM ServedRegistered == RegistrySpec => []ServedIsRegistered
<1>1. RegistryInit => SetUpInv
  BY DEF RegistryInit, SetUpInv
<1>2. RegistryTypeOK /\ SetUpInv /\ [RegistryNext]_registry => SetUpInv'
  BY SetUpStep
<1>3. SetUpInv => ServedIsRegistered
  BY DEF SetUpInv, ServedIsRegistered, ServedEntry, Exclusive
<1> QED BY <1>1, <1>2, <1>3, RegistryTypeCorrect, PTL DEF RegistrySpec

(***************************************************************************)
(* Whether a station is online.                                             *)
(***************************************************************************)

-------------------------------------------------------------------------------
(* Sequences: the last element under Append and Tail.                         *)

\* Append puts its element last.
LEMMA AppendLast ==
    ASSUME NEW q \in Seq(BOOLEAN), NEW x \in BOOLEAN
    PROVE  /\ Append(q, x) \in Seq(BOOLEAN)
           /\ Append(q, x) # <<>>
           /\ Append(q, x)[Len(Append(q, x))] = x
  OBVIOUS

\* Removing the head of a sequence keeps its last element, if any is left.
LEMMA TailLast ==
    ASSUME NEW q \in Seq(BOOLEAN), q # <<>>
    PROVE  /\ Head(q) \in BOOLEAN
           /\ Tail(q) \in Seq(BOOLEAN)
           /\ Tail(q) = <<>> => q[Len(q)] = Head(q)
           /\ Tail(q) # <<>> => Tail(q)[Len(Tail(q))] = q[Len(q)]
<1>1. Len(q) \in Nat /\ Len(q) > 0 /\ \A i \in 1 .. Len(q) : q[i] \in BOOLEAN
  OBVIOUS
<1>2. Head(q) = q[1] /\ Head(q) \in BOOLEAN
  BY <1>1
<1>3. Tail(q) \in Seq(BOOLEAN) /\ Len(Tail(q)) = Len(q) - 1
  BY <1>1
<1>4. Tail(q) = <<>> => q[Len(q)] = Head(q)
  BY <1>1, <1>2, <1>3
<1>5. Tail(q) # <<>> => Tail(q)[Len(Tail(q))] = q[Len(q)]
  BY <1>1, <1>3
<1> QED BY <1>2, <1>3, <1>4, <1>5

-------------------------------------------------------------------------------
(* The invariant.                                                             *)

\* What the database row will say once the queue is empty.
Reported == IF queue = <<>> THEN dbOnline ELSE queue[Len(queue)]

\* Somebody is about to report is_online.
Pending == link = "off1" \/ \E b \in Beats : alarm[b] = "off1"

\* Only the latest connection is online, and only its tasks can make it so or
\* report it.
CurrentOnly ==
    /\ link # "down" => session # 0
    /\ \A s \in Sessions : s # session => ~online[s]
    /\ session # 0 /\ link \in {"down", "off1", "off2"} => ~online[session]
    /\ \A b \in Beats :
          beat[b] \in {"ready", "sleeping"} => of[b] = session /\ link \in {"up", "lost"}
    /\ \A b \in Beats : alarm[b] = "off1" => of[b] = session
    /\ \A b \in Beats : beat[b] # "none" => of[b] # None
    /\ \A b \in Beats : alarm[b] # "none" => beat[b] # "none"
    /\ \A b \in Beats : beat[b] \in {"ready", "sleeping", "publishing"} => alarm[b] = "none"
    /\ \A b \in Beats : b > beats => beat[b] = "none"
    /\ \A s \in Sessions : timer[s] # None => beat[timer[s]] # "none"

\* The last report is right unless another is due.
ReportedRight ==
    ~Pending => /\ StationOnline => Reported
                /\ crashes = 0 => (Reported => StationOnline)

IInv == TypeOK /\ CurrentOnly /\ ReportedRight

-------------------------------------------------------------------------------
(* Types.                                                                     *)

\* The initial state is well typed.
LEMMA InitTypeOK == Init => TypeOK
<1> SUFFICES ASSUME Init PROVE TypeOK
  OBVIOUS
<1> USE BoundsAssumption DEF Init, None, Link, BeatPC, AlarmPC
<1>1. session \in 0 .. MaxSessions /\ link \in Link /\ beats \in 0 .. MaxBeats
  OBVIOUS
<1>2. /\ online \in [Sessions -> BOOLEAN]
      /\ timer \in [Sessions -> Beats \cup {None}]
      /\ \A s \in Sessions : timer[s] # None => of[timer[s]] = s
  OBVIOUS
<1>3. /\ of \in [Beats -> Sessions \cup {None}]
      /\ boot \subseteq Beats
      /\ beat \in [Beats -> BeatPC]
      /\ alarm \in [Beats -> AlarmPC]
  OBVIOUS
<1>4. queue \in Seq(BOOLEAN)
  <2>1. <<>> \in Seq(BOOLEAN)
    OBVIOUS
  <2> QED BY <2>1
<1>5. dbOnline \in BOOLEAN
  BY Zenon
<1>6. crashes \in 0 .. MaxCrashes
  OBVIOUS
<1> QED BY <1>1, <1>2, <1>3, <1>4, <1>5, <1>6 DEF TypeOK

\* The first beats have a connection: what the type of `of` rests on.
LEMMA NextTypeOK == TypeOK /\ CurrentOnly /\ [Next]_vars => TypeOK'
<1> SUFFICES ASSUME TypeOK, CurrentOnly, [Next]_vars PROVE TypeOK'
  OBVIOUS
<1> USE BoundsAssumption
    DEF TypeOK, Link, BeatPC, AlarmPC, object, received, db, InProgress, None
<1>1. CASE Connect \/ Lost
  BY <1>1 DEF Connect, Lost, Sessions
<1>2. CASE LeaveStep
  <2>1. CASE Leave
    BY <2>1 DEF Leave
  <2>2. CASE LeaveReports
    <3>1. online[session] \in BOOLEAN
      BY <2>2 DEF LeaveReports, CurrentOnly, Sessions
    <3> QED BY <2>2, <3>1, AppendLast DEF LeaveReports
  <2>3. CASE LeaveEnds
    BY <2>3 DEF LeaveEnds
  <2> QED BY <1>2, <2>1, <2>2, <2>3 DEF LeaveStep
<1>3. CASE Deliver
  BY <1>3, TailLast DEF Deliver
<1>4. CASE ServerCrash
  BY <1>4 DEF ServerCrash
<1>5. ASSUME NEW b \in Beats, NEW inBoot \in BOOLEAN, Receive(b, inBoot)
      PROVE  TypeOK'
  <2>1. session \in Sessions /\ beat[b] = "none"
    BY <1>5 DEF Receive, CurrentOnly, Sessions, Beats
  <2>2. \A s \in Sessions : timer[s] # b
    BY <2>1 DEF CurrentOnly, Beats
  <2> QED BY <1>5, <2>1, <2>2 DEF Receive, Beats
<1>6. ASSUME NEW b \in Beats, Begin(b) PROVE TypeOK'
  <2>1. /\ of[b] \in Sessions
        /\ UNCHANGED <<session, link, online, received, db, crashes>>
    BY <1>6 DEF Begin, CurrentOnly
  <2>2. CASE ~online[of[b]]
    BY <1>6, <2>1, <2>2 DEF Begin
  <2>3. CASE online[of[b]] /\ timer[of[b]] = None
    BY <1>6, <2>1, <2>3 DEF Begin
  <2>4. CASE online[of[b]] /\ timer[of[b]] # None
    <3>1. /\ alarm' = [alarm EXCEPT ![timer[of[b]]] = Cancelled(@), ![b] = "armed"]
          /\ timer' = [timer EXCEPT ![of[b]] = b]
          /\ beat' = [beat EXCEPT ![b] = "done"]
      BY <1>6, <2>4 DEF Begin, Arm
    <3>2. alarm' \in [Beats -> AlarmPC] /\ beat' \in [Beats -> BeatPC]
      BY <3>1 DEF Cancelled
    <3>3. /\ timer' \in [Sessions -> Beats \cup {None}]
          /\ \A s \in Sessions : timer'[s] # None => of[timer'[s]] = s
      BY <2>1, <3>1
    <3> QED BY <2>1, <3>2, <3>3
  <2> QED BY <2>2, <2>3, <2>4
<1>7. ASSUME NEW b \in Beats, Wake(b) PROVE TypeOK'
  <2>1. of[b] \in Sessions /\ Append(queue, TRUE) \in Seq(BOOLEAN)
    BY <1>7, AppendLast DEF Wake, CurrentOnly
  <2>2. online' \in [Sessions -> BOOLEAN]
    BY <1>7 DEF Wake
  <2>3. CASE online[of[b]]
    BY <1>7, <2>1, <2>2, <2>3 DEF Wake, Arm
  <2>4. CASE ~online[of[b]]
    BY <1>7, <2>1, <2>2, <2>4 DEF Wake
  <2> QED BY <2>3, <2>4
<1>8. ASSUME NEW b \in Beats, Published(b) PROVE TypeOK'
  BY <1>8 DEF Published, Arm, CurrentOnly
<1>9. ASSUME NEW b \in Beats, Expire(b) PROVE TypeOK'
  BY <1>9 DEF Expire
<1>10. ASSUME NEW b \in Beats, AlarmReports(b) PROVE TypeOK'
  <2>1. online[of[b]] \in BOOLEAN
    BY <1>10 DEF AlarmReports, CurrentOnly
  <2> QED BY <1>10, <2>1, AppendLast DEF AlarmReports
<1>11. ASSUME NEW b \in Beats, AlarmEnds(b) PROVE TypeOK'
  BY <1>11 DEF AlarmEnds
<1>12. CASE UNCHANGED vars
  BY <1>12 DEF vars
<1> QED BY <1>1, <1>2, <1>3, <1>4, <1>5, <1>6, <1>7, <1>8, <1>9, <1>10, <1>11, <1>12
        DEF Next, TaskStep
-------------------------------------------------------------------------------
(* CurrentOnly is inductive.                                                  *)

\* No task of an earlier connection sets or reports is_online: a connection ends
\* after the beats that were ready, and the next starts when publishes are over.
LEMMA NextCurrentOnly == TypeOK /\ CurrentOnly /\ [Next]_vars => CurrentOnly'
<1> SUFFICES ASSUME TypeOK, CurrentOnly, [Next]_vars PROVE CurrentOnly'
  OBVIOUS
<1> USE BoundsAssumption
    DEF TypeOK, CurrentOnly, Link, BeatPC, AlarmPC, object, received, db, InProgress, None
<1>1. CASE Connect
  BY <1>1 DEF Connect, Sessions
<1>2. CASE Lost
  BY <1>2 DEF Lost
<1>3. CASE LeaveStep
  <2>1. CASE Leave
    <3>1. session \in Sessions
      BY <2>1 DEF Leave, Sessions
    <3> QED BY <2>1, <3>1 DEF Leave
  <2>2. CASE LeaveReports \/ LeaveEnds
    BY <2>2 DEF LeaveReports, LeaveEnds
  <2> QED BY <1>3, <2>1, <2>2 DEF LeaveStep
<1>4. CASE Deliver
  BY <1>4 DEF Deliver
<1>5. CASE ServerCrash
  BY <1>5 DEF ServerCrash, Sessions
<1>6. ASSUME NEW b \in Beats, NEW inBoot \in BOOLEAN, Receive(b, inBoot)
      PROVE  CurrentOnly'
  BY <1>6 DEF Receive, Beats, Sessions
<1>7. ASSUME NEW b \in Beats, Begin(b) PROVE CurrentOnly'
  BY <1>7 DEF Begin, Arm, Cancelled
<1>8. ASSUME NEW b \in Beats, Wake(b) PROVE CurrentOnly'
  <2>1. of[b] = session /\ session # 0 /\ link \in {"up", "lost"}
    BY <1>8 DEF Wake
  <2>2. \A s \in Sessions : s # session => ~online'[s]
    BY <1>8, <2>1 DEF Wake
  <2>3. UNCHANGED <<session, link, of, beats>> /\ beat[b] = "sleeping"
    BY <1>8 DEF Wake
  <2>4. \/ /\ beat' = [beat EXCEPT ![b] = "done"]
           /\ alarm' = [alarm EXCEPT ![b] = "armed"]
           /\ timer' = [timer EXCEPT ![of[b]] = b]
        \/ beat' = [beat EXCEPT ![b] = "publishing"] /\ UNCHANGED <<timer, alarm>>
    BY <1>8 DEF Wake, Arm
  <2>5. \A c \in Beats :
            /\ beat'[c] \in {"ready", "sleeping"} => beat[c] = beat'[c]
            /\ alarm'[c] = "off1" => alarm[c] = "off1"
            /\ beat'[c] # "none" <=> beat[c] # "none"
            /\ alarm'[c] # "none" => beat'[c] # "none"
            /\ beat'[c] \in {"ready", "sleeping", "publishing"} => alarm'[c] = "none"
    BY <2>3, <2>4
  <2>6. \A s \in Sessions : timer'[s] # None => beat'[timer'[s]] # "none"
    BY <2>3, <2>4, <2>5
  <2> QED BY <2>1, <2>2, <2>3, <2>5, <2>6
<1>9. ASSUME NEW b \in Beats, Published(b) PROVE CurrentOnly'
  BY <1>9 DEF Published, Arm
<1>10. ASSUME NEW b \in Beats, Expire(b) PROVE CurrentOnly'
  BY <1>10 DEF Expire
<1>11. ASSUME NEW b \in Beats, AlarmReports(b) \/ AlarmEnds(b) PROVE CurrentOnly'
  BY <1>11 DEF AlarmReports, AlarmEnds
<1>12. CASE UNCHANGED vars
  BY <1>12 DEF vars
<1> QED BY <1>1, <1>2, <1>3, <1>4, <1>5, <1>6, <1>7, <1>8, <1>9, <1>10, <1>11, <1>12
        DEF Next, TaskStep

-------------------------------------------------------------------------------
(* The last report is right.                                                  *)

\* What an appended report makes of Reported.
LEMMA Reports ==
    ASSUME TypeOK, NEW x \in BOOLEAN, queue' = Append(queue, x)
    PROVE  Reported' = x
  BY AppendLast DEF TypeOK, Reported

\* A step that leaves is_online, the reports, those due and the connection as they are.
LEMMA SameReports ==
    ASSUME ReportedRight, UNCHANGED <<queue, dbOnline, crashes>>,
           Pending' = Pending, StationOnline' = StationOnline
    PROVE  ReportedRight'
  BY DEF ReportedRight, Reported

\* Every change of is_online is reported, and a report says what is_online is.
LEMMA NextReportedRight == IInv /\ [Next]_vars => ReportedRight'
<1> SUFFICES ASSUME TypeOK, CurrentOnly, ReportedRight, [Next]_vars PROVE ReportedRight'
  BY DEF IInv
<1> USE DEF object, received, db, Pending, StationOnline
<1>0. session # 0 => online[session] \in BOOLEAN
  BY BoundsAssumption DEF TypeOK, Sessions
<1>1. CASE Connect
  <2>1. ~StationOnline /\ ~StationOnline'
    BY <1>1, BoundsAssumption DEF Connect, CurrentOnly, TypeOK, Sessions
  <2>2. ~Pending /\ Reported' = Reported /\ crashes' = crashes
    BY <1>1 DEF Connect, Reported
  <2> QED BY <2>1, <2>2 DEF ReportedRight
<1>2. CASE Lost
  BY <1>2, SameReports DEF Lost, TypeOK, Link
<1>3. CASE LeaveStep
  <2>1. CASE Leave
    <3>1. CASE online[session]
      BY <2>1, <3>1 DEF Leave, ReportedRight
    <3>2. CASE ~online[session]
      <4>1. online'[session] = FALSE /\ UNCHANGED session
        BY <2>1, BoundsAssumption DEF Leave, TypeOK, CurrentOnly, Sessions
      <4> QED BY <2>1, <3>2, <4>1, SameReports DEF Leave
    <3> QED BY <3>1, <3>2
  <2>2. CASE LeaveReports
    <3>1. session # 0 /\ ~online[session]
      BY <2>2 DEF LeaveReports, CurrentOnly
    <3>2. queue' = Append(queue, FALSE)
      BY <1>0, <2>2, <3>1 DEF LeaveReports
    <3>3. ~Reported'
      BY <3>2, Reports
    <3>4. ~StationOnline'
      BY <2>2, <3>1 DEF LeaveReports
    <3> QED BY <3>3, <3>4 DEF ReportedRight
  <2>3. CASE LeaveEnds
    BY <2>3, SameReports DEF LeaveEnds
  <2> QED BY <1>3, <2>1, <2>2, <2>3 DEF LeaveStep
<1>4. CASE Deliver
  <2>1. Reported' = Reported
    <3>1. queue # <<>> /\ dbOnline' = Head(queue) /\ queue' = Tail(queue)
      BY <1>4 DEF Deliver
    <3>2. queue \in Seq(BOOLEAN)
      BY DEF TypeOK
    <3>3. CASE Tail(queue) = <<>>
      BY <3>1, <3>2, <3>3, TailLast DEF Reported
    <3>4. CASE Tail(queue) # <<>>
      BY <3>1, <3>2, <3>4, TailLast DEF Reported
    <3> QED BY <3>3, <3>4
  <2> QED BY <1>4, <2>1 DEF Deliver, ReportedRight
<1>5. CASE ServerCrash
  <2>1. ~StationOnline'
    BY <1>5, BoundsAssumption DEF ServerCrash, TypeOK, Sessions
  <2>2. crashes' # 0
    BY <1>5, BoundsAssumption DEF ServerCrash, TypeOK
  <2> QED BY <2>1, <2>2 DEF ReportedRight
<1>6. ASSUME NEW b \in Beats, NEW inBoot \in BOOLEAN, Receive(b, inBoot)
      PROVE  ReportedRight'
  BY <1>6, SameReports DEF Receive
<1>7. ASSUME NEW b \in Beats, Begin(b) PROVE ReportedRight'
  <2>1. \A c \in Beats : alarm'[c] = "off1" <=> alarm[c] = "off1"
    BY <1>7 DEF Begin, Cancelled, TypeOK, AlarmPC, CurrentOnly
  <2> QED BY <1>7, <2>1, SameReports DEF Begin
<1>8. ASSUME NEW b \in Beats, Wake(b) PROVE ReportedRight'
  <2>1. /\ session # 0 /\ of[b] = session /\ UNCHANGED <<session, link, crashes, dbOnline>>
        /\ online'[session]
        /\ alarm[b] = "none"
    BY <1>8 DEF Wake, TypeOK, CurrentOnly, BeatPC, Link, None
  <2>2. CASE online[of[b]]
    <3>1. \A c \in Beats : alarm'[c] = "off1" <=> alarm[c] = "off1"
      BY <1>8, <2>1, <2>2 DEF Wake, TypeOK
    <3> QED BY <1>8, <2>1, <2>2, <3>1, SameReports DEF Wake
  <2>3. CASE ~online[of[b]]
    <3>1. Reported'
      BY <1>8, <2>3, Reports DEF Wake
    <3> QED BY <2>1, <3>1 DEF ReportedRight
  <2> QED BY <2>2, <2>3
<1>9. ASSUME NEW b \in Beats, Published(b) PROVE ReportedRight'
  <2>1. \A c \in Beats : alarm'[c] = "off1" <=> alarm[c] = "off1"
    BY <1>9 DEF Published, TypeOK, CurrentOnly
  <2> QED BY <1>9, <2>1, SameReports DEF Published
<1>10. ASSUME NEW b \in Beats, Expire(b) PROVE ReportedRight'
  <2>1. CASE online[of[b]]
    BY <1>10, <2>1 DEF Expire, ReportedRight, TypeOK
  <2>2. CASE ~online[of[b]]
    <3>1. \A c \in Beats : alarm'[c] = "off1" <=> alarm[c] = "off1"
      BY <1>10, <2>2 DEF Expire, TypeOK
    <3>2. \A s \in Sessions : online'[s] <=> online[s]
      BY <1>10, <2>2 DEF Expire, TypeOK
    <3>3. session # 0 => (online'[session] <=> online[session])
      BY <3>2, BoundsAssumption DEF TypeOK, Sessions
    <3> QED BY <1>10, <3>1, <3>3, SameReports DEF Expire
  <2> QED BY <2>1, <2>2
<1>11. ASSUME NEW b \in Beats, AlarmReports(b) PROVE ReportedRight'
  <2>1. of[b] = session /\ session # 0
    BY <1>11 DEF AlarmReports, CurrentOnly, None
  <2>2. Reported' = online[session]
    BY <1>0, <1>11, <2>1, Reports DEF AlarmReports
  <2>3. StationOnline' = online[session]
    BY <1>0, <1>11, <2>1 DEF AlarmReports
  <2> QED BY <2>2, <2>3 DEF ReportedRight
<1>12. ASSUME NEW b \in Beats, AlarmEnds(b) PROVE ReportedRight'
  <2>1. \A c \in Beats : alarm'[c] = "off1" <=> alarm[c] = "off1"
    BY <1>12 DEF AlarmEnds, TypeOK
  <2> QED BY <1>12, <2>1, SameReports DEF AlarmEnds
<1>13. CASE UNCHANGED vars
  BY <1>13, SameReports DEF vars
<1> QED BY <1>1, <1>2, <1>3, <1>4, <1>5, <1>6, <1>7, <1>8, <1>9, <1>10, <1>11, <1>12, <1>13
        DEF Next, TaskStep

-------------------------------------------------------------------------------
(* The theorems.                                                              *)

\* The invariant holds in every reachable state.
THEOREM Invariant == Spec => []IInv
<1>1. Init => IInv
  <2>1. Init => CurrentOnly /\ ReportedRight
    BY DEF Init, CurrentOnly, ReportedRight, Pending, StationOnline, Reported, None
  <2> QED BY <2>1, InitTypeOK DEF IInv
<1>2. IInv /\ [Next]_vars => IInv'
  BY NextTypeOK, NextCurrentOnly, NextReportedRight DEF IInv
<1> QED BY <1>1, <1>2, PTL DEF Spec

\* Every variable stays in its domain.
THEOREM TypeCorrect == Spec => []TypeOK
  BY Invariant, PTL DEF IInv

\* When no report is on its way or due, the row of a station that is online says so,
\* and without crashes of the server it says nothing else.
THEOREM DbAgrees == Spec => []DbAgreesWhenQuiet
<1>1. IInv => DbAgreesWhenQuiet
  BY DEF IInv, ReportedRight, DbAgreesWhenQuiet, Quiet, Pending, Reported
<1> QED BY <1>1, Invariant, PTL
-------------------------------------------------------------------------------
(* Timers of connections whose beats are handled one after the other.         *)

Serial(b) == of[b] # None /\ of[b] \notin OverlappingSessions

\* A beat that was received has a number and a connection.
Numbered == \A b \in Beats : of[b] # None => b <= beats /\ of[b] <= session

\* A beat is received when the one before it was handled.
OneByOne ==
    \A b, c \in Beats :
        Serial(b) /\ of[c] = of[b] /\ b < c => beat[b] \notin InProgress

\* An armed timer is the connection's own, no later beat was handled, and the
\* station is online.
ArmedIsTimer ==
    \A b \in Beats : Serial(b) /\ alarm[b] = "armed" =>
        /\ timer[of[b]] = b
        /\ \A c \in Beats : of[c] = of[b] /\ b < c => beat[c] # "done"
        /\ of[b] = session /\ link \in {"up", "lost"} => online[session]

\* While a beat takes the station online, no timer of the connection is armed.
NoTimerYet ==
    \A b \in Beats : Serial(b) /\ beat[b] \in {"sleeping", "publishing"} =>
        /\ \A a \in Beats : of[a] = of[b] => alarm[a] # "armed"
        /\ beat[b] = "sleeping" => ~online[of[b]]
        /\ beat[b] = "publishing" /\ of[b] = session /\ link \in {"up", "lost"}
               => online[session]

TimerInv == Numbered /\ OneByOne /\ ArmedIsTimer /\ NoTimerYet

\* It holds initially.
LEMMA InitTimerInv == Init => TimerInv
  BY BoundsAssumption
     DEF Init, TimerInv, Numbered, OneByOne, ArmedIsTimer, NoTimerYet, Serial, None

\* Two beats of such a connection are not in progress together.
LEMMA OneInProgress ==
    ASSUME OneByOne, NEW b \in Beats, NEW c \in Beats, Serial(b), of[c] = of[b],
           beat[b] \in InProgress, beat[c] \in InProgress
    PROVE  b = c
  BY BoundsAssumption DEF OneByOne, Serial, Beats

\* A timer is armed: it becomes the connection's, and no other is armed there.
LEMMA ArmStep ==
    ASSUME TypeOK, CurrentOnly, TimerInv, NEW b \in Beats, beat[b] \in InProgress, Arm(b),
           alarm'[b] = "armed",
           UNCHANGED <<session, link, received>>,
           \A a \in Beats : a # b /\ alarm'[a] = "armed" => alarm[a] = "armed",
           Serial(b) => \A a \in Beats : a # b /\ of[a] = of[b] => alarm'[a] # "armed",
           \A s \in Sessions : s # of[b] => online'[s] = online[s],
           online'[of[b]] <=> online[of[b]],
           Serial(b) /\ of[b] = session /\ link \in {"up", "lost"} => online[session]
    PROVE  TimerInv'
<1> USE DEF received, TypeOK, Serial, None, InProgress
<1>1. of[b] \in Sessions /\ timer' = [timer EXCEPT ![of[b]] = b]
      /\ beat' = [beat EXCEPT ![b] = "done"]
  BY DEF CurrentOnly, Arm
<1>2. timer'[of[b]] = b /\ (\A s \in Sessions : s # of[b] => timer'[s] = timer[s])
      /\ beat'[b] = "done" /\ \A c \in Beats : c # b => beat'[c] = beat[c]
  BY <1>1
<1>3. Numbered'
  BY DEF TimerInv, Numbered
<1>4. OneByOne'
  BY <1>2 DEF TimerInv, OneByOne
<1>5. session \in Sessions => (online'[session] <=> online[session])
  BY <1>1
<1>6. ArmedIsTimer'
  <2> SUFFICES ASSUME NEW a \in Beats, Serial(a), alarm'[a] = "armed"
               PROVE  /\ timer'[of[a]] = a
                      /\ \A c \in Beats : of[c] = of[a] /\ a < c => beat'[c] # "done"
                      /\ of[a] = session /\ link \in {"up", "lost"} => online'[session]
    BY DEF ArmedIsTimer
  <2>0. of[a] \in Sessions
    OBVIOUS
  <2>1. CASE a = b
    <3>1. ASSUME NEW c \in Beats, of[c] = of[b], b < c PROVE beat'[c] # "done"
      BY <2>1, <3>1 DEF TimerInv, OneByOne
    <3> QED BY <1>2, <1>5, <2>0, <2>1, <3>1
  <2>2. CASE a # b /\ of[a] # of[b]
    BY <1>2, <1>5, <2>0, <2>2 DEF TimerInv, ArmedIsTimer
  <2>3. CASE a # b /\ of[a] = of[b]
    BY <2>3
  <2> QED BY <2>1, <2>2, <2>3
<1>7. NoTimerYet'
  <2> SUFFICES ASSUME NEW c \in Beats, Serial(c), beat'[c] \in {"sleeping", "publishing"}
               PROVE  /\ \A a \in Beats : of[a] = of[c] => alarm'[a] # "armed"
                      /\ beat'[c] = "sleeping" => ~online'[of[c]]
                      /\ beat'[c] = "publishing" /\ of[c] = session /\ link \in {"up", "lost"}
                             => online'[session]
    BY DEF NoTimerYet
  <2>1. c # b /\ beat'[c] = beat[c]
    BY <1>2
  <2>2. of[c] # of[b]
    BY <2>1, OneInProgress DEF TimerInv
  <2> QED BY <1>5, <2>1, <2>2 DEF TimerInv, NoTimerYet
<1> QED BY <1>3, <1>4, <1>6, <1>7 DEF TimerInv

\* Every step preserves it.
LEMMA NextTimerInv == TypeOK /\ CurrentOnly /\ TimerInv /\ [Next]_vars => TimerInv'
<1> SUFFICES ASSUME TypeOK, CurrentOnly, TimerInv, [Next]_vars PROVE TimerInv'
  OBVIOUS
<1> USE BoundsAssumption DEF object, received, db, InProgress, None
<1> DEFINE Inv == Numbered /\ OneByOne /\ ArmedIsTimer /\ NoTimerYet
<1>0. Inv /\ (Inv' => TimerInv')
  BY DEF TimerInv
<1> USE DEF TypeOK, CurrentOnly, Serial, Numbered, OneByOne, ArmedIsTimer, NoTimerYet
<1>1. CASE Connect
  <2>1. session \in Nat /\ session' = session + 1 /\ UNCHANGED <<object, received, beat, alarm>>
    BY <1>1 DEF Connect
  <2>2. \A b \in Beats : Serial(b) => of[b] # session'
    BY <1>0, <2>1
  <2>3. Numbered'
    <3>1. \A b \in Beats : of[b] # None => b <= beats /\ of[b] \in Nat /\ of[b] <= session
      BY <1>0 DEF Sessions
    <3> QED BY <2>1, <3>1
  <2>4. OneByOne'
    BY <1>0, <2>1
  <2>5. ArmedIsTimer' /\ NoTimerYet'
    BY <1>0, <2>1, <2>2
  <2> QED BY <1>0, <2>3, <2>4, <2>5
<1>2. CASE Lost
  BY <1>0, <1>2 DEF Lost
<1>3. CASE LeaveStep
  <2>1. CASE Leave
    <3>1. session \in Sessions
      BY <2>1 DEF Leave, Sessions
    <3> QED BY <1>0, <2>1, <3>1 DEF Leave
  <2>2. CASE LeaveReports \/ LeaveEnds
    BY <1>0, <2>2 DEF LeaveReports, LeaveEnds
  <2> QED BY <1>3, <2>1, <2>2 DEF LeaveStep
<1>4. CASE Deliver
  BY <1>0, <1>4 DEF Deliver
<1>5. CASE ServerCrash
  BY <1>0, <1>5 DEF ServerCrash
<1>6. ASSUME NEW b \in Beats, NEW inBoot \in BOOLEAN, Receive(b, inBoot)
      PROVE  TimerInv'
  <2>1. /\ b = beats + 1 /\ of'[b] = session /\ beats' = b /\ beat'[b] = "ready"
        /\ \A c \in Beats : c # b => of'[c] = of[c] /\ beat'[c] = beat[c]
        /\ UNCHANGED <<session, link, online, timer, alarm>>
    BY <1>6 DEF Receive
  <2>2. /\ of[b] = None /\ beat[b] = "none" /\ alarm[b] = "none"
        /\ \A c \in Beats : of[c] # None => c < b
    BY <1>0, <2>1 DEF Beats
  <2>3. session \in OverlappingSessions
        \/ \A c \in Beats : of[c] = session => beat[c] \notin InProgress
    BY <1>6 DEF Receive
  <2>4. Numbered'
    BY <1>0, <2>1, <2>2 DEF Beats
  <2>5. OneByOne'
    BY <1>0, <2>1, <2>2, <2>3 DEF Beats
  <2>6. ArmedIsTimer'
    BY <1>0, <2>1, <2>2 DEF Beats
  <2>7. NoTimerYet'
    BY <1>0, <2>1, <2>2
  <2> QED BY <1>0, <2>4, <2>5, <2>6, <2>7
<1>7. ASSUME NEW b \in Beats, Begin(b) PROVE TimerInv'
  <2>1. CASE online[of[b]] /\ timer[of[b]] # None
    <3>1. /\ alarm' = [alarm EXCEPT ![timer[of[b]]] = Cancelled(@), ![b] = "armed"]
          /\ Arm(b) /\ beat[b] = "ready" /\ UNCHANGED <<session, link, online, received>>
      BY <1>7, <2>1 DEF Begin
    <3>2. /\ alarm'[b] = "armed"
          /\ \A a \in Beats : a # b /\ alarm'[a] = "armed" => alarm[a] = "armed"
          /\ \A a \in Beats : a # b /\ a = timer[of[b]] => alarm'[a] # "armed"
      BY <3>1 DEF Cancelled
    <3>3. Serial(b) => \A a \in Beats : a # b /\ of[a] = of[b] => alarm'[a] # "armed"
      BY <1>0, <3>2
    <3>4. of[b] = session
      BY <3>1
    <3> QED BY <2>1, <3>1, <3>2, <3>3, <3>4, ArmStep
  <2>2. CASE online[of[b]] /\ timer[of[b]] = None
    BY <1>0, <1>7, <2>2 DEF Begin
  <2>3. CASE ~online[of[b]]
    <3>1. /\ beat[b] = "ready" /\ beat' = [beat EXCEPT ![b] = "sleeping"]
          /\ UNCHANGED <<session, link, online, received, timer, alarm>>
      BY <1>7, <2>3 DEF Begin
    <3>2. of[b] = session /\ link \in {"up", "lost"}
      BY <3>1
    <3>3. Numbered' /\ ArmedIsTimer' /\ OneByOne'
      BY <1>0, <3>1
    <3>4. NoTimerYet'
      BY <1>0, <2>3, <3>1, <3>2
    <3> QED BY <1>0, <3>3, <3>4
  <2> QED BY <2>1, <2>2, <2>3
<1>8. ASSUME NEW b \in Beats, Wake(b) PROVE TimerInv'
  <2>1. /\ beat[b] = "sleeping" /\ of[b] = session /\ session \in Sessions
        /\ online' = [online EXCEPT ![session] = TRUE]
        /\ UNCHANGED <<session, link, received>>
    <3>1. beat[b] = "sleeping" /\ UNCHANGED <<session, link, received>>
          /\ online' = [online EXCEPT ![of[b]] = TRUE]
      BY <1>8 DEF Wake
    <3>2. of[b] = session /\ of[b] # None /\ of[b] \in Sessions \cup {None}
      BY <3>1
    <3> QED BY <3>1, <3>2
  <2>2. CASE online[of[b]]
    <3>1. alarm' = [alarm EXCEPT ![b] = "armed"] /\ Arm(b)
      BY <1>8, <2>2 DEF Wake
    <3>2. ~Serial(b)
      BY <1>0, <2>1, <2>2
    <3>3. /\ alarm'[b] = "armed"
          /\ \A a \in Beats : a # b /\ alarm'[a] = "armed" => alarm[a] = "armed"
          /\ \A s \in Sessions : s # of[b] => online'[s] = online[s]
          /\ online'[of[b]] <=> online[of[b]]
      BY <2>1, <2>2, <3>1
    <3> QED BY <2>1, <3>1, <3>2, <3>3, ArmStep
  <2>3. CASE ~online[of[b]]
    <3>1. beat' = [beat EXCEPT ![b] = "publishing"] /\ UNCHANGED <<timer, alarm>>
      BY <1>8, <2>3 DEF Wake
    <3>2. Numbered' /\ OneByOne'
      BY <1>0, <2>1, <3>1
    <3>3. ArmedIsTimer'
      BY <1>0, <2>1, <3>1
    <3>4. \A c \in Beats : Serial(c) /\ of[c] = session /\ beat[c] \in InProgress => c = b
      BY <2>1, OneInProgress, <1>0
    <3>5. NoTimerYet'
      BY <1>0, <2>1, <3>1, <3>4
    <3> QED BY <1>0, <3>2, <3>3, <3>5
  <2> QED BY <2>2, <2>3
<1>9. ASSUME NEW b \in Beats, Published(b) PROVE TimerInv'
  <2>1. /\ beat[b] = "publishing" /\ alarm' = [alarm EXCEPT ![b] = "armed"] /\ Arm(b)
        /\ UNCHANGED <<session, link, online, received>>
    BY <1>9 DEF Published
  <2>2. /\ alarm'[b] = "armed"
        /\ \A a \in Beats : a # b => alarm'[a] = alarm[a]
    BY <2>1
  <2>3. Serial(b) => /\ \A a \in Beats : of[a] = of[b] => alarm[a] # "armed"
                     /\ of[b] = session /\ link \in {"up", "lost"} => online[session]
    BY <1>0, <2>1
  <2> QED BY <2>1, <2>2, <2>3, ArmStep
<1>10. ASSUME NEW b \in Beats, Expire(b) PROVE TimerInv'
  <2>1. /\ alarm[b] = "armed" /\ of[b] \in Sessions
        /\ alarm'[b] # "armed" /\ \A a \in Beats : a # b => alarm'[a] = alarm[a]
        /\ online' = [online EXCEPT ![of[b]] = FALSE]
        /\ UNCHANGED <<session, link, timer, of, beats, beat>>
    BY <1>10 DEF Expire
  <2>2. Numbered' /\ OneByOne'
    BY <1>0, <2>1
  <2>3. ArmedIsTimer'
    BY <1>0, <2>1
  <2>4. NoTimerYet'
    BY <1>0, <2>1
  <2> QED BY <1>0, <2>2, <2>3, <2>4
<1>11. ASSUME NEW b \in Beats, AlarmReports(b) \/ AlarmEnds(b) PROVE TimerInv'
  BY <1>0, <1>11 DEF AlarmReports, AlarmEnds
<1>12. CASE UNCHANGED vars
  BY <1>0, <1>12 DEF vars
<1> QED BY <1>1, <1>2, <1>3, <1>4, <1>5, <1>6, <1>7, <1>8, <1>9, <1>10, <1>11, <1>12
        DEF Next, TaskStep

\* A timer takes the station offline only if no beat was handled after the one that
\* armed it, on connections whose beats do not overlap (chargePointRepr.py:855-861).
THEOREM OfflineOnlyBySilence == Spec => TakenOfflineOnlyBySilence
<1> DEFINE Silent == \A b \in Beats : of[b] \notin OverlappingSessions => OfflineBySilence(b)
<1>1. TypeOK /\ CurrentOnly /\ TimerInv => [Silent]_vars
  <2> SUFFICES ASSUME TypeOK, CurrentOnly, TimerInv, NEW b \in Beats,
                      of[b] \notin OverlappingSessions, alarm[b] = "armed"
               PROVE  \A c \in Beats : c > b /\ of[c] = of[b] => beat[c] # "done"
    BY DEF OfflineBySilence
  <2>1. Serial(b)
    BY DEF Serial, CurrentOnly
  <2> QED BY <2>1, BoundsAssumption DEF TimerInv, ArmedIsTimer, Beats
<1>2. Spec => []TimerInv
  <2>1. Spec => []IInv /\ Init /\ [][Next]_vars
    BY Invariant, PTL DEF Spec
  <2>2. IInv => TypeOK /\ CurrentOnly
    BY DEF IInv
  <2> QED BY <2>1, <2>2, InitTimerInv, NextTimerInv, PTL
<1>3. [][Silent]_vars => TakenOfflineOnlyBySilence
  BY PTL DEF TakenOfflineOnlyBySilence
<1>4. IInv => TypeOK /\ CurrentOnly
  BY DEF IInv
<1> QED BY <1>1, <1>2, <1>3, <1>4, Invariant, PTL
===============================================================================
