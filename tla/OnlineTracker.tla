------------------------------ MODULE OnlineTracker ------------------------------
(***************************************************************************)
(* How the OCPP server tracks whether one station is online                 *)
(* (chargePointRepr.py: after_Heartbeat, set_on_off, on_BootNotification;   *)
(* ocpp_server.py: the end of on_cp_connect).                               *)
(*                                                                          *)
(* A BootNotification or Heartbeat (a beat) sets is_online, tells the       *)
(* database and arms a timer that will set it back; the next beat cancels   *)
(* that timer and arms its own.  Every publish is an await, so beats,       *)
(* timers and the end of the connection interleave.  Each connection has    *)
(* its own ChargePoint object; the database row outlives them all.          *)
(*                                                                          *)
(* A frame is written when publish is called and the broker keeps the order *)
(* of one channel: the queue to the database is first in, first out.        *)
(***************************************************************************)
EXTENDS Naturals, Sequences

CONSTANTS MaxSessions, \* bound on the connections, one after the other
          MaxBeats,    \* bound on the beats received
          OverlappingSessions, \* connections on which a beat may be received before
                       \* after_Heartbeat of the previous one has ended
          MaxCrashes   \* bound on the crashes of the OCPP server

ASSUME BoundsAssumption ==
    MaxSessions \in Nat /\ MaxBeats \in Nat /\ MaxCrashes \in Nat

Sessions == 1 .. MaxSessions
Beats == 1 .. MaxBeats
None == 0

VARIABLES session,  \* the latest connection, 0 before the first
          link,     \* its on_cp_connect: down, up, lost, or in set_on_off(False)
          online,   \* [Sessions -> BOOLEAN]: is_online
          timer,    \* [Sessions -> Beats], None: change_is_online, by its beat
          beats,    \* number of beats received
          of,       \* [Beats -> Sessions], None: the connection of a beat
          boot,     \* beats handled inside the receive loop: BootNotifications
          beat,     \* [Beats -> BeatPC]: after_Heartbeat
          alarm,    \* [Beats -> AlarmPC]: the timer task a beat armed
          queue,    \* values of is_online on their way to the database
          dbOnline, \* Charge_Point.is_online
          crashes

object == <<online, timer>>
received == <<beats, of, boot>>
db == <<queue, dbOnline>>
vars == <<session, link, online, timer, beats, of, boot, beat, alarm, queue,
          dbOnline, crashes>>

\* "off1": publishing that the transactions are inactive; "off2": publishing is_online.
Link == {"down", "up", "lost", "off1", "off2"}
BeatPC == {"none", "ready", "sleeping", "publishing", "done", "failed", "dead"}
AlarmPC == {"none", "armed", "off1", "off2", "over"}
InProgress == {"ready", "sleeping", "publishing"}

Init ==
    /\ session = 0
    /\ link = "down"
    /\ online = [s \in Sessions |-> FALSE]
    /\ timer = [s \in Sessions |-> None]
    /\ beats = 0
    /\ of = [b \in Beats |-> None]
    /\ boot = {}
    /\ beat = [b \in Beats |-> "none"]
    /\ alarm = [b \in Beats |-> "none"]
    /\ queue = <<>>
    /\ dbOnline = FALSE
    /\ crashes = 0

\* The receive loop is inside on_BootNotification.
Booting == \E b \in boot : beat[b] \in InProgress

-------------------------------------------------------------------------------
(* The connection.                                                         *)

\* A new connection is registered.  on_cp_connect has awaited an answer from the
\* database: what was published before its request is confirmed.
Connect ==
    /\ link = "down"
    /\ session < MaxSessions
    /\ \A b \in Beats : alarm[b] # "off1" /\ beat[b] # "publishing"
    /\ session' = session + 1
    /\ link' = "up"
    /\ UNCHANGED <<object, received, beat, alarm, db, crashes>>

\* A BootNotification (inBoot) or a Heartbeat is received.
Receive(b, inBoot) ==
    /\ link = "up"
    /\ b = beats + 1
    /\ ~Booting
    /\ \/ session \in OverlappingSessions
       \/ \A c \in Beats : of[c] = session => beat[c] \notin InProgress
    /\ beats' = b
    /\ of' = [of EXCEPT ![b] = session]
    /\ boot' = IF inBoot THEN boot \cup {b} ELSE boot
    /\ beat' = [beat EXCEPT ![b] = "ready"]
    /\ UNCHANGED <<session, link, object, alarm, db, crashes>>

\* cp.start() ends; on_cp_connect calls set_on_off(False), which first sleeps 0.
Lost ==
    /\ link = "up"
    /\ ~Booting
    /\ link' = "lost"
    /\ UNCHANGED <<session, object, received, beat, alarm, db, crashes>>

\* It is resumed after the tasks that were ready before it.
Leave ==
    /\ link = "lost"
    /\ \A b \in Beats : beat[b] \notin {"ready", "sleeping"}
    /\ link' = IF online[session] THEN "off1" ELSE "down"
    /\ online' = [online EXCEPT ![session] = FALSE]
    /\ UNCHANGED <<session, timer, received, beat, alarm, db, crashes>>

LeaveReports ==
    /\ link = "off1"
    /\ link' = "off2"
    /\ queue' = Append(queue, online[session])
    /\ UNCHANGED <<session, object, received, beat, alarm, dbOnline, crashes>>

LeaveEnds ==
    /\ link = "off2"
    /\ link' = "down"
    /\ UNCHANGED <<session, object, received, beat, alarm, db, crashes>>

-------------------------------------------------------------------------------
(* after_Heartbeat of beat b.                                              *)

\* The event loop resumes tasks that wait at the same point in the order they came.
First(b) == \A c \in Beats : beat[c] = beat[b] => b <= c

\* A cancelled timer that is asleep ends; one that is publishing goes on, because
\* ocpp_log catches the CancelledError with every other exception.
Cancelled(a) == IF a = "armed" THEN "over" ELSE a

\* The timer task is created and after_Heartbeat ends (line 861).
Arm(b) ==
    /\ timer' = [timer EXCEPT ![of[b]] = b]
    /\ beat' = [beat EXCEPT ![b] = "done"]

\* Variants for the mutation runs: the old timer is not cancelled; it is, and no
\* new one armed.
BeginNoCancel(b) ==
    /\ beat[b] = "ready" /\ First(b)
    /\ \/ /\ ~online[of[b]]
          /\ beat' = [beat EXCEPT ![b] = "sleeping"]
          /\ UNCHANGED <<timer, alarm>>
       \/ /\ online[of[b]] /\ timer[of[b]] # None
          /\ alarm' = [alarm EXCEPT ![b] = "armed"]
          /\ Arm(b)
    /\ UNCHANGED <<session, link, online, received, db, crashes>>
BeginNoRearm(b) ==
    /\ beat[b] = "ready" /\ First(b)
    /\ \/ /\ ~online[of[b]]
          /\ beat' = [beat EXCEPT ![b] = "sleeping"]
          /\ UNCHANGED alarm
       \/ /\ online[of[b]] /\ timer[of[b]] # None
          /\ alarm' = [alarm EXCEPT ![timer[of[b]]] = Cancelled(@)]
          /\ beat' = [beat EXCEPT ![b] = "done"]
    /\ UNCHANGED <<session, link, object, received, db, crashes>>

\* Its first step: while online it replaces the timer; when no timer was armed yet,
\* None.cancel() raises.
Begin(b) ==
    /\ beat[b] = "ready" /\ First(b)
    /\ \/ /\ ~online[of[b]]
          /\ beat' = [beat EXCEPT ![b] = "sleeping"]
          /\ UNCHANGED <<timer, alarm>>
       \/ /\ online[of[b]] /\ timer[of[b]] = None
          /\ beat' = [beat EXCEPT ![b] = "failed"]
          /\ UNCHANGED <<timer, alarm>>
       \/ /\ online[of[b]] /\ timer[of[b]] # None
          /\ alarm' = [alarm EXCEPT ![timer[of[b]]] = Cancelled(@), ![b] = "armed"]
          /\ Arm(b)
    /\ UNCHANGED <<session, link, online, received, db, crashes>>

\* set_on_off(True) after its sleep(0).  When another beat has set is_online
\* meanwhile nothing is published, and the timer is armed over the other's.
Wake(b) ==
    /\ beat[b] = "sleeping" /\ First(b)
    /\ online' = [online EXCEPT ![of[b]] = TRUE]
    /\ \/ /\ online[of[b]]
          /\ alarm' = [alarm EXCEPT ![b] = "armed"]
          /\ Arm(b)
          /\ UNCHANGED queue
       \/ /\ ~online[of[b]]
          /\ queue' = Append(queue, TRUE)
          /\ beat' = [beat EXCEPT ![b] = "publishing"]
          /\ UNCHANGED <<timer, alarm>>
    /\ UNCHANGED <<session, link, received, dbOnline, crashes>>

\* The publish is confirmed and the timer armed.
Published(b) ==
    /\ beat[b] = "publishing"
    /\ alarm' = [alarm EXCEPT ![b] = "armed"]
    /\ Arm(b)
    /\ UNCHANGED <<session, link, online, received, db, crashes>>

-------------------------------------------------------------------------------
(* set_on_off(False, wait) of the timer beat b armed.                      *)

Expire(b) ==
    /\ alarm[b] = "armed"
    /\ alarm' = [alarm EXCEPT ![b] = IF online[of[b]] THEN "off1" ELSE "over"]
    /\ online' = [online EXCEPT ![of[b]] = FALSE]
    /\ UNCHANGED <<session, link, timer, received, beat, db, crashes>>

\* Variant for the mutation runs: the message says what set_on_off was called with.
AlarmReportsFalse(b) ==
    /\ alarm[b] = "off1"
    /\ alarm' = [alarm EXCEPT ![b] = "off2"]
    /\ queue' = Append(queue, FALSE)
    /\ UNCHANGED <<session, link, object, received, beat, dbOnline, crashes>>

\* The second message is built after the await: it carries is_online as it is now.
AlarmReports(b) ==
    /\ alarm[b] = "off1"
    /\ alarm' = [alarm EXCEPT ![b] = "off2"]
    /\ queue' = Append(queue, online[of[b]])
    /\ UNCHANGED <<session, link, object, received, beat, dbOnline, crashes>>

AlarmEnds(b) ==
    /\ alarm[b] = "off2"
    /\ alarm' = [alarm EXCEPT ![b] = "over"]
    /\ UNCHANGED <<session, link, object, received, beat, db, crashes>>

-------------------------------------------------------------------------------
\* The database service applies the update.
Deliver ==
    /\ queue # <<>>
    /\ dbOnline' = Head(queue)
    /\ queue' = Tail(queue)
    /\ UNCHANGED <<session, link, object, received, beat, alarm, crashes>>

\* The OCPP server stops: its objects and tasks are gone, the broker's queue is not.
ServerCrash ==
    /\ crashes < MaxCrashes
    /\ crashes' = crashes + 1
    /\ link' = "down"
    /\ online' = [s \in Sessions |-> FALSE]
    /\ beat' = [b \in Beats |-> IF beat[b] \in InProgress THEN "dead" ELSE beat[b]]
    /\ alarm' = [b \in Beats |-> IF alarm[b] = "none" THEN "none" ELSE "over"]
    /\ UNCHANGED <<session, timer, received, db>>

TaskStep(b) ==
    \/ Begin(b) \/ Wake(b) \/ Published(b)
    \/ AlarmReports(b) \/ AlarmEnds(b)

LeaveStep == Leave \/ LeaveReports \/ LeaveEnds

Next ==
    \/ Connect \/ Lost \/ LeaveStep \/ Deliver \/ ServerCrash
    \/ \E b \in Beats :
        \/ \E inBoot \in BOOLEAN : Receive(b, inBoot)
        \/ TaskStep(b) \/ Expire(b)

\* Ready tasks run, publishes end, armed timers go off unless cancelled, and the
\* database service works through its queue.
Fairness ==
    /\ WF_vars(LeaveStep) /\ WF_vars(Deliver)
    /\ \A b \in Beats : WF_vars(TaskStep(b)) /\ WF_vars(Expire(b))

Spec == Init /\ [][Next]_vars
FairSpec == Spec /\ Fairness

-------------------------------------------------------------------------------
(* Properties.                                                             *)

\* Every variable stays in its domain; the current timer of a connection was armed
\* by one of its beats.
TypeOK ==
    /\ session \in 0 .. MaxSessions
    /\ link \in Link
    /\ online \in [Sessions -> BOOLEAN]
    /\ timer \in [Sessions -> Beats \cup {None}]
    /\ \A s \in Sessions : timer[s] # None => of[timer[s]] = s
    /\ beats \in 0 .. MaxBeats
    /\ of \in [Beats -> Sessions \cup {None}]
    /\ boot \subseteq Beats
    /\ beat \in [Beats -> BeatPC]
    /\ alarm \in [Beats -> AlarmPC]
    /\ queue \in Seq(BOOLEAN)
    /\ dbOnline \in BOOLEAN
    /\ crashes \in 0 .. MaxCrashes

\* Nothing about is_online is on its way to the database or about to be.
Quiet ==
    /\ queue = <<>>
    /\ link # "off1"
    /\ \A b \in Beats : alarm[b] # "off1"

StationOnline == session # 0 /\ online[session]

\* The row agrees with the server once all updates have arrived, however beats,
\* timers and disconnections interleave (line 878 reads is_online when the message
\* is built).  A server that stops leaves the row of a station that was online as
\* it is, until the station is back.
DbAgreesWhenQuiet ==
    Quiet => /\ StationOnline => dbOnline
             /\ crashes = 0 => (dbOnline => StationOnline)

\* Line 662 "tracks online cp": a timer takes the station offline only if no beat
\* was handled after the one that armed it.  Overlapping beats are left out: two handled
\* together while the station is offline both arm a timer, and one is never cancelled.
OfflineBySilence(b) ==
    alarm[b] = "armed" /\ alarm'[b] = "off1" =>
        \A c \in Beats : c > b /\ of[c] = of[b] => beat[c] # "done"
TakenOfflineOnlyBySilence ==
    [][\A b \in Beats : of[b] \notin OverlappingSessions => OfflineBySilence(b)]_vars

\* A station that is not heard from again is offline in the database in the end and
\* stays so, whether or not its connection was closed, unless the server stopped.
\* (MaxBeats ends the beats of every behaviour.)
SilentIsOffline == <>[](crashes = 0 => ~dbOnline /\ queue = <<>>)
===============================================================================
