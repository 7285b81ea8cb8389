----------------------------- MODULE StationPassword -----------------------------
(***************************************************************************)
(* A station's password: the one its client connects with, the one it was  *)
(* told to use, and the one SQL_DB checks.                                 *)
(*                                                                         *)
(* service.py update_cp_password has the OCPP server set the station's     *)
(* variable BasicAuthPassword (chargePointRepr.py setVariables) and, when  *)
(* that was accepted, has SQL_DB store the password (update_CP_password).  *)
(* The client keeps the variable as an attribute of its database           *)
(* (db_CS.py setVariable) and never reads it: it connects with its command *)
(* line's password for ever (charge_station.py run), and is let in if      *)
(* SQL_DB finds that one right (ocpp_server.py check_credentials, db.py    *)
(* verify_password).                                                       *)
(***************************************************************************)
EXTENDS Naturals, Sequences, FiniteSets

CONSTANTS Changes,   \* calls of update_cp_password; each has a password of its own
          Argument,  \* the client's -pw, which insert_Hard_Coded gives the row as well
          MaxDrops,  \* bound: lost connections
          MaxFaults, \* bound: answers, requests and updates lost
          None

ASSUME PasswordsAssumption == Argument \notin Changes /\ None \notin Changes \cup {Argument}
ASSUME BoundsAssumption == MaxDrops \in Nat /\ MaxFaults \in Nat

VARIABLES attribute,   \* BasicAuthPassword in the station's database: a change, or None
          row,         \* the password of Charge_Point._password_hash
          link,        \* the client's connection: up, down, or being checked
          pc,          \* [Changes -> PC]
          last,        \* the change that was begun last, or None
          late,        \* changes given up whose SetVariables may still reach the station
          toDb,        \* Seq(Message): SQL_DB's queue
          drops, faults,
          wiped,       \* SQL_DB was started again: its tables were dropped
          overlapping  \* whether changes overlap; never changes

station == <<attribute, late>>
db == <<row, toDb>>
bounds == <<drops, faults, wiped, overlapping>>
vars == <<station, db, link, pc, last, bounds>>

Passwords == Changes \cup {Argument}
Message == [op : {"store", "verify"}, password : Passwords]
PC == {"idle", "calling", "resetting", "cut", "accepted", "storing", "done", "notDone", "failed"}
AtStation == {"calling", "resetting"}
InProgress(c) == pc[c] \in AtStation \cup {"cut", "accepted", "storing"}
Storing == \E i \in DOMAIN toDb : toDb[i].op = "store"

Init ==
    /\ attribute = None
    /\ row = Argument
    /\ link = "down"
    /\ pc = [c \in Changes |-> "idle"]
    /\ last = None
    /\ late = {}
    /\ toDb = <<>>
    /\ drops = 0 /\ faults = 0
    /\ wiped = FALSE
    /\ overlapping \in BOOLEAN

Goto(c, p) == pc' = [pc EXCEPT ![c] = p]
Fault == faults < MaxFaults /\ faults' = faults + 1 /\ UNCHANGED <<drops, wiped, overlapping>>

-------------------------------------------------------------------------------
(* The change.                                                             *)

\* A change is asked for.  Where changes do not overlap, the update of an earlier one is
\* not on its way to SQL_DB any more either.
Begin(c) ==
    /\ pc[c] = "idle"
    /\ overlapping \/ (~Storing /\ \A d \in Changes : ~InProgress(d))
    /\ last' = c
    /\ Goto(c, IF link = "up" THEN "calling" ELSE "failed")
    /\ UNCHANGED <<station, db, link, bounds>>

\* setVariable writes the attribute, and nothing else of the client.  Calls of a
\* connection are made and handled in order: one that was given up comes first.  The
\* answer is lost, or there.
Set(c) ==
    /\ pc[c] = "calling" /\ link = "up"
    /\ overlapping \/ late = {}
    /\ attribute' = c
    /\ \/ Goto(c, "accepted") /\ UNCHANGED bounds
       \/ Goto(c, "failed") /\ Fault
    /\ UNCHANGED <<late, db, link, last>>

\* The decision point behind the simple client may want a reboot instead, having taken the
\* password or not.  setVariables then sends a Reset.
WantReboot(c) ==
    /\ pc[c] = "calling" /\ link = "up"
    /\ overlapping \/ late = {}
    /\ attribute' \in {attribute, c}
    /\ Goto(c, "resetting")
    /\ UNCHANGED <<late, db, link, last, bounds>>

\* Variant for the mutation runs: any result is stored.
NotSetStored(c) ==
    /\ pc[c] \in AtStation \cup {"cut"}
    /\ Goto(c, "accepted")
    /\ UNCHANGED <<station, db, link, last, bounds>>

\* The station refuses the password, or the call fails.
NotSet(c) ==
    /\ pc[c] \in AtStation \cup {"cut"}
    /\ \/ pc[c] = "calling" /\ Goto(c, "notDone")
       \/ Goto(c, "failed")
    /\ UNCHANGED <<station, db, link, last, bounds>>

\* The OCPP server or the API stops waiting for a station that is slow.
GiveUpCall(c) ==
    /\ pc[c] = "calling"
    /\ Goto(c, "failed")
    /\ late' = late \cup {c}
    /\ UNCHANGED <<attribute, db, link, last, bounds>>

\* Which handles the request after all, or never.
LateSet(c) ==
    /\ c \in late
    /\ late' = late \ {c}
    /\ attribute' \in {attribute, c}
    /\ UNCHANGED <<db, link, pc, last, bounds>>

\* The station answers Reset.  The result of the change is not "accepted": line 262
\* skips the database.
Reset(c) ==
    /\ pc[c] = "resetting" /\ link = "up"
    /\ Goto(c, "notDone")
    /\ UNCHANGED <<station, db, link, last, bounds>>

\* The API asks SQL_DB to store the password.
Ask(c) ==
    /\ pc[c] = "accepted"
    /\ Goto(c, "storing")
    /\ toDb' = Append(toDb, [op |-> "store", password |-> c])
    /\ UNCHANGED <<station, row, link, last, bounds>>

\* SQL_DB does not answer in time; the request may still be in its queue.
GiveUp(c) ==
    /\ pc[c] = "storing"
    /\ Goto(c, "failed")
    /\ UNCHANGED <<station, db, link, last, bounds>>

-------------------------------------------------------------------------------
(* The connection.                                                         *)

Drop ==
    /\ link = "up"
    /\ drops < MaxDrops
    /\ drops' = drops + 1
    /\ link' = "down"
    /\ UNCHANGED <<station, db, pc, last, faults, wiped, overlapping>>

\* Variant for the mutation runs: the client does not connect again.
ConnectOnce ==
    /\ link = "down"
    /\ drops = 0
    /\ link' = "checking"
    /\ toDb' = Append(toDb, [op |-> "verify", password |-> Argument])
    /\ UNCHANGED <<station, row, pc, last, bounds>>

\* The client connects with its command line's password, which is given to SQL_DB.  It has
\* read all that came over the connection before; what was not answered there fails.
Connect ==
    /\ link = "down"
    /\ link' = "checking"
    /\ toDb' = Append(toDb, [op |-> "verify", password |-> Argument])
    /\ pc' = [c \in Changes |-> IF pc[c] \in AtStation THEN "cut" ELSE pc[c]]
    /\ late' = {}
    /\ UNCHANGED <<attribute, row, last, bounds>>

\* The answer is too late: the client is refused, and SQL_DB has not handled the request
\* yet.
CheckFails ==
    /\ link = "checking"
    /\ Fault
    /\ link' = "down"
    /\ UNCHANGED <<station, db, pc, last>>

-------------------------------------------------------------------------------
(* SQL_DB.                                                                 *)

\* The answer to an attempt that was given up is dropped.
Verify ==
    /\ toDb # <<>> /\ Head(toDb).op = "verify"
    /\ toDb' = Tail(toDb)
    /\ link' = IF link # "checking" \/ \E i \in 2 .. Len(toDb) : toDb[i].op = "verify"
               THEN link
               ELSE IF Head(toDb).password = row THEN "up" ELSE "down"
    /\ UNCHANGED <<station, row, pc, last, bounds>>

\* Variant for the mutation runs: the caller is answered, but nothing is committed.
StoreNotCommitted ==
    /\ toDb # <<>> /\ Head(toDb).op = "store"
    /\ toDb' = Tail(toDb)
    /\ LET c == Head(toDb).password IN
        pc' = [pc EXCEPT ![c] = IF @ = "storing" THEN "done" ELSE @]
    /\ UNCHANGED <<station, row, link, last, bounds>>

\* The password is stored and the caller answered, or the request fails.
Store ==
    /\ toDb # <<>> /\ Head(toDb).op = "store"
    /\ toDb' = Tail(toDb)
    /\ LET c == Head(toDb).password IN
        \/ /\ row' = c
           /\ pc' = [pc EXCEPT ![c] = IF @ = "storing" THEN "done" ELSE @]
           /\ UNCHANGED bounds
        \/ /\ UNCHANGED row
           /\ pc' = [pc EXCEPT ![c] = IF @ = "storing" THEN "failed" ELSE @]
           /\ Fault
    /\ UNCHANGED <<station, link, last>>

\* SQL_DB is started again: create_Tables drops all tables and inserts the first rows.
\* What is in its queue stays there.
Restart ==
    /\ ~wiped
    /\ wiped' = TRUE
    /\ row' = Argument
    /\ UNCHANGED <<station, toDb, link, pc, last, drops, faults, overlapping>>

-------------------------------------------------------------------------------
Next ==
    \/ \E c \in Changes :
        \/ Begin(c) \/ Set(c) \/ WantReboot(c) \/ NotSet(c) \/ GiveUpCall(c) \/ LateSet(c)
        \/ Reset(c) \/ Ask(c) \/ GiveUp(c)
    \/ Drop \/ Connect \/ CheckFails
    \/ Verify \/ Store \/ Restart

\* The client connects for ever, the publish that asks for its password ends, and SQL_DB
\* works through its queue.
Fairness == WF_vars(Connect) /\ WF_vars(Verify \/ Store)

Spec == Init /\ [][Next]_vars /\ Fairness

-------------------------------------------------------------------------------
\* Every variable stays in its domain.
TypeOK ==
    /\ attribute \in Changes \cup {None}
    /\ row \in Passwords
    /\ link \in {"up", "down", "checking"}
    /\ pc \in [Changes -> PC]
    /\ last \in Changes \cup {None}
    /\ late \subseteq Changes
    /\ toDb \in Seq(Message)
    /\ drops \in 0 .. MaxDrops /\ faults \in 0 .. MaxFaults
    /\ wiped \in BOOLEAN /\ overlapping \in BOOLEAN

\* A change that is reported done leaves the station's BasicAuthPassword and SQL_DB's
\* password the same, though earlier changes were refused, wanted a reboot, lost an answer,
\* were given up and handled late (service.py:253-265), while changes do not overlap and
\* the tables are not dropped.  It does not say that the client connects with it.
DoneIsStored ==
    (~overlapping /\ ~wiped /\ last # None /\ pc[last] = "done") => attribute = row

\* Once any change was reported done, the old password opens no connection any more, not
\* even to an attempt that was on its way, until the tables are dropped.  The client of
\* this repository has no other password to offer (charge_station.py:104-106): once it
\* loses its connection, a successful change shuts it out.
OldPasswordIsOut ==
    [][(\E c \in Changes : pc[c] = "done") /\ ~wiped /\ link # "up" => link' # "up"]_vars

\* A client that is given SQL_DB's password gets in, whatever is lost, unless SQL_DB's
\* changes meanwhile (ocpp_server.py:28-38).
ClientReturns ==
    (link # "up" /\ row = Argument) ~> (link = "up" \/ row # Argument)
===============================================================================
