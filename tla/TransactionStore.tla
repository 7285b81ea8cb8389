--------------------------- MODULE TransactionStore ---------------------------
(***************************************************************************)
(* SQL_DB's record of one charging transaction: the Transaction row, the   *)
(* Transaction_Event rows under it, and db.py's handlers that write and    *)
(* read them.  The station numbers the events 0..Last (seq_no): event 0 is *)
(* "started", event Last is "ended", those between are "updated".          *)
(*                                                                         *)
(* Events reach the database late, twice or never: the station queues what *)
(* it cannot send, sends again what was not answered, the broker hands the *)
(* messages to concurrent tasks and a failed statement is tried again one  *)
(* second later, so nothing below relies on their order.                   *)
(*                                                                         *)
(* The value of a column is represented by the seq_no of the event that    *)
(* supplied it: that is all the properties tell apart.                     *)
(***************************************************************************)
EXTENDS Integers, FiniteSets, FiniteSetsExt

CONSTANTS Last,       \* seq_no of the event that ends the transaction
          Fields,     \* columns of Transaction that events may carry a value for
          PlainFields,\* those from which a missing value is removed (db.py:301)
          MaxSends,   \* bound: how often the station sends one event
          None        \* SQL NULL / Python None

ASSUME LastAssumption == Last \in Nat \ {0}
ASSUME FieldsAssumption == PlainFields \subseteq Fields
ASSUME MaxSendsAssumption == MaxSends \in Nat
ASSUME NoneAssumption == None \notin 0 .. Last

VARIABLES event,    \* [0..Last -> Event], None: what the station has recorded
          sends,    \* [0..Last -> 0..MaxSends]: times an event was sent
          wire,     \* events sent and not yet handled by the database
          retrying, \* events whose first attempt raised OperationalError
          stored,   \* seq_no of the Transaction_Event rows
          active,   \* Transaction.active
          val       \* [Fields -> 0..Last], None: the other Transaction columns

station == <<event, sends>>
row == <<stored, active, val>>
vars == <<event, sends, wire, retrying, stored, active, val>>

Seqs == 0 .. Last

\* online: the event says offline = false.  One that says true, or nothing, is
\* treated alike (db.py:311).
Event == [online : BOOLEAN, carries : SUBSET Fields]

Exists == stored # {}

Init ==
    /\ event = [n \in Seqs |-> None]
    /\ sends = [n \in Seqs |-> 0]
    /\ wire = {}
    /\ retrying = {}
    /\ stored = {}
    /\ active = FALSE
    /\ val = [f \in Fields |-> None]

-------------------------------------------------------------------------------
(* The station and the way to the database.                                *)

\* The station records its next event, with the columns it carries a value for.
Record(n, e) ==
    /\ event[n] = None
    /\ \A m \in Seqs : m < n => event[m] # None
    /\ event' = [event EXCEPT ![n] = e]
    /\ UNCHANGED <<sends, wire, retrying, row>>

\* A recorded event is sent, or sent again because no answer was seen: directly
\* or from the queue of the station, in no particular order.
Send(n) ==
    /\ event[n] # None
    /\ n \notin wire
    /\ sends[n] < MaxSends
    /\ sends' = [sends EXCEPT ![n] = @ + 1]
    /\ wire' = wire \cup {n}
    /\ UNCHANGED <<event, retrying, row>>

\* ocpp_log swallows every failure to publish, and a database process that stops
\* after its ack has consumed the message without handling it.
Lose(n) ==
    /\ n \in wire
    /\ wire' = wire \ {n}
    /\ UNCHANGED <<station, retrying, row>>

-------------------------------------------------------------------------------
(* DataBase.TransactionEvent and its transaction boundary.                 *)

\* Variant for the mutation runs: no look at the more recent events.
OldNever(n) == FALSE

\* A more recent event of the transaction is stored already.
Old(n) == \E m \in stored : m > n

\* The column is among the keys of transaction_info: a plain one only when the
\* event carries it, cable_max_current always (db.py:259).
Written(f, e) == f \in e.carries \/ f \notin PlainFields

\* Variant for the mutation runs: the ended event does not clear the column.
ActiveAfterEndedIgnored(n, e) == IF ~Old(n) /\ e.online THEN TRUE ELSE active

\* Transaction.active after event n, which is not the row's first event.
ActiveAfter(n, e) ==
    IF Old(n) THEN active
    ELSE IF n = Last THEN FALSE
    ELSE IF e.online THEN TRUE
    ELSE active

\* The columns after event n.  On the first event the row is new and all NULL.
ValAfter(n, e) ==
    [f \in Fields |->
        IF Written(f, e) /\ (Old(n) => val[f] = None)
        THEN IF f \in e.carries THEN n ELSE None
        ELSE val[f]]

\* One call of TransactionEvent with its commit.  An event whose (seq_no,
\* transaction_id) is stored violates the primary key: everything is rolled back.
Apply(n) ==
    IF n \in stored
    THEN UNCHANGED row
    ELSE /\ stored' = stored \cup {n}
         /\ active' = IF Exists THEN ActiveAfter(n, event[n]) ELSE n # Last
         /\ val' = ValAfter(n, event[n])

\* on_db_request, first attempt succeeds (or is rejected by the primary key).
Process(n) ==
    /\ n \in wire
    /\ wire' = wire \ {n}
    /\ Apply(n)
    /\ UNCHANGED <<station, retrying>>

\* Variant for the mutation runs: the failed attempt is not rolled back.
FailOnceNoRollback(n) ==
    /\ n \in wire
    /\ wire' = wire \ {n}
    /\ retrying' = retrying \cup {n}
    /\ val' = ValAfter(n, event[n])
    /\ UNCHANGED <<station, stored, active>>

\* The first attempt raises: rolled back, and tried again in 1 s by the branch for
\* OperationalError (db.py:63).  It names PyMySQL's class, and SQLAlchemy raises one of its
\* own instead, so the second attempt allows more than what happens; without it FailOnce
\* and GiveUp are one step.
FailOnce(n) ==
    /\ n \in wire
    /\ wire' = wire \ {n}
    /\ retrying' = retrying \cup {n}
    /\ UNCHANGED <<station, row>>

\* The second attempt.
Retry(n) ==
    /\ n \in retrying
    /\ retrying' = retrying \ {n}
    /\ Apply(n)
    /\ UNCHANGED <<station, wire>>

\* The second attempt fails as well; on_request logs it and nothing follows.
GiveUp(n) ==
    /\ n \in retrying
    /\ retrying' = retrying \ {n}
    /\ UNCHANGED <<station, wire, row>>

\* The update the server sends when it takes the charge point for offline.
SetInactive ==
    /\ Exists /\ active
    /\ active' = FALSE
    /\ UNCHANGED <<station, wire, retrying, stored, val>>

\* Variant for the mutation runs: one row too few passes for complete.
VerifyOffByOne ==
    IF ~Exists \/ Min(stored) # 0 THEN "ERROR"
    ELSE IF Max(stored) # Last \/ Max(stored) - Min(stored) > Cardinality(stored)
         THEN "MISSING_MESSAGES"
         ELSE "OK"

\* verify_received_all_transaction: what the database answers when asked whether
\* it has every event.
Verify ==
    IF ~Exists \/ Min(stored) # 0 THEN "ERROR"
    ELSE IF Max(stored) # Last \/ Max(stored) - Min(stored) > Cardinality(stored) - 1
         THEN "MISSING_MESSAGES"
         ELSE "OK"

Next ==
    \/ \E n \in Seqs, e \in Event : Record(n, e)
    \/ \E n \in Seqs : Send(n)
    \/ \E n \in Seqs : Lose(n)
    \/ \E n \in Seqs : Process(n)
    \/ \E n \in Seqs : FailOnce(n)
    \/ \E n \in Seqs : Retry(n)
    \/ \E n \in Seqs : GiveUp(n)
    \/ SetInactive

Spec == Init /\ [][Next]_vars

-------------------------------------------------------------------------------
(* Properties.                                                             *)

\* Every variable stays in its domain; an event on its way was recorded.
TypeOK ==
    /\ event \in [Seqs -> Event \cup {None}]
    /\ sends \in [Seqs -> 0 .. MaxSends]
    /\ wire \subseteq {n \in Seqs : event[n] # None}
    /\ retrying \subseteq {n \in Seqs : event[n] # None}
    /\ stored \subseteq {n \in Seqs : event[n] # None}
    /\ active \in BOOLEAN
    /\ val \in [Fields -> Seqs \cup {None}]

IsNewest(n) == n \in stored /\ \A m \in stored : m <= n

\* Whatever the order of arrival, a column the most recent stored event carries
\* has the value of that event (db.py:315-324).
NewestEventWins ==
    \A n \in Seqs, f \in Fields :
        IsNewest(n) /\ f \in event[n].carries => val[f] = n

\* Once the ended event is stored the transaction is not active, although older
\* events, all of them "active", may still arrive (db.py:308-321).
EndedIsInactive == Last \in stored => ~active

\* No column holds a value that no stored event carries: duplicates and failed
\* attempts leave no trace.
ValuesComeFromStoredEvents ==
    \A f \in Fields :
        val[f] # None => val[f] \in stored /\ f \in event[val[f]].carries

\* verify_received_all_transaction says OK exactly when every event the station
\* recorded is stored (db.py:245-250).
VerifiedIffComplete == Verify = "OK" <=> stored = Seqs

\* A known value of a plain column is replaced only by that of an event more recent
\* than all stored ones, and never by NULL (db.py:301, 318-324).
ReplacedOnlyByNewer ==
    [][\A f \in PlainFields :
          val[f] # None /\ val'[f] # val[f] =>
              /\ val'[f] # None
              /\ \A m \in stored : val'[f] > m]_vars

\* A transaction marked inactive (ended, or its charge point gone offline) becomes
\* active again only through a more recent event that was sent online.
ReactivatedOnlyByNewerOnlineEvent ==
    [][Exists /\ ~active /\ active' =>
          \E n \in stored' \ stored :
              /\ \A m \in stored : m < n
              /\ event[n].online]_vars

\* The record the database promises: the newest stored event and `active`.
Newest == IF Exists THEN Max(stored) ELSE -1
Promise == INSTANCE TransactionRecord WITH newest <- Newest

\* The rows implement the abstract record: it only moves forward, an old event or
\* a duplicate is a stutter, and the last event closes it (db.py:308-326).
ImplementsRecord == Promise!Spec
===============================================================================
