---------------------------- MODULE ChargingProfiles ----------------------------
(***************************************************************************)
(* Charging profiles of one station: the ids the OCPP server gives them,   *)
(* the rows of SQL_DB, and the profiles the station has                    *)
(* (chargePointRepr.py, service.py setmaxpower, db.py).                    *)
(*                                                                         *)
(* setChargingProfile takes an id, asks the database for conflicting       *)
(* profiles, asks the station, and publishes the profile for the database  *)
(* to store.  Each of these is an await during which other requests run.   *)
(***************************************************************************)
EXTENDS Integers, Sequences, FiniteSets

CONSTANTS Calls,        \* requests of the API
          EVSEs,        \* evse ids of the station
          Levels,       \* stack levels
          Trans,        \* transactions
          GivenIds,     \* profile ids a request may name
          ExternalIds,  \* ids of the station's external constraints
          FirstId,      \* charging_profile_id of the variables file
          MaxId,        \* bound: ids
          MaxOverlapping, \* bound: requests, where they overlap
          None

ASSUME IdsAssumption ==
    /\ FirstId \in Nat \ {0} /\ MaxId \in Nat \ {0} /\ MaxOverlapping \in Nat
    /\ GivenIds \cup ExternalIds \subseteq 1 .. MaxId
ASSUME EvsesAssumption == EVSEs # {} /\ EVSEs \subseteq Nat \ {0} /\ Levels \subseteq Nat
ASSUME NoneAssumption == None \notin Trans \cup Calls \cup GivenIds

VARIABLES counter,     \* charging_profile_id in memory
          saved,       \* charging_profile_id in the variables file
          life,        \* the server has not stopped yet, was restarted, or crashed
          overlapping, \* whether requests overlap; never changes
          pc,          \* [Calls -> PC]
          prof,        \* [Calls -> Profile \cup {None}]: the profile of a request
          own,         \* [Calls -> BOOLEAN]: the server chose its id
          toDb,        \* Seq(Message): messages in SQL_DB's queue
          rows,        \* SUBSET Profile: the ChargingProfile rows
          have,        \* SUBSET Profile: the profiles the station has installed
          ended        \* transactions that have ended

request == <<pc, prof, own>>
server == <<counter, saved, life>>
vars == <<server, overlapping, request, toDb, rows, have, ended>>

PC == {"idle", "reading", "checking", "calling", "accepted", "done", "failed"}
Ids == 1 .. MaxId
\* evse 0: the whole station.  Profiles without dates are valid from now on; those with
\* dates of the past or the future are left out.
Profile == [id : Ids, evse : EVSEs \cup {0}, purpose : {"tx", "default"},
            level : Levels \cup {0}, tran : Trans \cup {None}]
Message == [op : {"create"}, profile : Profile] \cup [op : {"remove"}, tran : Trans]
           \cup [op : {"select", "read"}, call : Calls] \cup [op : {"clear"}]
InProgress(c) == pc[c] \in {"reading", "checking", "calling", "accepted"}

Init ==
    /\ counter = FirstId
    /\ saved = FirstId
    /\ life = "first"
    /\ overlapping \in BOOLEAN
    /\ pc = [c \in Calls |-> "idle"]
    /\ prof = [c \in Calls |-> None]
    /\ own = [c \in Calls |-> FALSE]
    /\ toDb = <<>>
    /\ rows = {}
    /\ have = {}
    /\ ended = {}

-------------------------------------------------------------------------------
(* The requests.                                                           *)

MayStart(c) ==
    /\ pc[c] = "idle"
    /\ IF overlapping THEN Cardinality({d \in Calls : pc[d] # "idle"}) < MaxOverlapping
       ELSE \A d \in Calls : ~InProgress(d)

\* Variant for the mutation runs: the counter is raised when the request has ended.
ChooseLate(c, given) == UNCHANGED counter /\ (given # None \/ counter <= MaxId)

\* choose_profile_id: the counter is handed out and then raised.
Choose(c, given) ==
    IF given # None THEN UNCHANGED counter ELSE counter <= MaxId /\ counter' = counter + 1

\* A request with profile p, or with an id of the server's.
Begin(c, p, given, next) ==
    /\ Choose(c, given)
    /\ prof' = [prof EXCEPT ![c] = [p EXCEPT !.id = IF given = None THEN counter ELSE given]]
    /\ own' = [own EXCEPT ![c] = (given = None)]
    /\ pc' = [pc EXCEPT ![c] = next]
    /\ UNCHANGED <<saved, life, overlapping, rows, have, ended>>

\* verify_charging_profile_structure, after the id is chosen.
WellFormed(p) == IF p.purpose = "tx" THEN p.tran # None /\ p.evse # 0 ELSE p.tran = None

Some(evse, purpose, level, tran) ==
    [id |-> 1, evse |-> evse, purpose |-> purpose, level |-> level, tran |-> tran]

\* setChargingProfile: the database is asked for the profiles that may conflict.
SetProfile(c) ==
    /\ MayStart(c)
    /\ \E e \in EVSEs \cup {0}, u \in {"tx", "default"}, l \in Levels,
         x \in Trans \cup {None}, g \in GivenIds \cup {None} :
        LET p == Some(e, u, l, x) IN
        IF WellFormed(p)
        THEN Begin(c, p, g, "checking") /\ toDb' = Append(toDb, [op |-> "select", call |-> c])
        ELSE g = None /\ Begin(c, p, g, "failed") /\ UNCHANGED toDb

\* setmaxpower reads the transaction's profiles first.
SetMaxPower(c) ==
    /\ MayStart(c)
    /\ pc' = [pc EXCEPT ![c] = "reading"]
    /\ \E e \in EVSEs, x \in Trans :
        prof' = [prof EXCEPT ![c] = Some(e, "tx", 0, x)]
    /\ toDb' = Append(toDb, [op |-> "read", call |-> c])
    /\ UNCHANGED <<server, overlapping, own, rows, have, ended>>

\* requestStartTransaction with a profile, after the id is chosen: no transaction yet, and
\* no check for conflicts.
StartWithProfile(c) ==
    /\ MayStart(c)
    /\ \E e \in EVSEs, u \in {"tx", "default"}, l \in Levels,
         x \in Trans \cup {None}, g \in GivenIds \cup {None} :
        IF u = "tx" /\ x = None
        THEN Begin(c, Some(e, u, l, x), g, "calling")
        ELSE g = None /\ Begin(c, Some(e, u, l, x), g, "failed")
    /\ UNCHANGED toDb

\* Calls to one station wait for each other.  It takes a profile in the place of the one
\* with that id, if the transaction goes on; the answer comes back or is lost.
Accept(c) ==
    /\ pc[c] = "calling"
    /\ prof[c].tran \notin ended
    /\ have' = {p \in have : p.id # prof[c].id} \cup {prof[c]}
    /\ \E next \in {"accepted", "failed"} : pc' = [pc EXCEPT ![c] = next]
    /\ UNCHANGED <<server, overlapping, prof, own, toDb, rows, ended>>

Refuse(c) ==
    /\ pc[c] = "calling"
    /\ pc' = [pc EXCEPT ![c] = "failed"]
    /\ UNCHANGED <<server, overlapping, prof, own, toDb, rows, have, ended>>

\* The profile is published for SQL_DB, or the publish fails unnoticed.
Publish(c) ==
    /\ pc[c] = "accepted"
    /\ pc' = [pc EXCEPT ![c] = "done"]
    /\ \/ toDb' = Append(toDb, [op |-> "create", profile |-> prof[c]])
       \/ UNCHANGED toDb
    /\ UNCHANGED <<server, overlapping, prof, own, rows, have, ended>>

\* clearChargingProfile with criteria (without them line 493 raises).
Clear(c) ==
    /\ MayStart(c)
    /\ \E u \in {"tx", "default"}, l \in Levels :
        have' = {p \in have : ~(p.purpose = u /\ p.level = l)}
    /\ pc' = [pc EXCEPT ![c] = "done"]
    /\ toDb' = Append(toDb, [op |-> "clear"])
    /\ UNCHANGED <<server, overlapping, prof, own, rows, ended>>

\* A TransactionEvent ends a transaction: the station drops its profiles, the server
\* has their rows removed.
End(x) ==
    /\ x \notin ended
    /\ ended' = ended \cup {x}
    /\ have' = {p \in have : p.tran # x}
    /\ toDb' = Append(toDb, [op |-> "remove", tran |-> x])
    /\ UNCHANGED <<server, overlapping, request, rows>>

\* new_external_profiles: the counter skips an id the station uses, if it is larger.
External(i) ==
    /\ i > counter
    /\ counter' = i + 1
    /\ UNCHANGED <<saved, life, overlapping, request, toDb, rows, have, ended>>

\* The server stops, once in a behaviour, and is started again; requests in progress are
\* lost.  shut_down writes the counter, a crash does not.
Restart ==
    /\ life = "first"
    /\ \/ saved' = counter /\ life' = "restarted" /\ UNCHANGED counter
       \/ counter' = saved /\ life' = "crashed" /\ UNCHANGED saved
    /\ pc' = [c \in Calls |-> IF InProgress(c) THEN "failed" ELSE pc[c]]
    /\ UNCHANGED <<overlapping, prof, own, toDb, rows, have, ended>>

-------------------------------------------------------------------------------
(* SQL_DB.                                                                 *)

OnEvses(p) == IF p.evse = 0 THEN EVSEs ELSE {p.evse}

\* Variant for the mutation runs: evse id 0 is compared like another.
SelectedExact(p) ==
    {r \in rows : p.evse \in OnEvses(r) /\ r.purpose = p.purpose
                  /\ (p.level = 0 \/ r.level = p.level)}

\* get_charging_profiles_criteria: an evse id of 0 and a stack level of 0 do not filter.
Selected(p) ==
    {r \in rows : (p.evse = 0 \/ p.evse \in OnEvses(r)) /\ r.purpose = p.purpose
                  /\ (p.level = 0 \/ r.level = p.level)}

\* charging_profile_assert_no_conflicts: profiles without dates always overlap.
InConflict(p, r) == r.id # p.id /\ (p.purpose = "tx" => p.tran = r.tran)

Head1 == toDb # <<>> /\ toDb' = Tail(toDb)

\* The answer to a select, and the check it is for.
DbSelect ==
    /\ Head1 /\ Head(toDb).op = "select"
    /\ LET c == Head(toDb).call
           found == {r \in Selected(prof[c]) : InConflict(prof[c], r)}
       IN  IF pc[c] # "checking" THEN UNCHANGED pc ELSE
           pc' = [pc EXCEPT ![c] = IF found # {} THEN "failed" ELSE "calling"]
    /\ UNCHANGED <<server, overlapping, prof, own, rows, have, ended>>

\* The answer to setmaxpower, and the request it makes: the transaction's profile of the
\* highest level is replaced, or a new one is added at level 0.
DbRead ==
    /\ toDb # <<>> /\ Head(toDb).op = "read"
    /\ LET c == Head(toDb).call
           mine == {r \in rows : r.tran = prof[c].tran}
       IN  IF pc[c] # "reading" THEN toDb' = Tail(toDb) /\ UNCHANGED <<counter, request>> ELSE
           /\ toDb' = Append(Tail(toDb), [op |-> "select", call |-> c])
           /\ pc' = [pc EXCEPT ![c] = "checking"]
           /\ IF mine = {}
              THEN /\ Choose(c, None)
                   /\ prof' = [prof EXCEPT ![c].id = counter]
                   /\ own' = [own EXCEPT ![c] = TRUE]
              ELSE /\ \E r \in mine :
                        /\ \A s \in mine : s.level <= r.level
                        /\ prof' = [prof EXCEPT ![c].id = r.id, ![c].level = r.level]
                   /\ UNCHANGED <<counter, own>>
    /\ UNCHANGED <<saved, life, overlapping, rows, have, ended>>

\* create_Charging_profile: in the place of the row with that id.
DbCreate ==
    /\ Head1 /\ Head(toDb).op = "create"
    /\ rows' = {r \in rows : r.id # Head(toDb).profile.id} \cup {Head(toDb).profile}
    /\ UNCHANGED <<server, overlapping, request, have, ended>>

DbRemove ==
    /\ Head1 /\ Head(toDb).op = "remove"
    /\ rows' = {r \in rows : r.tran # Head(toDb).tran}
    /\ UNCHANGED <<server, overlapping, request, have, ended>>

\* clearChargingProfile: delete() of a joined query raises, and nothing is deleted.
DbClear ==
    /\ Head1 /\ Head(toDb).op = "clear"
    /\ UNCHANGED <<server, overlapping, request, rows, have, ended>>

-------------------------------------------------------------------------------
Next ==
    \/ \E c \in Calls :
        \/ SetProfile(c) \/ SetMaxPower(c) \/ StartWithProfile(c) \/ Clear(c)
        \/ Accept(c) \/ Refuse(c) \/ Publish(c)
    \/ \E x \in Trans : End(x)
    \/ \E i \in ExternalIds : External(i)
    \/ Restart
    \/ DbSelect \/ DbRead \/ DbCreate \/ DbRemove \/ DbClear

Spec == Init /\ [][Next]_vars

-------------------------------------------------------------------------------
\* Every variable stays in its domain; the ids the server hands out are positive.
TypeOK ==
    /\ counter \in Nat \ {0} /\ saved \in Nat \ {0} /\ life \in {"first", "restarted", "crashed"}
    /\ overlapping \in BOOLEAN
    /\ pc \in [Calls -> PC]
    /\ prof \in [Calls -> Profile \cup {None}]
    /\ own \in [Calls -> BOOLEAN]
    /\ toDb \in Seq(Message)
    /\ rows \subseteq Profile
    /\ have \subseteq Profile
    /\ ended \subseteq Trans

\* The rows never contradict each other while requests do not overlap: two profiles of
\* one purpose and stack level are for different EVSEs or transactions, whatever profiles
\* for the whole station, replacements, restarts and failures came in between
\* (chargePointRepr.py:348-370, db.py:377-398).
NoConflictingRows ==
    ~overlapping =>
        \A r, s \in rows :
            (r # s /\ r.purpose = s.purpose /\ r.level = s.level
                /\ OnEvses(r) \cap OnEvses(s) # {})
                => r.tran # s.tran \/ (r.purpose = "tx" /\ r.tran = None)

\* No two requests are given one id by the server until it crashes, though they overlap
\* and fail at any point (chargePointRepr.py:389-399, 476-483).
FreshIds ==
    life # "crashed" => \A c, d \in Calls : (c # d /\ own[c] /\ own[d]) => prof[c].id # prof[d].id
===============================================================================
