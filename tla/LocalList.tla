------------------------------- MODULE LocalList -------------------------------
(***************************************************************************)
(* The authorization list of a station and the authorizations it answers.  *)
(*                                                                         *)
(* service.py (send_authList) reads id tokens from the database and asks   *)
(* the OCPP server for an update; chargePointRepr.py (sendAuhorizationList,*)
(* sendListByChunks) decides each entry's status, reads the version of the *)
(* station's list and sends the entries in chunks; the station             *)
(* (charge_station.py, db_CS.py) installs a chunk as a whole or not at all. *)
(*                                                                         *)
(* A driver is authorized from the list first, then by the CSMS            *)
(* (request_authorize, authorize_idToken).                                 *)
(***************************************************************************)
EXTENDS Naturals, Sequences, FiniteSets, Functions

CONSTANTS Tokens,   \* id tokens
          Dated,    \* those with a cache_expiry_date_time
          Presented, \* those drivers present at the station
          Updates,  \* calls of send_authList, numbered in the order they read the rows
          Limits,   \* values the station gives for ItemsPerMessageSendLocalList
          MaxChanges, \* bound: changes of the rows
          None

ASSUME TokensAssumption ==
    /\ IsFiniteSet(Tokens) /\ None \notin Tokens
    /\ Dated \subseteq Tokens /\ Presented \subseteq Tokens
ASSUME LimitsAssumption == Limits \subseteq Nat /\ MaxChanges \in Nat
ASSUME UpdatesAssumption == Updates \subseteq Nat

VARIABLES csms,        \* [Tokens -> Row]: the IdToken and IdTokenInfo rows of SQL_DB
          changes,     \* how often they were changed
          overlapping, \* whether an update may start while another is in progress; never changes
          pc,          \* [Updates -> PC]
          kind,        \* [Updates -> Kinds]: update_type of the next message
          entries,     \* [Updates -> Seq(Entry)]: local_authorization_list
          rest,        \* [Updates -> Seq(Entry)]: entries the station has not been sent
          limit,       \* [Updates -> Nat]: max_items, 0 for None
          ver,         \* [Updates -> Nat]: version_number of its messages
          full,        \* [Updates -> BOOLEAN]: it was requested as a full update
          refused,     \* [Updates -> BOOLEAN]: some chunk was answered Failed
          listed,      \* [Tokens -> Status]: the station's list
          version,     \* its version
          auth         \* the driver's authorization in progress

update == <<pc, kind, entries, rest, limit, ver, full, refused>>
station == <<listed, version>>
rows == <<csms, changes>>
vars == <<rows, overlapping, update, station, auth>>

Row == {"absent", "valid", "blocked"}
PC == {"idle", "read", "sending", "done", "failed"}
Kinds == {"full", "differential"}
\* What the CSMS decided of an entry of the list: "valid" until it has.  An entry
\* without id_token_info removes the token.
Status == {"none", "valid", "accepted", "blocked", "invalid"}
Entry == [token : Tokens, status : (Status \ {"none"}) \cup {"remove"}]
Phase == {"idle", "asked", "granted"}
\* byList: it was answered from the list; valid: whether the CSMS had the token valid at
\* some time of the request.
NoAuth == [token |-> None, phase |-> "idle", answer |-> "none", byList |-> FALSE, valid |-> FALSE]
Auth == [token : Tokens \cup {None}, phase : Phase, answer : Status,
         byList : BOOLEAN, valid : BOOLEAN]

Init ==
    /\ csms = [t \in Tokens |-> "valid"]
    /\ changes = 0
    /\ overlapping \in BOOLEAN
    /\ pc = [u \in Updates |-> "idle"]
    /\ kind = [u \in Updates |-> "full"]
    /\ entries = [u \in Updates |-> <<>>]
    /\ rest = [u \in Updates |-> <<>>]
    /\ limit = [u \in Updates |-> 0]
    /\ ver = [u \in Updates |-> 0]
    /\ full = [u \in Updates |-> FALSE]
    /\ refused = [u \in Updates |-> FALSE]
    /\ listed = [t \in Tokens |-> "none"]
    /\ version = 1 \* DB16.db comes with a row of LocalList
    /\ auth = NoAuth

\* The operator creates a token, blocks it or removes it (create_idToken, CRUD).
ChangeRow(t) ==
    /\ changes < MaxChanges
    /\ changes' = changes + 1
    /\ \E r \in Row \ {csms[t]} :
        /\ csms' = [csms EXCEPT ![t] = r]
        /\ auth' = [auth EXCEPT !.valid =
                        @ \/ (auth.phase = "asked" /\ auth.token = t /\ r = "valid")]
    /\ UNCHANGED <<overlapping, update, station>>

-------------------------------------------------------------------------------
(* The update.                                                             *)

InProgress(u) == pc[u] \in {"read", "sending"}

Give(u, up, l) ==
    /\ pc' = [pc EXCEPT ![u] = "read"]
    /\ kind' = [kind EXCEPT ![u] = up]
    /\ entries' = [entries EXCEPT ![u] = l]
    /\ full' = [full EXCEPT ![u] = (up = "full")]
    /\ UNCHANGED <<rest, limit, ver, refused>>

Fail(u) ==
    /\ pc' = [pc EXCEPT ![u] = "failed"]
    /\ limit' = [limit EXCEPT ![u] = 0]
    /\ UNCHANGED <<kind, entries, rest, ver, full, refused>>

\* The rows are read: all of them, in any order, for a full update, the one named for
\* "add", its key alone for "delete".  No row, or more than one name (after the first the
\* type is no longer "add" or "delete", and the next name is used as if it were a row),
\* ends the request with an error.
Read(u) ==
    /\ pc[u] = "idle"
    /\ \A w \in Updates : w < u => pc[w] # "idle"
    /\ overlapping \/ \A w \in Updates : ~InProgress(w)
    /\ \/ LET present == {t \in Tokens : csms[t] # "absent"} IN
            /\ present # {}
            /\ \E l \in Bijection(1 .. Cardinality(present), present) :
                Give(u, "full", [i \in DOMAIN l |-> [token |-> l[i], status |-> csms[l[i]]]])
       \/ \E t \in Tokens : \E st \in {csms[t], "remove"} :
            /\ csms[t] # "absent"
            /\ Give(u, "differential", <<[token |-> t, status |-> st]>>)
       \/ Fail(u)
    /\ UNCHANGED <<rows, overlapping, station, auth>>

\* authorize_idToken decides on what was read: a select of the EVSEs that fails makes
\* a valid token "invalid".
Decided(e, lost) ==
    [e EXCEPT !.status = IF @ # "valid" THEN @
                         ELSE IF e.token \in lost THEN "invalid" ELSE "accepted"]

\* Variant for the mutation runs: the version is not raised.
PrepareSameVersion(u) ==
    /\ pc[u] = "read"
    /\ \E lost \in {{}, Tokens}, n \in Limits \cup {0} :
        LET l == [i \in DOMAIN entries[u] |-> Decided(entries[u][i], lost)] IN
        /\ entries' = [entries EXCEPT ![u] = l]
        /\ rest' = [rest EXCEPT ![u] = l]
        /\ limit' = [limit EXCEPT ![u] = n]
    /\ pc' = [pc EXCEPT ![u] = "sending"]
    /\ ver' = [ver EXCEPT ![u] = version]
    /\ UNCHANGED <<rows, overlapping, kind, full, refused, station, auth>>

\* The statuses are decided, then the version and the limit are asked of the station.
\* A limit that cannot be read is no limit.
Prepare(u) ==
    /\ pc[u] = "read"
    /\ \E lost \in {{}, Tokens}, n \in Limits \cup {0} :
        LET l == [i \in DOMAIN entries[u] |-> Decided(entries[u][i], lost)] IN
        /\ entries' = [entries EXCEPT ![u] = l]
        /\ rest' = [rest EXCEPT ![u] = l]
        /\ limit' = [limit EXCEPT ![u] = n]
    /\ pc' = [pc EXCEPT ![u] = "sending"]
    /\ ver' = [ver EXCEPT ![u] = version + 1]
    /\ UNCHANGED <<rows, overlapping, kind, full, refused, station, auth>>

\* The call for the version fails.
PrepareFails(u) == pc[u] = "read" /\ Fail(u) /\ UNCHANGED <<rows, overlapping, station, auth>>

\* How many entries go in the next message: a list over the limit is split at the
\* limit and the first part is sent.  (getsizeof gives the size of the payload object
\* and not of its list, so max_bytes refuses all lists or none.)
Chunk(u) ==
    IF limit[u] = 0 \/ Len(rest[u]) <= limit[u] THEN Len(rest[u]) ELSE limit[u]

-------------------------------------------------------------------------------
(* The station.                                                            *)

\* An expiry date comes as a string, which the DateTime column does not take; a
\* token that is not in the list cannot be removed.
CannotInstall(e, base) ==
    \/ e.status = "accepted" /\ e.token \in Dated
    \/ e.status = "remove" /\ base[e.token] = "none"

Base(k) == IF k = "full" THEN [t \in Tokens |-> "none"] ELSE listed

\* updateLocalList, one database transaction.
Installed(msg, k) ==
    [t \in Tokens |->
        IF \E i \in DOMAIN msg : msg[i].token = t
        THEN LET e == msg[CHOOSE i \in DOMAIN msg : msg[i].token = t]
             IN  IF e.status = "remove" THEN "none" ELSE e.status
        ELSE Base(k)[t]]

\* on_SendLocalList: the version check refuses versions below 1 only.
Refuses(u, msg) ==
    \/ 0 >= ver[u] /\ ver[u] <= version
    \/ \E i \in DOMAIN msg : CannotInstall(msg[i], Base(kind[u]))

\* A chunk is sent, the station installs or refuses it, and the answer comes back or
\* is lost, which raises and ends the update.  A refusal ends nothing.  Calls to one
\* station wait for each other, so that no other chunk comes in between.  k is the
\* type of the messages that follow.
Send(u, k) ==
    /\ pc[u] = "sending"
    /\ LET msg == SubSeq(rest[u], 1, Chunk(u))
           left == SubSeq(rest[u], Chunk(u) + 1, Len(rest[u]))
       IN  /\ rest' = [rest EXCEPT ![u] = left]
           /\ \/ pc' = [pc EXCEPT ![u] = IF left = <<>> THEN "done" ELSE @]
              \/ pc' = [pc EXCEPT ![u] = "failed"]
           /\ limit' = [limit EXCEPT ![u] = IF pc'[u] = "sending" THEN @ ELSE 0]
           /\ IF Refuses(u, msg)
              THEN refused' = [refused EXCEPT ![u] = TRUE] /\ UNCHANGED station
              ELSE listed' = Installed(msg, kind[u]) /\ version' = ver[u] /\ UNCHANGED refused
    /\ kind' = [kind EXCEPT ![u] = k]
    /\ UNCHANGED <<rows, overlapping, entries, ver, full, auth>>

\* Variant for the mutation runs: every message keeps the update_type of the first.
DeliverKeepsType(u) == Send(u, kind[u])

\* Variant for the mutation runs: a list over the limit is put back whole.
DeliverUnsplit(u) == (limit[u] > 0 => Len(rest[u]) <= limit[u]) /\ Send(u, "differential")

\* One turn of the loop in sendListByChunks that sends: after the first message the
\* update_type is "differential".
Deliver(u) == Send(u, "differential")

\* The message does not reach the station, or is too large as such.
DeliverFails(u) ==
    pc[u] = "sending" /\ Fail(u) /\ UNCHANGED <<rows, overlapping, station, auth>>

-------------------------------------------------------------------------------
(* The driver's authorization.                                             *)

\* Variant for the mutation runs: any answer of the list is taken.
AskAnyAnswer(t) ==
    /\ auth.phase # "asked"
    /\ auth' = [token |-> t, phase |-> "granted",
                answer |-> IF listed[t] # "none" THEN "accepted" ELSE "none",
                byList |-> (listed[t] # "none"), valid |-> (csms[t] = "valid")]
    /\ UNCHANGED <<rows, overlapping, update, station>>

\* request_authorize: a listed token is accepted, whatever its status (no listed entry
\* has a date that could be past); for another one the CSMS is asked, when connected.
Ask(t) ==
    /\ auth.phase # "asked"
    /\ auth' = [token |-> t, phase |-> IF listed[t] # "none" THEN "granted" ELSE "asked",
                answer |-> IF listed[t] # "none" THEN "accepted" ELSE "none",
                byList |-> (listed[t] # "none"), valid |-> (csms[t] = "valid")]
    /\ UNCHANGED <<rows, overlapping, update, station>>

\* authorize_idToken: the row is read; then the EVSEs are, and the date is compared.
Select ==
    /\ auth.phase = "asked" /\ auth.answer = "none"
    /\ \E s \in CASE csms[auth.token] = "valid" -> {"accepted", "invalid"}
                  [] OTHER -> {"blocked"} :
        auth' = [auth EXCEPT !.answer = s]
    /\ UNCHANGED <<rows, overlapping, update, station>>

\* The answer reaches the station, or the call fails.
Answer ==
    /\ auth.phase = "asked" /\ auth.answer # "none"
    /\ \/ auth.answer = "accepted" /\ auth' = [auth EXCEPT !.phase = "granted"]
       \/ auth' = NoAuth
    /\ UNCHANGED <<rows, overlapping, update, station>>

-------------------------------------------------------------------------------
Next ==
    \/ \E t \in Tokens : ChangeRow(t)
    \/ \E t \in Presented : Ask(t)
    \/ \E u \in Updates : Read(u) \/ Prepare(u) \/ PrepareFails(u) \/ Deliver(u) \/ DeliverFails(u)
    \/ Select
    \/ Answer

\* A task of the event loop is resumed; the calls it makes to the station have a timeout,
\* which is one of the outcomes of Prepare and Deliver, and the publishes of Prepare's
\* selects end.
Fairness == \A u \in Updates : WF_vars(Prepare(u)) /\ WF_vars(Deliver(u))

Spec == Init /\ [][Next]_vars /\ Fairness

-------------------------------------------------------------------------------
\* Every variable stays in its domain.
TypeOK ==
    /\ csms \in [Tokens -> Row]
    /\ changes \in Nat
    /\ overlapping \in BOOLEAN
    /\ pc \in [Updates -> PC]
    /\ kind \in [Updates -> Kinds]
    /\ entries \in [Updates -> Seq(Entry)]
    /\ rest \in [Updates -> Seq(Entry)]
    /\ limit \in [Updates -> Nat]
    /\ ver \in [Updates -> Nat]
    /\ full \in [Updates -> BOOLEAN]
    /\ refused \in [Updates -> BOOLEAN]
    /\ listed \in [Tokens -> Status]
    /\ version \in Nat
    /\ auth \in Auth

\* A version of 0: nothing is sent yet.
Sent(u) ==
    IF ver[u] = 0 THEN <<>> ELSE SubSeq(entries[u], 1, Len(entries[u]) - Len(rest[u]))

\* A full update leaves the station with its entries only.  At every moment, also when
\* the update was cut short by a lost answer, the list is what was sent of the latest
\* full update, with the status the CSMS gave each token, if none of its messages was
\* refused and updates do not overlap (chargePointRepr.py:160-206, db_CS.py:121-139).
FullReplaces ==
    \A u \in Updates :
        (~overlapping /\ full[u] /\ Sent(u) # <<>> /\ ver[u] = version /\ ~refused[u])
            => \A t \in Tokens :
                listed[t] = IF \E i \in DOMAIN Sent(u) : Sent(u)[i].token = t
                            THEN Sent(u)[CHOOSE i \in DOMAIN Sent(u) : Sent(u)[i].token = t].status
                            ELSE "none"

\* A version names one content: updates that do not overlap never install under the
\* same version, nor one older than the station has (chargePointRepr.py:562-566).
VersionForward ==
    [][~overlapping /\ listed' # listed =>
        \/ version' = version + 1
        \/ version' = version /\ \E u \in Updates : ver[u] = version /\ pc[u] = "sending"
                                                    /\ rest[u] # entries[u]]_vars

\* An authorization is granted without the list only if the CSMS had the token valid
\* during the request, though its row may change between the two reads and the answer
\* (charge_station.py:305-315, chargePointRepr.py:76-104).
GrantedWhileValid ==
    auth.phase = "granted" => auth.valid \/ auth.byList

\* Every update ends: the messages get through the list, or one of them fails
\* (the loop of chargePointRepr.py:165-204).
EveryUpdateEnds ==
    \A u \in Updates : pc[u] = "read" ~> pc[u] \in {"done", "failed"}
===============================================================================
