----------------------------- MODULE TransactionCache -----------------------------
(***************************************************************************)
(* The API's transaction_cache (service.py): the events of transactions    *)
(* add entries and remove them, set_transaction_limits reads an entry,     *)
(* asks the station, and writes the entry when the answer is there.        *)
(*                                                                         *)
(* The transactions are those of one station.  The action it is asked to   *)
(* take is not bound to an EVSE (line 226), so that the station has one.   *)
(***************************************************************************)
EXTENDS Naturals, Sequences

CONSTANTS Trans,      \* transactions
          Calls,      \* calls of set_transaction_limits that name an action
          Actions,    \* values of power_map
          LastEvent,  \* the number of a transaction's ended event; the first is 1
          MaxRepeats, \* bound: events the station sends late or again
          Unset,      \* the action of an entry that was given none
          Absent      \* no entry

ASSUME EventsAssumption == LastEvent \in Nat \ {0} /\ MaxRepeats \in Nat
ASSUME ValuesAssumption == Unset \notin Actions /\ Absent \notin Actions \cup {Unset}

VARIABLES occurred,  \* [Trans -> 0..LastEvent]: how far each transaction has come
          toApi,     \* Seq(Event): the API's queue at the broker
          repeats,   \* events that were sent late or again
          cache,     \* [Trans -> Entry]: transaction_cache, with the action of each entry
          pc,        \* [Calls -> PC]
          tran,      \* [Calls -> Trans]: the transaction a call is for
          want,      \* [Calls -> Actions]: the action it asks for
          acting,    \* what the station does
          restarted, \* the API has crashed once
          orderly,   \* in this behaviour every event is sent once, in order
          careful    \* in this behaviour calls follow each other, are for one
                     \* transaction, and the station's answers are not lost

call == <<pc, tran, want>>
behaviour == <<orderly, careful>>
vars == <<occurred, toApi, repeats, cache, call, acting, restarted, behaviour>>

Entry == Actions \cup {Unset, Absent}
Event == [tran : Trans, n : 1 .. LastEvent]
PC == {"idle", "selecting", "calling", "accepted", "set", "skipped", "refused",
       "notFound", "raised", "failed"}
InProgress(c) == pc[c] \in {"selecting", "calling", "accepted"}

Init ==
    /\ occurred = [x \in Trans |-> 0]
    /\ toApi = <<>>
    /\ repeats = 0
    /\ cache = [x \in Trans |-> Absent]
    /\ pc = [c \in Calls |-> "idle"]
    /\ tran \in [Calls -> Trans]
    /\ want \in [Calls -> Actions]
    /\ acting = Unset
    /\ restarted = FALSE
    /\ orderly \in BOOLEAN
    /\ careful \in BOOLEAN
    /\ careful => \A c, d \in Calls : tran[c] = tran[d]

-------------------------------------------------------------------------------
(* The events.                                                             *)

\* The next event of a transaction.  It may stay in the station's queue, or the OCPP
\* server's publish may fail.
Occur(x) ==
    /\ occurred[x] < LastEvent
    /\ occurred' = [occurred EXCEPT ![x] = @ + 1]
    /\ \/ toApi' = Append(toApi, [tran |-> x, n |-> occurred[x] + 1])
       \/ ~orderly /\ UNCHANGED toApi
    /\ UNCHANGED <<repeats, cache, call, acting, restarted, behaviour>>

\* The station sends an event from its queue, or one it had no answer to.
SendLate(x) ==
    /\ ~orderly /\ repeats < MaxRepeats
    /\ repeats' = repeats + 1
    /\ \E n \in 1 .. occurred[x] : toApi' = Append(toApi, [tran |-> x, n |-> n])
    /\ UNCHANGED <<occurred, cache, call, acting, restarted, behaviour>>

\* Variant for the mutation runs: an entry that is missing is added last.
OnEventAddsLast ==
    /\ toApi # <<>>
    /\ toApi' = Tail(toApi)
    /\ LET e == Head(toApi)
           left == IF e.n = LastEvent THEN [cache EXCEPT ![e.tran] = Absent] ELSE cache
       IN  cache' = [left EXCEPT ![e.tran] = IF @ = Absent THEN Unset ELSE @]
    /\ UNCHANGED <<occurred, repeats, call, acting, restarted, behaviour>>

\* update_transaction_cache: an entry that is missing is added, and the ended event
\* removes the entry.
OnEvent ==
    /\ toApi # <<>>
    /\ toApi' = Tail(toApi)
    /\ LET e == Head(toApi)
       IN  cache' = [cache EXCEPT ![e.tran] =
                        IF e.n = LastEvent THEN Absent ELSE IF @ = Absent THEN Unset ELSE @]
    /\ UNCHANGED <<occurred, repeats, call, acting, restarted, behaviour>>

-------------------------------------------------------------------------------
(* set_transaction_limits.                                                 *)

Goto(c, p) == pc' = [pc EXCEPT ![c] = p] /\ UNCHANGED <<tran, want>>

\* Variant for the mutation runs: a transaction without an entry is taken to have no action.
BeginUnchecked(c) ==
    /\ pc[c] = "idle"
    /\ careful => \A d \in Calls : ~InProgress(d)
    /\ Goto(c, IF cache[tran[c]] = want[c] THEN "skipped" ELSE "calling")
    /\ UNCHANGED <<occurred, toApi, repeats, cache, acting, restarted, behaviour>>

\* The entry is looked up; without one the database is asked.  The station is not asked
\* for the action it takes already.
Begin(c) ==
    /\ pc[c] = "idle"
    /\ careful => \A d \in Calls : ~InProgress(d)
    /\ Goto(c, IF cache[tran[c]] = Absent THEN "selecting"
               ELSE IF cache[tran[c]] = want[c] THEN "skipped" ELSE "calling")
    /\ UNCHANGED <<occurred, toApi, repeats, cache, acting, restarted, behaviour>>

\* A row of the database has no "action", and no row is not found either.
Selected(c) ==
    /\ pc[c] = "selecting"
    /\ Goto(c, "notFound")
    /\ UNCHANGED <<occurred, toApi, repeats, cache, acting, restarted, behaviour>>

\* The station takes the action; its answer is on its way to the API, or lost.
Take(c) ==
    /\ pc[c] = "calling"
    /\ acting' = want[c]
    /\ Goto(c, "accepted") \/ (~careful /\ Goto(c, "failed"))
    /\ UNCHANGED <<occurred, toApi, repeats, cache, restarted, behaviour>>

\* Variant for the mutation runs: the entry is written whatever the answer is.
RefuseWrites(c) ==
    /\ pc[c] = "calling"
    /\ cache' = [cache EXCEPT ![tran[c]] = IF @ = Absent THEN @ ELSE want[c]]
    /\ Goto(c, "refused") \/ Goto(c, "failed")
    /\ UNCHANGED <<occurred, toApi, repeats, acting, restarted, behaviour>>

\* It refuses, or the call does not reach it.
Refuse(c) ==
    /\ pc[c] = "calling"
    /\ Goto(c, "refused") \/ Goto(c, "failed")
    /\ UNCHANGED <<occurred, toApi, repeats, cache, acting, restarted, behaviour>>

\* The answer arrives: line 235 raises when the entry has gone meanwhile.
Finish(c) ==
    /\ pc[c] = "accepted"
    /\ IF cache[tran[c]] = Absent
       THEN Goto(c, "raised") /\ UNCHANGED cache
       ELSE Goto(c, "set") /\ cache' = [cache EXCEPT ![tran[c]] = want[c]]
    /\ UNCHANGED <<occurred, toApi, repeats, acting, restarted, behaviour>>

\* The API crashes and is started again.  Its queue stays at the broker, but for an
\* event that was acknowledged and not handled.
Restart ==
    /\ ~restarted
    /\ restarted' = TRUE
    /\ cache' = [x \in Trans |-> Absent]
    /\ \/ UNCHANGED toApi
       \/ toApi # <<>> /\ toApi' = Tail(toApi)
    /\ pc' = [c \in Calls |-> IF InProgress(c) THEN "failed" ELSE pc[c]]
    /\ UNCHANGED <<occurred, repeats, tran, want, acting, behaviour>>

-------------------------------------------------------------------------------
Next ==
    \/ \E x \in Trans : Occur(x) \/ SendLate(x)
    \/ OnEvent
    \/ \E c \in Calls : Begin(c) \/ Selected(c) \/ Take(c) \/ Refuse(c) \/ Finish(c)
    \/ Restart

Spec == Init /\ [][Next]_vars

-------------------------------------------------------------------------------
\* Every variable stays in its domain.
TypeOK ==
    /\ occurred \in [Trans -> 0 .. LastEvent]
    /\ toApi \in Seq(Event)
    /\ repeats \in 0 .. MaxRepeats
    /\ cache \in [Trans -> Entry]
    /\ pc \in [Calls -> PC]
    /\ tran \in [Calls -> Trans]
    /\ want \in [Calls -> Actions]
    /\ acting \in Actions \cup {Unset}
    /\ restarted \in BOOLEAN /\ orderly \in BOOLEAN /\ careful \in BOOLEAN

\* "Send message to change the v2g_action" (service.py:220) is left out only when the
\* station takes the action already: an entry's action is the station's, through refusals,
\* ended transactions and a restart of the API, unless calls overlap, concern two
\* transactions, or lose the station's answer.
CachedActionIsActing ==
    (careful /\ \A c \in Calls : pc[c] # "accepted")
        => \A x \in Trans : cache[x] \in Actions => acting = cache[x]

\* A call fails after the station took the action (the KeyError of line 235) only if the
\* transaction has ended, in whatever order its events come.
RaisedOnlyAfterEnd ==
    \A c \in Calls : pc[c] = "raised" => occurred[tran[c]] = LastEvent

\* The cache follows the transactions: with the events handled, only those under way
\* have an entry, and after no restart all of those, where events are sent once and in
\* order (service.py:30-40).
CacheFollows ==
    (orderly /\ toApi = <<>>) =>
        \A x \in Trans :
            LET underway == occurred[x] \in 1 .. (LastEvent - 1) IN
            /\ cache[x] # Absent => underway
            /\ underway /\ ~restarted => cache[x] # Absent
===============================================================================
