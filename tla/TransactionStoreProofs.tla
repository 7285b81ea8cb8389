------------------------ MODULE TransactionStoreProofs ------------------------
(***************************************************************************)
(* What the properties of TransactionStore owe to the code, for every      *)
(* number of events, every set of columns and every order of arrival.      *)
(***************************************************************************)
EXTENDS TransactionStore, FiniteSetTheorems, TLAPS

-------------------------------------------------------------------------------
(* The inductive invariant.  The last two parts say that Min and Max of the   *)
(* stored events are what their names say, which the code's max() and        *)
(* sorted() give for free.                                                    *)

HasNewest == Exists => \E n \in Seqs : IsNewest(n)
HasOldest == Exists => \E n \in stored : \A m \in stored : n <= m

IInv ==
    /\ TypeOK
    /\ NewestEventWins
    /\ EndedIsInactive
    /\ ValuesComeFromStoredEvents
    /\ HasNewest
    /\ HasOldest

\* The handlers that do not touch the row: all of Next but Process, Retry and
\* SetInactive.
Elsewhere ==
    \E n \in Seqs :
        \/ \E e \in Event : Record(n, e)
        \/ Send(n) \/ Lose(n) \/ FailOnce(n) \/ GiveUp(n)

\* Every step leaves the row alone, applies one recorded event to it or marks it
\* inactive.
LEMMA StepShape ==
    ASSUME TypeOK, [Next]_vars
    PROVE  \/ Elsewhere
           \/ \E n \in Seqs : (Process(n) \/ Retry(n))
           \/ SetInactive
           \/ UNCHANGED vars
  BY DEF Next, Elsewhere

\* The initial state is well typed.
LEMMA InitTypeOK == Init => TypeOK
<1> SUFFICES ASSUME Init PROVE TypeOK
  OBVIOUS
<1>1. sends \in [Seqs -> 0 .. MaxSends]
  <2>1. 0 \in 0 .. MaxSends
    BY MaxSendsAssumption
  <2> QED BY <2>1 DEF Init
<1>2. /\ event \in [Seqs -> Event \cup {None}]
      /\ val \in [Fields -> Seqs \cup {None}]
  BY DEF Init
<1>3. active \in BOOLEAN
  BY DEF Init
<1> QED BY <1>1, <1>2, <1>3 DEF Init, TypeOK

\* Applying a recorded event keeps the row well typed.
LEMMA ApplyTypeOK ==
    ASSUME TypeOK, NEW n \in Seqs, event[n] # None, Apply(n), event' = event
    PROVE  /\ stored' \subseteq {m \in Seqs : event'[m] # None}
           /\ active' \in BOOLEAN
           /\ val' \in [Fields -> Seqs \cup {None}]
<1> USE DEF TypeOK, Apply
<1>1. CASE n \in stored
  BY <1>1 DEF row
<1>2. CASE n \notin stored
  <2>1. event[n] \in Event
    OBVIOUS
  <2>2. ActiveAfter(n, event[n]) \in BOOLEAN
    BY <2>1 DEF ActiveAfter, Event
  <2>3. ValAfter(n, event[n]) \in [Fields -> Seqs \cup {None}]
    BY <2>1 DEF ValAfter, Event
  <2>4. (n # Last) \in BOOLEAN
    OBVIOUS
  <2> QED BY <1>2, <2>2, <2>3, <2>4
<1> QED BY <1>1, <1>2

\* Every step keeps the types.
LEMMA NextTypeOK == TypeOK /\ [Next]_vars => TypeOK'
<1> SUFFICES ASSUME TypeOK, [Next]_vars PROVE TypeOK'
  OBVIOUS
<1>1. ASSUME NEW n \in Seqs, NEW e \in Event, Record(n, e) PROVE TypeOK'
  BY <1>1 DEF TypeOK, Record, row
<1>2. ASSUME NEW n \in Seqs, Send(n) PROVE TypeOK'
  <2>1. sends[n] + 1 \in 0 .. MaxSends
    BY <1>2, MaxSendsAssumption DEF TypeOK, Send
  <2> QED BY <1>2, <2>1 DEF TypeOK, Send, row
<1>3. ASSUME NEW n \in Seqs, Lose(n) \/ FailOnce(n) \/ GiveUp(n) PROVE TypeOK'
  BY <1>3 DEF TypeOK, Lose, FailOnce, GiveUp, row, station
<1>4. ASSUME NEW n \in Seqs, Process(n) PROVE TypeOK'
  <2>1. event[n] # None /\ event' = event /\ Apply(n)
    BY <1>4 DEF Process, TypeOK, station
  <2> QED BY <1>4, <2>1, ApplyTypeOK DEF Process, TypeOK, station
<1>5. ASSUME NEW n \in Seqs, Retry(n) PROVE TypeOK'
  <2>1. event[n] # None /\ event' = event /\ Apply(n)
    BY <1>5 DEF Retry, TypeOK, station
  <2> QED BY <1>5, <2>1, ApplyTypeOK DEF Retry, TypeOK, station
<1>6. CASE SetInactive
  BY <1>6 DEF TypeOK, SetInactive, station
<1>7. CASE UNCHANGED vars
  BY <1>7 DEF TypeOK, vars
<1> QED BY <1>1, <1>2, <1>3, <1>4, <1>5, <1>6, <1>7, StepShape DEF Elsewhere

\* TypeOK holds in every reachable state.
THEOREM TypeCorrect == Spec => []TypeOK
  BY InitTypeOK, NextTypeOK, PTL DEF Spec

-------------------------------------------------------------------------------
(* The effect of one committed event on the row.                              *)

\* After event n the most recent stored event still provides the columns it
\* carries: n itself, or, when n is old, the one that did before.
LEMMA ApplyNewestEventWins ==
    ASSUME IInv, NEW n \in Seqs, event[n] # None, Apply(n), event' = event
    PROVE  NewestEventWins'
<1> USE DEF IInv
<1>1. CASE n \in stored
  BY <1>1 DEF Apply, row, NewestEventWins, IsNewest
<1>2. CASE n \notin stored
  <2> SUFFICES ASSUME NEW m \in Seqs, NEW f \in Fields,
                      IsNewest(m)', f \in event[m].carries
               PROVE  val'[f] = m
    BY <1>2 DEF NewestEventWins
  <2>1. stored' = stored \cup {n} /\ val' = ValAfter(n, event[n])
    BY <1>2 DEF Apply
  <2>2. CASE m = n
    <3>1. ~Old(n)
      BY <2>1, <2>2 DEF Old, IsNewest, TypeOK, Seqs
    <3> QED BY <2>1, <2>2, <3>1 DEF ValAfter, Written
  <2>3. CASE m # n
    <3>1. IsNewest(m) /\ m > n
      BY <2>1, <2>3 DEF IsNewest, TypeOK, Seqs
    <3>2. val[f] = m /\ val[f] # None
      BY <3>1, NoneAssumption DEF NewestEventWins, Seqs
    <3>3. Old(n)
      BY <3>1 DEF Old, IsNewest
    <3> QED BY <2>1, <3>2, <3>3 DEF ValAfter
  <2> QED BY <2>2, <2>3
<1> QED BY <1>1, <1>2

\* After event n the transaction is inactive if the ended event is stored.
LEMMA ApplyEndedIsInactive ==
    ASSUME IInv, NEW n \in Seqs, Apply(n)
    PROVE  EndedIsInactive'
<1> USE DEF IInv
<1>1. CASE n \in stored
  BY <1>1 DEF Apply, row, EndedIsInactive
<1>2. CASE n \notin stored /\ n = Last
  <2>1. ~Old(n)
    BY <1>2, LastAssumption DEF Old, TypeOK, Seqs
  <2>2. active' = FALSE
    BY <1>2, <2>1 DEF Apply, ActiveAfter
  <2> QED BY <2>2 DEF EndedIsInactive
<1>3. CASE n \notin stored /\ n # Last
  <2> SUFFICES ASSUME Last \in stored' PROVE ~active'
    BY DEF EndedIsInactive
  <2>1. Last \in stored /\ Exists
    BY <1>3 DEF Apply, Exists
  <2>2. Old(n)
    BY <1>3, <2>1, LastAssumption DEF Old, Seqs
  <2>3. active' = active
    BY <1>3, <2>1, <2>2 DEF Apply, ActiveAfter
  <2> QED BY <2>1, <2>3 DEF EndedIsInactive
<1> QED BY <1>1, <1>2, <1>3

\* After event n every value still comes from a stored event that carries it.
LEMMA ApplyValuesComeFromStoredEvents ==
    ASSUME IInv, NEW n \in Seqs, event[n] # None, Apply(n), event' = event
    PROVE  ValuesComeFromStoredEvents'
<1> USE DEF IInv
<1>1. CASE n \in stored
  BY <1>1 DEF Apply, row, ValuesComeFromStoredEvents
<1>2. CASE n \notin stored
  BY <1>2 DEF Apply, ValuesComeFromStoredEvents, ValAfter
<1> QED BY <1>1, <1>2

\* The stored events keep having a first and a last one.
LEMMA ApplyHasBounds ==
    ASSUME IInv, NEW n \in Seqs, Apply(n)
    PROVE  HasNewest' /\ HasOldest'
<1> USE DEF IInv
<1>1. CASE n \in stored
  BY <1>1 DEF Apply, row, HasNewest, HasOldest, IsNewest, Exists
<1>2. CASE n \notin stored
  <2>1. stored' = stored \cup {n} /\ stored \subseteq Int /\ n \in Int
    BY <1>2 DEF Apply, TypeOK, Seqs
  <2>2. CASE ~Exists
    BY <2>1, <2>2 DEF HasNewest, HasOldest, IsNewest, Exists
  <2>3. CASE Exists
    <3>1. PICK x \in Seqs : IsNewest(x)
      BY <2>3 DEF HasNewest
    <3>2. PICK y \in stored : \A m \in stored : y <= m
      BY <2>3 DEF HasOldest
    <3>3. HasNewest'
      BY <2>1, <3>1 DEF HasNewest, IsNewest, Seqs
    <3>4. HasOldest'
      BY <2>1, <3>2 DEF HasOldest
    <3> QED BY <3>3, <3>4
  <2> QED BY <2>2, <2>3
<1> QED BY <1>1, <1>2

-------------------------------------------------------------------------------
(* The invariant.                                                             *)

\* It holds before the first event.
LEMMA InitIInv == Init => IInv
  BY InitTypeOK DEF Init, IInv, NewestEventWins, IsNewest, EndedIsInactive,
     ValuesComeFromStoredEvents, HasNewest, HasOldest, Exists

\* A step that is no commit of an event keeps it.
LEMMA ElsewhereIInv ==
    ASSUME IInv, TypeOK', UNCHANGED row,
           \A n \in stored : event'[n] = event[n]
    PROVE  IInv'
  BY DEF IInv, row, NewestEventWins, IsNewest, EndedIsInactive,
     ValuesComeFromStoredEvents, HasNewest, HasOldest, Exists

\* Every step keeps it.
LEMMA NextIInv == IInv /\ [Next]_vars => IInv'
<1> SUFFICES ASSUME IInv, [Next]_vars PROVE IInv'
  OBVIOUS
<1>1. TypeOK /\ TypeOK'
  BY NextTypeOK DEF IInv
<1>2. CASE Elsewhere
  <2>1. UNCHANGED row
    BY <1>2 DEF Elsewhere, Record, Send, Lose, FailOnce, GiveUp
  <2>2. ASSUME NEW n \in stored PROVE event'[n] = event[n]
    <3>1. n \in Seqs /\ event[n] # None
      BY <1>1 DEF TypeOK
    <3> QED BY <1>1, <1>2, <3>1
        DEF Elsewhere, Record, Send, Lose, FailOnce, GiveUp, station, TypeOK
  <2> QED BY <1>1, <2>1, <2>2, ElsewhereIInv
<1>3. ASSUME NEW n \in Seqs, Process(n) \/ Retry(n) PROVE IInv'
  <2>1. event[n] # None /\ event' = event /\ Apply(n)
    BY <1>1, <1>3 DEF Process, Retry, TypeOK, station
  <2> QED BY <1>1, <2>1, ApplyNewestEventWins, ApplyEndedIsInactive,
             ApplyValuesComeFromStoredEvents, ApplyHasBounds DEF IInv
<1>4. CASE SetInactive
  BY <1>1, <1>4 DEF SetInactive, station, IInv, NewestEventWins, IsNewest,
     EndedIsInactive, ValuesComeFromStoredEvents, HasNewest, HasOldest, Exists
<1>5. CASE UNCHANGED vars
  BY <1>1, <1>5, ElsewhereIInv DEF vars, row
<1> QED BY <1>1, <1>2, <1>3, <1>4, <1>5, StepShape

\* The inductive invariant holds in every reachable state.
THEOREM Invariant == Spec => []IInv
  BY InitIInv, NextIInv, PTL DEF Spec

\* The most recent stored event provides the columns it carries, in every order
\* of arrival.
THEOREM NewestWins == Spec => []NewestEventWins
  BY Invariant, PTL DEF IInv

\* Late events never revive a transaction whose ended event is stored.
THEOREM EndedStaysInactive == Spec => []EndedIsInactive
  BY Invariant, PTL DEF IInv

\* Duplicates and rolled back attempts leave no trace in the row.
THEOREM NoForeignValues == Spec => []ValuesComeFromStoredEvents
  BY Invariant, PTL DEF IInv

-------------------------------------------------------------------------------
(* verify_received_all_transaction.                                           *)

\* max() and min() over stored events that have a newest and an oldest one.
LEMMA MinMax ==
    ASSUME IInv, Exists
    PROVE  /\ IsNewest(Max(stored))
           /\ Min(stored) \in stored
           /\ \A m \in stored : Min(stored) <= m
           /\ Max(stored) \in Seqs /\ Min(stored) \in Seqs
<1>1. stored \subseteq Int
  BY DEF IInv, TypeOK, Seqs
<1>2. PICK x \in stored : \A m \in stored : x >= m
  BY <1>1 DEF IInv, HasNewest, IsNewest
<1>3. Max(stored) \in stored /\ \A m \in stored : Max(stored) >= m
  BY <1>2 DEF Max
<1>4. PICK y \in stored : \A m \in stored : y <= m
  BY DEF IInv, HasOldest
<1>5. Min(stored) \in stored /\ \A m \in stored : Min(stored) <= m
  BY <1>4 DEF Min
<1> QED BY <1>1, <1>3, <1>5 DEF IsNewest, IInv, TypeOK

\* The stored events are finitely many, and all of them once there are Last + 1.
LEMMA StoredCardinality ==
    ASSUME IInv
    PROVE  /\ Cardinality(stored) \in Nat
           /\ Cardinality(stored) <= Last + 1
           /\ Cardinality(stored) = Last + 1 <=> stored = Seqs
<1>1. IsFiniteSet(Seqs) /\ Cardinality(Seqs) = Last + 1
  BY FS_Interval, LastAssumption DEF Seqs
<1>2. stored \in SUBSET Seqs
  BY DEF IInv, TypeOK
<1>3. /\ IsFiniteSet(stored)
      /\ Cardinality(stored) <= Cardinality(Seqs)
      /\ Cardinality(Seqs) = Cardinality(stored) => Seqs = stored
  BY <1>1, <1>2, FS_Subset
<1> QED BY <1>1, <1>3, FS_CardinalityType

\* The comparison of the span of the seq_nos with the number of rows finds every
\* gap, because the primary key keeps duplicates out of the count.
LEMMA VerifyFindsGaps == IInv => VerifiedIffComplete
<1> SUFFICES ASSUME IInv PROVE Verify = "OK" <=> stored = Seqs
  BY DEF VerifiedIffComplete
<1>1. ASSUME Verify = "OK" PROVE stored = Seqs
  <2>1. Exists /\ Min(stored) = 0 /\ Max(stored) = Last
    BY <1>1 DEF Verify
  <2>2. ~(Max(stored) - Min(stored) > Cardinality(stored) - 1)
    BY <1>1 DEF Verify
  <2>3. Cardinality(stored) = Last + 1
    BY <2>1, <2>2, StoredCardinality, LastAssumption
  <2> QED BY <2>3, StoredCardinality
<1>2. ASSUME stored = Seqs PROVE Verify = "OK"
  <2>1. 0 \in stored /\ Last \in stored /\ Exists
    <3>1. 0 \in Seqs /\ Last \in Seqs
      BY LastAssumption DEF Seqs
    <3> QED BY <1>2, <3>1 DEF Exists
  <2>2. Min(stored) = 0 /\ Max(stored) = Last
    BY <1>2, <2>1, MinMax, LastAssumption DEF IsNewest, Seqs
  <2>3. Cardinality(stored) = Last + 1
    BY <1>2, StoredCardinality
  <2> QED BY <2>1, <2>2, <2>3, LastAssumption DEF Verify
<1> QED BY <1>1, <1>2

\* "OK" is answered exactly when every event of the transaction is stored.
THEOREM VerifyIsExact == Spec => []VerifiedIffComplete
  BY Invariant, VerifyFindsGaps, PTL

-------------------------------------------------------------------------------
(* Steps.                                                                     *)

\* A known value of a plain column yields only to a more recent event's.
THEOREM OnlyNewerReplaces == Spec => ReplacedOnlyByNewer
<1>1. ASSUME IInv, [Next]_vars, NEW f \in PlainFields,
             val[f] # None, val'[f] # val[f]
      PROVE  val'[f] # None /\ \A m \in stored : val'[f] > m
  <2>1. PICK n \in Seqs : Apply(n) /\ n \notin stored
    <3>1. ~ UNCHANGED val
      BY <1>1
    <3> QED BY <1>1, <3>1, StepShape DEF IInv, Elsewhere, Record, Send, Lose,
              FailOnce, GiveUp, Process, Retry, SetInactive, Apply, row, vars
  <2>2. f \in Fields /\ ~Old(n) /\ val'[f] = n
    BY <1>1, <2>1, FieldsAssumption DEF Apply, ValAfter, Written
  <2>3. n # None
    BY NoneAssumption DEF Seqs
  <2>4. \A m \in stored : n > m
    <3>1. stored \subseteq Int /\ n \in Int
      BY <1>1 DEF IInv, TypeOK, Seqs
    <3> QED BY <2>1, <2>2, <3>1 DEF Old
  <2> QED BY <2>2, <2>3, <2>4
<1>2. IInv /\ [Next]_vars =>
        [\A f \in PlainFields :
            val[f] # None /\ val'[f] # val[f] =>
                /\ val'[f] # None
                /\ \A m \in stored : val'[f] > m]_vars
  BY <1>1
<1> QED BY <1>2, Invariant, PTL DEF Spec, ReplacedOnlyByNewer

\* An inactive transaction becomes active only through a newer event sent online.
THEOREM OnlyNewerReactivates == Spec => ReactivatedOnlyByNewerOnlineEvent
<1>1. ASSUME IInv, [Next]_vars, Exists, ~active, active'
      PROVE  \E n \in stored' \ stored :
                (\A m \in stored : m < n) /\ event[n].online
  <2>1. PICK n \in Seqs : Apply(n) /\ n \notin stored
    <3>1. ~ UNCHANGED active
      BY <1>1
    <3> QED BY <1>1, <3>1, StepShape DEF IInv, Elsewhere, Record, Send, Lose,
              FailOnce, GiveUp, Process, Retry, SetInactive, Apply, row, vars
  <2>2. n \in stored' \ stored /\ active' = ActiveAfter(n, event[n])
    BY <1>1, <2>1 DEF Apply
  <2>3. ~Old(n) /\ event[n].online
    BY <1>1, <2>2 DEF ActiveAfter
  <2>4. \A m \in stored : m < n
    <3>1. stored \subseteq Int /\ n \in Int
      BY <1>1 DEF IInv, TypeOK, Seqs
    <3> QED BY <2>1, <2>3, <3>1 DEF Old
  <2> QED BY <2>2, <2>3, <2>4
<1>2. IInv /\ [Next]_vars =>
        [Exists /\ ~active /\ active' =>
            \E n \in stored' \ stored :
                /\ \A m \in stored : m < n
                /\ event[n].online]_vars
  BY <1>1
<1> QED BY <1>2, Invariant, PTL DEF Spec, ReactivatedOnlyByNewerOnlineEvent

-------------------------------------------------------------------------------
(* The rows implement TransactionRecord.                                      *)


\* max() of a set of integers that has an upper bound among its members.
LEMMA MaxOf ==
    ASSUME NEW S \in SUBSET Int, NEW n \in S, \A m \in S : m <= n
    PROVE  Max(S) = n
<1>1. n \in S /\ \A m \in S : n >= m
  OBVIOUS
<1>2. Max(S) \in S /\ \A m \in S : Max(S) >= m
  BY <1>1 DEF Max
<1> DEFINE x == Max(S)
<1>3. x \in Int /\ n \in Int /\ x >= n /\ x <= n
  BY <1>2
<1> HIDE DEF x
<1>4. x = n
  BY <1>3
<1> QED BY <1>4 DEF x

\* A commit of event n advances the record when n is the newest so far, and is
\* invisible when n is old or stored already.
LEMMA ApplyImplements ==
    ASSUME IInv, NEW n \in Seqs, Apply(n)
    PROVE  Promise!Advance(n) \/ UNCHANGED <<Newest, active>>
<1>1. stored \subseteq Int /\ n \in Int /\ active \in BOOLEAN
  BY DEF IInv, TypeOK, Seqs
<1>2. CASE n \in stored
  BY <1>2 DEF Apply, row, Newest, Exists
<1>3. CASE n \notin stored /\ Old(n)
  <2>1. Exists /\ IsNewest(Max(stored))
    BY <1>3, MinMax DEF Old, Exists
  <2> DEFINE x == Max(stored)
  <2>2. x \in stored /\ x \in Int /\ n < x /\ \A m \in stored : m <= x
    <3>1. x \in stored /\ \A m \in stored : m <= x
      BY <2>1 DEF IsNewest
    <3>2. PICK m \in stored : m > n
      BY <1>3 DEF Old
    <3> HIDE DEF x
    <3>3. x \in Int /\ m \in Int /\ m <= x
      BY <1>1, <3>1, <3>2
    <3> QED BY <1>1, <3>1, <3>2, <3>3
  <2> HIDE DEF x
  <2>3. stored' = stored \cup {n} /\ active' = active
    BY <1>3, <2>1 DEF Apply, ActiveAfter
  <2>4. stored' \in SUBSET Int /\ x \in stored' /\ \A m \in stored' : m <= x
    BY <1>1, <2>2, <2>3
  <2>5. Max(stored') = x
    BY <2>4, MaxOf
  <2>6. Newest = x /\ Newest' = x
    BY <2>1, <2>4, <2>5 DEF Newest, Exists, x
  <2> QED BY <2>3, <2>6
<1>4. CASE n \notin stored /\ ~Old(n)
  <2>1. stored' = stored \cup {n}
    BY <1>4 DEF Apply
  <2>2. stored' \in SUBSET Int /\ n \in stored' /\ \A m \in stored' : m <= n
    BY <1>1, <1>4, <2>1 DEF Old
  <2>3. Max(stored') = n
    BY <2>2, MaxOf
  <2>4. Newest' = n
    BY <2>2, <2>3 DEF Newest, Exists
  <2>5. n > Newest
    <3>1. CASE ~Exists
      BY <3>1 DEF Newest, Seqs
    <3>2. CASE Exists
      <4>1. Max(stored) \in stored
        BY <3>2, MinMax DEF IsNewest
      <4> DEFINE x == Max(stored)
      <4> HIDE DEF x
      <4>2. x \in stored
        BY <4>1 DEF x
      <4>3. x \in Int /\ x # n /\ ~(x > n)
        BY <1>1, <1>4, <4>2 DEF Old
      <4>4. n > x
        BY <1>1, <4>3
      <4> QED BY <3>2, <4>4 DEF Newest, x
    <3> QED BY <3>1, <3>2
  <2>6. active' \in BOOLEAN /\ (n = Last => active' = FALSE)
    BY <1>1, <1>4 DEF Apply, ActiveAfter
  <2> QED BY <2>4, <2>5, <2>6 DEF Promise!Advance
<1> QED BY <1>2, <1>3, <1>4

\* Every step of the store is a step of the record or invisible in it.
LEMMA StepImplements ==
    ASSUME IInv, [Next]_vars
    PROVE  [Promise!Next]_<<Newest, active>>
<1>1. CASE Elsewhere
  BY <1>1 DEF Elsewhere, Record, Send, Lose, FailOnce, GiveUp, row, Newest, Exists
<1>2. ASSUME NEW n \in Seqs, Process(n) \/ Retry(n)
      PROVE  [Promise!Next]_<<Newest, active>>
  BY <1>2, ApplyImplements DEF Process, Retry, Promise!Next, Seqs
<1>3. CASE SetInactive
  BY <1>3 DEF SetInactive, Newest, Exists, Promise!Next, Promise!Deactivate
<1>4. CASE UNCHANGED vars
  BY <1>4 DEF vars, Newest, Exists
<1> QED BY <1>1, <1>2, <1>3, <1>4, StepShape DEF IInv

\* Out of order, repeated and failing deliveries of the events implement a record
\* that only moves forward.
THEOREM StoreImplementsRecord == Spec => ImplementsRecord
<1>1. Init => Promise!Init
  BY DEF Init, Promise!Init, Newest, Exists
<1>2. IInv /\ [Next]_vars => [Promise!Next]_<<Newest, active>>
  BY StepImplements
<1> QED BY <1>1, <1>2, Invariant, PTL
    DEF Spec, ImplementsRecord, Promise!Spec, Promise!recordVars
===============================================================================
