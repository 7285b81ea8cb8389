-------------------------- MODULE ChargingProfilesProofs --------------------------
(***************************************************************************)
(* ChargingProfiles for any requests, ids and transactions: until a crash  *)
(* the server never gives two requests the same profile id, and the rows   *)
(* of requests that follow each other do not conflict.                     *)
(***************************************************************************)
EXTENDS ChargingProfiles, TLAPS

-------------------------------------------------------------------------------
(* Profiles and messages.                                                  *)

\* A profile that is built for a request, whatever id it is given.
LEMMA SomeProfile ==
    ASSUME NEW e \in EVSEs \cup {0}, NEW u \in {"tx", "default"}, NEW l \in Levels \cup {0},
           NEW x \in Trans \cup {None}, NEW i \in Ids
    PROVE  /\ [Some(e, u, l, x) EXCEPT !.id = i] \in Profile
           /\ [Some(e, u, l, x) EXCEPT !.id = i].id = i
           /\ Some(e, u, l, x) \in Profile
  BY IdsAssumption DEF Some, Profile, Ids

\* The ids of the server are positive and bounded, those a request names are among them.
LEMMA ChosenId ==
    ASSUME TypeOK, NEW c \in Calls, NEW g \in GivenIds \cup {None}, Choose(c, g)
    PROVE  /\ (IF g = None THEN counter ELSE g) \in Ids
           /\ counter' \in Nat \ {0} /\ counter <= counter'
           /\ g = None => counter < counter'
  BY IdsAssumption, NoneAssumption DEF TypeOK, Choose, Ids

\* What the messages carry.
LEMMA MessageFields ==
    ASSUME NEW m \in Message
    PROVE  /\ m.op \in {"select", "read"} => m.call \in Calls
           /\ m.op = "create" => m.profile \in Profile
<1>1. CASE m \in [op : {"create"}, profile : Profile]
  BY <1>1
<1>2. CASE m \in [op : {"remove"}, tran : Trans]
  BY <1>2
<1>3. CASE m \in [op : {"select", "read"}, call : Calls]
  BY <1>3
<1>4. CASE m \in [op : {"clear"}]
  BY <1>4
<1> QED BY <1>1, <1>2, <1>3, <1>4 DEF Message

\* The messages there are.
LEMMA Messages ==
    /\ \A c \in Calls : [op |-> "select", call |-> c] \in Message
    /\ \A c \in Calls : [op |-> "read", call |-> c] \in Message
    /\ \A p \in Profile : [op |-> "create", profile |-> p] \in Message
    /\ \A x \in Trans : [op |-> "remove", tran |-> x] \in Message
    /\ [op |-> "clear"] \in Message
  BY DEF Message

\* The queue grows and shrinks.
LEMMA AppendMessage ==
    ASSUME NEW q \in Seq(Message), NEW m \in Message PROVE Append(q, m) \in Seq(Message)
  OBVIOUS
LEMMA TailMessage ==
    ASSUME NEW q \in Seq(Message), q # <<>>
    PROVE  Tail(q) \in Seq(Message) /\ Head(q) \in Message
<1>1. Len(q) \in Nat \ {0} /\ Head(q) = q[1] /\ 1 \in DOMAIN q
  OBVIOUS
<1> QED BY <1>1

-------------------------------------------------------------------------------
(* The invariant.                                                          *)

\* A request under way has a profile; it has no id of the server's before it was read.
HasProfile ==
    \A c \in Calls :
        /\ InProgress(c) \/ own[c] => prof[c] \in Profile
        /\ pc[c] \in {"idle", "reading"} => ~own[c]

\* The counter is past all ids it has given out, unless a crash took it back.
IdsBelow == life # "crashed" => \A c \in Calls : own[c] => prof[c].id < counter

IInv == TypeOK /\ HasProfile /\ IdsBelow /\ FreshIds

\* The initial state.
LEMMA InitIInv == Init => IInv
<1> SUFFICES ASSUME Init PROVE IInv
  OBVIOUS
<1>1. <<>> \in Seq(Message)
  OBVIOUS
<1>2. overlapping \in BOOLEAN
  BY Zenon DEF Init
<1>3. own \in [Calls -> BOOLEAN]
  BY DEF Init
<1>4. TypeOK
  BY <1>1, <1>2, <1>3, IdsAssumption DEF Init, TypeOK, PC
<1>5. HasProfile /\ IdsBelow /\ FreshIds
  BY DEF Init, HasProfile, InProgress, IdsBelow, FreshIds
<1> QED BY <1>4, <1>5 DEF IInv

\* A request that gets its id from the counter or names one, and the rest of the state.
LEMMA BeginStep ==
    ASSUME IInv, NEW c \in Calls, NEW p, NEW g \in GivenIds \cup {None}, NEW next \in PC,
           pc[c] = "idle", next \notin {"idle", "reading"},
           \A i \in Ids : [p EXCEPT !.id = i] \in Profile /\ [p EXCEPT !.id = i].id = i,
           Begin(c, p, g, next), toDb' \in Seq(Message)
    PROVE  IInv'
<1> DEFINE i == IF g = None THEN counter ELSE g
           n == [p EXCEPT !.id = i]
<1>1. Choose(c, g) /\ TypeOK
  BY DEF Begin, IInv
<1>2. /\ i \in Ids /\ counter' \in Nat \ {0} /\ counter <= counter'
      /\ g = None => counter < counter'
  BY <1>1, ChosenId
<1>3. n \in Profile /\ n.id = i
  BY <1>2
<1>4. /\ prof' = [prof EXCEPT ![c] = n] /\ own' = [own EXCEPT ![c] = (g = None)]
      /\ pc' = [pc EXCEPT ![c] = next]
      /\ UNCHANGED <<saved, life, overlapping, rows, have, ended>>
  BY DEF Begin
<1>5. /\ prof \in [Calls -> Profile \cup {None}] /\ own \in [Calls -> BOOLEAN]
      /\ pc \in [Calls -> PC] /\ counter \in Nat
  BY DEF IInv, TypeOK
<1>6. /\ prof' \in [Calls -> Profile \cup {None}] /\ pc' \in [Calls -> PC]
      /\ prof'[c] = n /\ pc'[c] = next
      /\ \A d \in Calls : d # c => prof'[d] = prof[d] /\ pc'[d] = pc[d]
  BY <1>3, <1>4, <1>5
<1>7. own' \in [Calls -> BOOLEAN] /\ (own'[c] <=> g = None)
      /\ \A d \in Calls : d # c => (own'[d] <=> own[d])
  BY <1>4, <1>5, Zenon
<1>8. TypeOK'
  BY <1>1, <1>2, <1>4, <1>6, <1>7 DEF TypeOK
<1>9. HasProfile'
  BY <1>3, <1>6, <1>7 DEF IInv, HasProfile, InProgress
<1>10. ASSUME life # "crashed", NEW d \in Calls, own'[d] PROVE prof'[d].id < counter'
  <2>1. CASE d = c
    <3>1. g = None
      BY <1>7, <1>10, <2>1
    <3>2. prof'[c].id = counter /\ counter < counter'
      BY <1>2, <1>3, <1>6, <3>1
    <3> QED BY <2>1, <3>2
  <2>2. CASE d # c
    <3>1. own[d] /\ prof'[d] = prof[d] /\ prof[d] \in Profile
      BY <1>6, <1>7, <1>10, <2>2 DEF IInv, HasProfile
    <3>2. prof[d].id \in Nat /\ prof[d].id < counter
      BY <1>10, <3>1 DEF IInv, IdsBelow, Profile, Ids
    <3> QED BY <1>2, <1>5, <3>1, <3>2
  <2> QED BY <2>1, <2>2
<1>11. IdsBelow'
  BY <1>4, <1>10 DEF IdsBelow
<1>12. ASSUME life # "crashed", NEW d \in Calls, d # c, own'[d], own'[c]
       PROVE  prof'[d].id # prof'[c].id
  <2>1. own[d] /\ prof'[d] = prof[d] /\ prof[d] \in Profile
    BY <1>6, <1>7, <1>12 DEF IInv, HasProfile
  <2>2. prof[d].id \in Nat /\ prof[d].id < counter
    BY <1>12, <2>1 DEF IInv, IdsBelow, Profile, Ids
  <2>3. prof'[c].id = counter
    BY <1>3, <1>6, <1>7, <1>12
  <2> QED BY <1>5, <2>1, <2>2, <2>3
<1>13. FreshIds'
  <2> SUFFICES ASSUME life # "crashed", NEW d \in Calls, NEW b \in Calls, d # b, own'[d], own'[b]
               PROVE  prof'[d].id # prof'[b].id
    BY <1>4 DEF FreshIds
  <2>1. CASE d # c /\ b # c
    <3>1. own[d] /\ own[b] /\ prof'[d] = prof[d] /\ prof'[b] = prof[b]
      BY <1>6, <1>7, <2>1
    <3> QED BY <3>1 DEF IInv, FreshIds
  <2> QED BY <1>12, <2>1
<1> QED BY <1>8, <1>9, <1>11, <1>13 DEF IInv

\* Steps that leave the ids of requests and the counter alone.
LEMMA IdsUnchanged ==
    ASSUME IInv, TypeOK', UNCHANGED <<counter, life, prof, own>>,
           \A c \in Calls : /\ pc'[c] \in {"idle", "reading"} => pc[c] = pc'[c]
                            /\ InProgress(c)' => InProgress(c)
    PROVE  IInv'
  BY DEF IInv, HasProfile, IdsBelow, FreshIds

\* The answer to a read: a new id for the request, or that of a row.
LEMMA ReadStep == IInv /\ DbRead => IInv'
<1> SUFFICES ASSUME IInv, DbRead PROVE IInv'
  OBVIOUS
<1> DEFINE c == Head(toDb).call
           mine == {r \in rows : r.tran = prof[c].tran}
<1>a. TypeOK /\ toDb \in Seq(Message) /\ rows \subseteq Profile /\ counter \in Nat \ {0}
      /\ prof \in [Calls -> Profile \cup {None}] /\ own \in [Calls -> BOOLEAN]
      /\ pc \in [Calls -> PC]
  BY DEF IInv, TypeOK
<1>1. Tail(toDb) \in Seq(Message) /\ c \in Calls
  BY <1>a, TailMessage, MessageFields DEF DbRead
<1>2. UNCHANGED <<saved, life, overlapping, rows, have, ended>>
  BY DEF DbRead
<1>3. CASE pc[c] # "reading"
  <2>1. toDb' = Tail(toDb) /\ UNCHANGED <<counter, pc, prof, own>>
    BY <1>3 DEF DbRead, request
  <2>2. TypeOK'
    BY <1>a, <1>1, <1>2, <2>1 DEF TypeOK
  <2> QED BY <1>2, <2>1, <2>2, IdsUnchanged DEF InProgress
<1>4. CASE pc[c] = "reading"
  <2>1. toDb' \in Seq(Message)
    <3>1. toDb' = Append(Tail(toDb), [op |-> "select", call |-> c])
      BY <1>4 DEF DbRead
    <3> QED BY <1>1, <3>1, Messages, AppendMessage
  <2>2. pc' = [pc EXCEPT ![c] = "checking"] /\ ~own[c] /\ prof[c] \in Profile
    BY <1>1, <1>4 DEF DbRead, IInv, HasProfile, InProgress
  <2>3. pc' \in [Calls -> PC] /\ pc'[c] = "checking" /\ \A d \in Calls : d # c => pc'[d] = pc[d]
    BY <1>a, <1>1, <2>2 DEF PC
  <2>4. CASE mine = {}
    <3>1. /\ Choose(c, None) /\ prof' = [prof EXCEPT ![c].id = counter]
          /\ own' = [own EXCEPT ![c] = TRUE]
      BY <1>4, <2>4 DEF DbRead
    <3>2. counter \in Ids /\ counter' \in Nat \ {0} /\ counter < counter'
      BY <1>a, <1>1, <3>1, ChosenId
    <3>3. /\ prof'[c] = [prof[c] EXCEPT !.id = counter]
          /\ \A d \in Calls : d # c => prof'[d] = prof[d]
      BY <1>a, <1>1, <3>1
    <3>4. prof'[c] \in Profile /\ prof'[c].id = counter
      BY <2>2, <3>2, <3>3 DEF Profile
    <3>5. prof' \in [Calls -> Profile \cup {None}]
      BY <1>a, <1>1, <3>1, <3>3, <3>4
    <3>6. own' \in [Calls -> BOOLEAN] /\ own'[c] /\ \A d \in Calls : d # c => (own'[d] <=> own[d])
      BY <1>a, <1>1, <3>1, Zenon
    <3>7. TypeOK'
      BY <1>a, <1>2, <2>1, <2>3, <3>2, <3>5, <3>6 DEF TypeOK
    <3>8. HasProfile'
      BY <2>3, <3>3, <3>4, <3>6 DEF IInv, HasProfile, InProgress
    <3>9. ASSUME life # "crashed", NEW d \in Calls, d # c, own'[d]
          PROVE  prof'[d] = prof[d] /\ own[d] /\ prof[d].id \in Nat /\ prof[d].id < counter
      <4>1. own[d] /\ prof'[d] = prof[d] /\ prof[d] \in Profile
        BY <3>3, <3>6, <3>9 DEF IInv, HasProfile
      <4> QED BY <3>9, <4>1 DEF IInv, IdsBelow, Profile, Ids
    <3>10. IdsBelow'
      <4> SUFFICES ASSUME life # "crashed", NEW d \in Calls, own'[d] PROVE prof'[d].id < counter'
        BY <1>2 DEF IdsBelow
      <4>1. CASE d = c
        BY <3>2, <3>4, <4>1
      <4>2. CASE d # c
        BY <1>a, <3>2, <3>9, <4>2
      <4> QED BY <4>1, <4>2
    <3>11. FreshIds'
      <4> SUFFICES ASSUME life # "crashed", NEW d \in Calls, NEW b \in Calls, d # b, own'[d], own'[b]
                   PROVE  prof'[d].id # prof'[b].id
        BY <1>2 DEF FreshIds
      <4>1. CASE d # c /\ b # c
        BY <3>9, <4>1 DEF IInv, FreshIds
      <4>2. CASE d = c
        BY <1>a, <3>4, <3>9, <4>2
      <4>3. CASE b = c
        BY <1>a, <3>4, <3>9, <4>3
      <4> QED BY <4>1, <4>2, <4>3
    <3> QED BY <3>7, <3>8, <3>10, <3>11 DEF IInv
  <2>5. CASE mine # {}
    <3>1. PICK r \in mine : prof' = [prof EXCEPT ![c].id = r.id, ![c].level = r.level]
      BY <1>4, <2>5 DEF DbRead
    <3>2. UNCHANGED <<counter, own>> /\ r \in Profile
      BY <1>a, <1>4, <2>5 DEF DbRead
    <3>3. prof'[c] = [prof[c] EXCEPT !.id = r.id, !.level = r.level]
          /\ \A d \in Calls : d # c => prof'[d] = prof[d]
      BY <1>a, <1>1, <3>1
    <3>4. prof'[c] \in Profile
      BY <2>2, <3>2, <3>3 DEF Profile
    <3>5. prof' \in [Calls -> Profile \cup {None}]
      BY <1>a, <1>1, <3>1, <3>3, <3>4
    <3>6. TypeOK'
      BY <1>a, <1>2, <2>1, <2>3, <3>2, <3>5 DEF TypeOK
    <3>7. HasProfile'
      BY <2>2, <2>3, <3>2, <3>3, <3>4 DEF IInv, HasProfile, InProgress
    <3>8. \A d \in Calls : own'[d] => own[d] /\ prof'[d] = prof[d]
      BY <2>2, <3>2, <3>3
    <3>9. IdsBelow' /\ FreshIds'
      BY <1>2, <3>2, <3>8 DEF IInv, IdsBelow, FreshIds
    <3> QED BY <3>6, <3>7, <3>9 DEF IInv
  <2> QED BY <2>4, <2>5
<1> QED BY <1>3, <1>4

\* The invariant is inductive.
LEMMA NextIInv == IInv /\ [Next]_vars => IInv'
<1> SUFFICES ASSUME IInv, [Next]_vars PROVE IInv'
  OBVIOUS
<1>a. TypeOK /\ toDb \in Seq(Message) /\ rows \subseteq Profile /\ have \subseteq Profile
      /\ pc \in [Calls -> PC] /\ prof \in [Calls -> Profile \cup {None}]
  BY DEF IInv, TypeOK
<1>1. ASSUME NEW c \in Calls, SetProfile(c) PROVE IInv'
  <2>1. PICK e \in EVSEs \cup {0}, u \in {"tx", "default"}, l \in Levels,
             x \in Trans \cup {None}, g \in GivenIds \cup {None} :
               LET p == Some(e, u, l, x) IN
               IF WellFormed(p)
               THEN Begin(c, p, g, "checking") /\ toDb' = Append(toDb, [op |-> "select", call |-> c])
               ELSE g = None /\ Begin(c, p, g, "failed") /\ UNCHANGED toDb
    BY <1>1 DEF SetProfile
  <2> DEFINE p == Some(e, u, l, x)
  <2>2. toDb' \in Seq(Message)
    BY <1>a, <2>1, Messages, AppendMessage
  <2>3. Begin(c, p, g, "checking") \/ Begin(c, p, g, "failed")
    BY <2>1
  <2>4. ASSUME NEW i \in Ids PROVE [p EXCEPT !.id = i] \in Profile /\ [p EXCEPT !.id = i].id = i
    <3>1. l \in Levels \cup {0}
      OBVIOUS
    <3>2. /\ [Some(e, u, l, x) EXCEPT !.id = i] \in Profile
          /\ [Some(e, u, l, x) EXCEPT !.id = i].id = i
      BY <3>1, IdsAssumption DEF Some, Profile, Ids
    <3> QED BY <3>2
  <2>5. pc[c] = "idle" /\ {"checking", "failed"} \subseteq PC
    BY <1>1 DEF SetProfile, MayStart, PC
  <2> HIDE DEF p
  <2> QED BY <2>2, <2>3, <2>4, <2>5, BeginStep
<1>2. ASSUME NEW c \in Calls, StartWithProfile(c) PROVE IInv'
  <2>1. PICK e \in EVSEs, u \in {"tx", "default"}, l \in Levels,
             x \in Trans \cup {None}, g \in GivenIds \cup {None} :
               IF u = "tx" /\ x = None
               THEN Begin(c, Some(e, u, l, x), g, "calling")
               ELSE g = None /\ Begin(c, Some(e, u, l, x), g, "failed")
    BY <1>2 DEF StartWithProfile
  <2> DEFINE p == Some(e, u, l, x)
  <2>2. ASSUME NEW i \in Ids PROVE [p EXCEPT !.id = i] \in Profile /\ [p EXCEPT !.id = i].id = i
    <3>1. e \in EVSEs \cup {0} /\ l \in Levels \cup {0}
      OBVIOUS
    <3>2. /\ [Some(e, u, l, x) EXCEPT !.id = i] \in Profile
          /\ [Some(e, u, l, x) EXCEPT !.id = i].id = i
      BY <3>1, SomeProfile
    <3> QED BY <3>2
  <2>3. pc[c] = "idle" /\ {"calling", "failed"} \subseteq PC /\ toDb' = toDb
    BY <1>2 DEF StartWithProfile, MayStart, PC
  <2>4. Begin(c, p, g, "calling") \/ Begin(c, p, g, "failed")
    BY <2>1
  <2> HIDE DEF p
  <2> QED BY <1>a, <2>2, <2>3, <2>4, BeginStep
<1>3. ASSUME NEW c \in Calls, SetMaxPower(c) PROVE IInv'
  <2>1. PICK e \in EVSEs, x \in Trans : prof' = [prof EXCEPT ![c] = Some(e, "tx", 0, x)]
    BY <1>3 DEF SetMaxPower
  <2>2. 1 \in Ids
    BY IdsAssumption DEF Ids
  <2>3. Some(e, "tx", 0, x) \in Profile
    BY <2>2, SomeProfile
  <2>4. /\ pc[c] = "idle" /\ pc' = [pc EXCEPT ![c] = "reading"] /\ toDb' \in Seq(Message)
        /\ UNCHANGED <<counter, saved, life, overlapping, own, rows, have, ended>>
    BY <1>3, <1>a, Messages, AppendMessage DEF SetMaxPower, MayStart, server
  <2>5. /\ prof' \in [Calls -> Profile \cup {None}] /\ prof'[c] \in Profile
        /\ pc' \in [Calls -> PC] /\ pc'[c] = "reading"
        /\ \A d \in Calls : d # c => prof'[d] = prof[d] /\ pc'[d] = pc[d]
    BY <1>a, <2>1, <2>3, <2>4 DEF PC
  <2>6. TypeOK'
    BY <1>a, <2>4, <2>5 DEF TypeOK
  <2>7. ~own[c]
    BY <2>4 DEF IInv, HasProfile
  <2>8. HasProfile'
    BY <2>4, <2>5, <2>7 DEF IInv, HasProfile, InProgress
  <2>9. \A d \in Calls : own'[d] => own[d] /\ prof'[d] = prof[d]
    BY <2>4, <2>5, <2>7
  <2>10. IdsBelow' /\ FreshIds'
    BY <2>4, <2>9 DEF IInv, IdsBelow, FreshIds
  <2> QED BY <2>6, <2>8, <2>10 DEF IInv
<1>4. ASSUME NEW c \in Calls, Accept(c) PROVE IInv'
  <2>1. prof[c] \in Profile
    BY <1>4 DEF Accept, IInv, HasProfile, InProgress
  <2>2. TypeOK'
    BY <1>4, <1>a, <2>1 DEF Accept, TypeOK, server, PC
  <2> QED BY <1>4, <1>a, <2>2, IdsUnchanged DEF Accept, server, InProgress
<1>5. ASSUME NEW c \in Calls, Refuse(c) PROVE IInv'
  <2>1. TypeOK'
    BY <1>5, <1>a DEF Refuse, TypeOK, server, PC
  <2> QED BY <1>5, <1>a, <2>1, IdsUnchanged DEF Refuse, server, InProgress
<1>6. ASSUME NEW c \in Calls, Publish(c) PROVE IInv'
  <2>1. prof[c] \in Profile
    BY <1>6 DEF Publish, IInv, HasProfile, InProgress
  <2>2. toDb' \in Seq(Message)
    BY <1>6, <1>a, <2>1, Messages, AppendMessage DEF Publish
  <2>3. TypeOK'
    BY <1>6, <1>a, <2>2 DEF Publish, TypeOK, server, PC
  <2> QED BY <1>6, <1>a, <2>3, IdsUnchanged DEF Publish, server, InProgress
<1>7. ASSUME NEW c \in Calls, Clear(c) PROVE IInv'
  <2>1. toDb' \in Seq(Message) /\ have' \subseteq Profile
    BY <1>7, <1>a, Messages, AppendMessage DEF Clear
  <2>2. TypeOK'
    BY <1>7, <1>a, <2>1 DEF Clear, TypeOK, server, PC
  <2> QED BY <1>7, <1>a, <2>2, IdsUnchanged DEF Clear, server, InProgress
<1>8. ASSUME NEW x \in Trans, End(x) PROVE IInv'
  <2>1. toDb' \in Seq(Message) /\ have' \subseteq Profile
    BY <1>8, <1>a, Messages, AppendMessage DEF End
  <2>2. TypeOK'
    BY <1>8, <1>a, <2>1 DEF End, TypeOK, server, request
  <2> QED BY <1>8, <2>2, IdsUnchanged DEF End, server, request, InProgress
<1>9. ASSUME NEW i \in ExternalIds, External(i) PROVE IInv'
  <2>1. i \in Nat /\ counter \in Nat \ {0} /\ counter' = i + 1 /\ counter < counter'
    BY <1>9, IdsAssumption DEF External, IInv, TypeOK
  <2>2. UNCHANGED <<saved, life, overlapping, pc, prof, own, toDb, rows, have, ended>>
    BY <1>9 DEF External, request
  <2>3. TypeOK'
    BY <1>a, <2>1, <2>2 DEF TypeOK
  <2>4. HasProfile' /\ FreshIds'
    BY <2>2 DEF IInv, HasProfile, InProgress, FreshIds
  <2>5. ASSUME life # "crashed", NEW c \in Calls, own[c] PROVE prof[c].id < counter'
    <3>1. prof[c].id \in Nat /\ prof[c].id < counter
      BY <2>5 DEF IInv, HasProfile, IdsBelow, Profile, Ids
    <3> QED BY <2>1, <3>1
  <2>6. IdsBelow'
    BY <2>2, <2>5 DEF IdsBelow
  <2> QED BY <2>3, <2>4, <2>6 DEF IInv
<1>10. CASE Restart
  <2>1. UNCHANGED <<overlapping, prof, own, toDb, rows, have, ended>> /\ life = "first"
        /\ pc' = [c \in Calls |-> IF InProgress(c) THEN "failed" ELSE pc[c]]
    BY <1>10 DEF Restart
  <2>2. TypeOK'
    BY <1>10, <1>a, <2>1 DEF Restart, TypeOK, PC
  <2>3. HasProfile'
    BY <2>1 DEF IInv, HasProfile, InProgress
  <2>4. IdsBelow' /\ FreshIds'
    BY <1>10, <2>1 DEF IInv, Restart, IdsBelow, FreshIds
  <2> QED BY <2>2, <2>3, <2>4 DEF IInv
<1>11. CASE DbSelect
  <2>1. toDb' \in Seq(Message) /\ Head(toDb).call \in Calls
    BY <1>11, <1>a, TailMessage, MessageFields DEF DbSelect, Head1
  <2>2. UNCHANGED <<counter, saved, life, overlapping, prof, own, rows, have, ended>>
    BY <1>11 DEF DbSelect, server
  <2> DEFINE c == Head(toDb).call
  <2>3. \/ pc' = pc
        \/ pc[c] = "checking" /\ \E n \in {"failed", "calling"} : pc' = [pc EXCEPT ![c] = n]
    BY <1>11 DEF DbSelect
  <2>4. pc' \in [Calls -> PC]
    BY <1>a, <2>1, <2>3 DEF PC
  <2>5. TypeOK'
    BY <1>a, <2>1, <2>2, <2>4 DEF TypeOK
  <2> QED BY <1>a, <2>1, <2>2, <2>3, <2>5, IdsUnchanged DEF InProgress
<1>12. CASE DbCreate \/ DbRemove \/ DbClear
  <2>1. toDb' \in Seq(Message) /\ Head(toDb) \in Message
    BY <1>12, <1>a, TailMessage DEF DbCreate, DbRemove, DbClear, Head1
  <2>2. rows' \subseteq Profile
    BY <1>12, <1>a, <2>1, MessageFields DEF DbCreate, DbRemove, DbClear
  <2>3. UNCHANGED <<counter, saved, life, overlapping, pc, prof, own, have, ended>>
    BY <1>12 DEF DbCreate, DbRemove, DbClear, server, request
  <2>4. TypeOK'
    BY <1>a, <2>1, <2>2, <2>3 DEF TypeOK
  <2> QED BY <2>3, <2>4, IdsUnchanged DEF InProgress
<1>13. CASE UNCHANGED vars
  <2>1. TypeOK'
    BY <1>13, <1>a DEF vars, server, request, TypeOK
  <2> QED BY <1>13, <2>1, IdsUnchanged DEF vars, server, request, InProgress
<1> QED BY <1>1, <1>2, <1>3, <1>4, <1>5, <1>6, <1>7, <1>8, <1>9, <1>10, <1>11, <1>12, <1>13,
           ReadStep DEF Next

\* The invariant holds.
LEMMA Invariant == Spec => []IInv
  BY InitIInv, NextIInv, PTL DEF Spec

\* Every variable of the server, the database and the station stays in its domain, and no
\* request under way is without a profile.
THEOREM TypeCorrect == Spec => []TypeOK
<1>1. IInv => TypeOK
  BY DEF IInv
<1> QED BY <1>1, Invariant, PTL

\* choose_profile_id gives no id twice until the server crashes, however requests overlap
\* and fail (chargePointRepr.py:389-399, 476-483).
THEOREM IdsAreFresh == Spec => []FreshIds
<1>1. IInv => FreshIds
  BY DEF IInv
<1> QED BY <1>1, Invariant, PTL
-------------------------------------------------------------------------------
(* The rows never contradict each other.                                   *)

\* A profile for a transaction that is not known yet: it is checked against none.
Untold(p) == p.purpose = "tx" /\ p.tran = None

\* What two rows must not be.
Conflict(p, r) ==
    /\ p.purpose = r.purpose /\ p.level = r.level /\ p.tran = r.tran
    /\ OnEvses(p) \cap OnEvses(r) # {}
    /\ ~Untold(p)

\* No row is in the way of a profile, but the one it replaces.
Free(p, rs) == \A r \in rs : r.id # p.id => ~Conflict(p, r)

\* One request is in progress at a time, and asks the database once.
OneRequest == \A c, d \in Calls : InProgress(c) /\ InProgress(d) => c = d
AsksOnce ==
    \A j \in DOMAIN toDb : toDb[j].op = "select" => pc[toDb[j].call] \notin {"idle", "reading"}

\* A request is checked when the rows of those before it are there ...
ChecksLast ==
    \A i, j \in DOMAIN toDb :
        toDb[i].op = "create" /\ toDb[j].op = "select" /\ pc[toDb[j].call] = "checking" => i < j

\* ... so that what was checked stays free until its own row is written.
CheckedIsFree ==
    \A c \in Calls : pc[c] \in {"calling", "accepted"} /\ ~Untold(prof[c]) =>
        /\ Free(prof[c], rows)
        /\ \A i \in DOMAIN toDb : toDb[i].op = "create" => Untold(toDb[i].profile)
CreatedIsFree ==
    \A i \in DOMAIN toDb : toDb[i].op = "create" /\ ~Untold(toDb[i].profile) =>
        /\ Free(toDb[i].profile, rows)
        /\ \A j \in DOMAIN toDb : j # i /\ toDb[j].op = "create" => Untold(toDb[j].profile)
NoConflicts == \A r, s \in rows : r # s => ~Conflict(r, s)

RowsInv ==
    ~overlapping => /\ OneRequest /\ AsksOnce /\ ChecksLast
                    /\ CheckedIsFree /\ CreatedIsFree /\ NoConflicts

\* It holds initially.
LEMMA InitRowsInv == Init => RowsInv
<1>1. DOMAIN <<>> = {}
  OBVIOUS
<1> QED BY <1>1 DEF Init, RowsInv, OneRequest, AsksOnce, ChecksLast, CheckedIsFree,
                    CreatedIsFree, NoConflicts, InProgress

\* Where the elements of Append and of Tail are.
LEMMA AppendAt ==
    ASSUME NEW q \in Seq(Message), NEW m \in Message
    PROVE  /\ Len(q) \in Nat /\ DOMAIN q = 1 .. Len(q)
           /\ DOMAIN Append(q, m) = 1 .. Len(q) + 1
           /\ \A i \in 1 .. Len(q) : Append(q, m)[i] = q[i]
           /\ Append(q, m)[Len(q) + 1] = m
  OBVIOUS
LEMMA TailAt ==
    ASSUME NEW q \in Seq(Message), q # <<>>
    PROVE  /\ Tail(q) \in Seq(Message) /\ Head(q) = q[1] /\ 1 \in DOMAIN q
           /\ \A i \in DOMAIN Tail(q) : /\ i \in Nat \ {0} /\ i + 1 \in DOMAIN q
                                        /\ Tail(q)[i] = q[i + 1]
<1>1. Len(q) \in Nat \ {0} /\ DOMAIN q = 1 .. Len(q) /\ Head(q) = q[1]
      /\ Tail(q) \in Seq(Message) /\ DOMAIN Tail(q) = 1 .. Len(q) - 1
  OBVIOUS
<1>2. ASSUME NEW i \in 1 .. Len(q) - 1 PROVE Tail(q)[i] = q[i + 1]
  BY <1>1
<1> QED BY <1>1, <1>2

\* Fewer rows are in the way of less.
LEMMA FewerRows ==
    ASSUME NEW rs, NEW ts, ts \subseteq rs, NEW p, Free(p, rs)
    PROVE  Free(p, ts)
  BY DEF Free

\* The queue without its first k messages.
Behind(q, k) ==
    q \in Seq(Message) /\ \A i \in DOMAIN q : i + k \in DOMAIN toDb /\ q[i] = toDb[i + k]

\* Request c goes on and no other: it asks the database before it is checked, and has its
\* profile written when it was accepted.
GoesOn(c, m) ==
    /\ \A d \in Calls : d # c => pc'[d] = pc[d] /\ prof'[d] = prof[d]
    /\ c \in Calls =>
        /\ pc'[c] \in {"idle", "reading"} => pc[c] \in {"idle", "reading"}
        /\ InProgress(c)' => InProgress(c) \/ \A d \in Calls : ~InProgress(d)
        /\ pc'[c] = "checking" => pc[c] \in {"idle", "reading", "checking"}
    /\ m.op = "select" => /\ c \in Calls /\ m.call = c
                          /\ pc[c] \in {"idle", "reading"} /\ pc'[c] = "checking"
    /\ m.op = "create" => /\ c \in Calls /\ m.profile = prof[c]
                          /\ pc[c] = "accepted" /\ ~InProgress(c)'

\* If it is at the station or accepted, it was found free.
StaysFree(c, q) ==
    c \in Calls /\ pc'[c] \in {"calling", "accepted"} /\ ~Untold(prof'[c]) =>
        /\ Free(prof'[c], rows)
        /\ \A i \in DOMAIN q : q[i].op = "create" => Untold(q[i].profile)

\* One request goes on, messages leave the front of the queue and one may join it at the
\* back, and rows go.
LEMMA RequestStep ==
    ASSUME RowsInv, overlapping' = overlapping, rows' \subseteq rows,
           NEW c, NEW q, NEW k \in Nat, NEW m \in Message,
           Behind(q, k), toDb' = q \/ toDb' = Append(q, m),
           ~overlapping => GoesOn(c, m) /\ StaysFree(c, q)
    PROVE  RowsInv'
<1> SUFFICES ASSUME ~overlapping PROVE RowsInv'
  BY DEF RowsInv
<1> USE DEF Behind, GoesOn, StaysFree
<1> q \in Seq(Message)
  OBVIOUS
<1> OneRequest /\ AsksOnce /\ ChecksLast /\ CheckedIsFree /\ CreatedIsFree /\ NoConflicts
  BY DEF RowsInv
<1> DEFINE L == Len(q)
<1>1. L \in Nat /\ DOMAIN q = 1 .. L
  BY AppendAt
<1>2. ASSUME NEW i \in DOMAIN toDb'
      PROVE  /\ i \in Nat
             /\ \/ i \in DOMAIN q /\ toDb'[i] = q[i]
                \/ i = L + 1 /\ toDb'[i] = m
  <2>1. CASE toDb' = q
    BY <1>1, <1>2, <2>1
  <2>2. CASE toDb' = Append(q, m)
    BY <1>1, <1>2, <2>2, AppendAt
  <2> QED BY <2>1, <2>2
<1> HIDE DEF L
<1>3. OneRequest'
  BY DEF OneRequest, InProgress
<1>4. \A i \in DOMAIN q : q[i].op = "select" => q[i].call \in Calls
  BY MessageFields
<1>5. m.op = "create" => \A d \in Calls : d # c => ~InProgress(d)
  BY DEF OneRequest, InProgress
<1>6. AsksOnce'
  <2> SUFFICES ASSUME NEW j \in DOMAIN toDb', toDb'[j].op = "select"
               PROVE  pc'[toDb'[j].call] \notin {"idle", "reading"}
    BY DEF AsksOnce
  <2>1. CASE j \in DOMAIN q /\ toDb'[j] = q[j]
    <3>1. pc[q[j].call] \notin {"idle", "reading"}
      BY <2>1 DEF AsksOnce
    <3> QED BY <1>4, <2>1, <3>1
  <2>2. CASE toDb'[j] = m
    BY <2>2
  <2> QED BY <1>2, <2>1, <2>2
<1>7. ChecksLast'
  <2> SUFFICES ASSUME NEW i \in DOMAIN toDb', NEW j \in DOMAIN toDb',
                      toDb'[i].op = "create", toDb'[j].op = "select",
                      pc'[toDb'[j].call] = "checking"
               PROVE  i < j
    BY DEF ChecksLast
  <2>1. CASE j \in DOMAIN q /\ toDb'[j] = q[j]
    <3>1. /\ pc[q[j].call] = "checking" /\ q[j].call \in Calls
          /\ j + k \in DOMAIN toDb /\ toDb[j + k] = q[j]
      <4>1. pc[q[j].call] \notin {"idle", "reading"} /\ q[j].call \in Calls
        BY <1>4, <2>1 DEF AsksOnce
      <4> QED BY <2>1, <4>1
    <3>2. CASE i \in DOMAIN q /\ toDb'[i] = q[i]
      <4>1. i + k < j + k
        BY <2>1, <3>1, <3>2 DEF ChecksLast
      <4> QED BY <1>1, <2>1, <3>2, <4>1
    <3>3. CASE toDb'[i] = m
      <4>1. q[j].call # c
        BY <2>1, <3>3 DEF InProgress
      <4> QED BY <1>5, <3>1, <3>3, <4>1 DEF InProgress
    <3> QED BY <1>2, <3>2, <3>3
  <2>2. CASE j = L + 1 /\ toDb'[j] = m
    <3>1. i \in 1 .. L
      BY <1>1, <1>2, <2>2
    <3> QED BY <1>1, <2>2, <3>1
  <2> QED BY <1>2, <2>1, <2>2
<1>8. CheckedIsFree'
  <2> SUFFICES ASSUME NEW d \in Calls, pc'[d] \in {"calling", "accepted"}, ~Untold(prof'[d])
               PROVE  /\ Free(prof'[d], rows')
                      /\ \A i \in DOMAIN toDb' : toDb'[i].op = "create" => Untold(toDb'[i].profile)
    BY DEF CheckedIsFree, Free, Untold
  <2>1. m.op # "create"
    BY <1>5 DEF InProgress
  <2>2. Free(prof'[d], rows) /\ \A i \in DOMAIN q : q[i].op = "create" => Untold(q[i].profile)
    BY DEF CheckedIsFree
  <2> QED BY <1>2, <2>1, <2>2, FewerRows
<1>9. m.op = "create" =>
        /\ Free(m.profile, rows) \/ Untold(m.profile)
        /\ ~Untold(m.profile) => \A i \in DOMAIN q : q[i].op = "create" => Untold(q[i].profile)
  BY DEF CheckedIsFree
<1>10. CreatedIsFree'
  <2> SUFFICES ASSUME NEW i \in DOMAIN toDb', toDb'[i].op = "create", ~Untold(toDb'[i].profile)
               PROVE  /\ Free(toDb'[i].profile, rows')
                      /\ \A j \in DOMAIN toDb' : j # i /\ toDb'[j].op = "create"
                                                     => Untold(toDb'[j].profile)
    BY DEF CreatedIsFree, Free, Untold
  <2>1. CASE i \in DOMAIN q /\ toDb'[i] = q[i]
    <3>1. /\ Free(q[i].profile, rows)
          /\ \A j \in DOMAIN toDb : j # i + k /\ toDb[j].op = "create" => Untold(toDb[j].profile)
      BY <2>1 DEF CreatedIsFree
    <3>2. ASSUME NEW j \in DOMAIN q, j # i, q[j].op = "create" PROVE Untold(q[j].profile)
      <4>1. j + k # i + k
        BY <1>1, <2>1, <3>2
      <4> QED BY <3>1, <3>2, <4>1
    <3>3. m.op = "create" => Untold(m.profile)
      BY <1>9, <2>1
    <3> QED BY <1>2, <2>1, <3>1, <3>2, <3>3, FewerRows
  <2>2. CASE i = L + 1 /\ toDb'[i] = m
    <3>1. Free(m.profile, rows) /\ \A j \in DOMAIN q : q[j].op = "create" => Untold(q[j].profile)
      BY <1>9, <2>2
    <3> QED BY <1>2, <2>2, <3>1, FewerRows
  <2> QED BY <1>2, <2>1, <2>2
<1>11. NoConflicts'
  BY DEF NoConflicts
<1> QED BY <1>3, <1>6, <1>7, <1>8, <1>10, <1>11 DEF RowsInv

\* A row is written.
LEMMA CreateRows == ASSUME IInv, RowsInv, DbCreate PROVE RowsInv'
<1> DEFINE q == Tail(toDb)
           p == Head(toDb).profile
<1>1. /\ toDb # <<>> /\ toDb' = q /\ Head(toDb).op = "create"
      /\ rows' = {r \in rows : r.id # p.id} \cup {p}
      /\ UNCHANGED <<overlapping, pc, prof>>
  BY DEF DbCreate, Head1, request
<1>2. /\ q \in Seq(Message) /\ Head(toDb) = toDb[1] /\ 1 \in DOMAIN toDb
      /\ \A i \in DOMAIN q : i \in Nat \ {0} /\ i + 1 \in DOMAIN toDb /\ q[i] = toDb[i + 1]
  BY <1>1, TailAt DEF IInv, TypeOK
<1> HIDE DEF q
<1> SUFFICES ASSUME ~overlapping PROVE RowsInv'
  BY <1>1 DEF RowsInv
<1>3. /\ OneRequest /\ AsksOnce /\ ChecksLast /\ CheckedIsFree /\ CreatedIsFree /\ NoConflicts
  BY DEF RowsInv
<1>4. p = toDb[1].profile /\ toDb[1].op = "create"
  BY <1>1, <1>2
<1> HIDE DEF p
<1>5. OneRequest' /\ AsksOnce'
  BY <1>1, <1>2, <1>3 DEF OneRequest, AsksOnce, InProgress
<1>6. ChecksLast'
  <2> SUFFICES ASSUME NEW i \in DOMAIN q, NEW j \in DOMAIN q, q[i].op = "create",
                      q[j].op = "select", pc[q[j].call] = "checking"
               PROVE  i < j
    BY <1>1 DEF ChecksLast
  <2>1. i + 1 < j + 1
    BY <1>2, <1>3 DEF ChecksLast
  <2> QED BY <1>2, <2>1
\* What is free of the rows is free of this one, if one of the two is of no known transaction.
<1>7. ASSUME NEW r, Free(r, rows), Untold(r) \/ Untold(p) PROVE Free(r, rows')
  BY <1>1, <1>7 DEF Free, Conflict, Untold
<1>8. CheckedIsFree'
  <2> SUFFICES ASSUME NEW d \in Calls, pc[d] \in {"calling", "accepted"}, ~Untold(prof[d])
               PROVE  /\ Free(prof[d], rows')
                      /\ \A i \in DOMAIN q : q[i].op = "create" => Untold(q[i].profile)
    BY <1>1 DEF CheckedIsFree, Free, Untold
  <2>1. /\ Free(prof[d], rows)
        /\ \A i \in DOMAIN toDb : toDb[i].op = "create" => Untold(toDb[i].profile)
    BY <1>3 DEF CheckedIsFree
  <2> QED BY <1>2, <1>4, <1>7, <2>1
<1>9. CreatedIsFree'
  <2> SUFFICES ASSUME NEW i \in DOMAIN q, q[i].op = "create", ~Untold(q[i].profile)
               PROVE  /\ Free(q[i].profile, rows')
                      /\ \A j \in DOMAIN q : j # i /\ q[j].op = "create" => Untold(q[j].profile)
    BY <1>1 DEF CreatedIsFree, Free, Untold
  <2>1. i + 1 \in DOMAIN toDb /\ q[i] = toDb[i + 1] /\ i + 1 # 1
    BY <1>2
  <2>2. /\ Free(q[i].profile, rows)
        /\ \A j \in DOMAIN toDb : j # i + 1 /\ toDb[j].op = "create" => Untold(toDb[j].profile)
    BY <1>3, <2>1 DEF CreatedIsFree
  <2>3. Untold(p)
    BY <1>2, <1>4, <2>1, <2>2
  <2>4. ASSUME NEW j \in DOMAIN q, j # i, q[j].op = "create" PROVE Untold(q[j].profile)
    <3>1. j + 1 # i + 1 /\ j + 1 \in DOMAIN toDb /\ q[j] = toDb[j + 1]
      BY <1>2, <2>4
    <3> QED BY <2>2, <2>4, <3>1
  <2> QED BY <1>7, <2>2, <2>3, <2>4
<1>10. NoConflicts'
  <2>1. Untold(p) \/ Free(p, rows)
    BY <1>2, <1>3, <1>4 DEF CreatedIsFree
  <2>2. ASSUME NEW r \in rows, r.id # p.id PROVE ~Conflict(p, r) /\ ~Conflict(r, p)
    BY <2>1, <2>2 DEF Free, Conflict, Untold
  <2> QED BY <1>1, <1>3, <2>2 DEF NoConflicts
<1> QED BY <1>5, <1>6, <1>8, <1>9, <1>10 DEF RowsInv

\* What the check finds free.
LEMMA NothingFound ==
    ASSUME NEW p \in Profile, {r \in Selected(p) : InConflict(p, r)} = {}
    PROVE  Free(p, rows)
<1> SUFFICES ASSUME NEW r \in rows, r.id # p.id, Conflict(p, r) PROVE FALSE
  BY DEF Free
<1>1. p.evse = 0 \/ p.evse \in OnEvses(r)
  BY DEF Conflict, OnEvses
<1>2. r \in Selected(p) /\ InConflict(p, r)
  BY <1>1 DEF Conflict, Selected, InConflict
<1> QED BY <1>2

\* While requests do not overlap, one starts when none is in progress.
LEMMA NoneInProgress ==
    ASSUME ~overlapping, NEW c \in Calls, MayStart(c)
    PROVE  pc[c] = "idle" /\ \A d \in Calls : ~InProgress(d)
  BY DEF MayStart

\* A request begins, with a message to the database or none.
LEMMA BeginRows ==
    ASSUME IInv, RowsInv, NEW c \in Calls, MayStart(c), NEW p, NEW g, NEW next \in PC,
           Begin(c, p, g, next), next \in {"checking", "calling", "failed"},
           \A i : next = "calling" => Untold([p EXCEPT !.id = i]),
           NEW m \in Message, toDb' = toDb \/ toDb' = Append(toDb, m), m.op # "create",
           m.op = "select" => m.call = c /\ next = "checking"
    PROVE  RowsInv'
<1> DEFINE n == [p EXCEPT !.id = IF g = None THEN counter ELSE g]
<1>1. /\ prof' = [prof EXCEPT ![c] = n] /\ pc' = [pc EXCEPT ![c] = next]
      /\ UNCHANGED <<overlapping, rows>>
  BY DEF Begin
<1> SUFFICES ASSUME ~overlapping PROVE RowsInv'
  BY <1>1 DEF RowsInv
<1>2. pc \in [Calls -> PC] /\ prof \in [Calls -> Profile \cup {None}] /\ toDb \in Seq(Message)
  BY DEF IInv, TypeOK
<1>3. next = "calling" => Untold(n)
  OBVIOUS
<1> HIDE DEF n
<1>4. /\ prof'[c] = n /\ pc'[c] = next
      /\ \A d \in Calls : d # c => prof'[d] = prof[d] /\ pc'[d] = pc[d]
  BY <1>1, <1>2
<1>5. pc[c] = "idle" /\ \A d \in Calls : ~InProgress(d)
  BY NoneInProgress
<1>6. Behind(toDb, 0)
  BY <1>2, AppendAt DEF Behind
<1>7. GoesOn(c, m)
  BY <1>4, <1>5 DEF GoesOn, InProgress
<1>8. StaysFree(c, toDb)
  BY <1>3, <1>4 DEF StaysFree
<1> QED BY <1>1, <1>6, <1>7, <1>8, RequestStep, 0 \in Nat

\* The invariant is inductive.
LEMMA NextRowsInv == IInv /\ RowsInv /\ [Next]_vars => RowsInv'
<1> SUFFICES ASSUME IInv, RowsInv, [Next]_vars PROVE RowsInv'
  OBVIOUS
<1>a. /\ pc \in [Calls -> PC] /\ prof \in [Calls -> Profile \cup {None}]
      /\ toDb \in Seq(Message)
  BY DEF IInv, TypeOK
<1>b. Behind(toDb, 0) /\ 0 \in Nat
  BY <1>a, AppendAt DEF Behind
<1>c. toDb # <<>> => /\ Behind(Tail(toDb), 1) /\ 1 \in Nat /\ 1 \in DOMAIN toDb
                     /\ Head(toDb) = toDb[1] /\ Head(toDb) \in Message
  BY <1>a, TailAt, TailMessage DEF Behind
<1>d. [op |-> "clear"] \in Message /\ [op |-> "clear"].op \notin {"select", "create"}
  BY Messages
<1>1. ASSUME NEW c \in Calls, SetProfile(c) PROVE RowsInv'
  <2>1. PICK e \in EVSEs \cup {0}, u \in {"tx", "default"}, l \in Levels,
             x \in Trans \cup {None}, g \in GivenIds \cup {None} :
               LET p == Some(e, u, l, x) IN
               IF WellFormed(p)
               THEN Begin(c, p, g, "checking") /\ toDb' = Append(toDb, [op |-> "select", call |-> c])
               ELSE g = None /\ Begin(c, p, g, "failed") /\ UNCHANGED toDb
    BY <1>1 DEF SetProfile
  <2> DEFINE p == Some(e, u, l, x)
             m == [op |-> "select", call |-> c]
  <2>2. m \in Message /\ m.op # "create" /\ m.call = c /\ MayStart(c)
    BY <1>1, Messages DEF SetProfile
  <2>3. \/ Begin(c, p, g, "checking") /\ toDb' = Append(toDb, m)
        \/ Begin(c, p, g, "failed") /\ toDb' = toDb
    BY <2>1
  <2>4. "checking" \in PC /\ "failed" \in PC
    BY DEF PC
  <2>5. [op |-> "clear"].op # "select" /\ [op |-> "clear"].op # "create"
    OBVIOUS
  <2> HIDE DEF p, m
  <2>6. CASE Begin(c, p, g, "checking") /\ toDb' = Append(toDb, m)
    BY <2>2, <2>4, <2>6, BeginRows
  <2>7. CASE Begin(c, p, g, "failed") /\ toDb' = toDb
    BY <1>d, <2>2, <2>4, <2>5, <2>7, BeginRows
  <2> QED BY <2>3, <2>6, <2>7
<1>2. ASSUME NEW c \in Calls, StartWithProfile(c) PROVE RowsInv'
  <2>1. PICK e \in EVSEs, u \in {"tx", "default"}, l \in Levels,
             x \in Trans \cup {None}, g \in GivenIds \cup {None} :
               IF u = "tx" /\ x = None
               THEN Begin(c, Some(e, u, l, x), g, "calling")
               ELSE g = None /\ Begin(c, Some(e, u, l, x), g, "failed")
    BY <1>2 DEF StartWithProfile
  <2> DEFINE p == Some(e, u, l, x)
  <2>2. u = "tx" /\ x = None => \A i : Untold([p EXCEPT !.id = i])
    BY DEF Some, Untold
  <2>3. MayStart(c) /\ toDb' = toDb /\ "calling" \in PC /\ "failed" \in PC
    BY <1>2 DEF StartWithProfile, PC
  <2>4. \/ u = "tx" /\ x = None /\ Begin(c, p, g, "calling")
        \/ Begin(c, p, g, "failed")
    BY <2>1
  <2> HIDE DEF p
  <2>5. CASE u = "tx" /\ x = None /\ Begin(c, p, g, "calling")
    BY <1>d, <2>2, <2>3, <2>5, BeginRows
  <2>6. CASE Begin(c, p, g, "failed")
    BY <1>d, <2>3, <2>6, BeginRows
  <2> QED BY <2>4, <2>5, <2>6
<1>3. ASSUME NEW c \in Calls, SetMaxPower(c) PROVE RowsInv'
  <2> DEFINE m == [op |-> "read", call |-> c]
  <2>1. m \in Message /\ m.op \notin {"select", "create"} /\ toDb' = Append(toDb, m)
    BY <1>3, Messages DEF SetMaxPower
  <2>2. /\ pc'[c] = "reading" /\ UNCHANGED <<overlapping, rows>>
        /\ \A d \in Calls : d # c => pc'[d] = pc[d] /\ prof'[d] = prof[d]
    BY <1>3, <1>a DEF SetMaxPower
  <2> HIDE DEF m
  <2>3. ~overlapping => GoesOn(c, m)
    BY <1>3, <2>1, <2>2, NoneInProgress DEF SetMaxPower, GoesOn
  <2>4. StaysFree(c, toDb)
    BY <2>2 DEF StaysFree
  <2> QED BY <1>b, <2>1, <2>2, <2>3, <2>4, RequestStep
<1>4. ASSUME NEW c \in Calls, Clear(c) PROVE RowsInv'
  <2> DEFINE m == [op |-> "clear"]
  <2>1. m \in Message /\ m.op \notin {"select", "create"} /\ toDb' = Append(toDb, m)
    BY <1>4, Messages DEF Clear
  <2>2. /\ pc'[c] = "done" /\ UNCHANGED <<overlapping, rows, prof>>
        /\ \A d \in Calls : d # c => pc'[d] = pc[d]
    BY <1>4, <1>a DEF Clear
  <2> HIDE DEF m
  <2>3. GoesOn(c, m)
    BY <2>1, <2>2 DEF GoesOn, InProgress
  <2>4. StaysFree(c, toDb)
    BY <2>2 DEF StaysFree
  <2> QED BY <1>b, <2>1, <2>2, <2>3, <2>4, RequestStep
<1>5. ASSUME NEW c \in Calls, Accept(c) \/ Refuse(c) PROVE RowsInv'
  <2> DEFINE m == [op |-> "clear"]
  <2>1. /\ pc[c] = "calling" /\ pc'[c] \in {"accepted", "failed"}
        /\ UNCHANGED <<overlapping, rows, prof, toDb>>
        /\ \A d \in Calls : d # c => pc'[d] = pc[d]
    BY <1>5, <1>a DEF Accept, Refuse
  <2>2. m \in Message /\ m.op \notin {"select", "create"}
    BY Messages
  <2> HIDE DEF m
  <2>3. GoesOn(c, m)
    BY <2>1, <2>2 DEF GoesOn, InProgress
  <2>4. ~overlapping => StaysFree(c, toDb)
    BY <2>1 DEF StaysFree, RowsInv, CheckedIsFree
  <2> QED BY <1>b, <2>1, <2>2, <2>3, <2>4, RequestStep
<1>6. ASSUME NEW c \in Calls, Publish(c) PROVE RowsInv'
  <2> DEFINE m == [op |-> "create", profile |-> prof[c]]
  <2>1. /\ pc[c] = "accepted" /\ pc'[c] = "done" /\ UNCHANGED <<overlapping, rows, prof>>
        /\ toDb' = Append(toDb, m) \/ toDb' = toDb
        /\ \A d \in Calls : d # c => pc'[d] = pc[d]
    BY <1>6, <1>a DEF Publish
  <2>2. m \in Message /\ m.op = "create" /\ m.profile = prof[c]
    BY <2>1, Messages DEF IInv, HasProfile, InProgress
  <2> HIDE DEF m
  <2>3. PICK n : n = m
    OBVIOUS
  <2>4. GoesOn(c, n)
    BY <2>1, <2>2, <2>3 DEF GoesOn, InProgress
  <2>5. StaysFree(c, toDb)
    BY <2>1 DEF StaysFree
  <2> QED BY <1>b, <2>1, <2>2, <2>3, <2>4, <2>5, RequestStep
<1>7. ASSUME NEW x \in Trans, End(x) PROVE RowsInv'
  <2> DEFINE m == [op |-> "remove", tran |-> x]
  <2>1. m \in Message /\ m.op \notin {"select", "create"} /\ toDb' = Append(toDb, m)
    BY <1>7, Messages DEF End
  <2>2. UNCHANGED <<overlapping, rows, prof, pc>>
    BY <1>7 DEF End, request
  <2> HIDE DEF m
  <2>3. GoesOn(None, m) /\ StaysFree(None, toDb)
    BY <2>1, <2>2, NoneAssumption DEF GoesOn, StaysFree
  <2> QED BY <1>b, <2>1, <2>2, <2>3, RequestStep
<1>8. ASSUME NEW i \in ExternalIds, External(i) PROVE RowsInv'
  <2>1. UNCHANGED <<overlapping, rows, prof, pc, toDb>>
    BY <1>8 DEF External, request
  <2>2. GoesOn(None, [op |-> "clear"]) /\ StaysFree(None, toDb)
    BY <1>d, <2>1, NoneAssumption DEF GoesOn, StaysFree
  <2> QED BY <1>b, <1>d, <2>1, <2>2, RequestStep
<1>9. CASE Restart
  <2>1. UNCHANGED <<overlapping, rows, prof, toDb>>
    BY <1>9 DEF Restart
  <2>2. \A c \in Calls : IF InProgress(c) THEN pc'[c] = "failed" ELSE pc'[c] = pc[c]
    BY <1>9 DEF Restart
  <2> SUFFICES ASSUME ~overlapping PROVE RowsInv'
    BY <2>1 DEF RowsInv
  <2>3. OneRequest /\ AsksOnce /\ ChecksLast /\ CheckedIsFree /\ CreatedIsFree /\ NoConflicts
    BY DEF RowsInv
  <2>4. \A c \in Calls : ~InProgress(c)'
    BY <2>2 DEF InProgress
  <2>5. \A i \in DOMAIN toDb : toDb[i].op = "select" => toDb[i].call \in Calls
    BY <1>a, MessageFields
  <2>6. AsksOnce' /\ ChecksLast'
    BY <2>1, <2>2, <2>3, <2>4, <2>5 DEF AsksOnce, ChecksLast, InProgress
  <2>7. OneRequest' /\ CheckedIsFree'
    BY <2>4 DEF OneRequest, CheckedIsFree, InProgress
  <2>8. CreatedIsFree' /\ NoConflicts'
    BY <2>1, <2>3 DEF CreatedIsFree, NoConflicts, Free
  <2> QED BY <2>3, <2>6, <2>7, <2>8 DEF RowsInv
<1>10. CASE DbSelect
  <2> DEFINE c == Head(toDb).call
             found == {r \in Selected(prof[c]) : InConflict(prof[c], r)}
  <2>1. toDb # <<>> /\ toDb' = Tail(toDb) /\ toDb[1].op = "select" /\ UNCHANGED <<overlapping, rows, prof>>
    BY <1>10, <1>c DEF DbSelect, Head1, server
  <2>2. c \in Calls /\ c = toDb[1].call
    BY <1>c, <2>1, MessageFields
  <2>3. \/ pc' = pc
        \/ /\ pc[c] = "checking"
           /\ pc' = [pc EXCEPT ![c] = IF found # {} THEN "failed" ELSE "calling"]
    BY <1>10 DEF DbSelect
  <2>4. pc'[c] = "calling" => found = {} \/ pc[c] = "calling"
    BY <1>a, <2>2, <2>3
  <2>5. pc[c] = "checking" => prof[c] \in Profile
    BY <2>2 DEF IInv, HasProfile, InProgress
  <2>6. pc[c] = "checking" /\ found = {} => Free(prof[c], rows)
    BY <2>5, NothingFound
  <2> HIDE DEF found
  <2>7. PICK d \in Calls : d = c
    BY <2>2
  <2> HIDE DEF c
  <2>8. GoesOn(d, [op |-> "clear"])
    BY <1>a, <1>d, <2>1, <2>2, <2>3, <2>7 DEF GoesOn, InProgress
  <2>9. ASSUME ~overlapping PROVE StaysFree(d, Tail(toDb))
    <3> SUFFICES ASSUME pc'[d] \in {"calling", "accepted"}, ~Untold(prof[d])
                 PROVE  /\ Free(prof[d], rows)
                        /\ \A i \in DOMAIN Tail(toDb) :
                              Tail(toDb)[i].op = "create" => Untold(Tail(toDb)[i].profile)
      BY <2>1 DEF StaysFree
    <3>1. \A i \in DOMAIN Tail(toDb) : /\ i + 1 \in DOMAIN toDb /\ Tail(toDb)[i] = toDb[i + 1]
                                       /\ ~(i + 1 < 1)
      BY <1>a, <2>1, TailAt
    <3>2. CASE pc[d] = "checking"
      <4>1. Free(prof[d], rows)
        BY <1>a, <2>3, <2>4, <2>6, <2>7, <3>2
      <4>2. \A i \in DOMAIN toDb : toDb[i].op = "create" => i < 1
        BY <1>c, <2>1, <2>2, <2>7, <2>9, <3>2 DEF RowsInv, ChecksLast
      <4> QED BY <3>1, <4>1, <4>2
    <3>3. CASE pc[d] \in {"calling", "accepted"}
      BY <2>9, <3>1, <3>3 DEF RowsInv, CheckedIsFree
    <3> QED BY <1>a, <2>3, <2>7, <3>2, <3>3
  <2> QED BY <1>c, <1>d, <2>1, <2>8, <2>9, RequestStep
<1>11. CASE DbRead
  <2> DEFINE c == Head(toDb).call
  <2>1. toDb # <<>> /\ UNCHANGED <<overlapping, rows>> /\ Head(toDb).op = "read"
    BY <1>11 DEF DbRead
  <2>2. c \in Calls
    BY <1>c, <2>1, MessageFields
  <2>3. CASE pc[c] # "reading"
    <3>1. toDb' = Tail(toDb) /\ UNCHANGED <<pc, prof>>
      BY <1>11, <2>3 DEF DbRead, request
    <3>2. GoesOn(None, [op |-> "clear"]) /\ StaysFree(None, Tail(toDb))
      BY <1>d, <3>1, NoneAssumption DEF GoesOn, StaysFree
    <3> QED BY <1>c, <1>d, <2>1, <3>1, <3>2, RequestStep
  <2>4. CASE pc[c] = "reading"
    <3> DEFINE mine == {r \in rows : r.tran = prof[c].tran}
    <3>1. /\ toDb' = Append(Tail(toDb), [op |-> "select", call |-> c])
          /\ pc' = [pc EXCEPT ![c] = "checking"]
          /\ \/ prof' = [prof EXCEPT ![c].id = counter]
             \/ \E r \in mine : prof' = [prof EXCEPT ![c].id = r.id, ![c].level = r.level]
      BY <1>11, <2>4 DEF DbRead
    <3>2. PICK d \in Calls : d = c
      BY <2>2
    <3> DEFINE m == [op |-> "select", call |-> d]
    <3>3. m \in Message /\ m.op = "select" /\ m.call = d
      BY Messages
    <3>4. toDb' = Append(Tail(toDb), m)
      BY <3>1, <3>2
    <3>5. /\ pc'[d] = "checking" /\ pc[d] = "reading"
          /\ \A b \in Calls : b # d => pc'[b] = pc[b] /\ prof'[b] = prof[b]
      BY <1>a, <2>4, <3>1, <3>2
    <3> HIDE DEF m, c, mine
    <3>6. GoesOn(d, m) /\ StaysFree(d, Tail(toDb))
      BY <3>3, <3>5 DEF GoesOn, StaysFree, InProgress
    <3> QED BY <1>c, <2>1, <3>3, <3>4, <3>6, RequestStep
  <2> QED BY <2>3, <2>4
<1>12. CASE DbRemove \/ DbClear
  <2>1. /\ toDb # <<>> /\ toDb' = Tail(toDb) /\ rows' \subseteq rows
        /\ UNCHANGED <<overlapping, pc, prof>>
    BY <1>12 DEF DbRemove, DbClear, Head1, request
  <2>2. GoesOn(None, [op |-> "clear"]) /\ StaysFree(None, Tail(toDb))
    BY <1>d, <2>1, NoneAssumption DEF GoesOn, StaysFree
  <2> QED BY <1>c, <1>d, <2>1, <2>2, RequestStep
<1>13. CASE UNCHANGED vars
  <2>1. UNCHANGED <<overlapping, rows, prof, pc, toDb>>
    BY <1>13 DEF vars, request
  <2>2. GoesOn(None, [op |-> "clear"]) /\ StaysFree(None, toDb)
    BY <1>d, <2>1, NoneAssumption DEF GoesOn, StaysFree
  <2> QED BY <1>b, <1>d, <2>1, <2>2, RequestStep
<1> QED BY <1>1, <1>2, <1>3, <1>4, <1>5, <1>6, <1>7, <1>8, <1>9, <1>10, <1>11, <1>12, <1>13,
           CreateRows DEF Next

\* While requests do not overlap, no two rows are for the same purpose, stack level,
\* transaction and EVSE, whatever profiles for the whole station, replacements, restarts and
\* failures came in between (chargePointRepr.py:348-370, db.py:377-398).
THEOREM RowsNeverConflict == Spec => []NoConflictingRows
<1>1. Init => IInv /\ RowsInv
  BY InitIInv, InitRowsInv
<1>2. (IInv /\ RowsInv) /\ [Next]_vars => (IInv /\ RowsInv)'
  BY NextIInv, NextRowsInv
<1>3. IInv /\ RowsInv => NoConflictingRows
  BY DEF RowsInv, NoConflicts, NoConflictingRows, Conflict, Untold
<1> QED BY <1>1, <1>2, <1>3, PTL DEF Spec
===============================================================================
