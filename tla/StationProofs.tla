------------------------------- MODULE StationProofs -------------------------------
(***************************************************************************)
(* What a charging station has, for any bounds.                            *)
(* StationPassword: a change that is reported done leaves the station's    *)
(* BasicAuthPassword and the database the same, and ends the use of the    *)
(* old password, which is the only one the client has.                     *)
(* StationTransactions: the client of a decision point that announces its  *)
(* EVSEs knows the transactions that run.                                  *)
(***************************************************************************)
EXTENDS StationPassword, StationTransactions, SequenceTheorems, TLAPS

(***************************************************************************)
(* Passwords.                                                              *)
(***************************************************************************)

-------------------------------------------------------------------------------
(* The queue.                                                              *)

\* Where the elements of Append are.
LEMMA AppendAt ==
    ASSUME NEW S, NEW q \in Seq(S), NEW x \in S
    PROVE  /\ Append(q, x) \in Seq(S) /\ Len(q) \in Nat
           /\ DOMAIN q = 1 .. Len(q) /\ DOMAIN Append(q, x) = 1 .. Len(q) + 1
           /\ \A i \in 1 .. Len(q) : Append(q, x)[i] = q[i]
           /\ Append(q, x)[Len(q) + 1] = x
  OBVIOUS

\* Where the elements of Tail are.
LEMMA TailAt ==
    ASSUME NEW S, NEW q \in Seq(S), q # <<>>
    PROVE  /\ Head(q) \in S /\ Tail(q) \in Seq(S)
           /\ Len(q) \in Nat \ {0} /\ Head(q) = q[1]
           /\ DOMAIN q = 1 .. Len(q) /\ DOMAIN Tail(q) = 1 .. Len(q) - 1
           /\ \A i \in 1 .. Len(q) - 1 : Tail(q)[i] = q[i + 1]
<1>1. Len(q) \in Nat \ {0} /\ Head(q) = q[1] /\ DOMAIN q = 1 .. Len(q)
  OBVIOUS
<1>2. Head(q) \in S
  BY <1>1
<1>3. /\ Tail(q) \in Seq(S) /\ DOMAIN Tail(q) = 1 .. Len(q) - 1
      /\ \A i \in 1 .. Len(q) - 1 : Tail(q)[i] = q[i + 1]
  BY <1>1
<1> QED BY <1>1, <1>2, <1>3

\* The parts of a message.
LEMMA MessageFields ==
    ASSUME NEW m \in Message
    PROVE  m.op \in {"store", "verify"} /\ m.password \in Passwords
  BY DEF Message

-------------------------------------------------------------------------------
(* Types.                                                                  *)

\* The part of TypeOK that is not about the queue.
StateOK ==
    /\ attribute \in Changes \cup {None}
    /\ row \in Passwords
    /\ link \in {"up", "down", "checking"}
    /\ pc \in [Changes -> PC]
    /\ last \in Changes \cup {None}
    /\ late \subseteq Changes
    /\ drops \in 0 .. MaxDrops /\ faults \in 0 .. MaxFaults
    /\ wiped \in BOOLEAN /\ overlapping \in BOOLEAN

\* The initial state.
LEMMA InitTypeOK == Init => TypeOK
<1> SUFFICES ASSUME Init PROVE TypeOK
  OBVIOUS
<1>1. /\ attribute \in Changes \cup {None} /\ row \in Passwords
      /\ link \in {"up", "down", "checking"} /\ pc \in [Changes -> PC]
      /\ last \in Changes \cup {None} /\ late \subseteq Changes
      /\ drops \in 0 .. MaxDrops /\ faults \in 0 .. MaxFaults
  BY BoundsAssumption DEF Init, Passwords, PC
<1>2. toDb \in Seq(Message)
  <2>1. <<>> \in Seq(Message)
    OBVIOUS
  <2> QED BY <2>1 DEF Init
<1>3. wiped \in BOOLEAN /\ overlapping \in BOOLEAN
  BY Zenon DEF Init
<1> QED BY <1>1, <1>2, <1>3 DEF TypeOK

\* Every step keeps the types.
LEMMA NextTypeOK == TypeOK /\ [Next]_vars => TypeOK'
<1> SUFFICES ASSUME TypeOK, [Next]_vars PROVE TypeOK'
  OBVIOUS
<1>a. StateOK /\ toDb \in Seq(Message)
  BY DEF TypeOK, StateOK
<1>b. StateOK' /\ toDb' \in Seq(Message) => TypeOK'
  BY DEF TypeOK, StateOK
<1> USE BoundsAssumption DEF StateOK, PC, Passwords, station, db, bounds, Goto, Fault
<1>1. ASSUME NEW c \in Changes, Begin(c) \/ Reset(c) \/ GiveUpCall(c) \/ GiveUp(c) PROVE TypeOK'
  BY <1>1, <1>a, <1>b DEF Begin, Reset, GiveUpCall, GiveUp
<1>2. ASSUME NEW c \in Changes, Set(c) \/ WantReboot(c) \/ NotSet(c) \/ LateSet(c) PROVE TypeOK'
  BY <1>2, <1>a, <1>b DEF Set, WantReboot, NotSet, LateSet
<1>3. ASSUME NEW c \in Changes, Ask(c) PROVE TypeOK'
  <2>1. [op |-> "store", password |-> c] \in Message
    BY DEF Message
  <2> QED BY <1>3, <1>a, <1>b, <2>1, AppendAt DEF Ask
<1>4. CASE Drop \/ CheckFails
  BY <1>4, <1>a, <1>b DEF Drop, CheckFails
<1>5. CASE Connect
  <2>1. [op |-> "verify", password |-> Argument] \in Message
    BY DEF Message
  <2>2. toDb' \in Seq(Message)
    BY <1>5, <1>a, <2>1, AppendAt DEF Connect
  <2>3. pc' \in [Changes -> PC] /\ late' = {}
    BY <1>5, <1>a DEF Connect
  <2> QED BY <1>5, <1>a, <1>b, <2>2, <2>3 DEF Connect
<1>6. CASE Verify
  <2>1. toDb' \in Seq(Message)
    BY <1>6, <1>a, TailAt DEF Verify
  <2> QED BY <1>6, <1>a, <1>b, <2>1 DEF Verify
<1>7. CASE Store
  <2>1. toDb' \in Seq(Message) /\ Head(toDb) \in Message
    BY <1>7, <1>a, TailAt DEF Store
  <2>2. Head(toDb).password \in Passwords
    BY <2>1, MessageFields
  <2> QED BY <1>7, <1>a, <1>b, <2>1, <2>2 DEF Store
<1>8. CASE Restart
  BY <1>8, <1>a, <1>b DEF Restart
<1>9. CASE UNCHANGED vars
  BY <1>9, <1>a, <1>b DEF vars
<1> QED BY <1>1, <1>2, <1>3, <1>4, <1>5, <1>6, <1>7, <1>8, <1>9 DEF Next

\* Every variable of the station, the database and their changes stays in its domain.
THEOREM TypeCorrect == Spec => []TypeOK
  BY InitTypeOK, NextTypeOK, PTL DEF Spec

-------------------------------------------------------------------------------
(* A change that is done is stored.                                        *)

Stores(i) == toDb[i].op = "store"

\* Only the last change is in progress, and only its update, one at most, may be on its
\* way: nothing that is older can overtake it.
OneAtATime ==
    /\ \A c \in Changes : InProgress(c) => c = last
    /\ \A i \in DOMAIN toDb :
        Stores(i) => /\ last # None /\ toDb[i].password = last
                     /\ pc[last] \in {"storing", "failed"}
    /\ \A i, j \in DOMAIN toDb : Stores(i) /\ Stores(j) => i = j

\* From its acceptance on the last change is what the station has, no request that was
\* given up can still reach it, and when it is done it is what the database has.
LastIsSet ==
    /\ last # None /\ pc[last] \in {"accepted", "storing", "done"}
        => attribute = last /\ late = {}
    /\ last # None /\ pc[last] = "done" /\ ~wiped => row = last

IInv == TypeOK /\ (~overlapping => OneAtATime /\ LastIsSet)

\* The initial state.
LEMMA InitIInv == Init => IInv
<1> SUFFICES ASSUME Init PROVE OneAtATime /\ LastIsSet
  BY InitTypeOK DEF IInv
<1>1. DOMAIN toDb = {}
  BY DEF Init
<1> QED BY <1>1 DEF Init, OneAtATime, LastIsSet, InProgress, AtStation

\* Every step of a behaviour without overlapping changes keeps the order of updates.
LEMMA NextOneAtATime ==
    ASSUME TypeOK, OneAtATime, [Next]_vars, ~overlapping PROVE OneAtATime'
<1>a. /\ pc \in [Changes -> PC] /\ last \in Changes \cup {None} /\ toDb \in Seq(Message)
      /\ None \notin Changes
  BY PasswordsAssumption DEF TypeOK
<1> USE DEF OneAtATime, InProgress, AtStation, Stores, PC, Goto, db
<1>1. ASSUME NEW c \in Changes, Begin(c) PROVE OneAtATime'
  <2>1. \A i \in DOMAIN toDb : ~Stores(i)
    BY <1>1 DEF Begin, Storing
  <2> QED BY <1>1, <1>a, <2>1 DEF Begin
<1>2. ASSUME NEW c \in Changes,
             \/ Set(c) \/ WantReboot(c) \/ NotSet(c) \/ GiveUpCall(c)
             \/ Reset(c) \/ GiveUp(c)
      PROVE  OneAtATime'
  <2>1. /\ c = last /\ UNCHANGED <<toDb, last>>
        /\ pc[c] \in AtStation \cup {"cut", "storing"}
        /\ \A d \in Changes : d # c => pc'[d] = pc[d]
        /\ pc[c] = "storing" => pc'[c] = "failed"
    BY <1>2, <1>a DEF Set, WantReboot, NotSet, GiveUpCall, Reset, GiveUp
  <2> QED BY <1>a, <2>1
<1>3. ASSUME NEW c \in Changes, Ask(c) PROVE OneAtATime'
  <2> DEFINE m == [op |-> "store", password |-> c]
  <2>1. m \in Message /\ m.op = "store" /\ m.password = c
    BY DEF Message, Passwords
  <2>2. /\ c = last /\ last' = last /\ toDb' = Append(toDb, m)
        /\ pc[c] = "accepted" /\ pc'[c] = "storing"
        /\ \A d \in Changes : d # c => pc'[d] = pc[d]
    BY <1>3, <1>a DEF Ask
  <2>3. \A i \in DOMAIN toDb : ~Stores(i)
    BY <2>2
  <2>4. /\ DOMAIN toDb = 1 .. Len(toDb) /\ DOMAIN toDb' = 1 .. Len(toDb) + 1 /\ Len(toDb) \in Nat
        /\ \A i \in 1 .. Len(toDb) : toDb'[i] = toDb[i]
        /\ toDb'[Len(toDb) + 1] = m
    BY <1>a, <2>1, <2>2, AppendAt
  <2>5. \A i \in DOMAIN toDb' : toDb'[i].op = "store" => i = Len(toDb) + 1 /\ toDb'[i] = m
    BY <2>3, <2>4
  <2> QED BY <2>1, <2>2, <2>5, <1>a
<1>4. CASE Drop \/ CheckFails \/ Restart \/ \E c \in Changes : LateSet(c)
  BY <1>4 DEF Drop, CheckFails, Restart, LateSet
<1>5. CASE Connect
  <2> DEFINE m == [op |-> "verify", password |-> Argument]
  <2>1. m \in Message /\ m.op = "verify"
    BY DEF Message, Passwords
  <2>2. /\ toDb' = Append(toDb, m) /\ last' = last
        /\ \A d \in Changes : pc'[d] = pc[d] \/ (pc[d] \in AtStation /\ pc'[d] = "cut")
    BY <1>5, <1>a DEF Connect
  <2>3. /\ DOMAIN toDb = 1 .. Len(toDb) /\ DOMAIN toDb' = 1 .. Len(toDb) + 1 /\ Len(toDb) \in Nat
        /\ \A i \in 1 .. Len(toDb) : toDb'[i] = toDb[i]
        /\ toDb'[Len(toDb) + 1] = m
    BY <1>a, <2>1, <2>2, AppendAt
  <2>4. \A i \in DOMAIN toDb' : toDb'[i].op = "store" => i \in DOMAIN toDb /\ toDb'[i] = toDb[i]
    BY <2>1, <2>3
  <2> QED BY <1>a, <2>2, <2>4
<1>6. CASE Verify \/ Store
  <2>1. toDb # <<>> /\ toDb' = Tail(toDb) /\ last' = last
    BY <1>6 DEF Verify, Store
  <2>2. /\ Len(toDb) \in Nat \ {0} /\ Head(toDb) = toDb[1]
        /\ DOMAIN toDb = 1 .. Len(toDb) /\ DOMAIN toDb' = 1 .. Len(toDb) - 1
        /\ \A i \in 1 .. Len(toDb) - 1 : toDb'[i] = toDb[i + 1]
    BY <1>a, <2>1, TailAt
  <2>3. \A i \in DOMAIN toDb' : i + 1 \in DOMAIN toDb /\ i + 1 # 1 /\ toDb'[i] = toDb[i + 1]
    BY <2>2
  <2>4. CASE Verify
    <3>1. pc' = pc
      BY <2>4 DEF Verify
    <3>2. \A i, j \in DOMAIN toDb' : i + 1 = j + 1 => i = j
      BY <2>2
    <3> QED BY <2>1, <2>3, <3>1, <3>2
  <2>5. CASE Store
    <3>1. Stores(1) /\ 1 \in DOMAIN toDb /\ Head(toDb).password = last /\ last # None
      BY <2>2, <2>5 DEF Store
    <3>2. \A i \in DOMAIN toDb' : toDb'[i].op # "store"
      BY <2>3, <3>1
    <3>3. \A d \in Changes : (pc'[d] = pc[d] \/ pc'[d] \in {"done", "failed"})
      BY <1>a, <2>5 DEF Store
    <3> QED BY <2>1, <3>2, <3>3
  <2> QED BY <1>6, <2>4, <2>5
<1>7. CASE UNCHANGED vars
  BY <1>7 DEF vars
<1> QED BY <1>1, <1>2, <1>3, <1>4, <1>5, <1>6, <1>7 DEF Next

\* And what the last change has reached.
LEMMA NextLastIsSet ==
    ASSUME TypeOK, OneAtATime, LastIsSet, [Next]_vars, ~overlapping PROVE LastIsSet'
<1>a. /\ pc \in [Changes -> PC] /\ last \in Changes \cup {None} /\ toDb \in Seq(Message)
      /\ None \notin Changes /\ wiped \in BOOLEAN
  BY PasswordsAssumption DEF TypeOK
<1>b. \A c \in Changes : InProgress(c) => c = last
  BY DEF OneAtATime
<1> USE DEF LastIsSet, InProgress, AtStation, PC, Goto, station, db, bounds
<1>1. ASSUME NEW c \in Changes, Begin(c) PROVE LastIsSet'
  BY <1>1, <1>a DEF Begin
<1>2. ASSUME NEW c \in Changes, Set(c) PROVE LastIsSet'
  BY <1>2, <1>a, <1>b DEF Set, Fault
<1>3. ASSUME NEW c \in Changes,
             \/ WantReboot(c) \/ NotSet(c) \/ GiveUpCall(c)
             \/ Reset(c) \/ GiveUp(c) \/ Ask(c)
      PROVE  LastIsSet'
  BY <1>3, <1>a, <1>b DEF WantReboot, NotSet, GiveUpCall, Reset, GiveUp, Ask
<1>4. ASSUME NEW c \in Changes, LateSet(c) PROVE LastIsSet'
  BY <1>4, <1>a DEF LateSet
<1>5. CASE Drop \/ CheckFails \/ Restart \/ Connect \/ Verify
  BY <1>5, <1>a DEF Drop, CheckFails, Restart, Connect, Verify, Fault
<1>6. CASE Store
  <2>1. 1 \in DOMAIN toDb /\ Head(toDb) = toDb[1] /\ Stores(1)
    BY <1>6, <1>a, TailAt DEF Store, Stores
  <2>2. Head(toDb).password = last /\ last \in Changes /\ pc[last] \in {"storing", "failed"}
    BY <1>a, <2>1 DEF OneAtATime
  <2> QED BY <1>6, <1>a, <2>2 DEF Store, Fault
<1>7. CASE UNCHANGED vars
  BY <1>7 DEF vars
<1> QED BY <1>1, <1>2, <1>3, <1>4, <1>5, <1>6, <1>7 DEF Next

\* Whether changes overlap is decided in the first state.
LEMMA OverlappingConstant == TypeOK /\ [Next]_vars => overlapping' = overlapping
  BY DEF TypeOK, Next, vars, bounds, Begin, Set, WantReboot, NotSet, GiveUpCall, LateSet, Reset,
         Ask, GiveUp, Drop, Connect, CheckFails, Verify, Store, Restart, Fault

\* The invariant is inductive.
LEMMA NextIInv == IInv /\ [Next]_vars => IInv'
  BY NextTypeOK, NextOneAtATime, NextLastIsSet, OverlappingConstant DEF IInv

\* A change that update_cp_password reports as done leaves the station's BasicAuthPassword
\* and its row with the same password, whatever was lost or came late before
\* (service.py:253-265).
THEOREM ReportedIsStored == Spec => []DoneIsStored
<1>1. IInv => DoneIsStored
  BY DEF IInv, LastIsSet, DoneIsStored
<1> QED BY <1>1, InitIInv, NextIInv, PTL DEF Spec

-------------------------------------------------------------------------------
(* A change that is done ends the use of the old password.                 *)

\* What is stored is a change, what is verified the client's argument.
MessagesRight ==
    \A i \in DOMAIN toDb :
        /\ toDb[i].op = "store" => toDb[i].password \in Changes
        /\ toDb[i].op = "verify" => toDb[i].password = Argument

\* Until the tables are dropped the row leaves the argument only, and never for it again.
DoneLeavesArgument == ~wiped /\ (\E c \in Changes : pc[c] = "done") => row \in Changes

OldInv == TypeOK /\ MessagesRight /\ DoneLeavesArgument

\* The initial state.
LEMMA InitOldInv == Init => OldInv
<1> SUFFICES ASSUME Init PROVE MessagesRight /\ DoneLeavesArgument
  BY InitTypeOK DEF OldInv
<1>1. DOMAIN toDb = {}
  BY DEF Init
<1> QED BY <1>1 DEF Init, MessagesRight, DoneLeavesArgument

\* Every step keeps what messages say.
LEMMA NextMessagesRight == ASSUME TypeOK, MessagesRight, [Next]_vars PROVE MessagesRight'
<1>a. toDb \in Seq(Message)
  BY DEF TypeOK
<1> USE DEF MessagesRight
<1>1. ASSUME NEW m \in Message, toDb' = Append(toDb, m),
             \/ m.op = "store" /\ m.password \in Changes
             \/ m.op = "verify" /\ m.password = Argument
      PROVE  MessagesRight'
  <2>1. /\ DOMAIN toDb = 1 .. Len(toDb) /\ DOMAIN toDb' = 1 .. Len(toDb) + 1 /\ Len(toDb) \in Nat
        /\ \A i \in 1 .. Len(toDb) : toDb'[i] = toDb[i]
        /\ toDb'[Len(toDb) + 1] = m
    BY <1>a, <1>1, AppendAt
  <2> QED BY <1>1, <2>1
<1>2. ASSUME NEW c \in Changes, Ask(c) PROVE MessagesRight'
  <2> DEFINE m == [op |-> "store", password |-> c]
  <2>1. m \in Message /\ m.op = "store" /\ m.password = c
    BY DEF Message, Passwords
  <2>2. toDb' = Append(toDb, m)
    BY <1>2 DEF Ask
  <2> HIDE DEF m
  <2> QED BY <1>1, <2>1, <2>2
<1>3. CASE Connect
  <2> DEFINE m == [op |-> "verify", password |-> Argument]
  <2>1. m \in Message /\ m.op = "verify" /\ m.password = Argument
    BY DEF Message, Passwords
  <2>2. toDb' = Append(toDb, m)
    BY <1>3 DEF Connect
  <2> HIDE DEF m
  <2> QED BY <1>1, <2>1, <2>2
<1>4. CASE Verify \/ Store
  <2>1. toDb # <<>> /\ toDb' = Tail(toDb)
    BY <1>4 DEF Verify, Store
  <2>2. /\ Len(toDb) \in Nat \ {0} /\ DOMAIN toDb = 1 .. Len(toDb)
        /\ DOMAIN toDb' = 1 .. Len(toDb) - 1
        /\ \A i \in 1 .. Len(toDb) - 1 : toDb'[i] = toDb[i + 1]
    BY <1>a, <2>1, TailAt
  <2>3. \A i \in DOMAIN toDb' : i + 1 \in DOMAIN toDb /\ toDb'[i] = toDb[i + 1]
    BY <2>2
  <2> QED BY <2>3
<1>5. CASE UNCHANGED toDb
  BY <1>5
<1> QED BY <1>2, <1>3, <1>4, <1>5
        DEF Next, vars, db, Begin, Set, WantReboot, NotSet, GiveUpCall, LateSet, Reset,
            GiveUp, Drop, CheckFails, Restart

\* And what a change that is done has left in the row.
LEMMA NextDoneLeavesArgument ==
    ASSUME OldInv, [Next]_vars PROVE DoneLeavesArgument'
<1>a. /\ pc \in [Changes -> PC] /\ toDb \in Seq(Message) /\ wiped \in BOOLEAN
      /\ MessagesRight /\ DoneLeavesArgument
  BY DEF OldInv, TypeOK
<1> USE DEF DoneLeavesArgument, AtStation, Goto, station, db, bounds, Fault
<1>1. ASSUME NEW c \in Changes,
             \/ Begin(c) \/ Set(c) \/ WantReboot(c) \/ NotSet(c) \/ GiveUpCall(c) \/ LateSet(c)
             \/ Reset(c) \/ Ask(c) \/ GiveUp(c)
      PROVE  DoneLeavesArgument'
  <2>1. row' = row /\ wiped' = wiped
    BY <1>1 DEF Begin, Set, WantReboot, NotSet, GiveUpCall, LateSet, Reset, Ask, GiveUp
  <2>2. \A d \in Changes : pc'[d] = "done" => pc[d] = "done"
    BY <1>1, <1>a
       DEF Begin, Set, WantReboot, NotSet, GiveUpCall, LateSet, Reset, Ask, GiveUp, PC
  <2> QED BY <1>a, <2>1, <2>2
<1>2. CASE Drop \/ CheckFails \/ Verify
  BY <1>2, <1>a DEF Drop, CheckFails, Verify
<1>3. CASE Connect
  <2>1. row' = row /\ wiped' = wiped
    BY <1>3 DEF Connect
  <2>2. \A d \in Changes : pc'[d] = "done" => pc[d] = "done"
    BY <1>3, <1>a DEF Connect
  <2> QED BY <1>a, <2>1, <2>2
<1>4. CASE Store
  <2>1. Head(toDb).password \in Changes
    BY <1>4, <1>a, TailAt DEF Store, MessagesRight
  <2>2. CASE row' = Head(toDb).password
    BY <2>1, <2>2
  <2>3. CASE row' # Head(toDb).password
    <3>1. /\ row' = row /\ wiped' = wiped
          /\ pc' = [pc EXCEPT ![Head(toDb).password] = IF @ = "storing" THEN "failed" ELSE @]
      BY <1>4, <2>3 DEF Store
    <3>2. \A d \in Changes : pc'[d] = "done" => pc[d] = "done"
      BY <1>a, <2>1, <3>1
    <3> QED BY <1>a, <3>1, <3>2
  <2> QED BY <2>2, <2>3
<1>5. CASE Restart
  BY <1>5 DEF Restart
<1>6. CASE UNCHANGED vars
  BY <1>6, <1>a DEF vars
<1> QED BY <1>1, <1>2, <1>3, <1>4, <1>5, <1>6 DEF Next

\* The invariant is inductive.
LEMMA NextOldInv == OldInv /\ [Next]_vars => OldInv'
  BY NextTypeOK, NextMessagesRight, NextDoneLeavesArgument DEF OldInv

\* A step that lets a client in.
LetsIn == link # "up" /\ link' = "up"

\* Only the answer to an argument that is the row's lets one in.
LEMMA OnlyTheRowLetsIn ==
    ASSUME TypeOK, MessagesRight, [Next]_vars, LetsIn PROVE row = Argument
<1>a. toDb \in Seq(Message) /\ link \in {"up", "down", "checking"}
  BY DEF TypeOK
<1>1. Verify
  BY <1>a DEF LetsIn, Next, vars, Begin, Set, WantReboot, NotSet, GiveUpCall, LateSet, Reset,
              Ask, GiveUp, Drop, Connect, CheckFails, Store, Restart
<1>2. /\ toDb # <<>> /\ Head(toDb).op = "verify" /\ Head(toDb).password = row
  BY <1>1, <1>a DEF LetsIn, Verify
<1>3. Head(toDb).password = Argument
  BY <1>2, <1>a, TailAt DEF MessagesRight
<1> QED BY <1>2, <1>3

\* Once a change was reported done, the old password, the only one the client has, opens
\* no connection until the tables are dropped (ocpp_server.py:28-38, charge_station.py:104).
THEOREM OldPasswordRefused == Spec => OldPasswordIsOut
<1>1. ASSUME OldInv, [Next]_vars
      PROVE  [(\E c \in Changes : pc[c] = "done") /\ ~wiped /\ link # "up" => link' # "up"]_vars
  <2>1. LetsIn => row = Argument
    BY <1>1, OnlyTheRowLetsIn DEF OldInv
  <2>2. (\E c \in Changes : pc[c] = "done") /\ ~wiped => row # Argument
    BY <1>1, PasswordsAssumption DEF OldInv, DoneLeavesArgument
  <2> QED BY <2>1, <2>2 DEF LetsIn
<1> QED BY <1>1, InitOldInv, NextOldInv, PTL DEF Spec, OldPasswordIsOut

(***************************************************************************)
(* Transactions and remote requests at the client.                         *)
(***************************************************************************)

-------------------------------------------------------------------------------
(* Types.                                                                  *)

\* A status notification has an EVSE and no transaction, an event a transaction.
ReportsOK ==
    \A i \in DOMAIN reports :
        IF reports[i].event = "status"
        THEN reports[i].evse \in EVSEs /\ reports[i].tran = Nothing
        ELSE reports[i].tran \in Trans

Asks(m) == m.req \in Requests /\ m.kind \in Kind

\* One call is answered at a time; the other messages are requests.
InboxOK ==
    /\ \A i \in DOMAIN inbox : inbox[i] = Answer \/ Asks(inbox[i])
    /\ \A i, j \in DOMAIN inbox : inbox[i] = Answer /\ inbox[j] = Answer => i = j

HandlingOK == handling # Nothing => Asks(handling)

ClientTypes == ClientTypeOK /\ ReportsOK /\ InboxOK /\ HandlingOK

\* Its parts: the reports, the inbox, and the rest.
ReportTypes == reports \in Seq(Report) /\ ReportsOK /\ Len(reports) + calls <= MaxQueued
InboxTypes ==
    /\ inbox \in Seq(ToClient) /\ InboxOK
    /\ wire = "answered" <=> \E i \in DOMAIN inbox : inbox[i] = Answer
StationTypes ==
    /\ phase \in [Trans -> {"new", "running", "over"}]
    /\ at \in [Trans -> EVSEs \cup {Nothing}]
    /\ waiting \in BOOLEAN /\ asked \in Seq(Kind)
    /\ orderly \in BOOLEAN /\ patient \in BOOLEAN
ViewTypes ==
    /\ ongoing \subseteq Trans /\ known \subseteq EVSEs
    /\ current \in [EVSEs -> Trans \cup {Nothing}]
    /\ evseOf \in [Trans -> EVSEs \cup {Nothing}]
LinkTypes ==
    /\ status \in {"none", "accepted", "refused"}
    /\ up \in BOOLEAN /\ cuts \in 0 .. MaxCuts /\ restarted \in BOOLEAN
    /\ calls \in 0 .. MaxQueued /\ wire \in {"idle", "answered", "cut"}
    /\ wire # "idle" => calls > 0
RequestTypes ==
    /\ handling \in ToClient \cup {Nothing} /\ HandlingOK
    /\ handling # Nothing => req[handling.req] \in {"asking", "lost"}
    /\ req \in [Requests -> RequestState]
Parts == ReportTypes /\ InboxTypes /\ StationTypes /\ ViewTypes /\ LinkTypes /\ RequestTypes

\* The parts make the whole.
LEMMA TypesByParts == ClientTypes <=> Parts
<1>1. ASSUME NEW q \in Seq(ToClient)
      PROVE  Contains(q, Answer) <=> \E i \in DOMAIN q : q[i] = Answer
  BY DEF Contains
<1>2. inbox \in Seq(ToClient) =>
        (Contains(inbox, Answer) <=> \E i \in DOMAIN inbox : inbox[i] = Answer)
  BY <1>1
<1> QED BY <1>2, Zenon DEF ClientTypes, Parts, ClientTypeOK, ReportTypes, InboxTypes, StationTypes,
                       ViewTypes, LinkTypes, RequestTypes

LEMMA TypesByPartsNext == ClientTypes' <=> Parts'
  BY TypesByParts, PTL

\* Where the elements of a sequence are that has lost its element at i.
LEMMA RemovedAt ==
    ASSUME NEW S, NEW q \in Seq(S), NEW i \in DOMAIN q
    PROVE  /\ RemoveAt(q, i) \in Seq(S) /\ DOMAIN RemoveAt(q, i) = 1 .. Len(q) - 1
           /\ \A j \in 1 .. Len(q) - 1 : RemoveAt(q, i)[j] = IF j < i THEN q[j] ELSE q[j + 1]
<1> DEFINE l == SubSeq(q, 1, i - 1)
           r == SubSeq(q, i + 1, Len(q))
<1>1. Len(q) \in Nat /\ i \in 1 .. Len(q) /\ \A j \in 1 .. Len(q) : q[j] \in S
  OBVIOUS
<1>2. /\ l \in Seq(S) /\ Len(l) = i - 1
      /\ \A j \in 1 .. i - 1 : l[j] = q[j]
  <2>1. 1 \in Int /\ i - 1 \in Int /\ \A j \in 1 .. i - 1 : q[j] \in S
    BY <1>1
  <2>2. /\ l \in Seq(S) /\ Len(l) = IF 1 <= i - 1 THEN i - 1 - 1 + 1 ELSE 0
        /\ \A j \in 1 .. i - 1 - 1 + 1 : l[j] = q[1 + j - 1]
    BY <2>1, SubSeqProperties
  <2> HIDE DEF l
  <2>3. \A j \in 1 .. i - 1 : 1 + j - 1 = j /\ j \in 1 .. i - 1 - 1 + 1
    BY <1>1
  <2> QED BY <1>1, <2>2, <2>3
<1>3. /\ r \in Seq(S) /\ Len(r) = Len(q) - i
      /\ \A j \in 1 .. Len(q) - i : r[j] = q[i + j]
  <2>1. i + 1 \in Int /\ Len(q) \in Int /\ \A j \in i + 1 .. Len(q) : q[j] \in S
    BY <1>1
  <2>2. /\ r \in Seq(S) /\ Len(r) = IF i + 1 <= Len(q) THEN Len(q) - (i + 1) + 1 ELSE 0
        /\ \A j \in 1 .. Len(q) - (i + 1) + 1 : r[j] = q[i + 1 + j - 1]
    BY <2>1, SubSeqProperties
  <2> HIDE DEF r
  <2>3. \A j \in 1 .. Len(q) - i : i + 1 + j - 1 = i + j /\ j \in 1 .. Len(q) - (i + 1) + 1
    BY <1>1
  <2> QED BY <1>1, <2>2, <2>3
<1> HIDE DEF l, r
<1>4. /\ l \o r \in Seq(S) /\ DOMAIN (l \o r) = 1 .. Len(q) - 1
      /\ \A j \in 1 .. Len(q) - 1 : (l \o r)[j] = IF j < i THEN q[j] ELSE q[j + 1]
  <2>1. /\ l \o r \in Seq(S) /\ Len(l \o r) = Len(q) - 1
        /\ \A j \in 1 .. Len(q) - 1 : (l \o r)[j] = IF j <= i - 1 THEN l[j] ELSE r[j - (i - 1)]
    <3>1. l \in Seq(S) /\ r \in Seq(S) /\ Len(l) + Len(r) = Len(q) - 1
      BY <1>1, <1>2, <1>3
    <3>2. /\ l \o r \in Seq(S) /\ Len(l \o r) = Len(l) + Len(r)
          /\ \A j \in 1 .. Len(l) + Len(r) :
                (l \o r)[j] = IF j <= Len(l) THEN l[j] ELSE r[j - Len(l)]
      BY <3>1, ConcatProperties
    <3> QED BY <1>2, <3>1, <3>2
  <2> DEFINE s == l \o r
  <2>2. s \in Seq(S) /\ Len(s) = Len(q) - 1
    BY <2>1
  <2>3. \A j \in 1 .. Len(q) - 1 : s[j] = IF j < i THEN q[j] ELSE q[j + 1]
    <3> SUFFICES ASSUME NEW j \in 1 .. Len(q) - 1
                 PROVE  s[j] = IF j < i THEN q[j] ELSE q[j + 1]
      OBVIOUS
    <3>1. CASE j < i
      <4>1. j \in 1 .. i - 1 /\ j <= i - 1
        BY <1>1, <3>1
      <4> QED BY <1>2, <2>1, <3>1, <4>1
    <3>2. CASE ~(j < i)
      <4>1. /\ ~(j <= i - 1) /\ j - (i - 1) \in 1 .. Len(q) - i
            /\ i + (j - (i - 1)) = j + 1
        BY <1>1, <3>2
      <4>2. r[j - (i - 1)] = q[j + 1]
        BY <1>3, <4>1
      <4> QED BY <2>1, <3>2, <4>1, <4>2
    <3> QED BY <3>1, <3>2
  <2> HIDE DEF s
  <2>4. DOMAIN s = 1 .. Len(q) - 1
    BY <2>2
  <2> QED BY <2>2, <2>3, <2>4 DEF s
<1> QED BY <1>4 DEF RemoveAt, l, r

\* A message more of the decision point.
LEMMA SendTypes ==
    ASSUME ClientTypes, NEW event \in {"status", "started", "updated", "ended"},
           NEW e \in EVSEs \cup {Nothing}, NEW t \in Trans \cup {Nothing},
           IF event = "status" THEN e \in EVSEs /\ t = Nothing ELSE t \in Trans,
           Send(event, e, t)
    PROVE  ReportTypes' /\ calls' = calls /\ waiting' \in BOOLEAN
<1>1. ReportTypes /\ calls \in Nat /\ patient \in BOOLEAN
  BY TypesByParts DEF Parts, LinkTypes, StationTypes
<1>2. PICK token \in BOOLEAN :
        reports' = Append(reports, [event |-> event, evse |-> e, tran |-> t, token |-> token])
  BY DEF Send
<1> DEFINE m == [event |-> event, evse |-> e, tran |-> t, token |-> token]
<1>3. m \in Report /\ m.event = event /\ m.evse = e /\ m.tran = t
  BY DEF Report
<1>4. calls' = calls /\ waiting' \in BOOLEAN /\ Len(reports) + calls < MaxQueued
  BY <1>1 DEF Send, line, point
<1>5. reports' = Append(reports, m)
  BY <1>2
<1> HIDE DEF m
<1>6. reports \in Seq(Report)
  BY <1>1 DEF ReportTypes
<1>7. /\ reports' \in Seq(Report) /\ Len(reports) \in Nat /\ DOMAIN reports' = 1 .. Len(reports) + 1
      /\ \A i \in 1 .. Len(reports) : reports'[i] = reports[i]
      /\ reports'[Len(reports) + 1] = m /\ DOMAIN reports = 1 .. Len(reports)
  BY <1>3, <1>5, <1>6, AppendAt
<1>8. Len(reports') = Len(reports) + 1
  BY <1>3, <1>5, <1>6
<1>9. ReportsOK'
  BY <1>1, <1>3, <1>7 DEF ReportTypes, ReportsOK
<1>10. Len(reports') + calls' <= MaxQueued
  BY <1>1, <1>4, <1>7, <1>8, ClientBounds
<1> QED BY <1>4, <1>7, <1>9, <1>10 DEF ReportTypes

\* The report that is taken, and what is left.
LEMMA TakeTypes ==
    ASSUME ClientTypes, NEW m \in Incoming, Take
    PROVE  /\ reports # <<>> /\ m = reports[1] /\ m \in Report
           /\ m.event \in {"status", "started", "updated", "ended"}
           /\ m.evse \in EVSEs \cup {Nothing}
           /\ IF m.event = "status" THEN m.evse \in EVSEs /\ m.tran = Nothing ELSE m.tran \in Trans
           /\ reports' \in Seq(Report) /\ ReportsOK' /\ Len(reports) \in Nat \ {0}
           /\ Len(reports') = Len(reports) - 1
           /\ DOMAIN reports = 1 .. Len(reports) /\ DOMAIN reports' = 1 .. Len(reports) - 1
           /\ \A i \in 1 .. Len(reports) - 1 : reports'[i] = reports[i + 1]
<1>1. reports \in Seq(Report) /\ ReportsOK
  BY TypesByParts DEF Parts, ReportTypes
<1>2. 1 \in DOMAIN reports /\ m = reports[1]
  BY DEF Incoming
<1>3. reports # <<>>
  BY <1>2
<1>4. /\ Tail(reports) \in Seq(Report) /\ Len(reports) \in Nat \ {0}
      /\ DOMAIN reports = 1 .. Len(reports) /\ DOMAIN Tail(reports) = 1 .. Len(reports) - 1
      /\ \A i \in 1 .. Len(reports) - 1 : Tail(reports)[i] = reports[i + 1]
  BY <1>1, <1>3, TailAt
<1>5. Len(Tail(reports)) = Len(reports) - 1
  BY <1>1, <1>3
<1>6. m \in Report
  BY <1>1, <1>2
<1>7. /\ m.event \in {"status", "started", "updated", "ended"}
      /\ m.evse \in EVSEs \cup {Nothing}
  BY <1>6 DEF Report
<1>8. IF m.event = "status" THEN m.evse \in EVSEs /\ m.tran = Nothing ELSE m.tran \in Trans
  BY <1>1, <1>2 DEF ReportsOK
<1>9. reports' = Tail(reports)
  BY DEF Take
<1>10. ReportsOK'
  BY <1>1, <1>4, <1>9 DEF ReportsOK
<1> QED BY <1>2, <1>3, <1>4, <1>5, <1>6, <1>7, <1>8, <1>9, <1>10

\* Its call takes its place.
LEMMA CallTypes ==
    ASSUME ClientTypes, NEW m \in Incoming, Take, Call(m), wire' = wire
    PROVE  /\ ReportTypes' /\ calls' \in 0 .. MaxQueued /\ waiting' \in BOOLEAN
           /\ wire' # "idle" => calls' > 0
<1>1. /\ reports' \in Seq(Report) /\ ReportsOK' /\ Len(reports) \in Nat \ {0}
      /\ Len(reports') = Len(reports) - 1
  BY TakeTypes
<1>2. /\ Len(reports) + calls <= MaxQueued /\ calls \in 0 .. MaxQueued /\ waiting \in BOOLEAN
      /\ wire # "idle" => calls > 0
  BY TypesByParts DEF Parts, ReportTypes, LinkTypes, StationTypes
<1>3. calls' = calls + 1 \/ calls' = calls
  BY DEF Call
<1>4. waiting' \in BOOLEAN
  BY <1>2 DEF Call
<1>5. Len(reports') + calls' <= MaxQueued /\ calls' \in 0 .. MaxQueued
  BY <1>1, <1>2, <1>3, ClientBounds
<1> QED BY <1>1, <1>2, <1>3, <1>4, <1>5 DEF ReportTypes

\* What the loop reads, and what is left.
LEMMA ReadTypes ==
    ASSUME ClientTypes, Reads
    PROVE  /\ inbox' \in Seq(ToClient) /\ InboxOK'
           /\ Head(inbox) \in ToClient /\ (Head(inbox) # Answer => Asks(Head(inbox)))
           /\ Head(inbox) = Answer =>
                wire = "answered" /\ \A i \in DOMAIN inbox' : inbox'[i] # Answer
           /\ Head(inbox) # Answer =>
                ((\E i \in DOMAIN inbox : inbox[i] = Answer)
                   <=> (\E i \in DOMAIN inbox' : inbox'[i] = Answer))
<1>1. inbox \in Seq(ToClient) /\ InboxOK /\ inbox # <<>> /\ inbox' = Tail(inbox)
      /\ (wire = "answered" <=> \E i \in DOMAIN inbox : inbox[i] = Answer)
  BY TypesByParts DEF Parts, InboxTypes, Reads
<1>2. /\ Head(inbox) \in ToClient /\ Tail(inbox) \in Seq(ToClient)
      /\ Len(inbox) \in Nat \ {0} /\ Head(inbox) = inbox[1]
      /\ DOMAIN inbox = 1 .. Len(inbox) /\ DOMAIN Tail(inbox) = 1 .. Len(inbox) - 1
      /\ \A i \in 1 .. Len(inbox) - 1 : Tail(inbox)[i] = inbox[i + 1]
  BY <1>1, TailAt
<1>3. \A i \in DOMAIN inbox' : i + 1 \in DOMAIN inbox /\ i + 1 # 1 /\ inbox'[i] = inbox[i + 1]
  BY <1>1, <1>2
<1>4. \A i \in DOMAIN inbox : i # 1 => i - 1 \in DOMAIN inbox' /\ inbox'[i - 1] = inbox[i]
  BY <1>1, <1>2
<1>5. 1 \in DOMAIN inbox
  BY <1>2
<1>6. InboxOK'
  <2>1. \A i \in DOMAIN inbox' : inbox'[i] = Answer \/ Asks(inbox'[i])
    BY <1>1, <1>3 DEF InboxOK
  <2>2. \A i, j \in DOMAIN inbox' : inbox'[i] = Answer /\ inbox'[j] = Answer => i = j
    <3> SUFFICES ASSUME NEW i \in DOMAIN inbox', NEW j \in DOMAIN inbox',
                        inbox'[i] = Answer, inbox'[j] = Answer
                 PROVE  i = j
      OBVIOUS
    <3>1. i + 1 = j + 1
      BY <1>1, <1>3 DEF InboxOK
    <3> QED BY <1>1, <1>2, <3>1
  <2> QED BY <2>1, <2>2 DEF InboxOK, Asks, Answer
<1>7. Head(inbox) # Answer => Asks(Head(inbox))
  BY <1>1, <1>2, <1>5 DEF InboxOK
<1>8. Head(inbox) = Answer =>
        wire = "answered" /\ \A i \in DOMAIN inbox' : inbox'[i] # Answer
  BY <1>1, <1>2, <1>3, <1>5 DEF InboxOK
<1>9. Head(inbox) # Answer =>
        ((\E i \in DOMAIN inbox : inbox[i] = Answer)
           <=> (\E i \in DOMAIN inbox' : inbox'[i] = Answer))
  BY <1>2, <1>3, <1>4
<1> QED BY <1>1, <1>2, <1>6, <1>7, <1>8, <1>9

\* A message more in the inbox.
LEMMA ReceiveTypes ==
    ASSUME ClientTypes, NEW m \in ToClient, inbox' = Append(inbox, m),
           \/ m = Answer /\ \A i \in DOMAIN inbox : inbox[i] # Answer
           \/ m # Answer /\ Asks(m)
    PROVE  /\ inbox' \in Seq(ToClient) /\ InboxOK'
           /\ m = Answer => \E i \in DOMAIN inbox' : inbox'[i] = Answer
           /\ m # Answer =>
                ((\E i \in DOMAIN inbox : inbox[i] = Answer)
                   <=> (\E i \in DOMAIN inbox' : inbox'[i] = Answer))
<1>1. inbox \in Seq(ToClient) /\ InboxOK
  BY TypesByParts DEF Parts, InboxTypes
<1>2. /\ inbox' \in Seq(ToClient) /\ Len(inbox) \in Nat
      /\ DOMAIN inbox = 1 .. Len(inbox) /\ DOMAIN inbox' = 1 .. Len(inbox) + 1
      /\ \A i \in 1 .. Len(inbox) : inbox'[i] = inbox[i]
      /\ inbox'[Len(inbox) + 1] = m
  BY <1>1, AppendAt
<1>3. \A i \in DOMAIN inbox' :
        i = Len(inbox) + 1 \/ (i \in DOMAIN inbox /\ inbox'[i] = inbox[i])
  BY <1>2
<1>4. Len(inbox) + 1 \in DOMAIN inbox' /\ \A i \in DOMAIN inbox : i \in DOMAIN inbox'
  BY <1>2
<1>5. \A i \in DOMAIN inbox' : inbox'[i] = Answer \/ Asks(inbox'[i])
  BY <1>1, <1>2, <1>3 DEF InboxOK
<1>6. \A i, j \in DOMAIN inbox' : inbox'[i] = Answer /\ inbox'[j] = Answer => i = j
  BY <1>1, <1>2, <1>3 DEF InboxOK
<1>7. InboxOK'
  BY <1>5, <1>6 DEF InboxOK, Asks, Answer
<1> QED BY <1>2, <1>3, <1>4, <1>7

\* The initial state.
LEMMA InitClientTypes == ClientInit => ClientTypes
<1> SUFFICES ASSUME ClientInit PROVE Parts
  BY TypesByParts
<1>1. reports = <<>> /\ inbox = <<>> /\ asked = <<>> /\ calls = 0
  BY DEF ClientInit
<1>2. ReportTypes
  <2>1. Len(reports) + calls <= MaxQueued
    BY <1>1, ClientBounds
  <2>2. reports \in Seq(Report) /\ ReportsOK
    BY <1>1 DEF ReportsOK
  <2> QED BY <2>1, <2>2 DEF ReportTypes
<1>3. InboxTypes
  <2>1. inbox \in Seq(ToClient) /\ DOMAIN inbox = {}
    BY <1>1
  <2>2. wire = "idle"
    BY DEF ClientInit
  <2> QED BY <2>1, <2>2 DEF InboxTypes, InboxOK
<1>4. StationTypes
  <2>1. asked \in Seq(Kind)
    BY <1>1
  <2>2. orderly \in BOOLEAN /\ patient \in BOOLEAN
    BY Zenon DEF ClientInit
  <2>3. /\ phase \in [Trans -> {"new", "running", "over"}]
        /\ at \in [Trans -> EVSEs \cup {Nothing}] /\ waiting \in BOOLEAN
    BY DEF ClientInit
  <2> QED BY <2>1, <2>2, <2>3 DEF StationTypes
<1>5. ViewTypes
  BY DEF ClientInit, ViewTypes
<1>6. LinkTypes
  <2>1. calls = 0 /\ cuts = 0 /\ wire = "idle" /\ status = "none"
    BY DEF ClientInit
  <2>2. calls \in 0 .. MaxQueued /\ cuts \in 0 .. MaxCuts
    BY <2>1, ClientBounds
  <2>3. up \in BOOLEAN /\ restarted \in BOOLEAN
    BY Zenon DEF ClientInit
  <2> QED BY <2>1, <2>2, <2>3 DEF LinkTypes
<1>7. RequestTypes
  BY DEF ClientInit, RequestTypes, RequestState, HandlingOK
<1> QED BY <1>2, <1>3, <1>4, <1>5, <1>6, <1>7 DEF Parts

\* The decision point's steps.
LEMMA PointTypes ==
    ASSUME ClientTypes,
           \/ \E e \in EVSEs : Announce(e) \/ \E t \in Trans : Start(t, e)
           \/ \E t \in Trans : Update(t) \/ End(t)
    PROVE  ClientTypes'
<1> SUFFICES Parts'
  BY TypesByPartsNext
<1>a. Parts
  BY TypesByParts
<1>b. /\ ReportTypes' /\ calls' = calls /\ waiting' \in BOOLEAN
      /\ phase' \in [Trans -> {"new", "running", "over"}]
      /\ at' \in [Trans -> EVSEs \cup {Nothing}]
      /\ UNCHANGED <<asked, evses, connection, line, loop, req, point>>
  <2>1. ASSUME NEW e \in EVSEs, Announce(e) PROVE <1>b!:
    <3>1. Send("status", e, Nothing)
      BY <2>1 DEF Announce
    <3>2. ReportTypes' /\ calls' = calls /\ waiting' \in BOOLEAN
      BY <3>1, SendTypes
    <3> QED BY <1>a, <2>1, <3>1, <3>2 DEF Announce, Send, Parts, StationTypes, physical
  <2>2. ASSUME NEW e \in EVSEs, NEW t \in Trans, Start(t, e) PROVE <1>b!:
    <3>1. Send("started", e, t)
      BY <2>2 DEF Start
    <3>2. ReportTypes' /\ calls' = calls /\ waiting' \in BOOLEAN
      BY <3>1, SendTypes
    <3> QED BY <1>a, <2>2, <3>1, <3>2 DEF Start, Send, Parts, StationTypes
  <2>3. ASSUME NEW t \in Trans, Update(t) PROVE <1>b!:
    <3>1. PICK e \in {at[t], Nothing} : Send("updated", e, t)
      BY <2>3 DEF Update
    <3>2. e \in EVSEs \cup {Nothing}
      BY <1>a, <3>1 DEF Parts, StationTypes
    <3>3. ReportTypes' /\ calls' = calls /\ waiting' \in BOOLEAN
      BY <3>1, <3>2, SendTypes
    <3> QED BY <1>a, <2>3, <3>1, <3>3 DEF Update, Send, Parts, StationTypes, physical
  <2>4. ASSUME NEW t \in Trans, End(t) PROVE <1>b!:
    <3>1. PICK e \in {at[t], Nothing} : Send("ended", e, t)
      BY <2>4 DEF End
    <3>2. e \in EVSEs \cup {Nothing}
      BY <1>a, <3>1 DEF Parts, StationTypes
    <3>3. ReportTypes' /\ calls' = calls /\ waiting' \in BOOLEAN
      BY <3>1, <3>2, SendTypes
    <3> QED BY <1>a, <2>4, <3>1, <3>3 DEF End, Send, Parts, StationTypes
  <2> QED BY <2>1, <2>2, <2>3, <2>4
<1>1. /\ asked' = asked /\ orderly' = orderly /\ patient' = patient
      /\ ongoing' = ongoing /\ known' = known /\ current' = current /\ evseOf' = evseOf
      /\ status' = status /\ up' = up /\ cuts' = cuts /\ restarted' = restarted
      /\ wire' = wire /\ inbox' = inbox /\ handling' = handling /\ req' = req
  BY <1>b DEF evses, connection, line, loop, point
<1> QED BY <1>a, <1>b, <1>1 DEF Parts, InboxTypes, InboxOK, StationTypes, ViewTypes, LinkTypes,
                                RequestTypes, HandlingOK

\* The client takes a report.
LEMMA TakingTypes ==
    ASSUME ClientTypes, TakeStatus \/ TakeEvent \/ TakeEnded \/ TakeRaises
    PROVE  ClientTypes'
<1> SUFFICES Parts'
  BY TypesByPartsNext
<1>a. Parts
  BY TypesByParts
<1>b. /\ UNCHANGED Taken /\ wire' = wire
      /\ ReportTypes' /\ calls' \in 0 .. MaxQueued /\ waiting' \in BOOLEAN
      /\ wire' # "idle" => calls' > 0
  <2>1. CASE TakeStatus \/ TakeEvent \/ TakeEnded
    <3>1. PICK m \in Incoming : Take /\ Call(m) /\ UNCHANGED Taken
      BY <2>1 DEF TakeStatus, TakeEvent, TakeEnded
    <3>2. wire' = wire
      BY <3>1 DEF Taken
    <3> QED BY <3>1, <3>2, CallTypes
  <2>2. CASE TakeRaises
    <3>1. PICK m \in Incoming : Take /\ UNCHANGED <<Taken, calls, waiting>>
      BY <2>2 DEF TakeRaises
    <3>2. /\ reports' \in Seq(Report) /\ ReportsOK' /\ Len(reports) \in Nat \ {0}
          /\ Len(reports') = Len(reports) - 1
      BY <3>1, TakeTypes
    <3>3. calls' = calls /\ waiting' = waiting /\ wire' = wire
      BY <3>1 DEF Taken
    <3>4. Len(reports) + calls <= MaxQueued /\ calls \in 0 .. MaxQueued
      BY <1>a DEF Parts, ReportTypes, LinkTypes
    <3>5. Len(reports') + calls' <= MaxQueued
      BY <3>2, <3>3, <3>4, ClientBounds
    <3>6. UNCHANGED Taken
      BY <3>1
    <3>7. ReportTypes'
      BY <3>2, <3>5 DEF ReportTypes
    <3> QED BY <1>a, <3>3, <3>4, <3>6, <3>7 DEF Parts, LinkTypes, StationTypes
  <2> QED BY <2>1, <2>2
<1>c. ViewTypes'
  <2>1. CASE TakeStatus
    <3>1. PICK m \in Incoming : /\ Take /\ m.event = "status" /\ known' = known \cup {m.evse}
                                /\ UNCHANGED <<ongoing, current, evseOf>>
      BY <2>1 DEF TakeStatus
    <3>2. m.evse \in EVSEs
      BY <3>1, TakeTypes
    <3> QED BY <1>a, <3>1, <3>2 DEF Parts, ViewTypes
  <2>2. CASE TakeEvent
    <3>1. PICK m \in Incoming :
            /\ Take /\ m.event \in {"started", "updated"}
            /\ m.evse \in known \cup {Nothing}
            /\ ongoing' = ongoing \cup {m.tran}
            /\ IF m.evse = Nothing THEN UNCHANGED <<current, evseOf>>
               ELSE /\ evseOf' = [evseOf EXCEPT ![m.tran] = m.evse]
                    /\ current' = [current EXCEPT ![m.evse] = m.tran]
            /\ known' = known
      BY <2>2 DEF TakeEvent
    <3>2. m.tran \in Trans /\ m.evse \in EVSEs \cup {Nothing}
      BY <3>1, TakeTypes
    <3> QED BY <1>a, <3>1, <3>2 DEF Parts, ViewTypes
  <2>3. CASE TakeEnded
    <3>1. PICK m \in Incoming :
            /\ Take /\ m.event = "ended" /\ Place(m) \in known
            /\ ongoing' = ongoing \ {m.tran}
            /\ evseOf' = [evseOf EXCEPT ![m.tran] = Nothing]
            /\ current' = [current EXCEPT ![Place(m)] = Nothing]
            /\ known' = known
      BY <2>3 DEF TakeEnded
    <3>2. m.tran \in Trans
      BY <3>1, TakeTypes
    <3> DEFINE p == Place(m)
    <3>3. p \in known
      BY <3>1
    <3> HIDE DEF p
    <3>4. current' = [current EXCEPT ![p] = Nothing]
      BY <3>1 DEF p
    <3> QED BY <1>a, <3>1, <3>2, <3>3, <3>4 DEF Parts, ViewTypes
  <2>4. CASE TakeRaises
    <3>1. PICK m \in Incoming :
            /\ Take /\ m.event # "status"
            /\ ongoing' = ongoing \ {m.tran} \/ ongoing' = ongoing \cup {m.tran}
            /\ evseOf' = IF m.token \/ m.evse = Nothing THEN evseOf
                         ELSE [evseOf EXCEPT ![m.tran] = m.evse]
            /\ UNCHANGED <<known, current>>
      BY <2>4 DEF TakeRaises
    <3>2. m.tran \in Trans /\ m.evse \in EVSEs \cup {Nothing}
      BY <3>1, TakeTypes
    <3>3. evseOf' = evseOf \/ (evseOf' = [evseOf EXCEPT ![m.tran] = m.evse])
      BY <3>1
    <3>4. known' = known /\ current' = current
      BY <3>1
    <3> QED BY <1>a, <3>1, <3>2, <3>3, <3>4 DEF Parts, ViewTypes
  <2> QED BY <2>1, <2>2, <2>3, <2>4
<1>1. /\ phase' = phase /\ at' = at /\ asked' = asked /\ orderly' = orderly /\ patient' = patient
      /\ status' = status /\ up' = up /\ cuts' = cuts /\ restarted' = restarted
      /\ inbox' = inbox /\ handling' = handling /\ req' = req
  BY <1>b DEF Taken, physical, connection, loop, point
<1> QED BY <1>a, <1>b, <1>c, <1>1 DEF Parts, InboxTypes, InboxOK, StationTypes, LinkTypes,
                                      RequestTypes, HandlingOK

\* What is lost with a connection.
LEMMA LostTypes ==
    ASSUME ClientTypes, Lost
    PROVE  /\ req' \in [Requests -> RequestState]
           /\ handling # Nothing => req'[handling.req] \in {"asking", "lost"}
<1>1. RequestTypes
  BY TypesByParts DEF Parts
<1> QED BY <1>1 DEF Lost, RequestTypes, RequestState, HandlingOK, Asks

\* An answer to a request.
LEMMA AnsweredTypes ==
    ASSUME ClientTypes, NEW r \in Requests, Answered(r)
    PROVE  req' \in [Requests -> RequestState]
<1>1. req \in [Requests -> RequestState]
  BY TypesByParts DEF Parts, RequestTypes
<1> QED BY <1>1 DEF Answered, RequestState

\* The steps of the calls and of the connection.
LEMMA CallingTypes ==
    ASSUME ClientTypes, Transmit \/ CallFails \/ Boot \/ Reconnect \/ Disconnect \/ RestartClient
    PROVE  ClientTypes'
<1> SUFFICES Parts'
  BY TypesByPartsNext
<1>a. Parts
  BY TypesByParts
<1>b. /\ phase' = phase /\ at' = at /\ reports' = reports /\ asked' = asked
      /\ orderly' = orderly /\ patient' = patient /\ waiting' \in BOOLEAN
  BY <1>a DEF Transmit, CallFails, Boot, Reconnect, Disconnect, RestartClient, physical, point,
              Parts, StationTypes
<1>c. StationTypes'
  BY <1>a, <1>b DEF Parts, StationTypes
<1>d. calls \in Nat /\ MaxQueued \in Nat /\ Len(reports) \in Nat
  BY <1>a, ClientBounds DEF Parts, ReportTypes, LinkTypes
<1>e. calls' \in 0 .. MaxQueued /\ calls' <= calls => ReportTypes'
  BY <1>a, <1>b, <1>d DEF Parts, ReportTypes, ReportsOK
<1>1. CASE Transmit
  <2>1. /\ inbox' = Append(inbox, Answer) /\ wire = "idle" /\ calls > 0 /\ wire' = "answered"
        /\ ongoing' = ongoing /\ known' = known /\ current' = current /\ evseOf' = evseOf
        /\ status' = status /\ up' = up /\ cuts' = cuts /\ restarted' = restarted
        /\ calls' = calls /\ handling' = handling /\ req' = req
    BY <1>1 DEF Transmit, evses, connection
  <2>2. \A i \in DOMAIN inbox : inbox[i] # Answer
    BY <1>a, <2>1 DEF Parts, InboxTypes
  <2>3. Answer \in ToClient
    BY DEF Answer, ToClient
  <2>4. InboxTypes'
    BY <2>1, <2>2, <2>3, ReceiveTypes DEF InboxTypes, Answer
  <2> QED BY <1>a, <1>c, <1>e, <2>1, <2>4 DEF Parts, ViewTypes, LinkTypes, RequestTypes, HandlingOK
<1>2. CASE CallFails
  <2>1. /\ calls > 0 /\ calls' = calls - 1 /\ wire' = "idle" /\ DropAnswer
        /\ ongoing' = ongoing /\ known' = known /\ current' = current /\ evseOf' = evseOf
        /\ status' = status /\ up' = up /\ cuts' = cuts /\ restarted' = restarted
        /\ handling' = handling /\ req' = req
    BY <1>2 DEF CallFails, evses, connection
  <2>2. InboxTypes'
    <3>1. CASE wire # "answered"
      BY <1>a, <2>1, <3>1 DEF DropAnswer, Parts, InboxTypes, InboxOK
    <3>2. CASE wire = "answered"
      <4>1. PICK i \in DOMAIN inbox : inbox[i] = Answer /\ inbox' = RemoveAt(inbox, i)
        BY <2>1, <3>2 DEF DropAnswer
      <4>2. inbox \in Seq(ToClient) /\ InboxOK
        BY <1>a DEF Parts, InboxTypes
      <4>3. /\ inbox' \in Seq(ToClient) /\ DOMAIN inbox' = 1 .. Len(inbox) - 1
            /\ \A j \in 1 .. Len(inbox) - 1 :
                 inbox'[j] = IF j < i THEN inbox[j] ELSE inbox[j + 1]
        BY <4>1, <4>2, RemovedAt
      <4>4. Len(inbox) \in Nat /\ DOMAIN inbox = 1 .. Len(inbox) /\ i \in 1 .. Len(inbox)
        BY <4>2
      <4>5. ASSUME NEW j \in DOMAIN inbox'
            PROVE  inbox'[j] # Answer /\ Asks(inbox'[j])
        <5>1. CASE j < i
          <6>1. inbox'[j] = inbox[j] /\ j \in DOMAIN inbox /\ j # i
            BY <4>3, <4>4, <5>1
          <6> QED BY <4>1, <4>2, <6>1 DEF InboxOK
        <5>2. CASE ~(j < i)
          <6>1. inbox'[j] = inbox[j + 1] /\ j + 1 \in DOMAIN inbox /\ j + 1 # i
            BY <4>3, <4>4, <5>2
          <6> QED BY <4>1, <4>2, <6>1 DEF InboxOK
        <5> QED BY <5>1, <5>2
      <4> QED BY <2>1, <4>3, <4>5 DEF InboxTypes, InboxOK, Asks, Answer
    <3> QED BY <3>1, <3>2
  <2>3. calls' \in 0 .. MaxQueued /\ calls' <= calls
    BY <1>a, <1>d, <2>1 DEF Parts, LinkTypes
  <2> QED BY <1>a, <1>c, <1>e, <2>1, <2>2, <2>3 DEF Parts, ViewTypes, LinkTypes, RequestTypes,
                                                    HandlingOK
<1>3. CASE Boot \/ Reconnect
  <2>1. /\ ongoing' = ongoing /\ known' = known /\ current' = current /\ evseOf' = evseOf
        /\ status' \in {"none", "accepted", "refused"} /\ up' \in BOOLEAN
        /\ cuts' = cuts /\ restarted' = restarted /\ calls' = calls /\ wire' = wire
        /\ inbox' = inbox /\ handling' = handling /\ req' = req
    BY <1>3, <1>a DEF Boot, Reconnect, evses, line, loop, Parts, LinkTypes
  <2> QED BY <1>a, <1>c, <1>d, <1>e, <2>1 DEF Parts, ViewTypes, LinkTypes, RequestTypes,
                                              HandlingOK, InboxTypes, InboxOK
<1>4. CASE Disconnect
  <2>1. /\ ongoing' = ongoing /\ known' = known /\ current' = current /\ evseOf' = evseOf
        /\ status' = status /\ up' = FALSE /\ restarted' = restarted
        /\ cuts < MaxCuts /\ cuts' = cuts + 1
        /\ calls' = calls /\ wire' = (IF wire = "idle" THEN "idle" ELSE "cut")
        /\ inbox' = <<>> /\ handling' = handling /\ Lost
    BY <1>4 DEF Disconnect, evses
  <2>2. inbox' \in Seq(ToClient) /\ DOMAIN inbox' = {}
    BY <2>1
  <2>3. InboxTypes'
    BY <2>1, <2>2 DEF InboxTypes, InboxOK
  <2>4. cuts' \in 0 .. MaxCuts
    BY <1>a, <2>1, ClientBounds DEF Parts, LinkTypes
  <2>5. ViewTypes'
    BY <1>a, <2>1 DEF Parts, ViewTypes
  <2>6. LinkTypes'
    BY <1>a, <2>1, <2>4 DEF Parts, LinkTypes
  <2>7. RequestTypes'
    BY <1>a, <2>1, LostTypes DEF Parts, RequestTypes, HandlingOK
  <2>8. ReportTypes'
    BY <1>a, <1>d, <1>e, <2>1 DEF Parts, LinkTypes
  <2> QED BY <1>c, <2>3, <2>5, <2>6, <2>7, <2>8 DEF Parts
<1>5. CASE RestartClient
  <2>1. /\ ongoing' = {} /\ known' = {}
        /\ current' = [e \in EVSEs |-> Nothing] /\ evseOf' = [t \in Trans |-> Nothing]
        /\ status' = "none" /\ up' = FALSE /\ restarted' = TRUE
        /\ cuts < MaxCuts /\ cuts' = cuts + 1 /\ calls' = 0 /\ wire' = "idle"
        /\ inbox' = <<>> /\ handling' = Nothing /\ Lost
    BY <1>5 DEF RestartClient
  <2>2. inbox' \in Seq(ToClient) /\ DOMAIN inbox' = {}
    BY <2>1
  <2>3. InboxTypes'
    BY <2>1, <2>2 DEF InboxTypes, InboxOK
  <2>4. cuts' \in 0 .. MaxCuts
    BY <1>a, <2>1, ClientBounds DEF Parts, LinkTypes
  <2>5. calls' \in 0 .. MaxQueued /\ calls' <= calls
    BY <1>d, <2>1
  <2>6. ViewTypes'
    BY <2>1 DEF ViewTypes
  <2>7. LinkTypes'
    BY <2>1, <2>4, <2>5 DEF LinkTypes
  <2>8. RequestTypes'
    BY <2>1, LostTypes DEF RequestTypes, HandlingOK
  <2> QED BY <1>c, <1>e, <2>3, <2>5, <2>6, <2>7, <2>8 DEF Parts
<1> QED BY <1>1, <1>2, <1>3, <1>4, <1>5

\* The steps of the requests, the loop and its timers.
LEMMA AskingTypes ==
    ASSUME ClientTypes,
           \/ StopWaiting \/ Decide \/ Read \/ StopAsking
           \/ \E r \in Requests : Request(r)
    PROVE  ClientTypes'
<1> SUFFICES Parts'
  BY TypesByPartsNext
<1>a. Parts
  BY TypesByParts
<1>b. /\ phase' = phase /\ at' = at /\ reports' = reports
      /\ orderly' = orderly /\ patient' = patient /\ waiting' \in BOOLEAN
      /\ ongoing' = ongoing /\ known' = known /\ current' = current /\ evseOf' = evseOf
      /\ status' = status /\ up' = up /\ cuts' = cuts /\ restarted' = restarted
  BY <1>a DEF StopWaiting, Decide, Read, ReadAnswer, AnswerAtOnce, AskPoint, StopAsking, Request,
              physical, point, evses, connection, Parts, StationTypes
<1>c. ViewTypes'
  BY <1>a, <1>b DEF Parts, ViewTypes
<1>d. calls \in Nat /\ MaxQueued \in Nat /\ Len(reports) \in Nat
  BY <1>a, ClientBounds DEF Parts, ReportTypes, LinkTypes
<1>e. calls' \in 0 .. MaxQueued /\ calls' <= calls => ReportTypes'
  BY <1>a, <1>b, <1>d DEF Parts, ReportTypes, ReportsOK
<1>f. asked' \in Seq(Kind) => StationTypes'
  BY <1>a, <1>b DEF Parts, StationTypes
<1>g. calls' = calls /\ wire' = wire => ReportTypes' /\ LinkTypes'
  BY <1>a, <1>b, <1>d, <1>e DEF Parts, LinkTypes
<1>h. asked \in Seq(Kind)
  BY <1>a DEF Parts, StationTypes
<1>i. inbox' = inbox /\ wire' = wire => InboxTypes'
  BY <1>a DEF Parts, InboxTypes, InboxOK
<1>1. CASE StopWaiting
  <2>1. /\ asked' = asked /\ calls' = calls /\ wire' = wire
        /\ inbox' = inbox /\ handling' = handling /\ req' = req
    BY <1>1 DEF StopWaiting, line, loop
  <2>2. RequestTypes'
    BY <1>a, <2>1 DEF Parts, RequestTypes, HandlingOK
  <2> QED BY <1>c, <1>f, <1>g, <1>h, <1>i, <2>1, <2>2 DEF Parts
<1>2. CASE Decide \/ StopAsking
  <2>1. /\ asked' \in Seq(Kind) /\ calls' = calls /\ wire' = wire /\ inbox' = inbox
        /\ \/ handling' = handling /\ req' = req
           \/ handling # Nothing /\ handling' = Nothing /\ Answered(handling.req)
    <3>1. CASE StopAsking
      BY <1>h, <3>1 DEF StopAsking, line
    <3>2. CASE Decide
      <4>1. asked # <<>> /\ asked' = Tail(asked)
        BY <3>2 DEF Decide
      <4>2. asked' \in Seq(Kind)
        BY <1>h, <4>1, TailAt
      <4>3. /\ calls' = calls /\ wire' = wire /\ inbox' = inbox
            /\ \/ handling' = handling /\ req' = req
               \/ handling # Nothing /\ handling' = Nothing /\ Answered(handling.req)
        BY <3>2 DEF Decide, line
      <4> QED BY <4>2, <4>3
    <3> QED BY <1>2, <3>1, <3>2
  <2>2. RequestTypes'
    <3>1. CASE handling' = handling /\ req' = req
      BY <1>a, <3>1 DEF Parts, RequestTypes, HandlingOK
    <3>2. CASE handling # Nothing /\ handling' = Nothing /\ Answered(handling.req)
      <4>1. handling.req \in Requests
        BY <1>a, <3>2 DEF Parts, RequestTypes, HandlingOK, Asks
      <4>2. req' \in [Requests -> RequestState]
        BY <3>2, <4>1, AnsweredTypes
      <4> QED BY <3>2, <4>2 DEF RequestTypes, HandlingOK
    <3> QED BY <2>1, <3>1, <3>2
  <2> QED BY <1>c, <1>f, <1>g, <1>i, <2>1, <2>2 DEF Parts
<1>3. ASSUME NEW r \in Requests, Request(r) PROVE Parts'
  <2>1. PICK k \in Kind : \E x \in Subjects(k) :
          inbox' = Append(inbox, [kind |-> k, req |-> r, about |-> x])
    BY <1>3 DEF Request
  <2>2. PICK x \in Subjects(k) : inbox' = Append(inbox, [kind |-> k, req |-> r, about |-> x])
    BY <2>1
  <2>3. /\ req[r] = "new" /\ req' = [req EXCEPT ![r] = "sent"]
        /\ asked' = asked /\ calls' = calls /\ wire' = wire /\ handling' = handling
    BY <1>3 DEF Request, line
  <2> DEFINE m == [kind |-> k, req |-> r, about |-> x]
  <2>4. x \in EVSEs \cup Trans \cup {Nothing}
    BY <2>2 DEF Subjects
  <2>5. m \in ToClient /\ m # Answer /\ Asks(m)
    <3>1. m.req = r /\ m.kind = k /\ Answer.req = Nothing /\ Nothing \notin Requests
      BY NothingAssumption DEF Answer
    <3>2. m \in ToClient
      BY <2>4 DEF ToClient
    <3> QED BY <3>1, <3>2 DEF Asks
  <2>6. inbox' = Append(inbox, m)
    BY <2>2
  <2> HIDE DEF m
  <2>7. InboxTypes'
    <3>1. /\ inbox' \in Seq(ToClient) /\ InboxOK'
          /\ (\E i \in DOMAIN inbox : inbox[i] = Answer)
               <=> (\E i \in DOMAIN inbox' : inbox'[i] = Answer)
      BY <2>5, <2>6, ReceiveTypes
    <3>2. Answer' = Answer
      BY DEF Answer
    <3> QED BY <1>a, <2>3, <3>1, <3>2 DEF Parts, InboxTypes
  <2>8. RequestTypes'
    <3>1. handling # Nothing => handling.req \in Requests /\ req[handling.req] \in {"asking", "lost"}
      BY <1>a DEF Parts, RequestTypes, HandlingOK, Asks
    <3>2. handling # Nothing => handling.req # r
      BY <2>3, <3>1
    <3>3. handling # Nothing => req'[handling.req] = req[handling.req]
      BY <1>a, <2>3, <3>1, <3>2 DEF Parts, RequestTypes
    <3>4. req' \in [Requests -> RequestState]
      BY <1>a, <2>3 DEF Parts, RequestTypes, RequestState
    <3> QED BY <1>a, <2>3, <3>1, <3>3, <3>4 DEF Parts, RequestTypes, HandlingOK, Asks
  <2> QED BY <1>c, <1>f, <1>g, <1>h, <2>3, <2>7, <2>8 DEF Parts
<1>4. CASE ReadAnswer
  <2>1. /\ Reads /\ Head(inbox) = Answer /\ calls' = calls - 1 /\ wire' = "idle"
        /\ asked' = asked /\ handling' = handling /\ req' = req
    BY <1>4 DEF ReadAnswer
  <2>2. /\ inbox' \in Seq(ToClient) /\ InboxOK' /\ wire = "answered"
        /\ \A i \in DOMAIN inbox' : inbox'[i] # Answer
    BY <2>1, ReadTypes
  <2>3. InboxTypes'
    BY <2>1, <2>2 DEF InboxTypes, Answer
  <2>4. calls > 0
    BY <1>a, <2>2 DEF Parts, LinkTypes
  <2>5. calls' \in 0 .. MaxQueued /\ calls' <= calls
    BY <1>a, <1>d, <2>1, <2>4 DEF Parts, LinkTypes
  <2>6. LinkTypes'
    BY <1>a, <1>b, <2>1, <2>5 DEF Parts, LinkTypes
  <2>7. RequestTypes'
    BY <1>a, <2>1 DEF Parts, RequestTypes, HandlingOK
  <2> QED BY <1>c, <1>e, <1>f, <1>h, <2>1, <2>3, <2>5, <2>6, <2>7 DEF Parts
<1>5. CASE AnswerAtOnce \/ AskPoint
  <2>1. /\ Reads /\ Head(inbox) # Answer /\ calls' = calls /\ wire' = wire
        /\ handling = Nothing
    BY <1>5 DEF AnswerAtOnce, AskPoint, line, Reads
  <2>2. /\ inbox' \in Seq(ToClient) /\ InboxOK' /\ Head(inbox) \in ToClient /\ Asks(Head(inbox))
        /\ (\E i \in DOMAIN inbox : inbox[i] = Answer)
             <=> (\E i \in DOMAIN inbox' : inbox'[i] = Answer)
    BY <2>1, ReadTypes
  <2>3. InboxTypes'
    <3>1. Answer' = Answer
      BY DEF Answer
    <3> QED BY <1>a, <2>1, <2>2, <3>1 DEF Parts, InboxTypes
  <2> DEFINE m == Head(inbox)
  <2>4. m \in ToClient /\ m.req \in Requests /\ m.kind \in Kind
    BY <2>2 DEF Asks
  <2>5. \/ asked' = asked /\ handling' = handling /\ Answered(m.req)
        \/ /\ handling' = m /\ req' = [req EXCEPT ![m.req] = "asking"]
           /\ asked' = Append(asked, m.kind)
    BY <1>5 DEF AnswerAtOnce, AskPoint
  <2> HIDE DEF m
  <2>6. asked' \in Seq(Kind)
    BY <1>h, <2>4, <2>5, AppendAt
  <2>7. RequestTypes'
    <3>1. CASE asked' = asked /\ handling' = handling /\ Answered(m.req)
      BY <2>1, <2>4, <3>1, AnsweredTypes DEF RequestTypes, HandlingOK
    <3>2. CASE handling' = m /\ req' = [req EXCEPT ![m.req] = "asking"]
      BY <1>a, <2>4, <3>2 DEF Parts, RequestTypes, RequestState, HandlingOK, Asks
    <3> QED BY <2>5, <3>1, <3>2
  <2> QED BY <1>c, <1>f, <1>g, <2>1, <2>3, <2>6, <2>7 DEF Parts
<1> QED BY <1>1, <1>2, <1>3, <1>4, <1>5 DEF Read

\* Every step keeps the types.
LEMMA NextClientTypes == ClientTypes /\ [ClientNext]_client => ClientTypes'
<1> SUFFICES ASSUME ClientTypes, [ClientNext]_client PROVE ClientTypes'
  OBVIOUS
<1>1. CASE UNCHANGED client
  <2>1. /\ phase' = phase /\ at' = at /\ reports' = reports /\ waiting' = waiting
        /\ asked' = asked /\ ongoing' = ongoing /\ known' = known /\ current' = current
        /\ evseOf' = evseOf /\ status' = status /\ up' = up /\ cuts' = cuts
        /\ restarted' = restarted /\ calls' = calls /\ wire' = wire /\ inbox' = inbox
        /\ handling' = handling /\ req' = req /\ orderly' = orderly /\ patient' = patient
    BY <1>1 DEF client, physical, evses, connection, line, loop, point
  <2> QED BY <2>1 DEF ClientTypes, ClientTypeOK, ReportsOK, InboxOK, HandlingOK
<1>2. CASE ClientNext
  BY <1>2, PointTypes, TakingTypes, CallingTypes, AskingTypes, Zenon DEF ClientNext
<1> QED BY <1>1, <1>2

\* Every variable of the client, its connection and the decision point stays in its domain,
\* and a call of the client is answered only while it is in the line.
THEOREM ClientTypeCorrect == ClientSpec => []ClientTypeOK
<1>1. ClientTypes => ClientTypeOK
  BY DEF ClientTypes
<1> QED BY <1>1, InitClientTypes, NextClientTypes, PTL DEF ClientSpec

-------------------------------------------------------------------------------
(* The transactions of an orderly decision point.                          *)

\* An event of transaction t is on its way; its first; its last.
Is(i, t) == reports[i].tran = t
StartQueued(t) == \E i \in DOMAIN reports : Is(i, t) /\ reports[i].event = "started"
EndQueued(t) == \E i \in DOMAIN reports : Is(i, t) /\ reports[i].event = "ended"

\* The client has not been told of the end of transaction t, which began.
Open(t) == phase[t] = "running" \/ EndQueued(t)

\* Transactions start in the order of their numbers, on an EVSE one after the other, on an
\* EVSE that was reported.
PhysicalInv ==
    /\ \A t \in Trans : phase[t] # "new" => at[t] \in EVSEs /\ Told(at[t])
    /\ \A t, u \in Trans : t < u /\ phase[u] # "new" =>
           phase[t] # "new" /\ (at[t] = at[u] => phase[t] = "over")

\* A report of a transaction on its way is true, and that of its EVSE went before it.
RightReport(i, t) ==
    /\ phase[t] # "new" /\ Open(t) /\ ~reports[i].token
    /\ reports[i].evse \in {at[t], Nothing}
    /\ reports[i].event = "started" => reports[i].evse = at[t]
    /\ reports[i].event = "ended" => phase[t] = "over"
    /\ \/ at[t] \in known
       \/ \E j \in 1 .. i - 1 : reports[j].event = "status" /\ reports[j].evse = at[t]

ReportsInv == \A i \in DOMAIN reports, t \in Trans : Is(i, t) => RightReport(i, t)

\* The reports of an EVSE's transactions are in order.
InOrder ==
    \A i, j \in DOMAIN reports, t, u \in Trans :
        i < j /\ Is(i, t) /\ Is(j, u) /\ at[t] = at[u] =>
            /\ t <= u
            /\ reports[i].event = "ended" \/ reports[j].event = "started" => t < u

\* The client's view is that of the reports it has handled.
ViewInv ==
    /\ \A t \in Trans : t \in ongoing <=> Open(t) /\ ~StartQueued(t)
    /\ \A t \in ongoing : evseOf[t] = at[t] /\ at[t] \in known
    /\ \A e \in EVSEs, t \in Trans : current[e] = t <=> t \in ongoing /\ at[t] = e
    /\ \A t \in Trans, u \in ongoing : t < u /\ at[t] = at[u] =>
           \A i \in DOMAIN reports : ~Is(i, t)

OrderlyInv == PhysicalInv /\ ReportsInv /\ InOrder /\ ViewInv
ClientInv == ClientTypes /\ (orderly /\ ~restarted => OrderlyInv)

\* The part of the state the invariant is about.
StationView == <<phase, at, reports, ongoing, known, current, evseOf>>

LEMMA SameView == OrderlyInv /\ UNCHANGED StationView => OrderlyInv'
  BY DEF OrderlyInv, StationView, PhysicalInv, ReportsInv, RightReport, InOrder, ViewInv, Told, Open,
         EndQueued, StartQueued, Is

\* A transaction of which anything is known has begun.
LEMMA OpenBegan ==
    ASSUME ClientTypes, OrderlyInv, NEW t \in Trans
    PROVE  /\ Open(t) => phase[t] # "new"
           /\ t \in ongoing => phase[t] # "new"
<1>1. Open(t) => phase[t] # "new"
  BY DEF OrderlyInv, ReportsInv, RightReport, Open, EndQueued
<1> QED BY <1>1 DEF OrderlyInv, ViewInv

\* What is sent comes last.
LEMMA Sent ==
    ASSUME ClientTypes, orderly, NEW event \in {"status", "started", "updated", "ended"},
           NEW e \in EVSEs \cup {Nothing}, NEW t \in Trans \cup {Nothing},
           Send(event, e, t)
    PROVE  \E m \in Report :
               /\ m.event = event /\ m.evse = e /\ m.tran = t /\ ~m.token
               /\ Len(reports) \in Nat /\ DOMAIN reports = 1 .. Len(reports)
               /\ DOMAIN reports' = 1 .. Len(reports) + 1
               /\ \A i \in 1 .. Len(reports) : reports'[i] = reports[i]
               /\ reports'[Len(reports) + 1] = m
               /\ ongoing' = ongoing /\ known' = known /\ current' = current /\ evseOf' = evseOf
<1>1. PICK token \in BOOLEAN :
        /\ token => ~orderly /\ event # "status"
        /\ reports' = Append(reports, [event |-> event, evse |-> e, tran |-> t, token |-> token])
  BY DEF Send
<1> DEFINE m == [event |-> event, evse |-> e, tran |-> t, token |-> token]
<1>2. m \in Report /\ m.event = event /\ m.evse = e /\ m.tran = t /\ ~m.token
  BY <1>1 DEF Report
<1>3. reports' = Append(reports, m)
  BY <1>1
<1> HIDE DEF m
<1>4. reports \in Seq(Report)
  BY TypesByParts DEF Parts, ReportTypes
<1>5. /\ Len(reports) \in Nat /\ DOMAIN reports = 1 .. Len(reports)
      /\ DOMAIN reports' = 1 .. Len(reports) + 1
      /\ \A i \in 1 .. Len(reports) : reports'[i] = reports[i]
      /\ reports'[Len(reports) + 1] = m
  BY <1>2, <1>3, <1>4, AppendAt
<1>6. ongoing' = ongoing /\ known' = known /\ current' = current /\ evseOf' = evseOf
  BY DEF Send, evses, connection, point
<1> QED BY <1>2, <1>5, <1>6

\* An EVSE is announced.
LEMMA AnnounceInv ==
    ASSUME ClientTypes, orderly, OrderlyInv, NEW e \in EVSEs, Announce(e)
    PROVE  OrderlyInv'
<1>1. Send("status", e, Nothing) /\ phase' = phase /\ at' = at
  BY DEF Announce, physical
<1>2. PICK m \in Report :
        /\ m.event = "status" /\ m.evse = e /\ m.tran = Nothing /\ ~m.token
        /\ Len(reports) \in Nat /\ DOMAIN reports = 1 .. Len(reports)
        /\ DOMAIN reports' = 1 .. Len(reports) + 1
        /\ \A i \in 1 .. Len(reports) : reports'[i] = reports[i]
        /\ reports'[Len(reports) + 1] = m
        /\ ongoing' = ongoing /\ known' = known /\ current' = current /\ evseOf' = evseOf
  BY <1>1, Sent
<1>3. PICK n \in Nat : n = Len(reports)
  BY <1>2
<1>4. /\ DOMAIN reports = 1 .. n /\ DOMAIN reports' = 1 .. n + 1
      /\ \A i \in 1 .. n : reports'[i] = reports[i]
      /\ reports'[n + 1].event = "status" /\ reports'[n + 1].tran = Nothing
  BY <1>2, <1>3
<1>5. ongoing' = ongoing /\ known' = known /\ current' = current /\ evseOf' = evseOf
  BY <1>2
<1>6. \A i \in DOMAIN reports', t \in Trans :
        Is(i, t)' => i \in DOMAIN reports /\ reports'[i] = reports[i] /\ Is(i, t)
  BY <1>4, NothingAssumption DEF Is
<1>7. \A i \in DOMAIN reports : i \in DOMAIN reports' /\ reports'[i] = reports[i]
  BY <1>4
<1>8. \A t \in Trans : (StartQueued(t)' <=> StartQueued(t)) /\ (EndQueued(t)' <=> EndQueued(t))
  <2> SUFFICES ASSUME NEW t \in Trans
               PROVE  (StartQueued(t)' <=> StartQueued(t)) /\ (EndQueued(t)' <=> EndQueued(t))
    OBVIOUS
  <2>1. \A i \in DOMAIN reports : Is(i, t) => Is(i, t)'
    BY <1>7 DEF Is
  <2> QED BY <1>6, <1>7, <2>1 DEF StartQueued, EndQueued
<1>9. \A t \in Trans : Open(t)' <=> Open(t)
  BY <1>1, <1>8 DEF Open
<1>10. PhysicalInv'
  <2>1. \A x \in EVSEs : Told(x) => Told(x)'
    BY <1>5, <1>7 DEF Told
  <2> QED BY <1>1, <2>1 DEF OrderlyInv, PhysicalInv
<1>11. ReportsInv'
  <2> SUFFICES ASSUME NEW i \in DOMAIN reports', NEW t \in Trans, Is(i, t)'
               PROVE  RightReport(i, t)'
    BY DEF ReportsInv
  <2>1. i \in DOMAIN reports /\ reports'[i] = reports[i] /\ Is(i, t)
    BY <1>4, NothingAssumption DEF Is
  <2>2. \A j \in 1 .. i - 1 : reports'[j] = reports[j]
    BY <1>4, <2>1
  <2> QED BY <1>1, <1>5, <1>9, <2>1, <2>2 DEF OrderlyInv, ReportsInv, RightReport
<1>12. InOrder'
  BY <1>1, <1>6 DEF OrderlyInv, InOrder
<1>13. ViewInv'
  <2>1. ASSUME NEW t \in Trans, \A i \in DOMAIN reports : ~Is(i, t)
        PROVE  \A i \in DOMAIN reports' : ~Is(i, t)'
    <3>1. Nothing # t
      BY NothingAssumption
    <3> QED BY <1>4, <2>1, <3>1 DEF Is
  <2> QED BY <1>1, <1>5, <1>8, <1>9, <2>1 DEF OrderlyInv, ViewInv
<1> QED BY <1>10, <1>11, <1>12, <1>13 DEF OrderlyInv

\* What an event of transaction t does at the station.
Happens(event, t) ==
    /\ \A u \in Trans \ {t} : phase'[u] = phase[u] /\ at'[u] = at[u]
    /\ phase'[t] = IF event = "ended" THEN "over" ELSE "running"
    /\ event = "started" =>
           /\ phase[t] = "new" /\ at'[t] \in EVSEs /\ Told(at'[t])
           /\ \A u \in Trans : u < t => phase[u] # "new"
           /\ \A u \in Trans : at[u] = at'[t] => phase[u] # "running"
    /\ event # "started" => phase[t] = "running" /\ at'[t] = at[t]

\* An event of a transaction is reported.
LEMMA EventSent ==
    ASSUME ClientTypes, orderly, OrderlyInv, NEW t \in Trans,
           NEW event \in {"started", "updated", "ended"}, NEW e \in EVSEs \cup {Nothing},
           e \in {at'[t], Nothing}, event = "started" => e = at'[t],
           Happens(event, t), Send(event, e, t)
    PROVE  OrderlyInv'
<1>1. PICK m \in Report :
        /\ m.event = event /\ m.evse = e /\ m.tran = t /\ ~m.token
        /\ Len(reports) \in Nat /\ DOMAIN reports = 1 .. Len(reports)
        /\ DOMAIN reports' = 1 .. Len(reports) + 1
        /\ \A i \in 1 .. Len(reports) : reports'[i] = reports[i]
        /\ reports'[Len(reports) + 1] = m
        /\ ongoing' = ongoing /\ known' = known /\ current' = current /\ evseOf' = evseOf
  BY Sent
<1>2. PICK n \in Nat : n = Len(reports)
  BY <1>1
<1>3. /\ DOMAIN reports = 1 .. n /\ DOMAIN reports' = 1 .. n + 1
      /\ \A i \in 1 .. n : reports'[i] = reports[i]
      /\ reports'[n + 1] = m
  BY <1>1, <1>2
<1>4. ongoing' = ongoing /\ known' = known /\ current' = current /\ evseOf' = evseOf
  BY <1>1
<1>5. m.event = event /\ m.evse = e /\ m.tran = t /\ ~m.token
  BY <1>1
<1> HIDE <1>1, <1>2
<1>6. \A u \in Trans : phase[u] \in {"new", "running", "over"} /\ u \in Nat
  BY TypesByParts DEF Parts, StationTypes, Trans
<1>7. PhysicalInv /\ ReportsInv /\ InOrder /\ ViewInv
  BY DEF OrderlyInv
<1>8. /\ \A u \in Trans : u # t => phase'[u] = phase[u] /\ at'[u] = at[u]
      /\ phase'[t] # "new" /\ (event = "ended" <=> phase'[t] # "running")
      /\ event = "ended" <=> phase'[t] = "over"
      /\ event = "started" <=> phase[t] = "new"
      /\ event = "started" => at'[t] \in EVSEs /\ Told(at'[t])
      /\ event = "started" => \A u \in Trans : u < t => phase[u] # "new"
      /\ event = "started" => \A u \in Trans : at[u] = at'[t] => phase[u] # "running"
      /\ event # "started" => phase[t] = "running" /\ at'[t] = at[t]
  BY DEF Happens
\* Where the reports are.
<1>9. \A i \in DOMAIN reports, u \in Trans :
        Is(i, u) => /\ i \in DOMAIN reports' /\ reports'[i] = reports[i] /\ i < n + 1
                    /\ phase[u] # "new" /\ at'[u] = at[u] /\ Is(i, u)'
  <2> SUFFICES ASSUME NEW i \in DOMAIN reports, NEW u \in Trans, Is(i, u)
               PROVE  /\ i \in DOMAIN reports' /\ reports'[i] = reports[i] /\ i < n + 1
                      /\ phase[u] # "new" /\ at'[u] = at[u] /\ Is(i, u)'
    OBVIOUS
  <2>1. i \in DOMAIN reports' /\ reports'[i] = reports[i] /\ i < n + 1
    BY <1>3
  <2>2. phase[u] # "new"
    BY <1>7 DEF ReportsInv, RightReport
  <2>3. at'[u] = at[u]
    BY <1>8, <2>2
  <2> QED BY <2>1, <2>2, <2>3 DEF Is
<1>10. \A i \in DOMAIN reports', u \in Trans :
         Is(i, u)' => \/ i = n + 1 /\ u = t
                      \/ i \in DOMAIN reports /\ Is(i, u) /\ reports'[i] = reports[i]
  BY <1>3, <1>5 DEF Is
<1>11. n + 1 \in DOMAIN reports' /\ Is(n + 1, t)' /\ reports'[n + 1] = m
  BY <1>3, <1>5 DEF Is
<1>12. \A u \in Trans : /\ StartQueued(u)' <=> (StartQueued(u) \/ (u = t /\ event = "started"))
                        /\ EndQueued(u)' <=> (EndQueued(u) \/ (u = t /\ event = "ended"))
  <2> SUFFICES ASSUME NEW u \in Trans
               PROVE  /\ StartQueued(u)' <=> (StartQueued(u) \/ (u = t /\ event = "started"))
                      /\ EndQueued(u)' <=> (EndQueued(u) \/ (u = t /\ event = "ended"))
    OBVIOUS
  <2>1. StartQueued(u)' => StartQueued(u) \/ (u = t /\ event = "started")
    BY <1>5, <1>10, <1>11 DEF StartQueued
  <2>2. EndQueued(u)' => EndQueued(u) \/ (u = t /\ event = "ended")
    BY <1>5, <1>10, <1>11 DEF EndQueued
  <2>3. StartQueued(u) => StartQueued(u)'
    BY <1>9 DEF StartQueued
  <2>4. EndQueued(u) => EndQueued(u)'
    BY <1>9 DEF EndQueued
  <2>5. u = t /\ event = "started" => StartQueued(u)'
    BY <1>5, <1>11 DEF StartQueued
  <2>6. u = t /\ event = "ended" => EndQueued(u)'
    BY <1>5, <1>11 DEF EndQueued
  <2> QED BY <2>1, <2>2, <2>3, <2>4, <2>5, <2>6
<1>13. \A x \in EVSEs : Told(x) => Told(x)'
  BY <1>3, <1>4 DEF Told
<1>14. \A u \in Trans : (Open(u) => Open(u)') /\ (u # t => (Open(u)' <=> Open(u)))
  BY <1>8, <1>12 DEF Open
<1>15. Open(t)' /\ (event # "started" => Open(t)) /\ (event = "started" => ~Open(t))
  <2>1. Open(t)'
    BY <1>8, <1>12 DEF Open
  <2>2. event = "started" => ~Open(t)
    BY <1>8, OpenBegan
  <2> QED BY <1>8, <2>1, <2>2 DEF Open
\* The parts of the invariant.
<1>16. at'[t] \in EVSEs /\ Told(at'[t])
  BY <1>7, <1>8 DEF PhysicalInv
<1>17. PhysicalInv'
  <2>1. ASSUME NEW u \in Trans, phase'[u] # "new" PROVE at'[u] \in EVSEs /\ Told(at[u])'
    <3>1. CASE u = t
      <4>1. PICK x \in EVSEs : x = at'[t] /\ Told(x)
        BY <1>16
      <4>2. Told(x)'
        BY <1>13, <4>1
      <4> QED BY <3>1, <4>1, <4>2 DEF Told
    <3>2. CASE u # t
      <4>1. PICK x \in EVSEs : x = at[u] /\ Told(x)
        BY <1>7, <1>8, <2>1, <3>2 DEF PhysicalInv
      <4>2. Told(x)' /\ at'[u] = x
        BY <1>8, <1>13, <3>2, <4>1
      <4> QED BY <4>1, <4>2 DEF Told
    <3> QED BY <3>1, <3>2
  <2>2. ASSUME NEW u \in Trans, NEW v \in Trans, u < v, phase'[v] # "new"
        PROVE  phase'[u] # "new" /\ (at'[u] = at'[v] => phase'[u] = "over")
    <3>1. u # v
      BY <1>6, <2>2
    <3>2. CASE v = t
      BY <1>6, <1>7, <1>8, <2>2, <3>1, <3>2 DEF PhysicalInv
    <3>3. CASE u = t
      BY <1>6, <1>7, <1>8, <2>2, <3>1, <3>3 DEF PhysicalInv
    <3>4. CASE u # t /\ v # t
      BY <1>7, <1>8, <2>2, <3>4 DEF PhysicalInv
    <3> QED BY <3>2, <3>3, <3>4
  <2> QED BY <2>1, <2>2 DEF PhysicalInv, Told
<1>18. ReportsInv'
  <2> SUFFICES ASSUME NEW i \in DOMAIN reports', NEW u \in Trans, Is(i, u)'
               PROVE  RightReport(i, u)'
    BY DEF ReportsInv
  <2>1. CASE i \in DOMAIN reports /\ Is(i, u) /\ reports'[i] = reports[i]
    <3>1. RightReport(i, u) /\ at'[u] = at[u]
      BY <1>7, <1>9, <2>1 DEF ReportsInv
    <3>2. phase'[u] # "new" /\ Open(u)'
      BY <1>8, <1>14, <3>1 DEF RightReport
    <3>3. reports[i].event = "ended" => phase'[u] = "over"
      BY <1>8, <3>1 DEF RightReport
    <3>4. \A j \in 1 .. i - 1 : reports'[j] = reports[j]
      BY <1>3, <2>1
    <3> QED BY <1>4, <2>1, <3>1, <3>2, <3>3, <3>4 DEF RightReport
  <2>2. CASE i = n + 1 /\ u = t
    <3>1. reports'[i] = m
      BY <1>11, <2>2
    <3>2. \/ at'[t] \in known'
          \/ \E j \in 1 .. i - 1 : reports'[j].event = "status" /\ reports'[j].evse = at'[t]
      <4>1. PICK x : x = at'[t]
        OBVIOUS
      <4>2. Told(x)
        BY <1>16, <4>1
      <4>3. 1 .. i - 1 = 1 .. n
        BY <2>2
      <4> QED BY <1>3, <1>4, <4>1, <4>2, <4>3 DEF Told
    <3> QED BY <1>5, <1>8, <1>15, <2>2, <3>1, <3>2 DEF RightReport
  <2> QED BY <1>10, <2>1, <2>2
<1>19. InOrder'
  <2> SUFFICES ASSUME NEW i \in DOMAIN reports', NEW j \in DOMAIN reports',
                      NEW u \in Trans, NEW v \in Trans,
                      i < j, Is(i, u)', Is(j, v)', at'[u] = at'[v]
               PROVE  /\ u <= v
                      /\ reports'[i].event = "ended" \/ reports'[j].event = "started" => u < v
    BY DEF InOrder
  <2>1. i \in DOMAIN reports /\ Is(i, u) /\ reports'[i] = reports[i]
    BY <1>3, <1>10
  <2>2. /\ RightReport(i, u) /\ at'[u] = at[u] /\ phase[u] # "new"
        /\ reports[i].event = "ended" => phase[u] = "over"
    BY <1>7, <1>9, <2>1 DEF ReportsInv, RightReport
  <2>3. CASE j \in DOMAIN reports /\ Is(j, v) /\ reports'[j] = reports[j]
    <3>1. at'[v] = at[v]
      BY <1>9, <2>3
    <3> QED BY <1>7, <2>1, <2>2, <2>3, <3>1 DEF InOrder
  <2>4. CASE j = n + 1 /\ v = t
    <3>1. CASE u = t
      BY <1>5, <1>6, <1>8, <1>11, <2>1, <2>2, <2>4, <3>1
    <3>2. CASE u < t
      BY <1>6, <2>4, <3>2
    <3>3. CASE t < u
      <4>1. phase[t] # "new" /\ (at[t] = at[u] => phase[t] = "over")
        BY <1>7, <2>2, <3>3 DEF PhysicalInv
      <4> QED BY <1>8, <2>2, <2>4, <4>1
    <3> QED BY <1>6, <3>1, <3>2, <3>3
  <2> QED BY <1>10, <2>3, <2>4
<1>20. ViewInv'
  <2>1. \A u \in Trans : u \in ongoing => phase[u] # "new" /\ at'[u] = at[u]
    BY <1>8, OpenBegan
  <2>2. ASSUME NEW u \in Trans PROVE u \in ongoing <=> Open(u)' /\ ~StartQueued(u)'
    BY <1>7, <1>12, <1>14, <1>15 DEF ViewInv
  <2>3. ASSUME NEW u \in ongoing PROVE evseOf[u] = at'[u] /\ at'[u] \in known
    <3>1. u \in Trans
      BY TypesByParts DEF Parts, ViewTypes
    <3> QED BY <1>7, <2>1, <3>1 DEF ViewInv
  <2>4. ASSUME NEW x \in EVSEs, NEW u \in Trans
        PROVE  current[x] = u <=> u \in ongoing /\ at'[u] = x
    BY <1>7, <2>1 DEF ViewInv
  <2>5. ASSUME NEW u \in Trans, NEW v \in ongoing, u < v, at'[u] = at'[v],
               NEW i \in DOMAIN reports', Is(i, u)'
        PROVE  FALSE
    <3>1. v \in Trans
      BY TypesByParts DEF Parts, ViewTypes
    <3>2. phase[v] # "new" /\ at'[v] = at[v]
      BY <2>1, <3>1
    <3>3. CASE i \in DOMAIN reports /\ Is(i, u)
      <4>1. at'[u] = at[u]
        BY <1>9, <3>3
      <4> QED BY <1>7, <2>5, <3>1, <3>2, <3>3, <4>1 DEF ViewInv
    <3>4. CASE i = n + 1 /\ u = t
      <4>1. phase[t] # "new" /\ (at[t] = at[v] => phase[t] = "over")
        BY <1>7, <2>5, <3>1, <3>2, <3>4 DEF PhysicalInv
      <4> QED BY <1>8, <2>5, <3>2, <3>4, <4>1
    <3> QED BY <1>10, <2>5, <3>3, <3>4
  <2> QED BY <1>4, <2>2, <2>3, <2>4, <2>5 DEF ViewInv
<1> QED BY <1>17, <1>18, <1>19, <1>20 DEF OrderlyInv

\* The steps of the decision point.
LEMMA PointInv ==
    ASSUME ClientTypes, orderly, OrderlyInv,
           \/ \E e \in EVSEs : Announce(e) \/ \E t \in Trans : Start(t, e)
           \/ \E t \in Trans : Update(t) \/ End(t)
    PROVE  OrderlyInv'
<1>a. /\ phase \in [Trans -> {"new", "running", "over"}] /\ at \in [Trans -> EVSEs \cup {Nothing}]
      /\ \A t \in Trans : t \in Nat \ {0}
  BY TypesByParts, ClientBounds DEF Parts, StationTypes, Trans
<1>1. ASSUME NEW e \in EVSEs, NEW t \in Trans, Start(t, e) PROVE OrderlyInv'
  <2>1. /\ phase[t] = "new" /\ (\A u \in 1 .. t - 1 : phase[u] # "new")
        /\ Running(e) = {} /\ Told(e) /\ Send("started", e, t)
        /\ phase' = [phase EXCEPT ![t] = "running"] /\ at' = [at EXCEPT ![t] = e]
    BY <1>1 DEF Start
  <2>2. at'[t] = e
    BY <1>a, <2>1
  <2>3. Told(at'[t])
    BY <2>1, <2>2
  <2>4. \A u \in Trans : u < t => u \in 1 .. t - 1
    BY <1>a
  <2>5. \A u \in Trans : at[u] = e => phase[u] # "running"
    BY <2>1 DEF Running
  <2>6. Happens("started", t)
    BY <1>a, <2>1, <2>2, <2>3, <2>4, <2>5 DEF Happens
  <2> QED BY <2>1, <2>2, <2>6, EventSent
<1>2. ASSUME NEW t \in Trans, Update(t) PROVE OrderlyInv'
  <2>1. PICK e \in {at[t], Nothing} : Send("updated", e, t)
    BY <1>2 DEF Update
  <2>2. phase[t] = "running" /\ phase' = phase /\ at' = at
    BY <1>2 DEF Update, physical
  <2>3. Happens("updated", t)
    BY <2>2 DEF Happens
  <2>4. e \in EVSEs \cup {Nothing} /\ e \in {at'[t], Nothing}
    BY <1>a, <2>1, <2>2
  <2> QED BY <2>1, <2>3, <2>4, EventSent
<1>3. ASSUME NEW t \in Trans, End(t) PROVE OrderlyInv'
  <2>1. PICK e \in {at[t], Nothing} : Send("ended", e, t)
    BY <1>3 DEF End
  <2>2. phase[t] = "running" /\ phase' = [phase EXCEPT ![t] = "over"] /\ at' = at
    BY <1>3 DEF End
  <2>3. Happens("ended", t)
    BY <1>a, <2>2 DEF Happens
  <2>4. e \in EVSEs \cup {Nothing} /\ e \in {at'[t], Nothing}
    BY <1>a, <2>1, <2>2
  <2> QED BY <2>1, <2>3, <2>4, EventSent
<1> QED BY <1>1, <1>2, <1>3, AnnounceInv

\* The first report is taken.
Taking(m) ==
    /\ 1 \in DOMAIN reports /\ m = reports[1]
    /\ \A i \in DOMAIN reports' : /\ i \in Nat \ {0} /\ i + 1 \in DOMAIN reports
                                  /\ reports'[i] = reports[i + 1]
    /\ \A i \in DOMAIN reports : /\ i \in Nat \ {0}
                                 /\ i # 1 => /\ i - 1 \in DOMAIN reports'
                                             /\ reports'[i - 1] = reports[i]

LEMMA TakeShifts ==
    ASSUME ClientTypes, NEW m \in Incoming, Take
    PROVE  Taking(m)
<1>1. /\ m = reports[1] /\ Len(reports) \in Nat \ {0}
      /\ DOMAIN reports = 1 .. Len(reports) /\ DOMAIN reports' = 1 .. Len(reports) - 1
      /\ \A i \in 1 .. Len(reports) - 1 : reports'[i] = reports[i + 1]
  BY TakeTypes
<1>2. PICK n \in Nat \ {0} : n = Len(reports)
  BY <1>1
<1>3. /\ DOMAIN reports = 1 .. n /\ DOMAIN reports' = 1 .. n - 1
      /\ \A i \in 1 .. n - 1 : reports'[i] = reports[i + 1]
  BY <1>1, <1>2
<1>4. ASSUME NEW i \in DOMAIN reports, i # 1
      PROVE  i - 1 \in DOMAIN reports' /\ reports'[i - 1] = reports[i]
  <2>1. i - 1 \in 1 .. n - 1 /\ (i - 1) + 1 = i
    BY <1>3, <1>4
  <2> QED BY <1>3, <2>1
<1> QED BY <1>1, <1>3, <1>4 DEF Taking

\* The reports that are left, and those that are not the first, are the same.
LEMMA Shifted ==
    ASSUME ClientTypes, NEW m, Taking(m)
    PROVE  /\ \A i \in DOMAIN reports', t \in Trans :
                Is(i, t)' => /\ i + 1 \in DOMAIN reports /\ Is(i + 1, t) /\ 1 < i + 1
                             /\ reports'[i] = reports[i + 1]
           /\ \A i \in DOMAIN reports, t \in Trans :
                Is(i, t) => \/ i = 1 /\ m.tran = t
                            \/ /\ 1 < i /\ i - 1 \in DOMAIN reports' /\ Is(i - 1, t)'
                               /\ reports'[i - 1] = reports[i]
           /\ \A t \in Trans :
                /\ m.event # "started" \/ m.tran # t => (StartQueued(t)' <=> StartQueued(t))
                /\ m.event # "ended" \/ m.tran # t => (EndQueued(t)' <=> EndQueued(t))
<1>1. ASSUME NEW i \in DOMAIN reports', NEW t \in Trans, Is(i, t)'
      PROVE  /\ i + 1 \in DOMAIN reports /\ Is(i + 1, t) /\ 1 < i + 1
             /\ reports'[i] = reports[i + 1]
  BY <1>1 DEF Taking, Is
<1>2. ASSUME NEW i \in DOMAIN reports, NEW t \in Trans, Is(i, t)
      PROVE  \/ i = 1 /\ m.tran = t
             \/ /\ 1 < i /\ i - 1 \in DOMAIN reports' /\ Is(i - 1, t)'
                /\ reports'[i - 1] = reports[i]
  <2>1. CASE i = 1
    BY <1>2, <2>1 DEF Taking, Is
  <2>2. CASE i # 1
    <3>1. PICK k : k = i - 1
      OBVIOUS
    <3>2. 1 < i /\ k \in DOMAIN reports' /\ reports'[k] = reports[i]
      BY <2>2, <3>1 DEF Taking
    <3>3. Is(k, t)'
      BY <1>2, <3>2 DEF Is
    <3> QED BY <3>1, <3>2, <3>3 DEF Is
  <2> QED BY <2>1, <2>2
<1>3. ASSUME NEW t \in Trans, m.event # "started" \/ m.tran # t
      PROVE  StartQueued(t)' <=> StartQueued(t)
  <2>1. StartQueued(t)' => StartQueued(t)
    BY <1>1 DEF StartQueued
  <2>2. ASSUME StartQueued(t) PROVE StartQueued(t)'
    <3>1. PICK i \in DOMAIN reports : Is(i, t) /\ reports[i].event = "started"
      BY <2>2 DEF StartQueued
    <3>2. i # 1
      BY <1>3, <3>1 DEF Taking, Is
    <3>3. PICK k \in DOMAIN reports' : reports'[k] = reports[i]
      BY <3>2 DEF Taking
    <3> QED BY <3>1, <3>3 DEF StartQueued, Is
  <2> QED BY <2>1, <2>2
<1>4. ASSUME NEW t \in Trans, m.event # "ended" \/ m.tran # t
      PROVE  EndQueued(t)' <=> EndQueued(t)
  <2>1. EndQueued(t)' => EndQueued(t)
    BY <1>1 DEF EndQueued
  <2>2. ASSUME EndQueued(t) PROVE EndQueued(t)'
    <3>1. PICK i \in DOMAIN reports : Is(i, t) /\ reports[i].event = "ended"
      BY <2>2 DEF EndQueued
    <3>2. i # 1
      BY <1>4, <3>1 DEF Taking, Is
    <3>3. PICK k \in DOMAIN reports' : reports'[k] = reports[i]
      BY <3>2 DEF Taking
    <3> QED BY <3>1, <3>3 DEF EndQueued, Is
  <2> QED BY <2>1, <2>2
<1> QED BY <1>1, <1>2, <1>3, <1>4

\* What a report that is taken says of its transaction.
LEMMA FirstReport ==
    ASSUME ClientTypes, OrderlyInv, NEW m, Taking(m), NEW t \in Trans, m.tran = t
    PROVE  /\ phase[t] # "new" /\ Open(t) /\ ~m.token /\ at[t] \in known
           /\ m.evse \in {at[t], Nothing} /\ (m.event = "started" => m.evse = at[t])
           /\ m.event = "ended" => phase[t] = "over"
           /\ m.event # "started" =>
                t \in ongoing /\ evseOf[t] = at[t] /\ current[at[t]] = t
           /\ \A i \in DOMAIN reports', u \in Trans :
                Is(i, u)' /\ at[u] = at[t] => t <= u /\ (reports'[i].event = "started" => t < u)
           /\ m.event = "ended" => \A i \in DOMAIN reports' : ~Is(i, t)'
           /\ ~StartQueued(t)'
<1>1. 1 \in DOMAIN reports /\ m = reports[1] /\ Is(1, t)
  BY DEF Taking, Is
<1>2. RightReport(1, t)
  BY <1>1 DEF OrderlyInv, ReportsInv
<1>3. at[t] \in known
  <2>1. 1 .. 1 - 1 = {}
    OBVIOUS
  <2> QED BY <1>2, <2>1 DEF RightReport
<1>4. /\ phase[t] # "new" /\ Open(t) /\ ~m.token
      /\ m.evse \in {at[t], Nothing} /\ (m.event = "started" => m.evse = at[t])
      /\ m.event = "ended" => phase[t] = "over"
  BY <1>1, <1>2 DEF RightReport
<1>5. ASSUME NEW i \in DOMAIN reports, NEW u \in Trans, 1 < i, Is(i, u), at[u] = at[t]
      PROVE  /\ t <= u
             /\ m.event = "ended" \/ reports[i].event = "started" => t < u
  BY <1>1, <1>5 DEF OrderlyInv, InOrder
<1>6. \A u \in Trans : u \in Nat
  BY DEF Trans
<1>7. m.event # "started" => t \in ongoing /\ evseOf[t] = at[t] /\ current[at[t]] = t
  <2> SUFFICES ASSUME m.event # "started"
               PROVE  t \in ongoing /\ evseOf[t] = at[t] /\ current[at[t]] = t
    OBVIOUS
  <2>1. ~StartQueued(t)
    <3> SUFFICES ASSUME NEW i \in DOMAIN reports, Is(i, t), reports[i].event = "started"
                 PROVE  FALSE
      BY DEF StartQueued
    <3>1. 1 < i
      BY <1>1 DEF Taking
    <3> QED BY <1>5, <1>6, <3>1
  <2>2. t \in ongoing
    BY <1>4, <2>1 DEF OrderlyInv, ViewInv
  <2>3. at[t] \in EVSEs
    BY <1>4 DEF OrderlyInv, PhysicalInv
  <2> QED BY <2>2, <2>3 DEF OrderlyInv, ViewInv
<1>8. ASSUME NEW i \in DOMAIN reports', NEW u \in Trans, Is(i, u)', at[u] = at[t]
      PROVE  /\ t <= u
             /\ m.event = "ended" \/ reports'[i].event = "started" => t < u
  <2>1. PICK k \in DOMAIN reports : 1 < k /\ Is(k, u) /\ reports'[i] = reports[k]
    BY <1>8, Shifted
  <2> QED BY <1>5, <1>8, <2>1
<1>9. m.event = "ended" => \A i \in DOMAIN reports' : ~Is(i, t)'
  BY <1>6, <1>8
<1>10. ~StartQueued(t)'
  BY <1>6, <1>8 DEF StartQueued
<1>11. ASSUME NEW i \in DOMAIN reports', NEW u \in Trans, Is(i, u)', at[u] = at[t]
       PROVE  t <= u /\ (reports'[i].event = "started" => t < u)
  BY <1>6, <1>8, <1>11
<1> QED BY <1>3, <1>4, <1>7, <1>9, <1>10, <1>11

\* What taking a report does to the parts that are not about the client's view, when the
\* client knows what it knew, and the EVSE of a status notification.
LEMMA TakenInv ==
    ASSUME ClientTypes, OrderlyInv, NEW m \in Incoming, Take, phase' = phase, at' = at,
           known' = IF m.event = "status" THEN known \cup {m.evse} ELSE known
    PROVE  /\ PhysicalInv' /\ ReportsInv' /\ InOrder'
           /\ \A t \in Trans : m.event # "ended" \/ m.tran # t => (Open(t)' <=> Open(t))
           /\ m.event = "ended" => ~Open(m.tran)'
<1>1. Taking(m)
  BY TakeShifts
<1>2. \A i \in DOMAIN reports', t \in Trans :
        Is(i, t)' => /\ i + 1 \in DOMAIN reports /\ Is(i + 1, t) /\ 1 < i + 1
                     /\ reports'[i] = reports[i + 1]
  BY <1>1, Shifted
<1>3. PhysicalInv /\ ReportsInv /\ InOrder
  BY DEF OrderlyInv
<1>4. \A t \in Trans : m.event # "ended" \/ m.tran # t => (Open(t)' <=> Open(t))
  BY <1>1, Shifted DEF Open
<1>5. m.event = "ended" => ~Open(m.tran)'
  <2> SUFFICES ASSUME m.event = "ended" PROVE ~Open(m.tran)'
    OBVIOUS
  <2>1. PICK t \in Trans : t = m.tran
    BY TakeTypes
  <2>2. phase[t] = "over" /\ \A i \in DOMAIN reports' : ~Is(i, t)'
    BY <1>1, <2>1, FirstReport
  <2>3. ~EndQueued(t)' /\ phase'[t] # "running"
    BY <2>2 DEF EndQueued
  <2>4. m' = m
    OBVIOUS
  <2> QED BY <2>1, <2>3 DEF Open, EndQueued, Is
<1>6. \A x \in EVSEs : Told(x) => Told(x)'
  <2> SUFFICES ASSUME NEW x \in EVSEs, Told(x), x \notin known' PROVE Told(x)'
    BY DEF Told
  <2>1. PICK i \in DOMAIN reports : reports[i].event = "status" /\ reports[i].evse = x
    BY DEF Told
  <2>2. i # 1
    BY <1>1, <2>1 DEF Taking
  <2>3. PICK k \in DOMAIN reports' : reports'[k] = reports[i]
    BY <1>1, <2>2 DEF Taking
  <2> QED BY <2>1, <2>3 DEF Told
<1>7. PhysicalInv'
  <2>1. ASSUME NEW t \in Trans, phase'[t] # "new" PROVE at'[t] \in EVSEs /\ Told(at[t])'
    <3>1. PICK x \in EVSEs : x = at[t] /\ Told(x)
      BY <1>3, <2>1 DEF PhysicalInv
    <3>2. Told(x)' /\ at'[t] = x
      BY <1>6, <3>1
    <3> QED BY <3>1, <3>2 DEF Told
  <2> QED BY <1>3, <2>1 DEF PhysicalInv, Told
<1>8. InOrder'
  <2> SUFFICES ASSUME NEW i \in DOMAIN reports', NEW j \in DOMAIN reports',
                      NEW u \in Trans, NEW v \in Trans,
                      i < j, Is(i, u)', Is(j, v)', at'[u] = at'[v]
               PROVE  /\ u <= v
                      /\ reports'[i].event = "ended" \/ reports'[j].event = "started" => u < v
    BY DEF InOrder
  <2>1. PICK k \in DOMAIN reports : k = i + 1 /\ Is(k, u) /\ reports'[i] = reports[k]
    BY <1>2
  <2>2. PICK l \in DOMAIN reports : l = j + 1 /\ Is(l, v) /\ reports'[j] = reports[l]
    BY <1>2
  <2>3. k < l
    BY <1>1, <2>1, <2>2 DEF Taking
  <2> QED BY <1>3, <2>1, <2>2, <2>3 DEF InOrder
<1>9. ReportsInv'
  <2> SUFFICES ASSUME NEW i \in DOMAIN reports', NEW t \in Trans, Is(i, t)'
               PROVE  RightReport(i, t)'
    BY DEF ReportsInv
  <2>1. PICK k \in DOMAIN reports : k = i + 1 /\ 1 < k /\ Is(k, t) /\ reports'[i] = reports[k]
    BY <1>2
  <2>2. RightReport(k, t)
    BY <1>3, <2>1 DEF ReportsInv
  <2>3. Open(t)'
    <3>1. m.event # "ended" \/ m.tran # t
      BY <1>1, FirstReport
    <3> QED BY <1>4, <2>2, <3>1 DEF RightReport
  <2>4. \/ at'[t] \in known'
        \/ \E j \in 1 .. i - 1 : reports'[j].event = "status" /\ reports'[j].evse = at'[t]
    <3> SUFFICES ASSUME at[t] \notin known'
                 PROVE  \E j \in 1 .. i - 1 : reports'[j].event = "status" /\ reports'[j].evse = at[t]
      OBVIOUS
    <3>1. PICK j \in 1 .. k - 1 : reports[j].event = "status" /\ reports[j].evse = at[t]
      BY <2>2 DEF RightReport
    <3>2. j # 1
      BY <1>1, <3>1 DEF Taking
    <3>3. j \in DOMAIN reports
      <4>1. reports \in Seq(Report)
        BY TypesByParts DEF Parts, ReportTypes
      <4>2. Len(reports) \in Nat /\ DOMAIN reports = 1 .. Len(reports)
        BY <4>1
      <4> QED BY <2>1, <3>1, <4>2
    <3>4. reports'[j - 1] = reports[j]
      BY <1>1, <3>2, <3>3 DEF Taking
    <3>5. j - 1 \in 1 .. i - 1
      BY <1>1, <2>1, <3>1, <3>2 DEF Taking
    <3> QED BY <3>1, <3>4, <3>5
  <2> QED BY <2>1, <2>2, <2>3, <2>4 DEF RightReport
<1> QED BY <1>4, <1>5, <1>7, <1>8, <1>9

\* The EVSEs are known that were reported.
LEMMA TakeStatusInv ==
    ASSUME ClientTypes, OrderlyInv, TakeStatus
    PROVE  OrderlyInv'
<1>1. PICK m \in Incoming : /\ Take /\ m.event = "status" /\ known' = known \cup {m.evse}
                            /\ UNCHANGED <<Taken, ongoing, current, evseOf>>
  BY DEF TakeStatus
<1>2. /\ phase' = phase /\ at' = at
      /\ ongoing' = ongoing /\ current' = current /\ evseOf' = evseOf
  BY <1>1 DEF Taken, physical
<1>3. PhysicalInv' /\ ReportsInv' /\ InOrder' /\ \A t \in Trans : Open(t)' <=> Open(t)
  BY <1>1, <1>2, TakenInv
<1>4. Taking(m)
  BY <1>1, TakeShifts
<1>5. /\ \A t \in Trans : StartQueued(t)' <=> StartQueued(t)
      /\ \A i \in DOMAIN reports', t \in Trans :
           Is(i, t)' => i + 1 \in DOMAIN reports /\ Is(i + 1, t)
  BY <1>1, <1>4, Shifted
<1>6. \A t \in Trans : (\A i \in DOMAIN reports : ~Is(i, t)) => \A i \in DOMAIN reports' : ~Is(i, t)'
  BY <1>5
<1>7. ViewInv'
  BY <1>1, <1>2, <1>3, <1>5, <1>6 DEF OrderlyInv, ViewInv
<1> QED BY <1>3, <1>7 DEF OrderlyInv

\* After the first event of a transaction the client has it where it runs.
LEMMA TakeEventInv ==
    ASSUME ClientTypes, OrderlyInv, TakeEvent
    PROVE  OrderlyInv'
<1>1. PICK m \in Incoming :
        /\ Take /\ m.event \in {"started", "updated"}
        /\ ongoing' = ongoing \cup {m.tran}
        /\ IF m.evse = Nothing THEN UNCHANGED <<current, evseOf>>
           ELSE /\ evseOf' = [evseOf EXCEPT ![m.tran] = m.evse]
                /\ current' = [current EXCEPT ![m.evse] = m.tran]
        /\ UNCHANGED <<Taken, known>>
  BY DEF TakeEvent
<1>2. phase' = phase /\ at' = at /\ known' = known
  BY <1>1 DEF Taken, physical
<1>3. PhysicalInv' /\ ReportsInv' /\ InOrder' /\ \A u \in Trans : Open(u)' <=> Open(u)
  BY <1>1, <1>2, TakenInv
<1>4. Taking(m)
  BY <1>1, TakeShifts
<1>5. PICK t \in Trans : t = m.tran
  BY <1>1, TakeTypes
<1>6. /\ phase[t] # "new" /\ Open(t) /\ at[t] \in known
      /\ m.evse \in {at[t], Nothing} /\ (m.event = "started" => m.evse = at[t])
      /\ m.event # "started" =>
           t \in ongoing /\ evseOf[t] = at[t] /\ current[at[t]] = t
      /\ ~StartQueued(t)'
  BY <1>4, <1>5, FirstReport
<1>7. \A i \in DOMAIN reports', u \in Trans : Is(i, u)' /\ at[u] = at[t] => t <= u
  BY <1>4, <1>5, FirstReport
<1>8. /\ \A u \in Trans : u # t => (StartQueued(u)' <=> StartQueued(u))
      /\ \A i \in DOMAIN reports', u \in Trans :
           Is(i, u)' => i + 1 \in DOMAIN reports /\ Is(i + 1, u)
  BY <1>4, <1>5, Shifted
<1>9. /\ current \in [EVSEs -> Trans \cup {Nothing}] /\ evseOf \in [Trans -> EVSEs \cup {Nothing}]
      /\ ongoing \subseteq Trans /\ known \subseteq EVSEs
      /\ \A u \in Trans : u \in Nat /\ phase[u] \in {"new", "running", "over"}
  BY TypesByParts DEF Parts, ViewTypes, StationTypes, Trans
<1>10. at[t] \in EVSEs /\ at[t] # Nothing
  BY <1>6, <1>9, NothingAssumption
<1>11. ViewInv /\ PhysicalInv
  BY DEF OrderlyInv
\* Whichever kind of event it is, the view of t is this.
<1>12. /\ ongoing' = ongoing \cup {t}
       /\ evseOf'[t] = at[t] /\ (\A u \in Trans : u # t => evseOf'[u] = evseOf[u])
       /\ current'[at[t]] = t /\ (\A x \in EVSEs : x # at[t] => current'[x] = current[x])
  <2>1. CASE m.evse = Nothing
    BY <1>1, <1>5, <1>6, <1>10, <2>1
  <2>2. CASE m.evse # Nothing
    <3>1. m.evse = at[t]
      BY <1>6, <2>2
    <3>2. /\ evseOf' = [evseOf EXCEPT ![t] = at[t]]
          /\ current' = [current EXCEPT ![at[t]] = t]
      BY <1>1, <1>5, <2>2, <3>1
    <3> QED BY <1>1, <1>5, <1>9, <1>10, <3>2
  <2> QED BY <2>1, <2>2
\* No other transaction of that EVSE is open for the client.
<1>13. \A u \in ongoing : at[u] = at[t] => u = t
  <2> SUFFICES ASSUME NEW u \in ongoing, at[u] = at[t], u # t PROVE FALSE
    OBVIOUS
  <2>1. u \in Trans /\ Open(u) /\ t \notin ongoing
    <3>1. u \in Trans /\ Open(u)
      BY <1>9, <1>11 DEF ViewInv
    <3>2. t \in ongoing => current[at[t]] = t /\ current[at[t]] = u
      BY <1>10, <1>11, <3>1 DEF ViewInv
    <3> QED BY <3>1, <3>2
  <2>2. 1 \in DOMAIN reports /\ Is(1, t)
    BY <1>4, <1>5 DEF Taking, Is
  <2>3. CASE u < t
    <3>1. phase[u] = "over"
      BY <1>6, <1>11, <2>1, <2>3 DEF PhysicalInv
    <3>2. PICK i \in DOMAIN reports : Is(i, u) /\ reports[i].event = "ended"
      BY <2>1, <3>1 DEF Open, EndQueued
    <3>3. PICK k \in DOMAIN reports' : Is(k, u)'
      <4>1. i # 1
        BY <2>2, <3>2 DEF Is
      <4> QED BY <1>4, <2>1, <3>2, <4>1, Shifted
    <3>4. t <= u
      BY <1>7, <2>1, <3>3
    <3> QED BY <1>9, <2>1, <2>3, <3>4
  <2>4. CASE t < u
    BY <1>11, <2>2, <2>4 DEF ViewInv
  <2> QED BY <1>9, <2>1, <2>3, <2>4
<1>14. ViewInv'
  <2>1. ASSUME NEW u \in Trans PROVE u \in ongoing' <=> Open(u)' /\ ~StartQueued(u)'
    BY <1>3, <1>6, <1>8, <1>11, <1>12 DEF ViewInv
  <2>2. ASSUME NEW u \in ongoing' PROVE evseOf'[u] = at'[u] /\ at'[u] \in known'
    BY <1>2, <1>6, <1>9, <1>11, <1>12, <2>2 DEF ViewInv
  <2>3. ASSUME NEW x \in EVSEs, NEW u \in Trans
        PROVE  current'[x] = u <=> u \in ongoing' /\ at'[u] = x
    <3>1. CASE x # at[t]
      BY <1>2, <1>11, <1>12, <3>1 DEF ViewInv
    <3>2. CASE x = at[t]
      BY <1>2, <1>12, <1>13, <3>2
    <3> QED BY <3>1, <3>2
  <2>4. ASSUME NEW u \in Trans, NEW v \in ongoing', u < v, at'[u] = at'[v],
               NEW i \in DOMAIN reports', Is(i, u)'
        PROVE  FALSE
    <3>1. CASE v = t
      <4>1. t <= u
        BY <1>2, <1>7, <2>4, <3>1
      <4> QED BY <1>9, <2>4, <3>1, <4>1
    <3>2. CASE v # t
      <4>1. v \in ongoing
        BY <1>12, <2>4, <3>2
      <4> QED BY <1>2, <1>8, <1>11, <2>4, <4>1 DEF ViewInv
    <3> QED BY <3>1, <3>2
  <2> QED BY <2>1, <2>2, <2>3, <2>4 DEF ViewInv
<1> QED BY <1>3, <1>14 DEF OrderlyInv

\* After the last event its EVSE is free.
LEMMA TakeEndedInv ==
    ASSUME ClientTypes, OrderlyInv, TakeEnded
    PROVE  OrderlyInv'
<1>1. PICK m \in Incoming :
        /\ Take /\ m.event = "ended"
        /\ ongoing' = ongoing \ {m.tran}
        /\ evseOf' = [evseOf EXCEPT ![m.tran] = Nothing]
        /\ current' = [current EXCEPT ![Place(m)] = Nothing]
        /\ UNCHANGED <<Taken, known>>
  BY DEF TakeEnded
<1>2. phase' = phase /\ at' = at /\ known' = known
  BY <1>1 DEF Taken, physical
<1>3. /\ PhysicalInv' /\ ReportsInv' /\ InOrder'
      /\ \A u \in Trans : m.tran # u => (Open(u)' <=> Open(u))
      /\ ~Open(m.tran)'
  BY <1>1, <1>2, TakenInv
<1>4. Taking(m)
  BY <1>1, TakeShifts
<1>5. PICK t \in Trans : t = m.tran
  BY <1>1, TakeTypes
<1>6. /\ at[t] \in known /\ m.evse \in {at[t], Nothing}
      /\ t \in ongoing /\ evseOf[t] = at[t] /\ current[at[t]] = t
  BY <1>1, <1>4, <1>5, FirstReport
<1>7. /\ \A u \in Trans : StartQueued(u)' <=> StartQueued(u)
      /\ \A i \in DOMAIN reports', u \in Trans :
           Is(i, u)' => i + 1 \in DOMAIN reports /\ Is(i + 1, u)
  BY <1>1, <1>4, Shifted
<1>8. /\ current \in [EVSEs -> Trans \cup {Nothing}] /\ evseOf \in [Trans -> EVSEs \cup {Nothing}]
      /\ ongoing \subseteq Trans /\ known \subseteq EVSEs
  BY TypesByParts DEF Parts, ViewTypes
<1>9. at[t] \in EVSEs /\ Nothing \notin Trans
  BY <1>6, <1>8, NothingAssumption
<1>10. Place(m) = at[t]
  BY <1>5, <1>6 DEF Place
<1>11. /\ \A u \in Trans : u # t => evseOf'[u] = evseOf[u]
       /\ current'[at[t]] = Nothing /\ (\A x \in EVSEs : x # at[t] => current'[x] = current[x])
       /\ ongoing' = ongoing \ {t}
  <2>1. evseOf' = [evseOf EXCEPT ![t] = Nothing] /\ current' = [current EXCEPT ![at[t]] = Nothing]
    BY <1>1, <1>5, <1>10
  <2> QED BY <1>1, <1>5, <1>8, <1>9, <2>1
<1>12. ViewInv
  BY DEF OrderlyInv
<1>13. ~Open(t)'
  <2>1. PICK x : x = m
    OBVIOUS
  <2> QED BY <1>3, <1>5 DEF Open, EndQueued, Is
<1>14. ViewInv'
  <2>1. ASSUME NEW u \in Trans PROVE u \in ongoing' <=> Open(u)' /\ ~StartQueued(u)'
    BY <1>3, <1>5, <1>7, <1>11, <1>12, <1>13 DEF ViewInv
  <2>2. ASSUME NEW u \in ongoing' PROVE evseOf'[u] = at'[u] /\ at'[u] \in known'
    BY <1>2, <1>8, <1>11, <1>12, <2>2 DEF ViewInv
  <2>3. ASSUME NEW x \in EVSEs, NEW u \in Trans
        PROVE  current'[x] = u <=> u \in ongoing' /\ at'[u] = x
    <3>1. CASE x # at[t]
      BY <1>2, <1>11, <1>12, <3>1 DEF ViewInv
    <3>2. CASE x = at[t]
      <4>1. u \in ongoing /\ at[u] = x => u = t
        BY <1>6, <1>12, <3>2 DEF ViewInv
      <4> QED BY <1>2, <1>9, <1>11, <3>2, <4>1
    <3> QED BY <3>1, <3>2
  <2>4. ASSUME NEW u \in Trans, NEW v \in ongoing', u < v, at'[u] = at'[v],
               NEW i \in DOMAIN reports', Is(i, u)'
        PROVE  FALSE
    <3>1. v \in ongoing
      BY <1>11, <2>4
    <3> QED BY <1>2, <1>7, <1>12, <2>4, <3>1 DEF ViewInv
  <2> QED BY <2>1, <2>2, <2>3, <2>4 DEF ViewInv
<1> QED BY <1>3, <1>14 DEF OrderlyInv

\* No event of an orderly decision point raises.
LEMMA NeverRaises ==
    ASSUME ClientTypes, OrderlyInv, TakeRaises
    PROVE  FALSE
<1>1. PICK m \in Incoming :
        /\ Take /\ m.event # "status"
        /\ \/ m.token \/ m.evse \notin known \cup {Nothing}
           \/ m.event = "ended" /\ m.evse = Nothing /\ Place(m) \notin known
  BY DEF TakeRaises
<1>2. Taking(m)
  BY <1>1, TakeShifts
<1>3. PICK t \in Trans : t = m.tran
  BY <1>1, TakeTypes
<1>4. /\ ~m.token /\ at[t] \in known /\ m.evse \in {at[t], Nothing}
      /\ m.event # "started" => t \in ongoing /\ evseOf[t] = at[t]
  BY <1>2, <1>3, FirstReport
<1>5. m.event = "ended" /\ m.evse = Nothing => Place(m) = at[t]
  BY <1>3, <1>4 DEF Place
<1> QED BY <1>1, <1>4, <1>5

\* The initial state.
LEMMA InitClientInv == ClientInit => ClientInv
<1> SUFFICES ASSUME ClientInit PROVE OrderlyInv
  BY InitClientTypes DEF ClientInv
<1>1. DOMAIN reports = {} /\ ongoing = {}
  BY DEF ClientInit
<1>2. \A t \in Trans : phase[t] = "new" /\ ~Open(t)
  BY <1>1 DEF ClientInit, Open, EndQueued
<1>3. \A e \in EVSEs, t \in Trans : current[e] # t
  BY NothingAssumption DEF ClientInit
<1> QED BY <1>1, <1>2, <1>3 DEF OrderlyInv, PhysicalInv, ReportsInv, InOrder, ViewInv

\* What a step does: something at the station, a report taken, a restart, or nothing to the
\* client's view of the station.
LEMMA Steps ==
    ASSUME ClientNext
    PROVE  \/ \E e \in EVSEs : Announce(e) \/ \E t \in Trans : Start(t, e)
           \/ \E t \in Trans : Update(t) \/ End(t)
           \/ TakeStatus \/ TakeEvent \/ TakeEnded \/ TakeRaises
           \/ restarted'
           \/ UNCHANGED StationView
<1> USE DEF StationView, physical, evses
<1>1. StopWaiting \/ Decide \/ Transmit \/ CallFails => UNCHANGED StationView
  BY DEF StopWaiting, Decide, Transmit, CallFails
<1>2. Boot \/ Reconnect \/ Disconnect => UNCHANGED StationView
  BY DEF Boot, Reconnect, Disconnect
<1>3. Read \/ StopAsking => UNCHANGED StationView
  BY DEF Read, ReadAnswer, AnswerAtOnce, AskPoint, StopAsking
<1>4. (\E r \in Requests : Request(r)) => UNCHANGED StationView
  BY DEF Request
<1>5. RestartClient => restarted'
  BY DEF RestartClient
<1> QED BY <1>1, <1>2, <1>3, <1>4, <1>5, Zenon DEF ClientNext

\* A decision point does not change its ways, and a restart stays one.
LEMMA PointStays ==
    ASSUME [ClientNext]_client
    PROVE  orderly' = orderly /\ (restarted => restarted')
<1> USE DEF point, connection
<1>1. ASSUME NEW e \in EVSEs, NEW t \in Trans, Start(t, e)
      PROVE  orderly' = orderly /\ restarted' = restarted
  BY <1>1 DEF Start, Send
<1>2. ASSUME NEW e \in EVSEs, Announce(e) PROVE orderly' = orderly /\ restarted' = restarted
  BY <1>2 DEF Announce, Send
<1>3. ASSUME NEW t \in Trans, Update(t) \/ End(t)
      PROVE  orderly' = orderly /\ restarted' = restarted
  BY <1>3 DEF Update, End, Send
<1>4. TakeStatus \/ TakeEvent \/ TakeEnded \/ TakeRaises
        => orderly' = orderly /\ restarted' = restarted
  BY DEF TakeStatus, TakeEvent, TakeEnded, TakeRaises, Taken
<1>5. ASSUME \/ StopWaiting \/ Decide \/ Transmit \/ CallFails \/ Boot \/ Reconnect
             \/ Disconnect \/ Read \/ StopAsking \/ \E r \in Requests : Request(r)
      PROVE  orderly' = orderly /\ restarted' = restarted
  BY <1>5 DEF StopWaiting, Decide, Transmit, CallFails, Boot, Reconnect, Disconnect, Read,
              ReadAnswer, AnswerAtOnce, AskPoint, StopAsking, Request
<1>6. RestartClient => orderly' = orderly /\ restarted'
  BY DEF RestartClient
<1>7. UNCHANGED client => orderly' = orderly /\ restarted' = restarted
  BY DEF client
<1> QED BY <1>1, <1>2, <1>3, <1>4, <1>5, <1>6, <1>7 DEF ClientNext

\* Every step keeps the invariant.
LEMMA NextClientInv == ClientInv /\ [ClientNext]_client => ClientInv'
<1> SUFFICES ASSUME ClientInv, [ClientNext]_client, orderly', ~restarted' PROVE OrderlyInv'
  BY NextClientTypes DEF ClientInv
<1>1. ClientTypes /\ orderly /\ OrderlyInv
  BY PointStays DEF ClientInv
<1>2. CASE UNCHANGED client
  <2>1. UNCHANGED StationView
    BY <1>2 DEF client, physical, evses, StationView
  <2> QED BY <1>1, <2>1, SameView
<1>3. CASE ClientNext
  BY <1>1, <1>3, Steps, PointInv, TakeStatusInv, TakeEventInv, TakeEndedInv, NeverRaises, SameView,
     Zenon
<1> QED BY <1>2, <1>3

\* The client's ongoing transactions, and those it has at the EVSEs, are the ones that run,
\* when no report of the EVSE is on its way (charge_station.py:168-209).
THEOREM ClientKnowsStation == ClientSpec => []KnowsStation
<1>1. ClientInv => KnowsStation
  <2> SUFFICES ASSUME ClientTypes, OrderlyInv, NEW e \in EVSEs,
                      \A i \in DOMAIN reports : reports[i].tran = Nothing \/ at[reports[i].tran] # e
               PROVE  /\ {current[e]} \ {Nothing} = Running(e)
                      /\ {t \in ongoing : at[t] = e} = Running(e)
    BY DEF ClientInv, KnowsStation
  <2>1. /\ current[e] \in Trans \cup {Nothing} /\ ongoing \subseteq Trans
    BY TypesByParts DEF Parts, ViewTypes
  <2>2. \A t \in Trans : at[t] = e => ~StartQueued(t) /\ ~EndQueued(t)
    BY NothingAssumption DEF StartQueued, EndQueued, Is
  <2>3. \A t \in Trans : at[t] = e => (t \in ongoing <=> phase[t] = "running")
    BY <2>2 DEF OrderlyInv, ViewInv, Open
  <2>4. \A t \in Trans : current[e] = t <=> t \in Running(e)
    BY <2>3 DEF OrderlyInv, ViewInv, Running
  <2>5. {current[e]} \ {Nothing} = Running(e)
    BY <2>1, <2>4, NothingAssumption DEF Running
  <2>6. {t \in ongoing : at[t] = e} = Running(e)
    BY <2>1, <2>3 DEF Running
  <2> QED BY <2>5, <2>6
<1> QED BY <1>1, InitClientInv, NextClientInv, PTL DEF ClientSpec

\* The handler of a transaction event does not raise for a decision point that tells of an
\* EVSE before its transactions, while the client is not restarted: the EVSE is in
\* known_evses, and an ended event finds its transaction (charge_station.py:164-206).
THEOREM OrderlyEventsAreTaken == ClientSpec => [][orderly /\ ~restarted => ~TakeRaises]_client
<1>1. ClientInv /\ [ClientNext]_client => [orderly /\ ~restarted => ~TakeRaises]_client
  BY NeverRaises DEF ClientInv
<1> QED BY <1>1, InitClientInv, NextClientInv, PTL DEF ClientSpec
====================================================================================
