------------------------------ MODULE RequestProofs ------------------------------
(***************************************************************************)
(* Requests of the CSMS that take several messages, for any tokens, rows,   *)
(* updates and limits, and any requests, ids and numbers of reports.        *)
(* LocalList: the driver gets an authorization of the CSMS for a token that *)
(* was valid only, and the station's list, while updates do not overlap,    *)
(* goes forward and is what was sent of the latest full update.             *)
(* PendingRequests: a request with an id of its own returns its reports,    *)
(* the last message ends its wait, and a handler raises only when nobody    *)
(* waits for its message.                                                   *)
(***************************************************************************)
EXTENDS LocalList, PendingRequests, SequenceTheorems, FiniteSetTheorems, TLAPS

(***************************************************************************)
(* Authorization lists, sent in several messages, and authorizations.       *)
(***************************************************************************)

-------------------------------------------------------------------------------
(* Lists of entries.                                                       *)

\* A part of a list of entries.
LEMMA Part ==
    ASSUME NEW s \in Seq(Entry), NEW m \in Nat \ {0}, NEW n \in Nat, n <= Len(s)
    PROVE  /\ SubSeq(s, m, n) \in Seq(Entry)
           /\ Len(SubSeq(s, m, n)) = IF m <= n THEN n - m + 1 ELSE 0
<1>1. m \in Int /\ n \in Int /\ \A i \in m .. n : s[i] \in Entry
  OBVIOUS
<1> QED BY <1>1, SubSeqProperties

\* The entries of the rows that are there, in some order.
LEMMA Rows ==
    ASSUME NEW p \in SUBSET Tokens, p # {}, NEW l \in Bijection(1 .. Cardinality(p), p),
           NEW f, \A t \in p : f[t] \in Row \ {"absent"}
    PROVE  /\ [i \in DOMAIN l |-> [token |-> l[i], status |-> f[l[i]]]] \in Seq(Entry)
           /\ [i \in DOMAIN l |-> [token |-> l[i], status |-> f[l[i]]]] # <<>>
<1> DEFINE s == [i \in DOMAIN l |-> [token |-> l[i], status |-> f[l[i]]]]
<1>1. IsFiniteSet(p)
  BY TokensAssumption, FS_Subset
<1>2. Cardinality(p) \in Nat \ {0}
  BY <1>1, FS_CardinalityType, FS_EmptySet
<1>3. l \in [1 .. Cardinality(p) -> p]
  BY DEF Bijection, Injection, Surjection
<1>4. \A i \in 1 .. Cardinality(p) : [token |-> l[i], status |-> f[l[i]]] \in Entry
  BY <1>3 DEF Entry, Row, Status
<1>5. s \in [1 .. Cardinality(p) -> Entry]
  BY <1>3, <1>4
<1>6. s \in Seq(Entry) /\ Len(s) = Cardinality(p)
  BY <1>2, <1>5
<1>7. s # <<>>
  BY <1>2, <1>6
<1> QED BY <1>6, <1>7

\* What the CSMS decides of a list is a list of the same length.
LEMMA DecidedList ==
    ASSUME NEW s \in Seq(Entry), NEW lost
    PROVE  /\ [i \in DOMAIN s |-> Decided(s[i], lost)] \in Seq(Entry)
           /\ Len([i \in DOMAIN s |-> Decided(s[i], lost)]) = Len(s)
<1>1. ASSUME NEW e \in Entry PROVE Decided(e, lost) \in Entry
  BY DEF Decided, Entry, Status
<1>2. Len(s) \in Nat /\ DOMAIN s = 1 .. Len(s) /\ \A i \in 1 .. Len(s) : s[i] \in Entry
  OBVIOUS
<1>3. [i \in DOMAIN s |-> Decided(s[i], lost)] \in [1 .. Len(s) -> Entry]
  BY <1>1, <1>2
<1> QED BY <1>2, <1>3

\* The list of the station after a message.
LEMMA InstalledList ==
    ASSUME listed \in [Tokens -> Status], NEW msg \in Seq(Entry), NEW k
    PROVE  Installed(msg, k) \in [Tokens -> Status]
<1>1. \A t \in Tokens : Base(k)[t] \in Status
  BY DEF Base, Status
<1>2. \A i \in DOMAIN msg : msg[i] \in Entry
  OBVIOUS
<1>3. \A e \in Entry : (IF e.status = "remove" THEN "none" ELSE e.status) \in Status
  BY DEF Entry, Status
<1> QED BY <1>1, <1>2, <1>3 DEF Installed

-------------------------------------------------------------------------------
(* The invariant.                                                          *)

\* The CSMS says yes to a token only if it had it valid during the request.
AnswerInv ==
    /\ auth.phase = "asked" =>
        /\ auth.token \in Tokens
        /\ csms[auth.token] = "valid" => auth.valid
        /\ auth.answer = "accepted" => auth.valid
    /\ GrantedWhileValid

\* An update under way has something to send; alone, it has the next version, or the
\* current one once a part of the list was sent.
SendingInv ==
    \A u \in Updates :
        /\ pc[u] = "read" => entries[u] # <<>>
        /\ pc[u] = "sending" =>
            /\ rest[u] # <<>> /\ Len(rest[u]) <= Len(entries[u])
            /\ ~overlapping =>
                ver[u] = version + 1 \/ (ver[u] = version /\ Len(rest[u]) < Len(entries[u]))

\* Updates that do not overlap are under way one at a time.
Alone == ~overlapping => \A u, w \in Updates : InProgress(u) /\ InProgress(w) => u = w

IInv == TypeOK /\ AnswerInv /\ SendingInv /\ Alone

\* The initial state.
LEMMA InitIInv == Init => IInv
<1> SUFFICES ASSUME Init PROVE IInv
  OBVIOUS
<1>1. <<>> \in Seq(Entry)
  OBVIOUS
<1>2. overlapping \in BOOLEAN
  BY Zenon DEF Init
<1>3. auth \in Auth
  BY DEF Init, NoAuth, Auth, Phase, Status
<1>4. full \in [Updates -> BOOLEAN] /\ refused \in [Updates -> BOOLEAN]
  BY DEF Init
<1>5. TypeOK
  BY <1>1, <1>2, <1>3, <1>4 DEF Init, TypeOK, Row, PC, Kinds, Status
<1>6. AnswerInv /\ SendingInv /\ Alone
  BY DEF Init, NoAuth, AnswerInv, GrantedWhileValid, SendingInv, Alone, InProgress
<1> QED BY <1>5, <1>6 DEF IInv

\* What the driver does, and what the operator does to the rows.
LEMMA DriverStep ==
    ASSUME IInv, UNCHANGED <<overlapping, update, station>>,
           csms' \in [Tokens -> Row], changes' \in Nat, auth' \in Auth, AnswerInv'
    PROVE  IInv'
<1>1. TypeOK'
  BY DEF IInv, TypeOK, update, station
<1>2. SendingInv' /\ Alone'
  BY DEF IInv, SendingInv, Alone, InProgress, update, station
<1> QED BY <1>1, <1>2 DEF IInv

\* A row is changed.
LEMMA RowStep == ASSUME IInv, NEW t \in Tokens, ChangeRow(t) PROVE IInv'
<1>1. PICK r \in Row \ {csms[t]} :
        /\ csms' = [csms EXCEPT ![t] = r]
        /\ auth' = [auth EXCEPT !.valid =
                        @ \/ (auth.phase = "asked" /\ auth.token = t /\ r = "valid")]
  BY DEF ChangeRow
<1>2. csms \in [Tokens -> Row] /\ changes \in Nat /\ auth \in Auth
  BY DEF IInv, TypeOK
<1> DEFINE v == auth.valid \/ (auth.phase = "asked" /\ auth.token = t /\ r = "valid")
<1>3. v \in BOOLEAN /\ auth' = [auth EXCEPT !.valid = v]
  BY <1>1, <1>2, Zenon DEF Auth
<1> HIDE DEF v
<1>4. /\ auth' \in Auth /\ auth'.phase = auth.phase /\ auth'.token = auth.token
      /\ auth'.answer = auth.answer /\ auth'.byList = auth.byList /\ auth'.valid = v
  BY <1>2, <1>3 DEF Auth
<1>5. csms' \in [Tokens -> Row] /\ csms'[t] = r /\ \A x \in Tokens : x # t => csms'[x] = csms[x]
  BY <1>1, <1>2
<1>6. (auth.valid => v) /\ (auth.phase = "asked" /\ auth.token = t /\ r = "valid" => v)
  BY DEF v
<1>7. AnswerInv'
  <2>1. ASSUME auth.phase = "asked"
        PROVE  /\ auth.token \in Tokens
               /\ csms'[auth.token] = "valid" => v
               /\ auth.answer = "accepted" => v
    <3>1. CASE auth.token = t
      BY <2>1, <3>1, <1>5, <1>6 DEF IInv, AnswerInv
    <3>2. CASE auth.token # t
      BY <2>1, <3>2, <1>5, <1>6 DEF IInv, AnswerInv
    <3> QED BY <3>1, <3>2
  <2>2. auth.phase = "granted" => v \/ auth.byList
    BY <1>6 DEF IInv, AnswerInv, GrantedWhileValid
  <2> QED BY <1>4, <2>1, <2>2 DEF AnswerInv, GrantedWhileValid
<1>8. changes' \in Nat /\ UNCHANGED <<overlapping, update, station>>
  BY <1>2 DEF ChangeRow
<1> QED BY <1>4, <1>5, <1>7, <1>8, DriverStep

\* A driver asks for an authorization.
LEMMA AskStep == ASSUME IInv, NEW t \in Tokens, Ask(t) PROVE IInv'
<1>1. csms \in [Tokens -> Row] /\ listed \in [Tokens -> Status]
  BY DEF IInv, TypeOK
<1>2. /\ auth' = [token |-> t, phase |-> IF listed[t] # "none" THEN "granted" ELSE "asked",
                  answer |-> IF listed[t] # "none" THEN "accepted" ELSE "none",
                  byList |-> (listed[t] # "none"), valid |-> (csms[t] = "valid")]
      /\ UNCHANGED <<csms, changes, overlapping, update, station>>
  BY DEF Ask, rows
<1>3. (listed[t] # "none") \in BOOLEAN /\ (csms[t] = "valid") \in BOOLEAN
  OBVIOUS
<1>4. /\ auth'.token = t /\ auth'.answer = IF listed[t] # "none" THEN "accepted" ELSE "none"
      /\ auth'.phase = IF listed[t] # "none" THEN "granted" ELSE "asked"
      /\ auth'.byList = (listed[t] # "none") /\ auth'.valid = (csms[t] = "valid")
  BY <1>2
<1>5. auth' \in Auth
  BY <1>1, <1>2, <1>3 DEF Auth, Phase, Status
<1>6. AnswerInv'
  BY <1>2, <1>4 DEF AnswerInv, GrantedWhileValid
<1>7. csms' \in [Tokens -> Row] /\ changes' \in Nat
  BY <1>2 DEF IInv, TypeOK
<1> QED BY <1>2, <1>5, <1>6, <1>7, DriverStep

\* The CSMS reads the row.
LEMMA SelectStep == ASSUME IInv, Select PROVE IInv'
<1>1. PICK s \in CASE csms[auth.token] = "valid" -> {"accepted", "invalid"}
                   [] OTHER -> {"blocked"} : auth' = [auth EXCEPT !.answer = s]
  BY DEF Select
<1>2. s \in Status /\ (s = "accepted" => csms[auth.token] = "valid")
  BY <1>1 DEF Status
<1>3. auth \in Auth
  BY DEF IInv, TypeOK
<1>4. /\ auth' \in Auth /\ auth'.phase = auth.phase /\ auth'.token = auth.token
      /\ auth'.answer = s /\ auth'.byList = auth.byList /\ auth'.valid = auth.valid
  BY <1>1, <1>2, <1>3 DEF Auth
<1>5. UNCHANGED <<csms, changes, overlapping, update, station>>
  BY DEF Select, rows
<1>6. AnswerInv'
  BY <1>2, <1>4, <1>5 DEF Select, IInv, AnswerInv, GrantedWhileValid
<1>7. csms' \in [Tokens -> Row] /\ changes' \in Nat
  BY <1>5 DEF IInv, TypeOK
<1> QED BY <1>4, <1>5, <1>6, <1>7, DriverStep

\* The CSMS answers, or the call fails.
LEMMA AnswerStep == ASSUME IInv, Answer PROVE IInv'
<1>1. auth \in Auth /\ auth.phase = "asked"
  BY DEF IInv, TypeOK, Answer
<1>2. UNCHANGED <<csms, changes, overlapping, update, station>>
  BY DEF Answer, rows
<1>3. auth' \in Auth /\ AnswerInv'
  <2>1. CASE auth.answer = "accepted" /\ auth' = [auth EXCEPT !.phase = "granted"]
    <3>1. auth' \in Auth /\ auth'.phase = "granted" /\ auth'.valid = auth.valid
      BY <1>1, <2>1 DEF Auth, Phase
    <3>2. auth.valid
      BY <1>1, <2>1 DEF IInv, AnswerInv
    <3> QED BY <3>1, <3>2 DEF AnswerInv, GrantedWhileValid
  <2>2. CASE auth' = NoAuth
    BY <2>2 DEF NoAuth, Auth, Phase, Status, AnswerInv, GrantedWhileValid
  <2> QED BY <2>1, <2>2 DEF Answer
<1>4. csms' \in [Tokens -> Row] /\ changes' \in Nat
  BY <1>2 DEF IInv, TypeOK
<1> QED BY <1>2, <1>3, <1>4, DriverStep

-------------------------------------------------------------------------------
(* The steps of an update.                                                 *)

\* What an update's steps leave alone.
LEMMA AnswerKept ==
    ASSUME AnswerInv, UNCHANGED <<csms, auth>> PROVE AnswerInv'
  BY DEF AnswerInv, GrantedWhileValid

\* An update fails.
LEMMA FailStep ==
    ASSUME IInv, NEW u \in Updates, Fail(u), UNCHANGED <<rows, overlapping, station, auth>>
    PROVE  IInv'
<1>1. /\ pc' = [pc EXCEPT ![u] = "failed"] /\ limit' = [limit EXCEPT ![u] = 0]
      /\ UNCHANGED <<kind, entries, rest, ver, full, refused>>
      /\ UNCHANGED <<csms, changes, overlapping, listed, version, auth>>
  BY DEF Fail, rows, station
<1>2. pc \in [Updates -> PC] /\ limit \in [Updates -> Nat]
  BY DEF IInv, TypeOK
<1>3. /\ pc' \in [Updates -> PC] /\ limit' \in [Updates -> Nat] /\ pc'[u] = "failed"
      /\ \A w \in Updates : w # u => pc'[w] = pc[w]
  BY <1>1, <1>2 DEF PC
<1>4. TypeOK'
  BY <1>1, <1>3 DEF IInv, TypeOK
<1>5. SendingInv' /\ Alone'
  BY <1>1, <1>3 DEF IInv, SendingInv, Alone, InProgress
<1>6. AnswerInv'
  BY <1>1, AnswerKept DEF IInv
<1> QED BY <1>4, <1>5, <1>6 DEF IInv

\* The rows are read.
LEMMA ReadStep == ASSUME IInv, NEW u \in Updates, Read(u) PROVE IInv'
<1>1. /\ pc[u] = "idle" /\ (overlapping \/ \A w \in Updates : ~InProgress(w))
      /\ UNCHANGED <<rows, overlapping, station, auth>>
  BY DEF Read
<1>2. CASE Fail(u)
  BY <1>1, <1>2, FailStep
<1>3. ASSUME NEW up \in Kinds, NEW l \in Seq(Entry), l # <<>>, Give(u, up, l) PROVE IInv'
  <2>1. /\ pc' = [pc EXCEPT ![u] = "read"] /\ kind' = [kind EXCEPT ![u] = up]
        /\ entries' = [entries EXCEPT ![u] = l] /\ full' = [full EXCEPT ![u] = (up = "full")]
        /\ UNCHANGED <<rest, limit, ver, refused>>
        /\ UNCHANGED <<csms, changes, overlapping, listed, version, auth>>
    BY <1>1, <1>3 DEF Give, rows, station
  <2>2. /\ pc \in [Updates -> PC] /\ kind \in [Updates -> Kinds]
        /\ entries \in [Updates -> Seq(Entry)] /\ full \in [Updates -> BOOLEAN]
    BY DEF IInv, TypeOK
  <2>3. /\ pc' \in [Updates -> PC] /\ kind' \in [Updates -> Kinds]
        /\ pc'[u] = "read" /\ \A w \in Updates : w # u => pc'[w] = pc[w]
    BY <1>3, <2>1, <2>2 DEF PC
  <2>4. /\ entries' \in [Updates -> Seq(Entry)] /\ entries'[u] = l
        /\ \A w \in Updates : w # u => entries'[w] = entries[w]
    BY <1>3, <2>1, <2>2
  <2>5. full' \in [Updates -> BOOLEAN]
    BY <2>1, <2>2
  <2>6. TypeOK'
    BY <2>1, <2>3, <2>4, <2>5 DEF IInv, TypeOK
  <2>7. SendingInv'
    <3> SUFFICES ASSUME NEW w \in Updates
                 PROVE  /\ pc'[w] = "read" => entries'[w] # <<>>
                        /\ pc'[w] = "sending" =>
                            /\ rest'[w] # <<>> /\ Len(rest'[w]) <= Len(entries'[w])
                            /\ ~overlapping' => \/ ver'[w] = version' + 1
                                                \/ ver'[w] = version' /\ Len(rest'[w]) < Len(entries'[w])
      BY DEF SendingInv
    <3>1. CASE w = u
      BY <1>3, <2>3, <2>4, <3>1
    <3>2. CASE w # u
      BY <2>1, <2>3, <2>4, <3>2 DEF IInv, SendingInv
    <3> QED BY <3>1, <3>2
  <2>8. Alone'
    BY <1>1, <2>1, <2>3 DEF Alone, InProgress
  <2>9. AnswerInv'
    BY <2>1, AnswerKept DEF IInv
  <2> QED BY <2>6, <2>7, <2>8, <2>9 DEF IInv
<1> DEFINE present == {t \in Tokens : csms[t] # "absent"}
<1>4. csms \in [Tokens -> Row]
  BY DEF IInv, TypeOK
<1>5. ASSUME present # {}, NEW l \in Bijection(1 .. Cardinality(present), present),
             Give(u, "full", [i \in DOMAIN l |-> [token |-> l[i], status |-> csms[l[i]]]])
      PROVE  IInv'
  <2>1. present \in SUBSET Tokens /\ \A t \in present : csms[t] \in Row \ {"absent"}
    BY <1>4
  <2> HIDE DEF present
  <2> DEFINE s == [i \in DOMAIN l |-> [token |-> l[i], status |-> csms[l[i]]]]
  <2>2. s \in Seq(Entry) /\ s # <<>>
    BY <1>5, <2>1, Rows
  <2>3. "full" \in Kinds /\ Give(u, "full", s)
    BY <1>5 DEF Kinds
  <2> HIDE DEF s
  <2> QED BY <1>3, <2>2, <2>3
<1>6. ASSUME NEW t \in Tokens, NEW st \in {csms[t], "remove"}, csms[t] # "absent",
             Give(u, "differential", <<[token |-> t, status |-> st]>>)
      PROVE  IInv'
  <2>1. [token |-> t, status |-> st] \in Entry
    BY <1>4, <1>6 DEF Entry, Row, Status
  <2> DEFINE s == <<[token |-> t, status |-> st]>>
  <2>2. s \in Seq(Entry) /\ s # <<>>
    BY <2>1
  <2>3. "differential" \in Kinds /\ Give(u, "differential", s)
    BY <1>6 DEF Kinds
  <2> HIDE DEF s
  <2> QED BY <1>3, <2>2, <2>3
<1>7. \/ present # {} /\ \E l \in Bijection(1 .. Cardinality(present), present) :
            Give(u, "full", [i \in DOMAIN l |-> [token |-> l[i], status |-> csms[l[i]]]])
      \/ \E t \in Tokens : \E st \in {csms[t], "remove"} :
            csms[t] # "absent" /\ Give(u, "differential", <<[token |-> t, status |-> st]>>)
      \/ Fail(u)
  BY Zenon DEF Read
<1> QED BY <1>2, <1>5, <1>6, <1>7

\* The statuses are decided, the version and the limit are read.
LEMMA PrepareStep == ASSUME IInv, NEW u \in Updates, Prepare(u) PROVE IInv'
<1>1. PICK lost \in {{}, Tokens}, n \in Limits \cup {0} :
        /\ entries' = [entries EXCEPT ![u] = [i \in DOMAIN entries[u] |-> Decided(entries[u][i], lost)]]
        /\ rest' = [rest EXCEPT ![u] = [i \in DOMAIN entries[u] |-> Decided(entries[u][i], lost)]]
        /\ limit' = [limit EXCEPT ![u] = n]
  BY DEF Prepare
<1> DEFINE s == [i \in DOMAIN entries[u] |-> Decided(entries[u][i], lost)]
<1>2. /\ pc[u] = "read" /\ pc' = [pc EXCEPT ![u] = "sending"]
      /\ ver' = [ver EXCEPT ![u] = version + 1]
      /\ UNCHANGED <<kind, full, refused, csms, changes, overlapping, listed, version, auth>>
  BY DEF Prepare, rows, station
<1>3. /\ pc \in [Updates -> PC] /\ ver \in [Updates -> Nat] /\ limit \in [Updates -> Nat]
      /\ entries \in [Updates -> Seq(Entry)] /\ rest \in [Updates -> Seq(Entry)] /\ version \in Nat
  BY DEF IInv, TypeOK
<1>4. entries[u] \in Seq(Entry) /\ entries[u] # <<>>
  BY <1>2, <1>3 DEF IInv, SendingInv
<1>5. s \in Seq(Entry) /\ Len(s) = Len(entries[u])
  BY <1>4, DecidedList
<1>6. s # <<>> /\ entries' = [entries EXCEPT ![u] = s] /\ rest' = [rest EXCEPT ![u] = s]
  BY <1>1, <1>4, <1>5
<1> HIDE DEF s
<1>7. /\ pc' \in [Updates -> PC] /\ pc'[u] = "sending"
      /\ ver' \in [Updates -> Nat] /\ ver'[u] = version + 1
      /\ \A w \in Updates : w # u => pc'[w] = pc[w] /\ ver'[w] = ver[w]
  BY <1>2, <1>3 DEF PC
<1>8. limit' \in [Updates -> Nat]
  BY <1>1, <1>3, LimitsAssumption
<1>9. /\ entries' \in [Updates -> Seq(Entry)] /\ rest' \in [Updates -> Seq(Entry)]
      /\ entries'[u] = s /\ rest'[u] = s
      /\ \A w \in Updates : w # u => entries'[w] = entries[w] /\ rest'[w] = rest[w]
  BY <1>3, <1>5, <1>6
<1>10. TypeOK'
  BY <1>2, <1>7, <1>8, <1>9 DEF IInv, TypeOK
<1>11. SendingInv'
  <2> SUFFICES ASSUME NEW w \in Updates
               PROVE  /\ pc'[w] = "read" => entries'[w] # <<>>
                      /\ pc'[w] = "sending" =>
                          /\ rest'[w] # <<>> /\ Len(rest'[w]) <= Len(entries'[w])
                          /\ ~overlapping' => \/ ver'[w] = version' + 1
                                              \/ ver'[w] = version' /\ Len(rest'[w]) < Len(entries'[w])
    BY DEF SendingInv
  <2>1. CASE w = u
    <3>1. Len(s) \in Nat
      BY <1>5
    <3> QED BY <1>2, <1>6, <1>7, <1>9, <2>1, <3>1
  <2>2. CASE w # u
    BY <1>2, <1>7, <1>9, <2>2 DEF IInv, SendingInv
  <2> QED BY <2>1, <2>2
<1>12. Alone'
  BY <1>2, <1>7 DEF IInv, Alone, InProgress
<1>13. AnswerInv'
  BY <1>2, AnswerKept DEF IInv
<1> QED BY <1>10, <1>11, <1>12, <1>13 DEF IInv

\* What one message does: something of the list is sent, and the version and the list of
\* the station change together or not at all.
LEMMA OneMessage ==
    ASSUME IInv, NEW u \in Updates, Deliver(u)
    PROVE  /\ pc[u] = "sending" /\ pc'[u] \in {"sending", "done", "failed"}
           /\ pc' = [pc EXCEPT ![u] = pc'[u]]
           /\ pc'[u] = "sending" => rest'[u] # <<>>
           /\ rest' \in [Updates -> Seq(Entry)] /\ Len(rest'[u]) < Len(rest[u])
           /\ \A w \in Updates : w # u => rest'[w] = rest[w]
           /\ limit' \in [Updates -> Nat] /\ kind' \in [Updates -> Kinds]
           /\ refused' \in [Updates -> BOOLEAN]
           /\ \/ UNCHANGED <<listed, version>>
              \/ listed' \in [Tokens -> Status] /\ version' = ver[u]
           /\ UNCHANGED <<csms, changes, overlapping, entries, ver, full, auth>>
<1> DEFINE msg == SubSeq(rest[u], 1, Chunk(u))
           left == SubSeq(rest[u], Chunk(u) + 1, Len(rest[u]))
<1>1. /\ pc[u] = "sending"
      /\ rest' = [rest EXCEPT ![u] = left]
      /\ \/ pc' = [pc EXCEPT ![u] = IF left = <<>> THEN "done" ELSE @]
         \/ pc' = [pc EXCEPT ![u] = "failed"]
      /\ limit' = [limit EXCEPT ![u] = IF pc'[u] = "sending" THEN @ ELSE 0]
      /\ IF Refuses(u, msg)
         THEN refused' = [refused EXCEPT ![u] = TRUE] /\ UNCHANGED station
         ELSE listed' = Installed(msg, kind[u]) /\ version' = ver[u] /\ UNCHANGED refused
      /\ kind' = [kind EXCEPT ![u] = "differential"]
      /\ UNCHANGED <<rows, overlapping, entries, ver, full, auth>>
  BY DEF Deliver, Send
<1>2. /\ pc \in [Updates -> PC] /\ kind \in [Updates -> Kinds] /\ rest \in [Updates -> Seq(Entry)]
      /\ limit \in [Updates -> Nat] /\ refused \in [Updates -> BOOLEAN]
      /\ listed \in [Tokens -> Status]
  BY DEF IInv, TypeOK
<1>3. rest[u] \in Seq(Entry) /\ rest[u] # <<>>
  BY <1>1, <1>2 DEF IInv, SendingInv
<1>4. Len(rest[u]) \in Nat \ {0} /\ limit[u] \in Nat
  BY <1>2, <1>3
<1>5. Chunk(u) \in Nat \ {0} /\ Chunk(u) <= Len(rest[u])
  BY <1>4 DEF Chunk
<1>6. msg \in Seq(Entry)
  BY <1>3, <1>5, Part
<1>7. left \in Seq(Entry) /\ Len(left) < Len(rest[u])
  <2>1. Chunk(u) + 1 \in Nat \ {0} /\ Len(rest[u]) \in Nat
    BY <1>4, <1>5
  <2>2. /\ left \in Seq(Entry)
        /\ Len(left) = IF Chunk(u) + 1 <= Len(rest[u]) THEN Len(rest[u]) - (Chunk(u) + 1) + 1 ELSE 0
    BY <1>3, <2>1, Part
  <2> QED BY <1>4, <1>5, <2>2
<1>8. Installed(msg, kind[u]) \in [Tokens -> Status]
  BY <1>2, <1>6, InstalledList
<1> HIDE DEF msg, left
<1>9. rest' \in [Updates -> Seq(Entry)] /\ rest'[u] = left
      /\ \A w \in Updates : w # u => rest'[w] = rest[w]
  BY <1>1, <1>2, <1>7
<1>10. /\ pc'[u] \in {"sending", "done", "failed"} /\ pc' = [pc EXCEPT ![u] = pc'[u]]
       /\ pc'[u] = "sending" => left # <<>>
  BY <1>1, <1>2
<1>11. limit' \in [Updates -> Nat] /\ kind' \in [Updates -> Kinds]
  BY <1>1, <1>2 DEF Kinds
<1>12. refused' \in [Updates -> BOOLEAN]
  BY <1>1, <1>2
<1>13. \/ UNCHANGED <<listed, version>>
       \/ listed' \in [Tokens -> Status] /\ version' = ver[u]
  BY <1>1, <1>8 DEF station
<1>14. UNCHANGED <<csms, changes, overlapping, entries, ver, full, auth>>
  BY <1>1 DEF rows
<1> QED BY <1>1, <1>7, <1>9, <1>10, <1>11, <1>12, <1>13, <1>14

\* A message is sent.
LEMMA DeliverStep == ASSUME IInv, NEW u \in Updates, Deliver(u) PROVE IInv'
<1>1. /\ pc \in [Updates -> PC] /\ ver \in [Updates -> Nat] /\ version \in Nat
      /\ entries \in [Updates -> Seq(Entry)] /\ rest \in [Updates -> Seq(Entry)]
  BY DEF IInv, TypeOK
<1>2. pc' \in [Updates -> PC] /\ \A w \in Updates : w # u => pc'[w] = pc[w]
  BY <1>1, OneMessage DEF PC
<1>3. TypeOK'
  BY <1>1, <1>2, OneMessage DEF IInv, TypeOK
<1>4. pc[u] = "sending" /\ Len(rest[u]) <= Len(entries[u])
  BY OneMessage DEF IInv, SendingInv
<1>5. SendingInv'
  <2> SUFFICES ASSUME NEW w \in Updates
               PROVE  /\ pc'[w] = "read" => entries'[w] # <<>>
                      /\ pc'[w] = "sending" =>
                          /\ rest'[w] # <<>> /\ Len(rest'[w]) <= Len(entries'[w])
                          /\ ~overlapping' => \/ ver'[w] = version' + 1
                                              \/ ver'[w] = version' /\ Len(rest'[w]) < Len(entries'[w])
    BY DEF SendingInv
  <2>1. CASE w = u
    <3>1. /\ pc'[u] # "read" /\ entries' = entries /\ ver' = ver /\ overlapping' = overlapping
          /\ pc'[u] = "sending" => rest'[u] # <<>>
          /\ Len(rest'[u]) < Len(rest[u])
          /\ version' = version \/ version' = ver[u]
      BY OneMessage
    <3>2. Len(rest'[u]) \in Nat /\ Len(rest[u]) \in Nat /\ Len(entries[u]) \in Nat
      BY <1>1, OneMessage
    <3>3. Len(rest'[u]) < Len(entries[u])
      BY <1>4, <3>1, <3>2
    <3>4. ~overlapping => ver[u] = version + 1 \/ ver[u] = version
      BY <1>4 DEF IInv, SendingInv
    <3> QED BY <2>1, <3>1, <3>2, <3>3, <3>4
  <2>2. CASE w # u
    <3>1. pc'[w] = pc[w] /\ rest'[w] = rest[w] /\ entries' = entries /\ ver' = ver
          /\ overlapping' = overlapping
      BY <1>2, <2>2, OneMessage
    <3>2. pc[w] = "sending" => overlapping
      BY <1>4, <2>2 DEF IInv, Alone, InProgress
    <3> QED BY <3>1, <3>2 DEF IInv, SendingInv
  <2> QED BY <2>1, <2>2
<1>6. Alone'
  <2>1. \A w \in Updates : InProgress(w)' => InProgress(w)
    BY <1>2, <1>4 DEF InProgress
  <2>2. overlapping' = overlapping
    BY OneMessage
  <2> QED BY <2>1, <2>2 DEF IInv, Alone
<1>7. AnswerInv'
  BY OneMessage, AnswerKept DEF IInv
<1> QED BY <1>3, <1>5, <1>6, <1>7 DEF IInv

\* The invariant is inductive.
LEMMA NextIInv == IInv /\ [Next]_vars => IInv'
<1> SUFFICES ASSUME IInv, [Next]_vars PROVE IInv'
  OBVIOUS
<1>1. ASSUME NEW t \in Presented, Ask(t) PROVE IInv'
  BY <1>1, TokensAssumption, AskStep
<1>2. ASSUME NEW u \in Updates, PrepareFails(u) \/ DeliverFails(u) PROVE IInv'
  BY <1>2, FailStep DEF PrepareFails, DeliverFails
<1>3. CASE UNCHANGED vars
  <2>1. AnswerInv'
    BY <1>3, AnswerKept DEF IInv, vars, rows
  <2>2. TypeOK'
    BY <1>3 DEF IInv, TypeOK, vars, rows, update, station
  <2>3. SendingInv' /\ Alone'
    BY <1>3 DEF IInv, SendingInv, Alone, InProgress, vars, update, station
  <2> QED BY <2>1, <2>2, <2>3 DEF IInv
<1> QED BY <1>1, <1>2, <1>3, RowStep, ReadStep, PrepareStep, DeliverStep, SelectStep, AnswerStep
        DEF Next

\* The invariant holds.
LEMMA Invariant == Spec => []IInv
  BY InitIInv, NextIInv, PTL DEF Spec

-------------------------------------------------------------------------------
\* Every variable stays in its domain: entries that are read, decided and cut into
\* messages never leave the station with a status it does not know.
THEOREM TypeCorrect == Spec => []TypeOK
<1>1. IInv => TypeOK
  BY DEF IInv
<1> QED BY <1>1, Invariant, PTL

\* The CSMS authorizes a token that it had valid during the request only, whatever
\* happens to its row meanwhile (charge_station.py:305-315, chargePointRepr.py:76-104).
THEOREM GrantsAreValid == Spec => []GrantedWhileValid
<1>1. IInv => GrantedWhileValid
  BY DEF IInv, AnswerInv
<1> QED BY <1>1, Invariant, PTL

\* Updates that do not overlap never take the station's version back, nor use one for
\* two lists (chargePointRepr.py:562-566).
THEOREM VersionsGoForward == Spec => VersionForward
<1> DEFINE Fwd ==
        ~overlapping /\ listed' # listed =>
            \/ version' = version + 1
            \/ version' = version /\ \E u \in Updates : ver[u] = version /\ pc[u] = "sending"
                                                        /\ rest[u] # entries[u]
<1>1. IInv /\ [Next]_vars => [Fwd]_vars
  <2> SUFFICES ASSUME IInv, Next, ~overlapping, listed' # listed PROVE Fwd
    OBVIOUS
  <2>1. ASSUME NEW u \in Updates, Deliver(u) PROVE Fwd
    <3>1. pc[u] = "sending" /\ version' = ver[u]
      BY <2>1, OneMessage
    <3>2. ver[u] = version + 1 \/ (ver[u] = version /\ Len(rest[u]) < Len(entries[u]))
      BY <3>1 DEF IInv, SendingInv
    <3>3. entries \in [Updates -> Seq(Entry)]
      BY DEF IInv, TypeOK
    <3>4. Len(entries[u]) \in Nat
      BY <3>3
    <3> QED BY <3>1, <3>2, <3>4
  <2>2. ASSUME NEW u \in Updates, ~Deliver(u),
               Read(u) \/ Prepare(u) \/ PrepareFails(u) \/ DeliverFails(u)
        PROVE  FALSE
    BY <2>2 DEF Read, Prepare, PrepareFails, DeliverFails, station
  <2>3. ASSUME NEW t \in Tokens, ChangeRow(t) PROVE FALSE
    BY <2>3 DEF ChangeRow, station
  <2>4. ASSUME NEW t \in Presented, Ask(t) PROVE FALSE
    BY <2>4 DEF Ask, station
  <2>5. CASE Select \/ Answer
    BY <2>5 DEF Select, Answer, station
  <2> QED BY <2>1, <2>2, <2>3, <2>4, <2>5 DEF Next
<1>2. Spec => [][Next]_vars
  BY PTL DEF Spec
<1>3. [][Fwd]_vars => VersionForward
  BY PTL DEF VersionForward
<1> QED BY <1>1, <1>2, <1>3, Invariant, PTL
-------------------------------------------------------------------------------
(* A full update replaces the list.                                        *)

\* How many entries the station was sent.
Given(u) == Len(entries[u]) - Len(rest[u])

\* Every message of the update was installed.
Kept(u) == ver[u] # 0 /\ Given(u) > 0 /\ ~refused[u]

\* A list that names every token once, and removes none: that of a full update.
Once(s) ==
    \A i, j \in DOMAIN s : /\ s[i].status # "remove"
                           /\ s[i].token = s[j].token => i = j

FullEntries == \A u \in Updates : full[u] => Once(entries[u])

\* What is left to be sent is the end of the list.
RestIsEnd ==
    \A u \in Updates : ver[u] # 0 =>
        /\ Len(rest[u]) <= Len(entries[u])
        /\ \A i \in DOMAIN rest[u] : rest[u][i] = entries[u][Given(u) + i]

\* An update has a version when it sends, and its first message has its type.
FirstMessage ==
    \A u \in Updates :
        /\ pc[u] \in {"idle", "read"} => ver[u] = 0 /\ ~refused[u]
        /\ pc[u] = "read" => (full[u] <=> kind[u] = "full")
        /\ pc[u] = "sending" =>
            /\ ver[u] # 0
            /\ Given(u) = 0 => (full[u] <=> kind[u] = "full")
            /\ Given(u) > 0 => kind[u] = "differential"

\* Updates that were installed one after the other have versions of their own.
OwnVersions ==
    ~overlapping => \A u \in Updates : Kept(u) =>
        /\ ver[u] <= version
        /\ pc[u] = "sending" => ver[u] = version
        /\ \A w \in Updates :
              w # u /\ pc[w] = "sending" /\ ver[w] = version => ver[u] < version

\* The list is what was sent of the update that gave it its version.
ListIsSent ==
    ~overlapping => \A u \in Updates : full[u] /\ Kept(u) /\ ver[u] = version =>
        /\ \A i \in 1 .. Given(u) : listed[entries[u][i].token] = entries[u][i].status
        /\ \A t \in Tokens :
              (\A i \in 1 .. Given(u) : entries[u][i].token # t) => listed[t] = "none"

ListInv == FullEntries /\ RestIsEnd /\ FirstMessage /\ OwnVersions /\ ListIsSent

\* It holds initially.
LEMMA InitListInv == Init => ListInv
<1>1. Len(<<>>) = 0
  OBVIOUS
<1> QED BY <1>1
    DEF Init, ListInv, FullEntries, RestIsEnd, FirstMessage, OwnVersions, ListIsSent, Kept, Given

\* The entries of the rows name every token once, and remove none.
LEMMA RowsDistinct ==
    ASSUME NEW p \in SUBSET Tokens, NEW l \in Bijection(1 .. Cardinality(p), p),
           NEW f, \A t \in p : f[t] \in Row \ {"absent"},
           NEW s, s = [i \in DOMAIN l |-> [token |-> l[i], status |-> f[l[i]]]]
    PROVE  Once(s)
<1>1. /\ l \in [1 .. Cardinality(p) -> p]
      /\ \A i, j \in 1 .. Cardinality(p) : l[i] = l[j] => i = j
  BY DEF Bijection, Injection, Surjection, IsInjective
<1>2. DOMAIN s = 1 .. Cardinality(p)
      /\ \A i \in DOMAIN s : s[i].token = l[i] /\ s[i].status = f[l[i]] /\ l[i] \in p
  BY <1>1
<1> QED BY <1>1, <1>2 DEF Row, Once

\* What the CSMS decides changes no token, and removes none.
LEMMA DecidedSame ==
    ASSUME NEW e \in Entry, NEW lost
    PROVE  /\ Decided(e, lost).token = e.token
           /\ e.status # "remove" => Decided(e, lost).status # "remove"
  BY DEF Decided, Entry

\* A message that names every token once, and removes none, gives its tokens its statuses
\* and leaves the others alone.
LEMMA InstalledEntries ==
    ASSUME NEW msg \in Seq(Entry), NEW k, Once(msg)
    PROVE  /\ \A i \in DOMAIN msg : Installed(msg, k)[msg[i].token] = msg[i].status
           /\ \A t \in Tokens :
                 (\A i \in DOMAIN msg : msg[i].token # t) => Installed(msg, k)[t] = Base(k)[t]
<1>1. \A i \in DOMAIN msg : msg[i].token \in Tokens
  <2>1. \A i \in DOMAIN msg : msg[i] \in Entry
    OBVIOUS
  <2> QED BY <2>1 DEF Entry
<1>2. ASSUME NEW i \in DOMAIN msg
      PROVE  (CHOOSE j \in DOMAIN msg : msg[j].token = msg[i].token) = i
  BY DEF Once
<1>3. ASSUME NEW i \in DOMAIN msg PROVE Installed(msg, k)[msg[i].token] = msg[i].status
  BY <1>1, <1>2 DEF Installed, Once
<1>4. ASSUME NEW t \in Tokens, \A i \in DOMAIN msg : msg[i].token # t
      PROVE  Installed(msg, k)[t] = Base(k)[t]
  BY <1>4 DEF Installed
<1> QED BY <1>3, <1>4

\* A message is the front of what is left to be sent.
LEMMA MessageParts ==
    ASSUME IInv, NEW u \in Updates, Deliver(u), NEW n, n = Chunk(u)
    PROVE  LET msg == SubSeq(rest[u], 1, n) IN
           /\ n \in 1 .. Len(rest[u]) /\ rest[u] \in Seq(Entry)
           /\ msg \in Seq(Entry) /\ DOMAIN msg = 1 .. n
           /\ \A i \in 1 .. n : msg[i] = rest[u][i]
           /\ Len(rest'[u]) = Len(rest[u]) - n /\ DOMAIN rest'[u] = 1 .. Len(rest[u]) - n
           /\ \A i \in 1 .. Len(rest[u]) - n : rest'[u][i] = rest[u][n + i]
           /\ kind' = [kind EXCEPT ![u] = "differential"]
           /\ \/ refused' = [refused EXCEPT ![u] = TRUE] /\ UNCHANGED <<listed, version>>
              \/ /\ UNCHANGED refused /\ version' = ver[u]
                 /\ listed' = Installed(msg, kind[u])
<1> DEFINE msg == SubSeq(rest[u], 1, n)
           left == SubSeq(rest[u], n + 1, Len(rest[u]))
<1>1. /\ pc[u] = "sending" /\ rest' = [rest EXCEPT ![u] = left]
      /\ IF Refuses(u, msg)
         THEN refused' = [refused EXCEPT ![u] = TRUE] /\ UNCHANGED station
         ELSE listed' = Installed(msg, kind[u]) /\ version' = ver[u] /\ UNCHANGED refused
      /\ kind' = [kind EXCEPT ![u] = "differential"]
  BY DEF Deliver, Send
<1>2. rest \in [Updates -> Seq(Entry)] /\ limit \in [Updates -> Nat]
  BY DEF IInv, TypeOK
<1>3. rest[u] \in Seq(Entry) /\ rest[u] # <<>>
  BY <1>1, <1>2 DEF IInv, SendingInv
<1>4. Len(rest[u]) \in Nat \ {0} /\ limit[u] \in Nat
  BY <1>2, <1>3
<1>5. n \in Nat \ {0} /\ n <= Len(rest[u])
  BY <1>4 DEF Chunk
<1>6. msg \in Seq(Entry) /\ DOMAIN msg = 1 .. n /\ \A i \in 1 .. n : msg[i] = rest[u][i]
  <2>1. 1 \in Int /\ n \in Int /\ \A i \in 1 .. n : rest[u][i] \in Entry
    BY <1>3, <1>5
  <2>2. /\ msg \in Seq(Entry) /\ Len(msg) = n
        /\ \A i \in 1 .. n - 1 + 1 : msg[i] = rest[u][1 + i - 1]
    BY <2>1, <1>5, SubSeqProperties
  <2>3. DOMAIN msg = 1 .. n
    BY <2>2
  <2> QED BY <1>5, <2>2, <2>3
<1>7. /\ left \in Seq(Entry) /\ Len(left) = Len(rest[u]) - n /\ DOMAIN left = 1 .. Len(rest[u]) - n
      /\ \A i \in 1 .. Len(rest[u]) - n : left[i] = rest[u][n + i]
  <2>1. n + 1 \in Int /\ Len(rest[u]) \in Int
        /\ \A i \in n + 1 .. Len(rest[u]) : rest[u][i] \in Entry
    BY <1>3, <1>4, <1>5
  <2>2. /\ left \in Seq(Entry)
        /\ Len(left) = IF n + 1 <= Len(rest[u]) THEN Len(rest[u]) - (n + 1) + 1 ELSE 0
        /\ \A i \in 1 .. Len(rest[u]) - (n + 1) + 1 : left[i] = rest[u][(n + 1) + i - 1]
    BY <2>1, SubSeqProperties
  <2>3. Len(left) = Len(rest[u]) - n
    BY <1>4, <1>5, <2>2
  <2>4. DOMAIN left = 1 .. Len(left)
    BY <2>2
  <2>5. ASSUME NEW i \in 1 .. Len(rest[u]) - n PROVE left[i] = rest[u][n + i]
    <3>1. i \in 1 .. Len(rest[u]) - (n + 1) + 1 /\ (n + 1) + i - 1 = n + i
      BY <1>4, <1>5
    <3> QED BY <2>2, <3>1
  <2> QED BY <2>2, <2>3, <2>4, <2>5
<1> HIDE DEF msg, left
<1>8. rest'[u] = left
  BY <1>1, <1>2
<1>9. \/ refused' = [refused EXCEPT ![u] = TRUE] /\ UNCHANGED <<listed, version>>
      \/ UNCHANGED refused /\ version' = ver[u] /\ listed' = Installed(msg, kind[u])
  BY <1>1 DEF station
<1> USE DEF msg
<1> QED BY <1>1, <1>3, <1>4, <1>5, <1>6, <1>7, <1>8, <1>9

\* What the invariant is about.
lists == <<overlapping, entries, rest, ver, full, refused, kind, pc, listed, version>>

LEMMA SameLists == ASSUME ListInv, UNCHANGED lists PROVE ListInv'
<1>1. UNCHANGED <<overlapping, entries, rest, ver, full, refused, kind, pc, listed, version>>
  BY DEF lists
<1>2. \A u \in Updates : Given(u)' = Given(u) /\ (Kept(u)' <=> Kept(u))
  BY <1>1 DEF Kept, Given
<1>3. FullEntries' /\ RestIsEnd'
  BY <1>1, <1>2 DEF ListInv, FullEntries, RestIsEnd
<1>4. FirstMessage' /\ OwnVersions'
  BY <1>1, <1>2 DEF ListInv, FirstMessage, OwnVersions
<1>5. ListIsSent'
  BY <1>1, <1>2 DEF ListInv, ListIsSent
<1> QED BY <1>3, <1>4, <1>5 DEF ListInv

\* An update fails.
LEMMA FailList ==
    ASSUME IInv, ListInv, NEW u \in Updates, Fail(u), UNCHANGED <<overlapping, station>>
    PROVE  ListInv'
<1>1. /\ UNCHANGED <<overlapping, entries, rest, ver, full, refused, kind, listed, version>>
      /\ pc'[u] = "failed" /\ \A w \in Updates : w # u => pc'[w] = pc[w]
  BY DEF Fail, station, IInv, TypeOK
<1>2. \A w \in Updates : pc'[w] \in {"idle", "read", "sending"} => pc'[w] = pc[w]
  BY <1>1
<1>3. \A w \in Updates : Given(w)' = Given(w) /\ (Kept(w)' <=> Kept(w))
  BY <1>1 DEF Kept, Given
<1>4. FullEntries' /\ RestIsEnd'
  BY <1>1, <1>3 DEF ListInv, FullEntries, RestIsEnd
<1>5. FirstMessage' /\ OwnVersions'
  BY <1>1, <1>2, <1>3 DEF ListInv, FirstMessage, OwnVersions
<1>6. ListIsSent'
  BY <1>1, <1>3 DEF ListInv, ListIsSent
<1> QED BY <1>4, <1>5, <1>6 DEF ListInv

\* The list an update is given.
LEMMA GiveList ==
    ASSUME IInv, ListInv, NEW u \in Updates, pc[u] = "idle", UNCHANGED <<overlapping, station>>,
           NEW up \in Kinds, NEW l, Give(u, up, l),
           up = "full" => Once(l)
    PROVE  ListInv'
<1>1. /\ UNCHANGED <<overlapping, rest, ver, refused, listed, version>>
      /\ pc'[u] = "read" /\ kind'[u] = up /\ entries'[u] = l /\ full'[u] = (up = "full")
      /\ \A w \in Updates : w # u => /\ pc'[w] = pc[w] /\ kind'[w] = kind[w]
                                     /\ entries'[w] = entries[w] /\ full'[w] = full[w]
  BY DEF Give, station, IInv, TypeOK
<1>2. ver[u] = 0 /\ ~refused[u]
  BY DEF ListInv, FirstMessage
<1>3. \A w \in Updates : ver[w] # 0 => w # u /\ Given(w)' = Given(w)
  BY <1>1, <1>2 DEF Given
<1>4. \A w \in Updates : Kept(w)' => Kept(w) /\ w # u
  BY <1>1, <1>3 DEF Kept
<1>5. FullEntries'
  <2> SUFFICES ASSUME NEW w \in Updates, full'[w] PROVE Once(entries'[w])
    BY DEF FullEntries, Once
  <2>1. CASE w = u
    BY <1>1, <2>1
  <2>2. CASE w # u
    BY <1>1, <2>2 DEF ListInv, FullEntries
  <2> QED BY <2>1, <2>2
<1>6. RestIsEnd'
  BY <1>1, <1>3 DEF ListInv, RestIsEnd, Given
<1>7. FirstMessage'
  <2> SUFFICES ASSUME NEW w \in Updates
               PROVE  /\ pc'[w] \in {"idle", "read"} => ver'[w] = 0 /\ ~refused'[w]
                      /\ pc'[w] = "read" => (full'[w] <=> kind'[w] = "full")
                      /\ pc'[w] = "sending" =>
                          /\ ver'[w] # 0
                          /\ Given(w)' = 0 => (full'[w] <=> kind'[w] = "full")
                          /\ Given(w)' > 0 => kind'[w] = "differential"
    BY DEF FirstMessage
  <2>1. CASE w = u
    BY <1>1, <1>2, <2>1
  <2>2. CASE w # u
    BY <1>1, <1>3, <2>2 DEF ListInv, FirstMessage
  <2> QED BY <2>1, <2>2
<1>8. OwnVersions'
  BY <1>1, <1>4 DEF ListInv, OwnVersions
<1>9. ListIsSent'
  BY <1>1, <1>3, <1>4 DEF ListInv, ListIsSent, Kept
<1> QED BY <1>5, <1>6, <1>7, <1>8, <1>9 DEF ListInv

\* The rows are read.
LEMMA ReadList == ASSUME IInv, ListInv, NEW u \in Updates, Read(u) PROVE ListInv'
<1>1. pc[u] = "idle" /\ UNCHANGED <<overlapping, station>> /\ csms \in [Tokens -> Row]
  BY DEF Read, IInv, TypeOK
<1> DEFINE present == {t \in Tokens : csms[t] # "absent"}
<1>2. ASSUME NEW l \in Bijection(1 .. Cardinality(present), present),
             Give(u, "full", [i \in DOMAIN l |-> [token |-> l[i], status |-> csms[l[i]]]])
      PROVE  ListInv'
  <2>1. present \in SUBSET Tokens /\ \A t \in present : csms[t] \in Row \ {"absent"}
    BY <1>1
  <2> HIDE DEF present
  <2> DEFINE s == [i \in DOMAIN l |-> [token |-> l[i], status |-> csms[l[i]]]]
  <2>2. s = [i \in DOMAIN l |-> [token |-> l[i], status |-> csms[l[i]]]]
    OBVIOUS
  <2>3. "full" \in Kinds /\ Give(u, "full", s)
    BY <1>2 DEF Kinds
  <2> HIDE DEF s
  <2>4. Once(s)
    BY <2>1, <2>2, RowsDistinct
  <2> QED BY <1>1, <2>3, <2>4, GiveList
<1>3. ASSUME NEW l, Give(u, "differential", l) PROVE ListInv'
  <2>1. "differential" \in Kinds /\ "differential" # "full"
    BY DEF Kinds
  <2> QED BY <1>1, <1>3, <2>1, GiveList
<1>4. \/ \E l \in Bijection(1 .. Cardinality(present), present) :
            Give(u, "full", [i \in DOMAIN l |-> [token |-> l[i], status |-> csms[l[i]]]])
      \/ \E l : Give(u, "differential", l)
      \/ Fail(u)
  BY Zenon DEF Read
<1> QED BY <1>1, <1>2, <1>3, <1>4, FailList

\* The statuses are decided, the version and the limit are read.
LEMMA PrepareList == ASSUME IInv, ListInv, NEW u \in Updates, Prepare(u) PROVE ListInv'
<1>1. PICK lost \in {{}, Tokens}, n \in Limits \cup {0} :
        /\ entries' = [entries EXCEPT ![u] = [i \in DOMAIN entries[u] |-> Decided(entries[u][i], lost)]]
        /\ rest' = [rest EXCEPT ![u] = [i \in DOMAIN entries[u] |-> Decided(entries[u][i], lost)]]
        /\ limit' = [limit EXCEPT ![u] = n]
  BY DEF Prepare
<1> DEFINE s == [i \in DOMAIN entries[u] |-> Decided(entries[u][i], lost)]
<1>2. /\ pc[u] = "read" /\ pc' = [pc EXCEPT ![u] = "sending"]
      /\ ver' = [ver EXCEPT ![u] = version + 1]
      /\ UNCHANGED <<kind, full, refused, overlapping, listed, version>>
  BY DEF Prepare, station
<1>3. /\ pc \in [Updates -> PC] /\ ver \in [Updates -> Nat] /\ version \in Nat
      /\ entries \in [Updates -> Seq(Entry)] /\ rest \in [Updates -> Seq(Entry)]
  BY DEF IInv, TypeOK
<1>4. s \in Seq(Entry) /\ Len(s) \in Nat /\ DOMAIN s = 1 .. Len(s) /\ DOMAIN s = DOMAIN entries[u]
      /\ \A i \in DOMAIN s : /\ s[i].token = entries[u][i].token
                             /\ entries[u][i].status # "remove" => s[i].status # "remove"
  <2>1. entries[u] \in Seq(Entry) /\ \A i \in DOMAIN entries[u] : entries[u][i] \in Entry
    BY <1>3
  <2>2. s \in Seq(Entry)
    BY <2>1, DecidedList
  <2>3. \A i \in DOMAIN entries[u] : s[i] = Decided(entries[u][i], lost)
    OBVIOUS
  <2>4. DOMAIN s = DOMAIN entries[u]
    OBVIOUS
  <2> HIDE DEF s
  <2>5. Len(s) \in Nat /\ DOMAIN s = 1 .. Len(s)
    BY <2>2
  <2> QED BY <2>1, <2>2, <2>3, <2>4, <2>5, DecidedSame
<1>5. entries' = [entries EXCEPT ![u] = s] /\ rest' = [rest EXCEPT ![u] = s]
  BY <1>1
<1> HIDE DEF s
<1>6. /\ pc'[u] = "sending" /\ ver'[u] = version + 1 /\ entries'[u] = s /\ rest'[u] = s
      /\ \A w \in Updates : w # u => /\ pc'[w] = pc[w] /\ ver'[w] = ver[w]
                                     /\ entries'[w] = entries[w] /\ rest'[w] = rest[w]
  BY <1>2, <1>3, <1>5
<1>7. Given(u)' = 0 /\ \A w \in Updates : w # u => Given(w)' = Given(w)
  <2>1. Given(u)' = Len(s) - Len(s)
    BY <1>6 DEF Given
  <2>2. Len(s) - Len(s) = 0
    BY <1>4
  <2> QED BY <1>6, <2>1, <2>2 DEF Given
<1>8. ~Kept(u)' /\ \A w \in Updates : w # u => (Kept(w)' <=> Kept(w))
  BY <1>2, <1>6, <1>7 DEF Kept
<1>9. FullEntries'
  <2> SUFFICES ASSUME NEW w \in Updates, full[w] PROVE Once(entries'[w])
    BY <1>2 DEF FullEntries, Once
  <2>1. CASE w = u
    <3>1. Once(entries[u])
      BY <2>1 DEF ListInv, FullEntries
    <3>2. Once(s)
      BY <1>4, <3>1 DEF Once
    <3> QED BY <1>6, <2>1, <3>2
  <2>2. CASE w # u
    BY <1>6, <2>2 DEF ListInv, FullEntries
  <2> QED BY <2>1, <2>2
<1>10. RestIsEnd'
  <2> SUFFICES ASSUME NEW w \in Updates, ver'[w] # 0
               PROVE  /\ Len(rest'[w]) <= Len(entries'[w])
                      /\ \A i \in DOMAIN rest'[w] : rest'[w][i] = entries'[w][Given(w)' + i]
    BY DEF RestIsEnd
  <2>1. CASE w = u
    <3>1. \A i \in DOMAIN s : 0 + i = i
      BY <1>4
    <3> QED BY <1>4, <1>6, <1>7, <2>1, <3>1
  <2>2. CASE w # u
    BY <1>6, <1>7, <2>2 DEF ListInv, RestIsEnd
  <2> QED BY <2>1, <2>2
<1>11. FirstMessage'
  <2> SUFFICES ASSUME NEW w \in Updates
               PROVE  /\ pc'[w] \in {"idle", "read"} => ver'[w] = 0 /\ ~refused'[w]
                      /\ pc'[w] = "read" => (full'[w] <=> kind'[w] = "full")
                      /\ pc'[w] = "sending" =>
                          /\ ver'[w] # 0
                          /\ Given(w)' = 0 => (full'[w] <=> kind'[w] = "full")
                          /\ Given(w)' > 0 => kind'[w] = "differential"
    BY DEF FirstMessage
  <2>1. CASE w = u
    BY <1>2, <1>3, <1>6, <1>7, <2>1 DEF ListInv, FirstMessage
  <2>2. CASE w # u
    BY <1>2, <1>6, <1>7, <2>2 DEF ListInv, FirstMessage
  <2> QED BY <2>1, <2>2
<1>12. OwnVersions'
  <2> SUFFICES ASSUME ~overlapping, NEW w \in Updates, Kept(w)'
               PROVE  /\ ver'[w] <= version
                      /\ pc'[w] = "sending" => ver'[w] = version
                      /\ \A x \in Updates :
                            x # w /\ pc'[x] = "sending" /\ ver'[x] = version => ver'[w] < version
    BY <1>2 DEF OwnVersions
  <2>1. w # u /\ Kept(w)
    BY <1>8
  <2>2. ver'[u] # version
    BY <1>3, <1>6
  <2> QED BY <1>6, <2>1, <2>2 DEF ListInv, OwnVersions
<1>13. ListIsSent'
  <2> SUFFICES ASSUME ~overlapping, NEW w \in Updates, full[w], Kept(w)', ver'[w] = version
               PROVE  /\ \A i \in 1 .. Given(w)' :
                            listed[entries'[w][i].token] = entries'[w][i].status
                      /\ \A t \in Tokens : (\A i \in 1 .. Given(w)' : entries'[w][i].token # t)
                                               => listed[t] = "none"
    BY <1>2 DEF ListIsSent
  <2>1. w # u /\ Kept(w)
    BY <1>8
  <2> QED BY <1>6, <1>7, <2>1 DEF ListInv, ListIsSent
<1> QED BY <1>9, <1>10, <1>11, <1>12, <1>13 DEF ListInv

\* A message is sent.
LEMMA DeliverList == ASSUME IInv, ListInv, NEW u \in Updates, Deliver(u) PROVE ListInv'
<1>0. PICK n : n = Chunk(u)
  OBVIOUS
<1> DEFINE msg == SubSeq(rest[u], 1, n)
           g == Given(u)
<1>1. /\ n \in 1 .. Len(rest[u]) /\ rest[u] \in Seq(Entry)
      /\ msg \in Seq(Entry) /\ DOMAIN msg = 1 .. n
      /\ \A i \in 1 .. n : msg[i] = rest[u][i]
      /\ Len(rest'[u]) = Len(rest[u]) - n /\ DOMAIN rest'[u] = 1 .. Len(rest[u]) - n
      /\ \A i \in 1 .. Len(rest[u]) - n : rest'[u][i] = rest[u][n + i]
      /\ kind' = [kind EXCEPT ![u] = "differential"]
      /\ \/ refused' = [refused EXCEPT ![u] = TRUE] /\ UNCHANGED <<listed, version>>
         \/ /\ UNCHANGED refused /\ version' = ver[u]
            /\ listed' = Installed(msg, kind[u])
  BY <1>0, MessageParts
<1> HIDE DEF msg, g
<1>2. /\ pc[u] = "sending" /\ pc'[u] \in {"sending", "done", "failed"}
      /\ \A w \in Updates : w # u => pc'[w] = pc[w] /\ rest'[w] = rest[w] /\ kind'[w] = kind[w]
      /\ kind'[u] = "differential"
      /\ UNCHANGED <<overlapping, entries, ver, full>>
  <2>1. pc \in [Updates -> PC] /\ kind \in [Updates -> Kinds]
    BY DEF IInv, TypeOK
  <2> QED BY <1>1, <2>1, OneMessage
<1>3. /\ entries[u] \in Seq(Entry) /\ Len(entries[u]) \in Nat /\ DOMAIN entries[u] = 1 .. Len(entries[u])
      /\ Len(rest[u]) \in Nat /\ DOMAIN rest[u] = 1 .. Len(rest[u])
      /\ \A w \in Updates : ver[w] \in Nat
      /\ version \in Nat
  <2>1. entries[u] \in Seq(Entry) /\ rest[u] \in Seq(Entry)
    BY DEF IInv, TypeOK
  <2> QED BY <2>1 DEF IInv, TypeOK
<1>4. ver[u] # 0 /\ Len(rest[u]) <= Len(entries[u])
      /\ \A i \in 1 .. Len(rest[u]) : rest[u][i] = entries[u][g + i]
  BY <1>2, <1>3 DEF ListInv, FirstMessage, RestIsEnd, g
<1> DEFINE E == Len(entries[u])
           R == Len(rest[u])
<1>5. E \in Nat /\ R \in Nat /\ n \in Nat /\ g \in Nat /\ 0 < n /\ n <= R /\ R <= E /\ g = E - R
  BY <1>1, <1>3, <1>4 DEF g, Given
<1> HIDE DEF E, R
<1>6. Given(u)' = g + n /\ \A w \in Updates : w # u => Given(w)' = Given(w)
  <2>1. Given(u)' = E - (R - n)
    BY <1>1, <1>2 DEF Given, E, R
  <2>2. E - (R - n) = g + n
    BY <1>5
  <2>3. \A w \in Updates : w # u => Given(w)' = Given(w)
    BY <1>2 DEF Given
  <2> QED BY <2>1, <2>2, <2>3
<1>7. /\ \A w \in Updates : w # u => refused'[w] = refused[w]
      /\ ~refused'[u] => ~refused[u] /\ version' = ver[u] /\ listed' = Installed(msg, kind[u])
  BY <1>1 DEF IInv, TypeOK
<1>8. \A w \in Updates : w # u => (Kept(w)' <=> Kept(w))
  BY <1>2, <1>6, <1>7 DEF Kept
<1>9. FullEntries'
  BY <1>2 DEF ListInv, FullEntries
<1>10. RestIsEnd'
  <2> SUFFICES ASSUME NEW w \in Updates, ver[w] # 0
               PROVE  /\ Len(rest'[w]) <= Len(entries[w])
                      /\ \A i \in DOMAIN rest'[w] : rest'[w][i] = entries[w][Given(w)' + i]
    BY <1>2 DEF RestIsEnd
  <2>1. CASE w = u
    <3>1. ASSUME NEW i \in 1 .. R - n
          PROVE  rest'[u][i] = entries[u][(g + n) + i]
      <4>1. n + i \in 1 .. R /\ g + (n + i) = (g + n) + i
        BY <1>5
      <4>2. rest'[u][i] = rest[u][n + i]
        BY <1>1 DEF R
      <4>3. rest[u][n + i] = entries[u][g + (n + i)]
        BY <1>4, <4>1 DEF R
      <4> QED BY <4>1, <4>2, <4>3
    <3>2. R - n <= E
      BY <1>5
    <3> QED BY <1>1, <1>6, <2>1, <3>1, <3>2 DEF R, E
  <2>2. CASE w # u
    BY <1>2, <1>6, <2>2 DEF ListInv, RestIsEnd
  <2> QED BY <2>1, <2>2
<1>11. FirstMessage'
  <2> SUFFICES ASSUME NEW w \in Updates
               PROVE  /\ pc'[w] \in {"idle", "read"} => ver'[w] = 0 /\ ~refused'[w]
                      /\ pc'[w] = "read" => (full'[w] <=> kind'[w] = "full")
                      /\ pc'[w] = "sending" =>
                          /\ ver'[w] # 0
                          /\ Given(w)' = 0 => (full'[w] <=> kind'[w] = "full")
                          /\ Given(w)' > 0 => kind'[w] = "differential"
    BY DEF FirstMessage
  <2>1. CASE w = u
    <3>1. g + n # 0
      BY <1>5
    <3> QED BY <1>2, <1>4, <1>6, <2>1, <3>1
  <2>2. CASE w # u
    BY <1>2, <1>6, <1>7, <2>2 DEF ListInv, FirstMessage
  <2> QED BY <2>1, <2>2
\* Alone: nobody else is sending, and the version is the next one or the station's.
<1>12. ~overlapping => /\ \A w \in Updates : pc[w] = "sending" => w = u
                       /\ ver[u] = version + 1 \/ ver[u] = version
                       /\ \A w \in Updates : Kept(w) => ver[w] <= version
                       /\ ver[u] = version =>
                              \A w \in Updates : w # u /\ Kept(w) => ver[w] < version
  BY <1>2 DEF IInv, Alone, InProgress, SendingInv, ListInv, OwnVersions
<1>13. ~overlapping => (\A w \in Updates : Kept(w) => ver[w] <= version')
                       /\ (version' = version \/ version' = ver[u])
                       /\ (version' = ver[u] =>
                              \A w \in Updates : w # u /\ Kept(w) => ver[w] < version')
  BY <1>1, <1>3, <1>12
<1>14. OwnVersions'
  <2> SUFFICES ASSUME ~overlapping, NEW w \in Updates, Kept(w)'
               PROVE  /\ ver[w] <= version'
                      /\ pc'[w] = "sending" => ver[w] = version'
                      /\ \A x \in Updates :
                            x # w /\ pc'[x] = "sending" /\ ver[x] = version' => ver[w] < version'
    BY <1>2 DEF OwnVersions
  <2>1. \A x \in Updates : pc'[x] = "sending" => x = u
    BY <1>2, <1>12
  <2>2. CASE w = u
    <3>1. version' = ver[u]
      BY <1>7, <2>2 DEF Kept
    <3> QED BY <1>3, <2>1, <2>2, <3>1
  <2>3. CASE w # u
    BY <1>8, <1>13, <2>1, <2>3
  <2> QED BY <2>2, <2>3
<1>15. ListIsSent'
  <2> SUFFICES ASSUME ~overlapping, NEW w \in Updates, full[w], Kept(w)', ver[w] = version'
               PROVE  /\ \A i \in 1 .. Given(w)' :
                            listed'[entries[w][i].token] = entries[w][i].status
                      /\ \A t \in Tokens : (\A i \in 1 .. Given(w)' : entries[w][i].token # t)
                                               => listed'[t] = "none"
    BY <1>2 DEF ListIsSent
  <2>1. CASE w # u
    <3>1. Kept(w) /\ version' # ver[u]
      BY <1>3, <1>8, <1>13, <2>1
    <3>2. UNCHANGED <<listed, version>>
      BY <1>1, <3>1
    <3> QED BY <1>6, <2>1, <3>1, <3>2 DEF ListInv, ListIsSent
  <2>2. CASE w = u
    <3>1. /\ ~refused[u] /\ version' = ver[u] /\ listed' = Installed(msg, kind[u])
      BY <1>7, <2>2 DEF Kept
    <3>2. \A i, j \in 1 .. E :
             /\ entries[u][i].status # "remove"
             /\ entries[u][i].token = entries[u][j].token => i = j
      BY <1>3, <2>2 DEF ListInv, FullEntries, Once, E
    <3>3. ASSUME NEW i \in 1 .. n
          PROVE  msg[i] = entries[u][g + i] /\ g + i \in 1 .. E
      <4>1. i \in 1 .. R /\ g + i \in 1 .. E
        BY <1>5
      <4>2. rest[u][i] = entries[u][g + i]
        BY <1>4, <4>1 DEF R
      <4> QED BY <1>1, <4>1, <4>2
    <3>4. Once(msg)
      <4>0. DOMAIN msg = 1 .. n
        BY <1>1
      <4> SUFFICES ASSUME NEW i \in 1 .. n, NEW j \in 1 .. n
                   PROVE  /\ msg[i].status # "remove"
                          /\ msg[i].token = msg[j].token => i = j
        BY <4>0 DEF Once
      <4>1. /\ msg[i].token = msg[j].token => g + i = g + j
            /\ msg[i].status # "remove"
        BY <3>2, <3>3
      <4>2. g + i = g + j => i = j
        BY <1>5
      <4> QED BY <4>1, <4>2
    <3>5. /\ \A i \in 1 .. n : listed'[msg[i].token] = msg[i].status
          /\ \A t \in Tokens : (\A i \in 1 .. n : msg[i].token # t) => listed'[t] = Base(kind[u])[t]
      <4>1. msg \in Seq(Entry) /\ DOMAIN msg = 1 .. n
        BY <1>1
      <4>2. PICK k : k = kind[u]
        OBVIOUS
      <4>3. /\ \A i \in DOMAIN msg : Installed(msg, k)[msg[i].token] = msg[i].status
            /\ \A t \in Tokens : (\A i \in DOMAIN msg : msg[i].token # t)
                   => Installed(msg, k)[t] = Base(k)[t]
        BY <3>4, <4>1, InstalledEntries
      <4> QED BY <3>1, <4>1, <4>2, <4>3
    \* What was sent before this message is in the list it is applied to.
    <3>6. /\ \A i \in 1 .. g : Base(kind[u])[entries[u][i].token] = entries[u][i].status
          /\ \A t \in Tokens : (\A i \in 1 .. g : entries[u][i].token # t)
                                   => Base(kind[u])[t] = "none"
      <4>1. CASE g = 0
        <5>1. Base(kind[u]) = [t \in Tokens |-> "none"]
          BY <1>2, <2>2, <4>1 DEF ListInv, FirstMessage, Base, g
        <5>2. 1 .. g = {}
          BY <4>1
        <5> QED BY <5>1, <5>2
      <4>2. CASE g > 0
        <5>1. Kept(u) /\ kind[u] = "differential"
          BY <1>2, <1>4, <3>1, <4>2 DEF ListInv, FirstMessage, Kept, g
        <5>2. ver[u] = version
          BY <1>2, <5>1 DEF ListInv, OwnVersions
        <5>3. Base(kind[u]) = listed
          BY <5>1 DEF Base
        <5> QED BY <2>2, <5>1, <5>2, <5>3 DEF ListInv, ListIsSent, g
      <4>3. g = 0 \/ g > 0
        BY <1>5
      <4> QED BY <4>1, <4>2, <4>3
    <3>7. ASSUME NEW i \in 1 .. g + n
          PROVE  listed'[entries[u][i].token] = entries[u][i].status
      <4>0. i \in 1 .. E /\ (i \in 1 .. g \/ i - g \in 1 .. n) /\ g + (i - g) = i
        BY <1>5
      <4>1. CASE i \in 1 .. g
        <5>1. ASSUME NEW j \in 1 .. n PROVE msg[j].token # entries[u][i].token
          <6>1. g + j # i
            BY <1>5, <4>1
          <6> QED BY <3>2, <3>3, <4>0, <6>1
        <5>2. entries[u][i].token \in Tokens
          <6>1. entries[u][i] \in Entry
            BY <1>3, <4>0 DEF E
          <6> QED BY <6>1 DEF Entry
        <5> QED BY <3>5, <3>6, <4>1, <5>1, <5>2
      <4>2. CASE i - g \in 1 .. n
        <5>1. msg[i - g] = entries[u][i]
          BY <3>3, <4>0, <4>2
        <5> QED BY <3>5, <4>2, <5>1
      <4> QED BY <4>0, <4>1, <4>2
    <3>8. ASSUME NEW t \in Tokens, \A i \in 1 .. g + n : entries[u][i].token # t
          PROVE  listed'[t] = "none"
      <4>1. \A i \in 1 .. g : i \in 1 .. g + n
        BY <1>5
      <4>2. \A i \in 1 .. n : g + i \in 1 .. g + n
        BY <1>5
      <4>3. \A i \in 1 .. n : msg[i].token # t
        BY <3>3, <3>8, <4>2
      <4> QED BY <3>5, <3>6, <3>8, <4>1, <4>3
    <3> QED BY <1>6, <2>2, <3>7, <3>8
  <2> QED BY <2>1, <2>2
<1> QED BY <1>9, <1>10, <1>11, <1>14, <1>15 DEF ListInv

\* Every step preserves it.
LEMMA NextListInv == IInv /\ ListInv /\ [Next]_vars => ListInv'
<1> SUFFICES ASSUME IInv, ListInv, [Next]_vars PROVE ListInv'
  OBVIOUS
<1>1. ASSUME UNCHANGED <<overlapping, update, station>> PROVE ListInv'
  BY <1>1, SameLists DEF lists, update, station
<1>2. ASSUME NEW t \in Tokens, ChangeRow(t) PROVE ListInv'
  BY <1>1, <1>2 DEF ChangeRow
<1>3. ASSUME NEW t \in Presented, Ask(t) PROVE ListInv'
  BY <1>1, <1>3 DEF Ask
<1>4. CASE Select \/ Answer
  BY <1>1, <1>4 DEF Select, Answer
<1>5. CASE UNCHANGED vars
  BY <1>1, <1>5 DEF vars
<1>6. ASSUME NEW u \in Updates, PrepareFails(u) \/ DeliverFails(u) PROVE ListInv'
  BY <1>6, FailList DEF PrepareFails, DeliverFails
<1> QED BY <1>2, <1>3, <1>4, <1>5, <1>6, ReadList, PrepareList, DeliverList DEF Next

\* A full update leaves the station with what it was sent of it and nothing else, with the
\* statuses the CSMS gave, however it is cut into messages and wherever it is cut short
\* (chargePointRepr.py:160-206, db_CS.py:121-139).
THEOREM FullUpdatesReplace == Spec => []FullReplaces
<1>1. IInv /\ ListInv => FullReplaces
  <2> SUFFICES ASSUME IInv, ListInv, NEW u \in Updates, ~overlapping, full[u],
                      Sent(u) # <<>>, ver[u] = version, ~refused[u], NEW t \in Tokens
               PROVE  listed[t] = IF \E i \in DOMAIN Sent(u) : Sent(u)[i].token = t
                                  THEN Sent(u)[CHOOSE i \in DOMAIN Sent(u) : Sent(u)[i].token = t].status
                                  ELSE "none"
    BY DEF FullReplaces
  <2> DEFINE g == Given(u)
             sent == Sent(u)
  <2>1. ver[u] # 0 /\ sent = SubSeq(entries[u], 1, g)
    BY DEF Sent, Given
  <2>2. entries[u] \in Seq(Entry) /\ rest[u] \in Seq(Entry)
    BY DEF IInv, TypeOK
  <2>3. Len(rest[u]) <= Len(entries[u])
    BY <2>1 DEF ListInv, RestIsEnd
  <2>4. g \in Nat /\ g <= Len(entries[u])
    <3>1. Len(entries[u]) \in Nat /\ Len(rest[u]) \in Nat
      BY <2>2
    <3>2. \A a, b \in Nat : a <= b => b - a \in Nat /\ b - a <= b
      OBVIOUS
    <3> QED BY <2>3, <3>1, <3>2 DEF Given
  <2> HIDE DEF g, sent
  <2>5. DOMAIN sent = 1 .. g /\ \A i \in 1 .. g : sent[i] = entries[u][i]
    <3>1. 1 \in Int /\ g \in Int /\ \A i \in 1 .. g : entries[u][i] \in Entry
      BY <2>2, <2>4
    <3>2. /\ sent \in Seq(Entry) /\ Len(sent) = IF 1 <= g THEN g - 1 + 1 ELSE 0
          /\ \A i \in 1 .. g - 1 + 1 : sent[i] = entries[u][1 + i - 1]
      BY <2>1, <3>1, SubSeqProperties
    <3>3. Len(sent) = g /\ DOMAIN sent = 1 .. Len(sent)
      BY <2>4, <3>2
    <3> QED BY <2>4, <3>2, <3>3
  <2>6. g > 0
    <3>1. SUFFICES ASSUME g = 0 PROVE sent = <<>>
      BY <2>4 DEF sent
    <3> QED BY <2>1, <2>2, <3>1
  <2>7. Kept(u)
    BY <2>1, <2>6 DEF Kept, g
  <2>8. /\ \A i \in 1 .. g : listed[entries[u][i].token] = entries[u][i].status
        /\ (\A i \in 1 .. g : entries[u][i].token # t) => listed[t] = "none"
    BY <2>7 DEF ListInv, ListIsSent, g
  <2>9. CASE \E i \in DOMAIN sent : sent[i].token = t
    <3>1. PICK i \in DOMAIN sent : i = CHOOSE j \in DOMAIN sent : sent[j].token = t
      BY <2>9
    <3>2. sent[i].token = t
      BY <2>9, <3>1
    <3>3. listed[t] = sent[i].status
      BY <2>5, <2>8, <3>2
    <3> QED BY <2>9, <3>1, <3>3 DEF sent
  <2>10. CASE ~\E i \in DOMAIN sent : sent[i].token = t
    BY <2>5, <2>8, <2>10 DEF sent
  <2> QED BY <2>9, <2>10
<1>2. IInv /\ ListInv /\ [Next]_vars => ListInv'
  BY NextListInv
<1> QED BY <1>1, <1>2, Invariant, InitListInv, PTL DEF Spec

(***************************************************************************)
(* Requests whose result comes in later messages.                           *)
(***************************************************************************)

\* The first n reports of request c.
FirstReports(c, n) == [i \in 1 .. n |-> [of |-> c, part |-> i]]

LEMMA NoReports == \A c \in Calls : FirstReports(c, 0) = <<>>
  BY DEF FirstReports

LEMMA OneReportMore ==
    ASSUME NEW c \in Calls, NEW n \in Nat
    PROVE  Append(FirstReports(c, n), [of |-> c, part |-> n + 1]) = FirstReports(c, n + 1)
<1> DEFINE q == FirstReports(c, n)
           m == [of |-> c, part |-> n + 1]
           r == FirstReports(c, n + 1)
<1>1. q \in Seq(Message) /\ Len(q) = n /\ \A i \in 1 .. n : q[i] = [of |-> c, part |-> i]
  BY DEF FirstReports, Message
<1>2. r \in Seq(Message) /\ Len(r) = n + 1 /\ \A i \in 1 .. n + 1 : r[i] = [of |-> c, part |-> i]
  BY DEF FirstReports, Message
<1>3. m \in Message
  BY DEF Message
<1> HIDE DEF q, r
<1>4. /\ Append(q, m) \in Seq(Message) /\ Len(Append(q, m)) = n + 1
      /\ \A i \in 1 .. n + 1 : Append(q, m)[i] = IF i = n + 1 THEN m ELSE q[i]
  BY <1>1, <1>3
<1>5. \A i \in 1 .. n + 1 : Append(q, m)[i] = r[i]
  BY <1>1, <1>2, <1>4
<1>6. Append(q, m) = r
  BY <1>2, <1>4, <1>5, SeqEqual
<1> QED BY <1>6 DEF q, r

-------------------------------------------------------------------------------
(* The invariant.                                                             *)

Unregistered == {"idle", "calling", "accepted"}

\* A request has a future once it is registered, and waits only for one that is not
\* cancelled; what is in the maps has been registered.
FutureInv ==
    \A c \in Calls :
        /\ stage[c] \in Unregistered => fut[c] = "none"
        /\ stage[c] = "waiting" => fut[c] \in {"pending", "done"}
        /\ stage[c] \in {"returned", "failed"} => fut[c] # "pending"
EntryInv == \A k \in Keys : entry[k] # NoCall => fut[entry[k]] # "none"

\* A message comes after the call, and is looked up after the registration if its handler
\* publishes first.
MessageInv ==
    /\ \A c \in Calls : arrived[c] <= Limit(c) /\ (stage[c] \in {"idle", "calling"} => arrived[c] = 0)
    /\ \A m \in handling \cup handled : 1 <= m.part /\ m.part <= arrived[m.of]
    /\ \A m \in handled : m.of \in Logged \cup Starts => stage[m.of] \notin Unregistered

\* Reports are handled one at a time and in order.
LookedUp(c) == IF \E m \in handling : m.of = c THEN arrived[c] - 1 ELSE arrived[c]
OneByOne ==
    /\ \A m, n \in handling : m.of \in Reports /\ n.of \in Reports => m = n
    /\ \A m \in handling : m.of \in Reports => m.part = arrived[m.of]
    /\ \A m \in handled : m.of \in Reports => m.part <= LookedUp(m.of)

\* A request for reports with an id of its own has what was looked up, its future is done
\* with the last report, and it keeps its entry until it is resumed.
ReportsInv ==
    \A c \in Logged :
        /\ stage[c] = "accepted" => LookedUp(c) = 0
        /\ stage[c] = "waiting" /\ Unique(c) =>
               /\ entry[keyOf[c]] = c
               /\ data[c] = FirstReports(c, LookedUp(c))
               /\ fut[c] = "done" <=> LookedUp(c) = Parts

\* A remote start with an id of its own waits for its first event.
StartsInv ==
    \A s \in Starts :
        stage[s] = "waiting" /\ fut[s] = "pending" /\ Unique(s) =>
            entry[keyOf[s]] = s /\ \A m \in handled : m.of # s

RequestsInv ==
    /\ RequestsTypeOK /\ FutureInv /\ EntryInv /\ MessageInv /\ OneByOne
    /\ ReportsInv /\ StartsInv /\ ReturnsAllReports

LEMMA InitRequests == RequestsInit => RequestsInv
<1> SUFFICES ASSUME RequestsInit PROVE RequestsInv
  OBVIOUS
<1>1. RequestsTypeOK
  <2>1. [c \in Calls |-> <<>>] \in [Calls -> Seq(Message)]
    OBVIOUS
  <2>2. [c \in Calls |-> NoCall] \in [Calls -> Seq(Message) \cup {NoCall}]
    OBVIOUS
  <2>3. data \in [Calls -> Seq(Message)] /\ result \in [Calls -> Seq(Message) \cup {NoCall}]
    BY <2>1, <2>2 DEF RequestsInit
  <2> QED BY <2>3 DEF RequestsInit, RequestsTypeOK, Stage, Fut
<1>2. FutureInv /\ EntryInv /\ ReportsInv /\ StartsInv /\ ReturnsAllReports
  BY CallsAssumption DEF RequestsInit, FutureInv, EntryInv, ReportsInv, StartsInv,
                         ReturnsAllReports, Calls
<1>3. MessageInv /\ OneByOne
  BY BoundsAssumption DEF RequestsInit, MessageInv, OneByOne, Limit
<1> QED BY <1>1, <1>2, <1>3 DEF RequestsInv

\* Requests with different ids have different entries.
LEMMA OwnEntry ==
    ASSUME RequestsTypeOK, NEW c \in Calls
    PROVE  /\ keyOf[c] \in Keys
           /\ entry[keyOf[c]] \in Calls \cup {NoCall}
           /\ entry[keyOf[c]] # NoCall => keyOf[entry[keyOf[c]]] = keyOf[c]
           /\ Unique(c) => entry[keyOf[c]] \in {c, NoCall}
           /\ \A d \in Calls : keyOf[d] # keyOf[c] => entry[keyOf[d]] # c
           /\ \A d \in Calls : Unique(d) /\ d # c => keyOf[d] # keyOf[c]
           /\ \A d \in Calls : d \in Reports /\ c \in Starts => keyOf[d] # keyOf[c]
<1>1. keyOf \in Ids /\ keyOf \in [Calls -> Keys] /\ entry \in [Keys -> Calls \cup {NoCall}]
  BY KeysAssumption DEF RequestsTypeOK
<1>2. \A d \in Calls : d \in Reports /\ c \in Starts => keyOf[d] # keyOf[c]
  BY <1>1, KeysAssumption
<1> QED BY <1>1, <1>2, NoCallAssumption DEF RequestsTypeOK, Unique

-------------------------------------------------------------------------------
(* The steps of a request.                                                    *)

\* Where no message comes or is handled, what is known of them holds on, as long as the
\* requests go forward.
LEMMA MessagesStay ==
    ASSUME RequestsInv, UNCHANGED <<keyOf, arrived, handling, handled>>,
           \A d \in Calls : stage'[d] \in {"idle", "calling"} => stage[d] \in {"idle", "calling"},
           \A d \in Calls : stage[d] \notin Unregistered => stage'[d] \notin Unregistered
    PROVE  /\ MessageInv' /\ OneByOne'
           /\ \A d \in Calls : LookedUp(d)' = LookedUp(d) /\ (Unique(d)' <=> Unique(d))
<1>1. \A d \in Calls : LookedUp(d)' = LookedUp(d) /\ (Unique(d)' <=> Unique(d))
  BY DEF LookedUp, Unique
<1>2. \A m \in handled : m.of \in Calls
  BY DEF RequestsInv, RequestsTypeOK, Message
<1>3. MessageInv'
  <2>1. \A m \in handled : m.of \in Logged \cup Starts => stage'[m.of] \notin Unregistered
    BY <1>2 DEF RequestsInv, MessageInv
  <2> QED BY <2>1 DEF RequestsInv, MessageInv
<1>4. OneByOne'
  <2>1. \A m \in handled : m.of \in Reports => m.part <= LookedUp(m.of)'
    BY <1>1, <1>2 DEF RequestsInv, OneByOne
  <2>2. \A m \in handled' : m.of \in Reports => m.part <= LookedUp(m.of)'
    BY <2>1
  <2> QED BY <2>2 DEF RequestsInv, OneByOne
<1> QED BY <1>1, <1>3, <1>4

\* A request goes on to stage s, without an entry or with the one it has: the messages are
\* where they were, and no other request notices.
LEMMA RequestMoves ==
    ASSUME RequestsInv, NEW c \in Calls, NEW s \in Stage, stage' = [stage EXCEPT ![c] = s],
           UNCHANGED <<keyOf, fut, entry, data, inbox, outcome>>,
           \/ stage[c] = "idle" /\ s = "calling"
           \/ stage[c] = "calling" /\ s \in {"accepted", "returned", "failed"},
           result' = result \/ (c \in Starts /\ result' = [result EXCEPT ![c] = <<>>]),
           s = "returned" => c \in Starts
    PROVE  RequestsInv'
<1>1. /\ stage' \in [Calls -> Stage] /\ stage'[c] = s
      /\ \A d \in Calls : d # c => stage'[d] = stage[d]
      /\ fut[c] = "none" /\ stage[c] \in {"idle", "calling"}
      /\ UNCHANGED <<keyOf, fut, entry, data, arrived, handling, handled, raised>>
      /\ \A d \in Calls : LookedUp(d)' = LookedUp(d) /\ (Unique(d)' <=> Unique(d))
  BY DEF RequestsInv, RequestsTypeOK, FutureInv, Unregistered, inbox, outcome, LookedUp, Unique
<1>2. RequestsTypeOK'
  <2>1. <<>> \in Seq(Message)
    OBVIOUS
  <2>2. result' \in [Calls -> Seq(Message) \cup {NoCall}]
    BY <2>1 DEF RequestsInv, RequestsTypeOK
  <2> QED BY <1>1, <2>2 DEF RequestsInv, RequestsTypeOK
<1>3. FutureInv' /\ EntryInv'
  BY <1>1 DEF RequestsInv, FutureInv, EntryInv, Unregistered
<1>4. MessageInv' /\ OneByOne'
  BY <1>1, MessagesStay DEF Unregistered
<1>6. ReportsInv'
  <2> SUFFICES ASSUME NEW d \in Logged
               PROVE  /\ stage'[d] = "accepted" => LookedUp(d)' = 0
                      /\ stage'[d] = "waiting" /\ Unique(d)' =>
                             /\ entry'[keyOf'[d]] = d
                             /\ data'[d] = FirstReports(d, LookedUp(d)')
                             /\ fut'[d] = "done" <=> LookedUp(d)' = Parts
    BY DEF ReportsInv
  <2>1. d \in Calls
    BY CallsAssumption DEF Calls
  <2>2. CASE d # c
    BY <1>1, <2>1, <2>2 DEF RequestsInv, ReportsInv
  <2>3. CASE d = c
    <3>1. arrived[c] = 0
      BY <1>1 DEF RequestsInv, MessageInv
    <3>2. ASSUME NEW m \in handling, m.of = c PROVE FALSE
      BY <3>1, <3>2 DEF RequestsInv, MessageInv, RequestsTypeOK, Message
    <3>3. LookedUp(c) = 0
      BY <3>1, <3>2 DEF LookedUp
    <3> QED BY <1>1, <2>1, <2>3, <3>3 DEF Stage
  <2> QED BY <2>2, <2>3
<1>7. StartsInv'
  <2> SUFFICES ASSUME NEW d \in Starts, stage'[d] = "waiting", fut'[d] = "pending", Unique(d)'
               PROVE  entry'[keyOf'[d]] = d /\ \A m \in handled' : m.of # d
    BY DEF StartsInv
  <2>1. d \in Calls /\ d # c
    BY <1>1 DEF Calls
  <2> QED BY <1>1, <2>1 DEF RequestsInv, StartsInv
<1>8. ReturnsAllReports'
  <2> SUFFICES ASSUME NEW d \in Logged, Unique(d)', stage'[d] = "returned"
               PROVE  result'[d] = [i \in 1 .. Parts |-> [of |-> d, part |-> i]]
    BY DEF ReturnsAllReports
  <2>1. d \in Calls /\ d # c
    BY <1>1, CallsAssumption DEF Calls
  <2>2. result'[d] = result[d]
    BY <2>1 DEF RequestsInv, RequestsTypeOK
  <2> QED BY <1>1, <2>1, <2>2 DEF RequestsInv, ReturnsAllReports
<1> QED BY <1>2, <1>3, <1>4, <1>6, <1>7, <1>8 DEF RequestsInv

\* The entry is made: nothing of the request was looked up before.
LEMMA RegisterKeeps ==
    ASSUME RequestsInv, NEW c \in Calls, Register(c)
    PROVE  RequestsInv'
<1>1. /\ stage[c] = "accepted" /\ stage'[c] = "waiting" /\ stage' \in [Calls -> Stage]
      /\ fut'[c] = "pending" /\ fut' \in [Calls -> Fut] /\ fut[c] = "none"
      /\ data'[c] = <<>> /\ data' \in [Calls -> Seq(Message)]
      /\ \A d \in Calls : d # c => stage'[d] = stage[d] /\ fut'[d] = fut[d] /\ data'[d] = data[d]
      /\ entry' = [entry EXCEPT ![keyOf[c]] = c]
      /\ UNCHANGED <<keyOf, arrived, handling, handled, raised, result>>
  <2>1. <<>> \in Seq(Message)
    OBVIOUS
  <2> QED BY <2>1 DEF Register, RequestsInv, RequestsTypeOK, FutureInv, Unregistered, Stage, Fut, inbox,
                      outcome
<1>2. \A d \in Calls : LookedUp(d)' = LookedUp(d) /\ (Unique(d)' <=> Unique(d))
  BY <1>1 DEF LookedUp, Unique
<1>3. /\ keyOf[c] \in Keys /\ entry' \in [Keys -> Calls \cup {NoCall}] /\ entry'[keyOf[c]] = c
      /\ \A k \in Keys : k # keyOf[c] => entry'[k] = entry[k]
  BY <1>1, OwnEntry DEF RequestsInv, RequestsTypeOK
<1>4. RequestsTypeOK'
  BY <1>1, <1>3 DEF RequestsInv, RequestsTypeOK
<1>5. FutureInv' /\ EntryInv'
  <2>1. FutureInv'
    BY <1>1 DEF RequestsInv, FutureInv, Unregistered
  <2>2. \A d \in Calls : fut[d] # "none" => fut'[d] # "none"
    BY <1>1
  <2>3. EntryInv'
    BY <1>1, <1>3, <2>2 DEF RequestsInv, RequestsTypeOK, EntryInv
  <2> QED BY <2>1, <2>3
<1>6. MessageInv' /\ OneByOne'
  BY <1>1, MessagesStay DEF Unregistered
<1>8. ReportsInv'
  <2> SUFFICES ASSUME NEW d \in Logged
               PROVE  /\ stage'[d] = "accepted" => LookedUp(d)' = 0
                      /\ stage'[d] = "waiting" /\ Unique(d)' =>
                             /\ entry'[keyOf'[d]] = d
                             /\ data'[d] = FirstReports(d, LookedUp(d)')
                             /\ fut'[d] = "done" <=> LookedUp(d)' = Parts
    BY DEF ReportsInv
  <2>1. d \in Calls
    BY CallsAssumption DEF Calls
  <2>2. CASE d # c
    <3>1. Unique(d) => keyOf[d] # keyOf[c] /\ keyOf[d] \in Keys
      BY <2>1, <2>2, OwnEntry DEF RequestsInv
    <3> QED BY <1>1, <1>2, <1>3, <2>1, <2>2, <3>1 DEF RequestsInv, ReportsInv
  <2>3. CASE d = c
    <3>1. LookedUp(c) = 0
      BY <1>1, <2>3 DEF RequestsInv, ReportsInv
    <3> QED BY <1>1, <1>2, <1>3, <2>3, <3>1, NoReports, BoundsAssumption
  <2> QED BY <2>2, <2>3
<1>9. StartsInv'
  <2> SUFFICES ASSUME NEW d \in Starts, stage'[d] = "waiting", fut'[d] = "pending", Unique(d)'
               PROVE  entry'[keyOf'[d]] = d /\ \A m \in handled' : m.of # d
    BY DEF StartsInv
  <2>1. d \in Calls
    BY DEF Calls
  <2>2. CASE d # c
    <3>1. keyOf[d] # keyOf[c] /\ keyOf[d] \in Keys
      BY <1>2, <2>1, <2>2, OwnEntry DEF RequestsInv
    <3> QED BY <1>1, <1>2, <1>3, <2>1, <2>2, <3>1 DEF RequestsInv, StartsInv
  <2>3. CASE d = c
    <3>1. \A m \in handled : m.of # c
      BY <1>1, <2>3 DEF RequestsInv, MessageInv, Unregistered
    <3> QED BY <1>1, <1>3, <2>3, <3>1
  <2> QED BY <2>2, <2>3
<1>10. ReturnsAllReports'
  <2> SUFFICES ASSUME NEW d \in Logged, Unique(d)', stage'[d] = "returned"
               PROVE  result'[d] = [i \in 1 .. Parts |-> [of |-> d, part |-> i]]
    BY DEF ReturnsAllReports
  <2>1. d \in Calls /\ d # c
    BY <1>1, CallsAssumption DEF Calls
  <2> QED BY <1>1, <1>2, <2>1 DEF RequestsInv, ReturnsAllReports
<1> QED BY <1>4, <1>5, <1>6, <1>8, <1>9, <1>10 DEF RequestsInv

\* The timeout: the request does not wait any more.
LEMMA ExpireKeeps ==
    ASSUME RequestsInv, NEW c \in Calls, Expire(c)
    PROVE  RequestsInv'
<1>1. /\ stage[c] = "waiting" /\ stage'[c] = (IF c \in Reports THEN "failed" ELSE "returned")
      /\ stage' \in [Calls -> Stage] /\ fut'[c] = "cancelled" /\ fut' \in [Calls -> Fut]
      /\ \A d \in Calls : d # c => stage'[d] = stage[d] /\ fut'[d] = fut[d]
      /\ UNCHANGED <<keyOf, entry, data, arrived, handling, handled, raised, result>>
  BY DEF Expire, RequestsInv, RequestsTypeOK, Stage, Fut, inbox, outcome
<1>2. /\ MessageInv' /\ OneByOne'
      /\ \A d \in Calls : LookedUp(d)' = LookedUp(d) /\ (Unique(d)' <=> Unique(d))
  BY <1>1, MessagesStay DEF Unregistered
<1>3. RequestsTypeOK'
  BY <1>1 DEF RequestsInv, RequestsTypeOK
<1>4. FutureInv'
  BY <1>1 DEF RequestsInv, FutureInv, Unregistered
<1>5. EntryInv'
  <2>1. \A d \in Calls : fut[d] # "none" => fut'[d] # "none"
    BY <1>1
  <2> QED BY <1>1, <2>1 DEF RequestsInv, RequestsTypeOK, EntryInv
<1>6. \A d \in Calls : stage'[d] \in {"accepted", "waiting"} => d # c
  BY <1>1
<1>7. ReportsInv'
  <2> SUFFICES ASSUME NEW d \in Logged
               PROVE  /\ stage'[d] = "accepted" => LookedUp(d)' = 0
                      /\ stage'[d] = "waiting" /\ Unique(d)' =>
                             /\ entry'[keyOf'[d]] = d
                             /\ data'[d] = FirstReports(d, LookedUp(d)')
                             /\ fut'[d] = "done" <=> LookedUp(d)' = Parts
    BY DEF ReportsInv
  <2>1. d \in Calls
    BY CallsAssumption DEF Calls
  <2> QED BY <1>1, <1>2, <1>6, <2>1 DEF RequestsInv, ReportsInv
<1>8. StartsInv'
  <2> SUFFICES ASSUME NEW d \in Starts, stage'[d] = "waiting", fut'[d] = "pending", Unique(d)'
               PROVE  entry'[keyOf'[d]] = d /\ \A m \in handled' : m.of # d
    BY DEF StartsInv
  <2>1. d \in Calls /\ d # c
    BY <1>6 DEF Calls
  <2> QED BY <1>1, <1>2, <2>1 DEF RequestsInv, StartsInv
<1>9. ReturnsAllReports'
  <2> SUFFICES ASSUME NEW d \in Logged, Unique(d)', stage'[d] = "returned"
               PROVE  result'[d] = [i \in 1 .. Parts |-> [of |-> d, part |-> i]]
    BY DEF ReturnsAllReports
  <2>1. d \in Calls /\ d # c
    BY <1>1, CallsAssumption DEF Calls
  <2> QED BY <1>1, <1>2, <2>1 DEF RequestsInv, ReturnsAllReports
<1> QED BY <1>2, <1>3, <1>4, <1>5, <1>7, <1>8, <1>9 DEF RequestsInv

\* The request is resumed: one with an id of its own finds its own data, which is complete.
LEMMA ReturnKeeps ==
    ASSUME RequestsInv, NEW c \in Calls, Return(c)
    PROVE  RequestsInv'
<1> DEFINE owner == IF c \in Reports THEN entry[keyOf[c]] ELSE c
<1>1. /\ stage[c] = "waiting" /\ fut[c] = "done"
      /\ UNCHANGED <<keyOf, fut, data, arrived, handling, handled, raised>>
  BY DEF Return, inbox, outcome
<1>2. /\ stage' \in [Calls -> Stage] /\ stage'[c] \in {"returned", "failed"}
      /\ \A d \in Calls : d # c => stage'[d] = stage[d]
  BY DEF Return, RequestsInv, RequestsTypeOK, Stage
<1>3. \/ entry' = entry
      \/ c \in Reports /\ entry' = [entry EXCEPT ![keyOf[c]] = NoCall]
  BY DEF Return
<1>4. /\ entry' \in [Keys -> Calls \cup {NoCall}]
      /\ \A k \in Keys : entry'[k] \in {entry[k], NoCall}
      /\ \A k \in Keys : k # keyOf[c] => entry'[k] = entry[k]
      /\ c \in Starts => entry' = entry
  BY <1>3, CallsAssumption DEF RequestsInv, RequestsTypeOK
<1>5. /\ owner \in Calls \cup {NoCall}
      /\ \/ stage'[c] = "failed" /\ result' = result
         \/ owner # NoCall /\ result' = [result EXCEPT ![c] = data[owner]]
  <2>1. owner \in Calls \cup {NoCall}
    BY OwnEntry DEF RequestsInv
  <2> QED BY <2>1 DEF Return, RequestsInv, RequestsTypeOK
<1>6. /\ result' \in [Calls -> Seq(Message) \cup {NoCall}]
      /\ \A d \in Calls : d # c => result'[d] = result[d]
      /\ stage'[c] = "returned" => owner # NoCall /\ result'[c] = data[owner]
  BY <1>2, <1>5 DEF RequestsInv, RequestsTypeOK
<1> HIDE DEF owner
<1>7. /\ MessageInv' /\ OneByOne'
      /\ \A d \in Calls : LookedUp(d)' = LookedUp(d) /\ (Unique(d)' <=> Unique(d))
  BY <1>1, <1>2, MessagesStay DEF Unregistered
<1>8. RequestsTypeOK'
  BY <1>1, <1>2, <1>4, <1>6 DEF RequestsInv, RequestsTypeOK
<1>9. FutureInv' /\ EntryInv'
  <2>1. FutureInv'
    BY <1>1, <1>2 DEF RequestsInv, FutureInv, Unregistered
  <2>2. EntryInv'
    BY <1>1, <1>4 DEF RequestsInv, EntryInv
  <2> QED BY <2>1, <2>2
<1>10. \A d \in Calls : Unique(d) /\ d # c => keyOf[d] \in Keys /\ entry'[keyOf[d]] = entry[keyOf[d]]
  BY <1>4, OwnEntry DEF RequestsInv
<1>11. ReportsInv'
  <2> SUFFICES ASSUME NEW d \in Logged
               PROVE  /\ stage'[d] = "accepted" => LookedUp(d)' = 0
                      /\ stage'[d] = "waiting" /\ Unique(d)' =>
                             /\ entry'[keyOf'[d]] = d
                             /\ data'[d] = FirstReports(d, LookedUp(d)')
                             /\ fut'[d] = "done" <=> LookedUp(d)' = Parts
    BY DEF ReportsInv
  <2>1. d \in Calls
    BY CallsAssumption DEF Calls
  <2> QED BY <1>1, <1>2, <1>7, <1>10, <2>1 DEF RequestsInv, ReportsInv
<1>12. StartsInv'
  <2> SUFFICES ASSUME NEW d \in Starts, stage'[d] = "waiting", fut'[d] = "pending", Unique(d)'
               PROVE  entry'[keyOf'[d]] = d /\ \A m \in handled' : m.of # d
    BY DEF StartsInv
  <2>1. d \in Calls /\ d # c
    BY <1>2 DEF Calls
  <2> QED BY <1>1, <1>2, <1>7, <1>10, <2>1 DEF RequestsInv, StartsInv
<1>13. ReturnsAllReports'
  <2> SUFFICES ASSUME NEW d \in Logged, Unique(d)', stage'[d] = "returned"
               PROVE  result'[d] = FirstReports(d, Parts)
    BY DEF ReturnsAllReports, FirstReports
  <2>1. d \in Calls /\ d \in Reports
    BY CallsAssumption DEF Calls
  <2>2. CASE d # c
    BY <1>2, <1>6, <1>7, <2>1, <2>2 DEF RequestsInv, ReturnsAllReports, FirstReports
  <2>3. CASE d = c
    <3>1. entry[keyOf[c]] = c /\ data[c] = FirstReports(c, Parts)
      BY <1>1, <1>7, <2>1, <2>3 DEF RequestsInv, ReportsInv
    <3> QED BY <1>6, <2>1, <2>3, <3>1 DEF owner
  <2> QED BY <2>2, <2>3
<1> QED BY <1>7, <1>8, <1>9, <1>11, <1>12, <1>13 DEF RequestsInv

-------------------------------------------------------------------------------
(* The messages.                                                              *)

\* The next message comes, when no report is being handled if it is a report.
LEMMA ArriveKeeps ==
    ASSUME RequestsInv, NEW c \in Calls, Arrive(c)
    PROVE  RequestsInv'
<1> DEFINE a == [of |-> c, part |-> arrived[c] + 1]
<1>1. /\ stage[c] \notin {"idle", "calling"} /\ arrived[c] < Limit(c)
      /\ c \in Reports => \A m \in handling : m.of \in Starts
      /\ handling' = handling \cup {a}
      /\ UNCHANGED <<keyOf, stage, fut, entry, data, handled, raised, result>>
  BY DEF Arrive, task, outcome
<1>2. arrived \in [Calls -> Nat] /\ Limit(c) \in Nat
  BY BoundsAssumption DEF RequestsInv, RequestsTypeOK, Limit
<1>3. /\ arrived' \in [Calls -> Nat] /\ arrived'[c] = arrived[c] + 1
      /\ \A d \in Calls : d # c => arrived'[d] = arrived[d]
  BY <1>2 DEF Arrive
<1>4. a \in Message /\ a.of = c /\ a.part = arrived[c] + 1
  BY <1>2 DEF Message
<1> HIDE DEF a
<1>5. \A m \in handling \cup handled : m.of \in Calls /\ m.part \in Nat
  BY DEF RequestsInv, RequestsTypeOK, Message
<1>6. \A d \in Reports : d \in Calls /\ LookedUp(d)' = LookedUp(d)
  <2> SUFFICES ASSUME NEW d \in Reports PROVE d \in Calls /\ LookedUp(d)' = LookedUp(d)
    OBVIOUS
  <2>1. d \in Calls
    BY DEF Calls
  <2>2. CASE d # c
    BY <1>1, <1>3, <1>4, <2>1, <2>2 DEF LookedUp
  <2>3. CASE d = c
    <3>1. \A m \in handling : m.of # c
      BY <1>1, <2>3, CallsAssumption
    <3>2. LookedUp(c) = arrived[c]
      BY <3>1 DEF LookedUp
    <3>3. LookedUp(c)' = arrived'[c] - 1
      BY <1>1, <1>4 DEF LookedUp
    <3> QED BY <1>2, <1>3, <2>1, <2>3, <3>2, <3>3
  <2> QED BY <2>2, <2>3
<1>7. RequestsTypeOK'
  BY <1>1, <1>3, <1>4 DEF RequestsInv, RequestsTypeOK
<1>8. FutureInv' /\ EntryInv'
  BY <1>1 DEF RequestsInv, FutureInv, EntryInv
<1>9. MessageInv'
  <2>1. \A d \in Calls : arrived'[d] <= Limit(d)' /\ (stage'[d] \in {"idle", "calling"} => arrived'[d] = 0)
    <3> SUFFICES ASSUME NEW d \in Calls
                 PROVE  arrived'[d] <= Limit(d) /\ (stage'[d] \in {"idle", "calling"} => arrived'[d] = 0)
      BY DEF Limit
    <3>1. CASE d # c
      BY <1>1, <1>3, <3>1 DEF RequestsInv, MessageInv
    <3>2. CASE d = c
      BY <1>1, <1>2, <1>3, <3>2
    <3> QED BY <3>1, <3>2
  <2>2. \A m \in handling \cup handled : 1 <= m.part /\ m.part <= arrived'[m.of]
    <3> SUFFICES ASSUME NEW m \in handling \cup handled
                 PROVE  1 <= m.part /\ m.part <= arrived'[m.of]
      OBVIOUS
    <3>1. 1 <= m.part /\ m.part <= arrived[m.of]
      BY DEF RequestsInv, MessageInv
    <3>2. arrived'[m.of] = arrived[m.of] \/ arrived'[m.of] = arrived[m.of] + 1
      BY <1>3, <1>5
    <3> QED BY <1>2, <1>5, <3>1, <3>2
  <2>3. 1 <= a.part /\ a.part <= arrived'[a.of]
    BY <1>2, <1>3, <1>4
  <2> QED BY <1>1, <2>1, <2>2, <2>3 DEF RequestsInv, MessageInv
<1>10. OneByOne'
  <2>1. \A m, n \in handling' : m.of \in Reports /\ n.of \in Reports => m = n
    BY <1>1, <1>4, CallsAssumption DEF RequestsInv, OneByOne
  <2>2. \A m \in handling : m.of \in Reports => m.part = arrived'[m.of]
    BY <1>1, <1>3, <1>5, CallsAssumption DEF RequestsInv, OneByOne
  <2>3. a.part = arrived'[a.of]
    BY <1>3, <1>4
  <2>4. \A m \in handled' : m.of \in Reports => m.part <= LookedUp(m.of)'
    <3> SUFFICES ASSUME NEW m \in handled, m.of \in Reports PROVE m.part <= LookedUp(m.of)'
      BY <1>1
    <3>1. m.part <= LookedUp(m.of)
      BY DEF RequestsInv, OneByOne
    <3> QED BY <1>6, <3>1
  <2> QED BY <1>1, <2>1, <2>2, <2>3, <2>4 DEF OneByOne
<1>11. ReportsInv'
  <2> SUFFICES ASSUME NEW d \in Logged
               PROVE  /\ stage'[d] = "accepted" => LookedUp(d)' = 0
                      /\ stage'[d] = "waiting" /\ Unique(d)' =>
                             /\ entry'[keyOf'[d]] = d
                             /\ data'[d] = FirstReports(d, LookedUp(d)')
                             /\ fut'[d] = "done" <=> LookedUp(d)' = Parts
    BY DEF ReportsInv
  <2>1. d \in Reports /\ (Unique(d)' <=> Unique(d))
    BY <1>1, CallsAssumption DEF Unique
  <2> QED BY <1>1, <1>6, <2>1 DEF RequestsInv, ReportsInv
<1>12. StartsInv' /\ ReturnsAllReports'
  <2>1. \A d \in Calls : Unique(d)' <=> Unique(d)
    BY <1>1 DEF Unique
  <2>2. Logged \subseteq Calls /\ Starts \subseteq Calls
    BY CallsAssumption DEF Calls
  <2> QED BY <1>1, <2>1, <2>2 DEF RequestsInv, StartsInv, ReturnsAllReports
<1> QED BY <1>7, <1>8, <1>9, <1>10, <1>11, <1>12 DEF RequestsInv

\* What a handler does to the futures: at most one that is pending is done.
LEMMA Completes ==
    ASSUME RequestsInv, NEW m \in handling, NEW o \in Calls, Complete(m, o)
    PROVE  /\ fut' \in [Calls -> Fut] /\ \A d \in Calls : d # o => fut'[d] = fut[d]
           /\ fut[o] = "pending" => fut'[o] = "done" /\ raised' = raised
           /\ fut[o] # "pending" => fut'[o] = fut[o] /\ raised' = raised \cup {m}
  BY DEF Complete, RequestsInv, RequestsTypeOK, Fut

\* A message has been handled: of the reports of its request one more was looked up.
LEMMA HandledOne ==
    ASSUME RequestsInv, NEW m \in handling, Finished(m), UNCHANGED <<keyOf, stage, arrived>>,
           Ready(m)
    PROVE  /\ handling' = handling \ {m} /\ handled' = handled \cup {m}
           /\ m \in Message /\ m.of \in Calls /\ handling' \subseteq Message /\ handled' \subseteq Message
           /\ stage[m.of] \notin {"idle", "calling"}
           /\ m.of \in Logged \cup Starts => stage[m.of] \notin Unregistered
           /\ \A d \in Reports : d # m.of => LookedUp(d)' = LookedUp(d)
           /\ m.of \in Reports => /\ LookedUp(m.of) = m.part - 1 /\ LookedUp(m.of)' = m.part
                                  /\ m.part \in 1 .. Parts /\ m = [of |-> m.of, part |-> m.part]
           /\ MessageInv' /\ OneByOne'
<1>1. handling' = handling \ {m} /\ handled' = handled \cup {m}
  BY DEF Finished
<1>2. /\ m \in Message /\ m.of \in Calls /\ m.part \in Nat /\ m = [of |-> m.of, part |-> m.part]
      /\ arrived \in [Calls -> Nat]
      /\ \A n \in handling \cup handled : n.of \in Calls /\ n.part \in Nat
  BY DEF RequestsInv, RequestsTypeOK, Message
<1>3. /\ 1 <= m.part /\ m.part <= arrived[m.of] /\ arrived[m.of] <= Limit(m.of)
      /\ stage[m.of] \in {"idle", "calling"} => arrived[m.of] = 0
  BY <1>2 DEF RequestsInv, MessageInv
<1>4. stage[m.of] \notin {"idle", "calling"}
  BY <1>2, <1>3
<1>5. m.of \in Logged \cup Starts => stage[m.of] \notin Unregistered
  BY <1>4 DEF Ready, Unregistered
<1>6. \A d \in Reports : d # m.of => LookedUp(d)' = LookedUp(d)
  BY <1>1 DEF LookedUp
<1>7. ASSUME m.of \in Reports
      PROVE  LookedUp(m.of) = m.part - 1 /\ LookedUp(m.of)' = m.part /\ m.part <= Parts
  <2>1. m.part = arrived[m.of]
    BY <1>7 DEF RequestsInv, OneByOne
  <2>2. LookedUp(m.of) = m.part - 1
    BY <2>1 DEF LookedUp
  <2>3. \A n \in handling' : n.of # m.of
    BY <1>1, <1>7 DEF RequestsInv, OneByOne
  <2>4. LookedUp(m.of)' = m.part
    BY <2>1, <2>3 DEF LookedUp
  <2> QED BY <1>3, <1>7, <2>1, <2>2, <2>4 DEF Limit
<1>8. MessageInv'
  <2>1. \A n \in handled' : n.of \in Logged \cup Starts => stage'[n.of] \notin Unregistered
    BY <1>1, <1>5 DEF RequestsInv, MessageInv
  <2>2. handling' \cup handled' = handling \cup handled
    BY <1>1
  <2> QED BY <2>1, <2>2 DEF RequestsInv, MessageInv
<1>9. OneByOne'
  <2>1. /\ \A n, k \in handling' : n.of \in Reports /\ k.of \in Reports => n = k
        /\ \A n \in handling' : n.of \in Reports => n.part = arrived'[n.of]
    BY <1>1 DEF RequestsInv, OneByOne
  <2>2. \A n \in handled' : n.of \in Reports => n.part <= LookedUp(n.of)'
    <3> SUFFICES ASSUME NEW n \in handled', n.of \in Reports PROVE n.part <= LookedUp(n.of)'
      OBVIOUS
    <3>1. CASE n = m
      BY <1>2, <1>7, <3>1
    <3>2. CASE n # m
      <4>1. n \in handled /\ n.part \in Nat /\ n.part <= LookedUp(n.of)
        BY <1>1, <1>2, <3>2 DEF RequestsInv, OneByOne
      <4>2. CASE n.of # m.of
        BY <1>6, <4>1, <4>2
      <4>3. CASE n.of = m.of
        <5>1. n.part <= m.part - 1 /\ LookedUp(n.of)' = m.part
          BY <1>7, <4>1, <4>3
        <5> QED BY <1>2, <4>1, <5>1
      <4> QED BY <4>2, <4>3
    <3> QED BY <3>1, <3>2
  <2> QED BY <2>1, <2>2 DEF OneByOne
<1> QED BY <1>1, <1>2, <1>3, <1>4, <1>5, <1>6, <1>7, <1>8, <1>9 DEF RequestsInv, RequestsTypeOK

\* A report: it belongs to the request under its id, and completes it if it is the last.
LEMMA LookupKeeps ==
    ASSUME RequestsInv, NEW m \in handling, m.of \in Reports, Lookup(m)
    PROVE  RequestsInv'
<1> DEFINE o == entry[keyOf[m.of]]
<1>1. Ready(m) /\ Finished(m) /\ UNCHANGED <<keyOf, stage, result, entry, arrived>>
  BY DEF Lookup
<1>2. /\ handled' = handled \cup {m} /\ m \in Message /\ m.of \in Calls
      /\ handling' \subseteq Message /\ handled' \subseteq Message
      /\ m.of \in Logged => stage[m.of] \notin Unregistered
      /\ \A d \in Reports : d # m.of => LookedUp(d)' = LookedUp(d)
      /\ LookedUp(m.of) = m.part - 1 /\ LookedUp(m.of)' = m.part
      /\ m.part \in 1 .. Parts /\ m = [of |-> m.of, part |-> m.part]
      /\ MessageInv' /\ OneByOne'
  BY <1>1, HandledOne
<1>3. /\ o \in Calls \cup {NoCall} /\ (o # NoCall => keyOf[o] = keyOf[m.of])
      /\ Unique(m.of) => o \in {m.of, NoCall}
  BY <1>2, OwnEntry DEF RequestsInv
<1>4. /\ fut' \in [Calls -> Fut] /\ \A d \in Calls : d # o => fut'[d] = fut[d]
      /\ o = NoCall \/ ~IsLast(m) => fut' = fut /\ raised' = raised
      /\ o # NoCall /\ IsLast(m) =>
             /\ fut[o] = "pending" => fut'[o] = "done" /\ raised' = raised
             /\ fut[o] # "pending" => fut'[o] = fut[o] /\ raised' = raised \cup {m}
  <2>1. CASE o = NoCall
    BY <2>1 DEF Lookup, RequestsInv, RequestsTypeOK
  <2>2. CASE o # NoCall /\ ~IsLast(m)
    BY <2>2 DEF Lookup, RequestsInv, RequestsTypeOK
  <2>3. CASE o # NoCall /\ IsLast(m)
    <3>1. Complete(m, o) /\ o \in Calls
      BY <1>3, <2>3 DEF Lookup
    <3> QED BY <2>3, <3>1, Completes
  <2> QED BY <2>1, <2>2, <2>3
<1>5. /\ data' \in [Calls -> Seq(Message)] /\ \A d \in Calls : d # o => data'[d] = data[d]
      /\ o # NoCall => data'[o] = Append(data[o], m)
  <2>1. CASE o = NoCall
    BY <2>1 DEF Lookup, RequestsInv, RequestsTypeOK
  <2>2. CASE o # NoCall
    <3>1. data' = [data EXCEPT ![o] = Append(@, m)] /\ o \in Calls
      BY <1>3, <2>2 DEF Lookup
    <3>2. data[o] \in Seq(Message) /\ Append(data[o], m) \in Seq(Message)
      BY <1>2, <3>1 DEF RequestsInv, RequestsTypeOK
    <3> QED BY <2>2, <3>1, <3>2 DEF RequestsInv, RequestsTypeOK
  <2> QED BY <2>1, <2>2
<1> HIDE DEF o
<1>6. RequestsTypeOK'
  <2>1. raised' \subseteq handled'
    BY <1>2, <1>4 DEF RequestsInv, RequestsTypeOK
  <2> QED BY <1>1, <1>2, <1>4, <1>5, <2>1 DEF RequestsInv, RequestsTypeOK
<1>7. \A d \in Calls : fut'[d] = fut[d] \/ (fut[d] = "pending" /\ fut'[d] = "done")
  BY <1>3, <1>4
<1>8. FutureInv' /\ EntryInv'
  <2>1. FutureInv'
    BY <1>1, <1>7 DEF RequestsInv, FutureInv, Unregistered
  <2>2. \A k \in Keys : entry[k] # NoCall => entry[k] \in Calls
    BY DEF RequestsInv, RequestsTypeOK
  <2>3. EntryInv'
    BY <1>1, <1>7, <2>2 DEF RequestsInv, EntryInv
  <2> QED BY <2>1, <2>3
<1>9. \A d \in Calls : Unique(d)' <=> Unique(d)
  BY <1>1 DEF Unique
<1>10. ReportsInv'
  <2> SUFFICES ASSUME NEW d \in Logged
               PROVE  /\ stage'[d] = "accepted" => LookedUp(d)' = 0
                      /\ stage'[d] = "waiting" /\ Unique(d)' =>
                             /\ entry'[keyOf'[d]] = d
                             /\ data'[d] = FirstReports(d, LookedUp(d)')
                             /\ fut'[d] = "done" <=> LookedUp(d)' = Parts
    BY DEF ReportsInv
  <2>1. d \in Calls /\ d \in Reports
    BY CallsAssumption DEF Calls
  <2>2. CASE d # m.of
    <3>1. Unique(d) => d # o
      BY <1>2, <1>3, <2>1, <2>2, NoCallAssumption DEF Unique
    <3> QED BY <1>1, <1>2, <1>4, <1>5, <1>9, <2>1, <2>2, <3>1 DEF RequestsInv, ReportsInv
  <2>3. CASE d = m.of
    <3>1. stage[d] # "accepted"
      BY <1>2, <2>3 DEF Unregistered
    <3>2. ASSUME stage[d] = "waiting", Unique(d)
          PROVE  /\ entry[keyOf[d]] = d
                 /\ data'[d] = FirstReports(d, LookedUp(d)')
                 /\ fut'[d] = "done" <=> LookedUp(d)' = Parts
      <4> DEFINE n == m.part - 1
      <4>1. entry[keyOf[d]] = d /\ data[d] = FirstReports(d, n) /\ (fut[d] = "done" <=> n = Parts)
        BY <1>2, <2>3, <3>2 DEF RequestsInv, ReportsInv
      <4>2. o = d /\ o # NoCall
        BY <2>1, <2>3, <4>1, NoCallAssumption DEF o
      <4>3. n \in Nat /\ n + 1 = m.part /\ n # Parts
        BY <1>2, BoundsAssumption
      <4>4. m = [of |-> d, part |-> n + 1]
        BY <1>2, <2>3, <4>3
      <4> HIDE DEF n
      <4>5. data'[d] = FirstReports(d, n + 1)
        BY <1>5, <2>1, <4>1, <4>2, <4>3, <4>4, OneReportMore
      <4>6. fut[d] = "pending"
        BY <2>1, <3>2, <4>1, <4>3 DEF RequestsInv, FutureInv
      <4>7. IsLast(m) <=> m.part = Parts
        BY <2>1, <2>3, CallsAssumption DEF IsLast
      <4>8. fut'[d] = "done" <=> m.part = Parts
        BY <1>4, <4>2, <4>6, <4>7
      <4> QED BY <1>2, <2>3, <4>1, <4>3, <4>5, <4>8
    <3> QED BY <1>1, <1>9, <2>1, <3>1, <3>2
  <2> QED BY <2>2, <2>3
<1>11. StartsInv'
  <2> SUFFICES ASSUME NEW s \in Starts, stage'[s] = "waiting", fut'[s] = "pending", Unique(s)'
               PROVE  entry'[keyOf'[s]] = s /\ \A n \in handled' : n.of # s
    BY DEF StartsInv
  <2>1. s \in Calls /\ s # m.of
    BY CallsAssumption DEF Calls
  <2>2. fut[s] = "pending"
    BY <1>7, <2>1
  <2> QED BY <1>1, <1>2, <1>9, <2>1, <2>2 DEF RequestsInv, StartsInv
<1>12. ReturnsAllReports'
  <2>1. Logged \subseteq Calls
    BY CallsAssumption DEF Calls
  <2> QED BY <1>1, <1>9, <2>1 DEF RequestsInv, ReturnsAllReports
<1> QED BY <1>2, <1>6, <1>8, <1>10, <1>11, <1>12 DEF RequestsInv

\* The event of a start: the wait for it ends, and its entry goes.
LEMMA FollowKeeps ==
    ASSUME RequestsInv, NEW m \in handling, m.of \in Starts, Follow(m)
    PROVE  RequestsInv'
<1> DEFINE o == entry[keyOf[m.of]]
<1>1. /\ Ready(m) /\ Finished(m) /\ UNCHANGED <<keyOf, stage, result, arrived>>
      /\ entry' = [entry EXCEPT ![keyOf[m.of]] = NoCall]
  BY DEF Follow
<1>2. /\ handled' = handled \cup {m} /\ m \in Message /\ m.of \in Calls
      /\ handling' \subseteq Message /\ handled' \subseteq Message
      /\ \A d \in Reports : LookedUp(d)' = LookedUp(d)
      /\ MessageInv' /\ OneByOne'
  BY <1>1, HandledOne, CallsAssumption
<1>3. /\ o \in Calls \cup {NoCall} /\ (o # NoCall => keyOf[o] = keyOf[m.of]) /\ keyOf[m.of] \in Keys
      /\ \A d \in Calls : Unique(d) /\ d # m.of => d # o /\ keyOf[d] # keyOf[m.of]
      /\ \A d \in Reports : d \in Calls /\ d # o /\ keyOf[d] # keyOf[m.of]
  <2>1. \A d \in Calls : d \in Reports => keyOf[d] # keyOf[m.of]
    BY <1>2, OwnEntry DEF RequestsInv
  <2>2. /\ o \in Calls \cup {NoCall} /\ (o # NoCall => keyOf[o] = keyOf[m.of]) /\ keyOf[m.of] \in Keys
        /\ \A d \in Calls : Unique(d) /\ d # m.of => keyOf[d] # keyOf[m.of]
    BY <1>2, OwnEntry DEF RequestsInv
  <2> HIDE DEF o
  <2> QED BY <2>1, <2>2, NoCallAssumption DEF Calls
<1>4. /\ fut' \in [Calls -> Fut] /\ \A d \in Calls : d # o => fut'[d] = fut[d]
      /\ o = NoCall => fut' = fut /\ raised' = raised \cup {m}
      /\ o # NoCall =>
             /\ fut[o] = "pending" => fut'[o] = "done" /\ raised' = raised
             /\ fut[o] # "pending" => fut'[o] = fut[o] /\ raised' = raised \cup {m}
  <2>1. CASE o = NoCall
    BY <2>1 DEF Follow, RequestsInv, RequestsTypeOK
  <2>2. CASE o # NoCall
    <3>1. Complete(m, o) /\ o \in Calls
      BY <1>3, <2>2 DEF Follow
    <3> QED BY <2>2, <3>1, Completes
  <2> QED BY <2>1, <2>2
<1>5. data' \in [Calls -> Seq(Message)] /\ \A d \in Calls : d # o => data'[d] = data[d]
  <2>1. CASE o = NoCall
    BY <2>1 DEF Follow, RequestsInv, RequestsTypeOK
  <2>2. CASE o # NoCall
    <3>1. data' = [data EXCEPT ![o] = <<m>>] /\ <<m>> \in Seq(Message)
      BY <1>2, <2>2 DEF Follow
    <3> QED BY <3>1 DEF RequestsInv, RequestsTypeOK
  <2> QED BY <2>1, <2>2
<1>6. /\ entry' \in [Keys -> Calls \cup {NoCall}]
      /\ \A k \in Keys : entry'[k] \in {entry[k], NoCall}
      /\ \A k \in Keys : k # keyOf[m.of] => entry'[k] = entry[k]
      /\ \A d \in Calls : keyOf[d] \in Keys
  <2>1. \A d \in Calls : keyOf[d] \in Keys
    BY OwnEntry DEF RequestsInv
  <2> QED BY <1>1, <2>1 DEF RequestsInv, RequestsTypeOK
<1> HIDE DEF o
<1>7. RequestsTypeOK'
  <2>1. raised' \subseteq handled'
    BY <1>2, <1>4 DEF RequestsInv, RequestsTypeOK
  <2> QED BY <1>1, <1>2, <1>4, <1>5, <1>6, <2>1 DEF RequestsInv, RequestsTypeOK
<1>8. \A d \in Calls : fut'[d] = fut[d] \/ (fut[d] = "pending" /\ fut'[d] = "done")
  BY <1>3, <1>4
<1>9. FutureInv' /\ EntryInv'
  <2>1. FutureInv'
    BY <1>1, <1>8 DEF RequestsInv, FutureInv, Unregistered
  <2>2. \A k \in Keys : entry[k] # NoCall => entry[k] \in Calls
    BY DEF RequestsInv, RequestsTypeOK
  <2>3. EntryInv'
    BY <1>6, <1>8, <2>2 DEF RequestsInv, EntryInv
  <2> QED BY <2>1, <2>3
<1>10. \A d \in Calls : Unique(d)' <=> Unique(d)
  BY <1>1 DEF Unique
<1>11. ReportsInv'
  <2> SUFFICES ASSUME NEW d \in Logged
               PROVE  /\ stage'[d] = "accepted" => LookedUp(d)' = 0
                      /\ stage'[d] = "waiting" /\ Unique(d)' =>
                             /\ entry'[keyOf'[d]] = d
                             /\ data'[d] = FirstReports(d, LookedUp(d)')
                             /\ fut'[d] = "done" <=> LookedUp(d)' = Parts
    BY DEF ReportsInv
  <2>1. d \in Reports
    BY CallsAssumption
  <2>2. d \in Calls /\ d # o /\ entry'[keyOf[d]] = entry[keyOf[d]]
    BY <1>3, <1>6, <2>1
  <2> QED BY <1>1, <1>2, <1>4, <1>5, <1>10, <2>1, <2>2 DEF RequestsInv, ReportsInv
<1>12. StartsInv'
  <2> SUFFICES ASSUME NEW s \in Starts, stage'[s] = "waiting", fut'[s] = "pending", Unique(s)'
               PROVE  entry'[keyOf'[s]] = s /\ \A n \in handled' : n.of # s
    BY DEF StartsInv
  <2>1. s \in Calls /\ fut[s] = "pending" /\ Unique(s)
    BY <1>8, <1>10 DEF Calls
  <2>2. entry[keyOf[s]] = s /\ \A n \in handled : n.of # s
    BY <1>1, <2>1 DEF RequestsInv, StartsInv
  <2>3. CASE s # m.of
    <3>1. entry'[keyOf[s]] = entry[keyOf[s]]
      BY <1>3, <1>6, <2>1, <2>3
    <3> QED BY <1>1, <1>2, <2>2, <2>3, <3>1
  <2>4. CASE s = m.of
    <3>1. o = s /\ o # NoCall
      BY <2>1, <2>2, <2>4, NoCallAssumption DEF o
    <3> QED BY <1>4, <2>1, <3>1
  <2> QED BY <2>3, <2>4
<1>13. ReturnsAllReports'
  <2>1. Logged \subseteq Calls
    BY CallsAssumption DEF Calls
  <2> QED BY <1>1, <1>10, <2>1 DEF RequestsInv, ReturnsAllReports
<1> QED BY <1>2, <1>7, <1>9, <1>11, <1>12, <1>13 DEF RequestsInv

-------------------------------------------------------------------------------
LEMMA NextRequests == RequestsInv /\ [RequestsNext]_requests => RequestsInv'
<1> SUFFICES ASSUME RequestsInv, [RequestsNext]_requests PROVE RequestsInv'
  OBVIOUS
<1>1. ASSUME NEW c \in Calls, Call(c) PROVE RequestsInv'
  <2>1. /\ stage[c] = "idle" /\ stage' = [stage EXCEPT ![c] = "calling"]
        /\ UNCHANGED <<keyOf, fut, entry, data, inbox, outcome>> /\ result' = result
    BY <1>1 DEF Call
  <2>2. "calling" \in Stage /\ "calling" # "returned"
    BY DEF Stage
  <2> QED BY <2>1, <2>2, RequestMoves
<1>2. ASSUME NEW c \in Calls, Accept(c) PROVE RequestsInv'
  BY <1>2, RequestMoves DEF Accept, Stage
<1>3. ASSUME NEW c \in Calls, Refuse(c) PROVE RequestsInv'
  BY <1>3, RequestMoves DEF Refuse, Stage
<1>4. ASSUME NEW s \in Starts, AcceptWithId(s) PROVE RequestsInv'
  <2>1. s \in Calls
    BY DEF Calls
  <2> QED BY <1>4, <2>1, RequestMoves DEF AcceptWithId, Stage
<1>5. ASSUME NEW c \in Calls, RequestStep(c) PROVE RequestsInv'
  BY <1>5, RegisterKeeps, ExpireKeeps, ReturnKeeps DEF RequestStep
<1>6. ASSUME NEW c \in Calls, Arrive(c) PROVE RequestsInv'
  BY <1>6, ArriveKeeps
<1>7. ASSUME NEW m \in handling, HandlerStep(m) PROVE RequestsInv'
  BY <1>7, LookupKeeps, FollowKeeps DEF HandlerStep
<1>8. CASE UNCHANGED requests
  <2>1. UNCHANGED <<keyOf, stage, fut, entry, data, arrived, handling, handled, raised, result>>
    BY <1>8 DEF requests
  <2>2. /\ MessageInv' /\ OneByOne'
        /\ \A d \in Calls : LookedUp(d)' = LookedUp(d) /\ (Unique(d)' <=> Unique(d))
    BY <2>1, MessagesStay
  <2>3. RequestsTypeOK' /\ FutureInv' /\ EntryInv'
    BY <2>1 DEF RequestsInv, RequestsTypeOK, FutureInv, EntryInv
  <2>4. Logged \subseteq Calls /\ Starts \subseteq Calls
    BY CallsAssumption DEF Calls
  <2>5. ReportsInv' /\ StartsInv' /\ ReturnsAllReports'
    BY <2>1, <2>2, <2>4 DEF RequestsInv, ReportsInv, StartsInv, ReturnsAllReports
  <2> QED BY <2>2, <2>3, <2>5 DEF RequestsInv
<1> QED BY <1>1, <1>2, <1>3, <1>4, <1>5, <1>6, <1>7, <1>8 DEF RequestsNext

LEMMA RequestsInvariant == RequestsSpec => []RequestsInv
  BY InitRequests, NextRequests, PTL DEF RequestsSpec

\* Every variable stays in its domain and an entry is under the id of its request, for any
\* requests, ids, reports and repetitions.
THEOREM RequestsTypeCorrect == RequestsSpec => []RequestsTypeOK
<1>1. RequestsInv => RequestsTypeOK
  BY DEF RequestsInv
<1> QED BY <1>1, RequestsInvariant, PTL

\* async_request returns all reports of its own request in order (chargePointRepr.py:438, 789),
\* when its id is unique and its reports are published first.
THEOREM AllReportsReturned == RequestsSpec => []ReturnsAllReports
<1>1. RequestsInv => ReturnsAllReports
  BY DEF RequestsInv
<1> QED BY <1>1, RequestsInvariant, PTL

\* The last message of a request ends its wait (chargePointRepr.py:791, 749).
THEOREM LastMessageEndsWait == RequestsSpec => []LastEndsWait
<1>1. RequestsInv => LastEndsWait
  <2> SUFFICES ASSUME RequestsInv, NEW m \in handled, m.of \in Logged \cup Starts, Unique(m.of),
                      IsLast(m), stage[m.of] = "waiting"
               PROVE  fut[m.of] = "done"
    BY DEF LastEndsWait
  <2>1. m.of \in Calls /\ m.part \in Nat
    BY DEF RequestsInv, RequestsTypeOK, Message
  <2>2. CASE m.of \in Starts
    <3>1. fut[m.of] \in {"pending", "done"}
      BY <2>1 DEF RequestsInv, FutureInv
    <3> QED BY <2>2, <3>1 DEF RequestsInv, StartsInv
  <2>3. CASE m.of \in Logged
    <3>1. m.of \in Reports /\ m.part = Parts
      BY <2>3, CallsAssumption DEF IsLast
    <3>2. Parts <= LookedUp(m.of)
      BY <3>1 DEF RequestsInv, OneByOne
    <3>3. arrived[m.of] \in Nat /\ arrived[m.of] <= Parts
      BY <2>1, <3>1 DEF RequestsInv, RequestsTypeOK, MessageInv, Limit
    <3>4. LookedUp(m.of) = Parts
      BY <3>2, <3>3, BoundsAssumption DEF LookedUp
    <3> QED BY <2>3, <3>4 DEF RequestsInv, ReportsInv
  <2> QED BY <2>2, <2>3
<1> QED BY <1>1, RequestsInvariant, PTL

\* A handler that raises has nobody waiting for its message (chargePointRepr.py:749, 791).
THEOREM HandlersRaiseOnlyLate == RequestsSpec => RaisesOnlyLate
<1>1. RequestsInv /\ [RequestsNext]_requests =>
          [\A m \in raised' \ raised :
              Unique(m.of) => stage[m.of] \in {"returned", "failed"} \/ fut[m.of] = "done"]_requests
  <2> SUFFICES ASSUME RequestsInv, RequestsNext, NEW m \in raised' \ raised, Unique(m.of)
               PROVE  stage[m.of] \in {"returned", "failed"} \/ fut[m.of] = "done"
    BY DEF requests
  <2>1. PICK n \in handling : HandlerStep(n)
    BY DEF RequestsNext, Call, Accept, Refuse, RequestStep, Register, Expire, Return, Arrive,
           AcceptWithId, outcome
  <2> DEFINE o == entry[keyOf[n.of]]
  <2>2. m = n
    BY <2>1 DEF HandlerStep, Lookup, Follow, Complete
  <2>3. m.of \in Calls
    BY <2>2 DEF RequestsInv, RequestsTypeOK, Message
  <2>4. o \in {m.of, NoCall}
    BY <2>2, <2>3, OwnEntry DEF RequestsInv
  <2>5. m.of # NoCall
    BY <2>3, NoCallAssumption
  <2>6. CASE o = m.of
    <3>1. fut[m.of] # "pending"
      BY <2>1, <2>2, <2>5, <2>6 DEF HandlerStep, Lookup, Follow, Complete
    <3>2. fut[m.of] # "none"
      BY <2>2, <2>3, <2>5, <2>6, OwnEntry DEF RequestsInv, EntryInv
    <3> QED BY <2>3, <3>1, <3>2 DEF RequestsInv, RequestsTypeOK, FutureInv, Unregistered, Stage
  <2>7. CASE o = NoCall
    <3>1. m.of \in Starts /\ Follow(m)
      BY <2>1, <2>2, <2>7 DEF HandlerStep, Lookup
    <3>2. stage[m.of] \notin Unregistered
      BY <2>2, <3>1, HandledOne DEF Follow
    <3>3. stage[m.of] = "waiting" => fut[m.of] # "pending"
      BY <2>2, <2>5, <2>7, <3>1 DEF RequestsInv, StartsInv
    <3> QED BY <2>3, <3>2, <3>3 DEF RequestsInv, RequestsTypeOK, FutureInv, Unregistered, Stage
  <2> QED BY <2>4, <2>6, <2>7
<1> QED BY <1>1, RequestsInvariant, PTL DEF RequestsSpec, RaisesOnlyLate
===============================================================================
