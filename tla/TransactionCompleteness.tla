------------------------- MODULE TransactionCompleteness -------------------------
(***************************************************************************)
(* How the CSMS finds out whether it has all the events of an ended         *)
(* transaction (chargePointRepr.py: after_TransactionEvent,                 *)
(* guarantee_transaction_integrity), composed with the station that sends   *)
(* them from its queue (StationQueue, on_GetTransactionStatus).             *)
(*                                                                          *)
(* Every TransactionEvent the CSMS handles starts a task.  For the ended    *)
(* event, and while the transaction is in out_of_order_transaction, the     *)
(* task asks the station whether it still holds messages; when it does not, *)
(* the task asks the database whether the events are complete.              *)
(***************************************************************************)
EXTENDS StationQueue

CONSTANT MaxTasks \* bound on the events handled, repetitions included

ASSUME TaskBounds == MaxTasks \in Nat

Tasks == 1 .. MaxTasks

VARIABLES tasks,      \* number of tasks of after_TransactionEvent started
          after,      \* [Tasks -> AfterPC]
          outOfOrder, \* the transaction is in out_of_order_transaction
          behind,     \* an event was sent after the answer that is on its way
          between,    \* in this behaviour the station answers a status request only
                      \* when no event is between its sending and the end of its call
          verdicts    \* what guarantee_transaction_integrity has returned

csms == <<tasks, after, outOfOrder, behind, between, verdicts>>
vars == <<station, csms>>

\* "holds", "empty": the station's answer is on its way.
AfterPC == {"none", "ended", "other", "asking", "holds", "empty", "verifying",
            "done", "failed"}

CInit ==
    /\ Init
    /\ tasks = 0
    /\ after = [i \in Tasks |-> "none"]
    /\ outOfOrder = FALSE
    /\ behind = FALSE
    /\ between \in BOOLEAN
    /\ verdicts = {}

Answering == \E i \in Tasks : after[i] \in {"holds", "empty"}

-------------------------------------------------------------------------------
\* The connection keeps the order of what the station sends on it.
SendEvent ==
    /\ Send
    /\ behind' = Answering
    /\ UNCHANGED <<tasks, after, outOfOrder, between, verdicts>>

\* Variant for the mutation runs: the next event takes over the task.
HandleEventOverTask ==
    /\ Handle
    /\ ~behind
    /\ LET e == Head(calls).event
       IN  IF e = BootNotification
           THEN UNCHANGED <<tasks, after>>
           ELSE /\ tasks < MaxTasks
                /\ tasks' = 1
                /\ after' = [after EXCEPT ![tasks + 1] =
                                 IF e = LastEvent THEN "ended" ELSE "other"]
    /\ UNCHANGED <<outOfOrder, behind, between, verdicts>>

\* An event is handled, and a task is started for it.
HandleEvent ==
    /\ Handle
    /\ ~behind
    /\ LET e == Head(calls).event
       IN  IF e = BootNotification
           THEN UNCHANGED <<tasks, after>>
           ELSE /\ tasks < MaxTasks
                /\ tasks' = tasks + 1
                /\ after' = [after EXCEPT ![tasks + 1] =
                                 IF e = LastEvent THEN "ended" ELSE "other"]
    /\ UNCHANGED <<outOfOrder, behind, between, verdicts>>

\* Variant for the mutation runs: only the ended event is followed by a check.
BeginEndedOnly(i) ==
    /\ \/ after[i] = "ended" /\ after' = [after EXCEPT ![i] = "asking"]
       \/ after[i] = "other" /\ after' = [after EXCEPT ![i] = "done"]
    /\ UNCHANGED <<station, tasks, outOfOrder, behind, between, verdicts>>

\* The task runs: line 763 decides whether there is something to check.
Begin(i) ==
    /\ \/ /\ after[i] = "ended" \/ (after[i] = "other" /\ outOfOrder)
          /\ after' = [after EXCEPT ![i] = "asking"]
       \/ /\ after[i] = "other" /\ ~outOfOrder
          /\ after' = [after EXCEPT ![i] = "done"]
    /\ UNCHANGED <<station, tasks, outOfOrder, behind, between, verdicts>>

\* The station answers getTransactionStatus: has it queued messages of the
\* transaction?  The message of a call that was answered is queued until the task
\* that made the call is resumed.  One request of the CSMS is in progress at a time.
Answer(i) ==
    /\ after[i] = "asking" /\ up
    /\ ~Answering
    /\ between /\ wire # "idle" => Head(calls).event = BootNotification
    /\ after' = [after EXCEPT ![i] = IF queue # <<>> THEN "holds" ELSE "empty"]
    /\ UNCHANGED <<station, tasks, outOfOrder, behind, between, verdicts>>

\* Variants for the mutation runs: the transaction stays out of order; the answer is
\* not looked at.
NoteKeepsOutOfOrder(i) ==
    /\ after[i] \in {"holds", "empty"}
    /\ wire = "sent" => behind
    /\ behind' = FALSE
    /\ outOfOrder' = (outOfOrder \/ after[i] = "holds")
    /\ after' = [after EXCEPT ![i] = IF after[i] = "holds" THEN "done" ELSE "verifying"]
    /\ UNCHANGED <<station, tasks, between, verdicts>>
NoteHoldsIgnored(i) ==
    /\ after[i] \in {"holds", "empty"}
    /\ wire = "sent" => behind
    /\ behind' = FALSE
    /\ outOfOrder' = FALSE
    /\ after' = [after EXCEPT ![i] = "verifying"]
    /\ UNCHANGED <<station, tasks, between, verdicts>>

\* The answer arrives, after the events sent before it: lines 767-773.
Note(i) ==
    /\ after[i] \in {"holds", "empty"}
    /\ wire = "sent" => behind
    /\ behind' = FALSE
    /\ outOfOrder' = (after[i] = "holds")
    /\ after' = [after EXCEPT ![i] = IF after[i] = "holds" THEN "done" ELSE "verifying"]
    /\ UNCHANGED <<station, tasks, between, verdicts>>

\* The database is asked (TransactionStore's Verify): what the CSMS received is
\* published to it before the question.
Verify(i) ==
    /\ after[i] = "verifying"
    /\ verdicts' = verdicts \cup {IF received = Events THEN "complete" ELSE "lost"}
    /\ after' = [after EXCEPT ![i] = "done"]
    /\ UNCHANGED <<station, tasks, outOfOrder, behind, between>>

\* The connection is lost: the next one has a ChargePoint object, and a set of
\* transactions that are out of order, of its own.  Requests of the old one end with
\* an exception, and so do their tasks.
DropObject ==
    /\ Drop
    /\ outOfOrder' = FALSE
    /\ behind' = FALSE
    /\ after' = [i \in Tasks |->
                    IF after[i] \in {"ended", "other", "asking", "holds"} THEN "failed"
                    ELSE IF after[i] = "empty" THEN "verifying" ELSE after[i]]
    /\ UNCHANGED <<tasks, between, verdicts>>

\* The station is stopped and started again: the CSMS loses the connection with it.
StopObject ==
    /\ Stop
    /\ outOfOrder' = FALSE
    /\ behind' = FALSE
    /\ after' = [i \in Tasks |->
                    IF after[i] \in {"ended", "other", "asking", "holds"} THEN "failed"
                    ELSE IF after[i] = "empty" THEN "verifying" ELSE after[i]]
    /\ UNCHANGED <<tasks, between, verdicts>>

StationStep ==
    \/ Occur \/ Return \/ SendFails \/ Timeout \/ Restore
    \/ \E d \in Drains : Boot(d)

TaskStep(i) == Begin(i) \/ Answer(i) \/ Note(i) \/ Verify(i)

CNext ==
    \/ StationStep /\ UNCHANGED csms
    \/ SendEvent \/ HandleEvent \/ DropObject \/ StopObject
    \/ \E i \in Tasks : TaskStep(i)

\* The fairness of the station, and the CSMS runs its tasks, whose publishes end.
CFairness ==
    /\ WF_vars(SendEvent \/ ((Return \/ SendFails \/ Timeout) /\ UNCHANGED csms))
    /\ WF_vars(HandleEvent)
    /\ WF_vars(Restore /\ UNCHANGED csms)
    /\ \A i \in Tasks : WF_vars(TaskStep(i))

CSpec == CInit /\ [][CNext]_vars
CFairSpec == CSpec /\ CFairness

-------------------------------------------------------------------------------
(* Properties.                                                             *)

\* Every variable of the station and the CSMS stays in its domain; tasks that were not
\* started have no state.
TypeOK ==
    /\ StationTypeOK
    /\ tasks \in 0 .. MaxTasks
    /\ after \in [Tasks -> AfterPC]
    /\ \A i \in Tasks : after[i] = "none" <=> i > tasks
    /\ outOfOrder \in BOOLEAN /\ behind \in BOOLEAN /\ between \in BOOLEAN
    /\ verdicts \subseteq {"complete", "lost"}

\* "Messages lost for transaction" (line 783) is never concluded while the missing
\* events are still with the station: in its queue, or in a call.
NoFalseAlarm ==
    [][\A i \in Tasks :
          /\ after[i] = "verifying" /\ after'[i] = "done"
          /\ "lost" \in verdicts' \ verdicts
          => \E e \in Events \ received : ~InQueue(e) /\ ~InCall(e) /\ e <= occurred]_vars

\* Once the transaction has ended the CSMS expects further messages only as long as
\* the station holds some, or has not been told of the answer to the last.
ExpectsOnlyHeld ==
    between /\ outOfOrder =>
        queue # <<>> \/ \E i \in Tasks : after[i] \notin {"none", "done", "failed"}

\* Line 764 "verify that all messages have been received": once the station has
\* delivered all events of the ended transaction, the transaction is verified,
\* unless the connection was lost or the station restarted.
Delivered == received = Events /\ queue = <<>> /\ calls = <<>>
Verified == verdicts # {} \/ drops > 0 \/ stops > 0
IsVerified == between /\ Delivered ~> Verified
===============================================================================
