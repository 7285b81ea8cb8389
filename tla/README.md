# IT_CSMS: TLA+ models, checks and proofs

IT_CSMS is a charging station management system for OCPP 2.0.1: an HTTP API, an
OCPP websocket server, a relational database service and the RabbitMQ layer that
joins them, together with two charge station clients.  This directory holds TLA+
modules of its core logic, TLC configurations that check them on small instances
and TLAPS proofs of the properties that matter most.  All paths below are
relative to the repository.

## 1. Inventory

### 1.1 Components, state, operations

| Component | Source | State it keeps | Operations |
|---|---|---|---|
| RabbitMQ layer | `src/rabbit_mq/rabbit_handler.py`, `Rabbit_Message.py`, `fanout_Rabbit_Handler.py` | `futures`: request id to future; broker queues | `send_request_wait_response`, `on_request`, `on_response`, `ocpp_log`, `unpack` (ack) |
| OCPP server | `src/CSMS/ocpp_server/ocpp_server.py` | `connected_CPs` | `on_cp_connect`, `handle_api_request`, `verify_protocols`, `shut_down` |
| Charge point representation | `src/CSMS/ocpp_server/chargePointRepr.py` | `is_online`, `change_is_online`, `multiple_response_requests`, `wait_start_transaction`, `wait_reservation_evse_id`, `out_of_order_transaction`, class variable `server_variables` (id counters) | one method per API command, one `on`/`after` handler per OCPP message |
| SQL_DB | `src/CSMS/db/db.py`, `db_Tables.py`, `database_Base.py` | the relational tables | one method per database request, one transaction each |
| API | `src/CSMS/api/api.py`, `service.py`, `auth.py`, `schemas/` | `transaction_cache`, SSE listeners, login sessions | HTTP endpoints |
| Full station client | `src/charge_station/client/charge_station.py`, `Transaction.py`, `src/charge_station/db/db_CS.py` | `queued_messages`, `ongoing_transactions`, `status`, `connection_active` | events from the decision point, OCPP requests from the CSMS |
| Simple station client | `src/charge_station/simple_ocpp_client.py` | none of its own | forwards between OCPP and the fanout exchange |
| Mocks, simulation, certificates, launcher | `src/charge_station/mocks`, `src/certs`, `src/CSMS/__main__.py`, `src/sgee_client.py`, `src/test.py` | - | development aids |

### 1.2 How they interact

- A station holds one websocket to the OCPP server. `on_cp_connect` runs once per
  websocket and creates one `ChargePoint` object for it; `connected_CPs` maps the
  station's id to that object, and API requests are dispatched through the map.
  The `ocpp` library handles the messages of one websocket one at a time, starts
  every `after` handler as a task of its own, and lets one call per direction be
  in progress.
- Services exchange JSON messages through RabbitMQ. A *request* carries an id and
  a reply queue and is matched to a future by the id; a *log* (`ocpp_log`) is
  published and forgotten, and every failure of it is swallowed.
- The OCPP server tells SQL_DB everything by logs (`BootNotification`,
  `TransactionEvent`, `update` of `is_online`) and asks it by requests
  (`select`, `verify_received_all_transaction`). SQL_DB runs each request in one
  database transaction. A retry, a second later, is written for PyMySQL's
  `OperationalError` (db.py:63); SQLAlchemy raises a class of its own instead, so
  the branch seems never to be taken.
- The station's decision point talks to the full client through a fanout
  exchange whose messages use their *intent* as request id.

### 1.3 What is hard

Every service is one asyncio process: an `await` is the only place where another
task runs, and nearly every handler has several. Hence:

- state read before an `await` and used after it: the id check of
  `on_cp_connect`, `is_online` in `after_Heartbeat` and `set_on_off`, the head of
  `queued_messages`, the conflict check of `setChargingProfile`;
- events of one transaction that arrive late, twice, or never, because the
  station queues, retries and reconnects;
- timeouts that race the late answer (`send_request_wait_response`,
  `async_request`, `requestStartTransaction`);
- writes to two places of which the second may fail: the password attribute of a
  station and the database's row, a profile at the station and its row, a list
  sent in several messages, the API's cache after the station acted;
- values read once and used for ever: the password on the client's command line;
- handlers that wait inside the loop that reads the websocket, for a decision
  point that may be waiting for that loop;
- crashes: messages acknowledged before they are handled, ids and queues that
  are stored at shutdown only, `is_online` rows that outlive the server.

`PROJECT.json` lists each of these under "hazards" at its line.

### 1.4 What makes each component correct

| Component | Correct when |
|---|---|
| RabbitMQ layer | a call ends once, with the answer to its own request or a failure; a request is handled at most once; `futures` does not grow |
| OCPP server: connections | `connected_CPs` holds exactly the connections that are served; a station is never locked out by its own past |
| OCPP server: online tracking | the row agrees with the server, a silent station ends up offline, and only silence or the end of the connection takes it there |
| SQL_DB: transactions | in every order of arrival the row shows the newest information, an ended transaction stays inactive, the completeness check is exact |
| Station client: delivery | no event is lost between the decision point and the CSMS |
| Station client: transactions, EVSEs, remote requests | what the client knows follows what happens at the station; a remote request ends |
| OCPP server: completeness | no event that the station still holds is reported lost; every delivered transaction is verified |
| Requests with several responses, remote start | every wait ends, with its own data; no late message fails its handler |
| Charging profiles, identifiers | no two ids are the same; no two stored profiles contradict each other |
| Authorization lists | the station has what was sent of the latest full list, versions go forward, nobody is let in with a token that was not valid |
| API: cache | the cache follows the transactions and never suppresses a request that is needed |
| Station password | a change that is reported done has set the station's attribute and the row alike, and the old password is refused from then on; a client with the row's password gets in |

## 2. Modules

| Module | Models | Abstract specification | Proofs |
|---|---|---|---|
| `TransactionStore` | `db.py` `TransactionEvent`, `verify_received_all_transaction`, commit, rollback and retry | `TransactionRecord` | `TransactionStoreProofs` |
| `RabbitRpc` | `rabbit_handler.py` requests and responses | `RpcPromise` | `RabbitRpcProofs` |
| `ConnectionRegistry` | `ocpp_server.py` `on_cp_connect`, `verify_protocols` | - | `ConnectionProofs` |
| `OnlineTracker` | `chargePointRepr.py` `after_Heartbeat`, `set_on_off` | - | `ConnectionProofs` |
| `StationQueue` | `charge_station.py` `request_transaction_event`, `send_queued_messages`, `request_boot_notification`, `call`, `run` | - | `TransactionCompletenessProofs` |
| `TransactionCompleteness` | `after_TransactionEvent`'s check, composed with `StationQueue` and the station's `on_GetTransactionStatus` | `StationQueue` | `TransactionCompletenessProofs` |
| `PendingRequests` | `async_request`, `received_message_async_request`, the wait of `requestStartTransaction` and its end in `after_TransactionEvent` | - | `RequestProofs` |
| `LocalList` | `service.py` `send_authList`, `chargePointRepr.py` `sendAuhorizationList`, `sendListByChunks`, `authorize_idToken`, the station's `on_SendLocalList`, `updateLocalList`, `request_authorize` | - | `RequestProofs` |
| `ChargingProfiles` | `setChargingProfile` and its checks, `choose_profile_id`, `new_external_profiles`, `clearChargingProfile`, `setmaxpower`, the rows of `db.py`, `server_variables` | - | `ChargingProfilesProofs` |
| `TransactionCache` | `service.py` `update_transaction_cache`, `set_transaction_limits` | - | `TransactionCacheProofs` |
| `StationPassword` | `update_cp_password`, `setVariables`, `setVariable`, `update_CP_password`, `check_credentials`, `verify_password`, `create_Tables` | - | `StationProofs` |
| `StationTransactions` | the client's `known_evses`, `ongoing_transactions`, registration checks, and remote requests forwarded to the decision point | - | `StationProofs` |

`MC<Module>` holds the finite sets of an instance. An operator whose comment says
"Variant for the mutation runs" is not part of the model: it is a plausible bug,
put in place of the definition that follows it, and each property of a run is
violated by at least one.

### 2.1 TransactionStore

A transaction is its events `0..Last`, numbered by the station (`seq_no`). The row
is `stored` (the `Transaction_Event` rows), `active`, and `val`, where a column is
represented by the number of the event that supplied its value. `Record`, `Send`
and `Lose` are the station and the way to the database: an event is sent up to
`MaxSends` times, in any order, and may be lost. `Process`, `FailOnce`, `Retry`
and `GiveUp` are `on_db_request` with its transaction: an attempt commits all of
`Apply` or nothing. `FailOnce` and `Retry` are the retry of db.py:63-68, one more
attempt after other requests have had their turn; it is kept although SQLAlchemy
does not raise the class that is caught, so the model has more behaviours than the
program, and the properties hold in all of them. `SetInactive` is the update
`set_on_off` sends for a station that went offline. `Verify` is
`verify_received_all_transaction` as an operator. Columns outside `PlainFields`
stand for `cable_max_current`, which `collect_important_metervalues` (db.py:259)
puts back after missing values were removed: an in-order event without it writes
NULL over the known value. The model does what the code does; comment
`db.py:298` promises otherwise.

`TransactionRecord` is what the rows promise: a newest event and `active`; an old
or repeated event changes nothing and the last event closes the record.

### 2.2 RabbitRpc

One requesting process with concurrent calls, the broker, one service. A call is
`Start` (future registered, line 156), `Route`/`Published`/`PublishFails`,
`Return` or `Expire` then `GiveUp` (the cancellation of the future and the
`except` block are separate steps of the event loop). A response is matched by
`KeyOf` alone: unique for `Topic_Message`, the intent for `Fanout_Message`. The
service acknowledges before it handles (`Ack`), handles, responds or stays
silent. Either process may crash. The publish of line 159 is outside `wait_for`:
nothing makes it end but the broker, so `EveryCallEnds` is about calls that are
past it, and only the steps after it (`WaitStep`) are fair. `RpcPromise` says that a call is issued, served
at most once, and ends once with its own answer or a failure.

### 2.3 ConnectionRegistry

One coroutine per socket, with a program counter at each `await` of
`on_cp_connect`. `Arrive` checks the map, `SelectAnswered` the database's ids,
`Register` writes the map after `verify_protocols`, `Unregister` removes the id
after `set_on_off`. `OverlappingIds` are the ids whose connections may be set up
concurrently, `ErrorIds` those whose handlers may raise something other than a
`WebSocketException`; both are legal at run time, and each of the two breaks one
property.

### 2.4 OnlineTracker

One station, its successive connections (each with its own `is_online` and
`change_is_online`), the tasks of `after_Heartbeat` (`beat`) and the timer tasks
they arm (`alarm`), the update messages on their way (`queue`) and the database
row. A BootNotification runs `after_Heartbeat` inside the receive loop, a
Heartbeat as a task. On the connections in `OverlappingSessions` a beat may be
received before the previous one is handled. `ocpp_log` has a bare `except`, so a
timer that is cancelled while it publishes goes on (`Cancelled`).

### 2.5 StationQueue

One transaction's events `1..LastEvent`, the queue, and `calls`: the line at the
lock that the `ocpp` library keeps around a call, its head in the state `wire`.
`Occur` is `request_transaction_event`, `Boot`..`Return`
`request_boot_notification` and the run of `send_queued_messages` after it,
`Fail` the three `except` blocks. `Drains` is the set of BootNotifications that
may be under way at a time. `Stop` is SIGINT and a new start. A message that
timed out is taken to be handled before its timeout or not at all, and every
BootNotification is accepted, as this CSMS does. Only events that reach line 208
are in the model: one whose handler raises or returns before it (a token that is
looked at or refused, an EVSE that was not announced, an ended event without a
place, lines 179-206) is never queued and is lost. An answer that is a CALLERROR
counts as delivered, as in the code (`call` returns None, lines 156-157 and 212).
A run whose call raises before it awaits anything repeats lines 149-159 for ever
without giving way; the model has no such call.

### 2.6 TransactionCompleteness

Extends `StationQueue` with the CSMS's side: each handled event starts a task of
`after_TransactionEvent`; for the ended event, and while the transaction is out
of order, it asks the station whether it still holds messages (`Answer`, `Note`)
and then the database (`Verify`). `behind` keeps the order in which the station
sends an answer and its next event on one websocket. `between` fixes for a
behaviour whether status requests are answered only while no event is between
its sending and the end of its call. `DropObject` is a lost connection: the next
`ChargePoint` object has an empty `out_of_order_transaction`.

### 2.7 PendingRequests

`Reports` are calls of `async_request`, `Starts` of `requestStartTransaction`.
Each makes its call (`Call`, `Accept`, `Refuse`, `AcceptWithId`), adds an entry
under its id (`Register`) and waits (`Return`, `Expire`). Reports are handled in
the receive loop, events of a transaction by tasks of their own; both find the
entry by id alone (`Lookup`, `Follow`), so the second of two requests with one id
takes over the first one's reports. `keyOf` fixes for a behaviour which ids are
equal. A handler that publishes to the broker first goes on only after the task
of an accepted request has been resumed, because a publish passes through the
event loop and the answer came before (`Ready`); `on_NotifyMonitoringReport` does
not, and its reports may be dropped.

### 2.8 LocalList

An update (`Updates`) reads the rows (`Read`, in any order for a full update),
decides each entry and asks the station for its version and its limit
(`Prepare`), and then sends one message after the other (`Deliver`), the first
with the requested `update_type` and the others as differentials. The station
installs a message as one database transaction or refuses it; a refusal is only
an answer, a lost answer ends the update. `overlapping` fixes for a behaviour
whether updates run side by side; updates are numbered in the order they read
the rows, so that no behaviour is checked twice under other names. `Ask`,
`Select`, `Answer` are a driver's authorization, while rows change (`ChangeRow`)
and lists are installed.

### 2.9 ChargingProfiles

A request takes an id (`Begin`, `Choose`), has the conflict check answered
through SQL_DB's queue (`DbSelect`), asks the station (`Accept`, `Refuse`; an
accepted profile whose answer is lost ends as `failed`) and publishes the row
(`Publish`, which may fail unnoticed). `rows` and `have` are the two copies.
`SetMaxPower` reads the transaction's profiles first and replaces the one of the
highest level. `StartWithProfile` is a remote start with a profile, whose id may be
one the request names and whose validation may fail after the id was taken; a
remote start without an EVSE is left out. `End` is the end of a transaction, `External` a larger id found at
the station, `Restart` an orderly stop (the counter is saved) or a crash (it is
not). Profiles are valid from now on and without end; those with dates are left
out, and so are schedule ids, which are handed out like profile ids.

### 2.10 TransactionCache

The events of one station's transactions come through the API's queue, in
order or late and repeated (`orderly`), and change the cache (`OnEvent`). A call
of `set_transaction_limits` reads the entry (`Begin`), asks the station (`Take`,
`Refuse`) and writes the entry (`Finish`), which raises when the entry has gone.
The action names no EVSE (service.py:226), so the station has one: `acting`.

### 2.11 StationPassword

Three passwords: the `attribute` BasicAuthPassword in the station's database, which
`setVariable` writes and nobody reads; the `Argument` of the client's command line,
with which `run` connects for ever (charge_station.py:104-106); and SQL_DB's `row`,
which `verify_password` compares it with. A change (`Begin` to `Store`) writes the
attribute and then the row. Its call may be refused, given up and handled late
(`GiveUpCall`, `LateSet`), cut by a new connection, or answered with
`reboot_required` (`WantReboot`), for which the code sends a Reset and does not tell
SQL_DB. The client's own handler answers accepted or rejected; only a decision
point behind the simple client can want a reboot. `Connect` is the client's
reconnection loop, `CheckFails` a check that gets no answer in time, `Restart` a new
start of SQL_DB, which drops the tables.

### 2.12 StationTransactions

The decision point's reports come through the fanout exchange; each is taken by
a handler (`TakeStatus`, `TakeEvent`, `TakeEnded`, or `TakeRaises` when the
handler fails) and called to the CSMS, one call at a time (`Transmit`,
`ReadAnswer`, `CallFails`). The loop that reads the websocket (`Read`) handles
the CSMS's requests: it answers at once or waits in `handling` for the decision
point (`AskPoint`, `Decide`, `StopAsking`). An `orderly` decision point announces an EVSE
before its transactions and reports no tokens; a `patient` one does nothing while
it waits for the answer to a report, which closes the circle of waiting.
What happens to events that could not be sent is `StationQueue`'s matter.

## 3. Runs

| Run | Instance | Shows |
|---|---|---|
| `transaction_store` | 3 events sent up to twice, 2 columns | the newest event wins, nothing foreign gets into a row, the completeness check is exact, and the rows implement `TransactionRecord` |
| `rpc_topic` | 3 concurrent calls with unique ids, one crash | a call gets its own answer, no entry is left behind, every published call ends, the layer implements `RpcPromise` |
| `registry` | two overlapping connections of one id, two of an id whose handlers fail, one unknown id | the map is exact where its assumptions hold, lost connections leave it |
| `online` | 2 connections (beats overlap on the first), 3 beats, one crash of the server | the row agrees, a silent station ends up offline, only silence takes it there |
| `completeness` | 3 events, 1 loss of the connection, 1 timeout, 1 restart of the client | nothing is lost, the queue survives and is emptied, no false alarm, every delivered transaction is verified |
| `station_two_drains` | 4 events, two overlapping BootNotifications | **violated** `NothingLost`: a message never sent is removed |
| `pending` | 2 requests of 2 reports each, with equal or different ids, one remote start whose event comes up to twice | reports are returned whole and in order, every wait ends, a message fails its handler only when nobody waits for it |
| `local_list` | 2 tokens, one with a date, 2 updates, limits 0 and 1, one change of the rows | lists are replaced whole, versions go forward, nobody is let in unduly, every update ends |
| `profiles` | 3 requests one after the other or 2 overlapping, one EVSE and the whole station, levels 0 and 1, a given and an external id, a restart or crash | stored profiles do not contradict each other, ids are fresh |
| `transaction_cache` | 2 transactions of 3 events, 2 calls, one repeated event, a crash of the API | an entry's action is the station's, the cache follows the events, a call raises only after the end |
| `password` | 3 changes, 1 loss of the connection, 2 faults, SQL_DB started again | what is reported done is in the attribute and in the row, the old password is refused from then on, a client with the row's password gets in |
| `station_transactions` | one EVSE, 2 transactions, one remote request of any kind, 2 reports on their way, one loss or restart | the client's view is right, a remote request ends |

**Bounds.** Three events are the least with a middle one that may be late, early
or repeated against both ends; four are needed only for two runs of
`send_queued_messages` to remove one that was never sent. Three calls let one be
late while another is answered and a third is registered. Two connections of an
id make every race on it; two ids keep the two hazards apart. Three beats put a
timer, the beat that should cancel it and a later one side by side on both sides
of a reconnection. One crash, one timeout and one loss each can fall at every
step; more repeat the same states with a larger counter. Two reports are the
least with one that is not the last, and a start's event that comes twice finds
its entry gone. Two tokens and a limit of one split a full update into a
replacing message and an adding one; two updates run one after, or across, the
other. A second EVSE adds no kind of conflict to one EVSE and the whole station,
which are compared as if they were two. Two changes of a password leave one that
failed and one that succeeds; a third follows both. One loss of the connection is
where a client has to offer its password again, before, during or after them. `MaxTasks`, `MaxQueued` and
`MaxId` bound counters: `MaxTasks` and `MaxId` are larger than what their
instances can reach, `MaxQueued` lets one report wait while another is called.

**Deadlock** is not checked: every instance ends when its bounded events, calls
and connections are used up.

**Fairness.** Only what the program's own scheduler gives: a task whose `await` is
over is resumed, `wait_for` expires, armed timers go off, the database service
works through its queue, a station reconnects (`websockets.connect` retries for
ever) and a reached CSMS answers. Nothing is assumed of decision points,
stations' heartbeats, other connections or the delivery of responses. In
particular `RemoteRequestsEnd` needs the client's loop and its 5 s timer and not
the decision point, and `EveryUpdateEnds` counts a call that times out as one
of the ends.

*Publishes end.* A publish to RabbitMQ has no timeout (rabbit_handler.py:159, 181):
a broker that blocks its publishers holds the task for ever. Where a fair step
contains a publish, that it ends is an assumption about the broker: in
`LostIsRemoved`, `SilentIsOffline`, `DrainEmptiesQueue` and `IsVerified` (the CSMS
publishes an event before it answers), `EveryUpdateEnds`, `ClientReturns` and
`RemoteRequestsEnd`. `EveryCallEnds` does not assume it and is about calls whose
publish has ended; `EveryRequestEnds` is about a call to the station and the wait
after it, between which nothing is published.

**Assumptions about the outside.** RabbitMQ keeps the order of one channel;
publishes in `OnlineTracker` are delivered; asyncio resumes ready tasks in the
order they became ready (`First`); a websocket keeps the order of its messages;
the `ocpp` library handles the messages of one connection one at a time and lets
one call per direction be in progress.

## 4. Disagreements

`station_two_drains` has a run and a finding: `send_queued_messages` removes
whichever message is first after its await, so two overlapping
BootNotifications lose an event that line 214's comment says will be sent.

The properties of the other runs leave out the situations below, in which they do
not hold; the modules state each in the property's first conjuncts, and
`PROJECT.json` at the hazard's line.

- *Identity of a request.* `Fanout_Message` uses its intent as request id
  (Rabbit_Message.py:63): a late response completes the next request of that
  intent.
- *Connections.* `on_cp_connect` checks the id before two awaits and registers it
  after them (ocpp_server.py:146-162): two overlapping connections of one id are
  both served. Only `WebSocketException` is caught around `cp.start()` (line 167):
  any other error leaves the dead connection in the map and its station is refused
  for ever.
- *Beats.* Two overlapping beats of an offline station arm two timers and keep one
  handle (chargePointRepr.py:861): the other takes a talking station offline.
  After a crash of the OCPP server the row of a station that never returns stays
  online.
- *Completeness.* The station says it holds messages until the sending task is
  resumed, and the CSMS asks only after events (chargePointRepr.py:767): a status
  request answered in between leaves the transaction out of order for ever.
- *Rows of transactions.* `cable_max_current` is reset to NULL by an in-order event
  without it (db.py:259).
- *The queue.* A reconnected station does not send it until a BootNotification is
  asked for (charge_station.py:113, 245).
- *Lists.* `getsizeof(request)` (chargePointRepr.py:182) does not see the list, so
  a limit in bytes has no effect. Tokens with a date are refused by the station's
  DateTime column; adding or deleting two tokens at once always fails
  (service.py:140, 158); overlapping updates may set the version back, because
  charge_station.py:509 refuses versions below 1 only; a full update whose first
  message is refused goes on as a differential; a token that was decided
  "invalid" or "blocked" is installed and then accepted by the station
  (charge_station.py:284).
- *Profiles.* An external profile whose id equals the counter collides
  (chargePointRepr.py:478); ids are used again after a crash (ocpp_server.py:53);
  two overlapping requests both pass the conflict check; the row of a profile
  that came with a remote start names no transaction and is never removed; a
  clear never removes rows (db.py:406), and one with an id only raises (line 493).
- *Cache.* A late event after the ended one adds an entry for ever
  (service.py:35); a lost answer, overlapping calls or a second transaction of the
  station leave an action in the cache that is not the station's, and the next
  request for it is left out (line 221).
- *Password.* The client connects with its `-pw` for ever (charge_station.py:104-106;
  the simple client, simple_ocpp_client.py:42-43, likewise): after a change that was
  accepted, stored and reported done, the next loss of its connection shuts it out,
  as `OldPasswordIsOut` says. A start of SQL_DB, which drops the tables
  (db_Tables.py:470) and inserts the first passwords, lets it in again. A result of
  `reboot_required` is not stored (service.py:262), and a lost answer neither.
- *Publishes.* A request whose publish fails keeps its entry in `futures`, and one
  whose publish is blocked waits without a timeout (rabbit_handler.py:156-159).
- *Retry.* The `except` of db.py:63 names a class that SQLAlchemy does not raise.
- *The client's view.* An event of an EVSE that was not announced raises
  (charge_station.py:197), as does an ended event after a restart
  (line 206) and any event with a token that is looked at (Transaction.py:69):
  each is lost before it can be queued, so `NothingLost` does not speak of it.

## 5. Proofs

TLAPS proves, for every value of the constants that satisfies the named
assumptions:

| Module | Theorems | Argument |
|---|---|---|
| `TransactionStoreProofs` | `TypeCorrect`, `NewestWins`, `EndedStaysInactive`, `NoForeignValues`, `VerifyIsExact`, `OnlyNewerReplaces`, `OnlyNewerReactivates`, `StoreImplementsRecord` | The inductive invariant adds to the properties that a non-empty `stored` has a newest and an oldest event; every commit is then split by whether its event is old |
| `RabbitRpcProofs` | `TypeCorrect`, `AtMostOnce`, `AnswersAreRight`, `MapHasNoStaleEntry`, `ResponsesReachWaitingCalls`, `RpcImplementsPromise` | `MessageInv` follows a message through queue, ack and response (any keys); `FutureInv` ties future, map entry and program counter together and needs `KeyOf` injective |
| `ConnectionProofs` | of `ConnectionRegistry`: `RegistryTypeCorrect`, `RegisteredServed`, `NeverLockedOut`, `ServedRegistered`; of `OnlineTracker`: `TypeCorrect`, `DbAgrees`, `OfflineOnlyBySilence` | See 5.1 |
| `TransactionCompletenessProofs` | of `StationQueue`: `NoEventLost`, `QueueKeepsEvents`; of the composition: `CompletenessImplementsQueue`, `TypeCorrect`, `NoAlarmIsFalse`, `ExpectsWhatIsHeld` | See 5.2 |
| `RequestProofs` | of `LocalList`: `TypeCorrect`, `GrantsAreValid`, `VersionsGoForward`, `FullUpdatesReplace`; of `PendingRequests`: `RequestsTypeCorrect`, `AllReportsReturned`, `LastMessageEndsWait`, `HandlersRaiseOnlyLate` | An answer "accepted" was decided on a valid row, and `auth.valid` keeps that while the request lasts. See 5.3 for the rest |
| `ChargingProfilesProofs` | `TypeCorrect`, `IdsAreFresh`, `RowsNeverConflict` | Every id the server gave is below the counter, and before the first stop or after an orderly one the counter never goes back. See 5.3 for the rows |
| `TransactionCacheProofs` | `TypeCorrect`, `CachedIsActing`, `CacheFollowsTransactions`, `RaisesAfterEnd` | An event on its way has occurred; an entry of a transaction with a call in progress is removed only by its ended event; a careful call that was accepted is the only one in progress, so the entries that are not its own stay unset. See 5.3 for the cache and the queue |
| `StationProofs` | of `StationPassword`: `TypeCorrect`, `ReportedIsStored`, `OldPasswordRefused`; of `StationTransactions`: `ClientTypeCorrect`, `ClientKnowsStation`, `OrderlyEventsAreTaken` | With changes that follow each other, the store requests in the queue are those of the last change, and a change that waits for its answer has left the station's attribute with its password; a change that is done has a row that is some change's, and every attempt to connect offers the command line's password. See 5.4 for the transactions |

None of the invariants is inductive alone: a type invariant says nothing of the
tasks that are half way through, which is where the next step goes wrong.
Theorems about properties no run checks (`EndedStaysInactive`,
`OnlyNewerReplaces`, `OnlyNewerReactivates`, `AtMostOnce`,
`ResponsesReachWaitingCalls`, `RegisteredServed`, `OrderlyEventsAreTaken`,
`CompletenessImplementsQueue` and the types of most modules) were model-checked before they were proved; a run would add nothing.
Each strengthening below was checked by TLC on the run's instance before it was
proved.

### 5.1 Connections

`ConnectionProofs` treats the map of connections and the online tracker side by
side; they share no variable. `RegisteredServed` and `NeverLockedOut` are
inductive beside the types; `ServedRegistered` needs `SetUpInv`: a connection
being set up found the map empty and is alone of its id. The theorems cover what
`registry` cannot show at once: any number of ids of either kind.

`DbAgrees` rests on `CurrentOnly` (only the latest connection is online and only
its tasks can report it) and `ReportedRight` (the last value on its way is right
unless another report is due). `OfflineOnlyBySilence` rests on `TimerInv`: on a
connection whose beats do not overlap, beats are handled one by one in the order
of their numbers, and a timer that is armed is the one `change_is_online` names,
so the next beat cancels it before it is done.

### 5.2 Delivery and completeness

`StationInv` holds for any number of drains: tasks call events only, a
BootNotification and its run have one call in the line, an answered event is
known to the CSMS, nothing is anywhere before it occurred, and no task stands
behind the last event, so that the CSMS gets that event after all that tasks
sent. Every change of the line at the lock is a `Shift`: some calls leave at
the front, at most one joins at the end; the lemmas about it are proved once and
used by each action.

`DrainsHead` says that the event a run of `send_queued_messages` calls is the head
of the queue. It is what makes removing "the first message, whichever it is now"
right, and it needs `AtMostOneDrain`: one BootNotification under way at a time.
The hypothesis is that of the program's use and not of its code; without it the
theorems `NoEventLost`, `QueueKeepsEvents` and `NoAlarmIsFalse` would be false,
as `station_two_drains` shows for the first. With it, an answered event leaves
queue and line because the CSMS has it.

`CompletenessImplementsQueue` carries these facts over to the composition.
`NoAlarmIsFalse` follows the question to the station through its life
(`AlarmInv`): it is asked only after the last event was received; when the
station finds its queue empty, an event that is missing is in no call either,
since tasks' events came before the last one and a run's event is in the queue;
and after the last event none occurs, so that this stays true until the verdict.

`ExpectsWhatIsHeld` needs no bound on the drains. Its invariant says that while
an answer is on its way no event is between its sending and the end of its call
(`AnswersBetween`), so what the answer says of the queue is still true when it is
noted (`HoldsIsTrue`), and that an event whose answer may empty the queue has
started a task that asks again (`HandledAsks`).

### 5.3 Requests, lists, profiles, cache

`VersionsGoForward`: an update under way has a version one above the station's
before its first message and the station's after one that was installed, since
updates do not overlap. `FullUpdatesReplace` adds that the entries of a full
update name each token once, that what is left of them is their end, and that the
list is what was sent of the update that made the version (`ListInv`).

`AllReportsReturned`, `LastMessageEndsWait` and `HandlersRaiseOnlyLate` share the
invariant `RequestsInv`. The CSMS handles a station's reports of a request one at
a time and in order (`OneByOne`), so the data collected for it are the first
reports of the station (`ReportsInv`), and its future is done exactly when the
last of them was handled; an entry of the map names a call whose future exists
(`EntryInv`), the request's own while its id is unique; and the wait for a started transaction has its entry until
the first event of it is handled (`StartsInv`).

`RowsNeverConflict`: a request that follows the others keeps what its check found
(`CheckedIsFree`, `CreatedIsFree`), because its own steps and the removals of
others are all that happens to the rows until it publishes (`RowsInv`).

`CacheFollowsTransactions` relates the cache to the queue of events: with events
in order, what is queued for a transaction is what occurred after what was handled,
without gaps (`InOrder`, `NoGaps`), so a queue that is empty leaves the cache at
the last event of each.

### 5.4 The client's transactions

`ClientKnowsStation` relates three views of an EVSE: what runs there, what is on
the exchange, and what the client has noted. `PhysicalInv` says that an EVSE's
transactions follow each other; `ReportsInv` that a report on its way is true and
that its EVSE is known to the client or was announced before it; `InOrder` that
an EVSE's reports come transaction by transaction, the first event first and the
last event last; `ViewInv` that the client has as ongoing the transactions whose
first event it has taken and whose last one it has not, with their EVSE. The
report that is taken is then the only one that can concern its EVSE
(`FirstReport`): a first event finds the EVSE free, another finds its transaction
there, so that no handler raises (`OrderlyEventsAreTaken`). Calls, the connection
and remote requests do not touch this view; a restart ends it, which is why the
theorems, like the property, are about a client that was not restarted.

### 5.5 Only model-checked

Liveness (`EveryCallEnds`, `LostIsRemoved`, `SilentIsOffline`,
`DrainEmptiesQueue`, `IsVerified`, `EveryRequestEnds`, `EveryUpdateEnds`,
`ClientReturns`, `RemoteRequestsEnd`) is out of the prover's reach, as is
ENABLED. Every invariant, action property and refinement of the passing runs is
a theorem, `NothingLost`, `QueuedUntilReceived` and `NoFalseAlarm` for one
BootNotification under way at a time (5.2).
No module declares a RECURSIVE operator: the loops of the code are steps.

## 6. Not modelled

- Reservations: the API asks for an EVSE with every reservation, so the wait for
  one (chargePointRepr.py:602) starts only for other callers; the rest are single
  requests.
- Dates of charging profiles, schedule ids (handed out like profile ids).
- The contents of variables, monitors and reports (the station's data; the chunks,
  waits and answers that carry them are modelled).
- The API's event streams, logins and endpoints; user accounts and the other
  single-statement tables; data classes of the schemas, which are pure data.
- Certificates (calls of a library), the simple station client (stateless), mocks,
  simulation and the launcher (development aids).
- `Rabbit_Handler.connect`'s reconnection loop; `ocpp_log`'s failures are in
  `TransactionStore` (`Lose`), `ChargingProfiles` (`Publish`) and
  `TransactionCache` (`Occur`).
- Registrations that are pending or rejected in `StationQueue` (this CSMS accepts
  every BootNotification); `StationTransactions` has them.

## 7. What could follow

1. `Reservations`, once the API lets the station choose the EVSE.
2. `OnlineTracker` with publishes that fail, composed with `TransactionStore`'s
   `SetInactive`.
