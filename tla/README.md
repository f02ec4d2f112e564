# A TLA+ model of MicroOcpp and of the charging station built on it

The repository holds MicroOcpp (`src/MicroOcpp`), an OCPP 1.6 client for the microcontroller of an
electric vehicle charging station, and three Arduino sketches that use it, of which
`src/UART_CIMS/UART_CIMS.ino` is the firmware of a real station. This directory specifies the
library and that firmware in TLA+, model-checks them with TLC and proves theorems about them with
TLAPS.

## 1. Inventory

All paths are below `src/MicroOcpp/src/MicroOcpp/` unless they start with `src/`.

| Component | State | Operations | Talks to | What makes it correct |
|---|---|---|---|---|
| Persistent request queue: `Core/RequestQueueStorageStrategy`, `Core/RequestStore`, `Core/Request` | head and tail cache (RAM), `opBegin` and op files (flash), `opEnd`, ID counter | push_back, pop_front, drop_if, commit, restore, advanceOpNr, boot scan | dispatch, file system, operations | no transaction message is lost, repeated or reordered by resets, evictions and failed writes; an answer reaches its own request |
| RPC dispatch: `Core/RequestQueue`, `Core/Connection`, `Core/Context`, `Core/OperationRegistry` | back-off time, received requests | loop, sendRequest, receiveMessage | queue, WebSocket, services | the head is repeated until it is answered; every incoming call is answered once |
| Transaction process: `Model/ConnectorBase/Connector`, `Operations/StartTransaction`, `StopTransaction`, `Authorize` | the connector's current transaction | beginTransaction, endTransaction, loop, callbacks of Authorize, initiate, restore, processConf | journal, queue, inputs, metering, reservations | every session is reported as one transaction, survives a reset, and lets the connector go |
| Transaction journal: `Model/Transactions` | `txBegin`, `txEnd`, transaction files, weak references | createTransaction, getTransaction, commit, remove, setTxBegin, setTxEnd | file system, configuration | no file outside the journal, none removed while a message needs it |
| Boot: `Model/Boot` | registration status, boot statistics | loop, notifyRegistrationStatus | dispatch, queue | nothing is sent before the boot is accepted; crash loops are detected |
| Availability and status of a connector: `Connector`, `Operations/ChangeAvailability`, `StatusNotification` | two availability flags, last reported status | getStatus, setAvailability, isOperative, status part of loop | firmware, reset, reservations | a temporary unavailability ends; status changes reach the server |
| Firmware management: `Model/FirmwareManagement` | stage, retries, timers | loop, scheduleFirmwareUpdate, resetStage | connectors, application callbacks | the update ends in a final status and gives the charge point back |
| Reset: `Model/Reset` | outstanding retries | initiateReset, loop | connectors, application | a failed reset restores service |
| Reservation: `Model/Reservation` | reservations in configuration keys | updateReservation, getReservation, loop, cancel | connectors | no more promises than connectors |
| Smart charging: `Model/SmartCharging` | stacks of profiles per connector and purpose, profile files, tracked limit | setChargingProfile, clear, calculateLimit, getCompositeSchedule, load | clock, transactions, file system | the limit is the one of the highest valid profile at every moment, also after a reset |
| Metering: `Model/Metering` | samplers, meter files of a transaction | loop, addTxData, restore, remove | connectors, file system | meter values belong to the right transaction, none is overwritten |
| Configuration: `Core/Configuration*` | key-value containers, revision sum | declare, load, save | file system, all services | a saved value is in flash |
| Local authorization list: `Model/Authorization` | list, version | updateLocalList, notifyAuthorization | connectors | list and version change together |
| Heartbeat and clock: `Model/Heartbeat`, `Core/Time` | interval, time base | loop, setTime | dispatch | the timers survive wrap-around and clock changes |
| Diagnostics: `Model/Diagnostics` | upload status | loop, requestDiagnosticsUpload | application | final status is reported |
| CIMS firmware: `src/UART_CIMS/UART_CIMS.ino` | ID tag, login, table of users, parser | two FreeRTOS tasks, frame parser, card reader | the library, a serial line | logins, users and connectors agree although the tasks share everything without a lock |

Hard to test are: power cuts between two flash writes of one handler; the interplay of a cache in
RAM with the same requests in flash; numbers that wrap around; answers and timeouts that arrive when
their object has been replaced; a full journal; requests from before a reset that meet those of the
new boot; services that share one flag of availability; limits that are functions of time over
stacked, recurring profiles; files that are missing or torn; and two tasks without a lock. The list
with lines is `hazards` in `PROJECT.json`.

The library is single-threaded: `mocpp_loop()` runs one handler after the other. Interleaving comes
from callbacks that run later, from the server's and the driver's moves between two passes of the
loop, and from power cuts, which may hit between any two writes. Only the CIMS firmware has two
tasks.

## 2. The modules

| Module | Content |
|---|---|
| `RequestQueue` | the request queue, its op files, message IDs, answers, timeouts, resets |
| `Outbox` | abstract: a first-in first-out outbox that empties |
| `QueueOutbox` | fairness of the queue, and the mapping under which it implements `Outbox` |
| `RequestQueueProofs` | TLAPS: type correctness, no cached request behind an empty head, answers are mixed up only by message IDs that two boots gave; no stored request is lost, doubled or overtaken, nor lost when a few op files are not written; but for such answers each step of the queue is a step of `Outbox` or does not show |
| `TxProcess` | one connector's transaction process together with its journal |
| `TxProcessProofs` | TLAPS: type correctness, no handler works on a transaction that does not exist, each session is reported once, and what the journal keeps |
| `ChargingLimits` | the limit of one charging profile and of a stack of profiles as functions of time |
| `SmartCharging` | the profile store, its files, the transactions it tracks, and the main loop's limits |
| `ChargingProofs` | TLAPS: type correctness of both, the next change is later, the limit is the one of the moment, the schedule says what it will be, RAM and flash hold what was accepted, no transaction begins with the profile of an earlier one |
| `Connectors` | availability, inputs, reported status, and what a transaction means for them |
| `Reservations` | ReserveNow, CancelReservation, expiry, the reservations' turn in the loop |
| `Maintenance` | firmware updates, diagnostics uploads, resets |
| `ChargePoint` | composes the last three: the main loop, power cuts, boots, count of failed boots |
| `ChargePointProofs` | TLAPS: type correctness, resets, reservations and failing updates of `ChargePoint` |
| `Flash` | JSON files that may be missing, empty or torn, and stores that fail |
| `Settings`, `LocalList`, `MeterRecords` | configuration; local authorization list; recorded and cached meter values |
| `Storage` | composes the last four: one flash, one supply, the order of loads at boot |
| `StorageProofs` | TLAPS: an accepted value of the configuration is told and recalled; the local list is in step with the server; type correctness of `Storage` |
| `MeterProofs` | TLAPS: a StopTransaction reports values of its own transaction, all of them if nothing disturbed it; values are sent under no other transaction |
| `FoldProofs` | TLAPS: induction over numbers, and folds as runs of their steps |
| `SerialLink` | frames and the parser that finds them in a stream with losses |
| `Station` | the two tasks of the CIMS firmware, its users, and the stages of the library's transactions |
| `StationProofs` | TLAPS: type correctness, the parser is in step again after one frame, display and station agree, who charges is kept, what is confirmed as ended ends |
| `MCQueueReset`, `MCQueueFifo`, `MCTx`, `MCCharging`, `MCChargePoint`, `MCStorage`, `MCStation` | the modules TLC runs; each `.cfg` gives the constants of one run |

A power cut takes the RAM of every component of a composition. The compositions are three: what
moves a transaction message (`RequestQueue` and `TxProcess` share the queue's interface), what
shares connectors (`ChargePoint`), and what shares the flash (`Storage`). Where a component depends
on one of another composition, it has the part of it that it can tell apart: `Connectors`,
`SmartCharging`, `MeterRecords` and `Station` each have the stages of a transaction, of which
`TxProcess` is the full account.

### RequestQueue

State and code: `opBegin` is the configuration value `opBegin`; `file` are the files `op-N.jsn`;
`opEnd` is `RequestStore::opEnd`; `head` and `tail` are `head` and `tailCache`; `nextId` is
`Request::unique_id_counter`. A request is a record of its place in the push order (`seq`, its
identity, which the code does not have), its kind, its op number and its message ID.

Actions: `PushVolatile` and `PushTx` are `push_back` with `initiate`; `Send`, `Receive`, `Expire`
are `RequestQueue::loop` and `receiveResponse`; `DropHead`, `DropTail`, `EndDrop` are `drop_if`;
`EraseFile`, `SaveBegin`, `FetchCached`, `FetchFlash`, `FetchFails`, `SkipToCached` are the stages
of `pop_front` and `advanceOpNr`; `PowerCut`, `Panic` and `Boot` are resets. A handler that writes
the flash more than once is split at its writes and `pc` tells where it is; only `PowerCut` can come
between, because the library is single-threaded. `Panic` is the null pointer that `pop_front`
dereferences if `restore` failed and it looks at a further slot (the storage handler was moved away,
line 113): on the microcontroller this is a reset.

Not in the module: JSON buffers, back-off times (the head may be sent at any moment), messages that
are lost on their way to the server (a `Send` that does not happen), the received requests. That a
file is written or removed in one piece is what `docs/intro-tech.md:67` requires of the file system.
One constant is an assumption on the environment, not a bound: `StatusFirst` says that a
StatusNotification is the first push after a boot. This is what the code does by default; section 4
shows what happens otherwise. `BootAttempts` and `ExtraAttempts` say how many message IDs the
BootNotifications of each boot consume before the queue is used.

### TxProcess

`txBegin`, `txEnd` and `file` are the journal in flash, `tx` is `Connector::transaction`. A
`shared_ptr` to a transaction is a number in `ObjId`; `obj` is the heap, `cache` the vector of weak
references in `ConnectorTransactionStore`, and `Alive` says whether a strong reference is left: the
connector, the running handler, or a request (an Authorize callback holds the object of its session,
also after the connector let it go, when the session has ended and its number may be another's). A transaction record keeps the flags of `Transaction` the
process decides on; `start` keeps of the time stamp whether it is known, not set, or taken in a
given boot before the clock was set (`StartBootNr`).

| Code | Actions |
|---|---|
| `beginTransaction`, `allocateTransaction` | `Begin`, `Trim`, `TrimSave`, `TrimEnd`, `Create`, `Evict`, `EvictSave`, `CreateSilent`, `Refuse`, `CreateCommit`, `BeginCommit` |
| `endTransaction`, `loop` 189-225 | `EndTransaction`, `EvDisconnects`, `ConnectionTimeout`, `DeAuthorize` |
| `loop` 159-187 | `CollectAborted`, `CollectSave`, `CollectCompleted` |
| `loop` 231-345 | `StartTx`, `StartSilent`, `StopTx`, `StopSilent`, `SilentSave` |
| `StartTransaction`, `StopTransaction::initiate` | `Initiate` |
| callbacks of Authorize | `AuthAnswer`, `AuthTimeout`, `AuthError` |
| `processConf`, `processErr`, then `pop_front` | `StartConf`, `StopConf`, `StartError`, `Pop` |
| `restore` | `Restore`, `RestoreFails`, `Panic` |
| constructor, BootNotification | `Boot`, `Register` |

The inputs of the loop (plug, faults, ready signals) have any value at any time, so every stage
whose other conditions hold may or may not be taken. The request queue appears as what
`RequestQueue` shows of it: first-in first-out, transaction messages survive a reset, the others do
not. Two things of it are kept because they matter here: an op of an earlier boot is restored when
it becomes the head, and `restore` has side effects on transactions.

### ChargingLimits and SmartCharging

`ChargingLimits` translates `ChargingSchedule::calculateLimit`, `ChargingProfile::calculateLimit`
and `SmartChargingConnector::calculateLimit`: `Offset` is the time since the basis (absolute,
recurring with the remainder of a day or a week, relative to the transaction), `LimitOf` the limit
and next change of a profile, `StackLimit` and `StackNext` those of a stack, with the early return
at the first level that defines a limit. Days and weeks have 3 and 6 units in the run.

`SmartCharging` has `profile` (RAM) and `file` (flash), `tx` (the connector's transactions), `track`
(`trackTxRmtProfileId`, `trackTxStart`, `trackTxId`), `next` and `output`. `known` is history: what the
server was last told of each slot. An update that is answered Rejected, or not answered, has removed
the profile of the same id and that of its slot all the same, and a RemoteStart that is answered
Rejected because the transaction cannot begin leaves its profile behind; nobody tells the server, and
the slot is `Unsure` until it is set or cleared. The removal of a file always succeeds.

| Code | Actions |
|---|---|
| `SetChargingProfile`, `setChargingProfile`, `updateProfiles`, storage | `SetChargingProfile` (with `Replace`), `Store`, `StoreFails` |
| `ClearChargingProfile`, `clearChargingProfile` | `Clear`, `ClearNext`, `ClearEnd` |
| `RemoteStartTransaction` with a profile | `RemoteStart` |
| `Connector` and its messages, reduced to stages | `Begin`, `StartTx`, `StartConf`, `Abort`, `StopTx`, `StopConf`; FreeVend mode (`loop` 348-365): `FreeVend` |
| `SmartChargingConnector::trackTransaction`, `loop`; `SmartChargingService::loop` | `TrackTransactions`, `UpdateLimits` |
| `getCompositeSchedule` | `Composite` (a function of the state) |
| `loadProfiles` | `Boot` after `PowerCut` |

### Connectors, Reservations, Maintenance and ChargePoint

`pc` is the service whose turn it is in one pass of `Model::loop`; everything else happens between
two passes. `Connectors` has `getStatus` (`StatusOf`), `isOperative` (`Operative`), both
availability flags (`avail` in flash, `vol` in RAM), `currentStatus` and `reportedStatus`,
`beginTransaction` and Authorize with the look-up of reservations (`ReservedFor`, `Matches`).
`Reservations` has `ReserveNow` (`Rebook` for a known id, `Book`), `CancelReservation`, and the loop
that drops expired and used reservations. `Maintenance` has one operator per branch of
`FirmwareService::loop` (`StartDownload`, `EndDownload`, `AfterDownload`, ...), of
`DiagnosticsService::loop`, and of `ResetService::loop`; the application's jobs run beside them.
`ChargePoint` adds `PowerCut`, `ResetSucceeds`, `InstallReboots`, `Boot` with `MO_BOOTSTATS`
recovery, `Accept`, and `LongTime` (the boot counts as successful).

### Flash, Settings, LocalList, MeterRecords and Storage

`Flash` is `FilesystemUtils`: a store leaves the new file, the old one (it could not be opened) or
none (writing failed); a file shorter than a JSON document is removed on load. `Settings` has
`declareConfiguration` before and after the load, `load` with the cases of a stored key, `save` with
the sum of revisions, `ChangeConfiguration` with its conversions and answers, and the changes of
flags that services make themselves. `LocalList` has the two passes of `AuthorizationList::readJson` (`Scan`
with its step `Look`, `Amend` with its step `Put`), the sorting (`Ordered`), the bisection (`Get`), and
`updateLocalList` with its fallback to the stored list. `MeterRecords` has
`TransactionMeterData` and `MeterStore` (`Add`, `Finalized`, `Restored`, `Gone`), the turns of the
connector and of the metering in a pass of the loop, the cache of `MeterValues`, and the requests
that carry values to the server.

### SerialLink and Station

`Taken` is the body of the parser's loop for one byte. `Station` cuts both tasks between statements that
use what they share, `isAuth`, `idTag` and `userDB`. Some steps take several accesses together: the
search of a user with what follows from its result (`AskServer`, `AddUser`, `Bind`, `Release`), a
login with its message (`LogIn`), a call of the library with its callbacks, and `available` with the
reading of all waiting bytes.

| Code | Actions |
|---|---|
| `readPICC` | `Tap`, `SetTag`, `AskServer` or `AddUser`, `LogIn` |
| `mocpp_loop`, the Authorize callbacks, setOnSendConf | `Authorized`, `Library`, `RemoteControl` |
| `CIMS_handle` | `ReadBytes`, with `Taken` |
| `process`: ID_TAG; CONNECTOR_STATUS; HMI_CONTROL_TRANSACTION | `LogOut`, `ClearTag`, `ClearAuth`, `Release`; `Plugged`, `Bind`; `Control` |
| restart, and the null pointer of `endTransaction` | `Reboot`, `Crash` |

The board and its users are external: somebody logs in, plugs a cable in, has the transaction begun
and ended at the display, and logs out. What is outside of this order is possible where a scenario
has it, and is recorded in `odd`.

## 3. What the runs show

| Run | Result | Distinct states |
|---|---|---|
| `queue_reset` | `TypeOK`, `NoLoss`, `NoOrphanTail`, `AnsweredById` hold | 1.7 million |
| `queue_fifo` | `NoTwin`, `OwnAnswer`, `OldestFirst`, `ImplementsOutbox` hold | 0.7 million |
| `tx_process` | `TypeOK`, `ReportedOnce`, `NoLeak`, `OpenStays`, `NoDangling`, `Settled`, `Released` hold | 1.2 million |
| `smart_charging` | `TypeOK`, `LimitInForce`, `ChangesLater`, `ScheduleExact`, `AsAccepted`, `FlashAgrees`, `EndsWithTx` hold | 3.3 million |
| `charge_point` | `TypeOK`, `NoChargingUnderReset`, `Honoured`, `FailureReported`, `MaintenanceEnds`, `GivenBack`, `Informed` hold | 0.1 million |
| `storage` | `TypeOK`, `Kept`, `InStep`, `OwnValues`, `WholeRecord`, `Attributed` hold | 0.6 million |
| `station` | `TypeOK`, `Resync`, `Agreed`, `KeepsUser`, `Confirmed` hold | 0.6 million |
| `queue_first_tx`, `queue_ids`, `tx_crash`, `tx_stale`, `tx_blocked` | one property each is violated, see section 4 | |

The request queue and the transaction process:

- `NoLoss`: whatever has been written when the power is cut, the scan of the next boot reaches every
  op file that is not yet answered. The ring wraps in the run (it starts at slot 4 of 6).
- `NoOrphanTail`: the state that `push_back` and `front` can only report as invalid never occurs.
- `NoTwin`, `OldestFirst`, `ImplementsOutbox`: cache and flash together are one FIFO. The refinement
  includes liveness: each stored message leaves the queue.
- `OwnAnswer`: a request leaves as answered only if the server had received it, as long as restored
  and new message IDs are apart (`ExtraAttempts`).
- `AnsweredById`: where they are not, an answer is mixed up only between two requests of different
  boots with the same message ID.
- `ReportedOnce`: at most one StartTransaction and one StopTransaction per session are created.
- `OpenStays`: a session that the server knows to be open is the latest one in the journal
  (`OpenIsKept`), so a reset at any moment continues it, also while numbers are rolled back, trimmed
  and evicted; unless a number was given back under a pending Authorize, see below.
- `NoLeak`, `NoDangling`: the files in flash, the window of the journal and the pending messages
  agree.
- `Settled`, `Released`: every session that was stopped is closed at the server; every transaction
  that ended leaves the connector.

Smart charging:

- `LimitInForce`: whenever the service rests, the hardware has the limit of this moment; no boundary
  of a profile, no change of profiles, no begin or end of a transaction, no reset is missed.
- `ScheduleExact`: the composite schedule says at each moment it covers what the limit will be.
- `ChangesLater`: the next change lies in the future, so schedule and loop get on.
- `AsAccepted`: each slot holds what the server was last told, or is `Unsure` because an update that
  was rejected or not answered, or a boot, has removed a profile. That such updates and boots touch no
  other slot is part of the property; that they lose what was accepted is the code's (section 4).
- `FlashAgrees`: what is installed is what a reset brings back.
- `EndsWithTx`: no transaction begins with the profile of an earlier one, if the service had a look in
  between.

The charge point:

- `NoChargingUnderReset`: from an accepted Reset to the restart, or to its last failed attempt,
  nothing charges.
- `Honoured`: no card is authorized at a connector that is reserved for another tag, unless the parent
  tag that the local list or the server last gave for the card is that of the reservation. Connectors
  to which ReserveNow has moved a reservation are left out (`moved`).
- `FailureReported`: no attempt of an update fails without a message to the server that says so, sent
  since the attempt began (`told`). It may be older than the failure: while an attempt waits, the
  application may still give the result of the one before, which is sent then, and not again. The
  power cut in the pass that would report is exempt: the update is only in RAM (one scenario has this
  cut, and the property is violated without the exemption).
- `MaintenanceEnds`, `GivenBack`, `Informed`: services come to rest, connectors come back, the
  server learns each lasting status.

Storage:

- `Kept`: an accepted change of the configuration is what the server reads and what a boot restores,
  whether the server asked for it or a service made it. A change counts as accepted only where the
  code had it written (`Stores`), see section 4.
- `InStep`: list and version are those of the accepted updates, now and after a boot.
- `OwnValues`, `WholeRecord`: a StopTransaction carries values of its own transaction, in order,
  with the first ones and the last, also when it is restored after a power cut.
- `Attributed`: values of a running transaction are not sent under another.

The station:

- `Resync`: after any loss of bytes at most one whole frame is missed.
- `Agreed`: at rest, display and station agree on who is logged in, and with which connector.
- `KeepsUser`: the user of a running transaction stays known, over logouts, other users and remote
  stops. Both hold for all interleavings of the tasks but those of six incidents: a card that is read
  while a logout is processed or an answer is due, a plug without a login, lost bytes, a misread card,
  a restart that the display does not notice.
- `Confirmed`: an end that is confirmed to the display takes place, at connector 1 and for its only
  user.

The properties of the transaction process have exemptions that are statements of their own.
Sessions in `lost` are those of which a message could not be restored (its time stamp was of an
earlier boot, or its number was taken), which the documentation does not promise to recover.
Sessions in `stranded` gave their number back while their Authorize request was pending; its answer
writes the file of that number, which may be the next session's by then. `tx_stale` shows this
without the exemption, and `NoLeak`, `OpenStays` and `NoDangling` hold of all histories without such
a session; sessions that end under their Authorize request otherwise, because they had started, are
in them. Sessions in `closed` were answered with an error to StopTransaction, which the code counts as
delivered and sends again all the same (`Operations/StopTransaction.cpp:207` and `213`).

The exemptions of the other runs are definitions or history variables with a comment: `Plain`,
`Unsure` and `orphaned` (`SmartCharging`), `moved` and `Wrap` (`ChargePoint`), `stale`, `server.known` and
`doubt` (`Storage`), `odd` (`Station`). Each stands for a behaviour that its comment or section 4
describes, with which the property does not hold.

### Bounds, and why they suffice

The queue has six op numbers, a history of one, a scan that stops after two missing files and a
synchronization window of three; the code has 10000, `MO_OPHISTORY_SIZE`, 3 and 100. What matters is
their order, stated in `QueueAssumption`: pending requests, the tolerated gap and the history fit
into the ring together. A cache of one with three requests is the least in which an entry is
evicted, comes back from flash and has another one behind it. One power cut is enough for every pair
"handler of the first boot interrupted anywhere, second boot to its end". The start at slot 4 makes
every kind of number wrap around within three requests.

The journal has two places and five numbers, for `MO_TXRECORD_SIZE` 4 and `MAX_TX_CNT` 100000, and
starts with one place taken by history and the next number at 3: three sessions make it full, evict,
go silent, and wrap. Three objects are the connector's, a stored message's and a late Authorize's.
`CutPoints` are the places where power may be cut in a run; `tx_process` has all but the two gaps
between op file and transaction file, which `tx_crash` has. `pc` values `fetch` and `skip` are not
cut because no write happens there. A session may end while its Authorize request is under way in
all of these runs.

`smart_charging` has one connector, two stack levels and three profiles, with room for one
that is common to all connectors (`MaxInstalled`): a maximum at the highest level,
absolute, with two periods and without duration; a default one, daily, with one period and a duration
shorter than its day, in W; and a relative one for a transaction. Time runs from 1 to 4 over a day of
3, so the recurring profile passes its boundaries and wraps. One fault (`MaxFaults`) is a power cut,
in a pass or between any two writes, or a write that fails. All properties hold as well with two
faults (1.8 million states), and with room for both and a second default profile of the same id,
relative and at another level (3.7 million states); the run is smaller because these properties are
slow to check.

`charge_point`, `storage` and `station` start in one of a few scenarios: a budget says how often
each operation may happen, since all of them together are beyond any run while any two or three that
interact are not. The scenarios of `charge_point` pair what shares state: two resets with an update,
a remote start with an update, with and without the callbacks that report progress, reservations
with both ways to begin a transaction, power cuts and boots up to the recovery, inputs with a
minimum status duration. Two connectors and connector 0 are the least in which a reservation at 0
competes with one at a connector; `UIntMax` is 2, so that retries wrap around. `storage` has lists
up to three of four tags with twelve updates (one too long, plain and mixed ones), a journal of two
with four numbers and three sessions (so numbers wrap), three files of values (so the record fills),
and `MISSES_LIMIT` of 3 as in the code; revisions are counted modulo 16 instead of 2^16, and no
scenario makes them wrap. `station` has two users with a card each, two connectors, up to three cards read,
four requests and two losses: each frame without one of its bytes, a
lone header byte, a frame whose checksum is a header byte, one that begins twice. A third plug
lets two users plug in at connector 1 one after the other. `Cards` are symmetric. The wire holds at most two frames and the loss of bytes happens on an empty wire.

### Fairness

`QueueOutbox!Fairness`: the main loop goes on (weak fairness of every step of a handler and of the
boot), the queue keeps offering its head (strong fairness of `Send` and `Receive`, for they are
disabled again and again by other handlers), and from some time on the connection holds. The last is
the least one can assume: no client delivers over a connection that always breaks. `Fairness` of
`TxProcess` has five parts: the running handler ends; the device boots, is accepted and restores its
head; the loop passes the stages that release a transaction; an Authorize request times out if it is
not answered (`setTimeout`); the head is answered. Nothing is assumed of the driver, the tags, or of
the server's verdicts, except that it does not answer every repetition of a StopTransaction with an
error. `Fairness` of `ChargePoint`: the loop is called for ever, a boot follows a power cut and is
accepted; delays and time limits end (strong fairness of the turns in which they have ended, for
power cuts and messages may come between); and a job of the application ends (strongly, since a cut
kills it). The server, the driver and the results of jobs are free. `SmartCharging`, `Storage` and
`Station` state no liveness.

## 4. Where code and documentation disagree

1. `queue_first_tx`. If the first request pushed after a reset is a StartTransaction or
   StopTransaction, it overtakes the op files of earlier boots, and its delivery moves `opBegin`
   beyond them: they are never delivered.
2. `queue_ids`. The ID counter starts again at each boot and is advanced over a restored ID only if
   that is strictly greater; two requests can share an ID and leave with one answer.
3. `tx_crash`. The op file is written before the flag in the transaction file; a power cut between
   them makes the device send the message twice, as two messages.
4. `tx_stale`. A late answer to Authorize commits the transaction of a session that has ended, after
   its number was given to the next session: the file of the running session is overwritten.
5. `tx_blocked`. A refused StartTransaction silences its transaction after the stop was requested;
   no branch of the loop applies to it and the connector stays occupied for good.

Each is a violation run with one property and the shortest trace TLC finds; `findings` in
`PROJECT.json` quotes the documents.

The following was met while modelling the other components. The models have these behaviours; the
properties do not speak of them, or exempt them by the definitions named in section 3.

Smart charging

- `SmartChargingModel.cpp:95` overwrites the next change found so far by that of the last period, so
  a stack with several periods may be computed again too late (`Plain`; compare
  `SmartChargingService.cpp:29`).
- A profile at the highest stack level is accepted, stored, and never loaded
  (`SmartChargingService.cpp:425`).
- An update that is answered Rejected because its file cannot be written, or because too many
  profiles are installed, has removed the accepted profile of the same id, and in the first case also
  that of its slot, all the same (`SmartChargingService.cpp:573` to `587`); so has one that a power cut
  interrupts before the new file is written. The profile of a RemoteStart whose transaction cannot begin
  stays although the answer is Rejected (`RemoteStartTransaction.cpp:99` to `112`). `Unsure` marks the
  slots.
- The service looks for the end of a transaction once per pass of the loop
  (`SmartChargingService.cpp:126`). FreeVend mode begins the next one in the pass in which an aborted
  one is let go (`Connector.cpp:348`), so that this end is not seen and its TxProfile stays for the next
  transaction (`FreeVend`, `orphaned`).
- A profile's minimum rate is written as `minChargeRate` and read as `minChargingRate` (`Loaded`).

Charge point

- A failed update never makes connector 0 operative again (`FirmwareService.cpp:64`), and a second
  UpdateFirmware replaces the one under way with its job still running (`:186`). The installation
  does not look at transactions again that began since the wait for them (`:112` to `:128`).
- The second attempt at an upload never calls the application (`DiagnosticsService.cpp:77`), and a
  success that is seen at the time limit wraps the retries around (`Wrap`).
- A known id in ReserveNow is accepted whatever the connector's state (`ReserveNow.cpp:74`; compare
  the comment at `ReservationService.cpp:185`). Whether connector 0 may be reserved is off by one
  (`:162`; comment `:140`) and based on the number of available connectors of that moment (`:155`).
- A transaction whose Authorize is lost in a power cut waits for ever; a running preauthorized one
  is ended by a late answer that finds a conflicting reservation.

Storage

- ChangeConfiguration answers Accepted for a text that is too long and for one that equals a value
  whose write failed (`ChangeConfiguration.cpp:126`). A stored entry of another type is replaced,
  but its declarer keeps the removed object, and the sum of revisions may not show the change.
- An update that removes an entry and goes on may miss others: with [1, 3, 4], removing 3 and 1
  leaves 1 in place and is accepted (`AuthorizationList.cpp:87`; comment `:121`). An update beyond
  the capacity is refused after entries have been marked. A failed write that removes the file keeps
  the new list in RAM and answers Failed.
- After a restore the number of meter values is the index of the last file (`MeterStore.cpp:139`):
  the next value overwrites it, and a removal leaves the last file behind.
- A transaction that is discarded as silent frees its number while the metering still holds its
  finalized record under it (`StartTransaction.cpp:83` to `100`, `Connector.cpp:295` to `305`).
- `MeterValueBuilder` never resets `select_n` and matches sample types by prefix
  (`MeterValue.cpp:68` to `102`); this is not modelled.

Facade and station

- `endTransaction` compares the tag with that of connector 1, whichever connector is meant
  (`MicroOcpp.cpp:383`; `MicroOcpp.h:141`): the end at another connector may be confirmed and not
  happen, and without a transaction at connector 1 a null pointer is compared (`Crash`). It happens
  at connector 1, too, if two users plugged in there one after the other: the tag of the one is
  compared with that of the other's transaction, and the end is confirmed.
- A new user is logged in without Authorize (`UART_CIMS.ino:256`; comment `:173` to `177`).
- "All connectors are busy" is checked before the user is looked for (`:213`): with both users
  charging nobody can log in to stop.
- A plug without a login finds the empty tag in the first free slot and takes it (`:412`).
- A logout before the loop has collected the ended transaction keeps the slot for good (`:468`).
- A second card while Authorize is pending: the display gets the first user's connector together
  with the second's tag. A card that is read during a logout is wiped, or bound to the empty tag.
- A request to start where a transaction exists is not confirmed at all (`:387`).
- A header byte that follows a header byte is dropped (`:555`), which loses the frame it begins;
  frames that contain header bytes may keep the parser out of step after a loss.
- When reading a card fails, its buffer is used uninitialized (`:206`).
- Each CURRENT_VALUE or VOLT_VALUE frame registers another sampler, without bound (`:314`, `:347`).
  The confirmation of a RemoteStartTransaction has no connector for the board (`:119`). Both are not
  modelled.

## 5. What is proved

Each theorem holds for every value of the constants that satisfies the assumptions of its modules
(`QueueAssumption`, `TxAssumption`, `LimitsAssumption`, `ChargingAssumption`, those of `ChargePoint`
and its parts, `FlashAssumption`, `SettingsAssumption`, `ListAssumption`, `MeterAssumption`, `ValueAssumption`, `StorageAssumption`,
`LinkAssumption`, `StationAssumption`): any number of slots, requests, sessions, connectors, profiles,
keys, tags, updates, frames, power cuts and failed writes. Four hypotheses (`Orderly`, `Tolerant`,
`Atomic` and `JournalAssumption`) are stated with the theorems that need them, and discussed below. `ValueAssumption` says that a file
without a document holds no value, and `ListAssumption` the same of lists.
Each proof has one lemma per action or group of actions, and the temporal step is the last one.

| Module | Theorem | States |
|---|---|---|
| `RequestQueueProofs` | `TypeCorrect` | `Spec => []TypeOK` |
| | `NeverOrphaned` | `Spec => []NoOrphanTail` |
| | `AnsweredItself` | `Spec => [](AnsweredById /\ (cuts = 0 => OwnAnswer))` |
| | `NothingLost`, `NeverTwin` | `Orderly` gives `Spec => []NoLoss`, `Spec => []NoTwin` |
| | `NothingLostAcross` | `Tolerant` gives `Spec => []NoLoss` |
| | `InOrder` | `Orderly` gives `Spec => OldestFirst` |
| | `FifoOutbox` | `Orderly` gives `Spec => Order!Init /\ [][Order!Next \/ Stolen]_OwedInOrder` |
| `TxProcessProofs` | `TypeCorrect`, `ObjectsExist` | `Spec => []TypeOK`, `Spec => []HasObject` |
| | `OnceReported` | `Atomic` gives `Spec => []ReportedOnce` |
| | `NoneLeaks`, `OpenKept` | `JournalAssumption` gives `Spec => []NoLeak`, `Spec => []OpenStays` |
| | `NoneDangles` | `JournalAssumption` gives `Spec => []NoDangling` |
| `ChargingProofs` | `TypeCorrect`, `AlwaysLater` | `Spec => []TypeOK`, `Spec => []ChangesLater` |
| | `AcceptedInstalled`, `FlashInStep` | `Spec => []AsAccepted`, `Spec => []FlashAgrees` |
| | `NoneOutlives` | `Spec => EndsWithTx` |
| | `LimitHolds`, `ScheduleTold` | `Spec => []LimitInForce`, `Spec => []ScheduleExact` |
| `ChargePointProofs` | `TypeCorrect` | `Spec => []TypeOK` |
| | `NoneCharges`, `OthersKeptOut` | `Spec => []NoChargingUnderReset`, `Spec => []Honoured` |
| | `FailuresReported` | `Spec => FailureReported` |
| `StorageProofs` | `AcceptedIsKept`, `StaysInStep` | `Spec => []Kept`, `Spec => []InStep` |
| | `StorageTypes` | `Spec => []TypeOK` |
| `MeterProofs` | `OwnValuesHold`, `WholeRecordHolds` | `Spec => []OwnValues`, `Spec => []WholeRecord` |
| | `AttributedHolds` | `Spec => []Attributed` |
| `StationProofs` | `TypesHold`, `LinkHolds` | `Spec => []TypeOK`, `Spec => []Resync` |
| | `AgreedHolds`, `KeepsUserHolds` | `Spec => []Agreed`, `Spec => []KeepsUser` |
| | `ConfirmedHolds` | `Spec => Confirmed` |

### The request queue

Types and `NoOrphanTail`. `TypeOK` is inductive by itself. The arguments are the lemmas on ring
arithmetic (a result of `%` names a slot), `RemoveAtType` for `drop_if`, and `EnqueueType` and
`TakeCachedType` for the two ways the queue moves requests. `NoOrphanTail` is not inductive: a pop
moves an entry of the cache, or one it has read from flash, to the head, and if that entry looked
like the empty head, the queue would be orphaned. `QueueInv` adds `RealRequests`: every cached and
every stored request has a place in the push order.

Order. None of `NoLoss`, `NoTwin` and `OldestFirst` is inductive, since a step may break each through
a state in which ring, cache and head disagree. `OrderInv` says how they agree:

- `Ring`: from `opBegin` on there are k op files without a gap, in push order, then nothing up to
  the history. All that is owed is among them, so the scan of a boot, which tolerates a gap of
  `MaxMisses`, stops behind them and not before.
- `HeadOldest`, `HeadEmpty`: a head with an op file is the one at `opBegin`, and outside of
  `pop_front` the head is empty only if the ring is, or before the first push of a boot; this is what
  `SkipToCached` and the fetches from flash have to restore.
- `TailOrder`: the cached requests with an op file are a part of the ring behind the head, in the
  same order.
- `Erasing`: `advanceOpNr` moves by one slot, over a request that nobody is owed any more, and the
  slot it leaves the history through is free; a power cut between its two writes is harmless.
- `Volatile`: only requests without a file time out.

The hypothesis `Orderly` has three parts. `HistorySize > 0` is the default of `MO_OPHISTORY_SIZE`.
`StatusFirst` is how the connectors behave by default; without it the property is false, as the run
`queue_first_tx` shows. `MaxWriteFails = 0` says that no op file fails to be written: with a failed
write the ring has a hole, and `NoTwin` is false.

Failed writes. `NoLoss` does not need an order, and `NothingLostAcross` proves it with holes in the
ring. Its invariant `GapInv` is weaker than `OrderInv` where that breaks. A pop that finds a hole at
`opBegin` loads the next op file from flash although the cache holds a copy; once that head is
answered, `opBegin` passes the copy, which stays in the cache with an op number of the past.

- `SparseRing`: among the op numbers in use there are no more holes than writes have failed
  (counted with `FS_Injection`), so no gap is as long as `MaxMisses` (`ScanAcross`).
- `HeadNearest`, `HeadVacant`: a head whose op number `opBegin` has not passed is the first op file
  behind it, over holes only; an empty head means that no op file is in use.
- `TailPlaces`: each cached request either has its op file or was passed, and the cache is in the
  order of op numbers as seen from `opEnd`, the passed ones first. So the request a pop takes when
  the cache holds `opBegin` is never one further ahead.
- `ErasingNearest`: `advanceOpNr` removes files of the history, or nothing in a hole.

The hypothesis `Tolerant` has the last two parts of `Orderly` and bounds the failed writes by
`MaxMisses` (3 in the code) and `SyncWindow` (100): with as many holes in a row, the scan ends before
an op file that is owed. And fewer op numbers are handed out than the ring has
(`MaxTx + MaxPending + SyncWindow <= MaxOpNr`, 10 000 in the code): the proof does not follow a copy in
RAM over a full turn, after which its number would be ahead of `opBegin` again. `NothingLost` has no
such bound. TLC found `GapInv` invariant in 20 million states (nine op numbers, four messages, one
failed write, one power cut) before the proof.

Answers. The counter of message IDs starts again at each boot while stored requests keep theirs, so
nothing keeps the IDs of two boots apart, and `queue_ids` finds the mix-up (section 4). What the code
does guarantee is `AnsweredItself`. `named` is history: the ID of each request and the boot that gave
it. `NameInv` says that all copies of a request in RAM and flash keep its ID, that every answer under
way names a request that the server received, and that one boot gives each ID once (`OncePerBoot`). So
whoever takes an answer has the ID of a received request, and is that request itself or one of another
boot. No assumption is made on how many IDs a boot spends.

Refinement. `FifoOutbox` says that each step of the queue appends one request to the owed ones in
push order, takes the oldest, leaves them alone, or is `Stolen`: after a reset, the answer to a request
of another boot with the same ID takes a stored request that is still behind the head. Which it is
follows from `OutboxInv`, the conjunction of the above and of `SentInv`: a stored request that is only
cached was never sent. The lemmas `SortedAt`, `SortedAdd` and `SortedRemove` show what the sequence of a finite set of numbers
in their order has at each place, what it becomes with a new greatest element, and what without its
least one. The liveness half of `ImplementsOutbox` stays with TLC.

### The transaction process

`TypeOK` is not inductive here: a handler that commits its transaction, or a callback that changes
one, needs the object to exist, or the value it writes is none. `HasObject` says which object each
place of a handler relies on: the running handler has its transaction, the clean-up has the
connector's, a pop has a request to pop, and a pending Authorize request holds the transaction its
callbacks change. `TypeInv == TypeOK /\ HasObject` is the inductive invariant of both theorems.

The lemmas of interest are about the journal's helpers. `NthType` and `KeepType` say that the
clean-up of the weak references keeps entries of the old sequence: the rank of a place among the
kept ones is an injection of a finite set into a set of the same size, and so onto. `CachedType`
says that `getTransaction` returns an object of the heap or none; that a first matching reference
exists follows from `LeastNat`, which rests on the well-foundedness of the naturals. `TxProcess`
writes the clean-up with `Keep` and not with `SelectSeq` for that reason: the latter is recursive.

`ReportedOnce`. A session is known in several versions: the connector's object, the objects of its
requests, its file. A second StartTransaction is written if one of them has missed the flag that
notes the first one. `ReportInv` says that this cannot be. A session has one number and at most one
object (`OneNumber`, `OneObject`), since the store finds each object that exists (`Referenced`), and
whoever loads a file would have been given the object; each version notes what was written, but for
the handler that is about to (`Noted`); a session about to be created is new (`Past`). The lemma
`ReportKept` reduces most actions to one fact: each version after the step grew out of one before it
(`Grown`). The hypothesis `Atomic` excludes a power cut between the op file and the flag, and nothing
else; `tx_crash` shows the double report without it.

The journal. `JournalInv`, which holds as long as no message was lost and no number given back under a
pending Authorize request (`Undisturbed`), counts the numbers in the order in which they are given
(`Turn`). Its core:

- `Numbered`: numbers have the order of the sessions, in files, objects and op files alike; all lie
  before `txEnd`, and what lies before `txBegin` is closed.
- `Flagged`: only the latest transaction may be one that has not stopped; its flags tell which
  messages were written.
- `Backed`: a message has the file of its session, or is answered, and a started transaction has its
  number or a later one, so that `txEnd` is not moved back over it. This is what trimming and
  roll-back have to respect, and what evicting the oldest entry must not take away.
- `InSync`: an object is in flash as it is in RAM, unless it is being created or removed, or closed.
- `Attached`: a session whose Authorize request is pending either goes on (`Awaited`) or has its
  StopTransaction behind that request in the queue (`Followed`). So a late answer, which writes the
  file of a session that has ended, comes before its StopTransaction is answered and the file may be
  removed; the only other way to lose the file is the roll-back, which `stranded` records.
- `Where`: what each place of each handler has found out.

`NoLeak` follows from `Numbered`, `OpenStays` from the conjunct `OpenLast` and `Noted`, and
`NoDangling` from `Backed`. `JournalAssumption` has three parts:

- `Atomic`, as above.
- `RecordSize > 1` (`MO_TXRECORD_SIZE` is 4). With 1, `NoLeak` is false: a power cut after the only
  file was evicted lets the next allocation trim the hole and give the number again, while the
  closed StopTransaction of the old session still has it.
- `MaxSessions + 1 < TxCnt`: fewer sessions than there are numbers, of which there are 100000. The
  numbers may wrap from the highest to 0, as in `tx_process`, which begins at 3 of 5, but do not come
  round to the first. A silent transaction takes a number although the journal is full, so a device
  that is offline long enough gets there: with six sessions on four numbers TLC finds a file outside
  of the window.

### Smart charging

Types and progress. A store that is under way writes what RAM has in its slots, which must be a
profile (`StoresProfile`). Most of the work is in `ChargingLimits`: the limits and times of change
of a schedule, a profile and a stack have their types, whatever the periods hold; the least and the
highest element of a set exist (`LeastIn` by the well-foundedness of the naturals, `HighestIn` from
it). That the next change of a schedule lies strictly after the moment it is asked for rests on the
remainder being smaller than its divisor; minima of later times are later (`LeastLater`).
`NextLater`, that no `next` has passed when the service rests, is kept since a tick leads to a pass
of the loop. `TypeInv` is the conjunction of these.

Store. `AsAccepted` and `FlashAgrees` speak of a service at rest; `StoredInv` says for each slot, at
every step of every handler, what relates RAM, file and the server: files are what the server was told
or in an `Unsure` slot, except at the highest level, where a file may be left behind, and RAM is too,
except in the slot that is being written. An accepted update takes the slots known under its id
from the server's view; that these are the slots which the code has emptied is the main step.
`EndsWithTx` needs `Seen` (the service that has looked at a running
transaction has recorded it, so it will notice its end) and `Ended`: a profile without a transaction
is about to be dropped, belongs to one about to begin, or is in `orphaned`, also after it came back
from its file. `orphaned` also takes the connectors at which FreeVend mode began a transaction before
the loop looked, so `EndsWithTx` leaves these out.

Limits. `LimitInForce` and `ScheduleExact` rest on one fact: a limit does not change before the next
change that is reported with it. `ProfileSteady` says so of a profile whose offset reaches no
boundary, `StackCovers` that the scan of a stack finds the next boundary of the profiles it looks at,
and `LimitSteady` joins them for a connector. It holds for `Plain` connectors only, on which no
profile's next change overwrites that of another. `ForceInv` is the inductive invariant: what the
hardware has holds on (`HoldsOn`) for the profiles and the transaction of this moment up to `next`,
which is not later than now wherever a handler has left limits to be computed again. A
composite schedule is a recursive function, each period of which begins at the next change of the one
before; `PeriodsExist` shows by the least counterexample that there is such a function, so that its
equation may be used.

### The charge point

`TypeInv` adds to `TypeOK` that a transaction begun with a card has the tag of one. `Quiet` says that
while a reset has attempts left no connector is available in RAM and none charges; it is inductive
because each way to a running transaction asks for `vol`, and only the reset's last failed
attempt and a boot give `vol` back. `Honoured` rests on two invariants: `FirstCounts`
(unless ReserveNow moved a reservation there, no slot before that of a valid reservation has the same
connector, so the look-up finds the valid one) and `ClearedSuit`: a card that is authorized, *or will be if the server does not answer*,
suits the reservation by its tag or by the parent tag it was last given. `FailureReported` rests on
`StageFlags`, which ties the stage of an update to what the service knows of its jobs, and says that a
failure that is noted as reported was sent since the attempt began (`NotedTold`). The first attempt at this proof failed at the power cut, which
gives the update up without a report; the property now says so.

### The configuration

`Kept` follows from `SettingsInv`. Its core is `Synced`: in each container whose last write did not
fail, RAM and file have the same values (`Same`), and since the sum of revisions was taken it has
grown by at most one for each entry there is (`Near`), since a key that is declared late brings a
revision with it. A change of a value adds one more; so the sum, which is taken modulo 2^16, differs
from the old one, and the change is written. This needs `Cardinality(In(c)) + 1 < Revisions`, part
of `SettingsAssumption`: `MAX_CONFIGURATIONS` is 50 and the sum has 16 bits. `Absent` (a boot loads
every key of a readable file), `HeldTyped` and `FilesFit` are what `Same` needs over boots.

### The local list

`InStep` follows from `ListInv`. While the server knows the list (its updates were plain, none was
given up half-way), a file that can be read is sorted without two equal tags (`Strict`) and says of every
tag what the updates say (`Agrees`), and the list in RAM is the one of the file; without such a file
both are empty (`FileAgrees`, `ListAgrees`). The invariant was checked by TLC on the instance of
`storage` first. Its steps are short; the work is in what the code does to a list:

- The bisection. `Get` is a recursive function over the windows of the list. `BisectionExists` shows,
  by well-founded induction on their width, that there is such a function at all; `ProbeFinds` then
  that a look is right if the smaller windows are, and `GetStrict` that in a sorted list the tag is
  found if it is there. Without the order, `GetFinds` still gives a place of the list with that tag, or 0:
  all that holds of a list in which an entry is marked.
- Sorting. `Ordered` puts every entry behind those that are earlier. `AheadLess` and `OrderedSorts` say
  that this goes through each place once, so that nothing is lost or doubled.
- The first pass. `ScanIs` says what it leaves for any update: its `length` counts who goes and who
  comes. `ScanPlain` says that a plain update is looked up in the list as it was, and marks at most one
  entry (`Culled`).
- The second pass. `AmendFits` is why the list never grows beyond `MaxList`: it takes the places that
  are free before it appends, so its length is the one that the first pass counted, unless more went
  than came. `Amended` says where each entry of a plain update stands, and that no other one is gone.

`RenewedAgrees` and `AmendedAgrees` put this together: the list that an update leads to says what the
update says.

### The types of the storage

`StorageTypes` is a consequence of all invariants: values that fit their types from `SettingsInv`, the
list and its length from `ListInv`, the records from `MeterProofs`; `Rest` adds what they do not name, the
budget, the sums and the transaction of the values that wait.

### The meter records

The searches of `MeterStore` and of the journal are folds over indices. `FoldProofs` gives what is
known of any fold: it is the last state of a run that begins at its base and takes one step for each
element (`FoldRuns`; the run exists by `FoldExists`, and `Climb` is induction over numbers, stated for
a set of numbers because no operator can be passed). `RestoredIs`, `PopFirst`, `PopLast` and `GoneAll`
follow from it: what a restore reads back, what trimming and roll-back leave, that a removal leaves
no file behind those it counts.

`Recorded` is the inductive invariant; it ties the journal, its numbers, the files and the record in
RAM to the sessions:

- `Sequenced`: the journal has consecutive numbers up to the next one, every transaction that may
  still need its values, and at its end the one that is under way.
- `Unused`: a number outside of the journal has neither files with values nor the record in RAM. This
  is what lets numbers come round.
- `Owned`: files and record at a session's number hold values of that session, in their order, the
  last one among them once its StopTransaction waits, all of them if nothing disturbed it.
- `Staged`: how far a session is, and what this says of its messages and values.
- `Delivered`: the StopTransactions that were built report what `OwnValues` and `WholeRecord` ask for.

All but the types leave out the numbers in `doubt`, at which a silent transaction was discarded while
the metering still held its record (section 4). `SessionStep` says that most actions only move a
session to its next stage; `BeginNew` and `CutStep`, a new session at a used number and a power cut,
are the steps that need every conjunct. For `Attributed` the proof adds `AtWork`: the connector's
transaction is the one under way, and values that wait carry the transaction that runs (`Tagged`).

### The charging station

The parser. A scan of the waiting bytes is again a fold, one step for each byte; `ScanRuns` gives its
run. From it `Parse` says that a parser that is not within a frame finds the one it reaches, and
`Skip` that it passes over everything in which no header stands. `LinkInv` keeps where the whole
frames are: at the beginning of the wire (`Aligned`), behind something that is not a frame
(`Adrift`), or behind a piece of the first one, which the parser has already spent on what was there
before (`Passing`). Noise leads to the second; a read leads from the second to one of the others and
misses at most one frame; nothing leads back but more noise. Both halves of `Resync` are in it.

What is under way. Without noise the requests on the wire are those that the board sent, in its
order: `Requests`, with the one that is processed at its head. A read leaves them (`RequestsRead`), the
end of a handler takes the first (`RequestsDone`), the board adds one (`RequestsSent`). `Orderly` says that
they are requests a board makes, that no two slots have one card, and in which handler a step may be.

Sessions. `Agreed` speaks of the moments at which nothing is under way, and no step leads from one of
them to the next. `Session` says for every moment in between which phase a login is in, and with it
which requests and messages may be on their way:

- `Out`: nobody is logged in, no login and no request of a session is under way; the card being read
  has its slot (`Reading`).
- `Announced`: one login waits for the display, with the connector of the tag that was read.
- `Present`: the display shows it. `Bound` says that all requests are for its connector, at most one is
  a plug, and what the display asks for comes behind the plug; the station has the user at that
  connector, or with none as long as the plug is under way.
- `Gone`: the display has logged out; the logout is the last request of the session.
- `Leaving`: the station processes it.

`Kept`, which is `KeepsUser`, needs the rest of `Session`: `Begin` starts a transaction for the tag
that was read, at the connector of the request, and only `Bound` says that this user is kept there;
`AddUser` takes a slot without a connector, so never that of somebody who charges. `Confirmed`
follows: with one user at connector 1 the tag of its transaction is the tag that was read.

`Agreed`, `KeepsUser` and `Confirmed` hold of histories without the incidents they name, and `Session`
is stated for these: a card that is read while a logout is processed or an answer is due, a plug
without a login, noise, a misread card, a restart that the display does not notice.

### What is only model-checked

- Liveness under fairness, the temporal part of the refinement, and what needs ENABLED: `Settled`,
  `Released`, `MaintenanceEnds`, `GivenBack`, `Informed`, `ImplementsOutbox` as a whole. No prover
  here does it.
- What `InStep` leaves open: updates that are not plain, after which the server is said to know nothing.
- What the hypotheses of the theorems exclude and a run allows: in `queue_reset`, op numbers that
  go a full turn of the ring after a failed write.

No module here declares a recursive operator.

## 6. What is not modelled, and the plan

- Heartbeat and clock, and the retry interval of the BootNotification: timers with one state each.
  Models keep of time whether it is known, and whether a delay has passed.
- Of the dispatch: incoming requests that wait for their answer, the WebSocket, the volatile queue
  of requests before the boot is accepted.
- Of the facade: what only forwards to a component. Of the file system: the adapters below whole
  documents, and JSON with its buffers.
- Of `TxProcess`: the inputs' timing. Of `LocalList`: expiry dates, parent tags,
  LocalAuthListEnabled. Of `MeterRecords`: sessions that end before they start and silent allocation
  (`TxProcess` has them), triggered MeterValues. Of `Maintenance`: dates, the built-in updaters, the
  upload's file name.
- Of the station: the WiFi portal, stored current and voltage values, slave states.
- Examples and tests; operations that only read.

Next is a proof: that a copy of a request in RAM never outlasts a full turn of the op numbers, for
failed writes without the bound on `MaxTx`.
