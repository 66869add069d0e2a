# Maple: a TLA+ verification project

This directory holds TLA+ models of the parts of Maple that keep state several
actors share: the local store of Maple Agent
(`apps/maple-agent/crates/maple-agent/src/store`), the way a message gets from the
chat to the host (`apps/maple-agent/app/src`), and the sessions and route health of
the OpenSecret service (`services/opensecret/src`); the configurations that
model-check them with TLC, and proofs checked by TLAPS. `PROJECT.json` maps every
definition to the lines it translates and lists runs, mutants, hazards, findings
and theorems.

## 1. The system and its parts

Maple is a repository of several programs: Maple Agent (a desktop app with a
host process, an agent runtime and a local encrypted store), Maple Research and
the authentication app (web front ends), the SDKs and the proxy, the OpenSecret
service, and services that publish updates. The part with the most state, and the
one whose failures cost the user something, is the local store of Maple Agent;
next come the messages themselves, which must neither be lost nor run twice, and
the state the service shares between requests.

| Part | State it keeps | Operations | What is hard |
| --- | --- | --- | --- |
| Generation lifecycle (`lifecycle.rs`) | directories `db`, `db.tmp`, `db.new`, `db.old`, the journal `setup.json`, the state of the store, the cancellation flags | start-up recovery, export swap (set, rotate, remove a password), erase, start fresh, setup, unlock | crashes, failed synchronizations and power loss between any two changes of the disk; journals of one operation met by another |
| Quarantine and salvage (`lifecycle/salvage.rs`, `lifecycle/attachments.rs`) | a journal in phase `BuildReplacement`, staging, attachment trees | quarantine, authenticate for repair, install the salvaged replacement | a damaged source must be neither written nor lost, and must stay closed |
| Key slots (`keys.rs`) | `keys.json`, `keys.backup.json`, a loaded pair | load, reconcile, unlock, KDF upgrade, password change | two files and two synchronizations that fail one at a time |
| Admission (`mod.rs`) | state, `runtime_damage`, five connections behind mutexes, the lifecycle gate, the checkpoint worker | read, write, report damage, checkpoint, drain, close, reopen | threads that checked before and act after the store changed |
| Integrity checker (`integrity.rs`) | a generation it looks at | check, confirm, quarantine | its result is old when it arrives |
| Path preparation (`paths.rs`) | the directories themselves | prepare, synchronize | a directory that exists need not be durable |
| Unclassified reset, malformed journals, generation repair | their own journals | reset of a source without identity | recovery of two kinds of journals |
| Attachments (`attachments.rs`, `attachment_cleanup.rs`, `gc.rs`) | rows, one directory per upload, leases in memory | begin, write, publish, cancel, pin, expire, collect, delete the task | a row and a file have no common transaction |
| Tasks, records, sessions, paging, spill | SQLite rows | queries and writes of one transaction each | little: one transaction each |
| Host: send receipts (`host.rs`, `host/receipts.rs`, `remote/control.rs`, `records.rs`) | reservations and results of sends, pending calls | reserve, dispatch, finish, recover, restart | lost replies, repeated requests, a crash around the dispatch |
| App: sending from the chat (`ui/chat/{mod,sending,uploads}.rs`) | uploads, the send being admitted, unresolved receipts | send, upload, cancel, hand off, check receipts | results that arrive after the screen moved on |
| Host: IPC, subscriptions, exclusive admission | requests, subscribers | admit, dispatch, drain | exclusive operations |
| Remote computers | pairings, streams, uploads | pair, stream, upload | reconnects |
| Agent runtime and agent loop | turns, queues, tool calls | run, steer, cancel | cancellation during a tool call |
| Updater | bundles, state file | download, verify, swap | crash during the swap |
| OpenSecret: encryption sessions (`lease_aware_cache.rs`, `secret_cache_maintenance.rs`) | an LRU list with deadlines, leases | store, acquire, touch, evict, sweep | leases dropped outside the mutex, a sweep in batches |
| OpenSecret: transport v2 (`transport_v2/session.rs`, `gateway.rs`) | sessions, replay sets, a process-wide budget | handshake, look up, admit, purge | several locks, stale clocks, slow uploads |
| OpenSecret: route health (`inference/health.rs`) | gates, probe leases, cooldowns | claim a probe, report, abandon | reports that arrive late |
| OpenSecret: HTTP handlers, billing, storage | a database | requests | one transaction or one stream each |

How they interact: the host calls the lifecycle operations, one at a time behind
the gate `Store.lifecycle`; the agent runtime calls `read` and `write`, which do
not take the gate but pass `ensure_open` twice, before and after they lock a
connection. A lifecycle operation sets the state to Maintenance, stops and joins
the checkpoint worker, takes every connection mutex, closes the connections, and
only then touches files. Damage found by anyone closes admission (a flag and a
state) and leaves a quarantine journal, which every later start honours. The chat
screen uploads files through the attachment store of its host and then sends the
prompt, with an identity; the host reserves the identity in the store, hands the
message to the agent runtime, and stores the result; a client that loses its
connection asks for the receipt. The components of the OpenSecret service share one
process: requests hold leases on sessions, a maintenance task sweeps them, and
attempts at providers report to the health state when they end.

What makes each part correct:

* lifecycle: no acknowledged row is lost unless the user confirmed its loss;
  a confirmed loss is complete; every interrupted operation can be finished by a
  later start; an accepted cancel is honoured;
* key slots: the user is never locked out by a torn write, and a revoked
  password never works again;
* admission: nobody touches a database while its files are replaced; a
  generation reported as damaged stays closed, if its quarantine can be recorded; no
  deadlock between gate, worker and mutexes;
* attachments: what a message refers to keeps its file; every file has a row that
  accounts for it and will have it deleted; a cancelled upload stays cancelled;
* receipts: an identity runs at most once, an accepted message ran, a call returns;
* the chat: one send of a conversation at a time, a cancelled upload is never sent, a
  finished one never forgotten, a draft handed back was not accepted;
* encryption sessions: a request keeps the session it holds; live ones go last;
  expired ones go;
* transport sessions: a request identifier is admitted once; the budget counts what is
  kept; a live session is never displaced and an expired one is released;
* route health: one probe per open gate, closed only by a probe that saw no
  failure; no gate stays shut once its provider works.

## 2. Modules

| Module | Models | Used by |
| --- | --- | --- |
| `StoreDisk` | the root directory, the journal, and the free functions of `lifecycle.rs` on them (`preflight_setup`, `retire_old`, `install_committed`, `finish_setup`, `recover_filesystem`) as operators | `StoreLifecycle` |
| `StoreLifecycle` | the operations, step by step, with faults | `MCStoreLifecycle`, `StoreLifecycleProofs` |
| `DurableStore` | the promise: rows held, rows acknowledged, what a power failure may undo | refined by `StoreLifecycle`; the refinement is proved in `StoreLifecycleProofs` |
| `KeySlots` | the two key files and everything that writes them | `MCKeySlots`, `KeySlotsProofs` |
| `StoreAdmission` | the threads, the mutexes, the gate, the damage flag | `MCStoreAdmission`, `StoreAdmissionProofs` |
| `Attachments` | rows, directories and leases of uploads, and the collector | `MCAttachments`, `AttachmentsProofs` |
| `SendReceipts` | reservations and results of sends at the host, calls and receipt queries of the client | `ChatSends`, `MCSendReceipts`, `SendingProofs` |
| `ChatSends` | the chat screen: uploads, admission of one send at a time, receipt rounds; composed with `SendReceipts` | `MCChatSends`, `SendingProofs` |
| `Recency` | the order of an LRU list (external: the `clru` crate) | `SessionCache` |
| `SessionCache` | the lease-aware cache, its requests, its sweep | `MCSessionCache`, `SessionCacheProofs` |
| `TransportSessions` | the session store, replay sets and budget of transport v2, and the gateway's request path | `MCTransportSessions`, `TransportSessionsProofs` |
| `RouteHealth` | gates and probes of inference routes | `MCRouteHealth`, `RouteHealthProofs` |

The lifecycle is split along its own seam. `StoreAdmission` is about getting the
store quiet and reduces an operation on the disk to its outcome; `StoreLifecycle`
starts where the store is quiet and models every change of the disk.

### StoreDisk and StoreLifecycle

`disk` is the root directory: for each of the four names a directory with its
identity, the generation in its `generation.json`, its rows, its mode, and how
complete it is (`empty`, `part`, `bare`, `full`), and the journal. An operation is
the sequence `todo` of the steps it still has to take, in the order of the code;
`RecoverFilesystem(disk)` computes the steps of recovery from what it finds.
`RootStep` takes a step that changes a name and synchronizes the root directory,
`ContentStep` one that changes a directory's contents, `AttachmentStep` one that
removes or copies an attachment tree. Before each step the checks of the code are
made (`StepChecks`); if one fails the operation ends with a conflict.

The disk under failures: a change of contents is synchronized by the code before
the directory gets a new name, so it is durable at once; a change of a name is
durable when the root directory has been synchronized after it. `past` holds the
root directories since the last successful synchronization, and `PowerLoss` goes
back to any of them. `SyncFault` is a change whose synchronization fails,
`IoFault` a step that fails before it had an effect, `Crash` the end of the
process between two steps. `Abort` is the error handling of each operation: roll
back, clean up, or leave the rest to recovery once the one-way boundary
(`committed`) is passed.

### KeySlots

A slot is what its password opens; all slots of a store wrap the same key. `files`
is what the two names hold, `stale` what else a power failure may bring back
there. `known`, `prior` and `revoked` record what the user was told: a change
that reports nothing pending replaces the known passwords by the new one and
revokes the others, one that reports something pending tells the user to keep
both. A failed write, a failed synchronization, a read error, damage of a file, a
crash and a power failure may come anywhere.

### StoreAdmission

Threads: the clients, `worker` (`checkpoint_loop`), `check` (the integrity
checker) and `op` (export, shutdown, reset or salvage). `pc` is the next step of
each; a step is what the code does between two points at which another thread can
see a difference: taking a mutex, writing the flag, writing the state, reading and
writing the journal. Abstractions: one reader for the three; a client reads, or
writes at NORMAL durability (a FULL write is the same without `RestoreFails`); timers
are left out, so the worker may poll at any time; the courtesy of background
writes is left out; a plain store, so no keys; the checker looks at open stores only.
`Rot` damages the database without anybody knowing.

Writing a journal may fail here as in the code. `PersistQuarantine` is
`persist_checkpoint_quarantine` with its callers' handling of an error, which is to log
it and go on: clients, the worker and the closing operation tell their caller all the
same, only the checker and a salvage return the error instead. A reset whose intent
cannot be written ends in `IntentFails`. Opening a generation may fail too
(`ReopenFails`, `StartFails`): `close_connections` then persists the flag as it finds
it. (So when a reset of a damaged store cannot open its new, empty generation, that one
is quarantined: the flag of the old one is still up. No data is at stake.) What a power
failure makes of a journal that is not synchronized is left to `StoreLifecycle`.

Three history variables record what was promised. `told` is the set of generations
whose damage a client's call, the worker, the checker or a closing checkpoint returned;
an error that stops an opening is not a promise, the store is closed by it. `note` says
whether the quarantine of known damage is on disk (`kept`), could not be written while
the process that knows lives (`failed`), or was never written and the process is gone
(`lost`). `reported` is set when an export, which reads its source on a connection of
its own, returns damage of the source (`ReopenDamaged`).

### Attachments

One task. An operation is the client's name for an upload; `rows` is its metadata
row, `disk` what the directory of its public id holds (`part`, `file`), `synced` what
of it a power failure cannot take, `held` the lease table in memory. `th` is what every
request and the maintenance worker are doing: a step is one transaction, one look at
the lease table or one effect on the file system. `Begin` to `FinishMetadata` are an
upload and its retry, `Cancel` the durable cancellation with its attempt to
collect, `Sweep` to `DropRow` the collector, for expired, cancelled and deleted rows
alike, `Pin` and `PinRow` the binding of an attachment to a message. `FileFault` fails
a step of the file system, `Crash` and `PowerFailure` take the threads and the leases.

Abstractions: an upload has one byte, so empty files are left out; a pin names one
attachment; the checks of `prepare` and `publish` are one, since nothing happens
between them; the cancellation flag of a lease is part of `UploadEnds`, because the check
of the row in the next transaction subsumes it; creating a directory does not fail
to synchronize (see the known deviations); the collector removes a directory in one
step; generated images, which have no limits, and the deletion of an account are left
out.

### SendReceipts and ChatSends

`receipt` is the row of an identity (absent, pending, interrupted, ok, err), `req` how
far each copy of its request has come, `rpc` the client's own call. A request may
stay in a socket when its connection is gone, and a call the host has started ends
although nobody waits for it. `Repeat` may send the same identity again, from any
client: the client of this repository asks for the receipt instead, but the store is
written for repetition. `FinishFails` is a result that cannot be saved: the row stays
pending until a restart makes it interrupted.

`ChatSends` extends it by the screen: where each send is kept (`ui`), the receipt an
unresolved one last saw, the fence for which cancelling and handing off compete, and
the receipt round in progress. Every handler that may remove the last obstacle of a
prepared upload ends by dispatching it, and that call is part of each action.
Abstractions: one conversation; a message put back from the queue of a running task is a
restored draft; signing out and deleting the task are left out; the screen loses its
belief in the host with the connection.

### SessionCache and Recency

Every action is one hold of the cache's mutex, or a step outside it: a lease gives up
its count first and its reference after. A request takes a lease, authenticates, touches
the session, seals its response under a second lookup, and releases; the second
lease is part of the phase `sealing`. The sweep takes a snapshot of the expired keys and
retires them in batches, in any order.

### TransportSessions

The mutex of the store, the mutex of every replay set and the atomic of the budget are
held one at a time, and a step is one hold. Every operation reads the clock before it
waits, so it may use a time up to `MaxLag` old. A request looks up its session, reads
its body without holding it, looks it up again and claims its identifier before the
application runs. `Reap` is the end of the last reference, which gives back the
session's share.

### RouteHealth

Every route has a health gate and a capacity gate (one provider per route, so one
capacity pool each). `Start` is `try_claim_probe`, `Complete`, `RouteFailure`,
`CapacityRejected` and `Neutral` are the ends an attempt may have, each applied to
gates that may have moved since it began. Generations are unbounded numbers, lease
identifiers wrap at `Leases`. Observations that only feed telemetry change nothing and
are left out.

## 3. Runs

Passing runs (TLC, breadth first, all states):

| Run | Bounds | What it shows |
| --- | --- | --- |
| `lifecycle` | 1 row, 3 store ids, 3 faults, fairness | `SavedRowsSurvive`, `OpenIsRetired`, `ResetErasesSource`, `CancelIsHonoured`; `ImplementsDurableStore`: the refinement of `DurableStore`; `OperationsEnd`, `StoreComesBack` |
| `keyslots` | 2 slots for each of 2 passwords, 3 faults | `NeverLockedOut`, `RevokedNeverUnlocks`, `CleanReplyMatches` |
| `admission` | 2 clients (symmetric), 2 generations, 1 crash | `DamageSticks`, `QuietReplacement`, `SourceUntouched`, `ReplacementStands` |
| `gate` | 1 client, 2 generations, no crash, fairness | `GateComesFree` |
| `attachments` | 2 operations, 2 requests and the worker, 2 rows ever, room for 1 file and 1 byte, 3 calls, 2 faults, 1 tick with a lifetime of 0, fairness | `TypeOK` (with the account's limit), `BoundHasFile`, `FilesAreCharged`, `CancelStands`, `Collected` |
| `receipts` | 1 identity sent up to 3 times, 2 crashes, 2 lost connections, fairness | `AtMostOnce`, `AcceptedRan`, `SettledStands`, `CallReturns` |
| `chat_sends` | 3 sends (symmetric), 2 crashes, 1 lost connection | `OneAtATime`, `CancelledNeverSends`, `UploadNotStranded`, `ReturnedDraftUnsent`, `ShownSentRan` |
| `session_cache` | 3 keys, capacity 2, 2 requests, batches of 1, 3 sessions ever, 2 ticks, fairness | `TypeOK` (with the capacity), `HeldIsResident`, `LiveLeavesLast`, `ExpiredIsRetired` |
| `transport` | 2 sessions, 3 identifiers, 2 requests, room for 1 session, 2 identifiers each and 3 in all, clocks 1 old, 3 ticks, fairness | `TypeOK` (with the limits), `AdmittedOnce`, `BudgetExact`, `ExpiredIsReleased` |
| `route_health` | 1 route, 3 attempts, 2 lease identifiers, threshold 2, 4 failures, 1 neutral end, 3 ticks, fairness | `ProbeOwned`, `OnlyCleanProbeHeals`, `Reopens` |

Why the bounds are enough. Three store ids allow a first store, its replacement,
and the replacement of that one over whatever the first left behind; a fourth meets
the same layouts with other numbers. Three faults allow one in an operation, one in
the recovery from it and one in the recovery from that. One row is enough because
the properties speak of each row by itself and the code moves rows only with their
directory. Two clients let one be inside a connection while the other waits for it. With
one crash, besides the exits after a shutdown, a restart meets every journal the running
threads can leave, and none where its write failed. Two uploads
with room for one make the second wait for what the first, cancelled or expired, still
holds. Three copies of a request are one that reserves, one that meets the open
reservation and one that meets the result. Three sends are one being admitted, one whose
receipt is open and one prepared behind them. Three keys in a cache of two force an
eviction while two requests hold leases. Two sessions and three identifiers exhaust the
budget before both sessions are full. Three attempts are a probe, one that was
admitted before its gate opened, and one that is refused.

`StoreComesBack` is claimed for at most two faults (`Tolerable`): two failed
synchronizations in a row, followed by a power failure that undoes both renames,
can leave the staged directory under a name its journal does not expect. Nothing is
deleted then (`SavedRowsSurvive` holds with three faults too); the store refuses
with a generation conflict.

Runs that show a disagreement between what the repository says and what the code does
(each is a finding in `PROJECT.json`, with the quotation):

| Run | What happens |
| --- | --- |
| `setup_retry` | A repeated password setup that recovery completes reports `NeedsSetup`, and the store stays closed until the host restarts. |
| `send_safe` | A client that is told "It is safe to send again" may have its first request read from the socket and dispatched afterwards. |

Known deviations. Further disagreements, which take more faults or damage to meet; each
can be reproduced with the configuration named.

* `MCStoreFirstStart.cfg` (`MCStoreLifecycle`): the synchronization that follows the
  very first `mkdir` fails. The next start finds the directory and does not repeat it;
  rows acknowledged later go with it at a power failure. All other configurations let
  every synchronization fail but this one (`RetriedSyncs`).
* `MCStoreSyncs.cfg` (`MCStoreLifecycle`): four synchronizations in a row fail, from the
  one after the `InstallNew` journal of a salvage to the one after the replacement was
  renamed to `db`. Each retry finds the name as it should be and goes on without
  synchronizing it again, so the fifth attempt deletes the source's attachments while a
  power failure can still bring the source back. The run `lifecycle` allows three
  faults, and the theorems of section 4 exclude the failure of the deciding
  synchronizations, for this reason.
* `MCKeySlotsDurable.cfg` (`MCKeySlots`): after a password change with unconfirmed
  synchronizations the next unlock finds both files equal, reports nothing pending and
  synchronizes nothing.
* `MCStoreQuarantine.cfg` (`MCStoreAdmission`): `docs/local-store.md` 332-334 says
  "Damage observed during ordinary reads, writes or checkpoints also quarantines the
  current generation durably; restarting does not make it writable". `observe_result`
  only logs a quarantine that could not be written (`mod.rs` 652-654) and returns the
  damage; so do the close (771-773, 804-806) and the checkpoint worker (955-959).
  Nothing tries again unless a later close or damaged operation of the same process
  does. A client is told, the write fails, the process ends, and the next start opens
  the generation for writing (`RestartStaysClosed` is violated).
* `MCStoreExport.cfg` (`MCStoreAdmission`): `lifecycle.rs` 1395-1396 says "Never revive
  Open after damage was observed." An export reads its source on a connection of its
  own, beside `freeze_damage`. Damage found by the checkpoint (979), the copy and the
  counts (996-1017) or `verify_destination` (1510-1515) takes the rollback of line
  1069: `reopen_locked` opens the source, `install_connections` clears the flag
  (`mod.rs` 326) and the state is `Open` before the caller gets the damage (1084). No
  quarantine is written (`ExportDamageSticks` is violated).
* `MCStoreWriter.cfg` (`MCStoreAdmission`): `Damaged(Synchronization)` written by
  `write_locked` is overwritten by an operation that had read `Open` before; a busy
  checkpoint then opens the store with the writer below FULL.
* `MCStoreStaging.cfg` (`MCStoreAdmission`): a salvage takes its quarantine journal
  before it joins the worker, which may still replace it.

Each property of a passing run has a mutant in `PROJECT.json`: a definition
changed the way a plausible bug would, under which TLC finds the property
violated. Mutant definitions stand before the definition they replace and are
marked `Mutant`.

### Fairness

`StoreLifecycle`: weak fairness of `Step` (the thread of the running operation is
scheduled), of `Boot` (a stopped host is started again) and of `Restart` (a host
that refuses the store, or stays in maintenance, is restarted, which is what
`docs/local-store.md` tells the user to do). No fairness is given to requests, to
faults, or to cancelling; faults are finite by their bound, which stands for
"failures stop at some time".

`StoreAdmission`: weak fairness of every thread, one condition each. Nothing is
assumed of the order in which a mutex serves its waiters. A request need not come.

`Attachments`: a request that is served ends (an upload is bounded by its declared
size, an idle timeout and the 250 ms look at the cancellation flag), the clock
runs, and the worker finishes a deleted task. `Sweep` is strongly fair for each
operation because the worker's cursor rotates: a row that is collectable again and
again gets its turn although the worker is busy in between. Nobody has to call.

`SendReceipts`: what a socket holds is read or lost, a call that has started goes on, an
answer is delivered, a receipt query returns or gives up.

`SessionCache`: only the sweep. A request may stream for ever, and
`ExpiredIsRetired` holds for the sessions nobody holds.

`TransportSessions`: the purge, the end of references, insertion, claims and the
application's answer. An upload need not end.

`RouteHealth`: the clock runs, every attempt ends (the guard of `openai.rs` reports on
drop), and routes keep being asked. `Reopens` speaks of the time after the providers
work again (`sound`).

## 4. Proofs

`KeySlotsProofs` proves for every set of slots and passwords and every number of
faults:

* `TypeCorrect`: `Spec => []TypeOK`;
* `NoLockout`: `Spec => []NeverLockedOut`;
* `RevocationHolds`: `Spec => []RevokedNeverUnlocks`;
* `ReplyIsTrue`: `Spec => []CleanReplyMatches`.

Assumptions: `SlotsAssumption` (every slot is opened by one password, the missing
slot is not a slot, the bound is a number). Neither property is inductive: what is
on disk says nothing about what a running operation may still write. The
inductive invariant `IInv` adds

* `Control`: which steps belong to which operation;
* `KnownInv`: every slot that is, or may come back, on disk, and every slot of the
  loaded pair, has a known password;
* `PriorInv`: as long as a change has not renamed anything, what is on disk has a
  password known before it, so an error at that point may forget the new one;
* `WriteInv`: the progress of `write_with`: the file already written holds the new
  slot, and when nothing is pending after the second synchronization it is alone
  on disk, which is what makes the revocation safe;
* `known \cap revoked = {}`.

One lemma per group of actions (`LoadStep`, `ReconcileStep`, `UnlockStep`,
`ChangeStep`, `EnvironmentStep`) shows that it is preserved; they rest on what a
rename, a synchronization, a power failure and damage can add to a file
(`RenameAdds`, `SynchronizeAddsNothing`, `PowerLossAddsNothing`,
`DamageAddsNoSlot`). `ReplyIsTrue` needs `Matched` as well: a reconciliation or a
write that ends with nothing pending has made both files hold its slot, and while the
last reply holds, a load takes that slot as its pair and finds nothing to rewrite, so
it may fail anywhere.

`StoreAdmissionProofs` proves for any number of clients, generations and crashes:

* `ReplacedInQuiet`: `Spec => []QuietReplacement`;
* `JournalStands`: `Spec => ReplacementStands`;
* `DamageStands`: `Spec => []DamageSticks`;
* `SourceIsLeftAlone`: `Spec => []SourceUntouched`.

Any number of journal writes and openings may fail. The last two therefore except the
case that the code does not handle: every write of the quarantine failed and the process
that knew of the damage is gone (`note = "lost"`; `MCStoreQuarantine.cfg` shows what
happens then). Damage that an export returns is not in `told` and not covered
(`MCStoreExport.cfg`).

Assumption: `AdmissionAssumption` (the names of the threads are distinct, the bounds
are numbers). That the store is quiet when files are replaced follows from what
happened while it was drained, so the inductive invariant `QInv` says who holds what
on the way there: a client inside a connection holds its mutex (`Inside`); the
operation holds a mutex only while it drains or decides, and only with the worker
joined, and decides with all of them (`Drained`); no thread outlives the process, and
the store is closed from the time an operation froze it (`Rest`). That a replacement journal stands needs `Pending`: while one is published
nothing is open, the worker is gone and no operation is on its way to reopen the
store as it was. The worker writes its journal without the gate, and this is why it
cannot overwrite a replacement: it would have had to read setup.json before it was
joined and write it after.

That known damage stays known needs more, `DInv` (model-checked on the instance of
`admission` before it was proved). Whoever was told can rely on the journal, or its
failure is noted (`Persisted`), and an open store with a quarantine journal has the
damage flag up (`Quarantined`); both are threatened by threads that have seen damage and
have not persisted it yet. The flag is up as long as one of them remembers damage of this
generation, and as long as a failed quarantine is all there is (`Flagged`); a client that
finds the state changed when it gets the gate has been overtaken by an operation that met
the flag and wrote the journal itself or failed to, or that put a damaged state back
(`Carried`); and the flag goes down only with an operation that reopens the store, which
is alone with a store whose flag was down (`Alone`), or with a generation of which this
process knows nothing (`Fresh`): a new one, whose number is above every one seen or told
(`Numbers`), or the source of an export that met no flag. `Gated` and `Connected` say
what the state and the previous state can be on the way.

`StoreLifecycleProofs` proves for any number of rows, generations, operations,
crashes, I/O errors and power failures:

* `NoSavedRowIsLost`: `Spec => []SavedRowsSurvive`;
* `OpenAfterRetirement`: `Spec => []OpenIsRetired`;
* `ResetsErase`: `Spec => []ResetErasesSource`;
* `LifecycleImplementsDurableStore`: `Spec => ImplementsDurableStore`, the refinement;
* `CancelsAreHonoured`: `Spec => []CancelIsHonoured`;
* `TypeCorrect`.

`CancelsAreHonoured` holds as it stands. The others have the hypothesis
`FailingSyncs \cap Decisions = {}`: any synchronization may fail any number of times,
but the five after which recovery would choose another directory (`prepare`, `publish`,
`supersede`, `install_new`, `commit`) do not. It cannot be dropped: without it the
statements are false (`MCStoreFirstStart.cfg` and `MCStoreSyncs.cfg` above), because the
code does not repeat a synchronization whose change it finds in place. The run
`lifecycle` is complementary: every retried synchronization may fail there, at most three
faults happen.

What a restart finds is a function of one root directory (`Survivor`); what an
operation may do next depends on how far it has come. The inductive invariant has one
part for each and one that ties them:

* `Shape`: what a root directory looks like between any two steps. It includes that
  `preflight_setup` accepts it beside its journal, so recovery never ends in a conflict,
  and that the survivor is never half deleted. `Rooted` says it of the directory
  processes see and of each one that a power failure may bring back;
* `Behind`: a root directory that may come back leads recovery to the same store, and
  knows a directory by the same contents under whatever name. This is why deleting or
  filling a directory in place cannot hurt an older root directory that still names it;
* `Kept`: the acknowledged rows are in the survivor and its attachments exist;
* `Running`: the remaining steps are the end of one of eighteen programs, and what the
  steps before have established (`Replacing`, `Erasing`, `Salvages`, `Exports`, ...). The
  programs are the operations and the resumptions of recovery: recovery takes each one
  up where the crash left it, which is what `RecoverKeeps` shows;
* `Stated`: what the state shown to the user says of the disk; `Cancellation`.

One lemma per step of the disk (`RootMktmp` ... `RootInstallNew`, `StageMoves`,
`FirstMoves`, `ShrinkMoves`) shows what it does to the shape and to the survivor, one
lemma per program that it goes on (`SetsUpGoesOn` ...), and one per request, result and
failure that the program it starts is one of them. The invariant was model-checked on
small instances before each part was proved. In the refinement every root directory that
can come back has the rows of the present one, so `undo` is empty or `{held}`: a step
that keeps the survivor's rows is a `Settle` whatever it synchronizes, and `publish`,
`supersede` and the intent of a salvage are `Drop`. `CancelsAreHonoured` needs none of
this: `Controlled`, an invariant of the control flow alone, counts the steps left before
the one-way boundary.

`AttachmentsProofs` proves for any number of operations, requests, rows, calls and
faults, and any limits:

* `PinnedIsKept`: `Spec => []BoundHasFile`;
* `NoOrphans`: `Spec => []FilesAreCharged`;
* `CancellationHolds`: `Spec => CancelStands`;
* `TypeCorrect`: `Spec => []TypeOK`, which includes the account's limit of staged bytes.

Assumption: `AttachmentsAssumption` (the worker is no client, "none" is neither a name
nor a row, the bounds are numbers). The row and the file are changed in different
steps, so the invariant says what makes the second of them still true: who works on an
operation has its lease, and the row is the one it read, because only a holder of
the lease removes rows (`Threads`); how far it has come with the file (a thread that is
about to finish has a durable file, one about to drop the row has durably removed it);
ids are drawn once, so two holders never meet in one directory (`Distinct`); and a
file of a ready row is durable (`RowsOk`), which no transaction ever checks. `Frame`
reduces what a step does to other threads to what it leaves alone (`Left`); one lemma
per step then follows its own thread. The limit follows from what a step may add to the
charged rows (`Admitted`): at most the one row whose transaction counted them.

`SendingProofs` proves for any number of sends, copies, crashes and lost
connections, of the receipts: `TypeCorrect`, `NeverReplayed` (`[]AtMostOnce`),
`AcceptanceIsReal` (`[]AcceptedRan`) and `SettledForGood` (`SettledStands`). The invariant
adds that a dead host serves nobody (`DeadIsQuiet`), that an open reservation has at
most one request which owns it and none has dispatched before (`Claims`), and what each
state of the row says about the dispatch (`Rows`).

Of the chat screen it proves `AdmissionsAreSingle` (`ChatSpec => []OneAtATime`),
`CancellationWins` (`[]CancelledNeverSends`), `UploadsMoveOn` (`[]UploadNotStranded`),
`ShownIsReal` (`[]ShownSentRan`) and `DraftsAreUnsent` (`[]ReturnedDraftUnsent`, for
a client that does not repeat its requests, `Copies = 1`, which is what the application
does; the property itself speaks of histories in which no connection is lost under a
living host, and `send_safe` shows what such a loss does). `ChatImplementsReceipts` (`ChatSpec => Spec`) says
that the composition is an implementation of `SendReceipts`, so that the theorems about
receipts hold of it. The invariant `CInv` adds to that of the receipts what the screen's
places, outcomes and fences say about the call (`Screen`), that a call not made has left
no trace (`Untouched`), that a call made once and returned is over (`Once`), and that
what a round of receipt queries asks is still open and what it found still stands when it
is applied (`Asked`): the round is read before an await and used after it.

`TransportSessionsProofs` proves for any number of sessions, identifiers and requests:
`TypeCorrect`, `ReplayRejected` (`[]AdmittedOnce`), `BudgetCounts` (`[]BudgetExact`) and
`LiveStays` (a live session leaves the store only when it has expired). The invariant adds
who may hold a session (`Owners`) and that what was admitted is in the replay set
(`Replays`). The budget is a counter beside the sets it counts: `BudgetExact` equates
it with the cardinality of all retained pairs of living sessions.

`SessionCacheProofs` proves for any number of keys and requests and any capacity:
`TypeCorrect`, `LeasesHold` (`[]HeldIsResident`), `ExpiredAreOldest` (deadlines follow the
recency order, which is why the scan may stop at the first live entry) and
`LiveIsEvictedLast` (`LiveLeavesLast`). The invariant adds that the residents are finite
and that no deadline is further away than a lifetime (`Deadlines`).

`RouteHealthProofs` proves for any routes, attempts and number of lease identifiers:
`ProbesAreOwned` (`[]ProbeOwned`), `OnlyProbesHeal` (`OnlyCleanProbeHeals`) and
`CooldownStands` (no report shortens a cooldown). The invariant adds that an idle
attempt claims nothing and that a gate which failed since its claim has moved its
generation (`Fenced`), which is what the probe's success is compared with.

Only model-checked: all liveness (temporal properties under fairness are beyond the
prover), `OperationsEnd` and `StoreComesBack` among it, and the lifecycle when one of the
five deciding synchronizations fails.

## 5. What is not modelled

* The paths for a source without a readable identity: `unclassified.rs`,
  `malformed_setup.rs`, `generation_repair.rs`. `Reset` requires an identified
  source.
* Refusals without an effect: not enough space, a wrong confirmation text, a
  password below the required strength, a busy attachment writer in
  `StoreLifecycle` (it is in `StoreAdmission`).
* Contents: SQL, encryption, the export itself. A row is there or not; a torn file
  does not occur because the code synchronizes a file before it renames it.
* Power loss inside a key derivation or a progress callback: these do not touch the
  disk.
* The host's own exclusion of lifecycle operations: `StoreAdmission` shows what
  the store guarantees without it.
* A read error of a key file during reconciliation (as opposed to the load).
* The agent runtime, its loop libraries and external agents: a turn is a stream of
  calls to a model and to tools. Only its entrance, the dispatch of a message, is
  modelled.
* Remote computers, the updater, subscriptions, the other calls of the host.
* The pending keys and sticky routes of the service: one mutex around the list that
  `Recency` describes; each operation is atomic. (A sticky route's clock is read
  before the lock, so an entry may be found expired one wait late.)

The models cover a small part of the repository's lines. Most of the rest is of a kind a
state machine says little about: the user interface (rendering, text input, layout),
HTTP handlers of the service that turn one request into one transaction or one
stream, SDKs in several languages that encode and decode, and wrappers around files,
processes and sockets. The modules follow the places where several actors share state
or where a failure can come between two steps.

## 6. Plan

1. Done: the local store (`StoreDisk`, `StoreLifecycle`, `DurableStore`, `KeySlots`,
   `StoreAdmission`, `Attachments`), sending (`SendReceipts`, `ChatSends`), the
   service's sessions and routes (`SessionCache`, `TransportSessions`, `RouteHealth`),
   and the proofs above.
2. The reset of an unclassified source and the malformed journal, as further
   operations of `StoreLifecycle`; then `StoreAdmission` with the host's exclusive
   admission.
3. Remote computers: uploads and streams across reconnects, pairing. The remote
   upload ends in `Attachments` and would compose with it.
4. The agent loop: steering and follow-up queues, cancellation, and with them the queue
   of the chat screen that `ChatSends` leaves out.
5. The updater's bundle swap; subscriptions of the host.
6. Proofs: the lifecycle with a bounded number of failed deciding synchronizations,
   where a root directory that may come back can lead to another store than the present
   one.

## 7. Running it

    tlc -workers 2 -config MCStoreLifecycle.cfg MCStoreLifecycle
    tlapm KeySlotsProofs.tla

Each run of the tables above is a module and a `.cfg` named in `PROJECT.json`.
