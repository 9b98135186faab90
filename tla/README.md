# A TLA+ model of Server-Storage

Server-Storage is a file indexer (Muninn), a gateway (Hugin) and a web frontend.
Muninn scans a directory tree, keeps snapshots and deltas in LMDB and announces
each of them in a transport outbox. Hugin connects to Muninn over a websocket,
reads the outbox, acknowledges what it read, keeps a tree in memory and serves
it, with the stream of results, to frontends.

This directory models the parts whose correctness depends on the order of
things: the store and its outbox, the threads of Muninn's serve mode, the
bridge with its lost connections, scans of a file system that changes, the
application of deltas, and the places where Hugin queues, stores or writes on
behalf of others. The modules are written
from the code; `PROJECT.json` gives the lines behind every definition ("map"),
the hazards each property is for, and a mutation of the code that each property
detects. Mutated definitions stand in front of the originals, marked "Mutant of".

## 1. Inventory

| Component | Source (`src/backend/`) | State | Operations | What makes it correct | Module |
|---|---|---|---|---|---|
| Transport outbox | `Muninn/storage/lmdb_store.cpp` 799-1311 | sequence -> record, next sequence, position of every consumer | enqueue, register, acknowledge, fetch, compact | no number skipped or used twice, nothing unread removed, consumers do not disturb each other | `TransportOutbox` |
| Snapshot and delta store | `Muninn/storage/lmdb_store.cpp` 420-755, 1313-1600 | snapshots, deltas, with the outbox in one transaction | put, delete, retention | what is stored is announced, removals leave no orphan, retention keeps the newest | `LmdbStore` |
| Serve mode and capture pipeline | `Muninn/main.cpp` 684-870, `Muninn/api/indexing_pipeline.cpp`, `Muninn/transport/crud_command_processor.cpp` | the step each thread is at, the base of the watch loop | bootstrap, watch cycle, remote create, update, delete, crash | deltas can be applied, retention bounds the store, the loop recovers from a lost base | `MuninnService` |
| Muninn's sessions and Hugin's client | `Muninn/transport/ws_crud_server.cpp`, `Hugin/net/muninn_client.cpp` | connections, messages on their way, acknowledged position on both sides | connect, hello, pull, command, result, acknowledge, reconnect | nothing is acknowledged before it was handed over, except by a frontend; everything else is handed over, in order | `MuninnBridge` |
| Scanner | `Muninn/filesystem/filesystem_scanner.cpp` | the iterator, the entries found so far | one step per system call | what is there all the time is found, what is excluded is not, the result is a valid snapshot | `FilesystemScanner` |
| Snapshot builder and validator | `Muninn/snapshot/snapshot_builder.cpp`, `Muninn/domain/validation/validators.cpp` 53-472 | none | ids, parents, passes of the validator | ids are unique, hard links included | `SnapshotBuild` |
| Delta engine, delta validator | `Muninn/snapshot/delta_engine.cpp`, `Muninn/domain/validation/validators.cpp` 589-738 | none | compute, invert, validate | deltas are valid and describe the difference | `DeltaEngine` |
| Materializer sink | `Hugin/sinks/materializer_sink.cpp`, `Hugin/main.cpp` 602-650 | entries by id, ids by path, the snapshot shown | apply snapshot, apply delta | the state is the snapshot it claims to be | `MaterializerSink` |
| Ingest coordinator and its stores | `Hugin/ingest/ingest_coordinator.cpp`, `Hugin/storage/*_ingest_store.cpp` | log and checkpoint per host, position in memory | ingest, crash | no hole in a log, no acknowledgement of what is not stored | `IngestCoordinator`, `CommitLog` |
| Command load balancer | `Hugin/api/command_load_balancer.cpp`, `Hugin/net/muninn_client.cpp` 164-196 | queue of each worker, promises, posted handlers | execute, worker loop, destruction | refused commands are not sent; accepted ones are sent once, or dropped because the connection went down | `CommandDispatch` |
| Frontend stream | `Hugin/api/frontend_api_server.cpp` 538-673, 1418-1441 | write queue, byte count, outstanding writes; where each handler is | broadcast, send, write completion | bounded, complete, never stuck: with one I/O thread; with more, up to two named races | `FrontendStream` |
| Directory upload | `Hugin/api/frontend_api_server.cpp` 1076-1310 | index, counters and failures shared by its threads, files on disk | check, claim, decode, create, write, answer | the answer is true of the disk | `DirectoryUpload` |
| I/O threads of Hugin | `Hugin/main.cpp` 871-919 | which of them are blocked | serve a command, an upload, a posted handler, shut down | nobody waits for ever | `FrontendApi` |
| Rest of the frontend HTTP API | `Hugin/api/frontend_api_server.cpp` | none of its own | single upload, download, queries, routing | - | not modelled |
| Serialization, frames, wire format, migration | `Muninn/domain/*`, `Hugin/protocol/*`, `shared/crud_protocol.hpp` | none | conversions | round trips, unit-tested | not modelled |
| Authentication, DTOs, logging, metrics | `Hugin/api/*`, `shared/service_log.hpp` | none | - | - | not modelled |
| Angular frontend | `src/frontend` | view state | - | - | not modelled |

How they interact: the capture pipeline calls the store; sessions call the
command processor, which calls the pipeline and the store; client and session
exchange messages; the pipeline calls the scanner, the builder and the validator;
the client calls `on_crud_result`, which broadcasts to the
stream sessions and applies records to the sink; HTTP sessions call the load
balancer, which calls the client, or start the threads of an upload and join them.

What is hard: the watch loop and the I/O threads of Muninn share the store but
not a lock over a whole capture; positions are kept on both ends of a connection
that can break at any message; several reads are in flight, so batches overlap;
`ingest` lets go of its mutex in the middle; a command can outlive the caller
that timed out; handlers of one websocket run on several threads, without a lock; a scan takes
many system calls while files come and go; and the threads of an upload share
their counters and a directory tree.

## 2. Modules

`LmdbStore` EXTENDS `TransportOutbox`; `MuninnService` EXTENDS `LmdbStore`: its
steps are the store's actions, guarded by where the thread is. `MuninnBridge`
EXTENDS `TransportOutbox` for the outbox the sessions drain. `MaterializerSink`
EXTENDS `DeltaEngine`, `FilesystemScanner` EXTENDS `SnapshotBuild`, and
`FrontendApi` composes `CommandDispatch` and `DirectoryUpload`, which compete for
the I/O threads. `IngestCoordinator` instantiates `CommitLog`, and `LmdbStore`
the outbox, as the abstract specifications they implement; that `MuninnService`
implements `LmdbStore` is proved. `FrontendStream` stands alone.

- **TransportOutbox**: `outbox`, `next_sequence`, `consumer_ack` are the LMDB
  databases `transport_outbox`, `meta` and `transport_consumers`. Each operation
  is one write transaction, hence one action; aborts and crashes are stuttering.
- **LmdbStore**: adds `snapshots` (ids) and `deltas` (base, target). A snapshot
  id is a hash over time and content, so `CreatedAt` is a function of the id.
- **MuninnService**: `pc` and `found` per thread, `watch_base` as in `main`,
  `pipeline_mutex` as in the command processor. A capture is `Scan`, `ReadBase...`,
  `Put`, `Retain`; the watch loop takes no lock, remote captures hold the mutex up
  to `Put`, deletes take none. The clock ticks in seconds, as `unix_now` does.
- **MuninnBridge**: a connection is a pair of queues; the client's
  `last_ack_sequence_`, pull timer and hello state, and Muninn's per-consumer
  position. A broken connection loses replies while the old session can go on
  with what it had received. A command of a frontend carries any `ack_sequence`, as
  in the code, where nobody compares it with anything. Two variables are history:
  `handed`, what `on_crud_result` saw, and `claimed`, what frontends acknowledged.
- **IngestCoordinator**: per thread the step of its `ingest` call; log and
  checkpoint are durable, `last_committed` and the batch count are not.
  `CommitLog` is what a host is promised. Of the executables none instantiates the
  coordinator yet, only its unit tests do, and no CMake target builds
  `lmdb_ingest_store.cpp`; the module is about the component as written.
- **SnapshotBuild**: raw entries have a path (a number in lexicographic order), a
  type and an inode. The hash of a key is the key. A later link to an inode gets
  an id salted with its path, as in `generate_stable_id`. The validator is its
  header, identity, path and parent graph passes.
- **FilesystemScanner**: `pc` is the next system call of the scan: the status
  that selects an entry, the one that reads its inode, the step of the iterator,
  which opens the directory that was *listed* as one. Between any two of them a
  path can be created, replaced or removed, or a directory moved in.
  `recursive_directory_iterator` is external and behaves as libstdc++'s does.
- **DeltaEngine**: entries are records (id, path, parent, metadata), a delta is
  four sets, the rename heuristic pairs equal fingerprints by rank in path order,
  and `IsValidDelta` is `DeltaReferentialIntegrityPass`. Trees may hold hard links.
- **MaterializerSink**: `entries_by_id` and `id_by_path` of the one host;
  `Receive` hands over the next record or any earlier one, which is what
  overlapping batches amount to. The loops of `apply_delta` are operators in the
  order of the code.
- **CommandDispatch**: `call` is where each request is, from the worker pick to
  the answer. `submit_command` looks at the connection (`CheckConnection`) and then
  posts a handler (`Submit`), in two steps, and the handler looks again; `posted`
  are those handlers. I/O threads that are blocked in `execute` run no handler;
  `phase` is the shutdown of `main`. `lost` is history: commands for which the
  connection went down between the first look and the handler.
- **DirectoryUpload**: one request; each of its threads claims an index, decodes,
  adds to the total, creates the directory, opens, writes and closes, a step
  each. `disk` holds for every target which item each byte is from. The stream
  buffers, so what `write` accepted can still fail to be written by `Close`.
- **FrontendApi**: `workload` is what arrives; a request or a posted handler
  needs an I/O thread that neither a command nor the upload blocks.
- **FrontendStream**: `write_queue`, `pending_bytes`, and `writing`, the
  outstanding `async_write` calls. A session has neither strand nor mutex, so
  `handler` holds, for each of `IoThreads` threads, how far its `send` or `on_write`
  is: a step is one look at the queue or the counter or one change of them, and the
  counter is loaded in one step and stored in another. Reads that stand side by side
  are one step. `races` is history: it gets "empty" when a handler acts on an
  emptiness of the queue that another has ended since, and "bytes" when it stores
  a counter that another has changed since, or pops a frame of another size than it
  subtracted. A front or a pop of an empty deque is `undefined` and ends the
  behaviour. The counter is an integer, taken modulo `Word` where the code compares
  it. The synchronous `close` of the disconnect policy keeps its thread
  ("closing") for as long as it likes. A write whose string was popped
  meanwhile reads freed memory: it sends the frame or does not (`Written`).

`MC...` modules give small instances; the `.cfg` files choose bounds and
properties.

## 3. Runs

| Run | Instance | Shows |
|---|---|---|
| `store` | 3 snapshots, two of one second, 2 deltas, 2 consumers, 3 sequence numbers, batches of 2 | `RetentionKeepsNewest` with the tie-break on ids, `RemovalTakesItsDeltas`, `OutboxImplemented` (the store refines the outbox); `OutboxIsWindow`, `BatchesAreConsecutive`: numbers have no holes and a batch starts right behind the position; `UnreadRecordsAreKept`, `SequencesAreNotReused` of every step |
| `service` | watch loop and a remote worker, 2 contents, 3 sequence numbers, and one of: a second passes, a crash, a failing cleanup | `DeltaRecordsFollowSnapshots`, `StoredSnapshotsAreAnnounced`, `RetentionBound`, and `WatchRecovers` under fairness |
| `service_race` | the same, 4 sequence numbers, no crash or failure | violation: a delta without its base, see findings |
| `ingest` | 2 overlapping calls, 4 records, 2 crashes, batches of 2 | `LogIsPrefix`, `AcksAreDurable`, `SinkLossBound` (each crash costs the sink one record at most), `FirstDeliveriesInOrder`, `CommitLogImplemented`, and `EverythingIsAcked` under fairness |
| `bridge` | 2 consumers, 3 records, 2 connections, 1 restart, 1 command with any acknowledgement, 1 failure | `AckedWereHanded` and `HandedIsPrefix`, up to what a frontend acknowledged, and `EverythingIsDelivered` under fairness |
| `sink` | 11 trees of up to 7 paths, two of them with hard links, 3 captures, with and without inodes | `EntriesMatchClaim`, `NoDanglingPaths`, `ComputedDeltasAreSound`, `NavigationLossIsKnown` (only two kinds of delta make a tree that can be navigated one that cannot) |
| `sink_navigation` | the same, 2 captures | violation: an entry that its path does not lead to |
| `scan` | 5 paths, 3 file systems (plain, hard link, symlink), 5 sets of options, 2 changes during the scan | `CapturedTreesAreValid`, `StableEntriesAreCaptured`, `ExcludedSubtreesArePruned` |
| `scan_errors` | the same | violation: a scan that ends early and says nothing |
| `dispatch` | 2 I/O threads; 3 calls on 2 workers with room for 1, or 1 call and an upload of up to 3 files by 2 threads | `AnswersAreKept` (an accepted command is dropped only if the connection went down), `UploadsAreAccounted`, and `EveryRequestEnds` under fairness |
| `stream` | 3 frames of 1 or 4 units, limits 1 frame and 3 units, 2 threads that interleave within handlers, all policies | the queue is over its limit by at most one frame for each thread but one (`StreamTypeOK`); `PendingBytesMatch` unless "bytes" raced; `FramesAreAccounted`, and `StreamDrains` under fairness, unless "empty" raced |
| `stream_drops` | 4 frames of 1 unit, `drop_oldest`, one thread | violation: a frame that is neither sent nor counted |

Every passing run but `store` also checks the type invariant of its module; that
of the store is part of `ServiceTypeOK`, and is proved.

**Why the bounds are enough.** Each is the smallest at which the interesting
case happens: two consumers at different positions and an acknowledgement beyond
the end; two snapshots of one second and a newer one; three records, so that a
batch of two and one of one overlap; a crash after a crash; a third call while
one queued task fills a queue; a frame that waits fills a queue, and one is too
large for an empty queue; two threads and three frames, with which a frame is
written while another handler is anywhere in `send` and a third frame comes. That the
two races are reached in that instance, and that each consequence of section 4
is, was checked by dropping the exception from the property: TLC then finds a stuck
queue, two writes at a time, a wrong count and a frame over the limit, in 15 to 25
steps, and with `drop_oldest` aside a pop of an empty queue in 29. Two changes of a file system,
let a file move, a directory be replaced and put back, or two directories
change in one scan; an upload whose files need each other's directories, one that
names a path twice, one that replaces a longer file and one that is too large.
`service` allows one event besides what its threads do (`MaxEvents`): within one
second the loop and the worker fight over the same two snapshots, and after a tick
over four. Its types, the refinement and the announcements are proved without
these bounds. In `dispatch` the one command next to an upload takes the other I/O
thread, and three commands fill a queue when there is no upload. Bounds are named
in the modules ("bound:" in the CONSTANTS) and sit in guards, so a run stops at
them: `CHECK_DEADLOCK FALSE` is given where that stop is a deadlock.

**Fairness.** `ServiceFairness`: the watch loop comes round, a thread in a
capture goes on, and scans of the watch loop do not fail for ever (strong, since
a failed scan is retried in the next cycle). `IngestFairness`: a host resends
what is not acknowledged, which is outside of this repository and assumed, calls
go on, and the store does not fail for ever. `BridgeFairness`: the reconnect timer
and the pull timer fire, and messages are handled; connections stop breaking
because their number is bounded. `FairFrontendSpec`: threads with
work run, `wait_for` returns, and writes to the disk return. `FairStreamSpec`: as
long as there is something to run some thread runs, and a frontend that stays
connected takes what is written to it. A `close` need not return (`CloseReturns` has
no fairness), and after the use of an empty deque nothing is required.

## 4. Findings

1. **A delta can outlive its base** (`service_race`).
   `capture_snapshot_and_delta` reads the base and stores the delta in two
   transactions without looking again; a delete command or retention on another
   thread fits in between.
2. **Renames of one delta can hide an entry** (`sink_navigation`). The rename
   loop of `apply_delta` erases by path, also when another entry of the delta has
   that path by then. With the directory `d` renamed to `e` and a new `d`, or two
   names swapped, one entry is in `entries_by_id` but cannot be reached. The state
   recovers with the next snapshot record. There is one more way to lose an entry:
   `compute` does not compare the parents of entries that both snapshots have, and
   `apply_delta` sets parents again for renamed entries only, so that after
   `mkdir n; mv d/x n; rmdir d; mv n d` the entry `x` keeps the id of the old `d` as
   its parent and the new one does not list it. `NavigationLossIsKnown` says, and
   `NavigationTheorem` proves, that these two are all there is: every other record
   leaves a tree navigable that was.
3. **`drop_oldest` drops the frame being written** (`stream_drops`), then
   `on_write` pops a frame that was never written, uncounted.
4. **An error of the traversal ends the scan, silently** (`scan_errors`). The
   loop of `scan` means to report "skipped an entry" and to go on, but after a
   failed `increment(ec)` the iterator is the end iterator and the loop is over.
   A directory that is replaced between its listing and its opening is enough.
   The snapshot is valid and stored; entries that were there all the time are
   reported as removed.

Also met, without a promise in the repository that it breaks: the tree in the
gateway's memory is empty after a restart while Muninn does not send
acknowledged records again; a delta record mostly arrives when its snapshot
record has already replaced the state, and is refused; a caller of the command
endpoint that gets 503 for a timeout may still see its command run. One that gets
202 may see it dropped, with a line in the log, when the connection goes down before
the posted handler runs (`muninn_client.cpp` 188-190).

A frontend's command can acknowledge what nobody has received. The `ack_sequence`
of a request body is any 64-bit number (`frontend_dto.cpp` 147-149), is forwarded
as it is, and `acknowledge_transport_consumer` compares it with the old position
only (`lmdb_store.cpp` 1163-1203). The records up to it are skipped for the gateway,
and may be removed. `AckedWereHanded` and `HandedIsPrefix` say that nothing else
skips a record; `EverythingIsDelivered` does not promise the skipped ones.

With two or more I/O threads, which is the default (`Hugin/main.cpp` 115), the
handlers of a stream session race, and `races` names what they can do:

- "empty": `send` sees a frame in the queue and leaves the writing to `on_write`,
  which pops that frame, finds the queue empty and starts nothing; then `send`
  pushes. The frame waits until another one comes, for ever if none does. Or two
  `send` handlers both see an empty queue and both start a write, on the
  same frame; two `on_write` handlers may then use the front of an empty deque.
- "bytes": a counter is stored over another, or both subtract the frame
  that one of them pops, and `pending_bytes_` is wrong for the rest of the session.
- Both pass `over_limit`, and the queue is one frame over its limit for each
  thread but one. No property excuses this: `StreamTypeOK` has that bound.

With one I/O thread no handler is interrupted and neither race can be.

Of scans:

- A root given with a trailing slash (`/data/`, `.`) keeps it in its normalised
  path, no entry finds it as its parent, and the validator rejects the
  snapshot; so it does when the root itself is a symlink, and for every link
  that is followed under `--scan-follow-symlinks` into a directory that is not
  empty, since its entries have a parent of type symlink.
- Exclude globs do not prune a symlinked directory that is followed.
- An entry that vanishes before its status is read ends the scan with a warning;
  the shorter snapshot is stored.

Of uploads: a path that is named twice in one request is written by two threads
at once, can end up with the bytes of both, and counts as uploaded twice
(`UploadsAreAccounted` leaves such paths out); a write that fails when the
stream is closed counts as uploaded (the property allows it when the disk is
full); the size checks of the threads cannot fail, since what is decoded is
never more than what was estimated when the request was checked.

## 5. Proofs

TLAPS checks the following for all values of the constants, under the
assumptions stated with the constants (`OutboxAssumption`, `StoreAssumption`,
`ServiceAssumption`, `IngestAssumption`, `BridgeAssumption`, `StreamAssumption`,
`DispatchAssumption`, `UploadAssumption`, `PathAssumption`, `ScannerAssumption`,
`TreeAssumption`, `SinkAssumption`), which TLC evaluates in the runs. That paths and
inodes are numbers is no restriction: they are numbered in the order of the code. Where a property counts threads or calls the
assumptions say that there are finitely many (`Workers`, `Calls`, `Uploaders`).
Before a proof, each inductive invariant was an invariant of the component's run.

- `TransportOutboxProofs`: `OutboxInv` (types and `OutboxIsWindow`: the stored
  numbers are an interval that ends before `next_sequence`) is inductive;
  `WindowTheorem` is it. `UnreadTheorem` and `SequencesTheorem`
  follow step by step: a reused number needs one at or above `next_sequence`
  in the outbox, which the window excludes. `BatchTheorem` reads what a batch is
  off the window.
- `MuninnServiceProofs`, the store: `OutboxTheorem`, the refinement: every step of the store is
  a step of the outbox or leaves it alone (`StoreStepIsOutboxStep`).
  `StoreTypeTheorem` uses the outbox invariant through that refinement;
  `RemovalTheorem` is a property of every step. `RetentionTheorem` counts: a
  snapshot is kept when fewer than `keep` are newer, each has a rank of its own,
  and the ranks of n snapshots are 0 to n - 1.
- `MuninnServiceProofs`, serve mode: `ThreadInv`, the types of the threads with what a capture
  knows of its snapshot, is inductive; with it every step of every thread is a
  transaction of the store or leaves it alone (`ServiceStepIsStoreStep`), so
  `ServiceImplementsStore`, and the theorems about store and outbox hold of serve
  mode. `AnnouncedTheorem` needs the window of the outbox through two
  refinements: a record is never overwritten, and what stores a snapshot writes
  its record. `DeltaTheorem` needs `DeltaInv`: the base a capture is about to use
  was announced, which no later delete can undo.
  `BoundTheorem`: `RetentionBound` is inductive with `ThreadInv` and `FiniteInv`; a
  capture adds a snapshot as it comes to its cleanup, which leaves `KeepLatest`.
  `WatchAloneTheorem`: with no workers the base that was read is
  still stored when the delta is (`BaseIsStored`), hence no delta loses an
  endpoint; `service_race` shows that this assumption is needed.
- `IngestCoordinatorProofs`: `LogIsPrefix` is not inductive. `IngestInv` adds
  that the position in memory is never ahead of the checkpoint
  (`MemoryBehindStore`), that a call between the check and the store carries a
  number at most one past the checkpoint (`CallsInReach`), and that no
  acknowledgement is ahead of it (`AcksBehindStore`): overlapping calls then write
  a duplicate or the next record, however they interleave. `LogTheorem`,
  `AckTheorem` and the refinement `CommitLogTheorem` follow. `DeliveryInv` adds
  that the store is at most one record ahead of the position in memory, and that
  a call whose number is not ahead of it carries a record the sink has had;
  `OrderTheorem` follows, and, as a crash costs that one record, `LossTheorem`.
- `MuninnBridgeProofs`: a record is `covered` for a consumer when it was handed
  over or a frontend acknowledged it. `BridgeInv` relates every message to that: a
  result on its way starts at most one past a covered interval, an acknowledgement on
  its way is of covered records. `AckedTheorem`, `PrefixTheorem`
  and `BridgeTypeTheorem` follow, and every step of the sessions is a step of the
  outbox or leaves it alone (`BridgeImplementsOutbox`).
- `FrontendStreamProofs`, for any number of threads: the byte count is a fold over
  the queue; lemmas say how it changes when a frame is added or removed.
  `StreamInv` adds to the types what each handler carries (`HandlersHold`) and
  counts admissions: a queue with the handlers that have passed the limit, but
  not pushed, is no longer than the limit and a frame for each thread but one
  (`QueueFits`), since the last of them to pass saw the queue below its limit.
  `PendingInv`: as long as "bytes" has not raced the counter is the size of the
  queue and what handlers that have stored it, and not pushed or popped, are ahead
  by. `Account`: without `drop_oldest`, and as long as "empty" has not raced, at
  most one of a write, an `on_write` and a start is under way (`OneWrite`), only it
  pops (`OnlyWritesPop`), no frame is in two places (`NumbersDiffer`) and none is
  in no place (`NoneIsLost`).
- `FrontendApiProofs`: `DispatchInv` ties the state of every call to the one place
  its command is at (a worker's queue, a posted handler, the connection);
  a command is dropped only if it is in `lost`.
  `UploadInv` ties every index of a request to the one thread that claimed it, and
  the counters to the items that are done. The sum of sizes does not depend on the
  order it is taken in (`BytesAreSum`). `AnswersTheorem`, `UploadsTheorem` and
  `FrontendTypeTheorem` are about the composition with the I/O threads.
- `FilesystemScannerProofs`: the paths above a path are the least set closed under
  parents (`AncestorsDefined`); opening a directory adds its listing to what waits,
  and a step of the iterator takes one entry from it (`PushedFacts`,
  `AdvanceFacts`). `ScanInv`: an entry is visited once and nothing below it is seen
  before it is opened (`OnceInv`); what was read of an entry is true or a change
  has touched it (`ListedInv`); what is entered is in the result, or changed
  (`EnterInv`). Then `ParentInv`: whatever is above something that was seen is in
  the result, a directory and not excluded, from which `ExcludedTheorem` follows;
  and `CaptureInv`: what should be captured is captured or an entry on the way to
  it still waits, which gives `CaptureTheorem`. `ValidTheorem` needs, besides
  `ParentInv`, that the builder's ids are unique on any entries with unique paths
  (`StableIdFacts`: a salted id is longer than one that is not) and that parents
  have smaller paths, so that what is built passes the validator (`TreesAreValid`).

- `MaterializerSinkProofs`: the steps are few, what they compute is the matter. Ids
  are unique within a snapshot, those of later hard links included (`EntriesAreSnapshot`):
  an entry's id is then enough to compare two snapshots.
  The heuristic pairs by rank, ranks are injective, so nothing is
  renamed twice and swapping the snapshots swaps the pairs: hence
  `SoundTheorem`. The rename loop is taken one turn at a time: `AreDone` says which
  ids and paths the maps have when a set of renames is done, and each turn keeps it
  whatever the order, although an erased path may be another entry's by then. So
  after a delta the ids are those of the target with its paths and metadata.
  `SinkIInv` (the maps are well-formed and show the capture that is claimed, records
  name captures that were stored) is inductive with that and gives
  `SinkTypeTheorem`, `ClaimTheorem` and `DanglingTheorem`; `NavigationTheorem` adds
  which paths the erased mappings belonged to and where parents are set again.

Induction: the library's induction theorems, which take an operator, cannot be
used, but what they are for can often be had from a least element (`LeastNatural`,
`NatSetInduction`, from `WFMin`) applied to the set where a claim fails.

Only model-checked: the liveness properties (`WatchRecovers`, `EverythingIsAcked`,
`EverythingIsDelivered`, `EveryRequestEnds`, `StreamDrains`), since fairness and
ENABLED are out of the prover's reach. Every safety property of a passing run is a
theorem.

## 6. Not modelled, and why

- Handlers of the client that overlap: they are atomic in `MuninnBridge`, their
  order is not, which is exact with one I/O thread only.
- Of stream sessions, what overlapping accesses do to the memory of the deque, and
  reads that stand side by side: accesses are interleaved one at a time, and of
  undefined behaviour only the front and the pop of an empty deque, and the write of
  a string that was popped, are modelled.
- Reconnect delays (arithmetic on timers), token checks, HTTP routing, single
  uploads and downloads, which are sequential and share nothing.
- Followed symlinks: the type of what they lead to, loops. `scan` covers that the
  options do not disturb what is found elsewhere; snapshots with followed links
  are rejected, see section 4.
- Entry ids that collide because two hashes do, warnings of the validator, and
  the byte formats.
- Several hosts in the sink: one Muninn has one host identifier, and the ingest
  theorems hold for any set of hosts.
- One-shot command line modes of Muninn: sequential uses of the same store.

## 7. Plan

Written in this order, the most important first: outbox, store, service (what
must never be lost); ingest and its commit log; bridge; delta engine and sink;
dispatch; stream; scanner and validator; upload and the I/O threads; then the
proofs, in the same order, the sink last. What remains:

1. The client with more than one I/O thread, as `FrontendStream` does it for
   sessions: its write queue, `schedule_reconnect` and handlers of the connection
   before it.
