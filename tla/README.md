# Dropbox Lite: a TLA+ verification of the server and its libraries

Dropbox Lite is a file synchronisation server in C++20 with the libraries of a
client.  This directory models its concurrent and failure-prone parts in TLA+,
checks them with TLC on small instances, and proves the central invariants with
TLAPS for every value of the constants.  Paths below are relative to the
repository.

    tlc -workers 2 -config MCStorage_faults.cfg MCStorage     # one run
    tlapm StorageManagerProofs.tla                            # one module's proofs

## 1. Inventory

| Component | State | Operations | Hard behaviour | What makes it correct |
|---|---|---|---|---|
| `SyncService` (src/server/sync_service.cpp) | none of its own; a `StorageManager` | `UploadFile`, `Sync`, `StreamSync` (reads and drops); `Heartbeat`; stubs `DownloadFile`, `ResolveConflict` | gRPC runs calls in parallel; streams break; answers get lost | an acknowledged upload is stored whole; no change is missed by `Sync` |
| `StorageManager` (src/server/storage_manager.cpp) | chunk files by hash, rebuilt files, a database per client | `storeChunk`, `getChunk`, `finalizeFile`, `deleteFile`, readers | no lock around an upload; crash between two writes; unchecked writes | rows name existing chunks; record and file agree; uploads are atomic |
| `MetadataDB` (src/core/metadata_db.cpp) | SQLite tables files, chunks, sync_state | INSERT OR REPLACE, UPDATE, SELECT by row; `Transaction` | one connection shared by all calls of a client id | a transaction is all or nothing |
| `ThreadPool` (src/common/thread_pool.cpp, .h) | queue, stop flag, atomic count, two condition variables | `enqueue`, `wait`, destructor, worker loop | wakeups, counter updated outside the lock | every task runs once; the destructor drains and returns; `wait` means done |
| `RateLimiter` (src/common/rate_limiter.cpp) | tokens, rate, burst, time of last refill | `acquire`, `tryAcquire`, `setRate` | lazy refill, unlocked reads, unsigned arithmetic | a token bucket; `acquire` sleeps as long as it must |
| `Chunker`, `RollingHash` (src/common/chunker.cpp, hash.cpp) | scan position, hash, statistics | `chunkData`, `chunkFile`, `append`, `update` | boundaries at minimum, maximum and end; object reused | chunks tile the input, keep the bounds, depend on content only; statistics of what was read |
| `Metrics` (src/common/metrics.cpp) | four maps behind one mutex | counters, gauges, latencies, bytes, getters, `toString`, `reset` | a report while others record | a report is a snapshot; every call returns |
| `DeltaEngine` (src/core/delta_engine.cpp) | none; a `Chunker` | `computeDelta`, `applyDelta`, `areFilesIdentical` | hashes grow stale while chunks are sent; a file that cannot be read; too little data | delta and server's chunks make the file; what is acknowledged is stored |
| `ConflictResolver` (src/core/conflict_resolver.cpp) | none | `hasConflict`, `autoResolve`, `resolve` | names made from a local time in seconds, through a shared static `tm` | when copies get one name; two devices agree |
| `Compression` (src/common/compression.cpp) | none | `compress`, `decompress` | a loop that doubles its buffer | it ends, and gives back what was compressed or throws |
| `Logger` (src/common/logger.cpp) | level, file, mutex | `log`, `setLevel`, `setLogFile` | `std::localtime` is not covered by the mutex; local time goes back; the file changes under way | lines in order of time, the file as the console |
| `main` (src/server/main.cpp) | a flag | start, handlers, polling, `Shutdown` | signals before the handlers; shutdown with calls in progress | a signal ends the process; nothing durable is lost |
| error types, benchmarks | | | | not modelled, see section 8 |

The README of the repository also names a client (`FileWatcher`, `SyncEngine`);
the repository holds no source for it.  Where a model needs one (who uploads, who
calls `Sync`), it is an external part of that model.

**Interactions.** `UploadFile` calls `storeChunk` for each message and
`finalizeFile` at the end of the stream; both work on the shared chunk directory
and on the `MetadataDB` of the client id, which all calls of that id share.
`Sync` reads the same files table.  `main` owns the service, and its `Shutdown` waits
for the calls.  `DeltaEngine` uses the `Chunker`; `ConflictResolver` shares the static
`tm` of `std::localtime` with the `Logger`.  `ThreadPool`, `RateLimiter`, `Metrics`,
`DeltaEngine`, `ConflictResolver`, `Compression` and `Transaction` are libraries: nothing
in the server calls them, so their environment is any caller that keeps to their
interface.

The hazards this code is exposed to are listed, each at its line, in
`PROJECT.json`.

## 2. Modules

| Module | Models | Kind |
|---|---|---|
| `MetadataDB` | the SQL statements as operators on the files and chunks tables | operators |
| `StorageManager` | `UploadFile` + `StorageManager`, extends `MetadataDB` | state machine |
| `FileStore` | what a client may rely on when it uploads | abstract specification |
| `SyncService` | `Sync`, `computeChanges` against `finalizeFile`, extends `MetadataDB` | state machine |
| `Transaction` | `MetadataDB::Transaction` on one connection | state machine |
| `ThreadPool` | workers, callers, destructor | state machine |
| `RateLimiter`, `TokenBucket` | the limiter, and the bucket it promises to be | state machine, abstract specification |
| `RollingHash`, `Chunker` | the polynomial hash; `chunkData` byte by byte | operators, state machine |
| `Server` | `main` around the calls of `SyncService`, which it extends | state machine, refines `SyncService` |
| `DeltaEngine` | `computeDelta`, `applyDelta` and the upload of a delta, extends `Chunker` and `MetadataDB` | state machine |
| `Compression` | `compress`, `decompress` around zlib | operators |
| `Metrics` | the registry and its report | state machine |
| `Logger` | threads that log | state machine |
| `ConflictResolver` | conflicts and their names, extends `Logger` | state machine |
| `MC*` | constants of the runs; `MCLibraries` joins `RateLimiter`, `Metrics` and `Transaction`, which share no state, in one run: a behaviour exercises one of the three | instances |
| `*Proofs` | theorems of the module they extend, and of the components in it: `ServerProofs` of `SyncService`, `DeltaEngineProofs` of `Chunker`, `RollingHash` and `Compression`, `ConflictResolverProofs` of `Logger` | proofs |

Operators whose comment begins with "Mutant:" are deliberate defects.  Nothing uses
them in the models; each stands for a plausible bug that the named property finds.

### StorageManager

The code takes no lock around an upload (`db_mutex_` guards only the map of
databases), so a call is cut at every access to shared state.  One call goes through
`Begin`, then per message `ReadMessage`, `ChunkExists` (the deduplication test),
`OpenChunk` (truncates), `WriteChunk` or `WritePart`, `InsertChunk`; then `StreamEnds`,
`ListRow` per row and `ListEnd` (the count test), `CreateFile` (truncates the client's
copy), `SizeChunk`/`CopyChunk` per chunk (`getChunk` asks for the size and reads
afterwards), `StatFile`, `HashFile`, `CommitFile`, `Respond`.  `pc[u]` is the place of
call u, `loc[u]` its local variables.  `DeleteFile` and `Crash` may come at any time;
no RPC reaches `deleteFile`, it is called as the class's interface allows.

A file is a sequence of bytes, and a stream keeps its position: with the fault
"partial_write" a call that has written k bytes goes on at byte k (`stream[u].pos`), also
when another call has truncated the file in between, and leaves a hole of zeros before it.
Others, and a crash, see what is written so far.  The buffer of the
rebuilt file's stream is not modelled: its writes reach the disk in program order, so
a crash in the model leaves any prefix cut between chunks.
SHA-256 is taken to be injective.  The constant `Faults` says what may go wrong:
crash, short_write, partial_write, open (a file cannot be opened for writing), read (the
rebuilt file cannot be opened by `sha256File`, whose empty string, `NoDigest`, is then
inserted and acknowledged), db, broken_stream, overlap (two calls for
one file), same_chunk (two concurrent calls with a chunk in common) and corrupt
(bytes that do not match their hash).

`FileStore` is the promise: an upload takes effect in one step or not at all.
`AtomicUploads` says that `StorageManager` implements it, the record in the files
table being what the store shows.

### SyncService

Two times meet here: the `modified_time` `finalizeFile` takes before it inserts a
record, and the `server_time` `Sync` takes after it has listed the files and which the
device sends back as `last_sync_time`.  `StampRecord`/`InsertRecord` and
`CallSync`/`ListFiles`/`Answer`/`LoseAnswer` are these steps.  `getAllFiles` fetches in
rowid order and a replaced row gets a new, larger rowid, so a scan ends with the latest
row of every path: listing is one step.  The history variable `close` collects the
paths that had an upload during a call or in the second of its answer.  `DeleteFile` marks a
row, which `getAllFiles` then skips: the code never reports a deletion to a device.
`Crash` takes the calls and the records not yet inserted with it.  The device is
external: it fetches what it is told of (`DownloadFile` finds the record but is a stub
that sends no bytes).

### Server

`main` goes from "down" through "started" (`BuildAndStart` has returned and calls come
in), "serving" (the handlers are installed) and "draining" (`Shutdown`) back to "down".
`Kill` is a crash, or a signal that finds no handler yet.  `AcceptUpload`, `UploadEnds`
and `UploadFails` surround the steps of `SyncService` that stamp and insert a record;
how chunks are stored is the subject of `StorageManager`.  `Shutdown` without a deadline
accepts nothing and waits for the uploads, Sync and StreamSync calls in progress.

### ThreadPool

A section under `queue_mutex_` is one step, except that `wait()` tests its predicate
(`WaitTests`) and then blocks (`WaitBlocks`): the workers decrement `active_tasks_` and
notify without the mutex and fit in between.  `Spurious` allows spurious wakeups.

### RateLimiter

A tick is a millisecond, rates are in tokens per tick, doubles are exact integers;
`size_t` arithmetic is modulo `SizeModulus`, which is larger than any sleep that is
needed, as 2^64 is.  Time is kept relative (`elapsed`, `sleep`)
so that the state space is finite.  `TokenBucket` refills at every tick; the refinement
maps its level to what `refill` would return now.

### Chunker and RollingHash

One step per byte.  Constants are small versions of the code's sizes, masks, prime
and modulus.  `last_stats_` starts with arbitrary values, as `ChunkStats` has no
initialisers.  `OpenFails` is a `chunkFile` that returns before it touches them;
`last_read` remembers the last call that did read its file.  The bytes `chunkFile` gets
when the file shrinks between `tellg` and `read` are zeros at the end (the buffer is
zero-filled and the read is not checked): inputs that end in zeros are among the
`Inputs`.  `ChunksOf` is the reference definition of where content is cut.

### DeltaEngine and Compression

A client asks for the hashes of the server's rows of a file, `computeDelta` chunks the
local file (with the steps of `Chunker`) and divides the chunks, the client sends those
in `new_chunks` with the index each has in the file, and `finalizeFile` rebuilds the file
from all rows.  A chunk's hash stands for its bytes.  The client is external and follows
the repository's README (Delta Synchronization); it may break off, and another device
may upload the whole file at any time.  `StorageManager` has the fine grain of the
server's part; here a message is one step.  `applyDelta` is an operator that gives the set of
outcomes on the chunks and the data: a failed open that leaves the file, a stop at the first
chunk the data does not reach, and a write that fails unnoticed and cuts the file anywhere.

A compressed buffer is its length, the length of what it expands to and whether its end
is missing.  zlib's `uncompress` reports Z_BUF_ERROR only when it has used up its room
and there may be more, and Z_DATA_ERROR when the input ends early with room left (as
zlib has done since 1.2.11).

### Metrics

Each operation is one step under the mutex, but `toString`, which keeps the mutex while
it reads the maps entry by entry and then calls `getBytesPerSecond`, which locks again.
Locking a std::mutex one holds is undefined; the outcome modelled is that of the
platform's normal mutex, the thread waits for itself.  The three getters are operators,
which the properties use, and one action (`Get`), since they take the lock and change
nothing.

### Logger and ConflictResolver

`log` tests the level, locks, reads the time, calls `std::localtime`, formats and writes
to the console and then to the file; `generateConflictName` reads the time, calls
`std::localtime` and formats without a lock.  `std::localtime` fills one static `tm`:
when it is overwritten before it is formatted, any time may be read (`put_time`), and
`raced` remembers for the line or name who did it, another line or the resolver.  Local
time is the clock plus an `Offset` that depends on the clock: it goes back where the offset
drops, as when daylight saving ends.  A path is its stem, whether it has a dot, and what
follows the dot; its directory is part of the stem.  A name is the stem, the local time and
what follows the dot, which is nothing both for "a" and for "a.": these two get one name,
as in the code.  A stem that itself reads like
"x (conflicted copy ...)" is one stem among others; that two such strings might be
put together from different parts is left out.

### Transaction

SQLite has one transaction per connection.  `Construct` ignores a failed BEGIN as the
code does.  `StatementFails` is an INSERT or COMMIT that returns false: the statement alone
is undone, or SQLite rolls the whole transaction back (SQLITE_FULL, SQLITE_IOERR), after
which the next INSERT commits by itself.  `Careless` says whether an owner writes on after a
call returned false, `Shared` whether two objects may live at once.  Nothing in the
repository creates a Transaction; both constants describe its callers.

## 3. Runs

| Run | Checks | Bounds | Result |
|---|---|---|---|
| `storage_faults` | `TypeOK`, `ChunkRowsBacked`, `ChunkBytesInPlace`, `NoForeignBytes` | 2 calls, 2 files, 2 chunks, every fault but corrupt | 7.3 M states, hold |
| `storage_uploads` | `AtomicUploads`, `RecordMatchesDisk`, `RefusedWithReason`, `UploadAnswered` | 3 calls, 2 files, versions of no, one and two chunks, crash at any step, concurrent calls disjoint | 264 k states, hold |
| `storage_torn` | `NoTornFile` | 2 calls sharing a chunk, no other fault | violated |
| `pool` | `TypeOK`, `ExactlyOnce`, `ActiveCount`, `SomeoneWillTake`, `DrainedOnDestroy`, `TasksRun`, `WaitReturnsUnlessMissed`, `DestructorReturns` | 2 workers, 2 clients, 2 tasks, spurious wakeups | 43 k states, hold |
| `pool_wait` | `WaitMeansDone` | 1 worker, 1 client, 1 task | violated |
| `delta` | `Tiling`, `SizesBounded`, `CutByContent`, `StatsOfLastRead`, `UpdateForgets`, `DeltaRebuilds`, `DeltaUploadStored`, `ApplyKeepsOrCuts`, `DecompressEnds` | all contents of up to 5 bytes over 2 values, chunks of 2 to 4 bytes, normalized size 3; 2 synchronizations, 1 upload of another device of up to 3 bytes; buffers of up to 24 bytes | 1.2 M states, hold |
| `server` | `ServerTypeOK`, `NothingMissed`, `SignalStops`, `StaleCopiesRefreshed` | 1 device, 2 files, 2 contents, 2 uploads, 1 stream, 2 seconds, 1 signal or kill | 289 k states, hold |
| `sync_missed` | `AllChangesReported` | 1 device, 1 file, 1 upload | violated |
| `libraries` | `ReportIsSnapshot`, `RateSinceFirstByte`; `AllOrNothing`; `IsTokenBucket` | 2 threads, 2 names, 4 calls of the registry; 3 transactions in turn, 2 rows each, failed statements; 3 calls of a limiter whose rate is lowered at any time | 481 k states, hold |
| `metrics_hang` | `CallsReturn` | 2 threads, 1 name, 3 calls | violated |
| `acquire_sleep` | `SleepsAsNeeded` | 3 calls, requests up to the burst size | violated |
| `conflict` | `LogOrdered`, `FileFollowsConsole`, `NamesClash`, `SidesAgree` | 2 threads, 3 calls, 3 seconds in which local time is set back, 2 log files, files "a", "a." and "a.t" | 855 k states, hold |

Why the bounds are enough: the storage defects and guarantees relate two calls and at
most one earlier one (what it left behind), so three calls and two files cover a
concurrent pair and a predecessor; chunk "a" has two bytes so that a torn write differs
from an empty and a whole file.  The pool needs two workers to race and two callers to
enqueue and wait; the chunker's inputs are longer than the largest chunk, its
chunks reach the minimum (2), the early mask below the normalized size (3), the full mask
and the maximum (4), and two calls show what is left of the first and a delta against the
first one's rows; the other device's upload may fall anywhere in between.  The server is stopped once, with uploads,
a stream and a Sync call before, during and after it.  The properties of `conflict`
compare two lines or two names; the third call is what overwrites the `tm` of one, and of
the three seconds the last shows the local time of the first again.  `SizeModulus` is far above every
sleep that is needed, so a wrapped one is told apart as it is at 2^64.
`MaxDoublings` is enough for every buffer of the run: the room at least doubles, so the
bound `4 * MaxDoublings + 3` on the data that `CompressionAssumption` asks for is generous.  A
bucket is full after `MaxElapsed` ticks by assumption, so capping `elapsed` hides nothing.
Calls of `UploadFile` are numbered in order of arrival, and the two paths are
interchangeable, as are the threads of `conflict` (`SYMMETRY`, in safety runs only).
Deadlock checking is off where the system may stop: a pool that is idle or destroyed,
a client after its last delta, and the bounded calls of the other models.

### What the violations show

* `storage_torn`: two uploads that share a new chunk both find it missing.  The second
  one's open truncates the file after the first one's `getChunk` has read its size and
  before it reads the bytes; zeros go into the rebuilt file, its hash is recorded and the
  client is told the upload succeeded.
* `pool_wait`: the worker pops a task under the lock and counts it after releasing it;
  `wait()` sees an empty queue and a zero count and returns before the task has run.
* `sync_missed`: an upload stamps its record, a `Sync` lists the files and answers with a
  later or equal time, and the record is inserted.  The next `Sync` compares with `>` and
  leaves the file out for ever.
* `metrics_hang`: one thread records bytes, another (or the same) asks for a report;
  `toString` holds the mutex when `getBytesPerSecond` locks it again (metrics.cpp:119).
  The report never returns, nor does any later call, although the repository's README
  speaks of lock-free metrics.
* `acquire_sleep`: `acquire` fails to take its tokens, another caller's refill makes them
  suffice, and `bytes - available()` is negative as it is computed: in `size_t` it wraps,
  and the sleep "for the time needed to accumulate required tokens" is endless.

The models have more behaviours of this kind, which are not runs of their own.  Each can
be seen by changing the constants of a run, or the property, as given:

* `Faults = {"crash", "partial_write"}` in `storage_torn`: a chunk file cut off by a crash
  is taken as the chunk by the retry, which is acknowledged (`NoTornFile`); likewise
  `{"broken_stream"}` and `{"overlap"}` with two versions of two chunks each: rows of two
  versions are mixed.
* In `storage_uploads`, dropping a disjunct of `RefusedWithReason`: a version with fewer
  chunks than an earlier one is refused for ever, since nothing deletes chunk rows; so is
  any file with a chunk whose file a crash left empty.  An empty file (a stream without
  messages) is always refused: `client_id` and `filepath` come from the first message.
* `Rates` with a value above `Rate` in `libraries`: after `setRate` the time since the
  last refill is credited at the new rate (`IsTokenBucket`).  No property says that `acquire`
  returns: a request above the burst never does, and one below it can be overtaken by
  other callers for ever, which the code does not promise to prevent.
* Without its premise, `WaitReturnsUnlessMissed` fails: the last notification falls between
  `WaitTests` and `WaitBlocks`, and `wait()` never returns.
* Without `InPlace` or `others = seen`, `DeltaUploadStored` fails: an existing chunk that
  moved to another index, or rows another device replaced after the client asked, make a
  rebuilt file that nobody uploaded and that is acknowledged.  The server offers no RPC to
  give an existing chunk its new index.
* Without `ClientsHangUp`, `SignalStops` fails: a StreamSync call that its client keeps
  open holds `Shutdown` for ever.
* `LogOrdered` and `NamesClash` name the cases in which the code fails its users.  Printed
  times go back when local time does and when `generateConflictName`, which does not take the
  logger's mutex, overwrites `tm`.  Two conflicted copies of one file get one name, and the
  second replaces the first, when they are made in one second of local time, which may be an
  hour apart.  "a" and "a." share their names.  A tie of times makes both devices keep
  the other's version under the path (`SidesAgree` allows it for KEEP_BOTH).
* `"read"` added to `Faults` in `storage_uploads`: `sha256File` returns an empty string for a
  file it cannot open, and the upload is recorded with it and acknowledged
  (`RecordMatchesDisk`).  With "crash" alone, and without its last disjunct,
  `RecordMatchesDisk` fails as well: a crash between the rebuild in place and the record leaves
  the record of a file that is gone, until the next upload that is acknowledged.
* `applyDelta` truncates the file it is given before it knows that the data suffices, and
  returns true when a write failed (`ApplyKeepsOrCuts` says how much is left).
* `Careless = TRUE` in `libraries`: after SQLite has rolled a transaction back, the rows its
  owner writes next commit by themselves (`AllOrNothing`).
* `Shared = TRUE` in `libraries`: a second object's BEGIN fails unnoticed, the first
  object's commit ends the transaction, and the second's rows commit by themselves
  (`AllOrNothing`).
* `chunkData` only appends to the hash, so boundaries depend on the chunk since its start,
  not on a 48-byte window; `CutByContent` states what does hold.

## 4. Fairness

* `StorageManager`: weak fairness of every call's steps; gRPC schedules each call in a
  thread, and a stream ends, by its client or by the transport.
* `ThreadPool`: strong fairness of the workers (a thread contending for the mutex gets it,
  a task finishes), weak fairness of the calls in progress and of the destructor.  Calling
  the pool is never forced.
* `Server`: `main` and the handlers run, and the process is restarted when it is down (weak
  fairness); a device keeps calling whenever the server accepts, and not every answer is
  lost (strong fairness of `BeginSync` and `Reply`).  Nothing is assumed of the clients that
  upload or stream: the two liveness properties say for themselves that they hang up
  (`ClientsHangUp`).
* `Metrics`: a thread that can run does; calls are finite, so the mutex need not be fair.
  The violation of `CallsReturn` is under this fairness: the report is not kept from a step,
  it has none.

## 5. Proofs

All are checked by TLAPS without assumptions other than the named ASSUMEs on constants,
which TLC evaluates in the runs, and the set of faults or the restriction on `setRate` where
a theorem names one.  38 theorems state 31 of the 37 properties that the passing runs
check: all the invariants and the two refinements.

| Theorem | States | Inductive invariant |
|---|---|---|
| `StorageManagerProofs!TypeCorrect`, `RowsBacked` | `TypeOK`, `ChunkRowsBacked` under every fault | `TypeOK`, no request before `Begin`, a call at "write" or "insert" finds its chunk file in place |
| `StorageManagerProofs!BytesInPlace` | `ChunkBytesInPlace` unless bytes are corrupt | `Streaming`: a stream has the data of its message and is not past its end; `SoleWriter`: the file of a chunk's only sender holds what its stream has written so far |
| `StorageManagerProofs!OwnBytesOnly` | `NoForeignBytes` unless bytes are corrupt | `RowsSent`, `ListSent`: rows, and the list a call has made of them, name chunks sent for the path; `SentBytes` |
| `StorageManagerProofs!RecordsMatch` | `RecordMatchesDisk` unless "overlap" or "read" | `FilesApart`; `Hashed`: what a call is about to insert is the digest of the file it has written; `RecordOrCall` |
| `StorageManagerProofs!RefusalsHaveReasons` | `RefusedWithReason` without "open", "db", "overlap", "same_chunk" | `ListInv`: the list follows the rows up to the cursor, rows lie within the longest version sent, every row of the call is its own; `Refusals` |
| `StorageManagerProofs!UploadsAtomic` | `Spec => AtomicUploads` when `Faults` is within {"crash", "open", "db"} | `ListInv` and `CopyInv`: chunk files are empty or whole, an accepted list is the version sent, and the file holds the chunks copied so far |
| `ThreadPoolProofs!TypeCorrect`, `TasksExactlyOnce`, `CountExact`, `DestructorDrains`, `NoWorkerWakeupLost` | the five invariants of run `pool` | their conjunction with: a worker exits only when stopped with an empty queue, and then nothing is enqueued |
| `RateLimiterProofs!Conforms` | `Spec => IsTokenBucket` as long as `setRate` raises neither the rate nor the burst size | `Limits`: a bucket is full after `MaxElapsed` ticks at the present rate; `refill` after a tick is the abstract tick |
| `DeltaEngineProofs!TypeCorrect`, `ChunksTile`, `ChunkSizes` | `TypeOK`, `Tiling`, `SizesBounded` of the `Chunker` for every input and every size | the tiling and the bound on the chunk being scanned |
| `DeltaEngineProofs!StatisticsOfLastRead` | `StatsOfLastRead` | `Counted`: the running minimum, maximum and sum are those of the chunks made so far; a call that opens no file leaves both sides alone |
| `DeltaEngineProofs!CutsByContent` | `CutByContent` | `Judged`: the hash is that of the bytes since `chunk_start`, and the chunks made, followed by those of the rest, are `ChunksOf(data)` |
| `DeltaEngineProofs!UpdateIsExact` | `UpdateForgets` for every prime, modulus and window | none: `update` against `HashOf`, by induction over the window |
| `DeltaEngineProofs!DeltaImplementsChunker`, `DeltaChunks` | `DeltaSpec => Spec` of the `Chunker`, and so its properties in every delta | none |
| `DeltaEngineProofs!ApplyWritesWhatFits` | `ApplyKeepsOrCuts` for every outcome of `applyDelta` | `FirstPart`: what the loop has written when it stops; `Whole`, `Chunked`: once a scan is over, and so whenever a delta is computed or sent, the chunks tile the file |
| `DeltaEngineProofs!DeltaLosesNothing` | `DeltaRebuilds` | `Compared`: the DeltaInfo is the division of the chunks of the file by the set the client was given |
| `DeltaEngineProofs!DeltaUploadStores` | `DeltaUploadStored` | `Sending`: unless another device uploaded, the rows are those the client asked for but for the chunks sent since, and the answer was given for these rows |
| `DeltaEngineProofs!CompressionRoundTrips`, `DecompressAlwaysEnds` | `RoundTrips` for every length, `DecompressEnds` | none: the room of attempt k is at least 4 (k + 1) (`RoomsGrow`), and twice a room that was too small |
| `ServerProofs!TypeCorrect`, `SpacedUploadsReported` | `TypeOK`, `NothingMissed` of `SyncService` | a record of a path not in `close` is newer than every answered call and no call is going on; what was listed is unchanged but for `close` |
| `ServerProofs!ServerImplements`, `ServerMissesNothing` | `ServerSpec => Spec` of `SyncService`, and so `NothingMissed` through shutdowns, kills and restarts | none: every step of the server is a step of `SyncService` or leaves its variables alone |
| `ServerProofs!ServerTypeCorrect` | `ServerTypeOK` | its own conjuncts: a draining server accepts nothing, and `Return` waits for all calls |
| `MetricsProofs!ReportsAreSnapshots`, `RatesSinceFirstByte` | `ReportIsSnapshot`, `RateSinceFirstByte` | `OneReport`: a thread in `toString` holds the mutex; `Started`: `start_time` is that of the first byte since the reset |
| `ConflictResolverProofs!ConsoleInOrder`, `FilesFollow` | `LogOrdered`, `FileFollowsConsole` | `LogInv`: one thread is between lock and unlock, `tm` is its local time unless the resolver raced, no line was made at a later time, and the last line of the console is the one it is about to copy to the file |
| `ConflictResolverProofs!ConflictNamesClash`, `DevicesAgree` | `NamesClash`, `SidesAgree` | `Ties` and `Outcomes`: what is known of a conflict being named and of one resolved |
| `TransactionProofs!SoleTransactionsAtomic` | `AllOrNothing` unless `Shared` or `Careless` | the one live object owns all the work of the connection (`Owned`), and when the transaction is gone under it a statement of it has failed (`Holds`) |

Strengthening is needed everywhere for the same reason: the invariant speaks of the
persistent or final state, and a step is safe because of where the other threads are.

**The refinement of the upload path.**  `UploadsAtomic` maps the steps of a call to those of
`FileStore`: `Begin` to the request, `CommitFile` to the store (and to the rejection when
the INSERT fails), `Respond` to the acknowledgement, `Crash` to the loss of the calls in
progress, and all others to stuttering.  The step that matters is `CommitFile`: the record
it inserts must be the image of exactly the version sent.  The argument goes along the call.
A call without a chunk in common with another finds each chunk file missing, empty (a crash
before the write) or whole, and `WholeChunks` keeps it so.  `ListEnd` accepts only if as many
rows are found as chunks were sent; with `RowsOwn` and `ListFollows` the list is then the
version itself (`Complete`).  `Copying` and `Fetching` say that the file holds the chunks
copied so far and that a chunk's size is still right when it is read; at the end the file
is `Content(version)` (`Rebuilt`).  An empty chunk file makes `getChunk` fail, so it is never
copied.

**Which faults a theorem excludes, and why.**  Each excluded fault is one for which the
property is false, as TLC shows within seconds when it is added to the constants of the
runs: "corrupt" puts any bytes in a chunk file; "overlap" lets two calls write one file;
"same_chunk" is the run `storage_torn`; "read" records the empty hash of a file that
is there; "short_write", "partial_write" (with "crash") and "broken_stream" break `AtomicUploads` as section 3 says.  For `RefusedWithReason`, "open" and
"db" are excluded because they are reasons of their own, "same_chunk" because another call
may have truncated the chunk just then, and "overlap" because, after a crash, a call may find
the row of another version that names an empty chunk.

**Induction over data.**  The induction theorems of the library take an operator as a
parameter, which the provers cannot instantiate.  `LeastNumber` and `Induction` in
`DeltaEngineProofs` (and the same for the concatenation of chunks in `StorageManagerProofs`)
state induction for a set of numbers instead, from `WFMin`; with them the recursive
functions behind `HashOf`, `power_`, `ChunksOf` and `FlattenSeq` are shown to exist and to
satisfy their equations.  `FoldExists` does so once for `FoldLeft`, whatever it folds, and
with it the loops of `computeDelta` and `applyDelta` are proved of every list of chunks.

**The upload of a delta.**  `DeltaUploadStored` needs that the number of rows
(`finalizeFile` compares nothing else) decides whether the rows are the file.  A delta divides
the chunks of the file and loses none, so the client's index of a chunk, the number of chunks
before it in both lists, is its index in the file (`IndexIs`).  Each chunk sent then replaces
the row of its own index (`Sending`).  When all were sent and the others were in place, every
index below the number of chunks holds its chunk; if the server counts just as many rows there
are no others, and the rows in order are the file (`RowsOfFile`).  If it counts more, a row
beyond the end of the file was there when the client asked.

**Only model-checked.**  Liveness (`UploadAnswered`, `TasksRun`, `WaitReturnsUnlessMissed`,
`DestructorReturns`, `SignalStops`, `StaleCopiesRefreshed`)
is out of the prover's reach, and no theorem states it.

**Assumptions on constants.**  A pool has a worker (`hardware_concurrency()` may return 0,
and such a pool runs nothing); chunks are not empty (`chunkData` makes none); the
minimum, average and maximum chunk size are ordered; the value that stands for a missing
row is none of the rows (`RowAssumption`, `DeltaAssumption`); the loop of `decompress` is
followed often enough for the longest data (`CompressionAssumption`); `Ops` of `Metrics` are its operations (`MetricsAssumption`);
paths and conflicts are records of the code's fields (`ConflictAssumption`).  The system clock is not set back; local time may be.  Two
further assumptions are on callers and stand in the theorems: `~Shared /\ ~Careless` for
transactions, and a rate that is only lowered.

## 6. Plan

1. Done: storage and upload path, sync, pool, limiter, chunker, metrics, transactions.
2. Done: the server's life around the calls (`Server`), deltas (`DeltaEngine`), conflicts
   and logging (`ConflictResolver`, `Logger`), decompression (`Compression`).
3. Done: proofs of all invariants, and of the refinements `AtomicUploads` and
   `IsTokenBucket`.
4. A composition of `Server` with the full upload path is out of TLC's reach: the storage
   runs alone have millions of states.  `Server` takes from it the two steps that a Sync
   can observe.

## 7. Reading the models against the code

`PROJECT.json` maps every definition that models code to its lines.  Names are the
code's where TLA+ allows (`storeChunk`'s local names, `active_tasks_`, `last_stats_`,
`computeChanges`).  Logging, message texts and path strings are left out; they decide
nothing.

## 8. Not modelled

`error.h` (a result type and a table of strings that nobody uses), the benchmarks, gRPC,
SQLite, OpenSSL and zlib themselves (external; used as their callers rely on them), the
stub RPCs `DownloadFile` and `ResolveConflict` and `Heartbeat`, which change nothing, and
the readers `getStats`, `hasChunk`, `getModifiedSince`, `getRate`, `areFilesIdentical`,
`shouldCompress` and `detectConflict`, most of which nobody calls.  The client
(`FileWatcher`, `SyncEngine`) has no source in the repository.
