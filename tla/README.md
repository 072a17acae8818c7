# BqLog: a verification development

TLA+ models of the concurrent core of BqLog, TLC runs over small instances of
them, and TLAPS proofs. Paths below are relative to the repository's root;
`buffer/` stands for `src/bq_log/types/buffer/`.

## 1. The system

A thread that logs asks the `log_buffer` of its log for a chunk, fills it with
the entry and commits it. A worker (one for all logs in `async` mode, one per
log in `independent` mode) takes the entries out again and hands them to the
appenders (console, text, raw and compressed files) and to the snapshot. In
`sync` mode there is no buffer between.

| part | state it keeps | operations | talks to |
|---|---|---|---|
| MISO ring, `buffer/miso_ring_buffer.*` | a write cursor, a read cursor (published) and the reader's own copies; a block array with a header at the start of each chunk; per thread, a copy of the read cursor | reserve, commit; read, read nothing, return, discard; recover from a file | the log buffer's low-frequency (LP) path; threads that end |
| SISO ring, `buffer/siso_ring_buffer.*` | two published cursors and four cached ones; chunks that may be split over the end | reserve, commit; read one, read a batch, return; recover | one per HP block |
| block list, `buffer/block_list.*` | a head (index and 16-bit mark), a next index per block | pop and push (lock-free), push-after and remove (reader only) | three per group: free, stage, used |
| group list, `buffer/group_list.*` | a linked list of groups, a reader-writer spin lock on every link, a pool of unused groups | allocate a block; traverse; remove a group; collect garbage | log buffer, memory pool |
| log buffer, `buffer/log_buffer.*` | per thread: sequence numbers, its HP block, call frequency; for the reader: position, the place where a full round ends, recovery records | reserve and commit on LP or HP; the reader's state machine; the end of a thread; recovery | both rings, group list, oversize buffers |
| oversize buffers, `buffer/oversize_buffer.*` | an array of temporary buffers under two levels of locks | reserve, commit, read, return, recycle | log buffer |
| spin locks, `src/bq_common/platform/thread/spin_lock.h` | one counter or one flag | lock and unlock, read and write, try | group list, oversize buffers, log manager |
| log worker, `src/bq_log/log/log_worker.*` | wait and awake flags, a condition variable | run, awake; restart after being killed | log manager |
| log manager, `src/bq_log/log/log_manager.*` | the list of logs under a reader-writer lock, a phase | create, reset, flush one or all, process, shut down | log objects, workers |
| log object, `src/bq_log/log/log_imp.*` | appenders, category masks, recovery status | process, sync_process, reset_config | log buffer, appenders |
| file appenders, `src/bq_log/log/appender/` | a write cache, a file that rolls over | log, flush, recover | files |
| compressed appender and decoder, `src/src/bq_log/log/appender/appender_file_compressed.cpp`, `decoder/` | tables from formats and threads to indices, the last time | log, read a file again, reset; decode | file appenders, `bounded_hash_cache` |
| snapshot, `src/src/bq_log/log/log_snapshot.*` | a SISO ring of records, two texts and which of them is the last, whether they are continuous, a lock | write, take and release a text, reset | log object, API |
| console appender and its callbacks, `appender/appender_console.*`, `src/src/bq_log/api/bq_log_napi.cpp`, `src/src/bq_common/platform/napi_misc.cpp` | the callback; for Node.js a MISO ring of lines, the registered environments under a mutex, a queue of notes for each | print; register, unregister, end of an environment; show | log object, event loops of JavaScript threads |
| layout, other bindings, containers, encryption | | | |

### What is hard here

* Space in the MISO ring is reserved *before* it is known to exist, by several
  threads at once, and taken back in reverse order.
* The reader publishes freed space lazily, writers look at old copies of its
  cursor, and both decide from modular differences.
* An entry may take one of three ways (LP ring, HP block, oversize buffer), a
  thread changes between them, and the reader must give out each thread's
  entries in order nevertheless.
* Blocks move between lock-free lists while groups are linked in and out.
* The process may die anywhere; what is in the mapped files is used again.
* Shutting down, flushing and resetting race with the workers, and a worker may be killed.
* Lines for the console and the notes about them take two ways to a thread that may end.
* Disks fill up and are freed, and a file is gone on with by a process that did not write it.

Section 7 lists the hazards one by one with the properties that cover them.

## 2. The modules

| module | models | abstract specification it implements | run | proofs |
|---|---|---|---|---|
| `MisoRing` | the MISO ring: every step of reserve, fall-back, commit, read, return, discard | `ReservationQueue`, through `MisoRingRefinement` | `progress`, `miso_crash` | `MisoRingProofs` |
| `MisoRingCrash` | `MisoRing` with process deaths and the recovery from the mapped file | | `miso_crash` | |
| `RwSpinLock` | `spin_lock_rw_crazy`, the reader-writer spin lock | `RwLock` | `waiting` | `RwSpinLockProofs` |
| `BlockList` | the lock-free stacks of blocks and the reader's list, next index by next index; recovery of the lists | `BlockStacks` | `block_list` | `BlockListProofs` |
| `GroupList` | the list of groups: hand-over-hand read locks, insertion, deletion, reuse | | `group_list` | `GroupListProofs` |
| `SisoRing` | the ring of one writer and one reader, batches, split chunks, crash and recovery | `LogStream` | `siso_ring` | `SisoRingProofs` |
| `LogBuffer` | the log buffer: LP and HP ways, sequence numbers, the reader's rounds, the end of threads, removal of blocks and groups | `LogStream` | `log_buffer`, `progress` | `LogBufferProofs` |
| `OversizeBuffers` | the log buffer's third way, for large records, and its recovery over several deaths, with versions | | `oversize` | `OversizeProofs` |
| `LogManager` | log manager, workers and API calls: create, reset, log, flush, uninit, restart of a killed worker | | `log_manager` | `LogManagerProofs` |
| `FileLog` | a log object and its text file: processing, recovery of entries, write cache, roll-over, full disk, I/O errors, deaths | | `files`, `torn_flush`, `shut_door` | |
| `BoundedHashCache` | the table of the compressed appender: probing, growth, admission, eviction; `HashCacheUse` is the table alone | | `files` | |
| `CompressedLog` | the compressed appender over files, deaths and resets, and the decoder | | `files` | |
| `LogSnapshot` | the snapshot: the ring of the last records and the texts made from it | | `siso_ring` | |
| `NodeConsole` | the way of a line from the console appender to a callback of a Node.js program | | `waiting` | |

`ReservationQueue`, `RwLock`, `BlockStacks` and `LogStream` are the promises:
short, with no memory, no counters and no cursors in them. They are also how the
parts fit together. `LogBuffer` does not contain the rings, locks and stacks
again; it uses what they promise, and the modules above it use what it promises:

```
  CompressedLog    FileLog     LogManager
  (what is in     (one log,   (all logs, their
   the file)       its file)   threads and locks)
        \             |           /
   LogBuffer, OversizeBuffers ---- implement ----> LogStream  (each thread's records
             |   |   |                                        once and in order)
   lp_buffer_|   |   | groups, blocks
             v   |   v
 ReservationQueue|  GroupList --uses--> RwLock        BlockStacks
        ^        |                        ^                ^
        |        | buffer of a block      |                |
    MisoRing     v                    RwSpinLock       BlockList
              LogStream
                 ^
                 |
              SisoRing
```

So a block's buffer in `LogBuffer` is a queue because `SisoRing` implements
one, `used`, `stage` and `free` change in one step each because `BlockList`
implements `BlockStacks`, and a lock in `GroupList` or `LogManager` is a set of readers and a
set of writers because `RwSpinLock` implements `RwLock`. `LogManager` takes the
buffer with the one weakness that `LogBuffer` shows it to have: one answer "empty" in
a row may be wrong. `LogSnapshot` uses a ring like that of `SisoRing` and
`NodeConsole` one like that of `MisoRing`; they stand beside `LogBuffer` in the picture.

### 2.1 Correspondence with the code

State. In each module a comment beside each variable names the C++ member it
stands for; a variable with no counterpart (`sent`, `taken`, `read`, `waiting`,
`owed`, `age`, `whole`, `born`, `latest`, `given`, `excused`, `torn`, `doubled`) is a history that only properties and bounds look at. `pc` and `rpc` are the
places in the code where a thread and the reader stand between two accesses to
shared memory.

`MisoRing` (`buffer/miso_ring_buffer.cpp`). `alloc_write_chunk` (117-238) is
`AllocBegin`, `TakeReference` (the thread's first copy of the read cursor),
`CheckAgain` (the comparison before anything is taken, with the copy renewed
once), `FetchAdd`, `LookAgain` (the renewed comparison after it), `FallBack` (the
compare-and-swap of the loop), `LeaveGap` and `AllocReturn`. The caller's copy of
its record is `Fill`, `commit_write_chunk` is `Commit`. `read_chunk` is
`ReadGap`/`StepOverGap`, `ReadUsed`, `ReadUnused`; then `ReturnChunk` and
`ReturnEmpty` (`return_read_chunk`, with the quarter-of-the-ring rule of lazy
publication, `FreeUpTo`), and `Discard`. Sequentially consistent: the code's
fences order all accesses the model distinguishes.

`MisoRingCrash`. `Crash` is the death of the process at any step followed by
`try_recover_from_exist_memory_map`: `Walk` follows the headers from the
reader's cursor as lines 453-483 do, `Recover` clears what is behind the last
one, `StartAfresh` is `init_with_memory_map`. The order of the writes that
reach the file is not modelled: the file is a shared mapping, which survives
the process as it is.

`RwSpinLock`. `ReadLock` is the `fetch_add`, `BackOut` the `fetch_sub` after it
showed a writer, `SeeNoWriter` the inner waiting loop; `WriteLock` and
`WriteUnlock` are one successful compare-and-swap, `Leave` the start of the
loop of `write_unlock`. The exponent of the mark does not matter, only that it
is further below zero than there are threads (`LockAssumption`).

`BlockList`. `Start` reads the head, `PopLink`/`PushLink` read or write the next
index, `Swap` is the compare-and-swap with the mark. `PutUsed` and `TakeUsed` are
`push_after_thread_unsafe` and `remove_thread_unsafe` on `used_`. `Die` is a
death at any step and the constructor of `group_data_head` over the mapped file:
`Recoverable` is the walk that compares the type of each block with its list,
and blocks in neither list are pushed on `free_` again.

`GroupList`. A thread's `alloc_new_block` goes `First`, `LockNext`, `Hop` and
takes (`Pop`, `Push`) or goes on; `Grow`, `Insert`, `GrowUnlock` are
the second part of it, a new group under the lock of the head. The reader walks without locks
(`Step`), moves blocks (`TakeStaged`, `Recycle`), and deletes with the locking
iterator (`LockFirst`, `Seek`, `SeekHop`, `Decide`, `PassThrough`, `Unlink`,
`Retire`).

`SisoRing`. `Alloc`, `Fill`, `Commit`, `Publish` are the writer; `ReadOne` with
`Return` and `Discard`, and `BatchRead`, `NextOfBatch`, `ReturnBatch` the reader;
`Traverse` is `data_traverse`. `Fits`, `Need` and `DataBlocks` contain the rule for chunks
that are split over the end. The walk of recovery, a loop over headers, is said without one:
`Recovered` if there is a set of cursors from the reader's to the writer's in which each but the
last has a good header that leads to another (`Walks`).

`LogBuffer`. `Call` is the first part of `alloc_write_chunk`, with the decision
between LP and HP that the code makes by time left open; `PutInBlock`,
`BlockFull`, `NewBlock`, `Reserve`, `LpFull` the ways it goes on; `CommitInRing`
the commit of a ring chunk (a block's chunk is committed with `PutInBlock`, as nobody but
the thread and the reader sees it). `EndWithBlock`, `EndWithMark`, `CommitMark`
are the destructor of the thread's state. The reader's state machine
(`read_chunk_full_impl`, 299-396) is `BeginRound`, then `ReadRing`, `ReadMark`,
`LeaveRing`, `ReadBlock`, `EnterBlock`, `LeaveGroup`, `NextGroup`, `Complete`,
and `ReturnToBlock`, `ReturnToRing`, `ReturnEmpty`.
`Verified` is `verify_context`, `Deregister` `deregister_seq`, `Refreshed` the refresh of
`traverse_end_block_`. A block is full with `BlockRoom` records. When a new block follows a full one, the code
looks once more whether the reader wants it replaced (line 193); in the model the
thread writes to it and sees so at its next call.

`OversizeBuffers`. `Reserve` takes the place in the ring, `Seek` finds or makes a
temporary buffer and takes room in it, `SeekFails` is the error path,
`CommitChunk` and `Commit` commit data and parent. `Verdicts` is
`verify_context`, `Stale` and `Matches` `verify_oversize_context`; `ReadBig`,
`ReadMissing`, `ReadSmall`, `DropInvalid`, `LeaveRing` the reader at the ring,
`ReturnBig`, `ReturnParent`, `ReturnSmall` the returns, `Recycle` the pass over
idle buffers, `NextVersion` the step to the next process's records. `Die` is a
death followed by `prepare_and_fix_recovery_data`. The decision of
`verify_context` about a thread without a record (which reads behind the end of a map) is any
verdict. A number of this process below the expected one, which the code only asserts not to exist
(line 511), would be "invalid".

`LogManager`. Every `Call...` is the entry of an API function, and the steps
that follow are separated where locks are taken or given up, where a thread is
joined, or where the code looks at `phase_`. `logs_lock_`, `uninit_lock_` and a log's `spin_lock_` have no
variables: `HoldsRead`, `HoldsWrite`, `Closing` and `InSpin` say who holds them
by where the actors stand. `TakeEntry` and `FoundEmpty` are one turn, and the end,
of the loop of `log_imp::process`.

`FileLog`. The operators on the record `app` are the functions of
`appender_file_base`: each maps a state to the set of those that may follow, so
that a handler that flushes, rolls over and writes is their composition
(`Log` is `log_impl`, which calls `Refresh`, which calls `Flush` and `OpenNew`).
`ProcessOld`, `ProcessFirst`, `ProcessNew` are `process_log_chunk` in the three
states of `recover_status_`. `flush_write_cache` is `Written`, `Copied` and `Moved`
(the two moves in the mapped cache), `Advanced` (its cursor), `Shut` and `Failed`; every flush
and every opening of a file may meet an error, wherever it is called. `DieInFlush` and
`DieInRecovery` are deaths behind each of these steps; all others come between operations,
where nothing but the mapped cache and the mapped buffer matters. The `memcpy` of line 46
between stretches that may overlap is taken to do what `memmove` would.
`torn` has the entries that line 49 wrote over, `doubled` those of a cache that was
left with old bytes behind the new. An error between the steps of making a new file, other than that
it does not open, is left out.

`CompressedLog`. `Encoded` is `log_impl`: two look-ups (one place in front of each
`BoundedHashCache`), new templates in front of the entry. `Log`, `Roll`,
`Continue`, `Begin` are the four ways an entry finds its file; `Reread` is
`parse_exist_log_file`, `Reset` `reset`. `Decode` folds the decoder's three
handlers over the items of a file. A format stands for level, category and
format string together, as their common hash does.

`LogSnapshot`. `BeginWrite` is the look at `is_enable()` in `log_imp::log`, without a
lock; `Write` and `FilterOut` are `write_data` with the lock. `Put` is the loop
that discards the oldest until `alloc_write_chunk` has room, `Refuses` and
`Need` what that call answers. `Take` holds `lock_` until `Release`, in whatever
thread. How much of the last text fits before the new one depends on the lengths of lines: any part.

`NodeConsole`. `BeginLine`, `Alloc`, `Commit`, `Invoke`, `Post` are one call of
`on_console_callback`, from the look at `console_callback_` to
`napi_call_threadsafe_function`. `Receive`, `Handle`, `Finish` are the event
loop with `dispatcher_fallback_adapter` and `console_callback_handler`; a thread that prints in its own environment comes to
`Handle` by itself, with the mutex. `CallRegister`, `Register`, `Enable`,
`Unregister`, `CallEnd`, `End` are `set_console_callback` and `cleanup_hook`.
`orphans`, `shown`, `printed` and `clash` are histories. `Unregister` is one step, although
its change of `entries_` without the mutex is itself a data race.

### 2.2 Named bounds

| bound | module | cuts off | code |
|---|---|---|---|
| `Rounds` | `MisoRing`, `SisoRing`, `LogBuffer` | how many records a thread logs | none: it goes on |
| `MaxRecords`, `MaxEntries`, `Times`, `MaxCalls`, `MaxLines`, `MaxTokens` | `OversizeBuffers`, `LogSnapshot`, `FileLog`, `CompressedLog`, `LogManager`, `NodeConsole` | how many records, entries, calls, lines or registrations there are | none |
| `WithinAWrap` (`Sleepers = FALSE`) | `MisoRing` | threads that sleep inside `alloc_write_chunk` while the write cursor goes once through its 2^32 values | does not exclude it (hazard at line 168) |
| `WithinAWrap` | `BlockList` | actors that sleep while the mark of a head goes once through its 2^16 values | does not exclude it |
| `MarkWrap` | `BlockList` | 4 values of the mark instead of 2^16 | 16 bits |
| `W` | both rings | values of a cursor | 2^32 |
| `V`, `Span` | `OversizeBuffers` | 4 versions, 1 of them before the own, instead of 2^16 and 10 | 16 bits; `MAX_RECOVERY_VERSION_RANGE` |
| `RoomToGrow`, `Groups`, `Slots` | `GroupList`, `LogBuffer`, `OversizeBuffers` | more groups, or temporary buffers, at a time | memory |
| `LpRoom`, `BlockRoom`, `Room`, `RingRoom`, `QueueSize` | `LogBuffer`, `OversizeBuffers`, `LogManager`, `NodeConsole` | capacity of ring, block, buffer, queue, in chunks | in bytes; 1024 notes |
| `MaxCrashes`, `MaxDeaths`, `MaxKills`, `MaxErrors`, `MaxResets` | where faults are modelled | how many of them | none |
| `InTime` (`LateCrash = FALSE`) | `SisoRing` | deaths while only one of the two cursors has wrapped | does not exclude it (hazard at line 408) |
| `MaxFiles`, `Calls`, `OtherMax` | `CompressedLog` | files, who logs what, the limit a reset gives the caches | none |
| `Keys`, `Values`, `Limits` | `HashCacheUse` | keys, values, limits | none |

The other constants are the configuration of an instance: `N`, `Sizes`,
`Threads`, `BlocksPerGroup`, `AutoExpand`, `Mode`, `Blocking`, `CacheSize`,
`MaxFileSize`, `Capacities`, `Capacity`, `FormatMax`, `ThreadMax`, `MinCapacity`, `MaxSize`, `AdmissionDivisor`, `Hash`.

## 3. What is checked

All runs are exhaustive within their bounds. Threads and groups are model
values; where a run checks only invariants and step properties, they are declared symmetric.

Four runs hold two or three modules that have nothing to do with each other:
`waiting`, `progress`, `siso_ring` and `files`. A variable `part`, set once by
`Init`, says which of them moves in a behaviour, while the others rest; so
what is checked of each is what a run of its own would check. Fairness is asked of a
part only in behaviours in which it moves: at rest nothing in it that is fair can be done
(`waiting`), or it is stated for each part (`progress`), or only one part has properties that
need it (`files`).

**`miso_crash`** - ring of 8, chunks of 1 and 5, one death at any step. The reader
publishes what it has returned from two blocks on, so a chunk of 1 stays
returned and unpublished until the next one, and the process dies in between; a 5 that would
go over the end leaves a gap, over which the recovery finds its way or, as the reservation
was for more than half the ring, does not (section 5). `CommittedIntact` (what is committed keeps every block until it is freed, also
in the reader's hand), `ReaderFindsHeader` (the reader never looks into the
middle of data), `NoSharedBlock`; `RingInv`, the inductive invariant of the proofs;
`RecoveryIsExact`: nothing uncommitted and nothing already returned is replayed
(`OnlyCommittedReplayed`), and exactly those chunks are kept that the walk can
reach (`KeepsWhatIsReachable`).

**`waiting`** - at the lock, four threads that read, write and try, a mark of -5, so
four readers that are backing out leave the counter one below zero: the
smallest margin there can be. `Exclusion`, and `RwLock` implemented. `EverybodyPasses` needs
the assumption it states: `try_read_lock` can disturb a
writer again and again, and the lock is not fair to readers. At the console, a native thread, two
environments, a ring of two chunks and a queue of one note, two lines and two
registrations. `NotesMatchChunks`: as long as one environment reads at a time,
every chunk has its note or is counted as an orphan, and no line is shown twice.
`LinesAreShown`: calls come back and lines are shown, except after a lost note and
for the deadlock (section 5). That deadlock is why the run is not checked for deadlocks.

**`log_buffer`** - two threads with three and two records, up to three groups of one block, a
block that takes two records, a ring that takes two. A thread moves
from ring to block and back and may end at any place; a full block sends it to
another group, and the reader takes both records of a block in one batch. Three groups are the fewest with a head, a middle and an
end, so that a group is deleted at each place while another is inserted.
`NothingOverdue`, `SecondEmptyIsTrue`, `NothingDangles`, and `LogStream` implemented (each record
once, in the order of its thread).

**`progress`** - at the MISO ring, two threads with two chunks each, all of 3 blocks, on a ring of 8,
fair. Two chunks fit, a third lies behind a gap of 2 and must wait for the
first, and both threads can be past the end at once and must unwind. The ring
implements `ReservationQueue` (`ImplementsQueue`), and by `RingProgress`
the fall-back loop ends and what is committed is taken. In the buffer, a ring of one record, one group of two blocks of two records, a policy that
refuses when full, two and one records to log, fair. A thread goes from the ring to a block, writes
a batch or goes on to the next block while the other waits for what is given back. `ReadAndGivenBack`: everything is read (`EverythingIsRead`), and the
memory that nobody uses goes back (`AllIsGivenBack`).

**`group_list`** - two threads, four groups of one block: two in use, one
inserted and one retired at a time. `ListIsSound` (the shape of the list, and the reader's
pointers into it), `NoBlockIsLost`, `NobodyInRetired` (what a thread may still touch); and
absence of deadlock among hand-over-hand readers, the one that inserts and
the one that deletes.

**`block_list`** - two threads and the reader on three blocks, mark modulo 4,
one death at any step.
`LinkIsCurrent` is what the mark is for; `BlockStacks`
implemented, so the lists lose and double nothing and survive a death.

**`siso_ring`** - ring of 8, cursors modulo 16, five chunks with 0, 2 or 5
blocks of data, so that the cursors wrap and chunks are split at several
places, and one death at any step. `NothingIsOverwritten`,
`LogStream` implemented, across the crash too. The other part is the snapshot: rings of 4 and 8
blocks, records of 2 to 6, so that some go over the end and some are refused, four records and two
changes of the configuration at any time. `SnapshotIsSound`: a text that is handed out
is an end of what the ring was given, nothing missing and nothing twice, and
stays as it is until released.

**`log_manager`** - two threads and three calls of any kind, an async log with
a blocking buffer of one chunk, an independent log that is created on the way,
a sync log, one worker thread killed at any point, fair. `AppendersOwned`,
`NoWorkerAfterUninit`, `FlushKeepsItsWord`; `NothingWaitsForEver`, which is
`EverythingIsWritten`, `BlockedGetsIn` and `UninitReturns`.

**`oversize`** - two threads, two records small or large, two temporary
buffers with room for two chunks, versions modulo 4 that wrap at the first of
two deaths, fair. `RightData`: each parent gets its own data, once and in order,
although threads of different processes have the same address. `NobodyLosesABuffer` is about the
try-locks of the recycler. `NothingMissing`: the data of a parent that is due
is never missing, but for one that a process that died handed out (stronger than the assert of
`rt_read_oversize_chunk`). `SurvivorsAreRead`: what a death left readable is read in the
versions that are kept. `BuffersGoAway`.

**`files`** - in the text files, two entries of two units through a cache of three, files of two
units, a limit of five; the disk may be full, take one unit or have plenty at any time; two
deaths (also inside a flush, and inside the recovery of the first), one I/O
error in any write or opening of a file, one reset; fair. `NothingAcceptedIsLost`, `RepeatedOnlyByRecovery`,
`ReachesTheDisk`. In the compressed
files, four entries in three formats by two threads whose clock
goes back, caches for two that a reset changes to three, or back; two formats, and both threads,
belong in the last place of their table. Two files, two deaths. Each file is decoded in every state:
`DecodedIsLogged`, `WriterKnowsTheReader`. In the table of these caches by itself, five keys of which three belong in
the last place of a table of 8, one in front of it and one behind; limits from
below the least capacity to above the greatest size, changed at any time; one of two new keys is let
into a full table. `CachesAreSound`: each entry is found, once and with what was last stored
(`EntriesAreFound`), and nothing else goes with the entry that is evicted (`OnlyTheVictimGoes`).

**`torn_flush`**, **`shut_door`** - two runs that end in a violation. `CacheIsKept` and
`DoorReopens` say what comments in `flush_write_cache` and a test say of a full disk, and the code does
otherwise (section 5). `NothingAcceptedIsLost` and `ReachesTheDisk` say what remains: the first
excepts the entries in `torn`, the second an appender that has no file open.

Deadlock is not checked in `siso_ring`, `log_manager`, `oversize`, `files`, `torn_flush` and `shut_door`, where all
chunks, calls, records or entries of the instance may have been made and read. In the other runs but
`waiting` it is.

Each property has a small variant of one definition, marked "Mutant" in the
modules and listed under "mutants" in `PROJECT.json`, with which it fails:
a guard dropped, a reset left out, an order swapped.

### 3.1 Are the bounds enough?

* The races of the MISO ring need two threads that overrun at once and a
  reader; a third thread that overruns only lengthens the stack of
  reservations to unwind. The safety part is proved for any number of them (section 6).
* Sizes are chosen to hit each comparison from both sides: 3 + 3 fits
  the ring of 8, a third 3 overruns or, when the first is freed, leaves a gap;
  in the ring of 8 with chunks of 1 and 5, a quarter is more than the small one,
  and half of it less than the large one.
* In `MisoRing` two threads with `Rounds = 2` and reservations that are stamped as gaps take the
  cursors round the memory, but not always through `W`; the wrap of the 32-bit cursor
  is covered by the proof, which holds for any `W`. In `SisoRing` the run itself
  wraps, and the proof holds for any ring and sizes.
* In the log buffer, what is at stake is the order of the reader's visits
  relative to one thread's moves and to insertion and deletion of groups
  beside it. With one block per group each group is both "has a free block"
  and "is unused" in quick succession. Groups of several blocks are in `progress` and
  `block_list`.
* In `OversizeBuffers` two deaths are the fewest with which something is found
  that is older than the versions in range (`Span` is 1), and after which the numbers
  of threads of three processes lie in one ring.
* In `FileLog` an entry of two units in files of two and a cache of three is
  torn, rolled over and flushed early at every place; one more entry brings
  only longer runs of the same.
* In `NodeConsole` a queue of one is full after one note, so that the second
  line already blocks; two chunks in the ring are the fewest of which the first
  is not committed and the second is. A third line only finds the same states.
* In `LogSnapshot` a ring of 4 with records of 2 and 3 drops one or two for the next, and refuses
  the 3 at one cursor and not at another.
* In `CompressedLog` a cache of two with three formats evicts, and by
  `AdmissionDivisor` = 2 also turns away; a cache of three grows. In `HashCacheUse` three keys with the
  last place of the table go on at its beginning, and an eviction moves one of them back over the
  end: a distance that does not go round the end (`ErasedUnwrapped`) is found out.

## 4. Fairness

* `MisoRing`: weak fairness of a thread inside alloc or commit (straight-line
  code, and a loop that keeps trying). Strong fairness of the reader's look and
  of the return of a chunk, because between them it may put chunks back
  (`discard_read_chunk`) and answer "empty" without a look: the log buffer makes it
  look on each round and returns what it was handed.
* `RwSpinLock`: weak fairness of the steps of a thread that is inside an
  operation or a critical section, all of them finite scopes. None for starting one, and none for
  `WriteLock`: a writer can starve, and no property denies it.
* `LogBuffer`: weak fairness of the reader (the worker loop,
  `log_worker.cpp:76-119`, comes round every 66 ms or when awakened) and of a thread inside alloc
  or commit. None for a thread starting a call or ending.
* `OversizeBuffers`: the same, and strong fairness of `Recycle`, which the code
  puts off by a clock (`log_buffer.cpp:1016-1036`) that does pass. None for a
  death.
* `LogManager`: weak fairness of a thread inside a call, of each worker's step,
  and of the flush interval, which is time. None for calls and kills. That
  weak fairness is enough for the write lock rests on the workers' naps, during
  which nobody reads; the code's lock itself promises less to writers.
* `NodeConsole`: weak fairness of a thread inside a call and of an event loop
  that has something to do. None for printing, registering and ending.
* `FileLog`: weak fairness of processing, returning, flushing and restarting. None
  for the disk: `ReachesTheDisk` says what holds if it stays empty enough from some time on.

## 5. What the models have shown

Where the code does less than its comments or documents promise, the property
states what it does do, and the difference is written here. All of these came up
as counterexamples of a stronger property or a wider bound.

* `miso_ring_buffer.cpp:465`: recovery compares the cursor
  *after* a gap with the length of the reservation that left it. If that was for more than half the ring, it
  may be taken for nonsense, and all that was unread is dropped although nothing
  was half finished. `KeepsWhatIsReachable`, which is a part of `RecoveryIsExact`, excepts such gaps.
* `miso_ring_buffer.cpp:469`: recovery stops at the first block that was
  reserved and not committed and clears what is behind it, committed or not;
  `docs/FAQ.md:53` promises that everything else is replayed.
* `log_buffer.cpp:349`: a full round may answer "empty"
  although a record was committed before it began ("Principle 2" of
  `read_chunk_full_impl`). `SecondEmptyIsTrue` says how far it goes: the next round finds it, so in the worker loop
  the record is late by one round; `force_flush`, which ends at the first
  "empty", may leave it out, which is the exception in `FlushKeepsItsWord`.
* `siso_ring_buffer.cpp:408` compares cursors as plain numbers; a
  batch moves the cursor recovery goes by before its chunk is
  returned (`siso_ring_buffer.h:149`).
* `log_buffer.cpp:519`: `verify_context` is asked about threads of old versions
  of which there is no record (its assert), as only the ring, not the temporary
  buffers, is searched for records; it then reads behind the end of a map. `OversizeBuffers` lets every
  verdict follow, and `RightData`, `NothingMissing` and `SurvivorsAreRead` hold all the same.
* `log_manager.cpp:246` and 272: a killed worker that has looked at `phase_`
  before `uninit` changed it waits for `uninit_lock_`, which `uninit` holds as it joins
  that worker: the exception in `UninitReturns`.
* `log_manager.cpp:254`: after `uninit` nothing reads the buffers. A thread in
  the loop of `__api_log_write_begin`, or one that ends and waits for room for
  its mark, waits for ever: the exception in `NothingWaitsForEver`.
* `appender_file_base.cpp:48`: after a partly failed write the rest is moved
  to the front of the cache, and then the data that is not yet finished is moved to
  the front too, over it. Such data is the line that ends a recovery: if the disk is full
  when the first new entry comes, an entry in front of it is torn. The comment at lines 68-71 says that what is
  in the cache stays there: run `torn_flush`.
* `appender_file_base.cpp:651`: if a new file is wanted while the disk is
  full, what was in the cache is given up, and if the file cannot be made, the
  appender stays shut, with `disk_full_drop_` set, though the disk is
  emptied: no flush clears the flag without a file, and `log_impl` looks at the flag
  before it would open one. The comment at lines 72-73 and `test/cpp/test_disk_full.h:34-35`
  say otherwise: run `shut_door`. A recovery that cannot write ends in the same way.
* `appender_file_base.cpp:51`: a death between the write and the cursor makes
  what was written come twice, behind the line that marks a recovery in text
  files; in compressed files, whose times are distances, the times that follow are off.
  If only a part was written and the rest has been moved to the front of the mapped cache (line 46), the
  cursor still counts the old bytes behind it: of a cache `a b` of which `a` was written, recovery
  finds `b b` and writes both, with no line between: the exception `doubled` in `RepeatedOnlyByRecovery`.
* `appender_file_base.cpp:91`: another error of a write gives up what is in the cache
  (`open_new_indexed_file_by_name` cleans it), entries that could still be written included: `excused`.
* `appender_file_text.cpp:67`: the line at the end of a recovery is written from
  the string of the first, with its own length.
* `appender_file_compressed.cpp:196-202`: the loop that reads a file again ends as
  soon as a read has met the end of the file, so an entry of at most five bytes
  at the end is not parsed, and the times of what is appended are off by its
  distance: the exception `skewed` in `DecodedIsLogged`.
* `napi_misc.cpp:241`: a thread that prints waits with `napi_env_mutex_` for room in
  the queue of the environment that registered first. If that environment's
  thread prints, registers or ends at this moment, each waits for the other: `Deadlocked`, the
  exception in `LinesAreShown`. A native thread needs 1024 lines ahead for it.
* `bq_log_napi.cpp:41`: the assertion that a note finds its chunk does not
  hold. Of two threads, the one that reserved first may commit after the other
  has posted; the note of the second finds the first chunk uncommitted. The
  chunk stays, and from then on each line is shown when the next one comes. The same happens when a note is
  dropped because its callback has been replaced or taken away
  (`napi_misc.cpp:208`, 219): the chunk is not. These are the `orphans`.
* `bq_log_napi.cpp:838`: the callback is taken out of `entries_` without the mutex
  that all others hold, and line 839 stops the console callback for all environments. When an environment ends
  the other way round: its entry goes and the console callback stays.
* Two environments can read the ring at the same time, one for a note and one
  for its own line after the first has been unregistered; the ring is for one reader: `clash`.
* `appender_console.cpp:29` looks at `console_callback_` and line 34 calls it, with
  no lock, so the call may come after the callback has been taken away.
  `console_buffer::insert`, beside it, has a loop to try again that never does, as `finished` is set on each way.
* `log_snapshot.cpp:142-153` provides for a ring that is empty and has no contiguous room.
  This never runs: a record that would not fit from the cursor is
  refused as of invalid size (`siso_ring_buffer.cpp:80-88`), and `write_data` gives
  it up. A record of more than half the ring is thus kept or lost by where the
  cursor stands, and the text counts as continuous: `refused` in `SnapshotIsSound`.
* `log_snapshot.cpp:161`: a record that the snapshot's filter turns away ends the
  continuity of the text, although nothing was dropped: the next text begins with
  the records since the last.

## 6. What is proved

`tlapm` checks every step; nothing is assumed but the constants' assumptions
(`RingAssumption`, `LockAssumption`, `ManagerAssumption`, `GroupListAssumption`,
`BlockListAssumption`, `OversizeAssumption`, `SisoRingAssumption`, `LogBufferAssumption`) and facts about finite sets and
well-founded orders of the library. Proofs hold for any set of threads, ring, chunk sizes and number of rounds;
for any logs, modes, buffers, calls and killed workers; for any groups, blocks,
temporary buffers, room in rings and blocks, widths of marks and versions, and deaths.

Each inductive invariant was checked by TLC on the instance of its module's
run before it was proved (`RingInv` still is a property of `miso_crash`).

### `MisoRingProofs`

`Invariant`: `Spec => []IInv`, when no thread sleeps through a whole turn of
the cursors (`Sleepers = FALSE`; without this the statement is false).
From it `TypeCorrect`, `SettledStaysBehind` and `NobodyShares`; the second,
`SettledIsBehindCursor`, is part of `IInv` in the run.

None of the properties is inductive. "No two threads share a block" speaks of
residues modulo `N`; a step of `FetchAdd` or `FreeUpTo` preserves it only
because of where the *other* reservations, the committed chunks and the blocks
just freed are. `IInv` says all of this in cursors, which never come down except
by a roll-back, and turns to memory through one fact: of the cursors
in `Window`, from the published read cursor to `N - 1` beyond it, no two name the
same block. Its parts:

* `ReaderInv`: published <= private read cursor <= write cursor; less than a
  ring between the first two, less than `W` between the outer ones.
* `ThreadInv`: each copy of the read cursor is old, never ahead; what is
  reserved is ahead of the reader; what is settled fits behind the read cursor.
* `ReservationsApart`: the stretches of any two reservations do not meet,
  those to be taken back included. It survives the roll-back since that
  succeeds only from the top of the stack.
* `HeadersApart`: chunks and gaps that the reader has still to come to end
  before the next one begins and before the write cursor, and no reservation overlaps them.
* `FreshBlocks`: what is not reserved, and what is reserved and not yet filled,
  reads "unused". This needs the reader to clear what it frees, and is why the reader
  can trust a header.

The refinement of `ReservationQueue` (`RingImplementsQueue`). The queue is the places
of the ring, open reservations and committed chunks, in the order of their cursors, and
`MisoRingRefinement` says so with a choice (`Arranged`). The proof first makes the choice a
value: the places can be put in order (`InOrder`, which each step of a ring with `IInv` and
`DataInv` keeps), and a set of places has at most one such order (`OneArrangement`, by
counting the cursors below one), so what is chosen is it (`TheArrangement`). Then come the four
ways in which a step can change the places, for any set of them: one is added behind the others
(`PlaceAdded`), one is taken out (`PlaceRemoved`), the first is taken (`PlaceTaken`), one turns
from open to done where it stands (`PlaceCommitted`). Last the steps. `fetch_add` appends a
place, also when it lands past the free space, unless the stretch is free but goes round the
end of the memory and so can only become a gap. The roll-back gives a place up, from
wherever it stands, and so does the second look that finds such a stretch to be free after
all. A commit turns it `done`; the reader's return of a chunk takes the first. All other steps
leave the places as they are, those included that clear memory and publish the cursor, since
the places are cursors and what the blocks at them say from the reader's private cursor on.

`W` enters through the two comparisons with modular differences: as all the real
differences are below `W`, the modular ones equal them.

`IInv` is about cursors and headers. The second half of the proof is about data:
`WholeInvariant`: `Spec => []RingInv` with `RingInv == IInv /\ DataInv`, from
which `ChunksStayIntact` (`CommittedIntact`) and `ReaderMeetsHeaders`
(`ReaderFindsHeader`) follow. `ChunksWhole` says that a committed chunk lies in
one piece, that the reader's private cursor never stands inside one, and that its blocks all
carry the record its thread committed; `FilledWhole` the same of what is filled
and not committed; `GapsOverTheEnd` that only what would lie over the end of the
ring is a gap; `DataInside` that bytes of a record lie only where the
reader, who looks only at headers, will not stop.

### `RwSpinLockProofs`

`LockInvariant`: `Spec => []IInv` with `IInv == TypeOK /\ Exclusion /\
Accounting`; from it `CounterInRange`, `MutualExclusion`, and `LockRefinement`
(`Spec => Lock!Spec`). Exclusion alone says nothing about the counter, on which
every guard depends; `Accounting` does: the counter is the number of
threads with a 1 in it, plus the mark if a writer is in. The mark's distance from zero being greater than the
number of threads gives back "negative means a writer". The proof counts with
the library's theorems on the cardinality of finite sets.

### `LogManagerProofs`

`ManagerInvariant`: `Spec => []IInv`; from it `NobodyMeets`
(`AppendersOwned`) and `NobodyAfterUninit` (`NoWorkerAfterUninit`). Who holds a lock
is read off from where the actors stand, so the exclusion of the locks is
itself something to prove: `LockExcludes`, `SpinExcludes`. Several actors hold
`logs_lock_` for reading at once, and it is not the lock that keeps these
apart but that each worker only visits logs it serves: `OwnWork`, which needs
that the loop passes over the others (`OnwardBegins`). `Shutdown` says how far
uninit has come: nobody closes before the phase has changed, one caller at most
closes, the public worker is gone as soon as the others are joined, and
a log not in the list has no worker; hence nobody is left once the one that closes is done.

The second half of the module is about `force_flush`.
`FlushKept`: `Spec => FlushKeepsItsWord`. `FInv` follows what a caller is owed
for each log. Until the caller has been there, it is at most what is filed or
committed, which only grows: taking an entry moves it from one to the other
(`ReadyTail`), a commit or a reservation never hides what was ready
(`ReadyCommit`, `ReadyAppend`). Once it has been there, it is at most
what is written, or the answer "empty" was the wrong one, and this stands as
nobody else may touch the log while the caller has the write lock
(`LockExcludes`). Between the two lies that no log of the list is left out
(`OnwardKeeps`, `TailKeeps`), which is an induction over the loop and not over the list.

### `GroupListProofs`

`ListInvariant`: `Spec => []ListInv`; from it `ListTypes`, `ListStaysSound`
(`ListIsSound`), `BlocksStay` (`NoBlockIsLost`) and `RetiredAreLeft`
(`NobodyInRetired`). What is in the list is the least set that is closed under
`node`, so the two writes to it have one lemma each (`Inserted`, `Unlinked`), with
no induction over the list. Everything else is about locks:
`LocksByPlace` says for each place in the code which locks are held there;
`WalkersInList` that a thread stands between a pointer of the list and the group
it leads to, which no one can change as it holds the lock;
`ReaderInList` that the group which the reader read *without* a lock
is still where it was when it has come with locks to the pointer in front of
it: threads only insert at the head, and the reader does not go there but with the lock.
`BlocksByPlace` says whose a block is between the pop from one stack and the
push on the other, and that the group deleted has all its blocks in `free_`.

### `BlockListProofs`

`BlocksInvariant`: `Spec => []BlocksInv`; from it `LinkStaysCurrent`
(`LinkIsCurrent`), `EveryBlockOnce`, `FiledSurvives`
(`NothingFiledIsLost`) and `BlocksImplementStacks` (`ImplementsStacks`). The three lists share one array of links; a list is the least set that
its first index leads to, and `Straight` that it has no loop and no two ways in.
`Pushed`, `Popped`, `PutBehind` and `TakenBehind` say what the operations do to a list, and
`ListsStay` that a block in a hand may be written to without changing any.
`CopiesByAge` is the argument about the mark: a copy of the head is as many swaps
old as the mark says, modulo its width, and the link read for it is good if the
age is zero; as an age is below the width (`WithinAWrap`, the bound of section 2.2),
equal marks mean age zero (`MarkTellsAge`). The walk at recovery, which
compares the type of each block with its list, takes exactly the list
(`ChainIsList`), as `TypesFit`: a block's type is changed before it is pushed, so a death at any
step leaves the lists of `stage_` and `used_` readable to the end (`DieKeeps`).

For the refinement a list is a sequence: the path of its links from its first
index, of which there is only one (`PathIsList`, `OneBegins`, `OnlyPath`), so that `Follow`,
which chooses such a path, finds it. `PathPushed`, `PathPopped`, `PathPut`, `PathTaken`
and `PathChained` say what an operation does to the path, as the lemmas above say it
of the set. What a call reads or links before its swap is not seen (`Prepared`,
`PushLinkSeen`), since the block it links is on no list; the swap that succeeds is the
step of `BlockStacks` (`PopSwapSeen`, `PushSwapSeen`), since the link in hand is current.

### `OversizeProofs`

`OversizeInvariant`: `Spec => []OversizeInv`; from it `DataIsRight`
(`RightData`), `BuffersStayInUse` (`NobodyLosesABuffer`) and `OversizeTypes`. A
parent finds its data by version, thread and number, and all three
are given out again: to the next record when no buffer could be made, to a later
process when versions have wrapped. `RingSound` and `ChunkSound` say that they
still name one record for every version that a reader may come to
(`InRange`): numbers in the ring and in buffers are below the thread's next
one; a thread without a buffer has the number it will give back in no chunk;
an entry that was given up bears a version that is out of range until it is recovered, and
is then given the one after the new. `Ageing` is the
arithmetic of versions: at a death each that is not the new one is one older, and the
one that would be reused was as old as can be and is in no buffer that is kept.
This needs `V > 2 * Span + 1`, with 2^16 and 10 in the code.
`OutSound` gives the order: what this process handed out is not behind anything in the ring.

`DataInvariant`: `Spec => [](OversizeInv /\ DataInv)`; from it `NoDataIsLost`
(`NothingMissing`, an action property). Searches, the recycler and recovery
drop chunks by comparing versions and numbers, without looking at the ring; that none of them
drops what a parent still refers to needs the other direction of what `OversizeInv` says,
where the reader is relative to the ring:

* `VersionsInOrder`, `NotPassed`: versions get no older along the ring, and
  the reader leaves a version when nothing of it is left (`VersionIsRead`). Each old version and
  thread in the ring has its recovery record.
* `NumbersInOrder`, `LastNumber`: for each thread and version the first entry in the ring has the number
  that is expected, and the others follow without a gap up to the
  thread's next one. This is where `SeekFails` must take its number back. At a death the record
  is the least number, that of the first entry (`DieNumbers`).
* `ChunksInOrder`, `FillersKnown`: only the last chunk of a buffer may be unfinished, numbers
  rise, and a filler's chunk has the number of its parent. What is dropped of a buffer
  is always its front (`EndOf`, `Fronted`).
* `DataThere`, `HeadRead`: a committed parent in range has its data in a buffer, unless its
  chunk has just been returned, or was before a death between the two steps of
  `rt_return_oversize_read_chunk`: then a later process finds the parent alone, and
  drops it rightly.

So a chunk that a parent needs is not overdue for the recycler (`RecycleData`: its number
is not below the expected one and its version not passed), not stale in a search for the head's data
(`SearchKeeps`: it has a higher number than the head), and in a file that is
kept at a death (`DieData`); and the search finds it, since what is in front of it in its
buffer has lower numbers (`MissingIsHandedOut`).

### `SisoRingProofs`

`SisoInvariant`: `Spec => []SisoInv`; from it `ChunksStayWhole`
(`NothingIsOverwritten`), `SisoTypes`, and `RingImplementsStream`
(`Spec => ImplementsStream`). The code compares cursors that wrap. `SisoInv` gives
each of the six a position that does not, of which the cursor is the remainder by `W`
and the block the remainder by `N`: the positions are in order (`Positions`), less than a ring
apart, so that different ones have different blocks (`RemaindersDiffer`) and the
differences the code takes are those of the positions (`DistIs`). Between
the first and the last, `Chunks` has the set of positions at which chunks begin or end: each is
whole, none begins inside another, and each is the one sent after the one in front of it (`Laid`).
A step of the reader cuts this set, a commit adds to it, and what the writer
does in between falls on blocks behind it (`RoomIsFree`). No induction over chunks is needed.

The first three hold for any crash. The refinement holds when a crash comes before the writer's
cursor has wrapped past the reader's (`LateCrash = FALSE`, the bound `InTime`), in which case
the walk of recovery finds its way (`RecoveryWorks`); otherwise the code
starts afresh, and chunks are lost (hazard at line 408).

### `LogBufferProofs`

`BufferInvariant`: `Spec => []BufferInv`; from it `NumbersNeverOverdue`
(`NothingOverdue`), `NothingIsLeftDangling` (`NothingDangles`) and
`BufferImplementsStream` (`Spec => ImplementsStream`). None of the three is
inductive, and none can be shown without the others. The reader may put a block
back only if the block is where the reader takes it to be, has nothing left in
it, and is the one whose number has come; to know
the last it needs that no two places of a thread have one number; and
records are lost with the block unless its thread has given it up. The parts of `BufferInv`:

* `ListsSound`: each block of a group is in one of the group's three lists,
  once, and those of a group that is not in the list are all free.
* `ReaderOnItsWay`: the reader's group is in the list and the one in front of it
  is; its block is in use, and the one in front of that one is or there is none.
  Threads put blocks and groups in front of it at any time, and the reader itself takes
  them out from under its own feet; the lemmas `Unlinked` and `BlockLeft` say what this
  does to "immediately in front of", `MovedOn` and `BlockGiven` the same of the way on.
* `NumbersSound`: the numbers of a thread's places, in the ring (`RingSound`) and in
  blocks (`BlocksSound`), are not behind the reader's and below the thread's next
  one; they differ (`NumbersApart`); a mark of the end has the last of all;
  a thread's own block has the number before the next one, two before
  it as it takes a place in the ring instead (`ThreadsSound`); what is free has nothing in it
  (`FreeSound`); and what the reader has seen of its block is still so (`BlockAsSeen`):
  a thread may still write to the block after it was found empty,
  unless it had been given up before the reader looked, which is why the mark is read first.
  `NumbersWhenLeft` is the step that all of this is for: a block is put back, the
  number goes up by one, a thread's state is perhaps deleted, and nothing is behind it.
* `RecordsSound`: of two places the one with the lower number has the
  lower records, and in a block they lie in order (`RecordsInOrder`); a place holds
  nothing that was read, but for what the reader still has in its hand, and of what is not
  committed only the thread's next record, as a chunk of the ring that is not done
  (`RecordsInRange`); each record from the last one read to the last one committed is somewhere
  (`NoneMissing`).

For the refinement, every step of a thread is a `Log` or a stutter (`LogsOrNot`), every step
of the reader a `HandOut` or a stutter (`HandsOutOrNot`). The least record of the place
whose number has come is the next one to hand out (`NextRecord`): it is somewhere, in no lower
place as those have been left, and in no higher one as that has higher records.

### Only model-checked

All liveness. The recovery of the MISO ring (`RecoveryIsExact`, a fold over the headers).
`SecondEmptyIsTrue` of the log buffer, which
is about all that a whole round of the reader has passed and would need the history of the
round as part of the invariant. `FileLog` and `NodeConsole`. `CompressedLog` and
`LogSnapshot`, whose properties compare with folds over all records, which is induction over data.

## 7. Hazards

The full list, with source lines, is in `PROJECT.json`. By place:

| where | what is hard to test | properties |
|---|---|---|
| MISO ring, reserve | several threads past the end; unwinding in reverse; stale copies of the read cursor; full against empty | `NoSharedBlock`, `CommittedIntact`, `RingInv`, `RingProgress`, `ImplementsQueue` |
| MISO ring, reader | gaps, old headers in freed blocks, data read in place | `ReaderFindsHeader`, `CommittedIntact` |
| MISO ring, recovery | half-finished reservations, long gaps, what was returned and not published | `RecoveryIsExact` |
| spin lock | readers that disturb the counter of a writer; loops that another thread can prolong | `Exclusion`, `ImplementsLock`, `EverybodyPasses` |
| block list | the first block is away and back between the read and the swap; the mark wraps; a death with a block in no list | `LinkIsCurrent`, `ImplementsStacks` |
| group list | a block is taken as its group is found unused; insertion in front of an unlocked reader; lock order | `ListIsSound`, `NoBlockIsLost`, `NobodyInRetired`, deadlock |
| SISO ring | stale copies on both sides, split chunks, crash between cursor and publication | `NothingIsOverwritten`, `ImplementsStream` |
| log buffer | one thread's records in several places; emptied blocks put back while written; when "empty" is true; memory given back | `ImplementsStream`, `NothingOverdue`, `NothingDangles`, `SecondEmptyIsTrue`, `ReadAndGivenBack` |
| oversize buffers | data and parent in two places; recycling under try-locks; a failed allocation; versions that wrap, threads of other processes with the same number | `RightData`, `NobodyLosesABuffer`, `NothingMissing`, `SurvivorsAreRead`, `BuffersGoAway` |
| log manager and workers | flush against worker, shutdown against everything, reset against processing, a killed worker | `AppendersOwned`, `NoWorkerAfterUninit`, `FlushKeepsItsWord`, `NothingWaitsForEver` |
| file appenders | partial writes with unfinished data behind, roll-over on a full disk, a death between the write, the moves and the cursor | `NothingAcceptedIsLost`, `CacheIsKept`, `RepeatedOnlyByRecovery`, `ReachesTheDisk`, `DoorReopens` |
| compressed log | indices known to the writer and not to the file, or the other way; eviction; a file gone on with | `DecodedIsLogged`, `WriterKnowsTheReader`, `CachesAreSound` |
| snapshot | records dropped, filtered out or refused between two texts; the ring made anew | `SnapshotIsSound` |
| console callback of Node.js | a mutex held while a queue is full; notes and chunks in different orders; environments that come and go | `LinesAreShown`, `NotesMatchChunks` |

Three entries of the list have no property: the one with the two hazards of `SisoRing` that `InTime` and the
bound on batches cut off, threads that sleep through 2^32 blocks (`Sleepers`), and the
lock order of `GroupList`, which is the absence of deadlock in its run.

## 8. Plan and what is not modelled

Done, in this order: `MisoRing` (all reading and writing goes through it), its recovery,
the lock, `LogBuffer`, `GroupList`, `BlockList`, `SisoRing`; then
`OversizeBuffers` with the versions of recovery, `LogManager`, `FileLog`,
`BoundedHashCache` and `CompressedLog`, the recovery of the block lists,
`LogSnapshot` and `NodeConsole`.

Left, models:

1. Recovery of the whole log buffer at once: LP ring, groups, blocks with
   versions (`group_list.cpp` 26-75, `log_buffer.cpp` 534-562) in one state; the
   parts are modelled one by one.
2. The ring of the console appender from which a program fetches (`console_buffer`).
3. `try_flush_all` from signal handlers.
4. Data behind the index and the parameters of an entry in the compressed file; segments of
   encrypted files; a partly written item at the seam of two segments.
5. The wrap of the SISO cursors at a crash, and batches at a crash, as runs of
   `SisoRing` with `LateCrash = TRUE`.

Left, proofs:

1. `LogBuffer`: `SecondEmptyIsTrue`.

Not modelled: layout and formatting of text, the format engine, encodings, the
raw and text decoders, encryption, the bindings for Java, C#,
Python and Unreal, all but the console callback of the one for Node.js, and configuration parsing: sequential code on data, in which
no order of steps matters. They are most of the repository by lines (of
47,900 lines of implementation the wrappers, bindings and platform layers are
half, strings, formatting and containers most of the rest), which is why the
modules stand for a small share of all lines although they stand for most of
what runs concurrently or outlives the process. Containers, memory
pools, the thread and file wrappers of the platforms are used through what they
promise. `awake_and_wait_begin` and `awake_and_wait_join` of the worker
are never called.

Weak memory is not modelled: each access to shared memory that a model
distinguishes is one step, in program order. The code's acquire and release
orders are at the accesses that publish (`read_cursor_`, `write_cursor_`,
`status`, the heads of block lists), which is where the steps are.
