# LSM-KV-Engine in TLA+

A verification project for LSM-KV-Engine, a key-value store in Go built on a
log-structured merge tree. Line numbers refer to files under `internal/`.

## The system

| Component | State | Operations | Talks to |
|---|---|---|---|
| memtable manager (`memtable/manager.go`) | active memtable, immutable list, flush channel, WaitGroup, snapshotted keys | Put, rotate, flush worker, Snapshot, ResetAll, Close, Get | its flush handler is `lsm.onFlush` |
| memtable structures (`structures/`, `memtable/adapters.go`) | skip list, B-tree, red-black tree, AVL tree or hash map | insert, replace, remove, search, iterate | used under the memtable's mutex |
| write-ahead log (`wal/`) | segment files of fixed-size blocks, manifest with watermarks, next transaction id | Put, BatchWrite, RotateSegment, Recover, MemtableFlushed, DeleteOldSegments, ClearAll | written by the engine's goroutine, told of flushes by the flush worker |
| LSM tree (`lsm/lsm.go`, `cache/lru.go`) | memtables, read cache, SSTables | Put, Get, onFlush, Finish, ClearAll | memtable manager, SSTable manager |
| engine (`core/engine.go`, `core/batch.go`) | sequence generator, the parts above | Put, PutWithTTL, Get, Delete, RangeDelete, batches, recovery, ClearAll, Close | everything |
| SSTable manager, compaction (`sstable/manager.go`, `sstable/manifest.go`, `lsm/strategy.go`) | layers of tables, manifest | FlushToSSTable, Get, MergeSSTables, MoveSSTable, DeleteSSTable, load | runs on the flush worker, read by the client |
| SSTable files (`sstable/`, `encoders/`) | data blocks, index, summary, range tombstones, Merkle tree | AddRecord, Finalize, Get, Seek, scan, Verify | SSTable manager |
| iterators, scans (`iterator/`, `core/scan.go`, `core/paged_scan.go`) | positions, merge heap or winner tree; a page and its watcher | range and prefix scans, paged scans | memtables, tables, notifier |
| TTL janitor (`ttl/`) | heap of expiries, timer goroutine | AddTTL, evict, Stop | notifier |
| notifier (`notifier/`) | listeners with bounded channels | Subscribe, Unsubscribe, notify | engine, janitor |
| backups (`backup/`, `core/backup.go`) | chain of full, incremental and checkpoint backups | create, delete, cascade, restore | engine, both manifests |
| token bucket, block manager, sketches, CLI, config | counters, bytes | sequential code | |

Four things make this code hard to test.

* **Concurrency.** The goroutine that calls the engine and the flush worker
  share the memtables, the SSTables and the WAL manifest. Writers wait on a
  condition variable, tables travel over a channel that is used outside the
  mutex. A paged scan has a watcher goroutine; a backup copies files that the
  worker merges and deletes.
* **Crashes.** A write is in the WAL, in a memtable, in an SSTable, and below a
  watermark in an order fixed by several separate disk writes; files and the
  manifests that name them change one after the other.
* **Long histories.** What a Get or a scan shows depends on which tables were
  merged, moved and dropped before; whether a backup can be restored depends on
  the backups made, deleted and restored before it.
* **Boundaries.** WAL records are cut at block ends and segment ends, SSTable
  records at block ends; batches are cut by the watermark of a flush; sequence
  numbers are restored from two places.

What makes the parts correct: the manager loses no entry, forgets no blocked
writer and hands tables over in order; the structures are ordered maps; the log
returns after a crash what was acknowledged and not flushed, whole and in order;
compaction keeps every version that is still needed; a file gives back what was
written to it; a scan shows the live keys of its range and its watcher notices
changes; a backup brings back the store it was made of; the engine as a whole is
a dictionary. `PROJECT.json` lists the hazards line by line, with the properties
that cover each.

## Modules

| Module | Contents |
|---|---|
| `MemtableManager` | the memtable manager with any number of writers, one action per critical section, channel operation or call of the flush handler |
| `MemtableManagerProofs`, `EngineProofs`, `SSTableManagerProofs`, `BackupsProofs` | theorems about these modules |
| `CompactionProofs`, `ReadsProofs` | further theorems about `SSTableManager`, with the invariant of `SSTableManagerProofs` |
| `DictionaryProofs` | `Engine` implements `KVStore`, with the invariant of `EngineProofs` |
| `SequenceFacts` | lemmas the proofs share |
| `MemtableStores` | the five structures behind a memtable and the rollback of a batch |
| `WAL` | the log: fragments, blocks, segments, batches, watermarks, crash and recovery |
| `Engine` | client, flush worker, cache, SSTables and log together, with crashes and restarts |
| `KVStore` | what the engine promises: a dictionary; `Engine` is shown to implement it |
| `SSTableManager` | layers, manifest and files; flush, both compaction strategies, crashes, reconstruction |
| `SSTableFile` | one file: blocks, chunks, encoders, index, Merkle tree; Get, Seek, scan |
| `RangeDel` | range tombstones: fragments, search, the sweep of a scan |
| `Iterators` | the merging iterators and range scans, as operators |
| `PagedScan` | a paged scan, its watcher, the notifier and the janitor over a changing store; uses `Iterators` and `RangeDel` |
| `Backups` | backup chains, deletion and restore against the flush worker and crashes |
| `MC...` | instances for TLC |

An operator marked *Mutant* is a wrong variant of the definition that follows
it. No specification uses one: putting it in the definition's place shows that
the property it belongs to can fail.

### MemtableManager

A table is an identity (pointer equality in the code) and a set of entries; an
entry is its key, its sequence number and whether it is a range tombstone. `pc`
says where each writer is: `rotate` has left Put's critical section with a full
table, `wait` is inside `cond.Wait`, `woken` was signalled and wants the mutex
back, `send` has unlocked and not yet sent. `Put`, `Rotate`, `WakeUp`, `Send`
are the writers' steps, `Receive`, `TakeImmutable`, `Flush` the worker's.
`puts`, `flushed` and `resets` are history. TTL and values are left out. `Close`
assumes that no Put is under way: the engine calls both on the same goroutine.
`FlushedInOrder` is stated as long as at most one writer has been rotating at a
time (`Rotators`), which is how the engine calls the manager.

### MemtableStores

An entry is a key with its sequence number. The B-tree and the AVL tree are
nested records, the red-black tree and the skip list pointer structures, as in
the code; the skip list's random level is an input. `Put` is the adapters'
Upsert or Insert (snapshotted keys keep all versions), `Rollback` the removal of
a batch of two, `Flush` the reading of all entries. The properties compare the
structure with the set of entries it should hold.

### WAL

`disk[s][b]` is the sequence of fragments in block `b` of segment `s`. A key
and a value are the number of bytes they take together, and the number of the
operation stands for their contents. One action is one block written
(`NextBlock`, `WritePart`, `WriteEnd`), a rotation, or one save of the manifest
or deletion of a file inside `MemtableFlushed`. The code keeps the current block
in memory until the record is complete or the block is left; a crash before
that write is a crash before the action. `Recover` is the code's pipeline
`ReadAllFragments`, `JoinFragments`, `ApplyTransactions` as folds over the
fragments, so every property about recovery holds, or fails, in the state in
which the process would crash. `Reopen` continues with a memtable capacity
chosen anew, as the configuration may have changed.

### Engine

One client and the flush worker. A call appends to the log (`Write`,
`RangeDelete`), then applies its records one by one (`Apply`, `Rotate`,
`UpdateCache`); `Get` is one step when the memtable or the cache answers and
three when the SSTables must be read. The worker takes the oldest table
(`TakeImmutable`), writes it (`FlushToSSTable`), moves the log's watermark
(`MemtableFlushed`) and compacts. `Crash` forgets what is volatile, `Restart`
restores sequence numbers and replays the log through the same steps as a
write.

The parts are taken by what the other modules show of them: with one writer
tables are flushed in rotation order and every send goes through (run
`memtable`), so the immutable list is the worker's queue; recovery returns the
records above the watermark, and of a batch only if its START record is.
The WAL's failures at block and segment ends are left to module `WAL`.
Compaction may drop any records that a newer one hides, and tombstones that hide
nothing; that the strategies and the merge respect this is the subject of
`SSTableManager`.

`regressed` is set when a restart hands out sequence numbers again that are in
use; the other properties of `Engine` are stated for histories in which it did
not happen. `lost` holds the rests of batches that a crash loses because a flush
cut the batch. Both are described below.

### SSTableManager

A file is the set of its records and tombstones; its name holds layer and
identifier. `files` and `manifest` are on disk, `layers` in memory: a merge
(`MergedKey` decides what remains of each key) writes its file, enters it
(`Add`), then deletes the inputs one by one (`Delete` removes a file, `Unlist`
saves the manifest), and a crash may fall between any two of these.
`TieredCompact`, `LeveledCompactL0` and `LeveledCompact` choose the tables.
`failure` records which panic of the code ended a process: `notFound`, `noBase`,
`noLeaves`; or that `MoveSSTable` misplaced a table (see below), after which the
model stops. `hist`, `rdHist` and `kept` are what was flushed, and what a
snapshot entitles to see. Sizes are numbers of records. Merge operands are sets
of operands folded over a base; SimHash is left out.

### SSTableFile

The writer is a function of the records given to it: builder, finished blocks,
dictionary of the adaptive encoder, index, tombstones. Lengths are the code's,
in bytes; bytes themselves are left out, a value being a name with an interval.
`Get`, `Seek`, `SeekToFirst` and `Verify` are operators on the finished file and
are compared with the sequence of records that was written. A hash is the term
that was hashed, so the Merkle tree has no collisions.

### Iterators, RangeDel, PagedScan

`Iterators` gives the merge structures their real behaviour, including what
opening an iterator does to them; `RangeScan` is the code's loop. `PagedScan`
writes, rotates and flushes a small store, and opens one session on it: a write
and its notification are separate steps, the watcher's receive and its marking
of the session too. `Resubscribe` closes the old channel and opens a new one.

### Backups

A write is a number, a table the set of writes in it. A backup is begun
(`BeginBackup` lists the tables), copies the tables, copies the log, and is
finished (`Finish` saves the WAL manifest as it is then, and the table manifest,
whose map of layers is the live one, and enters the backup). Between these the
flush worker flushes, moves the watermark and merges. `RestoreFromBackup` is a
full backup, `RestoreClear`, `RestoreBackup` with its fallback, `Reinitialize`
and the deletion of the new backup. `dirs` carries for each backup what the
store held when it was begun, and its *flaws*: `raced` (the tables changed
meanwhile), `orphan` (its base had been deleted), `clash` (its base has another
table of the same name), `degraded` (a restore had failed before).

## Runs

| Run | Shows |
|---|---|
| `memtable` | two writers, the worker, a reset: bounds, `Conservation`, `NoLostWakeup`, order; every Put and Close returns |
| `stores` | the five structures find the newest version, iterate in order, stay balanced and count their entries |
| `engine_durable` | acknowledged writes survive two crashes, sequence numbers follow the writes, the WAL accepts every watermark |
| `engine_dict` | the engine implements `KVStore`; it always gets back to waiting for a call (`ReadyAgain`): calls return, recovery ends |
| `wal_durable` | records that fit their block: recovery is complete and in order at every instant, also inside `MemtableFlushed`, which never fails; appends and flushes end and old segments disappear |
| `wal_frag` | fragmented records: nothing is lost between flushes, records come back whole; batches cut by block ends, segment ends, flushes and a crash are atomic |
| `sst_manager` | under both strategies reads see the newest version, snapshots and merge operands survive merges, the manifest names the tables there are, layers stay disjoint |
| `sst_file` | a file gives back what was written, by scan, Get and Seek; block size estimates suffice; the Merkle tree detects a changed block |
| `scan` | range scans show the live keys; a change of the shown page is noticed; no listener is left behind |
| `backups` | an unflawed backup brings back its store; a restore never risks what it replaces; the listed backups are complete; what can keep the engine from starting |
| `wal_cut` | violation, see below |
| `sst_rebuild` | violation, see below |

### Bounds, and why they are enough

* `memtable`: two writers are what a lost wakeup, a wrong send order or a stale
  `ShouldFlush` needs; tables of one entry and a list of two make rotations
  wait; four puts fill the active table, the list and the table after them; a
  reset may fall anywhere.
* `stores`: nine keys, minimum degree 2, two levels; preloads bring the
  structures to the edge of splits and rotations, three more puts and a rollback
  cross it.
* `engine_durable`: memtables of two entries, batches of two, four writes: a
  batch is cut by a table's end, and three generations of a key exist (SSTable,
  immutable, active). Two crashes allow a crash during the recovery from a
  crash. No cache, so reads are not answered from memory.
* `engine_dict`: memtables of one entry and a list of two, so that versions of
  the key lie in two memtables, in the worker's hands and in SSTables; with one
  entry per table the keys do not interact, and one key with four writes shows
  more than two with three. The cache holds the key, which hides the read gap
  described below; no range deletes and batches of one, for the reasons given
  there. Two crashes: one may hit the recovery from the other.
* WAL: header and block sizes are scaled down so that the cases appear that the
  run is about: 3 and 8 with payload 1 make records that fill a block in pairs
  and never break; 1 and 4 with payloads 1 and 7 make records of one to three
  fragments. Two or three blocks per segment make segments fill, retire and
  disappear. In `wal_frag` records also run over a segment's end, which is
  finding `wal_cut`: `DurableAtRest` looks away from then on (`Dangling`),
  `BatchAtomic` does not. Four operations, each up to three records, and three flushes let a
  watermark pass two segments.
* `sst_manager`: three keys, one of them a probabilistic structure, one
  snapshotted; four layers, triggers of two, four sequence numbers: merges into
  a layer that already has tables, a merge into the last layer, a move, and after
  a restart a second move of the same table. One crash and one ClearAll, which is called
  while the worker is idle (`QuietClear`).
* `sst_file`: the code's default block size, 160, restart interval 2 (default
  3), a dictionary window of 2 (5) and one identifier per byte width (256); five
  records of lengths chosen to fit, to fill exactly, to overflow by a little and
  to span blocks. One corrupted block.
* `scan`: three keys, two overlapping range tombstones, two memtables besides
  the active one, four writes without a session and two with one; pages of one
  key and channels of one event (32 in the code), so that a channel is full and
  an event is dropped.
* `backups`: three backups are a chain of three, or a chain of two and the
  backup a restore makes; two writes are in two tables or in a table and the
  log; one upset, a ClearAll or a crash at any step. At a time there is one
  checkpoint and one backup that the worker raced; the last backup is no
  checkpoint, which only matters to backups after it.

`scan`, `sst_file` and `backups` do not check deadlock: within the bounds the
clients simply stop, and a file is finished once.

### Fairness

`FairSpec` in `MemtableManager`, `Engine` and `WAL` asks weak fairness of the
worker's steps, of a call that has begun, and of `Close`'s return: Go's
scheduler runs every runnable goroutine, and each of these loops has no
other way to stop. `Engine` also restarts a process that went down. In
`PagedScan` the watcher runs, an operation of the session under way goes on, and
a writer announces what it wrote. Nothing obliges anyone to begin a call, and
crashes are never fair. In `MemtableManager` a writer that holds the mutex is
one atomic step, so no fairness between waiters is assumed.

## Findings

`wal_cut` ends in a violation: a record that runs over the end of a segment
leaves its FIRST fragment behind, recovery stops there and loses every later
record. `PROJECT.json` quotes the test that says otherwise.

`sst_rebuild` ends in a violation: a crash comes after the output of a merge is
finished and before the manifest is saved, so the file stays in the directory
and no manifest names it. The inputs are merged again, the key is deleted, and
the last layer drops value and tombstone. Then the manifest is lost;
`reconstruct` lists every file it finds, the old output among them, and the
deleted key is back. The history variable `stray` follows this: `"left"` when a
start finds a finished file that its manifest does not name, or when a table was
moved to another layer under its old name, `"listed"` when a manifest was
rebuilt after that. `ReadsNewest` and `ScanAgrees` are stated for histories that
are not `"listed"`.

## Behaviours the models reproduce

The models contain the following behaviours of the code, which limit what the
passing runs can state. Properties name the cases they leave out.

Memtables and engine

* The worker takes a table out of sight before it is flushed; a Get in that gap
  that the cache does not answer returns, and caches, an older version
  (`memtable/manager.go:119`). `engine_dict` has a cache that holds the key.
* `MaxSeqId` of the SSTable manifest is computed once; after the log was
  truncated and the process restarted again, sequence numbers are reused
  (`sstable/manager.go:124`).
* A flush that cuts a batch drops its START record from the log; a crash then
  loses the rest of a committed batch (`wal.go:314`).
* A writer that waited in `rotate` does not look at `ShouldFlush` again and may
  rotate a table that is not full (`memtable/manager.go:103`).
* A table the worker took before `ResetAll` is flushed after it
  (`memtable/manager.go:222`).
* A range tombstone does not hide keys of older memtables, nor the cache
  (`generic_memtable.go:122`): `engine_dict` has no range deletes.
* Rollback of a batch does not restore what its entries replaced, and removal in
  red-black tree, AVL tree and hash map takes the newest or all versions of a
  key (`adapters.go:266`, `:337`, `hack_map.go:102`); the entry count goes down
  even if nothing was removed. The iterators of B-tree and AVL tree lose their
  place after Seek (`b_tree.go:387`, `avl_tree.go:319`).

Log

* A START or COMMIT record that exactly ends its block is not read
  (`segment.go:367`): the block size of `wal_durable` avoids it, and
  `DurableAtRest` asks for no batch.
* What is appended behind a record torn by a crash is not recovered
  (`wal.go:334`): `DurableAtRest` holds up to the first crash, and `wal_durable`
  has no fragments.
* Between the two watermarks of `MemtableFlushed` a log of fragmented records
  may begin with a LAST fragment; a crash there loses the unflushed log, or
  joins pieces of two records (`wal.go:491`): hence `DurableAtRest`.
* A crash while segments retire, then smaller memtables: `SetFlushedUpToSeqID`
  refuses and the engine panics (`wal.go:511`): `wal_durable` keeps the memtable
  capacity.

SSTables

* After a move and a restart a table's reader has its old layer, and the merge
  that deletes it panics (`sstable/manifest.go:148`); only leveled compaction
  moves tables. If that table is moved again instead, it is found in neither
  list: its reader ends in two layers, and the manifest gets an entry that names
  no file, so that the next start fails (`sstable/manager.go:512`). A merge of
  operands without a base, or with an empty result, panics
  (`sstable/manager.go:432`, `:490`).
* A crash between deleting a file and saving the manifest keeps the engine from
  starting (`sstable/manager.go:291`).
* Leveled compaction drops a range tombstone at the last layer although older
  keys it covers lie above; an expired newest version is dropped and exposes an
  older one (`:476`, `:465`). Memtables of range tombstones only are not
  flushed (`:183`).
* In a file, `Get` may miss keys in a block that begins inside a value, and
  prefer an older version if the versions straddle two blocks; a dictionary that
  outgrows its identifiers' width makes earlier records unreadable; the CRC of
  an index block may overwrite an entry; a scan passes over a block with a wrong
  checksum; for a number of blocks that is not a power of two `Verify` may name
  a wrong block.

Scans

* Opening a scan may drop a source from the heap (`min_heap.go:109`); the key at
  the lower bound is skipped in a memtable (`memtable/manager.go:262`);
  tombstones of a memtable include their end; tombstones of a table are active
  early after a gap, and those of a table outside the scan's range are not
  read. For instance a scan of a store with a single key returns nothing.
  `ScanCorrect` names these cases: `OpeningDrops`, `LowerSkipped`,
  `MemtableDelMisread`, `TableDelMisread`.
* The watcher ends at the first turn of a page, when its channel is closed, so
  later changes are not noticed; `ChangePending` and `ChangeSeen` are about the
  time before. A watcher may dereference a nil listener after Close
  (`paged_scan.go:143`).

Backups

* A backup raced by the flush worker may lose records or name tables it does not
  hold; the engine then cannot start from it (`full_backup.go:63`).
* A deleted backup stays the base of the next incremental one; in particular the
  one that `RestoreFromBackup` makes and deletes. Such a backup can never be
  restored (`backup/manager.go:139`).
* After ClearAll or a restore table names are given again and an incremental
  backup skips tables it should copy (`incremental_backup.go:100`).
* A crash in the middle of a deletion makes every later start panic
  (`backup/manager.go:134`).
* After a failed restore the old files are back but the engine is empty: a write
  panics, and a second failed restore loses everything, because the backup it
  falls back to is one of the empty engine (`core/backup.go:69`). With
  `MaxBackups = 4` the model shows this if `RestoreSafe` drops its exception.

## Proofs

Every inductive invariant below was first checked by TLC as an invariant of the
run of its module; the proofs then show it for every value of the constants.

| Module | Theorem | Property |
|---|---|---|
| `MemtableManagerProofs` | `TypeCorrect` | `TypeOK` |
| | `RotationSafe` | `ImmutableBound` |
| | `WakeupSafe` | `NoLostWakeup` |
| | `NothingLost` | `Conservation` |
| | `CapacityRespected` | `ActiveBound` |
| | `OrderKept` | `FlushedInOrder` |
| `EngineProofs` | `TypeCorrect` | `TypeOK` |
| | `OrderKept` | `LogOrdered` |
| | `DurableAlways` | `Durable` |
| `DictionaryProofs` | `EngineIsDictionary` | `Dictionary` |
| `SSTableManagerProofs` | `ManifestAlways` | `ManifestAgrees` |
| `CompactionProofs` | `LayersAlways` | `LayersDisjoint` |
| `ReadsProofs` | `ReadsAlways` | `ReadsNewest` |
| `BackupsProofs` | `CompleteAlways` | `ListedComplete` |
| | `StartAlways` | `StartFailsOnly` |
| | `RestorableAlways` | `BackupRestores` |
| | `RestoreSafeAlways` | `RestoreSafe` |

`SequenceFacts` holds the lemmas these modules share: a bounded set of naturals
has a greatest element, a sequence of naturals a bound; `Append`, `RemoveAt`,
`RemoveFirst`, `ToSet`. The step lemmas have one case per action; the temporal
theorems combine them.

### MemtableManager

For any finite set of writers, any keys and any capacities (assumptions
`WritersAssumption`, `KeysAssumption`, `BoundsAssumption`):

* `TypeCorrect`: the types, together with `WgCounts`: the WaitGroup counts the
  tables in the channel, those a writer is about to send and the one in the
  worker's hands. Without it `wg - 1` could leave the naturals.
* `RotationSafe`: `ImmutableBound` and `FullHasRotator`. `Close` appends to the
  list without looking at its length; that this is harmless needs
  `FullHasRotator`, which says that once all writers are idle no full table is
  left for it to move.
* `WakeupSafe`: `NoLostWakeup`. A writer that waits does so because the list is
  full; every table in the list is on its way to the worker
  (`ImmutableOnItsWay`), whose critical section signals. When the worker removes
  its table, no second place of the list may hold the same one: `IdsIncrease`,
  the identities in the list grow. The inductive invariant is the conjunction
  `WakeupInv`.
* `NothingLost`: `Conservation`. A replaced entry is superseded only by a newer
  one, because no entry's sequence number exceeds the last one given:
  `SeqsBounded`.
* `CapacityRespected`: `ActiveBound`, by counting: each entry over the limit
  belongs to a writer that now waits to rotate (`CapacityInv`).
* `OrderKept`: `FlushedInOrder`. `Pipeline` orders the whole way of a table:
  flushed, in the worker's hands, in the channel, about to be sent, active. It
  needs that at most one writer has rotated, and that hypothesis is itself a
  statement about the history; `Begun` says that whoever is about to send has
  rotated, so that a second sender falsifies the hypothesis and not the order.

### Engine

For any keys and range deletes, any capacity, cache, batch size and number of
writes and crashes (`KeysAssumption`, `BoundsAssumption`). `Mem` is the list of
memtables in age order, the one in the worker's hands included. The inductive
invariant is `Inv`, in two parts.

`BaseInv` holds in every history: the types; `Stored`, what memtables and
SSTables hold are records of the log at their own place and none that a recovery
dropped; `Quiet`, between calls nothing is left to apply and a dead process has
no memory; `Filled`, a table holds a key once, is full exactly when it is about
to be rotated and is never rotated without a point record, which is why
`FlushToSSTable` never skips one.

`SeqInv` holds as long as no restart regressed the sequence numbers:
`Sequenced`, they grow with the log and the generator is ahead; `Layered`, they
grow from the watermark over the memtables to what is still to be applied;
`Replayed`, what a recovery would replay is in a memtable (or a newer version of
its key is) or about to be; `Kept`, what the watermark has passed is in an
SSTable or no longer matters. `LogOrdered` and `Durable` follow.

The part that took finding is `Behind`. After a crash between `FlushToSSTable`
and `MemtableFlushed` the log is replayed over SSTables that are ahead of the
watermark, and the first memtable rotated after the restart must reach at least
as far as they do, so that a compaction never works on records above the
watermark: it would drop versions and tombstones of which the log may bring back
only a part. It does, because the records that recovery replays and that are
older than what the SSTables hold are about fewer keys than a table
has room for (`Few(Older)`); the same must be known of each memtable before it is
flushed (`Few(Window(a))`).

#### The engine is a dictionary

`EngineIsDictionary` is the refinement: under the mapping of `Dictionary`, every
step of `Engine` is a step of `KVStore` or a stutter, with any number of keys,
memtable sizes, flushes, compactions, crashes and replays. It has three
hypotheses (`Undisturbed`), one for each place where the read path does promise
less; the run `engine_dict` sets the constants so.

* `Ranges = {}`: a range delete leaves the values of the keys it covers in the
  read cache.
* `MaxBatch = 1`: the watermark of a flush may pass the middle of a batch, and
  recovery then drops the rest of it.
* `Cardinality(Keys) <= CacheSize`: a table in the worker's hands is neither in
  the list of memtables nor in the SSTables. Only the read cache hides that, so
  none of its entries may be evicted.

A write of the dictionary is the step that appends to the log, a read the step
that answers, a reopening the restart; everything else stutters. What has to be
shown is that every answer is `DictVal`, the newest write in the log. The
inductive invariant is `DictInv`, added to `Inv`:

* `Plain`, in every history: no write is dropped, none is a range delete or part
  of a batch, a key is cached at most once, a dead process has no cache.
* `Suffix`: what is still to be applied is an end of the log, so the writes that
  are applied are older than those that are not.
* `OneEach`: a memtable has one version of a key.
* `Shadowed`: each key of a memtable, of the one in the worker's hands too, is in
  the read cache, or is the key of the write about to be put there (`InHand`). This is
  why a read that misses the cache may ignore the memtables it cannot see.
* `Current`: a cached value is the newest, unless a write of that key is about to
  be applied. After a crash the cache starts empty and the replay fills it.
* `Reading`: between the two looks of a read at the memtables, a key it went to
  the SSTables for stays out of the cache, and what it found there stays newest.

A read that goes to the SSTables is for a key that is not cached, hence in no
memtable (`Shadowed`). So by `Replayed` the watermark has passed the key's newest
write, and by `Kept` that write is in an SSTable or is a tombstone with nothing left to
hide; `Sequenced` makes it the newest there. After a restart that regressed the
sequence numbers, reads promise nothing (`ret` is mapped to `NoAnswer`), and only `Plain` is needed.

### SSTableManager

For any keys, memtables, number of layers, triggers and sizes
(`ManagerAssumption`), both strategies, and ClearAll while the worker is idle:
all three theorems have the constant `QuietClear` as their hypothesis, which the run
sets; a ClearAll that empties the layers under a merge is left out.

`ManifestInv` is the inductive invariant. `Agreement`: layer by layer, manifest
and memory list the same tables in the same order, but for the one table whose
file was deleted and whose row is about to go (`RowsLeft`). `Placed`: the layer a
row or a reader gives as its own exists, and under tiered compaction is the layer
it is in; this is what a move breaks, and why `notFound` is possible under
leveled compaction only. `WholeLayer`: under tiered compaction the tables still
to be deleted are the first ones of their layer, so that each is found, in memory
and in the manifest. The types carry that names of files are finitely many pairs
of numbers, without which a manifest rebuilt from them (`Reconstruct`) need not
be one; the lemmas on `Nth` show what its rows are. `ManifestAlways` follows.

`LayersInv` is what `LayersAlways` adds to it (`CompactionProofs`). As long as no
merge was cut short and no table misplaced (`Whole`), the manifest is `Orderly`:

* `Identified`: a table is known by the number in its file's name, no two rows
  share one, and the next number is larger than all. `DeleteSSTables` looks for
  numbers, so without this it could unlist a table that was not merged.
* `Present`: behind each row is a file with records, but for the input whose file
  was just deleted. `MinKey` of a table without records is 0, a range that hides
  every overlap.
* `Separate`: below L0 the keys of two tables of a layer do not interleave, unless
  one of the two is an input of the merge under way: between `Add` and the last
  `Unlist` the result and its inputs are in the layer together.
* `Adding`: the table under construction is new, has records and is apart from
  the tables of its layer that are not inputs (`Fits`). `RangeRoom` gets this from
  the code's choice: a table that `Overlapping` leaves out lies on one side of
  the range of what moves down, and the inputs on its layer, being apart from it
  and meeting that range, lie on the other; what a merge writes has only keys of
  its inputs (`MergedContent`).

Where memory is concerned, `Agreement` carries this over to the tables. A move
whose entry is not found adds an entry to the manifest that names no file, and
`Orderly` ends there; the layers in memory are still apart, which is the last
part of `LayersInv`.

`ReadsAlways` (`ReadsProofs`) says what all this is for: `Get` answers with the
newest flushed version of a key. It holds for merges cut short too: a crash
may fall between any two changes of the disk. It needs a view of the tables that
a merge changes in a harmless way at each of its steps.

* The *marks* of a table (`Marks`) are its versions and, for each key a range
  tombstone covers, a mark of the tombstone; `Past` are the marks of everything
  flushed. An *answer* (`Answers`) is a mark of `Past` newer than all others of
  its key, but for the keys `ReadsNewest` leaves out. The first part of the
  module shows that the binary search over fragments (`RangeDel`) finds a
  tombstone exactly if one covers the key, for any set of tombstones.
* `Good`: a set of tables at places, that is in layers, says nothing that was not
  flushed; an answer that is a version is in one of the tables; and wherever
  there is a table with any version of the key of an answer, a table with the
  answer itself is there too, in the same or in an upper layer. The last part is
  what keeps a deletion in force: a merge that drops a tombstone (the last layer)
  has all older versions among its inputs. "Upper" is `Follows`: under tiered
  compaction, and in L0, a later table of the same layer counts, so the rows must
  be in the order of their numbers (`Sorted`). With `Good` a read of all tables
  is right (`GoodReads`).
* `Replaces`: once the merged table is listed, the inputs can be deleted one
  after the other. Whatever is left of them stays `Good`, because an input that
  holds an answer goes only after the inputs whose old versions it hides. This is
  where the order in which `Compact` passes its inputs matters: tiered
  compaction deletes the oldest table first, leveled compaction the tables of the
  lower layer before those of the upper one (`Lowering`).
* `Store` says `Good` of the tables that the manifest lists, `Writing` of these
  and the table under construction, `Disk` that memory, manifest and directory
  hold the same tables, `Books` that the manifest's rows are identified and
  sorted. `CacheSound`: a fragment cache that is not dirty holds what a fresh
  merge of all tombstones would.
* `Rebuilding`: while the engine is down and `stray` is `"none"`, a manifest made
  of the file names would be `Good` too. A finished L0 table that was not listed
  then counts as flushed (`Rebuilt`), as `Restart` counts it. Once `stray` is
  `"left"` the invariant says nothing of the file names, and once it is
  `"listed"` nothing of the tables until ClearAll. `Bounded` adds that no file
  has a layer beyond `MaxHeight`, so that `reconstruct` looks at all of them.
* After a misplaced table (`Misplaced`) only the tables in memory are `Good`: the
  manifest names one that is not there.

### Backups

For any number of writes, backups, checkpoints and upsets
(`BackupsAssumption`). Chains are the least closed sets of the map from a backup
to its base (`Reach`), so the lemmas about them need no induction: `ReachFacts`
and `ReachAgree`. The inductive invariant `Inv` is the conjunction of the types
and four groups.

* `Books`: what is listed in memory, entered in the manifest file and present as
  a directory (`Listing`); bases are older (`Numbered`); a deletion under way
  takes all dependents of what it takes (`Deleting`); the directory of an entered
  backup is complete and its base entered, unless it is an orphan, and an orphan's
  successors are orphans (`Complete`); memory says what the directories say
  (`Agree`). `ListedComplete` follows.
* `StoreInv`: the store on disk opens, except between the restore of a raced
  backup and the start that fails (`Settled`); the tables that an unraced
  backup's manifest names are in its chain (`Covered`); during a restore the
  worker is idle and the backup made first is a full one (`Restoring`).
  `StartFailsOnly` is part of it.
* `Copies`: writes above the log's watermark are in the memtables (`Queue`), so a
  flush changes where a write is and not what the store holds; the copies made
  so far by an undisturbed backup are those of the store it began with
  (`JobCopies`); an unflawed backup holds, with its chain, what was taken
  (`Faithful`). `BackupRestores` follows, since the chain on disk and the chain in
  memory agree on backups that are not orphans (`Sound`), and directories of
  entered backups never change.
* `SafetyNet`: the backup a restore makes holds what was there, until the
  restored store is open (`InBackup`, `Watched`), or it is on disk again
  (`PutBack`). `RestoreSafe` follows.

### Model-checked only

* Liveness, which is beyond the prover: `PutReturns`, `CloseReturns`,
  `ReadyAgain` and the temporal properties of `WAL` and `PagedScan`.
* `WAL`, `SSTableFile`, `MemtableStores` and `PagedScan`'s scans: their reading
  sides are folds and recursive operators over fragments, blocks, trees and
  heaps, whose results would need induction over data.
* What the other reads of `SSTableManager` return (`VersionsKept`,
  `OperandsKept`, `ScanAgrees`). The sweep of a scan is a recursive function of
  the keys before it; the other two need all versions of a key where
  `ReadsAlways` follows the newest one.

## Not modelled

* The token bucket: sequential arithmetic on wall-clock time. The probabilistic
  sketches: numeric estimates; that their operands are folded once is in
  `SSTableManager`.
* The block manager and its cache, checksums' bytes, footers, Bloom filter bits
  (`Get` takes the filter's answer as an input), the layout in several files;
  the integer encodings.
* Backward iteration; the janitor's timer; TTL in memtables and in the log.
* The CLI and the configuration.
* A block and a manifest are written atomically; the in-place write of the WAL
  manifest and the unsynchronised access to it by two goroutines (a hazard
  without a property), scans that read the layers while compaction deletes files
  (`sstable/manager.go:558`), ClearAll during a merge (`:317`) and two backups in
  one second (`full_backup.go:29`) are left out.

## Plan

1. The merge of `SSTableManager` as a step of `Engine`'s `Compact`: a refinement
   between the two.
2. The WAL manifest shared by two goroutines, its torn write and reconstruction.
3. TTL in the memtables, the janitor's timer and what a restart forgets.
