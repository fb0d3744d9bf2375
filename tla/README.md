# Verification of nvme-state-db

TLA+ models, model-checking configurations and machine-checked proofs for
`nvme-state-db`, an embedded key-value store in Rust built as a log-structured merge
tree: a write-ahead log, a concurrent MemTable, immutable SSTables with a blocked Bloom
filter, and a background worker that turns MemTables into SSTables.

`src/...` below is relative to the crate (`src/src/...` in `PROJECT.json`).

## 1. Inventory

| Part | Source | State | Operations |
|---|---|---|---|
| Engine | `src/engine.rs` | snapshot (active MemTable, frozen MemTable, SSTables) under a `RwLock`; the open `Wal` in a `Mutex<Option<Wal>>`; `next_seq`, `next_sst`; `FlushCtl` (`in_flight`, `last_err`) with a condition variable; the job channel; the data directory (`wal`, `wal.flush`, `NNNNNN.sst`) | `open_with`, `put`, `delete`, `get`, `flush`, `schedule_flush`, `wait_flush`, `rotate_wal`, the worker (`run_worker`, `install_sst`), `Drop`, recovery (`recover_wals`, `apply_replay`, `checkpoint_mem`, `drop_wal_files`) |
| Write-ahead log | `src/wal.rs` | a file of 4096-byte pages (header page, then frames of whole pages); the append offset | `create`, `open` (`read_header`, `scan_end`), `append`, `replay` |
| MemTable | `src/memtable.rs` | a lock-free `SkipMap` from key to record, `approx_bytes` | `put`, `delete` (both `apply`), `get`, `iter` |
| SSTable | `src/sstable/*.rs` | writer: current block, index, filter, counters; file: blocks, index, filter, footer | `SstWriter::create_with`, `add`, `flush_block`, `finish`; `SstReader::open`, `get`; `decode_index`, `decode_records` |
| Bloom filter | `src/index/bloom.rs` | words, number of blocks, `k` | `new`, `insert`, `may_contain`, `to_bytes`, `from_bytes` |
| Types, errors | `src/types.rs`, `src/error.rs` | none | newtypes, `SeqNum::next` |
| CLI, benchmarks, examples | `src/main.rs`, `benches/`, `examples/` | none | callers |

How they interact: `put` and `delete` take the snapshot's read lock, then the WAL mutex,
take a sequence number, append to the log and apply to the active MemTable; `get` reads
active, frozen, then the SSTables from the newest to the oldest, and stops at the first
answer (a tombstone is one). `schedule_flush` swaps the active table for an empty one
under the write lock, releases it, renames `wal` to `wal.flush`, creates a new `wal`, and
sends a job. The worker writes the SSTable, installs it and drops the frozen table in one
step under the write lock, unlinks `wal.flush`, and reports through `FlushCtl`. `open`
lists the SSTables, replays `wal.flush` and `wal` and, if there was a `wal.flush`, rewrites
both into one log.

What is hard here: steps of client threads and of the worker between two locks; a crash
between any two system calls, during recovery too; failed system calls whose effect is
partly on disk; the answer of a lookup that walks layers while they move; liveness that
depends on one flag shared by all jobs. `PROJECT.json` lists the hazards line by line.

What makes each part correct:

* Engine: what a get finds for a key changes in a write of that key and in nothing else
  (`VisibleKept`), an answer was current during the call (`GetCurrent`), the first layer that
  answers has the newest entry (`NewestFirst`), numbers and file ids are never reused
  (`FreshSeq`, `SstImmutable`), the frozen table is replaced by its SSTable and by nothing else
  (`FrozenHandoff`), an acknowledged write is in a file (`Durable`), a flush that returns
  has flushed (`FlushLeavesOnDisk`), every flush returns (`FlushReturns`), and there is a log
  to write to unless a rotation went wrong (`EmptySlotStuck`).
* WAL: replay yields the acknowledged records and at most one more (`AckedKept`), and the
  offset is exactly behind them (`OffsetExact`).
* MemTable: the newest of concurrent writes wins (`NewestWins`), what a get finds while an
  entry is replaced is bounded (`CurrentOrBelow`), and the byte counter does not drift
  (`SizeExact`).
* SSTable: `get` gives exactly what was added (`GetExact`), intact files open and decode to
  what was added (`SoundOpens`, `DecodesToAdded`), damaged ones never give a wrong entry
  (`HitGenuine`), and a file has its final name only when its content is on the device
  (`PublishedIsWhole`).
* Bloom filter: no false negatives (`NoFalseNegatives`), through the file format as well, and
  the same answer on every processor (`SimdAgrees`).

## 2. Modules

| Module | Models | Role |
|---|---|---|
| `Tables` | the entries and tables that layers and logs stand for | shared definitions |
| `Engine` | `engine.rs` as threads, worker, files, crash and recovery | core |
| `EngineInv` | the inductive invariant `IInv` | checked and proved |
| `DurableInv` | what durability and the flush flags rest on beyond `IInv`; the refinement mapping | proved |
| `StateStore` | what the engine promises: one table, and what of it a get is shown | abstract specification |
| `MCEngine` | TLC instance | |
| `EngineProofs` | the inductive invariant and what follows from it | TLAPS |
| `ReadProofs` | what clients of `get`, `put` and `flush` see | TLAPS |
| `FlushProofs` | the flag and the rotated log | TLAPS |
| `DurableProofs` | durability and the refinement of `StateStore` | TLAPS |
| `Wal` | `wal.rs`, page by page | |
| `RecordLog` | what a log promises, and what `Engine` assumes of it | abstract specification |
| `WalInv`, `WalProofs` | the inductive invariant of `Wal`, the refinement mapping; the proofs | TLAPS |
| `MCWal` | TLC instance | |
| `MemTable` | `put` and `delete` of `memtable.rs` as steps on the `SkipMap` | |
| `ReadPath` | `Engine::get`, `write_op` and the swap, composed with those steps | composition |
| `PathInv`, `PathProofs` | the inductive invariant of `ReadPath`; the proofs | TLAPS |
| `SsTable` | `sstable/writer.rs`, `sstable/reader.rs`, `sstable/mod.rs`: one file and what may happen to it | |
| `Install` | `install_sst` around that file: sync, rename, open, removal of `wal.flush` | composition |
| `InstallInv`, `InstallProofs` | the inductive invariant of `Install`; the proofs | TLAPS |
| `MCSsTable` | TLC instance of `Install` | |
| `Bloom`, `MCBloom`, `BloomProofs` | `index/bloom.rs` | TLC and TLAPS |

The modules are layered by assumption rather than by one product of all of them:

* `Engine` holds a log as the table of its acknowledged records plus a `tail`, the record
  of a failed append that may have reached the disk. `Wal` shows that its pages implement
  `RecordLog`, which says the same of sequences of records (`ImplementsRecordLog`). One gap
  is left: an open may fail on a leftover page (run `torn_tail`), which `Engine` does not do.
* An overwrite removes the old entry before it links the new one, and gets and flushes look at
  the table meanwhile. `Engine` has both steps (`WriteRemove`, `WriteApply`), as its writers are
  one at a time under the WAL mutex; `MemTable` has the search and the counter too, and several
  writers of one table, and `ReadPath` puts the lookup through the layers around them. A get
  that falls between removal and insertion answers with what the layers below hold
  (`CurrentOrBelow`), which may be a value long overwritten (run `stale_read`). The properties
  of `Engine` name what such a moment excuses: the keys that were hidden when a get looked into
  the active table or a flush found it empty (`met`).
* `Engine` takes an SSTable for the table it was written from: `GetExact` and `DecodesToAdded`
  in `SsTable`. It takes a published file for a complete one, in the order of the system
  calls: `PublishedIsWhole` in `Install` shows it for the content of the file, not for the order
  in which directory changes reach the device (section 6).
* `SsTable` takes the filter for a set with false positives: `NoFalseNegatives` in `Bloom`.

### Engine

Variables carry the names of the Rust fields. An action is what happens between two
synchronisation points or system calls:

* `WriteBegin`, `WriteAppend`, `WriteAppendFails`, `WriteNoWal`, `WriteRemove`, `WriteApply`:
  `put` and `delete` with `write_op`. The sequence number is taken with the append: both happen
  under the WAL mutex. A failed append leaves the old bytes, a torn frame (the tail is lost) or
  the whole new record. `WriteRemove` is the first step of an overwrite, after which the key is
  missing from the active table, and with it the only entry of `is_empty` if there was no other.
* `GetBegin`, `GetActive`, `GetBelow`, `GetReturn`: `get`. A hit in the active table answers
  at once; otherwise the read lock is kept while the lower layers are read.
* `FlushBegin`, `ScheduleBegin`, `WaitBegin`, `WaitOk`, `WaitErr`, `FlushCheck`,
  `FlushReturn`, `SchedSkip`, `SchedSwap`: the three flush calls and the loop of `flush`.
* `RotLock` to `RotHeader` and `RotFails`: `rotate_wal`, one action per system call.
* `MarkInFlight`, `SendJob`: the end of `schedule_flush`.
* `WorkerRecv` to `WorkerReport` and `WorkerFails`: `run_worker` and `install_sst`.
* `CloseBegin`, `CloseEnd`: `Drop`. `Crash`: the process dies; completed system calls stay.
* `OpenReplay`, `OpenRefused`, `DropWal`, `DropFlushWal`, `CreateWal`, `WriteHeader`,
  `Checkpoint`, `CheckpointDone`, `Spawn`: `open_with` and `recover_wals`. A call of `open`
  that fails leaves the files as a crash at that point does, so there is no separate action.

The write lock is only held inside one action and is the guard `readers = {}`; read locks
and the WAL mutex span actions and are variables. Bookkeeping for the properties and bounds are
`crashes`, `faults`, `committed` (the newest acknowledged write of every key; an open adds a
record that was never acknowledged when it shows it, and takes nothing away), and of a call
`floor` (what was visible when it began), `under` (what lay below the active table then) and `met`.

### Wal, MemTable, SsTable, Bloom

`Wal` writes the pages of a frame one at a time in any order, so a crash or a failure leaves
any subset of them; a page is known by the record and the part last written there. `Claims`
says what the bytes of a continuation page look like when read as a frame header. Offsets are
in bytes, since `check_aligned_slice` only lets whole pages pass. The buffer of `read_one` is
read in two steps (`Loaded`): a frame of several pages makes it grow in between, and `Ensure`
takes along what was read before. Of `Wal.buf` only the size is a variable, because every read
overwrites the bytes it then looks at.

`MemTable` follows `apply`: the old size is read, `compare_insert` searches, removes and
inserts (external, from the documentation of `crossbeam-skiplist`), the counter is updated.
`ReadPath` adds a reader that looks into the active table and then below, and the swap.

`SsTable` works in bytes and offsets, so that block boundaries fall where the code puts them.
A checksum is what it was taken of. Between `finish` and `open` one field of the file may change
(`Damage`): a field of the footer or its padding, a block header, a record, an index entry or
the key length in it, bits of the filter or its header; `open` (footer, filter, index) and
`lookup_in_block` make the checks of the code. The padding of the footer is under no checksum,
and neither are index and filter: a wrong key length makes the index unreadable, a wrong filter
header is refused by `Bloom::from_bytes`, and any other damage there can hide an entry but not
produce a wrong one. `Install` drives the file through the job: `sync_all`, `rename`, `open`,
removal of `wal.flush`, with any call failing; `stable` is what of the content is on the device.

`Bloom` keeps the code's arithmetic with the word size, block size and hash range as
constants; a word is the set of its bits. `SubsetAvx2` is the comparison of 256-bit registers
lane by lane next to the scalar one of `MayContain`.

## 3. Runs

| Run | Question | Bounds | Result |
|---|---|---|---|
| `recovery` | what writes may change for a get, current answers, flush and handoff, order of layers, fresh numbers, immutable files, the empty slot, `IInv`, with an I/O error and a crash anywhere, recovery included | 1 key, 2 threads that write, read and flush, 2 writes, a put and a delete in turn, 1 crash, 1 fault | holds |
| `single` | durability, refinement of `StateStore`, flags and log of the flush, liveness with one thread that writes and flushes | 1 key, a second thread that reads, 3 writes, 1 crash outside the rewrite of the log | holds |
| `lost_write` | durability with a second thread | 1 writer, 1 flusher, no crash, no fault | violated |
| `lost_recovery` | durability with a crash during recovery | 1 thread, 2 crashes | violated |
| `refused_open` | a directory with acknowledged writes opens after a crash | 1 thread, 1 crash, no fault | violated |
| `stuck_flush` | flush returns after a failed job | 1 thread, 1 fault | violated |
| `wal` | recovery of the log from torn frames, refinement of `RecordLog` | frames of 1, 2, 2, 3 pages and one too large, 2 crashes, 2 failed appends | holds |
| `torn_tail` | a torn page ends the log | a one-page and a three-page record | violated |
| `memtable` | concurrent applies, gets through the layers and swaps | 2 keys, 2 writers, 1 reader, 3 records | holds |
| `stale_read` | a get never answers with a value overwritten before it began | 1 key, 1 writer, 1 reader, 3 records | violated |
| `sstable` | every table, every lookup, every damaged field, what `open` refuses, the worker's job | up to 4 entries of two sizes, up to 4 blocks, two false positives, one damaged field | holds |
| `bloom` | no false negatives, layout, sizes, AVX2 against scalar | 8 hash pairs, words of 4 bits, blocks of 2 words, up to 3 blocks | holds |

Why the bounds are enough. Keys of the engine never interact (every table is a function of
the key, and all conditions are per key or "is the table empty"), so one key shows the
orders of a write against the other steps. Two writes give an entry in each of two layers
(`recovery`); three (`single`) give active, frozen and an SSTable an entry of the same key. In
`recovery` the parity of its number says whether a record is a put or a delete
(`PutsAndDeletesInTurn`): both kinds meet in every layer, and no step of `Engine` treats them
differently (`IsHit` and `Supersedes` are all it asks of a record); the other runs take both
kinds for every write. One crash is followed by a full recovery and further service; the second
one of `lost_recovery` hits that recovery. Two threads that do everything are the smallest
number that can both pass `wait_flush`, race a put against a rotation and read over both. For
the log, two faults and two crashes leave leftovers of two different frames behind the end. In
`sstable` two small records fill a block exactly and a large one does not fit into any; four
entries give two full blocks, or four of one record; damage is tried on tables whose entries
have the same number (`DamageBound`), since no check looks at numbers. The
theorems of section 5 hold without these bounds.

`CHECK_DEADLOCK FALSE` is said for `Wal`, `ReadPath`, `Install` and `Bloom`: their calls are
bounded, and a refused open stops. `Engine` is checked for deadlock: an idle engine can
always close and open again.

### Fairness

`FairSpec` makes a started call, the worker and a started open weakly fair: threads are
scheduled. `SchedSwap`, `SchedSkip` and `WorkerInstall` are strongly fair: they need the
write lock, which is free again and again but not for ever while threads read, and the
`RwLock` of the standard library lets no new reader in past a waiting writer. No call has to
begin and nothing has to fail or crash. `ReadPath` makes a begun `apply`, and `Install` a begun
search, weakly fair.

### Disagreements with the documentation

* **`lost_write`.** `schedule_flush` releases the snapshot lock before `rotate_wal`
  (`engine.rs:424-425`). A put in between goes to the old log and the new table; the old log
  is deleted with the flush, and the acknowledged write is only in memory.
* **`lost_recovery`.** `recover_wals` deletes both logs before it rewrites their records
  (`engine.rs:596-598`).
* **`stuck_flush`.** A failed job or rotation leaves the frozen table without a job; no call
  makes a new one, and `flush` spins (`engine.rs:414`, `390-403`).
* **`torn_tail`.** `read_one` checks a frame's size before its checksum (`wal.rs:547`), so a
  leftover page can make `open` fail where the comments promise the end of the log.
* **`stale_read`.** `compare_insert` removes the old entry before it inserts the new one
  (`memtable.rs:339`). A get in between goes on to older layers and answers with a value
  whose overwriting or deletion was acknowledged before the get began.
* **`refused_open`.** `rotate_wal` renames the log and then creates a new one, whose file exists
  before its header page (`engine.rs:494-495`, `wal.rs:253-261`). After a crash in between every
  `open` fails at the empty `wal`, and the complete `wal.flush` beside it is never replayed.

These restrict what the passing runs say. `Durable` and `ImplementsStore` hold in `single`, whose
bounds leave out the two ways to lose a write. `InFlightTracksJob` and `RotatedLogKept` are
checked there too, where one thread flushes and one job is under way at a time. With two, in
the same model, the worker's report clears `in_flight` for the other's job (`engine.rs:532`),
and the worker's late look for `wal.flush` finds the next job's log (`engine.rs:556`); no
property of a passing run covers these two hazards.

A rotation that loses that race, or any of whose calls fails, leaves the slot empty
(`engine.rs:491`). This is what the code does, with two flushers and in `recovery`;
`EmptySlotStuck` says that it is the only way the slot gets empty, and that the frozen table then
has no job and nobody to make one, so that only a restart helps.

Two moments of an overwrite are excused by name in the properties of `recovery`, since the code
has them: a get that looks then may answer with what lies below (`GetCurrent`, the run
`stale_read`), and a flush that looks when the only entry of the active table is being
overwritten takes the table for empty and returns Ok, with the newest record in memory and in the
log only (`FlushLeavesOnDisk`; `engine.rs:393-396`, `memtable.rs:255-257`).

## 4. What is only model-checked

Liveness: `FlushReturns`, `FrozenDrains`, `OpenFinishes`, `ApplyReturns` and `GetReturns` hold
under fairness, and the prover handles neither leads-to under fairness nor `ENABLED`. Every
invariant, every action property and both refinements of the passing runs are proved.

The inductive invariants other than `IInv` (`DurableInv`, `WalInv`, `PathInv`, `InstallInv`) are no
properties of the runs, since the theorems contain them; TLC checked each on the instance of
`single`, `wal`, `memtable` or `sstable` before it was proved.

## 5. Proofs

`EngineProofs` proves, for every set of keys and threads and every bound, `Spec => []IInv`
(`InvHolds`) and from it type correctness, `NewestFirst`, `FreshSeq`, `SstImmutable`,
`FrozenHandoff` and `EmptySlotStuck`. The assumptions are the two of `Engine`: `None` is neither a key nor a
thread, and the bounds are numbers.

What the theorems take for granted:

| Theorems | Hypothesis | Why |
|---|---|---|
| `EngineProofs`, `ReadProofs` | none | |
| `InFlightTracksJobHolds`, `RotatedLogKeptHolds` | `OneFlusher` | false with two, see above |
| `DurableHolds`, `ImplementsStoreHolds` | `SoleClient` | runs `lost_write` and `lost_recovery` are the two counterexamples without it |
| `WalProofs`, `PathProofs`, `BloomProofs`, `InstallProofs` | none | |

`SoleClient` says that at most one thread writes and flushes and that no crash falls into the
rewrite of the log at an open; readers, failed calls and any number of other crashes are covered.
The constants of each module are only assumed to be what their names say: numbers, finite sets
where the code sums over them, at least one key.

### The engine

`NewestFirst` is not inductive. A swap puts the active table over the frozen one, an
installation puts a table over the SSTables, and a recovery rebuilds the active table from
files; that this keeps the order depends on where everything else is. `IInv` adds:

* `InvLocks`, `InvQuiet`, `InvSlot`: who holds which lock at which step, and that nothing runs
  in a process that does not serve;
* `InvOwner`: the frozen table has at most one owner, a thread between swap and send, the
  channel, or the worker, who carries exactly that table under an id above all published ones;
* `InvLayers`: active over frozen over the published files by id;
* `InvWal`, `InvFlushWal`: the log in use holds nothing older than any layer, and the rotated
  log nothing older than a published file (or than the frozen table, once rotated), so that a
  replay of both, in that order, is again above all files;
* `InvEmptySlot`: the slot is filled, or a rotation is under way, or the frozen table is abandoned.
  A rotation that ends early has emptied the slot, and its thread was the only owner of the
  frozen table (`EmptySlotOfThread`). `EmptySlotStuck` is its consequence;
* `InvFresh`, `InvInWrite`: all numbers are below the counter, and a write between its append
  and its application is the newest for its key everywhere.

The proof has one lemma per conjunct (`LocksStep`, `QuietStep`, ...), each with one step per
action that can disturb it; `DataFrame` and `ThreadFrame` say once what the other actions
leave alone. TLC checks `IInv` in the run `recovery`.

`ReadProofs` goes on from `IInv` to what a client sees, again for all constants:

* `VisibleKept`: a swap and an installation change no lookup (`SwapKeeps`, `InstallKeeps`), the
  first step of an overwrite shows what lies below (`RemoveShows`), the second changes the lookup
  of its key to the acknowledged entry (`ApplyShows`, where `InvInWrite` says that nothing newer
  can be in the way), and no other step touches the snapshot (`SnapStep`). It is about steps of
  one process; that a restart keeps what was acknowledged is `Durable`.
* `GetCurrent`: what a lookup finds, or has just been hidden by a newer record, only gets newer
  while the process serves (`SettledStep`), what lies below the active table does too
  (`BelowGrows`), and it stays while anybody holds the read lock (`ReadLockHolds`). The
  strengthening `GetInv` says, at each step of a get, that what it may still answer is not
  older than what was visible at its call, or that it has met its key hidden.
* `FlushLeavesOnDisk`: the strengthening `FlushInv` carries "still visible, or newer, or hidden"
  through the loop of `flush` to the check that finds nothing active and nothing frozen, where
  everything visible is in an SSTable (`NothingLeft`); `SstImmutable` keeps it there.

### Durability and the flush

`DurableInv` adds to `IInv` where the copies of a record are.

* `InvNumbers`, for every client: a sequence number belongs to one record, whatever copies of it are
  around (`InvUnique`); the leftover of a failed append is newer than what the log has (`InvTails`);
  a write under the mutex is in the log (`InvWriting`). Without the first, "at least as new" would
  not mean "the same or newer".
* `InvSerial`, with one flusher: from its wait to its send the channel is empty and the worker idle,
  so the worker's late look for `wal.flush` meets no other job. `InFlightTracksJob` and
  `RotatedLogKept` follow.
* `InvKept`, with one client: the active table is in `wal`, the frozen one in `wal`, in `wal.flush` or in
  a published SSTable depending on how far rotation and job are, and an open that has read the
  files loses nothing of what it found while it rewrites them (`AckedOnDisk`). A get finds exactly
  what was acknowledged, but for the key of an overwrite between its steps (`Shown`). `Durable` is
  a consequence.

`ImplementsStoreHolds` maps the store to what was acknowledged, and what it shows to what a get
finds through the layers while the engine serves. The two steps of an overwrite are the steps
`Hide` and `Write` of `StateStore` (`RemoveIsHide`, `ApplyIsWrite`); a crash and an open are its
`Stop` and `Start` because what is on disk reaches what was acknowledged (`OpenFindsAll`).

### The log

`AckedKept` and `OffsetExact` speak of what a replay computes. `WalInv` says instead where the frames
lie: `LaidOut`, the acknowledged ones without a gap from the first page on; `Remains`, behind them only
pages of frames that began no later than where the next will begin, so no leftover can be taken
for a later frame; `Written`, `Scanned`, how far an append or a scan is. `ReplayOfFrames` then
computes the replay of such a file: `ReplayFrom` is unfolded step by step with `AllNumbers`, which states
induction with a set in the place of a predicate and so needs no operator as a parameter.
`LoadedFacts` and `ReadIntoFacts` show that the buffer that grows between two reads still holds
the whole frame. `ImplementsRecordLogHolds` maps the records a replay would find beyond the
acknowledged ones to the tail of `RecordLog`.

### The MemTable and the lookup

An apply removes the entry it replaces before it inserts its own, so no invariant can say that the
newest entry is in the map. `PathInv` says that whatever is removed is owed: some apply of the key with a number at
least as large has not inserted yet (`Covered`). With `InvOrigin` (an entry in the map is that of an apply
about to return, or no newer than the newest that returned) this gives `NewestWins` when nobody is left
who owes anything. `GetsRight` carries the number known at the call through a get. For `SizeExact`,
`InvSize` counts, for a key that is being applied, the size that the apply has read; the sum over the
keys is unfolded by `AllNumbers` again (`TotalChanges`). `InvBytes` bounds the counter when applies race.

### The table file

`InstallInv` is about the blocks as they were written (`Orig`): a damaged header leaves the records, a
damaged payload leaves the checksum, and a block whose checksum is right has both (`BlockPassed`),
which is all that `HitGenuine` needs. `InvLayout` places the blocks and ties the index to them,
`InvOrder` and `InvFlat` say which records they hold, in which order, `InvWriter` and `InvFooter` what the
counters and the footer have of them, `InvGet` how far binary search and scan have come. A miss
is right because the first keys split the records (`NotInBlock`, `BeforeFirst`); an intact file is never reported
as corrupt, because every block lies inside it and no two start at one offset (`SoundBlock`, `OffsOnce`).
The lengths of the records and the concatenation of the blocks are folds, unfolded as above
(`LenFacts`, `FlattenFacts`). For `SoundOpens`, `InvFooter` says that
the footer, the header of the filter and the lengths in the index are as `finish` wrote them
except where they are the damaged part. `InvDir` follows the name, the log and the synced content
through the job, where `DecodedIsAdded` says what the sync has put on the device.

### The Bloom filter

`BloomProofs` proves that every probe bit of every inserted key is set, in memory or in the
serialised bytes (`BloomInvariant`), hence `NoFalseNegatives` and `TypeOK`, and that `from_bytes` accepts what
`to_bytes` wrote (`NeverRefused`), for every set of hash pairs, word size and block size. A second
invariant (`EInv`: every bit that is set was set for an inserted key) gives `OnlyCollisions`,
because a word of the bitmap and a bit of it determine block and probe (`PlaceIsUnique`).
`SimdAgrees` follows from the type invariant: the lanes cover the mask (`LaneOfBit`), so
comparing all of them compares the sets (`LanesTellSubset`).

## 6. Not modelled

* Directory changes that reach the device out of order. The code does not sync the directory after
  the rename (`engine.rs:549`), so a power loss may undo the rename and keep the removal of
  `wal.flush`; whether it can depends on the file system, and no property here says that it
  cannot. `PublishedIsWhole` is about the content of the file and about the order of the calls.
  `Engine` keeps completed system calls in their order. That an `O_SYNC` write to a new `wal`
  also makes its name durable is taken for granted in the same way.
* Two engines on one directory: the code has no lock file and relies on its caller.
* `.sst.tmp` files left by failed jobs: `list_sst_files` ignores them.
* Lock poisoning (a panic while a lock is held) and failing allocations.
* The overflow of `next_seq`: `MaxSeq` bounds the writes.
* Damage to the length fields of records, which the checksum of the block covers. Behind a wrong
  key length of the index `parse_index` reads lengths out of other bytes; that they happen to add
  up to the end of the index, with the right number of entries, is left out like a collision of a
  checksum. The magic and the version of the footer are checked beside its checksum and are not
  told apart from it.
* A get of the empty key, which is refused before anything is looked at.
* The bytes of frames, headers and footer (a page or a field is modelled by what it was
  written for, a checksum by what it was taken of), `hash2`, read-only queries, `error.rs`, the
  CLI, benchmarks and examples.

## 7. Plan

Done, in this order: `Engine` with recovery, its invariant and theorems; `Wal` under it;
`MemTable`; `SsTable`; `Bloom` and its theorems; `ReadPath`, the composition of lookups with the
steps of an apply; damage and codecs in `SsTable`, and `Install` with power loss; buffers and
alignment in `Wal`; the theorems on durability and the refinement of `StateStore`, on the log, the
MemTable and the table file. Next are theorems about the links between the modules: that `RecordLog`
gives the table with a tail that `Engine` takes a log for, and that the guarantees of one table
(`NewestWins`, `GetExact`) are what `WriteApply` and `Lookup` of `Engine` use, and a model of a
file system that reorders directory changes.
