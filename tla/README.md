# LevelDB 1.15.0 in TLA+

This directory holds TLA+ models of LevelDB (`src/leveldb-1.15.0`), the TLC
configurations that check them, and proofs checked by TLAPS. The repository
also holds ten other programs (FastDFS, memcached, nginx, Tengine, OceanBase,
Redis, smartc, spserver, tb-common-utils, TFS). They share neither code nor
state with LevelDB and are not modelled.

All paths below are relative to `src/leveldb-1.15.0`.

## The system

| Part | Code | State | Operations | What makes it hard |
|---|---|---|---|---|
| Write path | `db/db_impl.cc`, `db/write_batch.cc` | writer queue, log, `mem_`, `imm_`, last sequence number, `bg_error_` | `Write`, `MakeRoomForWrite`, `BuildBatchGroup` | the leader logs and fills the memtable without the mutex; one status is handed to a whole group; writers stall on the background thread |
| Background work | `db/db_impl.cc` | `bg_compaction_scheduled_`, `manual_compaction_`, waiters on `bg_cv_` | `MaybeScheduleCompaction`, `BackgroundCall`, `CompactMemTable`, `DoCompactionWork`, `TEST_CompactRange`, closing | the mutex is given up in the middle of every operation; flushes nest in compactions |
| Files and versions | `db/version_set.cc`, `db/db_impl.cc`, `db/builder.cc`, `db/filename.cc` | logs, tables, MANIFESTs, CURRENT, file numbers, `pending_outputs_` | `LogAndApply`, `DeleteObsoleteFiles`, `NewDB`, `Recover`, `RecoverLogFile` | crashes between any two steps; writes of which it is not known whether they happened |
| Log format | `db/log_writer.cc`, `db/log_reader.cc` | blocks of physical records | `AddRecord`, `ReadRecord` | failed appends, cut files, damaged bytes, resynchronisation |
| Levels and reads | `db/version_set.cc`, `db/memtable.cc`, `db/snapshot.h`, `db/dbformat.cc` | tables per level, snapshots | `PickCompaction`, `SetupOtherInputs`, `CompactRange`, `PickLevelForMemTableOutput`, the merge loop, `Version::Get` | which versions of a key may be dropped, and where the newest is found |
| Iterators | `db/db_iter.cc`, `table/merger.cc`, `table/two_level_iterator.cc` | position, direction | `Seek`, `Next`, `Prev` | change of direction |
| Caches | `util/cache.cc`, `db/table_cache.cc` | reference counts, hash table, LRU list | `Insert`, `Lookup`, `Release`, `Erase` | eviction of entries in use |
| Memtable | `db/skiplist.h`, `db/memtable.cc` | linked nodes | `Insert`, lock-free reads | a node is published level by level while readers walk the list |
| Environment | `util/env_posix.cc` | background queue, files | `Schedule`, file calls | failures |

The parts meet in `DBImpl`: a writer fills the memtable, the full memtable
becomes immutable, the background thread turns it into a table and installs a
new version through the MANIFEST, obsolete logs and tables are deleted, and
compactions push tables down the levels. `DB::Open` rebuilds all of it from
CURRENT, the MANIFEST and the logs.

## Modules

Each module looks at the same system from one side. What one of them
establishes, another assumes: `SkipList` has one inserting thread because of
`LeaderIsFront` in `DBWrite`, `DBFiles` reads whole records because of
`LogFormat`, `TableCache` opens only files that `DBFiles` keeps
(`LiveFilesExist`), and `Iterators` walks a memtable that `SkipList` shows to
be complete and sorted.

**`DBWrite`** is the concurrency. Client threads and one background thread
share `mutex_`; an action is the code between two points where the mutex is
given up (`Unlock`, or a wait), or one I/O call made without it. `pc[c]` says
where client `c` is in `Write`, `TEST_CompactMemTable` or `TEST_CompactRange`;
`bg` is the background thread's position. `sig` and `bgCv` are the condition
variables, with spurious wake-ups. A batch is one entry with an identity and a
sequence number; a memtable is a set of entries; level 0 is a number of files.
The actions `RoomError`, `RoomDelay`, `RoomWait`, `RoomSwitch` and `RoomBuild`
are the branches of the loop of `MakeRoomForWrite`, in its order: each one's
guard negates the earlier ones.

**`DBFiles`** is the disk. There is one writer at a time, which `DBWrite`
justifies (`LeaderIsFront`), and the background thread. Logs, tables and
MANIFESTs are functions from file numbers to contents, with the part that has
been synced; a crash keeps the synced part and any prefix of the rest, and
resets the process. `LogAndApply` is four steps (append, sync, CURRENT,
install), each of which can fail. Tables are sets of writes; what happens to
old versions of a key is left to the next module.

**`Compaction`** is the data. Tables are sets of versioned keys in levels.
Memtables are flushed, also in the middle of a compaction; compactions are
picked by size, by seeks or by hand; snapshots come and go. Where the code
compares byte counts with a limit, both outcomes in `TooLarge` are possible,
and a table may be cut after any entry. `Get` follows `DBImpl::Get` and
`Version::Get` with the search by largest key.

**`DurableStore`** is the abstract specification: a set of data, the part of it
that is safe from crashes, and what has been acknowledged. `DBFiles` implements
it, with `data` what a restart would recover now and `safe` what every crash
leaves.

**`SkipList`** is the memtable in memory. A node is named by its sequence
number. Every load and store of a link that another thread can see is a step:
the writer (`wr`) searches, raises `max_height_`, and links the node from the
lowest level up with one step for the relaxed store into the node and one for
the publication; a reader (`rd[r]`) goes on link by link in `Seek`,
`SeekToLast` and `Prev`. A reader may see any earlier `max_height_`, which the
code stores without a barrier. Memory that was not initialised holds `Junk`.
`published` marks a lookup at a sequence number that was published when it
began, as `MemTable::Get` makes.

**`TableCache`** is one shard of the LRU cache under `FindTable`, `Evict` and
`DeleteObsoleteFiles`. Operations of the cache hold its mutex and are steps;
opening a table between a miss and `Insert` is not. The hash table is modelled
with its chains, `FindPointer` and `Resize`, since a lookup must find what an
insertion put in before the table grew.

**`Iterators`** is `DBIter` over `MergingIterator` over the iterators of the
memtable and of the tables, each a two-level iterator over an index block and
data blocks with restart points. The writer may insert into the memtable
between any two movements of the memtable's iterator, also within one call of
`DBIter`; a movement in a table, which never changes, is a function. The
reference is `pos`, a cursor over the sorted live keys of the snapshot.

**`LogFormat`** is `log::Writer` and `log::Reader` over a file of bytes. Every
physical record, trailer, and read of a block is a step. A read may fail after
part of a block, and so may the skip to the initial block. A byte is known by the
physical record it belongs to, so a checksum is right exactly when all of the
record's bytes are there.

`MCDBWrite`, `MCDBFiles`, `MCCompaction`, `MCSkipList`, `MCTableCache`,
`MCIterators` and `MCLogFormat` instantiate the models for TLC.
`DBWriteProofs`, `DBFilesCore`, `DBFilesProofs`, `DBFilesNumbers`, `DBFilesData`,
`DBFilesStore`, `SkipListProofs` and `LogFormatProofs` hold the proofs.

Definitions whose comment begins with "Mutant" are faulty variants of the
definition they precede. No specification uses them; each property has one
that breaks it, so the properties are known to depend on the code they are
about.

## Runs that pass

Each is `tlc -config <cfg> <module>`.

| Run | Configuration | Question |
|---|---|---|
| commit | `MCDBWrite_commit.cfg` | Three clients, three calls, sync or not, every I/O call may fail: one leader (`LeaderIsFront`), truthful answers (`ExactlyOnce`), durable sync writes (`SyncedIsDurable`), no lost wake-up (`NoLostSignal`, `NoOrphanWaiter`), stable snapshots (`SnapshotStable`) |
| live | `MCDBWrite_live.cfg` | Under fairness every write, `CompactRange` and close returns (`CallsReturn`), also after a failed sync |
| crash | `MCDBFiles_crash.cfg` | Two crashes anywhere, also during recovery, with failed syncs, table builds and MANIFEST writes: the database opens (`Openable`), keeps sync writes (`SyncedSurvives`), shows what survived (`VisibleIsRecoverable`, `ReadsSeeAcked`), uses no sequence number twice (`SequenceUnique`), and implements `DurableStore` (`StoreSpec`) |
| degraded | `MCDBFiles_degraded.cfg` | All faults from an empty directory, with a reader: no file in use is deleted (`LiveFilesExist`), sequence numbers are unique, and the database opens unless the MANIFEST is empty or has a torn edit (`OpenableIfWhole`) |
| levels | `MCCompaction_levels.cfg` | Reads at the latest state and at held snapshots are exact (`ReadsCorrect`), levels are disjoint (`LevelsDisjoint`), newer versions are above older ones (`NewerAbove`) |
| memtable | `MCSkipList_memtable.cfg` | No thread follows an uninitialised link (`TypeOK`), no entry that was there is skipped (`NoneSkipped`), a lookup at a published number is exact (`SnapshotRead`) |
| cache | `MCTableCache_cache.cfg` | References count the holders and nothing leaks (`RefsExact`), hash table and list agree (`TableMatchesList`), `usage_` is exact and bounded (`UsageExact`), a deleted table is not in use (`NoDeletedTable`) |
| iterators | `MCIterators_iterators.cfg` | After any calls in either direction, with writes in between, an iterator with status OK is where a cursor would be (`CursorCorrect`); `Positioned` is what `DBIter`'s comment on `Direction` says |
| log | `MCLogFormat_log.cfg` | A reader returns exactly the whole records (`WholeRecordsRead`), damage costs only its own block (`DamageContained`), fragments of different records are never joined (`NeverGlued`), the initial offset is skipped to once (`SkippedOnce`), the reader ends (`ReaderEnds`) |

### Bounds

In `DBWrite` a write buffer of one entry and level-0 thresholds of one make
every write meet the full memtable, the delay, the stop limit and a compaction.
Three clients are the fewest for a leader, a member of its group and the next
leader. `MaxDeep` and `MaxPasses` bound the compactions below level 0 and the
passes of a manual compaction; `MaxCalls` bounds calls of all kinds.

In `DBFiles` two writes can be in two logs, in a log and a table, or in two
tables that a compaction merges. Every flush and every recovery takes a file
number, so `MaxFile` bounds them: nine numbers let the database be opened,
flush twice, compact, crash and recover twice in part. `MaxEdits` stops endless
trivial moves: no file is moved once a MANIFEST has that many edits. Log files and MANIFESTs fit into one 32KB block.

In `Compaction` an instance begins by choosing a load. One load has two keys,
two snapshots and manual compactions; the other has three keys and compactions
that write two tables, so that an output can be cut between keys and a file
can lie beside another. Four levels let a table be flushed to level 2 and still
have a level below it. `gap` and `split` are the loads `levels` leaves out.

In `SkipList` three entries of two keys in batches of up to two, with three
levels and one reader, show a reader at every level of a node that is half
linked, versions of a key, and a batch that is half in; the proofs cover any
number of entries, levels and readers. In `TableCache` all three tables collide
in the first hash table, two still do after it has grown, and one counts twice,
so an insertion may have to evict two entries or cannot evict enough; three
threads let two of them open the same table while the third holds it. Threads
differ only by name, hence the symmetry. In `Iterators` three entries are
spread over memtable and tables in every way and cut into blocks in every way,
a fourth is written while the iterator is in use, and one block may be
unreadable. In `LogFormat` blocks have 15 bytes, 8 more than a header: record
sizes are chosen for empty records, trailers of each kind, an exact fit and
records over three blocks. One fault may happen; two faults were checked once
with sizes 1 and 18 and tails 0 and 3.

`CHECK_DEADLOCK FALSE` is set where the bounds let the system stop (`DBFiles`,
`Compaction`, `TableCache`, `LogFormat`). Elsewhere deadlock is checked; in
`DBWrite` the only states without a further step are a closed database and a
process that has crashed, which stutter.

### Fairness

`live` assumes strong fairness of each client thread, of the background thread,
and of the end of a compaction's input loop. Strong, because
a thread that finds the mutex taken now and free later gets it in the end,
while other threads may take it in between: this is what a mutex of the
operating system gives in practice and the code relies on. The loop over a
finite input ends however often it stops to flush memtables. New calls and
spurious wake-ups are not fair. `LogFormat` assumes weak fairness of the
reader's steps alone: `ReadRecord` runs in one thread and does not wait.

## Runs that find a disagreement

Each checks one statement of the documentation, a comment or a test, and TLC
shows how the code departs from it.

| Run | Configuration | What happens |
|---|---|---|
| recover | `MCDBFiles_recover.cfg` | An error in recovering one log is overwritten by the next log's success, and acknowledged sync writes are lost |
| split | `MCCompaction_split.cfg` | Versions of one key are split over two files of a level, of which the one with the newer version moves down |
| gap | `MCCompaction_gap.cfg` | A memtable flushed during a manual compaction lands in a gap between the input files, at the level the compaction writes to, and the output overlaps it: debug builds abort at `version_set.cc:747`, others may miss the flushed key. The inputs of an automatic compaction leave no gap |

Three more departures appear when a constant of a passing configuration is
changed and the named property is checked by itself, so the passing runs leave
these cases out. `degraded` has all three, and checks that the first two are the
only ways in which a database becomes impossible to open (`OpenableIfWhole`):

* `MCDBFiles_crash.cfg` with `Created = FALSE` violates `Openable`: `NewDB`
  (`db_impl.cc:176-207`) closes the first MANIFEST without a sync before
  CURRENT, which is synced, names it.
* `MCDBFiles_crash.cfg` with `"torn"` added to `Faults` violates `Openable`:
  the log reader reports a partial record at the end of the MANIFEST and
  `VersionSet::Recover` turns any report into an error (`version_set.cc:914`).
* `MCDBFiles_crash.cfg` with `"append"` added to `Faults` violates
  `SyncedSurvives`: a failed append sets no background error
  (`db_impl.cc:1192`), later sync writes follow in the same block, and the
  reader drops the rest of a block after a torn record.

For the same reason `crash` has no `"recover"` fault, and `levels` makes no
manual compactions over three keys (`gap`) and writes one table per compaction
when snapshots are held (`split`).

The models show five more things that no property states as a promise:

* A failed log sync makes `TEST_CompactRange` leave its loop and clear
  `manual_compaction_` (`db_impl.cc:584-587`) while its compaction runs; the
  background thread then reads it again (`db_impl.cc:726`) and follows a NULL
  pointer. `DBWrite` has this as `bg.pc = "crashed"`, and `CallsReturn` speaks
  of the processes to which it does not happen.
* A sync write makes only the current log durable. Earlier unsynced writes may
  be in the previous log, so the scheme of `doc/index.html:127-131`, where
  every Nth write is a sync write, can keep that write and lose some of those
  before it.
* A writer with a NULL batch that is absorbed into another writer's group
  (`db_impl.cc:1263`) flushes nothing.
* `log::Writer` ignores whether the zeros at the end of a block could be
  written (`log_writer.cc:44`) and counts a failed append as written
  (`log_writer.cc:98`), so after a failure its idea of the block boundaries is
  wrong. `NeverGlued` and `ReaderEnds` hold all the same; records may be lost.
* `LastRecordOffset` of a record that is the first of its block, after a
  trailer, is the position of the trailer (`log_reader.cc:75`).

## Proofs

`tlapm` checks the modules below, from the assumptions on the constants that
the modules state and TLC evaluates:

* `DBWrite`: the background thread is not a client, the bounds are natural
  numbers, and the compaction trigger is not above the stop limit. Any clients,
  calls, thresholds and faults.
* `DBFiles`: the bounds are natural numbers, and there is room for one file.
  Any readers, writes, files, edits and crashes.
* `SkipList`: any keys, readers, heights and sizes.
* `LogFormat`: a block is larger than a header. Any block size, record sizes,
  offsets and number of faults.

`DBWriteProofs`, whose theorems are at its end. The inductive invariants are
`TInv` and, with the answers, `AInv` (`TInv`, `SigInv`, `DurInv`):

* `TypeCorrect`: `Spec => []TypeOK`.
* `OneLeader`: `Spec => []LeaderIsFront`. It is not inductive: a waiter becomes
  the leader when it wakes up at the front of the queue, so `QueueInv` adds
  that a waiter without an answer is still queued, that the leader's group ends
  inside the queue, and that waiters have no group. `InputsInv` (a compaction
  has no more level-0 inputs than there are files, although flushes come in
  between) is needed for the type of `l0`. `TInv` is the conjunction of these
  with `Counting`, a constant formula about sizes of sets of positions in the
  queue, which `CountingHolds` proves.
* `WaitersAreWoken`: `Spec => []NoOrphanWaiter`. `SchedInv` adds that pending
  work means a scheduled background call unless the database is broken or
  closing, that a running one is scheduled, and that nobody but the closing
  thread is active while closing.
* `SnapshotsAreStable`: `Spec => SnapshotStable`, an action property. `SnapInv`
  adds that the entries a leader has still to insert are newer than the
  published number and that a NULL `imm_` is empty.
* `FrontIsAwake`: `Spec => []NoLostSignal`. `SigInv` adds that nobody is queued
  twice and that who is queued leads or waits without an answer, so the one a
  leader signals when it leaves is the new front.
* `SyncWritesDurable`: `Spec => []SyncedIsDurable`. `DurInv` follows the
  group: `Formed` (a group with a sync writer has a sync leader, and its updates
  hold every member's entry), `Recorded` (what is being synced is the last
  record of the current log), `Promised` and `Told` (a status that is OK but
  not yet returned is already true).
* `AnswersAreTrue`: `Spec => []ExactlyOnce`, by the inductive invariant `OInv`
  (`AInv`, `OnceInv`). `OnceInv` follows an entry from the call to the answer.
  Identities are handed out once (`IdsInv`), a queued writer has nothing in the
  database (`Pending`), once the group has numbers an entry is in exactly one
  place, among the leader's updates or in the database (`Numbered`), and a
  completed writer's status is true before it wakes up (`Completed`).

`DBFilesCore` and `DBFilesProofs`, with the inductive invariant `FInv` of the
files:

* `TypeCorrect`: `Spec => []TypeOK`. The type of an edit (`Edits`) says that its
  next file number is above its log number. A recovery relies on it: it takes
  the next number from the MANIFEST alone, overwriting what
  `MarkFileNumberUsed(log_number)` did (`version_set.cc:1006`, `1016`), and the
  new log must come after the recorded one (`LogOrder`).
* `FilesKept`: `Spec => []LiveFilesExist`, with every fault and from an empty
  directory. A table must be there not only when a version in memory needs it
  but also when a recovery of any prefix of the MANIFEST that a crash may leave
  would need it (`TablesInv`, over `ManifestLengths`), since such a recovery
  makes it live again. A table being written is in `pending_outputs_` and has a
  number below every one that will be handed out; no prefix of the MANIFEST, and
  no edit on its way there, holds a next file number above the one that the
  process hands out next (`RecoveryInv`, `EditInv`); and while nothing has failed the MANIFEST tells exactly what the current version is
  (`ExactInv`), which is why `DeleteObsoleteFiles` may trust it.
* `WholeManifestOpens`: `Spec => []OpenableIfWhole`, with every fault and from an
  empty directory. A new MANIFEST begins with a snapshot that has no next file
  number, without which `VersionSet::Recover` refuses it, so `Numbered` says that
  no crash leaves the snapshot alone: what is left ends with an edit that has
  the number.
* `AlwaysOpenable`: `Spec => []Openable`, if the database was created completely
  (`Created`) and no edit is torn. The departures above show that neither can be
  left out. `Good` adds to the above that the MANIFEST is never empty and that
  every edit of it is whole.

`DBFilesNumbers`, with the inductive invariant `SeqInv` on top of `FInv`:

* `NumbersUnique`: `Spec => []SequenceUnique`, with every fault and any number of
  crashes. `Distinct` says that of all writes in the memtables, in tables that
  are used and in readable log records no two have the same number; a new write
  keeps it because an open database holds no number above `LastSequence` but
  that of the write being logged (`OpenSeq`). A restart must find the same
  bound again: the number in an edit is not below those in its tables and in
  the logs it makes obsolete (`ManifestSeq`, for every prefix of the MANIFEST a
  crash may leave, and `EditSeq` for the edit on its way there), and what a
  recovery has not yet counted is in a log it will still read (`RecoverSeq`).

`DBFilesData` and `DBFilesStore`, with the inductive invariant `DInv` of the data
on top of `FInv`. All the theorems are about databases that were created
completely, whose log appends do not fail half-way, whose edits are not torn
and whose recoveries do not fail to build a table (`NoLoss`); syncs, flushes,
compactions and writes of the MANIFEST, also those of a recovery, may fail, and
crashes may come at any time. `recover` and the departures listed with it are
counterexamples without these conditions.

* `SyncedWritesSurvive`: `Spec => []SyncedSurvives`.
* `ReadsAreRecoverable`: `Spec => []VisibleIsRecoverable`.
* `AckedIsRead`: `Spec => []ReadsSeeAcked`.
* `ImplementsStore`: `Spec => StoreSpec`, the refinement of `DurableStore`: the
  data of the store is what a recovery of the whole MANIFEST and the logs finds
  (`InData`), the safe part is what a recovery of every prefix finds in tables
  and synced records (`InSafe`).
* `DatabaseKeepsAcked`: an acknowledged write that no crash has lost is in the
  logs and tables that the next recovery reads, and no crash loses one that was
  synced. It follows from the refinement and `StoreKeepsAcked`, a lemma about
  `DurableStore`.

  The argument: what a flush takes from the logs is in the table its edit adds
  before the edit moves the log number (`WorkInv`), the logs from the recorded
  number on hold the memtables (`MemInv`), all prefixes of the MANIFEST lead to
  the same data while a new edit may or may not be on disk (`OpenInv`), and a
  recovery has moved the logs it is done with to tables (`ClosedInv`).

`SkipListProofs`, with the inductive invariant `IInv`:

* `LinksInitialised`: `Spec => []TypeOK`, which for this module says that no
  thread stands at the value of an uninitialised link.
* `IteratorsComplete`: `Spec => []NoneSkipped`.
* `GetAtSnapshot`: `Spec => []SnapshotRead`.

  `At(m, i)` is what a thread may rely on when it stands at node `m` on level
  `i`. From there links lead to later nodes of the level (`Sorted`), a node on a
  level is on all levels below (`Nested`), and no inserted node is jumped over on
  level 0 (`Adjacent`). `PrevOk` says that what the writer remembered in
  `prev` is still right when it links the node, and `ReaderOk` that a reader
  that is not done is before its target.

`LogFormatProofs`, with the inductive invariant `LInv`:

* `TypeCorrect`: `Spec => []TypeOK`.
* `RecordsNeverGlued`: `Spec => []NeverGlued`. The bytes of the file come in the
  order of the physical records they belong to, and one that goes on with a
  record is emitted only after the one before it was appended in full
  (`FileInv`, `WriterInv`), so nothing but a trailer lies between them, however
  wrong the writer's idea of the block is after a failed append. A reader that
  holds part of a record has passed no more than a trailer since (`Partly`), so
  a good fragment that goes on with a record is the one written next
  (`FragmentFollows`). `Returned` says that what is left of the file belongs to
  later records.
* `OffsetSkippedOnce`: `Spec => []SkippedOnce`. `OffsetInv` says that a reader that
  has left the block it started in has passed the initial offset, but for the
  trailer of that block.

What is checked by TLC only:

* liveness (`CallsReturn`, `ReaderEnds`), which is out of the prover's reach;
* `WholeRecordsRead` and `DamageContained` of `LogFormat`: what a reader returns
  of a whole file is an induction over its blocks;
* `TableCache`, whose hash chains and LRU list are walked by folds, and
  `Iterators`, whose movements are recursive definitions: what they compute
  for every input needs an induction over data;
* `Compaction`, whose invariants hold only for the loads of the run, without the
  cases that `gap` and `split` show.

## Not modelled

* Byte encodings (edits, keys, file names, blocks, filters), compression, the
  info log, statistics, `GetProperty`, `GetApproximateSizes`, the C binding,
  the in-memory environment and `RepairDB`.
* The system calls of `util/env_posix.cc` and its background queue, which runs
  one call at a time in the order of `Schedule`; `DBWrite` uses it that way.
* In `DBFiles`, a log whose replay exceeds the write buffer is recovered into one
  table, by the code into several. `paranoid_checks` is off, as by default; a log
  that cannot be opened, which is then ignored (`db_impl.cc:383-387`), is left out.
* In `Compaction`, compaction pointers and seek counters: any file may be
  picked. `FindLevel` says what `FindFile`'s bisection returns while
  `LevelsDisjoint` holds.
* In `Iterators`, the concatenating iterator of levels above 0, corrupt entries
  inside a block, keys that cannot be parsed, and `RecordReadSample`.
* In `LogFormat`, readers that do not verify checksums, checksums that match by
  chance, and record types that no writer uses, which only they could let in.
* In `TableCache`, the split into 16 shards, which share nothing. The block cache
  is the same class, used without `Erase`. `BuildTable` opens its table to verify
  it and deletes the file without `Evict` if the iterator over the memtable
  reports an error (`builder.cc:65-83`), which that iterator never does.

## Plan

1. The concatenating iterator of the deeper levels in `Iterators`.
2. `VersionEdit` and the builder: applying edits in sequence against the set of
   files.
3. `RepairDB`: what it keeps of a damaged directory.
4. The POSIX background queue composed with `DBWrite`'s scheduling.
5. More proofs: `RefsExact` of `TableCache`, and `LevelsDisjoint` for automatic
   compactions.
