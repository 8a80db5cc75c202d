# Verification of oxigraph-cloud

TLA+ models of the parts of oxigraph-cloud where steps interleave: the transactions
and snapshots of the three storages, what the vendored RocksDB does below one of them
(group commit, logs and recovery, versions and compaction), the HTTP transactions, the
changelog, validation on ingest and the change notifications.  TLC checks them on small instances, and
TLAPS proves the most important properties for every instance.

Paths below are relative to `src/`.  `server/` stands for
`crates/oxigraph-server/src/`, `cdc/` for `crates/oxigraph-cdc/src/`, `shacl/` for
`crates/oxigraph-shacl/src/`, `storage/` for `oxigraph/lib/oxigraph/src/storage/`, and
`rocksdb/` for `oxigraph/oxrocksdb-sys/rocksdb/`.

## The system

The server is one process that handles each HTTP request on a thread of its own.
It keeps RDF quads in a store with one of three storages (memory, RocksDB, TiKV).

| Part | State | Operations that change it | What is hard |
|---|---|---|---|
| In-memory storage (`storage/memory.rs`) | a version range per quad and per graph, a version counter, a transaction counter that is also the writer's mutex | insert, remove, clear and drop graphs, commit, rollback (`Drop`) | readers scan while a commit or rollback rewrites range after range |
| Storage contract (`storage/backend_trait.rs`) | committed content, one open transaction, snapshots | the same, by name | stated only as a trait and its comments |
| HTTP transactions (`server/transactions.rs`) | a concurrent map from ids to buffered operations | begin, add, remove, update, commit, rollback, the cleanup thread | two commits, or a commit and the cleanup, race for an id; a replay fails half-way |
| Changelog (`server/changelog.rs`) | entries, as quads in the same store; a counter; a write lock | record, prune, undo, purge, restoring the counter | recording is separate from the write it records; failures and restarts in between |
| Write handlers (`server/main.rs`) | locals of each request | `/update`, `/store`, transaction commit, undo | the before/after difference of `/update` is not isolated |
| Validation on ingest (`server/main.rs`, `shacl/`) | mode and shapes behind one mutex | upload and delete shapes, set mode, validate after a write | the write is committed before it is validated |
| Change notifications (`cdc/`) | subscriptions, a broadcast ring, a batch per WebSocket | subscribe, connect, batch, send, close | a slow receiver is overtaken, also in the middle of a batch |
| TiKV storage (`storage/tikv.rs`) | eleven key spaces in a cluster | as the contract, by optimistic transactions | two transactions touch the same quads and graph; scans run in TiKV transactions of their own, batch after batch |
| RocksDB storage (`storage/rocksdb.rs`, `storage/rocksdb_wrapper.rs`) | the same key spaces as column families, a version | as the contract, write-only or readable; the bulk loader; migration | no conflicts are detected; strings and `validate` read another state than the quads; a migration may be interrupted |
| RocksDB write path (`rocksdb/db/write_thread.cc`, `db_impl_write.cc`) | a lock-free list of writers on the threads' stacks, a group per leader, the published sequence number | `Write`, group commit, parallel inserts, stalls | who may touch which writer when; a batch must become visible as a whole |
| RocksDB logs and recovery (`rocksdb/db/db_impl/`, `memtable_list.cc`, `flush_job.cc`) | logs, memtables, the MANIFEST | write, switch, sync, flush, recycle, recover | a batch is in one log and in the tables of several column families, which are flushed one by one |
| RocksDB versions (`rocksdb/db/compaction/`, `version_set.cc`, `external_sst_file_ingestion_job.cc`) | memtables and files in levels, snapshots | put, delete, flush, compaction, ingestion | versions are forgotten while snapshots and readers come and go |
| SPARQL update (`sparql/update.rs`) | none of its own | one operation after the other | reads and writes of one operation |

How they interact: a write handler commits to the store (through SPARQL update
or directly), is validated, and calls `record`; `record` writes an entry to the
same store, prunes old ones and sends an event into the ring that the CDC server's
connections read.  The commit of an HTTP transaction replays its buffer into a
storage transaction and records it.

## Modules

| Module | Models | Checked by |
|---|---|---|
| `SnapshotStore` | the contract of the storage traits | as the abstract specification of `MemoryStorage` |
| `VersionRange` | the versions in which a quad exists (`memory.rs` 871-1016) | through `MemoryStorage`; `MemoryStorageProofs` |
| `MemoryStorage` | the multi-version storage | `memory_storage`; `MemoryStorageProofs` |
| `TransactionRegistry` | HTTP transactions and their cleanup | `registry`; `TransactionRegistryProofs` |
| `Changelog` | the write requests and the changelog | `changelog`; `ChangelogProofs` |
| `ShaclGate` | validation on ingest | `shacl_gate`; `ShaclGateProofs` |
| `Cdc` | subscriptions, broadcast ring, WebSocket and SSE | `cdc` |
| `TiKvStorage` | the transactions of the TiKV storage: writes, clears, conflicts | `tikv`; `TiKvStorageProofs` |
| `TiKvScan` | the prefetching iterators of the TiKV storage | `tikv_scan`; `TiKvScanProofs` |
| `KeyRange` | byte-string keys and the bounds of a prefix | through `TiKvScan` and `RocksDbScan`; `TiKvScanProofs` |
| `RocksDbStorage` | the RocksDB storage: migration, transactions, readers, `validate`, bulk loader | `rocksdb_storage`; `RocksDbStorageProofs` |
| `RocksDbScan` | the prefix scans of the RocksDB storage | `rocksdb_scan`; `TiKvScanProofs` |
| `AtomicWrites` | what `DB::Write` promises | as the abstract specification of `WriteThread` |
| `WriteThread` | RocksDB's queue of writers and group commit | `write_thread` |
| `WalRecovery` | RocksDB's logs, flushes and point-in-time recovery | `recovery` |
| `Versions` | the versions of keys in a column family of RocksDB | `versions`; `VersionsProofs` |

`MC<Module>` instantiates a module for TLC.  `\* Mutant:` marks definitions that
change the one below them the way a bug would; each property of a passing run is
violated when its mutant takes the place of the definition.  No specification uses
them.

### SnapshotStore

`committed` is the content of the last version (quads and named graphs are both
*nodes*), `pending` what the open transaction makes of it, and each reader has the
content at its opening.  The traits have one transaction at a time here because
`MemoryStorage` serialises writers; `Write` is what all the mutating methods share.
Rollback is dropping the transaction.  A reader may deliver a node of its content
in any order and must deliver all of them before it ends.

### VersionRange and MemoryStorage

A range is the sequence of versions at which a node appeared and disappeared in
turn; the four cases of the Rust enum are sequences of length 0, 1, 2 and more.
`range` has one per node; `version_counter` and `transaction_counter` are the two
atomics.  Transaction ids start at `TransactionBase` where the code has
`usize::MAX >> 1`.  `log` holds the nodes the transaction stamped.  Commit and
rollback are a step per logged node and a step at the end (`BeginCommit`,
`CommitNode`, `FinishCommit`; `BeginRollback`, `RollbackNode`, `FinishRollback`),
because each range has a mutex of its own, and a reader's scan is a step per node
(`ScanNode`), so every interleaving of the two is there.  The linked lists by
subject, predicate, object and graph only decide the order in which a scan meets
nodes; the model lets it be any.

`ImplementsContract` is the refinement: committed content is what is visible at
`version_counter`, pending content what is visible at the transaction's id, a
reader's content what is visible at its snapshot.  The commit of the contract is
the step that publishes the version counter.

### TransactionRegistry

An entry of the map is `ops[id]` with `id \in txns`.  A commit is three steps: taking
the entry out (`BeginCommit`), starting a storage transaction (`StartTransaction`), and
replaying the operations into it and committing it (`FinishCommit`, or `FailCommit` when an
operation or the storage fails).  The storage transaction reads the store as it was at its
start; its commit applies its writes to the store as it is then.  The
cleanup is a step per entry visited and a step per id removed.  `idle` counts
ticks since `last_active`.  `acked`, `outcome`, `committed` and `seen` are history.
`query` replays into a transaction it drops; it changes nothing (nor `last_active`).

`backend` says which storage there is.  In memory a transaction waits until the one before it has
ended, so commits are serial.  RocksDB lets them overlap and detects no conflict: when an
update deletes what it finds, it finds it in its snapshot, and deletes that from a store another
commit has changed meanwhile.  `StoreIsCommitted` says so: each commit has the effect of its
operations one after the other on the store before it, except that one with an update that
overlapped another commit applies what the update makes of its snapshot, which is the whole
store an earlier commit left.  A commit of inserts and removals always has the serial effect.
TiKV is like RocksDB but refuses a commit whose keys another one wrote, which is a `FailCommit`.
The other writers of the store (`/update`, `/store`, the changelog) are not in this module; they
are storage transactions like these, and race with them in the same way.

The cleanup collects the idle ids in one pass over the map and removes them in a second
one that does not look at `last_active` again (`server/transactions.rs` 192-209).  A
transaction used between the two is removed although it is active, while the comment at
line 190 says "Remove transactions that have been idle longer than the timeout."  The model
takes the step; no property forbids it.

### Changelog

The store is a set of items: users' quads and entries.  An entry stands for the
dozen quads that `write_entry_to_store` writes in one transaction; since entries
are written and deleted as a whole and `OneEntryPerId` holds, nothing tells the two
apart.  `MAX_DIFF_STORE_SIZE` counts items accordingly.  The steps of a request are
its storage transactions: the write itself, then under `write_lock` the entry
(`WriteEntry`), the two halves of prune (`CollectOld`, `DeleteOld`), the event
(`Broadcast`).  `/update` is three steps: read, execute, read and compare.  The size
check and the first read are one step.  Each storage transaction may fail
(`RecordFails`, `RequestFails`), and the process may die between any two steps
(`Crash`), which restores the counter by `init_counter`.  An upload has two sets of
quads, what is parsed for the record and what is loaded, which differ by the renaming
of blank nodes.  The entries are in a named graph like any other, so a `CLEAR ALL` or a `DELETE`
of a client removes them: an update, and a transaction with an update, may clear any of them
(`Cleared`).  Clients that write into that graph, or remove some quads of an entry and leave the
others, are left out.  `own` is history: what the commit of the request itself changed; `overlapped` has the
requests during which another one took a step.

What the properties except is what the code does not give:

* A client may clear entries.  `OnlyPruningForgets` therefore lists who may remove what: a prune
  the entries that are old, a purge those it found, an undo those its entry says were
  inserted, and an update or a commit only if it is one that clears.
* The two reads around an update (`server/main.rs` 1461) are not isolated, so what other
  requests commit in between is recorded as its difference and undone with it, entries of
  the changelog included: undoing it may delete the entry of another request
  (`OnlyPruningForgets`), or restore some that were pruned (`Retention`), and it reverts more
  than the update did (`UndoRevertsUpdates`).  The comment at line 1436 says "capture actual
  quad deltas".
* Undo removes every quad that an upload or a transaction listed as inserted, those that
  were there before included (`server/changelog.rs` 323).  For an upload with blank nodes
  it removes quads that are not there: `/store` records a plain parse of the body
  (`server/main.rs` 782) while `load_from_reader` renames blank nodes.  `README.md` line 349
  says "track and revert write operations".

### ShaclGate

A write is committed (`Write`), takes the validator's mutex and reads the store
(`LockValidator`), gets a verdict (`Accept`, `Reject`, or `ValidationError` when the
engine fails), is recorded (`Record`, any number of times: the entry and the prune) and
answered (`Answer`).  A purge is `Purge`.  The commit of an HTTP transaction and an
undo are `UnvalidatedWrite`.  The engine is the constant `Conforms`.  `clean` and `judged` are
history: enforcement is on, began on a conforming store, and since then no write was
refused and none bypassed validation; and what was validated last.

The changelog writes its entries to the store that is validated, after the verdict, and
nobody validates them: a shape that an entry violates is only noticed by the next write.  So
`AcceptedWritesConform` says that what was validated last conforms and that the store is that
up to entries (`EntryQuads`); without a changelog it says that the store conforms.

Three statements of `docs/shacl-api-spec.md` are not what the code does, as reading it
shows without a model checker: a refused write is not rolled back (line 513, "Rollback
transaction"), commits of HTTP transactions and undo are not validated (line 402,
"Validate on ingest"), and a write is validated against the shapes at the time of its
validation (line 570, "the shapes as they existed at transaction start").  The model
follows the code, and `AcceptedWritesConform` says what it still guarantees.

### Cdc

Events are numbered.  `rx` is where a receiver reads next; it is overtaken when that
is below the oldest of the last `buffer_size` events, which is what tokio's
broadcast channel does (`RecvOk` and `RecvLagged` are external).  A WebSocket handler
waits, batches until the window closes or the batch is full, and sends; SSE sends
each event.  `skipped` and `start` are history.

### TiKvStorage

A key is a table and a quad, or the table of graph names and a graph.  `kv` has the
committed keys.  A transaction has the keys it sees (`content`: its snapshot and its own
writes), the keys it wrote and the keys others have committed since it began; a commit
fails when the last two meet, which is how `tikv_client` treats optimistic transactions
(external).  A write-only transaction clears tables by scanning them in the transaction,
and goes on when a scan fails (`DeletePrefixes`); a readable one clears graph after graph,
each in passes of `BATCH_SIZE` quads (`StartClear`, then `clear_encoded_graph` for each
graph in `todo`), and other transactions may commit between two passes.  The quads of a
pass are read from `kv`, not from `content`, since the iterator begins a transaction of
its own; the list of graph names is read in the transaction.  The order of keys is left
out, so a full pass may take any `BATCH_SIZE` quads.  `lost` and `blind` are history: a
clear went on after a failed scan; a drop kept a quad its own transaction had inserted.
A batch of the bulk loader is `start_transaction`, inserts and a commit.

What `blind` excepts: a `CLEAR` or `DROP` keeps the quads that its own transaction has
inserted, although the comment at `storage/tikv.rs` 1301 says "The reader borrows the same
transaction, so it sees uncommitted writes."  For the same reason a pass that read
`BATCH_SIZE` quads reads the same ones again, and clearing a graph with that many does not
end (`FullPass`).

### TiKvScan and KeyRange

One scan, over the prefixes of one or two tables, while other clients commit.  An
iterator has the start of its next batch, the buffered keys and, once `begun`, the
snapshot of its transaction.  `quads` fetches the first batch of both iterators in
transactions that it then ends (`Prefetch`), so a full scan goes on from them in yet other
transactions.  Keys are real byte strings here, over three bytes: the bounds
(`prefix_upper_bound`, `next_start`) are the code's arithmetic.  `always` and `ever` are
history.  A caller that skips an error and goes on is left out.

### RocksDbStorage

`db` has the committed keys, `txn[t]` the batch of a transaction and, for a readable one,
its snapshot; the batch of a commit is applied as a whole, which is what `WriteThread` and
`WalRecovery` show of RocksDB but for the exceptions named there: here a crash loses no batch, the
database is not stopped, and a snapshot never shows files ingested after it.  A batch is kept as the tables it clears, the keys it deletes
and the keys it puts, in the order in which they take effect.  The strings of a quad are one
key of `id2str` for the quad and one for its graph.  Opening goes through `migrate`
(`MigrateGraphs`, `MigrateTriples`, `RewriteQuad` for each quad, `update_version`) and may be
interrupted by a crash anywhere.  `validate` is a step that counts and a step per quad.  A
thread of the bulk loader ends in its own time, with files or with an error; `do_commit` has
the three outcomes of the code: nothing ingested, ingested, and ingested with an error from
removing a file.  `old`, `raced` and `lost` are history.

The properties are stated with what the code does not give:

* Two transactions, one of which drops a graph while the other adds to it, both commit: the
  quad is then in a graph that is not listed (`raced` in `StoreConsistent`).
* `validate` counts in its snapshot and looks for keys in the database as it is by then
  (`contains_key` on the database, `storage/rocksdb.rs` 753), so it reports corruption when
  a removal is committed meanwhile (`lost` in `ValidateSound`).
* `get_str` reads the committed database as well.  Since strings are never removed this is
  enough for snapshots (`SnapshotsDecode`), but the strings that a readable transaction has
  itself written cannot be decoded before it commits (`storage/backend_trait.rs` 157, "sees
  both committed state and this transaction's uncommitted writes").
* A clear that keeps the graph names does not end when there are `BATCH_SIZE` of them
  (`CallsEnd`, which says of opening that it ends, and with an open database unless that is the
  case below).  A write-only `clear_all_graphs` removes the names, a readable one keeps them.
* The migration to version 2 reads old keys with the type byte 48 and deletes keys with the
  type byte 49 (`storage/binary_encoder.rs` 52-54 and 811-817): the old keys stay, no
  transaction can remove them, and `validate` fails on them (`q \in StarQuads` in the
  properties).  Nothing is lost, as `MigrationLosesNothing` says.
* A database of version 0 without named graphs cannot be opened: RocksDB does not finish an
  empty table (`rocksdb/table/sst_file_writer.cc` 473-477).  That is the phase `failed`.
* When a file that was ingested cannot be removed the loader returns an error although the
  data is visible, and keeps the file in its list.  Dropping a loader joins only the threads
  that have finished (1373-1390, "We wait for threads"), so another may leave files behind.

### RocksDbScan

An iterator over the keys from a prefix to an upper bound, in a snapshot.  The bound is the
code's arithmetic: the last byte below 0xFF is incremented, and the 0xFF bytes after it are
kept (`storage/rocksdb_wrapper.rs` 815-826).  `OnlyMatches` is violated; see the proofs for
exactly when.

### AtomicWrites and WriteThread

`AtomicWrites` says what callers of `DB::Write` see: pending operations become visible one
after the other or several at once, each as a whole and once, an operation that returned OK is
visible and one that returned an error is not, unless a background error stopped the database.
Then a batch that was under way may also become visible in part (`Tear`).

`WriteThread` has a program counter per thread, and for each thread the fields of its
`Writer` (`state`, `batch`, `sequence`, `write_group`, `link_older`, `link_newer`) and, as
long as it leads, of its `WriteGroup`.  A step is one access to shared memory that another
thread may observe, or a stretch of code under which nobody else may touch what it uses:
pushing a writer (`LinkOne`), partitioning the list (`EnterAsBatchGroupLeader`), the
compare-and-swap that puts the deferred writers back (`Graft`), the log (`WriteGroupToWAL`),
each insert, the decrement of `running`, publishing, handing over, completing one member
after the other.  In a large group the leader wakes some members, which wake the others
(`LaunchParallelMemTableWriters`, `SetMemWritersEachStride`); `MinParallelSize` is 20 in the code, and
`Stride` the square root.  An unbatched writer stands for flushes and ingestions, and an ingestion
may take the next sequence number (`ingested`); a write stall stands for
`BeginWriteStall` and `EndWriteStall`.  A thread that returns frees its writer, so
`NoDanglingWriter` says that nobody still has a link to it.  `WritesAreAtomic` is the refinement
of `AtomicWrites`.

Three remarks on the code.  An ingestion asks whether the database is stopped before it waits for its
turn (`db_impl.cc` 6624), not after.  When it waits while a group fails to insert, it takes the number
after `last_sequence`, which is the first one of that group, and publishes it: what was inserted of the
failed batch under that number can be read (`PublishedIsWhole` and `WritesAreAtomic` except it, and say
that the database is stopped by then).  When an insert fails and a follower is the last to finish, the leader
returns OK although nothing was published (`write_thread.cc` 739-747, where the assertion is
compiled out); the database is stopped by then, which is why the abstract specification lets a
call return OK after that.  `compare_exchange_weak` (559) may fail without a reason on some
processors, which the code after it does not expect; the model's does not.  `max_size` is a
constant here and depends on the size of the leader's batch in the code.

### WalRecovery

A batch has one sequence number and writes to several column families.  `wals` has for each log
its records, how many are synced, and what is behind them: the end of the file, a torn record, or,
in a recycled file, records of an old log.  A flush job syncs the closed logs, picks memtables,
writes a table and installs it, unless it fails; jobs of several column families, or of one,
overlap.  The process may die (files stay as written), be closed, or the machine may die, and then
a log keeps what was synced and any part of the rest.  Recovery is the code's: replay up to a
record that cannot be read, go on when the next log continues the sequence, refuse when a column
family is ahead of the corrupted log.  A bulk load (`IngestExternalFiles`) puts tables for several
column families into the MANIFEST at once and takes a sequence number that is in no log; one that
gets no number changes nothing here.  `why` and `parted` are history: what the last crash did, and
which batches are behind a load that parts them from a log with an old record at its end.

`parted` is an exception that the code makes.  Behind an old record replay goes on only with the very
next sequence number (`db_impl_open.cc` 1553-1568).  A recycled log ends in old records whenever the
process dies before it is overwritten, and when a load took the next number, the batches in the
following logs are dropped, although they were written and nothing but the process died:
`rocksdb/include/rocksdb/options.h` 2284-2286 says "if it is just the process that crashes (i.e., the
machine does not reboot), no writes will be lost even if sync==false".  `NothingDurableLost` says
that those are all that can be lost.  When the machine dies and an end that had been cut off comes
back, the same happens to synced batches, and it may go unnoticed that a table of one column
family already holds one of them, because a later log overwrites `corrupted_wal_number`
(1660-1668); `AllOrNothing` excepts that.

A crash of the machine may lose the middle of a log whose end reached the disk; what
point-in-time recovery does then is documented (`rocksdb/include/rocksdb/options.h` 442-446), and
the properties except it (`why.gap`).  The storage asks for recycled logs
(`storage/rocksdb_wrapper.rs` 341).  The comment at `db_impl_open.cc` 115-119 says that
point-in-time recovery is not compatible with recycling, but the condition at 104-107 does not
turn it off; `RecoversPrefix` and the rest hold with it, up to the exception above.  The installation of a table in the
MANIFEST is one step, and a lost truncation at close is among the crashes.

### Versions

An entry is a version of a key: key, sequence number, type and value; a range deletion is an
entry for each key it covers.  `Places` says in which order a `Get` looks.  Flush and compaction
keep of their input what `KeptPoints` and `KeptRanges` say (the rules of `CompactionIterator` and
`AddRangeDels`), given the snapshots at their beginning.  A compaction is picked in one step, under
the mutex, and installed in another; so are the parts of an ingestion, with the MANIFEST written in
between, and of a `Get`.  `current`, and the `view` of a snapshot, are history: what a reader
should see.

Sizes are left out: any file may be picked, the base level is any that the code may choose, an
output is one file or one for each key, and a move without rewriting is always allowed where it is
possible.  The optional growth of a compaction's inputs and intra-level-0 compactions of less than
all the newest files are left out.  A flush succeeds here; failures are in `WalRecovery`.

`SnapshotStable` has an exception that is a flaw of the code.  An ingestion that overlaps nothing
while there is no snapshot gives its file the sequence number 0.  `LogAndApply` then releases the
mutex, and a snapshot taken meanwhile sees the file's keys as soon as it is installed
(`db_impl.cc` 6017-6047; the comment at 6025 is about other sequence numbers).
`options.h` 2594-2596 says of `snapshot_consistency`, which the storage leaves on, "If set to false,
an ingested file keys could appear in existing snapshots".

## Runs

| Run | Instance | Shows |
|---|---|---|
| `memory_storage` | two quads (default and named graph), one reader, three transactions | a visible quad has its graph (`QuadsHaveGraph`); a finished transaction leaves no mark (`NoResidue`); the contract (`ImplementsContract`) |
| `registry` | two transactions of up to two operations and one, two workers, all kinds of operations, in memory and in RocksDB | a transaction ends once; commits apply what was acknowledged, in order, once; the store is what the committed transactions make of it (`StoreIsCommitted`); abandoned ones are removed |
| `changelog` | two clients, three entries, retention of one, one crash, writes that clear entries | ids are unique; events are in order; the retention limit; who may remove which entry (`OnlyPruningForgets`); undoing an update that ran alone reverts it (`UndoRevertsUpdates`); every request ends |
| `shacl_gate` | three writers, two shapes graphs, two quads and an entry of the changelog | validating after the commit is sound while nobody is refused |
| `cdc` | two connections, two subscriptions, a ring of two, batches of two, four events | order; nothing is lost but by lag; everyone catches up |
| `tikv` | three quads in the default and a named graph, two transactions, three operations between them, from every consistent store | the index tables agree (`IndexesAgree`); a quad's graph is listed (`QuadsHaveGraph`) |
| `tikv_scan` | five keys under two prefixes, one of which ends in the largest byte; batches of two; three commits of others | a key comes once; none is missed that stayed; an iterator shows one state; a scan ends |
| `rocksdb_storage` | three quads (one to be migrated), two named graphs, passes of two names, two transactions, a reader, a loader, a crash; from new stores with a quad in the default graph, and from old ones | a quad has its keys in every index, its strings and its graph (`StoreConsistent`); snapshots can be decoded; `validate` reports nothing but what is listed above; loads are atomic; a migration loses nothing; opening, clears and removals end |
| `rocksdb_scan` | integers of two bytes, four values of a byte | **violated**: a scan for a prefix that ends in the largest byte returns keys of other terms |
| `write_thread` | three threads, three calls, groups of up to three, a large one among them, a stall, a failure | nobody touches a writer that has returned (`NoDanglingWriter`); what is published is all in the memtables; a batch becomes visible as a whole and once, and its caller is told the truth (`WritesAreAtomic`); every call returns |
| `recovery` | two column families, two flush threads, four batches, loads among them, two crashes | a batch is recovered everywhere or nowhere (`AllOrNothing`); what is recovered of the logs is a prefix, with everything durable in it but for `parted`; recovery refuses only when a truncation was lost; flushes complete |
| `versions` | three keys, three levels, three writes, a snapshot, an ingestion, two compactions at a time | files of a level do not overlap; reads, snapshots and running `Get`s return the right value; an ingestion ends |

The modules of the components also have a `TypeOK` that says which values its variables take.  It is proved for
`MemoryStorage`, `ShaclGate` and `TiKvScan`, and the other proofs have types of their own in their
invariants; the cfgs do not name it.  It holds in all the instances: to see it, add `TypeOK` to the invariants of a run.

The violated run states what the documentation of `quads_for_pattern` says; the quotation is
in `PROJECT.json` under `findings`.

### Bounds, and why they are enough

* Two actors are what a race takes: two requests, two workers, two connections; the
  actors are alike in the code.
* Memory storage: three transactions let a later one meet the ranges a first one
  committed or rolled back.  Two quads and a graph are the nodes an insert, a clear
  and a drop treat differently.  The theorems below have no such bound.
* Registry: two operations show order and half-way failures.  A timeout of zero ticks
  means that one tick of idleness is too long; longer ones add waiting only.  Ids and workers
  are taken in a fixed order, and the second transaction has one operation (`Canonical`): an
  update that overlaps a commit takes no more.
* Changelog: retention plus two entries, so that prune runs, fails and runs again.
  `MAX_UNDOABLE_QUADS` is 2 so that both sides are reached.  After the restart requests run
  one after the other (`RestartedAlone`).  A write that clears comes when there is an entry, and
  a transaction that does runs alone (`ClearsSome`); an update that clears meets the other requests.
* Cdc: a ring of two and four events overtake a receiver in each of its states.
  The code's batch of 100 is `MaxBatch`, 2 here.
* TiKV: two transactions make a conflict.  Starting from every consistent store, three
  operations are enough for a drop against an insert and for an insert, a clear and a
  second pass in one transaction.  `BATCH_SIZE` 2 (100 000 in the code) gives full and
  last passes; one scan may fail.  The theorems below have no such bounds, but for
  `FewGraphsAssumption`, that a list of graph names fits in one batch.
* Scan: a prefix with three keys needs a second batch, one with two an empty last one.
  The prefix `<<0, 2>>`, with 2 the largest byte, needs the carry of
  `prefix_upper_bound`.
* RocksDB storage: passes of two names and two graphs give a pass that is full.  Old
  databases are migrated and read, new ones written.  No more than two transactions, readers
  and loaders are in use at a time (`MaxOpen`), a loader that is not atomic is alone, and a
  crash comes while the database is being opened (`Bounded` in `MCRocksDbStorage`).
* Write thread: with three threads a group of two has a follower while a third writer arrives
  or is deferred; a third call meets the group after.  Batches have one or two entries, and three
  entries fill a group.  A group of three is a large one, of stride two: the leader, a member that
  wakes others, and a member to be woken.  Idle threads call in a fixed order, only the second call
  has a large batch, and a failure after a stall is the one that ends it (`Canonical`).
* Recovery: two column families are what can disagree; two crashes let a recovery meet what
  an earlier one left.  Batches, loads, crashes and failures are six in all.  A batch, a load, a batch in
  the next log and a crash are what `parted` takes.
* Versions: a key below, in and above the range of a file takes three; a version, a deletion
  and a newer version take three writes.  The product of everything with everything is too
  large: key 2 is only ingested and range-deleted, a `Get` runs with neither a snapshot nor an
  ingestion, two compactions run together only without snapshots and `Get`s, no more than
  three files exist at a time, and the last write comes before the ingestion, while nothing
  is being compacted, or during the ingestion (`Bounded` in `MCVersions`).
* `CHECK_DEADLOCK FALSE` where behaviours end at a bound (`registry`, `changelog`,
  `cdc`, `rocksdb_scan`); the others check for deadlock.

### Fairness

* Registry: the clock ticks, the cleanup thread loops forever (`server/main.rs`
  283-294), and a commit that began ends.  Nothing is assumed of clients.
* Changelog: a thread whose next step is possible takes it.  A mutex of the standard
  library may starve a thread in theory; the number of requests is bounded in the
  run, so weak fairness suffices.
* Cdc: the runtime polls every connection that can go on, and the batch window ends.
* Scan: whoever opened a scan keeps calling `next`, and a fetch returns or fails
  (`block_on`).  A scan may be abandoned instead, about which there is nothing to say.
* RocksDB storage: opening, and a clear, go on until they return.
* Write thread: a thread that can go on does, and a stall ends, which takes the background
  flushes and compactions that end it.
* Recovery: flush threads go on; writes and crashes need not happen.
* Versions: background flushes run, and the caller of an ingestion goes on.  Nothing is assumed
  of compactions.

Liveness is checked by TLC only.

## Proofs

All are checked by TLAPS from the assumptions named `ConstantsAssumption` (and their
like) in the modules that declare the constants, which TLC evaluates on every run.

* `MemoryStorageProofs`: for any quads, graphs, readers and number of transactions:
  `TypeCorrect`, `QuadsAlwaysHaveGraph`, `NoResidueLeft`, and `Refinement`, that
  `MemoryStorage` implements `SnapshotStore`.  The inductive invariant adds what the
  properties do not say: ranges are increasing and bounded by the current version,
  except that the nodes in the log, and only those, may end with the open
  transaction's id, or, once upgraded, with the version about to be published; the
  content visible at an older version never changes.  It is needed because the
  properties alone say nothing of a node between its stamp and its upgrade.  It rests on
  lemmas about `VersionRange`: which versions a range contains after adding, removing,
  upgrading and rolling back, for sequences of any length, and that it stays increasing.
* `ShaclGateProofs`: for any requests, quads, shapes and any notion of conforming:
  `TypeCorrect` (with the mutex in the hands of the one that validates) and
  `AcceptedConform`.  The invariant `Pending` says that while enforcement is clean,
  what was validated last conforms, and that it is the store up to entries of the changelog,
  or some write is still to be validated, or is being validated against the store as it is up
  to such entries.
* `TiKvStorageProofs`: for any quads, graphs, number of concurrent transactions and batch
  size, `IndexTablesAgree` and `GraphsAreListed`.  For the first, the invariant
  (`AgreeInv`) says of every transaction what the property says of the store: `content`
  and `written` have all the index keys of a quad or none, so a commit moves all of them.
  For the second, `ListedInv` says how each open transaction stands to each quad: what it
  inserted, it inserted with the graph name; a committed quad it neither sees nor wrote
  came with a commit of the graph name, which is thus dirty; and once it has deleted the
  graph name, every committed quad of the graph is one it wrote or one that came so.  A
  drop that would leave a quad behind then has a conflict on the graph name.  The
  property alone says nothing of what is still to be committed.
* `TransactionRegistryProofs`: for any transactions, workers, operations and timeout, and either storage,
  `CommitsAcknowledged` and `StoreHoldsCommitted`.  The invariant says who owns a
  transaction: it is open in the map with the operations that were acknowledged, or one
  worker alone holds its buffer between `BeginCommit` and the end of the commit, or it has
  ended and nobody has it.  Without it two workers could hold the same buffer.  It also says
  that the snapshot of an open storage transaction is what the first `seen` commits made of the
  store, and that in memory no two are open (`SnapshotIsCommitted`, `ReplayAlone`).  That the
  store is `ContentAfter` of the commits needs two facts: what appending to a list does to a replay,
  and that the writes collected over a snapshot, applied to any store, are the operations applied
  one after the other if the store is the snapshot or if none of them is an update
  (`ReplayIsSerial`).  Both are
  shown by induction over a set of lengths (`SetInduction`), since the library's induction
  theorems cannot be used.
* `ChangelogProofs`: for any number of requests, failures and restarts, the invariants
  `IdsAreUnique`, `EventsAreOrdered` and `LogIsBounded` and the action properties
  `OnlyOldEntriesGo` (which request may remove which entry) and `UndoIsInverse`.  An entry may list other entries, those that an
  overlapping update saw recorded or pruned, and an undo can write them back long after they
  were pruned.  So the invariant speaks of a set of known entries: those of the store and all
  that they, and the requests under way, list, at any depth.  Ids are unique in that set,
  below the counter, and above those of the entries that an entry lists; what prune has
  collected is all that is old, unless an entry came back since; and what an update that ran
  alone will record is what it changed.  The invariant is that such a set exists.
* `TiKvScanProofs`: for byte strings of any length, `PrefixRange` (the range of a prefix holds
  exactly the keys with the prefix) and `NextStart` (the next batch starts exactly after the
  last key).  From these, for any keys, prefixes, batch size and commits of others:
  `ScanIsComplete`, `ScanSeesOneState` and `TypeCorrect`.  The invariant says that every key below
  the start of an iterator's next batch that was there all along, or, when the scan is not a
  full one, that its snapshot has, was returned or is buffered; that what was returned comes
  before what is buffered, and both before that start; and that a snapshot lies between what
  always and what ever was there.
* `TiKvScanProofs` also has the bounds of the RocksDB storage: a scan covers all the keys
  with the prefix (`ScanCoversPrefix`); it covers no others when the last byte of the prefix is
  not the largest one (`ScanIsExact`); and behind a prefix with the largest byte at its end it
  always covers others (`ScanIsWide`), so the violated run is no accident of the instance.
* `RocksDbStorageProofs`: for any quads, graphs, transactions, readers, loader threads and
  crashes, `StoreStaysConsistent`, `SnapshotsStayDecodable`, `ValidateIsSound`,
  `LoadsAreAtomic` and `MigrationKeepsQuads`.  The invariant says that what is written together
  stays together: the database, each snapshot, and what each batch puts and deletes have all
  the index keys of a quad or none, a batch clears all the tables of the default or of the
  named graphs or none, and strings are never deleted.  Then a commit over any database keeps
  quads whole, although its snapshot is stale.  For graph names it says that a batch which
  drops a name deletes the quads of the graph that its snapshot has, so that a quad is left
  only if it came later, which is `raced`.  For the loader, what it was given is what is
  visible, in its files and in its threads.  It is assumed of the constants that there are
  finitely many quads (`validate` counts), that old quads are not quads of the new form, and
  that neither is the key with the new type byte under which the migration deletes.
* `VersionsProofs`: for any keys and levels and any number of files, compactions and
  snapshots, `LevelsAreSorted`: the files of a level below 0 never overlap.  That is not
  inductive: two jobs, picked in either order, could install files that overlap each other.
  The invariant (`Reservation`) says that each running compaction and the ingestion being
  logged has reserved its range: no file of its output level other than its inputs overlaps
  it, and no other output to that level does.  The step that needs an argument about ranges
  is the picking: when the files of the output level that overlap the inputs are added, the
  range grows, and still no other file of that level overlaps it, because each of those added
  meets the range of the inputs (`OverlapHull`).  The invariant also says that no file and no
  waiting memtable is empty, without which a range has no bounds; a flush never writes an
  empty file because it keeps the newest of all its versions.  It is assumed that the keys are
  finitely many numbers and that a file to ingest has a key.

The prover represents sequences with an axiom about `Len` that does not ask its argument to
be a function, in the version used here (1.4.5), which is not sound.  Every obligation about
sequences that its SMT backend proved was therefore proved a second time by Z3 with that
axiom restricted to functions; all of them hold.

Only model-checked: liveness (`RequestsEnd`, `AbandonedAreRemoved`, `CatchesUp`, `ScanEnds`,
`CallsEnd`, `WritesReturn`, `FlushCompletes`, `IngestionEnds`), what readers of `Versions` see
(`CurrentReads`, `SnapshotStable`, `GetIsCurrent`), and everything about `Cdc`, `WriteThread`
and `WalRecovery`.  Liveness under fairness and `ENABLED` are out of
the prover's reach.  `LostOnlyByLag`, the queue and the partition of `WriteThread` and the
replay of `WalRecovery` are defined by recursion or folds over sequences, about which this
prover cannot do inductions other than over sets, as above.

## Not modelled

* Most of RocksDB.  Nearly all lines of the repository are its vendored source, and most of
  those do nothing for the store: tools, tests, benchmarks, Java bindings, the transaction and
  blob databases, universal and FIFO compaction, merge and single deletion, user timestamps,
  wide columns, pipelined and unordered writes, a second write queue, two-phase commit, atomic
  flush, mempurge, secondary and read-only instances, other file systems.  (The storage sets
  `unordered_write` on options that are only used for column families, where it has no effect,
  `storage/rocksdb_wrapper.rs` 404.)  Of what is used, formats (blocks, filters, records,
  compression), caches, memory, rate limits and statistics change nothing that the properties
  speak of; iterators are reads in a snapshot; resuming after an error, dropping a column
  family, and the writing of the MANIFEST step by step are left out.
* SPARQL update evaluation: an update is given to the storages as the operations that it makes.
* Of the TiKV storage: connecting and `ensure_version`, the dictionary of strings, the
  choice of an index for a pattern.
* Query evaluation, content negotiation, CORS, authorisation and size limits: they
  change no state.
* The text of entries and notifications; `escape_json`, dates.
* The bulk loader and `validate` of the in-memory and TiKV storages; the Coprocessor, which no server
  path calls; telemetry.
* Read errors in the middle of a scan, which several handlers skip by `flatten()`.
* Several servers on one TiKV cluster: the changelog's counter and lock are local to
  a process, so two servers would give out the same ids.

### What can go wrong and no property speaks of

The code makes no promise that these would break.

* A crash after the commit of a write and before `record` leaves the write out of the
  changelog (`server/main.rs` 767); a prune that fails comes after its entry was written
  (`server/changelog.rs` 137).
* A write that validation refuses stays in the store (`server/main.rs` 587), and there are
  writes that are not validated (618).
* An SSE client is not told that it lagged (`cdc/server.rs` 264), and its subscription is
  never removed (250).  A channel of capacity zero panics (`cdc/channel.rs` 41).
* A batch of the TiKV bulk loader that fails leaves the earlier ones committed
  (`storage/tikv.rs` 1574); `delete_prefix` goes on after a scan that failed (1269).

## Plan

1. `UpdateEvaluator`: the operations of a SPARQL update over a storage transaction,
   and the choice of a write-only one (`update_requires_read`).
2. The choice of an index for a pattern, in TiKV and RocksDB, against a reference
   definition; days to dates and size-limited bodies likewise.
3. Composition: `Changelog` with `Cdc` (a recorded write reaches the subscribers), and
   a write handler with validation and record.
4. Proofs: the rest of `Versions` (`CurrentReads`, `SnapshotStable`), `Cdc` (`LostOnlyByLag`),
   `WriteThread` (`NoDanglingWriter`) and `WalRecovery` (`AllOrNothing`).
