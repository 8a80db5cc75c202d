--------------------------- MODULE RocksDbStorage ---------------------------
(***************************************************************************)
(* The storage over RocksDB (storage/rocksdb.rs, storage/rocksdb_wrapper.rs): *)
(* migration when it is opened, write-only and readable transactions,      *)
(* snapshot readers, validate and the bulk loader.  A quad is one key in   *)
(* each of its index tables (column families); a graph name is a key of    *)
(* the table graphs, a string a key of id2str.  The strings of a quad are  *)
(* summed up by the quad itself and its graph name.                        *)
(*                                                                         *)
(* RocksDB (WriteThread, WalRecovery) applies a batch as a whole and takes *)
(* snapshots.  No conflict between transactions is detected.               *)
(***************************************************************************)
EXTENDS Integers, FiniteSets, Sequences

CONSTANTS
  Quads,         \* the quads
  StarQuads,     \* quads of old databases with a triple as subject or object
  rewritten,     \* the quads that the migration puts in the place of each of them
  NamedGraphs,   \* the names of the named graphs
  DefaultGraph,  \* the name of the default graph
  graph_name,    \* the graph of each quad
  Txns,          \* the transactions that may be open at the same time
  Readers,       \* the readers that may be open at the same time
  Batches,       \* what a bulk loader may be given
  max_num_threads,
  BATCH_SIZE,    \* how many quads or graph names a pass of a clear reads
  MaxOps,        \* bound: how many writes, clears and loaded batches there are
  MaxCrashes     \* bound: how many times the process dies

ASSUME ConstantsAssumption ==
  /\ IsFiniteSet(Quads \cup StarQuads) /\ Quads \cap StarQuads = {}
  /\ IsFiniteSet(NamedGraphs) /\ DefaultGraph \notin NamedGraphs
  /\ \A q \in StarQuads : <<"new type", q>> \notin Quads \cup StarQuads
  /\ graph_name \in [Quads \cup StarQuads -> NamedGraphs \cup {DefaultGraph}]
  /\ rewritten \in [StarQuads -> SUBSET Quads]
  /\ \A q \in StarQuads : \A n \in rewritten[q] : graph_name[n] = graph_name[q]
  /\ Batches \subseteq SUBSET Quads
  /\ {max_num_threads, BATCH_SIZE} \subseteq Nat \ {0}
  /\ {MaxOps, MaxCrashes} \subseteq Nat

DefaultTables == {"dspo", "dpos", "dosp"}
NamedTables == {"spog", "posg", "ospg", "gspo", "gpos", "gosp"}

AllQuads == Quads \cup StarQuads
QuadsOf(g) == {q \in AllQuads : graph_name[q] = g}
IndexTables(q) == IF graph_name[q] = DefaultGraph THEN DefaultTables ELSE NamedTables

\* write_term gives every triple the new type byte: what a quad of an old database is
\* read as is not written back to the keys it was read from.
Written(q) == IF q \in StarQuads THEN <<"new type", q>> ELSE q

IndexKeys(q) == IndexTables(q) \X {q}
GraphKeys(g) == {"graphs"} \X ({g} \ {DefaultGraph})
StrKeys(q) == {"id2str"} \X ({q, graph_name[q]} \ {DefaultGraph})
InsertKeys(q) == IndexKeys(q) \cup GraphKeys(graph_name[q]) \cup StrKeys(q)

VARIABLES
  phase,     \* "check", "graphs" and "rewrite" in migrate, then "open" or "failed"
  version,   \* the key oxversion
  db,        \* the committed keys
  pending,   \* the quads that the migration has yet to rewrite
  txn,       \* the transactions
  reader,    \* the readers
  loader,    \* the bulk loader
  ops,       \* how many writes, clears and loaded batches there were
  crashes,   \* how many times the process died
  old,       \* history: the quads to be rewritten
  raced      \* history: a graph was dropped while another transaction added to it

openVars == <<txn, reader, loader, ops, raced>>
vars == <<phase, version, db, pending, openVars, crashes, old>>

\* A write batch: tables cleared by range, then keys deleted, then keys put.
NoBatch == [range |-> {}, delete |-> {}, put |-> {}]
NoTxn == [mode |-> "none", snapshot |-> {}, batch |-> NoBatch, loop |-> "none",
          default |-> FALSE]
NoReader == [status |-> "none", snapshot |-> {}, todo |-> {}, lost |-> FALSE]
NoLoader == [status |-> "none", atomic |-> TRUE, threads |-> <<>>, sst_files |-> {},
             stale |-> FALSE, given |-> {}, visible |-> {}, failed |-> FALSE]

\* The keys of a store with these quads and, besides theirs, these graph names.
StoreOf(quads, names) ==
  UNION ({InsertKeys(q) : q \in quads} \cup {GraphKeys(g) : g \in names})

\* A database of the current version, or an old one with quads to be migrated.
Init ==
  /\ phase = "check"
  /\ \/ /\ version = 2
        /\ \E quads \in SUBSET Quads, names \in SUBSET NamedGraphs : db = StoreOf(quads, names)
        /\ old = {}
     \/ /\ version \in {0, 1}
        /\ old \in SUBSET StarQuads
        /\ \E quads \in SUBSET Quads :
             db = {k \in StoreOf(quads \cup old, {}) : version = 0 => k[1] # "graphs"}
  /\ pending = {}
  /\ txn = [t \in Txns |-> NoTxn]
  /\ reader = [r \in Readers |-> NoReader]
  /\ loader = NoLoader
  /\ ops = 0
  /\ crashes = 0
  /\ raced = FALSE

-----------------------------------------------------------------------------
(* migrate *)

QuadsIn(keys) == {q \in AllQuads : \E t \in {"dspo", "gspo"} : <<t, q>> \in keys}

\* Version 0: the graph names are ingested as a table.  RocksDB refuses to finish a
\* table without entries, and then the storage cannot be opened.
MigrateGraphs ==
  LET names == UNION {GraphKeys(graph_name[q]) : q \in QuadsIn(db)} IN
  /\ phase = "check"
  /\ version = 0
  /\ phase' = IF names = {} THEN "failed" ELSE "graphs"
  /\ db' = db \cup names
  /\ UNCHANGED <<version, pending, openVars, crashes, old>>

\* Version 1: the quads with triples are listed.
MigrateTriples ==
  /\ phase = "check"
  /\ version = 1
  /\ phase' = "rewrite"
  /\ pending' = QuadsIn(db) \cap StarQuads
  /\ UNCHANGED <<version, db, openVars, crashes, old>>

\* Each is rewritten in a transaction of its own.
RewriteQuad(q) ==
  /\ phase = "rewrite"
  /\ q \in pending
  /\ pending' = pending \ {q}
  /\ db' = (db \ (IndexTables(q) \X {Written(q)})) \cup UNION {InsertKeys(n) : n \in rewritten[q]}
  /\ UNCHANGED <<phase, version, openVars, crashes, old>>

\* Mutant: the version is written before the quads are.
VersionAtOnce ==
  \/ phase = "graphs" /\ version' = 1
  \/ phase = "rewrite" /\ version' = 2

\* The steps after which the version is written.
NextVersion ==
  \/ phase = "graphs" /\ version' = 1
  \/ phase = "rewrite" /\ pending = {} /\ version' = 2

\* update_version, flushed.
update_version ==
  /\ NextVersion
  /\ phase' = "check"
  /\ pending' = {}
  /\ UNCHANGED <<db, openVars, crashes, old>>

Opened ==
  /\ phase = "check"
  /\ version = 2
  /\ phase' = "open"
  /\ UNCHANGED <<version, db, pending, openVars, crashes, old>>

\* Somebody tries again.
Reopen ==
  /\ phase = "failed"
  /\ phase' = "check"
  /\ UNCHANGED <<version, db, pending, openVars, crashes, old>>

\* The process dies and the storage is opened again.  No batch is lost by that: what
\* WalRecovery shows but for the batch before an ingestion, which is left out here.
Crash ==
  /\ crashes < MaxCrashes
  /\ crashes' = crashes + 1
  /\ phase' = "check"
  /\ pending' = {}
  /\ txn' = [t \in Txns |-> NoTxn]
  /\ reader' = [r \in Readers |-> NoReader]
  /\ loader' = NoLoader
  /\ UNCHANGED <<version, db, ops, old, raced>>

-----------------------------------------------------------------------------
(* Transactions.  A write-only one is a batch; a readable one is a batch over a *)
(* snapshot.                                                                    *)

\* What RocksDB makes of a batch: its operations in order.
Apply(keys, b) == ({k \in keys : k[1] \notin b.range} \ b.delete) \cup b.put

Put(b, keys) == [b EXCEPT !.put = @ \cup keys, !.delete = @ \ keys]
Delete(b, keys) == [b EXCEPT !.put = @ \ keys, !.delete = @ \cup keys]
DeleteRange(b, tables) ==
  [range |-> b.range \cup tables,
   delete |-> {k \in b.delete : k[1] \notin tables},
   put |-> {k \in b.put : k[1] \notin tables}]

\* What the reader of a readable transaction iterates over.
View(t) == Apply(txn[t].snapshot, txn[t].batch)

Begin(t, mode, snapshot) ==
  /\ phase = "open"
  /\ txn[t].mode = "none"
  /\ txn' = [txn EXCEPT ![t] = [NoTxn EXCEPT !.mode = mode, !.snapshot = snapshot]]
  /\ UNCHANGED <<phase, version, db, pending, reader, loader, ops, crashes, old, raced>>

start_transaction(t) == Begin(t, "write", {})
start_readable_transaction(t) == Begin(t, "readable", db)

\* An operation that changes the batch, between two others of the transaction.
Write(t, modes, b) ==
  /\ txn[t].mode \in modes
  /\ txn[t].loop = "none"
  /\ ops < MaxOps
  /\ ops' = ops + 1
  /\ txn' = [txn EXCEPT ![t].batch = b]
  /\ UNCHANGED <<phase, version, db, pending, reader, loader, crashes, old, raced>>

Modes == {"write", "readable"}

\* Mutant: the graph name is not written when the quad is.
insertQuadOnly(t, q) == Write(t, Modes, Put(txn[t].batch, IndexKeys(q) \cup StrKeys(q)))

insert(t, q) == Write(t, Modes, Put(txn[t].batch, InsertKeys(q)))

insert_named_graph(t, g) ==
  Write(t, Modes, Put(txn[t].batch, GraphKeys(g) \cup ({"id2str"} \X {g})))

remove(t, q) == Write(t, Modes, Delete(txn[t].batch, IndexTables(q) \X {Written(q)}))

\* Mutant: a clear empties id2str, too.
ClearedTablesAndStrings ==
  {DefaultTables, NamedTables, NamedTables \cup {"graphs"},
   DefaultTables \cup NamedTables \cup {"graphs", "id2str"}}

\* clear_default_graph, clear_all_named_graphs, remove_all_named_graphs, and
\* clear_all_graphs and clear, of a write-only transaction.
ClearedTables ==
  {DefaultTables, NamedTables, NamedTables \cup {"graphs"},
   DefaultTables \cup NamedTables \cup {"graphs"}}

ClearTables(t, tables) == Write(t, {"write"}, DeleteRange(txn[t].batch, tables))

\* The keys of the quads of these graphs that a transaction sees, as it removes them.
Cleared(t, graphs) ==
  UNION {IndexTables(q) \X {Written(q)} :
           q \in {r \in QuadsIn(View(t)) : graph_name[r] \in graphs}}

\* clear_graph of a readable transaction: its loop reads what nobody else changes.
clear_graph(t, g) == Write(t, {"readable"}, Delete(txn[t].batch, Cleared(t, {g})))

\* remove_named_graph of a readable transaction.
remove_named_graph(t, g) ==
  Write(t, {"readable"}, Delete(txn[t].batch, Cleared(t, {g}) \cup GraphKeys(g)))

\* The clears of a readable transaction that go through the named graphs:
\* clear_all_named_graphs and remove_all_named_graphs, and clear_all_graphs and clear,
\* which go on with the default graph.
StartLoop(t, kind, default) ==
  /\ txn[t].mode = "readable"
  /\ txn[t].loop = "none"
  /\ ops < MaxOps
  /\ ops' = ops + 1
  /\ txn' = [txn EXCEPT ![t].loop = kind, ![t].default = default]
  /\ UNCHANGED <<phase, version, db, pending, reader, loader, crashes, old, raced>>

NamesIn(keys) == {g \in NamedGraphs : <<"graphs", g>> \in keys}

\* Mutant: only a pass over no names at all is the last.
LastPassEmpty(names) == names = {}

\* A pass over fewer names than asked for is the last.
LastPass(names) == Cardinality(names) < BATCH_SIZE

\* One pass over the first names that the transaction sees.
NamedPass(t) ==
  /\ txn[t].loop # "none"
  /\ \E names \in SUBSET NamesIn(View(t)) :
       /\ \/ Cardinality(names) = BATCH_SIZE
          \/ names = NamesIn(View(t)) /\ Cardinality(names) < BATCH_SIZE
       /\ LET last == LastPass(names)
              graphs == names \cup IF last /\ txn[t].default THEN {DefaultGraph} ELSE {}
              dropped == IF txn[t].loop = "remove" THEN UNION {GraphKeys(g) : g \in names}
                         ELSE {}
          IN  txn' = [txn EXCEPT ![t].batch = Delete(@, Cleared(t, graphs) \cup dropped),
                                 ![t].loop = IF last THEN "none" ELSE @]
  /\ UNCHANGED <<phase, version, db, pending, reader, loader, ops, crashes, old, raced>>

\* history: keys that an open reader has seen are gone
LostTo(keys) ==
  [r \in Readers |-> [reader[r] EXCEPT !.lost = @ \/ ~(reader[r].snapshot \subseteq keys)]]

\* The batch is written as a whole, whatever was committed since the snapshot.
commit(t) ==
  LET b == txn[t].batch IN
  /\ txn[t].mode # "none"
  /\ txn[t].loop = "none"
  /\ db' = Apply(db, b)
  /\ txn' = [txn EXCEPT ![t] = NoTxn]
  /\ reader' = LostTo(db')
  /\ raced' = \/ raced
              \/ \E q \in QuadsIn(db \ txn[t].snapshot) : <<"graphs", graph_name[q]>> \in b.delete
  /\ UNCHANGED <<phase, version, pending, loader, ops, crashes, old>>

\* The transaction is dropped, or the write fails.
drop(t) ==
  /\ txn[t].mode # "none"
  /\ txn[t].loop = "none"
  /\ txn' = [txn EXCEPT ![t] = NoTxn]
  /\ UNCHANGED <<phase, version, db, pending, reader, loader, ops, crashes, old, raced>>

-----------------------------------------------------------------------------
(* Readers *)

snapshot(r) ==
  /\ phase = "open"
  /\ reader[r].status = "none"
  /\ reader' = [reader EXCEPT ![r] = [NoReader EXCEPT !.status = "open", !.snapshot = db]]
  /\ UNCHANGED <<phase, version, db, pending, txn, loader, ops, crashes, old, raced>>

release(r) ==
  /\ reader[r].status \notin {"none", "checking"}
  /\ reader' = [reader EXCEPT ![r] = NoReader]
  /\ UNCHANGED <<phase, version, db, pending, txn, loader, ops, crashes, old, raced>>

\* How many quads the iterator over a table returns.
Count(table, keys) == Cardinality({q \in AllQuads : <<table, q>> \in keys})
SameSize(tables, keys) == \A s, t \in tables : Count(s, keys) = Count(t, keys)

\* validate counts the quads in each table of the snapshot,
validate(r) ==
  LET seen == reader[r].snapshot IN
  /\ reader[r].status = "open"
  /\ reader' = [reader EXCEPT
       ![r].status = IF SameSize(DefaultTables, seen) /\ SameSize(NamedTables, seen)
                     THEN "checking" ELSE "corrupt",
       ![r].todo = QuadsIn(seen)]
  /\ UNCHANGED <<phase, version, db, pending, txn, loader, ops, crashes, old, raced>>

\* Mutant: the default graph is looked for among the graph names.
ExpectedGraph(q) ==
  ((IndexTables(q) \ {"dspo", "gspo"}) \X {Written(q)})
     \cup ({"graphs"} \X {graph_name[q]}) \cup StrKeys(q)

\* The keys that validate looks for, given a quad of dspo or gspo.
Expected(q) ==
  ((IndexTables(q) \ {"dspo", "gspo"}) \X {Written(q)})
     \cup GraphKeys(graph_name[q]) \cup StrKeys(q)

\* then goes through its quads and looks for their other keys in the database as it is
\* by now.
ValidateQuad(r, q) ==
  /\ reader[r].status = "checking"
  /\ q \in reader[r].todo
  /\ reader' = [reader EXCEPT
       ![r].status = IF Expected(q) \subseteq db THEN @ ELSE "corrupt",
       ![r].todo = IF Expected(q) \subseteq db THEN @ \ {q} ELSE {}]
  /\ UNCHANGED <<phase, version, db, pending, txn, loader, ops, crashes, old, raced>>

Validated(r) ==
  /\ reader[r].status = "checking"
  /\ reader[r].todo = {}
  /\ reader' = [reader EXCEPT ![r].status = "valid"]
  /\ UNCHANGED <<phase, version, db, pending, txn, loader, ops, crashes, old, raced>>

-----------------------------------------------------------------------------
(* The bulk loader *)

loaderOnly == <<phase, version, db, pending, txn, reader, ops, crashes, old, raced>>

bulk_loader(atomic) ==
  /\ phase = "open"
  /\ loader.status # "open"
  /\ loader' = [NoLoader EXCEPT !.status = "open", !.atomic = atomic]
  /\ UNCHANGED loaderOnly

\* A thread ends: it has written its files, or it has failed and removed them.
ThreadEnds(i) ==
  /\ loader.threads[i].state = "running"
  /\ \E state \in {"done", "failed"} :
       loader' = [loader EXCEPT !.threads[i].state = state]
  /\ UNCHANGED loaderOnly

\* do_commit: the files are ingested in one step and then removed.  When a removal
\* fails they stay listed, and the next ingestion does not find them.
do_commit(l) ==
  IF l.sst_files = {} THEN {[loader |-> l, ok |-> TRUE]}
  ELSE LET ingested == [l EXCEPT !.visible = @ \cup l.sst_files]
           error == [l EXCEPT !.failed = TRUE]
       IN  {[loader |-> error, ok |-> FALSE]} \cup
           IF l.stale THEN {}
           ELSE {[loader |-> [ingested EXCEPT !.sst_files = {}], ok |-> TRUE],
                 [loader |-> [ingested EXCEPT !.stale = TRUE, !.failed = TRUE], ok |-> FALSE]}

\* The keys that become visible with a new state of the loader.
Ingest(l) == UNION {InsertKeys(q) : q \in l.visible \ loader.visible}

\* All the threads that the loader may have are in use.
Full == Len(loader.threads) >= max_num_threads

\* load_batch: when all the threads are in use, join the first; its error, or that of
\* a commit without atomicity, is returned, and the caller may go on with the loader.
load_batch(batch) ==
  LET first == Head(loader.threads)
      joined == [loader EXCEPT !.threads = Tail(@), !.sst_files = @ \cup first.batch]
      refused == [loader EXCEPT !.threads = Tail(@), !.failed = TRUE]
      results == IF Full /\ first.state = "failed" THEN {[loader |-> refused, ok |-> FALSE]}
                 ELSE LET l == IF Full THEN joined ELSE loader
                      IN  IF l.atomic THEN {[loader |-> l, ok |-> TRUE]} ELSE do_commit(l)
  IN  /\ loader.status = "open"
      /\ Full => first.state # "running"
      /\ ops < MaxOps
      /\ ops' = ops + 1
      /\ \E r \in results :
           /\ db' = db \cup Ingest(r.loader)
           /\ loader' = IF ~r.ok THEN r.loader
                        ELSE [r.loader EXCEPT
                               !.given = @ \cup batch,
                               !.threads = Append(@, [batch |-> batch, state |-> "running"])]
      /\ UNCHANGED <<phase, version, pending, txn, reader, crashes, old, raced>>

Threads == {loader.threads[i] : i \in DOMAIN loader.threads}

\* Mutant: the files of the last threads replace those of the earlier ones.
JoinLast ==
  [loader EXCEPT !.threads = <<>>,
                 !.sst_files = UNION {th.batch : th \in Threads}]

\* All the threads are joined.
JoinAll ==
  [loader EXCEPT !.threads = <<>>,
                 !.sst_files = @ \cup UNION {th.batch : th \in Threads}]

\* commit of the loader: the error of a thread leaves what was not yet ingested out.
commit_loader ==
  LET states == {th.state : th \in Threads}
      results == IF "failed" \in states THEN {[loader |-> loader, ok |-> FALSE]}
                 ELSE do_commit(JoinAll)
  IN  /\ loader.status = "open"
      /\ "running" \notin states
      /\ \E r \in results :
           /\ db' = db \cup Ingest(r.loader)
           /\ loader' = [r.loader EXCEPT !.status = IF r.ok THEN "committed" ELSE "failed",
                                         !.threads = <<>>, !.sst_files = {}]
      /\ UNCHANGED <<phase, version, pending, txn, reader, ops, crashes, old, raced>>

\* The loader is dropped: its threads are cancelled, its files removed.
drop_loader ==
  /\ loader.status = "open"
  /\ loader' = [loader EXCEPT !.status = "dropped", !.threads = <<>>, !.sst_files = {}]
  /\ UNCHANGED loaderOnly

-----------------------------------------------------------------------------

Migrate == MigrateGraphs \/ MigrateTriples \/ (\E q \in StarQuads : RewriteQuad(q))
             \/ update_version \/ Opened

Transact(t) ==
  \/ start_transaction(t) \/ start_readable_transaction(t)
  \/ \E q \in Quads : insert(t, q) \/ remove(t, q)
  \/ \E g \in NamedGraphs : insert_named_graph(t, g) \/ remove_named_graph(t, g)
  \/ \E g \in NamedGraphs \cup {DefaultGraph} : clear_graph(t, g)
  \/ \E tables \in ClearedTables : ClearTables(t, tables)
  \/ \E kind \in {"clear", "remove"}, default \in BOOLEAN : StartLoop(t, kind, default)
  \/ NamedPass(t)
  \/ commit(t) \/ drop(t)

Read(r) ==
  \/ snapshot(r) \/ release(r) \/ validate(r) \/ Validated(r)
  \/ \E q \in AllQuads : ValidateQuad(r, q)

Load ==
  \/ \E atomic \in BOOLEAN : bulk_loader(atomic)
  \/ \E batch \in Batches : load_batch(batch)
  \/ \E i \in DOMAIN loader.threads : ThreadEnds(i)
  \/ commit_loader \/ drop_loader

Next ==
  \/ Migrate
  \/ Reopen
  \/ Crash
  \/ \E t \in Txns : Transact(t)
  \/ \E r \in Readers : Read(r)
  \/ Load

Spec == Init /\ [][Next]_vars

\* A call goes on until it returns: opening, and a clear of a transaction.
FairSpec == Spec /\ WF_vars(Migrate) /\ \A t \in Txns : WF_vars(NamedPass(t))

-----------------------------------------------------------------------------

Keys == ((DefaultTables \cup NamedTables) \X AllQuads) \cup ({"graphs"} \X NamedGraphs)
          \cup ({"id2str"} \X (AllQuads \cup NamedGraphs))

\* Types; and the bulk loader never has more threads than it may.
TypeOK ==
  /\ phase \in {"check", "graphs", "rewrite", "open", "failed"}
  /\ version \in 0..2
  /\ db \subseteq Keys
  /\ pending \subseteq old
  /\ \A t \in Txns :
       /\ txn[t].mode \in {"none"} \cup Modes
       /\ txn[t].loop \in {"none", "clear", "remove"}
       /\ txn[t].snapshot \cup txn[t].batch.put \subseteq Keys
  /\ \A r \in Readers :
       /\ reader[r].status \in {"none", "open", "checking", "valid", "corrupt"}
       /\ reader[r].snapshot \subseteq Keys
  /\ loader.status \in {"none", "open", "committed", "failed", "dropped"}
  /\ Len(loader.threads) <= max_num_threads
  /\ loader.visible \subseteq loader.given
  /\ ops \in 0..MaxOps

\* A quad has all of its keys, also when two transactions that know nothing of each
\* other commit and a load is ingested in between: its keys in every index, its strings,
\* and its graph among the graph names unless a transaction that dropped the graph ran
\* while another one added to it (no conflict is detected) or the migration left it.
StoreConsistent ==
  phase = "open" =>
    \A q \in QuadsIn(db) :
      /\ IndexKeys(q) \cup StrKeys(q) \subseteq db
      /\ raced \/ q \in StarQuads \/ GraphKeys(graph_name[q]) \subseteq db

\* The strings are read from the database as it is by now and not from the snapshot
\* (get_str); whatever was removed since, each quad that an open reader or a readable
\* transaction has in its snapshot can still be decoded.
SnapshotsDecode ==
  LET snapshots == {reader[r].snapshot : r \in Readers} \cup {txn[t].snapshot : t \in Txns}
  IN  \A seen \in snapshots : \A q \in QuadsIn(seen) : StrKeys(q) \subseteq db

\* validate mixes its snapshot with the database as it is by now.  It may still only
\* report corruption when a key of the snapshot was removed meanwhile, when the snapshot
\* has a quad of an unlisted graph or one that the migration left behind.
ValidateSound ==
  \A r \in Readers : reader[r].status = "corrupt" =>
    \/ reader[r].lost
    \/ \E q \in QuadsIn(reader[r].snapshot) :
         q \in StarQuads \/ ~(GraphKeys(graph_name[q]) \subseteq reader[r].snapshot)

\* A loader shows nothing before it commits unless atomicity was given up, and when it
\* commits without any of its calls having failed it shows all that it was given.
LoadIsAtomic ==
  /\ loader.atomic /\ loader.status \in {"open", "dropped"} => loader.visible = {}
  /\ loader.status = "committed" /\ ~loader.failed => loader.visible = loader.given

\* Wherever the process dies during the migration, each quad of an old database is
\* there in its old or in its new form, and in its new form once the version says so,
\* for then nobody migrates it again.
MigrationLosesNothing ==
  \A q \in old :
    LET new == UNION {InsertKeys(n) : n \in rewritten[q]}
    IN  ops = 0 => new \subseteq db \/ (version < 2 /\ IndexKeys(q) \subseteq db)

\* Opening ends with an open database or with an error, whatever there is to migrate
\* and wherever the process died before, and with an open one when the graph names are
\* there; so does every removal of all the named graphs, however many there are; a
\* clear that keeps the names ends when there are fewer than BATCH_SIZE of them.
CallsEnd ==
  /\ phase # "open" ~> phase \in {"open", "failed"}
  /\ phase # "open" /\ version > 0 ~> phase = "open"
  /\ \A t \in Txns :
       /\ txn[t].loop = "remove" ~> txn[t].loop = "none"
       /\ txn[t].loop = "clear" /\ Cardinality(NamesIn(View(t))) < BATCH_SIZE
            ~> txn[t].loop = "none"

=============================================================================
