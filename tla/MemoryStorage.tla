---------------------------- MODULE MemoryStorage ----------------------------
(***************************************************************************)
(* The multi-version in-memory storage (storage/memory.rs).  Every quad    *)
(* and every graph name carries a version range.  One write transaction    *)
(* holds the transaction mutex at a time; it stamps ranges with its        *)
(* transaction id, which is larger than every version, and logs what it    *)
(* stamped.  Commit and rollback rewrite the logged ranges one by one,     *)
(* each under its own lock, while readers test ranges one by one too.      *)
(*                                                                         *)
(* The log is a set: an entry logged twice is rewritten twice, the second  *)
(* time with no effect, and the model visits the entries in every order.   *)
(***************************************************************************)
EXTENDS VersionRange

CONSTANTS
  Quads,            \* the quads
  NamedGraphs,      \* the names of the named graphs
  DefaultGraph,     \* the name of the default graph
  graph_name,       \* the graph of each quad
  Readers,          \* the readers that may be open at the same time
  TransactionBase,  \* the first value of the transaction counter
  MaxTransactions   \* bound: how many transactions are started

ASSUME ConstantsAssumption ==
  /\ Quads # {}
  /\ Quads \cap NamedGraphs = {}
  /\ DefaultGraph \notin Quads \cup NamedGraphs
  /\ graph_name \in [Quads -> NamedGraphs \cup {DefaultGraph}]

\* usize::MAX >> 1 is above every version the storage reaches before the
\* transaction counter wraps around.
ASSUME CountersAssumption ==
  /\ TransactionBase \in Nat
  /\ MaxTransactions \in Nat
  /\ MaxTransactions <= TransactionBase

Nodes == Quads \cup NamedGraphs
QuadsOf(g) == {q \in Quads : graph_name[q] = g}

VARIABLES
  range,                \* the version range of each quad and graph name
  version_counter,      \* the version of the last commit
  transaction_counter,  \* the id of the last transaction started
  phase,                \* what the holder of the transaction mutex is doing
  snapshot_id,          \* the version the transaction started from
  log,                  \* what the transaction stamped and not yet rewrote
  reading,              \* whether each reader exists
  version,              \* the snapshot_id of each reader
  todo,                 \* what the scan of each reader has not yet tested
  seen                  \* what the scan of each reader found

readerVars == <<reading, version, todo, seen>>
txnVars == <<range, version_counter, transaction_counter, phase, snapshot_id, log>>
vars == <<txnVars, readerVars>>

Phases == {"idle", "open", "committing", "rolling_back"}

\* Types; and no more versions were committed than transactions started, so that
\* the two counters never meet.
TypeOK ==
  /\ range \in [Nodes -> Seq(Nat)]
  /\ version_counter \in Nat
  /\ transaction_counter \in Nat
  /\ version_counter + TransactionBase <= transaction_counter
  /\ phase \in Phases
  /\ snapshot_id \in Nat
  /\ log \in SUBSET Nodes
  /\ reading \in [Readers -> BOOLEAN]
  /\ version \in [Readers -> Nat]
  /\ todo \in [Readers -> SUBSET Nodes]
  /\ seen \in [Readers -> SUBSET Nodes]

Init ==
  /\ range = [n \in Nodes |-> Empty]
  /\ version_counter = 0
  /\ transaction_counter = TransactionBase
  /\ phase = "idle"
  /\ snapshot_id = 0
  /\ log = {}
  /\ reading = [r \in Readers |-> FALSE]
  /\ version = [r \in Readers |-> 0]
  /\ todo = [r \in Readers |-> {}]
  /\ seen = [r \in Readers |-> {}]

\* What a reader of a version (or, for the reader of the transaction, of its
\* transaction id) sees.
Visible(v) == {n \in Nodes : Contains(range[n], v)}

-----------------------------------------------------------------------------
(* The write transaction *)

\* The lock on the transaction counter is held until the transaction is
\* committed or dropped.
StartTransaction ==
  /\ phase = "idle"
  /\ transaction_counter < TransactionBase + MaxTransactions
  /\ transaction_counter' = transaction_counter + 1
  /\ snapshot_id' = version_counter
  /\ phase' = "open"
  /\ log' = {}
  /\ UNCHANGED <<range, version_counter, readerVars>>

\* Adds the nodes of one set and removes those of another, and logs the
\* ranges that changed.
Stamp(added, removed) ==
  /\ phase = "open"
  /\ range' = [n \in Nodes |->
                 IF n \in added THEN Add(range[n], transaction_counter)
                 ELSE IF n \in removed THEN Remove(range[n], transaction_counter)
                 ELSE range[n]]
  /\ log' = log \cup {n \in added : ~IsOpen(range[n])}
                \cup {n \in removed : IsOpen(range[n])}
  /\ UNCHANGED <<version_counter, transaction_counter, phase, snapshot_id, readerVars>>

\* Mutant: the graph of the quad is not added.
InsertQuadOnly(q) == Stamp({q}, {})

\* The graph of a quad that is already present is not added again.
Insert(q) ==
  Stamp(IF IsOpen(range[q]) THEN {} ELSE {q} \cup ({graph_name[q]} \ {DefaultGraph}), {})

InsertNamedGraph(g) == Stamp({g}, {})

RemoveQuad(q) == Stamp({}, {q})

ClearGraph(g) == Stamp({}, QuadsOf(g))

\* Goes through the graphs the transaction sees.
QuadsOfVisibleGraphs ==
  UNION {QuadsOf(g) : g \in NamedGraphs \cap Visible(transaction_counter)}

ClearAllNamedGraphs == Stamp({}, QuadsOfVisibleGraphs)

ClearAllGraphs == Stamp({}, Quads)

RemoveNamedGraph(g) == Stamp({}, QuadsOf(g) \cup {g})

RemoveAllNamedGraphs == Stamp({}, QuadsOfVisibleGraphs \cup NamedGraphs)

Clear == Stamp({}, Nodes)

-----------------------------------------------------------------------------
(* Commit and rollback *)

new_version_id == snapshot_id + 1

BeginCommit ==
  /\ phase = "open"
  /\ phase' = "committing"
  /\ UNCHANGED <<range, version_counter, transaction_counter, snapshot_id, log, readerVars>>

CommitNode(n) ==
  /\ phase = "committing"
  /\ n \in log
  /\ range' = [range EXCEPT ![n] =
                 UpgradeTransaction(@, transaction_counter, new_version_id)]
  /\ log' = log \ {n}
  /\ UNCHANGED <<version_counter, transaction_counter, phase, snapshot_id, readerVars>>

\* Mutant: the version is published before the log is rewritten.
PublishEarly ==
  /\ phase = "committing"
  /\ version_counter' = new_version_id
  /\ phase' = "idle"
  /\ UNCHANGED <<range, transaction_counter, snapshot_id, log, readerVars>>

\* The new version becomes readable only after the whole log is rewritten.
FinishCommit ==
  /\ phase = "committing"
  /\ log = {}
  /\ version_counter' = new_version_id
  /\ phase' = "idle"
  /\ UNCHANGED <<range, transaction_counter, snapshot_id, log, readerVars>>

\* Drop of a transaction that is not committed.
BeginRollback ==
  /\ phase = "open"
  /\ phase' = "rolling_back"
  /\ UNCHANGED <<range, version_counter, transaction_counter, snapshot_id, log, readerVars>>

\* Mutant: removals are not rolled back.
RollbackAddsOnly(n) ==
  /\ phase = "rolling_back"
  /\ n \in log
  /\ range' = [range EXCEPT ![n] =
                 IF IsOpen(@) THEN RollbackTransaction(@, transaction_counter) ELSE @]
  /\ log' = log \ {n}
  /\ UNCHANGED <<version_counter, transaction_counter, phase, snapshot_id, readerVars>>

RollbackNode(n) ==
  /\ phase = "rolling_back"
  /\ n \in log
  /\ range' = [range EXCEPT ![n] = RollbackTransaction(@, transaction_counter)]
  /\ log' = log \ {n}
  /\ UNCHANGED <<version_counter, transaction_counter, phase, snapshot_id, readerVars>>

FinishRollback ==
  /\ phase = "rolling_back"
  /\ log = {}
  /\ phase' = "idle"
  /\ UNCHANGED <<range, version_counter, transaction_counter, snapshot_id, log, readerVars>>

-----------------------------------------------------------------------------
(* Readers: a snapshot, then a scan that tests one node at a time *)

Snapshot(r) ==
  /\ ~reading[r]
  /\ reading' = [reading EXCEPT ![r] = TRUE]
  /\ version' = [version EXCEPT ![r] = version_counter]
  /\ todo' = [todo EXCEPT ![r] = Nodes]
  /\ seen' = [seen EXCEPT ![r] = {}]
  /\ UNCHANGED txnVars

ScanNode(r, n) ==
  /\ reading[r]
  /\ n \in todo[r]
  /\ todo' = [todo EXCEPT ![r] = @ \ {n}]
  /\ seen' = [seen EXCEPT ![r] =
                IF Contains(range[n], version[r]) THEN @ \cup {n} ELSE @]
  /\ UNCHANGED <<reading, version, txnVars>>

DropReader(r) ==
  /\ reading[r]
  /\ reading' = [reading EXCEPT ![r] = FALSE]
  /\ version' = [version EXCEPT ![r] = 0]
  /\ todo' = [todo EXCEPT ![r] = {}]
  /\ seen' = [seen EXCEPT ![r] = {}]
  /\ UNCHANGED txnVars

-----------------------------------------------------------------------------
Writes ==
  \/ \E q \in Quads : Insert(q)
  \/ \E q \in Quads : RemoveQuad(q)
  \/ \E g \in NamedGraphs : InsertNamedGraph(g)
  \/ \E g \in NamedGraphs : RemoveNamedGraph(g)
  \/ \E g \in NamedGraphs \cup {DefaultGraph} : ClearGraph(g)
  \/ ClearAllNamedGraphs
  \/ ClearAllGraphs
  \/ RemoveAllNamedGraphs
  \/ Clear

Commit == BeginCommit \/ (\E n \in Nodes : CommitNode(n)) \/ FinishCommit
Rollback == BeginRollback \/ (\E n \in Nodes : RollbackNode(n)) \/ FinishRollback

Next ==
  \/ StartTransaction
  \/ Writes
  \/ Commit
  \/ Rollback
  \/ \E r \in Readers : Snapshot(r)
  \/ \E r \in Readers : \E n \in Nodes : ScanNode(r, n)
  \/ \E r \in Readers : DropReader(r)

Spec == Init /\ [][Next]_vars

-----------------------------------------------------------------------------
(* Properties *)

\* The transaction has not been dropped: what it wrote may still be committed.
Running == phase \in {"open", "committing"}

\* The named graph of every quad of the content is in the content.
GraphsIn(content) ==
  \A q \in content \cap Quads :
    graph_name[q] # DefaultGraph => graph_name[q] \in content

\* A quad of a named graph is visible only together with its graph, in every
\* version a reader may hold and in the open transaction.  insert does not add
\* the graph of a quad that is already there, and clear_all_named_graphs visits
\* visible graphs only: both rely on it.
QuadsHaveGraph ==
  /\ \A v \in 0..version_counter : GraphsIn(Visible(v))
  /\ Running => GraphsIn(Visible(transaction_counter))

\* While no transaction runs, no range mentions a transaction id: whatever a
\* commit or a rollback left behind would show up in later transactions.
NoResidue ==
  phase = "idle" =>
    \A n \in Nodes : \A i \in 1..Len(range[n]) : range[n][i] <= version_counter

\* The storage implements the contract of the storage traits: snapshots do not
\* move while commits rewrite ranges under them, a commit is atomic, a drop
\* undoes everything, and a transaction sees its own writes.
Contract == INSTANCE SnapshotStore WITH
  store <- Visible(version_counter),
  open <- Running,
  work <- IF Running THEN Visible(transaction_counter) ELSE {},
  reading <- [r \in Readers |->
                IF ~reading[r] THEN "closed" ELSE IF todo[r] = {} THEN "done" ELSE "open"],
  snap <- [r \in Readers |-> IF reading[r] THEN Visible(version[r]) ELSE {}],
  result <- [r \in Readers |-> IF todo[r] = {} THEN seen[r] ELSE {}]

ImplementsContract == Contract!Spec
=============================================================================
