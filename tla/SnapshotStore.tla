---------------------------- MODULE SnapshotStore ----------------------------
(***************************************************************************)
(* What a storage backend promises (storage/backend_trait.rs): readers are *)
(* point-in-time snapshots, the writes of a transaction are applied       *)
(* atomically on commit, dropping a transaction undoes all of them, and a *)
(* transaction sees its own writes.  The state of the store is a set of   *)
(* quads and of named graphs; a named graph may exist without quads.      *)
(***************************************************************************)
CONSTANTS
  Quads,          \* the quads
  NamedGraphs,    \* the names of the named graphs
  DefaultGraph,   \* the name of the default graph
  graph_name,     \* the graph of each quad
  Readers         \* the readers that may be open at the same time

Nodes == Quads \cup NamedGraphs
QuadsOf(g) == {q \in Quads : graph_name[q] = g}

VARIABLES
  store,      \* the committed content
  open,       \* whether the write transaction is open
  work,       \* the content the transaction sees
  reading,    \* the state of each reader
  snap,       \* the content each reader reads
  result      \* what the full scan of each reader returned

vars == <<store, open, work, reading, snap, result>>

ReadingStates == {"closed", "open", "done"}

TypeOK ==
  /\ store \in SUBSET Nodes
  /\ open \in BOOLEAN
  /\ work \in SUBSET Nodes
  /\ reading \in [Readers -> ReadingStates]
  /\ snap \in [Readers -> SUBSET Nodes]
  /\ result \in [Readers -> SUBSET Nodes]

Init ==
  /\ store = {}
  /\ open = FALSE
  /\ work = {}
  /\ reading = [r \in Readers |-> "closed"]
  /\ snap = [r \in Readers |-> {}]
  /\ result = [r \in Readers |-> {}]

readerVars == <<reading, snap, result>>

StartTransaction ==
  /\ ~open
  /\ open' = TRUE
  /\ work' = store
  /\ UNCHANGED <<store, readerVars>>

\* One write of the transaction: it changes what the transaction sees only.
Write(content) ==
  /\ open
  /\ work' = content
  /\ UNCHANGED <<store, open, readerVars>>

Insert(q) == Write(work \cup {q} \cup ({graph_name[q]} \ {DefaultGraph}))
InsertNamedGraph(g) == Write(work \cup {g})
Remove(q) == Write(work \ {q})
ClearGraph(g) == Write(work \ QuadsOf(g))
ClearAllNamedGraphs == Write(work \ {q \in Quads : graph_name[q] # DefaultGraph})
ClearAllGraphs == Write(work \ Quads)
RemoveNamedGraph(g) == Write(work \ (QuadsOf(g) \cup {g}))
RemoveAllNamedGraphs ==
  Write(work \ (NamedGraphs \cup {q \in Quads : graph_name[q] # DefaultGraph}))
Clear == Write({})

Commit ==
  /\ open
  /\ store' = work
  /\ open' = FALSE
  /\ work' = {}
  /\ UNCHANGED readerVars

Rollback ==
  /\ open
  /\ open' = FALSE
  /\ work' = {}
  /\ UNCHANGED <<store, readerVars>>

Snapshot(r) ==
  /\ reading[r] = "closed"
  /\ reading' = [reading EXCEPT ![r] = "open"]
  /\ snap' = [snap EXCEPT ![r] = store]
  /\ UNCHANGED <<store, open, work, result>>

\* The scan a reader completes returns the content at the time of its snapshot.
Deliver(r) ==
  /\ reading[r] = "open"
  /\ reading' = [reading EXCEPT ![r] = "done"]
  /\ result' = [result EXCEPT ![r] = snap[r]]
  /\ UNCHANGED <<store, open, work, snap>>

DropReader(r) ==
  /\ reading[r] # "closed"
  /\ reading' = [reading EXCEPT ![r] = "closed"]
  /\ snap' = [snap EXCEPT ![r] = {}]
  /\ result' = [result EXCEPT ![r] = {}]
  /\ UNCHANGED <<store, open, work>>

Next ==
  \/ StartTransaction
  \/ \E q \in Quads : Insert(q) \/ Remove(q)
  \/ \E g \in NamedGraphs : InsertNamedGraph(g) \/ RemoveNamedGraph(g)
  \/ \E g \in NamedGraphs \cup {DefaultGraph} : ClearGraph(g)
  \/ ClearAllNamedGraphs
  \/ ClearAllGraphs
  \/ RemoveAllNamedGraphs
  \/ Clear
  \/ Commit
  \/ Rollback
  \/ \E r \in Readers : Snapshot(r) \/ Deliver(r) \/ DropReader(r)

Spec == Init /\ [][Next]_vars
=============================================================================
