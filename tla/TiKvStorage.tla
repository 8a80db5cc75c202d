----------------------------- MODULE TiKvStorage -----------------------------
(***************************************************************************)
(* The storage over a TiKV cluster (storage/tikv.rs).  A quad is one key   *)
(* in each of its index tables, a graph name a key of the table GRAPHS.    *)
(* Transactions are optimistic: the puts and deletes are buffered by the   *)
(* client and sent by commit, which fails when another transaction has     *)
(* meanwhile committed one of the keys (tikv_client, external).            *)
(*                                                                         *)
(* A write-only transaction clears a table by scanning its keys in the     *)
(* transaction itself.  A readable one clears a graph by iterating over    *)
(* its quads, and the iterator runs in a TiKV transaction of its own.      *)
(*                                                                         *)
(* The table ID2STR is left out: it is only ever added to, in the same     *)
(* commit as the keys that need it.                                        *)
(***************************************************************************)
EXTENDS Integers, FiniteSets

CONSTANTS
  Quads,         \* the quads
  NamedGraphs,   \* the names of the named graphs
  DefaultGraph,  \* the name of the default graph
  graph_name,    \* the graph of each quad
  Txns,          \* the transactions that may be open at the same time
  BATCH_SIZE,    \* how many quads a pass of a clear reads
  MaxOps,        \* bound: how many writes and clears are made
  MaxLostScans   \* bound: how many table scans of the first failing clear fail

ASSUME ConstantsAssumption ==
  /\ Quads \cap NamedGraphs = {}
  /\ DefaultGraph \notin Quads \cup NamedGraphs
  /\ graph_name \in [Quads -> NamedGraphs \cup {DefaultGraph}]
  /\ BATCH_SIZE \in Nat \ {0}
  /\ MaxOps \in Nat
  /\ MaxLostScans \in Nat

\* The outer loops over the graph names read all of them in their first pass.
ASSUME FewGraphsAssumption ==
  /\ IsFiniteSet(NamedGraphs)
  /\ Cardinality(NamedGraphs) < BATCH_SIZE

DefaultTables == {"dspo", "dpos", "dosp"}
NamedTables == {"spog", "posg", "ospg", "gspo", "gpos", "gosp"}
Tables == DefaultTables \cup NamedTables \cup {"graphs"}

QuadsOf(g) == {q \in Quads : graph_name[q] = g}

IndexTables(q) == IF graph_name[q] = DefaultGraph THEN DefaultTables ELSE NamedTables

\* The table quads_for_graph scans.
GraphTable(g) == IF g = DefaultGraph THEN "dspo" ELSE "gspo"

IndexKeys(q) == IndexTables(q) \X {q}
GraphKeys(g) == {"graphs"} \X ({g} \ {DefaultGraph})
InsertKeys(q) == IndexKeys(q) \cup GraphKeys(graph_name[q])
Keys == UNION ({IndexKeys(q) : q \in Quads} \cup {GraphKeys(g) : g \in NamedGraphs})

VARIABLES
  kv,       \* the committed keys
  mode,     \* the kind of each transaction, "none" when it is not open
  content,  \* the keys each transaction sees: its snapshot and its own writes
  written,  \* the keys each transaction has put or deleted
  dirty,    \* the keys others have committed since the transaction began
  todo,     \* the graphs a running clear has yet to clear
  dropping, \* whether the running clear removes the graph names too
  ops,      \* how many writes and clears were made
  lost,     \* history: a clear went on after a table scan had failed
  blind     \* history: a clear dropped a graph and kept a quad just inserted

vars == <<kv, mode, content, written, dirty, todo, dropping, ops, lost, blind>>

Modes == {"none", "write_only", "readable"}

\* Types; and a transaction that has ended has left nothing behind.
TypeOK ==
  /\ kv \in SUBSET Keys
  /\ mode \in [Txns -> Modes]
  /\ content \in [Txns -> SUBSET Keys]
  /\ written \in [Txns -> SUBSET Keys]
  /\ dirty \in [Txns -> SUBSET Keys]
  /\ todo \in [Txns -> SUBSET (NamedGraphs \cup {DefaultGraph})]
  /\ dropping \in [Txns -> BOOLEAN]
  /\ ops \in 0..MaxOps
  /\ lost \in BOOLEAN
  /\ blind \in BOOLEAN
  /\ \A t \in Txns : mode[t] = "none" => written[t] = {} /\ dirty[t] = {}
  /\ \A t \in Txns : mode[t] # "readable" => todo[t] = {}
  /\ \A t \in Txns : todo[t] = {} => ~dropping[t]

\* The keys of a store with these quads and, besides theirs, these graph names.
StoreOf(quads, names) ==
  UNION ({InsertKeys(q) : q \in quads} \cup {GraphKeys(g) : g \in names})

\* Any store that earlier transactions can have left.
Init ==
  /\ \E quads \in SUBSET Quads, names \in SUBSET NamedGraphs : kv = StoreOf(quads, names)
  /\ mode = [t \in Txns |-> "none"]
  /\ content = [t \in Txns |-> {}]
  /\ written = [t \in Txns |-> {}]
  /\ dirty = [t \in Txns |-> {}]
  /\ todo = [t \in Txns |-> {}]
  /\ dropping = [t \in Txns |-> FALSE]
  /\ ops = 0
  /\ lost = FALSE
  /\ blind = FALSE

-----------------------------------------------------------------------------
(* Transactions of the client library (external) *)

\* begin_optimistic: the transaction sees the keys committed so far.
Begin(t, m) ==
  /\ mode[t] = "none"
  /\ mode' = [mode EXCEPT ![t] = m]
  /\ content' = [content EXCEPT ![t] = kv]
  /\ UNCHANGED <<kv, written, dirty, todo, dropping, ops, lost, blind>>

\* The transaction is over; what it buffered is gone.
End(t) ==
  /\ mode' = [mode EXCEPT ![t] = "none"]
  /\ content' = [content EXCEPT ![t] = {}]
  /\ written' = [written EXCEPT ![t] = {}]

\* Buffer deletes, then puts.
Buffer(t, deletes, puts) ==
  /\ content' = [content EXCEPT ![t] = (@ \ deletes) \cup puts]
  /\ written' = [written EXCEPT ![t] = @ \cup deletes \cup puts]

\* The transaction is open and not in the middle of a clear.
Idle(t) == mode[t] # "none" /\ todo[t] = {}

\* A write or a clear of the transaction begins.
Operation(t) ==
  /\ Idle(t)
  /\ ops < MaxOps
  /\ ops' = ops + 1

start_transaction(t) == Begin(t, "write_only")
start_readable_transaction(t) == Begin(t, "readable")

\* The commit takes effect: first committer wins.
CommitSucceeds(t) ==
  /\ Idle(t)
  /\ written[t] \cap dirty[t] = {}
  /\ kv' = (kv \ written[t]) \cup (written[t] \cap content[t])
  /\ dirty' = [u \in Txns |->
                 IF u = t \/ mode[u] = "none" THEN {} ELSE dirty[u] \cup written[t]]
  /\ End(t)
  /\ UNCHANGED <<todo, dropping, ops, lost, blind>>

\* commit returns an error, or the transaction is dropped before it: rollback.
RollBack(t) ==
  /\ Idle(t)
  /\ dirty' = [dirty EXCEPT ![t] = {}]
  /\ End(t)
  /\ UNCHANGED <<kv, todo, dropping, ops, lost, blind>>

-----------------------------------------------------------------------------
(* Writes, the same in both kinds of transaction *)

\* Mutant: the graph name is only written when the transaction does not see it.
InsertSkipsKnownGraph(t, q) ==
  /\ Operation(t)
  /\ Buffer(t, {}, IndexKeys(q) \cup (GraphKeys(graph_name[q]) \ content[t]))
  /\ UNCHANGED <<kv, mode, dirty, todo, dropping, lost, blind>>

insert(t, q) ==
  /\ Operation(t)
  /\ Buffer(t, {}, InsertKeys(q))
  /\ UNCHANGED <<kv, mode, dirty, todo, dropping, lost, blind>>

insert_named_graph(t, g) ==
  /\ Operation(t)
  /\ Buffer(t, {}, GraphKeys(g))
  /\ UNCHANGED <<kv, mode, dirty, todo, dropping, lost, blind>>

\* Mutant: an index is forgotten.
RemoveForgetsIndex(quads) == {k \in UNION {IndexKeys(q) : q \in quads} : k[1] # "ospg"}

\* The keys that removing the quads deletes.
remove_encoded(quads) == UNION {IndexKeys(q) : q \in quads}

remove(t, q) ==
  /\ Operation(t)
  /\ Buffer(t, remove_encoded({q}), {})
  /\ UNCHANGED <<kv, mode, dirty, todo, dropping, lost, blind>>

-----------------------------------------------------------------------------
(* Clears of the write-only transaction *)

\* delete_prefix of each of the tables: scan in the transaction, delete what was
\* found.  The scan of a table may fail, and the table is then left as it is.
DeletePrefixes(t, tables) ==
  /\ Operation(t)
  /\ mode[t] = "write_only"
  /\ \E failed \in SUBSET tables :
       /\ Cardinality(failed) <= IF lost THEN 0 ELSE MaxLostScans
       /\ Buffer(t, {k \in content[t] : k[1] \in tables \ failed}, {})
       /\ lost' = (lost \/ failed # {})
  /\ UNCHANGED <<kv, mode, dirty, todo, dropping, blind>>

clear_default_graph(t) == DeletePrefixes(t, DefaultTables)
clear_all_named_graphs(t) == DeletePrefixes(t, NamedTables)
remove_all_named_graphs(t) == DeletePrefixes(t, NamedTables \cup {"graphs"})

\* clear_all_graphs removes the graph names, as clear does.
clear_all_graphs(t) == DeletePrefixes(t, Tables)

-----------------------------------------------------------------------------
(* Clears of the readable transaction *)

\* Start to clear the graphs, one after the other.
StartClear(t, graphs, drop) ==
  /\ Operation(t)
  /\ mode[t] = "readable"
  /\ todo' = [todo EXCEPT ![t] = graphs]
  /\ dropping' = [dropping EXCEPT ![t] = drop /\ graphs # {}]
  /\ UNCHANGED <<kv, mode, content, written, dirty, lost, blind>>

\* The list of graph names is read in the transaction; it is empty on an error.
named_graphs(t) == {{g \in NamedGraphs : GraphKeys(g) \subseteq content[t]}, {}}

clear_graph(t, g) == StartClear(t, {g}, FALSE)
remove_named_graph(t, g) == StartClear(t, {g}, TRUE)
ClearNamed(t) == \E gs \in named_graphs(t) : StartClear(t, gs, FALSE)
ClearAll(t) == \E gs \in named_graphs(t) : StartClear(t, gs \cup {DefaultGraph}, FALSE)
RemoveNamed(t) == \E gs \in named_graphs(t) : StartClear(t, gs, TRUE)
RemoveAll(t) == \E gs \in named_graphs(t) : StartClear(t, gs \cup {DefaultGraph}, TRUE)

\* The quads of a graph that an iterator returns: the committed ones, read in a
\* transaction begun now.
QuadsForGraph(t, g) == {q \in QuadsOf(g) : <<GraphTable(g), q>> \in kv}

\* A pass of the loop of clear_encoded_graph that reads BATCH_SIZE quads: delete
\* them and read again.
FullPass(t, g) ==
  /\ \E quads \in SUBSET QuadsForGraph(t, g) :
       /\ Cardinality(quads) = BATCH_SIZE
       /\ Buffer(t, remove_encoded(quads), {})
  /\ UNCHANGED <<kv, mode, dirty, todo, dropping, ops, lost, blind>>

\* A pass that reads fewer: the graph is done, and its name is deleted when the
\* clear drops it.
LastPass(t, g) ==
  LET quads == QuadsForGraph(t, g)
      names == IF dropping[t] THEN GraphKeys(g) ELSE {}
      kept == remove_encoded(QuadsOf(g) \ quads) \cap written[t] \cap content[t]
  IN  /\ Cardinality(quads) < BATCH_SIZE
      /\ Buffer(t, remove_encoded(quads) \cup names, {})
      /\ todo' = [todo EXCEPT ![t] = @ \ {g}]
      /\ dropping' = [dropping EXCEPT ![t] = @ /\ todo[t] # {g}]
      /\ blind' = (blind \/ (names # {} /\ kept # {}))
      /\ UNCHANGED <<kv, mode, dirty, ops, lost>>

clear_encoded_graph(t, g) ==
  /\ g \in todo[t]
  /\ FullPass(t, g) \/ LastPass(t, g)

\* The iterator yields an error: the clear stops where it is.
ClearFails(t) ==
  /\ todo[t] # {}
  /\ todo' = [todo EXCEPT ![t] = {}]
  /\ dropping' = [dropping EXCEPT ![t] = FALSE]
  /\ UNCHANGED <<kv, mode, content, written, dirty, ops, lost, blind>>

-----------------------------------------------------------------------------

Write(t) ==
  \/ \E q \in Quads : insert(t, q) \/ remove(t, q)
  \/ \E g \in NamedGraphs : insert_named_graph(t, g)

Clear(t) ==
  \/ clear_default_graph(t)
  \/ clear_all_named_graphs(t)
  \/ remove_all_named_graphs(t)
  \/ clear_all_graphs(t)
  \/ \E g \in NamedGraphs \cup {DefaultGraph} : clear_graph(t, g)
  \/ \E g \in NamedGraphs : remove_named_graph(t, g)
  \/ ClearNamed(t)
  \/ ClearAll(t)
  \/ RemoveNamed(t)
  \/ RemoveAll(t)
  \/ \E g \in NamedGraphs \cup {DefaultGraph} : clear_encoded_graph(t, g)
  \/ ClearFails(t)

Next ==
  \E t \in Txns :
    \/ start_transaction(t)
    \/ start_readable_transaction(t)
    \/ Write(t)
    \/ Clear(t)
    \/ CommitSucceeds(t)
    \/ RollBack(t)

Spec == Init /\ [][Next]_vars

-----------------------------------------------------------------------------

\* What validate compares: a quad is in all of its index tables or in none,
\* whatever transactions inserted, removed and cleared it side by side, as long as
\* no clear went on after a failed table scan.
IndexesAgree ==
  ~lost => \A q \in Quads : IndexKeys(q) \subseteq kv \/ IndexKeys(q) \cap kv = {}

\* A named graph that has quads is listed, although one transaction may drop the
\* graph while another inserts into it: insert writes the graph name even when it
\* exists, so that the two conflict.  Excepted are a clear that went on after a
\* failed scan and a clear that missed a quad its own transaction had inserted.
QuadsHaveGraph ==
  ~lost /\ ~blind =>
    \A q \in Quads : IndexKeys(q) \cap kv # {} => GraphKeys(graph_name[q]) \subseteq kv

=============================================================================
