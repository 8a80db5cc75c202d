-------------------------- MODULE TiKvStorageProofs --------------------------
(***************************************************************************)
(* The index tables agree, and a graph with quads is listed, for any       *)
(* number of transactions, quads and graphs.                               *)
(***************************************************************************)
EXTENDS TiKvStorage, TLAPS

\* The provers, and their time limits in seconds, that the steps are tried with.
USE ZenonT(5), SMTT(20), ZenonT(20), SMTT(60)

\* The set has all of the index keys of a quad or none.
Uniform(S) == \A q \in Quads : IndexKeys(q) \subseteq S \/ IndexKeys(q) \cap S = {}

\* Not only the committed keys agree, but what each transaction sees and writes.
Agree ==
  ~lost => /\ Uniform(kv)
           /\ \A t \in Txns : Uniform(content[t]) /\ Uniform(written[t])

AgreeInv == TypeOK /\ Agree

NamedQuads == {q \in Quads : graph_name[q] # DefaultGraph}

\* The key of a named quad that the iterator of a graph reads, and its graph's name.
QuadKey(q) == <<"gspo", q>>
NameKey(q) == <<"graphs", graph_name[q]>>

\* How a transaction stands to a quad.  What it inserted, it inserted with the graph
\* name.  A committed quad that it neither sees nor wrote came with a commit of the
\* graph name.  And once it has deleted the graph name, every committed quad of the
\* graph is one it wrote or one that came so.
Guarded(t, q) ==
  /\ QuadKey(q) \in written[t] \cap content[t] => NameKey(q) \in written[t] \cap content[t]
  /\ QuadKey(q) \in kv \ (content[t] \cup written[t]) => NameKey(q) \in dirty[t]
  /\ QuadKey(q) \in kv \ written[t] /\ NameKey(q) \in written[t] \ content[t]
       => NameKey(q) \in dirty[t]

\* The same after the transaction has buffered deletes D and puts P.
GuardedAfter(t, D, P, q) ==
  LET C == (content[t] \ D) \cup P
      W == (written[t] \cup D) \cup P
  IN  /\ QuadKey(q) \in W \cap C => NameKey(q) \in W \cap C
      /\ QuadKey(q) \in kv \ (C \cup W) => NameKey(q) \in dirty[t]
      /\ QuadKey(q) \in kv \ W /\ NameKey(q) \in W \ C => NameKey(q) \in dirty[t]

Listed ==
  ~lost /\ ~blind =>
    \A q \in NamedQuads : /\ QuadKey(q) \in kv => NameKey(q) \in kv
                          /\ \A t \in Txns : mode[t] # "none" => Guarded(t, q)

ListedInv == AgreeInv /\ Listed

Graphs == NamedGraphs \cup {DefaultGraph}

\* The groups of tables that the clears of a write-only transaction scan.
Groups == {DefaultTables, NamedTables, NamedTables \cup {"graphs"}, Tables}

-----------------------------------------------------------------------------
(* Keys *)

\* The keys that insert and insert_named_graph put are keys of the store.
LEMMA KeysFacts ==
  /\ \A q \in Quads : IndexKeys(q) \subseteq Keys
  /\ \A g \in Graphs : GraphKeys(g) \subseteq Keys
  /\ \A q \in Quads : InsertKeys(q) \subseteq Keys
  /\ \A R \in SUBSET Quads : remove_encoded(R) \subseteq Keys
<1>1. \A q \in Quads : IndexKeys(q) \subseteq Keys
  BY DEF Keys
<1>2. \A g \in NamedGraphs : GraphKeys(g) \subseteq Keys
  BY DEF Keys
<1>3. GraphKeys(DefaultGraph) = {}
  BY DEF GraphKeys
<1>4. \A q \in Quads : graph_name[q] \in Graphs
  BY ConstantsAssumption DEF Graphs
<1> QED
  BY <1>1, <1>2, <1>3, <1>4 DEF InsertKeys, Graphs, remove_encoded

\* The index keys of different quads, and index keys and graph names, are
\* different keys: insert and remove of one quad never touch another.
LEMMA RowFacts ==
  /\ \A q \in Quads : IndexKeys(q) # {}
  /\ \A q, r \in Quads : q # r => IndexKeys(q) \cap IndexKeys(r) = {}
  /\ \A q \in Quads, g \in Graphs : IndexKeys(q) \cap GraphKeys(g) = {}
  /\ \A g, h \in Graphs : g # h => GraphKeys(g) \cap GraphKeys(h) = {}
<1>1. ASSUME NEW q \in Quads PROVE IndexKeys(q) # {}
  <2>1. CASE graph_name[q] = DefaultGraph
    <3>1. <<"dspo", q>> \in IndexKeys(q)
      BY <2>1 DEF IndexKeys, IndexTables, DefaultTables
    <3> QED BY <3>1
  <2>2. CASE graph_name[q] # DefaultGraph
    <3>1. <<"gspo", q>> \in IndexKeys(q)
      BY <2>2 DEF IndexKeys, IndexTables, NamedTables
    <3> QED BY <3>1
  <2> QED BY <2>1, <2>2
<1>2. ASSUME NEW q \in Quads, NEW r \in Quads, q # r
      PROVE  IndexKeys(q) \cap IndexKeys(r) = {}
  BY <1>2 DEF IndexKeys
<1>3. ASSUME NEW q \in Quads, NEW g \in Graphs
      PROVE  IndexKeys(q) \cap GraphKeys(g) = {}
  BY DEF IndexKeys, GraphKeys, IndexTables, DefaultTables, NamedTables
<1>4. ASSUME NEW g, NEW h, g # h PROVE GraphKeys(g) \cap GraphKeys(h) = {}
  BY <1>4 DEF GraphKeys
<1> QED
  BY <1>1, <1>2, <1>3, <1>4

\* Sets that agree are closed under what buffering and commit do with them.
LEMMA UniformSets ==
  ASSUME NEW A, NEW B, Uniform(A), Uniform(B)
  PROVE  Uniform(A \cup B) /\ Uniform(A \cap B) /\ Uniform(A \ B)
BY DEF Uniform

\* The keys of whole quads and of graph names agree.
LEMMA UniformKeys ==
  /\ Uniform({})
  /\ \A R \in SUBSET Quads : Uniform(remove_encoded(R))
  /\ \A g \in Graphs : Uniform(GraphKeys(g))
  /\ \A q \in Quads : Uniform(IndexKeys(q)) /\ Uniform(InsertKeys(q))
<1>1. Uniform({})
  BY DEF Uniform
<1>2. ASSUME NEW R \in SUBSET Quads PROVE Uniform(remove_encoded(R))
  <2> SUFFICES ASSUME NEW q \in Quads
      PROVE  IndexKeys(q) \subseteq remove_encoded(R) \/ IndexKeys(q) \cap remove_encoded(R) = {}
    BY DEF Uniform
  <2>1. CASE q \in R
    BY <2>1 DEF remove_encoded
  <2>2. CASE q \notin R
    BY <2>2, RowFacts DEF remove_encoded
  <2> QED BY <2>1, <2>2
<1>3. ASSUME NEW g \in Graphs PROVE Uniform(GraphKeys(g))
  BY RowFacts DEF Uniform
<1>4. ASSUME NEW q \in Quads PROVE Uniform(IndexKeys(q))
  BY RowFacts DEF Uniform
<1>5. ASSUME NEW q \in Quads PROVE Uniform(InsertKeys(q))
  <2>1. graph_name[q] \in Graphs
    BY ConstantsAssumption DEF Graphs
  <2> QED BY <1>3, <1>4, <2>1, UniformSets DEF InsertKeys
<1> QED
  BY <1>1, <1>2, <1>3, <1>4, <1>5

\* The groups of tables that the clears of a write-only transaction scan hold all
\* of the index tables of a quad or none.
LEMMA UniformPrefixes ==
  ASSUME NEW S, Uniform(S),
         NEW tables \in Groups
  PROVE  Uniform({k \in S : k[1] \in tables})
<1> SUFFICES ASSUME NEW q \in Quads
    PROVE  \/ IndexKeys(q) \subseteq {k \in S : k[1] \in tables}
           \/ IndexKeys(q) \cap {k \in S : k[1] \in tables} = {}
  BY DEF Uniform
<1>1. \A k \in IndexKeys(q) : k[1] \in IndexTables(q)
  BY DEF IndexKeys
<1>2. IndexTables(q) \subseteq tables \/ IndexTables(q) \cap tables = {}
  BY DEF Groups, IndexTables, DefaultTables, NamedTables, Tables
<1>3. IndexKeys(q) \subseteq S \/ IndexKeys(q) \cap S = {}
  BY DEF Uniform
<1> QED
  BY <1>1, <1>2, <1>3
-----------------------------------------------------------------------------
(* Types *)

\* The handlers, with the clears that differ only in what they clear put together.
LEMMA Steps ==
  ASSUME Next
  PROVE  \E t \in Txns :
           \/ \E m \in {"write_only", "readable"} : Begin(t, m)
           \/ \E q \in Quads : insert(t, q) \/ remove(t, q)
           \/ \E g \in NamedGraphs : insert_named_graph(t, g)
           \/ \E tables \in Groups : DeletePrefixes(t, tables)
           \/ \E graphs \in SUBSET Graphs, drop \in BOOLEAN : StartClear(t, graphs, drop)
           \/ \E g \in Graphs : clear_encoded_graph(t, g)
           \/ ClearFails(t)
           \/ CommitSucceeds(t)
           \/ RollBack(t)
<1>1. PICK t \in Txns : \/ start_transaction(t) \/ start_readable_transaction(t)
                       \/ Write(t) \/ Clear(t) \/ CommitSucceeds(t) \/ RollBack(t)
  BY DEF Next
<1>2. ASSUME NEW gs \in named_graphs(t) PROVE gs \in SUBSET Graphs /\ gs \cup {DefaultGraph} \in SUBSET Graphs
  BY DEF named_graphs, Graphs
<1>3. ASSUME Clear(t)
      PROVE  \/ \E tables \in Groups : DeletePrefixes(t, tables)
             \/ \E graphs \in SUBSET Graphs, drop \in BOOLEAN : StartClear(t, graphs, drop)
             \/ \E g \in Graphs : clear_encoded_graph(t, g)
             \/ ClearFails(t)
  <2>1. CASE \/ clear_default_graph(t) \/ clear_all_named_graphs(t)
             \/ remove_all_named_graphs(t) \/ clear_all_graphs(t)
    BY <2>1 DEF clear_default_graph, clear_all_named_graphs, remove_all_named_graphs,
                clear_all_graphs, Groups
  <2>2. CASE \/ \E g \in NamedGraphs \cup {DefaultGraph} : clear_graph(t, g)
             \/ \E g \in NamedGraphs : remove_named_graph(t, g)
    BY <2>2 DEF clear_graph, remove_named_graph, Graphs
  <2>3. CASE ClearNamed(t) \/ ClearAll(t) \/ RemoveNamed(t) \/ RemoveAll(t)
    BY <2>3, <1>2 DEF ClearNamed, ClearAll, RemoveNamed, RemoveAll
  <2>4. CASE (\E g \in NamedGraphs \cup {DefaultGraph} : clear_encoded_graph(t, g)) \/ ClearFails(t)
    BY <2>4 DEF Graphs
  <2> QED
    BY <1>3, <2>1, <2>2, <2>3, <2>4 DEF Clear
<1> QED
  BY <1>1, <1>3 DEF start_transaction, start_readable_transaction, Write

\* Buffering keys keeps the types of the buffers.
LEMMA BufferType ==
  ASSUME TypeOK, NEW t \in Txns, mode[t] # "none",
         NEW D \in SUBSET Keys, NEW P \in SUBSET Keys, Buffer(t, D, P), mode' = mode
  PROVE  /\ content' \in [Txns -> SUBSET Keys]
         /\ written' \in [Txns -> SUBSET Keys]
         /\ \A u \in Txns : mode'[u] = "none" => written'[u] = {}
BY DEF TypeOK, Buffer

\* Every handler keeps the types, and a transaction that ends leaves nothing behind.
LEMMA TypeStep == TypeOK /\ [Next]_vars => TypeOK'
<1> SUFFICES ASSUME TypeOK, [Next]_vars PROVE TypeOK'
  OBVIOUS
<1>1. ASSUME NEW t \in Txns, NEW m \in {"write_only", "readable"}, Begin(t, m) PROVE TypeOK'
  BY <1>1 DEF TypeOK, Begin, Modes
<1>2. ASSUME NEW t \in Txns, NEW D \in SUBSET Keys, NEW P \in SUBSET Keys,
             Operation(t), Buffer(t, D, P), lost' \in BOOLEAN,
             UNCHANGED <<kv, mode, dirty, todo, dropping, blind>>
      PROVE  TypeOK'
  <2>1. mode[t] # "none" /\ ops' \in 0..MaxOps
    BY <1>2, ConstantsAssumption DEF TypeOK, Operation, Idle
  <2>2. /\ content' \in [Txns -> SUBSET Keys]
        /\ written' \in [Txns -> SUBSET Keys]
        /\ \A u \in Txns : mode'[u] = "none" => written'[u] = {}
    BY <1>2, <2>1, BufferType
  <2> QED
    BY <1>2, <2>1, <2>2 DEF TypeOK
<1>3. ASSUME NEW t \in Txns, NEW q \in Quads, insert(t, q) \/ remove(t, q) PROVE TypeOK'
  <2>1. InsertKeys(q) \in SUBSET Keys /\ remove_encoded({q}) \in SUBSET Keys /\ {} \in SUBSET Keys
    BY KeysFacts
  <2>2. lost' \in BOOLEAN /\ UNCHANGED <<kv, mode, dirty, todo, dropping, blind>> /\ Operation(t)
    BY <1>3 DEF insert, remove, TypeOK
  <2> QED
    BY <1>2, <1>3, <2>1, <2>2 DEF insert, remove
<1>4. ASSUME NEW t \in Txns, NEW g \in NamedGraphs, insert_named_graph(t, g) PROVE TypeOK'
  <2>1. GraphKeys(g) \in SUBSET Keys /\ {} \in SUBSET Keys
    BY KeysFacts DEF Graphs
  <2>2. lost' \in BOOLEAN /\ UNCHANGED <<kv, mode, dirty, todo, dropping, blind>> /\ Operation(t)
    BY <1>4 DEF insert_named_graph, TypeOK
  <2> QED
    BY <1>2, <1>4, <2>1, <2>2 DEF insert_named_graph
<1>5. ASSUME NEW t \in Txns, NEW tables \in Groups, DeletePrefixes(t, tables) PROVE TypeOK'
  <2>1. PICK failed \in SUBSET tables :
          Buffer(t, {k \in content[t] : k[1] \in tables \ failed}, {}) /\ lost' \in BOOLEAN
    BY <1>5 DEF DeletePrefixes
  <2>2. {k \in content[t] : k[1] \in tables \ failed} \in SUBSET Keys /\ {} \in SUBSET Keys
    BY DEF TypeOK
  <2>3. UNCHANGED <<kv, mode, dirty, todo, dropping, blind>> /\ Operation(t)
    BY <1>5 DEF DeletePrefixes
  <2> QED
    BY <1>2, <2>1, <2>2, <2>3
<1>6. ASSUME NEW t \in Txns, NEW graphs \in SUBSET Graphs, NEW drop \in BOOLEAN,
             StartClear(t, graphs, drop)
      PROVE  TypeOK'
  BY <1>6, ConstantsAssumption DEF TypeOK, StartClear, Operation, Idle, Graphs
<1>7. ASSUME NEW t \in Txns, NEW g \in Graphs, clear_encoded_graph(t, g) PROVE TypeOK'
  <2>1. mode[t] = "readable"
    BY <1>7 DEF TypeOK, clear_encoded_graph
  <2>2. CASE FullPass(t, g)
    BY <2>1, <2>2, BufferType, KeysFacts DEF TypeOK, FullPass, QuadsForGraph, QuadsOf
  <2>3. CASE LastPass(t, g)
    <3> DEFINE D == remove_encoded(QuadsForGraph(t, g))
                      \cup IF dropping[t] THEN GraphKeys(g) ELSE {}
    <3>1. Buffer(t, D, {}) /\ D \in SUBSET Keys /\ {} \in SUBSET Keys /\ mode' = mode
      BY <2>3, KeysFacts DEF LastPass, QuadsForGraph, QuadsOf
    <3>2. /\ content' \in [Txns -> SUBSET Keys]
          /\ written' \in [Txns -> SUBSET Keys]
          /\ \A u \in Txns : mode'[u] = "none" => written'[u] = {}
      BY <2>1, <3>1, BufferType
    <3>3. /\ todo' \in [Txns -> SUBSET (NamedGraphs \cup {DefaultGraph})]
          /\ dropping' \in [Txns -> BOOLEAN]
          /\ \A u \in Txns : mode'[u] # "readable" => todo'[u] = {}
          /\ \A u \in Txns : todo'[u] = {} => ~dropping'[u]
      <4>1. /\ todo' = [todo EXCEPT ![t] = todo[t] \ {g}]
            /\ dropping' = [dropping EXCEPT ![t] = dropping[t] /\ todo[t] # {g}]
            /\ g \in todo[t] /\ mode' = mode
        BY <1>7, <2>3 DEF LastPass, clear_encoded_graph
      <4>2. todo[t] \ {g} = {} => todo[t] = {g}
        BY <4>1
      <4>3. todo' \in [Txns -> SUBSET (NamedGraphs \cup {DefaultGraph})]
        BY <4>1 DEF TypeOK
      <4>4. dropping' \in [Txns -> BOOLEAN]
        BY <4>1 DEF TypeOK
      <4>5. ASSUME NEW u \in Txns
            PROVE  (mode'[u] # "readable" => todo'[u] = {}) /\ (todo'[u] = {} => ~dropping'[u])
        <5>1. CASE u = t
          BY <2>1, <4>1, <4>2, <5>1 DEF TypeOK
        <5>2. CASE u # t
          BY <4>1, <5>2 DEF TypeOK
        <5> QED BY <5>1, <5>2
      <4> QED
        BY <4>3, <4>4, <4>5
    <3>4. UNCHANGED <<kv, mode, dirty, ops, lost>> /\ blind' \in BOOLEAN
      BY <2>3 DEF TypeOK, LastPass
    <3> QED
      BY <3>2, <3>3, <3>4 DEF TypeOK
  <2> QED BY <1>7, <2>2, <2>3 DEF clear_encoded_graph
<1>8. ASSUME NEW t \in Txns, ClearFails(t) PROVE TypeOK'
  BY <1>8 DEF TypeOK, ClearFails
<1>9. ASSUME NEW t \in Txns, CommitSucceeds(t) PROVE TypeOK'
  <2>1. kv' \in SUBSET Keys /\ dirty' \in [Txns -> SUBSET Keys]
    BY <1>9 DEF TypeOK, CommitSucceeds
  <2>2. \A u \in Txns : mode'[u] = "none" => written'[u] = {} /\ dirty'[u] = {}
    BY <1>9 DEF TypeOK, CommitSucceeds, End
  <2> QED
    BY <1>9, <2>1, <2>2 DEF TypeOK, CommitSucceeds, End, Modes, Idle
<1>10. ASSUME NEW t \in Txns, RollBack(t) PROVE TypeOK'
  BY <1>10 DEF TypeOK, RollBack, End, Modes, Idle
<1>11. CASE UNCHANGED vars
  BY <1>11 DEF TypeOK, vars
<1> QED
  BY Steps, <1>1, <1>2, <1>3, <1>4, <1>5, <1>6, <1>7, <1>8, <1>9, <1>10, <1>11
-----------------------------------------------------------------------------
(* The index tables *)

\* A store that earlier transactions left has whole quads and the names of their
\* graphs.
LEMMA StoreFacts ==
  ASSUME NEW R \in SUBSET Quads, NEW names \in SUBSET NamedGraphs
  PROVE  /\ StoreOf(R, names) \in SUBSET Keys
         /\ Uniform(StoreOf(R, names))
         /\ \A q \in Quads : IndexKeys(q) \cap StoreOf(R, names) # {} =>
              GraphKeys(graph_name[q]) \subseteq StoreOf(R, names)
<1>1. StoreOf(R, names) \in SUBSET Keys
  BY KeysFacts DEF StoreOf, Graphs
<1>2. ASSUME NEW q \in R
      PROVE  IndexKeys(q) \subseteq StoreOf(R, names) /\ GraphKeys(graph_name[q]) \subseteq StoreOf(R, names)
  <2>1. InsertKeys(q) \subseteq StoreOf(R, names)
    BY DEF StoreOf
  <2> QED BY <2>1 DEF InsertKeys
<1>3. ASSUME NEW q \in Quads \ R PROVE IndexKeys(q) \cap StoreOf(R, names) = {}
  <2>1. \A r \in R : IndexKeys(q) \cap InsertKeys(r) = {}
    BY RowFacts, ConstantsAssumption DEF InsertKeys, Graphs
  <2>2. \A g \in names : IndexKeys(q) \cap GraphKeys(g) = {}
    BY RowFacts DEF Graphs
  <2> QED BY <2>1, <2>2 DEF StoreOf
<1> QED
  BY <1>1, <1>2, <1>3 DEF Uniform

\* The index tables agree in the initial store.
LEMMA AgreeInit == Init => AgreeInv
<1> SUFFICES ASSUME Init PROVE AgreeInv
  OBVIOUS
<1>1. kv \in SUBSET Keys /\ Uniform(kv)
  BY StoreFacts DEF Init
<1>2. TypeOK
  <2>1. /\ mode = [t \in Txns |-> "none"] /\ content = [t \in Txns |-> {}]
        /\ written = [t \in Txns |-> {}] /\ dirty = [t \in Txns |-> {}]
        /\ todo = [t \in Txns |-> {}] /\ dropping = [t \in Txns |-> FALSE]
        /\ ops = 0 /\ lost = FALSE /\ blind = FALSE
    BY DEF Init
  <2>2. /\ mode \in [Txns -> Modes] /\ content \in [Txns -> SUBSET Keys]
        /\ written \in [Txns -> SUBSET Keys] /\ dirty \in [Txns -> SUBSET Keys]
    BY <2>1 DEF Modes
  <2>3. /\ todo \in [Txns -> SUBSET (NamedGraphs \cup {DefaultGraph})]
        /\ dropping \in [Txns -> BOOLEAN]
        /\ \A t \in Txns : todo[t] = {} /\ dropping[t] = FALSE /\ written[t] = {} /\ dirty[t] = {}
    BY <2>1
  <2>4. ops \in 0..MaxOps
    BY <2>1, ConstantsAssumption
  <2> QED
    BY <1>1, <2>1, <2>2, <2>3, <2>4 DEF TypeOK
<1> QED
  BY <1>1, <1>2, UniformKeys DEF Init, AgreeInv, Agree

\* Buffering keys of whole quads keeps the agreement.
LEMMA AgreeBuffer ==
  ASSUME TypeOK, Agree, NEW t \in Txns, NEW D, NEW P, Buffer(t, D, P), UNCHANGED kv,
         lost' \/ (~lost /\ Uniform(D) /\ Uniform(P))
  PROVE  Agree'
<1> SUFFICES ASSUME ~lost' PROVE Agree'
  BY DEF Agree
<1>1. /\ Uniform(kv) /\ Uniform(D) /\ Uniform(P)
      /\ \A u \in Txns : Uniform(content[u]) /\ Uniform(written[u])
  BY DEF Agree
<1>2. Uniform((content[t] \ D) \cup P) /\ Uniform((written[t] \cup D) \cup P)
  BY <1>1, UniformSets
<1>3. Uniform(kv)'
  BY <1>1 DEF Uniform
<1>4. \A u \in Txns : Uniform(content'[u]) /\ Uniform(written'[u])
  BY <1>1, <1>2 DEF TypeOK, Buffer
<1> QED
  BY <1>3, <1>4 DEF Agree, Uniform

\* Every handler keeps the index tables in agreement, committed or buffered.
LEMMA AgreeStep == AgreeInv /\ [Next]_vars => AgreeInv'
<1> SUFFICES ASSUME AgreeInv, [Next]_vars PROVE Agree'
  BY TypeStep DEF AgreeInv
<1> USE DEF AgreeInv
<1>1. ASSUME NEW t \in Txns, NEW q \in Quads, insert(t, q) \/ remove(t, q) PROVE Agree'
  <2>1. Uniform(InsertKeys(q)) /\ Uniform(remove_encoded({q})) /\ Uniform({})
    BY UniformKeys
  <2>2. lost' \/ ~lost
    BY <1>1 DEF insert, remove
  <2> QED
    BY <1>1, <2>1, <2>2, AgreeBuffer DEF insert, remove
<1>2. ASSUME NEW t \in Txns, NEW g \in NamedGraphs, insert_named_graph(t, g) PROVE Agree'
  <2>1. Uniform(GraphKeys(g)) /\ Uniform({})
    BY UniformKeys DEF Graphs
  <2> QED
    BY <1>2, <2>1, AgreeBuffer DEF insert_named_graph
<1>3. ASSUME NEW t \in Txns, NEW tables \in Groups, DeletePrefixes(t, tables) PROVE Agree'
  <2>1. PICK failed \in SUBSET tables :
          /\ Buffer(t, {k \in content[t] : k[1] \in tables \ failed}, {})
          /\ lost' = (lost \/ failed # {})
    BY <1>3 DEF DeletePrefixes
  <2>2. ASSUME ~lost' PROVE Uniform({k \in content[t] : k[1] \in tables \ failed})
    <3>1. tables \ failed = tables /\ Uniform(content[t])
      BY <2>1, <2>2 DEF Agree
    <3> QED BY <3>1, UniformPrefixes
  <2>3. lost' \/ ~lost
    BY <2>1
  <2> QED
    BY <1>3, <2>1, <2>2, <2>3, UniformKeys, AgreeBuffer DEF DeletePrefixes
<1>4. ASSUME NEW t \in Txns, NEW g \in Graphs, clear_encoded_graph(t, g) PROVE Agree'
  <2>1. CASE FullPass(t, g)
    <3>1. PICK quads \in SUBSET Quads : Buffer(t, remove_encoded(quads), {})
      BY <2>1 DEF FullPass, QuadsForGraph, QuadsOf
    <3>2. Uniform(remove_encoded(quads)) /\ Uniform({})
      BY UniformKeys
    <3> QED
      BY <2>1, <3>1, <3>2, AgreeBuffer DEF FullPass
  <2>2. CASE LastPass(t, g)
    <3> DEFINE names == IF dropping[t] THEN GraphKeys(g) ELSE {}
               D == remove_encoded(QuadsForGraph(t, g)) \cup names
    <3>1. Buffer(t, D, {}) /\ UNCHANGED <<kv, lost>>
      BY <2>2 DEF LastPass
    <3>2. Uniform(remove_encoded(QuadsForGraph(t, g))) /\ Uniform(names) /\ Uniform({})
      BY UniformKeys DEF QuadsForGraph, QuadsOf
    <3>3. Uniform(D)
      BY <3>2, UniformSets
    <3> QED
      BY <3>1, <3>2, <3>3, AgreeBuffer
  <2> QED BY <1>4, <2>1, <2>2 DEF clear_encoded_graph
<1>5. ASSUME NEW t \in Txns, CommitSucceeds(t) PROVE Agree'
  <2> SUFFICES ASSUME ~lost PROVE Agree'
    BY <1>5 DEF CommitSucceeds, Agree
  <2>1. Uniform(kv) /\ Uniform(written[t]) /\ Uniform(content[t])
    BY DEF Agree
  <2>2. Uniform((kv \ written[t]) \cup (written[t] \cap content[t]))
    BY <2>1, UniformSets
  <2> QED
    BY <1>5, <2>1, <2>2, UniformKeys DEF CommitSucceeds, End, Agree, Uniform, TypeOK
<1>6. ASSUME NEW t \in Txns, NEW m \in {"write_only", "readable"}, Begin(t, m) PROVE Agree'
  BY <1>6 DEF Begin, Agree, Uniform, TypeOK
<1>7. ASSUME NEW t \in Txns, RollBack(t) PROVE Agree'
  BY <1>7, UniformKeys DEF RollBack, End, Agree, Uniform, TypeOK
<1>8. ASSUME NEW t \in Txns, ClearFails(t) PROVE Agree'
  BY <1>8 DEF ClearFails, Agree, Uniform
<1>9. ASSUME NEW t \in Txns, NEW graphs \in SUBSET Graphs, NEW drop \in BOOLEAN,
             StartClear(t, graphs, drop)
      PROVE  Agree'
  BY <1>9 DEF StartClear, Agree, Uniform
<1>10. CASE UNCHANGED vars
  BY <1>10 DEF vars, Agree, Uniform
<1> QED
  BY Steps, <1>1, <1>2, <1>3, <1>4, <1>5, <1>6, <1>7, <1>8, <1>9, <1>10

\* However many transactions insert, remove and clear side by side, a quad is in
\* all of its index tables or in none, unless a clear went on after a failed scan.
THEOREM IndexTablesAgree == Spec => []IndexesAgree
<1>1. AgreeInv => IndexesAgree
  BY DEF AgreeInv, Agree, Uniform, IndexesAgree
<1> QED
  BY AgreeInit, AgreeStep, <1>1, PTL DEF Spec

-----------------------------------------------------------------------------
(* The graph names *)

\* The two keys of a named quad are keys of its insert, and of no other quad's rows.
LEMMA NamedFacts ==
  ASSUME NEW q \in NamedQuads
  PROVE  /\ q \in Quads /\ graph_name[q] \in NamedGraphs
         /\ QuadKey(q) \in IndexKeys(q)
         /\ GraphKeys(graph_name[q]) = {NameKey(q)}
         /\ \A r \in Quads : QuadKey(q) \in InsertKeys(r) => r = q
         /\ \A R \in SUBSET Quads : QuadKey(q) \in remove_encoded(R) <=> q \in R
         /\ \A R \in SUBSET Quads : NameKey(q) \notin remove_encoded(R)
         /\ \A g \in Graphs : QuadKey(q) \notin GraphKeys(g)
         /\ \A g \in Graphs : NameKey(q) \in GraphKeys(g) => g = graph_name[q]
<1>1. q \in Quads /\ graph_name[q] \in NamedGraphs
  BY ConstantsAssumption DEF NamedQuads
<1>2. QuadKey(q) \in IndexKeys(q)
  BY DEF NamedQuads, QuadKey, IndexKeys, IndexTables, NamedTables
<1>3. GraphKeys(graph_name[q]) = {NameKey(q)}
  BY DEF NamedQuads, GraphKeys, NameKey
<1>4. \A r \in Quads : r # q => QuadKey(q) \notin IndexKeys(r)
  BY <1>1, <1>2, RowFacts
<1>5. \A g \in Graphs : QuadKey(q) \notin GraphKeys(g)
  BY <1>1, <1>2, RowFacts
<1>6. \A r \in Quads : QuadKey(q) \in InsertKeys(r) => r = q
  BY <1>4, <1>5, ConstantsAssumption DEF InsertKeys, Graphs
<1>7. \A R \in SUBSET Quads : QuadKey(q) \in remove_encoded(R) <=> q \in R
  BY <1>2, <1>4 DEF remove_encoded
<1>8. \A r \in Quads : NameKey(q) \notin IndexKeys(r)
  BY <1>1, <1>3, RowFacts DEF Graphs
<1>9. \A R \in SUBSET Quads : NameKey(q) \notin remove_encoded(R)
  BY <1>8 DEF remove_encoded
<1>10. \A g \in Graphs : NameKey(q) \in GraphKeys(g) => g = graph_name[q]
  BY <1>1, <1>3, RowFacts DEF Graphs
<1> QED
  BY <1>1, <1>2, <1>3, <1>5, <1>6, <1>7, <1>9, <1>10

\* Buffering changes only how the transaction itself stands to a quad.
LEMMA ListedBuffer ==
  ASSUME TypeOK, Listed, NEW t \in Txns, NEW D, NEW P, Buffer(t, D, P), mode[t] # "none",
         UNCHANGED <<kv, mode, dirty>>, ~lost' => ~lost, ~blind' => ~blind,
         ~lost' /\ ~blind' => \A q \in NamedQuads : Guarded(t, q) => GuardedAfter(t, D, P, q)
  PROVE  Listed'
<1> SUFFICES ASSUME ~lost', ~blind', NEW q \in NamedQuads
    PROVE  /\ QuadKey(q) \in kv' => NameKey(q) \in kv'
           /\ \A u \in Txns : mode'[u] # "none" => Guarded(u, q)'
  BY DEF Listed, QuadKey, NameKey
<1>1. /\ QuadKey(q) \in kv => NameKey(q) \in kv
      /\ \A u \in Txns : mode[u] # "none" => Guarded(u, q)
  BY DEF Listed
<1>2. ASSUME NEW u \in Txns, mode'[u] # "none" PROVE Guarded(u, q)'
  <2>1. CASE u = t
    <3>1. content'[t] = (content[t] \ D) \cup P /\ written'[t] = written[t] \cup D \cup P
      BY DEF Buffer, TypeOK
    <3>2. Guarded(t, q)
      BY <1>1
    <3> QED
      BY <2>1, <3>1, <3>2 DEF Guarded, GuardedAfter, QuadKey, NameKey
  <2>2. CASE u # t
    <3>1. content'[u] = content[u] /\ written'[u] = written[u]
      BY <2>2 DEF Buffer, TypeOK
    <3> QED
      BY <1>1, <1>2, <3>1 DEF Guarded, QuadKey, NameKey
  <2> QED BY <2>1, <2>2
<1> QED
  BY <1>1, <1>2 DEF QuadKey, NameKey

\* Deleting index keys of quads, and no graph name, keeps every quad guarded.
LEMMA DeleteRows ==
  ASSUME NEW t \in Txns, NEW q \in NamedQuads, Guarded(t, q), NEW D, NameKey(q) \notin D
  PROVE  GuardedAfter(t, D, {}, q)
BY DEF Guarded, GuardedAfter

\* An insert keeps every quad guarded, since it puts the graph name each time.
LEMMA InsertRows ==
  ASSUME NEW t \in Txns, NEW q \in NamedQuads, Guarded(t, q), NEW P,
         QuadKey(q) \in P => NameKey(q) \in P
  PROVE  GuardedAfter(t, {}, P, q)
BY DEF Guarded, GuardedAfter

\* Every handler keeps the quads guarded, and so the graphs listed.
LEMMA ListedStep == ListedInv /\ [Next]_vars => ListedInv'
<1> SUFFICES ASSUME ListedInv, [Next]_vars PROVE Listed'
  BY AgreeStep DEF ListedInv
<1>0. TypeOK /\ Listed /\ Agree
  BY DEF ListedInv, AgreeInv
<1>1. ASSUME NEW t \in Txns, NEW r \in Quads, insert(t, r) PROVE Listed'
  <2>1. \A q \in NamedQuads : QuadKey(q) \in InsertKeys(r) => NameKey(q) \in InsertKeys(r)
    BY NamedFacts DEF InsertKeys
  <2>2. \A q \in NamedQuads : Guarded(t, q) => GuardedAfter(t, {}, InsertKeys(r), q)
    BY <2>1, InsertRows
  <2>3. mode[t] # "none" /\ UNCHANGED <<kv, mode, dirty, lost, blind>> /\ Buffer(t, {}, InsertKeys(r))
    BY <1>1 DEF insert, Operation, Idle
  <2> QED BY <1>0, <2>2, <2>3, ListedBuffer
<1>2. ASSUME NEW t \in Txns, NEW r \in Quads, remove(t, r) PROVE Listed'
  <2>1. \A q \in NamedQuads : Guarded(t, q) => GuardedAfter(t, remove_encoded({r}), {}, q)
    BY NamedFacts, DeleteRows
  <2>2. mode[t] # "none" /\ UNCHANGED <<kv, mode, dirty, lost, blind>> /\ Buffer(t, remove_encoded({r}), {})
    BY <1>2 DEF remove, Operation, Idle
  <2> QED BY <1>0, <2>1, <2>2, ListedBuffer
<1>3. ASSUME NEW t \in Txns, NEW g \in NamedGraphs, insert_named_graph(t, g) PROVE Listed'
  <2>1. \A q \in NamedQuads : QuadKey(q) \notin GraphKeys(g)
    BY NamedFacts DEF Graphs
  <2>2. \A q \in NamedQuads : Guarded(t, q) => GuardedAfter(t, {}, GraphKeys(g), q)
    BY <2>1, InsertRows
  <2>3. mode[t] # "none" /\ UNCHANGED <<kv, mode, dirty, lost, blind>> /\ Buffer(t, {}, GraphKeys(g))
    BY <1>3 DEF insert_named_graph, Operation, Idle
  <2> QED BY <1>0, <2>2, <2>3, ListedBuffer
<1>4. ASSUME NEW t \in Txns, NEW tables \in Groups, DeletePrefixes(t, tables) PROVE Listed'
  <2>1. PICK failed \in SUBSET tables :
          /\ Buffer(t, {k \in content[t] : k[1] \in tables \ failed}, {})
          /\ lost' = (lost \/ failed # {})
    BY <1>4 DEF DeletePrefixes
  <2> DEFINE D == {k \in content[t] : k[1] \in tables \ failed}
  <2>2. ASSUME ~lost', NEW q \in NamedQuads, Guarded(t, q) PROVE GuardedAfter(t, D, {}, q)
    <3>1. failed = {}
      BY <2>1, <2>2
    <3>2. CASE "graphs" \notin tables
      <4>1. NameKey(q) \notin D
        BY <3>2 DEF NameKey
      <4> QED BY <2>2, <4>1, DeleteRows
    <3>3. CASE "graphs" \in tables
      <4>1. "gspo" \in tables
        BY <3>3 DEF Groups, DefaultTables, NamedTables, Tables
      <4>2. QuadKey(q) \in content[t] => QuadKey(q) \in D
        BY <3>1, <4>1 DEF QuadKey
      <4> QED BY <2>2, <4>2 DEF Guarded, GuardedAfter
    <3> QED BY <3>2, <3>3
  <2>3. mode[t] # "none" /\ UNCHANGED <<kv, mode, dirty, blind>>
    BY <1>4 DEF DeletePrefixes, Operation, Idle
  <2>4. ~lost' => ~lost
    BY <2>1
  <2> QED BY <1>0, <2>1, <2>2, <2>3, <2>4, ListedBuffer
<1>5. ASSUME NEW t \in Txns, NEW g \in Graphs, clear_encoded_graph(t, g) PROVE Listed'
  <2>0. mode[t] # "none"
    BY <1>0, <1>5 DEF TypeOK, clear_encoded_graph
  <2>1. CASE FullPass(t, g)
    <3>1. PICK quads \in SUBSET Quads : Buffer(t, remove_encoded(quads), {})
      BY <2>1 DEF FullPass, QuadsForGraph, QuadsOf
    <3>2. \A q \in NamedQuads : Guarded(t, q) => GuardedAfter(t, remove_encoded(quads), {}, q)
      BY NamedFacts, DeleteRows
    <3> QED BY <1>0, <2>0, <2>1, <3>1, <3>2, ListedBuffer DEF FullPass
  <2>2. CASE LastPass(t, g)
    <3> DEFINE quads == QuadsForGraph(t, g)
               names == IF dropping[t] THEN GraphKeys(g) ELSE {}
               kept == remove_encoded(QuadsOf(g) \ quads) \cap written[t] \cap content[t]
               D == remove_encoded(quads) \cup names
    <3>1. Buffer(t, D, {}) /\ UNCHANGED <<kv, mode, dirty, lost>>
          /\ blind' = (blind \/ (names # {} /\ kept # {}))
      BY <2>2 DEF LastPass
    <3>2. quads \in SUBSET Quads /\ QuadsOf(g) \ quads \in SUBSET Quads
      BY DEF QuadsForGraph, QuadsOf
    <3>3. ASSUME ~blind', NEW q \in NamedQuads, Guarded(t, q) PROVE GuardedAfter(t, D, {}, q)
      <4>1. CASE NameKey(q) \notin names
        <5>1. NameKey(q) \notin D
          BY <3>2, <4>1, NamedFacts
        <5> QED BY <3>3, <5>1, DeleteRows
      <4>2. CASE NameKey(q) \in names
        <5>1. names # {} /\ kept = {} /\ g = graph_name[q] /\ g # DefaultGraph
          BY <3>1, <3>3, <4>2, NamedFacts DEF NamedQuads
        <5>2. q \in QuadsOf(g) /\ (QuadKey(q) \in kv => q \in quads)
          BY <5>1, NamedFacts DEF QuadsOf, QuadsForGraph, GraphTable, QuadKey
        <5>3. QuadKey(q) \in kv => QuadKey(q) \in D
          BY <3>2, <5>2, NamedFacts
        <5>4. QuadKey(q) \in written[t] \cap content[t] => QuadKey(q) \in D
          BY <3>2, <5>1, <5>2, NamedFacts
        <5> QED BY <3>3, <5>3, <5>4 DEF Guarded, GuardedAfter
      <4> QED BY <4>1, <4>2
    <3>4. ~blind' => ~blind
      BY <3>1
    <3> QED BY <1>0, <2>0, <3>1, <3>3, <3>4, ListedBuffer
  <2> QED BY <1>5, <2>1, <2>2 DEF clear_encoded_graph
<1>6. ASSUME NEW t \in Txns, CommitSucceeds(t) PROVE Listed'
  <2> SUFFICES ASSUME ~lost', ~blind', NEW q \in NamedQuads
      PROVE  /\ QuadKey(q) \in kv' => NameKey(q) \in kv'
             /\ \A u \in Txns : mode'[u] # "none" => Guarded(u, q)'
    BY DEF Listed, QuadKey, NameKey
  <2>1. /\ mode[t] # "none" /\ ~lost /\ ~blind
        /\ written[t] \cap dirty[t] = {}
        /\ kv' = (kv \ written[t]) \cup (written[t] \cap content[t])
    BY <1>6 DEF CommitSucceeds, Idle
  <2>2. /\ QuadKey(q) \in kv => NameKey(q) \in kv
        /\ \A u \in Txns : mode[u] # "none" => Guarded(u, q)
    BY <1>0, <2>1 DEF Listed
  <2>3. QuadKey(q) \in kv' => NameKey(q) \in kv'
    BY <2>1, <2>2 DEF Guarded
  <2>4. ASSUME NEW u \in Txns, mode'[u] # "none" PROVE Guarded(u, q)'
    <3>1. /\ u # t /\ mode[u] # "none"
          /\ content'[u] = content[u] /\ written'[u] = written[u]
          /\ dirty'[u] = dirty[u] \cup written[t]
      BY <1>0, <1>6, <2>4 DEF CommitSucceeds, End, TypeOK
    <3>2. Guarded(u, q) /\ Guarded(t, q)
      BY <2>1, <2>2, <3>1
    <3> QED
      BY <2>1, <3>1, <3>2 DEF Guarded, QuadKey, NameKey
  <2> QED BY <2>3, <2>4 DEF QuadKey, NameKey
<1>7. ASSUME NEW t \in Txns, NEW m \in {"write_only", "readable"}, Begin(t, m) PROVE Listed'
  <2> SUFFICES ASSUME ~lost', ~blind', NEW q \in NamedQuads, NEW u \in Txns, mode'[u] # "none"
      PROVE  Guarded(u, q)'
    BY <1>0, <1>7 DEF Begin, Listed, QuadKey, NameKey
  <2>1. CASE u = t
    <3>1. content'[t] = kv /\ written'[t] = {} /\ kv' = kv
      BY <1>0, <1>7 DEF Begin, TypeOK
    <3> QED BY <2>1, <3>1 DEF Guarded, QuadKey, NameKey
  <2>2. CASE u # t
    <3>1. /\ content'[u] = content[u] /\ written'[u] = written[u] /\ mode[u] # "none"
          /\ UNCHANGED <<kv, dirty, lost, blind>>
      BY <1>0, <1>7, <2>2 DEF Begin, TypeOK
    <3>2. Guarded(u, q)
      BY <1>0, <3>1 DEF Listed
    <3> QED BY <3>1, <3>2 DEF Guarded, QuadKey, NameKey
  <2> QED BY <2>1, <2>2
<1>8. ASSUME NEW t \in Txns, RollBack(t) PROVE Listed'
  <2> SUFFICES ASSUME ~lost', ~blind', NEW q \in NamedQuads, NEW u \in Txns, mode'[u] # "none"
      PROVE  Guarded(u, q)'
    BY <1>0, <1>8 DEF RollBack, Listed, QuadKey, NameKey
  <2>1. /\ content'[u] = content[u] /\ written'[u] = written[u] /\ mode[u] # "none"
        /\ dirty'[u] = dirty[u] /\ UNCHANGED <<kv, lost, blind>>
    BY <1>0, <1>8 DEF RollBack, End, TypeOK
  <2>2. Guarded(u, q)
    BY <1>0, <2>1 DEF Listed
  <2> QED BY <2>1, <2>2 DEF Guarded, QuadKey, NameKey
<1>9. ASSUME UNCHANGED <<kv, mode, content, written, dirty, lost, blind>> PROVE Listed'
  BY <1>0, <1>9 DEF Listed, Guarded, QuadKey, NameKey
<1>10. ASSUME NEW t \in Txns, ClearFails(t) PROVE Listed'
  BY <1>9, <1>10 DEF ClearFails
<1>11. ASSUME NEW t \in Txns, NEW graphs \in SUBSET Graphs, NEW drop \in BOOLEAN,
              StartClear(t, graphs, drop)
       PROVE  Listed'
  BY <1>9, <1>11 DEF StartClear
<1>12. CASE UNCHANGED vars
  BY <1>9, <1>12 DEF vars
<1> QED
  BY Steps, <1>1, <1>2, <1>3, <1>4, <1>5, <1>6, <1>7, <1>8, <1>10, <1>11, <1>12

\* However many transactions insert into a graph and drop it side by side, a graph
\* that has a quad is listed, unless a clear went on after a failed scan or missed a
\* quad of its own transaction.
THEOREM GraphsAreListed == Spec => []QuadsHaveGraph
<1>1. Init => ListedInv
  <2> SUFFICES ASSUME Init PROVE ListedInv
    OBVIOUS
  <2>1. \A q \in Quads : IndexKeys(q) \cap kv # {} => GraphKeys(graph_name[q]) \subseteq kv
    BY StoreFacts DEF Init
  <2>2. \A q \in NamedQuads : QuadKey(q) \in kv => NameKey(q) \in kv
    BY <2>1, NamedFacts
  <2>3. \A t \in Txns : mode[t] = "none"
    BY DEF Init
  <2> QED
    BY <2>2, <2>3, AgreeInit DEF ListedInv, Listed
<1>2. ListedInv => QuadsHaveGraph
  <2> SUFFICES ASSUME ListedInv, ~lost, ~blind, NEW q \in Quads, IndexKeys(q) \cap kv # {}
      PROVE  GraphKeys(graph_name[q]) \subseteq kv
    BY DEF QuadsHaveGraph
  <2>1. CASE graph_name[q] = DefaultGraph
    BY <2>1 DEF GraphKeys
  <2>2. CASE graph_name[q] # DefaultGraph
    <3>1. q \in NamedQuads /\ IndexKeys(q) \subseteq kv
      BY <2>2 DEF NamedQuads, ListedInv, AgreeInv, Agree, Uniform
    <3>2. QuadKey(q) \in kv /\ GraphKeys(graph_name[q]) = {NameKey(q)}
      BY <3>1, NamedFacts
    <3> QED BY <3>1, <3>2 DEF ListedInv, Listed
  <2> QED BY <2>1, <2>2
<1> QED
  BY <1>1, <1>2, ListedStep, PTL DEF Spec
=============================================================================
