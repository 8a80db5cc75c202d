------------------------ MODULE RocksDbStorageProofs ------------------------
(***************************************************************************)
(* Proofs about RocksDbStorage, for every set of quads and graphs and any  *)
(* number of transactions, readers, loader threads, operations and         *)
(* crashes.                                                                *)
(*                                                                         *)
(* The inductive invariant says that what is written together stays        *)
(* together: a set of keys holds all the index keys of a quad or none,     *)
(* wherever it is (the database, a snapshot, what a batch puts, what it    *)
(* deletes, what it clears by range), and that a batch which drops a graph *)
(* name also deletes the quads of the graph that its snapshot has.         *)
(***************************************************************************)
EXTENDS RocksDbStorage, TLAPS

\* The provers, and their time limits in seconds, that the steps are tried with.
USE ZenonT(5), SMTT(20), ZenonT(20), SMTT(60)

Tables == DefaultTables \cup NamedTables

\* A quad of an old database is never deleted, for it would be under its new key.
Deletable == Keys \cup (Tables \X {Written(q) : q \in StarQuads})

BatchType == [range : SUBSET (Tables \cup {"graphs"}), delete : SUBSET Deletable, put : SUBSET Keys]
TxnType == [mode : {"none"} \cup Modes, snapshot : SUBSET Keys, batch : BatchType,
            loop : {"none", "clear", "remove"}, default : BOOLEAN]
ReaderType == [status : {"none", "open", "checking", "valid", "corrupt"},
               snapshot : SUBSET Keys, todo : SUBSET AllQuads, lost : BOOLEAN]
ThreadType == [batch : SUBSET Quads, state : {"running", "done", "failed"}]
LoaderType == [status : {"none", "open", "committed", "failed", "dropped"}, atomic : BOOLEAN,
               threads : Seq(ThreadType),
               sst_files : SUBSET Quads, stale : BOOLEAN, given : SUBSET Quads,
               visible : SUBSET Quads, failed : BOOLEAN]

Types ==
  /\ phase \in {"check", "graphs", "rewrite", "open", "failed"}
  /\ version \in 0..2
  /\ db \subseteq Keys
  /\ txn \in [Txns -> TxnType]
  /\ reader \in [Readers -> ReaderType]
  /\ loader \in LoaderType
  /\ raced \in BOOLEAN
  /\ ops \in 0..MaxOps

\* All the index keys of a quad are there, or none is.
Whole(keys) ==
  \A q \in AllQuads, s \in Tables :
    <<s, q>> \in keys => s \in IndexTables(q) /\ IndexKeys(q) \subseteq keys

\* The strings of the quads that were seen are there.
Decoded(seen, keys) == \A q \in QuadsIn(seen) : StrKeys(q) \subseteq keys

\* The graphs of the quads are listed; those that the migration left behind aside.
Listed(keys) == \A q \in QuadsIn(keys) \cap Quads : GraphKeys(graph_name[q]) \subseteq keys

\* What a batch puts, deletes and clears.
Puts(put) ==
  \A q \in AllQuads, s \in Tables :
    <<s, q>> \in put => q \in Quads /\ s \in IndexTables(q) /\ InsertKeys(q) \subseteq put

Deletes(delete) ==
  /\ \A x : <<"id2str", x>> \notin delete
  /\ \A q \in Quads : \A s \in IndexTables(q) : <<s, q>> \in delete => IndexKeys(q) \subseteq delete
  /\ \A q \in StarQuads, s \in Tables : <<s, q>> \notin delete

Ranges(range) ==
  /\ DefaultTables \subseteq range \/ DefaultTables \cap range = {}
  /\ NamedTables \subseteq range \/ NamedTables \cap range = {}
  /\ "graphs" \in range => NamedTables \subseteq range

\* A batch of a transaction with this mode and snapshot; of a graph whose name it drops
\* it deletes the quads that the snapshot has.
BatchOK(mode, seen, b) ==
  /\ Puts(b.put) /\ Deletes(b.delete) /\ Ranges(b.range)
  /\ \A q \in QuadsIn(seen) \cap Quads :
       <<"graphs", graph_name[q]>> \in b.delete => IndexKeys(q) \subseteq b.delete
  /\ mode = "readable" => b.range = {}
  /\ mode = "write" => \A x : <<"graphs", x>> \notin b.delete

TxnOK(T, keys) ==
  /\ BatchOK(T.mode, T.snapshot, T.batch)
  /\ Whole(T.snapshot) /\ Decoded(T.snapshot, keys)
  /\ T.mode = "none" => T = NoTxn
  /\ T.loop # "none" => T.mode = "readable"

ReaderOK(R, keys) ==
  /\ Whole(R.snapshot) /\ Decoded(R.snapshot, keys)
  /\ R.todo \subseteq QuadsIn(R.snapshot)
  /\ R.lost \/ R.snapshot \subseteq keys
  /\ R.status = "corrupt" =>
       R.lost \/ \E q \in QuadsIn(R.snapshot) :
                   q \in StarQuads \/ ~(GraphKeys(graph_name[q]) \subseteq R.snapshot)

InThreads(threads) == UNION {threads[i].batch : i \in DOMAIN threads}

LoaderOK(L) ==
  /\ L.atomic /\ L.status \in {"open", "dropped"} => L.visible = {}
  /\ L.status = "open" /\ ~L.failed => L.given = L.visible \cup L.sst_files \cup InThreads(L.threads)
  /\ L.status = "committed" /\ ~L.failed => L.visible = L.given
  /\ L.status # "open" => L.threads = <<>>

NewKeys(q) == UNION {InsertKeys(n) : n \in rewritten[q]}

\* The migration, and that nothing is open before it is over.
Migrated ==
  /\ old \subseteq StarQuads
  /\ phase = "graphs" => version = 0
  /\ phase = "rewrite" => version = 1 /\ \A q \in old \ pending : NewKeys(q) \subseteq db
  /\ phase = "open" => version = 2
  /\ phase # "open" => /\ \A t \in Txns : txn[t] = NoTxn
                       /\ \A r \in Readers : reader[r] = NoReader
                       /\ loader.status # "open"
  /\ version < 2 => ops = 0
  /\ ops = 0 => \A t \in Txns : txn[t].batch = NoBatch /\ txn[t].loop = "none"
  /\ MigrationLosesNothing

Inv ==
  /\ Types
  /\ Whole(db) /\ Decoded(db, db)
  /\ version >= 1 \/ phase = "graphs" => raced \/ Listed(db)
  /\ \A t \in Txns : TxnOK(txn[t], db)
  /\ \A r \in Readers : ReaderOK(reader[r], db)
  /\ LoaderOK(loader)
  /\ Migrated

-----------------------------------------------------------------------------
(* The keys *)

\* The tables of a quad are those of the default graph or those of the named graphs;
\* dspo or gspo is one of them, graphs and id2str are not (IndexTables).
LEMMA TablesOfQuad ==
  ASSUME NEW q
  PROVE  /\ IndexTables(q) = DefaultTables \/ IndexTables(q) = NamedTables
         /\ IndexTables(q) \subseteq Tables
         /\ \E s \in {"dspo", "gspo"} : s \in IndexTables(q)
         /\ {"dspo", "gspo"} \subseteq Tables
         /\ "graphs" \notin Tables /\ "id2str" \notin Tables
         /\ DefaultTables \cap NamedTables = {}
BY DEF IndexTables, Tables, DefaultTables, NamedTables

\* Which keys a quad has in its index tables (IndexKeys).
LEMMA IndexKeyIs ==
  ASSUME NEW q
  PROVE  /\ \A s, x : <<s, x>> \in IndexKeys(q) <=> s \in IndexTables(q) /\ x = q
         /\ \A keys : IndexKeys(q) \subseteq keys <=> \A s \in IndexTables(q) : <<s, q>> \in keys
BY DEF IndexKeys

\* The key of a graph name, unless it is the default graph (GraphKeys).
LEMMA GraphKeyIs ==
  ASSUME NEW g
  PROVE  /\ \A s, x : <<s, x>> \in GraphKeys(g) <=> s = "graphs" /\ x = g /\ g # DefaultGraph
         /\ \A keys : GraphKeys(g) \subseteq keys <=> (g # DefaultGraph => <<"graphs", g>> \in keys)
BY DEF GraphKeys

\* The keys of the strings of a quad (StrKeys).
LEMMA StrKeyIs ==
  ASSUME NEW q
  PROVE  /\ \A s, x : <<s, x>> \in StrKeys(q) =>
              s = "id2str" /\ x \in {q, graph_name[q]} /\ x # DefaultGraph
         /\ \A keys : StrKeys(q) \subseteq keys <=>
              \A x \in {q, graph_name[q]} \ {DefaultGraph} : <<"id2str", x>> \in keys
BY DEF StrKeys

\* The keys that an insertion writes, table by table (InsertKeys).
LEMMA InsertKeyIs ==
  ASSUME NEW q
  PROVE  /\ \A s, x : <<s, x>> \in InsertKeys(q) =>
              \/ s \in IndexTables(q) /\ x = q
              \/ s = "graphs" /\ x = graph_name[q] /\ x # DefaultGraph
              \/ s = "id2str"
         /\ IndexKeys(q) \subseteq InsertKeys(q)
         /\ GraphKeys(graph_name[q]) \subseteq InsertKeys(q)
         /\ StrKeys(q) \subseteq InsertKeys(q)
         /\ \A keys : InsertKeys(q) \subseteq keys <=>
              IndexKeys(q) \subseteq keys /\ GraphKeys(graph_name[q]) \subseteq keys /\ StrKeys(q) \subseteq keys
<1>1. \A s, x : <<s, x>> \in InsertKeys(q) =>
              \/ s \in IndexTables(q) /\ x = q
              \/ s = "graphs" /\ x = graph_name[q] /\ x # DefaultGraph
              \/ s = "id2str"
  <2> SUFFICES ASSUME NEW s, NEW x, <<s, x>> \in InsertKeys(q)
               PROVE  \/ s \in IndexTables(q) /\ x = q
                      \/ s = "graphs" /\ x = graph_name[q] /\ x # DefaultGraph
                      \/ s = "id2str"
    OBVIOUS
  <2>1. CASE <<s, x>> \in IndexKeys(q)
    BY <2>1, IndexKeyIs
  <2>2. CASE <<s, x>> \in GraphKeys(graph_name[q])
    BY <2>2, GraphKeyIs
  <2>3. CASE <<s, x>> \in StrKeys(q)
    BY <2>3, StrKeyIs
  <2> QED BY <2>1, <2>2, <2>3 DEF InsertKeys
<1> QED BY <1>1 DEF InsertKeys

\* The keys of a quad are keys of the store (InsertKeys, Keys).
LEMMA InsertKeysTyped ==
  ASSUME NEW q \in AllQuads
  PROVE  InsertKeys(q) \subseteq Keys /\ GraphKeys(graph_name[q]) \subseteq Keys
<1>1. graph_name[q] \in NamedGraphs \cup {DefaultGraph}
  BY ConstantsAssumption DEF AllQuads
<1>2. IndexKeys(q) \subseteq Keys
  BY DEF IndexKeys, IndexTables, Keys
<1>3. GraphKeys(graph_name[q]) \subseteq Keys
  BY <1>1 DEF GraphKeys, Keys
<1>4. StrKeys(q) \subseteq Keys
  BY <1>1 DEF StrKeys, Keys
<1> QED BY <1>2, <1>3, <1>4 DEF InsertKeys

\* A whole set of keys has a quad when it has any of its index keys (QuadsIn).
LEMMA WholeHas ==
  ASSUME NEW keys, Whole(keys), NEW q \in AllQuads
  PROVE  /\ q \in QuadsIn(keys) <=> IndexKeys(q) \subseteq keys
         /\ \A s \in Tables : <<s, q>> \in keys => q \in QuadsIn(keys) /\ s \in IndexTables(q)
BY TablesOfQuad, IndexKeyIs DEF Whole, QuadsIn

\* A key other than that of a star quad is written as it was read (Written).
LEMMA WrittenIs ==
  /\ \A q \in Quads : Written(q) = q
  /\ \A q \in StarQuads : Written(q) \notin AllQuads
BY ConstantsAssumption DEF Written, AllQuads

-----------------------------------------------------------------------------
(* Batches *)

\* The fields of a batch after each of its operations.
LEMMA BatchFields ==
  ASSUME NEW b \in BatchType, NEW keys
  PROVE  /\ Put(b, keys).range = b.range
         /\ Put(b, keys).delete = b.delete \ keys
         /\ Put(b, keys).put = b.put \cup keys
         /\ Delete(b, keys).range = b.range
         /\ Delete(b, keys).delete = b.delete \cup keys
         /\ Delete(b, keys).put = b.put \ keys
BY DEF BatchType, Put, Delete

\* A batch keeps its types under its operations.
LEMMA BatchTyped ==
  ASSUME NEW b \in BatchType
  PROVE  /\ \A keys \in SUBSET Keys : Put(b, keys) \in BatchType
         /\ \A keys \in SUBSET Deletable : Delete(b, keys) \in BatchType
         /\ \A tables \in SUBSET (Tables \cup {"graphs"}) : DeleteRange(b, tables) \in BatchType
<1>1. ASSUME NEW keys \in SUBSET Keys
      PROVE  Put(b, keys) \in BatchType
  BY DEF BatchType, Put
<1>2. ASSUME NEW keys \in SUBSET Deletable
      PROVE  Delete(b, keys) \in BatchType
  BY DEF BatchType, Delete
<1>3. ASSUME NEW tables \in SUBSET (Tables \cup {"graphs"})
      PROVE  DeleteRange(b, tables) \in BatchType
  BY DEF BatchType, DeleteRange
<1> QED BY <1>1, <1>2, <1>3

\* Only the names of named graphs are deleted.
LEMMA GraphDeleted ==
  ASSUME NEW b \in BatchType, NEW g, <<"graphs", g>> \in b.delete
  PROVE  g \in NamedGraphs /\ g # DefaultGraph
<1>1. <<"graphs", g>> \in Deletable
  BY DEF BatchType
<1>2. g \in NamedGraphs
  BY <1>1 DEF Deletable, Keys, Tables, DefaultTables, NamedTables
<1> QED BY <1>2, ConstantsAssumption

\* A put is right when it puts all the keys of each quad that it puts a key of (insert,
\* insert_named_graph).
LEMMA PutOK ==
  ASSUME NEW mode, NEW seen, NEW b \in BatchType, BatchOK(mode, seen, b),
         NEW keys, Puts(keys)
  PROVE  BatchOK(mode, seen, Put(b, keys))
<1> DEFINE c == Put(b, keys)
<1>1. c.range = b.range /\ c.delete = b.delete \ keys /\ c.put = b.put \cup keys
  BY BatchFields
<1> HIDE DEF c
<1>2. Puts(c.put)
  BY <1>1 DEF BatchOK, Puts
<1>3. ASSUME NEW q \in Quads, NEW s \in IndexTables(q), IndexKeys(q) \subseteq b.delete,
             <<s, q>> \in keys \/ ~(IndexKeys(q) \subseteq c.delete)
      PROVE  InsertKeys(q) \subseteq keys
  <2>1. PICK u \in IndexTables(q) : <<u, q>> \in keys
    BY <1>1, <1>3, IndexKeyIs
  <2>2. u \in Tables /\ q \in AllQuads
    BY TablesOfQuad DEF AllQuads
  <2> QED BY <2>1, <2>2 DEF Puts
<1>4. Deletes(c.delete)
  <2>1. ASSUME NEW q \in Quads, NEW s \in IndexTables(q), <<s, q>> \in c.delete
        PROVE  IndexKeys(q) \subseteq c.delete
    <3>1. IndexKeys(q) \subseteq b.delete
      BY <1>1, <2>1 DEF BatchOK, Deletes
    <3>2. <<s, q>> \in InsertKeys(q)
      BY InsertKeyIs, IndexKeyIs
    <3> QED BY <1>1, <1>3, <2>1, <3>1, <3>2
  <2> QED BY <1>1, <2>1 DEF BatchOK, Deletes
<1>5. ASSUME NEW q \in QuadsIn(seen) \cap Quads, <<"graphs", graph_name[q]>> \in c.delete
      PROVE  IndexKeys(q) \subseteq c.delete
  <2>1. IndexKeys(q) \subseteq b.delete /\ <<"graphs", graph_name[q]>> \notin keys
    BY <1>1, <1>5 DEF BatchOK
  <2>2. graph_name[q] # DefaultGraph
    BY <1>1, <1>5, GraphDeleted
  <2>3. <<"graphs", graph_name[q]>> \in InsertKeys(q)
    BY <2>2, InsertKeyIs, GraphKeyIs
  <2>4. ASSUME ~(IndexKeys(q) \subseteq c.delete)
        PROVE  FALSE
    <3>1. PICK s \in {"dspo", "gspo"} : s \in IndexTables(q)
      BY TablesOfQuad
    <3> QED BY <1>3, <2>1, <2>3, <2>4, <3>1
  <2> QED BY <2>4
<1> QED BY <1>1, <1>2, <1>4, <1>5 DEF BatchOK, c

\* A deletion is right when it takes all the index keys of each quad that it takes one of,
\* no string, and with a graph name the quads of the graph that the batch puts or that the
\* snapshot has (remove, clear_graph, remove_named_graph, the passes of a clear).
LEMMA DeleteOK ==
  ASSUME NEW mode, NEW seen, NEW b \in BatchType, BatchOK(mode, seen, b),
         NEW keys, Deletes(keys),
         \A x : <<"graphs", x>> \in keys => mode # "write",
         \A q \in Quads, s \in Tables :
           <<s, q>> \in b.put /\ <<"graphs", graph_name[q]>> \in keys => IndexKeys(q) \subseteq keys,
         \A q \in QuadsIn(seen) \cap Quads :
           <<"graphs", graph_name[q]>> \in keys => IndexKeys(q) \subseteq b.delete \cup keys
  PROVE  BatchOK(mode, seen, Delete(b, keys))
<1> DEFINE c == Delete(b, keys)
<1>1. c.range = b.range /\ c.delete = b.delete \cup keys /\ c.put = b.put \ keys
  BY BatchFields
<1> HIDE DEF c
<1>2. ASSUME NEW q \in AllQuads, NEW s \in Tables, <<s, q>> \in c.put
      PROVE  q \in Quads /\ s \in IndexTables(q) /\ InsertKeys(q) \subseteq c.put
  <2>1. q \in Quads /\ s \in IndexTables(q) /\ InsertKeys(q) \subseteq b.put
    BY <1>1, <1>2 DEF BatchOK, Puts
  <2>2. <<s, q>> \in IndexKeys(q) /\ <<s, q>> \notin keys
    BY <1>1, <1>2, <2>1, IndexKeyIs
  <2>3. IndexKeys(q) \subseteq c.put
    <3>1. \A u \in IndexTables(q) : <<u, q>> \notin keys
      BY <2>1, <2>2 DEF Deletes
    <3>2. \A u \in IndexTables(q) : <<u, q>> \in b.put
      BY <2>1, InsertKeyIs, IndexKeyIs
    <3> QED BY <1>1, <3>1, <3>2, IndexKeyIs
  <2>4. GraphKeys(graph_name[q]) \subseteq c.put
    <3>1. <<"graphs", graph_name[q]>> \notin keys
      BY <1>1, <1>2, <2>1, <2>2
    <3>2. graph_name[q] # DefaultGraph => <<"graphs", graph_name[q]>> \in b.put
      BY <2>1, InsertKeyIs, GraphKeyIs
    <3> QED BY <1>1, <3>1, <3>2, GraphKeyIs
  <2>5. StrKeys(q) \subseteq c.put
    <3>1. StrKeys(q) \subseteq b.put
      BY <2>1, InsertKeyIs
    <3>2. \A x \in {q, graph_name[q]} \ {DefaultGraph} : <<"id2str", x>> \in b.put
      BY <3>1 DEF StrKeys
    <3>3. \A x : <<"id2str", x>> \notin keys
      BY DEF Deletes
    <3> QED BY <1>1, <3>2, <3>3, StrKeyIs
  <2> QED BY <2>1, <2>3, <2>4, <2>5, InsertKeyIs
<1>3. Deletes(c.delete)
  BY <1>1 DEF BatchOK, Deletes
<1>4. Puts(c.put)
  BY <1>2 DEF Puts
<1>5. \A q \in QuadsIn(seen) \cap Quads :
        <<"graphs", graph_name[q]>> \in c.delete => IndexKeys(q) \subseteq c.delete
  BY <1>1 DEF BatchOK
<1> QED BY <1>1, <1>3, <1>4, <1>5 DEF BatchOK, c

\* The range deletions of a write-only transaction (ClearTables).
LEMMA RangeOK ==
  ASSUME NEW seen, NEW b \in BatchType, BatchOK("write", seen, b),
         NEW tables \in ClearedTables
  PROVE  BatchOK("write", seen, DeleteRange(b, tables)) /\ DeleteRange(b, tables) \in BatchType
<1> DEFINE c == DeleteRange(b, tables)
<1>1. /\ c.range = b.range \cup tables
      /\ c.delete = {k \in b.delete : k[1] \notin tables}
      /\ c.put = {k \in b.put : k[1] \notin tables}
  BY DEF DeleteRange
<1>2. /\ tables \subseteq Tables \cup {"graphs"}
      /\ DefaultTables \subseteq tables \/ DefaultTables \cap tables = {}
      /\ NamedTables \subseteq tables \/ NamedTables \cap tables = {}
      /\ "graphs" \in tables => NamedTables \subseteq tables
      /\ "id2str" \notin tables
  BY DEF ClearedTables, Tables, DefaultTables, NamedTables
<1>3. c \in BatchType
  BY <1>2, BatchTyped
<1> HIDE DEF c
<1>4. Ranges(c.range)
  BY <1>1, <1>2 DEF BatchOK, Ranges
<1>5. \A s, x : /\ <<s, x>> \in c.delete <=> <<s, x>> \in b.delete /\ s \notin tables
                /\ <<s, x>> \in c.put <=> <<s, x>> \in b.put /\ s \notin tables
  BY <1>1
<1>6. ASSUME NEW q, NEW s \in IndexTables(q), s \notin tables
      PROVE  IndexTables(q) \cap tables = {}
  BY <1>2, <1>6, TablesOfQuad
<1>7. Deletes(c.delete)
  <2>1. ASSUME NEW q \in Quads, NEW s \in IndexTables(q), <<s, q>> \in c.delete
        PROVE  IndexKeys(q) \subseteq c.delete
    <3>1. IndexTables(q) \cap tables = {}
      BY <1>5, <1>6, <2>1
    <3>2. IndexKeys(q) \subseteq b.delete
      BY <1>5, <2>1 DEF BatchOK, Deletes
    <3> QED BY <1>5, <3>1, <3>2, IndexKeyIs
  <2> QED BY <1>5, <2>1 DEF BatchOK, Deletes
<1>8. ASSUME NEW q \in AllQuads, NEW s \in Tables, <<s, q>> \in c.put
      PROVE  q \in Quads /\ s \in IndexTables(q) /\ InsertKeys(q) \subseteq c.put
  <2>1. q \in Quads /\ s \in IndexTables(q) /\ InsertKeys(q) \subseteq b.put
    BY <1>5, <1>8 DEF BatchOK, Puts
  <2>2. IndexTables(q) \cap tables = {}
    BY <1>5, <1>6, <1>8, <2>1
  <2>3. IndexKeys(q) \subseteq c.put
    BY <1>5, <2>1, <2>2, InsertKeyIs, IndexKeyIs
  <2>4. GraphKeys(graph_name[q]) \subseteq c.put
    <3>1. graph_name[q] # DefaultGraph => "graphs" \notin tables
      BY <1>2, <2>2 DEF IndexTables, NamedTables
    <3> QED BY <1>5, <2>1, <3>1, InsertKeyIs, GraphKeyIs
  <2>5. StrKeys(q) \subseteq c.put
    <3>1. StrKeys(q) \subseteq b.put
      BY <2>1, InsertKeyIs
    <3>2. \A x \in {q, graph_name[q]} \ {DefaultGraph} : <<"id2str", x>> \in b.put
      BY <3>1 DEF StrKeys
    <3> QED BY <1>2, <1>5, <3>2, StrKeyIs
  <2> QED BY <2>1, <2>3, <2>4, <2>5, InsertKeyIs
<1>9. Puts(c.put)
  BY <1>8 DEF Puts
<1>10. \A x : <<"graphs", x>> \notin c.delete
  BY <1>5 DEF BatchOK
<1> QED BY <1>3, <1>4, <1>7, <1>9, <1>10 DEF BatchOK, c

\* The keys after a batch was applied (Apply).
LEMMA ApplyIs ==
  ASSUME NEW keys, NEW b
  PROVE  \A s, x : <<s, x>> \in Apply(keys, b) <=>
           \/ <<s, x>> \in keys /\ s \notin b.range /\ <<s, x>> \notin b.delete
           \/ <<s, x>> \in b.put
BY DEF Apply

\* A right batch, applied to a whole set of keys, leaves it whole and its quads decodable,
\* and it removes no string (Apply).
LEMMA ApplyOK ==
  ASSUME NEW keys \in SUBSET Keys, Whole(keys), Decoded(keys, keys),
         NEW mode, NEW seen, NEW b \in BatchType, BatchOK(mode, seen, b)
  PROVE  /\ Apply(keys, b) \in SUBSET Keys
         /\ Whole(Apply(keys, b))
         /\ Decoded(Apply(keys, b), Apply(keys, b))
         /\ \A x : <<"id2str", x>> \in keys => <<"id2str", x>> \in Apply(keys, b)
<1> DEFINE after == Apply(keys, b)
<1>1. \A s, x : <<s, x>> \in after <=>
           \/ <<s, x>> \in keys /\ s \notin b.range /\ <<s, x>> \notin b.delete
           \/ <<s, x>> \in b.put
  BY ApplyIs
<1>2. after \in SUBSET Keys
  BY DEF Apply, BatchType
<1> HIDE DEF after
<1>3. b.put \subseteq after
  BY DEF after, Apply
<1>4. \A x : <<"id2str", x>> \in keys => <<"id2str", x>> \in after
  <2>1. "id2str" \notin b.range
    BY TablesOfQuad DEF BatchType
  <2> QED BY <1>1, <2>1 DEF BatchOK, Deletes
<1>5. ASSUME NEW q \in AllQuads, NEW s \in Tables, <<s, q>> \in after
      PROVE  s \in IndexTables(q) /\ IndexKeys(q) \subseteq after /\ StrKeys(q) \subseteq after
  <2>1. CASE <<s, q>> \in b.put
    <3>1. s \in IndexTables(q) /\ InsertKeys(q) \subseteq b.put
      BY <2>1 DEF BatchOK, Puts
    <3> QED BY <1>3, <3>1, InsertKeyIs
  <2>2. CASE <<s, q>> \in keys /\ s \notin b.range /\ <<s, q>> \notin b.delete
    <3>1. s \in IndexTables(q) /\ IndexKeys(q) \subseteq keys
      BY <2>2 DEF Whole
    <3>2. IndexTables(q) \cap b.range = {}
      BY <2>2, <3>1, TablesOfQuad DEF BatchOK, Ranges
    <3>3. \A u \in IndexTables(q) : <<u, q>> \notin b.delete
      <4>1. CASE q \in Quads
        BY <2>2, <3>1, <4>1, IndexKeyIs DEF BatchOK, Deletes
      <4>2. CASE q \in StarQuads
        BY <4>2, TablesOfQuad DEF BatchOK, Deletes
      <4> QED BY <4>1, <4>2 DEF AllQuads
    <3>4. IndexKeys(q) \subseteq after
      BY <1>1, <3>1, <3>2, <3>3, IndexKeyIs
    <3>5. StrKeys(q) \subseteq keys
      BY <2>2, WholeHas DEF Decoded
    <3>6. StrKeys(q) \subseteq after
      BY <1>4, <3>5, StrKeyIs
    <3> QED BY <3>1, <3>4, <3>6
  <2> QED BY <1>1, <1>5, <2>1, <2>2
<1>6. Whole(after)
  BY <1>5 DEF Whole
<1>7. Decoded(after, after)
  BY <1>5, TablesOfQuad DEF Decoded, QuadsIn
<1> QED BY <1>2, <1>4, <1>6, <1>7 DEF after

\* A right batch keeps the graph of each quad listed, unless it drops the name of a graph
\* with a quad that its transaction has not seen (Apply, commit).
LEMMA ApplyListed ==
  ASSUME NEW keys \in SUBSET Keys, Whole(keys), Listed(keys),
         NEW mode, NEW seen, NEW b \in BatchType, BatchOK(mode, seen, b),
         \A q \in QuadsIn(keys \ seen) : <<"graphs", graph_name[q]>> \notin b.delete
  PROVE  Listed(Apply(keys, b))
<1> SUFFICES ASSUME NEW q \in QuadsIn(Apply(keys, b)) \cap Quads, graph_name[q] # DefaultGraph
             PROVE  <<"graphs", graph_name[q]>> \in Apply(keys, b)
  BY GraphKeyIs DEF Listed
<1> DEFINE g == graph_name[q]
<1>1. PICK s \in {"dspo", "gspo"} : <<s, q>> \in Apply(keys, b)
  BY DEF QuadsIn
<1>2. q \in AllQuads /\ s \in Tables
  BY TablesOfQuad DEF AllQuads
<1>3. CASE <<s, q>> \in b.put
  <2>1. InsertKeys(q) \subseteq b.put
    BY <1>2, <1>3 DEF BatchOK, Puts
  <2>2. <<"graphs", g>> \in b.put
    BY <2>1, InsertKeyIs, GraphKeyIs
  <2> QED BY <2>2, ApplyIs
<1>4. CASE <<s, q>> \in keys /\ s \notin b.range /\ <<s, q>> \notin b.delete
  <2>1. s \in IndexTables(q) /\ q \in QuadsIn(keys)
    BY <1>2, <1>4, WholeHas
  <2>2. <<"graphs", g>> \in keys
    BY <2>1, GraphKeyIs DEF Listed
  <2>3. "graphs" \notin b.range
    BY <1>4, <2>1 DEF BatchOK, Ranges, IndexTables
  <2>4. <<"graphs", g>> \notin b.delete
    <3>1. CASE <<s, q>> \notin seen
      BY <1>2, <1>4, <3>1 DEF QuadsIn
    <3>2. CASE <<s, q>> \in seen
      <4>1. q \in QuadsIn(seen) \cap Quads
        BY <1>2, <3>2 DEF QuadsIn
      <4> QED BY <1>4, <2>1, <4>1, IndexKeyIs DEF BatchOK
    <3> QED BY <3>1, <3>2
  <2> QED BY <2>2, <2>3, <2>4, ApplyIs
<1> QED BY <1>1, <1>3, <1>4, ApplyIs

\* The clears of a readable transaction delete the quads of these graphs that it sees and,
\* of some of the graphs, the names (Cleared, clear_graph, remove_named_graph, NamedPass).
LEMMA ClearOK ==
  ASSUME NEW t, NEW b \in BatchType, b = txn[t].batch, NEW seen, seen = txn[t].snapshot,
         Whole(seen), BatchOK("readable", seen, b),
         NEW graphs, NEW names \in SUBSET NamedGraphs, names \subseteq graphs
  PROVE  LET keys == Cleared(t, graphs) \cup UNION {GraphKeys(g) : g \in names}
         IN  BatchOK("readable", seen, Delete(b, keys)) /\ Delete(b, keys) \in BatchType
<1> DEFINE cleared == Cleared(t, graphs)
           dropped == UNION {GraphKeys(g) : g \in names}
           keys == cleared \cup dropped
           shown == QuadsIn(View(t))
<1>1. \A s, x : <<s, x>> \in cleared <=>
        \E q \in shown : graph_name[q] \in graphs /\ s \in IndexTables(q) /\ x = Written(q)
  BY DEF Cleared
<1>2. \A s, x : <<s, x>> \in dropped <=> s = "graphs" /\ x \in names
  <2>1. \A s, x : <<s, x>> \in dropped <=> \E g \in names : <<s, x>> \in GraphKeys(g)
    OBVIOUS
  <2>2. \A g \in names : g # DefaultGraph
    <3>1. DefaultGraph \notin NamedGraphs
      BY ConstantsAssumption
    <3> QED BY <3>1
  <2>3. \A g \in names : \A s, x : <<s, x>> \in GraphKeys(g) <=> s = "graphs" /\ x = g
    BY <2>2, GraphKeyIs
  <2> SUFFICES ASSUME NEW s, NEW x
               PROVE  <<s, x>> \in dropped <=> s = "graphs" /\ x \in names
    OBVIOUS
  <2> HIDE DEF dropped
  <2>4. <<s, x>> \in dropped <=> \E g \in names : <<s, x>> \in GraphKeys(g)
    BY <2>1
  <2> QED BY <2>3, <2>4
<1>3. shown \subseteq AllQuads
  BY DEF QuadsIn
<1>4. cleared \subseteq Tables \X {Written(q) : q \in AllQuads}
  BY <1>3, TablesOfQuad DEF Cleared
<1>5. keys \subseteq Deletable
  <2>1. Tables \X {Written(q) : q \in AllQuads} \subseteq Deletable
    BY WrittenIs DEF Deletable, Keys, Tables, AllQuads
  <2>2. dropped \subseteq Keys
    BY DEF GraphKeys, Keys
  <2> QED BY <1>4, <2>1, <2>2 DEF Deletable
<1>6. Delete(b, keys) \in BatchType
  BY <1>5, BatchTyped
<1>7. \A s, x : <<s, x>> \in View(t) <=>
                   \/ <<s, x>> \in seen /\ <<s, x>> \notin b.delete
                   \/ <<s, x>> \in b.put
  BY ApplyIs DEF View, BatchOK
<1> HIDE DEF cleared, dropped, shown
<1>8. ASSUME NEW q \in AllQuads, NEW s \in Tables, <<s, q>> \in keys
      PROVE  q \in Quads /\ IndexKeys(q) \subseteq keys
  <2>1. <<s, q>> \in cleared
    BY <1>2, <1>8, TablesOfQuad
  <2>2. PICK r \in shown : graph_name[r] \in graphs /\ q = Written(r)
    BY <1>1, <2>1
  <2>3. q = r /\ q \in Quads
    BY <1>3, <2>2, WrittenIs DEF AllQuads
  <2> QED BY <1>1, <2>2, <2>3, IndexKeyIs
<1>9. Deletes(keys)
  <2>1. \A x : <<"id2str", x>> \notin keys
    BY <1>1, <1>2, TablesOfQuad
  <2>2. \A q \in Quads : \A s \in IndexTables(q) : <<s, q>> \in keys => IndexKeys(q) \subseteq keys
    BY <1>8, TablesOfQuad DEF AllQuads
  <2>3. \A q \in StarQuads, s \in Tables : <<s, q>> \notin keys
    BY <1>8, ConstantsAssumption DEF AllQuads
  <2> QED BY <2>1, <2>2, <2>3 DEF Deletes
<1>10. ASSUME NEW q \in Quads, q \in shown, <<"graphs", graph_name[q]>> \in keys
       PROVE  IndexKeys(q) \subseteq keys
  <2>1. graph_name[q] \in graphs
    BY <1>1, <1>2, <1>10, TablesOfQuad
  <2> QED BY <1>1, <1>10, <2>1, WrittenIs, IndexKeyIs
<1>11. \A q \in Quads, s \in Tables :
         <<s, q>> \in b.put /\ <<"graphs", graph_name[q]>> \in keys => IndexKeys(q) \subseteq keys
  <2> SUFFICES ASSUME NEW q \in Quads, NEW s \in Tables, <<s, q>> \in b.put,
                      <<"graphs", graph_name[q]>> \in keys
               PROVE  IndexKeys(q) \subseteq keys
    OBVIOUS
  <2>1. InsertKeys(q) \subseteq b.put
    BY DEF BatchOK, Puts, AllQuads
  <2>2. PICK u \in {"dspo", "gspo"} : <<u, q>> \in b.put
    BY <2>1, TablesOfQuad, InsertKeyIs, IndexKeyIs
  <2>3. q \in shown
    BY <1>7, <2>2 DEF shown, QuadsIn, AllQuads
  <2> QED BY <1>10, <2>3
<1>12. \A q \in QuadsIn(seen) \cap Quads :
         <<"graphs", graph_name[q]>> \in keys => IndexKeys(q) \subseteq b.delete \cup keys
  <2> SUFFICES ASSUME NEW q \in QuadsIn(seen) \cap Quads, <<"graphs", graph_name[q]>> \in keys
               PROVE  IndexKeys(q) \subseteq b.delete \cup keys
    OBVIOUS
  <2>1. PICK u \in {"dspo", "gspo"} : <<u, q>> \in seen
    BY DEF QuadsIn
  <2>2. u \in IndexTables(q)
    BY <2>1, TablesOfQuad DEF Whole, AllQuads
  <2>3. CASE <<u, q>> \in b.delete
    BY <2>2, <2>3 DEF BatchOK, Deletes
  <2>4. CASE <<u, q>> \notin b.delete
    <3>1. q \in shown
      BY <1>7, <2>1, <2>4 DEF shown, QuadsIn, AllQuads
    <3> QED BY <1>10, <3>1
  <2> QED BY <2>3, <2>4
<1>13. BatchOK("readable", seen, Delete(b, keys))
  BY <1>9, <1>11, <1>12, DeleteOK
<1> QED BY <1>6, <1>13 DEF cleared, dropped

-----------------------------------------------------------------------------
(* What is added to the database *)

\* All the keys of each quad with an index key.
Closed(keys) ==
  \A q \in AllQuads, s \in Tables : <<s, q>> \in keys => s \in IndexTables(q) /\ InsertKeys(q) \subseteq keys

\* The keys of a set of quads: those that an ingestion or the migration adds (Ingest,
\* RewriteQuad, StoreOf).
LEMMA InsertsClosed ==
  ASSUME NEW quads \in SUBSET AllQuads, NEW keys, keys = UNION {InsertKeys(q) : q \in quads}
  PROVE  /\ keys \in SUBSET Keys /\ Closed(keys)
         /\ \A q \in AllQuads, s \in Tables : <<s, q>> \in keys => q \in quads
<1>1. keys \in SUBSET Keys
  BY InsertKeysTyped
<1>2. ASSUME NEW q \in AllQuads, NEW s \in Tables, <<s, q>> \in keys
      PROVE  q \in quads /\ s \in IndexTables(q) /\ InsertKeys(q) \subseteq keys
  <2>1. PICK r \in quads : <<s, q>> \in InsertKeys(r)
    BY <1>2
  <2>2. q = r /\ s \in IndexTables(r)
    BY <2>1, InsertKeyIs, TablesOfQuad
  <2> QED BY <2>2
<1> QED BY <1>1, <1>2 DEF Closed

\* A store stays whole when all the keys of some quads are added.
LEMMA GrowOK ==
  ASSUME NEW keys \in SUBSET Keys, Whole(keys), Decoded(keys, keys),
         NEW more \in SUBSET Keys, Closed(more)
  PROVE  /\ keys \cup more \in SUBSET Keys
         /\ Whole(keys \cup more)
         /\ Decoded(keys \cup more, keys \cup more)
         /\ Listed(keys) => Listed(keys \cup more)
<1> DEFINE after == keys \cup more
<1>1. ASSUME NEW q \in AllQuads, NEW s \in Tables, <<s, q>> \in after
      PROVE  /\ s \in IndexTables(q) /\ IndexKeys(q) \subseteq after /\ StrKeys(q) \subseteq after
             /\ q \in QuadsIn(keys) \/ GraphKeys(graph_name[q]) \subseteq after
  <2>1. CASE <<s, q>> \in more
    BY <2>1, InsertKeyIs DEF Closed
  <2>2. CASE <<s, q>> \in keys
    <3>1. s \in IndexTables(q) /\ IndexKeys(q) \subseteq keys /\ q \in QuadsIn(keys)
      BY <2>2, WholeHas DEF Whole
    <3> QED BY <3>1 DEF Decoded
  <2> QED BY <1>1, <2>1, <2>2
<1> HIDE DEF after
<1>2. Whole(after)
  BY <1>1 DEF Whole
<1>3. Decoded(after, after)
  BY <1>1, TablesOfQuad DEF Decoded, QuadsIn
<1>4. ASSUME Listed(keys)
      PROVE  Listed(after)
  <2> SUFFICES ASSUME NEW q \in QuadsIn(after) \cap Quads
               PROVE  GraphKeys(graph_name[q]) \subseteq after
    BY DEF Listed
  <2>1. q \in QuadsIn(keys) \/ GraphKeys(graph_name[q]) \subseteq after
    BY <1>1, TablesOfQuad DEF QuadsIn
  <2>2. q \in QuadsIn(keys) => GraphKeys(graph_name[q]) \subseteq keys
    BY <1>4 DEF Listed
  <2> QED BY <2>1, <2>2 DEF after
<1> QED BY <1>2, <1>3, <1>4 DEF after

\* A transaction that is right stays so while no string goes.
LEMMA TxnKept ==
  ASSUME NEW T, NEW keys, NEW after, TxnOK(T, keys),
         \A x : <<"id2str", x>> \in keys => <<"id2str", x>> \in after
  PROVE  TxnOK(T, after)
<1>1. Decoded(T.snapshot, after)
  BY StrKeyIs DEF TxnOK, Decoded
<1> QED BY <1>1 DEF TxnOK

\* A reader stays right while the database grows.
LEMMA ReaderKept ==
  ASSUME NEW R, NEW keys, NEW after, ReaderOK(R, keys), keys \subseteq after
  PROVE  ReaderOK(R, after)
<1>1. Decoded(R.snapshot, after)
  BY DEF ReaderOK, Decoded
<1>2. R.lost \/ R.snapshot \subseteq after
  BY DEF ReaderOK
<1> QED BY <1>1, <1>2 DEF ReaderOK

\* A transaction that has not begun is right, and so is one that begins.
LEMMA NewTxnOK ==
  ASSUME NEW keys \in SUBSET Keys, Whole(keys), Decoded(keys, keys)
  PROVE  /\ NoTxn \in TxnType /\ TxnOK(NoTxn, keys)
         /\ LET T == [NoTxn EXCEPT !.mode = "write", !.snapshot = {}]
            IN  T \in TxnType /\ TxnOK(T, keys) /\ T.batch = NoBatch /\ T.loop = "none"
         /\ LET T == [NoTxn EXCEPT !.mode = "readable", !.snapshot = keys]
            IN  T \in TxnType /\ TxnOK(T, keys) /\ T.batch = NoBatch /\ T.loop = "none"
<1>1. NoBatch \in BatchType /\ NoBatch.range = {} /\ NoBatch.delete = {} /\ NoBatch.put = {}
  BY DEF NoBatch, BatchType
<1>2. Puts({}) /\ Deletes({}) /\ Ranges({}) /\ Whole({}) /\ Decoded({}, keys)
  BY DEF Puts, Deletes, Ranges, Whole, Decoded, QuadsIn
<1>3. NoTxn \in TxnType
  BY <1>1 DEF NoTxn, TxnType
<1>4. ASSUME NEW T, T.batch = NoBatch, Whole(T.snapshot), Decoded(T.snapshot, keys),
             T.mode = "none" => T = NoTxn, T.loop = "none"
      PROVE  TxnOK(T, keys)
  BY <1>1, <1>2, <1>4 DEF TxnOK, BatchOK
<1>5. TxnOK(NoTxn, keys)
  BY <1>2, <1>4 DEF NoTxn
<1>6. ASSUME NEW mode \in Modes, NEW seen \in {{}, keys}, NEW T,
             T = [NoTxn EXCEPT !.mode = mode, !.snapshot = seen]
      PROVE  T \in TxnType /\ TxnOK(T, keys) /\ T.batch = NoBatch /\ T.loop = "none"
  <2>1. T = [mode |-> mode, snapshot |-> seen, batch |-> NoBatch, loop |-> "none", default |-> FALSE]
    BY <1>6 DEF NoTxn
  <2>2. T \in TxnType
    BY <1>1, <2>1 DEF TxnType
  <2>3. T.mode # "none" /\ T.batch = NoBatch /\ T.loop = "none" /\ T.snapshot = seen
    BY <2>1 DEF Modes
  <2>4. TxnOK(T, keys)
    BY <1>2, <1>4, <2>3
  <2> QED BY <2>2, <2>3, <2>4
<1> QED BY <1>3, <1>5, <1>6 DEF Modes

-----------------------------------------------------------------------------
(* Steps *)

\* An open transaction or reader means that the storage is open.
LEMMA OpenPhase ==
  ASSUME Inv
  PROVE  /\ \A t \in Txns : txn[t].mode # "none" \/ txn[t].loop # "none" => phase = "open"
         /\ \A r \in Readers : reader[r].status # "none" => phase = "open"
         /\ loader.status = "open" => phase = "open"
BY DEF Inv, Migrated, NoTxn, NoReader

\* A step of one transaction that leaves the rest alone.
LEMMA TxnStep ==
  ASSUME Inv, phase = "open", NEW t \in Txns, NEW T \in TxnType, TxnOK(T, db),
         txn' = [txn EXCEPT ![t] = T],
         ops' \in 0..MaxOps, ops' >= ops, ops' = 0 => T.batch = NoBatch /\ T.loop = "none",
         UNCHANGED <<phase, version, db, pending, reader, loader, crashes, old, raced>>
  PROVE  Inv'
<1>1. txn' \in [Txns -> TxnType] /\ \A u \in Txns : txn'[u] = IF u = t THEN T ELSE txn[u]
  BY DEF Inv, Types
<1>2. Types'
  BY <1>1 DEF Inv, Types
<1>3. \A u \in Txns : TxnOK(txn[u], db)'
  BY <1>1 DEF Inv
<1>4. Migrated'
  <2>1. version = 2 /\ ops \in 0..MaxOps
    BY DEF Inv, Types, Migrated
  <2>2. ops' = 0 => ops = 0
    BY <2>1
  <2>3. ops' = 0 => \A u \in Txns : txn'[u].batch = NoBatch /\ txn'[u].loop = "none"
    BY <1>1, <2>2 DEF Inv, Migrated
  <2>4. MigrationLosesNothing'
    BY <2>2 DEF Inv, Migrated, MigrationLosesNothing
  <2>5. Migrated
    BY DEF Inv
  <2>6. phase' = "open" /\ version' = 2 /\ ~(2 < 2)
    BY <2>1
  <2> QED BY <2>1, <2>3, <2>4, <2>5, <2>6 DEF Migrated
<1> QED BY <1>2, <1>3, <1>4 DEF Inv

\* An operation of a transaction that changes its batch (Write).
LEMMA WriteStep ==
  ASSUME Inv, NEW t \in Txns, NEW modes \in SUBSET Modes, NEW b \in BatchType,
         Write(t, modes, b), BatchOK(txn[t].mode, txn[t].snapshot, b)
  PROVE  Inv'
<1> DEFINE T == [txn[t] EXCEPT !.batch = b]
<1>1. txn[t] \in TxnType /\ TxnOK(txn[t], db) /\ txn[t].mode # "none"
  BY DEF Inv, Types, Write, Modes
<1>2. T \in TxnType
  BY <1>1 DEF TxnType
<1>3. T.mode = txn[t].mode /\ T.snapshot = txn[t].snapshot /\ T.batch = b /\ T.loop = txn[t].loop
  BY <1>1 DEF TxnType
<1>4. TxnOK(T, db)
  BY <1>1, <1>3 DEF TxnOK
<1>5. txn' = [txn EXCEPT ![t] = T]
  BY <1>1 DEF Write, Inv, Types
<1>6. ops' \in 0..MaxOps /\ ops' >= ops /\ ops' # 0
  <2>1. MaxOps \in Nat /\ ops \in 0..MaxOps
    BY ConstantsAssumption DEF Inv, Types
  <2>2. ops < MaxOps /\ ops' = ops + 1
    BY DEF Write
  <2> QED BY <2>1, <2>2
<1>7. phase = "open"
  BY <1>1, OpenPhase
<1>8. UNCHANGED <<phase, version, db, pending, reader, loader, crashes, old, raced>>
  BY DEF Write
<1> HIDE DEF T
<1> QED BY <1>2, <1>4, <1>5, <1>6, <1>7, <1>8, TxnStep

\* The batch of an open transaction.
LEMMA OpenBatch ==
  ASSUME Inv, NEW t \in Txns
  PROVE  /\ txn[t].batch \in BatchType /\ BatchOK(txn[t].mode, txn[t].snapshot, txn[t].batch)
         /\ Whole(txn[t].snapshot)
BY DEF Inv, Types, TxnType, TxnOK

\* The insertion of a quad puts all of its keys (insert).
LEMMA InsertStep ==
  ASSUME Inv, NEW t \in Txns, NEW q \in Quads, insert(t, q)
  PROVE  Inv'
<1>1. InsertKeys(q) \in SUBSET Keys /\ Puts(InsertKeys(q))
  <2>1. InsertKeys(q) \in SUBSET Keys
    BY InsertKeysTyped DEF AllQuads
  <2>2. \A r \in AllQuads, s \in Tables : <<s, r>> \in InsertKeys(q) => r = q /\ s \in IndexTables(q)
    BY InsertKeyIs, TablesOfQuad
  <2> QED BY <2>1, <2>2 DEF Puts
<1>2. Put(txn[t].batch, InsertKeys(q)) \in BatchType
  BY <1>1, OpenBatch, BatchTyped
<1>3. BatchOK(txn[t].mode, txn[t].snapshot, Put(txn[t].batch, InsertKeys(q)))
  BY <1>1, OpenBatch, PutOK
<1> QED BY <1>2, <1>3, WriteStep DEF insert

\* The insertion of a graph puts no quad (insert_named_graph).
LEMMA InsertGraphStep ==
  ASSUME Inv, NEW t \in Txns, NEW g \in NamedGraphs, insert_named_graph(t, g)
  PROVE  Inv'
<1> DEFINE keys == GraphKeys(g) \cup ({"id2str"} \X {g})
<1>1. keys \in SUBSET Keys
  BY DEF GraphKeys, Keys
<1>2. \A q : \A s \in Tables : <<s, q>> \notin keys
  BY GraphKeyIs, TablesOfQuad
<1> HIDE DEF keys
<1>3. Puts(keys)
  BY <1>2 DEF Puts
<1>4. Put(txn[t].batch, keys) \in BatchType
  BY <1>1, OpenBatch, BatchTyped
<1>5. BatchOK(txn[t].mode, txn[t].snapshot, Put(txn[t].batch, keys))
  BY <1>3, OpenBatch, PutOK
<1> QED BY <1>4, <1>5, WriteStep DEF insert_named_graph, keys

\* The removal of a quad deletes its index keys (remove).
LEMMA RemoveStep ==
  ASSUME Inv, NEW t \in Txns, NEW q \in Quads, remove(t, q)
  PROVE  Inv'
<1> DEFINE keys == IndexTables(q) \X {Written(q)}
<1>1. keys = IndexKeys(q)
  BY WrittenIs DEF IndexKeys
<1>2. keys \in SUBSET Deletable
  BY <1>1, InsertKeyIs, InsertKeysTyped DEF Deletable, AllQuads
<1>3. \A s, x : <<s, x>> \in keys <=> s \in IndexTables(q) /\ x = q
  BY <1>1, IndexKeyIs
<1>4. \A x : <<"id2str", x>> \notin keys /\ <<"graphs", x>> \notin keys
  BY <1>3, TablesOfQuad
<1> HIDE DEF keys
<1>5. Deletes(keys)
  <2>1. q \notin StarQuads
    BY ConstantsAssumption
  <2>2. \A r \in Quads : \A s \in IndexTables(r) : <<s, r>> \in keys => IndexKeys(r) \subseteq keys
    BY <1>1, <1>3
  <2>3. \A r \in StarQuads, s \in Tables : <<s, r>> \notin keys
    BY <1>3, <2>1
  <2> QED BY <1>4, <2>2, <2>3 DEF Deletes
<1>6. Delete(txn[t].batch, keys) \in BatchType
  BY <1>2, OpenBatch, BatchTyped
<1>7. BatchOK(txn[t].mode, txn[t].snapshot, Delete(txn[t].batch, keys))
  BY <1>4, <1>5, OpenBatch, DeleteOK
<1> QED BY <1>6, <1>7, WriteStep DEF remove, keys

\* The range deletions of a write-only transaction (ClearTables).
LEMMA ClearTablesStep ==
  ASSUME Inv, NEW t \in Txns, NEW tables \in ClearedTables, ClearTables(t, tables)
  PROVE  Inv'
<1>1. txn[t].mode = "write"
  BY DEF ClearTables, Write
<1>2. /\ BatchOK(txn[t].mode, txn[t].snapshot, DeleteRange(txn[t].batch, tables))
      /\ DeleteRange(txn[t].batch, tables) \in BatchType
  BY <1>1, OpenBatch, RangeOK
<1>3. {"write"} \in SUBSET Modes
  BY DEF Modes
<1> QED BY <1>2, <1>3, WriteStep DEF ClearTables

\* clear_graph of a readable transaction.
LEMMA ClearGraphStep ==
  ASSUME Inv, NEW t \in Txns, NEW g, clear_graph(t, g)
  PROVE  Inv'
<1> DEFINE keys == Cleared(t, {g}) \cup UNION {GraphKeys(n) : n \in {}}
<1>1. txn[t].mode = "readable"
  BY DEF clear_graph, Write
<1>2. BatchOK("readable", txn[t].snapshot, Delete(txn[t].batch, keys)) /\ Delete(txn[t].batch, keys) \in BatchType
  BY <1>1, OpenBatch, ClearOK
<1>3. keys = Cleared(t, {g})
  OBVIOUS
<1>4. {"readable"} \in SUBSET Modes
  BY DEF Modes
<1> HIDE DEF keys
<1> QED BY <1>1, <1>2, <1>3, <1>4, WriteStep DEF clear_graph

\* remove_named_graph of a readable transaction.
LEMMA RemoveGraphStep ==
  ASSUME Inv, NEW t \in Txns, NEW g \in NamedGraphs, remove_named_graph(t, g)
  PROVE  Inv'
<1> DEFINE keys == Cleared(t, {g}) \cup UNION {GraphKeys(n) : n \in {g}}
<1>1. txn[t].mode = "readable"
  BY DEF remove_named_graph, Write
<1>2. BatchOK("readable", txn[t].snapshot, Delete(txn[t].batch, keys)) /\ Delete(txn[t].batch, keys) \in BatchType
  BY <1>1, OpenBatch, ClearOK
<1>3. keys = Cleared(t, {g}) \cup GraphKeys(g)
  OBVIOUS
<1>4. {"readable"} \in SUBSET Modes
  BY DEF Modes
<1> HIDE DEF keys
<1> QED BY <1>1, <1>2, <1>3, <1>4, WriteStep DEF remove_named_graph

\* A clear that goes through the named graphs begins (StartLoop).
LEMMA StartLoopStep ==
  ASSUME Inv, NEW t \in Txns, NEW kind \in {"clear", "remove"}, NEW default \in BOOLEAN,
         StartLoop(t, kind, default)
  PROVE  Inv'
<1> DEFINE T == [txn[t] EXCEPT !.loop = kind, !.default = default]
<1>1. txn[t] \in TxnType /\ TxnOK(txn[t], db) /\ txn[t].mode = "readable"
  BY DEF Inv, Types, StartLoop
<1>2. T \in TxnType
  BY <1>1 DEF TxnType
<1>3. T.mode = txn[t].mode /\ T.snapshot = txn[t].snapshot /\ T.batch = txn[t].batch
  BY <1>1 DEF TxnType
<1>4. TxnOK(T, db)
  BY <1>1, <1>3 DEF TxnOK
<1>5. txn' = [txn EXCEPT ![t] = T]
  BY <1>1 DEF StartLoop, Inv, Types
<1>6. ops' \in 0..MaxOps /\ ops' >= ops /\ ops' # 0
  <2>1. MaxOps \in Nat /\ ops \in 0..MaxOps
    BY ConstantsAssumption DEF Inv, Types
  <2>2. ops < MaxOps /\ ops' = ops + 1
    BY DEF StartLoop
  <2> QED BY <2>1, <2>2
<1>7. phase = "open"
  BY <1>1, OpenPhase
<1>8. UNCHANGED <<phase, version, db, pending, reader, loader, crashes, old, raced>>
  BY DEF StartLoop
<1> HIDE DEF T
<1> QED BY <1>2, <1>4, <1>5, <1>6, <1>7, <1>8, TxnStep

\* A pass over some of the named graphs (NamedPass).
LEMMA NamedPassStep ==
  ASSUME Inv, NEW t \in Txns, NamedPass(t)
  PROVE  Inv'
<1>1. txn[t] \in TxnType /\ TxnOK(txn[t], db) /\ txn[t].loop # "none"
  BY DEF Inv, Types, NamedPass
<1>2. PICK names \in SUBSET NamesIn(View(t)) :
        txn' = [txn EXCEPT
          ![t].batch = Delete(@, Cleared(t, names \cup IF LastPass(names) /\ txn[t].default THEN {DefaultGraph} ELSE {})
                                   \cup IF txn[t].loop = "remove" THEN UNION {GraphKeys(g) : g \in names} ELSE {}),
          ![t].loop = IF LastPass(names) THEN "none" ELSE @]
  BY DEF NamedPass
<1> DEFINE graphs == names \cup IF LastPass(names) /\ txn[t].default THEN {DefaultGraph} ELSE {}
           kept == IF txn[t].loop = "remove" THEN names ELSE {}
           keys == Cleared(t, graphs) \cup UNION {GraphKeys(g) : g \in kept}
           b == Delete(txn[t].batch, keys)
           T == [txn[t] EXCEPT !.batch = b, !.loop = IF LastPass(names) THEN "none" ELSE @]
<1>3. kept \in SUBSET NamedGraphs /\ kept \subseteq graphs
  BY DEF NamesIn
<1>4. txn[t].mode = "readable" /\ phase = "open"
  BY <1>1, OpenPhase DEF TxnOK
<1>5. b \in BatchType /\ BatchOK("readable", txn[t].snapshot, b)
  BY <1>3, <1>4, OpenBatch, ClearOK
<1>6. keys = Cleared(t, graphs)
               \cup IF txn[t].loop = "remove" THEN UNION {GraphKeys(g) : g \in names} ELSE {}
  OBVIOUS
<1> HIDE DEF keys, graphs, kept
<1>7. txn' = [txn EXCEPT ![t] = T]
  BY <1>1, <1>2, <1>6 DEF Inv, Types, graphs
<1> HIDE DEF b
<1>8. T \in TxnType
  BY <1>1, <1>5 DEF TxnType
<1>9. /\ T.mode = "readable" /\ T.snapshot = txn[t].snapshot /\ T.batch = b
  BY <1>1, <1>4 DEF TxnType
<1>10. TxnOK(T, db)
  BY <1>1, <1>5, <1>9 DEF TxnOK
<1>11. ops' \in 0..MaxOps /\ ops' >= ops /\ ops' # 0
  <2>1. MaxOps \in Nat
    BY ConstantsAssumption
  <2>2. ops' = ops /\ ops \in 0..MaxOps /\ ops # 0
    BY <1>1 DEF NamedPass, Inv, Types, Migrated
  <2> QED BY <2>1, <2>2
<1>12. UNCHANGED <<phase, version, db, pending, reader, loader, crashes, old, raced>>
  BY DEF NamedPass
<1> HIDE DEF T
<1> QED BY <1>4, <1>7, <1>8, <1>10, <1>11, <1>12, TxnStep

\* A transaction begins, or is dropped (Begin, drop).
LEMMA BeginStep ==
  ASSUME Inv, NEW t \in Txns, start_transaction(t) \/ start_readable_transaction(t) \/ drop(t)
  PROVE  Inv'
<1>1. db \in SUBSET Keys /\ Whole(db) /\ Decoded(db, db) /\ ops \in 0..MaxOps
  BY DEF Inv, Types
<1>2. phase = "open" /\ ops' = ops /\ UNCHANGED <<phase, version, db, pending, reader, loader, crashes, old, raced>>
  BY OpenPhase DEF start_transaction, start_readable_transaction, drop, Begin
<1>3. PICK T \in TxnType :
        TxnOK(T, db) /\ T.batch = NoBatch /\ T.loop = "none" /\ txn' = [txn EXCEPT ![t] = T]
  <2>1. CASE start_transaction(t)
    BY <1>1, <2>1, NewTxnOK DEF start_transaction, Begin
  <2>2. CASE start_readable_transaction(t)
    BY <1>1, <2>2, NewTxnOK DEF start_readable_transaction, Begin
  <2>3. CASE drop(t)
    <3>1. NoTxn.batch = NoBatch /\ NoTxn.loop = "none"
      BY DEF NoTxn
    <3> QED BY <1>1, <2>3, <3>1, NewTxnOK DEF drop
  <2> QED BY <2>1, <2>2, <2>3
<1>4. ops' \in 0..MaxOps /\ ops' >= ops
  <2>1. MaxOps \in Nat
    BY ConstantsAssumption
  <2> QED BY <1>1, <1>2, <2>1
<1> QED BY <1>2, <1>3, <1>4, TxnStep

\* The batch of a transaction is applied to the database (commit).
LEMMA CommitStep ==
  ASSUME Inv, NEW t \in Txns, commit(t)
  PROVE  Inv'
<1> DEFINE b == txn[t].batch
           seen == txn[t].snapshot
<1>1. /\ phase = "open" /\ version = 2 /\ db' = Apply(db, b) /\ txn' = [txn EXCEPT ![t] = NoTxn]
      /\ reader' = LostTo(db')
      /\ UNCHANGED <<phase, version, pending, loader, ops, crashes, old>>
  BY OpenPhase DEF commit, Inv, Migrated
<1>2. db \in SUBSET Keys /\ Whole(db) /\ Decoded(db, db) /\ (raced \/ Listed(db))
  BY <1>1 DEF Inv, Types
<1>3. b \in BatchType /\ BatchOK(txn[t].mode, seen, b)
  BY OpenBatch
<1>4. /\ db' \in SUBSET Keys /\ Whole(db') /\ Decoded(db', db')
      /\ \A x : <<"id2str", x>> \in db => <<"id2str", x>> \in db'
  BY <1>1, <1>2, <1>3, ApplyOK
<1>5. raced' \in BOOLEAN /\ (raced' \/ Listed(db'))
  <2>1. raced' = (raced \/ \E q \in QuadsIn(db \ seen) : <<"graphs", graph_name[q]>> \in b.delete)
    BY DEF commit
  <2>2. CASE ~raced /\ \A q \in QuadsIn(db \ seen) : <<"graphs", graph_name[q]>> \notin b.delete
    <3> HIDE DEF b, seen
    <3>1. Listed(db)
      BY <1>2, <2>2
    <3>2. Listed(Apply(db, b))
      BY <1>2, <1>3, <2>2, <3>1, ApplyListed
    <3>3. raced' \in BOOLEAN
      BY <2>1 DEF Inv, Types
    <3> QED BY <1>1, <3>2, <3>3
  <2> HIDE DEF b, seen
  <2> QED BY <2>1, <2>2 DEF Inv, Types
<1>6. /\ txn' \in [Txns -> TxnType]
      /\ \A u \in Txns : txn'[u] = IF u = t THEN NoTxn ELSE txn[u]
  BY <1>1, <1>2, NewTxnOK DEF Inv, Types
<1>7. \A u \in Txns : TxnOK(txn'[u], db')
  <2>1. TxnOK(NoTxn, db')
    BY <1>4, NewTxnOK
  <2>2. \A u \in Txns : TxnOK(txn[u], db')
    BY <1>4, TxnKept DEF Inv
  <2> QED BY <1>6, <2>1, <2>2
<1>8. reader' \in [Readers -> ReaderType] /\ \A r \in Readers : ReaderOK(reader'[r], db')
  <2>1. \A r \in Readers : reader[r] \in ReaderType /\ ReaderOK(reader[r], db)
    BY DEF Inv, Types
  <2>2. ASSUME NEW r \in Readers
        PROVE  reader'[r] \in ReaderType /\ ReaderOK(reader'[r], db')
    <3> DEFINE R == reader[r]
               gone == R.lost \/ ~(R.snapshot \subseteq db')
    <3>1. reader'[r] = [R EXCEPT !.lost = gone]
      BY <1>1 DEF LostTo
    <3>2. R \in ReaderType /\ ReaderOK(R, db)
      BY <2>1
    <3>3. gone \in BOOLEAN
      OBVIOUS
    <3>4. gone \/ R.snapshot \subseteq db'
      OBVIOUS
    <3>5. R.lost => gone
      OBVIOUS
    <3> HIDE DEF R, gone
    <3>6. /\ reader'[r] \in ReaderType /\ reader'[r].lost = gone
          /\ reader'[r].snapshot = R.snapshot /\ reader'[r].todo = R.todo
          /\ reader'[r].status = R.status
      BY <3>1, <3>2, <3>3 DEF ReaderType
    <3>7. Decoded(R.snapshot, db')
      BY <1>4, <3>2, StrKeyIs DEF ReaderOK, Decoded
    <3> QED BY <3>2, <3>4, <3>5, <3>6, <3>7 DEF ReaderOK
  <2>3. reader' = [r \in Readers |-> reader'[r]]
    BY <1>1 DEF LostTo
  <2> QED BY <2>2, <2>3
<1>9. Migrated'
  <2>1. ops = 0 => \A u \in Txns : txn'[u].batch = NoBatch /\ txn'[u].loop = "none"
    <3>1. ops = 0 => \A u \in Txns : txn[u].batch = NoBatch /\ txn[u].loop = "none"
      BY DEF Inv, Migrated
    <3>2. NoTxn.batch = NoBatch /\ NoTxn.loop = "none"
      BY DEF NoTxn
    <3> QED BY <1>6, <3>1, <3>2
  <2>2. ops = 0 => db' = db
    <3>1. ops = 0 => b = NoBatch
      BY DEF Inv, Migrated
    <3>2. NoBatch.range = {} /\ NoBatch.delete = {} /\ NoBatch.put = {}
      BY DEF NoBatch
    <3>3. Apply(db, NoBatch) = db
      BY <3>2 DEF Apply
    <3> HIDE DEF b
    <3> QED BY <1>1, <3>1, <3>3
  <2>3. MigrationLosesNothing'
    BY <1>1, <2>2 DEF Inv, Migrated, MigrationLosesNothing
  <2> QED BY <1>1, <2>1, <2>3 DEF Inv, Migrated
<1>10. Types'
  BY <1>1, <1>4, <1>5, <1>6, <1>8 DEF Inv, Types
<1> QED BY <1>1, <1>4, <1>5, <1>7, <1>8, <1>9, <1>10 DEF Inv

\* The tables of a whole set of keys have the same number of quads, those of the default
\* graph and those of the named graphs (validate, SameSize).
LEMMA WholeSameSize ==
  ASSUME NEW keys \in SUBSET Keys, Whole(keys)
  PROVE  SameSize(DefaultTables, keys) /\ SameSize(NamedTables, keys)
<1>1. ASSUME NEW C \in {DefaultTables, NamedTables}, NEW s \in C, NEW t \in C
      PROVE  Count(s, keys) = Count(t, keys)
  <2>1. C \subseteq Tables
    BY DEF Tables
  <2>2. \A a, b \in C, q \in AllQuads : <<a, q>> \in keys => <<b, q>> \in keys
    <3> SUFFICES ASSUME NEW a \in C, NEW b \in C, NEW q \in AllQuads, <<a, q>> \in keys
                 PROVE  <<b, q>> \in keys
      OBVIOUS
    <3>1. a \in IndexTables(q) /\ IndexKeys(q) \subseteq keys
      BY <2>1 DEF Whole
    <3>2. b \in IndexTables(q)
      BY <3>1, TablesOfQuad
    <3> QED BY <3>1, <3>2, IndexKeyIs
  <2>3. {q \in AllQuads : <<s, q>> \in keys} = {q \in AllQuads : <<t, q>> \in keys}
    BY <2>2
  <2> QED BY <2>3 DEF Count
<1> QED BY <1>1 DEF SameSize

\* A step of one reader that leaves the rest alone.
LEMMA ReaderStep ==
  ASSUME Inv, phase = "open", NEW r \in Readers, NEW R \in ReaderType, ReaderOK(R, db),
         reader' = [reader EXCEPT ![r] = R],
         UNCHANGED <<phase, version, db, pending, txn, loader, ops, crashes, old, raced>>
  PROVE  Inv'
<1>1. /\ reader' \in [Readers -> ReaderType]
      /\ \A u \in Readers : reader'[u] = IF u = r THEN R ELSE reader[u]
  BY DEF Inv, Types
<1>2. Types'
  BY <1>1 DEF Inv, Types
<1>3. \A u \in Readers : ReaderOK(reader'[u], db')
  BY <1>1 DEF Inv
<1>4. Migrated'
  BY DEF Inv, Migrated, MigrationLosesNothing
<1> QED BY <1>2, <1>3, <1>4 DEF Inv

\* A snapshot is taken or released (snapshot, release).
LEMMA SnapshotStep ==
  ASSUME Inv, NEW r \in Readers, snapshot(r) \/ release(r)
  PROVE  Inv'
<1>1. db \in SUBSET Keys /\ Whole(db) /\ Decoded(db, db)
  BY DEF Inv, Types
<1>2. phase = "open" /\ UNCHANGED <<phase, version, db, pending, txn, loader, ops, crashes, old, raced>>
  BY OpenPhase DEF snapshot, release
<1>3. PICK R \in ReaderType : ReaderOK(R, db) /\ reader' = [reader EXCEPT ![r] = R]
  <2>1. CASE snapshot(r)
    <3> DEFINE R == [NoReader EXCEPT !.status = "open", !.snapshot = db]
    <3>1. R \in ReaderType
      BY <1>1 DEF ReaderType, NoReader
    <3>2. R.snapshot = db /\ R.todo = {} /\ R.status = "open"
      BY DEF NoReader
    <3>3. ReaderOK(R, db)
      <4> HIDE DEF R
      <4> QED BY <1>1, <3>2 DEF ReaderOK
    <3> QED BY <2>1, <3>1, <3>3 DEF snapshot
  <2>2. CASE release(r)
    <3>1. NoReader \in ReaderType
      BY DEF NoReader, ReaderType
    <3>2. ReaderOK(NoReader, db)
      <4>1. NoReader.snapshot = {} /\ NoReader.todo = {} /\ NoReader.status = "none"
        BY DEF NoReader
      <4>2. Whole({}) /\ Decoded({}, db)
        BY DEF Whole, Decoded, QuadsIn
      <4> QED BY <4>1, <4>2 DEF ReaderOK
    <3> QED BY <2>2, <3>1, <3>2 DEF release
  <2> QED BY <2>1, <2>2
<1> QED BY <1>2, <1>3, ReaderStep

\* validate finds the tables of its snapshot to be of the same size, and lists its quads
\* (validate, Validated).
LEMMA ValidateStep ==
  ASSUME Inv, NEW r \in Readers, validate(r) \/ Validated(r)
  PROVE  Inv'
<1> DEFINE old_R == reader[r]
<1>1. old_R \in ReaderType /\ ReaderOK(old_R, db) /\ reader \in [Readers -> ReaderType]
  BY DEF Inv, Types
<1>2. phase = "open" /\ UNCHANGED <<phase, version, db, pending, txn, loader, ops, crashes, old, raced>>
  BY OpenPhase DEF validate, Validated
<1>3. PICK R \in ReaderType : ReaderOK(R, db) /\ reader' = [reader EXCEPT ![r] = R]
  <2>1. CASE validate(r)
    <3> DEFINE R == [old_R EXCEPT !.status = "checking", !.todo = QuadsIn(old_R.snapshot)]
    <3>1. SameSize(DefaultTables, old_R.snapshot) /\ SameSize(NamedTables, old_R.snapshot)
      BY <1>1, WholeSameSize DEF ReaderOK, ReaderType
    <3>2. reader' = [reader EXCEPT ![r] = R]
      BY <1>1, <2>1, <3>1 DEF validate
    <3>3. QuadsIn(old_R.snapshot) \subseteq AllQuads
      BY DEF QuadsIn
    <3> HIDE DEF old_R
    <3>4. R \in ReaderType
      BY <1>1, <3>3 DEF ReaderType
    <3>5. /\ R.snapshot = old_R.snapshot /\ R.lost = old_R.lost /\ R.todo = QuadsIn(old_R.snapshot)
          /\ R.status = "checking"
      BY <1>1 DEF ReaderType
    <3>6. ReaderOK(R, db)
      BY <1>1, <3>5 DEF ReaderOK
    <3> QED BY <3>2, <3>4, <3>6
  <2>2. CASE Validated(r)
    <3> DEFINE R == [old_R EXCEPT !.status = "valid"]
    <3>1. reader' = [reader EXCEPT ![r] = R]
      BY <1>1, <2>2 DEF Validated
    <3> HIDE DEF old_R
    <3>2. R \in ReaderType
      BY <1>1 DEF ReaderType
    <3>3. R.snapshot = old_R.snapshot /\ R.lost = old_R.lost /\ R.todo = old_R.todo /\ R.status = "valid"
      BY <1>1 DEF ReaderType
    <3>4. ReaderOK(R, db)
      BY <1>1, <3>3 DEF ReaderOK
    <3> QED BY <3>1, <3>2, <3>4
  <2> QED BY <2>1, <2>2
<1> QED BY <1>2, <1>3, ReaderStep

\* A quad of a snapshot of which nothing was removed has all its keys in the database as
\* it is by now, if its graph was listed (Expected, ValidateQuad).
LEMMA ExpectedFound ==
  ASSUME NEW seen, NEW keys, Whole(seen), Decoded(seen, keys), seen \subseteq keys,
         NEW q \in QuadsIn(seen), q \notin StarQuads, GraphKeys(graph_name[q]) \subseteq seen
  PROVE  Expected(q) \subseteq keys
<1>1. q \in Quads
  BY DEF QuadsIn, AllQuads
<1>2. IndexKeys(q) \subseteq seen
  BY <1>1, WholeHas DEF AllQuads
<1>3. (IndexTables(q) \ {"dspo", "gspo"}) \X {Written(q)} \subseteq IndexKeys(q)
  BY <1>1, WrittenIs DEF IndexKeys
<1>4. StrKeys(q) \subseteq keys
  BY DEF Decoded
<1> QED BY <1>2, <1>3, <1>4 DEF Expected

\* validate looks for the keys of a quad (ValidateQuad).
LEMMA ValidateQuadStep ==
  ASSUME Inv, NEW r \in Readers, NEW q \in AllQuads, ValidateQuad(r, q)
  PROVE  Inv'
<1> DEFINE old_R == reader[r]
           found == Expected(q) \subseteq db
           R == [old_R EXCEPT !.status = IF found THEN @ ELSE "corrupt",
                              !.todo = IF found THEN @ \ {q} ELSE {}]
<1>1. old_R \in ReaderType /\ ReaderOK(old_R, db) /\ reader \in [Readers -> ReaderType]
  BY DEF Inv, Types
<1>2. phase = "open" /\ UNCHANGED <<phase, version, db, pending, txn, loader, ops, crashes, old, raced>>
  BY OpenPhase DEF ValidateQuad
<1>3. old_R.status = "checking" /\ q \in old_R.todo
  BY DEF ValidateQuad
<1>4. reader' = [reader EXCEPT ![r] = R]
  BY <1>1 DEF ValidateQuad
<1>5. ~found => \/ old_R.lost
                \/ \E p \in QuadsIn(old_R.snapshot) :
                     p \in StarQuads \/ ~(GraphKeys(graph_name[p]) \subseteq old_R.snapshot)
  <2>1. q \in QuadsIn(old_R.snapshot)
    BY <1>1, <1>3 DEF ReaderOK
  <2> HIDE DEF old_R
  <2> QED BY <1>1, <2>1, ExpectedFound DEF ReaderOK
<1> HIDE DEF old_R, found
<1>6. R \in ReaderType
  BY <1>1 DEF ReaderType
<1>7. /\ R.snapshot = old_R.snapshot /\ R.lost = old_R.lost
      /\ R.todo \subseteq old_R.todo
      /\ R.status = IF found THEN "checking" ELSE "corrupt"
  BY <1>1, <1>3 DEF ReaderType
<1> HIDE DEF R
<1>8. ReaderOK(R, db)
  BY <1>1, <1>5, <1>7 DEF ReaderOK
<1> QED BY <1>2, <1>4, <1>6, <1>8, ReaderStep

\* A step of the bulk loader, which adds the keys of some quads to the database.
LEMMA LoaderStep ==
  ASSUME Inv, phase = "open", loader' \in LoaderType, LoaderOK(loader'),
         NEW quads \in SUBSET Quads, db' = db \cup UNION {InsertKeys(q) : q \in quads},
         ops' \in 0..MaxOps, ops' >= ops,
         UNCHANGED <<phase, version, pending, txn, reader, crashes, old, raced>>
  PROVE  Inv'
<1>1. db \in SUBSET Keys /\ Whole(db) /\ Decoded(db, db) /\ version = 2 /\ (raced \/ Listed(db))
  BY DEF Inv, Types, Migrated
<1>2. /\ db' \in SUBSET Keys /\ Whole(db') /\ Decoded(db', db') /\ (raced' \/ Listed(db'))
      /\ db \subseteq db'
  <2>1. PICK more : more = UNION {InsertKeys(q) : q \in quads}
    OBVIOUS
  <2>2. more \in SUBSET Keys /\ Closed(more)
    <3>1. quads \in SUBSET AllQuads
      BY DEF AllQuads
    <3> QED BY <2>1, <3>1, InsertsClosed
  <2>3. db' = db \cup more
    BY <2>1
  <2> QED BY <1>1, <2>2, <2>3, GrowOK
<1>3. \A t \in Txns : TxnOK(txn'[t], db')
  BY <1>2, TxnKept DEF Inv
<1>4. \A r \in Readers : ReaderOK(reader'[r], db')
  BY <1>2, ReaderKept DEF Inv
<1>5. ops' = 0 => ops = 0
  BY DEF Inv, Types
<1>6. MigrationLosesNothing'
  BY <1>1, <1>2, <1>5 DEF Inv, Migrated, MigrationLosesNothing
<1>7. Migrated'
  <2>1. Migrated
    BY DEF Inv
  <2>2. version' = 2 /\ phase' = "open" /\ ~(2 < 2)
    BY <1>1
  <2> QED BY <1>5, <1>6, <2>1, <2>2 DEF Migrated
<1>8. Types'
  BY <1>2 DEF Inv, Types
<1> QED BY <1>1, <1>2, <1>3, <1>4, <1>7, <1>8 DEF Inv

\* What the threads of the loader have been given, as one is added or joined.
LEMMA ThreadsFacts ==
  ASSUME NEW threads \in Seq(ThreadType)
  PROVE  /\ \A e \in ThreadType : /\ Append(threads, e) \in Seq(ThreadType)
                                  /\ InThreads(Append(threads, e)) = InThreads(threads) \cup e.batch
         /\ Len(threads) > 0 => /\ Head(threads) \in ThreadType /\ Tail(threads) \in Seq(ThreadType)
                                /\ InThreads(threads) = Head(threads).batch \cup InThreads(Tail(threads))
         /\ InThreads(<<>>) = {}
         /\ InThreads(threads) \subseteq Quads
<1>1. ASSUME NEW e \in ThreadType
      PROVE  /\ Append(threads, e) \in Seq(ThreadType)
             /\ InThreads(Append(threads, e)) = InThreads(threads) \cup e.batch
  <2> DEFINE more == Append(threads, e)
             n == Len(threads)
  <2>1. /\ more \in Seq(ThreadType) /\ DOMAIN more = 1..n+1 /\ DOMAIN threads = 1..n /\ n \in Nat
        /\ \A i \in 1..n : more[i] = threads[i]
        /\ more[n+1] = e
    OBVIOUS
  <2>2. \A x : x \in InThreads(more) <=> \E i \in 1..n+1 : x \in more[i].batch
    BY <2>1 DEF InThreads
  <2>3. \A x : x \in InThreads(threads) <=> \E i \in 1..n : x \in threads[i].batch
    BY <2>1 DEF InThreads
  <2>4. \A i : i \in 1..n+1 <=> i \in 1..n \/ i = n+1
    BY <2>1
  <2> HIDE DEF more, n
  <2>5. \A x : x \in InThreads(more) <=> x \in InThreads(threads) \/ x \in e.batch
    BY <2>1, <2>2, <2>3, <2>4
  <2> QED BY <2>1, <2>5 DEF more
<1>2. ASSUME Len(threads) > 0
      PROVE  /\ Head(threads) \in ThreadType /\ Tail(threads) \in Seq(ThreadType)
             /\ InThreads(threads) = Head(threads).batch \cup InThreads(Tail(threads))
  <2> DEFINE rest == Tail(threads)
             n == Len(threads)
  <2>1. /\ rest \in Seq(ThreadType) /\ DOMAIN rest = 1..n-1 /\ DOMAIN threads = 1..n /\ n \in Nat \ {0}
        /\ \A i \in 1..n-1 : rest[i] = threads[i+1]
        /\ Head(threads) = threads[1]
    BY <1>2
  <2>2. Head(threads) \in ThreadType
    BY <2>1
  <2>3. \A x : x \in InThreads(rest) <=> \E i \in 1..n-1 : x \in rest[i].batch
    BY <2>1 DEF InThreads
  <2>4. \A x : x \in InThreads(threads) <=> \E i \in 1..n : x \in threads[i].batch
    BY <2>1 DEF InThreads
  <2> HIDE DEF rest, n
  <2>5. \A x : x \in InThreads(threads) => x \in Head(threads).batch \/ x \in InThreads(rest)
    <3> SUFFICES ASSUME NEW x, NEW i \in 1..n, x \in threads[i].batch, i # 1
                 PROVE  x \in InThreads(rest)
      BY <2>1, <2>4
    <3>1. i - 1 \in 1..n-1 /\ rest[i-1] = threads[i]
      BY <2>1
    <3> QED BY <2>3, <3>1
  <2>6. \A x : x \in Head(threads).batch \/ x \in InThreads(rest) => x \in InThreads(threads)
    <3>1. 1 \in 1..n /\ \A i \in 1..n-1 : i+1 \in 1..n
      BY <2>1
    <3> QED BY <2>1, <2>3, <2>4, <3>1
  <2> QED BY <2>1, <2>2, <2>5, <2>6 DEF rest
<1>3. InThreads(<<>>) = {}
  BY DEF InThreads
<1>4. InThreads(threads) \subseteq Quads
  <2>1. \A i \in DOMAIN threads : threads[i] \in ThreadType
    OBVIOUS
  <2> QED BY <2>1 DEF InThreads, ThreadType
<1> QED BY <1>1, <1>2, <1>3, <1>4

\* A commit of the files either shows all of them, or fails and says so (do_commit).
LEMMA DoCommitFacts ==
  ASSUME NEW l \in LoaderType, NEW r \in do_commit(l)
  PROVE  /\ r.loader \in LoaderType /\ r.ok \in BOOLEAN
         /\ r.loader.status = l.status /\ r.loader.atomic = l.atomic
         /\ r.loader.threads = l.threads /\ r.loader.given = l.given
         /\ l.visible \subseteq r.loader.visible
         /\ r.ok => /\ r.loader.failed = l.failed
                    /\ r.loader.visible = l.visible \cup l.sst_files
                    /\ r.loader.sst_files = {}
         /\ ~r.ok => r.loader.failed
<1>1. CASE l.sst_files = {}
  <2>1. r = [loader |-> l, ok |-> TRUE]
    BY <1>1 DEF do_commit
  <2>2. r.loader = l /\ r.ok = TRUE
    BY <2>1
  <2> QED BY <1>1, <2>2 DEF LoaderType
<1>2. CASE r = [loader |-> [l EXCEPT !.failed = TRUE], ok |-> FALSE]
  <2> DEFINE m == [l EXCEPT !.failed = TRUE]
  <2>1. r.loader = m /\ r.ok = FALSE
    BY <1>2
  <2>2. /\ m \in LoaderType /\ m.status = l.status /\ m.atomic = l.atomic /\ m.threads = l.threads
        /\ m.given = l.given /\ m.visible = l.visible /\ m.failed = TRUE
    BY DEF LoaderType
  <2> HIDE DEF m
  <2> QED BY <2>1, <2>2
<1>3. CASE r = [loader |-> [[l EXCEPT !.visible = @ \cup l.sst_files] EXCEPT !.sst_files = {}], ok |-> TRUE]
  <2> DEFINE m == [[l EXCEPT !.visible = @ \cup l.sst_files] EXCEPT !.sst_files = {}]
  <2>1. r.loader = m /\ r.ok = TRUE
    BY <1>3
  <2>2. /\ m \in LoaderType /\ m.status = l.status /\ m.atomic = l.atomic /\ m.threads = l.threads
        /\ m.given = l.given /\ m.visible = l.visible \cup l.sst_files /\ m.failed = l.failed
        /\ m.sst_files = {}
    BY DEF LoaderType
  <2> HIDE DEF m
  <2> QED BY <2>1, <2>2
<1>4. CASE r = [loader |-> [[l EXCEPT !.visible = @ \cup l.sst_files] EXCEPT !.stale = TRUE, !.failed = TRUE], ok |-> FALSE]
  <2> DEFINE m == [[l EXCEPT !.visible = @ \cup l.sst_files] EXCEPT !.stale = TRUE, !.failed = TRUE]
  <2>1. r.loader = m /\ r.ok = FALSE
    BY <1>4
  <2>2. /\ m \in LoaderType /\ m.status = l.status /\ m.atomic = l.atomic /\ m.threads = l.threads
        /\ m.given = l.given /\ m.visible = l.visible \cup l.sst_files /\ m.failed = TRUE
    BY DEF LoaderType
  <2> HIDE DEF m
  <2> QED BY <2>1, <2>2
<1> QED BY <1>1, <1>2, <1>3, <1>4 DEF do_commit

\* The loader is opened, one of its threads ends, or it is dropped (bulk_loader,
\* ThreadEnds, drop_loader).
LEMMA LoaderAloneStep ==
  ASSUME Inv, \/ \E atomic \in BOOLEAN : bulk_loader(atomic)
              \/ \E i \in DOMAIN loader.threads : ThreadEnds(i)
              \/ drop_loader
  PROVE  Inv'
<1>1. loader \in LoaderType /\ LoaderOK(loader) /\ MaxOps \in Nat /\ ops \in 0..MaxOps
  BY ConstantsAssumption DEF Inv, Types
<1>2. loader' \in LoaderType /\ LoaderOK(loader') /\ phase = "open" /\ UNCHANGED loaderOnly
  <2>1. ASSUME NEW atomic \in BOOLEAN, bulk_loader(atomic)
        PROVE  loader' \in LoaderType /\ LoaderOK(loader') /\ phase = "open" /\ UNCHANGED loaderOnly
    <3>1. phase = "open" /\ UNCHANGED loaderOnly
      BY <2>1 DEF bulk_loader
    <3>2. loader' = [status |-> "open", atomic |-> atomic, threads |-> <<>>, sst_files |-> {},
                     stale |-> FALSE, given |-> {}, visible |-> {}, failed |-> FALSE]
      BY <2>1 DEF bulk_loader, NoLoader
    <3>3. /\ loader' \in LoaderType /\ loader'.status = "open" /\ loader'.threads = <<>>
          /\ loader'.sst_files = {} /\ loader'.given = {} /\ loader'.visible = {}
      BY <3>2 DEF LoaderType
    <3>4. InThreads(<<>>) = {}
      BY DEF InThreads
    <3>5. LoaderOK(loader')
      BY <3>3, <3>4 DEF LoaderOK
    <3> QED BY <3>1, <3>3, <3>5
  <2>2. ASSUME NEW i \in DOMAIN loader.threads, ThreadEnds(i)
        PROVE  loader' \in LoaderType /\ LoaderOK(loader') /\ phase = "open" /\ UNCHANGED loaderOnly
    <3>1. PICK state \in {"done", "failed"} : loader' = [loader EXCEPT !.threads[i].state = state]
      BY <2>2 DEF ThreadEnds
    <3> DEFINE threads == loader.threads
               ended == [threads EXCEPT ![i] = [threads[i] EXCEPT !.state = state]]
    <3>2. threads \in Seq(ThreadType) /\ DOMAIN threads = 1..Len(threads)
      BY <1>1 DEF LoaderType
    <3>3. loader.status = "open"
      <4>1. threads # <<>>
        BY <2>2
      <4> QED BY <1>1, <4>1 DEF LoaderOK
    <3>4. phase = "open" /\ UNCHANGED loaderOnly
      BY <2>2, <3>3, OpenPhase DEF ThreadEnds
    <3>5. loader' = [loader EXCEPT !.threads = ended]
      BY <1>1, <3>1 DEF LoaderType
    <3> HIDE DEF threads
    <3>6. [threads[i] EXCEPT !.state = state] \in ThreadType /\ [threads[i] EXCEPT !.state = state].batch = threads[i].batch
      <4>1. threads[i] \in ThreadType
        BY <2>2, <3>2 DEF threads
      <4> QED BY <4>1 DEF ThreadType
    <3>7. /\ ended \in Seq(ThreadType) /\ DOMAIN ended = DOMAIN threads
          /\ \A j \in DOMAIN threads : ended[j].batch = threads[j].batch
      BY <2>2, <3>2, <3>6 DEF threads
    <3> HIDE DEF ended
    <3>8. InThreads(ended) = InThreads(threads)
      BY <3>7 DEF InThreads
    <3>9. /\ loader' \in LoaderType /\ loader'.status = loader.status /\ loader'.atomic = loader.atomic
          /\ loader'.visible = loader.visible /\ loader'.given = loader.given
          /\ loader'.sst_files = loader.sst_files /\ loader'.failed = loader.failed
          /\ loader'.threads = ended
      BY <1>1, <3>5, <3>7 DEF LoaderType
    <3>10. LoaderOK(loader')
      BY <1>1, <3>3, <3>8, <3>9 DEF LoaderOK, threads
    <3> QED BY <3>4, <3>9, <3>10
  <2>3. CASE drop_loader
    <3>1. phase = "open" /\ UNCHANGED loaderOnly
      BY <1>1, <2>3, OpenPhase DEF drop_loader
    <3>2. loader' = [loader EXCEPT !.status = "dropped", !.threads = <<>>, !.sst_files = {}]
      BY <2>3 DEF drop_loader
    <3>3. /\ loader' \in LoaderType /\ loader'.status = "dropped" /\ loader'.atomic = loader.atomic
          /\ loader'.visible = loader.visible /\ loader'.threads = <<>>
      <4>1. PICK none \in Seq(ThreadType) : none = <<>>
        <5>1. <<>> \in Seq(ThreadType)
          OBVIOUS
        <5> QED BY <5>1
      <4>2. loader' = [loader EXCEPT !.status = "dropped", !.threads = none, !.sst_files = {}]
        BY <3>2, <4>1
      <4>3. /\ loader' \in LoaderType /\ loader'.status = "dropped" /\ loader'.atomic = loader.atomic
            /\ loader'.visible = loader.visible /\ loader'.threads = none
        BY <1>1, <4>2 DEF LoaderType
      <4> QED BY <4>1, <4>3
    <3>4. LoaderOK(loader')
      BY <1>1, <2>3, <3>3 DEF LoaderOK, drop_loader
    <3> QED BY <3>1, <3>3, <3>4
  <2> QED BY <2>1, <2>2, <2>3
<1>3. PICK quads \in SUBSET Quads : db' = db \cup UNION {InsertKeys(q) : q \in quads}
  <2>1. db = db \cup UNION {InsertKeys(q) : q \in {}}
    OBVIOUS
  <2>2. {} \in SUBSET Quads /\ db' = db
    BY <1>2 DEF loaderOnly
  <2> QED BY <2>1, <2>2
<1>4. UNCHANGED <<phase, version, pending, txn, reader, crashes, old, raced>>
  BY <1>2 DEF loaderOnly
<1>5. ops' \in 0..MaxOps /\ ops' >= ops
  BY <1>1, <1>2 DEF loaderOnly
<1> QED BY <1>2, <1>3, <1>4, <1>5, LoaderStep

\* What a new state of the loader shows is ingested (Ingest).
LEMMA IngestStep ==
  ASSUME Inv, phase = "open", NEW l \in LoaderType, db' = db \cup Ingest(l),
         loader' \in LoaderType, LoaderOK(loader'),
         ops' = ops \/ (ops < MaxOps /\ ops' = ops + 1),
         UNCHANGED <<phase, version, pending, txn, reader, crashes, old, raced>>
  PROVE  Inv'
<1>1. MaxOps \in Nat /\ ops \in 0..MaxOps
  BY ConstantsAssumption DEF Inv, Types
<1>2. ops' \in 0..MaxOps /\ ops' >= ops
  BY <1>1
<1>3. PICK quads \in SUBSET Quads : quads = l.visible \ loader.visible
  BY DEF LoaderType
<1>4. db' = db \cup UNION {InsertKeys(q) : q \in quads}
  BY <1>3 DEF Ingest
<1> QED BY <1>2, <1>4, LoaderStep

\* A batch is given to the loader, after a thread was joined if need be; it is accepted, or
\* an error is returned and remembered (load_batch).
LEMMA LoadBatchStep ==
  ASSUME Inv, NEW batch \in Batches, load_batch(batch)
  PROVE  Inv'
<1> DEFINE first == Head(loader.threads)
           joined == [loader EXCEPT !.threads = Tail(@), !.sst_files = @ \cup first.batch]
           refused == [loader EXCEPT !.threads = Tail(@), !.failed = TRUE]
           thread == [batch |-> batch, state |-> "running"]
           accepted(l) == [l EXCEPT !.given = @ \cup batch, !.threads = Append(@, thread)]
<1>1. loader \in LoaderType /\ LoaderOK(loader) /\ loader.status = "open" /\ phase = "open"
  BY OpenPhase DEF Inv, Types, load_batch
<1>2. loader.threads \in Seq(ThreadType) /\ (Full => Len(loader.threads) > 0)
  <2>1. max_num_threads \in Nat \ {0}
    BY ConstantsAssumption
  <2>2. loader.threads \in Seq(ThreadType)
    BY <1>1 DEF LoaderType
  <2>3. Len(loader.threads) \in Nat
    BY <2>2
  <2> QED BY <2>1, <2>2, <2>3 DEF Full
<1>3. thread \in ThreadType /\ thread.batch = batch /\ batch \in SUBSET Quads
  BY ConstantsAssumption DEF ThreadType
<1>4. ASSUME Full
      PROVE  /\ joined \in LoaderType /\ refused \in LoaderType
             /\ joined.status = "open" /\ joined.atomic = loader.atomic /\ joined.failed = loader.failed
             /\ joined.visible = loader.visible /\ joined.given = loader.given
             /\ joined.sst_files \cup InThreads(joined.threads) =
                  loader.sst_files \cup InThreads(loader.threads)
             /\ refused.status = "open" /\ refused.atomic = loader.atomic /\ refused.failed = TRUE
             /\ refused.visible = loader.visible
  <2>1. PICK rest \in Seq(ThreadType) : rest = Tail(loader.threads)
    BY <1>2, <1>4, ThreadsFacts
  <2>2. PICK head \in ThreadType : head = first
    BY <1>2, <1>4, ThreadsFacts
  <2>3. InThreads(loader.threads) = head.batch \cup InThreads(rest) /\ head.batch \in SUBSET Quads
    BY <1>2, <1>4, <2>1, <2>2, ThreadsFacts DEF ThreadType
  <2>4. /\ joined = [loader EXCEPT !.threads = rest, !.sst_files = @ \cup head.batch]
        /\ refused = [loader EXCEPT !.threads = rest, !.failed = TRUE]
    BY <2>1, <2>2
  <2> HIDE DEF first, joined, refused
  <2>5. /\ joined \in LoaderType /\ joined.status = loader.status /\ joined.atomic = loader.atomic
        /\ joined.failed = loader.failed /\ joined.visible = loader.visible
        /\ joined.given = loader.given /\ joined.threads = rest
        /\ joined.sst_files = loader.sst_files \cup head.batch
    BY <1>1, <2>3, <2>4 DEF LoaderType
  <2>6. /\ refused \in LoaderType /\ refused.status = loader.status /\ refused.atomic = loader.atomic
        /\ refused.failed = TRUE /\ refused.visible = loader.visible
    BY <1>1, <2>4 DEF LoaderType
  <2> QED BY <1>1, <2>3, <2>5, <2>6
<1>5. ASSUME NEW l \in LoaderType, l.status = "open",
             l.atomic => l.visible = {},
             ~l.failed => l.given = l.visible \cup l.sst_files \cup InThreads(l.threads)
      PROVE  accepted(l) \in LoaderType /\ LoaderOK(accepted(l))
  <2>1. l.threads \in Seq(ThreadType)
    BY DEF LoaderType
  <2>2. PICK more \in Seq(ThreadType) : more = Append(l.threads, thread)
    BY <1>3, <2>1, ThreadsFacts
  <2>3. InThreads(more) = InThreads(l.threads) \cup batch
    BY <1>3, <2>1, <2>2, ThreadsFacts
  <2> DEFINE m == [l EXCEPT !.given = @ \cup batch, !.threads = more]
  <2>4. accepted(l) = m
    BY <2>2
  <2>5. /\ m \in LoaderType /\ m.status = "open" /\ m.atomic = l.atomic /\ m.failed = l.failed
        /\ m.visible = l.visible /\ m.sst_files = l.sst_files /\ m.given = l.given \cup batch
        /\ m.threads = more
    BY <1>3, <1>5 DEF LoaderType
  <2> HIDE DEF m, accepted
  <2>6. LoaderOK(m)
    BY <1>5, <2>3, <2>5 DEF LoaderOK
  <2> QED BY <2>4, <2>5, <2>6
<1>6. ASSUME NEW l \in LoaderType, l.status = "open", l.failed, l.atomic => l.visible = {}
      PROVE  LoaderOK(l)
  BY <1>6 DEF LoaderOK
<1>7. /\ ops < MaxOps /\ ops' = ops + 1
      /\ UNCHANGED <<phase, version, pending, txn, reader, crashes, old, raced>>
  BY DEF load_batch
<1>8. /\ loader.atomic => loader.visible = {}
      /\ ~loader.failed => loader.given = loader.visible \cup loader.sst_files \cup InThreads(loader.threads)
  BY <1>1 DEF LoaderOK
<1> DEFINE l == IF Full THEN joined ELSE loader
           results == IF Full /\ first.state = "failed" THEN {[loader |-> refused, ok |-> FALSE]}
                      ELSE IF l.atomic THEN {[loader |-> l, ok |-> TRUE]} ELSE do_commit(l)
<1>9. PICK r \in results :
        /\ db' = db \cup Ingest(r.loader)
        /\ loader' = IF ~r.ok THEN r.loader ELSE accepted(r.loader)
  BY DEF load_batch
<1>10. /\ l \in LoaderType /\ l.status = "open" /\ l.atomic = loader.atomic
       /\ l.atomic => l.visible = {}
       /\ ~l.failed => l.given = l.visible \cup l.sst_files \cup InThreads(l.threads)
  <2>1. CASE Full
    <3> HIDE DEF joined, refused
    <3>1. l = joined
      BY <2>1
    <3> HIDE DEF l
    <3> QED BY <1>4, <1>8, <2>1, <3>1
  <2>2. CASE ~Full
    <3>1. l = loader
      BY <2>2
    <3> HIDE DEF l
    <3> QED BY <1>1, <1>8, <3>1
  <2> QED BY <2>1, <2>2
<1>11. r.loader \in LoaderType /\ loader' \in LoaderType /\ LoaderOK(loader')
  <2>1. CASE Full /\ first.state = "failed"
    <3> HIDE DEF first, joined, refused, l, accepted
    <3>1. r = [loader |-> refused, ok |-> FALSE]
      BY <2>1
    <3>2. r.loader = refused /\ loader' = refused
      BY <1>9, <3>1
    <3> QED BY <1>4, <1>6, <1>8, <2>1, <3>2
  <2>2. CASE ~(Full /\ first.state = "failed") /\ l.atomic
    <3> HIDE DEF first, joined, refused, l, accepted
    <3>1. r = [loader |-> l, ok |-> TRUE]
      BY <2>2
    <3>2. r.loader = l /\ loader' = accepted(l)
      BY <1>9, <3>1
    <3> QED BY <1>5, <1>10, <3>2
  <2>3. CASE ~(Full /\ first.state = "failed") /\ ~l.atomic
    <3> HIDE DEF first, joined, refused, l, accepted
    <3>1. r \in do_commit(l)
      BY <2>3
    <3> HIDE DEF results
    <3>2. /\ r.loader \in LoaderType /\ r.loader.status = "open" /\ ~r.loader.atomic
          /\ r.ok \in BOOLEAN /\ (~r.ok => r.loader.failed)
          /\ r.loader.threads = l.threads /\ r.loader.given = l.given
          /\ r.ok => /\ r.loader.failed = l.failed
                     /\ r.loader.visible = l.visible \cup l.sst_files
                     /\ r.loader.sst_files = {}
      BY <1>10, <2>3, <3>1, DoCommitFacts
    <3>3. CASE r.ok
      <4>1. loader' = accepted(r.loader)
        BY <1>9, <3>3
      <4>2. ~r.loader.failed =>
              r.loader.given = r.loader.visible \cup r.loader.sst_files \cup InThreads(r.loader.threads)
        BY <1>10, <3>2, <3>3
      <4> QED BY <1>5, <3>2, <4>1, <4>2
    <3>4. CASE ~r.ok
      <4>1. loader' = r.loader
        BY <1>9, <3>4
      <4> QED BY <1>6, <3>2, <3>4, <4>1
    <3> QED BY <3>3, <3>4
  <2> QED BY <2>1, <2>2, <2>3
<1> HIDE DEF results, accepted
<1> QED BY <1>1, <1>7, <1>9, <1>11, IngestStep

\* The loader is committed: all the threads are joined and the files ingested, or an error
\* is returned (commit_loader).
LEMMA CommitLoaderStep ==
  ASSUME Inv, commit_loader
  PROVE  Inv'
<1> DEFINE states == {th.state : th \in Threads}
           results == IF "failed" \in states THEN {[loader |-> loader, ok |-> FALSE]}
                      ELSE do_commit(JoinAll)
<1>1. loader \in LoaderType /\ LoaderOK(loader) /\ loader.status = "open" /\ phase = "open"
  BY OpenPhase DEF Inv, Types, commit_loader
<1>2. PICK none \in Seq(ThreadType) : none = <<>>
  <2>1. <<>> \in Seq(ThreadType)
    OBVIOUS
  <2> QED BY <2>1
<1>3. PICK r \in results :
        /\ db' = db \cup Ingest(r.loader)
        /\ loader' = [r.loader EXCEPT !.status = IF r.ok THEN "committed" ELSE "failed",
                                      !.threads = none, !.sst_files = {}]
  BY <1>2 DEF commit_loader
<1>4. ops' = ops /\ UNCHANGED <<phase, version, pending, txn, reader, crashes, old, raced>>
  BY DEF commit_loader
<1>5. /\ JoinAll \in LoaderType /\ JoinAll.failed = loader.failed /\ JoinAll.given = loader.given
      /\ JoinAll.visible = loader.visible
      /\ JoinAll.sst_files = loader.sst_files \cup InThreads(loader.threads)
  <2>1. UNION {th.batch : th \in Threads} = InThreads(loader.threads)
    BY DEF Threads, InThreads
  <2>2. PICK all \in SUBSET Quads : all = InThreads(loader.threads)
    BY <1>1, ThreadsFacts DEF LoaderType
  <2>3. JoinAll = [loader EXCEPT !.threads = none, !.sst_files = @ \cup all]
    BY <1>2, <2>1, <2>2 DEF JoinAll
  <2>4. /\ JoinAll \in LoaderType /\ JoinAll.failed = loader.failed /\ JoinAll.given = loader.given
        /\ JoinAll.visible = loader.visible /\ JoinAll.sst_files = loader.sst_files \cup all
    BY <1>1, <2>3 DEF LoaderType
  <2> QED BY <2>2, <2>4
<1>6. /\ r.loader \in LoaderType /\ r.ok \in BOOLEAN
      /\ r.ok /\ ~r.loader.failed => r.loader.visible = r.loader.given
  <2>1. CASE "failed" \in states
    <3> HIDE DEF states
    <3>1. r = [loader |-> loader, ok |-> FALSE]
      BY <2>1
    <3>2. r.loader = loader /\ r.ok = FALSE
      BY <3>1
    <3> QED BY <1>1, <3>2
  <2>2. CASE "failed" \notin states
    <3> HIDE DEF states
    <3>1. r \in do_commit(JoinAll)
      BY <2>2
    <3> HIDE DEF results
    <3>2. /\ r.loader \in LoaderType /\ r.ok \in BOOLEAN /\ r.loader.given = loader.given
          /\ r.ok => /\ r.loader.failed = loader.failed
                     /\ r.loader.visible = loader.visible \cup JoinAll.sst_files
      BY <1>5, <3>1, DoCommitFacts
    <3>3. ~loader.failed => loader.given = loader.visible \cup loader.sst_files \cup InThreads(loader.threads)
      BY <1>1 DEF LoaderOK
    <3> QED BY <1>5, <3>2, <3>3
  <2> QED BY <2>1, <2>2
<1> HIDE DEF results
<1>7. loader' \in LoaderType /\ LoaderOK(loader')
  <2>1. PICK status \in {"committed", "failed"} :
          /\ status = "committed" <=> r.ok
          /\ loader' = [r.loader EXCEPT !.status = status, !.threads = none, !.sst_files = {}]
    BY <1>3, <1>6
  <2>2. /\ loader' \in LoaderType /\ loader'.status = status /\ loader'.threads = none
        /\ loader'.visible = r.loader.visible /\ loader'.given = r.loader.given
        /\ loader'.failed = r.loader.failed
    BY <1>6, <2>1 DEF LoaderType
  <2> QED BY <1>2, <1>6, <2>1, <2>2 DEF LoaderOK
<1> QED BY <1>1, <1>3, <1>4, <1>6, <1>7, IngestStep

-----------------------------------------------------------------------------
(* The migration *)

\* Before the storage is open nothing is.
LEMMA ClosedOK ==
  ASSUME db' \in SUBSET Keys, Whole(db'), Decoded(db', db'),
         phase' \in {"check", "graphs", "rewrite", "failed"},
         \A t \in Txns : txn'[t] = NoTxn, \A r \in Readers : reader'[r] = NoReader
  PROVE  /\ \A t \in Txns : TxnOK(txn'[t], db') /\ txn'[t].batch = NoBatch /\ txn'[t].loop = "none"
         /\ \A r \in Readers : ReaderOK(reader'[r], db')
<1>1. TxnOK(NoTxn, db')
  BY NewTxnOK
<1>2. NoTxn.batch = NoBatch /\ NoTxn.loop = "none"
  BY DEF NoTxn
<1>3. ReaderOK(NoReader, db')
  <2>1. NoReader.snapshot = {} /\ NoReader.todo = {} /\ NoReader.status = "none"
    BY DEF NoReader
  <2>2. Whole({}) /\ Decoded({}, db')
    BY DEF Whole, Decoded, QuadsIn
  <2> QED BY <2>1, <2>2 DEF ReaderOK
<1> QED BY <1>1, <1>2, <1>3

\* A step of opening the storage.
LEMMA MigrateStep ==
  ASSUME Inv, phase # "open", phase' \in {"check", "graphs", "rewrite", "failed"},
         db' \in SUBSET Keys, Whole(db'), Decoded(db', db'), db \subseteq db',
         version' \in 0..2, version' < 2 => version < 2,
         version' >= 1 \/ phase' = "graphs" => raced' \/ Listed(db'),
         phase' = "graphs" => version' = 0,
         phase' = "rewrite" => version' = 1 /\ \A q \in old \ pending' : NewKeys(q) \subseteq db',
         version < 2 /\ version' = 2 => \A q \in old : NewKeys(q) \subseteq db',
         UNCHANGED <<openVars, old>>
  PROVE  Inv'
<1>1. /\ txn' = txn /\ reader' = reader /\ loader' = loader /\ ops' = ops /\ raced' = raced
      /\ old' = old
  BY DEF openVars
<1>2. /\ \A t \in Txns : txn'[t] = NoTxn
      /\ \A r \in Readers : reader'[r] = NoReader
      /\ loader'.status # "open"
  BY <1>1 DEF Inv, Migrated
<1>3. /\ \A t \in Txns : TxnOK(txn'[t], db') /\ txn'[t].batch = NoBatch /\ txn'[t].loop = "none"
      /\ \A r \in Readers : ReaderOK(reader'[r], db')
  BY <1>2, ClosedOK
<1>4. Types'
  BY <1>1 DEF Inv, Types
<1>5. MigrationLosesNothing'
  <2> SUFFICES ASSUME NEW q \in old, ops = 0
               PROVE  NewKeys(q) \subseteq db' \/ (version' < 2 /\ IndexKeys(q) \subseteq db')
    BY <1>1 DEF MigrationLosesNothing, NewKeys
  <2>1. NewKeys(q) \subseteq db \/ (version < 2 /\ IndexKeys(q) \subseteq db)
    BY DEF Inv, Migrated, MigrationLosesNothing, NewKeys
  <2>2. version' < 2 \/ version' = 2
    OBVIOUS
  <2>3. version < 2 \/ version = 2
    BY DEF Inv, Types
  <2> QED BY <2>1, <2>2, <2>3
<1>6. Migrated'
  <2>1. version' < 2 => ops' = 0
    BY <1>1 DEF Inv, Migrated
  <2>2. \A q : NewKeys(q)' = NewKeys(q)
    BY DEF NewKeys
  <2>3. old' \subseteq StarQuads
    BY <1>1 DEF Inv, Migrated
  <2> QED BY <1>1, <1>2, <1>3, <1>5, <2>1, <2>2, <2>3 DEF Migrated
<1>7. LoaderOK(loader')
  BY <1>1 DEF Inv
<1> QED BY <1>1, <1>3, <1>4, <1>6, <1>7 DEF Inv

\* What the steps of opening the storage rely on.
LEMMA StoreFacts ==
  ASSUME Inv
  PROVE  /\ db \in SUBSET Keys /\ Whole(db) /\ Decoded(db, db) /\ version \in 0..2
         /\ version >= 1 \/ phase = "graphs" => raced \/ Listed(db)
BY DEF Inv, Types

\* The graphs of the quads are listed (MigrateGraphs).
LEMMA MigrateGraphsStep ==
  ASSUME Inv, MigrateGraphs
  PROVE  Inv'
<1>1. PICK names : names = UNION {GraphKeys(graph_name[q]) : q \in QuadsIn(db)}
  OBVIOUS
<1>2. /\ db' = db \cup names /\ phase' \in {"failed", "graphs"} /\ phase = "check"
      /\ version = 0 /\ UNCHANGED <<version, openVars, old>>
  BY <1>1 DEF MigrateGraphs
<1>3. QuadsIn(db) \subseteq AllQuads
  BY DEF QuadsIn
<1>4. names \in SUBSET Keys
  BY <1>1, <1>3, InsertKeysTyped
<1>5. \A s, x : <<s, x>> \in names => s = "graphs"
  <2> SUFFICES ASSUME NEW s, NEW x, <<s, x>> \in names
               PROVE  s = "graphs"
    OBVIOUS
  <2>1. PICK q \in QuadsIn(db) : <<s, x>> \in GraphKeys(graph_name[q])
    BY <1>1
  <2> QED BY <2>1, GraphKeyIs
<1>6. Closed(names)
  BY <1>5, TablesOfQuad DEF Closed
<1>7. db' \in SUBSET Keys /\ Whole(db') /\ Decoded(db', db')
  BY <1>2, <1>4, <1>6, StoreFacts, GrowOK
<1>8. Listed(db')
  <2> SUFFICES ASSUME NEW q \in QuadsIn(db') \cap Quads
               PROVE  GraphKeys(graph_name[q]) \subseteq db'
    BY DEF Listed
  <2>1. q \in QuadsIn(db)
    BY <1>2, <1>5 DEF QuadsIn
  <2>2. GraphKeys(graph_name[q]) \subseteq names
    BY <1>1, <2>1
  <2> QED BY <1>2, <2>2
<1>9. UNCHANGED <<openVars, old>> /\ version' = 0 /\ db \subseteq db'
  BY <1>2
<1> QED BY <1>2, <1>7, <1>8, <1>9, MigrateStep

\* The quads with triples are listed: each that is not was rewritten before (MigrateTriples).
LEMMA MigrateTriplesStep ==
  ASSUME Inv, MigrateTriples
  PROVE  Inv'
<1>1. /\ db' = db /\ phase' = "rewrite" /\ phase = "check" /\ version = 1 /\ version' = 1
      /\ pending' = QuadsIn(db) \cap StarQuads /\ UNCHANGED <<openVars, old>> /\ raced' = raced
  BY DEF MigrateTriples, openVars
<1>2. \A q \in old \ pending' : NewKeys(q) \subseteq db'
  <2> SUFFICES ASSUME NEW q \in old \ pending'
               PROVE  NewKeys(q) \subseteq db
    BY <1>1
  <2>1. q \in StarQuads /\ q \in AllQuads /\ ops = 0
    <3>1. Migrated
      BY DEF Inv
    <3>2. old \subseteq StarQuads /\ (version < 2 => ops = 0) /\ version < 2
      BY <1>1, <3>1 DEF Migrated
    <3> QED BY <3>2 DEF AllQuads
  <2>2. NewKeys(q) \subseteq db \/ IndexKeys(q) \subseteq db
    BY <2>1 DEF Inv, Migrated, MigrationLosesNothing, NewKeys
  <2>3. ~(IndexKeys(q) \subseteq db)
    BY <1>1, <2>1, StoreFacts, WholeHas
  <2> QED BY <2>2, <2>3
<1>3. db' \in SUBSET Keys /\ Whole(db') /\ Decoded(db', db') /\ (raced' \/ Listed(db')) /\ db \subseteq db'
  BY <1>1, StoreFacts
<1> QED BY <1>1, <1>2, <1>3, MigrateStep

\* A quad is rewritten: its new form is added, and its old form stays (RewriteQuad).
LEMMA RewriteStep ==
  ASSUME Inv, NEW q \in StarQuads, RewriteQuad(q)
  PROVE  Inv'
<1>1. /\ phase = "rewrite" /\ phase' = "rewrite" /\ pending' = pending \ {q}
      /\ UNCHANGED <<version, openVars, old>> /\ raced' = raced
      /\ db' = (db \ (IndexTables(q) \X {Written(q)})) \cup NewKeys(q)
  BY DEF RewriteQuad, NewKeys, openVars
<1>2. version = 1 /\ version' = 1 /\ UNCHANGED <<openVars, old>>
  BY <1>1 DEF Inv, Migrated
<1>3. db \cap (IndexTables(q) \X {Written(q)}) = {}
  <2> SUFFICES ASSUME NEW k \in db, k \in IndexTables(q) \X {Written(q)}
               PROVE  FALSE
    OBVIOUS
  <2>1. k \in Keys /\ k[1] \in Tables /\ k[2] = Written(q) /\ k[1] # "graphs" /\ k[1] # "id2str"
    BY StoreFacts, TablesOfQuad
  <2>2. k[2] \in AllQuads
    BY <2>1 DEF Keys
  <2> QED BY <2>1, <2>2, WrittenIs
<1>4. db' = db \cup NewKeys(q)
  BY <1>1, <1>3
<1>5. rewritten[q] \in SUBSET AllQuads
  BY ConstantsAssumption DEF AllQuads
<1>6. NewKeys(q) \in SUBSET Keys /\ Closed(NewKeys(q))
  <2>1. PICK quads \in SUBSET AllQuads : quads = rewritten[q]
    BY <1>5
  <2>2. NewKeys(q) = UNION {InsertKeys(n) : n \in quads}
    BY <2>1 DEF NewKeys
  <2> QED BY <2>2, InsertsClosed
<1>7. db' \in SUBSET Keys /\ Whole(db') /\ Decoded(db', db') /\ (raced' \/ Listed(db')) /\ db \subseteq db'
  <2>1. /\ db \in SUBSET Keys /\ Whole(db) /\ Decoded(db, db) /\ (raced \/ Listed(db))
    BY <1>2, StoreFacts
  <2>2. PICK more \in SUBSET Keys : more = NewKeys(q) /\ Closed(more)
    BY <1>6
  <2>3. /\ db \cup more \in SUBSET Keys /\ Whole(db \cup more) /\ Decoded(db \cup more, db \cup more)
        /\ Listed(db) => Listed(db \cup more)
    BY <2>1, <2>2, GrowOK
  <2>4. db' = db \cup more
    BY <1>4, <2>2
  <2> QED BY <1>1, <2>1, <2>3, <2>4
<1>8. \A p \in old \ pending' : NewKeys(p) \subseteq db'
  BY <1>1, <1>4 DEF Inv, Migrated
<1> QED BY <1>1, <1>2, <1>7, <1>8, MigrateStep

\* The version is written when a step of the migration is over (update_version).
LEMMA UpdateVersionStep ==
  ASSUME Inv, update_version
  PROVE  Inv'
<1>1. /\ db' = db /\ phase' = "check" /\ UNCHANGED <<openVars, old>> /\ raced' = raced
  BY DEF update_version, openVars
<1>2. db' \in SUBSET Keys /\ Whole(db') /\ Decoded(db', db') /\ db \subseteq db'
  BY <1>1, StoreFacts
<1>3. CASE phase = "graphs" /\ version' = 1
  <2>1. version = 0 /\ (raced' \/ Listed(db'))
    BY <1>1, <1>3, StoreFacts DEF Inv, Migrated
  <2> QED BY <1>1, <1>2, <1>3, <2>1, MigrateStep
<1>4. CASE phase = "rewrite" /\ pending = {} /\ version' = 2
  <2>1. version = 1 /\ (raced' \/ Listed(db'))
    <3>1. version = 1
      BY <1>4 DEF Inv, Migrated
    <3>2. raced \/ Listed(db)
      BY <3>1, StoreFacts
    <3> QED BY <1>1, <3>1, <3>2
  <2>2. \A q \in old : NewKeys(q) \subseteq db'
    BY <1>1, <1>4 DEF Inv, Migrated
  <2> QED BY <1>1, <1>2, <1>4, <2>1, <2>2, MigrateStep
<1> QED BY <1>3, <1>4 DEF update_version, NextVersion

\* The storage is open, or somebody tries to open it again (Opened, Reopen).
LEMMA OpenedStep ==
  ASSUME Inv, Opened \/ Reopen
  PROVE  Inv'
<1>1. /\ phase \in {"check", "failed"} /\ phase' \in {"check", "open"}
      /\ phase' = "open" => version = 2
      /\ UNCHANGED <<version, db, pending, openVars, old>>
  BY DEF Opened, Reopen
<1>2. /\ txn' = txn /\ reader' = reader /\ loader' = loader /\ ops' = ops /\ raced' = raced
      /\ version' = version /\ db' = db /\ old' = old
  BY <1>1 DEF openVars
<1>3. Types'
  BY <1>1, <1>2 DEF Inv, Types
<1>4. Migrated'
  BY <1>1, <1>2 DEF Inv, Migrated, MigrationLosesNothing
<1>5. version' >= 1 \/ phase' = "graphs" => raced' \/ Listed(db')
  BY <1>1, <1>2 DEF Inv
<1> QED BY <1>2, <1>3, <1>4, <1>5 DEF Inv

\* The loader of a storage that was just opened.
LEMMA NoLoaderOK == NoLoader \in LoaderType /\ LoaderOK(NoLoader) /\ NoLoader.status # "open"
<1>1. PICK none \in Seq(ThreadType) : none = <<>>
  <2>1. <<>> \in Seq(ThreadType)
    OBVIOUS
  <2> QED BY <2>1
<1>2. NoLoader = [status |-> "none", atomic |-> TRUE, threads |-> none, sst_files |-> {},
                  stale |-> FALSE, given |-> {}, visible |-> {}, failed |-> FALSE]
  BY <1>1 DEF NoLoader
<1>3. NoLoader \in LoaderType
  BY <1>2 DEF LoaderType
<1>4. NoLoader.status = "none" /\ NoLoader.threads = <<>>
  BY DEF NoLoader
<1> QED BY <1>3, <1>4 DEF LoaderOK

\* The process dies: the database stays, and what was open does not (Crash).
LEMMA CrashStep ==
  ASSUME Inv, Crash
  PROVE  Inv'
<1>1. /\ phase' = "check" /\ loader' = NoLoader /\ UNCHANGED <<version, db, ops, old, raced>>
      /\ txn' = [t \in Txns |-> NoTxn] /\ reader' = [r \in Readers |-> NoReader]
  BY DEF Crash
<1>2. /\ db' \in SUBSET Keys /\ Whole(db') /\ Decoded(db', db')
      /\ version' >= 1 => raced' \/ Listed(db')
  BY <1>1, StoreFacts
<1>3. (\A t \in Txns : txn'[t] = NoTxn) /\ \A r \in Readers : reader'[r] = NoReader
  BY <1>1
<1>4. /\ \A t \in Txns : TxnOK(txn'[t], db') /\ txn'[t].batch = NoBatch /\ txn'[t].loop = "none"
      /\ \A r \in Readers : ReaderOK(reader'[r], db')
  BY <1>1, <1>2, <1>3, ClosedOK
<1>5. Types'
  <2>1. NoTxn \in TxnType
    BY StoreFacts, NewTxnOK
  <2>2. NoReader \in ReaderType
    BY DEF NoReader, ReaderType
  <2> QED BY <1>1, <1>2, <2>1, <2>2, NoLoaderOK DEF Inv, Types
<1>6. Migrated'
  <2>1. MigrationLosesNothing'
    BY <1>1 DEF Inv, Migrated, MigrationLosesNothing
  <2>2. old' \subseteq StarQuads /\ (version' < 2 => ops' = 0)
    BY <1>1 DEF Inv, Migrated
  <2> QED BY <1>1, <1>3, <1>4, <2>1, <2>2, NoLoaderOK DEF Migrated
<1> QED BY <1>1, <1>2, <1>4, <1>5, <1>6, NoLoaderOK DEF Inv

-----------------------------------------------------------------------------

\* A database of the current version or an old one is whole (Init, StoreOf).
LEMMA InitStore ==
  ASSUME Init
  PROVE  /\ db \in SUBSET Keys /\ Whole(db) /\ Decoded(db, db)
         /\ version \in 0..2 /\ (version >= 1 => Listed(db))
         /\ old \subseteq StarQuads
         /\ \A q \in old : version < 2 /\ IndexKeys(q) \subseteq db
<1>1. ASSUME NEW quads \in SUBSET AllQuads, NEW keys, NEW more \in SUBSET Keys,
             keys = UNION {InsertKeys(q) : q \in quads},
             \A s, x : <<s, x>> \in more => s = "graphs",
             db \subseteq keys \cup more,
             \A s, x : <<s, x>> \in keys /\ (version = 0 => s # "graphs") => <<s, x>> \in db
      PROVE  /\ db \in SUBSET Keys /\ Whole(db) /\ Decoded(db, db)
             /\ version # 0 => Listed(db)
             /\ \A q \in quads : IndexKeys(q) \subseteq db
  <2>1. keys = UNION {InsertKeys(q) : q \in quads}
    BY <1>1
  <2>2. keys \in SUBSET Keys /\ Closed(keys)
    BY <2>1, InsertsClosed
  <2>3. /\ db \subseteq keys \cup more
        /\ \A s, x : <<s, x>> \in keys /\ (version = 0 => s # "graphs") => <<s, x>> \in db
    BY <1>1
  <2>4. ASSUME NEW q \in AllQuads, NEW s \in Tables, <<s, q>> \in db
        PROVE  s \in IndexTables(q) /\ InsertKeys(q) \subseteq keys
    <3>1. <<s, q>> \in keys
      BY <1>1, <2>3, <2>4, TablesOfQuad
    <3> QED BY <2>2, <3>1 DEF Closed
  <2>5. ASSUME NEW q \in AllQuads, InsertKeys(q) \subseteq keys
        PROVE  /\ IndexKeys(q) \subseteq db /\ StrKeys(q) \subseteq db
               /\ version # 0 => GraphKeys(graph_name[q]) \subseteq db
    <3>1. IndexKeys(q) \subseteq keys /\ StrKeys(q) \subseteq keys /\ GraphKeys(graph_name[q]) \subseteq keys
      BY <2>5, InsertKeyIs
    <3>2. IndexKeys(q) \subseteq db
      BY <2>3, <3>1, IndexKeyIs, TablesOfQuad
    <3>3. StrKeys(q) \subseteq db
      BY <2>3, <3>1, StrKeyIs
    <3>4. version # 0 => GraphKeys(graph_name[q]) \subseteq db
      BY <2>3, <3>1, GraphKeyIs
    <3> QED BY <3>2, <3>3, <3>4
  <2>6. \A q \in QuadsIn(db) : q \in AllQuads /\ InsertKeys(q) \subseteq keys
    BY <2>4, TablesOfQuad DEF QuadsIn
  <2>7. \A q \in quads : InsertKeys(q) \subseteq keys
    BY <2>1
  <2>8. db \in SUBSET Keys
    BY <2>2, <2>3
  <2>9. Whole(db)
    BY <2>4, <2>5 DEF Whole
  <2>10. Decoded(db, db) /\ (version # 0 => Listed(db))
    BY <2>5, <2>6 DEF Decoded, Listed
  <2> QED BY <2>5, <2>7, <2>8, <2>9, <2>10
<1>2. CASE /\ version = 2 /\ old = {}
           /\ \E quads \in SUBSET Quads, names \in SUBSET NamedGraphs : db = StoreOf(quads, names)
  <2>1. PICK quads \in SUBSET Quads, names \in SUBSET NamedGraphs : db = StoreOf(quads, names)
    BY <1>2
  <2>2. PICK more : more = UNION {GraphKeys(g) : g \in names}
    OBVIOUS
  <2>3. more \in SUBSET Keys
    BY <2>2 DEF GraphKeys, Keys
  <2>4. \A s, x : <<s, x>> \in more => s = "graphs"
    BY <2>2 DEF GraphKeys
  <2>5. PICK keys : keys = UNION {InsertKeys(q) : q \in quads}
    OBVIOUS
  <2>6. db = keys \cup more
    <3>1. \A A, B : UNION (A \cup B) = (UNION A) \cup (UNION B)
      OBVIOUS
    <3> QED BY <2>1, <2>2, <2>5, <3>1 DEF StoreOf
  <2>7. db \in SUBSET Keys /\ Whole(db) /\ Decoded(db, db) /\ Listed(db)
    <3>1. quads \in SUBSET AllQuads
      BY DEF AllQuads
    <3>2. \A s, x : <<s, x>> \in keys => <<s, x>> \in db
      BY <2>6
    <3>3. db \subseteq keys \cup more /\ version # 0
      BY <1>2, <2>6
    <3> QED BY <1>1, <2>3, <2>4, <2>5, <3>1, <3>2, <3>3
  <2> QED BY <1>2, <2>7
<1>3. CASE /\ version \in {0, 1} /\ old \in SUBSET StarQuads
           /\ \E quads \in SUBSET Quads :
                db = {k \in StoreOf(quads \cup old, {}) : version = 0 => k[1] # "graphs"}
  <2>1. PICK quads \in SUBSET Quads :
          db = {k \in StoreOf(quads \cup old, {}) : version = 0 => k[1] # "graphs"}
    BY <1>3
  <2>2. PICK all \in SUBSET AllQuads : all = quads \cup old
    BY <1>3 DEF AllQuads
  <2>3. PICK keys : keys = UNION {InsertKeys(q) : q \in all}
    OBVIOUS
  <2>4. StoreOf(all, {}) = keys
    BY <2>3 DEF StoreOf
  <2>5. /\ db \subseteq keys \cup {}
        /\ \A s, x : <<s, x>> \in keys /\ (version = 0 => s # "graphs") => <<s, x>> \in db
    BY <2>1, <2>2, <2>4
  <2>6. {} \in SUBSET Keys /\ \A s, x : <<s, x>> \in {} => s = "graphs"
    OBVIOUS
  <2>7. /\ db \in SUBSET Keys /\ Whole(db) /\ Decoded(db, db) /\ (version # 0 => Listed(db))
        /\ \A q \in all : IndexKeys(q) \subseteq db
    BY <1>1, <2>3, <2>5, <2>6
  <2>8. version \in 0..2 /\ (version >= 1 => version # 0) /\ version < 2
    BY <1>3
  <2> QED BY <1>3, <2>2, <2>7, <2>8
<1> QED BY <1>2, <1>3 DEF Init

\* The invariant holds of a storage about to be opened.
LEMMA InitInv ==
  ASSUME Init
  PROVE  Inv
<1>1. /\ phase = "check" /\ loader = NoLoader /\ ops = 0 /\ raced = FALSE
      /\ txn = [t \in Txns |-> NoTxn] /\ reader = [r \in Readers |-> NoReader]
  BY DEF Init
<1>2. TxnOK(NoTxn, db) /\ NoTxn \in TxnType /\ NoTxn.batch = NoBatch /\ NoTxn.loop = "none"
  BY InitStore, NewTxnOK DEF NoTxn
<1>3. ReaderOK(NoReader, db) /\ NoReader \in ReaderType
  <2>1. NoReader \in ReaderType
    BY DEF NoReader, ReaderType
  <2>2. NoReader.snapshot = {} /\ NoReader.todo = {} /\ NoReader.status = "none"
    BY DEF NoReader
  <2>3. Whole({}) /\ Decoded({}, db)
    BY DEF Whole, Decoded, QuadsIn
  <2> QED BY <2>1, <2>2, <2>3 DEF ReaderOK
<1>4. Types
  <2>1. MaxOps \in Nat
    BY ConstantsAssumption
  <2>2. ops \in 0..MaxOps
    BY <1>1, <2>1
  <2>3. phase \in {"check", "graphs", "rewrite", "open", "failed"}
    BY <1>1
  <2>4. txn \in [Txns -> TxnType] /\ reader \in [Readers -> ReaderType]
    BY <1>1, <1>2, <1>3
  <2>5. raced \in BOOLEAN
    BY <1>1
  <2> QED BY <1>1, <2>2, <2>3, <2>4, <2>5, InitStore, NoLoaderOK DEF Types
<1>5. Migrated
  <2>1. MigrationLosesNothing
    BY InitStore DEF MigrationLosesNothing
  <2> QED BY <1>1, <1>2, <2>1, InitStore, NoLoaderOK DEF Migrated
<1> QED BY <1>1, <1>2, <1>3, <1>4, <1>5, InitStore, NoLoaderOK DEF Inv

\* Every step preserves the invariant.
LEMMA NextInv ==
  ASSUME Inv, [Next]_vars
  PROVE  Inv'
<1>1. CASE Migrate
  BY <1>1, MigrateGraphsStep, MigrateTriplesStep, RewriteStep, UpdateVersionStep, OpenedStep DEF Migrate
<1>2. CASE Reopen
  BY <1>2, OpenedStep
<1>3. CASE Crash
  BY <1>3, CrashStep
<1>4. ASSUME NEW t \in Txns, Transact(t)
      PROVE  Inv'
  <2>1. CASE start_transaction(t) \/ start_readable_transaction(t) \/ drop(t)
    BY <2>1, BeginStep
  <2>2. ASSUME NEW q \in Quads, insert(t, q) \/ remove(t, q)
        PROVE  Inv'
    BY <2>2, InsertStep, RemoveStep
  <2>3. ASSUME NEW g \in NamedGraphs, insert_named_graph(t, g) \/ remove_named_graph(t, g)
        PROVE  Inv'
    BY <2>3, InsertGraphStep, RemoveGraphStep
  <2>4. ASSUME NEW g \in NamedGraphs \cup {DefaultGraph}, clear_graph(t, g)
        PROVE  Inv'
    BY <2>4, ClearGraphStep
  <2>5. ASSUME NEW tables \in ClearedTables, ClearTables(t, tables)
        PROVE  Inv'
    BY <2>5, ClearTablesStep
  <2>6. ASSUME NEW kind \in {"clear", "remove"}, NEW default \in BOOLEAN, StartLoop(t, kind, default)
        PROVE  Inv'
    BY <2>6, StartLoopStep
  <2>7. CASE NamedPass(t)
    BY <2>7, NamedPassStep
  <2>8. CASE commit(t)
    BY <2>8, CommitStep
  <2> QED BY <1>4, <2>1, <2>2, <2>3, <2>4, <2>5, <2>6, <2>7, <2>8 DEF Transact
<1>5. ASSUME NEW r \in Readers, Read(r)
      PROVE  Inv'
  BY <1>5, SnapshotStep, ValidateStep, ValidateQuadStep DEF Read
<1>6. CASE Load
  BY <1>6, LoaderAloneStep, LoadBatchStep, CommitLoaderStep DEF Load
<1>7. CASE UNCHANGED vars
  <2>1. UNCHANGED <<phase, version, db, pending, txn, reader, loader, ops, raced, old>>
    BY <1>7 DEF vars, openVars
  <2>2. Types'
    BY <2>1 DEF Inv, Types
  <2>3. Migrated'
    BY <2>1 DEF Inv, Migrated, MigrationLosesNothing, NewKeys
  <2> QED BY <2>1, <2>2, <2>3 DEF Inv
<1> QED BY <1>1, <1>2, <1>3, <1>4, <1>5, <1>6, <1>7 DEF Next

\* What is written together stays together, in the database, in every snapshot and in every
\* batch, at every moment of every interleaving of transactions, readers, loads, migration
\* and crashes.
THEOREM Invariance == Spec => []Inv
<1>1. Init => Inv
  BY InitInv
<1>2. Inv /\ [Next]_vars => Inv'
  BY NextInv
<1> QED BY <1>1, <1>2, PTL DEF Spec

\* Every quad of an open store has all of its index keys and its strings, and its graph is
\* listed unless transactions raced on it or the migration left the quad behind: no commit
\* of a batch over a stale snapshot and no ingestion tears a quad apart.
THEOREM StoreStaysConsistent == Spec => []StoreConsistent
<1>1. Inv => StoreConsistent
  <2> SUFFICES ASSUME Inv, phase = "open", NEW q \in QuadsIn(db)
               PROVE  /\ IndexKeys(q) \cup StrKeys(q) \subseteq db
                      /\ raced \/ q \in StarQuads \/ GraphKeys(graph_name[q]) \subseteq db
    BY DEF StoreConsistent
  <2>1. q \in AllQuads /\ version >= 1
    BY DEF QuadsIn, Inv, Migrated
  <2>2. IndexKeys(q) \subseteq db /\ StrKeys(q) \subseteq db
    BY <2>1, StoreFacts, WholeHas DEF Decoded
  <2>3. raced \/ q \in StarQuads \/ GraphKeys(graph_name[q]) \subseteq db
    BY <2>1, StoreFacts DEF Listed, AllQuads
  <2> QED BY <2>2, <2>3
<1> QED BY <1>1, Invariance, PTL

\* Whatever was removed since a snapshot was taken, the strings of its quads are still in
\* the database (get_str reads them there and not in the snapshot).
THEOREM SnapshotsStayDecodable == Spec => []SnapshotsDecode
<1>1. Inv => SnapshotsDecode
  <2> SUFFICES ASSUME Inv
               PROVE  SnapshotsDecode
    OBVIOUS
  <2>1. \A r \in Readers : Decoded(reader[r].snapshot, db)
    BY DEF Inv, ReaderOK
  <2>2. \A t \in Txns : Decoded(txn[t].snapshot, db)
    BY DEF Inv, TxnOK
  <2> QED BY <2>1, <2>2 DEF SnapshotsDecode, Decoded
<1> QED BY <1>1, Invariance, PTL

\* validate reports corruption only of a snapshot that lost keys meanwhile, that has a quad
\* of an unlisted graph or one that the migration left behind.
THEOREM ValidateIsSound == Spec => []ValidateSound
<1>1. Inv => ValidateSound
  BY DEF Inv, ReaderOK, ValidateSound
<1> QED BY <1>1, Invariance, PTL

\* A loader shows nothing before it commits unless atomicity was given up, and all that it
\* was given once it has committed without an error.
THEOREM LoadsAreAtomic == Spec => []LoadIsAtomic
<1>1. Inv => LoadIsAtomic
  BY DEF Inv, LoaderOK, LoadIsAtomic
<1> QED BY <1>1, Invariance, PTL

\* Wherever the process dies during the migration, every quad of the old database is there
\* in its old or in its new form, and in its new form once the version says so.
THEOREM MigrationKeepsQuads == Spec => []MigrationLosesNothing
<1>1. Inv => MigrationLosesNothing
  BY DEF Inv, Migrated
<1> QED BY <1>1, Invariance, PTL

=============================================================================
