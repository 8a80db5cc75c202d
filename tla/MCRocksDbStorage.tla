-------------------------- MODULE MCRocksDbStorage --------------------------
(***************************************************************************)
(* A small instance of RocksDbStorage: two named graphs and passes of two  *)
(* names, so that a clear may meet as many names as a pass reads; a quad   *)
(* in the default graph and in one named graph, and an old quad that is    *)
(* rewritten to the latter.                                                *)
(***************************************************************************)
EXTENDS RocksDbStorage, TLC

CONSTANTS d1, a1, s1, ga, gb, t1, t2
CONSTANT MaxOpen  \* bound: how many transactions, readers and loaders are open at once

MCGraphName == d1 :> DefaultGraph @@ a1 :> ga @@ s1 :> ga
MCRewritten == s1 :> {a1}
MCBatches == {{d1}, {a1}}

\* The transactions are interchangeable: the first free one begins.
Canonical ==
  (txn[t2].mode = "none" /\ txn'[t2].mode # "none") => txn[t1].mode # "none"

InUse ==
  Cardinality({t \in Txns : txn[t].mode # "none"})
    + Cardinality({r \in Readers : reader[r].status # "none"})
    + IF loader.status = "open" THEN 1 ELSE 0

\* Old databases are migrated, also across a crash, and read; only new ones are written.
\* Once the storage is open a crash does no more than to drop what is in use.  Writes
\* after a load has ended start from a state that is an initial one, too; a load without
\* atomicity is alone.  A new database has a quad in its default graph to begin with.
Bounded ==
  /\ InUse' <= MaxOpen
  /\ old # {} \/ crashes > 0 => ops' = 0
  /\ loader.status \notin {"none", "open"} => ops' = ops /\ InUse' <= InUse
  /\ ~loader'.atomic => InUse' <= 1
  /\ crashes' > crashes => phase # "open"
  /\ old = {} /\ phase' = "open" => <<"dspo", d1>> \in db \/ ops > 0

=============================================================================
