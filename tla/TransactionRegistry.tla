------------------------- MODULE TransactionRegistry -------------------------
(***************************************************************************)
(* The HTTP transactions of the server (oxigraph-server/transactions.rs).  *)
(* A transaction is a list of buffered operations in a concurrent map; it  *)
(* reaches the store only on commit, which takes it out of the map, starts *)
(* a storage transaction, replays the operations into it and commits that. *)
(* A cleanup thread removes the transactions that were idle for too long:  *)
(* it first collects their ids, entry by entry, and then removes them one  *)
(* by one.                                                                 *)
(*                                                                         *)
(* Every access to one entry of the map is atomic; requests on other       *)
(* threads run between any two of them.  A storage transaction reads the   *)
(* store as it was when it started, and its commit applies its writes to   *)
(* what the store is then.  In memory only one is open at a time; RocksDB  *)
(* lets several commits race and sees no conflict; TiKV behaves like it,   *)
(* but refuses some of the commits that raced, as a FailCommit.  The other *)
(* writers of the store (/update, /store) are left out.                    *)
(***************************************************************************)
EXTENDS Integers, Sequences, FiniteSets

CONSTANTS
  TxnIds,      \* the uuids that begin may return
  Workers,     \* the server threads that may run a commit
  Quads,       \* the quads
  Ops,         \* the buffered operations
  timeout,     \* the idle timeout, in ticks of the clock
  MaxOps       \* bound: operations a client puts in one transaction

None == "none"
Kinds == {"InsertQuads", "RemoveQuads", "SparqlUpdate", "BadSparqlUpdate"}

ASSUME ConstantsAssumption ==
  /\ Ops \subseteq [kind : Kinds, quads : SUBSET Quads]
  /\ timeout \in Nat
  /\ MaxOps \in Nat
  /\ None \notin TxnIds

VARIABLES
  txns,         \* the ids in the map
  ops,          \* the buffered operations of each transaction
  idle,         \* the ticks since last_active, capped once above the timeout
  backend,      \* where the store is kept
  store,        \* the committed quads
  worker,       \* the commit each worker is replaying
  visiting,     \* the ids the cleanup pass has not yet looked at
  expired,      \* the ids the cleanup pass collected and not yet removed
  acked,        \* history: the operations the client got a success for
  outcome,      \* history: how each transaction ended
  committed     \* history: the transactions applied to the store, in order

vars == <<txns, ops, idle, backend, store, worker, visiting, expired,
          acked, outcome, committed>>
cleanupVars == <<visiting, expired>>
historyVars == <<acked, outcome, committed>>

Outcomes == {"unused", "open", "committed", "failed", "rolled_back", "expired"}
Backends == {"memory", "rocksdb"}

\* A commit: the operations, whether the storage transaction was started, the store as
\* it was then and (history) how many commits it saw.
Replaying == [id : TxnIds, ops : Seq(Ops), started : BOOLEAN,
              snapshot : SUBSET Quads, seen : Nat]
Free == [id |-> None, ops |-> <<>>, started |-> FALSE, snapshot |-> {}, seen |-> 0]

\* Types; the map holds only transactions that have not ended.
TypeOK ==
  /\ txns \in SUBSET TxnIds
  /\ \A id \in txns : outcome[id] = "open"
  /\ ops \in [TxnIds -> Seq(Ops)]
  /\ idle \in [TxnIds -> 0..(timeout + 1)]
  /\ backend \in Backends
  /\ store \in SUBSET Quads
  /\ worker \in [Workers -> Replaying \cup {Free}]
  /\ visiting \in SUBSET TxnIds
  /\ expired \in SUBSET TxnIds
  /\ acked \in [TxnIds -> Seq(Ops)]
  /\ outcome \in [TxnIds -> Outcomes]
  /\ committed \in Seq(Replaying)

Init ==
  /\ txns = {}
  /\ ops = [id \in TxnIds |-> <<>>]
  /\ idle = [id \in TxnIds |-> 0]
  /\ backend \in Backends
  /\ store = {}
  /\ worker = [w \in Workers |-> Free]
  /\ visiting = {}
  /\ expired = {}
  /\ acked = [id \in TxnIds |-> <<>>]
  /\ outcome = [id \in TxnIds |-> "unused"]
  /\ committed = <<>>

-----------------------------------------------------------------------------
(* Replaying operations into a storage transaction *)

\* What an operation deletes and inserts in a storage transaction that reads view.  The
\* SPARQL update stands for one that deletes whatever it finds and inserts.
Deletes(op, view) ==
  CASE op.kind = "RemoveQuads"  -> op.quads
    [] op.kind = "SparqlUpdate" -> view
    [] OTHER                    -> {}

Inserts(op) == IF op.kind \in {"InsertQuads", "SparqlUpdate"} THEN op.quads ELSE {}

\* What a store becomes by the writes of a storage transaction.
Written(content, batch) == (content \ batch.delete) \cup batch.put

\* The writes of a storage transaction and those of one more operation, which reads the
\* snapshot and the writes before it.
Write(snapshot, batch, op) ==
  LET deletes == Deletes(op, Written(snapshot, batch)) IN
  [delete |-> batch.delete \cup deletes,
   put    |-> (batch.put \ deletes) \cup Inserts(op)]

\* replay_ops: the writes of the operations of a list, in order.
Replay(snapshot, list) ==
  LET batch[i \in 0..Len(list)] ==
        IF i = 0 THEN [delete |-> {}, put |-> {}] ELSE Write(snapshot, batch[i - 1], list[i])
  IN batch[Len(list)]

\* An update that does not parse or evaluate stops the replay.
Replays(list) == \A i \in 1..Len(list) : list[i].kind # "BadSparqlUpdate"

-----------------------------------------------------------------------------
(* The requests *)

begin(id) ==
  /\ outcome[id] = "unused"
  /\ txns' = txns \cup {id}
  /\ ops' = [ops EXCEPT ![id] = <<>>]
  /\ idle' = [idle EXCEPT ![id] = 0]
  /\ outcome' = [outcome EXCEPT ![id] = "open"]
  /\ UNCHANGED <<backend, store, worker, cleanupVars, acked, committed>>

\* add, remove and update: a body that parses is pushed to the list.
Push(id, op) ==
  /\ id \in txns
  /\ Len(ops[id]) < MaxOps
  /\ ops' = [ops EXCEPT ![id] = Append(@, op)]
  /\ idle' = [idle EXCEPT ![id] = 0]
  /\ acked' = [acked EXCEPT ![id] = Append(@, op)]
  /\ UNCHANGED <<txns, backend, store, worker, cleanupVars, outcome, committed>>

\* Mutant: the transaction stays in the map while it is replayed.
BeginCommitInMap(w, id) ==
  /\ worker[w] = Free
  /\ id \in txns
  /\ worker' = [worker EXCEPT ![w] = [Free EXCEPT !.id = id, !.ops = ops[id]]]
  /\ UNCHANGED <<txns, ops, idle, backend, store, cleanupVars, historyVars>>

\* The commit takes the transaction out of the map before anything else.
BeginCommit(w, id) ==
  /\ worker[w] = Free
  /\ id \in txns
  /\ txns' = txns \ {id}
  /\ worker' = [worker EXCEPT ![w] = [Free EXCEPT !.id = id, !.ops = ops[id]]]
  /\ UNCHANGED <<ops, idle, backend, store, cleanupVars, historyVars>>

\* The storage transaction is started: in memory, once no other one is open.
StartTransaction(w) ==
  /\ worker[w] # Free
  /\ ~worker[w].started
  /\ backend = "memory" => \A v \in Workers : ~worker[v].started
  /\ worker' = [worker EXCEPT ![w].started = TRUE, ![w].snapshot = store,
                              ![w].seen = Len(committed)]
  /\ UNCHANGED <<txns, ops, idle, backend, store, cleanupVars, historyVars>>

\* All operations were replayed and the storage transaction committed.
FinishCommit(w) ==
  /\ worker[w].started
  /\ Replays(worker[w].ops)
  /\ store' = Written(store, Replay(worker[w].snapshot, worker[w].ops))
  /\ worker' = [worker EXCEPT ![w] = Free]
  /\ outcome' = [outcome EXCEPT ![worker[w].id] = "committed"]
  /\ committed' = Append(committed, worker[w])
  /\ UNCHANGED <<txns, ops, idle, backend, cleanupVars, acked>>

\* Mutant: what was replayed before the failure is kept.
FailCommitHalfway(w) ==
  /\ worker[w] # Free
  /\ store' = Written(store, Replay(worker[w].snapshot, worker[w].ops))
  /\ worker' = [worker EXCEPT ![w] = Free]
  /\ outcome' = [outcome EXCEPT ![worker[w].id] = "failed"]
  /\ UNCHANGED <<txns, ops, idle, backend, cleanupVars, acked, committed>>

\* The storage transaction does not start or commit, or an operation fails: it
\* is dropped, and the transaction is not put back into the map.
FailCommit(w) ==
  /\ worker[w] # Free
  /\ worker' = [worker EXCEPT ![w] = Free]
  /\ outcome' = [outcome EXCEPT ![worker[w].id] = "failed"]
  /\ UNCHANGED <<txns, ops, idle, backend, store, cleanupVars, acked, committed>>

rollback(id) ==
  /\ id \in txns
  /\ txns' = txns \ {id}
  /\ outcome' = [outcome EXCEPT ![id] = "rolled_back"]
  /\ UNCHANGED <<ops, idle, backend, store, worker, cleanupVars, acked, committed>>

-----------------------------------------------------------------------------
(* The clock and the cleanup thread *)

Expired(id) == idle[id] > timeout

Tick ==
  /\ \E id \in txns : ~Expired(id)
  /\ idle' = [id \in TxnIds |->
                IF id \in txns /\ ~Expired(id) THEN idle[id] + 1 ELSE idle[id]]
  /\ UNCHANGED <<txns, ops, backend, store, worker, cleanupVars, historyVars>>

\* A pass begins: it visits the entries of the map, and may visit some that are
\* inserted while it goes on.
BeginCleanup ==
  /\ visiting = {} /\ expired = {}
  /\ txns # {}
  /\ \E late \in SUBSET (TxnIds \ txns) : visiting' = txns \cup late
  /\ UNCHANGED <<txns, ops, idle, backend, store, worker, expired, historyVars>>

\* Mutant: the comparison with the timeout is the wrong way round.
VisitActive(id) ==
  /\ id \in visiting
  /\ visiting' = visiting \ {id}
  /\ expired' = IF id \in txns /\ ~Expired(id) THEN expired \cup {id} ELSE expired
  /\ UNCHANGED <<txns, ops, idle, backend, store, worker, historyVars>>

\* An entry that is not in the map when its turn comes is not visited.
VisitEntry(id) ==
  /\ id \in visiting
  /\ visiting' = visiting \ {id}
  /\ expired' = IF id \in txns /\ Expired(id) THEN expired \cup {id} ELSE expired
  /\ UNCHANGED <<txns, ops, idle, backend, store, worker, historyVars>>

\* The removal does not look at last_active again.
RemoveExpired(id) ==
  /\ visiting = {}
  /\ id \in expired
  /\ expired' = expired \ {id}
  /\ txns' = txns \ {id}
  /\ outcome' = IF id \in txns THEN [outcome EXCEPT ![id] = "expired"] ELSE outcome
  /\ UNCHANGED <<ops, idle, backend, store, worker, visiting, acked, committed>>

cleanup_expired ==
  \/ BeginCleanup
  \/ \E id \in TxnIds : VisitEntry(id) \/ RemoveExpired(id)

-----------------------------------------------------------------------------
Requests ==
  \/ \E id \in TxnIds : begin(id) \/ rollback(id)
  \/ \E id \in TxnIds : \E op \in Ops : Push(id, op)
  \/ \E w \in Workers : \E id \in TxnIds : BeginCommit(w, id)

commit == \E w \in Workers : StartTransaction(w) \/ FinishCommit(w) \/ FailCommit(w)

Next == Requests \/ commit \/ Tick \/ cleanup_expired

Spec == Init /\ [][Next]_vars

\* Time passes, the cleanup thread loops forever, and a commit that was started
\* ends; nothing is assumed of the clients.
FairSpec == Spec /\ WF_vars(Tick) /\ WF_vars(cleanup_expired) /\ WF_vars(commit)

-----------------------------------------------------------------------------
(* Properties *)

\* What one operation makes of the quads of a store that nobody else writes.
Apply(op, content) ==
  CASE op.kind = "InsertQuads"  -> content \cup op.quads
    [] op.kind = "RemoveQuads"  -> content \ op.quads
    [] op.kind = "SparqlUpdate" -> op.quads
    [] OTHER                    -> content

\* The content after the operations of a list, in order.
ReplayFrom(content, list) ==
  LET after[i \in 0..Len(list)] ==
        IF i = 0 THEN content ELSE Apply(list[i], after[i - 1])
  IN after[Len(list)]

\* Operations that write the same whatever the store holds.
Blind(list) == \A i \in 1..Len(list) : list[i].kind \in {"InsertQuads", "RemoveQuads"}

\* What the i-th commit makes of a store: all of its operations one after the other,
\* unless it holds an update and another commit came between its start and its end.
\* That one applies to the store what the update found to do in its snapshot.
CommitTo(content, x, i) ==
  IF x.seen = i - 1 \/ Blind(x.ops)
  THEN ReplayFrom(content, x.ops)
  ELSE Written(content, Replay(x.snapshot, x.ops))

\* What the first n commits of a list make of an empty store, in order.
ContentAfter(list, n) ==
  LET after[i \in 0..n] ==
        IF i = 0 THEN {} ELSE CommitTo(after[i - 1], list[i], i)
  IN after[n]

\* What a commit applies is every operation the client got a success for, in
\* the order of the requests, and nothing else; it applies it once, and no other
\* commit, rollback or cleanup that raced for the same id ended the transaction too.
AppliesAcknowledged ==
  /\ \A i \in 1..Len(committed) : /\ committed[i].ops = acked[committed[i].id]
                                   /\ outcome[committed[i].id] = "committed"
  /\ \A i, j \in 1..Len(committed) : committed[i].id = committed[j].id => i = j

\* The store holds the effect of the committed transactions, in the order of their
\* commits: a transaction that failed half-way, was rolled back or was cleaned up leaves
\* no trace.  Inserts and removals, and commits that do not overlap, have the effect of
\* a serial execution, and in memory all commits do; an update whose commit overlaps
\* another one in RocksDB is computed on the store that an earlier commit left, whole.
StoreIsCommitted ==
  /\ store = ContentAfter(committed, Len(committed))
  /\ \A i \in 1..Len(committed) :
       /\ committed[i].seen \in 0..(i - 1)
       /\ committed[i].snapshot = ContentAfter(committed, committed[i].seen)
       /\ backend = "memory" => committed[i].seen = i - 1

\* The cleanup thread gets rid of every transaction that its client abandons.
AbandonedAreRemoved == \A id \in TxnIds : id \in txns ~> id \notin txns
=============================================================================
