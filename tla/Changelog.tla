------------------------------ MODULE Changelog ------------------------------
(***************************************************************************)
(* The write requests of the server and the changelog they are recorded in *)
(* (oxigraph-server/changelog.rs and the handlers of main.rs).             *)
(*                                                                         *)
(* A request first commits its change to the store and then records an     *)
(* entry, under the write lock of the changelog but in transactions of     *)
(* their own.  Entries are quads of the same store: the difference that    *)
(* /update takes before and after it runs sees the entries other requests  *)
(* wrote or pruned meanwhile.  The store is therefore one set of items,    *)
(* the quads of the users and the entries; an entry is written and removed *)
(* as a whole, and its deltas are sets of items.  A client may also clear  *)
(* entries, for their graph is like any other to CLEAR ALL or a DELETE; one *)
(* that writes into it, or deletes parts of an entry, is left out.         *)
(***************************************************************************)
EXTENDS Integers, Sequences, FiniteSets, FiniteSetsExt

CONSTANTS
  Quads,          \* the quads of the users
  Requests,       \* the server threads
  Uploads,        \* the bodies of POST /store: the quads parsed and loaded
  Transactions,   \* the commits of HTTP transactions
  Updates,        \* the SPARQL updates of POST /update
  retain,         \* --changelog-retain
  MAX_DIFF_STORE_SIZE,
  MAX_UNDOABLE_QUADS,
  MaxEntries,     \* bound: requests are accepted while the counter is below
  MaxCrashes      \* bound: how many times the server dies and restarts

None == "none"

\* An upload is parsed twice, and blank nodes are renamed in the quads that are
\* loaded but not in those that are recorded; there are none in both or in
\* neither.  A transaction is summed up by the quads its insert and remove
\* operations list, whether it also holds a SPARQL update, and what replaying it
\* adds to the store and deletes from it.  SPARQL updates may clear entries.
ASSUME ConstantsAssumption ==
  /\ Uploads \subseteq [parsed : SUBSET Quads, loaded : SUBSET Quads]
  /\ \A upload \in Uploads : upload.parsed = {} <=> upload.loaded = {}
  /\ Transactions \subseteq
       [inserted : SUBSET Quads, removed : SUBSET Quads, sparql : BOOLEAN,
        added : SUBSET Quads, deleted : SUBSET Quads, clear : BOOLEAN]
  /\ \A txn \in Transactions : txn.clear => txn.sparql
  /\ Updates \subseteq [delete : SUBSET Quads, insert : SUBSET Quads, clear : BOOLEAN]
  /\ retain \in Nat
  /\ MAX_DIFF_STORE_SIZE \in Nat
  /\ MAX_UNDOABLE_QUADS \in Nat
  /\ MaxEntries \in Nat
  /\ MaxCrashes \in Nat
  /\ IsFiniteSet(Requests)
  /\ None \notin Requests

VARIABLES
  store,       \* the quads and the changelog entries in the store
  counter,     \* the id of the next entry
  write_lock,  \* the request that holds the write lock
  sent,        \* the ids of the events broadcast since the server started
  pc,          \* where each request is
  job,         \* the local variables of each request
  crashes,     \* how many times the server died
  unpruned,    \* history: whether a prune was cut short or an undo put entries back,
               \* and whether the prune under way has collected those
  overlapped   \* history: the requests that others ran at the same time as

vars == <<store, counter, write_lock, sent, pc, job, crashes, unpruned, overlapped>>
logVars == <<counter, write_lock, sent, unpruned>>

Data == store \cap Quads
Entries == store \ Quads
IdsIn(items) == {e.id : e \in items \ Quads}

Locations == {"idle", "executing", "diffing", "undoing", "purging",
              "record", "writing", "pruning", "deleting", "sending"}
Operations == {"update", "store", "transaction", "undo"}

NoTask == [delete |-> {}, insert |-> {}, clear |-> FALSE]

\* The locals: what the request records, the update it runs or the entry it
\* undoes, what it read before and, as history, the user quads that its own
\* commit inserted and removed.
NoJob == [operation |-> None, inserted |-> {}, removed |-> {}, sparql |-> FALSE,
          task |-> NoTask, before |-> {}, id |-> 0, doomed |-> {},
          own |-> <<{}, {}>>]

Init ==
  /\ store = {}
  /\ counter = 1
  /\ write_lock = None
  /\ sent = <<>>
  /\ pc = [r \in Requests |-> "idle"]
  /\ job = [r \in Requests |-> NoJob]
  /\ crashes = 0
  /\ unpruned = {}
  /\ overlapped = {}

\* Bound: a request is taken only while there is an id left for its entry.
Accepts(r) ==
  /\ pc[r] = "idle"
  /\ counter + Cardinality({s \in Requests : pc[s] \notin {"idle", "purging"}}) <= MaxEntries

Goto(r, location) == pc' = [pc EXCEPT ![r] = location]
Return(r) == Goto(r, "idle") /\ job' = [job EXCEPT ![r] = NoJob]

\* The user quads that a commit turning the store into the given one changes.
OwnChange(after) == <<(after \ store) \cap Quads, (store \ after) \cap Quads>>

\* The entries that a write of a client takes out of the store.
Cleared(clear) == IF clear THEN SUBSET Entries ELSE {{}}

\* The request has changed the store and goes on to record the operation.
ToRecord(r, operation, inserted, removed, sparql, own) ==
  /\ Goto(r, "record")
  /\ job' = [job EXCEPT ![r] =
       [NoJob EXCEPT !.operation = operation, !.inserted = inserted,
                     !.removed = removed, !.sparql = sparql, !.own = own]]

-----------------------------------------------------------------------------
(* The requests, up to the point where they record *)

\* POST /store loads the body in one transaction and records what it parsed.
StoreRequest(r, upload) ==
  /\ Accepts(r)
  /\ store' = store \cup upload.loaded
  /\ IF upload.parsed = {}
     THEN UNCHANGED <<pc, job>>
     ELSE ToRecord(r, "store", upload.parsed, {}, FALSE, OwnChange(store'))
  /\ UNCHANGED <<logVars, crashes>>

\* PUT /transactions/{id}/commit; what commit does is in TransactionRegistry.
CommitRequest(r, txn) ==
  /\ Accepts(r)
  /\ \E gone \in Cleared(txn.clear) :
       store' = (store \ (txn.deleted \cup gone)) \cup txn.added
  /\ ToRecord(r, "transaction", txn.inserted, txn.removed, txn.sparql, OwnChange(store'))
  /\ UNCHANGED <<logVars, crashes>>

\* POST /update: evaluate_sparql_update_with_diff reads the whole store, runs
\* the update and reads the whole store again, unless the store is too large.
UpdateRequest(r, update) ==
  LET large == Cardinality(store) > MAX_DIFF_STORE_SIZE
  IN /\ Accepts(r)
     /\ Goto(r, "executing")
     /\ job' = [job EXCEPT ![r] = [NoJob EXCEPT !.task = update, !.sparql = large,
                                  !.before = IF large THEN {} ELSE store]]
     /\ UNCHANGED <<store, logVars, crashes>>

ExecuteUpdate(r) ==
  /\ pc[r] = "executing"
  /\ \E gone \in Cleared(job[r].task.clear) :
       store' = (store \ (job[r].task.delete \cup gone)) \cup job[r].task.insert
  /\ IF job[r].sparql
     THEN ToRecord(r, "update", {}, {}, TRUE, OwnChange(store'))
     ELSE Goto(r, "diffing") /\ job' = [job EXCEPT ![r].own = OwnChange(store')]
  /\ UNCHANGED <<logVars, crashes>>

DiffUpdate(r) ==
  LET inserted == store \ job[r].before
      removed  == job[r].before \ store
  IN /\ pc[r] = "diffing"
     /\ IF inserted = {} /\ removed = {}
        THEN Return(r)
        ELSE ToRecord(r, "update", inserted, removed, FALSE, job[r].own)
     /\ UNCHANGED <<store, logVars, crashes>>

\* POST /changelog/{id}/undo reads the entry; undo refuses one that is not
\* undoable.
UndoRequest(r, entry) ==
  /\ Accepts(r)
  /\ entry \in Entries
  /\ entry.undoable
  /\ Goto(r, "undoing")
  /\ job' = [job EXCEPT ![r] = [NoJob EXCEPT !.inserted = entry.removed,
                                             !.removed = entry.inserted,
                                             !.task = entry]]
  /\ UNCHANGED <<store, logVars, crashes>>

\* Mutant: undo only removes.
UndoRemovesOnly(r) ==
  /\ pc[r] = "undoing"
  /\ store' = store \ job[r].removed
  /\ ToRecord(r, "undo", job[r].inserted, job[r].removed, FALSE, OwnChange(store'))
  /\ UNCHANGED <<logVars, crashes>>

\* The inverse inserts before it removes.  The difference of an update that others
\* overlapped has entries of the log in it, and undo treats them as it does quads.
ApplyUndo(r) ==
  /\ pc[r] = "undoing"
  /\ store' = (store \cup job[r].inserted) \ job[r].removed
  /\ ToRecord(r, "undo", job[r].inserted, job[r].removed, FALSE, OwnChange(store'))
  /\ unpruned' = IF IdsIn(job[r].inserted) = {} THEN unpruned ELSE unpruned \cup {"left"}
  /\ UNCHANGED <<counter, write_lock, sent, crashes>>

\* DELETE /changelog collects the entries and then removes them, without the
\* write lock.
PurgeRequest(r) ==
  /\ Accepts(r)
  /\ Goto(r, "purging")
  /\ job' = [job EXCEPT ![r] = [NoJob EXCEPT !.before = Entries]]
  /\ UNCHANGED <<store, logVars, crashes>>

FinishPurge(r) ==
  /\ pc[r] = "purging"
  /\ store' = store \ job[r].before
  /\ Return(r)
  /\ UNCHANGED <<logVars, crashes>>

-----------------------------------------------------------------------------
(* Changelog::record *)

\* Mutant: the id is taken without the lock.
UnlockedId(r) ==
  /\ pc[r] = "record"
  /\ write_lock' = r
  /\ counter' = counter + 1
  /\ Goto(r, "writing")
  /\ job' = [job EXCEPT ![r].id = counter]
  /\ UNCHANGED <<store, sent, crashes, unpruned>>

AcquireLock(r) ==
  /\ pc[r] = "record"
  /\ write_lock = None
  /\ write_lock' = r
  /\ counter' = counter + 1
  /\ Goto(r, "writing")
  /\ job' = [job EXCEPT ![r].id = counter]
  /\ UNCHANGED <<store, sent, crashes, unpruned>>

EntryOf(j, alone) ==
  [id |-> j.id, operation |-> j.operation, inserted |-> j.inserted, removed |-> j.removed,
   undoable |-> /\ ~j.sparql
                /\ Cardinality(j.inserted) + Cardinality(j.removed) <= MAX_UNDOABLE_QUADS,
   own |-> j.own, alone |-> alone]

WriteEntry(r) ==
  /\ pc[r] = "writing"
  /\ store' = store \cup {EntryOf(job[r], r \notin overlapped)}
  /\ Goto(r, IF retain > 0 THEN "pruning" ELSE "sending")
  /\ UNCHANGED <<logVars, job, crashes>>

\* Mutant: the cutoff itself is kept.
OldIdsBelow(r) == {id \in IdsIn(store) : id < job[r].id - retain}

\* Mutant: one id more than the cutoff goes.
OldIdsAbove(r) == {id \in IdsIn(store) : id <= job[r].id - retain + 1}

\* The ids prune finds at or below its cutoff.
OldIds(r) == {id \in IdsIn(store) : id <= job[r].id - retain}

\* prune collects the entries at or below the cutoff.
CollectOld(r) ==
  LET doomed == OldIds(r)
  IN /\ pc[r] = "pruning"
     /\ Goto(r, IF doomed = {} THEN "sending" ELSE "deleting")
     /\ job' = [job EXCEPT ![r].doomed = doomed]
     /\ unpruned' = IF doomed = {} \/ unpruned = {} THEN {} ELSE {"collected"}
     /\ UNCHANGED <<store, counter, write_lock, sent, crashes>>

DeleteOld(r) ==
  /\ pc[r] = "deleting"
  /\ store' = store \ {e \in Entries : e.id \in job[r].doomed}
  /\ Goto(r, "sending")
  /\ unpruned' = unpruned \ {"collected"}
  /\ UNCHANGED <<counter, write_lock, sent, job, crashes>>

\* The event is sent last, still under the lock.
Broadcast(r) ==
  /\ pc[r] = "sending"
  /\ sent' = Append(sent, job[r].id)
  /\ write_lock' = None
  /\ Return(r)
  /\ UNCHANGED <<store, counter, crashes, unpruned>>

\* Mutant: a failure keeps the lock.
RecordFailsLocked(r) ==
  /\ pc[r] \in {"writing", "pruning", "deleting"}
  /\ unpruned' = IF pc[r] = "writing" THEN unpruned ELSE unpruned \cup {"left"}
  /\ Return(r)
  /\ UNCHANGED <<store, counter, write_lock, sent, crashes>>

\* A storage transaction of record fails: the handlers drop the error.
RecordFails(r) ==
  /\ pc[r] \in {"writing", "pruning", "deleting"}
  /\ write_lock' = None
  /\ unpruned' = IF pc[r] = "writing" THEN unpruned ELSE unpruned \cup {"left"}
  /\ Return(r)
  /\ UNCHANGED <<store, counter, sent, crashes>>

\* The storage transaction of the request itself fails: nothing was changed.
RequestFails(r) ==
  /\ pc[r] \in {"executing", "undoing", "purging"}
  /\ Return(r)
  /\ UNCHANGED <<store, logVars, crashes>>

record(r) ==
  \/ AcquireLock(r)
  \/ WriteEntry(r)
  \/ CollectOld(r)
  \/ DeleteOld(r)
  \/ Broadcast(r)
  \/ RecordFails(r)

-----------------------------------------------------------------------------

\* Mutant: a restart gives out the highest id again.
LastIdAgain == Max(IdsIn(store) \cup {0})

init_counter == Max(IdsIn(store) \cup {0}) + 1

\* The process dies and restarts on the same store.
Crash ==
  /\ crashes < MaxCrashes
  /\ crashes' = crashes + 1
  /\ pc' = [r \in Requests |-> "idle"]
  /\ job' = [r \in Requests |-> NoJob]
  /\ write_lock' = None
  /\ sent' = <<>>
  /\ counter' = init_counter
  /\ unpruned' = IF \E r \in Requests : pc[r] \in {"pruning", "deleting"}
                  THEN unpruned \cup {"left"} ELSE unpruned
  /\ UNCHANGED store

\* history: who is under way together with another request
Overlap ==
  LET running == {r \in Requests : pc'[r] # "idle"}
  IN  overlapped' = IF Cardinality(running) > 1 THEN running ELSE overlapped \cap running

Accept(r) ==
  /\ \/ \E upload \in Uploads : StoreRequest(r, upload)
     \/ \E txn \in Transactions : CommitRequest(r, txn)
     \/ \E update \in Updates : UpdateRequest(r, update)
     \/ \E entry \in Entries : UndoRequest(r, entry)
     \/ PurgeRequest(r)
  /\ Overlap

Proceed(r) ==
  /\ \/ ExecuteUpdate(r)
     \/ DiffUpdate(r)
     \/ ApplyUndo(r)
     \/ FinishPurge(r)
     \/ RequestFails(r)
     \/ record(r)
  /\ Overlap

Next == (Crash /\ overlapped' = {}) \/ \E r \in Requests : Accept(r) \/ Proceed(r)

Spec == Init /\ [][Next]_vars

\* A thread that is not waiting for the lock goes on.
FairSpec == Spec /\ \A r \in Requests : WF_vars(Proceed(r))

-----------------------------------------------------------------------------
(* Properties *)

\* Types; an id in the log is below the counter, which init_counter (re)starts
\* above what the store holds.
TypeOK ==
  /\ \A e \in Entries : /\ e.id \in 1..(counter - 1)
                        /\ e.operation \in Operations
                        /\ e.undoable \in BOOLEAN
  /\ counter \in Nat \ {0}
  /\ write_lock \in Requests \cup {None}
  /\ sent \in Seq(1..(counter - 1))
  /\ pc \in [Requests -> Locations]
  /\ \A r \in Requests : job[r].id \in 0..(counter - 1)
  /\ crashes \in 0..MaxCrashes
  /\ unpruned \in SUBSET {"left", "collected"}

\* GET and undo look an entry up by its id: no two entries in the store share
\* one, restarts and purges included.
OneEntryPerId == \A e, f \in Entries : e.id = f.id => e = f

\* Subscribers see ids grow: whatever order the requests commit in, record
\* takes the id and sends the event under one lock.
EventsInOrder == \A i, j \in 1..Len(sent) : i < j => sent[i] < sent[j]

\* Once record has returned the log holds at most retain entries, and one more
\* while a record is under way, unless a prune was cut short by a failure, or an undo
\* put back what the update that it undoes saw pruned.
Retention ==
  retain > 0 /\ unpruned = {} =>
    Cardinality(Entries) <= retain + (IF write_lock = None THEN 0 ELSE 1)

\* Only the prune of a record once retain newer ids were given out takes an entry out of
\* the log, or a purge, of the entries it found; or the undo of an update that saw it
\* recorded, or an update or a transaction in which the client asks for it.
OnlyPruningForgets ==
  [][\A e \in Entries \ Entries' : \E r \in Requests :
       \/ pc[r] = "deleting" /\ e.id + retain < counter
       \/ pc[r] = "purging" /\ pc'[r] = "idle" /\ e \in job[r].before
       \/ pc[r] = "undoing" /\ pc'[r] = "record" /\ e \in job[r].removed
       \/ pc[r] = "executing" /\ pc'[r] \in {"diffing", "record"} /\ job[r].task.clear
       \/ \E txn \in Transactions : txn.clear /\ CommitRequest(r, txn)]_vars

\* If nothing the recorded write changed was changed again, undoing its entry
\* takes the users' quads back to where they were.
Reverts(r) ==
  LET own == job[r].task.own
  IN /\ pc[r] = "undoing"
     /\ pc'[r] = "record"
     /\ own[1] \subseteq Data
     /\ own[2] \cap Data = {}
     => Data' = (Data \ own[1]) \cup own[2]

\* Undo reverts an update that was recorded by its difference while no other request
\* ran, whatever was committed since.
UndoRevertsUpdates ==
  [][\A r \in Requests :
       pc[r] = "undoing" /\ job[r].task.operation = "update" /\ job[r].task.alone
         => Reverts(r)]_vars

\* Every request ends: the lock is given back on every path through record.
RequestsEnd == \A r \in Requests : pc[r] # "idle" ~> pc[r] = "idle"
=============================================================================
