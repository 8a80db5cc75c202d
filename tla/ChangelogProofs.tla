--------------------------- MODULE ChangelogProofs ---------------------------
(***************************************************************************)
(* Proofs about the changelog.  An entry may hold other entries: those an  *)
(* overlapping update saw recorded or pruned, which an undo can write back. *)
(* The invariant therefore speaks of a set H of known entries, which has    *)
(* the entries of the store and everything that they, and the requests      *)
(* under way, may still bring back.                                         *)
(***************************************************************************)
EXTENDS Changelog, FiniteSetTheorems, WellFoundedInduction, TLAPS

\* The provers, and their time limits in seconds, that the steps are tried with.
USE ZenonT(5), SMTT(20), ZenonT(20), SMTT(60)

QuadDelta == (SUBSET Quads) \X (SUBSET Quads)

\* Entries whose deltas have only quads and entries of H.
Logged(H) ==
  [id : Nat, operation : Operations, inserted : SUBSET (Quads \cup H),
   removed : SUBSET (Quads \cup H), undoable : BOOLEAN, own : QuadDelta, alone : BOOLEAN]

\* The locals of a request that knows the entries of H.
Jobs(H) ==
  [operation : Operations \cup {None}, inserted : SUBSET (Quads \cup H),
   removed : SUBSET (Quads \cup H), sparql : BOOLEAN,
   task : Updates \cup {NoTask} \cup H, before : SUBSET (Quads \cup H),
   id : Nat, doomed : SUBSET Nat, own : QuadDelta]

\* Where a request holds the write lock.
Recording == {"writing", "pruning", "deleting", "sending"}

Types ==
  /\ counter \in Nat \ {0}
  /\ write_lock \in Requests \cup {None}
  /\ sent \in Seq(Nat)
  /\ pc \in [Requests -> Locations]
  /\ crashes \in 0..MaxCrashes
  /\ unpruned \in SUBSET {"left", "collected"}
  /\ overlapped \in SUBSET Requests

\* H has every entry that is, or may come back, in the store.
Known(H) ==
  /\ IsFiniteSet(H)
  /\ H \subseteq Logged(H)
  /\ store \subseteq Quads \cup H
  /\ job \in [Requests -> Jobs(H)]

\* The id of a known entry was given out, to that entry alone, and after those of the
\* entries it holds.
Numbered(H) ==
  /\ \A e \in H : e.id \in 1..(counter - 1)
  /\ \A e, f \in H : e.id = f.id => e = f
  /\ \A e \in H : \A f \in (e.inserted \cup e.removed) \ Quads : f.id < e.id
  /\ \A r \in Requests : pc[r] = "writing" => \A e \in H : e.id < job[r].id

\* The request that holds the lock has the id given out last.
Locked ==
  \A r \in Requests :
    pc[r] \in Recording => write_lock = r /\ job[r].id = counter - 1 /\ job[r].id > 0

\* The events were sent in the order of their ids, all before the one under way.
Events ==
  /\ EventsInOrder
  /\ \A i \in 1..Len(sent) : sent[i] \in 1..(counter - 1)
  /\ \A r \in Requests : pc[r] \in Recording => \A i \in 1..Len(sent) : sent[i] < job[r].id

\* What prune is about to delete is old, and is all that is old unless some entry came
\* back since it looked.
Pruning ==
  \A r \in Requests :
    /\ pc[r] \in {"pruning", "deleting"} => retain > 0
    /\ pc[r] = "deleting" => \A id \in job[r].doomed : id + retain <= job[r].id
    /\ pc[r] = "deleting" /\ "left" \notin unpruned
         => \A e \in Entries : e.id + retain <= job[r].id => e.id \in job[r].doomed

\* The log is full at most, but for the entry that was just written.
Count ==
  retain > 0 /\ unpruned = {} =>
    Cardinality(Entries) <=
      retain + (IF \E r \in Requests : pc[r] \in {"pruning", "deleting"} THEN 1 ELSE 0)

\* A request that no other overlapped is the only one under way.
Overlapping ==
  \A r, s \in Requests : pc[r] # "idle" /\ pc[s] # "idle" /\ r # s => r \in overlapped

\* The difference recorded for an update that nobody overlapped is what it changed.
SameDelta(x) == x.own = <<x.inserted \cap Quads, x.removed \cap Quads>>

\* What a request on its way to an entry has read is what the store held.
Honest(H, r) ==
  /\ pc[r] = "executing" => job[r].task \in Updates
  /\ pc[r] = "executing" /\ r \notin overlapped /\ ~job[r].sparql => job[r].before = store
  /\ pc[r] = "diffing" /\ r \notin overlapped
       => job[r].own = <<(store \ job[r].before) \cap Quads,
                         (job[r].before \ store) \cap Quads>>
  /\ pc[r] \in {"record", "writing"} => job[r].operation \in Operations
  /\ pc[r] \in {"record", "writing"} /\ job[r].operation = "update"
       => (~job[r].sparql /\ r \notin overlapped => SameDelta(job[r]))
  /\ pc[r] = "undoing" => /\ job[r].task \in H
                          /\ job[r].task.undoable
                          /\ job[r].inserted = job[r].task.removed
                          /\ job[r].removed = job[r].task.inserted

Differences(H) ==
  /\ \A e \in H : e.operation = "update" /\ e.alone /\ e.undoable => SameDelta(e)
  /\ \A r \in Requests : Honest(H, r)

Inv(H) ==
  /\ Types
  /\ Known(H)
  /\ Numbered(H)
  /\ Locked
  /\ Events
  /\ Pruning
  /\ Count
  /\ Overlapping
  /\ Differences(H)

-----------------------------------------------------------------------------
(* Steps *)

\* One request goes to location l with the locals j; the others stay.
Moves(r, l, j) == pc' = [pc EXCEPT ![r] = l] /\ job' = [job EXCEPT ![r] = j]

\* The locals of a request that has none are well formed.
LEMMA NoJobType ==
  ASSUME NEW H
  PROVE  NoJob \in Jobs(H)
BY DEF NoJob, Jobs, QuadDelta

\* Requests that are under way at the same time are marked, and stay marked.
LEMMA OverlapStep ==
  ASSUME Types, Overlapping, Overlap, pc' \in [Requests -> Locations]
  PROVE  /\ overlapped' \in SUBSET Requests
         /\ Overlapping'
         /\ \A s \in overlapped : pc'[s] # "idle" => s \in overlapped'
         /\ \A r, s \in Requests :
              r # s /\ pc'[r] # "idle" /\ pc'[s] # "idle" => r \in overlapped'
<1> DEFINE running == {r \in Requests : pc'[r] # "idle"}
<1>1. IsFiniteSet(running)
  BY ConstantsAssumption, FS_Subset
<1>2. ASSUME NEW r \in running, NEW s \in running, r # s PROVE Cardinality(running) > 1
  <2>1. IsFiniteSet({r}) /\ Cardinality({r}) = 1
    BY FS_Singleton
  <2>2. IsFiniteSet({r} \cup {s}) /\ Cardinality({r} \cup {s}) = 2
    <3> DEFINE one == {r}
    <3>1. s \notin one /\ IsFiniteSet(one) /\ Cardinality(one) = 1
      BY <1>2, <2>1
    <3> HIDE DEF one
    <3>2. IsFiniteSet(one \cup {s}) /\ Cardinality(one \cup {s}) = 2
      BY <3>1, FS_AddElement
    <3> QED
      BY <3>2 DEF one
  <2>3. {r} \cup {s} \in SUBSET running
    OBVIOUS
  <2>4. Cardinality({r} \cup {s}) <= Cardinality(running) /\ Cardinality(running) \in Nat
    BY <1>1, <2>3, FS_Subset, FS_CardinalityType
  <2> QED
    BY <2>2, <2>4
<1>3. overlapped' = IF Cardinality(running) > 1 THEN running ELSE overlapped \cap running
  BY DEF Overlap
<1> HIDE DEF running
<1>4. overlapped' \in SUBSET Requests
  BY <1>3 DEF Types, running
<1>5. \A r, s \in Requests :
        r # s /\ pc'[r] # "idle" /\ pc'[s] # "idle" => r \in overlapped'
  BY <1>2, <1>3 DEF running
<1>6. \A s \in overlapped : pc'[s] # "idle" => s \in overlapped'
  BY <1>3 DEF Types, running
<1> QED
  BY <1>4, <1>5, <1>6 DEF Overlapping

\* A request that does not hold the lock, and does not take it, leaves the ids, the lock
\* and the events as they are.
LEMMA OutsideLock ==
  ASSUME NEW H, Inv(H), NEW r \in Requests, NEW l \in Locations \ Recording, NEW j \in Jobs(H),
         pc[r] \notin Recording, Moves(r, l, j), UNCHANGED <<counter, write_lock, sent>>
  PROVE  /\ pc' \in [Requests -> Locations] /\ job' \in [Requests -> Jobs(H)]
         /\ Numbered(H)' /\ Locked' /\ Events'
<1> USE DEF Moves
<1>1. pc' \in [Requests -> Locations] /\ job' \in [Requests -> Jobs(H)]
  BY DEF Inv, Types, Known
<1>2. \A s \in Requests : pc'[s] \in Recording =>
        s # r /\ pc'[s] = pc[s] /\ job'[s] = job[s]
  BY DEF Inv, Types, Known
<1>3. Numbered(H)'
  BY <1>2 DEF Inv, Numbered, Recording
<1>4. Locked'
  BY <1>2 DEF Inv, Locked
<1>5. Events'
  BY <1>2 DEF Inv, Events, EventsInOrder
<1> QED
  BY <1>1, <1>3, <1>4, <1>5

\* What the other requests rely on stays true when one moves: it cannot change the store
\* without marking those that are under way.
LEMMA OthersHonest ==
  ASSUME NEW H, Inv(H), NEW r \in Requests, NEW l \in Locations, NEW j \in Jobs(H),
         Moves(r, l, j), Overlap, store' = store \/ pc[r] # "idle" \/ l # "idle",
         NEW s \in Requests, s # r
  PROVE  Honest(H, s)'
<1> USE DEF Moves
<1>1. pc' \in [Requests -> Locations]
  BY DEF Inv, Types
<1>2. pc'[s] = pc[s] /\ job'[s] = job[s] /\ pc'[r] = l
  BY DEF Inv, Types, Known
<1>3. Honest(H, s)
  BY DEF Inv, Differences
<1>4. ASSUME pc[s] # "idle", s \notin overlapped' PROVE s \notin overlapped /\ store' = store
  <2>1. pc'[s] # "idle"
    BY <1>2, <1>4
  <2>2. s \notin overlapped
    BY <1>1, <1>4, <2>1, OverlapStep DEF Inv
  <2>3. l = "idle"
    BY <1>1, <1>2, <1>4, <2>1, OverlapStep DEF Inv
  <2>4. pc[r] = "idle"
    BY <1>4, <2>2 DEF Inv, Overlapping
  <2> QED
    BY <2>2, <2>3, <2>4
<1> QED
  BY <1>2, <1>3, <1>4 DEF Honest, SameDelta

\* A step that adds no entry leaves the log as full as it was at most, whoever prunes it.
LEMMA LogShrinks ==
  ASSUME NEW H, Inv(H), NEW r \in Requests, NEW l \in Locations \ Recording, NEW j \in Jobs(H),
         pc[r] \notin Recording, Moves(r, l, j),
         Entries' \subseteq Entries, unpruned' = unpruned
  PROVE  Pruning' /\ Count'
<1> USE DEF Moves
<1>1. \A s \in Requests : /\ pc'[s] \in Recording => pc'[s] = pc[s] /\ job'[s] = job[s]
                          /\ pc[s] \in Recording => pc'[s] = pc[s]
  BY DEF Inv, Types, Known
<1>2. Pruning'
  BY <1>1 DEF Inv, Pruning, Recording
<1>3. IsFiniteSet(Entries)
  BY FS_Subset DEF Inv, Known, Entries
<1>4. Cardinality(Entries') <= Cardinality(Entries)
  BY <1>3, FS_Subset
<1>5. Cardinality(Entries) \in Nat /\ Cardinality(Entries') \in Nat
  BY <1>3, FS_Subset, FS_CardinalityType
<1>6. (\E s \in Requests : pc[s] \in {"pruning", "deleting"})
        <=> (\E s \in Requests : pc'[s] \in {"pruning", "deleting"})
  BY <1>1 DEF Recording
<1> QED
  BY <1>2, <1>4, <1>5, <1>6, ConstantsAssumption DEF Inv, Count

\* A step outside the lock preserves the invariant if what it takes along is known and
\* honest, and it does not overfill the log.
LEMMA OutsideStep ==
  ASSUME NEW H, Inv(H), NEW r \in Requests, NEW l \in Locations \ Recording, NEW j \in Jobs(H),
         pc[r] \notin Recording, Moves(r, l, j), Overlap,
         UNCHANGED <<counter, write_lock, sent, crashes>>,
         store' = store \/ pc[r] # "idle" \/ l # "idle",
         store' \subseteq Quads \cup H, Honest(H, r)',
         unpruned' \in SUBSET {"left", "collected"}, Pruning', Count'
  PROVE  Inv(H)'
<1>1. /\ pc' \in [Requests -> Locations] /\ job' \in [Requests -> Jobs(H)]
      /\ Numbered(H)' /\ Locked' /\ Events'
  BY OutsideLock
<1>2. overlapped' \in SUBSET Requests /\ Overlapping'
  BY <1>1, OverlapStep DEF Inv
<1>3. Types' /\ Known(H)'
  BY <1>1, <1>2 DEF Inv, Types, Known
<1>4. \A s \in Requests : Honest(H, s)'
  BY OthersHonest
<1>5. Differences(H)'
  BY <1>4 DEF Inv, Differences
<1> QED
  BY <1>1, <1>2, <1>3, <1>5 DEF Inv

\* The locals of a request that goes on to record.
RecordJob(operation, inserted, removed, sparql, own) ==
  [NoJob EXCEPT !.operation = operation, !.inserted = inserted,
                !.removed = removed, !.sparql = sparql, !.own = own]

\* They are well formed, and hold what they were given.
LEMMA RecordJobFacts ==
  ASSUME NEW H, NEW operation \in Operations, NEW inserted \in SUBSET (Quads \cup H),
         NEW removed \in SUBSET (Quads \cup H), NEW sparql \in BOOLEAN, NEW own \in QuadDelta
  PROVE  /\ RecordJob(operation, inserted, removed, sparql, own) \in Jobs(H)
         /\ RecordJob(operation, inserted, removed, sparql, own).operation = operation
         /\ RecordJob(operation, inserted, removed, sparql, own).inserted = inserted
         /\ RecordJob(operation, inserted, removed, sparql, own).removed = removed
         /\ RecordJob(operation, inserted, removed, sparql, own).sparql = sparql
         /\ RecordJob(operation, inserted, removed, sparql, own).own = own
BY NoJobType DEF RecordJob, Jobs, NoJob

\* The same for a delta that is recorded as it is.
DeltaJob(operation, inserted, removed, own) ==
  [NoJob EXCEPT !.operation = operation, !.inserted = inserted,
                !.removed = removed, !.sparql = FALSE, !.own = own]

\* They are well formed, and hold what they were given.
LEMMA DeltaJobFacts ==
  ASSUME NEW H, NEW operation \in Operations, NEW inserted \in SUBSET (Quads \cup H),
         NEW removed \in SUBSET (Quads \cup H), NEW own \in QuadDelta
  PROVE  /\ DeltaJob(operation, inserted, removed, own) \in Jobs(H)
         /\ DeltaJob(operation, inserted, removed, own).operation = operation
         /\ DeltaJob(operation, inserted, removed, own).inserted = inserted
         /\ DeltaJob(operation, inserted, removed, own).removed = removed
         /\ DeltaJob(operation, inserted, removed, own).own = own
BY NoJobType DEF DeltaJob, Jobs, NoJob

\* What a commit changes of the users' quads is a pair of sets of quads.
LEMMA OwnChangeType ==
  ASSUME NEW after
  PROVE  OwnChange(after) \in QuadDelta
BY DEF OwnChange, QuadDelta

\* A step that adds quads only.
LEMMA QuadsOnly ==
  ASSUME NEW H, Inv(H), NEW minus, NEW plus \in SUBSET Quads,
         store' = (store \ minus) \cup plus
  PROVE  store' \subseteq Quads \cup H /\ Entries' \subseteq Entries
BY DEF Inv, Known, Entries

\* POST /store changes quads, and goes on to record unless there were none.
LEMMA StoreStep ==
  ASSUME NEW H, Inv(H), NEW r \in Requests, NEW upload \in Uploads,
         StoreRequest(r, upload), Overlap
  PROVE  Inv(H)'
<1>1. /\ upload.parsed \in SUBSET Quads /\ upload.loaded \in SUBSET Quads
      /\ upload.parsed = {} => upload.loaded = {}
  BY ConstantsAssumption
<1>2. store' \subseteq Quads \cup H /\ Entries' \subseteq Entries
  <2>1. store' = (store \ {}) \cup upload.loaded
    BY DEF StoreRequest
  <2> QED
    BY <1>1, <2>1, QuadsOnly
<1>3. pc[r] = "idle" /\ UNCHANGED <<counter, write_lock, sent, crashes, unpruned>>
  BY DEF StoreRequest, Accepts, logVars
<1>4. CASE upload.parsed = {}
  <2>1. Moves(r, "idle", job[r]) /\ store' = store
    BY <1>1, <1>4 DEF StoreRequest, Moves, Inv, Types, Known, Accepts
  <2>2. job[r] \in Jobs(H) /\ pc'[r] = "idle"
    BY <1>3, <2>1 DEF Inv, Known, Moves, Types
  <2>3. Honest(H, r)'
    BY <2>2 DEF Honest
  <2>4. Pruning' /\ Count'
    BY <1>2, <1>3, <2>1, <2>2, LogShrinks DEF Locations, Recording
  <2> QED
    <3>1. "idle" \in Locations \ Recording /\ unpruned' \in SUBSET {"left", "collected"}
      BY <1>3 DEF Locations, Recording, Inv, Types
    <3> QED
      BY <1>2, <1>3, <2>1, <2>2, <2>3, <2>4, <3>1, OutsideStep
<1>5. CASE upload.parsed # {}
  <2> DEFINE j == DeltaJob("store", upload.parsed, {}, OwnChange(store'))
  <2>1. Moves(r, "record", j)
    BY <1>5 DEF StoreRequest, ToRecord, Goto, Moves, DeltaJob
  <2>2. j \in Jobs(H) /\ j.operation = "store"
    <3>1. "store" \in Operations /\ OwnChange(store') \in QuadDelta
      BY OwnChangeType DEF Operations
    <3>2. upload.parsed \in SUBSET (Quads \cup H) /\ {} \in SUBSET (Quads \cup H)
      BY <1>1
    <3> QED
      BY <3>1, <3>2, DeltaJobFacts
  <2> HIDE DEF j
  <2>3. pc'[r] = "record" /\ job'[r] = j
    BY <2>1 DEF Moves, Inv, Types, Known
  <2>4. Honest(H, r)'
    BY <2>2, <2>3 DEF Honest, Operations
  <2>5. Pruning' /\ Count'
    BY <1>2, <1>3, <2>1, <2>2, LogShrinks DEF Locations, Recording
  <2> QED
    BY <1>2, <1>3, <2>1, <2>2, <2>4, <2>5, OutsideStep DEF Locations, Recording, Inv, Types
<1> QED
  BY <1>4, <1>5

\* The commit of a transaction changes quads and goes on to record.
LEMMA CommitStep ==
  ASSUME NEW H, Inv(H), NEW r \in Requests, NEW txn \in Transactions,
         CommitRequest(r, txn), Overlap
  PROVE  Inv(H)'
<1>1. /\ txn.inserted \in SUBSET Quads /\ txn.removed \in SUBSET Quads
      /\ txn.added \in SUBSET Quads /\ txn.deleted \in SUBSET Quads /\ txn.sparql \in BOOLEAN
  BY ConstantsAssumption
<1>2. store' \subseteq Quads \cup H /\ Entries' \subseteq Entries
  <2>1. PICK gone : store' = (store \ (txn.deleted \cup gone)) \cup txn.added
    BY DEF CommitRequest
  <2> QED BY <1>1, <2>1, QuadsOnly
<1>3. pc[r] = "idle" /\ UNCHANGED <<counter, write_lock, sent, crashes, unpruned>>
  BY DEF CommitRequest, Accepts, logVars
<1> DEFINE j == RecordJob("transaction", txn.inserted, txn.removed, txn.sparql, OwnChange(store'))
<1>4. Moves(r, "record", j)
  BY DEF CommitRequest, ToRecord, Goto, Moves, RecordJob
<1>5. j \in Jobs(H) /\ j.operation = "transaction"
  <2>1. "transaction" \in Operations /\ OwnChange(store') \in QuadDelta
    BY OwnChangeType DEF Operations
  <2>2. txn.inserted \in SUBSET (Quads \cup H) /\ txn.removed \in SUBSET (Quads \cup H)
    BY <1>1
  <2> QED
    BY <1>1, <2>1, <2>2, RecordJobFacts
<1> HIDE DEF j
<1>6. pc'[r] = "record" /\ job'[r] = j
  BY <1>4 DEF Moves, Inv, Types, Known
<1>7. Honest(H, r)'
  BY <1>5, <1>6 DEF Honest, Operations
<1>8. Pruning' /\ Count'
  BY <1>2, <1>3, <1>4, <1>5, LogShrinks DEF Locations, Recording
<1> QED
  BY <1>2, <1>3, <1>4, <1>5, <1>7, <1>8, OutsideStep DEF Locations, Recording, Inv, Types

\* A step that leaves the store and the history alone neither fills nor empties the log.
LEMMA ReadStep ==
  ASSUME NEW H, Inv(H), NEW r \in Requests, NEW l \in Locations \ Recording, NEW j \in Jobs(H),
         pc[r] \notin Recording, Moves(r, l, j), Overlap, Honest(H, r)',
         UNCHANGED <<store, counter, write_lock, sent, crashes, unpruned>>
  PROVE  Inv(H)'
<1>1. store' \subseteq Quads \cup H /\ Entries' \subseteq Entries
  BY DEF Inv, Known, Entries
<1>2. Pruning' /\ Count'
  BY <1>1, LogShrinks
<1> QED
  BY <1>1, <1>2, OutsideStep DEF Inv, Types

\* POST /update reads the store before it runs the update.
LEMMA UpdateStep ==
  ASSUME NEW H, Inv(H), NEW r \in Requests, NEW update \in Updates,
         UpdateRequest(r, update), Overlap
  PROVE  Inv(H)'
<1> DEFINE large == Cardinality(store) > MAX_DIFF_STORE_SIZE
           j == [NoJob EXCEPT !.task = update, !.sparql = large,
                              !.before = IF large THEN {} ELSE store]
<1>1. Moves(r, "executing", j)
  BY DEF UpdateRequest, Goto, Moves
<1>2. /\ pc[r] = "idle"
      /\ UNCHANGED <<store, counter, write_lock, sent, crashes, unpruned>>
  BY DEF UpdateRequest, Accepts, logVars
<1>3. j \in Jobs(H) /\ j.task = update /\ (~j.sparql => j.before = store)
  <2>1. store \subseteq Quads \cup H
    BY DEF Inv, Known
  <2> HIDE DEF large
  <2>2. large \in BOOLEAN /\ (IF large THEN {} ELSE store) \in SUBSET (Quads \cup H)
    BY <2>1 DEF large
  <2>3. j \in Jobs(H) /\ j.task = update
    BY <2>2, NoJobType DEF Jobs, NoJob
  <2>4. j.sparql = large /\ j.before = IF large THEN {} ELSE store
    BY DEF NoJob
  <2>5. ~j.sparql => j.before = store
    <3> HIDE DEF j
    <3> QED
      BY <2>4
  <2> QED
    BY <2>3, <2>5
<1> HIDE DEF j
<1>4. pc'[r] = "executing" /\ job'[r] = j
  BY <1>1 DEF Moves, Inv, Types, Known
<1>5. Honest(H, r)'
  BY <1>2, <1>3, <1>4 DEF Honest
<1> QED
  BY <1>1, <1>2, <1>3, <1>5, ReadStep DEF Locations, Recording

\* The update runs.  If nobody overlapped it the store was still the one it had read.
LEMMA ExecuteStep ==
  ASSUME NEW H, Inv(H), NEW r \in Requests, ExecuteUpdate(r), Overlap
  PROVE  Inv(H)'
<1>1. job[r] \in Jobs(H) /\ Honest(H, r)
  BY DEF Inv, Known, Differences
<1>2. job[r].task.insert \in SUBSET Quads
  BY <1>1, ConstantsAssumption DEF ExecuteUpdate, Honest
<1>3. store' \subseteq Quads \cup H /\ Entries' \subseteq Entries
  <2>1. PICK gone :
          store' = (store \ (job[r].task.delete \cup gone)) \cup job[r].task.insert
    BY DEF ExecuteUpdate
  <2> QED BY <1>2, <2>1, QuadsOnly
<1>4. pc[r] = "executing" /\ UNCHANGED <<counter, write_lock, sent, crashes, unpruned>>
  BY DEF ExecuteUpdate, logVars
<1>5. OwnChange(store') \in QuadDelta
  BY OwnChangeType
<1>6. CASE job[r].sparql
  <2> DEFINE j == [NoJob EXCEPT !.operation = "update", !.inserted = {}, !.removed = {},
                                !.sparql = TRUE, !.own = OwnChange(store')]
  <2>1. Moves(r, "record", j)
    BY <1>6 DEF ExecuteUpdate, ToRecord, Goto, Moves
  <2>2. j \in Jobs(H) /\ j.operation = "update" /\ j.sparql
    BY <1>5, NoJobType DEF Jobs, NoJob, Operations
  <2> HIDE DEF j
  <2>3. pc'[r] = "record" /\ job'[r] = j
    BY <2>1 DEF Moves, Inv, Types, Known
  <2>4. Honest(H, r)'
    BY <2>2, <2>3 DEF Honest, Operations
  <2>5. Pruning' /\ Count'
    BY <1>3, <1>4, <2>1, <2>2, LogShrinks DEF Locations, Recording
  <2> QED
    BY <1>3, <1>4, <2>1, <2>2, <2>4, <2>5, OutsideStep DEF Locations, Recording, Inv, Types
<1>7. CASE ~job[r].sparql
  <2> DEFINE j == [job[r] EXCEPT !.own = OwnChange(store')]
  <2>1. Moves(r, "diffing", j)
    BY <1>7 DEF ExecuteUpdate, Goto, Moves
  <2>2. j \in Jobs(H) /\ j.before = job[r].before /\ j.own = OwnChange(store')
    BY <1>1, <1>5 DEF Jobs
  <2> HIDE DEF j
  <2>3. pc'[r] = "diffing" /\ job'[r] = j
    BY <2>1 DEF Moves, Inv, Types, Known
  <2>4. Honest(H, r)'
    <3>1. ASSUME r \notin overlapped'
          PROVE  j.own = <<(store' \ j.before) \cap Quads, (j.before \ store') \cap Quads>>
      <4>1. pc' \in [Requests -> Locations]
        BY <2>1 DEF Moves, Inv, Types, Locations
      <4>2. r \notin overlapped
        BY <2>3, <3>1, <4>1, OverlapStep DEF Inv
      <4>3. job[r].before = store
        BY <1>1, <1>4, <1>7, <4>2 DEF Honest
      <4> QED
        BY <2>2, <4>3 DEF OwnChange
    <3> QED
      BY <2>3, <3>1 DEF Honest
  <2>5. Pruning' /\ Count'
    BY <1>3, <1>4, <2>1, <2>2, LogShrinks DEF Locations, Recording
  <2> QED
    BY <1>3, <1>4, <2>1, <2>2, <2>4, <2>5, OutsideStep DEF Locations, Recording, Inv, Types
<1> QED
  BY <1>6, <1>7

\* The difference of what was read before and after is recorded, unless there is none.
LEMMA DiffStep ==
  ASSUME NEW H, Inv(H), NEW r \in Requests, DiffUpdate(r), Overlap
  PROVE  Inv(H)'
<1> DEFINE plus == store \ job[r].before
           minus == job[r].before \ store
<1>1. job[r] \in Jobs(H) /\ Honest(H, r)
  BY DEF Inv, Known, Differences
<1>2. job[r].own \in QuadDelta /\ job[r].before \in SUBSET (Quads \cup H)
  BY <1>1 DEF Jobs
<1>3. /\ pc[r] = "diffing"
      /\ UNCHANGED <<store, counter, write_lock, sent, crashes, unpruned>>
  BY DEF DiffUpdate, logVars
<1>4. CASE plus = {} /\ minus = {}
  <2>1. Moves(r, "idle", NoJob)
    BY <1>4 DEF DiffUpdate, Return, Goto, Moves
  <2>2. pc'[r] = "idle"
    BY <2>1 DEF Moves, Inv, Types
  <2>3. Honest(H, r)'
    BY <2>2 DEF Honest
  <2> QED
    BY <1>3, <2>1, <2>3, NoJobType, ReadStep DEF Locations, Recording
<1>5. CASE ~(plus = {} /\ minus = {})
  <2> DEFINE j == DeltaJob("update", plus, minus, job[r].own)
  <2>1. Moves(r, "record", j)
    BY <1>5 DEF DiffUpdate, ToRecord, Goto, Moves, DeltaJob
  <2>2. /\ j \in Jobs(H) /\ j.operation = "update" /\ j.own = job[r].own
        /\ j.inserted = plus /\ j.removed = minus
    <3>1. plus \in SUBSET (Quads \cup H) /\ minus \in SUBSET (Quads \cup H)
      BY <1>2 DEF Inv, Known
    <3>2. "update" \in Operations
      BY DEF Operations
    <3> QED
      BY <1>2, <3>1, <3>2, DeltaJobFacts
  <2> HIDE DEF j
  <2>3. pc'[r] = "record" /\ job'[r] = j
    BY <2>1 DEF Moves, Inv, Types, Known
  <2>4. Honest(H, r)'
    <3>1. ASSUME r \notin overlapped' PROVE SameDelta(j)
      <4>1. pc' \in [Requests -> Locations]
        BY <2>1 DEF Moves, Inv, Types, Locations
      <4>2. r \notin overlapped
        BY <2>3, <3>1, <4>1, OverlapStep DEF Inv
      <4> QED
        BY <1>1, <1>3, <2>2, <4>2 DEF Honest, SameDelta
    <3> QED
      BY <2>2, <2>3, <3>1 DEF Honest, Operations, SameDelta
  <2> QED
    BY <1>3, <2>1, <2>2, <2>4, ReadStep DEF Locations, Recording
<1> QED
  BY <1>4, <1>5

\* An undo takes the inverse of an entry that is in the log.
LEMMA UndoStep ==
  ASSUME NEW H, Inv(H), NEW r \in Requests, NEW entry \in Entries,
         UndoRequest(r, entry), Overlap
  PROVE  Inv(H)'
<1> DEFINE j == [NoJob EXCEPT !.inserted = entry.removed, !.removed = entry.inserted,
                              !.task = entry]
<1>1. entry \in H /\ entry \in Logged(H)
  BY DEF Inv, Known, Entries
<1>2. Moves(r, "undoing", j)
  BY DEF UndoRequest, Goto, Moves
<1>3. /\ pc[r] = "idle" /\ entry.undoable
      /\ UNCHANGED <<store, counter, write_lock, sent, crashes, unpruned>>
  BY DEF UndoRequest, Accepts, logVars
<1>4. /\ j \in Jobs(H) /\ j.task = entry
      /\ j.inserted = entry.removed /\ j.removed = entry.inserted
  <2>1. entry.inserted \in SUBSET (Quads \cup H) /\ entry.removed \in SUBSET (Quads \cup H)
    BY <1>1 DEF Logged
  <2> QED
    BY <1>1, <2>1, NoJobType DEF Jobs, NoJob
<1> HIDE DEF j
<1>5. pc'[r] = "undoing" /\ job'[r] = j
  BY <1>2 DEF Moves, Inv, Types, Known
<1>6. Honest(H, r)'
  BY <1>1, <1>3, <1>4, <1>5 DEF Honest
<1> QED
  BY <1>2, <1>3, <1>4, <1>6, ReadStep DEF Locations, Recording

\* The inverse is applied.  When it puts entries back that is noted.
LEMMA ApplyUndoStep ==
  ASSUME NEW H, Inv(H), NEW r \in Requests, ApplyUndo(r), Overlap
  PROVE  Inv(H)'
<1> DEFINE j == DeltaJob("undo", job[r].inserted, job[r].removed, OwnChange(store'))
<1>1. /\ job[r].inserted \in SUBSET (Quads \cup H)
      /\ job[r].removed \in SUBSET (Quads \cup H)
  BY DEF Inv, Known, Jobs
<1>2. /\ pc[r] = "undoing"
      /\ store' = (store \cup job[r].inserted) \ job[r].removed
      /\ UNCHANGED <<counter, write_lock, sent, crashes>>
  BY DEF ApplyUndo
<1>3. store' \subseteq Quads \cup H
  BY <1>1, <1>2 DEF Inv, Known
<1>4. Moves(r, "record", j)
  BY DEF ApplyUndo, ToRecord, Goto, Moves, DeltaJob
<1>5. j \in Jobs(H) /\ j.operation = "undo"
  <2>1. "undo" \in Operations /\ OwnChange(store') \in QuadDelta
    BY OwnChangeType DEF Operations
  <2> QED
    BY <1>1, <2>1, DeltaJobFacts
<1> HIDE DEF j
<1>6. pc'[r] = "record" /\ job'[r] = j
  BY <1>4 DEF Moves, Inv, Types, Known
<1>7. Honest(H, r)'
  BY <1>5, <1>6 DEF Honest, Operations
<1>8. unpruned' \in SUBSET {"left", "collected"}
  BY DEF ApplyUndo, Inv, Types
<1>9. Pruning' /\ Count'
  <2>1. CASE IdsIn(job[r].inserted) = {}
    <3>1. job[r].inserted \subseteq Quads /\ unpruned' = unpruned
      BY <2>1 DEF IdsIn, ApplyUndo
    <3>2. Entries' \subseteq Entries
      BY <1>2, <3>1 DEF Entries
    <3> QED
      BY <1>2, <1>4, <1>5, <3>1, <3>2, LogShrinks DEF Locations, Recording
  <2>2. CASE IdsIn(job[r].inserted) # {}
    <3>1. "left" \in unpruned'
      BY <2>2 DEF ApplyUndo
    <3>2. \A s \in Requests : pc'[s] \in Recording => pc'[s] = pc[s] /\ job'[s] = job[s]
      BY <1>4 DEF Moves, Inv, Types, Known, Recording
    <3>3. Pruning'
      BY <3>1, <3>2 DEF Inv, Pruning, Recording
    <3> QED
      BY <3>1, <3>3 DEF Count
  <2> QED
    BY <2>1, <2>2
<1> QED
  BY <1>2, <1>3, <1>4, <1>5, <1>7, <1>8, <1>9, OutsideStep DEF Locations, Recording

\* A purge reads the log.
LEMMA PurgeStep ==
  ASSUME NEW H, Inv(H), NEW r \in Requests, PurgeRequest(r), Overlap
  PROVE  Inv(H)'
<1> DEFINE j == [NoJob EXCEPT !.before = Entries]
<1>1. Moves(r, "purging", j)
  BY DEF PurgeRequest, Goto, Moves
<1>2. /\ pc[r] = "idle"
      /\ UNCHANGED <<store, counter, write_lock, sent, crashes, unpruned>>
  BY DEF PurgeRequest, Accepts, logVars
<1>3. j \in Jobs(H)
  <2>1. Entries \in SUBSET (Quads \cup H)
    BY DEF Inv, Known, Entries
  <2> QED
    BY <2>1, NoJobType DEF Jobs, NoJob
<1> HIDE DEF j
<1>4. pc'[r] = "purging"
  BY <1>1 DEF Moves, Inv, Types
<1>5. Honest(H, r)'
  BY <1>4 DEF Honest
<1> QED
  BY <1>1, <1>2, <1>3, <1>5, ReadStep DEF Locations, Recording

\* A request returns: it purged the log, or its storage transaction failed.
LEMMA ReturnStep ==
  ASSUME NEW H, Inv(H), NEW r \in Requests, FinishPurge(r) \/ RequestFails(r), Overlap
  PROVE  Inv(H)'
<1>1. Moves(r, "idle", NoJob)
  BY DEF FinishPurge, RequestFails, Return, Goto, Moves
<1>2. /\ pc[r] \in {"executing", "undoing", "purging"}
      /\ UNCHANGED <<counter, write_lock, sent, crashes, unpruned>>
      /\ store' \subseteq store
  BY DEF FinishPurge, RequestFails, logVars
<1>3. store' \subseteq Quads \cup H /\ Entries' \subseteq Entries
  BY <1>2 DEF Inv, Known, Entries
<1>4. pc'[r] = "idle"
  BY <1>1 DEF Moves, Inv, Types
<1>5. Honest(H, r)'
  BY <1>4 DEF Honest
<1>6. NoJob \in Jobs(H)
  BY NoJobType
<1> HIDE DEF NoJob
<1>7. Pruning' /\ Count'
  BY <1>1, <1>2, <1>3, <1>6, LogShrinks DEF Locations, Recording
<1> QED
  BY <1>1, <1>2, <1>3, <1>5, <1>6, <1>7, OutsideStep DEF Locations, Recording, Inv, Types

-----------------------------------------------------------------------------
(* Steps under the lock *)

\* Who holds the lock is alone in doing so.
LEMMA LockIsExclusive ==
  ASSUME NEW H, Inv(H), NEW r \in Requests, write_lock = None \/ pc[r] \in Recording,
         NEW s \in Requests, s # r
  PROVE  pc[s] \notin Recording
BY ConstantsAssumption DEF Inv, Locked

\* A step of the thread that takes or holds the lock moves that thread; no other one is
\* in record.
LEMMA MovesAlone ==
  ASSUME NEW H, Inv(H), NEW r \in Requests, write_lock = None \/ pc[r] \in Recording,
         NEW l, NEW j, Moves(r, l, j)
  PROVE  /\ pc'[r] = l /\ job'[r] = j
         /\ \A s \in Requests : s # r => pc'[s] = pc[s] /\ pc[s] \notin Recording
<1>1. pc'[r] = l /\ job'[r] = j /\ \A s \in Requests : s # r => pc'[s] = pc[s]
  BY DEF Moves, Inv, Types, Known
<1> QED
  BY <1>1, LockIsExclusive

\* A step that takes, keeps or gives back the lock preserves the invariant if the ids,
\* the events and the log stay in order.
LEMMA InsideStep ==
  ASSUME NEW H, Inv(H), NEW r \in Requests, NEW l \in Locations, NEW j \in Jobs(H),
         write_lock = None \/ pc[r] \in Recording,
         Moves(r, l, j), Overlap, store' = store \/ pc[r] # "idle",
         store' \subseteq Quads \cup H, Honest(H, r)',
         counter' \in Nat, counter' >= counter, crashes' = crashes,
         write_lock' \in Requests \cup {None}, sent' \in Seq(Nat),
         l \in Recording => write_lock' = r /\ j.id = counter' - 1 /\ j.id > 0,
         l = "writing" => \A e \in H : e.id < j.id,
         unpruned' \in SUBSET {"left", "collected"}, Events', Pruning', Count'
  PROVE  Inv(H)'
<1> USE DEF Moves
<1>1. pc' \in [Requests -> Locations] /\ job' \in [Requests -> Jobs(H)]
  BY DEF Inv, Types, Known
<1>2. pc'[r] = l /\ job'[r] = j /\ \A s \in Requests : s # r => pc'[s] \notin Recording
  BY LockIsExclusive DEF Inv, Types, Known
<1>3. overlapped' \in SUBSET Requests /\ Overlapping'
  BY <1>1, OverlapStep DEF Inv
<1>4. Types' /\ Known(H)'
  BY <1>1, <1>3 DEF Inv, Types, Known
<1>5. Numbered(H)'
  <2>1. \A e \in H : e.id \in 1..(counter' - 1)
    BY DEF Inv, Numbered, Types
  <2>2. \A s \in Requests : pc'[s] = "writing" => s = r /\ \A e \in H : e.id < job'[s].id
    BY <1>2 DEF Recording
  <2> QED
    BY <2>1, <2>2 DEF Inv, Numbered
<1>6. Locked'
  BY <1>2 DEF Locked
<1>7. \A s \in Requests : Honest(H, s)'
  BY OthersHonest
<1>8. Differences(H)'
  BY <1>7 DEF Inv, Differences
<1> QED
  BY <1>3, <1>4, <1>5, <1>6, <1>8 DEF Inv

\* Known entries with ids in a window of a given size are no more than that.
LEMMA Window ==
  ASSUME NEW H, Inv(H), NEW S \in SUBSET H, NEW n \in Nat,
         \A e \in S : e.id <= n /\ n < e.id + retain
  PROVE  Cardinality(S) <= retain
<1> DEFINE T == (n - retain + 1)..n
           f == [e \in S |-> e.id]
<1>1. f \in Injection(S, T)
  <2>1. \A e \in S : e.id \in Nat
    BY DEF Inv, Numbered
  <2>2. f \in [S -> T]
    BY <2>1, ConstantsAssumption
  <2>3. \A d, e \in S : f[d] = f[e] => d = e
    BY DEF Inv, Numbered
  <2> HIDE DEF f, T
  <2>4. IsInjective(f)
    BY <2>2, <2>3 DEF IsInjective
  <2> QED
    BY <2>2, <2>4 DEF Injection
<1>2. IsFiniteSet(T) /\ Cardinality(T) <= retain
  <2>1. n - retain + 1 \in Int /\ n \in Int
    BY ConstantsAssumption
  <2>2. IsFiniteSet(T) /\ Cardinality(T) = IF n - retain + 1 > n THEN 0 ELSE n - (n - retain + 1) + 1
    BY <2>1, FS_Interval
  <2> HIDE DEF T
  <2> QED
    BY <2>2, ConstantsAssumption
<1>3. Cardinality(S) <= Cardinality(T) /\ Cardinality(T) \in Nat /\ Cardinality(S) \in Nat
  BY <1>1, <1>2, FS_Injection, FS_CardinalityType
<1> QED
  BY <1>2, <1>3, ConstantsAssumption

\* The lock is taken and the next id given out.
LEMMA AcquireStep ==
  ASSUME NEW H, Inv(H), NEW r \in Requests, AcquireLock(r), Overlap
  PROVE  Inv(H)'
<1> DEFINE j == [job[r] EXCEPT !.id = counter]
<1>1. /\ pc[r] = "record" /\ write_lock = None
      /\ write_lock' = r /\ counter' = counter + 1
      /\ UNCHANGED <<store, sent, crashes, unpruned>>
  BY DEF AcquireLock
<1>2. Moves(r, "writing", j)
  BY DEF AcquireLock, Goto, Moves
<1>3. /\ j \in Jobs(H) /\ j.id = counter
      /\ j.operation = job[r].operation /\ j.sparql = job[r].sparql
      /\ j.inserted = job[r].inserted /\ j.removed = job[r].removed /\ j.own = job[r].own
  <2>1. job[r] \in Jobs(H) /\ counter \in Nat
    BY DEF Inv, Known, Types
  <2> QED
    BY <2>1 DEF Jobs
<1> HIDE DEF j
<1>4. /\ pc'[r] = "writing" /\ job'[r] = j
      /\ \A s \in Requests : s # r => pc'[s] = pc[s] /\ pc[s] \notin Recording
  BY <1>1, <1>2, MovesAlone
<1>5. Honest(H, r)'
  <2>1. pc' \in [Requests -> Locations]
    BY <1>2 DEF Moves, Inv, Types, Locations
  <2>2. r \notin overlapped' => r \notin overlapped
    BY <1>4, <2>1, OverlapStep DEF Inv
  <2>3. Honest(H, r)
    BY DEF Inv, Differences
  <2> QED
    BY <1>1, <1>3, <1>4, <2>2, <2>3 DEF Honest, SameDelta
<1>6. Events'
  <2>1. \A i \in 1..Len(sent) : sent[i] \in 1..(counter - 1) /\ sent[i] < counter
    BY DEF Inv, Events, Types
  <2>2. EventsInOrder'
    BY <1>1 DEF Inv, Events, EventsInOrder
  <2>3. \A i \in 1..Len(sent) : sent[i] \in 1..(counter' - 1)
    BY <1>1, <2>1 DEF Inv, Types
  <2> QED
    BY <1>1, <1>3, <1>4, <2>1, <2>2, <2>3 DEF Events
<1>7. Pruning'
  BY <1>1, <1>4 DEF Pruning, Recording
<1>8. Count'
  <2>1. \A s \in Requests : /\ pc[s] \notin {"pruning", "deleting"}
                            /\ pc'[s] \notin {"pruning", "deleting"}
    BY <1>1, <1>4 DEF Recording
  <2>2. Entries' = Entries
    BY <1>1 DEF Entries
  <2> QED
    BY <1>1, <2>1, <2>2 DEF Inv, Count
<1>9. \A e \in H : e.id < j.id
  BY <1>3 DEF Inv, Numbered, Types
<1>10. /\ counter' \in Nat /\ counter' >= counter /\ j.id = counter' - 1 /\ j.id > 0
  <2>1. counter \in Nat /\ counter > 0
    BY DEF Inv, Types
  <2> QED
    BY <1>1, <1>3, <2>1
<1> QED
  BY <1>1, <1>2, <1>3, <1>5, <1>6, <1>7, <1>8, <1>9, <1>10, InsideStep
  DEF Locations, Inv, Types, Known

\* The events are in order while nothing is sent and no id is given out.
LEMMA EventsKept ==
  ASSUME NEW H, Inv(H), NEW r \in Requests, NEW l, NEW j, Moves(r, l, j), j.id = job[r].id,
         pc[r] \in Recording, UNCHANGED <<counter, sent>>
  PROVE  Events'
<1>1. \A s \in Requests : pc'[s] \in Recording => pc[s] \in Recording /\ job'[s].id = job[s].id
  BY DEF Moves, Inv, Types, Known
<1> QED
  BY <1>1 DEF Inv, Events, EventsInOrder

\* prune looks for the old entries: if there are none, the log is in the window.
LEMMA CollectStep ==
  ASSUME NEW H, Inv(H), NEW r \in Requests, CollectOld(r), Overlap
  PROVE  Inv(H)'
<1> DEFINE doomed == OldIds(r)
           l == IF doomed = {} THEN "sending" ELSE "deleting"
           j == [job[r] EXCEPT !.doomed = doomed]
<1>1. /\ pc[r] = "pruning"
      /\ unpruned' = IF doomed = {} \/ unpruned = {} THEN {} ELSE {"collected"}
      /\ UNCHANGED <<store, counter, write_lock, sent, crashes>>
  BY DEF CollectOld
<1>2. Moves(r, l, j)
  BY DEF CollectOld, Goto, Moves
<1>3. \A e \in Entries : e \in H /\ e.id \in Nat
  BY DEF Inv, Known, Numbered, Entries
<1>4. /\ job[r] \in Jobs(H) /\ job[r].id \in Nat /\ retain > 0 /\ retain \in Nat
      /\ write_lock = r /\ job[r].id = counter - 1 /\ job[r].id > 0
  <2>1. job[r] \in Jobs(H) /\ job[r].id \in Nat
    BY DEF Inv, Known, Jobs
  <2> QED
    BY <1>1, <2>1, ConstantsAssumption DEF Inv, Locked, Pruning, Recording
<1>5. /\ doomed \in SUBSET Nat
      /\ \A id \in doomed : id + retain <= job[r].id
      /\ \A e \in Entries : e.id + retain <= job[r].id => e.id \in doomed
  BY <1>3, <1>4 DEF OldIds, IdsIn, Entries
<1> HIDE DEF doomed
<1>6. j \in Jobs(H) /\ j.id = job[r].id /\ j.doomed = doomed
  BY <1>4, <1>5 DEF Jobs
<1> HIDE DEF j
<1>7. /\ pc'[r] = l /\ job'[r] = j
      /\ \A s \in Requests : s # r => pc'[s] = pc[s] /\ pc[s] \notin Recording
  BY <1>1, <1>2, MovesAlone DEF Recording
<1>8. Honest(H, r)'
  BY <1>7 DEF Honest
<1>9. Events'
  BY <1>1, <1>2, <1>6, EventsKept DEF Recording
<1>10. Entries' = Entries
  BY <1>1 DEF Entries
<1>11. Pruning'
  <2>1. \A s \in Requests : pc'[s] \in {"pruning", "deleting"} => s = r
    BY <1>7 DEF Recording
  <2> QED
    BY <1>4, <1>5, <1>6, <1>7, <1>10, <2>1 DEF Pruning
<1>12. Count'
  <2>1. CASE doomed = {}
    <3>1. \A e \in Entries : e.id <= job[r].id /\ job[r].id < e.id + retain
      BY <1>3, <1>4, <1>5, <2>1 DEF Inv, Numbered
    <3>2. Cardinality(Entries) <= retain
      BY <1>3, <1>4, <3>1, Window
    <3>3. Cardinality(Entries) \in Nat
      BY <1>3, FS_Subset, FS_CardinalityType DEF Inv, Known
    <3> QED
      BY <1>4, <1>10, <3>2, <3>3 DEF Count
  <2>2. CASE doomed # {}
    <3>1. pc'[r] \in {"pruning", "deleting"} /\ pc[r] \in {"pruning", "deleting"}
      BY <1>1, <1>7, <2>2
    <3>2. unpruned' = {} => unpruned = {}
      BY <1>1, <2>2
    <3> QED
      BY <1>10, <3>1, <3>2 DEF Inv, Count
  <2> QED
    BY <2>1, <2>2
<1>13. l \in Locations /\ l # "writing" /\ unpruned' \in SUBSET {"left", "collected"}
  BY <1>1 DEF Locations
<1> HIDE DEF l
<1>14. /\ pc[r] \in Recording /\ pc[r] # "idle" /\ store' \subseteq Quads \cup H
       /\ counter' \in Nat /\ counter' >= counter /\ crashes' = crashes /\ sent' \in Seq(Nat)
       /\ write_lock' \in Requests \cup {None}
       /\ write_lock' = r /\ j.id = counter' - 1 /\ j.id > 0
  BY <1>1, <1>4, <1>6 DEF Inv, Types, Known, Recording
<1> QED
  BY <1>2, <1>6, <1>8, <1>9, <1>11, <1>12, <1>13, <1>14, InsideStep

\* prune deletes what it collected: unless an entry came back since, none is left that is
\* out of the window.
LEMMA DeleteStep ==
  ASSUME NEW H, Inv(H), NEW r \in Requests, DeleteOld(r), Overlap
  PROVE  Inv(H)'
<1>1. /\ pc[r] = "deleting"
      /\ store' = store \ {e \in Entries : e.id \in job[r].doomed}
      /\ unpruned' = unpruned \ {"collected"}
      /\ UNCHANGED <<counter, write_lock, sent, crashes>>
  BY DEF DeleteOld
<1>2. Moves(r, "sending", job[r])
  BY DEF DeleteOld, Goto, Moves, Inv, Known
<1>3. \A e \in Entries : e \in H /\ e.id \in Nat
  BY DEF Inv, Known, Numbered, Entries
<1>4. /\ job[r] \in Jobs(H) /\ job[r].id \in Nat /\ retain > 0 /\ retain \in Nat
      /\ write_lock = r /\ job[r].id = counter - 1 /\ job[r].id > 0
  <2>1. job[r] \in Jobs(H) /\ job[r].id \in Nat
    BY DEF Inv, Known, Jobs
  <2> QED
    BY <1>1, <2>1, ConstantsAssumption DEF Inv, Locked, Pruning, Recording
<1>5. /\ pc'[r] = "sending" /\ job'[r] = job[r]
      /\ \A s \in Requests : s # r => pc'[s] = pc[s] /\ pc[s] \notin Recording
  BY <1>1, <1>2, MovesAlone DEF Recording
<1>6. Honest(H, r)'
  BY <1>5 DEF Honest
<1>7. Events'
  BY <1>1, <1>2, EventsKept DEF Recording
<1>8. Pruning'
  BY <1>5 DEF Pruning, Recording
<1>9. Entries' = {e \in Entries : e.id \notin job[r].doomed}
  BY <1>1 DEF Entries
<1>10. Count'
  <2> SUFFICES ASSUME unpruned' = {} PROVE Cardinality(Entries') <= retain
    <3>1. IsFiniteSet(Entries')
      BY <1>3, <1>9, FS_Subset DEF Inv, Known
    <3>2. Cardinality(Entries') \in Nat
      BY <3>1, FS_CardinalityType
    <3> QED
      BY <1>4, <3>2 DEF Count
  <2>1. "left" \notin unpruned
    BY <1>1
  <2>2. \A e \in Entries' : e.id <= job[r].id /\ job[r].id < e.id + retain
    BY <1>1, <1>3, <1>4, <1>9, <2>1 DEF Inv, Numbered, Pruning
  <2>3. Entries' \in SUBSET H
    BY <1>3, <1>9
  <2> QED
    BY <1>4, <2>2, <2>3, Window
<1>11. store' \subseteq Quads \cup H
  BY <1>1 DEF Inv, Known
<1>12. unpruned' \in SUBSET {"left", "collected"}
  BY <1>1 DEF Inv, Types
<1>13. /\ counter' \in Nat /\ counter' >= counter /\ sent' \in Seq(Nat)
       /\ write_lock' \in Requests \cup {None} /\ write_lock' = r /\ job[r].id = counter' - 1
  BY <1>1, <1>4 DEF Inv, Types
<1>14. "sending" \in Locations /\ pc[r] \in Recording /\ pc[r] # "idle"
  BY <1>1 DEF Recording, Locations
<1> QED
  BY <1>1, <1>2, <1>4, <1>6, <1>7, <1>8, <1>10, <1>11, <1>12, <1>13, <1>14, InsideStep

\* The event goes out, after all those before it, and the lock is given back.
LEMMA BroadcastStep ==
  ASSUME NEW H, Inv(H), NEW r \in Requests, Broadcast(r), Overlap
  PROVE  Inv(H)'
<1>1. /\ pc[r] = "sending" /\ write_lock' = None
      /\ sent' = Append(sent, job[r].id)
      /\ UNCHANGED <<store, counter, crashes, unpruned>>
  BY DEF Broadcast
<1>2. Moves(r, "idle", NoJob)
  BY DEF Broadcast, Return, Goto, Moves
<1>3. NoJob \in Jobs(H)
  BY NoJobType
<1> HIDE DEF NoJob
<1>4. /\ job[r].id \in Nat /\ job[r].id = counter - 1 /\ job[r].id > 0
      /\ counter \in Nat /\ sent \in Seq(Nat)
  <2>1. job[r].id \in Nat /\ counter \in Nat /\ sent \in Seq(Nat)
    BY DEF Inv, Known, Jobs, Types
  <2> QED
    BY <1>1, <2>1 DEF Inv, Locked, Recording
<1>5. /\ pc'[r] = "idle"
      /\ \A s \in Requests : s # r => pc'[s] = pc[s] /\ pc[s] \notin Recording
  BY <1>1, <1>2, MovesAlone DEF Recording
<1>6. Honest(H, r)'
  BY <1>5 DEF Honest
<1>7. Events'
  <2>1. /\ Len(sent') = Len(sent) + 1 /\ Len(sent) \in Nat
        /\ \A i \in 1..Len(sent) : sent'[i] = sent[i]
        /\ sent'[Len(sent) + 1] = job[r].id
    BY <1>1, <1>4
  <2>2. \A i \in 1..Len(sent) : sent[i] < job[r].id /\ sent[i] \in 1..(counter - 1)
    BY <1>1 DEF Inv, Events, Recording
  <2>3. \A i, k \in 1..Len(sent) : i < k => sent[i] < sent[k]
    BY DEF Inv, Events, EventsInOrder
  <2>4. EventsInOrder'
    <3> SUFFICES ASSUME NEW i \in 1..Len(sent'), NEW k \in 1..Len(sent'), i < k
                 PROVE  sent'[i] < sent'[k]
      BY DEF EventsInOrder
    <3>1. i \in 1..Len(sent)
      BY <2>1
    <3>2. CASE k = Len(sent) + 1
      BY <2>1, <2>2, <3>1, <3>2
    <3>3. CASE k \in 1..Len(sent)
      BY <2>1, <2>3, <3>1, <3>3
    <3> QED
      BY <2>1, <3>2, <3>3
  <2>5. \A i \in 1..Len(sent') : sent'[i] \in 1..(counter' - 1)
    <3> TAKE i \in 1..Len(sent')
    <3>1. CASE i = Len(sent) + 1
      BY <1>1, <1>4, <2>1, <3>1
    <3>2. CASE i \in 1..Len(sent)
      BY <1>1, <2>1, <2>2, <3>2
    <3> QED
      BY <2>1, <3>1, <3>2
  <2>6. \A s \in Requests : pc'[s] \notin Recording
    BY <1>5 DEF Recording
  <2> QED
    BY <2>4, <2>5, <2>6 DEF Events
<1>8. \A s \in Requests : /\ pc[s] \notin {"pruning", "deleting"}
                          /\ pc'[s] \notin {"pruning", "deleting"}
  BY <1>1, <1>5 DEF Recording
<1>9. Pruning'
  BY <1>8 DEF Pruning
<1>10. Count'
  <2>1. Entries' = Entries
    BY <1>1 DEF Entries
  <2> QED
    BY <1>1, <1>8, <2>1 DEF Inv, Count
<1>11. sent' \in Seq(Nat)
  BY <1>1, <1>4
<1>12. /\ counter' \in Nat /\ counter' >= counter /\ write_lock' \in Requests \cup {None}
       /\ store' \subseteq Quads \cup H /\ unpruned' \in SUBSET {"left", "collected"}
  BY <1>1, <1>4 DEF Inv, Types, Known
<1>13. "idle" \in Locations /\ "idle" \notin Recording /\ pc[r] \in Recording
  BY <1>1 DEF Recording, Locations
<1> QED
  BY <1>1, <1>2, <1>3, <1>6, <1>7, <1>9, <1>10, <1>11, <1>12, <1>13, InsideStep

\* A failure gives the lock back, and notes when a prune was cut short.
LEMMA RecordFailsStep ==
  ASSUME NEW H, Inv(H), NEW r \in Requests, RecordFails(r), Overlap
  PROVE  Inv(H)'
<1>1. /\ pc[r] \in {"writing", "pruning", "deleting"} /\ write_lock' = None
      /\ unpruned' = IF pc[r] = "writing" THEN unpruned ELSE unpruned \cup {"left"}
      /\ UNCHANGED <<store, counter, sent, crashes>>
  BY DEF RecordFails
<1>2. Moves(r, "idle", NoJob)
  BY DEF RecordFails, Return, Goto, Moves
<1>3. NoJob \in Jobs(H)
  BY NoJobType
<1> HIDE DEF NoJob
<1>4. /\ pc'[r] = "idle"
      /\ \A s \in Requests : s # r => pc'[s] = pc[s] /\ pc[s] \notin Recording
  BY <1>1, <1>2, MovesAlone DEF Recording
<1>5. Honest(H, r)'
  BY <1>4 DEF Honest
<1>6. \A s \in Requests : pc'[s] \notin Recording
  BY <1>4 DEF Recording
<1>7. Events'
  BY <1>1, <1>6 DEF Inv, Events, EventsInOrder
<1>8. Pruning'
  BY <1>6 DEF Pruning, Recording
<1>9. Count'
  <2>1. Entries' = Entries
    BY <1>1 DEF Entries
  <2>2. ASSUME unpruned' = {} PROVE unpruned = {} /\ pc[r] = "writing"
    BY <1>1, <2>2
  <2>3. ASSUME pc[r] = "writing"
        PROVE  \A s \in Requests : /\ pc[s] \notin {"pruning", "deleting"}
                                   /\ pc'[s] \notin {"pruning", "deleting"}
    BY <1>4, <1>6, <2>3 DEF Recording
  <2> QED
    BY <2>1, <2>2, <2>3 DEF Inv, Count
<1>10. /\ counter' \in Nat /\ counter' >= counter /\ write_lock' \in Requests \cup {None}
       /\ store' \subseteq Quads \cup H /\ unpruned' \in SUBSET {"left", "collected"}
       /\ sent' \in Seq(Nat)
  BY <1>1 DEF Inv, Types, Known
<1>11. "idle" \in Locations /\ "idle" \notin Recording /\ pc[r] \in Recording
  BY <1>1 DEF Recording, Locations
<1> QED
  BY <1>1, <1>2, <1>3, <1>5, <1>7, <1>8, <1>9, <1>10, <1>11, InsideStep

\* What a request knows it still knows when there is one entry more.
LEMMA KnowsMore ==
  ASSUME NEW H, NEW x
  PROVE  /\ Logged(H) \subseteq Logged(H \cup {x})
         /\ Jobs(H) \subseteq Jobs(H \cup {x})
         /\ \A r \in Requests : Honest(H, r)' => Honest(H \cup {x}, r)'
<1>1. SUBSET (Quads \cup H) \subseteq SUBSET (Quads \cup (H \cup {x}))
  OBVIOUS
<1>2. Logged(H) \subseteq Logged(H \cup {x})
  BY <1>1 DEF Logged
<1>3. Jobs(H) \subseteq Jobs(H \cup {x})
  BY <1>1 DEF Jobs
<1> QED
  BY <1>2, <1>3 DEF Honest

\* The entry of a job is well formed, has the job's deltas, and is undoable only if they
\* are the difference of an update or the quads of a body.
LEMMA EntryFacts ==
  ASSUME NEW H, NEW j \in Jobs(H), j.operation \in Operations, NEW alone \in BOOLEAN
  PROVE  /\ EntryOf(j, alone) \in Logged(H)
         /\ EntryOf(j, alone).id = j.id
         /\ EntryOf(j, alone).operation = j.operation
         /\ EntryOf(j, alone).inserted = j.inserted
         /\ EntryOf(j, alone).removed = j.removed
         /\ EntryOf(j, alone).own = j.own
         /\ EntryOf(j, alone).alone = alone
         /\ EntryOf(j, alone).undoable => ~j.sparql
<1>1. /\ j.id \in Nat /\ j.own \in QuadDelta /\ j.sparql \in BOOLEAN
      /\ j.inserted \in SUBSET (Quads \cup H) /\ j.removed \in SUBSET (Quads \cup H)
  BY DEF Jobs
<1>2. EntryOf(j, alone).undoable =
        (~j.sparql /\ Cardinality(j.inserted) + Cardinality(j.removed) <= MAX_UNDOABLE_QUADS)
  BY DEF EntryOf
<1>3. EntryOf(j, alone) \in Logged(H)
  <2> DEFINE small == Cardinality(j.inserted) + Cardinality(j.removed) <= MAX_UNDOABLE_QUADS
  <2>1. (~j.sparql /\ small) \in BOOLEAN
    OBVIOUS
  <2> QED
    BY <1>1, <2>1 DEF EntryOf, Logged
<1> QED
  BY <1>2, <1>3 DEF EntryOf

\* The entry that is written is new: its id was never given to another.
LEMMA WriteStep ==
  ASSUME NEW H, Inv(H), NEW r \in Requests, WriteEntry(r), Overlap
  PROVE  \E G : Inv(G)'
<1> DEFINE l == IF retain > 0 THEN "pruning" ELSE "sending"
<1>1. PICK x : /\ x \in Logged(H) /\ store' = store \cup {x}
               /\ x.id = job[r].id /\ x.operation = job[r].operation /\ x.own = job[r].own
               /\ x.inserted = job[r].inserted /\ x.removed = job[r].removed
               /\ x.alone => r \notin overlapped
               /\ x.undoable => ~job[r].sparql
  <2>1. job[r] \in Jobs(H) /\ job[r].operation \in Operations
    BY DEF Inv, Known, Differences, Honest, WriteEntry
  <2>2. CASE r \in overlapped
    <3>1. store' = store \cup {EntryOf(job[r], FALSE)}
      BY <2>2 DEF WriteEntry, EntryOf
    <3> QED
      BY <2>1, <2>2, <3>1, EntryFacts
  <2>3. CASE r \notin overlapped
    <3>1. store' = store \cup {EntryOf(job[r], TRUE)}
      BY <2>3 DEF WriteEntry, EntryOf
    <3> QED
      BY <2>1, <2>3, <3>1, EntryFacts
  <2> QED
    BY <2>2, <2>3
<1> DEFINE G == H \cup {x}
<1>2. /\ pc[r] = "writing" /\ UNCHANGED <<counter, write_lock, sent, unpruned, job, crashes>>
  BY DEF WriteEntry, logVars
<1>3. Moves(r, l, job[r]) /\ l \in Recording /\ l \in Locations /\ l # "writing"
  BY DEF WriteEntry, Goto, Moves, Inv, Known, Recording, Locations
<1> HIDE DEF l
<1>4. /\ pc'[r] = l /\ job[r] \in Jobs(H)
      /\ \A s \in Requests : s # r => pc'[s] = pc[s] /\ pc[s] \notin Recording
  BY <1>2, <1>3, MovesAlone DEF Inv, Known, Recording
<1>5. pc' \in [Requests -> Locations] /\ overlapped' \in SUBSET Requests /\ Overlapping'
  <2>1. pc' \in [Requests -> Locations]
    BY <1>3 DEF Moves, Inv, Types
  <2> QED
    BY <2>1, OverlapStep DEF Inv
<1>6. Types'
  BY <1>2, <1>5 DEF Inv, Types
<1>7. Known(G)'
  <2>1. IsFiniteSet(G)
    BY FS_AddElement DEF Inv, Known
  <2>2. G \subseteq Logged(G)
    BY <1>1, KnowsMore DEF Inv, Known
  <2>3. store' \subseteq Quads \cup G
    BY <1>1 DEF Inv, Known
  <2>4. job' \in [Requests -> Jobs(G)]
    BY <1>2, KnowsMore DEF Inv, Known
  <2> QED
    BY <2>1, <2>2, <2>3, <2>4 DEF Known
<1>8. /\ job[r].id \in Nat /\ job[r].id = counter - 1 /\ job[r].id > 0 /\ counter \in Nat
      /\ write_lock = r
  <2>1. job[r].id \in Nat /\ counter \in Nat
    BY DEF Inv, Known, Jobs, Types
  <2> QED
    BY <1>2, <2>1 DEF Inv, Locked, Recording
<1>9. \A e \in H : e.id < x.id
  BY <1>1, <1>2 DEF Inv, Numbered
<1>10. Numbered(G)'
  <2>1. \A e \in G : e.id \in 1..(counter' - 1)
    <3>1. x.id \in 1..(counter - 1) /\ counter' = counter
      BY <1>1, <1>2, <1>8
    <3> QED
      BY <3>1 DEF Inv, Numbered
  <2>2. \A e, f \in G : e.id = f.id => e = f
    BY <1>1, <1>8, <1>9 DEF Inv, Numbered
  <2>3. \A e \in G : \A f \in (e.inserted \cup e.removed) \ Quads : f.id < e.id
    <3>1. (x.inserted \cup x.removed) \ Quads \subseteq H
      BY <1>1 DEF Logged
    <3> QED
      BY <1>9, <3>1 DEF Inv, Numbered
  <2>4. \A s \in Requests : pc'[s] # "writing"
    BY <1>3, <1>4 DEF Recording
  <2> QED
    BY <2>1, <2>2, <2>3, <2>4 DEF Numbered
<1>11. Locked'
  BY <1>2, <1>4, <1>8 DEF Locked
<1>12. Events'
  BY <1>2, <1>3, EventsKept DEF Recording
<1>13. \A s \in Requests : /\ pc'[s] \in {"pruning", "deleting"} => s = r /\ pc'[s] = "pruning"
                           /\ pc[s] \notin {"pruning", "deleting"}
  BY <1>2, <1>4 DEF Recording, l
<1>14. Pruning'
  BY <1>4, <1>13 DEF Pruning, l
<1>15. Count'
  <2> SUFFICES ASSUME retain > 0, unpruned' = {} PROVE Cardinality(Entries') <= retain + 1
    BY <1>4 DEF Count, l
  <2>1. IsFiniteSet(Entries)
    BY FS_Subset DEF Inv, Known, Entries
  <2>2. Cardinality(Entries) <= retain
    BY <1>2, <1>13, ConstantsAssumption DEF Inv, Count
  <2>3. Entries' \in SUBSET (Entries \cup {x})
    BY <1>1 DEF Entries
  <2>4. /\ IsFiniteSet(Entries \cup {x}) /\ Cardinality(Entries) \in Nat
        /\ Cardinality(Entries \cup {x}) <= Cardinality(Entries) + 1
    BY <2>1, FS_AddElement, FS_CardinalityType
  <2>5. /\ Cardinality(Entries') <= Cardinality(Entries \cup {x})
        /\ Cardinality(Entries') \in Nat /\ Cardinality(Entries \cup {x}) \in Nat
    BY <2>3, <2>4, FS_Subset, FS_CardinalityType
  <2> QED
    BY <2>2, <2>4, <2>5, ConstantsAssumption
<1>16. Differences(G)'
  <2>1. x.operation = "update" /\ x.alone /\ x.undoable => SameDelta(x)
    <3>1. Honest(H, r)
      BY DEF Inv, Differences
    <3> QED
      BY <1>1, <1>2, <3>1 DEF Honest, SameDelta
  <2>2. \A s \in Requests : s # r => Honest(H, s)'
    BY <1>2, <1>3, <1>4, OthersHonest
  <2>3. Honest(H, r)'
    BY <1>3, <1>4 DEF Honest, l
  <2>4. \A s \in Requests : Honest(G, s)'
    BY <2>2, <2>3, KnowsMore
  <2> QED
    BY <2>1, <2>4 DEF Inv, Differences
<1> QED
  BY <1>5, <1>6, <1>7, <1>10, <1>11, <1>12, <1>14, <1>15, <1>16 DEF Inv

-----------------------------------------------------------------------------
(* The restart *)

\* Numbers that do not exceed a bound have a greatest one.
LEMMA Greatest ==
  ASSUME NEW S \in SUBSET Nat, S # {}, NEW b \in Nat, \A n \in S : n <= b
  PROVE  Max(S) \in S /\ \A n \in S : n <= Max(S)
<1> DEFINE T == {k \in Nat : b - k \in S}
           R == OpToRel(<, Nat)
<1>1. IsWellFoundedOn(R, Nat)
  BY NatLessThanWellFounded
<1>2. \A m, n \in Nat : <<m, n>> \in R <=> m < n
  BY DEF OpToRel
<1>3. T \in SUBSET Nat /\ \A n \in S : b - n \in T
  OBVIOUS
<1> HIDE DEF R
<1>4. PICK k \in T : \A m \in T : <<m, k>> \notin R
  BY <1>1, <1>3, WFMin
<1>5. \A n \in S : n <= b - k
  <2> TAKE n \in S
  <2>1. b - n \in T /\ b - n \in Nat /\ k \in Nat
    BY <1>3
  <2>2. ~(b - n < k)
    BY <1>2, <1>4, <2>1
  <2> QED
    BY <2>1, <2>2
<1>6. \E x \in S : \A y \in S : x >= y
  BY <1>4, <1>5
<1> QED
  BY <1>6 DEF Max

\* The counter restarts above every id in the store.
LEMMA CounterRestarts ==
  ASSUME NEW H, Inv(H)
  PROVE  /\ init_counter \in Nat \ {0} /\ init_counter <= counter
         /\ \A e \in Entries : e.id < init_counter
<1> DEFINE S == IdsIn(store) \cup {0}
<1>1. counter \in Nat \ {0} /\ counter - 1 \in Nat
  BY DEF Inv, Types
<1>2. \A e \in Entries : e.id \in 1..(counter - 1) /\ e.id \in S
  BY DEF Inv, Known, Numbered, Entries, IdsIn
<1>3. S \in SUBSET Nat /\ S # {} /\ \A n \in S : n <= counter - 1
  BY <1>1, <1>2 DEF IdsIn, Entries
<1> HIDE DEF S
<1>4. Max(S) \in S /\ \A n \in S : n <= Max(S)
  BY <1>1, <1>3, Greatest
<1>5. init_counter = Max(S) + 1
  BY DEF init_counter, S
<1>6. Max(S) \in Nat /\ Max(S) <= counter - 1
  BY <1>3, <1>4
<1>7. \A e \in Entries : e.id <= Max(S) /\ e.id \in Nat
  BY <1>2, <1>4
<1> QED
  BY <1>1, <1>5, <1>6, <1>7

\* Those of the known entries that the restarted server may still meet are older than the
\* newest entry in the store; an id that is given out again is none of theirs.
LEMMA CrashStep ==
  ASSUME NEW H, Inv(H), Crash, overlapped' = {}
  PROVE  \E G : Inv(G)'
<1>1. /\ init_counter \in Nat \ {0} /\ init_counter <= counter
      /\ \A e \in Entries : e.id < init_counter
  BY CounterRestarts
<1> HIDE DEF init_counter
<1>2. PICK G : G = {e \in H : e.id < init_counter}
  OBVIOUS
<1>3. /\ crashes < MaxCrashes /\ crashes' = crashes + 1
      /\ pc' = [r \in Requests |-> "idle"] /\ job' = [r \in Requests |-> NoJob]
      /\ write_lock' = None /\ sent' = <<>> /\ counter' = init_counter /\ store' = store
  BY DEF Crash
<1>4. /\ \A r \in Requests : pc'[r] = "idle"
      /\ unpruned' \in SUBSET {"left", "collected"}
      /\ unpruned' = {} => unpruned = {} /\ \A r \in Requests : pc[r] \notin {"pruning", "deleting"}
  BY <1>3 DEF Crash, Inv, Types
<1>5. Types'
  BY <1>1, <1>3, <1>4, ConstantsAssumption DEF Inv, Types, Locations
<1>6. G \subseteq H /\ \A e \in H : (e.inserted \cup e.removed) \ Quads \subseteq H
  BY <1>2 DEF Inv, Known, Logged
<1>7. \A e \in G : \A f \in (e.inserted \cup e.removed) \ Quads : f \in G
  <2> SUFFICES ASSUME NEW e \in G, NEW f \in (e.inserted \cup e.removed) \ Quads PROVE f \in G
    OBVIOUS
  <2>1. f \in H /\ e \in H /\ f.id < e.id /\ e.id < init_counter
    BY <1>2, <1>6 DEF Inv, Numbered
  <2>2. f.id \in Nat /\ e.id \in Nat /\ init_counter \in Nat
    BY <1>1, <2>1 DEF Inv, Numbered
  <2> QED
    BY <1>2, <2>1, <2>2
<1>8. Known(G)'
  <2>1. IsFiniteSet(G)
    BY <1>6, FS_Subset DEF Inv, Known
  <2>2. G \subseteq Logged(G)
    <3> SUFFICES ASSUME NEW e \in G PROVE e \in Logged(G)
      OBVIOUS
    <3>1. e \in Logged(H) /\ e.inserted \subseteq Quads \cup G /\ e.removed \subseteq Quads \cup G
      BY <1>6, <1>7 DEF Inv, Known, Logged
    <3> QED
      BY <3>1 DEF Logged
  <2>3. store' \subseteq Quads \cup G
    BY <1>2, <1>1, <1>3 DEF Inv, Known, Entries
  <2>4. job' \in [Requests -> Jobs(G)]
    BY <1>3, NoJobType
  <2> QED
    BY <2>1, <2>2, <2>3, <2>4 DEF Known
<1>9. Numbered(G)'
  <2>1. \A e \in G : e.id \in 1..(counter' - 1)
    <3> SUFFICES ASSUME NEW e \in G PROVE e.id \in 1..(counter' - 1)
      OBVIOUS
    <3>1. e \in H /\ e.id < init_counter
      BY <1>2
    <3>2. e.id \in Nat /\ e.id >= 1
      BY <3>1 DEF Inv, Numbered
    <3> QED BY <1>1, <1>3, <3>1, <3>2
  <2> QED
    BY <1>4, <1>6, <2>1 DEF Inv, Numbered
<1>10. Locked' /\ Events' /\ Pruning' /\ Overlapping'
  <2>1. Locked' /\ Pruning' /\ Overlapping'
    BY <1>4 DEF Locked, Pruning, Overlapping, Recording
  <2>2. Len(sent') = 0 /\ 1..0 = {}
    BY <1>3
  <2> QED
    BY <1>4, <2>1, <2>2 DEF Events, EventsInOrder, Recording
<1>11. Count'
  <2>1. Entries' = Entries
    BY <1>3 DEF Entries
  <2> QED
    BY <1>4, <2>1 DEF Inv, Count
<1>12. Differences(G)'
  BY <1>4, <1>6 DEF Inv, Differences, Honest
<1> QED
  BY <1>5, <1>8, <1>9, <1>10, <1>11, <1>12 DEF Inv

-----------------------------------------------------------------------------
(* The theorems *)

\* Nothing is known, sent or under way in the initial state.
LEMMA InitInv == Init => Inv({})
<1> SUFFICES ASSUME Init PROVE Inv({})
  OBVIOUS
<1>1. \A r \in Requests : pc[r] = "idle"
  BY DEF Init
<1>2. Types
  BY ConstantsAssumption DEF Init, Types, Locations
<1>3. Known({})
  BY FS_EmptySet, NoJobType DEF Init, Known
<1>4. Numbered({}) /\ Locked /\ Pruning /\ Overlapping
  BY <1>1 DEF Numbered, Locked, Pruning, Overlapping, Recording
<1>5. Events
  BY <1>1 DEF Init, Events, EventsInOrder, Recording
<1>6. Count
  <2>1. Entries = {}
    BY DEF Init, Entries
  <2> QED
    BY <1>1, <2>1, FS_EmptySet, ConstantsAssumption DEF Count
<1>7. Differences({})
  BY <1>1 DEF Differences, Honest
<1> QED
  BY <1>2, <1>3, <1>4, <1>5, <1>6, <1>7 DEF Inv

\* Every step preserves the invariant, for some set of known entries.
LEMMA NextInv ==
  ASSUME NEW H, Inv(H), [Next]_vars
  PROVE  \E G : Inv(G)'
<1>1. ASSUME NEW r \in Requests, Accept(r) PROVE \E G : Inv(G)'
  BY <1>1, StoreStep, CommitStep, UpdateStep, UndoStep, PurgeStep DEF Accept
<1>2. ASSUME NEW r \in Requests, Proceed(r), ~record(r) PROVE \E G : Inv(G)'
  BY <1>2, ExecuteStep, DiffStep, ApplyUndoStep, ReturnStep DEF Proceed
<1>3. ASSUME NEW r \in Requests, record(r), Overlap PROVE \E G : Inv(G)'
  BY <1>3, AcquireStep, WriteStep, CollectStep, DeleteStep, BroadcastStep, RecordFailsStep
  DEF record
<1>4. CASE Crash /\ overlapped' = {}
  BY <1>4, CrashStep
<1>5. CASE UNCHANGED vars
  <2>1. Inv(H)'
    BY <1>5 DEF vars, Inv, Types, Known, Numbered, Locked, Events, EventsInOrder, Pruning,
                Count, Entries, Overlapping, Differences, Honest, SameDelta
  <2> QED
    BY <2>1
<1>6. ASSUME NEW r \in Requests, Proceed(r) PROVE \E G : Inv(G)'
  BY <1>2, <1>3, <1>6 DEF Proceed
<1> QED
  BY <1>1, <1>4, <1>5, <1>6 DEF Next

SomeInv == \E H : Inv(H)

\* There is always a set of known entries of which the invariant holds.
THEOREM Invariance == Spec => []SomeInv
<1>1. Init => SomeInv
  BY InitInv DEF SomeInv
<1>2. SomeInv /\ [Next]_vars => SomeInv'
  BY NextInv DEF SomeInv
<1> QED
  BY <1>1, <1>2, PTL DEF Spec

\* No two entries of the log ever share an id, whatever is purged, undone or lost in a
\* crash before the counter restarts.
THEOREM IdsAreUnique == Spec => []OneEntryPerId
<1>1. SomeInv => OneEntryPerId
  BY DEF SomeInv, Inv, Known, Numbered, Entries, OneEntryPerId
<1> QED
  BY <1>1, Invariance, PTL

\* Subscribers see the ids grow.
THEOREM EventsAreOrdered == Spec => []EventsInOrder
<1>1. SomeInv => EventsInOrder
  BY DEF SomeInv, Inv, Events
<1> QED
  BY <1>1, Invariance, PTL

\* The log is bounded by --changelog-retain, for every number of requests.
THEOREM LogIsBounded == Spec => []Retention
<1>1. ASSUME NEW H, Inv(H) PROVE Retention
  <2>1. \A r \in Requests : pc[r] \in {"pruning", "deleting"} => write_lock # None
    BY <1>1, ConstantsAssumption DEF Inv, Locked, Recording
  <2>2. Cardinality(Entries) \in Nat
    BY <1>1, FS_Subset, FS_CardinalityType DEF Inv, Known, Entries
  <2> QED
    BY <1>1, <2>1, <2>2, ConstantsAssumption DEF Inv, Count, Retention
<1>2. SomeInv => Retention
  BY <1>1 DEF SomeInv
<1> QED
  BY <1>2, Invariance, PTL

\* An entry leaves the log only by a prune when retain newer ids were given out, by a
\* purge that found it, by the undo of an update that saw it recorded, or by an update or
\* a transaction that is meant to clear entries.
THEOREM OnlyOldEntriesGo == Spec => OnlyPruningForgets
<1> DEFINE Goes(e, r) ==
      \/ pc[r] = "deleting" /\ e.id + retain < counter
      \/ pc[r] = "purging" /\ pc'[r] = "idle" /\ e \in job[r].before
      \/ pc[r] = "undoing" /\ pc'[r] = "record" /\ e \in job[r].removed
      \/ pc[r] = "executing" /\ pc'[r] \in {"diffing", "record"} /\ job[r].task.clear
      \/ \E txn \in Transactions : txn.clear /\ CommitRequest(r, txn)
<1>1. ASSUME SomeInv, [Next]_vars
      PROVE  [\A e \in Entries \ Entries' : \E r \in Requests : Goes(e, r)]_vars
  <2> SUFFICES ASSUME NEW e \in Entries \ Entries'
               PROVE  \E r \in Requests : Goes(e, r)
    OBVIOUS
  <2>1. PICK H : Inv(H)
    BY <1>1 DEF SomeInv
  <2>2. e \in store /\ e \notin Quads /\ e \notin store'
    BY DEF Entries
  <2>3. ASSUME NEW r \in Requests, Accept(r) PROVE Goes(e, r)
    <3>1. PICK txn \in Transactions : CommitRequest(r, txn)
      BY <2>2, <2>3 DEF Accept, StoreRequest, UpdateRequest, UndoRequest, PurgeRequest
    <3>2. txn.deleted \in SUBSET Quads
      BY ConstantsAssumption
    <3>3. PICK gone \in Cleared(txn.clear) :
            store' = (store \ (txn.deleted \cup gone)) \cup txn.added
      BY <3>1 DEF CommitRequest
    <3>4. txn.clear
      BY <2>2, <3>2, <3>3 DEF Cleared
    <3> QED
      BY <3>1, <3>4
  <2>4. ASSUME NEW r \in Requests, ExecuteUpdate(r) PROVE Goes(e, r)
    <3>1. Honest(H, r) /\ pc \in [Requests -> Locations]
      BY <2>1 DEF Inv, Differences, Types
    <3>2. job[r].task.delete \in SUBSET Quads
      BY <2>4, <3>1, ConstantsAssumption DEF ExecuteUpdate, Honest
    <3>3. PICK gone \in Cleared(job[r].task.clear) :
            store' = (store \ (job[r].task.delete \cup gone)) \cup job[r].task.insert
      BY <2>4 DEF ExecuteUpdate
    <3>4. job[r].task.clear
      BY <2>2, <3>2, <3>3 DEF Cleared
    <3>5. pc[r] = "executing" /\ pc'[r] \in {"diffing", "record"}
      BY <2>4, <3>1 DEF ExecuteUpdate, ToRecord, Goto
    <3> QED
      BY <3>4, <3>5
  <2>5. ASSUME NEW r \in Requests, ApplyUndo(r) PROVE Goes(e, r)
    <3>1. pc[r] = "undoing" /\ e \in job[r].removed
      BY <2>2, <2>5 DEF ApplyUndo
    <3>2. pc'[r] = "record"
      BY <2>1, <2>5 DEF ApplyUndo, ToRecord, Goto, Inv, Types
    <3> QED
      BY <3>1, <3>2
  <2>6. ASSUME NEW r \in Requests, DeleteOld(r) PROVE Goes(e, r)
    <3>1. e.id \in job[r].doomed /\ pc[r] = "deleting" /\ job[r].id = counter - 1
      BY <2>1, <2>2, <2>6 DEF DeleteOld, Inv, Locked, Recording
    <3>2. e.id + retain <= job[r].id
      BY <2>1, <3>1 DEF Inv, Pruning
    <3>3. e \in H
      BY <2>1, <2>2 DEF Inv, Known
    <3>4. e.id \in Nat /\ counter \in Nat
      BY <2>1, <3>3 DEF Inv, Numbered, Types
    <3>5. e.id + retain < counter
      BY <3>1, <3>2, <3>4, ConstantsAssumption
    <3> QED
      BY <3>1, <3>5
  <2>7. ASSUME NEW r \in Requests, FinishPurge(r) PROVE Goes(e, r)
    <3>1. pc[r] = "purging" /\ e \in job[r].before
      BY <2>2, <2>7 DEF FinishPurge
    <3>2. pc'[r] = "idle"
      BY <2>1, <2>7 DEF FinishPurge, Return, Goto, Inv, Types
    <3> QED
      BY <3>1, <3>2
  <2>8. ASSUME NEW r \in Requests, Proceed(r)
        PROVE  ExecuteUpdate(r) \/ ApplyUndo(r) \/ DeleteOld(r) \/ FinishPurge(r)
    BY <2>2, <2>8 DEF Proceed, record, DiffUpdate, RequestFails, AcquireLock, WriteEntry,
                      CollectOld, Broadcast, RecordFails
  <2>9. ~Crash /\ ~UNCHANGED vars
    BY <2>2 DEF Crash, vars
  <2>10. PICK r \in Requests : Accept(r) \/ Proceed(r)
    BY <1>1, <2>9 DEF Next
  <2> HIDE DEF Goes
  <2> QED
    BY <2>3, <2>4, <2>5, <2>6, <2>7, <2>8, <2>10
<1> QED
  BY <1>1, Invariance, PTL DEF Spec, OnlyPruningForgets

\* Undoing an update that nobody overlapped takes the users' quads back, when none of
\* those it changed was changed since.
THEOREM UndoIsInverse == Spec => UndoRevertsUpdates
<1>1. ASSUME SomeInv, [Next]_vars
      PROVE  [\A r \in Requests :
                pc[r] = "undoing" /\ job[r].task.operation = "update" /\ job[r].task.alone
                  => Reverts(r)]_vars
  <2> SUFFICES ASSUME NEW r \in Requests, pc[r] = "undoing",
                      job[r].task.operation = "update", job[r].task.alone,
                      pc'[r] = "record",
                      job[r].task.own[1] \subseteq Data, job[r].task.own[2] \cap Data = {}
               PROVE  Data' = (Data \ job[r].task.own[1]) \cup job[r].task.own[2]
    BY DEF Reverts
  <2>1. PICK H : Inv(H)
    BY <1>1 DEF SomeInv
  <2>2. ApplyUndo(r)
    <3>1. ASSUME NEW s \in Requests, Accept(s) PROVE FALSE
      BY <2>1, <3>1 DEF Accept, Accepts, StoreRequest, CommitRequest, UpdateRequest,
         UndoRequest, PurgeRequest, ToRecord, Goto, Inv, Types
    <3>2. ASSUME NEW s \in Requests, record(s) PROVE FALSE
      BY <2>1, <3>2 DEF record, AcquireLock, WriteEntry, CollectOld, DeleteOld, Broadcast,
         RecordFails, Return, Goto, Inv, Types
    <3>3. ASSUME NEW s \in Requests, DiffUpdate(s) \/ FinishPurge(s) \/ RequestFails(s)
          PROVE  FALSE
      BY <2>1, <3>3 DEF DiffUpdate, FinishPurge, RequestFails, Return, ToRecord, Goto, Inv, Types
    <3>4. ASSUME NEW s \in Requests, ExecuteUpdate(s) PROVE FALSE
      BY <2>1, <3>4 DEF ExecuteUpdate, ToRecord, Goto, Inv, Types
    <3>5. ASSUME NEW s \in Requests, ApplyUndo(s) PROVE s = r
      BY <2>1, <3>5 DEF ApplyUndo, ToRecord, Goto, Inv, Types
    <3>6. ~Crash /\ ~UNCHANGED vars
      BY DEF Crash, vars
    <3> QED
      BY <1>1, <3>1, <3>2, <3>3, <3>4, <3>5, <3>6 DEF Next, Proceed
  <2>3. /\ job[r].task \in H /\ job[r].task.undoable
        /\ job[r].inserted = job[r].task.removed /\ job[r].removed = job[r].task.inserted
    BY <2>1 DEF Inv, Differences, Honest
  <2>4. job[r].task.own = <<job[r].task.inserted \cap Quads, job[r].task.removed \cap Quads>>
    BY <2>1, <2>3 DEF Inv, Differences, SameDelta
  <2>5. store' = (store \cup job[r].task.removed) \ job[r].task.inserted
    BY <2>2, <2>3 DEF ApplyUndo
  <2> DEFINE ins == job[r].task.inserted
             rem == job[r].task.removed
  <2>6. job[r].task.own[1] = ins \cap Quads /\ job[r].task.own[2] = rem \cap Quads
    BY <2>4
  <2>7. store' = (store \cup rem) \ ins
    BY <2>5
  <2> HIDE DEF ins, rem
  <2>8. \A q \in rem \cap Quads : q \notin ins
    BY <2>6 DEF Data
  <2>9. Data' = ((store \cap Quads) \ (ins \cap Quads)) \cup (rem \cap Quads)
    BY <2>7, <2>8 DEF Data
  <2> QED
    BY <2>6, <2>9 DEF Data
<1> QED
  BY <1>1, Invariance, PTL DEF Spec, UndoRevertsUpdates
=============================================================================
