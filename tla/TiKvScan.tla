------------------------------ MODULE TiKvScan ------------------------------
(***************************************************************************)
(* The prefetching iterators of the TiKV storage (storage/tikv.rs): a scan *)
(* goes through the keys of one or two prefixes, one after the other, and  *)
(* fetches each in batches while other clients commit.                     *)
(*                                                                         *)
(* An iterator begins a TiKV transaction with its first batch and reuses   *)
(* it for the others, so it sees one state of the store.  The full scan    *)
(* (quads) is different: it fetches the first batch of both prefixes       *)
(* beforehand, in parallel, in transactions of their own.                  *)
(***************************************************************************)
EXTENDS KeyRange, FiniteSets

CONSTANTS
  Keys,        \* the keys that may be in the store
  prefixes,    \* the prefixes that a scan goes through, one or two
  batch_size,  \* how many keys a fetch asks for
  MaxCommits   \* bound: how many keys other clients change during a scan

ASSUME ScanAssumption ==
  /\ Keys \subseteq Seq(Bytes)
  /\ IsFiniteSet(Keys)
  /\ prefixes \in Seq(Seq(Bytes))
  /\ \A i, j \in DOMAIN prefixes : i # j => ~HasPrefix(prefixes[i], prefixes[j])
  /\ batch_size \in Nat \ {0}
  /\ MaxCommits \in Nat

Iterators == DOMAIN prefixes

VARIABLES
  keys,       \* the committed keys
  commits,    \* how many keys were changed
  status,     \* what the scan is doing
  start,      \* scan_range_start of each iterator
  buffer,     \* the fetched keys that each iterator has not yet returned
  exhausted,  \* whether the last batch was fetched
  fetched,    \* whether the first batch of a full scan was fetched
  begun,      \* whether each iterator has begun its transaction
  snapshot,   \* the keys that its transaction sees
  full,       \* whether this is a full scan
  delivered,  \* the keys the scan returned, in order
  always,     \* history: the keys there all the time since the scan began
  ever        \* history: the keys there at some time since the scan began

iterVars == <<start, buffer, exhausted, fetched, begun, snapshot>>
vars == <<keys, commits, status, iterVars, full, delivered, always, ever>>

Statuses == {"none", "opening", "open", "ended", "failed"}

\* Types; and no more is buffered than a batch.
TypeOK ==
  /\ keys \subseteq Keys
  /\ commits \in 0..MaxCommits
  /\ status \in Statuses
  /\ start \in [Iterators -> Seq(Bytes)]
  /\ buffer \in [Iterators -> SUBSET Keys]
  /\ exhausted \in [Iterators -> BOOLEAN]
  /\ fetched \in [Iterators -> BOOLEAN]
  /\ begun \in [Iterators -> BOOLEAN]
  /\ snapshot \in [Iterators -> SUBSET Keys]
  /\ full \in BOOLEAN
  /\ delivered \in Seq(Keys)
  /\ always \subseteq ever
  /\ ever \subseteq Keys
  /\ \A i \in Iterators : Cardinality(buffer[i]) <= batch_size

Init ==
  /\ keys \in SUBSET Keys
  /\ commits = 0
  /\ status = "none"
  /\ start = prefixes
  /\ buffer = [i \in Iterators |-> {}]
  /\ exhausted = [i \in Iterators |-> FALSE]
  /\ fetched = [i \in Iterators |-> FALSE]
  /\ begun = [i \in Iterators |-> FALSE]
  /\ snapshot = [i \in Iterators |-> {}]
  /\ full = FALSE
  /\ delivered = <<>>
  /\ always = {}
  /\ ever = {}

-----------------------------------------------------------------------------

\* Another transaction puts or deletes a key while the scan runs.  A commit of
\* several keys is several of these with no step of the scan in between.
Commit ==
  /\ status \in {"opening", "open"}
  /\ commits < MaxCommits
  /\ commits' = commits + 1
  /\ \E k \in Keys : keys' \in {keys \cup {k}, keys \ {k}} \ {keys}
  /\ always' = always \cap keys'
  /\ ever' = ever \cup keys'
  /\ UNCHANGED <<status, iterVars, full, delivered>>

\* The iterators are built; nothing is fetched yet.
Open(to, isFull) ==
  /\ status = "none"
  /\ status' = to
  /\ full' = isFull
  /\ always' = keys
  /\ ever' = keys
  /\ UNCHANGED <<keys, commits, iterVars, delivered>>

\* inner_quads, and pairs of them
inner_quads == Open("open", FALSE)

\* quads, before its two fetches
quads == Open("opening", TRUE)

\* The scan of a transaction returns the first keys of the range (external).
Scan(seen, i) ==
  LET range == {k \in seen : BoundRange(start[i], prefix_upper_bound(prefixes[i]), k)}
  IN  {k \in range : Cardinality({l \in range : KeyLess(l, k)}) < batch_size}

Last(batch) == CHOOSE k \in batch : \A l \in batch : ~KeyLess(k, l)
First(batch) == CHOOSE k \in batch : \A l \in batch : ~KeyLess(l, k)
Rest(batch) == {k \in batch : \E l \in batch : KeyLess(l, k)}

\* Mutant: a full batch counts as the last one.
ReceiveLast(i, batch) ==
  /\ exhausted' = [exhausted EXCEPT ![i] = Cardinality(batch) <= batch_size]
  /\ start' = [start EXCEPT ![i] = IF batch = {} THEN @ ELSE next_start(Last(batch))]

\* Mutant: an empty batch does not count as the last one.
ReceiveEmpty(i, batch) ==
  /\ exhausted' = [exhausted EXCEPT ![i] = batch # {} /\ Cardinality(batch) < batch_size]
  /\ start' = [start EXCEPT ![i] = IF batch = {} THEN @ ELSE next_start(Last(batch))]

\* A batch has arrived: the scan is exhausted when it was not full, and goes on
\* after the last key.
Receive(i, batch) ==
  /\ exhausted' = [exhausted EXCEPT ![i] = Cardinality(batch) < batch_size]
  /\ start' = [start EXCEPT ![i] = IF batch = {} THEN @ ELSE next_start(Last(batch))]

\* quads fetches the first batch of an iterator, in a transaction it then ends.
Prefetch(i) ==
  LET batch == Scan(keys, i) IN
  /\ status = "opening"
  /\ ~fetched[i]
  /\ fetched' = [fetched EXCEPT ![i] = TRUE]
  /\ status' = IF \A j \in Iterators : fetched'[j] THEN "open" ELSE "opening"
  /\ Receive(i, batch)
  /\ buffer' = [buffer EXCEPT ![i] = batch]
  /\ UNCHANGED <<keys, commits, begun, snapshot, full, delivered, always, ever>>

Finished(i) == buffer[i] = {} /\ exhausted[i]

\* The chain asks an iterator once those before it return None.
Current(i) == status = "open" /\ \A j \in Iterators : j < i => Finished(j)

\* next: return a buffered key.
NextBuffered(i) ==
  /\ Current(i)
  /\ buffer[i] # {}
  /\ delivered' = Append(delivered, First(buffer[i]))
  /\ buffer' = [buffer EXCEPT ![i] = Rest(@)]
  /\ UNCHANGED <<keys, commits, status, start, exhausted, fetched, begun, snapshot,
                 full, always, ever>>

\* Mutant: every batch is read in a transaction begun for it.
NextFetchedAfresh(i) ==
  LET batch == Scan(keys, i) IN
  /\ Current(i)
  /\ buffer[i] = {}
  /\ ~exhausted[i]
  /\ begun' = [begun EXCEPT ![i] = TRUE]
  /\ snapshot' = [snapshot EXCEPT ![i] = keys]
  /\ Receive(i, batch)
  /\ buffer' = [buffer EXCEPT ![i] = Rest(batch)]
  /\ delivered' = IF batch = {} THEN delivered ELSE Append(delivered, First(batch))
  /\ UNCHANGED <<keys, commits, status, fetched, full, always, ever>>

\* next: fetch_next_batch, and return its first key.  The transaction is begun with
\* the first fetch and reused.
NextFetched(i) ==
  LET seen == IF begun[i] THEN snapshot[i] ELSE keys
      batch == Scan(seen, i)
  IN  /\ Current(i)
      /\ buffer[i] = {}
      /\ ~exhausted[i]
      /\ begun' = [begun EXCEPT ![i] = TRUE]
      /\ snapshot' = [snapshot EXCEPT ![i] = seen]
      /\ Receive(i, batch)
      /\ buffer' = [buffer EXCEPT ![i] = Rest(batch)]
      /\ delivered' = IF batch = {} THEN delivered ELSE Append(delivered, First(batch))
      /\ UNCHANGED <<keys, commits, status, fetched, full, always, ever>>

\* next: None of the last iterator.
End ==
  /\ status = "open"
  /\ \A i \in Iterators : Finished(i)
  /\ status' = "ended"
  /\ UNCHANGED <<keys, commits, iterVars, full, delivered, always, ever>>

\* A fetch fails: the scan yields the error and its caller gives up.
Fail ==
  /\ \/ status = "opening"
     \/ \E i \in Iterators : Current(i) /\ buffer[i] = {} /\ ~exhausted[i]
  /\ status' = "failed"
  /\ UNCHANGED <<keys, commits, iterVars, full, delivered, always, ever>>

\* The iterators are dropped, and with them their transactions.
Drop ==
  /\ status \in {"ended", "failed"}
  /\ UNCHANGED vars

Next ==
  \/ Commit
  \/ inner_quads
  \/ quads
  \/ \E i \in Iterators : Prefetch(i) \/ NextBuffered(i) \/ NextFetched(i)
  \/ End
  \/ Fail
  \/ Drop

Spec == Init /\ [][Next]_vars

\* Whoever opened the scan keeps calling next, and a fetch returns or fails.
FairSpec ==
  Spec /\ WF_vars(End \/ \E i \in Iterators : Prefetch(i) \/ NextBuffered(i) \/ NextFetched(i))

-----------------------------------------------------------------------------

InScan(i, k) == HasPrefix(prefixes[i], k)

\* What others commit meanwhile neither hides a key that was there all along nor
\* brings in one that never was: the scan that ends has returned every key of its
\* prefixes that stayed, and only keys of its prefixes that were there, each of them
\* once although every batch is a request of its own.
NothingMissed ==
  LET returned == {delivered[n] : n \in DOMAIN delivered}
      wanted == {k \in Keys : \E i \in Iterators : InScan(i, k)}
  IN  /\ returned \subseteq ever \cap wanted
      /\ Cardinality(returned) = Len(delivered)
      /\ status = "ended" => always \cap wanted \subseteq returned

\* An iterator that is not part of a full scan returns the keys of one state of the
\* store: the one its transaction sees, however many batches it takes.
OneState ==
  \A i \in Iterators : ~full /\ begun[i] /\ Finished(i) =>
    {delivered[n] : n \in DOMAIN delivered} \cap {k \in Keys : InScan(i, k)}
      = {k \in snapshot[i] : InScan(i, k)}

\* A scan that was opened ends, also while others insert in front of it.
ScanEnds == status \in {"opening", "open"} ~> status \in {"ended", "failed"}

=============================================================================
