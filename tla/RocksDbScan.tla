---------------------------- MODULE RocksDbScan ----------------------------
(***************************************************************************)
(* The iterator of the RocksDB storage (Reader::scan_prefix and Iter of    *)
(* storage/rocksdb_wrapper.rs): a scan of the keys with a prefix, from a   *)
(* seek to the prefix up to an upper bound, in a snapshot.  Every pattern  *)
(* that the storage answers, and every graph it clears, is such a scan;    *)
(* what it returns is not filtered again.                                  *)
(***************************************************************************)
EXTENDS KeyRange, FiniteSets

CONSTANTS
  Keys,       \* the keys that may be in a table
  Prefixes,   \* the encoded terms that are looked for
  MaxCommits  \* bound: how many keys are written or deleted during the scan

VARIABLES
  keys,      \* the committed keys of the table
  commits,   \* how many keys were changed
  status,    \* "none", "open" or "ended"
  prefix,    \* what is looked for
  snapshot,  \* the keys that the reader sees
  returned   \* the keys that were returned, in order

vars == <<keys, commits, status, prefix, snapshot, returned>>

Init ==
  /\ keys \in SUBSET Keys
  /\ commits = 0
  /\ status = "none"
  /\ prefix \in Prefixes
  /\ snapshot = {}
  /\ returned = <<>>

\* Another transaction commits a key.
Commit(k) ==
  /\ commits < MaxCommits
  /\ commits' = commits + 1
  /\ keys' \in {keys \cup {k}, keys \ {k}}
  /\ UNCHANGED <<status, prefix, snapshot, returned>>

\* The iterator is created in the snapshot of its reader, and placed.
scan_prefix ==
  /\ status = "none"
  /\ status' = "open"
  /\ snapshot' = keys
  /\ UNCHANGED <<keys, commits, prefix, returned>>

\* The keys that the iterator has before it.
Ahead ==
  {k \in snapshot : /\ BoundRange(prefix, upper_bound(prefix), k)
                    /\ \A i \in DOMAIN returned : KeyLess(returned[i], k)}

\* key and next
NextKey ==
  /\ status = "open"
  /\ \E k \in Ahead :
       /\ \A l \in Ahead : ~KeyLess(l, k)
       /\ returned' = Append(returned, k)
  /\ UNCHANGED <<keys, commits, status, prefix, snapshot>>

End ==
  /\ status = "open"
  /\ Ahead = {}
  /\ status' = "ended"
  /\ UNCHANGED <<keys, commits, prefix, snapshot, returned>>

Next == (\E k \in Keys : Commit(k)) \/ scan_prefix \/ NextKey \/ End

Spec == Init /\ [][Next]_vars

-----------------------------------------------------------------------------

\* A pattern is a filter: whoever asks for the quads with a term, or for those of a graph
\* to clear them, gets keys that begin with the term and no other.
OnlyMatches == \A i \in DOMAIN returned : HasPrefix(prefix, returned[i])

=============================================================================
