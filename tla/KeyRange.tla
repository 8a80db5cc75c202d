------------------------------ MODULE KeyRange ------------------------------
(***************************************************************************)
(* Keys of the TiKV and the RocksDB storage as byte strings, their order,  *)
(* and the bounds that turn a prefix into a range (storage/tikv.rs and     *)
(* storage/rocksdb_wrapper.rs).  Bytes run from 0 to MaxByte, 0xFF in the  *)
(* code.                                                                   *)
(***************************************************************************)
EXTENDS Integers, Sequences

CONSTANT MaxByte  \* the largest byte

ASSUME MaxByteAssumption == MaxByte \in Nat \ {0}

Bytes == 0..MaxByte

\* The order of the keys in the cluster: at the first place where the two differ, a
\* has ended or has the smaller byte.
KeyLess(a, b) ==
  \E i \in 1..Len(b) :
    /\ i <= Len(a) + 1
    /\ \A j \in 1..(i - 1) : a[j] = b[j]
    /\ i <= Len(a) => a[i] < b[i]

HasPrefix(p, k) == Len(p) <= Len(k) /\ \A j \in 1..Len(p) : k[j] = p[j]

\* None of the code: no upper bound.
Unbounded == <<>>

\* The bound of the TiKV storage: drop the largest bytes at the end, and increment the
\* byte before them.
prefix_upper_bound(prefix) ==
  LET places == {i \in 1..Len(prefix) : prefix[i] < MaxByte}
      last == CHOOSE i \in places : \A j \in places : j <= i
  IN  IF places = {} THEN Unbounded
      ELSE [j \in 1..last |-> IF j = last THEN prefix[j] + 1 ELSE prefix[j]]

\* The bound of scan_prefix in the RocksDB storage: the last byte that can be incremented
\* is, and the bytes after it are kept.
upper_bound(p) ==
  LET places == {i \in 1..Len(p) : p[i] < MaxByte}
      last == CHOOSE i \in places : \A j \in places : j <= i
  IN  IF places = {} THEN Unbounded
      ELSE [j \in 1..Len(p) |-> IF j = last THEN p[j] + 1 ELSE p[j]]

\* start..upper, or start.. when there is no upper bound.
BoundRange(start, upper, k) ==
  /\ ~KeyLess(k, start)
  /\ upper # Unbounded => KeyLess(k, upper)

\* The start of the next batch, just after the last key of this one.
next_start(last_key) == Append(last_key, 0)

=============================================================================
