---------------------------- MODULE VersionRange ----------------------------
(***************************************************************************)
(* The version range that annotates every quad node and every graph name  *)
(* of the in-memory storage.  The enum has four variants; each is the     *)
(* list of versions at which presence flips, so a range is a sequence:    *)
(*    Empty = <<>>, Start(s) = <<s>>, StartEnd(s, e) = <<s, e>>, and      *)
(*    Bigger(vec) = vec when it has three elements or more.               *)
(* The versions at odd positions start a period of presence, those at     *)
(* even positions end one.                                                *)
(***************************************************************************)
EXTENDS Naturals, Sequences

Empty == <<>>

\* The range is open: its last period of presence has not ended.
IsOpen(range) == Len(range) % 2 = 1

EndsWith(range, version) == Len(range) > 0 /\ range[Len(range)] = version

Pop(range) == SubSeq(range, 1, Len(range) - 1)

\* VersionRange::contains: one of the chunks of two covers the version.
Contains(range, version) ==
  \E i \in 1..Len(range) :
    /\ i % 2 = 1
    /\ range[i] <= version
    /\ i < Len(range) => version < range[i + 1]

\* add and remove flip the presence at a version: an end put by the same
\* transaction is taken back, any other end is kept and followed.
Flip(range, version) ==
  IF EndsWith(range, version) THEN Pop(range) ELSE Append(range, version)

\* VersionRange::add and remove.  Their Boolean result is ~IsOpen(range) and
\* IsOpen(range) respectively: what they return when they change the range.
Add(range, version) == IF IsOpen(range) THEN range ELSE Flip(range, version)

Remove(range, version) == IF IsOpen(range) THEN Flip(range, version) ELSE range

UpgradeTransaction(range, transaction_id, version_id) ==
  IF EndsWith(range, transaction_id)
  THEN [range EXCEPT ![Len(range)] = version_id]
  ELSE range

RollbackTransaction(range, transaction_id) ==
  IF EndsWith(range, transaction_id) THEN Pop(range) ELSE range
=============================================================================
