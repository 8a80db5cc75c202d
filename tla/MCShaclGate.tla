----------------------------- MODULE MCShaclGate -----------------------------
(***************************************************************************)
(* An instance of ShaclGate for TLC: one shapes graph wants a wherever     *)
(* there is b, the other wants no more than one quad, so that two writes   *)
(* that conform alone may not conform together, nor one with its own entry *)
(* of the changelog.                                                       *)
(***************************************************************************)
EXTENDS ShaclGate, Naturals, FiniteSets, TLC

CONSTANTS a, b, entry, needs, excludes

MCQuads == {a, b, entry}
MCEntryQuads == {entry}
MCShapes == {needs, excludes}
MCConforms(s, quads) ==
  IF s = needs THEN b \in quads => a \in quads ELSE Cardinality(quads) <= 1

\* The requests are interchangeable.
RequestSymmetry == Permutations(Requests)
=============================================================================
