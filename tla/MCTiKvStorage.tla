---------------------------- MODULE MCTiKvStorage ----------------------------
(* Two transactions over a quad of the default graph and two of a named one: *)
(* enough for a full pass of a clear, with BATCH_SIZE = 2.                   *)
EXTENDS TiKvStorage, TLC

CONSTANTS d1, a1, a2, ga, t1, t2

MCGraphName == (d1 :> DefaultGraph) @@ (a1 :> ga) @@ (a2 :> ga)
Symmetry == Permutations({t1, t2})
=============================================================================
