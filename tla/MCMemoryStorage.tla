--------------------------- MODULE MCMemoryStorage ---------------------------
(* Model-checking instance of MemoryStorage: one quad in the default graph *)
(* and one in a named graph. *)
EXTENDS MemoryStorage

CONSTANTS d1, a1, a, dflt

MCQuads == {d1, a1}
MCNamedGraphs == {a}
MCGraphName == [q \in MCQuads |-> IF q = d1 THEN dflt ELSE a]
=============================================================================
