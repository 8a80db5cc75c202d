------------------------ MODULE MCTransactionRegistry ------------------------
(* Instances of TransactionRegistry for TLC *)
EXTENDS TransactionRegistry

CONSTANTS q1, q2, t1, t2, w1, w2

MCQuads == {q1, q2}

\* One operation of each kind.
MCOps == {[kind |-> "InsertQuads", quads |-> {q1, q2}],
          [kind |-> "RemoveQuads", quads |-> {q1}],
          [kind |-> "SparqlUpdate", quads |-> {q1}],
          [kind |-> "BadSparqlUpdate", quads |-> {}]}

\* The ids are handed out and the idle workers taken in a fixed order, and the second
\* transaction has at most one operation.
Canonical ==
  /\ outcome[t1] = "unused" => outcome'[t2] = "unused"
  /\ Len(ops'[t2]) < 2
  /\ worker[w2] = Free /\ worker'[w2] # Free => worker[w1] # Free
=============================================================================
