----------------------------- MODULE MCChangelog -----------------------------
(***************************************************************************)
(* Instances of Changelog for TLC.                                         *)
(***************************************************************************)
EXTENDS Changelog, TLC

CONSTANTS q1, q2, r1, r2

MCQuads == {q1, q2}

Upload(parsed, loaded) == [parsed |-> parsed, loaded |-> loaded]
MCUploads == {Upload({q1}, {q1}), Upload({}, {})}

\* One that lists its changes, and one with a CLEAR ALL.
Txn(inserted, removed, added, deleted, clear) ==
  [inserted |-> inserted, removed |-> removed, sparql |-> clear,
   added |-> added, deleted |-> deleted, clear |-> clear]
MCTransactions == {Txn({q2}, {q1}, {q2}, {q1}, FALSE), Txn({}, {}, {}, Quads, TRUE)}

Update(delete, insert, clear) == [delete |-> delete, insert |-> insert, clear |-> clear]
MCUpdates == {Update({q1}, {q2}, FALSE), Update(Quads, {}, TRUE)}

\* Bound: after a restart the requests run one after the other.
RestartedAlone == crashes' > 0 => overlapped' = {}

\* The requests are interchangeable: the first idle one takes a request.
Canonical == pc[r2] = "idle" /\ pc'[r2] # "idle" => pc[r1] # "idle"

\* Bound: a write that clears begins when there is an entry to clear, nothing else is
\* under way and no restart was.
ClearsSome ==
  \A r \in Requests :
    /\ pc[r] = "idle"
    /\ \/ pc'[r] = "record" /\ job'[r].sparql
       \/ pc'[r] = "executing" /\ job'[r].task.clear
    => Entries # {} /\ overlapped' = {} /\ crashes = 0
=============================================================================
