---------------------------- MODULE AtomicWrites ----------------------------
(***************************************************************************)
(* What DB::Write promises the storage: a batch becomes visible at one     *)
(* moment between the call and the return, all of it or nothing, batches   *)
(* one after the other; a call that reports an error has had no effect.    *)
(*                                                                         *)
(* A failure stops the database: from then on a batch that was under way   *)
(* may be reported as written although it is not visible, and one that     *)
(* failed may become visible in part.                                      *)
(***************************************************************************)
EXTENDS Naturals, Sequences, FiniteSets

CONSTANT Writers  \* the threads that write

VARIABLES
  op,       \* the operation of each writer, 0 when it has none
  visible,  \* the operations whose batches are visible, in order
  acked,    \* the operations reported as written
  refused,  \* the operations reported as failed
  torn,     \* the operations that are visible in part
  stopped   \* whether a failure stopped the database

absVars == <<op, visible, acked, refused, torn, stopped>>

Shown == {visible[i] : i \in DOMAIN visible}
Pending == {op[w] : w \in Writers} \ ({0} \cup Shown \cup torn)

AbsInit ==
  /\ op = [w \in Writers |-> 0]
  /\ visible = <<>>
  /\ acked = {}
  /\ refused = {}
  /\ torn = {}
  /\ stopped = FALSE

Call(w) ==
  /\ op[w] = 0
  /\ op'[w] \notin {0} \cup acked \cup refused \cup Shown \cup Pending
  /\ op' = [op EXCEPT ![w] = op'[w]]
  /\ UNCHANGED <<visible, acked, refused, torn, stopped>>

\* Some pending operations become visible at the same moment, in some order.
Commit ==
  LET n == Len(visible') - Len(visible)
      new == SubSeq(visible', Len(visible) + 1, Len(visible'))
  IN  /\ n > 0
      /\ visible' = visible \o new
      /\ \A i \in 1..n : new[i] \in Pending /\ \A j \in 1..(i - 1) : new[i] # new[j]
      /\ UNCHANGED <<op, acked, refused, torn, stopped>>

Stop ==
  /\ stopped' = TRUE
  /\ UNCHANGED <<op, visible, acked, refused, torn>>

Tear ==
  /\ stopped
  /\ torn \subseteq torn'
  /\ torn' \cap Shown = {}
  /\ UNCHANGED <<op, visible, acked, refused, stopped>>

ReturnOk(w) ==
  /\ op[w] # 0
  /\ op[w] \in Shown \/ stopped
  /\ acked' = acked \cup {op[w]}
  /\ op' = [op EXCEPT ![w] = 0]
  /\ UNCHANGED <<visible, refused, torn, stopped>>

ReturnError(w) ==
  /\ op[w] # 0
  /\ op[w] \notin Shown
  /\ refused' = refused \cup {op[w]}
  /\ op' = [op EXCEPT ![w] = 0]
  /\ UNCHANGED <<visible, acked, torn, stopped>>

AbsNext ==
  \/ \E w \in Writers : Call(w) \/ ReturnOk(w) \/ ReturnError(w)
  \/ Commit
  \/ Stop
  \/ Tear

AbsSpec == AbsInit /\ [][AbsNext]_absVars
=============================================================================
