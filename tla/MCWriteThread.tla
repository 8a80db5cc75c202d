--------------------------- MODULE MCWriteThread ----------------------------
(***************************************************************************)
(* WriteThread with three threads and batches of one or two entries, of    *)
(* which three fill a group; three members are a large group.  Threads     *)
(* differ in nothing but their names, so the idle one with the smallest    *)
(* name calls next.                                                        *)
(***************************************************************************)
EXTENDS WriteThread

MCWriters == 1..3
MCSizes == {1, 2}
MCStride == [n \in {3} |-> 2]

\* Only the second call has a large batch, and what fails once writes were stalled is
\* what ends the stall.
Canonical ==
  /\ \A v, w \in Writers : v < w /\ pc[v] = "idle" /\ pc[w] = "idle" => pc'[w] = "idle"
  /\ \A w \in Writers : batch'[w] = 2 => op'[w] = 2
  /\ stalls' > stalls => failures = 0
  /\ failures' > failures /\ stalls > 0 => \E w \in Writers : pc[w] = "stalled"
=============================================================================
