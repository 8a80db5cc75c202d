--------------------------- MODULE MCWalRecovery ----------------------------
(* WalRecovery with two column families and two flush threads. *)
EXTENDS WalRecovery

CONSTANTS dspo, gspo, j1, j2
MCCFs == {dspo, gspo}
MCWrites == {{dspo, gspo}}
MCLoads == {{dspo, gspo}}
MCFirst == {dspo}
MCJobs == {j1, j2}

CONSTANT MaxEvents  \* bound: how many batches, crashes and failures in all

\* The threads can be exchanged: j1 takes the work when it is idle.  At most one load,
\* behind the second batch and before the first crash; with it, one more batch and no
\* failure.
Canonical ==
  LET loads == phase = "open" /\ last_sequence' > last_sequence /\ wals' = wals
      loaded == \E b \in DOMAIN batches' : ~batches'[b].logged
  IN  /\ job[j2].stage = "idle" /\ job'[j2].stage # "idle" => job[j1].stage # "idle"
      /\ Len(batches') + crashes' + failures' <= MaxEvents
      /\ loads => Len(batches) = 2 /\ crashes = 0
      /\ loaded => failures' = 0
=============================================================================
