----------------------------- MODULE MCVersions -----------------------------
(***************************************************************************)
(* A small instance of Versions: three keys, two levels below level 0, and *)
(* three writes and a snapshot, or two of the writes and the ingestion of  *)
(* a file or a Get.                                                        *)
(***************************************************************************)
EXTENDS Versions

CONSTANTS
  MaxFiles,  \* bound: how many files at a time
  MaxJobs    \* bound: how many compactions at a time

Fails == files' = files /\ compactions' \subseteq compactions /\ compactions' # compactions

\* Bounds on what goes on at the same time.  Nothing can be learnt from deletions or
\* snapshots before the first put, nor from snapshots after the last write.  Key 2 is
\* only ingested, and deleted by ranges.  A compaction that fails has the same effect
\* whatever else has happened.
Bounded ==
  /\ Cardinality(files') <= MaxFiles
  /\ Cardinality(compactions') <=
       IF snapshots' = {} /\ reader'.phase = "idle" THEN MaxJobs ELSE 1
  /\ last_sequence = 0 => snapshots' = {} /\ \A e \in mem' : e.type = "put"
  /\ \A e \in mem' : (e.type = "del" => e.key = 1) /\ (e.type = "put" => e.key # 2)
  /\ last_sequence = MaxWrites => snapshots' \subseteq snapshots
  /\ last_sequence = MaxWrites - 1 => \A e \in mem' \ mem : e.type = "put" => e.key = 1
  /\ Fails => last_sequence = 1
  /\ reader'.phase = "begun" => reader'.key = 1 /\ last_sequence > 0
  /\ reader'.phase # "idle" =>
       snapshots' = {} /\ ingestions' = 0 /\ last_sequence' < MaxWrites
  /\ ingestions' # ingestions => last_sequence \in 1..(MaxWrites - 1)
  /\ last_sequence' = MaxWrites /\ last_sequence # MaxWrites =>
       (ingestions = 0 /\ compactions = {}) \/ ingestion.phase # "idle"

=============================================================================
