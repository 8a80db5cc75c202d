------------------------------ MODULE Versions ------------------------------
(***************************************************************************)
(* The versions of the keys in a column family of RocksDB, as the store    *)
(* uses it: writes go to a memtable, memtables are flushed to files of     *)
(* level 0, compactions merge files into deeper levels and forget versions *)
(* that nobody can read, files are ingested by the bulk loader, and        *)
(* readers and snapshots read while all of this goes on.                   *)
(*                                                                         *)
(* An entry is a version of a key: a put, a deletion, or the piece of a    *)
(* range deletion that covers the key.  A flush that fails is in           *)
(* WalRecovery; here a flush succeeds.                                     *)
(***************************************************************************)
EXTENDS Integers, Sequences, FiniteSets, FiniteSetsExt, Functions

CONSTANTS
  Keys,          \* the keys, integers
  MaxLevel,      \* num_levels - 1
  ExternalKeys,  \* the sets of keys that a file to ingest may hold
  MaxWrites,     \* bound: how many writes
  MaxSnapshots,  \* bound: how many snapshots at a time
  MaxIngestions  \* bound: how many files are ingested

ASSUME VersionsAssumption ==
  /\ Keys \subseteq Nat /\ IsFiniteSet(Keys) /\ Keys # {}
  /\ MaxLevel \in Nat \ {0}
  /\ ExternalKeys \subseteq SUBSET Keys /\ {} \notin ExternalKeys
  /\ {MaxWrites, MaxSnapshots, MaxIngestions} \subseteq Nat

VARIABLES
  mem,            \* the entries of the memtable
  imm,            \* those of the immutable memtables, the oldest first
  files,          \* the files of the current version
  next_epoch,     \* next_epoch_number_
  last_sequence,
  snapshots,      \* those not released: sequence number, and what they should show
  flush,          \* the flush job
  compactions,    \* compactions_in_progress_
  ingestion,      \* the call of IngestExternalFiles
  reader,         \* a call of Get
  current,        \* history: the value of each key after the writes so far
  ingestions      \* how many files were ingested

jobVars == <<flush, compactions, ingestion, ingestions>>
vars == <<mem, imm, files, next_epoch, last_sequence, snapshots, jobVars, reader, current>>

Levels == 0..MaxLevel
Absent == 0       \* no value; a put has its sequence number as its value
External(n) == -n  \* the value that the n-th ingested file gives its keys
Tip == MaxWrites + MaxIngestions + 1  \* kMaxSequenceNumber

Seqs(entries) == {e.seq : e \in entries}
KeysOf(entries) == {e.key : e \in entries}
Newest(entries) == CHOOSE e \in entries : \A o \in entries : o.seq <= e.seq

\* The user keys from the smallest to the largest.
RangeOf(ks) == Min(ks)..Max(ks)
Overlap(ks, ls) == RangeOf(ks) \cap RangeOf(ls) # {}
FileKeys(fs) == UNION {KeysOf(f.data) : f \in fs}
Data(fs) == UNION {f.data : f \in fs}
OnLevel(n) == {f \in files : f.level = n}
OverlapInLevel(n, ks) == {f \in OnLevel(n) : Overlap(KeysOf(f.data), ks)}

NoFlush == [phase |-> "idle", snaps |-> {}, max |-> 0, epoch |-> 0]
NoIngestion == [phase |-> "idle", keys |-> {}, flushed |-> FALSE, level |-> 0, seq |-> 0,
                epoch |-> 0]
NoReader == [phase |-> "idle"]

Init ==
  /\ mem = {}
  /\ imm = <<>>
  /\ files = {}
  /\ next_epoch = 1
  /\ last_sequence = 0
  /\ snapshots = {}
  /\ flush = NoFlush
  /\ compactions = {}
  /\ ingestion = NoIngestion
  /\ reader = NoReader
  /\ current = [k \in Keys |-> Absent]
  /\ ingestions = 0

-----------------------------------------------------------------------------
(* Reading *)

\* What a reader pins: the memtables and the version.
SuperVersion == [live |-> TRUE, mem |-> {}, imm |-> imm, files |-> files]

\* The memtable of a SuperVersion is written to until it is switched.
MemOf(sv) == IF sv.live THEN mem ELSE sv.mem

\* The places where Get looks, and when: the memtables and the files of level 0 from
\* the newest to the oldest, then the deeper levels, each in the file with the key.
Places(sv) ==
  LET n == Len(sv.imm)
      rank(f) == IF f.level = 0 THEN n + next_epoch - f.epoch ELSE n + next_epoch + f.level
  IN  {[rank |-> 0, data |-> MemOf(sv)]}
        \cup {[rank |-> n + 1 - i, data |-> sv.imm[i]] : i \in 1..n}
        \cup {[rank |-> rank(f), data |-> f.data] : f \in sv.files}

Visible(entries, k, seq) == {e \in entries : e.key = k /\ e.seq <= seq}

\* Get: the first place with a visible version decides, by the newest one there.
GetFrom(places, k, seq) ==
  LET hits == {p \in places : Visible(p.data, k, seq) # {}}
      hit == CHOOSE p \in hits : \A o \in hits : p.rank <= o.rank
  IN  IF hits = {} THEN Absent ELSE Newest(Visible(hit.data, k, seq)).val

\* Mutant: the sequence number is taken before the SuperVersion.
TakeSequence(k) ==
  [phase |-> "begun", key |-> k, sv |-> <<>>, seq |-> {last_sequence}, seen |-> {current[k]}]

\* GetImpl, first part: acquire the SuperVersion; the sequence number comes later.
GetAndRefSuperVersion(k) ==
  [phase |-> "begun", key |-> k, sv |-> <<SuperVersion>>, seq |-> {}, seen |-> {current[k]}]

GetImpl(k) ==
  /\ reader.phase = "idle"
  /\ reader' = GetAndRefSuperVersion(k)
  /\ UNCHANGED <<mem, imm, files, next_epoch, last_sequence, snapshots, jobVars, current>>

\* GetImpl, second part: take what is still missing, and look the key up.
GetReturns ==
  LET sv == IF reader.sv = <<>> THEN SuperVersion ELSE reader.sv[1]
      seq == IF reader.seq = {} THEN last_sequence ELSE Max(reader.seq)
  IN  /\ reader.phase = "begun"
      /\ reader' = [phase |-> "returned", value |-> GetFrom(Places(sv), reader.key, seq),
                    seen |-> reader.seen]
      /\ UNCHANGED <<mem, imm, files, next_epoch, last_sequence, snapshots, jobVars, current>>

GetDone ==
  /\ reader.phase = "returned"
  /\ reader' = NoReader
  /\ UNCHANGED <<mem, imm, files, next_epoch, last_sequence, snapshots, jobVars, current>>

\* The reader remembers every value that its key has had since the call began.
Watch(now) ==
  reader' = IF reader.phase = "begun"
            THEN [reader EXCEPT !.seen = @ \cup {now[reader.key]}] ELSE reader

\* A snapshot that is taken while a file is being ingested without a sequence number
\* of its own is marked: the file was not there, and it will see it.
GetSnapshot ==
  /\ Cardinality(snapshots) < MaxSnapshots
  /\ snapshots' = snapshots \cup
       {[seq |-> last_sequence, view |-> current,
         late |-> IF ingestion.phase = "logging" /\ ingestion.seq = 0
                  THEN ingestion.keys ELSE {}]}
  /\ UNCHANGED <<mem, imm, files, next_epoch, last_sequence, jobVars, reader, current>>

ReleaseSnapshot(s) ==
  /\ snapshots' = snapshots \ {s}
  /\ UNCHANGED <<mem, imm, files, next_epoch, last_sequence, jobVars, reader, current>>

SnapshotSeqs == {s.seq : s \in snapshots}

-----------------------------------------------------------------------------
(* Writing *)

\* IngestExternalFiles is in the write thread, and with it nobody else.
WritersMayEnter == ingestion.phase = "idle"

Write(ks, type) ==
  LET seq == last_sequence + 1
      val == IF type = "put" THEN seq ELSE Absent
      now == [k \in Keys |-> IF k \in ks THEN val ELSE current[k]]
  IN  /\ WritersMayEnter
      /\ last_sequence < MaxWrites
      /\ mem' = mem \cup [key : ks, seq : {seq}, type : {type}, val : {val}]
      /\ last_sequence' = seq
      /\ current' = now
      /\ Watch(now)
      /\ UNCHANGED <<imm, files, next_epoch, snapshots, jobVars>>

Put(k) == Write({k}, "put")
Delete(k) == Write({k}, "del")
DeleteRange(ks) == Write(ks, "range")

\* The memtable becomes immutable, also for the reader that has pinned it.
Switch ==
  /\ imm' = Append(imm, mem)
  /\ mem' = {}
  /\ reader' = IF reader.phase = "begun" /\ reader.sv # <<>> /\ reader.sv[1].live
               THEN [reader EXCEPT !.sv = <<[@[1] EXCEPT !.live = FALSE, !.mem = mem]>>]
               ELSE reader

SwitchMemtable ==
  /\ WritersMayEnter
  /\ mem # {}
  /\ Switch
  /\ UNCHANGED <<files, next_epoch, last_sequence, snapshots, jobVars, current>>

-----------------------------------------------------------------------------
(* What a flush or a compaction keeps *)

\* The earliest snapshot that sees a version.
EarliestVisible(seq, snaps) == Min({s \in snaps : seq <= s} \cup {Tip})
Earliest(snaps) == Min(snaps \cup {Tip})

Points(entries) == {e \in entries : e.type # "range"}
Ranges(entries) == {e \in entries : e.type = "range"}

\* Some version among those given is newer than e, and no snapshot separates the two.
HiddenBy(e, versions, snaps) ==
  \E o \in versions :
    /\ o.key = e.key
    /\ o.seq > e.seq
    /\ EarliestVisible(o.seq, snaps) = EarliestVisible(e.seq, snaps)

\* ShouldDelete: a range tombstone of the input deletes the version.
ShouldDelete(e, entries, snaps) == HiddenBy(e, Ranges(entries), snaps)

\* A deletion of the given keys is obsolete when no snapshot is older and none of the
\* keys is deeper (gone has the keys that are not).  For a flush gone is {}.
Obsolete(e, ks, snaps, gone) == e.seq <= Earliest(snaps) /\ ks \subseteq gone

\* AddRangeDels: the range tombstones that are written to the output.
KeptRanges(entries, snaps, gone) ==
  LET same(e) == {o.key : o \in {r \in Ranges(entries) : r.seq = e.seq}}
  IN  {e \in Ranges(entries) :
        ~ShouldDelete(e, entries, snaps) /\ ~Obsolete(e, same(e), snaps, gone)}

\* NextFromInput: a version goes when a newer one hides it.  A deletion on the
\* bottommost level also goes when it deletes nothing of the input.
KeptPoints(entries, snaps, gone, bottommost) ==
  LET points == Points(entries)
      older(e) == \E o \in points :
                    o.key = e.key /\ EarliestVisible(o.seq, snaps) < EarliestVisible(e.seq, snaps)
  IN  {e \in points :
        /\ ~HiddenBy(e, points, snaps)
        /\ e.type = "del" => ~Obsolete(e, {e.key}, snaps, gone)
        /\ IF e.type = "del" /\ bottommost THEN older(e) ELSE ~ShouldDelete(e, entries, snaps)}

\* PrepareOutput: on the bottommost level the sequence number of a version that all
\* snapshots see becomes 0.
Zeroed(e, snaps, bottommost) ==
  IF bottommost /\ e.type = "put" /\ e.seq <= Earliest(snaps)
  THEN [e EXCEPT !.seq = 0] ELSE e

Output(entries, snaps, gone, bottommost) ==
  {Zeroed(e, snaps, bottommost) :
    e \in KeptPoints(entries, snaps, gone, bottommost) \cup KeptRanges(entries, snaps, gone)}

-----------------------------------------------------------------------------
(* Flush *)

\* FlushMemTablesToOutputFiles takes the snapshots, and how far the memtables go,
\* before it lets go of the mutex to sync the logs.
FlushMemTablesToOutputFiles ==
  /\ flush.phase = "idle"
  /\ imm # <<>>
  /\ flush' = [NoFlush EXCEPT !.phase = "begun", !.snaps = SnapshotSeqs, !.max = Len(imm)]
  /\ UNCHANGED <<mem, imm, files, next_epoch, last_sequence, snapshots, compactions,
                 ingestion, ingestions, reader, current>>

\* Mutant: all memtables there are by now.
PickedNow == Len(imm)

\* PickMemtablesToFlush: the memtables up to max_memtable_id.
PickedUpToMax == flush.max

PickMemTable ==
  /\ flush.phase = "begun"
  /\ flush' = [flush EXCEPT !.phase = "picked", !.max = PickedUpToMax, !.epoch = next_epoch]
  /\ next_epoch' = next_epoch + 1
  /\ UNCHANGED <<mem, imm, files, last_sequence, snapshots, compactions, ingestion,
                 ingestions, reader, current>>

\* WriteLevel0Table and the installation of its result.
WriteLevel0Table ==
  LET picked == UNION {imm[i] : i \in 1..flush.max} IN
  /\ flush.phase = "picked"
  /\ files' = files \cup
       {[level |-> 0, epoch |-> flush.epoch, data |-> Output(picked, flush.snaps, {}, FALSE)]}
  /\ imm' = SubSeq(imm, flush.max + 1, Len(imm))
  /\ flush' = NoFlush
  /\ UNCHANGED <<mem, next_epoch, last_sequence, snapshots, compactions, ingestion,
                 ingestions, reader, current>>

-----------------------------------------------------------------------------
(* Compaction *)

\* The level that level 0 is compacted to: the last one as long as there is no data,
\* then one not below the first with data (the choice depends on sizes).
BaseLevels ==
  LET filled == {n \in 1..MaxLevel : OnLevel(n) # {}}
  IN  IF filled = {} THEN {MaxLevel} ELSE 1..Min(filled)

BeingCompacted == UNION {c.inputs : c \in compactions}

\* What is registered as being written: compactions and, as one of them, the ingestion.
Outputs ==
  {[level |-> c.output_level, keys |-> FileKeys(c.inputs)] : c \in compactions}
    \cup (IF ingestion.phase = "logging"
          THEN {[level |-> ingestion.level, keys |-> ingestion.keys]} ELSE {})

\* The ingestion is not among the compactions from level 0.
level0_compactions_in_progress ==
  \E c \in compactions : \E f \in c.inputs : f.level = 0

\* Mutant: a range that a running compaction writes to is no reason not to.
RangeNeverOverlaps(n, ks) == FALSE

RangeOverlapWithCompaction(n, ks) ==
  \E o \in Outputs : o.level = n /\ Overlap(o.keys, ks)

\* GetOverlappingL0Files: the file and, again and again, those that overlap, until there
\* are no more.
GetOverlappingL0Files(f) ==
  LET closed(fs) == f \in fs /\ OverlapInLevel(0, FileKeys(fs)) \subseteq fs
  IN  {g \in OnLevel(0) : \A fs \in SUBSET OnLevel(0) : closed(fs) => g \in fs}

\* RangeMightExistAfterSortedRun, for an output to level n.  Behind inputs that stay on
\* level 0 any older file counts.
RangeMightExistAfterSortedRun(inputs, n) ==
  IF n = 0
  THEN \E f \in files \ inputs : f.level = 0 => \A i \in inputs : f.epoch < i.epoch
  ELSE \E m \in (n + 1)..MaxLevel : OverlapInLevel(m, FileKeys(inputs)) # {}

IsBottommostLevel(inputs, n) == ~RangeMightExistAfterSortedRun(inputs, n)

\* Mutant: nothing is deeper.
NothingBeyond(inputs, n) == FileKeys(inputs)

\* KeyNotExistsBeyondOutputLevel, in the version of the inputs.
KeysNotBeyond(inputs, n) ==
  {k \in FileKeys(inputs) :
    \/ IsBottommostLevel(inputs, n)
    \/ n # 0 /\ \A m \in (n + 1)..MaxLevel : OverlapInLevel(m, {k}) = {}}

\* RegisterCompaction, and the snapshots of the job, under the same mutex.
RegisterCompaction(inputs, n) ==
  /\ inputs \cap BeingCompacted = {}
  /\ compactions' = compactions \cup
       {[inputs |-> inputs, output_level |-> n, snaps |-> SnapshotSeqs,
         bottommost |-> IsBottommostLevel(inputs, n), gone |-> KeysNotBeyond(inputs, n)]}
  /\ UNCHANGED <<mem, imm, files, next_epoch, last_sequence, snapshots, flush, ingestion,
                 ingestions, reader, current>>

\* SetupOtherInputsIfNeeded
WithOutputLevel(inputs, n) ==
  LET all == inputs \cup OverlapInLevel(n, FileKeys(inputs)) IN
  /\ ~RangeOverlapWithCompaction(n, FileKeys(all))
  /\ RegisterCompaction(all, n)

\* From level 0 to the base level; two of these never run at a time.
CompactLevel0(f, n) ==
  /\ f \in OnLevel(0)
  /\ n \in BaseLevels
  /\ ~level0_compactions_in_progress
  /\ WithOutputLevel(GetOverlappingL0Files(f), n)

\* The newest files of level 0, up to one that is being compacted.
FindIntraL0Compaction ==
  {f \in OnLevel(0) : \A b \in BeingCompacted : b.level = 0 => f.epoch > b.epoch}

\* Within level 0.
PickIntraL0Compaction ==
  /\ Cardinality(FindIntraL0Compaction) >= 2
  /\ RegisterCompaction(FindIntraL0Compaction, 0)

\* From a level to the next one.
CompactToNextLevel(f) ==
  /\ f.level \in 1..(MaxLevel - 1)
  /\ WithOutputLevel({f}, f.level + 1)

\* ComputeBottommostFilesMarkedForCompaction: all snapshots see its versions by now.
MarkedForCompaction(f) ==
  /\ IsBottommostLevel({f}, f.level)
  /\ Max(Seqs(f.data)) # 0
  /\ Max(Seqs(f.data)) < Earliest(SnapshotSeqs)

\* Such a file is rewritten in place.
CompactBottommostFile(f) ==
  /\ f.level # 0 \/ ~level0_compactions_in_progress
  /\ MarkedForCompaction(f)
  /\ IF f.level = 0 THEN RegisterCompaction({f}, 0) ELSE WithOutputLevel({f}, f.level)

\* A file of its own that overlaps nothing may be moved as it is.
IsTrivialMove(c) == \E f \in c.inputs : c.inputs = {f} /\ f.level # c.output_level

\* Otherwise the output goes to one file, or to one for each key.
OutputFiles(c) ==
  LET data == Output(Data(c.inputs), c.snaps, c.gone, c.bottommost)
      epoch == IF c.output_level = 0 THEN Min({f.epoch : f \in c.inputs}) ELSE 0
      file(entries) == [level |-> c.output_level, epoch |-> epoch, data |-> entries]
      whole == IF data = {} THEN {} ELSE {file(data)}
      split == {file({e \in data : e.key = k}) : k \in KeysOf(data)}
      moved == {file(f.data) : f \in c.inputs}
  IN  {whole}
        \cup (IF c.output_level = 0 THEN {} ELSE {split})
        \cup (IF IsTrivialMove(c) THEN {moved} ELSE {})

\* CompactionJob::Install
InstallCompaction(c) ==
  /\ \E out \in OutputFiles(c) : files' = (files \ c.inputs) \cup out
  /\ compactions' = compactions \ {c}
  /\ UNCHANGED <<mem, imm, next_epoch, last_sequence, snapshots, flush, ingestion,
                 ingestions, reader, current>>

\* ReleaseCompactionFiles, when the compaction failed.
CompactionFails(c) ==
  /\ compactions' = compactions \ {c}
  /\ UNCHANGED <<mem, imm, files, next_epoch, last_sequence, snapshots, flush, ingestion,
                 ingestions, reader, current>>

-----------------------------------------------------------------------------
(* Ingestion *)

MemtableKeys == KeysOf(mem) \cup UNION {KeysOf(imm[i]) : i \in DOMAIN imm}

\* NeedsFlush
NeedsFlush(ks) == RangeOf(ks) \cap MemtableKeys # {}

\* Mutant: only the immutable memtables are flushed.
FlushImmutable == UNCHANGED <<mem, imm, reader>>

\* FlushMemTable, by the caller that is in the write thread.
FlushMemTable == IF mem = {} THEN UNCHANGED <<mem, imm, reader>> ELSE Switch

\* IngestExternalFiles enters the write thread and has the memtables flushed when
\* they have keys in the range of the file.
IngestExternalFiles(ks) ==
  /\ ingestion.phase = "idle"
  /\ ingestions < MaxIngestions
  /\ ingestions' = ingestions + 1
  /\ ingestion' = [NoIngestion EXCEPT !.phase = "entered", !.keys = ks,
                                      !.flushed = NeedsFlush(ks)]
  /\ IF NeedsFlush(ks) THEN FlushMemTable ELSE UNCHANGED <<mem, imm, reader>>
  /\ UNCHANGED <<files, next_epoch, last_sequence, snapshots, flush, compactions,
                 current>>

\* Level n has keys in the range of ks.
OverlapWithLevelIterator(n, ks) == RangeOf(ks) \cap FileKeys(OnLevel(n)) # {}

\* No file of level n has a range that overlaps the one of ks.
IngestedFileFitInLevel(n, ks) == n = 0 \/ OverlapInLevel(n, ks) = {}

\* AssignLevelAndSeqnoForIngestedFile: the deepest level where the file fits, above
\* the first one with keys in its range, or about to have some.  A sequence number of
\* its own, if there are such keys or snapshots.
AssignLevelAndSeqno(ks, base) ==
  LET checked == {0} \cup base..MaxLevel
      overlaps(n) == RangeOverlapWithCompaction(n, ks) \/ OverlapWithLevelIterator(n, ks)
      first == Min({n \in checked : overlaps(n)} \cup {MaxLevel + 1})
  IN  [level |-> Max({0} \cup {n \in checked : n < first /\ IngestedFileFitInLevel(n, ks)}),
       seq |-> IF first <= MaxLevel \/ snapshots # {} THEN last_sequence + 1 ELSE 0]

\* Run, once the flush is done: the level, the sequence number and the epoch of the file
\* are decided; then the MANIFEST is written without the mutex.
RunIngestion ==
  /\ ingestion.phase = "entered"
  /\ ingestion.flushed => mem = {} /\ imm = <<>>
  /\ \E base \in BaseLevels :
       LET to == AssignLevelAndSeqno(ingestion.keys, base) IN
       ingestion' = [ingestion EXCEPT !.phase = "logging", !.level = to.level, !.seq = to.seq,
                                      !.epoch = next_epoch]
  /\ next_epoch' = next_epoch + 1
  /\ UNCHANGED <<mem, imm, files, last_sequence, snapshots, flush, compactions,
                 ingestions, reader, current>>

SequenceAfterIngestion == Max({last_sequence, ingestion.seq})

\* LogAndApply returns; the version, the sequence number and the SuperVersion change
\* in one go, and writers go on.
InstallIngestion ==
  LET val == External(ingestions)
      now == [k \in Keys |-> IF k \in ingestion.keys THEN val ELSE current[k]]
      data == [key : ingestion.keys, seq : {ingestion.seq}, type : {"put"}, val : {val}]
  IN  /\ ingestion.phase = "logging"
      /\ files' = files \cup
           {[level |-> ingestion.level, data |-> data,
             epoch |-> IF ingestion.level = 0 THEN ingestion.epoch ELSE 0]}
      /\ last_sequence' = SequenceAfterIngestion
      /\ current' = now
      /\ Watch(now)
      /\ ingestion' = NoIngestion
      /\ UNCHANGED <<mem, imm, next_epoch, snapshots, flush, compactions, ingestions>>

\* The flush, Run or LogAndApply fails: nothing is installed.  The sequence number is
\* taken over even when it was LogAndApply.
IngestionFails ==
  /\ ingestion.phase # "idle"
  /\ last_sequence' = IF ingestion.phase = "logging" THEN SequenceAfterIngestion
                      ELSE last_sequence
  /\ ingestion' = NoIngestion
  /\ UNCHANGED <<mem, imm, files, next_epoch, snapshots, flush, compactions, ingestions,
                 reader, current>>

-----------------------------------------------------------------------------

FlushSteps == FlushMemTablesToOutputFiles \/ PickMemTable \/ WriteLevel0Table

Next ==
  \/ \E k \in Keys : Put(k) \/ Delete(k) \/ GetImpl(k)
  \/ DeleteRange(Keys)
  \/ SwitchMemtable
  \/ GetReturns \/ GetDone
  \/ GetSnapshot
  \/ \E s \in snapshots : ReleaseSnapshot(s)
  \/ FlushSteps
  \/ \E f \in files : CompactToNextLevel(f) \/ CompactBottommostFile(f)
  \/ \E f \in files, n \in Levels : CompactLevel0(f, n)
  \/ PickIntraL0Compaction
  \/ \E c \in compactions : InstallCompaction(c) \/ CompactionFails(c)
  \/ \E ks \in ExternalKeys : IngestExternalFiles(ks)
  \/ RunIngestion
  \/ InstallIngestion
  \/ IngestionFails

Spec == Init /\ [][Next]_vars

\* Background flushes run, and the caller of an ingestion goes on.
FairSpec == Spec /\ WF_vars(FlushSteps) /\ WF_vars(RunIngestion \/ InstallIngestion)

-----------------------------------------------------------------------------

Entries == [key : Keys, seq : 0..(Tip - 1), type : {"put", "del", "range"},
            val : -MaxIngestions..(Tip - 1)]

\* Types; no entry has a sequence number that readers do not reach.
TypeOK ==
  /\ mem \cup (UNION Range(imm)) \cup Data(files) \subseteq Entries
  /\ \A f \in files : f.level \in Levels /\ f.data # {}
  /\ last_sequence \in 0..(Tip - 1)
  /\ \A e \in mem \cup (UNION Range(imm)) \cup Data(files) : e.seq <= last_sequence
  /\ flush.phase \in {"idle", "begun", "picked"}
  /\ ingestion.phase \in {"idle", "entered", "logging"}
  /\ reader.phase \in {"idle", "begun", "returned"}
  /\ \A c \in compactions : c.inputs \subseteq files

\* The files of a level below 0 have ranges of keys of their own, whatever compactions
\* and ingestions install meanwhile: Get looks into one of them.
SortedRuns ==
  \A f, g \in files : f # g /\ f.level = g.level /\ f.level > 0 =>
    ~Overlap(KeysOf(f.data), KeysOf(g.data))

\* Reading finds what was last written, deleted or ingested: no flush or compaction
\* loses a value or brings a deleted one back.
CurrentReads ==
  LET places == Places(SuperVersion) IN
  \A k \in Keys : GetFrom(places, k, last_sequence) = current[k]

\* What a snapshot shows does not change until it is released.  The exception are the
\* keys of a file that was being ingested without a sequence number when the snapshot
\* was taken.
SnapshotStable ==
  LET places == Places(SuperVersion) IN
  \A s \in snapshots : \A k \in Keys \ s.late : GetFrom(places, k, s.seq) = s.view[k]

\* A Get without a snapshot returns a value that the key had during the call.
GetIsCurrent == reader.phase = "returned" => reader.value \in reader.seen

\* An ingestion, which keeps all writers waiting, ends.
IngestionEnds == ingestion.phase # "idle" ~> ingestion.phase = "idle"

=============================================================================
