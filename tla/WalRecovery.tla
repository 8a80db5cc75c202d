----------------------------- MODULE WalRecovery -----------------------------
(***************************************************************************)
(* How the batches that RocksDB has accepted survive: write-ahead logs,    *)
(* memtables, background flushes, the MANIFEST, the recycling of logs, and *)
(* point-in-time recovery when the database is opened after a crash        *)
(* (db/db_impl/*.cc, db/memtable_list.cc, db/flush_job.cc,                 *)
(* db/log_reader.cc), under the options of the storage: several column     *)
(* families, no sync per write, recycled logs.                             *)
(*                                                                         *)
(* A batch is one WAL record and one sequence number, and what it writes   *)
(* to a column family is its identity.  A bulk load is a batch that goes   *)
(* into tables without a log.  When the process dies the files             *)
(* stay as they are.  When the machine dies a log keeps what was synced    *)
(* and some of what was not.                                               *)
(***************************************************************************)
EXTENDS Integers, FiniteSets, SequencesExt

CONSTANTS
  CFs,          \* the column families
  Writes,       \* the sets of column families that a batch may write to
  Loads,        \* the sets of column families that files may be ingested into
  First,        \* the column families that the first batch wrote to
  Jobs,         \* the background flush threads
  NoJob,        \* none of them
  MaxBatches,   \* bound: how many batches are written
  MaxCrashes,   \* bound: how many times the database goes down
  MaxFailures   \* bound: how many flushes fail

ASSUME WalRecoveryAssumption ==
  /\ IsFiniteSet(CFs) /\ CFs # {}
  /\ Writes \cup Loads \subseteq SUBSET CFs \ {{}}
  /\ First \subseteq CFs
  /\ IsFiniteSet(Jobs)
  /\ NoJob \notin Jobs
  /\ {MaxBatches, MaxCrashes, MaxFailures} \subseteq Nat

VARIABLES
  phase,          \* "open", "down", "replayed" (in DB::Open), "refused"
  batches,        \* history: the column families and the sequence number of each batch,
                  \* and whether it went to a log
  written,        \* history: the batches in the database, in order
  wals,           \* the log files that may still be needed, by number
  cur_wal_number,
  wal_recycle_files,  \* how many logs wait to be recycled
  mem,            \* the batches in the memtable of each column family
  imm,            \* the immutable memtables, the oldest first
  log_number,     \* ColumnFamilyData::log_number_
  last_sequence,
  manifest,       \* files, log numbers, min_log_number_to_keep and last sequence
  job,            \* what each flush thread is doing
  stopped,        \* whether a background error stopped the database
  recovered,      \* in DB::Open: what the replay found
  why,            \* history: how the database last went down, and what that did
  parted,         \* history: the batches in logs that a bulk load parted from one that
                  \* ended in old records (see Parted)
  crashes, failures  \* how often each bounded event happened

memVars == <<mem, imm, log_number, last_sequence, job, stopped>>
fileVars == <<wals, cur_wal_number, wal_recycle_files, manifest>>
histVars == <<batches, written, why, parted>>
vars == <<phase, memVars, fileVars, histVars, recovered, crashes, failures>>

\* A log is created empty.  Behind its records is the end of the file, or, in a
\* recycled file, what is left of an old log.
NewWal(recycled) ==
  [recs |-> <<>>, synced |-> 0, end |-> IF recycled THEN "old" ELSE "clean",
   trim |-> FALSE, new |-> TRUE]

NoRecovery == [next |-> 0, stop |-> FALSE, corrupted |-> 0, found |-> FALSE,
               drop |-> FALSE, back |-> FALSE,
               mem |-> [c \in CFs |-> {}]]
IdleJob == [stage |-> "idle", cf |-> CHOOSE c \in CFs : TRUE, max |-> 0]
NoCrash == [os |-> FALSE, gap |-> FALSE, untrimmed |-> FALSE, durable |-> {}]

\* What was written so far, as one batch, was flushed; one of its logs was recycled as the
\* current one, and two more wait to be.
Init ==
  /\ phase = "open"
  /\ batches = <<[cfs |-> First, seq |-> 1, logged |-> TRUE]>>
  /\ written = <<1>>
  /\ wals = [n \in {2} |-> NewWal(TRUE)]
  /\ cur_wal_number = 2
  /\ wal_recycle_files = 2
  /\ mem = [c \in CFs |-> {}]
  /\ imm = [c \in CFs |-> <<>>]
  /\ log_number = [c \in CFs |-> 2]
  /\ last_sequence = 1
  /\ manifest = [files |-> [c \in CFs |-> IF c \in First THEN {1} ELSE {}],
                 log |-> [c \in CFs |-> 2], min_log |-> 2, last |-> 1]
  /\ job = [j \in Jobs |-> IdleJob]
  /\ stopped = FALSE
  /\ recovered = NoRecovery
  /\ why = NoCrash
  /\ parted = [old |-> {}, back |-> {}]
  /\ crashes = 0
  /\ failures = 0

-----------------------------------------------------------------------------

\* A batch goes to the log and to the memtables of its column families, and its
\* sequence number is published (the writers are one after the other, WriteThread).
WriteImpl(cfs) ==
  LET b == Len(batches) + 1 IN
  /\ phase = "open"
  /\ ~stopped
  /\ b <= MaxBatches
  /\ batches' = Append(batches, [cfs |-> cfs, seq |-> last_sequence + 1, logged |-> TRUE])
  /\ written' = Append(written, b)
  /\ wals' = [wals EXCEPT ![cur_wal_number].recs =
                Append(@, [seq |-> last_sequence + 1, batch |-> b])]
  /\ mem' = [c \in CFs |-> IF c \in cfs THEN mem[c] \cup {b} ELSE mem[c]]
  /\ last_sequence' = last_sequence + 1
  /\ UNCHANGED <<phase, why, parted, cur_wal_number, wal_recycle_files, manifest, imm, log_number,
                 job, stopped, recovered, crashes, failures>>

\* The last sequence number that the MANIFEST knows once these batches are in tables.
LastInTables(new) ==
  LET seqs == {manifest.last} \cup {batches[b].seq : b \in new}
  IN  CHOOSE m \in seqs : \A n \in seqs : n <= m

\* IngestExternalFiles, while no batch is written: the tables enter the MANIFEST, and
\* the sequence number they got is published.  When the MANIFEST cannot be written the
\* number is gone all the same.  A load that was let in goes on in a stopped database.
IngestExternalFiles(cfs) ==
  LET b == Len(batches) + 1
      n == last_sequence + 1
  IN  /\ phase = "open"
      /\ last_sequence' = n
      /\ \/ /\ b <= MaxBatches
            /\ batches' = Append(batches, [cfs |-> cfs, seq |-> n, logged |-> FALSE])
            /\ written' = Append(written, b)
            /\ manifest' = [manifest EXCEPT
                 !.files = [c \in CFs |-> IF c \in cfs THEN @[c] \cup {b} ELSE @[c]],
                 !.last = n]
            /\ UNCHANGED <<stopped, failures>>
         \/ /\ failures < MaxFailures
            /\ failures' = failures + 1
            /\ stopped' = TRUE
            /\ UNCHANGED <<batches, written, manifest>>
      /\ UNCHANGED <<phase, why, parted, wals, cur_wal_number, wal_recycle_files, mem, imm,
                     log_number, job, recovered, crashes>>

\* The memtable of a column family becomes immutable, because it or the logs are full
\* or for a manual flush.  Unless the current log is empty a new one is begun, in a
\* file to be recycled if there is one, and column families without unflushed data
\* need no log before it.
SwitchMemtable(c) ==
  LET creating_new_log == wals[cur_wal_number].recs # <<>>
      n == IF creating_new_log THEN cur_wal_number + 1 ELSE cur_wal_number
      empty == {d \in CFs : mem[d] = {} /\ imm[d] = <<>>}
  IN  /\ phase = "open"
      /\ ~stopped
      /\ mem[c] # {}
      /\ cur_wal_number' = n
      /\ wals' = IF creating_new_log
                 THEN [m \in DOMAIN wals \cup {n} |->
                         IF m = n THEN NewWal(wal_recycle_files > 0) ELSE wals[m]]
                 ELSE wals
      /\ wal_recycle_files' = IF creating_new_log /\ wal_recycle_files > 0
                              THEN wal_recycle_files - 1 ELSE wal_recycle_files
      /\ log_number' = [d \in CFs |-> IF creating_new_log /\ d \in empty THEN n
                                      ELSE log_number[d]]
      /\ imm' = [imm EXCEPT ![c] = Append(@, [batches |-> mem[c], next_log |-> n,
                                              job |-> NoJob, completed |-> FALSE])]
      /\ mem' = [mem EXCEPT ![c] = {}]
      /\ UNCHANGED <<phase, histVars, manifest, last_sequence, job, stopped, recovered,
                     crashes, failures>>

-----------------------------------------------------------------------------

\* Mutant: a flush syncs no log.
SyncNoWals == wals

\* SyncWalImpl without the current log: the others are synced and closed, which cuts
\* off what is left of an old log.  Nothing syncs that cut.
SyncClosedWals ==
  [n \in DOMAIN wals |->
     IF n = cur_wal_number THEN wals[n]
     ELSE [wals[n] EXCEPT !.synced = Len(wals[n].recs), !.new = FALSE, !.end = "clean",
                          !.trim = wals[n].trim \/ wals[n].end = "old"]]

\* FlushMemTableToOutputFile begins: it remembers the newest memtable there is, and
\* syncs the logs that are closed, during which the mutex is released.  Memtables of a
\* column family are told apart by the log that follows them.
FlushMemTableToOutputFile(j, c) ==
  /\ phase = "open"
  /\ ~stopped
  /\ job[j].stage = "idle"
  /\ \E i \in DOMAIN imm[c] : imm[c][i].job = NoJob
  /\ \/ /\ wals' = SyncClosedWals
        /\ job' = [job EXCEPT ![j] = [stage |-> "synced", cf |-> c,
                                      max |-> Last(imm[c]).next_log]]
        /\ UNCHANGED <<stopped, failures>>
     \/ /\ failures < MaxFailures
        /\ failures' = failures + 1
        /\ stopped' = TRUE
        /\ UNCHANGED <<wals, job>>
  /\ UNCHANGED <<phase, mem, imm, log_number, last_sequence, cur_wal_number,
                 wal_recycle_files, manifest, histVars, recovered, crashes>>

\* Mutant: memtables that became immutable during the sync are picked, too.
PickUpToNow(j) ==
  LET c == job[j].cf IN {i \in DOMAIN imm[c] : imm[c][i].job = NoJob}

\* The memtables that job j may flush: nobody flushes them, and they were there when
\* the job began.
PickUpToMax(j) ==
  LET c == job[j].cf
  IN  {i \in DOMAIN imm[c] : imm[c][i].job = NoJob /\ imm[c][i].next_log <= job[j].max}

\* PickMemtablesToFlush: the oldest of them, and those right behind it.  Not after an
\* error.
PickMemTable(j) ==
  LET c == job[j].cf
      free == PickUpToMax(j)
      picked == {i \in free : \A k \in free : k < i => k..i \subseteq free}
  IN  /\ phase = "open"
      /\ job[j].stage = "synced"
      /\ IF stopped \/ free = {}
         THEN /\ job' = [job EXCEPT ![j] = IdleJob]
              /\ UNCHANGED imm
         ELSE /\ imm' = [imm EXCEPT ![c] = [i \in DOMAIN @ |->
                           IF i \in picked THEN [@[i] EXCEPT !.job = j] ELSE @[i]]]
              /\ job' = [job EXCEPT ![j].stage = "writing"]
      /\ UNCHANGED <<phase, mem, log_number, last_sequence, stopped, fileVars, histVars,
                     recovered, crashes, failures>>

\* The memtables of a column family after RollbackMemtableFlush by job j: its own are
\* to be flushed again, and so are those right behind its first that are completed.
RollbackMemtableFlush(j, c) ==
  LET mine == {i \in DOMAIN imm[c] : imm[c][i].job = j /\ ~imm[c][i].completed}
      first == CHOOSE i \in mine : \A k \in mine : i <= k
      behind == {i \in DOMAIN imm[c] : /\ i > first
                                       /\ \A k \in (first + 1)..i : imm[c][k].completed}
  IN  [i \in DOMAIN imm[c] |->
         IF i \in mine \cup behind
         THEN [imm[c][i] EXCEPT !.job = NoJob, !.completed = FALSE]
         ELSE imm[c][i]]

\* The table cannot be written, or the MANIFEST, or the database was stopped meanwhile.
FlushFails(j) ==
  /\ phase = "open"
  /\ job[j].stage = "writing"
  /\ \/ stopped /\ UNCHANGED failures
     \/ /\ ~stopped
        /\ failures < MaxFailures
        /\ failures' = failures + 1
  /\ stopped' = TRUE
  /\ imm' = [imm EXCEPT ![job[j].cf] = RollbackMemtableFlush(j, job[j].cf)]
  /\ job' = [job EXCEPT ![j] = IdleJob]
  /\ UNCHANGED <<phase, mem, log_number, last_sequence, fileVars, histVars, recovered,
                 crashes>>

\* The logs that are needed once column family c needs none before n.
PrecomputeMinLogNumberToKeepNon2PC(c, n) ==
  CHOOSE m \in {n} \cup {log_number[d] : d \in CFs \ {c}} :
    \A l \in {n} \cup {log_number[d] : d \in CFs \ {c}} : m <= l

\* Mutant: a job installs its own memtables only.
CompletedByJob(done, j) ==
  CHOOSE k \in 0..Len(done) :
    /\ \A i \in 1..k : done[i].completed /\ done[i].job = j
    /\ k < Len(done) => ~(done[k + 1].completed /\ done[k + 1].job = j)

\* How many of the memtables, from the oldest on, are completed.
Completed(done, j) ==
  CHOOSE k \in 0..Len(done) :
    /\ \A i \in 1..k : done[i].completed
    /\ k < Len(done) => ~done[k + 1].completed

\* FindObsoleteFiles: logs that nobody needs any more are recycled.
FindObsoleteFiles(min_log) ==
  /\ wals' = [n \in {m \in DOMAIN wals : m >= min_log} |-> wals[n]]
  /\ wal_recycle_files' = wal_recycle_files + Cardinality({m \in DOMAIN wals : m < min_log})

\* TryInstallMemtableFlushResults: the table is written.  Tables enter the MANIFEST in
\* the order of their memtables, so it may be another job that installs this one.
TryInstallMemtableFlushResults(j) ==
  LET c == job[j].cf
      done == [i \in DOMAIN imm[c] |-> IF imm[c][i].job = j
                                       THEN [imm[c][i] EXCEPT !.completed = TRUE]
                                       ELSE imm[c][i]]
      count == Completed(done, j)
      next_log == done[count].next_log
      min_log == PrecomputeMinLogNumberToKeepNon2PC(c, next_log)
  IN  /\ phase = "open"
      /\ job[j].stage = "writing"
      /\ ~stopped
      /\ job' = [job EXCEPT ![j] = IdleJob]
      /\ IF count = 0
         THEN /\ imm' = [imm EXCEPT ![c] = done]
              /\ UNCHANGED <<manifest, log_number, wals, wal_recycle_files>>
         ELSE /\ imm' = [imm EXCEPT ![c] = SubSeq(done, count + 1, Len(done))]
              /\ manifest' = [files |-> [manifest.files EXCEPT ![c] =
                                           @ \cup UNION {done[i].batches : i \in 1..count}],
                              log |-> [manifest.log EXCEPT ![c] = next_log],
                              min_log |-> min_log,
                              last |-> LastInTables(UNION {done[i].batches : i \in 1..count})]
              /\ log_number' = [log_number EXCEPT ![c] = next_log]
              /\ FindObsoleteFiles(min_log)
      /\ UNCHANGED <<phase, mem, last_sequence, stopped, cur_wal_number, histVars, recovered,
                     crashes, failures>>

-----------------------------------------------------------------------------

\* The batches in the database that are in tables or in the synced part of a log.
Durable ==
  ToSet(written) \cap
    ((UNION {manifest.files[c] : c \in CFs}) \cup
     (UNION {{wals[n].recs[i].batch : i \in 1..wals[n].synced} : n \in DOMAIN wals}))

\* The batches in the files behind log m when a bulk load took a sequence number between
\* them and the records up to that log.
Parted(files, m) ==
  LET seqs(logs) == {r.seq : r \in UNION {ToSet(files[n].recs) : n \in logs}}
      behind == {n \in DOMAIN files : n > m}
      parts(seq) == /\ \A s \in seqs(DOMAIN files \ behind) : s < seq
                    /\ \A s \in seqs(behind) : s > seq
  IN  IF \E b \in DOMAIN batches : ~batches[b].logged /\ parts(batches[b].seq)
      THEN {r.batch : r \in UNION {ToSet(files[n].recs) : n \in behind}}
      ELSE {}

\* Memory is gone, and files is what is left of the logs.
GoDown(files, how) ==
  /\ phase \in {"open", "replayed"}
  /\ crashes < MaxCrashes
  /\ crashes' = crashes + 1
  /\ phase' = "down"
  /\ wals' = files
  /\ wal_recycle_files' = 0
  /\ mem' = [c \in CFs |-> {}]
  /\ imm' = [c \in CFs |-> <<>>]
  /\ log_number' = manifest.log
  /\ last_sequence' = manifest.last
  /\ job' = [j \in Jobs |-> IdleJob]
  /\ stopped' = FALSE
  /\ recovered' = NoRecovery
  /\ why' = [how EXCEPT !.untrimmed = @ \/ why.untrimmed]
  /\ parted' = LET old == {n \in DOMAIN files : files[n].end = "old"}
                   back == {n \in old : wals[n].end = "clean"}
               IN  [old |-> parted.old \cup UNION {Parted(files, n) : n \in old},
                    back |-> parted.back \cup UNION {Parted(files, n) : n \in back}]
  /\ UNCHANGED <<batches, written, cur_wal_number, manifest, failures>>

\* The process dies: the files stay as they are.
ProcessCrash == GoDown(wals, NoCrash)

\* ~DBImpl: the logs are closed.  Background work has ended.
Close ==
  /\ phase = "open"
  /\ \A j \in Jobs : job[j].stage = "idle"
  /\ GoDown([n \in DOMAIN wals |-> [wals[n] EXCEPT !.end = "clean",
                                                   !.trim = @ \/ wals[n].end = "old"]],
            NoCrash)

\* What may be left of a log when the machine dies: the synced records and some more,
\* the last of them perhaps torn; the rest of an old log behind them, when its removal
\* was not synced; nothing at all, when not even its name was.
Remains(w) ==
  {r \in {[recs |-> SubSeq(w.recs, 1, k), synced |-> k, end |-> e, trim |-> FALSE,
           new |-> FALSE] : k \in 0..Len(w.recs), e \in {"clean", "old", "torn"}} :
     \/ r.synced = 0 /\ r.end = "clean" /\ w.new
     \/ /\ r.synced >= w.synced
        /\ \/ r.end = w.end
           \/ r.end = "torn" /\ r.synced < Len(w.recs)
           \/ r.end = "old" /\ w.trim}

\* A log lost its last records without a trace although later ones are there.
Gap(files) ==
  \E m, n \in DOMAIN wals : /\ m < n
                            /\ files[m].end = "clean"
                            /\ files[m].synced < Len(wals[m].recs)
                            /\ files[n].synced > 0

\* The logs as they may be left, each for itself.
AllRemains ==
  FoldSet(LAMBDA n, some : {f @@ (n :> r) : f \in some, r \in Remains(wals[n])},
          {<<>>}, DOMAIN wals)

\* The machine dies.
OsCrash ==
  /\ phase \in {"open", "replayed"}
  /\ crashes < MaxCrashes
  /\ \E files \in AllRemains :
       GoDown(files, [os |-> TRUE, gap |-> Gap(files), durable |-> Durable,
                      untrimmed |-> \E n \in DOMAIN wals :
                                     wals[n].trim /\ files[n].end = "old"])

-----------------------------------------------------------------------------

\* Mutant: replay goes on behind a corrupted record as if nothing was lost.
NeverStopReplay(s, r) == FALSE

\* Mutant: replay never goes on after corruption.
StopReplayForGood(s, r) == s.stop

\* After corruption replay goes on with a record that has the next sequence number.
MaybeReviseStopReplayForCorruption(s, r) == s.stop /\ r.seq # s.next

\* Whether column family c has no table yet with what log n holds of it.
Needs(c, n) == manifest.log[c] <= n

\* The memtables after record r of log n: the batch enters those of the column families
\* that still need the log.
InsertLogRecordToMemtable(s, n, r) ==
  LET cfs == IF r.batch = 0 THEN {} ELSE batches[r.batch].cfs
  IN  [c \in CFs |-> IF c \in cfs /\ Needs(c, n) THEN s.mem[c] \cup {r.batch} ELSE s.mem[c]]

ProcessLogRecord(s, n, r) ==
  IF MaybeReviseStopReplayForCorruption(s, r) THEN [s EXCEPT !.drop = TRUE]
  ELSE LET next == IF r.batch = 0 THEN r.seq ELSE r.seq + 1
       IN  [s EXCEPT !.stop = FALSE, !.next = next, !.back = @ \/ next < s.next,
                     !.mem = InsertLogRecordToMemtable(s, n, r)]

\* ReadRecord behind the last record of log n: the end of the file, or a record that is
\* torn or belongs to an old log.
ReadRecordFails(n) == wals[n].end # "clean"

\* Both count as corruption.
HandleNonOkStatusOrOldLogRecord(s, n) ==
  IF ReadRecordFails(n) THEN [s EXCEPT !.stop = TRUE, !.corrupted = n, !.found = TRUE] ELSE s

\* ProcessLogFile: a log is read up to its end or to a record that does not follow.
ProcessLogFile(s, n) ==
  LET read == FoldLeft(LAMBDA t, r : IF t.drop THEN t ELSE ProcessLogRecord(t, n, r),
                       [s EXCEPT !.drop = FALSE], wals[n].recs)
  IN  IF read.drop THEN read ELSE HandleNonOkStatusOrOldLogRecord(read, n)

\* The logs to replay: those that a column family may need.
MinWalNumber ==
  LET oldest == CHOOSE n \in {manifest.log[c] : c \in CFs} :
                  \A c \in CFs : n <= manifest.log[c]
  IN  IF manifest.min_log > oldest THEN manifest.min_log ELSE oldest

ProcessLogFiles ==
  FoldLeft(ProcessLogFile, NoRecovery,
           SetToSortSeq({n \in DOMAIN wals : n >= MinWalNumber}, <))

\* MaybeHandleStopReplayForCorruptionForInconsistency: a column family has tables with
\* data from behind the corrupted log.
Inconsistent(s) ==
  s.stop /\ \E c \in CFs : manifest.log[c] > s.corrupted /\ manifest.files[c] # {}

\* That, or the sequence number went back (CheckSeqnoNotSetBackDuringRecovery).
Refuses(s) == s.back \/ Inconsistent(s)

\* The last sequence number: of the replayed records or of the MANIFEST.
LastSequence(s) == IF s.next - 1 > manifest.last THEN s.next - 1 ELSE manifest.last

\* DB::Open up to the MANIFEST: the logs are replayed, and a new one is begun.  If one
\* was corrupted, the new one begins with an empty batch that has the next sequence
\* number, and that is synced.
Recover ==
  LET s == ProcessLogFiles
      n == 1 + CHOOSE m \in {cur_wal_number} \cup DOMAIN wals :
                 \A l \in {cur_wal_number} \cup DOMAIN wals : l <= m
      first == IF s.found /\ s.next # 0 THEN <<[seq |-> s.next, batch |-> 0]>> ELSE <<>>
      present == UNION {manifest.files[c] \cup s.mem[c] : c \in CFs}
  IN  /\ phase = "down"
      /\ IF Refuses(s)
         THEN /\ phase' = "refused"
              /\ UNCHANGED <<wals, cur_wal_number, recovered, last_sequence, written>>
         ELSE /\ phase' = "replayed"
              /\ wals' = [m \in DOMAIN wals \cup {n} |->
                            IF m = n THEN [NewWal(FALSE) EXCEPT !.recs = first,
                                                                !.synced = Len(first)]
                            ELSE wals[m]]
              /\ cur_wal_number' = n
              /\ recovered' = s
              /\ last_sequence' = LastSequence(s)
              /\ written' = SelectSeq(written, LAMBDA b : b \in present)
      /\ UNCHANGED <<mem, imm, log_number, job, stopped, wal_recycle_files, manifest,
                     batches, why, parted, crashes, failures>>

\* The tables of a column family with what was replayed into its memtable.
WriteLevel0TableForRecovery(c) == manifest.files[c] \cup recovered.mem[c]

\* A new MANIFEST lists them, and the old logs are deleted (LogAndApplyForRecovery and
\* the end of DB::Open).
LogAndApplyForRecovery ==
  LET n == cur_wal_number IN
  /\ phase = "replayed"
  /\ phase' = "open"
  /\ manifest' = IF DOMAIN wals = {n} THEN manifest
                 ELSE [files |-> [c \in CFs |-> WriteLevel0TableForRecovery(c)],
                       log |-> [c \in CFs |-> n], min_log |-> n,
                       last |-> LastInTables(UNION {recovered.mem[c] : c \in CFs})]
  /\ log_number' = manifest'.log
  /\ wals' = [m \in {n} |-> wals[m]]
  /\ recovered' = NoRecovery
  /\ why' = NoCrash
  /\ UNCHANGED <<mem, imm, last_sequence, job, stopped, cur_wal_number, wal_recycle_files,
                 batches, written, parted, crashes, failures>>

-----------------------------------------------------------------------------

\* The database is left alone, or cannot be opened.
Finished ==
  /\ \/ phase = "refused"
     \/ phase = "open" /\ (stopped \/ \A c \in CFs : imm[c] = <<>>)
  /\ UNCHANGED vars

Flush(j) ==
  \/ \E c \in CFs : FlushMemTableToOutputFile(j, c)
  \/ PickMemTable(j)
  \/ FlushFails(j)
  \/ TryInstallMemtableFlushResults(j)

Next ==
  \/ \E cfs \in Writes : WriteImpl(cfs)
  \/ \E cfs \in Loads : IngestExternalFiles(cfs)
  \/ \E c \in CFs : SwitchMemtable(c)
  \/ \E j \in Jobs : Flush(j)
  \/ ProcessCrash
  \/ Close
  \/ OsCrash
  \/ Recover
  \/ LogAndApplyForRecovery
  \/ Finished

Spec == Init /\ [][Next]_vars

\* Some background thread runs when one has work.
FairSpec == Spec /\ WF_vars(\E j \in Jobs : Flush(j))

-----------------------------------------------------------------------------

\* Types; and the current log exists while the database is open.
TypeOK ==
  /\ phase \in {"open", "down", "replayed", "refused"}
  /\ \A c \in CFs : mem[c] \cup manifest.files[c] \subseteq DOMAIN batches
  /\ ToSet(written) \subseteq DOMAIN batches
  /\ log_number \in [CFs -> Nat]
  /\ last_sequence \in Nat
  /\ \A j \in Jobs : job[j].stage \in {"idle", "synced", "writing"}
  /\ \A n \in DOMAIN wals : wals[n].synced \in 0..Len(wals[n].recs)
  /\ phase \in {"open", "replayed"} => cur_wal_number \in DOMAIN wals

Content(c) ==
  manifest.files[c] \cup mem[c] \cup recovered.mem[c]
    \cup UNION {imm[c][i].batches : i \in DOMAIN imm[c]}

\* A batch of several column families, a quad in its indexes, is there in all of them
\* or in none, whichever were flushed before a crash and whatever the logs lost.  Only
\* when the end of an old log that had been cut off comes back, and files were ingested
\* behind that log, is it not noticed that a table has what replay drops.
AllOrNothing ==
  phase \in {"open", "replayed"} =>
    \A b \in DOMAIN batches \ parted.back :
      \/ \A c \in batches[b].cfs : b \in Content(c)
      \/ \A c \in batches[b].cfs : b \notin Content(c)

\* What is recovered of the batches that went to the logs is the database as it once
\* was: the first of them, none left out.  Unless a log that was not recycled lost its
\* last records without a trace, which nothing can notice that is not synced.
Logged(bs) == SelectSeq(bs, LAMBDA b : batches[b].logged)
RecoversPrefix ==
  [][phase = "down" /\ phase' = "replayed" /\ ~why.gap
       => IsPrefix(Logged(written'), Logged(written))]_vars

\* When only the process dies nothing is lost, although nothing was synced and logs
\* end in the records of old ones.  When the machine dies, what was synced or flushed
\* is not lost.  There is one exception, in logs behind one that ends in old records:
\* replay goes on there only with the very next sequence number, and if an ingestion
\* took that one, it drops them.
NothingDurableLost ==
  [][phase = "down" /\ phase' = "replayed" =>
       /\ ~why.os => ToSet(written) \ parted.old \subseteq ToSet(written')
       /\ why.durable \ parted.back \subseteq ToSet(written')]_vars

\* The database opens again after every crash, unless the end of an old log that had
\* been cut off came back.
RefusedOnlyUntrimmed == phase = "refused" => why.untrimmed

\* An immutable memtable is flushed in the end, in whatever order the jobs finish and
\* whoever has to install the table of another, unless the database stops.
FlushCompletes ==
  \A c \in CFs : imm[c] # <<>> ~> imm[c] = <<>> \/ stopped \/ phase # "open"

=============================================================================
