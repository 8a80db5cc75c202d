----------------------------- MODULE WriteThread -----------------------------
(***************************************************************************)
(* How RocksDB orders and groups concurrent writes (db/write_thread.cc and *)
(* WriteImpl of db/db_impl/db_impl_write.cc), under the storage's options: *)
(* no pipelined or unordered write, one write queue, parallel memtable     *)
(* inserts.                                                                *)
(*                                                                         *)
(* Threads push a Writer, an object on their stack, on a lock-free list.   *)
(* The oldest one is the leader: it takes compatible writers into its      *)
(* group, defers the others behind it, writes the group to the WAL, lets   *)
(* every member insert its batch, and whoever inserts last publishes the   *)
(* sequence number, hands the lead over, and completes the others.  An     *)
(* unbatched writer (a flush, an ingestion) leads alone; an ingestion may  *)
(* take a sequence number for its files.                                   *)
(***************************************************************************)
EXTENDS Integers, FiniteSets, SequencesExt

CONSTANTS
  Writers,            \* the threads; each has at most one Writer at a time
  write_stall_dummy,  \* the Writer that stands for a write stall
  NULL,               \* nullptr
  Sizes,              \* the sizes of batches, bytes and entries alike
  max_size,           \* how much one group may write
  MinParallelSize,    \* from which size on members help to wake a group, 20
  Stride,             \* by the size of such a group, the root of it, rounded down
  MaxCalls,           \* bound: how many calls are made
  MaxStalls,          \* bound: how often writes are stopped
  MaxFailures         \* bound: how many WAL writes or inserts fail

ASSUME WriteThreadAssumption ==
  /\ IsFiniteSet(Writers)
  /\ write_stall_dummy \notin Writers
  /\ NULL \notin Writers \cup {write_stall_dummy}
  /\ Sizes \subseteq Nat \ {0}
  /\ {max_size, MaxCalls, MaxStalls, MaxFailures} \subseteq Nat
  /\ MinParallelSize \in Nat \ 0..2
  /\ \A n \in MinParallelSize..Cardinality(Writers) : Stride[n] \in 1..(n - 1)

Nodes == Writers \cup {write_stall_dummy}

VARIABLES
  pc,             \* where each thread is
  op,             \* history: the number of its call, 0 without one
  batch,          \* the size of its batch, 0 for nullptr (unbatched)
  state,          \* Writer::state
  ok,             \* Writer::status.ok(), and the status local to WriteImpl; for an
                  \* unbatched writer, whether an ingestion was let in
  sequence,       \* Writer::sequence
  write_group,    \* Writer::write_group, as the leader that owns it
  group,          \* the WriteGroup each leader owns
  cursor,         \* the writer a thread that leaves completes next
  link_older,
  link_newer,
  newest_writer,
  last_sequence,  \* VersionSet::last_sequence_
  wal,            \* the batches in the WAL, in order
  mem,            \* the entries in the memtables
  ingested,       \* history: the sequence numbers that ingestions took
  stopped,        \* whether a background error stopped the database
  acked,          \* history: the calls that returned OK
  refused,        \* history: the calls that returned an error
  calls, stalls, failures  \* how often each bounded event happened

queueVars == <<link_older, link_newer, newest_writer>>
dataVars == <<last_sequence, wal, mem, ingested>>
resultVars == <<acked, refused>>
countVars == <<calls, stalls, failures>>
vars == <<pc, op, batch, state, ok, sequence, write_group, group, cursor, queueVars,
          dataVars, stopped, resultVars, countVars>>

NoGroup == [last_writer |-> NULL, newest |-> NULL, re |-> NULL, running |-> 0,
            ok |-> TRUE, last_sequence |-> 0, open |-> FALSE]

Init ==
  /\ pc = [w \in Writers |-> "idle"]
  /\ op = [w \in Writers |-> 0]
  /\ batch = [w \in Writers |-> 0]
  /\ state = [w \in Writers |-> "INIT"]
  /\ ok = [w \in Writers |-> TRUE]
  /\ sequence = [w \in Writers |-> 0]
  /\ write_group = [w \in Writers |-> NULL]
  /\ group = [w \in Writers |-> NoGroup]
  /\ cursor = [w \in Writers |-> NULL]
  /\ link_older = [n \in Nodes |-> NULL]
  /\ link_newer = [n \in Nodes |-> NULL]
  /\ newest_writer = NULL
  /\ last_sequence = 0
  /\ wal = <<>>
  /\ mem = {}
  /\ ingested = {}
  /\ stopped = FALSE
  /\ acked = {}
  /\ refused = {}
  /\ calls = 0
  /\ stalls = 0
  /\ failures = 0

-----------------------------------------------------------------------------

\* The nodes from one on along links, up to the node to or the end of the list.
Path(links, from, to) ==
  LET hop[k \in Nat] == IF k = 0 THEN from ELSE links[hop[k - 1]]
      end == CHOOSE k \in 1..Cardinality(Nodes) :
               /\ hop[k - 1] = to \/ links[hop[k - 1]] = NULL
               /\ \A j \in 1..(k - 1) : hop[j - 1] # to
  IN  [i \in 1..end |-> hop[i - 1]]

\* The members of the group that l leads: the range-for over a WriteGroup.
Members(l) == Path(link_newer, l, group[l].last_writer)

\* link_newer after CreateMissingNewerLinks(head): from head on to the older ones, up
\* to the first that has a newer link.
CreateMissingNewerLinks(head) ==
  LET older == [n \in Nodes |-> IF link_older[n] = NULL THEN n
                                ELSE IF link_newer[link_older[n]] # NULL THEN n
                                ELSE link_older[n]]
      hop[k \in Nat] == IF k = 0 THEN head ELSE older[hop[k - 1]]
      passed == {hop[k] : k \in 0..Cardinality(Nodes)}
  IN  [n \in Nodes |-> IF n \in passed \ {head}
                       THEN CHOOSE m \in passed : link_older[m] = n
                       ELSE link_newer[n]]

\* A thread calls DB::Write with a batch, or EnterUnbatched without one.  A stopped
\* database lets no ingestion in (ReserveFileNumbersBeforeIngestion).
Call(w) ==
  /\ pc[w] = "idle"
  /\ calls < MaxCalls
  /\ calls' = calls + 1
  /\ \E n \in Sizes \cup {0} : batch' = [batch EXCEPT ![w] = n]
  /\ op' = [op EXCEPT ![w] = calls']
  /\ ok' = [ok EXCEPT ![w] = batch'[w] # 0 \/ ~stopped]
  /\ pc' = [pc EXCEPT ![w] = "link"]
  /\ UNCHANGED <<state, sequence, write_group, group, cursor, queueVars, dataVars,
                 stopped, resultVars, stalls, failures>>

\* LinkOne, in JoinBatchGroup and EnterUnbatched; a writer waits for the end of a
\* stall first.  The first in the list leads.
LinkOne(w) ==
  LET leads == newest_writer = NULL IN
  /\ pc[w] = "link"
  /\ newest_writer # write_stall_dummy
  /\ link_older' = [link_older EXCEPT ![w] = newest_writer]
  /\ newest_writer' = w
  /\ state' = IF leads THEN [state EXCEPT ![w] = "GROUP_LEADER"] ELSE state
  /\ pc' = [pc EXCEPT ![w] = "wait"]
  /\ UNCHANGED <<op, batch, ok, sequence, write_group, group, cursor, link_newer,
                 dataVars, stopped, resultVars, countVars>>

-----------------------------------------------------------------------------

\* A thread with a batch was told to lead (AwaitState returns).
Leads(w) == pc[w] = "wait" /\ state[w] = "GROUP_LEADER" /\ batch[w] # 0

\* PreprocessWrite of a leader: a stopped database fails the write.
PreprocessWrite(w) ==
  /\ Leads(w)
  /\ ok' = [ok EXCEPT ![w] = ~stopped]
  /\ pc' = [pc EXCEPT ![w] = "enter"]
  /\ UNCHANGED <<op, batch, state, sequence, write_group, group, cursor, queueVars,
                 dataVars, stopped, resultVars, countVars>>

\* link_older and newest_writer with the dummy at the end of the list.
BeginWriteStall ==
  /\ link_older' = [link_older EXCEPT ![write_stall_dummy] = newest_writer]
  /\ newest_writer' = write_stall_dummy

\* DelayWrite of a leader, in PreprocessWrite: while the write controller stops writes,
\* it waits.
DelayWrite(w) ==
  /\ Leads(w)
  /\ ~stopped
  /\ stalls < MaxStalls
  /\ stalls' = stalls + 1
  /\ BeginWriteStall
  /\ pc' = [pc EXCEPT ![w] = "stalled"]
  /\ UNCHANGED <<op, batch, state, ok, sequence, write_group, group, cursor, link_newer,
                 dataVars, stopped, resultVars, calls, failures>>

\* EndWriteStall, once background work has caught up or an error ends the wait.
EndWriteStall(w) ==
  LET older == link_older[write_stall_dummy] IN
  /\ pc[w] = "stalled"
  /\ link_newer' = [link_newer EXCEPT ![older] = link_newer[write_stall_dummy]]
  /\ newest_writer' = older
  /\ ok' = [ok EXCEPT ![w] = ~stopped]
  /\ pc' = [pc EXCEPT ![w] = "enter"]
  /\ UNCHANGED <<op, batch, state, sequence, write_group, group, cursor, link_older,
                 dataVars, stopped, resultVars, countVars>>

\* The writers of the queue that join the leader's group and those that do not, each
\* in the order of the queue.
Partition(queue) ==
  FoldLeft(LAMBDA p, n :
             IF batch[n] # 0 /\ p.size + batch[n] <= max_size
             THEN [p EXCEPT !.in = Append(@, n), !.size = @ + batch[n]]
             ELSE [p EXCEPT !.out = Append(@, n)],
           [in |-> <<queue[1]>>, out |-> <<>>, size |-> batch[queue[1]]], Tail(queue))

\* Neighbours in order, and the links of the nodes that are not in it.
Older(order, links) ==
  [n \in Nodes |-> IF \E i \in 2..Len(order) : order[i] = n
                   THEN order[(CHOOSE i \in 2..Len(order) : order[i] = n) - 1]
                   ELSE links[n]]
Newer(order, links) ==
  [n \in Nodes |-> IF \E i \in 1..(Len(order) - 1) : order[i] = n
                   THEN order[(CHOOSE i \in 1..(Len(order) - 1) : order[i] = n) + 1]
                   ELSE IF n = Last(order) THEN NULL ELSE links[n]]

\* EnterAsBatchGroupLeader up to the end of its loop: the queue as it is now is
\* divided, and linked anew with the deferred writers behind the group.
EnterAsBatchGroupLeader(w) ==
  /\ pc[w] = "enter"
  /\ \E p \in {Partition(Reverse(Path(link_older, newest_writer, w)))} :
     \E order \in {p.in \o p.out} :
       /\ link_older' = Older(order, link_older)
       /\ link_newer' = Newer(order, CreateMissingNewerLinks(newest_writer))
       /\ group' = [group EXCEPT ![w] =
                      [@ EXCEPT !.last_writer = Last(p.in), !.newest = newest_writer,
                                !.re = IF p.out = <<>> THEN NULL ELSE Last(p.out),
                                !.open = TRUE]]
       /\ write_group' = [n \in Writers |-> IF n \in ToSet(p.in) THEN w ELSE write_group[n]]
       /\ pc' = [pc EXCEPT ![w] = IF p.out = <<>> THEN "wal" ELSE "graft"]
  /\ UNCHANGED <<op, batch, state, ok, sequence, cursor, newest_writer, dataVars,
                 stopped, resultVars, countVars>>

\* The end of EnterAsBatchGroupLeader: writers that were pushed meanwhile go behind
\* the deferred ones; without any, the last deferred one is the newest.
Graft(w) ==
  LET s == Path(link_older, newest_writer, NULL)
      i == CHOOSE i \in DOMAIN s : /\ link_older[s[i]] = group[w].newest
                                   /\ \A j \in 1..(i - 1) : link_older[s[j]] # group[w].newest
  IN  /\ pc[w] = "graft"
      /\ \/ /\ newest_writer = group[w].newest
            /\ newest_writer' = group[w].re
            /\ UNCHANGED link_older
         \/ /\ newest_writer # group[w].newest
            /\ link_older' = [link_older EXCEPT ![s[i]] = group[w].re]
            /\ UNCHANGED newest_writer
      /\ pc' = [pc EXCEPT ![w] = "wal"]
      /\ UNCHANGED <<op, batch, state, ok, sequence, write_group, group, cursor,
                     link_newer, dataVars, stopped, resultVars, countVars>>

\* The first sequence number of each member, consecutive in the order of the group.
FirstSequence(members, i) ==
  last_sequence + 1 + FoldLeft(LAMBDA n, m : n + batch[m], 0, SubSeq(members, 1, i - 1))

\* states, once every stride-th of the members, from the first on, is told to insert.
EachStride(states, members, stride) ==
  [n \in Writers |-> IF \E i \in DOMAIN members : members[i] = n /\ (i - 1) % stride = 0
                     THEN "PARALLEL_MEMTABLE_WRITER" ELSE states[n]]

\* The states of the writers once the members of a group of several are told to insert:
\* all of them or, in a large group, the leader, every stride-th behind the first
\* stride, and these first ones to tell the rest.
LaunchParallelMemTableWriters(members) ==
  LET size == Len(members)
      stride == Stride[size]
      callers == {members[i] : i \in 2..stride}
  IN  IF size = 1 THEN state
      ELSE IF size < MinParallelSize THEN EachStride(state, members, 1)
      ELSE EachStride([n \in Writers |->
                         IF n = members[1] THEN "PARALLEL_MEMTABLE_WRITER"
                         ELSE IF n \in callers THEN "PARALLEL_MEMTABLE_CALLER"
                         ELSE state[n]],
                      SubSeq(members, stride + 1, size), stride)

\* WriteGroupToWAL succeeds, and the members get their sequence numbers.
WriteGroupToWAL(w) ==
  LET m == Members(w) IN
  /\ pc[w] = "wal"
  /\ ok[w]
  /\ wal' = wal \o [i \in 1..Len(m) |-> [op |-> op[m[i]], first |-> FirstSequence(m, i),
                                         count |-> batch[m[i]]]]
  /\ sequence' = [n \in Writers |-> IF n \in ToSet(m)
                    THEN FirstSequence(m, CHOOSE i \in DOMAIN m : m[i] = n) ELSE sequence[n]]
  /\ group' = [group EXCEPT ![w] =
                 [@ EXCEPT !.running = IF Len(m) = 1 THEN 0 ELSE Len(m),
                           !.last_sequence = FirstSequence(m, Len(m) + 1) - 1]]
  /\ state' = LaunchParallelMemTableWriters(m)
  /\ pc' = [pc EXCEPT ![w] = "insert"]
  /\ UNCHANGED <<op, batch, ok, write_group, cursor, queueVars, last_sequence, mem,
                 ingested, stopped, resultVars, countVars>>

\* A member that was told to help tells itself and every stride-th behind it.
SetMemWritersEachStride(w) ==
  LET l == write_group[w] IN
  /\ pc[w] = "wait"
  /\ state[w] = "PARALLEL_MEMTABLE_CALLER"
  /\ state' = EachStride(state, Path(link_newer, w, group[l].last_writer),
                         Stride[Len(Members(l))])
  /\ UNCHANGED <<pc, op, batch, ok, sequence, write_group, group, cursor, queueVars,
                 dataVars, stopped, resultVars, countVars>>

\* The write was to fail from the start, or the WAL cannot be written
\* (WALIOStatusCheck): the group leaves without inserting.
NotWritten(w) ==
  /\ pc[w] = "wal"
  /\ \/ ~ok[w] /\ UNCHANGED <<stopped, failures>>
     \/ /\ ok[w]
        /\ failures < MaxFailures
        /\ failures' = failures + 1
        /\ stopped' = TRUE
  /\ ok' = [ok EXCEPT ![w] = FALSE]
  /\ pc' = [pc EXCEPT ![w] = "exit"]
  /\ UNCHANGED <<op, batch, state, sequence, write_group, group, cursor, queueVars,
                 dataVars, resultVars, calls, stalls>>

\* Mutant: one too early counts as the last.
CompleteOneEarly(w, inserted) ==
  LET l == write_group[w]
      all == group[l].ok /\ inserted
      last == group[l].running <= 2
  IN  /\ group' = [group EXCEPT ![l].ok = all, ![l].running = IF @ = 0 THEN 0 ELSE @ - 1]
      /\ ok' = [ok EXCEPT ![w] = IF last THEN all ELSE inserted]
      /\ pc' = [pc EXCEPT ![w] = IF last THEN "publish" ELSE "finish"]

\* CompleteParallelMemTableWriter: everybody but the last one waits for COMPLETED,
\* and the last one takes over the status of the group.  A group of one has no
\* counter.
CompleteParallelMemTableWriter(w, inserted) ==
  LET l == write_group[w]
      all == group[l].ok /\ inserted
      last == group[l].running <= 1
  IN  /\ group' = [group EXCEPT ![l].ok = all, ![l].running = IF @ = 0 THEN 0 ELSE @ - 1]
      /\ ok' = [ok EXCEPT ![w] = IF last THEN all ELSE inserted]
      /\ pc' = [pc EXCEPT ![w] = IF last THEN "publish" ELSE "finish"]

\* A member inserts its batch.  An insert that fails leaves part of it behind.
InsertInto(w) ==
  /\ \/ pc[w] = "insert"
     \/ pc[w] = "wait" /\ state[w] = "PARALLEL_MEMTABLE_WRITER"
  /\ \/ /\ mem' = mem \cup {<<op[w], sequence[w] + k>> : k \in 0..(batch[w] - 1)}
        /\ CompleteParallelMemTableWriter(w, TRUE)
        /\ UNCHANGED failures
     \/ /\ failures < MaxFailures
        /\ failures' = failures + 1
        /\ \E n \in 0..(batch[w] - 1) :
             mem' = mem \cup {<<op[w], sequence[w] + k>> : k \in 0..(n - 1)}
        /\ CompleteParallelMemTableWriter(w, FALSE)
  /\ UNCHANGED <<op, batch, state, sequence, write_group, cursor, queueVars,
                 last_sequence, wal, ingested, stopped, resultVars, calls, stalls>>

\* Mutant: only a leader publishes.
SetLastSequenceLeader(w) ==
  /\ pc[w] = "publish"
  /\ last_sequence' = IF ok[w] /\ write_group[w] = w THEN group[w].last_sequence
                      ELSE last_sequence
  /\ stopped' = (stopped \/ ~ok[w])
  /\ pc' = [pc EXCEPT ![w] = "exit"]
  /\ UNCHANGED <<op, batch, state, ok, sequence, write_group, group, cursor, queueVars,
                 wal, mem, ingested, resultVars, countVars>>

\* The last one publishes what the group wrote, all of it or, when an insert failed,
\* none of it (HandleMemTableInsertFailure).
SetLastSequence(w) ==
  /\ pc[w] = "publish"
  /\ last_sequence' = IF ok[w] THEN group[write_group[w]].last_sequence ELSE last_sequence
  /\ stopped' = (stopped \/ ~ok[w])
  /\ pc' = [pc EXCEPT ![w] = "exit"]
  /\ UNCHANGED <<op, batch, state, ok, sequence, write_group, group, cursor, queueVars,
                 wal, mem, ingested, resultVars, countVars>>

-----------------------------------------------------------------------------

\* Mutant: the one behind last is not told.
HandOverSilent(last) ==
  \/ /\ newest_writer = last
     /\ newest_writer' = NULL
     /\ UNCHANGED <<link_older, link_newer, state>>
  \/ /\ newest_writer # last
     /\ \E newer \in {CreateMissingNewerLinks(newest_writer)} :
          /\ link_newer' = newer
          /\ link_older' = [link_older EXCEPT ![newer[last]] = NULL]
     /\ UNCHANGED <<newest_writer, state>>

\* The nodes up to last leave the list: it becomes empty, or the one behind last is
\* told to lead.
HandOver(last) ==
  \/ /\ newest_writer = last
     /\ newest_writer' = NULL
     /\ UNCHANGED <<link_older, link_newer, state>>
  \/ /\ newest_writer # last
     /\ \E newer \in {CreateMissingNewerLinks(newest_writer)} :
          /\ link_newer' = newer
          /\ link_older' = [link_older EXCEPT ![newer[last]] = NULL]
          /\ state' = [state EXCEPT ![newer[last]] = "GROUP_LEADER"]
     /\ UNCHANGED newest_writer

\* ExitAsBatchGroupLeader, by the leader or by the follower that inserted last: first
\* the lead is handed over.
ExitAsBatchGroupLeader(w) ==
  LET l == write_group[w] IN
  /\ pc[w] = "exit"
  /\ HandOver(group[l].last_writer)
  /\ group' = [group EXCEPT ![l].ok = IF w = l THEN ok[w] ELSE @, ![l].open = FALSE]
  /\ cursor' = [cursor EXCEPT ![w] = group[l].last_writer]
  /\ pc' = [pc EXCEPT ![w] = "release"]
  /\ UNCHANGED <<op, batch, ok, sequence, write_group, dataVars, stopped, resultVars, countVars>>

\* Then the members are completed from the newest on, without the leader.  Its
\* link is read before a member is told, for then it may be gone.
CompleteMember(w) ==
  LET l == write_group[w]
      n == cursor[w]
  IN  /\ pc[w] = "release"
      /\ n # l
      /\ ok' = [ok EXCEPT ![n] = group[l].ok]
      /\ state' = [state EXCEPT ![n] = "COMPLETED"]
      /\ cursor' = [cursor EXCEPT ![w] = link_older[n]]
      /\ UNCHANGED <<pc, op, batch, sequence, write_group, group, queueVars, dataVars,
                     stopped, resultVars, countVars>>

\* Mutant: the leader is completed before the others.
ExitAsFollowerFirst(w) ==
  LET l == write_group[w] IN
  /\ pc[w] = "release"
  /\ w # l
  /\ state' = [state EXCEPT ![l] = "COMPLETED"]
  /\ pc' = [pc EXCEPT ![w] = IF cursor[w] = l THEN "done" ELSE "release"]
  /\ UNCHANGED <<op, batch, ok, sequence, write_group, group, cursor, queueVars, dataVars,
                 stopped, resultVars, countVars>>

\* A follower completes the leader last, for the leader owns the group
\* (ExitAsBatchGroupFollower).
ExitAsBatchGroupFollower(w) ==
  LET l == write_group[w] IN
  /\ pc[w] = "release"
  /\ cursor[w] = l
  /\ w # l
  /\ state' = [state EXCEPT ![l] = "COMPLETED"]
  /\ pc' = [pc EXCEPT ![w] = "done"]
  /\ UNCHANGED <<op, batch, ok, sequence, write_group, group, cursor, queueVars, dataVars,
                 stopped, resultVars, countVars>>

\* The work of an unbatched writer and ExitUnbatched.  An ingestion may take the next
\* sequence number and publishes it, even if the database was stopped since it came in.
ExitUnbatched(w) ==
  /\ pc[w] = "wait"
  /\ state[w] = "GROUP_LEADER"
  /\ batch[w] = 0
  /\ HandOver(w)
  /\ \/ UNCHANGED <<last_sequence, ingested>>
     \/ /\ ok[w]
        /\ last_sequence' = last_sequence + 1
        /\ ingested' = ingested \cup {last_sequence'}
  /\ pc' = [pc EXCEPT ![w] = "done"]
  /\ UNCHANGED <<op, batch, ok, sequence, write_group, group, cursor, wal, mem, stopped,
                 resultVars, countVars>>

\* The call returns, and the Writer and the WriteGroup on its stack are gone.
Return(w) ==
  /\ \/ pc[w] = "done"
     \/ pc[w] = "release" /\ cursor[w] = w /\ write_group[w] = w
     \/ pc[w] \in {"wait", "finish"} /\ state[w] = "COMPLETED"
  /\ acked' = IF batch[w] # 0 /\ ok[w] THEN acked \cup {op[w]} ELSE acked
  /\ refused' = IF batch[w] # 0 /\ ~ok[w] THEN refused \cup {op[w]} ELSE refused
  /\ pc' = [pc EXCEPT ![w] = "idle"]
  /\ op' = [op EXCEPT ![w] = 0]
  /\ batch' = [batch EXCEPT ![w] = 0]
  /\ state' = [state EXCEPT ![w] = "INIT"]
  /\ ok' = [ok EXCEPT ![w] = TRUE]
  /\ sequence' = [sequence EXCEPT ![w] = 0]
  /\ write_group' = [write_group EXCEPT ![w] = NULL]
  /\ group' = [group EXCEPT ![w] = NoGroup]
  /\ cursor' = [cursor EXCEPT ![w] = NULL]
  /\ link_older' = [link_older EXCEPT ![w] = NULL]
  /\ link_newer' = [link_newer EXCEPT ![w] = NULL]
  /\ UNCHANGED <<newest_writer, dataVars, stopped, countVars>>

\* Background work fails and stops the database.
BackgroundError ==
  /\ failures < MaxFailures
  /\ failures' = failures + 1
  /\ stopped' = TRUE
  /\ UNCHANGED <<pc, op, batch, state, ok, sequence, write_group, group, cursor, queueVars,
                 dataVars, resultVars, calls, stalls>>

\* What a thread does once it called.
Step(w) ==
  \/ LinkOne(w) \/ PreprocessWrite(w) \/ DelayWrite(w) \/ EndWriteStall(w)
  \/ EnterAsBatchGroupLeader(w) \/ Graft(w) \/ WriteGroupToWAL(w) \/ NotWritten(w)
  \/ SetMemWritersEachStride(w) \/ InsertInto(w) \/ SetLastSequence(w)
  \/ ExitAsBatchGroupLeader(w) \/ CompleteMember(w) \/ ExitAsBatchGroupFollower(w)
  \/ ExitUnbatched(w) \/ Return(w)

\* All calls have returned and no more are made.
Finished ==
  /\ calls = MaxCalls
  /\ \A w \in Writers : pc[w] = "idle"
  /\ UNCHANGED vars

Next ==
  \/ \E w \in Writers : Call(w) \/ Step(w)
  \/ BackgroundError
  \/ Finished

Spec == Init /\ [][Next]_vars

\* Threads are scheduled, and background work ends a stall.
FairSpec == Spec /\ \A w \in Writers : WF_vars(Step(w))

-----------------------------------------------------------------------------

\* Types; links and groups name writers, and no group counts below zero.
TypeOK ==
  /\ pc \in [Writers -> {"idle", "link", "wait", "stalled", "enter", "graft", "wal",
                         "insert", "finish", "publish", "exit", "release", "done"}]
  /\ state \in [Writers -> {"INIT", "GROUP_LEADER", "PARALLEL_MEMTABLE_CALLER",
                            "PARALLEL_MEMTABLE_WRITER", "COMPLETED"}]
  /\ batch \in [Writers -> Sizes \cup {0}]
  /\ link_older \in [Nodes -> Nodes \cup {NULL}]
  /\ link_newer \in [Nodes -> Nodes \cup {NULL}]
  /\ newest_writer \in Nodes \cup {NULL}
  /\ write_group \in [Writers -> Writers \cup {NULL}]
  /\ cursor \in [Writers -> Writers \cup {NULL}]
  /\ \A w \in Writers : group[w].running \in Nat
  /\ last_sequence \in Nat

Queue == IF newest_writer = NULL THEN <<>> ELSE Path(link_older, newest_writer, NULL)

\* The list is never followed into a Writer that is gone: whoever is in it has called
\* and not returned, and so has whoever a leaving thread is about to complete, the
\* leader that owns the group included.
NoDanglingWriter ==
  /\ \A n \in ToSet(Queue) \ {write_stall_dummy} : pc[n] \notin {"idle", "link", "done"}
  /\ \A w \in Writers : pc[w] = "release" =>
       LET l == write_group[w] IN
       l # NULL /\ pc[l] # "idle" /\ cursor[w] # NULL /\ write_group[cursor[w]] = l

Numbers(r) == r.first..(r.first + r.count - 1)

\* Every sequence number belongs to one batch or one ingestion, batches are in the WAL
\* in the order of their numbers, and what is published has been inserted completely,
\* by whichever member inserts last.  There is one exception: when an insert failed,
\* its numbers are not published, and an ingestion that was let in before takes them
\* again, which shows a part of the batch; by then the database is stopped.
PublishedIsWhole ==
  /\ \A i \in 2..Len(wal) :
       /\ wal[i - 1].first + wal[i - 1].count <= wal[i].first
       /\ (wal[i - 1].first + wal[i - 1].count)..(wal[i].first - 1) \subseteq ingested
  /\ \A i \in DOMAIN wal :
       IF wal[i].first \in ingested THEN stopped
       ELSE wal[i].first <= last_sequence =>
              \A s \in Numbers(wal[i]) : /\ s <= last_sequence
                                         /\ s \notin ingested
                                         /\ <<wal[i].op, s>> \in mem

\* Group commit implements atomic writes: batches become visible whole, between call
\* and return, and the caller is told the truth; only once the database is stopped may
\* a batch whose numbers an ingestion took be seen in part.
Visible == SelectSeq(wal, LAMBDA r : r.first <= last_sequence /\ r.first \notin ingested)
Atomic == INSTANCE AtomicWrites WITH
  op <- [w \in Writers |-> IF batch[w] = 0 THEN 0 ELSE op[w]],
  visible <- [i \in DOMAIN Visible |-> Visible[i].op],
  torn <- {wal[i].op : i \in {k \in DOMAIN wal : wal[k].first \in ingested}}
WritesAreAtomic == Atomic!AbsSpec

\* Every call returns: no writer waits for a signal that never comes, whatever groups
\* it was put into or behind, and whoever stalls or fails.
WritesReturn == \A w \in Writers : pc[w] # "idle" ~> pc[w] = "idle"

=============================================================================
