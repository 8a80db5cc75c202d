--------------------------- MODULE VersionsProofs ---------------------------
(***************************************************************************)
(* Proofs about Versions, for any keys and levels and any number of        *)
(* writes, files, snapshots, ingestions and concurrent compactions.        *)
(*                                                                         *)
(* The files of a level have ranges of their own because whatever is about *)
(* to be installed has reserved its range: no file of its output level     *)
(* other than its inputs is there, and neither is anything else that is    *)
(* about to be installed.                                                  *)
(***************************************************************************)
EXTENDS Versions, FiniteSetTheorems, SequenceTheorems, TLAPS

\* The provers, and their time limits in seconds, that the steps are tried with.
USE ZenonT(5), SMTT(20), ZenonT(20), SMTT(60)

-----------------------------------------------------------------------------
(* Least and greatest elements *)

\* A set of numbers that is not empty has a least element (Min).
LEMMA MinIs ==
  ASSUME NEW S \in SUBSET Nat, S # {}
  PROVE  Min(S) \in S /\ \A m \in S : Min(S) <= m
<1> DEFINE R == OpToRel(<, Nat)
<1>1. IsWellFoundedOn(R, Nat)
  BY NatLessThanWellFounded
<1>2. \A m, n \in Nat : <<m, n>> \in R <=> m < n
  BY DEF OpToRel
<1> HIDE DEF R
<1>3. PICK n \in S : \A m \in S : <<m, n>> \notin R
  BY <1>1, WFMin
<1>4. \A m \in S : ~(m < n)
  BY <1>2, <1>3
<1>5. \A m \in S : n <= m
  BY <1>4
<1> QED BY <1>5 DEF Min

\* If it is bounded it has a greatest one (Max).
LEMMA MaxIs ==
  ASSUME NEW S \in SUBSET Nat, S # {}, NEW b \in Nat, \A m \in S : m <= b
  PROVE  Max(S) \in S /\ \A m \in S : m <= Max(S)
<1> DEFINE D == {b - m : m \in S}
<1>1. D \in SUBSET Nat /\ D # {}
  <2>1. \A m \in S : b - m \in Nat
    OBVIOUS
  <2> QED BY <2>1
<1>2. Min(D) \in D /\ \A d \in D : Min(D) <= d
  BY <1>1, MinIs
<1>3. PICK n \in S : Min(D) = b - n
  BY <1>2
<1>4. \A m \in S : b - n <= b - m
  BY <1>2, <1>3
<1>5. \A m \in S : n >= m
  BY <1>4
<1>6. Max(S) \in S /\ \A m \in S : Max(S) >= m
  BY <1>5 DEF Max
<1> QED BY <1>6

\* There are finitely many keys, so they are bounded.
LEMMA KeysBounded == \E b \in Nat : \A k \in Keys : k <= b
<1> DEFINE Bounded(T) == \E b \in Nat : \A k \in T : k <= b
<1> DEFINE Sizes == {Cardinality(T) : T \in {U \in SUBSET Keys : ~Bounded(U)}}
<1>1. Keys \subseteq Nat /\ IsFiniteSet(Keys)
  BY VersionsAssumption
<1>2. \A T \in SUBSET Keys : IsFiniteSet(T) /\ Cardinality(T) \in Nat
  BY <1>1, FS_Subset, FS_CardinalityType
<1> SUFFICES ASSUME ~Bounded(Keys) PROVE FALSE
  OBVIOUS
<1>3. Sizes \in SUBSET Nat /\ Sizes # {}
  BY <1>2
<1>4. PICK T \in SUBSET Keys : ~Bounded(T) /\ Cardinality(T) = Min(Sizes)
  BY <1>3, MinIs
<1>5. PICK x \in T : TRUE
  <2>1. Bounded({})
    OBVIOUS
  <2> QED BY <1>4, <2>1
<1>6. Cardinality(T \ {x}) = Cardinality(T) - 1
  BY <1>2, <1>5, FS_RemoveElement
<1>7. Bounded(T \ {x})
  <2> SUFFICES ASSUME ~Bounded(T \ {x}) PROVE FALSE
    OBVIOUS
  <2>1. Cardinality(T \ {x}) \in Sizes
    OBVIOUS
  <2>2. Min(Sizes) <= Cardinality(T \ {x})
    BY <1>3, <2>1, MinIs
  <2> HIDE DEF Sizes
  <2> QED BY <1>2, <1>4, <1>6, <2>2
<1>8. PICK b \in Nat : \A k \in T \ {x} : k <= b
  BY <1>7
<1>9. Bounded(T)
  <2>1. CASE x <= b
    BY <1>1, <1>8, <2>1
  <2>2. CASE ~(x <= b)
    <3>1. x \in Nat
      BY <1>1, <1>5
    <3>2. \A k \in T : k \in Nat
      BY <1>1
    <3>3. \A k \in T : k <= x
      BY <1>8, <2>2, <3>1, <3>2
    <3> QED BY <3>1, <3>3
  <2> QED BY <2>1, <2>2
<1> QED BY <1>4, <1>9

\* The least and the greatest of a set of keys.
LEMMA KeyBounds ==
  ASSUME NEW ks \in SUBSET Keys, ks # {}
  PROVE  /\ Min(ks) \in ks /\ Max(ks) \in ks
         /\ Min(ks) \in Nat /\ Max(ks) \in Nat
         /\ \A k \in ks : k \in Nat /\ Min(ks) <= k /\ k <= Max(ks)
<1>1. ks \subseteq Nat
  BY VersionsAssumption
<1>2. PICK b \in Nat : \A k \in Keys : k <= b
  BY KeysBounded
<1>3. Min(ks) \in ks /\ \A k \in ks : Min(ks) <= k
  BY <1>1, MinIs
<1>4. Max(ks) \in ks /\ \A k \in ks : k <= Max(ks)
  BY <1>1, <1>2, MaxIs
<1> QED BY <1>1, <1>3, <1>4

-----------------------------------------------------------------------------
(* Ranges of keys *)

\* Two ranges overlap when neither ends before the other begins (Overlap).
LEMMA OverlapIs ==
  ASSUME NEW ks \in SUBSET Keys, ks # {}, NEW ls \in SUBSET Keys, ls # {}
  PROVE  Overlap(ks, ls) <=> Min(ks) <= Max(ls) /\ Min(ls) <= Max(ks)
<1>1. Min(ks) \in Nat /\ Max(ks) \in Nat /\ Min(ks) <= Max(ks)
  BY KeyBounds
<1>2. Min(ls) \in Nat /\ Max(ls) \in Nat /\ Min(ls) <= Max(ls)
  BY KeyBounds
<1>3. Overlap(ks, ls) <=> \E k \in Min(ks)..Max(ks) : k \in Min(ls)..Max(ls)
  BY DEF Overlap, RangeOf
<1>4. ASSUME Min(ks) <= Max(ls), Min(ls) <= Max(ks)
      PROVE  \E k \in Min(ks)..Max(ks) : k \in Min(ls)..Max(ls)
  <2>1. CASE Min(ks) <= Min(ls)
    <3>1. Min(ls) \in Min(ks)..Max(ks) /\ Min(ls) \in Min(ls)..Max(ls)
      BY <1>1, <1>2, <1>4, <2>1
    <3> QED BY <3>1
  <2>2. CASE Min(ls) <= Min(ks)
    <3>1. Min(ks) \in Min(ks)..Max(ks) /\ Min(ks) \in Min(ls)..Max(ls)
      BY <1>1, <1>2, <1>4, <2>2
    <3> QED BY <3>1
  <2> QED BY <1>1, <1>2, <2>1, <2>2
<1>5. ASSUME NEW k \in Min(ks)..Max(ks), k \in Min(ls)..Max(ls)
      PROVE  Min(ks) <= Max(ls) /\ Min(ls) <= Max(ks)
  BY <1>1, <1>2, <1>5
<1> QED BY <1>3, <1>4, <1>5

\* Overlapping is symmetric, and a smaller set overlaps less.
LEMMA OverlapMono ==
  ASSUME NEW ks \in SUBSET Keys, ks # {}, NEW ls \in SUBSET Keys, ls # {},
         NEW ms \in SUBSET ks, ms # {}, Overlap(ms, ls)
  PROVE  Overlap(ks, ls) /\ Overlap(ls, ks)
<1>1. Min(ks) \in Nat /\ Max(ks) \in Nat /\ \A k \in ks : k \in Nat /\ Min(ks) <= k /\ k <= Max(ks)
  BY KeyBounds
<1>2. Min(ls) \in Nat /\ Max(ls) \in Nat
  BY KeyBounds
<1>3. ms \in SUBSET Keys /\ Min(ms) \in ms /\ Max(ms) \in ms
  BY KeyBounds
<1>4. Min(ms) <= Max(ls) /\ Min(ls) <= Max(ms)
  BY <1>3, OverlapIs
<1>5. Min(ks) <= Min(ms) /\ Max(ms) <= Max(ks) /\ Min(ms) \in Nat /\ Max(ms) \in Nat
  BY <1>1, <1>3
<1>6. Min(ks) <= Max(ls) /\ Min(ls) <= Max(ks)
  BY <1>1, <1>2, <1>4, <1>5
<1> QED BY <1>6, OverlapIs

\* Sets with a key in common overlap.
LEMMA OverlapCommon ==
  ASSUME NEW ks \in SUBSET Keys, NEW ls \in SUBSET Keys, NEW k \in ks, k \in ls
  PROVE  Overlap(ks, ls)
<1>1. Min(ks) <= k /\ k <= Max(ks) /\ k \in Nat /\ Min(ks) \in Nat /\ Max(ks) \in Nat
  BY KeyBounds
<1>2. Min(ls) <= k /\ k <= Max(ls) /\ Min(ls) \in Nat /\ Max(ls) \in Nat
  BY KeyBounds
<1>3. Min(ks) <= Max(ls) /\ Min(ls) <= Max(ks)
  BY <1>1, <1>2
<1> QED BY <1>3, OverlapIs

\* What overlaps neither a range nor any of the sets that do overlaps nothing of it all:
\* there is no gap between them (SetupOtherInputsIfNeeded).
LEMMA OverlapHull ==
  ASSUME NEW ks \in SUBSET Keys, ks # {}, NEW ls \in SUBSET Keys, ls # {},
         NEW F \in SUBSET (SUBSET Keys),
         \A ms \in F : ms # {} /\ Overlap(ms, ks) /\ ~Overlap(ms, ls),
         ~Overlap(ks, ls)
  PROVE  ~Overlap(ks \cup UNION F, ls)
<1> DEFINE all == ks \cup UNION F
<1>1. all \in SUBSET Keys /\ all # {}
  OBVIOUS
<1>2. /\ Min(ks) \in Nat /\ Max(ks) \in Nat /\ Min(ks) <= Max(ks)
      /\ \A k \in ks : k \in Nat /\ Min(ks) <= k /\ k <= Max(ks)
  BY KeyBounds
<1>3. Min(ls) \in Nat /\ Max(ls) \in Nat /\ Min(ls) <= Max(ls)
  BY KeyBounds
<1>4. Min(all) \in all /\ Max(all) \in all /\ Min(all) \in Nat /\ Max(all) \in Nat
  BY <1>1, KeyBounds
<1>5. ~(Min(ks) <= Max(ls) /\ Min(ls) <= Max(ks))
  BY OverlapIs
<1>6. ASSUME NEW ms \in F
      PROVE  /\ Min(ms) \in Nat /\ Max(ms) \in Nat /\ Min(ms) <= Max(ms)
             /\ \A k \in ms : k \in Nat /\ Min(ms) <= k /\ k <= Max(ms)
             /\ Min(ms) <= Max(ks) /\ Min(ks) <= Max(ms)
             /\ ~(Min(ms) <= Max(ls) /\ Min(ls) <= Max(ms))
  <2>1. ms \in SUBSET Keys /\ ms # {}
    OBVIOUS
  <2> QED BY <2>1, OverlapIs, KeyBounds
<1> HIDE DEF all
<1>7. CASE Max(ls) < Min(ks)
  <2>1. \A k \in ks : Max(ls) < k
    BY <1>2, <1>3, <1>7
  <2>2. ASSUME NEW ms \in F, NEW k \in ms PROVE Max(ls) < k
    BY <1>2, <1>3, <1>6, <1>7
  <2>3. Max(ls) < Min(all)
    BY <1>4, <2>1, <2>2 DEF all
  <2>4. ~(Min(all) <= Max(ls))
    BY <1>3, <1>4, <2>3
  <2> QED BY <1>1, <2>4, OverlapIs DEF all
<1>8. CASE Max(ks) < Min(ls)
  <2>1. \A k \in ks : k < Min(ls)
    BY <1>2, <1>3, <1>8
  <2>2. ASSUME NEW ms \in F, NEW k \in ms PROVE k < Min(ls)
    BY <1>2, <1>3, <1>6, <1>8
  <2>3. Max(all) < Min(ls)
    BY <1>4, <2>1, <2>2 DEF all
  <2>4. ~(Min(ls) <= Max(all))
    BY <1>3, <1>4, <2>3
  <2> QED BY <1>1, <2>4, OverlapIs DEF all
<1> QED BY <1>2, <1>3, <1>5, <1>7, <1>8

-----------------------------------------------------------------------------
(* The inductive invariant for the levels *)

EntryType == [key : Keys, seq : Nat, type : {"put", "del", "range"}, val : Int]
FileType == [level : Levels, epoch : Nat, data : SUBSET EntryType]
SnapshotType == [seq : Nat, view : [Keys -> Int], late : SUBSET Keys]
FlushType == [phase : {"idle", "begun", "picked"}, snaps : SUBSET Nat, max : Nat, epoch : Nat]
CompactionType == [inputs : SUBSET FileType, output_level : Levels, snaps : SUBSET Nat,
                   bottommost : BOOLEAN, gone : SUBSET Keys]
IngestionType == [phase : {"idle", "entered", "logging"}, keys : SUBSET Keys,
                  flushed : BOOLEAN, level : Levels, seq : Nat, epoch : Nat]

Types ==
  /\ mem \in SUBSET EntryType
  /\ imm \in Seq(SUBSET EntryType)
  /\ files \in SUBSET FileType
  /\ next_epoch \in Nat
  /\ last_sequence \in Nat
  /\ snapshots \in SUBSET SnapshotType
  /\ flush \in FlushType
  /\ compactions \in SUBSET CompactionType
  /\ ingestion \in IngestionType
  /\ current \in [Keys -> Int]
  /\ ingestions \in Nat

\* The sequence numbers were given out up to n.
Upto(entries, n) == \A e \in entries : e.seq <= n

\* No memtable that waits to be flushed and no file is empty, and a flush has something
\* to write.
Contents ==
  /\ Upto(mem, last_sequence)
  /\ \A i \in DOMAIN imm : imm[i] # {} /\ Upto(imm[i], last_sequence)
  /\ \A f \in files : f.data # {} /\ Upto(f.data, last_sequence)
  /\ flush.phase # "idle" => flush.max > 0 /\ flush.max <= Len(imm)

\* The inputs of a compaction are there, and nobody else's; no other file of its output
\* level, and no other output to it, overlaps them.
Compacting ==
  /\ \A c \in compactions :
       /\ c.inputs \subseteq files /\ c.inputs # {}
       /\ c.output_level > 0 =>
            \A f \in files \ c.inputs :
              f.level = c.output_level => ~Overlap(KeysOf(f.data), FileKeys(c.inputs))
  /\ \A c, d \in compactions : c # d =>
       /\ c.inputs \cap d.inputs = {}
       /\ c.output_level > 0 /\ c.output_level = d.output_level =>
            ~Overlap(FileKeys(c.inputs), FileKeys(d.inputs))

\* The same of the file that is about to be ingested.
Ingesting ==
  /\ ingestion.phase # "idle" => ingestion.keys # {}
  /\ ingestion.phase = "logging" /\ ingestion.level > 0 =>
       /\ \A f \in files :
            f.level = ingestion.level => ~Overlap(KeysOf(f.data), ingestion.keys)
       /\ \A c \in compactions :
            c.output_level = ingestion.level => ~Overlap(FileKeys(c.inputs), ingestion.keys)

LevelInv ==
  /\ Types
  /\ Contents
  /\ Compacting
  /\ Ingesting
  /\ SortedRuns

-----------------------------------------------------------------------------
(* Keys and outputs *)

\* The keys of entries are keys, and there are some if there are entries (KeysOf).
LEMMA KeysOfIs ==
  ASSUME NEW d \in SUBSET EntryType
  PROVE  /\ KeysOf(d) \in SUBSET Keys
         /\ d # {} => KeysOf(d) # {}
BY DEF KeysOf, EntryType

\* The keys of files are those of each of them (FileKeys).
LEMMA FileKeysIs ==
  ASSUME NEW fs \in SUBSET FileType
  PROVE  /\ FileKeys(fs) \in SUBSET Keys
         /\ \A f \in fs : KeysOf(f.data) \in SUBSET FileKeys(fs)
         /\ FileKeys(fs) = KeysOf(Data(fs))
         /\ Data(fs) \in SUBSET EntryType
         /\ fs # {} /\ (\A f \in fs : f.data # {}) => FileKeys(fs) # {}
<1>1. \A f \in fs : f.data \in SUBSET EntryType
  BY DEF FileType
<1>2. \A f \in fs : KeysOf(f.data) \in SUBSET Keys /\ (f.data # {} => KeysOf(f.data) # {})
  BY <1>1, KeysOfIs
<1>3. FileKeys(fs) \in SUBSET Keys
  BY <1>2 DEF FileKeys
<1>4. \A f \in fs : KeysOf(f.data) \in SUBSET FileKeys(fs)
  BY DEF FileKeys
<1>5. FileKeys(fs) = KeysOf(Data(fs))
  BY DEF FileKeys, Data, KeysOf
<1>6. Data(fs) \in SUBSET EntryType
  BY <1>1 DEF Data
<1>7. fs # {} /\ (\A f \in fs : f.data # {}) => FileKeys(fs) # {}
  BY <1>2, <1>4
<1> QED BY <1>3, <1>4, <1>5, <1>6, <1>7

\* What a flush or a compaction writes are entries of its input, at most with another
\* sequence number (Output).
LEMMA OutputTyped ==
  ASSUME NEW entries \in SUBSET EntryType, NEW snaps, NEW gone, NEW bottommost
  PROVE  /\ Output(entries, snaps, gone, bottommost) \in SUBSET EntryType
         /\ KeysOf(Output(entries, snaps, gone, bottommost)) \subseteq KeysOf(entries)
         /\ \A n \in Nat : Upto(entries, n) => Upto(Output(entries, snaps, gone, bottommost), n)
<1> DEFINE out == Output(entries, snaps, gone, bottommost)
<1>1. ASSUME NEW o \in out
      PROVE  \E e \in entries : o = e \/ o = [e EXCEPT !.seq = 0]
  <2>1. PICK e \in KeptPoints(entries, snaps, gone, bottommost) \cup KeptRanges(entries, snaps, gone) :
          o = Zeroed(e, snaps, bottommost)
    BY DEF Output
  <2>2. e \in entries
    BY <2>1 DEF KeptPoints, KeptRanges, Points, Ranges
  <2> QED BY <2>1, <2>2 DEF Zeroed
<1> HIDE DEF out
<1>2. ASSUME NEW e \in entries
      PROVE  /\ e \in EntryType /\ [e EXCEPT !.seq = 0] \in EntryType
             /\ [e EXCEPT !.seq = 0].key = e.key /\ [e EXCEPT !.seq = 0].seq = 0
  BY DEF EntryType
<1>3. \A o \in out : o \in EntryType /\ o.key \in KeysOf(entries)
  BY <1>1, <1>2 DEF KeysOf
<1>4. ASSUME NEW n \in Nat, Upto(entries, n)
      PROVE  Upto(out, n)
  <2> SUFFICES ASSUME NEW o \in out PROVE o.seq <= n
    BY DEF Upto
  <2>1. PICK e \in entries : o = e \/ o = [e EXCEPT !.seq = 0]
    BY <1>1
  <2>2. e.seq <= n
    BY <1>4 DEF Upto
  <2>3. o.seq = e.seq \/ o.seq = 0
    BY <1>2, <2>1
  <2> QED BY <2>2, <2>3
<1> QED BY <1>3, <1>4 DEF KeysOf, out

\* A flush keeps the newest version of all, so that its file is not empty.
LEMMA FlushKeeps ==
  ASSUME NEW entries \in SUBSET EntryType, entries # {}, NEW n \in Nat, Upto(entries, n),
         NEW snaps
  PROVE  Output(entries, snaps, {}, FALSE) # {}
<1>1. Seqs(entries) \in SUBSET Nat /\ Seqs(entries) # {} /\ \A s \in Seqs(entries) : s <= n
  BY DEF Seqs, EntryType, Upto
<1>2. Max(Seqs(entries)) \in Seqs(entries) /\ \A s \in Seqs(entries) : s <= Max(Seqs(entries))
  BY <1>1, MaxIs
<1>3. PICK e \in entries : \A o \in entries : o.seq <= e.seq
  BY <1>2 DEF Seqs
<1>4. \A o \in entries : ~(o.seq > e.seq)
  BY <1>3 DEF EntryType
<1>5. ASSUME NEW versions \in SUBSET entries PROVE ~HiddenBy(e, versions, snaps)
  BY <1>4 DEF HiddenBy
<1>6. ~ShouldDelete(e, entries, snaps)
  BY <1>5 DEF ShouldDelete, Ranges
<1>7. CASE e.type = "range"
  <2>1. e \in Ranges(entries)
    BY <1>7 DEF Ranges
  <2>2. e.key \in {o.key : o \in {r \in Ranges(entries) : r.seq = e.seq}}
    BY <2>1
  <2>3. e \in KeptRanges(entries, snaps, {})
    BY <1>6, <2>1, <2>2 DEF KeptRanges, Obsolete
  <2> QED BY <2>3 DEF Output
<1>8. CASE e.type # "range"
  <2>1. e \in Points(entries)
    BY <1>8 DEF Points
  <2>2. ~HiddenBy(e, Points(entries), snaps)
    BY <1>5 DEF Points
  <2>3. e \in KeptPoints(entries, snaps, {}, FALSE)
    BY <1>6, <2>1, <2>2 DEF KeptPoints, Obsolete
  <2> QED BY <2>3 DEF Output
<1> QED BY <1>7, <1>8

-----------------------------------------------------------------------------
(* Steps that leave the levels alone *)

\* Nobody overlaps more because of a step that changes no file and no job.
LEMMA LevelsFrame ==
  ASSUME Compacting, Ingesting, SortedRuns, UNCHANGED <<files, compactions, ingestion>>
  PROVE  Compacting' /\ Ingesting' /\ SortedRuns'
BY DEF Compacting, Ingesting, SortedRuns

\* Entries whose sequence numbers were given out stay so.
LEMMA UptoMono ==
  ASSUME NEW d \in SUBSET EntryType, NEW m \in Nat, NEW n \in Nat, m <= n, Upto(d, m)
  PROVE  Upto(d, n)
<1>1. \A e \in d : e.seq \in Nat
  BY DEF EntryType
<1> QED BY <1>1 DEF Upto

\* When only the last sequence number grows, the contents stay what they should be.
LEMMA ContentsFrame ==
  ASSUME Types, Contents, last_sequence' \in Nat, last_sequence <= last_sequence',
         UNCHANGED <<mem, imm, files, flush>>
  PROVE  Contents'
<1>1. Upto(mem, last_sequence')
  BY UptoMono DEF Types, Contents
<1>2. \A i \in DOMAIN imm : imm[i] \in SUBSET EntryType
  BY DEF Types
<1>3. \A i \in DOMAIN imm : imm[i] # {} /\ Upto(imm[i], last_sequence')
  BY <1>2, UptoMono DEF Types, Contents
<1>4. \A f \in files : f.data \in SUBSET EntryType
  BY DEF Types, FileType
<1>5. \A f \in files : f.data # {} /\ Upto(f.data, last_sequence')
  BY <1>4, UptoMono DEF Types, Contents
<1> QED BY <1>1, <1>3, <1>5 DEF Contents

\* Put, Delete and DeleteRange (Write)
LEMMA WriteStep ==
  ASSUME LevelInv, NEW ks \in SUBSET Keys, NEW type \in {"put", "del", "range"}, Write(ks, type)
  PROVE  LevelInv'
<1> DEFINE seq == last_sequence + 1
           val == IF type = "put" THEN seq ELSE Absent
           new == [key : ks, seq : {seq}, type : {type}, val : {val}]
<1>1. last_sequence \in Nat /\ seq \in Nat /\ val \in Int
  BY DEF LevelInv, Types, Absent
<1>2. mem' = mem \cup new /\ last_sequence' = seq
  BY DEF Write
<1>3. UNCHANGED <<imm, files, next_epoch, snapshots, flush, compactions, ingestion, ingestions>>
  BY DEF Write, jobVars
<1>4. current' \in [Keys -> Int]
  <2>1. current' = [k \in Keys |-> IF k \in ks THEN val ELSE current[k]]
    BY DEF Write
  <2> HIDE DEF val
  <2> QED BY <1>1, <2>1 DEF LevelInv, Types
<1> HIDE DEF val
<1>5. new \in SUBSET EntryType /\ Upto(new, seq)
  BY <1>1 DEF EntryType, Upto
<1> HIDE DEF new
<1>6. Types'
  BY <1>1, <1>2, <1>3, <1>4, <1>5 DEF LevelInv, Types
<1>7. Contents'
  <2>1. Upto(mem, seq)
    BY <1>1, UptoMono DEF LevelInv, Types, Contents
  <2>2. Upto(mem', last_sequence')
    BY <1>2, <1>5, <2>1 DEF Upto
  <2>3. \A i \in DOMAIN imm : imm[i] \in SUBSET EntryType
    BY DEF LevelInv, Types
  <2>4. \A i \in DOMAIN imm : imm[i] # {} /\ Upto(imm[i], seq)
    BY <1>1, <2>3, UptoMono DEF LevelInv, Contents
  <2>5. \A f \in files : f.data \in SUBSET EntryType
    BY DEF LevelInv, Types, FileType
  <2>6. \A f \in files : f.data # {} /\ Upto(f.data, seq)
    BY <1>1, <2>5, UptoMono DEF LevelInv, Contents
  <2>7. flush.phase # "idle" => flush.max > 0 /\ flush.max <= Len(imm)
    BY DEF LevelInv, Contents
  <2> HIDE DEF seq
  <2> QED BY <1>2, <1>3, <2>2, <2>4, <2>6, <2>7 DEF Contents
<1>8. Compacting' /\ Ingesting' /\ SortedRuns'
  BY <1>3, LevelsFrame DEF LevelInv
<1> QED BY <1>6, <1>7, <1>8 DEF LevelInv

\* The memtable joins the immutable ones (Switch).
LEMMA SwitchKeeps ==
  ASSUME Types, Contents, mem # {}, Switch,
         UNCHANGED <<files, last_sequence, flush>>
  PROVE  mem' \in SUBSET EntryType /\ imm' \in Seq(SUBSET EntryType) /\ Contents'
<1>1. imm \in Seq(SUBSET EntryType) /\ mem \in SUBSET EntryType
  BY DEF Types
<1>2. imm' = Append(imm, mem) /\ mem' = {}
  BY DEF Switch
<1>3. imm' \in Seq(SUBSET EntryType) /\ Len(imm') = Len(imm) + 1 /\ Len(imm) \in Nat
  BY <1>1, <1>2
<1>4. \A i \in DOMAIN imm' : IF i \in DOMAIN imm THEN imm'[i] = imm[i] ELSE imm'[i] = mem
  BY <1>1, <1>2
<1>5. \A i \in DOMAIN imm' : imm'[i] # {} /\ Upto(imm'[i], last_sequence)
  BY <1>4 DEF Contents
<1>6. Upto({}, last_sequence)
  BY DEF Upto
<1>7. flush.phase # "idle" => flush.max > 0 /\ flush.max <= Len(imm')
  BY <1>3 DEF Contents, Types, FlushType
<1> QED BY <1>2, <1>3, <1>5, <1>6, <1>7 DEF Contents

\* SwitchMemtable
LEMMA SwitchStep ==
  ASSUME LevelInv, SwitchMemtable
  PROVE  LevelInv'
<1>1. UNCHANGED <<files, next_epoch, last_sequence, snapshots, flush, compactions, ingestion,
                  ingestions, current>>
  BY DEF SwitchMemtable, jobVars
<1>2. mem' \in SUBSET EntryType /\ imm' \in Seq(SUBSET EntryType) /\ Contents'
  BY <1>1, SwitchKeeps DEF SwitchMemtable, LevelInv
<1>3. Types'
  BY <1>1, <1>2 DEF LevelInv, Types
<1>4. Compacting' /\ Ingesting' /\ SortedRuns'
  BY <1>1, LevelsFrame DEF LevelInv
<1> QED BY <1>2, <1>3, <1>4 DEF LevelInv

\* A step that changes nothing but the snapshots, the flush and the reader.
LEMMA OtherFrame ==
  ASSUME LevelInv,
         UNCHANGED <<mem, imm, files, last_sequence, compactions, ingestion, ingestions, current>>,
         next_epoch' \in Nat, snapshots' \in SUBSET SnapshotType, flush' \in FlushType,
         flush'.phase # "idle" => flush'.max > 0 /\ flush'.max <= Len(imm)
  PROVE  LevelInv'
<1>1. Types'
  BY DEF LevelInv, Types
<1>2. Contents'
  BY DEF LevelInv, Contents
<1>3. Compacting' /\ Ingesting' /\ SortedRuns'
  BY LevelsFrame DEF LevelInv
<1> QED BY <1>1, <1>2, <1>3 DEF LevelInv

\* Readers change nothing but the reader (GetImpl, GetReturns, GetDone).
LEMMA ReadStep ==
  ASSUME LevelInv,
         UNCHANGED <<mem, imm, files, next_epoch, last_sequence, snapshots, jobVars, current>>
  PROVE  LevelInv'
<1>1. UNCHANGED <<mem, imm, files, last_sequence, compactions, ingestion, ingestions, current>>
  BY DEF jobVars
<1>2. next_epoch' \in Nat /\ snapshots' \in SUBSET SnapshotType /\ flush' \in FlushType
  BY DEF LevelInv, Types, jobVars
<1>3. flush'.phase # "idle" => flush'.max > 0 /\ flush'.max <= Len(imm)
  BY DEF LevelInv, Contents, jobVars
<1> QED BY <1>1, <1>2, <1>3, OtherFrame

\* GetSnapshot and ReleaseSnapshot
LEMMA SnapshotStep ==
  ASSUME LevelInv, GetSnapshot \/ \E s \in snapshots : ReleaseSnapshot(s)
  PROVE  LevelInv'
<1>1. /\ UNCHANGED <<mem, imm, files, last_sequence, compactions, ingestion, ingestions, current>>
      /\ UNCHANGED <<next_epoch, flush>>
  BY DEF GetSnapshot, ReleaseSnapshot, jobVars
<1>2. snapshots' \in SUBSET SnapshotType
  <2>1. CASE GetSnapshot
    <3> DEFINE late == IF ingestion.phase = "logging" /\ ingestion.seq = 0
                       THEN ingestion.keys ELSE {}
    <3>1. late \in SUBSET Keys
      BY DEF LevelInv, Types, IngestionType
    <3> HIDE DEF late
    <3>2. [seq |-> last_sequence, view |-> current, late |-> late] \in SnapshotType
      BY <3>1 DEF LevelInv, Types, SnapshotType
    <3>3. snapshots' = snapshots \cup {[seq |-> last_sequence, view |-> current, late |-> late]}
      BY <2>1 DEF GetSnapshot, late
    <3> QED BY <3>2, <3>3 DEF LevelInv, Types
  <2>2. CASE \E s \in snapshots : ReleaseSnapshot(s)
    BY <2>2 DEF ReleaseSnapshot, LevelInv, Types
  <2> QED BY <2>1, <2>2
<1>3. next_epoch' \in Nat /\ flush' \in FlushType
  BY <1>1 DEF LevelInv, Types
<1>4. flush'.phase # "idle" => flush'.max > 0 /\ flush'.max <= Len(imm)
  BY <1>1 DEF LevelInv, Contents
<1> QED BY <1>1, <1>2, <1>3, <1>4, OtherFrame

\* The sequence numbers of the snapshots are numbers.
LEMMA SnapshotSeqsType ==
  ASSUME Types
  PROVE  SnapshotSeqs \in SUBSET Nat
BY DEF Types, SnapshotType, SnapshotSeqs

\* FlushMemTablesToOutputFiles
LEMMA BeginFlushStep ==
  ASSUME LevelInv, FlushMemTablesToOutputFiles
  PROVE  LevelInv'
<1>1. /\ UNCHANGED <<mem, imm, files, last_sequence, compactions, ingestion, ingestions, current>>
      /\ UNCHANGED <<next_epoch, snapshots>>
  BY DEF FlushMemTablesToOutputFiles
<1>2. flush' = [phase |-> "begun", snaps |-> SnapshotSeqs, max |-> Len(imm), epoch |-> 0]
  BY DEF FlushMemTablesToOutputFiles, NoFlush
<1>3. Len(imm) \in Nat /\ Len(imm) # 0
  <2>1. imm \in Seq(SUBSET EntryType) /\ imm # <<>>
    BY DEF LevelInv, Types, FlushMemTablesToOutputFiles
  <2> QED BY <2>1, EmptySeq, LenProperties
<1>4. flush' \in FlushType /\ flush'.max > 0 /\ flush'.max <= Len(imm)
  <2>1. SnapshotSeqs \in SUBSET Nat
    BY SnapshotSeqsType DEF LevelInv
  <2> QED BY <1>2, <1>3, <2>1 DEF FlushType
<1>5. next_epoch' \in Nat /\ snapshots' \in SUBSET SnapshotType
  BY <1>1 DEF LevelInv, Types
<1> QED BY <1>1, <1>4, <1>5, OtherFrame

\* PickMemTable
LEMMA PickMemTableStep ==
  ASSUME LevelInv, PickMemTable
  PROVE  LevelInv'
<1>1. /\ UNCHANGED <<mem, imm, files, last_sequence, compactions, ingestion, ingestions, current>>
      /\ UNCHANGED snapshots
  BY DEF PickMemTable
<1>2. flush \in FlushType /\ next_epoch \in Nat /\ snapshots \in SUBSET SnapshotType
  BY DEF LevelInv, Types
<1>3. /\ flush.phase = "begun" /\ next_epoch' = next_epoch + 1
      /\ flush' = [flush EXCEPT !.phase = "picked", !.max = flush.max, !.epoch = next_epoch]
  BY DEF PickMemTable, PickedUpToMax
<1>4. flush' \in FlushType /\ flush'.max = flush.max
  BY <1>2, <1>3 DEF FlushType
<1>5. flush.max > 0 /\ flush.max <= Len(imm)
  BY <1>3 DEF LevelInv, Contents
<1>6. next_epoch' \in Nat /\ snapshots' \in SUBSET SnapshotType
  BY <1>1, <1>2, <1>3
<1> QED BY <1>1, <1>4, <1>5, <1>6, OtherFrame

\* The file that a flush writes is not empty, and goes to level 0 (WriteLevel0Table).
LEMMA WriteLevel0TableStep ==
  ASSUME LevelInv, WriteLevel0Table
  PROVE  LevelInv'
<1> DEFINE picked == UNION {imm[i] : i \in 1..flush.max}
           data == Output(picked, flush.snaps, {}, FALSE)
           file == [level |-> 0, epoch |-> flush.epoch, data |-> data]
<1>1. UNCHANGED <<mem, next_epoch, last_sequence, snapshots, compactions, ingestion,
                  ingestions, current>>
  BY DEF WriteLevel0Table
<1>2. /\ files' = files \cup {file}
      /\ imm' = SubSeq(imm, flush.max + 1, Len(imm)) /\ flush' = NoFlush
  BY DEF WriteLevel0Table
<1>3. /\ imm \in Seq(SUBSET EntryType) /\ flush \in FlushType /\ last_sequence \in Nat
      /\ files \in SUBSET FileType
  BY DEF LevelInv, Types
<1>4. Len(imm) \in Nat /\ flush.max \in Nat /\ flush.max > 0 /\ flush.max <= Len(imm)
  BY <1>3 DEF WriteLevel0Table, LevelInv, Contents, FlushType
<1>5. \A i \in 1..flush.max : imm[i] \in SUBSET EntryType /\ imm[i] # {} /\ Upto(imm[i], last_sequence)
  BY <1>3, <1>4 DEF LevelInv, Contents
<1>6. picked \in SUBSET EntryType /\ picked # {} /\ Upto(picked, last_sequence)
  <2>1. 1 \in 1..flush.max
    BY <1>4
  <2> QED BY <1>5, <2>1 DEF Upto
<1> HIDE DEF picked
<1>7. data \in SUBSET EntryType /\ data # {} /\ Upto(data, last_sequence)
  BY <1>3, <1>6, FlushKeeps, OutputTyped
<1> HIDE DEF data
<1>8. file \in FileType /\ file.data = data /\ file.level = 0
  BY <1>3, <1>7, VersionsAssumption DEF FileType, FlushType, Levels
<1> HIDE DEF file
<1>9. imm' \in Seq(SUBSET EntryType) /\ \A i \in DOMAIN imm' : \E j \in DOMAIN imm : imm'[i] = imm[j]
  <2> DEFINE tables == {imm[j] : j \in DOMAIN imm}
  <2>1. DOMAIN imm = 1..Len(imm) /\ tables \subseteq SUBSET EntryType
    BY <1>3, LenProperties
  <2>2. \A i \in (flush.max + 1)..Len(imm) : i \in DOMAIN imm
    BY <1>4, <2>1
  <2>3. \A i \in (flush.max + 1)..Len(imm) : imm[i] \in tables
    BY <2>2
  <2> HIDE DEF tables
  <2>4. imm' \in Seq(tables)
    BY <1>2, <1>4, <2>3, SubSeqProperties
  <2>5. imm' \in [1..Len(imm') -> tables]
    BY <2>4, LenProperties
  <2>6. \A i \in DOMAIN imm' : imm'[i] \in tables
    BY <2>5
  <2>7. imm' \in Seq(SUBSET EntryType)
    BY <2>1, <2>4
  <2> QED BY <2>6, <2>7 DEF tables
<1>10. flush' \in FlushType /\ flush'.phase = "idle"
  BY <1>2 DEF NoFlush, FlushType
<1>11. Types'
  BY <1>1, <1>2, <1>8, <1>9, <1>10 DEF LevelInv, Types
<1>12. Contents'
  <2>1. \A i \in DOMAIN imm' : imm'[i] # {} /\ Upto(imm'[i], last_sequence)
    BY <1>9 DEF LevelInv, Contents
  <2>2. \A f \in files' : f.data # {} /\ Upto(f.data, last_sequence)
    BY <1>2, <1>7, <1>8 DEF LevelInv, Contents
  <2> QED BY <1>1, <1>10, <2>1, <2>2 DEF LevelInv, Contents
<1>13. Compacting' /\ Ingesting' /\ SortedRuns'
  <2>1. \A f \in files' : f \in files \/ f.level = 0
    BY <1>2, <1>8
  <2>2. files \subseteq files'
    BY <1>2
  <2>3. \A c \in compactions : c.output_level \in Nat
    BY DEF LevelInv, Types, CompactionType, Levels
  <2>4. Compacting'
    BY <1>1, <2>1, <2>2, <2>3 DEF LevelInv, Compacting
  <2>5. Ingesting'
    BY <1>1, <2>1 DEF LevelInv, Ingesting
  <2>6. SortedRuns'
    BY <2>1 DEF LevelInv, SortedRuns
  <2> QED BY <2>4, <2>5, <2>6
<1> QED BY <1>11, <1>12, <1>13 DEF LevelInv

-----------------------------------------------------------------------------
(* Compaction *)

\* Overlapping is symmetric.
LEMMA OverlapSym ==
  ASSUME NEW ks, NEW ls
  PROVE  Overlap(ks, ls) <=> Overlap(ls, ks)
BY DEF Overlap

\* A compaction is registered with files that nobody else compacts, and if its output
\* goes below level 0 it overlaps no other file there and no other output
\* (RegisterCompaction).
LEMMA Registered ==
  ASSUME LevelInv, NEW inputs \in SUBSET files, inputs # {}, NEW n \in Levels,
         n > 0 => /\ \A f \in files \ inputs :
                       f.level = n => ~Overlap(KeysOf(f.data), FileKeys(inputs))
                  /\ ~RangeOverlapWithCompaction(n, FileKeys(inputs)),
         RegisterCompaction(inputs, n)
  PROVE  LevelInv'
<1> DEFINE new == [inputs |-> inputs, output_level |-> n, snaps |-> SnapshotSeqs,
                   bottommost |-> IsBottommostLevel(inputs, n), gone |-> KeysNotBeyond(inputs, n)]
<1>1. /\ UNCHANGED <<mem, imm, files, next_epoch, last_sequence, snapshots, flush, ingestion,
                     ingestions, current>>
      /\ compactions' = compactions \cup {new}
      /\ inputs \cap BeingCompacted = {}
  BY DEF RegisterCompaction
<1>2. files \in SUBSET FileType
  BY DEF LevelInv, Types
<1>3. new \in CompactionType /\ new.inputs = inputs /\ new.output_level = n
  <2>1. SnapshotSeqs \in SUBSET Nat
    BY SnapshotSeqsType DEF LevelInv
  <2>2. IsBottommostLevel(inputs, n) \in BOOLEAN
    BY DEF IsBottommostLevel
  <2>3. KeysNotBeyond(inputs, n) \in SUBSET Keys
    BY <1>2, FileKeysIs DEF KeysNotBeyond
  <2> QED BY <1>2, <2>1, <2>2, <2>3 DEF CompactionType
<1> HIDE DEF new
<1>4. Types'
  BY <1>1, <1>3 DEF LevelInv, Types
<1>5. Contents'
  BY <1>1 DEF LevelInv, Contents
<1>6. \A c \in compactions : c.inputs \cap inputs = {}
  BY <1>1 DEF BeingCompacted
<1>7. \A c \in compactions : n > 0 /\ c.output_level = n =>
        ~Overlap(FileKeys(c.inputs), FileKeys(inputs)) /\ ~Overlap(FileKeys(inputs), FileKeys(c.inputs))
  <2> SUFFICES ASSUME NEW c \in compactions, n > 0, c.output_level = n
               PROVE  ~Overlap(FileKeys(c.inputs), FileKeys(inputs))
    BY OverlapSym
  <2> DEFINE o == [level |-> c.output_level, keys |-> FileKeys(c.inputs)]
  <2>1. o \in Outputs
    BY DEF Outputs
  <2>2. o.level = n /\ o.keys = FileKeys(c.inputs)
    OBVIOUS
  <2> HIDE DEF o
  <2> QED BY <2>1, <2>2 DEF RangeOverlapWithCompaction
<1>8. Compacting'
  <2>1. ASSUME NEW c \in compactions'
        PROVE  /\ c.inputs \subseteq files /\ c.inputs # {}
               /\ c.output_level > 0 =>
                    \A f \in files \ c.inputs :
                      f.level = c.output_level => ~Overlap(KeysOf(f.data), FileKeys(c.inputs))
    <3>1. CASE c \in compactions
      BY <3>1 DEF LevelInv, Compacting
    <3>2. CASE c = new
      BY <1>3, <3>2
    <3> QED BY <1>1, <3>1, <3>2
  <2>2. ASSUME NEW c \in compactions', NEW d \in compactions', c # d
        PROVE  /\ c.inputs \cap d.inputs = {}
               /\ c.output_level > 0 /\ c.output_level = d.output_level =>
                    ~Overlap(FileKeys(c.inputs), FileKeys(d.inputs))
    <3>1. CASE c \in compactions /\ d \in compactions
      BY <2>2, <3>1 DEF LevelInv, Compacting
    <3>2. CASE c = new /\ d \in compactions
      BY <1>3, <1>6, <1>7, <3>2
    <3>3. CASE c \in compactions /\ d = new
      BY <1>3, <1>6, <1>7, <3>3
    <3> QED BY <1>1, <2>2, <3>1, <3>2, <3>3
  <2> QED BY <1>1, <2>1, <2>2 DEF Compacting
<1>9. Ingesting'
  <2>1. ASSUME ingestion.phase = "logging", ingestion.level > 0, n = ingestion.level
        PROVE  ~Overlap(FileKeys(inputs), ingestion.keys)
    <3> DEFINE o == [level |-> ingestion.level, keys |-> ingestion.keys]
    <3>1. o \in Outputs
      BY <2>1 DEF Outputs
    <3>2. o.level = n /\ o.keys = ingestion.keys
      BY <2>1
    <3> HIDE DEF o
    <3>3. n > 0
      BY <2>1
    <3>4. ~Overlap(ingestion.keys, FileKeys(inputs))
      BY <3>1, <3>2, <3>3 DEF RangeOverlapWithCompaction
    <3> QED BY <3>4, OverlapSym
  <2>2. \A c \in compactions' : ingestion.phase = "logging" /\ ingestion.level > 0 =>
          (c.output_level = ingestion.level => ~Overlap(FileKeys(c.inputs), ingestion.keys))
    BY <1>1, <1>3, <2>1 DEF LevelInv, Ingesting
  <2> QED BY <1>1, <2>2 DEF LevelInv, Ingesting
<1>10. SortedRuns'
  BY <1>1 DEF LevelInv, SortedRuns
<1> QED BY <1>4, <1>5, <1>8, <1>9, <1>10 DEF LevelInv

\* With the files of the output level that overlap the inputs, no other file there
\* overlaps any of it (SetupOtherInputsIfNeeded).
LEMMA WithOutputLevelStep ==
  ASSUME LevelInv, NEW inputs \in SUBSET files, inputs # {}, NEW n \in Levels, n > 0,
         WithOutputLevel(inputs, n)
  PROVE  LevelInv'
<1> DEFINE more == OverlapInLevel(n, FileKeys(inputs))
           all == inputs \cup more
<1>1. more \in SUBSET files
  BY DEF OverlapInLevel, OnLevel
<1>2. files \in SUBSET FileType
  BY DEF LevelInv, Types
<1>3. \A f \in files : KeysOf(f.data) \in SUBSET Keys /\ KeysOf(f.data) # {}
  <2>1. \A f \in files : f.data \in SUBSET EntryType /\ f.data # {}
    BY <1>2 DEF LevelInv, Contents, FileType
  <2> QED BY <2>1, KeysOfIs
<1>4. FileKeys(inputs) \in SUBSET Keys /\ FileKeys(inputs) # {}
  BY <1>2, FileKeysIs DEF LevelInv, Contents
<1>5. FileKeys(all) = FileKeys(inputs) \cup UNION {KeysOf(g.data) : g \in more}
  BY DEF FileKeys
<1>6. ASSUME NEW f \in files \ all, f.level = n
      PROVE  ~Overlap(KeysOf(f.data), FileKeys(all))
  <2> DEFINE F == {KeysOf(g.data) : g \in more}
  <2>1. ~Overlap(FileKeys(inputs), KeysOf(f.data))
    <3>1. f \notin more
      BY <1>6
    <3>2. ~Overlap(KeysOf(f.data), FileKeys(inputs))
      BY <1>6, <3>1 DEF OverlapInLevel, OnLevel
    <3> QED BY <3>2, OverlapSym
  <2>2. \A ms \in F : ms # {} /\ Overlap(ms, FileKeys(inputs)) /\ ~Overlap(ms, KeysOf(f.data))
    <3> SUFFICES ASSUME NEW g \in more
                 PROVE  /\ KeysOf(g.data) # {} /\ Overlap(KeysOf(g.data), FileKeys(inputs))
                        /\ ~Overlap(KeysOf(g.data), KeysOf(f.data))
      OBVIOUS
    <3>1. g \in files /\ g.level = n /\ Overlap(KeysOf(g.data), FileKeys(inputs)) /\ g # f
      BY <1>6 DEF OverlapInLevel, OnLevel
    <3> QED BY <1>3, <1>6, <3>1 DEF LevelInv, SortedRuns
  <2>3. F \in SUBSET (SUBSET Keys)
    BY <1>1, <1>3
  <2> HIDE DEF F
  <2>4. KeysOf(f.data) \in SUBSET Keys /\ KeysOf(f.data) # {}
    BY <1>3
  <2>5. ~Overlap(FileKeys(inputs) \cup UNION F, KeysOf(f.data))
    BY <1>4, <2>1, <2>2, <2>3, <2>4, OverlapHull
  <2> QED BY <1>5, <2>5, OverlapSym DEF F
<1>7. ~RangeOverlapWithCompaction(n, FileKeys(all)) /\ RegisterCompaction(all, n)
  BY DEF WithOutputLevel
<1>8. all \in SUBSET files /\ all # {}
  BY <1>1
<1> HIDE DEF all
<1> QED BY <1>6, <1>7, <1>8, Registered

\* CompactToNextLevel
LEMMA CompactToNextLevelStep ==
  ASSUME LevelInv, NEW f \in files, CompactToNextLevel(f)
  PROVE  LevelInv'
<1>1. f.level \in 1..(MaxLevel - 1) /\ WithOutputLevel({f}, f.level + 1)
  BY DEF CompactToNextLevel
<1>2. f.level + 1 \in Levels /\ f.level + 1 > 0
  BY <1>1, VersionsAssumption DEF Levels
<1>3. {f} \in SUBSET files /\ {f} # {}
  OBVIOUS
<1> QED BY <1>1, <1>2, <1>3, WithOutputLevelStep

\* CompactBottommostFile
LEMMA CompactBottommostFileStep ==
  ASSUME LevelInv, NEW f \in files, CompactBottommostFile(f)
  PROVE  LevelInv'
<1>1. f.level \in Levels /\ f.level \in Nat
  BY DEF LevelInv, Types, FileType, Levels
<1>2. {f} \in SUBSET files /\ {f} # {}
  OBVIOUS
<1>3. CASE f.level = 0
  <2>1. RegisterCompaction({f}, 0)
    BY <1>3 DEF CompactBottommostFile
  <2>2. 0 \in Levels /\ ~(0 > 0)
    BY <1>1, <1>3
  <2> QED BY <1>2, <2>1, <2>2, Registered
<1>4. CASE f.level # 0
  <2>1. WithOutputLevel({f}, f.level) /\ f.level > 0
    BY <1>1, <1>4 DEF CompactBottommostFile
  <2> QED BY <1>1, <1>2, <2>1, WithOutputLevelStep
<1> QED BY <1>3, <1>4

\* A base level is a level below 0.
LEMMA BaseLevelsAre == BaseLevels \in SUBSET (Levels \ {0})
<1> DEFINE filled == {n \in 1..MaxLevel : OnLevel(n) # {}}
<1>1. MaxLevel \in Nat /\ MaxLevel > 0
  BY VersionsAssumption
<1>2. filled \in SUBSET Nat /\ \A n \in filled : n \in 1..MaxLevel
  BY <1>1
<1>3. BaseLevels = IF filled = {} THEN {MaxLevel} ELSE 1..Min(filled)
  BY DEF BaseLevels
<1> HIDE DEF filled
<1>4. CASE filled = {}
  BY <1>1, <1>3, <1>4 DEF Levels
<1>5. CASE filled # {}
  <2>1. Min(filled) \in filled
    BY <1>2, <1>5, MinIs
  <2>2. Min(filled) \in 1..MaxLevel
    BY <1>2, <2>1
  <2> QED BY <1>1, <1>3, <1>5, <2>2 DEF Levels
<1> QED BY <1>4, <1>5

\* CompactLevel0
LEMMA CompactLevel0Step ==
  ASSUME LevelInv, NEW f \in files, NEW n \in Levels, CompactLevel0(f, n)
  PROVE  LevelInv'
<1> DEFINE inputs == GetOverlappingL0Files(f)
<1>1. f \in OnLevel(0) /\ n \in BaseLevels /\ WithOutputLevel(inputs, n)
  BY DEF CompactLevel0
<1>2. inputs \in SUBSET files /\ f \in inputs
  BY <1>1 DEF GetOverlappingL0Files, OnLevel
<1>3. n > 0
  BY <1>1, BaseLevelsAre DEF Levels
<1> HIDE DEF inputs
<1> QED BY <1>1, <1>2, <1>3, WithOutputLevelStep

\* PickIntraL0Compaction
LEMMA PickIntraL0CompactionStep ==
  ASSUME LevelInv, PickIntraL0Compaction
  PROVE  LevelInv'
<1>1. RegisterCompaction(FindIntraL0Compaction, 0) /\ Cardinality(FindIntraL0Compaction) >= 2
  BY DEF PickIntraL0Compaction
<1>2. FindIntraL0Compaction \in SUBSET files
  BY DEF FindIntraL0Compaction, OnLevel
<1>3. FindIntraL0Compaction # {}
  <2>1. Cardinality({}) = 0
    BY FS_EmptySet
  <2> QED BY <1>1, <2>1
<1>4. 0 \in Levels /\ ~(0 > 0)
  BY VersionsAssumption DEF Levels
<1> QED BY <1>1, <1>2, <1>3, <1>4, Registered

\* What a compaction installs has entries of its inputs, and the files below level 0 have
\* ranges of their own (OutputFiles).
LEMMA OutputFilesAre ==
  ASSUME LevelInv, NEW c \in compactions, NEW out \in OutputFiles(c)
  PROVE  /\ \A g \in out : /\ g \in FileType /\ g.level = c.output_level
                           /\ g.data # {} /\ Upto(g.data, last_sequence)
                           /\ KeysOf(g.data) \subseteq FileKeys(c.inputs)
         /\ \A g, h \in out : c.output_level > 0 /\ g # h =>
              ~Overlap(KeysOf(g.data), KeysOf(h.data))
<1> DEFINE data == Output(Data(c.inputs), c.snaps, c.gone, c.bottommost)
           epoch == IF c.output_level = 0 THEN Min({f.epoch : f \in c.inputs}) ELSE 0
           file(entries) == [level |-> c.output_level, epoch |-> epoch, data |-> entries]
           whole == IF data = {} THEN {} ELSE {file(data)}
           split == {file({e \in data : e.key = k}) : k \in KeysOf(data)}
           moved == {file(f.data) : f \in c.inputs}
<1>1. c \in CompactionType /\ c.inputs \subseteq files /\ c.inputs # {} /\ last_sequence \in Nat
  BY DEF LevelInv, Types, Compacting
<1>2. c.inputs \in SUBSET FileType /\ c.output_level \in Levels
  BY <1>1 DEF CompactionType
<1>3. epoch \in Nat
  <2> DEFINE epochs == {f.epoch : f \in c.inputs}
  <2>1. epochs \in SUBSET Nat /\ epochs # {}
    BY <1>1, <1>2 DEF FileType
  <2>2. Min(epochs) \in epochs
    BY <2>1, MinIs
  <2> QED BY <2>1, <2>2
<1>4. Data(c.inputs) \in SUBSET EntryType /\ KeysOf(Data(c.inputs)) = FileKeys(c.inputs)
  BY <1>2, FileKeysIs
<1>5. Upto(Data(c.inputs), last_sequence)
  BY <1>1 DEF LevelInv, Contents, Upto, Data
<1>6. /\ data \in SUBSET EntryType /\ Upto(data, last_sequence)
      /\ KeysOf(data) \subseteq FileKeys(c.inputs)
  BY <1>1, <1>4, <1>5, OutputTyped
<1>7. out = whole \/ out = split \/ (out = moved /\ IsTrivialMove(c))
  <2>1. OutputFiles(c) = {whole} \cup (IF c.output_level = 0 THEN {} ELSE {split})
                                \cup (IF IsTrivialMove(c) THEN {moved} ELSE {})
    BY DEF OutputFiles
  <2> HIDE DEF whole, split, moved
  <2> QED BY <2>1
<1> HIDE DEF data, epoch
<1>8. ASSUME NEW entries \in SUBSET EntryType, entries # {}, Upto(entries, last_sequence),
             KeysOf(entries) \subseteq FileKeys(c.inputs)
      PROVE  /\ file(entries) \in FileType /\ file(entries).level = c.output_level
             /\ file(entries).data # {} /\ Upto(file(entries).data, last_sequence)
             /\ KeysOf(file(entries).data) \subseteq FileKeys(c.inputs)
  BY <1>2, <1>3, <1>8 DEF FileType
<1>9. CASE out = whole
  BY <1>6, <1>8, <1>9
<1>10. CASE out = split
  <2>1. \A k \in KeysOf(data) :
          LET some == {e \in data : e.key = k} IN
          /\ some \in SUBSET EntryType /\ some # {} /\ Upto(some, last_sequence)
          /\ KeysOf(some) = {k} /\ k \in Keys /\ KeysOf(some) \subseteq FileKeys(c.inputs)
    <3> SUFFICES ASSUME NEW k \in KeysOf(data)
                 PROVE  LET some == {e \in data : e.key = k} IN
                        /\ some \in SUBSET EntryType /\ some # {} /\ Upto(some, last_sequence)
                        /\ KeysOf(some) = {k} /\ k \in Keys
                        /\ KeysOf(some) \subseteq FileKeys(c.inputs)
      OBVIOUS
    <3> DEFINE some == {e \in data : e.key = k}
    <3>1. some \in SUBSET EntryType /\ Upto(some, last_sequence)
      BY <1>6 DEF Upto
    <3>2. some # {} /\ KeysOf(some) = {k}
      BY DEF KeysOf
    <3>3. k \in Keys /\ k \in FileKeys(c.inputs)
      BY <1>6, KeysOfIs
    <3> QED BY <3>1, <3>2, <3>3
  <2>2. ASSUME NEW k \in KeysOf(data), NEW l \in KeysOf(data),
               Overlap({k}, {l})
        PROVE  k = l
    <3>1. {k} \in SUBSET Keys /\ {l} \in SUBSET Keys /\ {k} # {} /\ {l} # {}
      BY <2>1
    <3>2. Min({k}) = k /\ Max({k}) = k /\ Min({l}) = l /\ Max({l}) = l /\ k \in Nat /\ l \in Nat
      BY <3>1, KeyBounds
    <3>3. k <= l /\ l <= k
      BY <2>2, <3>1, <3>2, OverlapIs
    <3> QED BY <3>2, <3>3
  <2>3. ASSUME NEW k \in KeysOf(data), NEW l \in KeysOf(data),
               file({e \in data : e.key = k}) # file({e \in data : e.key = l})
        PROVE  ~Overlap(KeysOf({e \in data : e.key = k}), KeysOf({e \in data : e.key = l}))
    BY <2>1, <2>2, <2>3
  <2>4. \A g \in out : \E k \in KeysOf(data) : g = file({e \in data : e.key = k})
    BY <1>10
  <2>5. \A g \in out : /\ g \in FileType /\ g.level = c.output_level
                       /\ g.data # {} /\ Upto(g.data, last_sequence)
                       /\ KeysOf(g.data) \subseteq FileKeys(c.inputs)
    <3> SUFFICES ASSUME NEW g \in out
                 PROVE  /\ g \in FileType /\ g.level = c.output_level
                        /\ g.data # {} /\ Upto(g.data, last_sequence)
                        /\ KeysOf(g.data) \subseteq FileKeys(c.inputs)
      OBVIOUS
    <3>1. PICK k \in KeysOf(data) : g = file({e \in data : e.key = k})
      BY <2>4
    <3> DEFINE some == {e \in data : e.key = k}
    <3>2. /\ some \in SUBSET EntryType /\ some # {} /\ Upto(some, last_sequence)
          /\ KeysOf(some) \subseteq FileKeys(c.inputs)
      BY <2>1
    <3> HIDE DEF some
    <3>3. /\ file(some) \in FileType /\ file(some).level = c.output_level
          /\ file(some).data # {} /\ Upto(file(some).data, last_sequence)
          /\ KeysOf(file(some).data) \subseteq FileKeys(c.inputs)
      BY <1>8, <3>2
    <3> QED BY <3>1, <3>3 DEF some
  <2>6. ASSUME NEW g \in out, NEW h \in out, g # h
        PROVE  ~Overlap(KeysOf(g.data), KeysOf(h.data))
    <3>1. PICK k \in KeysOf(data) : g = file({e \in data : e.key = k})
      BY <2>4
    <3>2. PICK l \in KeysOf(data) : h = file({e \in data : e.key = l})
      BY <2>4
    <3>3. g.data = {e \in data : e.key = k} /\ h.data = {e \in data : e.key = l}
      BY <3>1, <3>2
    <3> QED BY <2>3, <2>6, <3>1, <3>2, <3>3
  <2> QED BY <2>5, <2>6
<1>11. CASE out = moved /\ IsTrivialMove(c)
  <2>1. PICK f \in c.inputs : c.inputs = {f}
    BY <1>11 DEF IsTrivialMove
  <2>2. out = {file(f.data)}
    BY <1>11, <2>1
  <2>3. f.data \in SUBSET EntryType /\ f.data # {} /\ Upto(f.data, last_sequence)
    BY <1>1, <1>2 DEF LevelInv, Contents, FileType
  <2>4. KeysOf(f.data) \subseteq FileKeys(c.inputs)
    BY <1>2, FileKeysIs
  <2> QED BY <1>8, <2>2, <2>3, <2>4
<1> QED BY <1>7, <1>9, <1>10, <1>11

\* Keys within a range that does not overlap another one do not overlap it either.
LEMMA ApartBelow ==
  ASSUME NEW ks \in SUBSET Keys, NEW ls \in SUBSET Keys, ls # {}, NEW ms \in SUBSET ks, ms # {},
         ~Overlap(ks, ls)
  PROVE  ~Overlap(ms, ls) /\ ~Overlap(ls, ms)
<1>1. ks # {}
  OBVIOUS
<1>2. ~Overlap(ms, ls)
  BY <1>1, OverlapMono
<1> QED BY <1>2, OverlapSym

\* Files of level n, within a range ks that no file but those that go overlaps, replace
\* the latter.
Replaces(out, gone, n, ks) ==
  /\ files' = (files \ gone) \cup out
  /\ ks \in SUBSET Keys
  /\ \A g \in out : g.level = n /\ KeysOf(g.data) \subseteq ks /\ KeysOf(g.data) # {}
  /\ \A g, h \in out : n > 0 /\ g # h => ~Overlap(KeysOf(g.data), KeysOf(h.data))
  /\ n > 0 => \A f \in files \ gone : f.level = n => ~Overlap(KeysOf(f.data), ks)

\* They keep the level sorted.
LEMMA Installed ==
  ASSUME LevelInv, NEW out, NEW gone, NEW n, NEW ks, Replaces(out, gone, n, ks)
  PROVE  SortedRuns'
<1> SUFFICES ASSUME NEW f \in files', NEW g \in files', f # g, f.level = g.level, f.level > 0
             PROVE  ~Overlap(KeysOf(f.data), KeysOf(g.data))
  BY DEF SortedRuns
<1> USE DEF Replaces
<1>1. \A h \in files : KeysOf(h.data) \in SUBSET Keys /\ KeysOf(h.data) # {}
  <2>1. \A h \in files : h.data \in SUBSET EntryType /\ h.data # {}
    BY DEF LevelInv, Types, Contents, FileType
  <2> QED BY <2>1, KeysOfIs
<1>2. ASSUME NEW o \in out, NEW h \in files \ gone, o.level = h.level, h.level > 0
      PROVE  ~Overlap(KeysOf(o.data), KeysOf(h.data)) /\ ~Overlap(KeysOf(h.data), KeysOf(o.data))
  <2>1. KeysOf(o.data) \in SUBSET ks /\ KeysOf(o.data) # {}
    OBVIOUS
  <2>2. ~Overlap(KeysOf(h.data), ks)
    BY <1>2
  <2>3. ~Overlap(ks, KeysOf(h.data))
    BY <2>2, OverlapSym
  <2>4. KeysOf(h.data) \in SUBSET Keys /\ KeysOf(h.data) # {}
    BY <1>1
  <2> QED BY <2>1, <2>3, <2>4, ApartBelow
<1>3. CASE f \in files \ gone /\ g \in files \ gone
  BY <1>3 DEF LevelInv, SortedRuns
<1>4. CASE f \in out /\ g \in out
  BY <1>4
<1>5. CASE f \in out /\ g \in files \ gone
  BY <1>2, <1>5
<1>6. CASE f \in files \ gone /\ g \in out
  BY <1>2, <1>6
<1> QED BY <1>3, <1>4, <1>5, <1>6

\* CompactionJob::Install
LEMMA InstallCompactionStep ==
  ASSUME LevelInv, NEW c \in compactions, InstallCompaction(c)
  PROVE  LevelInv'
<1>1. UNCHANGED <<mem, imm, next_epoch, last_sequence, snapshots, flush, ingestion, ingestions,
                  current>>
  BY DEF InstallCompaction
<1>2. compactions' = compactions \ {c}
  BY DEF InstallCompaction
<1>3. PICK out \in OutputFiles(c) : files' = (files \ c.inputs) \cup out
  BY DEF InstallCompaction
<1>4. \A g \in out : /\ g \in FileType /\ g.level = c.output_level
                     /\ g.data # {} /\ Upto(g.data, last_sequence)
                     /\ KeysOf(g.data) \subseteq FileKeys(c.inputs)
  BY OutputFilesAre
<1>5. \A g, h \in out : c.output_level > 0 /\ g # h => ~Overlap(KeysOf(g.data), KeysOf(h.data))
  BY OutputFilesAre
<1>6. \A g \in out : KeysOf(g.data) # {}
  <2>1. \A g \in out : g.data \in SUBSET EntryType /\ g.data # {}
    BY <1>4 DEF FileType
  <2> QED BY <2>1, KeysOfIs
<1>7. /\ c.inputs \in SUBSET files /\ c.output_level \in Nat
      /\ \A d \in compactions : d.inputs \in SUBSET FileType /\ d.inputs \subseteq files /\ d.inputs # {}
  BY DEF LevelInv, Types, Compacting, CompactionType, Levels
<1>8. \A d \in compactions : FileKeys(d.inputs) \in SUBSET Keys /\ FileKeys(d.inputs) # {}
  <2>1. \A d \in compactions : \A f \in d.inputs : f.data # {}
    BY <1>7 DEF LevelInv, Contents
  <2> QED BY <1>7, <2>1, FileKeysIs
<1>9. Types'
  BY <1>1, <1>2, <1>3, <1>4 DEF LevelInv, Types
<1>10. Contents'
  BY <1>1, <1>3, <1>4 DEF LevelInv, Contents
<1>11. SortedRuns'
  <2>1. FileKeys(c.inputs) \in SUBSET Keys
    BY <1>8
  <2>2. c.output_level > 0 => \A f \in files \ c.inputs :
          f.level = c.output_level => ~Overlap(KeysOf(f.data), FileKeys(c.inputs))
    BY DEF LevelInv, Compacting
  <2>3. \A g \in out : /\ g.level = c.output_level
                       /\ KeysOf(g.data) \subseteq FileKeys(c.inputs) /\ KeysOf(g.data) # {}
    BY <1>4, <1>6
  <2>4. Replaces(out, c.inputs, c.output_level, FileKeys(c.inputs))
    BY <1>3, <1>5, <2>1, <2>2, <2>3 DEF Replaces
  <2> QED BY <2>4, Installed
<1>12. Compacting'
  <2>1. ASSUME NEW d \in compactions'
        PROVE  /\ d.inputs \subseteq files' /\ d.inputs # {}
               /\ d.output_level > 0 =>
                    \A f \in files' \ d.inputs :
                      f.level = d.output_level => ~Overlap(KeysOf(f.data), FileKeys(d.inputs))
    <3>1. d \in compactions /\ d # c
      BY <1>2
    <3>2. d.inputs \subseteq files' /\ d.inputs # {}
      BY <1>3, <1>7, <3>1 DEF LevelInv, Compacting
    <3>3. ASSUME NEW f \in files' \ d.inputs, d.output_level > 0, f.level = d.output_level
          PROVE  ~Overlap(KeysOf(f.data), FileKeys(d.inputs))
      <4>1. CASE f \in files
        BY <3>1, <3>3, <4>1 DEF LevelInv, Compacting
      <4>2. CASE f \in out
        <5>1. c.output_level = d.output_level
          BY <1>4, <3>3, <4>2
        <5>2. ~Overlap(FileKeys(c.inputs), FileKeys(d.inputs))
          BY <3>1, <3>3, <5>1 DEF LevelInv, Compacting
        <5>3. KeysOf(f.data) \in SUBSET FileKeys(c.inputs) /\ KeysOf(f.data) # {}
          BY <1>4, <1>6, <4>2
        <5>4. /\ FileKeys(c.inputs) \in SUBSET Keys
              /\ FileKeys(d.inputs) \in SUBSET Keys /\ FileKeys(d.inputs) # {}
          BY <1>8, <3>1
        <5> QED BY <5>2, <5>3, <5>4, ApartBelow
      <4> QED BY <1>3, <4>1, <4>2
    <3> QED BY <3>2, <3>3
  <2>2. \A d, e \in compactions' : d # e =>
          /\ d.inputs \cap e.inputs = {}
          /\ d.output_level > 0 /\ d.output_level = e.output_level =>
               ~Overlap(FileKeys(d.inputs), FileKeys(e.inputs))
    BY <1>2 DEF LevelInv, Compacting
  <2> QED BY <2>1, <2>2 DEF Compacting
<1>13. Ingesting'
  <2>1. ASSUME NEW f \in files', ingestion.phase = "logging", ingestion.level > 0,
               f.level = ingestion.level
        PROVE  ~Overlap(KeysOf(f.data), ingestion.keys)
    <3>1. CASE f \in files
      BY <2>1, <3>1 DEF LevelInv, Ingesting
    <3>2. CASE f \in out
      <4>1. c.output_level = ingestion.level
        BY <1>4, <2>1, <3>2
      <4>2. ~Overlap(FileKeys(c.inputs), ingestion.keys)
        BY <2>1, <4>1 DEF LevelInv, Ingesting
      <4>3. KeysOf(f.data) \in SUBSET FileKeys(c.inputs) /\ KeysOf(f.data) # {}
        BY <1>4, <1>6, <3>2
      <4>4. /\ FileKeys(c.inputs) \in SUBSET Keys
            /\ ingestion.keys \in SUBSET Keys /\ ingestion.keys # {}
        BY <1>8, <2>1 DEF LevelInv, Types, Ingesting, IngestionType
      <4> QED BY <4>2, <4>3, <4>4, ApartBelow
    <3> QED BY <1>3, <3>1, <3>2
  <2>2. \A d \in compactions' : ingestion.phase = "logging" /\ ingestion.level > 0 =>
          (d.output_level = ingestion.level => ~Overlap(FileKeys(d.inputs), ingestion.keys))
    BY <1>2 DEF LevelInv, Ingesting
  <2> QED BY <1>1, <2>1, <2>2 DEF LevelInv, Ingesting
<1> QED BY <1>9, <1>10, <1>11, <1>12, <1>13 DEF LevelInv

\* ReleaseCompactionFiles
LEMMA CompactionFailsStep ==
  ASSUME LevelInv, NEW c \in compactions, CompactionFails(c)
  PROVE  LevelInv'
<1>1. UNCHANGED <<mem, imm, files, next_epoch, last_sequence, snapshots, flush, ingestion,
                  ingestions, current>>
  BY DEF CompactionFails
<1>2. compactions' \in SUBSET compactions
  BY DEF CompactionFails
<1>3. Types'
  BY <1>1, <1>2 DEF LevelInv, Types
<1>4. Contents'
  BY <1>1 DEF LevelInv, Contents
<1>5. Compacting'
  BY <1>1, <1>2 DEF LevelInv, Compacting
<1>6. Ingesting' /\ SortedRuns'
  BY <1>1, <1>2 DEF LevelInv, Ingesting, SortedRuns
<1> QED BY <1>3, <1>4, <1>5, <1>6 DEF LevelInv

-----------------------------------------------------------------------------
(* Ingestion *)

\* IngestExternalFiles
LEMMA IngestExternalFilesStep ==
  ASSUME LevelInv, NEW ks \in ExternalKeys, IngestExternalFiles(ks)
  PROVE  LevelInv'
<1>1. UNCHANGED <<files, next_epoch, last_sequence, snapshots, flush, compactions, current>>
  BY DEF IngestExternalFiles
<1>2. ks \in SUBSET Keys /\ ks # {}
  BY VersionsAssumption
<1>3. ingestion' = [phase |-> "entered", keys |-> ks, flushed |-> NeedsFlush(ks), level |-> 0,
                    seq |-> 0, epoch |-> 0]
  BY DEF IngestExternalFiles, NoIngestion
<1>4. ingestion' \in IngestionType /\ ingestion'.phase = "entered" /\ ingestion'.keys = ks
  <2>1. NeedsFlush(ks) \in BOOLEAN
    BY DEF NeedsFlush
  <2>2. 0 \in Levels
    BY VersionsAssumption DEF Levels
  <2> QED BY <1>2, <1>3, <2>1, <2>2 DEF IngestionType
<1>5. mem' \in SUBSET EntryType /\ imm' \in Seq(SUBSET EntryType) /\ Contents'
  <2>1. CASE UNCHANGED <<mem, imm>>
    BY <1>1, <2>1 DEF LevelInv, Types, Contents
  <2>2. CASE mem # {} /\ Switch
    BY <1>1, <2>2, SwitchKeeps DEF LevelInv
  <2> QED BY <2>1, <2>2 DEF IngestExternalFiles, FlushMemTable
<1>6. ingestions' \in Nat
  BY DEF IngestExternalFiles, LevelInv, Types
<1>7. Types'
  BY <1>1, <1>4, <1>5, <1>6 DEF LevelInv, Types
<1>8. Compacting' /\ SortedRuns'
  BY <1>1 DEF LevelInv, Compacting, SortedRuns
<1>9. Ingesting'
  BY <1>2, <1>4 DEF Ingesting
<1> QED BY <1>5, <1>7, <1>8, <1>9 DEF LevelInv

\* The level that an ingested file is given, if not 0, has no file and no output in the
\* range of its keys (AssignLevelAndSeqnoForIngestedFile).
LEMMA AssignedLevel ==
  ASSUME LevelInv, NEW ks \in SUBSET Keys, NEW base \in BaseLevels
  PROVE  LET to == AssignLevelAndSeqno(ks, base) IN
         /\ to.level \in Levels
         /\ to.seq \in Nat
         /\ to.level > 0 => /\ ~RangeOverlapWithCompaction(to.level, ks)
                            /\ OverlapInLevel(to.level, ks) = {}
<1> DEFINE checked == {0} \cup base..MaxLevel
           overlaps(n) == RangeOverlapWithCompaction(n, ks) \/ OverlapWithLevelIterator(n, ks)
           stops == {n \in checked : overlaps(n)} \cup {MaxLevel + 1}
           first == Min(stops)
           fits == {0} \cup {n \in checked : n < first /\ IngestedFileFitInLevel(n, ks)}
           seq == IF first <= MaxLevel \/ snapshots # {} THEN last_sequence + 1 ELSE 0
<1>1. AssignLevelAndSeqno(ks, base) = [level |-> Max(fits), seq |-> seq]
  BY DEF AssignLevelAndSeqno
<1>2. MaxLevel \in Nat /\ base \in Levels /\ last_sequence \in Nat
  BY VersionsAssumption, BaseLevelsAre DEF LevelInv, Types
<1>3. checked \in SUBSET Levels /\ checked \in SUBSET Nat
  BY <1>2 DEF Levels
<1> HIDE DEF checked
<1>4. stops \in SUBSET Nat /\ stops # {}
  <2>1. {n \in checked : overlaps(n)} \in SUBSET Nat
    BY <1>3
  <2>2. {MaxLevel + 1} \in SUBSET Nat
    BY <1>2
  <2> QED BY <2>1, <2>2
<1>5. first \in Nat /\ \A n \in stops : first <= n
  BY <1>4, MinIs
<1>6. ASSUME NEW n \in checked, n < first PROVE ~RangeOverlapWithCompaction(n, ks)
  <2>1. n \notin stops
    BY <1>3, <1>5, <1>6
  <2> QED BY <2>1
<1> HIDE DEF first
<1>7. fits \in SUBSET Levels
  <2>1. {n \in checked : n < first /\ IngestedFileFitInLevel(n, ks)} \in SUBSET Levels
    BY <1>3
  <2>2. 0 \in Levels
    BY <1>2 DEF Levels
  <2> QED BY <2>1, <2>2
<1>8. fits \in SUBSET Nat /\ fits # {} /\ \A m \in fits : m <= MaxLevel
  BY <1>2, <1>7 DEF Levels
<1>9. Max(fits) \in fits
  BY <1>2, <1>8, MaxIs
<1>10. ASSUME NEW n \in fits, n > 0
       PROVE  ~RangeOverlapWithCompaction(n, ks) /\ OverlapInLevel(n, ks) = {}
  <2>1. n \in checked /\ n < first /\ IngestedFileFitInLevel(n, ks)
    BY <1>10
  <2>2. OverlapInLevel(n, ks) = {}
    BY <1>10, <2>1 DEF IngestedFileFitInLevel
  <2> QED BY <1>6, <2>1, <2>2
<1>11. seq \in Nat
  BY <1>2
<1> HIDE DEF fits, seq
<1> QED BY <1>1, <1>7, <1>9, <1>10, <1>11

\* RunIngestion
LEMMA RunIngestionStep ==
  ASSUME LevelInv, RunIngestion
  PROVE  LevelInv'
<1>1. /\ UNCHANGED <<mem, imm, files, last_sequence, snapshots, flush, compactions,
                     ingestions, current>>
      /\ next_epoch' = next_epoch + 1
  BY DEF RunIngestion
<1>2. ingestion \in IngestionType /\ ingestion.keys # {} /\ next_epoch \in Nat
  BY DEF LevelInv, Types, Ingesting, RunIngestion
<1>3. PICK base \in BaseLevels :
        LET to == AssignLevelAndSeqno(ingestion.keys, base) IN
        ingestion' = [ingestion EXCEPT !.phase = "logging", !.level = to.level, !.seq = to.seq,
                                       !.epoch = next_epoch]
  BY DEF RunIngestion
<1> DEFINE to == AssignLevelAndSeqno(ingestion.keys, base)
<1>4. ingestion.keys \in SUBSET Keys
  BY <1>2 DEF IngestionType
<1>5. /\ to.level \in Levels /\ to.seq \in Nat
      /\ to.level > 0 => /\ ~RangeOverlapWithCompaction(to.level, ingestion.keys)
                         /\ OverlapInLevel(to.level, ingestion.keys) = {}
  BY <1>4, AssignedLevel
<1>6. ingestion' = [ingestion EXCEPT !.phase = "logging", !.level = to.level, !.seq = to.seq,
                                     !.epoch = next_epoch]
  BY <1>3
<1> HIDE DEF to
<1>7. /\ ingestion' \in IngestionType
      /\ ingestion'.keys = ingestion.keys /\ ingestion'.level = to.level
  BY <1>2, <1>5, <1>6 DEF IngestionType
<1>8. ASSUME to.level > 0, NEW f \in files, f.level = to.level
      PROVE  ~Overlap(KeysOf(f.data), ingestion.keys)
  BY <1>5, <1>8 DEF OverlapInLevel, OnLevel
<1>9. ASSUME to.level > 0, NEW c \in compactions, c.output_level = to.level
      PROVE  ~Overlap(FileKeys(c.inputs), ingestion.keys)
  <2> DEFINE o == [level |-> c.output_level, keys |-> FileKeys(c.inputs)]
  <2>1. o \in Outputs
    BY DEF Outputs
  <2>2. o.level = to.level /\ o.keys = FileKeys(c.inputs)
    BY <1>9
  <2> HIDE DEF o
  <2> QED BY <1>5, <1>9, <2>1, <2>2 DEF RangeOverlapWithCompaction
<1>10. Ingesting'
  BY <1>1, <1>2, <1>7, <1>8, <1>9 DEF Ingesting
<1>11. Types'
  BY <1>1, <1>2, <1>7 DEF LevelInv, Types
<1>12. Contents' /\ Compacting' /\ SortedRuns'
  BY <1>1 DEF LevelInv, Contents, Compacting, SortedRuns
<1> QED BY <1>10, <1>11, <1>12 DEF LevelInv

\* The sequence numbers do not go back (SequenceAfterIngestion).
LEMMA SequenceGrows ==
  ASSUME Types
  PROVE  /\ SequenceAfterIngestion \in Nat
         /\ last_sequence <= SequenceAfterIngestion
         /\ ingestion.seq <= SequenceAfterIngestion
<1>1. last_sequence \in Nat /\ ingestion.seq \in Nat
  BY DEF Types, IngestionType
<1> DEFINE both == {last_sequence, ingestion.seq}
<1>2. /\ both \in SUBSET Nat /\ both # {} /\ last_sequence + ingestion.seq \in Nat
      /\ \A m \in both : m <= last_sequence + ingestion.seq
  BY <1>1
<1>3. Max(both) \in both /\ \A m \in both : m <= Max(both)
  BY <1>2, MaxIs
<1>4. SequenceAfterIngestion = Max(both)
  BY DEF SequenceAfterIngestion
<1> QED BY <1>1, <1>3, <1>4

\* InstallIngestion
LEMMA InstallIngestionStep ==
  ASSUME LevelInv, InstallIngestion
  PROVE  LevelInv'
<1> DEFINE val == External(ingestions)
           data == [key : ingestion.keys, seq : {ingestion.seq}, type : {"put"}, val : {val}]
           epoch == IF ingestion.level = 0 THEN ingestion.epoch ELSE 0
           file == [level |-> ingestion.level, data |-> data, epoch |-> epoch]
<1>1. UNCHANGED <<mem, imm, next_epoch, snapshots, flush, compactions, ingestions>>
  BY DEF InstallIngestion
<1>2. /\ ingestion.phase = "logging" /\ files' = files \cup {file}
      /\ last_sequence' = SequenceAfterIngestion
      /\ ingestion' = NoIngestion
      /\ current' = [k \in Keys |-> IF k \in ingestion.keys THEN val ELSE current[k]]
  BY DEF InstallIngestion
<1>3. /\ ingestion.epoch \in Nat /\ ingestions \in Nat /\ current \in [Keys -> Int]
      /\ ingestion.keys \in SUBSET Keys /\ ingestion.keys # {}
      /\ ingestion.seq \in Nat /\ ingestion.level \in Levels /\ ingestion.level \in Nat
  BY <1>2 DEF LevelInv, Types, Ingesting, IngestionType, Levels
<1>4. last_sequence' \in Nat /\ last_sequence <= last_sequence' /\ ingestion.seq <= last_sequence'
  BY <1>2, SequenceGrows DEF LevelInv
<1>5. val \in Int /\ epoch \in Nat
  BY <1>3 DEF External
<1>6. current' \in [Keys -> Int]
  <2> HIDE DEF val
  <2> QED BY <1>2, <1>3, <1>5
<1> HIDE DEF val, epoch
<1>7. /\ data \in SUBSET EntryType /\ Upto(data, last_sequence')
      /\ KeysOf(data) = ingestion.keys
  <2>1. data \in SUBSET EntryType
    BY <1>3, <1>5 DEF EntryType
  <2>2. Upto(data, last_sequence')
    BY <1>4 DEF Upto
  <2>3. ASSUME NEW k \in ingestion.keys
        PROVE  \E e \in data : e.key = k
    <3>1. [key |-> k, seq |-> ingestion.seq, type |-> "put", val |-> val] \in data
      OBVIOUS
    <3> QED BY <3>1
  <2>4. \A e \in data : e.key \in ingestion.keys
    OBVIOUS
  <2> HIDE DEF data
  <2>5. KeysOf(data) = ingestion.keys
    BY <2>3, <2>4 DEF KeysOf
  <2> QED BY <2>1, <2>2, <2>5
<1>8. data # {}
  BY <1>3, <1>7 DEF KeysOf
<1> HIDE DEF data
<1>9. file \in FileType /\ file.data = data /\ file.level = ingestion.level
  BY <1>3, <1>5, <1>7 DEF FileType
<1> HIDE DEF file
<1>10. ingestion' \in IngestionType /\ ingestion'.phase = "idle"
  <2>1. 0 \in Levels
    BY VersionsAssumption DEF Levels
  <2> QED BY <1>2, <2>1 DEF NoIngestion, IngestionType
<1>11. Types'
  BY <1>1, <1>2, <1>3, <1>4, <1>6, <1>9, <1>10 DEF LevelInv, Types
<1>12. Contents'
  <2>1. Upto(mem, last_sequence')
    BY <1>4, UptoMono DEF LevelInv, Types, Contents
  <2>2. \A i \in DOMAIN imm : imm[i] \in SUBSET EntryType
    BY DEF LevelInv, Types
  <2>3. \A i \in DOMAIN imm : imm[i] # {} /\ Upto(imm[i], last_sequence')
    BY <1>4, <2>2, UptoMono DEF LevelInv, Types, Contents
  <2>4. \A f \in files : f.data \in SUBSET EntryType
    BY DEF LevelInv, Types, FileType
  <2>5. \A f \in files : f.data # {} /\ Upto(f.data, last_sequence')
    BY <1>4, <2>4, UptoMono DEF LevelInv, Types, Contents
  <2>6. \A f \in files' : f.data # {} /\ Upto(f.data, last_sequence')
    BY <1>2, <1>7, <1>8, <1>9, <2>5
  <2>7. flush.phase # "idle" => flush.max > 0 /\ flush.max <= Len(imm)
    BY DEF LevelInv, Contents
  <2> QED BY <1>1, <2>1, <2>3, <2>6, <2>7 DEF Contents
<1>13. SortedRuns'
  <2>1. \A g \in {file} : g.level = ingestion.level /\ KeysOf(g.data) \subseteq ingestion.keys
                           /\ KeysOf(g.data) # {}
    BY <1>3, <1>7, <1>9
  <2>2. \A g, h \in {file} : ingestion.level > 0 /\ g # h => ~Overlap(KeysOf(g.data), KeysOf(h.data))
    OBVIOUS
  <2>3. ingestion.level > 0 => \A f \in files \ {} :
          f.level = ingestion.level => ~Overlap(KeysOf(f.data), ingestion.keys)
    BY <1>2 DEF LevelInv, Ingesting
  <2>4. files' = (files \ {}) \cup {file}
    BY <1>2
  <2>5. Replaces({file}, {}, ingestion.level, ingestion.keys)
    BY <1>3, <2>1, <2>2, <2>3, <2>4 DEF Replaces
  <2> QED BY <2>5, Installed
<1>14. Compacting'
  <2>1. ASSUME NEW c \in compactions
        PROVE  /\ c.inputs \subseteq files' /\ c.inputs # {}
               /\ c.output_level > 0 =>
                    \A f \in files' \ c.inputs :
                      f.level = c.output_level => ~Overlap(KeysOf(f.data), FileKeys(c.inputs))
    <3>1. c.inputs \subseteq files' /\ c.inputs # {}
      BY <1>2 DEF LevelInv, Compacting
    <3>2. \A f \in files \ c.inputs : c.output_level > 0 /\ f.level = c.output_level =>
            ~Overlap(KeysOf(f.data), FileKeys(c.inputs))
      BY DEF LevelInv, Compacting
    <3>3. c.output_level > 0 /\ file.level = c.output_level =>
            ~Overlap(FileKeys(c.inputs), ingestion.keys)
      BY <1>2, <1>9 DEF LevelInv, Ingesting
    <3>4. c.output_level > 0 /\ file.level = c.output_level =>
            ~Overlap(KeysOf(file.data), FileKeys(c.inputs))
      BY <1>7, <1>9, <3>3, OverlapSym
    <3> QED BY <1>2, <3>1, <3>2, <3>4
  <2> QED BY <1>1, <2>1 DEF LevelInv, Compacting
<1>15. Ingesting'
  BY <1>10 DEF Ingesting
<1> QED BY <1>11, <1>12, <1>13, <1>14, <1>15 DEF LevelInv

\* IngestionFails
LEMMA IngestionFailsStep ==
  ASSUME LevelInv, IngestionFails
  PROVE  LevelInv'
<1>1. UNCHANGED <<mem, imm, files, next_epoch, snapshots, flush, compactions, ingestions, current>>
  BY DEF IngestionFails
<1>2. last_sequence' \in Nat /\ last_sequence <= last_sequence'
  <2>1. last_sequence \in Nat
    BY DEF LevelInv, Types
  <2>2. SequenceAfterIngestion \in Nat /\ last_sequence <= SequenceAfterIngestion
    BY SequenceGrows DEF LevelInv
  <2> QED BY <2>1, <2>2 DEF IngestionFails
<1>3. ingestion' \in IngestionType /\ ingestion'.phase = "idle"
  <2>1. 0 \in Levels
    BY VersionsAssumption DEF Levels
  <2> QED BY <2>1 DEF IngestionFails, NoIngestion, IngestionType
<1>4. Types'
  BY <1>1, <1>2, <1>3 DEF LevelInv, Types
<1>5. Contents'
  BY <1>1, <1>2, ContentsFrame DEF LevelInv
<1>6. Compacting' /\ SortedRuns'
  BY <1>1 DEF LevelInv, Compacting, SortedRuns
<1>7. Ingesting'
  BY <1>3 DEF Ingesting
<1> QED BY <1>4, <1>5, <1>6, <1>7 DEF LevelInv

-----------------------------------------------------------------------------
(* The theorems *)

\* The inductive invariant holds initially: there is no file and no job (Init).
LEMMA InitInv == Init => LevelInv
<1> SUFFICES ASSUME Init PROVE LevelInv
  OBVIOUS
<1>1. 0 \in Levels
  BY VersionsAssumption DEF Levels
<1>2. flush \in FlushType /\ flush.phase = "idle"
  BY DEF Init, NoFlush, FlushType
<1>3. ingestion \in IngestionType /\ ingestion.phase = "idle"
  BY <1>1 DEF Init, NoIngestion, IngestionType
<1>4. imm \in Seq(SUBSET EntryType) /\ DOMAIN imm = {}
  BY DEF Init
<1>5. current \in [Keys -> Int]
  BY DEF Init, Absent
<1>6. Types
  BY <1>2, <1>3, <1>4, <1>5 DEF Init, Types
<1>7. Contents
  BY <1>2, <1>4 DEF Init, Contents, Upto
<1>8. Compacting /\ Ingesting /\ SortedRuns
  BY <1>3 DEF Init, Compacting, Ingesting, SortedRuns
<1> QED BY <1>6, <1>7, <1>8 DEF LevelInv

\* Every step of writers, readers, flushes, compactions and ingestions keeps it.
LEMMA NextInv == LevelInv /\ [Next]_vars => LevelInv'
<1> SUFFICES ASSUME LevelInv, [Next]_vars PROVE LevelInv'
  OBVIOUS
<1>1. ASSUME NEW k \in Keys, Put(k) \/ Delete(k) PROVE LevelInv'
  <2>1. {k} \in SUBSET Keys
    OBVIOUS
  <2> QED BY <1>1, <2>1, WriteStep DEF Put, Delete
<1>2. ASSUME NEW k \in Keys, GetImpl(k) PROVE LevelInv'
  BY <1>2, ReadStep DEF GetImpl
<1>3. CASE DeleteRange(Keys)
  <2>1. Keys \in SUBSET Keys
    OBVIOUS
  <2> QED BY <1>3, <2>1, WriteStep DEF DeleteRange
<1>4. CASE SwitchMemtable
  BY <1>4, SwitchStep
<1>5. CASE GetReturns \/ GetDone
  BY <1>5, ReadStep DEF GetReturns, GetDone
<1>6. CASE GetSnapshot \/ \E s \in snapshots : ReleaseSnapshot(s)
  BY <1>6, SnapshotStep
<1>7. CASE FlushSteps
  BY <1>7, BeginFlushStep, PickMemTableStep, WriteLevel0TableStep DEF FlushSteps
<1>8. ASSUME NEW f \in files, CompactToNextLevel(f) \/ CompactBottommostFile(f) PROVE LevelInv'
  BY <1>8, CompactToNextLevelStep, CompactBottommostFileStep
<1>9. ASSUME NEW f \in files, NEW n \in Levels, CompactLevel0(f, n) PROVE LevelInv'
  BY <1>9, CompactLevel0Step
<1>10. CASE PickIntraL0Compaction
  BY <1>10, PickIntraL0CompactionStep
<1>11. ASSUME NEW c \in compactions, InstallCompaction(c) \/ CompactionFails(c) PROVE LevelInv'
  BY <1>11, InstallCompactionStep, CompactionFailsStep
<1>12. ASSUME NEW ks \in ExternalKeys, IngestExternalFiles(ks) PROVE LevelInv'
  BY <1>12, IngestExternalFilesStep
<1>13. CASE RunIngestion
  BY <1>13, RunIngestionStep
<1>14. CASE InstallIngestion
  BY <1>14, InstallIngestionStep
<1>15. CASE IngestionFails
  BY <1>15, IngestionFailsStep
<1>16. CASE UNCHANGED vars
  BY <1>16, ReadStep DEF vars
<1> QED BY <1>1, <1>2, <1>3, <1>4, <1>5, <1>6, <1>7, <1>8, <1>9, <1>10, <1>11, <1>12,
           <1>13, <1>14, <1>15, <1>16 DEF Next

\* What is about to be installed has reserved its range, in every state.
THEOREM Reservation == Spec => []LevelInv
BY InitInv, NextInv, PTL DEF Spec

\* The files of a level below 0 have ranges of keys of their own in every state, however
\* many compactions and ingestions run at a time and in whatever order they are installed
\* or fail.
THEOREM LevelsAreSorted == Spec => []SortedRuns
<1>1. LevelInv => SortedRuns
  BY DEF LevelInv
<1> QED BY Reservation, <1>1, PTL

=============================================================================
