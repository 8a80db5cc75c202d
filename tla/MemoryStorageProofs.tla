------------------------- MODULE MemoryStorageProofs -------------------------
(***************************************************************************)
(* Proofs about MemoryStorage, for every set of quads, graphs and readers  *)
(* and every number of transactions.                                       *)
(*                                                                         *)
(* The inductive invariant says where the id of the running transaction,   *)
(* or the version it is committing, may occur in a range: only as the last *)
(* element.  A range is then open exactly when the transaction sees it,    *)
(* and no rewriting of the last element can change what a committed        *)
(* version contains.                                                       *)
(***************************************************************************)
EXTENDS MemoryStorage, Integers, TLAPS

\* The provers, and their time limits in seconds, that the steps are tried with.
USE ZenonT(5), SMTT(20), ZenonT(20), SMTT(60)

-----------------------------------------------------------------------------
(* What the operations of VersionRange do to the versions a range contains *)

AtMost(s, v) == \A i \in 1..Len(s) : s[i] <= v

\* Every version is at most c, except that the last one may be the mark t: the
\* id of the running transaction, or the version it is committing.
Bounded(s, c, t) ==
  \A i \in 1..Len(s) : s[i] <= c \/ (i = Len(s) /\ s[i] = t)

-----------------------------------------------------------------------------
\* Pushing on a range keeps its elements and adds one (push_boxed_slice).
LEMMA AppendFacts ==
  ASSUME NEW s \in Seq(Nat), NEW t \in Nat
  PROVE  /\ Append(s, t) \in Seq(Nat)
         /\ Len(Append(s, t)) = Len(s) + 1
         /\ \A i \in 1..Len(s) : Append(s, t)[i] = s[i]
         /\ Append(s, t)[Len(s) + 1] = t
  OBVIOUS

\* Popping a range drops its last element only (pop_boxed_slice).
LEMMA PopFacts ==
  ASSUME NEW s \in Seq(Nat), Len(s) > 0
  PROVE  /\ Pop(s) \in Seq(Nat)
         /\ Len(Pop(s)) = Len(s) - 1
         /\ \A i \in 1..(Len(s) - 1) : Pop(s)[i] = s[i]
  <1>1. Pop(s) \in Seq(Nat)
    BY DEF Pop
  <1>2. Len(Pop(s)) = Len(s) - 1
    BY DEF Pop
  <1>3. \A i \in 1..(Len(s) - 1) : Pop(s)[i] = s[i]
    BY DEF Pop
  <1> QED
    BY <1>1, <1>2, <1>3

(* A natural number and its successor differ in parity: pushing or popping  *)
(* one version opens a closed range and closes an open one.                *)
LEMMA Parity ==
  ASSUME NEW n \in Nat
  PROVE  (n + 1) % 2 = 1 <=> ~(n % 2 = 1)
  OBVIOUS

\* A range whose versions are all at most v contains v exactly when its last
\* period of presence is open.
LEMMA ContainsAtEnd ==
  ASSUME NEW s \in Seq(Nat), NEW v \in Nat, AtMost(s, v)
  PROVE  Contains(s, v) <=> IsOpen(s)
  <1>1. ASSUME IsOpen(s) PROVE Contains(s, v)
    <2>1. Len(s) \in 1..Len(s) /\ Len(s) % 2 = 1
      BY <1>1 DEF IsOpen
    <2> QED BY <2>1 DEF Contains, AtMost
  <1>2. ASSUME Contains(s, v) PROVE IsOpen(s)
    <2>1. PICK i \in 1..Len(s) : i % 2 = 1 /\ (i < Len(s) => v < s[i + 1])
      BY <1>2 DEF Contains
    <2>2. ASSUME i < Len(s) PROVE FALSE
      <3>1. i + 1 \in 1..Len(s) BY <2>2
      <3> QED BY <2>1, <2>2, <3>1 DEF AtMost
    <2> QED BY <2>1, <2>2 DEF IsOpen
  <1> QED BY <1>1, <1>2

\* Two ranges that agree except that the longer one has one more version, t,
\* contain the same versions below t.
LEMMA OneMore ==
  ASSUME NEW s \in Seq(Nat), NEW u \in Seq(Nat), NEW t \in Nat, NEW v \in Nat,
         Len(u) = Len(s) + 1, \A i \in 1..Len(s) : u[i] = s[i],
         u[Len(s) + 1] = t, v < t
  PROVE  Contains(u, v) <=> Contains(s, v)
  <1>1. ASSUME Contains(s, v) PROVE Contains(u, v)
    <2>1. PICK i \in 1..Len(s) : i % 2 = 1 /\ s[i] <= v /\ (i < Len(s) => v < s[i + 1])
      BY <1>1 DEF Contains
    <2>2. i \in 1..Len(u) /\ u[i] <= v BY <2>1
    <2>3. v < u[i + 1]
      <3>1. CASE i < Len(s)
        <4>1. i + 1 \in 1..Len(s) BY <3>1
        <4> QED BY <2>1, <3>1, <4>1
      <3>2. CASE i = Len(s) BY <3>2
      <3> QED BY <3>1, <3>2
    <2> QED BY <2>1, <2>2, <2>3 DEF Contains
  <1>2. ASSUME Contains(u, v) PROVE Contains(s, v)
    <2>1. PICK i \in 1..Len(u) : i % 2 = 1 /\ u[i] <= v /\ (i < Len(u) => v < u[i + 1])
      BY <1>2 DEF Contains
    <2>2. i \in 1..Len(s) BY <2>1
    <2>3. s[i] <= v BY <2>1, <2>2
    <2>4. ASSUME i < Len(s) PROVE v < s[i + 1]
      <3>1. i + 1 \in 1..Len(s) BY <2>4
      <3>2. i < Len(u) BY <2>4
      <3> QED BY <2>1, <3>1, <3>2
    <2> QED BY <2>1, <2>2, <2>3, <2>4 DEF Contains
  <1> QED BY <1>1, <1>2

\* Popping a mark above c leaves the versions up to c as they are.
LEMMA PopContains ==
  ASSUME NEW s \in Seq(Nat), NEW c \in Nat, NEW t \in Nat, c < t,
         Len(s) > 0, s[Len(s)] = t
  PROVE  \A v \in 0..c : Contains(s, v) <=> Contains(Pop(s), v)
  <1>1. /\ Pop(s) \in Seq(Nat)
        /\ Len(s) = Len(Pop(s)) + 1
        /\ \A i \in 1..Len(Pop(s)) : s[i] = Pop(s)[i]
        /\ s[Len(Pop(s)) + 1] = t
    BY PopFacts
  <1>2. ASSUME NEW v \in 0..c PROVE v \in Nat /\ v < t
    OBVIOUS
  <1> QED BY <1>1, <1>2, OneMore

-----------------------------------------------------------------------------
\* add or remove by the running transaction: the presence at its id flips, and
\* nothing changes for the versions committed before.
LEMMA FlipFacts ==
  ASSUME NEW s \in Seq(Nat), NEW c \in Nat, NEW t \in Nat, c < t, Bounded(s, c, t)
  PROVE  /\ Flip(s, t) \in Seq(Nat)
         /\ Bounded(Flip(s, t), c, t)
         /\ IsOpen(Flip(s, t)) <=> ~IsOpen(s)
         /\ \A v \in 0..c : Contains(Flip(s, t), v) <=> Contains(s, v)
  <1>1. CASE EndsWith(s, t)
    <2>1. Len(s) > 0 /\ s[Len(s)] = t /\ Flip(s, t) = Pop(s)
      BY <1>1 DEF EndsWith, Flip
    <2>2. /\ Pop(s) \in Seq(Nat)
          /\ Len(Pop(s)) = Len(s) - 1
          /\ \A i \in 1..(Len(s) - 1) : Pop(s)[i] = s[i]
      BY <2>1, PopFacts
    <2>3. Bounded(Pop(s), c, t)
      BY <2>1, <2>2 DEF Bounded
    <2>4. IsOpen(Pop(s)) <=> ~IsOpen(s)
      <3>1. Len(Pop(s)) \in Nat /\ Len(Pop(s)) + 1 = Len(s)
        BY <2>1, <2>2
      <3> QED BY <3>1, Parity DEF IsOpen
    <2>5. \A v \in 0..c : Contains(s, v) <=> Contains(Pop(s), v)
      BY <2>1, PopContains
    <2> QED BY <2>1, <2>2, <2>3, <2>4, <2>5
  <1>2. CASE ~EndsWith(s, t)
    <2>1. Flip(s, t) = Append(s, t)
      BY <1>2 DEF Flip
    <2>2. /\ Append(s, t) \in Seq(Nat)
          /\ Len(Append(s, t)) = Len(s) + 1
          /\ \A i \in 1..Len(s) : Append(s, t)[i] = s[i]
          /\ Append(s, t)[Len(s) + 1] = t
      BY AppendFacts
    <2>3. Bounded(Append(s, t), c, t)
      BY <1>2, <2>2 DEF Bounded, EndsWith
    <2>4. IsOpen(Append(s, t)) <=> ~IsOpen(s)
      BY <2>2, Parity DEF IsOpen
    <2>5. ASSUME NEW v \in 0..c PROVE Contains(Append(s, t), v) <=> Contains(s, v)
      <3>1. v \in Nat /\ v < t
        OBVIOUS
      <3> QED BY <2>2, <3>1, OneMore
    <2> QED BY <2>1, <2>2, <2>3, <2>4, <2>5
  <1> QED BY <1>1, <1>2

\* rollback_transaction restores a range that has only committed versions.
LEMMA RollbackFacts ==
  ASSUME NEW s \in Seq(Nat), NEW c \in Nat, NEW t \in Nat, c < t, Bounded(s, c, t)
  PROVE  /\ RollbackTransaction(s, t) \in Seq(Nat)
         /\ AtMost(RollbackTransaction(s, t), c)
         /\ \A v \in 0..c : Contains(RollbackTransaction(s, t), v) <=> Contains(s, v)
  <1>1. CASE EndsWith(s, t)
    <2>1. Len(s) > 0 /\ s[Len(s)] = t /\ RollbackTransaction(s, t) = Pop(s)
      BY <1>1 DEF EndsWith, RollbackTransaction
    <2>2. /\ Pop(s) \in Seq(Nat)
          /\ Len(Pop(s)) = Len(s) - 1
          /\ \A i \in 1..(Len(s) - 1) : Pop(s)[i] = s[i]
      BY <2>1, PopFacts
    <2>3. AtMost(Pop(s), c)
      BY <2>1, <2>2 DEF Bounded, AtMost
    <2>4. \A v \in 0..c : Contains(s, v) <=> Contains(Pop(s), v)
      BY <2>1, PopContains
    <2> QED BY <2>1, <2>2, <2>3, <2>4
  <1>2. CASE ~EndsWith(s, t)
    BY <1>2 DEF RollbackTransaction, EndsWith, Bounded, AtMost
  <1> QED BY <1>1, <1>2

\* upgrade_transaction replaces the mark by the new version: the presence after
\* the mark and at the versions committed before does not change.
LEMMA UpgradeFacts ==
  ASSUME NEW s \in Seq(Nat), NEW c \in Nat, NEW t \in Nat, NEW w \in Nat,
         c < w, w <= t, Bounded(s, c, t)
  PROVE  /\ UpgradeTransaction(s, t, w) \in Seq(Nat)
         /\ Bounded(UpgradeTransaction(s, t, w), c, w)
         /\ IsOpen(UpgradeTransaction(s, t, w)) <=> IsOpen(s)
         /\ \A v \in 0..c : Contains(UpgradeTransaction(s, t, w), v) <=> Contains(s, v)
  <1>1. CASE EndsWith(s, t)
    <2> DEFINE u == UpgradeTransaction(s, t, w)
    <2>1. Len(s) > 0 /\ s[Len(s)] = t /\ u = [s EXCEPT ![Len(s)] = w]
      BY <1>1 DEF EndsWith, UpgradeTransaction
    <2>2. /\ u \in Seq(Nat)
          /\ Len(u) = Len(s)
          /\ \A i \in 1..(Len(s) - 1) : u[i] = s[i]
          /\ u[Len(s)] = w
      BY <2>1
    <2> HIDE DEF u
    <2>3. Bounded(u, c, w)
      <3> SUFFICES ASSUME NEW i \in 1..Len(u)
                   PROVE  u[i] <= c \/ (i = Len(u) /\ u[i] = w)
        BY DEF Bounded
      <3>1. CASE i = Len(s)
        BY <2>2, <3>1
      <3>2. CASE i \in 1..(Len(s) - 1)
        BY <2>2, <3>2 DEF Bounded
      <3> QED BY <2>2, <3>1, <3>2
    <2>4. IsOpen(u) <=> IsOpen(s)
      BY <2>2 DEF IsOpen
    <2>5. /\ Pop(s) \in Seq(Nat)
          /\ Len(Pop(s)) = Len(s) - 1
          /\ \A i \in 1..(Len(s) - 1) : Pop(s)[i] = s[i]
      BY <2>1, PopFacts
    <2>6. \A v \in 0..c : Contains(s, v) <=> Contains(Pop(s), v)
      <3>1. c < t
        OBVIOUS
      <3> QED BY <2>1, <3>1, PopContains
    <2>7. ASSUME NEW v \in 0..c PROVE Contains(u, v) <=> Contains(Pop(s), v)
      <3>1. /\ Len(u) = Len(Pop(s)) + 1
            /\ \A i \in 1..Len(Pop(s)) : u[i] = Pop(s)[i]
            /\ u[Len(Pop(s)) + 1] = w
        <4>1. Len(s) \in Nat /\ Len(Pop(s)) + 1 = Len(s)
          BY <2>1, <2>5
        <4> QED BY <2>2, <2>5, <4>1
      <3>2. v \in Nat /\ v < w
        OBVIOUS
      <3> QED BY <2>2, <2>5, <3>1, <3>2, OneMore
    <2> QED BY <2>2, <2>3, <2>4, <2>6, <2>7 DEF u
  <1>2. CASE ~EndsWith(s, t)
    BY <1>2 DEF UpgradeTransaction, EndsWith, Bounded
  <1> QED BY <1>1, <1>2

-----------------------------------------------------------------------------
(* The inductive invariant *)

\* The nodes whose range is open.
Live == {n \in Nodes : IsOpen(range[n])}

CountersOK ==
  /\ transaction_counter \in TransactionBase..(TransactionBase + MaxTransactions)
  /\ phase # "idle" =>
       /\ snapshot_id = version_counter
       /\ version_counter + TransactionBase < transaction_counter
  /\ phase = "idle" => log = {}

RangesOK ==
  \A n \in Nodes :
    /\ n \in log => Bounded(range[n], version_counter, transaction_counter)
    /\ n \notin log /\ phase = "committing" =>
         Bounded(range[n], version_counter, version_counter + 1)
    /\ n \notin log /\ phase # "committing" => AtMost(range[n], version_counter)

ReadersOK ==
  \A r \in Readers :
    /\ version[r] <= version_counter
    /\ reading[r] => seen[r] = Visible(version[r]) \ todo[r]
    /\ ~reading[r] => todo[r] = {} /\ seen[r] = {}

Inv == TypeOK /\ CountersOK /\ RangesOK
IInv == Inv /\ ReadersOK /\ QuadsHaveGraph

\* What a committed version contains does not change.
KeepsPast ==
  \A n \in Nodes : \A v \in 0..version_counter :
    Contains(range'[n], v) <=> Contains(range[n], v)

-----------------------------------------------------------------------------
\* While a transaction runs, its id is above the version it will commit.
LEMMA MarkAbove ==
  ASSUME Inv, phase # "idle"
  PROVE  /\ version_counter \in Nat
         /\ transaction_counter \in Nat
         /\ version_counter < transaction_counter
         /\ new_version_id = version_counter + 1
         /\ new_version_id <= transaction_counter
  BY CountersAssumption DEF Inv, TypeOK, CountersOK, new_version_id

\* What a transaction sees is what is open.
LEMMA TransactionSeesLive ==
  Inv /\ phase # "idle" => Visible(transaction_counter) = Live
  <1> SUFFICES ASSUME Inv, phase # "idle", NEW n \in Nodes
               PROVE  Contains(range[n], transaction_counter) <=> IsOpen(range[n])
    BY DEF Visible, Live
  <1>1. range[n] \in Seq(Nat)
    BY DEF Inv, TypeOK
  <1>2. /\ version_counter \in Nat
        /\ transaction_counter \in Nat
        /\ version_counter + 1 <= transaction_counter
    BY MarkAbove
  <1>3. ASSUME NEW i \in 1..Len(range[n]) PROVE range[n][i] <= transaction_counter
    <2>1. Len(range[n]) \in Nat /\ range[n][i] \in Nat
      BY <1>1
    <2>2. \/ range[n][i] <= version_counter
          \/ range[n][i] = transaction_counter
          \/ range[n][i] = version_counter + 1
      BY DEF Inv, RangesOK, Bounded, AtMost
    <2> QED BY <1>2, <2>1, <2>2
  <1>4. AtMost(range[n], transaction_counter)
    BY <1>3 DEF AtMost
  <1> QED BY <1>1, <1>2, <1>4, ContainsAtEnd

\* When no transaction runs, what is committed is what is open.
LEMMA CommittedIsLive ==
  Inv /\ phase = "idle" => Visible(version_counter) = Live
  <1> SUFFICES ASSUME Inv, phase = "idle", NEW n \in Nodes
               PROVE  Contains(range[n], version_counter) <=> IsOpen(range[n])
    BY DEF Visible, Live
  <1>1. range[n] \in Seq(Nat) /\ version_counter \in Nat
    BY DEF Inv, TypeOK
  <1>2. AtMost(range[n], version_counter)
    BY DEF Inv, RangesOK, CountersOK
  <1> QED BY <1>1, <1>2, ContainsAtEnd

\* When the log of a commit is empty, the new version contains what is open.
LEMMA CommittingIsLive ==
  Inv /\ phase = "committing" /\ log = {} => Visible(version_counter + 1) = Live
  <1> SUFFICES ASSUME Inv, phase = "committing", log = {}, NEW n \in Nodes
               PROVE  Contains(range[n], version_counter + 1) <=> IsOpen(range[n])
    BY DEF Visible, Live
  <1>1. range[n] \in Seq(Nat) /\ version_counter \in Nat /\ version_counter + 1 \in Nat
    BY DEF Inv, TypeOK
  <1>2. AtMost(range[n], version_counter + 1)
    BY <1>1 DEF Inv, RangesOK, Bounded, AtMost
  <1> QED BY <1>1, <1>2, ContainsAtEnd

-----------------------------------------------------------------------------
\* One write of a transaction opens the ranges it adds and closes the ranges
\* it removes, and keeps every committed version as it is.
LEMMA StampStep ==
  ASSUME Inv, NEW A \in SUBSET Nodes, NEW R \in SUBSET Nodes, A \cap R = {},
         Stamp(A, R)
  PROVE  Inv' /\ KeepsPast /\ Live' = (Live \cup A) \ R
  <1> DEFINE t == transaction_counter
             c == version_counter
  <1>1. /\ phase = "open" /\ phase' = phase /\ c' = c /\ t' = t
        /\ snapshot_id' = snapshot_id /\ UNCHANGED readerVars
        /\ range' = [n \in Nodes |-> IF n \in A THEN Add(range[n], t)
                                     ELSE IF n \in R THEN Remove(range[n], t)
                                     ELSE range[n]]
        /\ log' = log \cup {n \in A : ~IsOpen(range[n])} \cup {n \in R : IsOpen(range[n])}
    BY DEF Stamp
  <1>2. c \in Nat /\ t \in Nat /\ c < t
    BY <1>1, MarkAbove
  <1> HIDE DEF t, c
  <1>3. ASSUME NEW n \in Nodes
        PROVE  /\ range[n] \in Seq(Nat)
               /\ Bounded(range[n], c, t)
               /\ n \notin log => AtMost(range[n], c)
    BY <1>1 DEF Inv, TypeOK, RangesOK, Bounded, AtMost, t, c
  <1>4. ASSUME NEW n \in Nodes
        PROVE  /\ range'[n] = IF (n \in A /\ ~IsOpen(range[n])) \/ (n \in R /\ IsOpen(range[n]))
                              THEN Flip(range[n], t) ELSE range[n]
               /\ n \in log' <=> \/ n \in log
                                 \/ n \in A /\ ~IsOpen(range[n])
                                 \/ n \in R /\ IsOpen(range[n])
    BY <1>1 DEF Add, Remove
  <1>5. ASSUME NEW n \in Nodes
        PROVE  /\ range'[n] \in Seq(Nat)
               /\ Bounded(range'[n], c, t)
               /\ n \notin log' => AtMost(range'[n], c)
               /\ \A v \in 0..c : Contains(range'[n], v) <=> Contains(range[n], v)
               /\ IsOpen(range'[n]) <=> (n \in A \/ IsOpen(range[n])) /\ n \notin R
    <2>1. CASE (n \in A /\ ~IsOpen(range[n])) \/ (n \in R /\ IsOpen(range[n]))
      <3>1. range'[n] = Flip(range[n], t) /\ n \in log'
        BY <1>4, <2>1
      <3>2. /\ Flip(range[n], t) \in Seq(Nat)
            /\ Bounded(Flip(range[n], t), c, t)
            /\ IsOpen(Flip(range[n], t)) <=> ~IsOpen(range[n])
            /\ \A v \in 0..c : Contains(Flip(range[n], t), v) <=> Contains(range[n], v)
        BY <1>2, <1>3, FlipFacts
      <3> QED BY <2>1, <3>1, <3>2
    <2>2. CASE ~((n \in A /\ ~IsOpen(range[n])) \/ (n \in R /\ IsOpen(range[n])))
      <3>1. range'[n] = range[n] /\ (n \in log' <=> n \in log)
        BY <1>4, <2>2
      <3> QED BY <1>3, <2>2, <3>1
    <2> QED BY <2>1, <2>2
  <1>6. TypeOK'
    <2>1. range' \in [Nodes -> Seq(Nat)]
      BY <1>1, <1>5
    <2>2. log' \in SUBSET Nodes
      BY <1>1 DEF Inv, TypeOK
    <2> QED BY <1>1, <2>1, <2>2 DEF Inv, TypeOK, readerVars, t, c
  <1>7. CountersOK'
    BY <1>1 DEF Inv, CountersOK, t, c
  <1>8. RangesOK'
    BY <1>1, <1>5 DEF RangesOK, t, c
  <1>9. KeepsPast
    BY <1>5 DEF KeepsPast, c
  <1>10. Live' = (Live \cup A) \ R
    BY <1>5 DEF Live
  <1> QED BY <1>6, <1>7, <1>8, <1>9, <1>10 DEF Inv

\* Rewriting one entry of the log of a commit changes neither what is open nor
\* any committed version.
LEMMA CommitNodeStep ==
  ASSUME Inv, NEW m \in Nodes, CommitNode(m)
  PROVE  Inv' /\ KeepsPast /\ Live' = Live
  <1> DEFINE t == transaction_counter
             c == version_counter
  <1>1. /\ phase = "committing" /\ phase' = phase /\ c' = c /\ t' = t
        /\ snapshot_id' = snapshot_id /\ UNCHANGED readerVars
        /\ m \in log /\ log' = log \ {m}
        /\ range' = [range EXCEPT ![m] = UpgradeTransaction(range[m], t, new_version_id)]
    BY DEF CommitNode
  <1>2. c \in Nat /\ t \in Nat /\ c < t /\ new_version_id = c + 1 /\ c + 1 <= t
    BY <1>1, MarkAbove
  <1> HIDE DEF t, c
  <1>3. ASSUME NEW n \in Nodes
        PROVE  /\ range[n] \in Seq(Nat)
               /\ n \in log => Bounded(range[n], c, t)
               /\ n \notin log => Bounded(range[n], c, c + 1)
    BY <1>1 DEF Inv, TypeOK, RangesOK, t, c
  <1>4. range' \in [Nodes -> Seq(Nat)] /\ range'[m] = UpgradeTransaction(range[m], t, c + 1)
        /\ \A n \in Nodes \ {m} : range'[n] = range[n]
    <2>1. UpgradeTransaction(range[m], t, c + 1) \in Seq(Nat)
      BY <1>1, <1>2, <1>3, UpgradeFacts
    <2> QED BY <1>1, <1>2, <2>1 DEF Inv, TypeOK
  <1>5. ASSUME NEW n \in Nodes
        PROVE  /\ n \in log' => Bounded(range'[n], c, t)
               /\ n \notin log' => Bounded(range'[n], c, c + 1)
               /\ \A v \in 0..c : Contains(range'[n], v) <=> Contains(range[n], v)
               /\ IsOpen(range'[n]) <=> IsOpen(range[n])
    <2>1. CASE n = m
      <3>1. c + 1 \in Nat /\ c < c + 1
        BY <1>2
      <3> QED BY <1>1, <1>2, <1>3, <1>4, <2>1, <3>1, UpgradeFacts
    <2>2. CASE n # m
      BY <1>1, <1>3, <1>4, <2>2
    <2> QED BY <2>1, <2>2
  <1>6. TypeOK'
    BY <1>1, <1>4 DEF Inv, TypeOK, readerVars, t, c
  <1>7. CountersOK'
    BY <1>1 DEF Inv, CountersOK, t, c
  <1>8. RangesOK'
    BY <1>1, <1>5 DEF RangesOK, t, c
  <1>9. KeepsPast
    BY <1>5 DEF KeepsPast, c
  <1>10. Live' = Live
    BY <1>5 DEF Live
  <1> QED BY <1>6, <1>7, <1>8, <1>9, <1>10 DEF Inv

\* Undoing one entry of the log of a dropped transaction changes no committed
\* version.
LEMMA RollbackNodeStep ==
  ASSUME Inv, NEW m \in Nodes, RollbackNode(m)
  PROVE  Inv' /\ KeepsPast
  <1> DEFINE t == transaction_counter
             c == version_counter
  <1>1. /\ phase = "rolling_back" /\ phase' = phase /\ c' = c /\ t' = t
        /\ snapshot_id' = snapshot_id /\ UNCHANGED readerVars
        /\ m \in log /\ log' = log \ {m}
        /\ range' = [range EXCEPT ![m] = RollbackTransaction(range[m], t)]
    BY DEF RollbackNode
  <1>2. c \in Nat /\ t \in Nat /\ c < t
    BY <1>1, MarkAbove
  <1> HIDE DEF t, c
  <1>3. ASSUME NEW n \in Nodes
        PROVE  /\ range[n] \in Seq(Nat)
               /\ n \in log => Bounded(range[n], c, t)
               /\ n \notin log => AtMost(range[n], c)
    BY <1>1 DEF Inv, TypeOK, RangesOK, t, c
  <1>4. range' \in [Nodes -> Seq(Nat)] /\ range'[m] = RollbackTransaction(range[m], t)
        /\ \A n \in Nodes \ {m} : range'[n] = range[n]
    <2>1. RollbackTransaction(range[m], t) \in Seq(Nat)
      BY <1>1, <1>2, <1>3, RollbackFacts
    <2> QED BY <1>1, <2>1 DEF Inv, TypeOK
  <1>5. ASSUME NEW n \in Nodes
        PROVE  /\ n \in log' => Bounded(range'[n], c, t)
               /\ n \notin log' => AtMost(range'[n], c)
               /\ \A v \in 0..c : Contains(range'[n], v) <=> Contains(range[n], v)
    <2>1. CASE n = m
      BY <1>1, <1>2, <1>3, <1>4, <2>1, RollbackFacts
    <2>2. CASE n # m
      BY <1>1, <1>3, <1>4, <2>2
    <2> QED BY <2>1, <2>2
  <1>6. TypeOK'
    BY <1>1, <1>4 DEF Inv, TypeOK, readerVars, t, c
  <1>7. CountersOK'
    BY <1>1 DEF Inv, CountersOK, t, c
  <1>8. RangesOK'
    BY <1>1, <1>5 DEF RangesOK, t, c
  <1>9. KeepsPast
    BY <1>5 DEF KeepsPast, c
  <1> QED BY <1>6, <1>7, <1>8, <1>9 DEF Inv

-----------------------------------------------------------------------------
\* A step that keeps the committed versions keeps the snapshot of every reader.
LEMMA PastIsVisible ==
  ASSUME KeepsPast
  PROVE  \A v \in 0..version_counter : Visible(v)' = Visible(v)
  BY DEF KeepsPast, Visible

\* A step that leaves the readers alone and keeps the committed versions keeps
\* what is known of the readers.
LEMMA ReadersKept ==
  ASSUME Inv, ReadersOK, KeepsPast, UNCHANGED readerVars,
         version_counter' \in Nat, version_counter <= version_counter'
  PROVE  ReadersOK'
  <1> SUFFICES ASSUME NEW r \in Readers
               PROVE  /\ version'[r] <= version_counter'
                      /\ reading'[r] => seen'[r] = Visible(version[r])' \ todo'[r]
                      /\ ~reading'[r] => todo'[r] = {} /\ seen'[r] = {}
    BY DEF ReadersOK
  <1>1. version' = version /\ reading' = reading /\ todo' = todo /\ seen' = seen
    BY DEF readerVars
  <1>2. version[r] \in 0..version_counter
    BY DEF Inv, TypeOK, ReadersOK
  <1>3. Visible(version[r])' = Visible(version[r])
    BY <1>1, <1>2, PastIsVisible
  <1>4. version[r] <= version_counter'
    BY <1>2 DEF Inv, TypeOK
  <1> QED BY <1>1, <1>3, <1>4 DEF ReadersOK

\* Every write is one stamp, and leaves every open quad with its graph open.
LEMMA WritesAreStamps ==
  ASSUME Inv, QuadsHaveGraph, Writes
  PROVE  \E A, R \in SUBSET Nodes :
           /\ A \cap R = {}
           /\ Stamp(A, R)
           /\ GraphsIn((Live \cup A) \ R)
  <1>1. phase = "open"
    BY DEF Writes, Insert, RemoveQuad, InsertNamedGraph, RemoveNamedGraph, ClearGraph,
           ClearAllNamedGraphs, ClearAllGraphs, RemoveAllNamedGraphs, Clear, Stamp
  <1>2. Visible(transaction_counter) = Live
    BY <1>1, TransactionSeesLive
  <1>3. GraphsIn(Live)
    BY <1>1, <1>2 DEF QuadsHaveGraph, Running
  <1> DEFINE V == QuadsOfVisibleGraphs
  <1>4. V = {q \in Quads : graph_name[q] \in NamedGraphs \cap Live}
    BY <1>2 DEF QuadsOfVisibleGraphs, QuadsOf
  <1> HIDE DEF V
  <1> USE ConstantsAssumption
  <1>5. ASSUME NEW q \in Quads, Insert(q)
        PROVE  \E A, R \in SUBSET Nodes :
                 A \cap R = {} /\ Stamp(A, R) /\ GraphsIn((Live \cup A) \ R)
    <2> DEFINE A0 == IF IsOpen(range[q]) THEN {}
                     ELSE {q} \cup ({graph_name[q]} \ {DefaultGraph})
    <2>1. A0 \in SUBSET Nodes
      BY DEF Nodes
    <2>2. GraphsIn((Live \cup A0) \ {})
      BY <1>3 DEF GraphsIn
    <2>3. Stamp(A0, {})
      BY <1>5 DEF Insert
    <2> QED BY <2>1, <2>2, <2>3
  <1>6. ASSUME NEW q \in Quads, RemoveQuad(q)
        PROVE  Stamp({}, {q}) /\ {q} \in SUBSET Nodes /\ GraphsIn((Live \cup {}) \ {q})
    BY <1>3, <1>6 DEF RemoveQuad, GraphsIn, Nodes
  <1>7. ASSUME NEW g \in NamedGraphs, InsertNamedGraph(g)
        PROVE  Stamp({g}, {}) /\ {g} \in SUBSET Nodes /\ GraphsIn((Live \cup {g}) \ {})
    BY <1>3, <1>7 DEF InsertNamedGraph, GraphsIn, Nodes
  <1>8. ASSUME NEW g \in NamedGraphs, RemoveNamedGraph(g)
        PROVE  /\ Stamp({}, QuadsOf(g) \cup {g})
               /\ QuadsOf(g) \cup {g} \in SUBSET Nodes
               /\ GraphsIn((Live \cup {}) \ (QuadsOf(g) \cup {g}))
    BY <1>3, <1>8 DEF RemoveNamedGraph, GraphsIn, Nodes, QuadsOf
  <1>9. ASSUME NEW g \in NamedGraphs \cup {DefaultGraph}, ClearGraph(g)
        PROVE  /\ Stamp({}, QuadsOf(g))
               /\ QuadsOf(g) \in SUBSET Nodes
               /\ GraphsIn((Live \cup {}) \ QuadsOf(g))
    BY <1>3, <1>9 DEF ClearGraph, GraphsIn, Nodes, QuadsOf
  <1>10. ASSUME ClearAllNamedGraphs
         PROVE  Stamp({}, V) /\ V \in SUBSET Nodes /\ GraphsIn((Live \cup {}) \ V)
    <2>1. Stamp({}, V)
      BY <1>10 DEF ClearAllNamedGraphs, V
    <2> QED BY <1>3, <1>4, <2>1 DEF GraphsIn, Nodes
  <1>11. ASSUME ClearAllGraphs
         PROVE  Stamp({}, Quads) /\ Quads \in SUBSET Nodes /\ GraphsIn((Live \cup {}) \ Quads)
    BY <1>11 DEF ClearAllGraphs, GraphsIn, Nodes
  <1>12. ASSUME RemoveAllNamedGraphs
         PROVE  /\ Stamp({}, V \cup NamedGraphs)
                /\ V \cup NamedGraphs \in SUBSET Nodes
                /\ GraphsIn((Live \cup {}) \ (V \cup NamedGraphs))
    <2>1. Stamp({}, V \cup NamedGraphs)
      BY <1>12 DEF RemoveAllNamedGraphs, V
    <2> QED BY <1>3, <1>4, <2>1 DEF GraphsIn, Nodes
  <1>13. ASSUME Clear
         PROVE  Stamp({}, Nodes) /\ Nodes \in SUBSET Nodes /\ GraphsIn((Live \cup {}) \ Nodes)
    BY <1>13 DEF Clear, GraphsIn, Nodes, Live
  <1>14. ASSUME NEW A \in SUBSET Nodes, NEW R \in SUBSET Nodes, A = {} \/ R = {},
                Stamp(A, R), GraphsIn((Live \cup A) \ R)
         PROVE  \E AA, RR \in SUBSET Nodes :
                  AA \cap RR = {} /\ Stamp(AA, RR) /\ GraphsIn((Live \cup AA) \ RR)
    BY <1>14
  <1>15. {} \in SUBSET Nodes
    OBVIOUS
  <1> QED
    BY <1>5, <1>6, <1>7, <1>8, <1>9, <1>10, <1>11, <1>12, <1>13, <1>14, <1>15 DEF Writes

-----------------------------------------------------------------------------
\* The initial state satisfies the inductive invariant.
LEMMA InitInv ==
  Init => IInv
  <1> SUFFICES ASSUME Init PROVE IInv
    OBVIOUS
  <1>1. Len(Empty) = 0 /\ Empty \in Seq(Nat)
    BY DEF Empty
  <1>2. TypeOK
    BY <1>1, CountersAssumption DEF Init, TypeOK, Phases
  <1>3. CountersOK
    BY CountersAssumption DEF Init, CountersOK
  <1>4. RangesOK
    BY <1>1 DEF Init, RangesOK, AtMost
  <1>5. \A v \in Nat : Visible(v) = {}
    BY <1>1 DEF Init, Visible, Contains
  <1>6. ReadersOK
    BY DEF Init, ReadersOK
  <1>7. QuadsHaveGraph
    BY <1>5 DEF Init, QuadsHaveGraph, GraphsIn, Running
  <1> QED BY <1>2, <1>3, <1>4, <1>6, <1>7 DEF IInv, Inv

\* A step that commits nothing keeps the graphs of the quads if what is open
\* after it has its graphs.
LEMMA GraphsKept ==
  ASSUME QuadsHaveGraph, KeepsPast, Inv', version_counter' = version_counter,
         (Running => GraphsIn(Live))'
  PROVE  QuadsHaveGraph'
  <1>1. (Running => phase # "idle")'
    BY DEF Running
  <1>2. (phase # "idle" => Visible(transaction_counter) = Live)'
    BY TransactionSeesLive, PTL
  <1>3. \A v \in 0..version_counter : Visible(v)' = Visible(v)
    BY PastIsVisible
  <1> QED BY <1>1, <1>2, <1>3 DEF QuadsHaveGraph, GraphsIn

\* What the open ranges hold has its graphs, unless a rollback is under way.
LEMMA LiveHasGraphs ==
  ASSUME Inv, QuadsHaveGraph, phase # "rolling_back"
  PROVE  GraphsIn(Live)
  <1>1. CASE phase = "idle"
    <2>1. version_counter \in 0..version_counter
      BY DEF Inv, TypeOK
    <2> QED BY <1>1, <2>1, CommittedIsLive DEF QuadsHaveGraph
  <1>2. CASE phase # "idle"
    BY <1>2, TransactionSeesLive DEF QuadsHaveGraph, Running, Inv, TypeOK, Phases
  <1> QED BY <1>1, <1>2

\* Starting a transaction.
LEMMA StartStep ==
  ASSUME Inv, StartTransaction
  PROVE  Inv' /\ KeepsPast /\ Live' = Live
  <1>1. /\ phase = "idle" /\ phase' = "open" /\ log' = {} /\ log = {}
        /\ range' = range /\ version_counter' = version_counter
        /\ snapshot_id' = version_counter
        /\ transaction_counter' = transaction_counter + 1
        /\ transaction_counter < TransactionBase + MaxTransactions
        /\ UNCHANGED readerVars
    BY DEF StartTransaction, Inv, CountersOK
  <1>2. KeepsPast
    BY <1>1 DEF KeepsPast
  <1>3. Inv'
    BY <1>1, CountersAssumption
       DEF Inv, TypeOK, CountersOK, RangesOK, Phases, readerVars
  <1> QED BY <1>1, <1>2, <1>3 DEF Live

\* The begin of a commit or of a rollback, and the end of a rollback.
LEMMA PhaseStep ==
  ASSUME Inv, BeginCommit \/ BeginRollback \/ FinishRollback
  PROVE  Inv' /\ KeepsPast /\ Live' = Live
  <1>1. /\ range' = range /\ version_counter' = version_counter
        /\ transaction_counter' = transaction_counter /\ snapshot_id' = snapshot_id
        /\ log' = log /\ UNCHANGED readerVars
        /\ phase \in {"open", "rolling_back"}
        /\ phase' \in {"committing", "rolling_back", "idle"}
        /\ phase' = "idle" => log = {}
    BY DEF BeginCommit, BeginRollback, FinishRollback
  <1>2. KeepsPast /\ Live' = Live
    BY <1>1 DEF KeepsPast, Live
  <1>3. TypeOK' /\ CountersOK'
    BY <1>1 DEF Inv, TypeOK, CountersOK, Phases, readerVars
  <1>4. RangesOK'
    BY <1>1 DEF Inv, TypeOK, RangesOK, Bounded, AtMost
  <1> QED BY <1>2, <1>3, <1>4 DEF Inv

\* The end of a commit: the new version is what was open.
LEMMA FinishCommitStep ==
  ASSUME Inv, FinishCommit
  PROVE  /\ Inv' /\ KeepsPast /\ Live' = Live
         /\ version_counter' = version_counter + 1
         /\ (Visible(version_counter) = Live)'
  <1>1. /\ phase = "committing" /\ phase' = "idle" /\ log = {} /\ log' = {}
        /\ range' = range /\ version_counter' = version_counter + 1
        /\ transaction_counter' = transaction_counter /\ snapshot_id' = snapshot_id
        /\ UNCHANGED readerVars
    BY MarkAbove DEF FinishCommit
  <1>2. KeepsPast /\ Live' = Live
    BY <1>1 DEF KeepsPast, Live
  <1>3. TypeOK' /\ CountersOK'
    BY <1>1, CountersAssumption DEF Inv, TypeOK, CountersOK, Phases, readerVars
  <1>4. RangesOK'
    BY <1>1 DEF Inv, TypeOK, RangesOK, Bounded, AtMost
  <1>5. (phase = "idle")'
    BY <1>1
  <1>6. Inv'
    BY <1>3, <1>4 DEF Inv
  <1>7. (Visible(version_counter) = Live)'
    BY <1>5, <1>6, CommittedIsLive, PTL
  <1> QED BY <1>1, <1>2, <1>6, <1>7

\* A step of a reader.
LEMMA ReaderStep ==
  ASSUME Inv, ReadersOK, UNCHANGED txnVars, NEW r \in Readers,
         Snapshot(r) \/ (\E n \in Nodes : ScanNode(r, n)) \/ DropReader(r)
  PROVE  Inv' /\ KeepsPast /\ Live' = Live /\ ReadersOK'
  <1>1. /\ range' = range /\ version_counter' = version_counter
        /\ transaction_counter' = transaction_counter /\ snapshot_id' = snapshot_id
        /\ log' = log /\ phase' = phase
    BY DEF txnVars
  <1>2. KeepsPast /\ Live' = Live
    BY <1>1 DEF KeepsPast, Live
  <1>3. TypeOK'
    <2> USE <1>1 DEF Inv, TypeOK
    <2>1. CASE Snapshot(r)
      BY <2>1 DEF Snapshot
    <2>2. CASE \E n \in Nodes : ScanNode(r, n)
      <3>1. PICK n \in Nodes : ScanNode(r, n)
        BY <2>2
      <3>2. seen' \in [Readers -> SUBSET Nodes] /\ todo' \in [Readers -> SUBSET Nodes]
        BY <3>1 DEF ScanNode
      <3> QED BY <3>1, <3>2 DEF ScanNode
    <2>3. CASE DropReader(r)
      BY <2>3 DEF DropReader
    <2> QED BY <2>1, <2>2, <2>3
  <1>4. CountersOK' /\ RangesOK'
    BY <1>1 DEF Inv, CountersOK, RangesOK
  <1>5. ReadersOK'
    <2> SUFFICES ASSUME NEW s \in Readers
                 PROVE  /\ version'[s] <= version_counter'
                        /\ reading'[s] => seen'[s] = Visible(version[s])' \ todo'[s]
                        /\ ~reading'[s] => todo'[s] = {} /\ seen'[s] = {}
      BY DEF ReadersOK
    <2> USE <1>1 DEF Inv, TypeOK, ReadersOK
    <2>1. CASE Snapshot(r)
      <3>1. CASE s = r
        BY <2>1, <3>1 DEF Snapshot, Visible
      <3>2. CASE s # r
        BY <2>1, <3>2 DEF Snapshot, Visible
      <3> QED BY <3>1, <3>2
    <2>2. CASE \E n \in Nodes : ScanNode(r, n)
      <3>1. PICK n \in Nodes : ScanNode(r, n)
        BY <2>2
      <3>2. CASE s = r
        BY <3>1, <3>2 DEF ScanNode, Visible
      <3>3. CASE s # r
        BY <3>1, <3>3 DEF ScanNode, Visible
      <3> QED BY <3>2, <3>3
    <2>3. CASE DropReader(r)
      <3>1. CASE s = r
        BY <2>3, <3>1 DEF DropReader
      <3>2. CASE s # r
        BY <2>3, <3>2 DEF DropReader, Visible
      <3> QED BY <3>1, <3>2
    <2> QED BY <2>1, <2>2, <2>3
  <1> QED BY <1>2, <1>3, <1>4, <1>5 DEF Inv

-----------------------------------------------------------------------------
\* Every step keeps the inductive invariant and every committed version.
LEMMA NextInv ==
  ASSUME IInv, [Next]_vars
  PROVE  IInv' /\ KeepsPast
  <1> USE DEF IInv
  <1>1. CASE StartTransaction
    <2>1. phase = "idle" /\ version_counter' = version_counter /\ UNCHANGED readerVars
      BY <1>1 DEF StartTransaction
    <2>2. Inv' /\ KeepsPast /\ Live' = Live
      BY <1>1, StartStep
    <2>3. ReadersOK'
      BY <2>1, <2>2, ReadersKept DEF Inv, TypeOK
    <2>4. (Running => GraphsIn(Live))'
      BY <2>1, <2>2, LiveHasGraphs DEF GraphsIn
    <2> QED BY <2>1, <2>2, <2>3, <2>4, GraphsKept
  <1>2. CASE Writes
    <2>1. PICK A \in SUBSET Nodes, R \in SUBSET Nodes :
            A \cap R = {} /\ Stamp(A, R) /\ GraphsIn((Live \cup A) \ R)
      BY <1>2, WritesAreStamps
    <2>2. Inv' /\ KeepsPast /\ Live' = (Live \cup A) \ R
      BY <2>1, StampStep
    <2>3. version_counter' = version_counter /\ UNCHANGED readerVars
      BY <2>1 DEF Stamp
    <2>4. ReadersOK'
      BY <2>2, <2>3, ReadersKept DEF Inv, TypeOK
    <2>5. (Running => GraphsIn(Live))'
      BY <2>1, <2>2 DEF GraphsIn
    <2> QED BY <2>2, <2>3, <2>4, <2>5, GraphsKept
  <1>3. CASE BeginCommit \/ BeginRollback \/ FinishRollback
    <2>1. /\ version_counter' = version_counter /\ UNCHANGED readerVars
          /\ Running' => phase # "rolling_back"
      BY <1>3 DEF BeginCommit, BeginRollback, FinishRollback, Running
    <2>2. Inv' /\ KeepsPast /\ Live' = Live
      BY <1>3, PhaseStep
    <2>3. ReadersOK'
      BY <2>1, <2>2, ReadersKept DEF Inv, TypeOK
    <2>4. (Running => GraphsIn(Live))'
      BY <2>1, <2>2, LiveHasGraphs DEF GraphsIn
    <2> QED BY <2>1, <2>2, <2>3, <2>4, GraphsKept
  <1>4. CASE \E n \in Nodes : CommitNode(n)
    <2>1. Inv' /\ KeepsPast /\ Live' = Live
      BY <1>4, CommitNodeStep
    <2>2. /\ version_counter' = version_counter /\ UNCHANGED readerVars
          /\ phase = "committing"
      BY <1>4 DEF CommitNode
    <2>3. ReadersOK'
      BY <2>1, <2>2, ReadersKept DEF Inv, TypeOK
    <2>4. (Running => GraphsIn(Live))'
      BY <2>1, <2>2, LiveHasGraphs DEF GraphsIn
    <2> QED BY <2>1, <2>2, <2>3, <2>4, GraphsKept
  <1>5. CASE FinishCommit
    <2>1. /\ Inv' /\ KeepsPast /\ Live' = Live
          /\ version_counter' = version_counter + 1
          /\ (Visible(version_counter) = Live)'
      BY <1>5, FinishCommitStep
    <2>2. phase = "committing" /\ phase' = "idle" /\ UNCHANGED readerVars
      BY <1>5 DEF FinishCommit
    <2>3. ReadersOK'
      BY <2>1, <2>2, ReadersKept DEF Inv, TypeOK
    <2>4. GraphsIn(Live)
      BY <2>2, LiveHasGraphs
    <2>5. \A v \in 0..version_counter : Visible(v)' = Visible(v)
      BY <2>1, PastIsVisible
    <2>6. ASSUME NEW v \in 0..version_counter'
          PROVE  GraphsIn(Visible(v))'
      <3>1. CASE v \in 0..version_counter
        BY <2>5, <3>1 DEF QuadsHaveGraph, GraphsIn
      <3>2. CASE v = version_counter'
        BY <2>1, <2>4, <3>2 DEF GraphsIn
      <3> QED BY <2>1, <3>1, <3>2 DEF Inv, TypeOK
    <2>7. ~Running'
      BY <2>2 DEF Running
    <2>8. QuadsHaveGraph'
      BY <2>6, <2>7 DEF QuadsHaveGraph
    <2> QED BY <2>1, <2>3, <2>8
  <1>6. CASE \E n \in Nodes : RollbackNode(n)
    <2>1. Inv' /\ KeepsPast
      BY <1>6, RollbackNodeStep
    <2>2. /\ version_counter' = version_counter /\ UNCHANGED readerVars
          /\ phase' = "rolling_back"
      BY <1>6 DEF RollbackNode
    <2>3. ReadersOK'
      BY <2>1, <2>2, ReadersKept DEF Inv, TypeOK
    <2>4. ~Running'
      BY <2>2 DEF Running
    <2> QED BY <2>1, <2>2, <2>3, <2>4, GraphsKept
  <1>7. CASE \E r \in Readers :
               Snapshot(r) \/ (\E n \in Nodes : ScanNode(r, n)) \/ DropReader(r)
    <2>1. UNCHANGED txnVars
      BY <1>7 DEF Snapshot, ScanNode, DropReader
    <2>2. Inv' /\ KeepsPast /\ Live' = Live /\ ReadersOK'
      BY <1>7, <2>1, ReaderStep
    <2>3. version_counter' = version_counter /\ phase' = phase
      BY <2>1 DEF txnVars
    <2>4. (Running => GraphsIn(Live))'
      BY <2>2, <2>3, LiveHasGraphs DEF GraphsIn, Running
    <2> QED BY <2>2, <2>3, <2>4, GraphsKept
  <1>8. CASE UNCHANGED vars
    <2>1. UNCHANGED txnVars /\ UNCHANGED readerVars
      BY <1>8 DEF vars
    <2> QED BY <2>1 DEF txnVars, readerVars, Inv, TypeOK, CountersOK, RangesOK, ReadersOK,
                        QuadsHaveGraph, GraphsIn, Running, Visible, KeepsPast
  <1> QED
    BY <1>1, <1>2, <1>3, <1>4, <1>5, <1>6, <1>7, <1>8 DEF Next, Commit, Rollback

\* The inductive invariant holds: versions, transaction ids and readers stay
\* consistent in every execution of the in-memory storage.
THEOREM Invariance == Spec => []IInv
  <1>1. Init => IInv
    BY InitInv
  <1>2. IInv /\ [Next]_vars => IInv'
    BY NextInv
  <1> QED BY <1>1, <1>2, PTL DEF Spec

\* Type correctness of the in-memory storage.
THEOREM TypeCorrect == Spec => []TypeOK
  <1>1. IInv => TypeOK
    BY DEF IInv, Inv
  <1> QED BY <1>1, Invariance, PTL

\* In every version a reader may hold, and in the open transaction, a quad of a
\* named graph is visible only together with its graph.
THEOREM QuadsAlwaysHaveGraph == Spec => []QuadsHaveGraph
  <1>1. IInv => QuadsHaveGraph
    BY DEF IInv
  <1> QED BY <1>1, Invariance, PTL

\* Commit and rollback leave no transaction id behind in any range.
THEOREM NoResidueLeft == Spec => []NoResidue
  <1>1. IInv => NoResidue
    BY DEF IInv, Inv, CountersOK, RangesOK, AtMost, NoResidue
  <1> QED BY <1>1, Invariance, PTL

-----------------------------------------------------------------------------
(* The refinement of the contract of the storage traits *)

\* What the variables of the contract are in the storage.
StoreBar == Visible(version_counter)
WorkBar == IF Running THEN Visible(transaction_counter) ELSE {}
ReadingBar == [r \in Readers |->
                 IF ~reading[r] THEN "closed" ELSE IF todo[r] = {} THEN "done" ELSE "open"]
SnapBar == [r \in Readers |-> IF reading[r] THEN Visible(version[r]) ELSE {}]
ResultBar == [r \in Readers |-> IF todo[r] = {} THEN seen[r] ELSE {}]

\* A step of the transaction that commits nothing changes, of the contract, at
\* most what the transaction sees.
LEMMA ReadersBarKept ==
  ASSUME Inv, ReadersOK, KeepsPast, UNCHANGED readerVars
  PROVE  UNCHANGED <<ReadingBar, SnapBar, ResultBar>>
  <1>1. version' = version /\ reading' = reading /\ todo' = todo /\ seen' = seen
    BY DEF readerVars
  <1>2. \A r \in Readers : version[r] \in 0..version_counter
    BY DEF Inv, TypeOK, ReadersOK
  <1>3. ASSUME NEW r \in Readers PROVE Visible(version[r])' = Visible(version[r])
    BY <1>1, <1>2, PastIsVisible
  <1> QED BY <1>1, <1>3 DEF ReadingBar, SnapBar, ResultBar

\* The store of the contract is kept while no commit ends.
LEMMA StoreBarKept ==
  ASSUME Inv, KeepsPast, version_counter' = version_counter
  PROVE  StoreBar' = StoreBar
  <1>1. version_counter \in 0..version_counter
    BY DEF Inv, TypeOK
  <1>2. \A v \in 0..version_counter : Visible(v)' = Visible(v)
    BY PastIsVisible
  <1> QED BY <1>1, <1>2 DEF StoreBar

\* While a transaction runs, its content in the contract is what is open.
LEMMA WorkBarIsLive ==
  Inv /\ Running => WorkBar = Live
  BY TransactionSeesLive DEF Running, WorkBar

\* A stamp is one write of the contract.
LEMMA StampRefines ==
  ASSUME IInv, NEW A \in SUBSET Nodes, NEW R \in SUBSET Nodes, A \cap R = {},
         Stamp(A, R)
  PROVE  /\ WorkBar = Live
         /\ Contract!Write((Live \cup A) \ R)
  <1> USE DEF IInv
  <1>1. /\ phase = "open" /\ phase' = "open" /\ version_counter' = version_counter
        /\ UNCHANGED readerVars
    BY DEF Stamp
  <1>2. Inv' /\ KeepsPast /\ Live' = (Live \cup A) \ R
    BY StampStep
  <1>3. Running /\ Running'
    BY <1>1 DEF Running
  <1>4. WorkBar = Live
    BY <1>3, WorkBarIsLive
  <1>5. (WorkBar = Live)'
    BY <1>2, <1>3, WorkBarIsLive, PTL
  <1>6. UNCHANGED <<ReadingBar, SnapBar, ResultBar>>
    BY <1>1, <1>2, ReadersBarKept
  <1>7. StoreBar' = StoreBar
    BY <1>1, <1>2, StoreBarKept
  <1> QED
    BY <1>2, <1>3, <1>4, <1>5, <1>6, <1>7
       DEF Contract!Write, Contract!readerVars, StoreBar, WorkBar, ReadingBar, SnapBar, ResultBar

\* Every write is the write of the same name of the contract.
LEMMA WritesRefine ==
  ASSUME IInv, Writes
  PROVE  Contract!Next
  <1> DEFINE W(content) == Contract!Write(content)
             V == QuadsOfVisibleGraphs
             N == {q \in Quads : graph_name[q] # DefaultGraph}
  <1>1. phase = "open"
    BY DEF Writes, Insert, RemoveQuad, InsertNamedGraph, RemoveNamedGraph, ClearGraph,
           ClearAllNamedGraphs, ClearAllGraphs, RemoveAllNamedGraphs, Clear, Stamp
  <1>2. Visible(transaction_counter) = Live
    BY <1>1, TransactionSeesLive DEF IInv
  <1>3. GraphsIn(Live)
    BY <1>1, LiveHasGraphs DEF IInv
  <1>4. Live \ V = Live \ N /\ V \in SUBSET Nodes /\ Live \in SUBSET Nodes
    BY <1>2, <1>3, ConstantsAssumption DEF QuadsOfVisibleGraphs, QuadsOf, GraphsIn, Live, Nodes
  <1>5. ASSUME NEW A \in SUBSET Nodes, Stamp(A, {})
        PROVE  WorkBar = Live /\ W(Live \cup A)
    <2>1. A \cap {} = {} /\ {} \in SUBSET Nodes /\ (Live \cup A) \ {} = Live \cup A
      OBVIOUS
    <2> HIDE DEF W
    <2>2. WorkBar = Live /\ W((Live \cup A) \ {})
      BY <1>5, <2>1, StampRefines DEF W
    <2> QED BY <2>1, <2>2
  <1>6. ASSUME NEW R \in SUBSET Nodes, Stamp({}, R)
        PROVE  WorkBar = Live /\ W(Live \ R)
    <2>1. {} \cap R = {} /\ {} \in SUBSET Nodes /\ (Live \cup {}) \ R = Live \ R
      OBVIOUS
    <2> HIDE DEF W
    <2>2. WorkBar = Live /\ W((Live \cup {}) \ R)
      BY <1>6, <2>1, StampRefines DEF W
    <2> QED BY <2>1, <2>2
  <1> HIDE DEF W, V
  <1> USE ConstantsAssumption
  <1>7. ASSUME NEW q \in Quads, Insert(q)
        PROVE  Contract!Insert(q)
    <2> DEFINE A == IF IsOpen(range[q]) THEN {}
                    ELSE {q} \cup ({graph_name[q]} \ {DefaultGraph})
    <2>1. A \in SUBSET Nodes
      BY DEF Nodes
    <2>2. WorkBar = Live /\ W(Live \cup A)
      BY <1>5, <1>7, <2>1 DEF Insert
    <2>3. Live \cup A = Live \cup {q} \cup ({graph_name[q]} \ {DefaultGraph})
      <3>1. CASE IsOpen(range[q])
        <4>1. q \in Live
          BY <3>1 DEF Live, Nodes
        <4> QED BY <1>3, <3>1, <4>1 DEF GraphsIn
      <3>2. CASE ~IsOpen(range[q])
        BY <3>2
      <3> QED BY <3>1, <3>2
    <2> HIDE DEF A
    <2>4. W(WorkBar \cup {q} \cup ({graph_name[q]} \ {DefaultGraph}))
      BY <2>2, <2>3
    <2> QED BY <2>4 DEF W, Contract!Insert, WorkBar
  <1>8. ASSUME NEW q \in Quads, RemoveQuad(q)
        PROVE  Contract!Remove(q)
    <2>1. WorkBar = Live /\ W(Live \ {q})
      BY <1>6, <1>8 DEF RemoveQuad, Nodes
    <2>2. W(WorkBar \ {q})
      BY <2>1
    <2> QED BY <2>2 DEF W, Contract!Remove, WorkBar
  <1>9. ASSUME NEW g \in NamedGraphs, InsertNamedGraph(g)
        PROVE  Contract!InsertNamedGraph(g)
    <2>1. WorkBar = Live /\ W(Live \cup {g})
      BY <1>5, <1>9 DEF InsertNamedGraph, Nodes
    <2>2. W(WorkBar \cup {g})
      BY <2>1
    <2> QED BY <2>2 DEF W, Contract!InsertNamedGraph, WorkBar
  <1>10. ASSUME NEW g \in NamedGraphs, RemoveNamedGraph(g)
         PROVE  Contract!RemoveNamedGraph(g)
    <2>1. WorkBar = Live /\ W(Live \ (QuadsOf(g) \cup {g}))
      <3>1. QuadsOf(g) \cup {g} \in SUBSET Nodes
        BY DEF QuadsOf, Nodes
      <3> QED BY <1>6, <1>10, <3>1 DEF RemoveNamedGraph
    <2>2. W(WorkBar \ (QuadsOf(g) \cup {g}))
      BY <2>1
    <2> QED BY <2>2 DEF W, Contract!RemoveNamedGraph, WorkBar, QuadsOf, Contract!QuadsOf
  <1>11. ASSUME NEW g \in NamedGraphs \cup {DefaultGraph}, ClearGraph(g)
         PROVE  Contract!ClearGraph(g)
    <2>1. WorkBar = Live /\ W(Live \ QuadsOf(g))
      <3>1. QuadsOf(g) \in SUBSET Nodes
        BY DEF QuadsOf, Nodes
      <3> QED BY <1>6, <1>11, <3>1 DEF ClearGraph
    <2>2. W(WorkBar \ QuadsOf(g))
      BY <2>1
    <2> QED BY <2>2 DEF W, Contract!ClearGraph, WorkBar, QuadsOf, Contract!QuadsOf
  <1>12. ASSUME ClearAllNamedGraphs
         PROVE  Contract!ClearAllNamedGraphs
    <2>1. WorkBar = Live /\ W(Live \ V)
      BY <1>4, <1>6, <1>12 DEF ClearAllNamedGraphs, V
    <2>2. W(WorkBar \ N)
      BY <1>4, <2>1
    <2> QED BY <2>2 DEF W, Contract!ClearAllNamedGraphs, WorkBar
  <1>13. ASSUME ClearAllGraphs
         PROVE  Contract!ClearAllGraphs
    <2>1. WorkBar = Live /\ W(Live \ Quads)
      BY <1>6, <1>13 DEF ClearAllGraphs, Nodes
    <2>2. W(WorkBar \ Quads)
      BY <2>1
    <2> QED BY <2>2 DEF W, Contract!ClearAllGraphs, WorkBar
  <1>14. ASSUME RemoveAllNamedGraphs
         PROVE  Contract!RemoveAllNamedGraphs
    <2>1. V \cup NamedGraphs \in SUBSET Nodes
      BY <1>4 DEF Nodes
    <2>2. WorkBar = Live /\ W(Live \ (V \cup NamedGraphs))
      BY <1>6, <1>14, <2>1 DEF RemoveAllNamedGraphs, V
    <2>3. Live \ (V \cup NamedGraphs) = Live \ (NamedGraphs \cup N)
      BY <1>4
    <2>4. W(WorkBar \ (NamedGraphs \cup N))
      BY <2>2, <2>3
    <2> QED BY <2>4 DEF W, Contract!RemoveAllNamedGraphs, WorkBar
  <1>15. ASSUME Clear
         PROVE  Contract!Clear
    <2>1. W(Live \ Nodes) /\ Live \ Nodes = {}
      BY <1>6, <1>15 DEF Clear, Live
    <2>2. W({})
      BY <2>1
    <2> QED BY <2>2 DEF W, Contract!Clear
  <1> QED
    BY <1>7, <1>8, <1>9, <1>10, <1>11, <1>12, <1>13, <1>14, <1>15 DEF Writes, Contract!Next

\* A step of a reader is a step of the reader of the contract, or none: the
\* test of the last node delivers the content of the snapshot.
LEMMA ReaderRefines ==
  ASSUME IInv, NEW r \in Readers,
         Snapshot(r) \/ (\E n \in Nodes : ScanNode(r, n)) \/ DropReader(r)
  PROVE  [Contract!Next]_(Contract!vars)
  <1> USE DEF IInv
  <1>1. UNCHANGED txnVars
    BY DEF Snapshot, ScanNode, DropReader
  <1>2. /\ range' = range /\ version_counter' = version_counter
        /\ transaction_counter' = transaction_counter /\ phase' = phase
    BY <1>1 DEF txnVars
  <1>3. StoreBar' = StoreBar /\ WorkBar' = WorkBar /\ Running' = Running
    BY <1>2 DEF StoreBar, WorkBar, Running, Visible
  <1>4. /\ reading \in [Readers -> BOOLEAN] /\ version \in [Readers -> Nat]
        /\ todo \in [Readers -> SUBSET Nodes] /\ seen \in [Readers -> SUBSET Nodes]
    BY DEF Inv, TypeOK
  <1>5. CASE Snapshot(r)
    <2>1. ReadingBar[r] = "closed"
      BY <1>4, <1>5 DEF Snapshot, ReadingBar
    <2>2. Nodes # {}
      BY ConstantsAssumption DEF Nodes
    <2>3. ReadingBar' = [ReadingBar EXCEPT ![r] = "open"]
      BY <1>4, <1>5, <2>2 DEF Snapshot, ReadingBar
    <2>4. SnapBar' = [SnapBar EXCEPT ![r] = StoreBar]
      BY <1>4, <1>2, <1>5 DEF Snapshot, SnapBar, StoreBar, Visible
    <2>5. ResultBar' = ResultBar
      <3>1. todo[r] = {} /\ seen[r] = {}
        BY <1>5 DEF Snapshot, ReadersOK
      <3> QED BY <1>4, <1>5, <2>2, <3>1 DEF Snapshot, ResultBar
    <2>6. Contract!Snapshot(r)
      BY <1>3, <2>1, <2>3, <2>4, <2>5
         DEF Contract!Snapshot, StoreBar, WorkBar, ReadingBar, SnapBar, ResultBar
    <2> QED BY <2>6 DEF Contract!Next
  <1>6. CASE \E n \in Nodes : ScanNode(r, n)
    <2>1. PICK n \in Nodes : ScanNode(r, n)
      BY <1>6
    <2>2. /\ reading[r] /\ n \in todo[r] /\ reading' = reading /\ version' = version
          /\ todo' = [todo EXCEPT ![r] = todo[r] \ {n}]
          /\ \A s \in Readers \ {r} : seen'[s] = seen[s]
      BY <2>1 DEF ScanNode
    <2>3. SnapBar' = SnapBar
      BY <1>4, <1>2, <2>2 DEF SnapBar, Visible
    <2>4. CASE todo'[r] # {}
      <3>1. ReadingBar' = ReadingBar
        BY <1>4, <2>2, <2>4 DEF ReadingBar
      <3>2. ResultBar' = ResultBar
        BY <1>4, <2>2, <2>4 DEF ResultBar
      <3> QED BY <1>3, <2>3, <3>1, <3>2
             DEF Contract!vars, StoreBar, WorkBar, ReadingBar, SnapBar, ResultBar
    <2>5. CASE todo'[r] = {}
      <3>1. ReadingBar[r] = "open"
        BY <1>4, <2>2 DEF ReadingBar
      <3>2. ReadingBar' = [ReadingBar EXCEPT ![r] = "done"]
        BY <1>4, <2>2, <2>5 DEF ReadingBar
      <3>3. seen'[r] = Visible(version[r])
        <4>1. ReadersOK'
          BY <1>1, <1>6, ReaderStep
        <4>2. seen'[r] = Visible(version[r])' \ todo'[r]
          BY <2>2, <4>1 DEF ReadersOK
        <4>3. Visible(version[r])' = Visible(version[r])
          BY <1>2, <2>2 DEF Visible
        <4> QED BY <2>5, <4>2, <4>3
      <3>4. ResultBar' = [ResultBar EXCEPT ![r] = SnapBar[r]]
        BY <1>4, <2>2, <2>5, <3>3 DEF ResultBar, SnapBar
      <3>5. Contract!Deliver(r)
        BY <1>3, <2>3, <3>1, <3>2, <3>4
           DEF Contract!Deliver, StoreBar, WorkBar, ReadingBar, SnapBar, ResultBar
      <3> QED BY <3>5 DEF Contract!Next
    <2> QED BY <2>4, <2>5
  <1>7. CASE DropReader(r)
    <2>1. ReadingBar[r] # "closed"
      BY <1>4, <1>7 DEF DropReader, ReadingBar
    <2>2. ReadingBar' = [ReadingBar EXCEPT ![r] = "closed"]
      BY <1>4, <1>7 DEF DropReader, ReadingBar
    <2>3. SnapBar' = [SnapBar EXCEPT ![r] = {}]
      BY <1>4, <1>2, <1>7 DEF DropReader, SnapBar, Visible
    <2>4. ResultBar' = [ResultBar EXCEPT ![r] = {}]
      BY <1>4, <1>7 DEF DropReader, ResultBar
    <2>5. Contract!DropReader(r)
      BY <1>3, <2>1, <2>2, <2>3, <2>4
         DEF Contract!DropReader, StoreBar, WorkBar, ReadingBar, SnapBar, ResultBar
    <2> QED BY <2>5 DEF Contract!Next
  <1> QED BY <1>5, <1>6, <1>7

\* Every step of the storage is a step of the contract or changes nothing in it.
LEMMA NextRefines ==
  ASSUME IInv, [Next]_vars
  PROVE  [Contract!Next]_(Contract!vars)
  <1> USE DEF IInv
  <1>1. CASE StartTransaction
    <2>1. /\ phase = "idle" /\ phase' = "open" /\ version_counter' = version_counter
          /\ UNCHANGED readerVars
      BY <1>1 DEF StartTransaction
    <2>2. Inv' /\ KeepsPast /\ Live' = Live
      BY <1>1, StartStep
    <2>3. ~Running /\ Running' /\ StoreBar = Live
      BY <2>1, CommittedIsLive DEF Running, StoreBar
    <2>4. (WorkBar = Live)'
      BY <2>2, <2>3, WorkBarIsLive, PTL
    <2>5. StoreBar' = StoreBar /\ UNCHANGED <<ReadingBar, SnapBar, ResultBar>>
      BY <2>1, <2>2, ReadersBarKept, StoreBarKept
    <2>6. Contract!StartTransaction
      BY <2>2, <2>3, <2>4, <2>5
         DEF Contract!StartTransaction, Contract!readerVars,
             StoreBar, WorkBar, ReadingBar, SnapBar, ResultBar
    <2> QED BY <2>6 DEF Contract!Next
  <1>2. CASE Writes
    BY <1>2, WritesRefine
  <1>3. CASE BeginCommit \/ (\E n \in Nodes : CommitNode(n))
    <2>1. /\ version_counter' = version_counter /\ UNCHANGED readerVars
          /\ Running /\ Running'
      BY <1>3 DEF BeginCommit, CommitNode, Running
    <2>2. Inv' /\ KeepsPast /\ Live' = Live
      BY <1>3, PhaseStep, CommitNodeStep
    <2>3. WorkBar = Live
      BY <2>1, WorkBarIsLive
    <2>4. (WorkBar = Live)'
      BY <2>1, <2>2, WorkBarIsLive, PTL
    <2>5. StoreBar' = StoreBar /\ UNCHANGED <<ReadingBar, SnapBar, ResultBar>>
      BY <2>1, <2>2, ReadersBarKept, StoreBarKept
    <2>6. Running' = Running
      BY <2>1 DEF Running
    <2> QED BY <2>2, <2>3, <2>4, <2>5, <2>6
            DEF Contract!vars, StoreBar, WorkBar, ReadingBar, SnapBar, ResultBar
  <1>4. CASE FinishCommit
    <2>1. Running /\ ~Running' /\ UNCHANGED readerVars
      BY <1>4 DEF FinishCommit, Running
    <2>2. KeepsPast /\ Live' = Live /\ (Visible(version_counter) = Live)'
      BY <1>4, FinishCommitStep
    <2>3. WorkBar = Live
      BY <2>1, WorkBarIsLive
    <2>4. StoreBar' = WorkBar /\ WorkBar' = {}
      BY <2>1, <2>2, <2>3 DEF StoreBar, WorkBar
    <2>5. UNCHANGED <<ReadingBar, SnapBar, ResultBar>>
      BY <2>1, <2>2, ReadersBarKept
    <2>6. Contract!Commit
      <3>1. UNCHANGED Contract!readerVars
        BY <2>5 DEF Contract!readerVars, ReadingBar, SnapBar, ResultBar
      <3>2. Running /\ Running' = FALSE
        BY <2>1
      <3> QED
        BY <2>4, <3>1, <3>2 DEF Contract!Commit, StoreBar, WorkBar
    <2> QED BY <2>6 DEF Contract!Next
  <1>5. CASE BeginRollback
    <2>1. /\ Running /\ ~Running' /\ version_counter' = version_counter
          /\ UNCHANGED readerVars
      BY <1>5 DEF BeginRollback, Running
    <2>2. KeepsPast
      BY <1>5, PhaseStep
    <2>3. WorkBar' = {}
      BY <2>1 DEF WorkBar
    <2>4. StoreBar' = StoreBar /\ UNCHANGED <<ReadingBar, SnapBar, ResultBar>>
      BY <2>1, <2>2, ReadersBarKept, StoreBarKept
    <2>5. Contract!Rollback
      <3>1. UNCHANGED Contract!readerVars
        BY <2>4 DEF Contract!readerVars, ReadingBar, SnapBar, ResultBar
      <3>2. Running /\ Running' = FALSE
        BY <2>1
      <3> QED
        BY <2>3, <2>4, <3>1, <3>2 DEF Contract!Rollback, StoreBar, WorkBar
    <2> QED BY <2>5 DEF Contract!Next
  <1>6. CASE (\E n \in Nodes : RollbackNode(n)) \/ FinishRollback
    <2>1. /\ ~Running /\ ~Running' /\ version_counter' = version_counter
          /\ UNCHANGED readerVars
      BY <1>6 DEF RollbackNode, FinishRollback, Running
    <2>2. KeepsPast
      BY <1>6, PhaseStep, RollbackNodeStep
    <2>3. WorkBar' = WorkBar
      BY <2>1 DEF WorkBar
    <2>4. Running' = Running
      BY <2>1 DEF Running
    <2>5. StoreBar' = StoreBar /\ UNCHANGED <<ReadingBar, SnapBar, ResultBar>>
      BY <2>1, <2>2, ReadersBarKept, StoreBarKept
    <2> QED BY <2>3, <2>4, <2>5
            DEF Contract!vars, StoreBar, WorkBar, ReadingBar, SnapBar, ResultBar
  <1>7. CASE \E r \in Readers :
               Snapshot(r) \/ (\E n \in Nodes : ScanNode(r, n)) \/ DropReader(r)
    BY <1>7, ReaderRefines
  <1>8. CASE UNCHANGED vars
    BY <1>8 DEF vars, txnVars, readerVars, Contract!vars, Running, Visible
  <1> QED
    BY <1>1, <1>2, <1>3, <1>4, <1>5, <1>6, <1>7, <1>8 DEF Next, Commit, Rollback

\* The in-memory storage implements the contract of the storage traits: its
\* snapshots never move while commits rewrite ranges under them, commits are
\* atomic, drops undo everything, and a transaction sees its own writes.
THEOREM Refinement == Spec => ImplementsContract
  <1>1. Init => Contract!Init
    <2> SUFFICES ASSUME Init PROVE Contract!Init
      OBVIOUS
    <2>1. Len(Empty) = 0
      BY DEF Empty
    <2>2. \A v : Visible(v) = {}
      BY <2>1 DEF Init, Visible, Contains
    <2>3. Running = FALSE
      BY DEF Init, Running
    <2> QED BY <2>2, <2>3 DEF Init, Contract!Init
  <1>2. IInv /\ [Next]_vars => [Contract!Next]_(Contract!vars)
    BY NextRefines
  <1> QED BY <1>1, <1>2, Invariance, PTL DEF Spec, ImplementsContract, Contract!Spec
=============================================================================
