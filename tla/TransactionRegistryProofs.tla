---------------------- MODULE TransactionRegistryProofs ----------------------
(***************************************************************************)
(* What the HTTP transactions guarantee, for any number of transactions,   *)
(* workers, quads and operations, and any timeout.                         *)
(***************************************************************************)
EXTENDS TransactionRegistry, WellFoundedInduction, TLAPS

\* The provers, and their time limits in seconds, that the steps are tried with.
USE ZenonT(5), SMTT(20), ZenonT(20), SMTT(60)

-----------------------------------------------------------------------------
(* Induction over the naturals, and functions defined by recursion *)

\* Nat is the least set that has 0 and is closed under successor.  (The library's
\* induction theorems are about operators, which no backend instantiates; this one
\* is about a set, from the well-foundedness of Nat.)
LEMMA SetInduction ==
  ASSUME NEW S, 0 \in S, \A n \in Nat : n \in S => n + 1 \in S
  PROVE  Nat \subseteq S
<1> DEFINE R == {p \in Nat \X Nat : p[1] < p[2]}
<1> DEFINE T == Nat \ S
<1> SUFFICES ASSUME T # {} PROVE FALSE
  OBVIOUS
<1>1. IsWellFoundedOn(R, Nat)
  BY NatLessThanWellFounded DEF OpToRel
<1>2. PICK x \in T : \A y \in T : ~ (<<y, x>> \in R)
  <2> HIDE DEF R
  <2> QED
    BY <1>1, WFMin
<1>3. x - 1 \in T /\ <<x - 1, x>> \in R
  OBVIOUS
<1> QED
  BY <1>2, <1>3

\* f runs from c through the steps: what a recursive function over 0..n computes.
Runs(f, n, c, step) ==
  f[0] = c /\ \A i \in 1..n : f[i] = step[i][f[i - 1]]

\* A recursion over 0..n has a solution.
LEMMA RunExists ==
  ASSUME NEW S, NEW c \in S, NEW n \in Nat, NEW step \in [1..n -> [S -> S]]
  PROVE  \E f \in [0..n -> S] : Runs(f, n, c, step)
<1> DEFINE T == {k \in Nat : k <= n => \E f \in [0..k -> S] : Runs(f, k, c, step)}
<1>1. 0 \in T
  <2>1. [i \in 0..0 |-> c] \in [0..0 -> S] /\ Runs([i \in 0..0 |-> c], 0, c, step)
    BY DEF Runs
  <2> QED
    BY <2>1
<1>2. ASSUME NEW k \in Nat, k \in T PROVE k + 1 \in T
  <2> SUFFICES ASSUME k + 1 <= n
               PROVE  \E f \in [0..(k + 1) -> S] : Runs(f, k + 1, c, step)
    OBVIOUS
  <2>1. PICK f \in [0..k -> S] : Runs(f, k, c, step)
    BY <1>2
  <2> DEFINE g == [i \in 0..(k + 1) |-> IF i = k + 1 THEN step[k + 1][f[k]] ELSE f[i]]
  <2>2. g \in [0..(k + 1) -> S]
    BY <2>1
  <2>3. Runs(g, k + 1, c, step)
    BY <2>1 DEF Runs
  <2> QED
    BY <2>2, <2>3
<1> HIDE DEF T
<1>3. Nat \subseteq T
  BY <1>1, <1>2, SetInduction
<1> QED
  BY <1>3 DEF T

\* Two recursions with the same start and the same steps agree as far as both go.
LEMMA RunUnique ==
  ASSUME NEW f, NEW g, NEW c, NEW step, NEW n \in Nat,
         Runs(f, n, c, step), Runs(g, n, c, step)
  PROVE  \A i \in 0..n : f[i] = g[i]
<1> DEFINE T == {k \in Nat : k <= n => f[k] = g[k]}
<1>1. 0 \in T
  BY DEF Runs
<1>2. ASSUME NEW k \in Nat, k \in T PROVE k + 1 \in T
  BY <1>2 DEF Runs
<1> HIDE DEF T
<1>3. Nat \subseteq T
  BY <1>1, <1>2, SetInduction
<1> QED
  BY <1>3 DEF T

\* A recursion whose start and steps stay in a set stays in it.
LEMMA RunStays ==
  ASSUME NEW f, NEW S, NEW n \in Nat, f[0] \in S,
         \A i \in 1..n : f[i - 1] \in S => f[i] \in S
  PROVE  \A i \in 0..n : f[i] \in S
<1> DEFINE T == {k \in Nat : k <= n => f[k] \in S}
<1>1. 0 \in T
  OBVIOUS
<1>2. ASSUME NEW k \in Nat, k \in T PROVE k + 1 \in T
  BY <1>2
<1> HIDE DEF T
<1>3. Nat \subseteq T
  BY <1>1, <1>2, SetInduction
<1> QED
  BY <1>3 DEF T

-----------------------------------------------------------------------------
(* Replaying *)

Contents == SUBSET Quads
Batch == [delete : Contents, put : Contents]
NoWrites == [delete |-> {}, put |-> {}]

\* Applying an operation to quads gives quads.
LEMMA ApplyType ==
  ASSUME NEW op \in Ops, NEW content \in Contents
  PROVE  Apply(op, content) \in Contents
<1>1. op.quads \in SUBSET Quads /\ op.kind \in Kinds
  BY ConstantsAssumption
<1> QED
  BY <1>1 DEF Apply, Kinds, Contents

\* The operations write quads, and the writes turn quads into quads.
LEMMA WriteType ==
  ASSUME NEW snapshot \in Contents, NEW batch \in Batch
  PROVE  /\ Written(snapshot, batch) \in Contents
         /\ \A op \in Ops : Write(snapshot, batch, op) \in Batch
<1>1. batch.delete \in Contents /\ batch.put \in Contents
  BY DEF Batch
<1>2. Written(snapshot, batch) \in Contents
  BY <1>1 DEF Written, Contents
<1>3. ASSUME NEW op \in Ops
      PROVE  Write(snapshot, batch, op) \in Batch
  <2>1. op.quads \in Contents /\ op.kind \in Kinds
    BY ConstantsAssumption DEF Contents
  <2>2. Deletes(op, Written(snapshot, batch)) \in Contents
    BY <1>2, <2>1 DEF Deletes, Kinds, Contents
  <2>3. Inserts(op) \in Contents
    BY <2>1 DEF Inserts, Contents
  <2> QED
    BY <1>1, <2>2, <2>3 DEF Write, Batch, Contents
<1> QED
  BY <1>2, <1>3

\* The recursion of ReplayFrom is well defined: there is a function that satisfies its
\* equation, so that the one it chooses does, and every value it takes is a set of quads.
LEMMA ReplayFromRun ==
  ASSUME NEW content \in Contents, NEW list \in Seq(Ops)
  PROVE  \E f \in [0..Len(list) -> Contents] :
           /\ f[0] = content
           /\ \A i \in 1..Len(list) : f[i] = Apply(list[i], f[i - 1])
           /\ ReplayFrom(content, list) = f[Len(list)]
<1> DEFINE n == Len(list)
<1> DEFINE step == [i \in 1..n |-> [c \in Contents |-> Apply(list[i], c)]]
<1> DEFINE after[i \in 0..n] == IF i = 0 THEN content ELSE Apply(list[i], after[i - 1])
<1>1. n \in Nat /\ \A i \in 1..n : list[i] \in Ops
  OBVIOUS
<1>2. step \in [1..n -> [Contents -> Contents]]
  BY <1>1, ApplyType
<1>3. PICK f \in [0..n -> Contents] : Runs(f, n, content, step)
  <2> HIDE DEF step
  <2>1. content \in Contents
    OBVIOUS
  <2> QED
    BY <1>1, <1>2, <2>1, RunExists
<1>4. f = [i \in 0..n |-> IF i = 0 THEN content ELSE Apply(list[i], f[i - 1])]
  <2>1. ASSUME NEW i \in 1..n PROVE f[i] = Apply(list[i], f[i - 1])
    <3>1. f[i] = step[i][f[i - 1]]
      BY <1>3 DEF Runs
    <3>2. f[i - 1] \in Contents
      <4> HIDE DEF n, step
      <4> QED BY <1>1, <1>3
    <3> QED
      BY <3>1, <3>2
  <2> HIDE DEF n, step
  <2> QED
    BY <1>1, <1>3, <2>1 DEF Runs
<1>5. after = [i \in 0..n |-> IF i = 0 THEN content ELSE Apply(list[i], after[i - 1])]
  BY <1>4
<1> HIDE DEF after
<1>6. after[0] = content /\ \A i \in 1..n : after[i] = Apply(list[i], after[i - 1])
  <2> HIDE DEF n
  <2>1. \A i \in 0..n : after[i] = IF i = 0 THEN content ELSE Apply(list[i], after[i - 1])
    BY <1>5
  <2>2. after[0] = content
    BY <1>1, <2>1
  <2>3. ASSUME NEW i \in 1..n PROVE after[i] = Apply(list[i], after[i - 1])
    <3>1. i \in 0..n /\ i # 0
      BY <1>1
    <3> QED
      BY <2>1, <3>1
  <2> QED
    BY <2>2, <2>3
<1>7. \A i \in 0..n : after[i] \in Contents
  <2>1. after[0] \in Contents
    BY <1>6
  <2>2. ASSUME NEW i \in 1..n, after[i - 1] \in Contents PROVE after[i] \in Contents
    BY <1>1, <1>6, <2>2, ApplyType
  <2> HIDE DEF n
  <2> QED
    BY <1>1, <2>1, <2>2, RunStays
<1>8. after \in [0..n -> Contents]
  <2> HIDE DEF n
  <2> QED BY <1>5, <1>7
<1>9. ReplayFrom(content, list) = after[n]
  BY DEF ReplayFrom, after
<1> QED
  <2> HIDE DEF n
  <2>1. \E g \in [0..n -> Contents] :
           /\ g[0] = content
           /\ \A i \in 1..n : g[i] = Apply(list[i], g[i - 1])
           /\ ReplayFrom(content, list) = g[n]
    BY <1>6, <1>8, <1>9
  <2> QED
    BY <2>1 DEF n

\* So is the recursion of Replay, whose values are writes.
LEMMA ReplayRun ==
  ASSUME NEW snapshot \in Contents, NEW list \in Seq(Ops)
  PROVE  \E f \in [0..Len(list) -> Batch] :
           /\ f[0] = NoWrites
           /\ \A i \in 1..Len(list) : f[i] = Write(snapshot, f[i - 1], list[i])
           /\ Replay(snapshot, list) = f[Len(list)]
<1> DEFINE n == Len(list)
<1> DEFINE step == [i \in 1..n |-> [c \in Batch |-> Write(snapshot, c, list[i])]]
<1> DEFINE after[i \in 0..n] == IF i = 0 THEN NoWrites ELSE Write(snapshot, after[i - 1], list[i])
<1>1. n \in Nat /\ \A i \in 1..n : list[i] \in Ops
  OBVIOUS
<1>2. step \in [1..n -> [Batch -> Batch]]
  BY <1>1, WriteType
<1>3. PICK f \in [0..n -> Batch] : Runs(f, n, NoWrites, step)
  <2> HIDE DEF step
  <2>1. NoWrites \in Batch
    BY DEF NoWrites, Batch, Contents
  <2> QED
    BY <1>1, <1>2, <2>1, RunExists
<1>4. f = [i \in 0..n |-> IF i = 0 THEN NoWrites ELSE Write(snapshot, f[i - 1], list[i])]
  <2>1. ASSUME NEW i \in 1..n PROVE f[i] = Write(snapshot, f[i - 1], list[i])
    <3>1. f[i] = step[i][f[i - 1]]
      BY <1>3 DEF Runs
    <3>2. f[i - 1] \in Batch
      <4> HIDE DEF n, step
      <4> QED BY <1>1, <1>3
    <3> QED
      BY <3>1, <3>2
  <2> HIDE DEF n, step
  <2> QED
    BY <1>1, <1>3, <2>1 DEF Runs
<1>5. after = [i \in 0..n |-> IF i = 0 THEN NoWrites ELSE Write(snapshot, after[i - 1], list[i])]
  BY <1>4
<1> HIDE DEF after
<1>6. after[0] = NoWrites /\ \A i \in 1..n : after[i] = Write(snapshot, after[i - 1], list[i])
  <2> HIDE DEF n
  <2>1. \A i \in 0..n : after[i] = IF i = 0 THEN NoWrites ELSE Write(snapshot, after[i - 1], list[i])
    BY <1>5
  <2>2. after[0] = NoWrites
    BY <1>1, <2>1
  <2>3. ASSUME NEW i \in 1..n PROVE after[i] = Write(snapshot, after[i - 1], list[i])
    <3>1. i \in 0..n /\ i # 0
      BY <1>1
    <3> QED
      BY <2>1, <3>1
  <2> QED
    BY <2>2, <2>3
<1>7. \A i \in 0..n : after[i] \in Batch
  <2>1. after[0] \in Batch
    BY <1>6 DEF NoWrites, Batch, Contents
  <2>2. ASSUME NEW i \in 1..n, after[i - 1] \in Batch PROVE after[i] \in Batch
    BY <1>1, <1>6, <2>2, WriteType
  <2> HIDE DEF n
  <2> QED
    BY <1>1, <2>1, <2>2, RunStays
<1>8. after \in [0..n -> Batch]
  <2> HIDE DEF n
  <2> QED BY <1>5, <1>7
<1>9. Replay(snapshot, list) = after[n]
  BY DEF Replay, NoWrites, after
<1> QED
  <2> HIDE DEF n
  <2>1. \E g \in [0..n -> Batch] :
           /\ g[0] = NoWrites
           /\ \A i \in 1..n : g[i] = Write(snapshot, g[i - 1], list[i])
           /\ Replay(snapshot, list) = g[n]
    BY <1>6, <1>8, <1>9
  <2> QED
    BY <2>1 DEF n

\* One operation: its writes do to any content what it does itself, when it reads that
\* content or does not read at all.
LEMMA WriteIsApply ==
  ASSUME NEW op \in Ops, NEW snapshot \in Contents, NEW content \in Contents, NEW batch \in Batch,
         snapshot = content \/ op.kind \in {"InsertQuads", "RemoveQuads"}
  PROVE  Written(content, Write(snapshot, batch, op)) = Apply(op, Written(content, batch))
<1> DEFINE view == Written(snapshot, batch)
           deletes == Deletes(op, view)
<1>1. batch.delete \in Contents /\ batch.put \in Contents /\ op.kind \in Kinds
  BY ConstantsAssumption DEF Batch
<1>2. Written(content, Write(snapshot, batch, op)) =
        (content \ (batch.delete \cup deletes)) \cup ((batch.put \ deletes) \cup Inserts(op))
  BY DEF Written, Write
<1>3. Written(content, batch) = (content \ batch.delete) \cup batch.put
  BY DEF Written
<1>4. Written(content, Write(snapshot, batch, op)) = (Written(content, batch) \ deletes) \cup Inserts(op)
  <2> HIDE DEF deletes
  <2> QED BY <1>2, <1>3
<1>5. CASE op.kind \in {"InsertQuads", "RemoveQuads"}
  BY <1>4, <1>5 DEF Deletes, Inserts, Apply
<1>6. CASE op.kind \notin {"InsertQuads", "RemoveQuads"}
  <2>1. view = Written(content, batch)
    BY <1>6
  <2> HIDE DEF view
  <2> QED
    BY <1>1, <1>4, <1>6, <2>1 DEF Deletes, Inserts, Apply, Kinds
<1> QED
  BY <1>5, <1>6

\* The writes of a storage transaction do to a store what its operations do one after
\* the other, when it read that store or when none of them reads.
LEMMA ReplayIsSerial ==
  ASSUME NEW list \in Seq(Ops), NEW snapshot \in Contents, NEW content \in Contents,
         snapshot = content \/ Blind(list)
  PROVE  Written(content, Replay(snapshot, list)) = ReplayFrom(content, list)
<1> DEFINE n == Len(list)
<1>1. n \in Nat /\ \A i \in 1..n : list[i] \in Ops
  OBVIOUS
<1>2. PICK f \in [0..n -> Batch] : /\ f[0] = NoWrites
                                   /\ \A i \in 1..n : f[i] = Write(snapshot, f[i - 1], list[i])
                                   /\ Replay(snapshot, list) = f[n]
  BY ReplayRun
<1>3. PICK g \in [0..n -> Contents] : /\ g[0] = content
                                      /\ \A i \in 1..n : g[i] = Apply(list[i], g[i - 1])
                                      /\ ReplayFrom(content, list) = g[n]
  BY ReplayFromRun
<1> HIDE DEF n
<1> DEFINE T == {k \in Nat : k <= n => Written(content, f[k]) = g[k]}
<1>4. 0 \in T
  <2>1. Written(content, NoWrites) = content
    BY DEF Written, NoWrites
  <2> QED BY <1>2, <1>3, <2>1
<1>5. ASSUME NEW k \in Nat, k \in T PROVE k + 1 \in T
  <2> SUFFICES ASSUME k + 1 <= n
               PROVE  Written(content, f[k + 1]) = g[k + 1]
    OBVIOUS
  <2>1. k + 1 \in 1..n /\ (k + 1) - 1 = k /\ k \in 0..n
    BY <1>1
  <2>2. f[k + 1] = Write(snapshot, f[k], list[k + 1]) /\ g[k + 1] = Apply(list[k + 1], g[k])
    BY <1>2, <1>3, <2>1
  <2>3. f[k] \in Batch /\ list[k + 1] \in Ops /\ Written(content, f[k]) = g[k]
    BY <1>1, <1>2, <1>5, <2>1
  <2>4. snapshot = content \/ list[k + 1].kind \in {"InsertQuads", "RemoveQuads"}
    BY <2>1 DEF Blind, n
  <2>5. Written(content, Write(snapshot, f[k], list[k + 1])) = Apply(list[k + 1], Written(content, f[k]))
    BY <2>3, <2>4, WriteIsApply
  <2> QED
    BY <2>2, <2>3, <2>5
<1> HIDE DEF T
<1>6. Nat \subseteq T
  BY <1>4, <1>5, SetInduction
<1>7. Written(content, f[n]) = g[n]
  BY <1>1, <1>6 DEF T
<1> QED
  BY <1>2, <1>3, <1>7

\* What a commit makes of quads is quads.
LEMMA CommitType ==
  ASSUME NEW content \in Contents, NEW x \in Replaying, NEW i
  PROVE  CommitTo(content, x, i) \in Contents
<1>1. x.ops \in Seq(Ops) /\ x.snapshot \in Contents
  BY DEF Replaying, Contents
<1>2. Len(x.ops) \in Nat
  BY <1>1
<1>3. ReplayFrom(content, x.ops) \in Contents
  BY <1>1, <1>2, ReplayFromRun
<1>4. Replay(x.snapshot, x.ops) \in Batch
  BY <1>1, <1>2, ReplayRun
<1>5. Written(content, Replay(x.snapshot, x.ops)) \in Contents
  BY <1>4, WriteType
<1> QED
  BY <1>3, <1>5 DEF CommitTo

\* The recursion of ContentAfter is well defined too.
LEMMA ContentRun ==
  ASSUME NEW list, NEW m \in Nat, \A i \in 1..m : list[i] \in Replaying
  PROVE  \E f \in [0..m -> Contents] :
           /\ f[0] = {}
           /\ \A i \in 1..m : f[i] = CommitTo(f[i - 1], list[i], i)
           /\ ContentAfter(list, m) = f[m]
<1> DEFINE n == m
<1> DEFINE step == [i \in 1..n |-> [c \in Contents |-> CommitTo(c, list[i], i)]]
<1> DEFINE after[i \in 0..n] == IF i = 0 THEN {} ELSE CommitTo(after[i - 1], list[i], i)
<1>1. n \in Nat /\ \A i \in 1..n : list[i] \in Replaying
  OBVIOUS
<1>2. step \in [1..n -> [Contents -> Contents]]
  BY <1>1, CommitType
<1>3. PICK f \in [0..n -> Contents] : Runs(f, n, {}, step)
  <2> HIDE DEF step
  <2>1. {} \in Contents
    BY DEF Contents
  <2> QED
    BY <1>1, <1>2, <2>1, RunExists
<1>4. f = [i \in 0..n |-> IF i = 0 THEN {} ELSE CommitTo(f[i - 1], list[i], i)]
  <2>1. ASSUME NEW i \in 1..n PROVE f[i] = CommitTo(f[i - 1], list[i], i)
    <3>1. f[i] = step[i][f[i - 1]]
      BY <1>3 DEF Runs
    <3>2. f[i - 1] \in Contents
      <4> HIDE DEF n, step
      <4> QED BY <1>1, <1>3
    <3> QED
      BY <3>1, <3>2
  <2> HIDE DEF n, step
  <2> QED
    BY <1>1, <1>3, <2>1 DEF Runs
<1>5. after = [i \in 0..n |-> IF i = 0 THEN {} ELSE CommitTo(after[i - 1], list[i], i)]
  BY <1>4
<1> HIDE DEF after
<1>6. after[0] = {} /\ \A i \in 1..n : after[i] = CommitTo(after[i - 1], list[i], i)
  <2> HIDE DEF n
  <2>1. \A i \in 0..n : after[i] = IF i = 0 THEN {} ELSE CommitTo(after[i - 1], list[i], i)
    BY <1>5
  <2>2. after[0] = {}
    BY <1>1, <2>1
  <2>3. ASSUME NEW i \in 1..n PROVE after[i] = CommitTo(after[i - 1], list[i], i)
    <3>1. i \in 0..n /\ i # 0
      BY <1>1
    <3> QED
      BY <2>1, <3>1
  <2> QED
    BY <2>2, <2>3
<1>7. \A i \in 0..n : after[i] \in Contents
  <2>1. after[0] \in Contents
    BY <1>6 DEF Contents
  <2>2. ASSUME NEW i \in 1..n, after[i - 1] \in Contents PROVE after[i] \in Contents
    BY <1>1, <1>6, <2>2, CommitType
  <2> HIDE DEF n
  <2> QED
    BY <1>1, <2>1, <2>2, RunStays
<1>8. after \in [0..n -> Contents]
  <2> HIDE DEF n
  <2> QED BY <1>5, <1>7
<1>9. ContentAfter(list, m) = after[n]
  BY DEF ContentAfter, after
<1> QED
  <2> HIDE DEF n
  <2>1. \E g \in [0..n -> Contents] :
           /\ g[0] = {}
           /\ \A i \in 1..n : g[i] = CommitTo(g[i - 1], list[i], i)
           /\ ContentAfter(list, m) = g[n]
    BY <1>6, <1>8, <1>9
  <2> QED
    BY <2>1 DEF n

\* The content after some commits depends on these alone.
LEMMA ContentSame ==
  ASSUME NEW list, NEW more, NEW n \in Nat,
         \A i \in 1..n : list[i] \in Replaying /\ more[i] = list[i]
  PROVE  ContentAfter(more, n) = ContentAfter(list, n)
<1> DEFINE step == [i \in 1..n |-> [c \in Contents |-> CommitTo(c, list[i], i)]]
<1>1. PICK f \in [0..n -> Contents] : /\ f[0] = {}
                                      /\ \A i \in 1..n : f[i] = CommitTo(f[i - 1], list[i], i)
                                      /\ ContentAfter(list, n) = f[n]
  BY ContentRun
<1>2. PICK g \in [0..n -> Contents] : /\ g[0] = {}
                                      /\ \A i \in 1..n : g[i] = CommitTo(g[i - 1], more[i], i)
                                      /\ ContentAfter(more, n) = g[n]
  BY ContentRun
<1>3. Runs(f, n, {}, step)
  <2>1. ASSUME NEW i \in 1..n PROVE f[i] = step[i][f[i - 1]]
    <3>1. f[i - 1] \in Contents
      BY <1>1
    <3> QED BY <1>1, <3>1
  <2> QED BY <1>1, <2>1 DEF Runs
<1>4. Runs(g, n, {}, step)
  <2>1. ASSUME NEW i \in 1..n PROVE g[i] = step[i][g[i - 1]]
    <3>1. g[i - 1] \in Contents
      BY <1>2
    <3> QED BY <1>2, <3>1
  <2> QED BY <1>2, <2>1 DEF Runs
<1> HIDE DEF step
<1>5. f[n] = g[n]
  BY <1>3, <1>4, RunUnique
<1> QED
  BY <1>1, <1>2, <1>5

\* One more commit is applied to what the earlier ones made.
LEMMA ContentStep ==
  ASSUME NEW list, NEW n \in Nat, \A i \in 1..(n + 1) : list[i] \in Replaying
  PROVE  ContentAfter(list, n + 1) = CommitTo(ContentAfter(list, n), list[n + 1], n + 1)
<1>1. n + 1 \in Nat /\ \A i \in 1..n : list[i] \in Replaying
  OBVIOUS
<1> DEFINE step == [i \in 1..n |-> [c \in Contents |-> CommitTo(c, list[i], i)]]
<1>2. PICK f \in [0..n -> Contents] : /\ f[0] = {}
                                      /\ \A i \in 1..n : f[i] = CommitTo(f[i - 1], list[i], i)
                                      /\ ContentAfter(list, n) = f[n]
  BY <1>1, ContentRun
<1>3. PICK g \in [0..(n + 1) -> Contents] :
             /\ g[0] = {}
             /\ \A i \in 1..(n + 1) : g[i] = CommitTo(g[i - 1], list[i], i)
             /\ ContentAfter(list, n + 1) = g[n + 1]
  BY <1>1, ContentRun
<1>4. Runs(f, n, {}, step)
  <2>1. ASSUME NEW i \in 1..n PROVE f[i] = step[i][f[i - 1]]
    <3>1. f[i - 1] \in Contents
      BY <1>2
    <3> QED BY <1>2, <3>1
  <2> QED BY <1>2, <2>1 DEF Runs
<1>5. Runs(g, n, {}, step)
  <2>1. ASSUME NEW i \in 1..n PROVE g[i] = step[i][g[i - 1]]
    <3>1. g[i - 1] \in Contents /\ i \in 1..(n + 1)
      BY <1>3
    <3> QED BY <1>3, <3>1
  <2> QED BY <1>3, <2>1 DEF Runs
<1> HIDE DEF step
<1>6. f[n] = g[n]
  BY <1>4, <1>5, RunUnique
<1>7. g[n + 1] = CommitTo(g[n], list[n + 1], n + 1)
  <2>1. n + 1 \in 1..(n + 1) /\ (n + 1) - 1 = n
    OBVIOUS
  <2> QED BY <1>3, <2>1
<1> QED
  BY <1>2, <1>3, <1>6, <1>7

-----------------------------------------------------------------------------
(* The inductive invariant *)

\* Nothing was acknowledged to a transaction that nobody has begun.
UnusedIsEmpty == \A id \in TxnIds : outcome[id] = "unused" => acked[id] = <<>>

\* The map holds what was acknowledged.
BufferIsAcked == \A id \in txns : ops[id] = acked[id]

\* A commit in progress owns its transaction: it is no longer in the map, so that no
\* request and no cleanup can reach it, it has not ended, and the operations that are
\* being replayed are the acknowledged ones.
ReplayOwns ==
  \A w \in Workers : worker[w] # Free =>
    /\ worker[w].id \notin txns
    /\ outcome[worker[w].id] = "open"
    /\ worker[w].ops = acked[worker[w].id]

\* Two workers never replay the same transaction.
ReplayAlone ==
  \A v, w \in Workers :
    worker[v] # Free /\ worker[w] # Free /\ worker[v].id = worker[w].id => v = w

\* An open storage transaction reads the store as some number of the commits left it;
\* in memory it is the only one, and these are all of them.
SnapshotIsCommitted ==
  \A w \in Workers : worker[w].started =>
    /\ worker[w].seen \in 0..Len(committed)
    /\ worker[w].snapshot = ContentAfter(committed, worker[w].seen)
    /\ backend = "memory" => /\ worker[w].seen = Len(committed)
                             /\ \A v \in Workers : worker[v].started => v = w

Inv ==
  /\ TypeOK
  /\ UnusedIsEmpty
  /\ BufferIsAcked
  /\ ReplayOwns
  /\ ReplayAlone
  /\ SnapshotIsCommitted
  /\ AppliesAcknowledged
  /\ StoreIsCommitted

\* An idle worker is told from a busy one by the id alone.
LEMMA BusyWorker ==
  ASSUME TypeOK, NEW w \in Workers, worker[w] # Free
  PROVE  /\ worker[w] \in Replaying /\ worker[w].id \in TxnIds /\ worker[w].ops \in Seq(Ops)
         /\ worker[w].snapshot \in SUBSET Quads /\ worker[w].seen \in Nat
BY DEF TypeOK, Replaying

\* An idle worker has no storage transaction.
LEMMA StartedIsBusy ==
  ASSUME NEW w \in Workers, worker[w].started
  PROVE  worker[w] # Free
BY DEF Free

\* A new transaction in the worker's hands is not the idle record.
LEMMA ReplayingNotFree ==
  ASSUME NEW x \in Replaying
  PROVE  x # Free
BY ConstantsAssumption DEF Replaying, Free

\* The empty store is the effect of no transaction.
LEMMA ContentOfNone == ContentAfter(<<>>, 0) = {}
<1> DEFINE none == <<>>
<1>1. \A i \in 1..0 : none[i] \in Replaying
  OBVIOUS
<1> HIDE DEF none
<1>2. ContentAfter(none, 0) = {}
  BY <1>1, ContentRun
<1> QED
  BY <1>2 DEF none

\* What is said of the store, the commits and the open storage transactions stays true
\* when these stay as they are, and when no other storage transaction is open after.
LEMMA CommitsFrame ==
  ASSUME Inv, UNCHANGED <<backend, store, committed>>,
         \A w \in Workers : worker'[w].started => worker'[w] = worker[w]
  PROVE  SnapshotIsCommitted' /\ StoreIsCommitted'
BY DEF Inv, SnapshotIsCommitted, StoreIsCommitted

\* No transaction has begun in the initial state.
LEMMA InitInv == Init => Inv
<1> SUFFICES ASSUME Init PROVE Inv
  OBVIOUS
<1>1. TypeOK
  BY ConstantsAssumption DEF Init, TypeOK, Outcomes
<1>2. UnusedIsEmpty /\ BufferIsAcked /\ ReplayOwns /\ ReplayAlone
  BY DEF Init, UnusedIsEmpty, BufferIsAcked, ReplayOwns, ReplayAlone, Free
<1>3. AppliesAcknowledged
  BY DEF Init, AppliesAcknowledged
<1>4. SnapshotIsCommitted /\ StoreIsCommitted
  BY ContentOfNone DEF Init, SnapshotIsCommitted, StoreIsCommitted, Free
<1> QED
  BY <1>1, <1>2, <1>3, <1>4 DEF Inv

\* A begin hands out an id that nobody holds.
LEMMA BeginStep ==
  ASSUME Inv, NEW id \in TxnIds, begin(id)
  PROVE  Inv'
<1> USE DEF begin, cleanupVars
<1>1. TypeOK'
  <2>1. txns' \in SUBSET TxnIds /\ idle' \in [TxnIds -> 0..(timeout + 1)]
    BY ConstantsAssumption DEF Inv, TypeOK
  <2>2. ops' \in [TxnIds -> Seq(Ops)] /\ outcome' \in [TxnIds -> Outcomes]
    BY DEF Inv, TypeOK, Outcomes
  <2>3. \A i \in txns' : outcome'[i] = "open"
    BY DEF Inv, TypeOK
  <2> QED
    BY <2>1, <2>2, <2>3 DEF Inv, TypeOK
<1>2. UnusedIsEmpty' /\ BufferIsAcked'
  BY DEF Inv, TypeOK, UnusedIsEmpty, BufferIsAcked
<1>3. ReplayOwns' /\ ReplayAlone'
  BY BusyWorker DEF Inv, TypeOK, ReplayOwns, ReplayAlone
<1>4. AppliesAcknowledged'
  BY DEF Inv, TypeOK, AppliesAcknowledged
<1>5. SnapshotIsCommitted' /\ StoreIsCommitted'
  BY CommitsFrame
<1> QED
  BY <1>1, <1>2, <1>3, <1>4, <1>5 DEF Inv

\* An operation goes to a transaction of the map, which no worker is replaying and
\* which was not committed.
LEMMA PushStep ==
  ASSUME Inv, NEW id \in TxnIds, NEW op \in Ops, Push(id, op)
  PROVE  Inv'
<1> USE DEF Push, cleanupVars
<1>1. TypeOK'
  <2>1. ops' \in [TxnIds -> Seq(Ops)] /\ acked' \in [TxnIds -> Seq(Ops)]
    BY DEF Inv, TypeOK
  <2>2. idle' \in [TxnIds -> 0..(timeout + 1)]
    BY ConstantsAssumption DEF Inv, TypeOK
  <2> QED
    BY <2>1, <2>2 DEF Inv, TypeOK
<1>2. UnusedIsEmpty' /\ BufferIsAcked'
  BY DEF Inv, TypeOK, UnusedIsEmpty, BufferIsAcked
<1>3. ReplayOwns' /\ ReplayAlone'
  BY BusyWorker DEF Inv, TypeOK, ReplayOwns, ReplayAlone
<1>4. AppliesAcknowledged'
  BY DEF Inv, TypeOK, AppliesAcknowledged
<1>5. SnapshotIsCommitted' /\ StoreIsCommitted'
  BY CommitsFrame
<1> QED
  BY <1>1, <1>2, <1>3, <1>4, <1>5 DEF Inv

\* The commit that takes the transaction out of the map is the only one to replay it.
LEMMA BeginCommitStep ==
  ASSUME Inv, NEW w \in Workers, NEW id \in TxnIds, BeginCommit(w, id)
  PROVE  Inv'
<1> USE DEF BeginCommit, cleanupVars, historyVars
<1> DEFINE x == [Free EXCEPT !.id = id, !.ops = ops[id]]
<1>1. x \in Replaying /\ x.id = id /\ x.ops = ops[id] /\ ~x.started
  BY DEF Inv, TypeOK, Replaying, Free
<1>2. worker' = [worker EXCEPT ![w] = x]
  OBVIOUS
<1> HIDE DEF x
<1>3. TypeOK'
  BY <1>1, <1>2 DEF Inv, TypeOK
<1>4. UnusedIsEmpty' /\ BufferIsAcked'
  BY DEF Inv, UnusedIsEmpty, BufferIsAcked
<1>5. ReplayOwns'
  BY <1>1, <1>2 DEF Inv, TypeOK, ReplayOwns, BufferIsAcked
<1>6. ReplayAlone'
  BY <1>1, <1>2 DEF Inv, TypeOK, ReplayOwns, ReplayAlone
<1>7. AppliesAcknowledged'
  BY DEF Inv, AppliesAcknowledged
<1>8. SnapshotIsCommitted' /\ StoreIsCommitted'
  <2>1. \A v \in Workers : worker'[v].started => worker'[v] = worker[v]
    BY <1>1, <1>2 DEF Inv, TypeOK
  <2> QED BY <2>1, CommitsFrame
<1> QED
  BY <1>3, <1>4, <1>5, <1>6, <1>7, <1>8 DEF Inv

\* A storage transaction that starts reads what the commits so far left; in memory no
\* other one is open then.
LEMMA StartTransactionStep ==
  ASSUME Inv, NEW w \in Workers, StartTransaction(w)
  PROVE  Inv'
<1> USE DEF StartTransaction, cleanupVars, historyVars
<1> DEFINE x == [worker[w] EXCEPT !.started = TRUE, !.snapshot = store, !.seen = Len(committed)]
<1>1. worker[w] \in Replaying /\ Len(committed) \in Nat /\ store \in SUBSET Quads
  BY BusyWorker DEF Inv, TypeOK
<1>2. /\ x \in Replaying /\ x.id = worker[w].id /\ x.ops = worker[w].ops
      /\ x.snapshot = store /\ x.seen = Len(committed)
  BY <1>1 DEF Replaying
<1>3. worker' = [worker EXCEPT ![w] = x]
  BY <1>1 DEF Inv, TypeOK, Replaying
<1>4. worker[w] # Free /\ x # Free
  BY <1>2, ReplayingNotFree
<1> HIDE DEF x
<1>5. /\ worker'[w] = x /\ \A v \in Workers \ {w} : worker'[v] = worker[v]
  BY <1>3 DEF Inv, TypeOK
<1>6. TypeOK'
  <2>1. worker' \in [Workers -> Replaying \cup {Free}]
    BY <1>2, <1>3 DEF Inv, TypeOK
  <2>2. UNCHANGED <<txns, ops, idle, backend, store, visiting, expired, acked, outcome, committed>>
    OBVIOUS
  <2> HIDE DEF StartTransaction
  <2> QED BY <2>1, <2>2 DEF Inv, TypeOK
<1>7. UnusedIsEmpty' /\ BufferIsAcked' /\ AppliesAcknowledged'
  BY DEF Inv, UnusedIsEmpty, BufferIsAcked, AppliesAcknowledged
<1>8. ReplayOwns' /\ ReplayAlone'
  <2>1. \A v \in Workers : worker'[v] # Free =>
          /\ worker[v] # Free
          /\ worker'[v].id = worker[v].id /\ worker'[v].ops = worker[v].ops
    BY <1>2, <1>4, <1>5
  <2>2. UNCHANGED <<txns, outcome, acked>>
    OBVIOUS
  <2> HIDE DEF StartTransaction
  <2>3. ReplayOwns'
    BY <2>1, <2>2 DEF Inv, ReplayOwns
  <2>4. ReplayAlone'
    BY <2>1 DEF Inv, ReplayAlone
  <2> QED BY <2>3, <2>4
<1>9. SnapshotIsCommitted'
  <2>1. store = ContentAfter(committed, Len(committed))
    BY DEF Inv, StoreIsCommitted
  <2>2. backend = "memory" => \A v \in Workers : ~worker[v].started
    OBVIOUS
  <2>3. UNCHANGED <<backend, committed>> /\ Len(committed) \in 0..Len(committed)
    BY <1>1
  <2> HIDE DEF StartTransaction
  <2> SUFFICES ASSUME NEW v \in Workers, worker'[v].started
               PROVE  /\ worker'[v].seen \in 0..Len(committed)
                      /\ worker'[v].snapshot = ContentAfter(committed, worker'[v].seen)
                      /\ backend = "memory" => worker'[v].seen = Len(committed) /\ v = w
    BY <2>3 DEF SnapshotIsCommitted
  <2>4. CASE v = w
    BY <1>2, <1>5, <2>1, <2>3, <2>4
  <2>5. CASE v # w
    BY <1>5, <2>2, <2>5 DEF Inv, SnapshotIsCommitted
  <2> QED BY <2>4, <2>5
<1>10. StoreIsCommitted'
  BY DEF Inv, StoreIsCommitted
<1> QED
  BY <1>6, <1>7, <1>8, <1>9, <1>10 DEF Inv

\* Ending a transaction that is open disturbs no committed one.
LEMMA EndsOpen ==
  ASSUME Inv, NEW id \in TxnIds, outcome[id] = "open", NEW how,
         outcome' = [outcome EXCEPT ![id] = how], UNCHANGED <<acked, committed>>
  PROVE  AppliesAcknowledged'
<1>1. ASSUME NEW i \in 1..Len(committed)
      PROVE  outcome'[committed[i].id] = "committed"
  <2>1. committed[i] \in Replaying
    BY DEF Inv, TypeOK
  <2>2. committed[i].id \in TxnIds /\ committed[i].id # id
    BY <2>1 DEF Inv, AppliesAcknowledged, Replaying
  <2> QED
    BY <2>2 DEF Inv, TypeOK, AppliesAcknowledged
<1> QED
  BY <1>1 DEF Inv, AppliesAcknowledged

\* A commit that succeeds applies the acknowledged operations to the store, once.
LEMMA FinishCommitStep ==
  ASSUME Inv, NEW w \in Workers, FinishCommit(w)
  PROVE  Inv'
<1> USE DEF FinishCommit, cleanupVars
<1> DEFINE x == worker[w]
<1>1. /\ x # Free /\ x \in Replaying /\ x.id \in TxnIds /\ x.ops \in Seq(Ops)
      /\ x.snapshot \in Contents /\ Len(x.ops) \in Nat
  BY BusyWorker, StartedIsBusy DEF Inv, Contents
<1>2. x.id \notin txns /\ outcome[x.id] = "open" /\ x.ops = acked[x.id]
  BY <1>1 DEF Inv, ReplayOwns
<1>3. store' = Written(store, Replay(x.snapshot, x.ops)) /\ committed' = Append(committed, x)
  OBVIOUS
<1>4. committed \in Seq(Replaying) /\ store \in Contents
  BY DEF Inv, TypeOK, Contents
<1>5. TypeOK'
  <2>1. store' \in SUBSET Quads
    <3>1. Replay(x.snapshot, x.ops) \in Batch
      BY <1>1, ReplayRun
    <3> QED BY <1>3, <1>4, <3>1, WriteType DEF Contents
  <2>2. committed' \in Seq(Replaying)
    BY <1>1, <1>3, <1>4
  <2>3. worker' \in [Workers -> Replaying \cup {Free}]
    BY DEF Inv, TypeOK
  <2>4. outcome' \in [TxnIds -> Outcomes] /\ \A id \in txns' : outcome'[id] = "open"
    BY <1>1, <1>2 DEF Inv, TypeOK, Outcomes
  <2> QED
    BY <2>1, <2>2, <2>3, <2>4 DEF Inv, TypeOK
<1>6. UnusedIsEmpty' /\ BufferIsAcked'
  BY <1>1 DEF Inv, TypeOK, UnusedIsEmpty, BufferIsAcked
<1>7. ReplayOwns'
  <2> SUFFICES ASSUME NEW v \in Workers, worker'[v] # Free
               PROVE  /\ worker'[v].id \notin txns'
                      /\ outcome'[worker'[v].id] = "open"
                      /\ worker'[v].ops = acked'[worker'[v].id]
    BY DEF ReplayOwns
  <2>1. v # w /\ worker'[v] = worker[v] /\ worker[v] # Free
    <3>1. worker' = [worker EXCEPT ![w] = Free] /\ worker \in [Workers -> Replaying \cup {Free}]
      BY DEF Inv, TypeOK
    <3> HIDE DEF FinishCommit
    <3> QED BY <3>1
  <2>2. worker[v].id # x.id
    BY <1>1, <2>1 DEF Inv, ReplayAlone
  <2>3. worker[v].id \in TxnIds
    BY <2>1, BusyWorker DEF Inv
  <2>4. outcome'[worker[v].id] = outcome[worker[v].id]
    BY <2>2, <2>3 DEF Inv, TypeOK
  <2> QED
    BY <2>1, <2>4 DEF Inv, ReplayOwns
<1>8. ReplayAlone'
  BY DEF Inv, TypeOK, ReplayAlone
<1> HIDE DEF x
<1>9. AppliesAcknowledged'
  <2>1. \A i \in 1..Len(committed) : committed[i] \in Replaying
    BY <1>4
  <2>2. \A i \in 1..Len(committed) : committed[i].id \in TxnIds /\ committed[i].id # x.id
    BY <1>2, <2>1 DEF Inv, AppliesAcknowledged, Replaying
  <2>3. \A y \in TxnIds : outcome'[y] = IF y = x.id THEN "committed" ELSE outcome[y]
    BY DEF Inv, TypeOK, x
  <2>4. Len(committed) \in Nat /\ Len(committed') = Len(committed) + 1
    BY <1>1, <1>3, <1>4
  <2>5. \A i \in 1..Len(committed) : committed'[i] = committed[i]
    BY <1>1, <1>3, <1>4
  <2>6. committed'[Len(committed) + 1] = x
    BY <1>1, <1>3, <1>4
  <2>7. \A i \in 1..Len(committed') : /\ committed'[i].ops = acked'[committed'[i].id]
                                      /\ outcome'[committed'[i].id] = "committed"
    <3> TAKE i \in 1..Len(committed')
    <3>1. CASE i = Len(committed) + 1
      BY <1>1, <1>2, <2>3, <2>6, <3>1
    <3>2. CASE i \in 1..Len(committed)
      BY <2>2, <2>3, <2>5, <3>2 DEF Inv, AppliesAcknowledged
    <3> QED
      BY <2>4, <3>1, <3>2
  <2>8. \A i, j \in 1..Len(committed') : committed'[i].id = committed'[j].id => i = j
    <3> SUFFICES ASSUME NEW i \in 1..Len(committed'), NEW j \in 1..Len(committed'),
                        committed'[i].id = committed'[j].id
                 PROVE  i = j
      OBVIOUS
    <3>1. CASE i \in 1..Len(committed) /\ j \in 1..Len(committed)
      BY <2>5, <3>1 DEF Inv, AppliesAcknowledged
    <3>2. CASE i = Len(committed) + 1 /\ j \in 1..Len(committed)
      BY <2>2, <2>5, <2>6, <3>2
    <3>3. CASE j = Len(committed) + 1 /\ i \in 1..Len(committed)
      BY <2>2, <2>5, <2>6, <3>3
    <3> QED
      BY <2>4, <3>1, <3>2, <3>3
  <2> QED
    BY <2>7, <2>8 DEF AppliesAcknowledged
<1>10. /\ Len(committed) \in Nat /\ Len(committed') = Len(committed) + 1
       /\ \A i \in 1..Len(committed) : committed[i] \in Replaying /\ committed'[i] = committed[i]
       /\ committed'[Len(committed) + 1] = x
  BY <1>1, <1>3, <1>4
<1>11. ASSUME NEW m \in 0..Len(committed)
       PROVE  ContentAfter(committed', m) = ContentAfter(committed, m)
  <2>1. m \in Nat /\ \A i \in 1..m : committed[i] \in Replaying /\ committed'[i] = committed[i]
    BY <1>10
  <2> HIDE DEF FinishCommit
  <2> QED BY <2>1, ContentSame
<1>12. /\ x.seen \in 0..Len(committed) /\ x.snapshot = ContentAfter(committed, x.seen)
       /\ backend = "memory" => /\ x.seen = Len(committed)
                                /\ \A v \in Workers : worker[v].started => v = w
  BY DEF Inv, SnapshotIsCommitted, x
<1>13. store' = ContentAfter(committed', Len(committed'))
  <2>1. store = ContentAfter(committed, Len(committed))
    BY DEF Inv, StoreIsCommitted
  <2>2. ContentAfter(committed', Len(committed) + 1) = CommitTo(store, x, Len(committed) + 1)
    <3>1. \A i \in 1..(Len(committed) + 1) : committed'[i] \in Replaying
      BY <1>1, <1>10
    <3>2. ContentAfter(committed', Len(committed)) = store
      BY <1>10, <1>11, <2>1
    <3> HIDE DEF FinishCommit
    <3> QED BY <1>10, <3>1, <3>2, ContentStep
  <2>3. CASE x.seen = Len(committed) \/ Blind(x.ops)
    <3>1. x.snapshot = store \/ Blind(x.ops)
      BY <1>12, <2>1, <2>3
    <3>2. Written(store, Replay(x.snapshot, x.ops)) = ReplayFrom(store, x.ops)
      BY <1>1, <1>4, <3>1, ReplayIsSerial
    <3>3. CommitTo(store, x, Len(committed) + 1) = ReplayFrom(store, x.ops)
      BY <1>10, <2>3 DEF CommitTo
    <3> QED BY <1>3, <1>10, <2>2, <3>2, <3>3
  <2>4. CASE ~(x.seen = Len(committed) \/ Blind(x.ops))
    <3>1. CommitTo(store, x, Len(committed) + 1) = Written(store, Replay(x.snapshot, x.ops))
      BY <1>10, <2>4 DEF CommitTo
    <3> QED BY <1>3, <1>10, <2>2, <3>1
  <2> QED BY <2>3, <2>4
<1>14. StoreIsCommitted'
  <2> SUFFICES ASSUME NEW i \in 1..Len(committed')
               PROVE  /\ committed'[i].seen \in 0..(i - 1)
                      /\ committed'[i].snapshot = ContentAfter(committed', committed'[i].seen)
                      /\ backend' = "memory" => committed'[i].seen = i - 1
    BY <1>13 DEF StoreIsCommitted
  <2>1. CASE i = Len(committed) + 1
    BY <1>10, <1>11, <1>12, <2>1
  <2>2. CASE i \in 1..Len(committed)
    <3>1. /\ committed[i].seen \in 0..(i - 1)
          /\ committed[i].snapshot = ContentAfter(committed, committed[i].seen)
          /\ backend = "memory" => committed[i].seen = i - 1
      BY <2>2 DEF Inv, StoreIsCommitted
    <3>2. committed[i].seen \in 0..Len(committed)
      BY <1>10, <2>2, <3>1
    <3> QED
      BY <1>10, <1>11, <2>2, <3>1, <3>2
  <2> QED
    BY <1>10, <2>1, <2>2
<1>15. SnapshotIsCommitted'
  <2> SUFFICES ASSUME NEW v \in Workers, worker'[v].started
               PROVE  /\ worker'[v].seen \in 0..Len(committed')
                      /\ worker'[v].snapshot = ContentAfter(committed', worker'[v].seen)
                      /\ backend' # "memory"
    BY DEF SnapshotIsCommitted
  <2>1. v # w /\ worker'[v] = worker[v]
    BY DEF Inv, TypeOK, Free
  <2>2. /\ worker[v].seen \in 0..Len(committed)
        /\ worker[v].snapshot = ContentAfter(committed, worker[v].seen)
    BY <2>1 DEF Inv, SnapshotIsCommitted
  <2> QED
    BY <1>10, <1>11, <1>12, <2>1, <2>2
<1> QED
  BY <1>5, <1>6, <1>7, <1>8, <1>9, <1>14, <1>15 DEF Inv

\* A commit that fails ends the transaction and leaves the store alone.
LEMMA FailCommitStep ==
  ASSUME Inv, NEW w \in Workers, FailCommit(w)
  PROVE  Inv'
<1> USE DEF FailCommit, cleanupVars
<1>1. worker[w].id \in TxnIds
  BY BusyWorker DEF Inv
<1>2. worker[w].id \notin txns /\ outcome[worker[w].id] = "open"
  BY DEF Inv, ReplayOwns
<1>3. TypeOK'
  <2>1. outcome' \in [TxnIds -> Outcomes] /\ \A id \in txns' : outcome'[id] = "open"
    BY <1>1, <1>2 DEF Inv, TypeOK, Outcomes
  <2>2. worker' \in [Workers -> Replaying \cup {Free}]
    BY DEF Inv, TypeOK
  <2> QED
    BY <2>1, <2>2 DEF Inv, TypeOK
<1>4. UnusedIsEmpty' /\ BufferIsAcked'
  BY <1>1 DEF Inv, TypeOK, UnusedIsEmpty, BufferIsAcked
<1>5. ReplayOwns'
  <2> SUFFICES ASSUME NEW v \in Workers, worker'[v] # Free
               PROVE  /\ worker'[v].id \notin txns'
                      /\ outcome'[worker'[v].id] = "open"
                      /\ worker'[v].ops = acked'[worker'[v].id]
    BY DEF ReplayOwns
  <2>1. v # w /\ worker'[v] = worker[v] /\ worker[v] # Free
    BY DEF Inv, TypeOK
  <2>2. worker[v].id # worker[w].id
    BY <2>1 DEF Inv, ReplayAlone
  <2>3. worker[v].id \in TxnIds
    BY <2>1, BusyWorker DEF Inv
  <2>4. outcome'[worker[v].id] = outcome[worker[v].id]
    BY <2>2, <2>3 DEF Inv, TypeOK
  <2> QED
    BY <2>1, <2>4 DEF Inv, ReplayOwns
<1>6. ReplayAlone'
  BY DEF Inv, TypeOK, ReplayAlone
<1>7. AppliesAcknowledged'
  BY <1>1, <1>2, EndsOpen
<1>8. SnapshotIsCommitted' /\ StoreIsCommitted'
  <2>1. \A v \in Workers : worker'[v].started => worker'[v] = worker[v]
    BY DEF Inv, TypeOK, Free
  <2> QED BY <2>1, CommitsFrame
<1> QED
  BY <1>3, <1>4, <1>5, <1>6, <1>7, <1>8 DEF Inv

\* A rollback ends a transaction of the map.
LEMMA RollbackStep ==
  ASSUME Inv, NEW id \in TxnIds, rollback(id)
  PROVE  Inv'
<1> USE DEF rollback, cleanupVars
<1>1. outcome[id] = "open"
  BY DEF Inv, TypeOK
<1>2. TypeOK'
  BY DEF Inv, TypeOK, Outcomes
<1>3. UnusedIsEmpty' /\ BufferIsAcked'
  BY DEF Inv, TypeOK, UnusedIsEmpty, BufferIsAcked
<1>4. ReplayOwns' /\ ReplayAlone'
  BY BusyWorker DEF Inv, TypeOK, ReplayOwns, ReplayAlone
<1>5. AppliesAcknowledged'
  BY <1>1, EndsOpen
<1>6. SnapshotIsCommitted' /\ StoreIsCommitted'
  BY CommitsFrame
<1> QED
  BY <1>2, <1>3, <1>4, <1>5, <1>6 DEF Inv

\* The cleanup ends a transaction only when it finds it in the map.
LEMMA RemoveExpiredStep ==
  ASSUME Inv, NEW id \in TxnIds, RemoveExpired(id)
  PROVE  Inv'
<1> USE DEF RemoveExpired
<1>1. CASE id \in txns
  <2>1. outcome[id] = "open" /\ outcome' = [outcome EXCEPT ![id] = "expired"]
    BY <1>1 DEF Inv, TypeOK
  <2>2. TypeOK'
    BY <2>1 DEF Inv, TypeOK, Outcomes
  <2>3. UnusedIsEmpty' /\ BufferIsAcked'
    BY <2>1 DEF Inv, TypeOK, UnusedIsEmpty, BufferIsAcked
  <2>4. ReplayOwns' /\ ReplayAlone'
    BY <1>1, <2>1, BusyWorker DEF Inv, TypeOK, ReplayOwns, ReplayAlone
  <2>5. AppliesAcknowledged'
    BY <2>1, EndsOpen
  <2>6. SnapshotIsCommitted' /\ StoreIsCommitted'
    BY CommitsFrame
  <2> QED
    BY <2>2, <2>3, <2>4, <2>5, <2>6 DEF Inv
<1>2. CASE id \notin txns
  <2>1. txns' = txns /\ outcome' = outcome
    BY <1>2 DEF Inv, TypeOK
  <2> QED
    BY <2>1 DEF Inv, TypeOK, UnusedIsEmpty, BufferIsAcked, ReplayOwns, ReplayAlone,
                SnapshotIsCommitted, AppliesAcknowledged, StoreIsCommitted
<1> QED
  BY <1>1, <1>2

\* The clock and the first half of the cleanup touch neither the map nor the store.
LEMMA CleanupStep ==
  ASSUME Inv, UNCHANGED <<txns, ops, backend, store, worker, historyVars>>,
         idle' \in [TxnIds -> 0..(timeout + 1)],
         visiting' \in SUBSET TxnIds, expired' \in SUBSET TxnIds
  PROVE  Inv'
BY DEF Inv, TypeOK, UnusedIsEmpty, BufferIsAcked, ReplayOwns, ReplayAlone,
       SnapshotIsCommitted, AppliesAcknowledged, StoreIsCommitted, historyVars

\* Every step preserves the invariant.
LEMMA NextInv == Inv /\ [Next]_vars => Inv'
<1> SUFFICES ASSUME Inv, [Next]_vars PROVE Inv'
  OBVIOUS
<1>1. ASSUME NEW id \in TxnIds, begin(id) \/ rollback(id) PROVE Inv'
  BY <1>1, BeginStep, RollbackStep
<1>2. ASSUME NEW id \in TxnIds, NEW op \in Ops, Push(id, op) PROVE Inv'
  BY <1>2, PushStep
<1>3. ASSUME NEW w \in Workers, NEW id \in TxnIds, BeginCommit(w, id) PROVE Inv'
  BY <1>3, BeginCommitStep
<1>4. ASSUME NEW w \in Workers, StartTransaction(w) \/ FinishCommit(w) \/ FailCommit(w)
      PROVE  Inv'
  BY <1>4, StartTransactionStep, FinishCommitStep, FailCommitStep
<1>5. CASE Tick
  <2>1. idle' \in [TxnIds -> 0..(timeout + 1)]
    BY <1>5, ConstantsAssumption DEF Inv, TypeOK, Tick, Expired
  <2>2. visiting' \in SUBSET TxnIds /\ expired' \in SUBSET TxnIds
    BY <1>5 DEF Inv, TypeOK, Tick, cleanupVars
  <2> QED
    BY <1>5, <2>1, <2>2, CleanupStep DEF Tick
<1>6. CASE BeginCleanup
  <2>1. /\ idle' \in [TxnIds -> 0..(timeout + 1)]
        /\ visiting' \in SUBSET TxnIds /\ expired' \in SUBSET TxnIds
    BY <1>6 DEF Inv, TypeOK, BeginCleanup
  <2> QED
    BY <1>6, <2>1, CleanupStep DEF BeginCleanup
<1>7. ASSUME NEW id \in TxnIds, VisitEntry(id) PROVE Inv'
  <2>1. /\ idle' \in [TxnIds -> 0..(timeout + 1)]
        /\ visiting' \in SUBSET TxnIds /\ expired' \in SUBSET TxnIds
    BY <1>7 DEF Inv, TypeOK, VisitEntry
  <2> QED
    BY <1>7, <2>1, CleanupStep DEF VisitEntry
<1>8. ASSUME NEW id \in TxnIds, RemoveExpired(id) PROVE Inv'
  BY <1>8, RemoveExpiredStep
<1>9. CASE UNCHANGED vars
  BY <1>9 DEF vars, Inv, TypeOK, UnusedIsEmpty, BufferIsAcked, ReplayOwns, ReplayAlone,
              SnapshotIsCommitted, AppliesAcknowledged, StoreIsCommitted
<1> QED
  BY <1>1, <1>2, <1>3, <1>4, <1>5, <1>6, <1>7, <1>8, <1>9
  DEF Next, Requests, commit, cleanup_expired

-----------------------------------------------------------------------------
(* The theorems *)

\* In every reachable state the map holds the open transactions as acknowledged, and
\* a commit in progress is the only owner of its transaction.
THEOREM Invariance == Spec => []Inv
BY InitInv, NextInv, PTL DEF Spec

\* Whatever requests, commits and cleanups race for a transaction, a commit applies
\* exactly the operations that were acknowledged, once.
THEOREM CommitsAcknowledged == Spec => []AppliesAcknowledged
<1>1. Inv => AppliesAcknowledged
  BY DEF Inv
<1> QED
  BY <1>1, Invariance, PTL

\* The store is always the effect of the committed transactions, in commit order, for
\* any number of transactions of any length: serial, but for the updates of commits that
\* overlap another one outside memory, which see a store that some commits left.
THEOREM StoreHoldsCommitted == Spec => []StoreIsCommitted
<1>1. Inv => StoreIsCommitted
  BY DEF Inv
<1> QED
  BY <1>1, Invariance, PTL
=============================================================================
