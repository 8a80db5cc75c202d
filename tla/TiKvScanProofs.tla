--------------------------- MODULE TiKvScanProofs ---------------------------
(***************************************************************************)
(* Scans, for keys and bytes of any size.  The range of a prefix in the    *)
(* TiKV storage holds the keys with the prefix and no other, and the next  *)
(* batch starts right after the last key.  The range of scan_prefix in the *)
(* RocksDB storage holds them, and others when the prefix ends in the      *)
(* largest byte.  A scan in batches then misses nothing, repeats nothing   *)
(* and, in one transaction, shows one state.                               *)
(***************************************************************************)
EXTENDS TiKvScan, WellFoundedInduction, FiniteSetTheorems, TLAPS

\* The provers, and their time limits in seconds, that the steps are tried with.
USE ZenonT(5), SMTT(20), ZenonT(20), SMTT(60)

-----------------------------------------------------------------------------
(* The bounds of the TiKV storage *)

\* A set of numbers that is not empty has a least element.
LEMMA Least ==
  ASSUME NEW S \in SUBSET Nat, S # {}
  PROVE  \E n \in S : \A m \in S : n <= m
<1> DEFINE R == OpToRel(<, Nat)
<1>1. IsWellFoundedOn(R, Nat)
  BY NatLessThanWellFounded
<1>2. \A m, n \in Nat : <<m, n>> \in R <=> m < n
  BY DEF OpToRel
<1> HIDE DEF R
<1>3. PICK n \in S : \A m \in S : <<m, n>> \notin R
  BY <1>1, WFMin
<1>4. \A m \in S : ~(m < n)
  BY <1>2, <1>3
<1> QED
  BY <1>4

\* Two keys differ at a first place, or one has the other as its prefix.
LEMMA FirstDifference ==
  ASSUME NEW p \in Seq(Bytes), NEW k \in Seq(Bytes), ~HasPrefix(p, k)
  PROVE  \E d \in 1..Len(p) :
           /\ d <= Len(k) + 1
           /\ \A j \in 1..(d - 1) : k[j] = p[j]
           /\ d <= Len(k) => k[d] # p[d]
<1> DEFINE S == {d \in 1..Len(p) : d > Len(k) \/ k[d] # p[d]}
<1>1. S \in SUBSET Nat /\ S # {}
  <2>1. CASE Len(p) > Len(k)
    <3>1. Len(p) \in S
      BY <2>1
    <3> QED BY <3>1
  <2>2. CASE Len(p) <= Len(k)
    BY <2>2 DEF HasPrefix
  <2> QED BY <2>1, <2>2
<1>2. PICK d \in S : \A m \in S : d <= m
  BY <1>1, Least
<1>3. ASSUME NEW j \in 1..(d - 1) PROVE j <= Len(k) /\ k[j] = p[j]
  BY <1>2
<1>4. d <= Len(k) + 1
  <2>1. CASE d = 1
    BY <2>1
  <2>2. CASE d # 1
    <3>1. d - 1 \in 1..(d - 1)
      BY <2>2
    <3> QED BY <1>3, <3>1
  <2> QED BY <2>1, <2>2
<1> QED
  BY <1>2, <1>3, <1>4

\* The last place of a prefix whose byte can be incremented exists, if any can.
LEMMA LastPlace ==
  ASSUME NEW p \in Seq(Bytes), NEW P, P = {i \in 1..Len(p) : p[i] < MaxByte}, P # {}
  PROVE  LET last == CHOOSE i \in P : \A j \in P : j <= i
         IN  last \in P /\ \A j \in P : j <= last
<1> DEFINE S == {n \in Nat : Len(p) - n \in P}
<1>1. S \in SUBSET Nat /\ S # {}
  <2>1. PICK i \in P : TRUE
    OBVIOUS
  <2>2. Len(p) - i \in S
    BY <2>1
  <2> QED BY <2>2
<1>2. PICK n \in S : \A m \in S : n <= m
  BY <1>1, Least
<1>3. \A j \in P : Len(p) - j \in S
  OBVIOUS
<1>4. ASSUME NEW j \in P PROVE j <= Len(p) - n
  <2>1. n <= Len(p) - j
    BY <1>2, <1>3
  <2>2. n \in Nat /\ j \in Int /\ Len(p) \in Int
    OBVIOUS
  <2> QED BY <2>1, <2>2
<1> QED
  BY <1>2, <1>4

\* The range that prefix_range builds holds exactly the keys with the prefix,
\* whatever the prefix, largest bytes at its end included.
THEOREM PrefixRange ==
  ASSUME NEW p \in Seq(Bytes), NEW k \in Seq(Bytes)
  PROVE  BoundRange(p, prefix_upper_bound(p), k) <=> HasPrefix(p, k)
<1> DEFINE P == {i \in 1..Len(p) : p[i] < MaxByte}
           last == CHOOSE i \in P : \A j \in P : j <= i
           U == [j \in 1..last |-> IF j = last THEN p[j] + 1 ELSE p[j]]
<1>1. P # {} => last \in P /\ \A j \in P : j <= last
  BY LastPlace
<1>2. prefix_upper_bound(p) = IF P = {} THEN Unbounded ELSE U
  BY DEF prefix_upper_bound
<1> HIDE DEF last
<1>3. P # {} => /\ last \in 1..Len(p) /\ p[last] < MaxByte
                /\ Len(U) = last /\ U # Unbounded
                /\ \A j \in 1..last : U[j] = IF j = last THEN p[j] + 1 ELSE p[j]
                /\ \A j \in 1..Len(p) : j > last => p[j] = MaxByte
  <2> SUFFICES ASSUME P # {}
      PROVE  /\ last \in 1..Len(p) /\ p[last] < MaxByte
             /\ Len(U) = last /\ U # Unbounded
             /\ \A j \in 1..last : U[j] = IF j = last THEN p[j] + 1 ELSE p[j]
             /\ \A j \in 1..Len(p) : j > last => p[j] = MaxByte
    OBVIOUS
  <2>1. last \in 1..Len(p) /\ p[last] < MaxByte
    BY <1>1
  <2>2. U \in Seq(Int) /\ Len(U) = last
    BY <2>1, MaxByteAssumption DEF Bytes
  <2>3. U # Unbounded
    BY <2>1, <2>2 DEF Unbounded
  <2>4. ASSUME NEW j \in 1..Len(p), j > last PROVE p[j] = MaxByte
    <3>1. j \notin P
      BY <1>1, <2>1, <2>4
    <3>2. p[j] \in Bytes
      OBVIOUS
    <3> QED BY <3>1, <3>2, MaxByteAssumption DEF Bytes
  <2> QED BY <2>1, <2>2, <2>3, <2>4
<1> HIDE DEF U
<1>4. ASSUME HasPrefix(p, k) PROVE BoundRange(p, prefix_upper_bound(p), k)
  <2>1. ~KeyLess(k, p)
    BY <1>4, MaxByteAssumption DEF HasPrefix, KeyLess, Bytes
  <2>2. CASE P = {}
    BY <1>2, <2>1, <2>2 DEF BoundRange
  <2>3. CASE P # {}
    <3>1. /\ last \in 1..Len(U) /\ last <= Len(k)
          /\ \A j \in 1..(last - 1) : k[j] = U[j]
          /\ k[last] < U[last]
      <4>1. last \in 1..Len(p) /\ Len(U) = last /\ Len(p) <= Len(k)
        BY <1>3, <1>4, <2>3 DEF HasPrefix
      <4>2. \A j \in 1..last : U[j] = IF j = last THEN p[j] + 1 ELSE p[j]
        BY <1>3, <2>3
      <4>3. \A j \in 1..last : k[j] = p[j]
        BY <1>4, <4>1 DEF HasPrefix
      <4>4. \A j \in 1..(last - 1) : k[j] = U[j]
        BY <4>1, <4>2, <4>3
      <4>5. U[last] = p[last] + 1 /\ k[last] = p[last] /\ p[last] \in Int
        BY <4>1, <4>2, <4>3, MaxByteAssumption DEF Bytes
      <4> QED
        BY <4>1, <4>4, <4>5
    <3>2. KeyLess(k, U)
      BY <3>1 DEF KeyLess
    <3> QED BY <1>2, <2>1, <2>3, <3>2 DEF BoundRange
  <2> QED BY <2>2, <2>3
<1>5. ASSUME BoundRange(p, prefix_upper_bound(p), k), ~HasPrefix(p, k) PROVE FALSE
  <2>1. PICK d \in 1..Len(p) : /\ d <= Len(k) + 1
                               /\ \A j \in 1..(d - 1) : k[j] = p[j]
                               /\ d <= Len(k) => k[d] # p[d]
    BY <1>5, FirstDifference
  <2>2. ~KeyLess(k, p)
    BY <1>5 DEF BoundRange
  <2>3. d <= Len(k) /\ ~(k[d] < p[d])
    BY <2>1, <2>2 DEF KeyLess
  <2>4. k[d] \in Bytes /\ p[d] \in Bytes
    BY <2>3
  <2>5. k[d] > p[d] /\ p[d] < MaxByte
    BY <2>1, <2>3, <2>4, MaxByteAssumption DEF Bytes
  <2>6. P # {} /\ d <= last
    BY <1>1, <2>5
  <2>7. KeyLess(k, U)
    BY <1>2, <1>3, <1>5, <2>6 DEF BoundRange
  <2>8. PICK i \in 1..Len(U) : /\ i <= Len(k) + 1
                               /\ \A j \in 1..(i - 1) : k[j] = U[j]
                               /\ i <= Len(k) => k[i] < U[i]
    BY <2>7 DEF KeyLess
  <2>9. i \in 1..last /\ last \in Nat
    <3>1. last \in 1..Len(p) /\ Len(U) = last
      BY <1>3, <2>6
    <3> QED
      BY <3>1
  <2>10. CASE i < d
    <3>1. U[i] = p[i] /\ k[i] = p[i] /\ i <= Len(k) /\ k[i] \in Int
      <4>1. i # last /\ i \in 1..last /\ i \in 1..(d - 1) /\ i \in 1..Len(k)
        BY <2>3, <2>6, <2>9, <2>10
      <4>2. U[i] = p[i]
        BY <1>3, <2>6, <4>1
      <4>3. k[i] = p[i]
        BY <2>1, <4>1
      <4>4. k[i] \in Int
        BY <4>1, MaxByteAssumption DEF Bytes
      <4> QED
        BY <4>1, <4>2, <4>3, <4>4
    <3> QED BY <2>8, <3>1
  <2>11. CASE i = d
    <3>1. k[d] < U[d]
      BY <2>3, <2>8, <2>11
    <3>2. U[d] = p[d] \/ U[d] = p[d] + 1
      BY <1>3, <2>6, <2>9, <2>11
    <3> QED BY <2>4, <2>5, <3>1, <3>2, MaxByteAssumption DEF Bytes
  <2>12. CASE i > d
    <3>1. k[d] = U[d] /\ d < last
      BY <2>1, <2>8, <2>9, <2>12
    <3>2. U[d] = p[d]
      BY <1>3, <2>1, <2>6, <3>1, <2>9
    <3> QED BY <2>1, <2>3, <3>1, <3>2
  <2> QED BY <2>9, <2>10, <2>11, <2>12
<1> QED
  BY <1>4, <1>5

\* Appending a zero byte to the last key of a batch skips that key and no other: a
\* key is in the rest of the range exactly when it is larger.
THEOREM NextStart ==
  ASSUME NEW a \in Seq(Bytes), NEW k \in Seq(Bytes)
  PROVE  ~KeyLess(k, next_start(a)) <=> KeyLess(a, k)
<1> DEFINE b == next_start(a)
<1>1. /\ b \in Seq(Bytes) /\ Len(b) = Len(a) + 1 /\ b[Len(a) + 1] = 0
      /\ \A j \in 1..Len(a) : b[j] = a[j]
  BY MaxByteAssumption DEF next_start, Bytes
<1> HIDE DEF b
<1>2. \A j \in 1..Len(k) : k[j] \in Int /\ k[j] >= 0
  BY MaxByteAssumption DEF Bytes
<1>3. ASSUME KeyLess(a, k), KeyLess(k, b) PROVE FALSE
  <2>1. PICK i \in 1..Len(k) : /\ i <= Len(a) + 1
                               /\ \A j \in 1..(i - 1) : a[j] = k[j]
                               /\ i <= Len(a) => a[i] < k[i]
    BY <1>3 DEF KeyLess
  <2>2. PICK m \in 1..Len(b) : /\ m <= Len(k) + 1
                               /\ \A j \in 1..(m - 1) : k[j] = b[j]
                               /\ m <= Len(k) => k[m] < b[m]
    BY <1>3 DEF KeyLess
  <2>3. \A j \in 1..Len(a) : a[j] \in Int
    BY MaxByteAssumption DEF Bytes
  <2>4. CASE m < i
    <3>1. m \in 1..(i - 1) /\ m \in 1..Len(a) /\ m \in 1..Len(k)
      BY <2>1, <2>4
    <3>2. a[m] = k[m] /\ b[m] = a[m] /\ k[m] < b[m]
      BY <1>1, <2>1, <2>2, <3>1
    <3> QED BY <2>3, <3>1, <3>2
  <2>5. CASE m = i
    <3>1. k[i] < b[i]
      BY <2>1, <2>2, <2>5
    <3>2. CASE i = Len(a) + 1
      BY <1>1, <1>2, <2>1, <3>1, <3>2
    <3>3. CASE i <= Len(a)
      <4>1. b[i] = a[i] /\ a[i] < k[i] /\ a[i] \in Int /\ k[i] \in Int
        BY <1>1, <1>2, <2>1, <2>3, <3>3
      <4> QED BY <3>1, <4>1
    <3> QED BY <2>1, <3>2, <3>3
  <2>6. CASE m > i
    <3>1. i \in 1..(m - 1) /\ i \in 1..Len(a) /\ i \in 1..Len(k)
      BY <1>1, <2>1, <2>2, <2>6
    <3>2. k[i] = b[i] /\ b[i] = a[i] /\ a[i] < k[i]
      BY <1>1, <2>1, <2>2, <3>1
    <3> QED BY <2>3, <3>1, <3>2
  <2> QED BY <2>1, <2>2, <2>4, <2>5, <2>6
<1>4. ASSUME ~KeyLess(k, b), ~KeyLess(a, k) PROVE FALSE
  <2>1. CASE HasPrefix(a, k)
    <3>1. Len(k) = Len(a)
      <4>1. CASE Len(k) > Len(a)
        <5>1. /\ Len(a) + 1 \in 1..Len(k)
              /\ \A j \in 1..((Len(a) + 1) - 1) : a[j] = k[j]
          BY <2>1, <4>1 DEF HasPrefix
        <5> QED BY <1>4, <5>1 DEF KeyLess
      <4> QED BY <2>1, <4>1 DEF HasPrefix
    <3>2. /\ Len(k) + 1 \in 1..Len(b)
          /\ \A j \in 1..((Len(k) + 1) - 1) : k[j] = b[j]
      BY <1>1, <2>1, <3>1 DEF HasPrefix
    <3> QED BY <1>4, <3>2 DEF KeyLess
  <2>2. CASE ~HasPrefix(a, k)
    <3>1. PICK d \in 1..Len(a) : /\ d <= Len(k) + 1
                                 /\ \A j \in 1..(d - 1) : k[j] = a[j]
                                 /\ d <= Len(k) => k[d] # a[d]
      BY <2>2, FirstDifference
    <3>2. /\ d \in 1..Len(b) /\ b[d] = a[d] /\ a[d] \in Int
          /\ \A j \in 1..(d - 1) : k[j] = b[j]
      <4>1. d \in 1..Len(b) /\ b[d] = a[d]
        BY <1>1, <3>1
      <4>2. a[d] \in Int
        BY <3>1, MaxByteAssumption DEF Bytes
      <4>3. ASSUME NEW j \in 1..(d - 1) PROVE k[j] = b[j]
        <5>1. j \in 1..Len(a)
          BY <3>1
        <5> QED BY <1>1, <3>1, <5>1
      <4> QED BY <4>1, <4>2, <4>3
    <3>3. d <= Len(k) /\ ~(k[d] < b[d])
      BY <1>4, <3>1, <3>2 DEF KeyLess
    <3>4. a[d] < k[d]
      BY <1>2, <3>1, <3>2, <3>3
    <3>5. d \in 1..Len(k) /\ d <= Len(a) + 1 /\ \A j \in 1..(d - 1) : a[j] = k[j]
      BY <3>1, <3>3
    <3> QED BY <1>4, <3>4, <3>5 DEF KeyLess
  <2> QED BY <2>1, <2>2
<1> QED
  BY <1>3, <1>4 DEF b

-----------------------------------------------------------------------------
(* The bounds of the RocksDB storage *)

\* No key with the prefix is outside the bounds of scan_prefix: a scan misses nothing.
THEOREM ScanCoversPrefix ==
  ASSUME NEW p \in Seq(Bytes), NEW k \in Seq(Bytes), HasPrefix(p, k)
  PROVE  BoundRange(p, upper_bound(p), k)
<1> DEFINE P == {i \in 1..Len(p) : p[i] < MaxByte}
           last == CHOOSE i \in P : \A j \in P : j <= i
           U == [j \in 1..Len(p) |-> IF j = last THEN p[j] + 1 ELSE p[j]]
<1>1. P # {} => last \in P
  BY LastPlace
<1>2. upper_bound(p) = IF P = {} THEN Unbounded ELSE U
  BY DEF upper_bound
<1> HIDE DEF last
<1>3. ~KeyLess(k, p)
  BY MaxByteAssumption DEF HasPrefix, KeyLess, Bytes
<1>4. CASE P = {}
  BY <1>2, <1>3, <1>4 DEF BoundRange
<1>5. CASE P # {}
  <2>1. last \in 1..Len(p) /\ Len(p) <= Len(k) /\ \A j \in 1..Len(p) : k[j] = p[j]
    BY <1>1, <1>5 DEF HasPrefix
  <2>2. \A j \in 1..Len(p) : p[j] \in Int
    BY MaxByteAssumption DEF Bytes
  <2>3. U \in Seq(Int) /\ Len(U) = Len(p)
    BY <2>2
  <2>4. k[last] < U[last] /\ \A j \in 1..(last - 1) : k[j] = U[j]
    BY <2>1, <2>2
  <2>5. last \in 1..Len(k) /\ last \in 1..Len(U)
    BY <2>1, <2>3
  <2>6. KeyLess(k, U)
    <3>1. last \in Int /\ Len(k) \in Nat /\ last <= Len(k) + 1
      BY <2>5
    <3>2. \A j \in 1..(last - 1) : k[j] = U[j]
      BY <2>4
    <3> QED BY <2>4, <2>5, <3>1, <3>2 DEF KeyLess
  <2> QED BY <1>2, <1>3, <1>5, <2>6 DEF BoundRange
<1> QED BY <1>4, <1>5

\* When the last byte of the prefix can be incremented, scan_prefix is exact: the bound
\* is that of a prefix range.
THEOREM ScanIsExact ==
  ASSUME NEW p \in Seq(Bytes), NEW k \in Seq(Bytes), p # <<>>, p[Len(p)] < MaxByte
  PROVE  BoundRange(p, upper_bound(p), k) <=> HasPrefix(p, k)
<1> DEFINE P == {i \in 1..Len(p) : p[i] < MaxByte}
           last == CHOOSE i \in P : \A j \in P : j <= i
<1>1. Len(p) \in P
  OBVIOUS
<1>2. last \in P /\ \A j \in P : j <= last
  BY <1>1, LastPlace
<1> HIDE DEF last
<1>3. last = Len(p)
  <2>1. last \in 1..Len(p) /\ Len(p) <= last
    BY <1>1, <1>2
  <2> QED BY <2>1
<1>4. upper_bound(p) = prefix_upper_bound(p)
  BY <1>1, <1>3 DEF upper_bound, prefix_upper_bound, last
<1> QED BY <1>4, PrefixRange

\* When it cannot, keys without the prefix get through: incrementing the byte before it
\* and leaving the last one small makes such a key.
THEOREM ScanIsWide ==
  ASSUME NEW p \in Seq(Bytes), NEW b \in Bytes, b < MaxByte, p # <<>>,
         p[Len(p)] < MaxByte
  PROVE  LET q == Append(p, MaxByte)
             k == Append([p EXCEPT ![Len(p)] = @ + 1], b)
         IN  BoundRange(q, upper_bound(q), k) /\ ~HasPrefix(q, k)
<1> DEFINE n == Len(p)
           q == Append(p, MaxByte)
           u == [p EXCEPT ![n] = @ + 1]
           k == Append(u, b)
           P == {i \in 1..Len(q) : q[i] < MaxByte}
           last == CHOOSE i \in P : \A j \in P : j <= i
           U == [j \in 1..Len(q) |-> IF j = last THEN q[j] + 1 ELSE q[j]]
<1>1. n \in Nat \ {0} /\ p[n] \in Nat /\ b \in Nat /\ MaxByte \in Nat
  BY MaxByteAssumption DEF Bytes
<1>2. q \in Seq(Bytes) /\ Len(q) = n + 1 /\ q[n + 1] = MaxByte
      /\ \A j \in 1..n : q[j] = p[j]
  BY <1>1, MaxByteAssumption DEF Bytes
<1>3. u \in Seq(Bytes) /\ Len(u) = n /\ u[n] = p[n] + 1 /\ \A j \in 1..(n - 1) : u[j] = p[j]
  BY <1>1, MaxByteAssumption DEF Bytes
<1> HIDE DEF u
<1>4. k \in Seq(Bytes) /\ Len(k) = n + 1 /\ k[n + 1] = b /\ k[n] = p[n] + 1
      /\ \A j \in 1..(n - 1) : k[j] = p[j]
  <2>1. /\ k \in Seq(Bytes) /\ Len(k) = n + 1 /\ k[n + 1] = b
        /\ \A j \in 1..n : k[j] = u[j]
    BY <1>1, <1>3
  <2> QED BY <1>1, <1>3, <2>1
<1> HIDE DEF q, k
<1>5. n \in P
  BY <1>1, <1>2
<1>6. last \in P /\ \A j \in P : j <= last
  BY <1>2, <1>5, LastPlace
<1> HIDE DEF last
<1>7. last = n
  <2>1. last \in 1..(n + 1) /\ n <= last /\ q[last] < MaxByte
    BY <1>2, <1>5, <1>6
  <2>2. last # n + 1
    BY <1>1, <1>2, <2>1
  <2> QED BY <1>1, <2>1, <2>2
<1>8. upper_bound(q) = U
  BY <1>5 DEF upper_bound, last
<1>9. Len(U) = n + 1 /\ U[n + 1] = MaxByte /\ U[n] = p[n] + 1
      /\ \A j \in 1..(n - 1) : U[j] = p[j]
  BY <1>1, <1>2, <1>7
<1>10. U \in Seq(Nat)
  BY <1>1, <1>2, <1>7, MaxByteAssumption DEF Bytes
<1> HIDE DEF U
<1>11. KeyLess(k, U)
  <2>1. n + 1 \in 1..Len(U) /\ n + 1 <= Len(k) + 1 /\ k[n + 1] < U[n + 1]
    BY <1>1, <1>4, <1>9
  <2>2. \A j \in 1..((n + 1) - 1) : k[j] = U[j]
    BY <1>1, <1>4, <1>9
  <2> QED BY <2>1, <2>2 DEF KeyLess
<1>12. ~KeyLess(k, q)
  <2> SUFFICES ASSUME NEW i \in 1..Len(q), \A j \in 1..(i - 1) : k[j] = q[j],
                      i <= Len(k) => k[i] < q[i]
               PROVE  FALSE
    BY DEF KeyLess
  <2>1. CASE i < n
    <3>1. i \in 1..(n - 1) /\ i \in 1..n /\ i <= Len(k)
      BY <1>1, <1>4, <2>1
    <3>2. k[i] = p[i] /\ q[i] = p[i]
      BY <1>2, <1>4, <3>1
    <3>3. p[i] \in Int
      BY <3>1, MaxByteAssumption DEF Bytes
    <3> QED BY <3>1, <3>2, <3>3
  <2>2. CASE i = n
    BY <1>1, <1>2, <1>4, <2>2
  <2>3. CASE i = n + 1
    BY <1>1, <1>2, <1>4, <2>3
  <2> QED BY <1>1, <1>2, <2>1, <2>2, <2>3
<1>13. ~HasPrefix(q, k)
  BY <1>1, <1>2, <1>4 DEF HasPrefix
<1> QED
  BY <1>8, <1>11, <1>12, <1>13 DEF BoundRange, q, k, u

-----------------------------------------------------------------------------
(* The order of the keys *)

\* A key is made of numbers.
LEMMA ByteAt ==
  ASSUME NEW a \in Seq(Bytes)
  PROVE  Len(a) \in Nat /\ \A n \in 1..Len(a) : a[n] \in Int
BY MaxByteAssumption DEF Bytes

\* No key comes before itself.
LEMMA Irreflexive ==
  ASSUME NEW a \in Seq(Bytes)
  PROVE  ~KeyLess(a, a)
BY MaxByteAssumption DEF KeyLess, Bytes

\* The order of the keys is transitive.
LEMMA Transitive ==
  ASSUME NEW a \in Seq(Bytes), NEW b \in Seq(Bytes), NEW c \in Seq(Bytes),
         KeyLess(a, b), KeyLess(b, c)
  PROVE  KeyLess(a, c)
<1>1. PICK i \in 1..Len(b) : /\ i <= Len(a) + 1 /\ \A n \in 1..(i - 1) : a[n] = b[n]
                             /\ i <= Len(a) => a[i] < b[i]
  BY DEF KeyLess
<1>2. PICK j \in 1..Len(c) : /\ j <= Len(b) + 1 /\ \A n \in 1..(j - 1) : b[n] = c[n]
                             /\ j <= Len(b) => b[j] < c[j]
  BY DEF KeyLess
<1>3. /\ Len(a) \in Nat /\ Len(b) \in Nat /\ Len(c) \in Nat
      /\ \A n \in 1..Len(a) : a[n] \in Int
      /\ \A n \in 1..Len(b) : b[n] \in Int
      /\ \A n \in 1..Len(c) : c[n] \in Int
  BY ByteAt
<1>4. CASE i < j
  <2>1. i \in 1..Len(c) /\ \A n \in 1..(i - 1) : a[n] = c[n]
    BY <1>1, <1>2, <1>3, <1>4
  <2>2. i <= Len(a) => a[i] < c[i]
    BY <1>1, <1>2, <1>3, <1>4
  <2> QED
    BY <1>1, <2>1, <2>2 DEF KeyLess
<1>5. CASE i = j
  <2>1. \A n \in 1..(j - 1) : a[n] = c[n]
    BY <1>1, <1>2, <1>5
  <2>2. j <= Len(a) => a[j] < c[j]
    <3> HAVE j <= Len(a)
    <3>1. /\ a[j] < b[j] /\ b[j] < c[j]
          /\ a[j] \in Int /\ b[j] \in Int /\ c[j] \in Int
      BY <1>1, <1>2, <1>3, <1>5
    <3> QED
      BY <3>1
  <2> QED
    BY <1>1, <1>2, <1>5, <2>1, <2>2 DEF KeyLess
<1>6. CASE j < i
  <2>1. j <= Len(a) + 1 /\ \A n \in 1..(j - 1) : a[n] = c[n]
    BY <1>1, <1>2, <1>3, <1>6
  <2>2. a[j] < c[j]
    BY <1>1, <1>2, <1>3, <1>6
  <2> QED
    BY <2>1, <2>2 DEF KeyLess
<1> QED
  BY <1>3, <1>4, <1>5, <1>6

\* Of two keys one comes first.
LEMMA Total ==
  ASSUME NEW a \in Seq(Bytes), NEW b \in Seq(Bytes), a # b
  PROVE  KeyLess(a, b) \/ KeyLess(b, a)
<1>1. CASE HasPrefix(a, b)
  <2>1. Len(a) # Len(b)
    <3> SUFFICES ASSUME Len(a) = Len(b) PROVE FALSE
      OBVIOUS
    <3>1. \A n \in 1..Len(a) : a[n] = b[n]
      BY <1>1 DEF HasPrefix
    <3>2. a = [n \in 1..Len(a) |-> a[n]] /\ b = [n \in 1..Len(b) |-> b[n]]
      OBVIOUS
    <3> QED
      BY <3>1, <3>2
  <2>2. Len(a) + 1 \in 1..Len(b) /\ \A n \in 1..Len(a) : a[n] = b[n]
    BY <1>1, <2>1 DEF HasPrefix
  <2> QED
    BY <2>2 DEF KeyLess
<1>2. CASE ~HasPrefix(a, b)
  <2>1. PICK d \in 1..Len(a) : /\ d <= Len(b) + 1
                               /\ \A j \in 1..(d - 1) : b[j] = a[j]
                               /\ d <= Len(b) => b[d] # a[d]
    BY <1>2, FirstDifference
  <2>2. CASE d <= Len(b) /\ a[d] < b[d]
    BY <2>1, <2>2 DEF KeyLess
  <2>3. CASE d <= Len(b) => b[d] < a[d]
    BY <2>1, <2>3 DEF KeyLess
  <2>4. d <= Len(b) => a[d] \in Int /\ b[d] \in Int
    BY MaxByteAssumption DEF Bytes
  <2> QED
    BY <2>1, <2>2, <2>3, <2>4
<1> QED
  BY <1>1, <1>2

-----------------------------------------------------------------------------
(* Batches *)

\* The keys that come before k.
Below(S, k) == {l \in S : KeyLess(l, k)}

\* Of two keys, fewer come before the first.
LEMMA FewerBelow ==
  ASSUME NEW S \in SUBSET Seq(Bytes), IsFiniteSet(S), NEW k \in S, NEW l \in S, KeyLess(l, k)
  PROVE  /\ Cardinality(Below(S, l)) \in Nat /\ Cardinality(Below(S, k)) \in Nat
         /\ Cardinality(Below(S, l)) < Cardinality(Below(S, k))
<1>1. Below(S, l) \subseteq Below(S, k)
  BY Transitive DEF Below
<1>2. l \in Below(S, k) /\ l \notin Below(S, l)
  BY Irreflexive DEF Below
<1>3. Below(S, k) \subseteq S
  BY DEF Below
<1>4. IsFiniteSet(Below(S, k)) /\ IsFiniteSet(Below(S, l))
  BY <1>1, <1>3, FS_Subset
<1> QED
  BY <1>1, <1>2, <1>4, FS_Subset, FS_CardinalityType

\* A finite set of keys that is not empty has a first one.
LEMMA Lowest ==
  ASSUME NEW S \in SUBSET Seq(Bytes), IsFiniteSet(S), S # {}
  PROVE  \E k \in S : \A l \in S : ~KeyLess(l, k)
<1> DEFINE N == {Cardinality(Below(S, k)) : k \in S}
<1>1. \A k \in S : Cardinality(Below(S, k)) \in Nat
  <2> TAKE k \in S
  <2>1. Below(S, k) \subseteq S
    BY DEF Below
  <2> QED
    BY <2>1, FS_Subset, FS_CardinalityType
<1>2. N \in SUBSET Nat /\ N # {}
  BY <1>1
<1>3. PICK n \in N : \A m \in N : n <= m
  BY <1>2, Least
<1>4. PICK k \in S : n = Cardinality(Below(S, k))
  BY <1>3
<1>5. ASSUME NEW l \in S, KeyLess(l, k) PROVE FALSE
  <2>1. /\ Cardinality(Below(S, l)) \in Nat /\ n \in Nat
        /\ Cardinality(Below(S, l)) < n /\ n <= Cardinality(Below(S, l))
    BY <1>3, <1>4, <1>5, FewerBelow
  <2> QED
    BY <2>1
<1> QED
  BY <1>5

\* The keys that come after k.
Above(S, k) == {l \in S : KeyLess(k, l)}

\* A finite set of keys that is not empty has a last one.
LEMMA Highest ==
  ASSUME NEW S \in SUBSET Seq(Bytes), IsFiniteSet(S), S # {}
  PROVE  \E k \in S : \A l \in S : ~KeyLess(k, l)
<1> DEFINE N == {Cardinality(Above(S, k)) : k \in S}
<1>1. \A k \in S : IsFiniteSet(Above(S, k)) /\ Cardinality(Above(S, k)) \in Nat
  <2> TAKE k \in S
  <2>1. Above(S, k) \subseteq S
    BY DEF Above
  <2> QED
    BY <2>1, FS_Subset, FS_CardinalityType
<1>2. N \in SUBSET Nat /\ N # {}
  BY <1>1
<1>3. PICK n \in N : \A m \in N : n <= m
  BY <1>2, Least
<1>4. PICK k \in S : n = Cardinality(Above(S, k))
  BY <1>3
<1>5. ASSUME NEW l \in S, KeyLess(k, l) PROVE FALSE
  <2>1. Above(S, l) \subseteq Above(S, k)
    BY <1>5, Transitive DEF Above
  <2>2. l \in Above(S, k) /\ l \notin Above(S, l)
    BY <1>5, Irreflexive DEF Above
  <2>3. Cardinality(Above(S, l)) <= n /\ Cardinality(Above(S, l)) # n
    BY <1>1, <1>4, <2>1, <2>2, FS_Subset
  <2>4. n \in Nat /\ Cardinality(Above(S, l)) \in Nat /\ n <= Cardinality(Above(S, l))
    BY <1>1, <1>3, <1>4
  <2> QED
    BY <2>3, <2>4
<1> QED
  BY <1>5

\* The first n keys of a range: with a key they hold those before it, and when they are
\* fewer than n they are all.
LEMMA BatchFacts ==
  ASSUME NEW R \in SUBSET Seq(Bytes), IsFiniteSet(R), NEW n \in Nat \ {0},
         NEW B, B = {k \in R : Cardinality(Below(R, k)) < n}
  PROVE  /\ IsFiniteSet(B) /\ Cardinality(B) \in Nat
         /\ \A k \in B, l \in R : KeyLess(l, k) => l \in B
         /\ Cardinality(B) <= n
         /\ Cardinality(B) < n => B = R
<1>1. B \subseteq R /\ IsFiniteSet(B) /\ Cardinality(B) \in Nat
  BY FS_Subset, FS_CardinalityType
<1>2. \A k \in R : IsFiniteSet(Below(R, k)) /\ Cardinality(Below(R, k)) \in Nat
  <2> TAKE k \in R
  <2>1. Below(R, k) \subseteq R
    BY DEF Below
  <2> QED
    BY <2>1, FS_Subset, FS_CardinalityType
<1>3. \A k \in B, l \in R : KeyLess(l, k) => l \in B
  <2> SUFFICES ASSUME NEW k \in B, NEW l \in R, KeyLess(l, k) PROVE Cardinality(Below(R, l)) < n
    OBVIOUS
  <2>1. k \in R /\ Cardinality(Below(R, k)) < n
    OBVIOUS
  <2>2. Cardinality(Below(R, l)) < Cardinality(Below(R, k))
    BY <2>1, FewerBelow
  <2> QED
    BY <1>2, <2>1, <2>2
<1>4. Cardinality(B) <= n
  <2>1. CASE B = {}
    <3>1. Cardinality(B) = 0
      BY <2>1, FS_EmptySet
    <3> QED
      BY <3>1
  <2>2. CASE B # {}
    <3>1. PICK k \in B : \A l \in B : ~KeyLess(k, l)
      BY <1>1, <2>2, Highest
    <3>2. B \ {k} \subseteq Below(R, k)
      BY <1>1, <3>1, Total DEF Below
    <3>3. IsFiniteSet(B \ {k}) /\ Cardinality(B \ {k}) = Cardinality(B) - 1
      BY <1>1, FS_RemoveElement
    <3>4. Cardinality(B \ {k}) <= Cardinality(Below(R, k)) /\ Cardinality(Below(R, k)) < n
      BY <1>1, <1>2, <3>2, FS_Subset
    <3> QED
      BY <1>1, <1>2, <3>3, <3>4
  <2> QED
    BY <2>1, <2>2
<1>5. ASSUME Cardinality(B) < n, B # R PROVE FALSE
  <2>1. R \ B \in SUBSET Seq(Bytes) /\ R \ B # {} /\ IsFiniteSet(R \ B)
    BY <1>1, <1>5, FS_Difference
  <2>2. PICK k \in R \ B : \A l \in R \ B : ~KeyLess(l, k)
    BY <2>1, Lowest
  <2>3. Below(R, k) \subseteq B
    BY <2>2 DEF Below
  <2>4. Cardinality(Below(R, k)) <= Cardinality(B)
    BY <1>1, <2>3, FS_Subset
  <2> QED
    BY <1>1, <1>2, <1>5, <2>2, <2>4
<1> QED
  BY <1>1, <1>3, <1>4, <1>5

\* First is the least of a batch, Rest the others.
LEMMA FirstFacts ==
  ASSUME NEW B \in SUBSET Seq(Bytes), IsFiniteSet(B), B # {}
  PROVE  /\ First(B) \in B /\ Rest(B) = B \ {First(B)}
         /\ \A k \in Rest(B) : KeyLess(First(B), k)
<1>1. First(B) \in B /\ \A l \in B : ~KeyLess(l, First(B))
  BY Lowest DEF First
<1>2. \A k \in B : k # First(B) => KeyLess(First(B), k)
  BY <1>1, Total
<1> QED
  BY <1>1, <1>2 DEF Rest

\* Last is the greatest of a batch.
LEMMA LastFacts ==
  ASSUME NEW B \in SUBSET Seq(Bytes), IsFiniteSet(B), B # {}
  PROVE  Last(B) \in B /\ \A l \in B : ~KeyLess(Last(B), l)
BY Highest DEF Last

\* The range of a batch holds the keys of the prefix from the start on, when it starts at
\* the prefix or after one of its keys.
LEMMA RangeFrom ==
  ASSUME NEW p \in Seq(Bytes), NEW k \in Seq(Bytes), NEW s \in Seq(Bytes),
         s = p \/ \E a \in Seq(Bytes) : HasPrefix(p, a) /\ s = next_start(a)
  PROVE  BoundRange(s, prefix_upper_bound(p), k) <=> HasPrefix(p, k) /\ ~KeyLess(k, s)
<1>1. s = p \/ KeyLess(p, s)
  <2> SUFFICES ASSUME NEW a \in Seq(Bytes), HasPrefix(p, a), s = next_start(a)
               PROVE  KeyLess(p, s)
    OBVIOUS
  <2>1. ~KeyLess(a, p)
    BY PrefixRange DEF BoundRange
  <2> QED
    BY <2>1, NextStart
<1>2. ~KeyLess(k, s) => ~KeyLess(k, p)
  BY <1>1, Transitive
<1> QED
  BY <1>2, PrefixRange DEF BoundRange

-----------------------------------------------------------------------------
(* The scan.  The inductive invariant: where an iterator goes on from, what it returned  *)
(* and what it has buffered split the keys of its prefix into those before and those not *)
(* yet seen, and nothing that was there all along is missing among the former.           *)

Wanted(i) == {k \in Keys : InScan(i, k)}
Returned == {delivered[n] : n \in DOMAIN delivered}

\* The iterator has not been asked for anything.
Untouched(i) ==
  /\ start[i] = prefixes[i]
  /\ buffer[i] = {}
  /\ ~exhausted[i]
  /\ Returned \cap Wanted(i) = {}

\* How far the scan is.
Phases ==
  /\ status = "none" => /\ Returned = {}
                        /\ \A i \in Iterators : ~begun[i] /\ ~fetched[i]
                        /\ always = {} /\ ever = {}
  /\ status = "opening" => full /\ Returned = {} /\ \A i \in Iterators : ~begun[i]
  /\ status = "ended" => \A i \in Iterators : Finished(i)
  /\ status # "none" => always \subseteq keys /\ keys \subseteq ever
  /\ \A i \in Iterators : /\ ~begun[i] /\ ~fetched[i] => Untouched(i)
                          /\ ~full => ~fetched[i]

\* What is returned comes before what is buffered, and both before where the next batch
\* starts.
Ordered(i) ==
  /\ start[i] = prefixes[i] \/ \E a \in Wanted(i) : start[i] = next_start(a)
  /\ buffer[i] \subseteq Wanted(i) \cap ever
  /\ \A k \in buffer[i] \cup (Returned \cap Wanted(i)) : KeyLess(k, start[i])
  /\ \A k \in Returned \cap Wanted(i), l \in buffer[i] : KeyLess(k, l)

\* Every key of S that the iterator has passed was returned or is buffered.
Covers(i, S) ==
  \A k \in S \cap Wanted(i) :
    KeyLess(k, start[i]) \/ exhausted[i] => k \in Returned \cup buffer[i]

\* A transaction that was begun sees the keys that stay, and if it is the only one of
\* its iterator all that the iterator returns.
Snapshots(i) ==
  begun[i] =>
    /\ always \subseteq snapshot[i] /\ snapshot[i] \subseteq ever
    /\ ~full => /\ Covers(i, snapshot[i])
                /\ (Returned \cap Wanted(i)) \cup buffer[i] \subseteq snapshot[i]

Once == Cardinality(Returned) = Len(delivered)

Inv ==
  /\ TypeOK
  /\ Phases
  /\ \A i \in Iterators : Ordered(i) /\ Covers(i, always) /\ Snapshots(i)
  /\ Returned \subseteq ever \cap UNION {Wanted(i) : i \in Iterators}
  /\ Once

\* The keys of a scan are byte strings, and no key is in two scans.
LEMMA WantedFacts ==
  ASSUME NEW i \in Iterators
  PROVE  /\ prefixes[i] \in Seq(Bytes)
         /\ Wanted(i) \subseteq Keys /\ Wanted(i) \subseteq Seq(Bytes)
         /\ \A k \in Wanted(i) : HasPrefix(prefixes[i], k) /\ ~KeyLess(k, prefixes[i])
         /\ \A j \in Iterators : j # i => Wanted(i) \cap Wanted(j) = {}
<1>1. prefixes[i] \in Seq(Bytes)
  BY ScanAssumption DEF Iterators
<1>2. Wanted(i) \subseteq Keys /\ Wanted(i) \subseteq Seq(Bytes)
  BY ScanAssumption DEF Wanted
<1>3. \A k \in Wanted(i) : HasPrefix(prefixes[i], k) /\ ~KeyLess(k, prefixes[i])
  <2> TAKE k \in Wanted(i)
  <2>1. HasPrefix(prefixes[i], k)
    BY DEF Wanted, InScan
  <2> QED
    BY <1>1, <1>2, <2>1, PrefixRange DEF BoundRange
<1>4. ASSUME NEW j \in Iterators, j # i, NEW k \in Wanted(i), k \in Wanted(j) PROVE FALSE
  <2>1. HasPrefix(prefixes[i], k) /\ HasPrefix(prefixes[j], k)
    BY <1>4 DEF Wanted, InScan
  <2>2. Len(prefixes[i]) \in Nat /\ Len(prefixes[j]) \in Nat
    BY <1>1, <1>4, ScanAssumption DEF Iterators
  <2>3. HasPrefix(prefixes[i], prefixes[j]) \/ HasPrefix(prefixes[j], prefixes[i])
    BY <2>1, <2>2 DEF HasPrefix
  <2> QED
    BY <1>4, <2>3, ScanAssumption DEF Iterators
<1> QED
  BY <1>1, <1>2, <1>3, <1>4

\* An iterator is not affected by a step that leaves it alone, as long as the keys that
\* were there all along get fewer and those that were ever there more.
LEMMA Kept ==
  ASSUME NEW i \in Iterators, Ordered(i), Covers(i, always), Snapshots(i),
         start'[i] = start[i], buffer'[i] = buffer[i], exhausted'[i] = exhausted[i],
         begun'[i] = begun[i], snapshot'[i] = snapshot[i], full' = full,
         Returned' \cap Wanted(i) = Returned \cap Wanted(i),
         always' \subseteq always, ever \subseteq ever'
  PROVE  /\ Ordered(i)' /\ Covers(i, always)' /\ Snapshots(i)'
         /\ Untouched(i) => Untouched(i)'
<1>1. Ordered(i)'
  BY DEF Ordered
<1>2. Covers(i, always)' /\ \A S : Covers(i, S) => Covers(i, S)'
  BY DEF Covers
<1>3. Snapshots(i)'
  BY <1>2 DEF Snapshots
<1>4. Untouched(i) => Untouched(i)'
  BY DEF Untouched
<1> QED
  BY <1>1, <1>2, <1>3, <1>4

\* The iterator i gets the batch B of the keys that it sees, and goes on at s.
Arrives(seen, i, B, s) ==
  /\ B \subseteq Wanted(i) \cap seen /\ IsFiniteSet(B)
  /\ Cardinality(B) <= batch_size
  /\ s \in Seq(Bytes)
  /\ s = prefixes[i] \/ \E a \in Wanted(i) : s = next_start(a)
  /\ \A k \in B : KeyLess(k, s)
  /\ \A k \in Wanted(i) : KeyLess(k, start[i]) => KeyLess(k, s) /\ \A l \in B : KeyLess(k, l)
  /\ \A k \in seen \cap Wanted(i) :
       KeyLess(k, s) \/ Cardinality(B) < batch_size => KeyLess(k, start[i]) \/ k \in B

\* What a fetch brings an iterator whose buffer is empty.
LEMMA Arrival ==
  ASSUME TypeOK, NEW i \in Iterators, Ordered(i), NEW seen \in SUBSET Keys,
         NEW B, B = Scan(seen, i),
         NEW s, s = IF B = {} THEN start[i] ELSE next_start(Last(B))
  PROVE  Arrives(seen, i, B, s)
<1> DEFINE R == {k \in seen : BoundRange(start[i], prefix_upper_bound(prefixes[i]), k)}
<1>1. start[i] \in Seq(Bytes) /\ Keys \subseteq Seq(Bytes) /\ IsFiniteSet(Keys)
      /\ batch_size \in Nat \ {0}
  BY ScanAssumption DEF TypeOK
<1>2. start[i] = prefixes[i] \/ \E a \in Wanted(i) : start[i] = next_start(a)
  BY DEF Ordered
<1>3. \A k \in seen : k \in R <=> k \in Wanted(i) /\ ~KeyLess(k, start[i])
  <2> TAKE k \in seen
  <2>1. k \in Seq(Bytes) /\ (k \in Wanted(i) <=> HasPrefix(prefixes[i], k))
    BY <1>1 DEF Wanted, InScan
  <2>2. start[i] = prefixes[i]
          \/ \E a \in Seq(Bytes) : HasPrefix(prefixes[i], a) /\ start[i] = next_start(a)
    BY <1>2, WantedFacts
  <2> QED
    BY <1>1, <2>1, <2>2, WantedFacts, RangeFrom
<1>4. R \in SUBSET Seq(Bytes) /\ IsFiniteSet(R)
  BY <1>1, FS_Subset
<1>5. B = {k \in R : Cardinality(Below(R, k)) < batch_size}
  BY DEF Scan, Below
<1> HIDE DEF R
<1>6. /\ IsFiniteSet(B) /\ Cardinality(B) \in Nat
      /\ \A k \in B, l \in R : KeyLess(l, k) => l \in B
      /\ Cardinality(B) <= batch_size
      /\ Cardinality(B) < batch_size => B = R
  BY <1>1, <1>4, <1>5, BatchFacts
<1>7. B \subseteq R /\ R \subseteq seen /\ B \subseteq Wanted(i) \cap seen /\ B \in SUBSET Seq(Bytes)
  BY <1>1, <1>3, <1>5 DEF R
<1>8. B # {} => /\ Last(B) \in B /\ s = next_start(Last(B)) /\ s \in Seq(Bytes)
                /\ \A l \in B : ~KeyLess(Last(B), l)
                /\ \A k \in Seq(Bytes) : KeyLess(k, s) <=> ~KeyLess(Last(B), k)
  <2> HAVE B # {}
  <2>1. Last(B) \in B /\ s = next_start(Last(B)) /\ \A l \in B : ~KeyLess(Last(B), l)
    BY <1>6, <1>7, LastFacts
  <2>2. Last(B) \in Seq(Bytes) /\ 0 \in Bytes
    BY <1>7, <2>1, MaxByteAssumption DEF Bytes
  <2>3. s \in Seq(Bytes)
    BY <2>1, <2>2 DEF next_start
  <2>4. \A k \in Seq(Bytes) : KeyLess(k, s) <=> ~KeyLess(Last(B), k)
    BY <2>1, <2>2, NextStart
  <2> QED
    BY <2>1, <2>3, <2>4
<1>9. \A k \in B : KeyLess(k, s)
  BY <1>7, <1>8
<1>10. ASSUME NEW k \in Wanted(i), KeyLess(k, start[i])
       PROVE  KeyLess(k, s) /\ \A l \in B : KeyLess(k, l)
  <2>1. k \in Seq(Bytes)
    BY WantedFacts
  <2>2. ASSUME NEW l \in B PROVE KeyLess(k, l)
    <3>1. l \in Seq(Bytes) /\ ~KeyLess(l, start[i])
      BY <1>3, <1>7
    <3> QED
      BY <1>1, <1>10, <2>1, <3>1, Total, Transitive
  <2>3. KeyLess(k, s)
    <3>1. CASE B = {}
      BY <1>10, <3>1
    <3>2. CASE B # {}
      BY <1>7, <1>8, <2>1, <2>2, <3>2, Transitive, <1>9
    <3> QED
      BY <3>1, <3>2
  <2> QED
    BY <2>2, <2>3
<1>11. ASSUME NEW k \in seen \cap Wanted(i), KeyLess(k, s) \/ Cardinality(B) < batch_size,
              ~KeyLess(k, start[i])
       PROVE  k \in B
  <2>1. k \in R /\ k \in Seq(Bytes)
    BY <1>3, <1>4, <1>11
  <2>2. CASE Cardinality(B) < batch_size
    BY <1>6, <2>1, <2>2
  <2>3. CASE KeyLess(k, s) /\ Cardinality(B) >= batch_size
    <3>1. B # {}
      BY <1>11, <2>3
    <3>2. ~KeyLess(Last(B), k) /\ Last(B) \in B /\ Last(B) \in Seq(Bytes)
      BY <1>7, <1>8, <2>1, <2>3, <3>1
    <3> QED
      BY <1>6, <2>1, <3>2, Total
  <2> QED
    BY <1>1, <1>6, <1>11, <2>2, <2>3
<1>12. s \in Seq(Bytes) /\ (s = prefixes[i] \/ \E a \in Wanted(i) : s = next_start(a))
  BY <1>1, <1>2, <1>7, <1>8
<1> QED
  <2>1. B \subseteq Wanted(i) \cap seen /\ IsFiniteSet(B) /\ Cardinality(B) <= batch_size
    BY <1>6, <1>7
  <2>2. \A k \in Wanted(i) : KeyLess(k, start[i]) => KeyLess(k, s) /\ \A l \in B : KeyLess(k, l)
    BY <1>10
  <2>3. \A k \in seen \cap Wanted(i) :
          KeyLess(k, s) \/ Cardinality(B) < batch_size => KeyLess(k, start[i]) \/ k \in B
    BY <1>11
  <2> QED BY <1>9, <1>12, <2>1, <2>2, <2>3 DEF Arrives

\* A key that the scan returns is a new one.
LEMMA Delivery ==
  ASSUME Inv, NEW i \in Iterators, NEW k \in Wanted(i) \cap ever, k \notin Returned,
         delivered' = Append(delivered, k), ever' = ever
  PROVE  /\ Returned' = Returned \cup {k}
         /\ delivered' \in Seq(Keys)
         /\ Returned' \subseteq ever' \cap UNION {Wanted(j) : j \in Iterators}
         /\ Once'
         /\ \A j \in Iterators : j # i => Returned' \cap Wanted(j) = Returned \cap Wanted(j)
<1>1. delivered \in Seq(Keys) /\ k \in Keys /\ ever \subseteq Keys
  BY WantedFacts DEF Inv, TypeOK
<1>2. /\ delivered' \in Seq(Keys) /\ Len(delivered') = Len(delivered) + 1
      /\ DOMAIN delivered = 1..Len(delivered) /\ DOMAIN delivered' = 1..(Len(delivered) + 1)
      /\ \A n \in 1..Len(delivered) : delivered'[n] = delivered[n]
      /\ delivered'[Len(delivered) + 1] = k /\ Len(delivered) \in Nat
  BY <1>1
<1>3. Returned' = Returned \cup {k}
  <2>1. ASSUME NEW n \in DOMAIN delivered' PROVE delivered'[n] \in Returned \cup {k}
    BY <1>2, <2>1 DEF Returned
  <2>2. ASSUME NEW n \in DOMAIN delivered PROVE delivered[n] \in Returned'
    <3>1. n \in DOMAIN delivered' /\ delivered'[n] = delivered[n]
      BY <1>2
    <3> QED
      BY <3>1 DEF Returned
  <2>3. k \in Returned'
    <3>1. Len(delivered) + 1 \in DOMAIN delivered'
      BY <1>2
    <3> QED
      BY <1>2, <3>1 DEF Returned
  <2> QED
    BY <2>1, <2>2, <2>3 DEF Returned
<1>4. Returned \subseteq ever /\ Returned \subseteq UNION {Wanted(j) : j \in Iterators} /\ Once
  BY DEF Inv
<1>5. IsFiniteSet(Returned)
  BY <1>1, <1>4, ScanAssumption, FS_Subset
<1>6. Cardinality(Returned \cup {k}) = Cardinality(Returned) + 1
  BY <1>5, FS_AddElement
<1>7. Once'
  BY <1>2, <1>3, <1>4, <1>6 DEF Once
<1>8. \A j \in Iterators : j # i => Returned' \cap Wanted(j) = Returned \cap Wanted(j)
  BY <1>3, WantedFacts
<1> QED
  BY <1>2, <1>3, <1>4, <1>7, <1>8

\* A step that returns nothing and touches no iterator.
LEMMA QuietStep ==
  ASSUME Inv, UNCHANGED <<iterVars, full, delivered>>, keys' \subseteq Keys,
         commits' \in 0..MaxCommits,
         status' \in Statuses, status # "none",
         always' \subseteq always \cap keys', ever' \subseteq Keys, ever \cup keys' \subseteq ever',
         status' \notin {"none", "opening"} \/ status' = status,
         status' = "ended" => \A i \in Iterators : Finished(i)
  PROVE  Inv'
<1>1. Returned' = Returned /\ Once'
  BY DEF Returned, Inv, Once
<1>2. \A i \in Iterators : Finished(i)' <=> Finished(i)
  BY DEF iterVars, Finished
<1>3. \A i \in Iterators : /\ Ordered(i)' /\ Covers(i, always)' /\ Snapshots(i)'
                           /\ Untouched(i) => Untouched(i)'
  BY <1>1, Kept DEF Inv, iterVars
<1>4. TypeOK'
  BY DEF Inv, TypeOK, iterVars
<1>5. Phases'
  BY <1>1, <1>2, <1>3 DEF Inv, Phases, iterVars
<1> QED
  BY <1>1, <1>3, <1>4, <1>5 DEF Inv

\* What others commit leaves the scan as it is.
LEMMA CommitStep == ASSUME Inv, Commit PROVE Inv'
<1>1. /\ status \in {"opening", "open"} /\ UNCHANGED <<status, iterVars, full, delivered>>
      /\ always' = always \cap keys' /\ ever' = ever \cup keys'
  BY DEF Commit
<1>2. keys' \subseteq Keys /\ commits' \in 0..MaxCommits
  BY ScanAssumption DEF Commit, Inv, TypeOK
<1>3. ever' \subseteq Keys /\ status' \in Statuses
  BY <1>1, <1>2 DEF Inv, TypeOK
<1> QED
  BY <1>1, <1>2, <1>3, QuietStep

\* The end of a scan, its failure, and a scan that is over.
LEMMA OverStep == ASSUME Inv, End \/ Fail \/ Drop PROVE Inv'
<1>1. /\ UNCHANGED <<keys, commits, iterVars, full, delivered, always, ever>>
      /\ status # "none" /\ status' \in {"ended", "failed"}
      /\ status' = "ended" => \A i \in Iterators : Finished(i)
  BY DEF End, Fail, Drop, vars, Current, Inv, Phases
<1>2. /\ always \subseteq keys /\ keys \subseteq ever /\ ever \subseteq Keys /\ always \subseteq ever
      /\ commits \in 0..MaxCommits
  BY <1>1 DEF Inv, Phases, TypeOK
<1> QED
  BY <1>1, <1>2, QuietStep DEF Statuses

\* A scan begins with iterators that were not asked for anything.
LEMMA OpenStep ==
  ASSUME Inv, inner_quads \/ quads
  PROVE  Inv'
<1>1. /\ status = "none" /\ UNCHANGED <<keys, commits, iterVars, delivered>>
      /\ always' = keys /\ ever' = keys
      /\ \/ status' = "open" /\ full' = FALSE
         \/ status' = "opening" /\ full' = TRUE
  BY DEF inner_quads, quads, Open
<1>2. Returned' = Returned /\ Returned = {} /\ Once'
  BY <1>1 DEF Returned, Inv, Once, Phases
<1>3. \A i \in Iterators : Untouched(i)' /\ ~begun'[i] /\ ~fetched'[i]
  BY <1>1, <1>2 DEF Inv, Phases, Untouched, iterVars
<1>4. TypeOK'
  BY <1>1 DEF Inv, TypeOK, iterVars, Statuses
<1>5. Phases'
  BY <1>1, <1>2, <1>3 DEF Phases
<1>6. ASSUME NEW i \in Iterators PROVE Ordered(i)' /\ Covers(i, always)' /\ Snapshots(i)'
  <2>1. start'[i] = prefixes[i] /\ buffer'[i] = {} /\ ~exhausted'[i] /\ ~begun'[i]
    BY <1>3 DEF Untouched
  <2>2. Ordered(i)'
    BY <1>2, <2>1 DEF Ordered
  <2>3. Covers(i, always)'
    BY <2>1, WantedFacts DEF Covers
  <2> QED
    BY <2>1, <2>2, <2>3 DEF Snapshots
<1> QED
  BY <1>2, <1>4, <1>5, <1>6 DEF Inv

\* A step of one iterator while the scan is under way leaves the others alone.
LEMMA IteratorStep ==
  ASSUME Inv, TypeOK', NEW i \in Iterators, Ordered(i)', Covers(i, always)', Snapshots(i)',
         \A j \in Iterators : j # i =>
            /\ start'[j] = start[j] /\ buffer'[j] = buffer[j] /\ exhausted'[j] = exhausted[j]
            /\ begun'[j] = begun[j] /\ snapshot'[j] = snapshot[j] /\ fetched'[j] = fetched[j]
            /\ Returned' \cap Wanted(j) = Returned \cap Wanted(j),
         begun'[i] \/ fetched'[i], full \/ ~fetched'[i],
         status \in {"opening", "open"}, status' \in {"opening", "open"},
         status' = "opening" => status = "opening" /\ Returned' = {} /\ ~begun'[i],
         UNCHANGED <<keys, full, always, ever>>,
         Returned' \subseteq ever' \cap UNION {Wanted(j) : j \in Iterators}, Once'
  PROVE  Inv'
<1>1. \A j \in Iterators : j # i => /\ Ordered(j)' /\ Covers(j, always)' /\ Snapshots(j)'
                                    /\ Untouched(j) => Untouched(j)'
  BY Kept DEF Inv
<1>2. Phases'
  BY <1>1 DEF Inv, Phases
<1> QED
  BY <1>1, <1>2 DEF Inv

\* An iterator returns the first of the keys it has buffered.
LEMMA NextBufferedStep ==
  ASSUME Inv, NEW i \in Iterators, NextBuffered(i)
  PROVE  Inv'
<1> DEFINE B == buffer[i]
           k == First(B)
<1>1. /\ status = "open" /\ B # {} /\ delivered' = Append(delivered, k)
      /\ buffer' = [buffer EXCEPT ![i] = Rest(B)]
      /\ UNCHANGED <<keys, commits, status, start, exhausted, fetched, begun, snapshot,
                     full, always, ever>>
  BY DEF NextBuffered, Current
<1>2. TypeOK /\ Ordered(i) /\ Covers(i, always) /\ Snapshots(i)
  BY DEF Inv
<1>3. /\ B \subseteq Wanted(i) \cap ever /\ B \in SUBSET Seq(Bytes) /\ IsFiniteSet(B)
      /\ Cardinality(B) <= batch_size
  <2>1. B \subseteq Wanted(i) \cap ever
    BY <1>2 DEF Ordered
  <2>2. B \subseteq Keys /\ B \in SUBSET Seq(Bytes)
    BY <2>1, WantedFacts
  <2> QED
    BY <1>2, <2>1, <2>2, ScanAssumption, FS_Subset DEF TypeOK
<1>4. k \in B /\ Rest(B) = B \ {k} /\ \A l \in Rest(B) : KeyLess(k, l)
  BY <1>1, <1>3, FirstFacts
<1>5. buffer'[i] = B \ {k} /\ \A j \in Iterators : j # i => buffer'[j] = buffer[j]
  BY <1>1, <1>2, <1>4 DEF TypeOK
<1> HIDE DEF k
<1>6. k \in Wanted(i) \cap ever /\ k \in Seq(Bytes) /\ k \notin Returned
  <2>1. k \in Wanted(i) \cap ever /\ k \in Seq(Bytes)
    BY <1>3, <1>4
  <2>2. k \in Returned => KeyLess(k, k)
    BY <1>2, <1>4, <2>1 DEF Ordered
  <2> QED
    BY <2>1, <2>2, Irreflexive
<1>7. /\ Returned' = Returned \cup {k}
      /\ delivered' \in Seq(Keys)
      /\ Returned' \subseteq ever' \cap UNION {Wanted(j) : j \in Iterators}
      /\ Once'
      /\ \A j \in Iterators : j # i => Returned' \cap Wanted(j) = Returned \cap Wanted(j)
  BY <1>1, <1>6, Delivery
<1>8. TypeOK'
  <2>1. buffer' \in [Iterators -> SUBSET Keys]
    BY <1>1, <1>2, <1>3, <1>4 DEF TypeOK
  <2>2. Cardinality(B \ {k}) <= batch_size
    <3>1. Cardinality(B \ {k}) <= Cardinality(B) /\ IsFiniteSet(B \ {k})
      BY <1>3, FS_Subset
    <3> QED
      BY <1>3, <3>1, FS_CardinalityType, ScanAssumption
  <2> QED
    BY <1>1, <1>2, <1>5, <1>7, <2>1, <2>2 DEF TypeOK
<1>9. Ordered(i)'
  <2>1. start'[i] = start[i] /\ ever' = ever
    BY <1>1
  <2>2. \A l \in buffer'[i] : l \in B /\ KeyLess(k, l)
    BY <1>4, <1>5
  <2> QED
    BY <1>2, <1>4, <1>7, <2>1, <2>2 DEF Ordered
<1>10. Covers(i, always)' /\ \A S : Covers(i, S) => Covers(i, S)'
  BY <1>1, <1>2, <1>4, <1>5, <1>7 DEF Covers
<1>11. Snapshots(i)'
  BY <1>1, <1>2, <1>4, <1>5, <1>7, <1>10 DEF Snapshots
<1>12. begun[i] \/ fetched[i]
  BY <1>1 DEF Inv, Phases, Untouched
<1>13. full \/ ~fetched[i]
  BY DEF Inv, Phases
<1> QED
  BY <1>1, <1>5, <1>7, <1>8, <1>9, <1>10, <1>11, <1>12, <1>13, IteratorStep

\* The iterator is exhausted when the batch is not full.
LEMMA Exhausted ==
  ASSUME exhausted \in [Iterators -> BOOLEAN], NEW i \in Iterators, NEW B, IsFiniteSet(B),
         Receive(i, B)
  PROVE  /\ exhausted' \in [Iterators -> BOOLEAN]
         /\ exhausted'[i] <=> Cardinality(B) < batch_size
         /\ \A j \in Iterators : j # i => exhausted'[j] = exhausted[j]
<1>1. (Cardinality(B) < batch_size) \in BOOLEAN
  BY FS_CardinalityType, ScanAssumption
<1>2. exhausted' = [exhausted EXCEPT ![i] = Cardinality(B) < batch_size]
  BY DEF Receive
<1>3. /\ exhausted' \in [Iterators -> BOOLEAN]
      /\ \A j \in Iterators : j # i => exhausted'[j] = exhausted[j]
  BY <1>1, <1>2
<1>4. exhausted'[i] = (Cardinality(B) < batch_size)
  BY <1>2
<1> QED
  BY <1>3, <1>4

\* A batch goes to the buffer, or its first key to the caller and the others to the
\* buffer: the iterator has then passed the keys of the batch and no other.
LEMMA BatchStep ==
  ASSUME Inv, NEW i \in Iterators, buffer[i] = {}, NEW seen \in SUBSET Keys,
         always \subseteq seen, seen \subseteq ever, NEW B, B = Scan(seen, i), Receive(i, B),
         always' = always, ever' = ever,
         (Returned' \cap Wanted(i)) \cup buffer'[i] = (Returned \cap Wanted(i)) \cup B,
         buffer'[i] \subseteq B, Returned \subseteq Returned',
         \A k \in Returned' \ Returned, l \in buffer'[i] : KeyLess(k, l)
  PROVE  /\ start' \in [Iterators -> Seq(Bytes)] /\ exhausted' \in [Iterators -> BOOLEAN]
         /\ \A j \in Iterators : j # i => start'[j] = start[j] /\ exhausted'[j] = exhausted[j]
         /\ Ordered(i)'
         /\ \A S \in SUBSET seen : Covers(i, S) => Covers(i, S)'
         /\ Covers(i, always)'
<1>1. TypeOK /\ Ordered(i) /\ Covers(i, always)
  BY DEF Inv
<1>2. PICK s : s = IF B = {} THEN start[i] ELSE next_start(Last(B))
  OBVIOUS
<1>3. /\ B \subseteq Wanted(i) \cap seen /\ IsFiniteSet(B)
      /\ s \in Seq(Bytes)
      /\ s = prefixes[i] \/ \E a \in Wanted(i) : s = next_start(a)
      /\ \A k \in B : KeyLess(k, s)
      /\ \A k \in Wanted(i) : KeyLess(k, start[i]) => KeyLess(k, s) /\ \A l \in B : KeyLess(k, l)
      /\ \A k \in seen \cap Wanted(i) :
           KeyLess(k, s) \/ Cardinality(B) < batch_size => KeyLess(k, start[i]) \/ k \in B
  <2>1. Arrives(seen, i, B, s)
    BY <1>1, <1>2, Arrival
  <2> QED BY <2>1 DEF Arrives
<1>4. start' = [start EXCEPT ![i] = s]
  BY <1>2 DEF Receive
<1>5. start' \in [Iterators -> Seq(Bytes)] /\ start'[i] = s
      /\ \A j \in Iterators : j # i => start'[j] = start[j]
  BY <1>1, <1>3, <1>4 DEF TypeOK
<1>6. exhausted' \in [Iterators -> BOOLEAN] /\ (exhausted'[i] <=> Cardinality(B) < batch_size)
      /\ \A j \in Iterators : j # i => exhausted'[j] = exhausted[j]
  BY <1>1, <1>3, Exhausted DEF TypeOK
<1>7. Ordered(i)'
  <2>1. \A k \in Returned \cap Wanted(i) : KeyLess(k, start[i])
    BY <1>1 DEF Ordered
  <2>2. buffer'[i] \subseteq Wanted(i) \cap ever'
    BY <1>3
  <2>3. \A k \in buffer'[i] \cup (Returned' \cap Wanted(i)) : KeyLess(k, start'[i])
    BY <1>3, <1>5, <2>1
  <2>4. \A k \in Returned' \cap Wanted(i), l \in buffer'[i] : KeyLess(k, l)
    BY <1>3, <2>1
  <2> QED
    BY <1>3, <1>5, <2>2, <2>3, <2>4 DEF Ordered
<1>8. ASSUME NEW S \in SUBSET seen, Covers(i, S) PROVE Covers(i, S)'
  <2> SUFFICES ASSUME NEW k \in S \cap Wanted(i), KeyLess(k, start'[i]) \/ exhausted'[i]
               PROVE  k \in Returned' \cup buffer'[i]
    BY DEF Covers
  <2>1. KeyLess(k, start[i]) \/ k \in B
    BY <1>3, <1>5, <1>6
  <2>2. KeyLess(k, start[i]) => k \in Returned
    BY <1>8 DEF Covers
  <2> QED
    BY <2>1, <2>2
<1>9. Covers(i, always)'
  BY <1>1, <1>8 DEF Covers
<1> QED
  BY <1>5, <1>6, <1>7, <1>8, <1>9

\* A full scan fetches the first batch of an iterator.
LEMMA PrefetchStep ==
  ASSUME Inv, NEW i \in Iterators, Prefetch(i)
  PROVE  Inv'
<1> DEFINE B == Scan(keys, i)
<1>1. /\ status = "opening" /\ ~fetched[i] /\ fetched' = [fetched EXCEPT ![i] = TRUE]
      /\ status' \in {"open", "opening"} /\ Receive(i, B)
      /\ buffer' = [buffer EXCEPT ![i] = B]
      /\ UNCHANGED <<keys, commits, begun, snapshot, full, delivered, always, ever>>
  BY DEF Prefetch
<1>2. /\ TypeOK /\ full /\ Returned = {} /\ \A j \in Iterators : ~begun[j]
      /\ always \subseteq keys /\ keys \subseteq ever /\ keys \in SUBSET Keys
      /\ buffer[i] = {} /\ Ordered(i)
  BY <1>1 DEF Inv, Phases, Untouched, TypeOK
<1>3. B \subseteq Keys /\ Cardinality(B) <= batch_size
  <2>1. PICK s : s = IF B = {} THEN start[i] ELSE next_start(Last(B))
    OBVIOUS
  <2>2. TypeOK /\ Ordered(i) /\ keys \in SUBSET Keys
    BY <1>2
  <2>3. Arrives(keys, i, B, s)
    BY <2>1, <2>2, Arrival
  <2>4. B \subseteq Wanted(i) /\ Cardinality(B) <= batch_size
    BY <2>3 DEF Arrives
  <2> QED
    BY <2>4, WantedFacts
<1> HIDE DEF B
<1>4. /\ buffer' \in [Iterators -> SUBSET Keys] /\ buffer'[i] = B
      /\ \A j \in Iterators : j # i => buffer'[j] = buffer[j]
  BY <1>1, <1>2, <1>3 DEF TypeOK
<1>5. /\ fetched' \in [Iterators -> BOOLEAN] /\ fetched'[i]
      /\ \A j \in Iterators : j # i => fetched'[j] = fetched[j]
  BY <1>1, <1>2 DEF TypeOK
<1>6. Returned' = Returned /\ Once' /\ Returned' \subseteq ever' \cap UNION {Wanted(j) : j \in Iterators}
  BY <1>1, <1>2 DEF Returned, Inv, Once
<1>7. /\ start' \in [Iterators -> Seq(Bytes)] /\ exhausted' \in [Iterators -> BOOLEAN]
      /\ \A j \in Iterators : j # i => start'[j] = start[j] /\ exhausted'[j] = exhausted[j]
      /\ Ordered(i)' /\ Covers(i, always)'
  BY <1>1, <1>2, <1>4, <1>6, BatchStep DEF B
<1>8. TypeOK'
  BY <1>1, <1>2, <1>3, <1>4, <1>5, <1>7 DEF TypeOK, Statuses
<1>9. ~begun'[i] /\ Snapshots(i)'
  BY <1>1, <1>2 DEF Snapshots
<1> QED
  BY <1>1, <1>2, <1>4, <1>5, <1>6, <1>7, <1>8, <1>9, IteratorStep

\* An iterator fetches a batch and returns its first key.
LEMMA NextFetchedStep ==
  ASSUME Inv, NEW i \in Iterators, NextFetched(i)
  PROVE  Inv'
<1> DEFINE seen == IF begun[i] THEN snapshot[i] ELSE keys
           B == Scan(seen, i)
<1>1. /\ status = "open" /\ buffer[i] = {} /\ ~exhausted[i]
      /\ begun' = [begun EXCEPT ![i] = TRUE]
      /\ snapshot' = [snapshot EXCEPT ![i] = seen]
      /\ Receive(i, B)
      /\ buffer' = [buffer EXCEPT ![i] = Rest(B)]
      /\ delivered' = IF B = {} THEN delivered ELSE Append(delivered, First(B))
      /\ UNCHANGED <<keys, commits, status, fetched, full, always, ever>>
  BY DEF NextFetched, Current
<1>2. TypeOK /\ Ordered(i) /\ Covers(i, always) /\ Snapshots(i)
  BY DEF Inv
<1>3. seen \in SUBSET Keys /\ always \subseteq seen /\ seen \subseteq ever
  BY <1>1, <1>2 DEF Inv, Phases, TypeOK, Snapshots
<1>4. ~full => Covers(i, seen) /\ Returned \cap Wanted(i) \subseteq seen
  <2>1. CASE begun[i]
    BY <1>2, <2>1 DEF Snapshots
  <2>2. CASE ~begun[i] /\ ~full
    <3>1. Untouched(i)
      BY <2>2 DEF Inv, Phases
    <3> QED
      BY <3>1, WantedFacts DEF Untouched, Covers
  <2> QED
    BY <2>1, <2>2
<1> HIDE DEF seen
<1>5. PICK s : s = IF B = {} THEN start[i] ELSE next_start(Last(B))
  OBVIOUS
<1>6. /\ B \subseteq Wanted(i) \cap seen /\ IsFiniteSet(B) /\ Cardinality(B) <= batch_size
      /\ \A k \in Wanted(i), l \in B : KeyLess(k, start[i]) => KeyLess(k, l)
  <2>1. Arrives(seen, i, B, s)
    BY <1>2, <1>3, <1>5, Arrival
  <2> QED BY <2>1 DEF Arrives
<1>7. B \in SUBSET Seq(Bytes) /\ B \subseteq Keys /\ B \subseteq ever
  BY <1>3, <1>6, WantedFacts
<1> HIDE DEF B
<1>8. /\ Rest(B) \subseteq B
      /\ B # {} => /\ First(B) \in B /\ Rest(B) = B \ {First(B)}
                   /\ \A k \in Rest(B) : KeyLess(First(B), k)
  BY <1>6, <1>7, FirstFacts DEF Rest
<1>9. /\ buffer' \in [Iterators -> SUBSET Keys] /\ buffer'[i] = Rest(B)
      /\ \A j \in Iterators : j # i => buffer'[j] = buffer[j]
  BY <1>1, <1>2, <1>7, <1>8 DEF TypeOK
<1>10. /\ begun' \in [Iterators -> BOOLEAN] /\ begun'[i]
       /\ snapshot' \in [Iterators -> SUBSET Keys] /\ snapshot'[i] = seen
       /\ \A j \in Iterators : j # i => begun'[j] = begun[j] /\ snapshot'[j] = snapshot[j]
  BY <1>1, <1>2, <1>3 DEF TypeOK
<1>11. /\ delivered' \in Seq(Keys) /\ Once'
       /\ Returned' \subseteq ever' \cap UNION {Wanted(j) : j \in Iterators}
       /\ \A j \in Iterators : j # i => Returned' \cap Wanted(j) = Returned \cap Wanted(j)
       /\ B = {} => Returned' = Returned
       /\ B # {} => Returned' = Returned \cup {First(B)}
  <2>1. CASE B = {}
    <3>1. delivered' = delivered /\ ever' = ever
      BY <1>1, <2>1
    <3>2. Returned' = Returned
      BY <3>1 DEF Returned
    <3>3. /\ delivered \in Seq(Keys) /\ Once
          /\ Returned \subseteq ever \cap UNION {Wanted(j) : j \in Iterators}
      BY DEF Inv, TypeOK
    <3> QED
      BY <2>1, <3>1, <3>2, <3>3 DEF Once
  <2>2. CASE B # {}
    <3> DEFINE k == First(B)
    <3>1. k \in Wanted(i) \cap ever /\ k \in B /\ k \in Seq(Bytes) /\ delivered' = Append(delivered, k)
      BY <1>1, <1>6, <1>7, <1>8, <2>2
    <3> HIDE DEF k
    <3>2. k \in Returned => KeyLess(k, k)
      BY <1>2, <1>6, <3>1 DEF Ordered
    <3>3. k \notin Returned
      BY <3>1, <3>2, Irreflexive
    <3> QED
      BY <1>1, <2>2, <3>1, <3>3, Delivery DEF k
  <2> QED
    BY <2>1, <2>2
<1>12. /\ (Returned' \cap Wanted(i)) \cup buffer'[i] = (Returned \cap Wanted(i)) \cup B
       /\ Returned \subseteq Returned'
       /\ \A k \in Returned' \ Returned, l \in buffer'[i] : KeyLess(k, l)
  BY <1>6, <1>8, <1>9, <1>11
<1>13. /\ start' \in [Iterators -> Seq(Bytes)] /\ exhausted' \in [Iterators -> BOOLEAN]
       /\ \A j \in Iterators : j # i => start'[j] = start[j] /\ exhausted'[j] = exhausted[j]
       /\ Ordered(i)' /\ Covers(i, always)'
       /\ \A S \in SUBSET seen : Covers(i, S) => Covers(i, S)'
  BY <1>1, <1>3, <1>8, <1>9, <1>12, BatchStep DEF B
<1>14. Snapshots(i)'
  <2>1. ~full => Covers(i, snapshot[i])'
    BY <1>4, <1>10, <1>13 DEF Covers
  <2>2. ~full => (Returned' \cap Wanted(i)) \cup buffer'[i] \subseteq snapshot'[i]
    BY <1>4, <1>6, <1>10, <1>12
  <2> QED
    BY <1>1, <1>3, <1>10, <2>1, <2>2 DEF Snapshots
<1>15. TypeOK'
  <2>1. Cardinality(Rest(B)) <= batch_size
    <3>1. Cardinality(Rest(B)) <= Cardinality(B) /\ IsFiniteSet(Rest(B))
      BY <1>6, <1>8, FS_Subset
    <3> QED
      BY <1>6, <3>1, FS_CardinalityType, ScanAssumption
  <2> QED
    BY <1>1, <1>2, <1>9, <1>10, <1>11, <1>13, <2>1 DEF TypeOK
<1>16. full \/ ~fetched'[i]
  BY <1>1 DEF Inv, Phases
<1> QED
  BY <1>1, <1>9, <1>10, <1>11, <1>13, <1>14, <1>15, <1>16, IteratorStep

\* Nothing was asked for before the scan is opened.
LEMMA InitInv == ASSUME Init PROVE Inv
<1>1. /\ Returned = {} /\ Once
  <2>1. Returned = {} /\ Len(delivered) = 0
    BY DEF Init, Returned
  <2> QED
    BY <2>1, FS_EmptySet DEF Once
<1>2. TypeOK
  <2>1. start \in [Iterators -> Seq(Bytes)]
    BY ScanAssumption DEF Init, Iterators
  <2>2. \A i \in Iterators : Cardinality(buffer[i]) <= batch_size
    <3> TAKE i \in Iterators
    <3>1. buffer[i] = {}
      BY DEF Init
    <3>2. Cardinality(buffer[i]) = 0
      BY <3>1, FS_EmptySet
    <3> QED
      BY <3>2, ScanAssumption
  <2>3. delivered \in Seq(Keys) /\ commits \in 0..MaxCommits
    BY ScanAssumption DEF Init
  <2>4. /\ exhausted \in [Iterators -> BOOLEAN] /\ fetched \in [Iterators -> BOOLEAN]
        /\ begun \in [Iterators -> BOOLEAN] /\ full \in BOOLEAN
    BY DEF Init
  <2>5. /\ buffer \in [Iterators -> SUBSET Keys] /\ snapshot \in [Iterators -> SUBSET Keys]
        /\ keys \subseteq Keys /\ always \subseteq ever /\ ever \subseteq Keys
        /\ status \in Statuses
    BY DEF Init, Statuses
  <2> QED
    BY <2>1, <2>2, <2>3, <2>4, <2>5 DEF TypeOK
<1>3. \A i \in Iterators : Untouched(i) /\ ~begun[i] /\ ~fetched[i]
  BY <1>1 DEF Init, Untouched
<1>4. Phases
  BY <1>1, <1>3 DEF Init, Phases
<1>5. \A i \in Iterators : Ordered(i) /\ Covers(i, always) /\ Snapshots(i)
  BY <1>1, <1>3 DEF Init, Ordered, Covers, Snapshots, Untouched
<1> QED
  BY <1>1, <1>2, <1>4, <1>5 DEF Inv

\* Every step preserves the invariant.
LEMMA NextInv == ASSUME Inv, [Next]_vars PROVE Inv'
<1>1. CASE UNCHANGED vars
  <2>1. Returned' = Returned /\ Once'
    BY <1>1 DEF vars, Inv, Returned, Once
  <2>2. \A i \in Iterators : /\ Ordered(i)' /\ Covers(i, always)' /\ Snapshots(i)'
                             /\ Untouched(i) => Untouched(i)'
    BY <1>1, <2>1, Kept DEF vars, iterVars, Inv
  <2>3. TypeOK'
    BY <1>1 DEF vars, iterVars, Inv, TypeOK
  <2>4. Phases'
    BY <1>1, <2>1, <2>2 DEF vars, iterVars, Inv, Phases, Finished
  <2> QED
    BY <1>1, <2>1, <2>2, <2>3, <2>4 DEF vars, Inv
<1> QED
  BY <1>1, CommitStep, OpenStep, OverStep, PrefetchStep, NextBufferedStep, NextFetchedStep DEF Next

\* The invariant holds in every state, however the scan and the commits of others
\* interleave.
THEOREM Invariance == Spec => []Inv
<1>1. Init => Inv
  BY InitInv
<1>2. Inv /\ [Next]_vars => Inv'
  BY NextInv
<1> QED
  BY <1>1, <1>2, PTL DEF Spec

\* A scan in batches of any size, over any keys, while others commit, returns each key
\* once, none that never was there, and when it ends all those that always were.
THEOREM ScanIsComplete == Spec => []NothingMissed
<1>1. Inv => NothingMissed
  <2> SUFFICES ASSUME Inv PROVE NothingMissed
    OBVIOUS
  <2>1. Returned \subseteq ever \cap {k \in Keys : \E i \in Iterators : InScan(i, k)}
    BY DEF Inv, Wanted
  <2>2. status = "ended" =>
          always \cap {k \in Keys : \E i \in Iterators : InScan(i, k)} \subseteq Returned
    <3> SUFFICES ASSUME status = "ended", NEW k \in always, NEW i \in Iterators, k \in Wanted(i)
                 PROVE  k \in Returned
      BY DEF Wanted
    <3>1. buffer[i] = {} /\ exhausted[i]
      BY DEF Inv, Phases, Finished
    <3> QED
      BY <3>1 DEF Inv, Covers
  <2> QED
    BY <2>1, <2>2 DEF Inv, Once, NothingMissed, Returned
<1> QED
  BY <1>1, Invariance, PTL

\* The batches of an iterator that is not part of a full scan add up to one state of the
\* store.
THEOREM ScanSeesOneState == Spec => []OneState
<1>1. Inv => OneState
  <2> SUFFICES ASSUME Inv, NEW i \in Iterators, ~full, begun[i], Finished(i)
               PROVE  Returned \cap {k \in Keys : InScan(i, k)} = {k \in snapshot[i] : InScan(i, k)}
    BY DEF OneState, Returned
  <2>1. /\ buffer[i] = {} /\ exhausted[i] /\ snapshot[i] \subseteq Keys
        /\ Covers(i, snapshot[i]) /\ Returned \cap Wanted(i) \subseteq snapshot[i]
    BY DEF Finished, Inv, Snapshots, TypeOK
  <2> QED
    BY <2>1 DEF Covers, Wanted
<1> QED
  BY <1>1, Invariance, PTL

\* The types, and that no more is buffered than a batch.
THEOREM TypeCorrect == Spec => []TypeOK
<1>1. Inv => TypeOK
  BY DEF Inv
<1> QED
  BY <1>1, Invariance, PTL
=============================================================================
