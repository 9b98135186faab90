------------------------ MODULE FrontendStreamProofs ------------------------
(***************************************************************************)
(* Proofs about the frontend stream, for every set of frame sizes and      *)
(* policies, every limit and any number of I/O threads and frames.         *)
(*                                                                         *)
(* Bytes is a fold.  The induction theorems of the library take an         *)
(* operator, which the provers cannot instantiate, but a minimal element   *)
(* of a set they can: NatSetInduction says of a set that it holds every    *)
(* natural number, and each induction below names the set of the numbers   *)
(* that have the property.                                                 *)
(***************************************************************************)
EXTENDS FrontendStream, FiniteSetTheorems, SequenceTheorems, TLAPS

-----------------------------------------------------------------------------
(***************************************************************************)
(* Induction, and what Bytes computes.                                     *)
(***************************************************************************)

\* A set that has 0 and is closed under the successor has every number.
LEMMA NatSetInduction ==
  ASSUME NEW S, 0 \in S, \A n \in Nat : n \in S => n + 1 \in S
  PROVE  \A n \in Nat : n \in S
<1> SUFFICES ASSUME ~ \A n \in Nat : n \in S
             PROVE  FALSE
  OBVIOUS
<1> DEFINE rest == {n \in Nat : n \notin S}
<1>1. PICK n \in rest : \A m \in rest : ~ (<<m, n>> \in OpToRel(<, Nat))
  <2>1. rest \subseteq Nat /\ rest # {}
    OBVIOUS
  <2> HIDE DEF rest
  <2>2. QED
    BY <2>1, NatLessThanWellFounded, WFMin
<1>2. \A m \in Nat : m < n => m \in S
  BY <1>1 DEF OpToRel
<1>3. n \in Nat /\ n # 0
  OBVIOUS
<1>4. n - 1 \in Nat /\ n - 1 < n /\ (n - 1) + 1 = n
  BY <1>3
<1>5. QED
  BY <1>2, <1>4

\* The largest number of a set below it.
LEMMA MaxOf ==
  ASSUME NEW n \in Nat, NEW s \in SUBSET (1..n), n \in s
  PROVE  Max(s) = n
<1>1. \A x \in s : n >= x
  OBVIOUS
<1>2. \A x \in s : (\A y \in s : x >= y) => x = n
  OBVIOUS
<1>3. QED
  BY <1>1, <1>2 DEF Max

\* iter is the function that the fold of Bytes is made of.
IsFold(iter, q, n) ==
  iter = [s \in SUBSET (1..n) |->
            IF s = {} THEN 0 ELSE iter[s \ {Max(s)}] + q[Max(s)].size]

\* Such a function exists: the one for n + 1 frames extends the one for n.
LEMMA FoldExists ==
  ASSUME NEW q
  PROVE  \A n \in Nat : \E iter : IsFold(iter, q, n)
<1> DEFINE S == {n \in Nat : \E iter : IsFold(iter, q, n)}
<1>1. 0 \in S
  <2> DEFINE it == [s \in SUBSET (1..0) |-> 0]
  <2>1. IsFold(it, q, 0)
    BY DEF IsFold
  <2>2. QED
    BY <2>1
<1>2. ASSUME NEW n \in Nat, n \in S PROVE n + 1 \in S
  <2>1. PICK it : IsFold(it, q, n)
    BY <1>2
  <2> DEFINE jt == [s \in SUBSET (1..(n + 1)) |->
                      IF n + 1 \in s THEN it[s \ {n + 1}] + q[n + 1].size ELSE it[s]]
  <2>2. ASSUME NEW s \in SUBSET (1..(n + 1))
        PROVE  jt[s] = IF s = {} THEN 0 ELSE jt[s \ {Max(s)}] + q[Max(s)].size
    <3>1. CASE n + 1 \in s
      <4>1. Max(s) = n + 1
        BY <3>1, MaxOf
      <4>2. s \ {n + 1} \in SUBSET (1..(n + 1)) /\ n + 1 \notin s \ {n + 1}
        OBVIOUS
      <4>3. jt[s \ {n + 1}] = it[s \ {n + 1}]
        BY <4>2
      <4>4. jt[s] = it[s \ {n + 1}] + q[n + 1].size
        BY <3>1
      <4>5. QED
        BY <3>1, <4>1, <4>3, <4>4
    <3>2. CASE n + 1 \notin s
      <4>1. s \in SUBSET (1..n)
        BY <3>2
      <4>2. it[s] = IF s = {} THEN 0 ELSE it[s \ {Max(s)}] + q[Max(s)].size
        BY <2>1, <4>1 DEF IsFold
      <4>3. jt[s] = it[s] /\ jt[s \ {Max(s)}] = it[s \ {Max(s)}]
        BY <3>2
      <4>4. QED
        BY <4>2, <4>3
    <3>3. QED
      BY <3>1, <3>2
  <2>3. IsFold(jt, q, n + 1)
    <3>1. jt = [s \in SUBSET (1..(n + 1)) |-> jt[s]]
      OBVIOUS
    <3> HIDE DEF jt
    <3>2. QED
      BY <2>2, <3>1 DEF IsFold
  <2>4. QED
    BY <2>3
<1> HIDE DEF S
<1>3. \A n \in Nat : n \in S
  BY <1>1, <1>2, NatSetInduction
<1>4. QED
  BY <1>3 DEF S

LEMMA BytesIsFold ==
  ASSUME NEW q \in Seq(Frames)
  PROVE  \E iter : IsFold(iter, q, Len(q)) /\ Bytes(q) = iter[1..Len(q)]
<1> DEFINE it == CHOOSE iter : iter = [s \in SUBSET DOMAIN q |->
                   IF s = {} THEN 0 ELSE LET x == Max(s) IN iter[s \ {x}] + q[x].size]
<1>1. Bytes(q) = it[DOMAIN q]
  BY Zenon DEF Bytes, FoldLeft, MapThenFoldSet
<1>2. it = CHOOSE iter : IsFold(iter, q, Len(q))
  <2>1. DOMAIN q = 1..Len(q)
    OBVIOUS
  <2>2. QED
    BY <2>1, Zenon DEF IsFold
<1>3. Len(q) \in Nat /\ DOMAIN q = 1..Len(q)
  OBVIOUS
<1>4. IsFold(it, q, Len(q))
  BY <1>2, <1>3, FoldExists, Zenon
<1>5. QED
  BY <1>1, <1>3, <1>4, Zenon

\* v[k] is the size of the first k frames of q.
Sums(v, q) ==
  /\ v \in [0..Len(q) -> Int]
  /\ v[0] = 0
  /\ \A k \in 1..Len(q) : v[k] = v[k - 1] + q[k].size

\* Bytes are the last of the sums ...
LEMMA SumsExist ==
  ASSUME NEW q \in Seq(Frames)
  PROVE  \E v : Sums(v, q) /\ v \in [0..Len(q) -> Nat] /\ Bytes(q) = v[Len(q)]
<1>1. PICK it : IsFold(it, q, Len(q)) /\ Bytes(q) = it[1..Len(q)]
  BY BytesIsFold
<1> DEFINE v == [k \in 0..Len(q) |-> it[1..k]]
<1>2. Len(q) \in Nat
  OBVIOUS
<1>3. it[1..0] = 0
  <2>1. 1..0 = {} /\ {} \in SUBSET (1..Len(q))
    OBVIOUS
  <2>2. QED
    BY <1>1, <2>1 DEF IsFold
<1>4. ASSUME NEW k \in 1..Len(q)
      PROVE  it[1..k] = it[1..(k - 1)] + q[k].size /\ q[k].size \in Nat
  <2>1. k \in Nat /\ 1..k \in SUBSET (1..Len(q)) /\ k \in 1..k /\ (1..k) \ {k} = 1..(k - 1)
    OBVIOUS
  <2>2. Max(1..k) = k
    BY <2>1, MaxOf
  <2>3. it[1..k] = it[(1..k) \ {Max(1..k)}] + q[Max(1..k)].size
    BY <1>1, <2>1 DEF IsFold
  <2>4. q[k] \in Frames
    OBVIOUS
  <2>5. q[k].size \in Nat
    BY <2>4, StreamAssumption DEF Frames
  <2>6. QED
    BY <2>1, <2>2, <2>3, <2>5
<1>5. \A k \in 0..Len(q) : it[1..k] \in Nat
  <2> DEFINE S == {k \in Nat : k <= Len(q) => it[1..k] \in Nat}
  <2>1. 0 \in S
    BY <1>3
  <2>2. ASSUME NEW k \in Nat, k \in S PROVE k + 1 \in S
    <3>1. ASSUME k + 1 <= Len(q) PROVE it[1..(k + 1)] \in Nat
      <4>1. k + 1 \in 1..Len(q) /\ (k + 1) - 1 = k
        BY <1>2, <3>1
      <4>2. it[1..k] \in Nat
        BY <1>2, <2>2, <3>1
      <4>3. it[1..(k + 1)] = it[1..k] + q[k + 1].size /\ q[k + 1].size \in Nat
        BY <1>4, <4>1
      <4>4. QED
        BY <4>2, <4>3
    <3>2. QED
      BY <3>1
  <2> HIDE DEF S
  <2>3. \A k \in Nat : k \in S
    BY <2>1, <2>2, NatSetInduction
  <2>4. QED
    BY <1>2, <2>3 DEF S
<1>6. v \in [0..Len(q) -> Nat]
  BY <1>5
<1>7. v[0] = 0 /\ v[Len(q)] = it[1..Len(q)]
  BY <1>2, <1>3
<1>8. ASSUME NEW k \in 1..Len(q) PROVE v[k] = v[k - 1] + q[k].size
  <2>1. k \in 0..Len(q) /\ k - 1 \in 0..Len(q)
    BY <1>2
  <2>2. QED
    BY <1>4, <2>1
<1> HIDE DEF v
<1>9. QED
  BY <1>1, <1>6, <1>7, <1>8 DEF Sums

\* ... and there is only one way to sum up.
LEMMA SumsAreBytes ==
  ASSUME NEW q \in Seq(Frames), NEW v, Sums(v, q)
  PROVE  Bytes(q) = v[Len(q)]
<1>1. PICK w : Sums(w, q) /\ Bytes(q) = w[Len(q)]
  BY SumsExist
<1>2. Len(q) \in Nat
  OBVIOUS
<1> DEFINE S == {k \in Nat : k <= Len(q) => v[k] = w[k]}
<1>3. 0 \in S
  BY <1>1 DEF Sums
<1>4. ASSUME NEW k \in Nat, k \in S PROVE k + 1 \in S
  <2>1. ASSUME k + 1 <= Len(q) PROVE v[k + 1] = w[k + 1]
    <3>1. k + 1 \in 1..Len(q) /\ (k + 1) - 1 = k /\ k <= Len(q)
      BY <1>2, <2>1
    <3>2. v[k] = w[k]
      BY <1>4, <3>1
    <3>3. v[k + 1] = v[k] + q[k + 1].size /\ w[k + 1] = w[k] + q[k + 1].size
      BY <1>1, <3>1 DEF Sums
    <3>4. QED
      BY <3>2, <3>3
  <2>2. QED
    BY <2>1
<1> HIDE DEF S
<1>5. \A k \in Nat : k \in S
  BY <1>3, <1>4, NatSetInduction
<1>6. QED
  BY <1>1, <1>2, <1>5 DEF S

LEMMA SizesAreNaturals == \A f \in Frames : f.size \in Nat
  BY StreamAssumption DEF Frames

LEMMA BytesOfNone == Bytes(<<>>) = 0
<1>1. <<>> \in Seq(Frames) /\ Len(<<>>) = 0
  OBVIOUS
<1>2. PICK v : Sums(v, <<>>) /\ Bytes(<<>>) = v[Len(<<>>)]
  BY <1>1, SumsExist
<1>3. QED
  BY <1>1, <1>2 DEF Sums

LEMMA BytesType ==
  ASSUME NEW q \in Seq(Frames)
  PROVE  Bytes(q) \in Nat
<1>1. PICK v : v \in [0..Len(q) -> Nat] /\ Bytes(q) = v[Len(q)]
  BY SumsExist
<1>2. Len(q) \in Nat
  OBVIOUS
<1>3. QED
  BY <1>1, <1>2

LEMMA BytesOfAppend ==
  ASSUME NEW q \in Seq(Frames), NEW f \in Frames
  PROVE  Bytes(Append(q, f)) = Bytes(q) + f.size
<1>1. PICK v : Sums(v, q) /\ Bytes(q) = v[Len(q)]
  BY SumsExist
<1> DEFINE n == Len(q)
           longer == Append(q, f)
           w == [k \in 0..(n + 1) |-> IF k <= n THEN v[k] ELSE v[n] + f.size]
<1>2. /\ n \in Nat /\ longer \in Seq(Frames) /\ Len(longer) = n + 1
      /\ \A k \in 1..n : longer[k] = q[k]
      /\ longer[n + 1] = f
  OBVIOUS
<1>3. f.size \in Nat
  BY SizesAreNaturals
<1>4. v \in [0..n -> Int]
  BY <1>1 DEF Sums
<1> HIDE DEF n, longer
<1>5. w \in [0..(n + 1) -> Int] /\ w[0] = 0
  <2>1. v[0] = 0 /\ v[n] \in Int
    BY <1>1, <1>2, <1>4 DEF Sums
  <2>2. QED
    BY <1>2, <1>3, <1>4, <2>1
<1>6. ASSUME NEW k \in 1..(n + 1) PROVE w[k] = w[k - 1] + longer[k].size
  <2>1. CASE k = n + 1
    BY <1>2, <2>1
  <2>2. CASE k # n + 1
    <3>1. k \in 1..n /\ k - 1 \in 0..n
      BY <1>2, <2>2
    <3>2. v[k] = v[k - 1] + q[k].size
      BY <1>1, <3>1 DEF Sums, n
    <3>3. QED
      BY <1>2, <3>1, <3>2
  <2>3. QED
    BY <2>1, <2>2
<1>7. w[n + 1] = v[n] + f.size
  BY <1>2
<1> HIDE DEF w
<1>8. Sums(w, longer)
  BY <1>2, <1>5, <1>6 DEF Sums
<1>9. Bytes(longer) = w[n + 1]
  BY <1>2, <1>8, SumsAreBytes
<1>10. QED
  BY <1>1, <1>7, <1>9 DEF n, longer

\* What is cut off the front of a queue takes its bytes with it.
LEMMA BytesOfParts ==
  ASSUME NEW q \in Seq(Frames), NEW m \in 0..Len(q)
  PROVE  /\ SubSeq(q, 1, m) \in Seq(Frames) /\ SubSeq(q, m + 1, Len(q)) \in Seq(Frames)
         /\ Bytes(q) = Bytes(SubSeq(q, 1, m)) + Bytes(SubSeq(q, m + 1, Len(q)))
<1>1. PICK v : Sums(v, q) /\ Bytes(q) = v[Len(q)]
  BY SumsExist
<1> DEFINE n == Len(q)
           front == SubSeq(q, 1, m)
           rest == SubSeq(q, m + 1, n)
           x == [k \in 0..m |-> v[k]]
           y == [k \in 0..(n - m) |-> v[m + k] - v[m]]
<1>2. n \in Nat /\ m \in Nat /\ m <= n
  OBVIOUS
<1>3. /\ front \in Seq(Frames) /\ Len(front) = m
      /\ \A k \in 1..m : front[k] = q[k]
  BY <1>2
<1>4. /\ rest \in Seq(Frames) /\ Len(rest) = n - m
      /\ \A k \in 1..(n - m) : rest[k] = q[m + k]
  <2>1. \A i \in (m + 1)..n : q[i] \in Frames
    BY <1>2
  <2>2. m + 1 \in Int /\ n \in Int
    BY <1>2
  <2>3. /\ rest \in Seq(Frames)
        /\ Len(rest) = IF m + 1 <= n THEN n - (m + 1) + 1 ELSE 0
        /\ \A i \in 1..(n - (m + 1) + 1) : rest[i] = q[(m + 1) + i - 1]
    BY <2>1, <2>2, SubSeqProperties
  <2> HIDE DEF rest, n
  <2>4. Len(rest) = n - m
    BY <1>2, <2>3
  <2>5. n - (m + 1) + 1 = n - m /\ \A i \in Int : (m + 1) + i - 1 = m + i
    BY <1>2
  <2>6. QED
    BY <2>3, <2>4, <2>5
<1>5. v \in [0..n -> Int] /\ v[0] = 0
  BY <1>1 DEF Sums
<1>6. \A k \in 1..n : v[k] = v[k - 1] + q[k].size
  BY <1>1 DEF Sums
<1> HIDE DEF n, front, rest
<1>7. Sums(x, front)
  <2>1. x \in [0..m -> Int] /\ x[0] = 0
    BY <1>2, <1>5
  <2>2. ASSUME NEW k \in 1..m PROVE x[k] = x[k - 1] + front[k].size
    <3>1. k \in 1..n /\ k \in 0..m /\ k - 1 \in 0..m
      BY <1>2
    <3>2. QED
      BY <1>3, <1>6, <3>1
  <2> HIDE DEF x
  <2>3. QED
    BY <1>3, <2>1, <2>2 DEF Sums
<1>8. Sums(y, rest)
  <2>1. y \in [0..(n - m) -> Int]
    <3>1. \A k \in 0..(n - m) : v[m + k] \in Int /\ v[m] \in Int
      BY <1>2, <1>5
    <3>2. QED
      BY <3>1
  <2>2. y[0] = 0
    <3>1. m + 0 = m /\ v[m] \in Int /\ 0 \in 0..(n - m)
      BY <1>2, <1>5
    <3>2. QED
      BY <3>1
  <2>3. ASSUME NEW k \in 1..(n - m) PROVE y[k] = y[k - 1] + rest[k].size
    <3>1. m + k \in 1..n /\ (m + k) - 1 = m + (k - 1) /\ k \in 0..(n - m) /\ k - 1 \in 0..(n - m)
      BY <1>2
    <3>2. v[m + k] = v[m + (k - 1)] + q[m + k].size
      BY <1>6, <3>1
    <3>3. v[m + k] \in Int /\ v[m + (k - 1)] \in Int /\ v[m] \in Int
      BY <1>2, <1>5, <3>1
    <3>4. q[m + k].size \in Nat
      <4>1. q[m + k] \in Frames
        BY <3>1 DEF n
      <4>2. QED
        BY <4>1, SizesAreNaturals
    <3>5. y[k] = v[m + k] - v[m] /\ y[k - 1] = v[m + (k - 1)] - v[m]
      BY <3>1
    <3>6. rest[k] = q[m + k]
      BY <1>4
    <3> HIDE DEF y
    <3>7. QED
      BY <3>2, <3>3, <3>4, <3>5, <3>6, SMTT(30)
  <2> HIDE DEF y
  <2>4. QED
    BY <1>4, <2>1, <2>2, <2>3 DEF Sums
<1>9. Bytes(front) = v[m] /\ Bytes(rest) = v[n] - v[m]
  <2>1. x[m] = v[m] /\ y[n - m] = v[m + (n - m)] - v[m] /\ m + (n - m) = n
    BY <1>2
  <2>2. Bytes(front) = x[m] /\ Bytes(rest) = y[n - m]
    BY <1>3, <1>4, <1>7, <1>8, SumsAreBytes
  <2>3. QED
    BY <2>1, <2>2
<1>10. v[m] \in Int /\ v[n] \in Int
  BY <1>2, <1>5
<1>11. Bytes(q) = Bytes(front) + Bytes(rest)
  BY <1>1, <1>9, <1>10 DEF n
<1>12. QED
  BY <1>3, <1>4, <1>11 DEF n, front, rest

-----------------------------------------------------------------------------
(***************************************************************************)
(* Frames and their numbers.                                               *)
(***************************************************************************)

\* A set of naturals has a least one.
LEMMA LeastNatural ==
  ASSUME NEW T \in SUBSET Nat, T # {}
  PROVE  \E n \in T : \A m \in T : n <= m
<1>1. PICK n \in T : \A m \in T : ~ (<<m, n>> \in OpToRel(<, Nat))
  BY NatLessThanWellFounded, WFMin
<1>2. \A m \in T : ~ (m < n)
  BY <1>1 DEF OpToRel
<1>3. QED
  BY <1>2

LEMMA RemoveAtFacts ==
  ASSUME NEW S, NEW s \in Seq(S), NEW i \in 1..Len(s)
  PROVE  /\ RemoveAt(s, i) \in Seq(S)
         /\ Len(RemoveAt(s, i)) = Len(s) - 1
         /\ \A j \in 1..(Len(s) - 1) :
              RemoveAt(s, i)[j] = IF j < i THEN s[j] ELSE s[j + 1]
<1> DEFINE front == SubSeq(s, 1, i - 1)
           rest == SubSeq(s, i + 1, Len(s))
           n == Len(s)
<1>1. n \in Nat /\ i \in 1..n /\ \A k \in 1..n : s[k] \in S
  OBVIOUS
<1> HIDE DEF n
<1>2. /\ front \in Seq(S) /\ Len(front) = i - 1
      /\ \A j \in 1..(i - 1) : front[j] = s[j]
  <2>1. \A k \in 1..(i - 1) : s[k] \in S
    BY <1>1
  <2>2. 1 \in Int /\ i - 1 \in Int
    BY <1>1
  <2>3. /\ front \in Seq(S)
        /\ Len(front) = IF 1 <= i - 1 THEN (i - 1) - 1 + 1 ELSE 0
        /\ \A j \in 1..((i - 1) - 1 + 1) : front[j] = s[1 + j - 1]
    BY <2>1, <2>2, SubSeqProperties
  <2> HIDE DEF front
  <2>4. Len(front) = i - 1 /\ (i - 1) - 1 + 1 = i - 1 /\ \A j \in Int : 1 + j - 1 = j
    BY <1>1, <2>3
  <2>5. QED
    BY <2>3, <2>4
<1>3. /\ rest \in Seq(S) /\ Len(rest) = n - i
      /\ \A j \in 1..(n - i) : rest[j] = s[i + j]
  <2>1. \A k \in (i + 1)..n : s[k] \in S
    BY <1>1
  <2>2. i + 1 \in Int /\ n \in Int
    BY <1>1
  <2>3. /\ rest \in Seq(S)
        /\ Len(rest) = IF i + 1 <= n THEN n - (i + 1) + 1 ELSE 0
        /\ \A j \in 1..(n - (i + 1) + 1) : rest[j] = s[(i + 1) + j - 1]
    BY <2>1, <2>2, SubSeqProperties DEF n
  <2> HIDE DEF rest
  <2>4. /\ Len(rest) = n - i
        /\ n - (i + 1) + 1 = n - i
        /\ \A j \in Int : (i + 1) + j - 1 = i + j
    BY <1>1, <2>3
  <2>5. QED
    BY <2>3, <2>4
<1> HIDE DEF front, rest
<1>4. /\ front \o rest \in Seq(S)
      /\ Len(front \o rest) = Len(front) + Len(rest)
      /\ \A j \in 1..(Len(front) + Len(rest)) :
           (front \o rest)[j] = IF j <= Len(front) THEN front[j] ELSE rest[j - Len(front)]
  BY <1>2, <1>3, ConcatProperties
<1>5. Len(front) + Len(rest) = n - 1
  BY <1>1, <1>2, <1>3
<1>6. ASSUME NEW j \in 1..(n - 1)
      PROVE  (front \o rest)[j] = IF j < i THEN s[j] ELSE s[j + 1]
  <2>1. CASE j < i
    BY <1>1, <1>2, <1>4, <1>5, <2>1
  <2>2. CASE ~(j < i)
    <3>1. j - (i - 1) \in 1..(n - i) /\ i + (j - (i - 1)) = j + 1 /\ ~(j <= i - 1)
      BY <1>1, <2>2
    <3>2. (front \o rest)[j] = rest[j - (i - 1)]
      BY <1>2, <1>4, <1>5, <3>1
    <3>3. QED
      BY <1>3, <2>2, <3>1, <3>2
  <2>3. QED
    BY <2>1, <2>2
<1>7. QED
  BY <1>4, <1>5, <1>6 DEF RemoveAt, front, rest, n

\* A sequence in which no number comes twice.
Distinct(frames) ==
  \A i, j \in DOMAIN frames : frames[i].number = frames[j].number => i = j

LEMMA NumbersOfConcat ==
  ASSUME NEW s \in Seq(Frames), NEW r \in Seq(Frames)
  PROVE  Numbers(s \o r) = Numbers(s) \cup Numbers(r)
<1>1. /\ Len(s) \in Nat /\ Len(r) \in Nat
      /\ DOMAIN s = 1..Len(s) /\ DOMAIN r = 1..Len(r)
  OBVIOUS
<1>2. /\ s \o r \in Seq(Frames) /\ Len(s \o r) = Len(s) + Len(r)
      /\ \A i \in 1..(Len(s) + Len(r)) :
           (s \o r)[i] = IF i <= Len(s) THEN s[i] ELSE r[i - Len(s)]
  BY ConcatProperties
<1>3. DOMAIN (s \o r) = 1..(Len(s) + Len(r))
  BY <1>2
<1>4. \A i \in 1..Len(s) : i \in DOMAIN (s \o r) /\ (s \o r)[i] = s[i]
  BY <1>1, <1>2, <1>3
<1>5. \A i \in 1..Len(r) : Len(s) + i \in DOMAIN (s \o r) /\ (s \o r)[Len(s) + i] = r[i]
  <2> SUFFICES ASSUME NEW i \in 1..Len(r)
               PROVE  Len(s) + i \in DOMAIN (s \o r) /\ (s \o r)[Len(s) + i] = r[i]
    OBVIOUS
  <2>1. Len(s) + i \in 1..(Len(s) + Len(r)) /\ ~(Len(s) + i <= Len(s)) /\ (Len(s) + i) - Len(s) = i
    BY <1>1
  <2>2. QED
    BY <1>2, <1>3, <2>1
<1>6. \A i \in DOMAIN (s \o r) :
        \/ i \in 1..Len(s) /\ (s \o r)[i] = s[i]
        \/ i - Len(s) \in 1..Len(r) /\ (s \o r)[i] = r[i - Len(s)]
  BY <1>1, <1>2, <1>3
<1>7. Numbers(s \o r) \subseteq Numbers(s) \cup Numbers(r)
  BY <1>1, <1>6 DEF Numbers
<1>8. Numbers(s) \subseteq Numbers(s \o r)
  BY <1>1, <1>4 DEF Numbers
<1>9. Numbers(r) \subseteq Numbers(s \o r)
  <2> SUFFICES ASSUME NEW i \in 1..Len(r) PROVE r[i].number \in Numbers(s \o r)
    BY <1>1 DEF Numbers
  <2>1. QED
    BY <1>5 DEF Numbers
<1>10. QED
  BY <1>7, <1>8, <1>9

LEMMA NumbersOfAppend ==
  ASSUME NEW s \in Seq(Frames), NEW f \in Frames
  PROVE  /\ Append(s, f) \in Seq(Frames)
         /\ Numbers(Append(s, f)) = Numbers(s) \cup {f.number}
         /\ Distinct(s) /\ f.number \notin Numbers(s) => Distinct(Append(s, f))
<1> DEFINE r == Append(s, f)
           n == Len(s)
<1>1. /\ n \in Nat /\ DOMAIN s = 1..n
      /\ r \in Seq(Frames) /\ DOMAIN r = 1..(n + 1)
      /\ \A i \in 1..n : r[i] = s[i]
      /\ r[n + 1] = f
  OBVIOUS
<1> HIDE DEF r, n
<1>2. \A i \in 1..(n + 1) : i \in 1..n \/ i = n + 1
  BY <1>1
<1>3. 1..n \subseteq 1..(n + 1) /\ n + 1 \in 1..(n + 1)
  BY <1>1
<1>4. Numbers(r) = Numbers(s) \cup {f.number}
  BY <1>1, <1>2, <1>3, Zenon DEF Numbers
<1>5. Distinct(s) /\ f.number \notin Numbers(s) => Distinct(r)
  BY <1>1, <1>2 DEF Numbers, Distinct
<1>6. QED
  BY <1>1, <1>4, <1>5 DEF r

LEMMA NumbersOfRemoveAt ==
  ASSUME NEW s \in Seq(Frames), NEW i \in 1..Len(s)
  PROVE  /\ s[i] \in Frames
         /\ RemoveAt(s, i) \in Seq(Frames)
         /\ Numbers(s) = Numbers(RemoveAt(s, i)) \cup {s[i].number}
         /\ Distinct(s) => Distinct(RemoveAt(s, i))
         /\ Distinct(s) => s[i].number \notin Numbers(RemoveAt(s, i))
<1> DEFINE r == RemoveAt(s, i)
           n == Len(s)
<1>1. n \in Nat /\ DOMAIN s = 1..n /\ i \in 1..n /\ s[i] \in Frames
  OBVIOUS
<1>2. /\ r \in Seq(Frames) /\ Len(r) = n - 1
      /\ \A j \in 1..(n - 1) : r[j] = IF j < i THEN s[j] ELSE s[j + 1]
  BY RemoveAtFacts
<1>3. DOMAIN r = 1..(n - 1)
  BY <1>2
<1> HIDE DEF r, n
<1> DEFINE at(j) == IF j < i THEN j ELSE j + 1
<1>4. \A j \in 1..(n - 1) : at(j) \in 1..n /\ at(j) # i /\ r[j] = s[at(j)]
  BY <1>1, <1>2
<1>5. \A j, k \in 1..(n - 1) : at(j) = at(k) => j = k
  BY <1>1
<1>6. ASSUME NEW k \in 1..n, k # i
      PROVE  \E j \in 1..(n - 1) : at(j) = k
  <2>1. CASE k < i
    <3>1. k \in 1..(n - 1) /\ at(k) = k
      BY <1>1, <2>1
    <3>2. QED
      BY <3>1
  <2>2. CASE ~(k < i)
    <3>1. k - 1 \in 1..(n - 1) /\ at(k - 1) = k
      BY <1>1, <1>6, <2>2
    <3>2. QED
      BY <3>1
  <2>3. QED
    BY <2>1, <2>2
<1> HIDE DEF at
<1>7. Numbers(r) \subseteq Numbers(s)
  BY <1>1, <1>3, <1>4 DEF Numbers
<1>8. ASSUME NEW k \in 1..n PROVE s[k].number \in Numbers(r) \cup {s[i].number}
  <2>1. CASE k # i
    <3>1. PICK j \in 1..(n - 1) : at(j) = k
      BY <1>6, <2>1
    <3>2. r[j] = s[k]
      BY <1>4, <3>1
    <3>3. QED
      BY <1>3, <3>2 DEF Numbers
  <2>2. QED
    BY <2>1
<1>9. Numbers(s) = Numbers(r) \cup {s[i].number}
  BY <1>1, <1>7, <1>8 DEF Numbers
<1>10. Distinct(s) => Distinct(r)
  BY <1>1, <1>3, <1>4, <1>5 DEF Distinct
<1>11. Distinct(s) => s[i].number \notin Numbers(r)
  BY <1>1, <1>3, <1>4, SMTT(30) DEF Distinct, Numbers
<1>12. QED
  BY <1>1, <1>2, <1>9, <1>10, <1>11 DEF r

\* The first of a queue and what is behind it.
LEMMA HeadAndTail ==
  ASSUME NEW q \in Seq(Frames), q # <<>>
  PROVE  /\ Head(q) \in Frames /\ Tail(q) \in Seq(Frames)
         /\ Head(q) \in ToSet(q)
         /\ Len(Tail(q)) = Len(q) - 1 /\ Len(q) \in Nat
         /\ Bytes(q) = Bytes(Tail(q)) + Head(q).size
         /\ Numbers(q) = Numbers(Tail(q)) \cup {Head(q).number}
         /\ Distinct(q) => Distinct(Tail(q)) /\ Head(q).number \notin Numbers(Tail(q))
<1> DEFINE m == 1
<1>1. Len(q) \in Nat /\ m \in 0..Len(q) /\ m \in 1..Len(q)
  BY EmptySeq
<1>2. Head(q) = q[m] /\ Tail(q) \in Seq(Frames) /\ Len(Tail(q)) = Len(q) - 1
  OBVIOUS
<1>3. Tail(q) = SubSeq(q, m + 1, Len(q))
  OBVIOUS
<1>4. RemoveAt(q, m) = Tail(q)
  <2>1. SubSeq(q, 1, m - 1) = <<>>
    BY SubSeqEmpty
  <2>2. <<>> \o Tail(q) = Tail(q)
    BY <1>2, ConcatEmptySeq
  <2>3. QED
    BY <1>3, <2>1, <2>2 DEF RemoveAt
<1>5. Append(<<>>, q[m]) = SubSeq(q, 1, m)
  BY <1>1
<1>6. q[m] \in ToSet(q)
  BY <1>1 DEF ToSet
<1> HIDE DEF m
<1>7. /\ q[m] \in Frames
      /\ Numbers(q) = Numbers(Tail(q)) \cup {q[m].number}
      /\ Distinct(q) => Distinct(Tail(q)) /\ q[m].number \notin Numbers(Tail(q))
  <2>1. /\ q[m] \in Frames
        /\ Numbers(q) = Numbers(RemoveAt(q, m)) \cup {q[m].number}
        /\ Distinct(q) => Distinct(RemoveAt(q, m))
        /\ Distinct(q) => q[m].number \notin Numbers(RemoveAt(q, m))
    BY <1>1, NumbersOfRemoveAt
  <2>2. QED
    BY <1>4, <2>1, Zenon
<1>8. Bytes(q) = Bytes(Tail(q)) + q[m].size
  <2>1. Bytes(q) = Bytes(SubSeq(q, 1, m)) + Bytes(Tail(q))
    BY <1>1, <1>3, BytesOfParts
  <2>2. <<>> \in Seq(Frames)
    OBVIOUS
  <2>3. Bytes(SubSeq(q, 1, m)) = Bytes(<<>>) + q[m].size
    BY <1>5, <1>7, <2>2, BytesOfAppend
  <2>4. q[m].size \in Nat /\ Bytes(Tail(q)) \in Nat
    BY <1>2, <1>7, BytesType, SizesAreNaturals
  <2>5. QED
    BY <2>1, <2>3, <2>4, BytesOfNone
<1>9. QED
  BY <1>1, <1>2, <1>6, <1>7, <1>8

-----------------------------------------------------------------------------
(***************************************************************************)
(* The types and the limit of the queue.  A handler that has passed        *)
(* over_limit and not pushed yet has a place in the queue reserved: the    *)
(* queue and the handlers that have one are what stays within the limit,   *)
(* plus one for every thread but the one that came first.                  *)
(***************************************************************************)
Admitted(h) == h.at \in {"admit", "count", "add", "push"}

Admissions == {t \in Threads : Admitted(handler[t])}

QueueFits ==
  Len(write_queue) + Cardinality(Admissions) <= WsMaxPendingMessages + IoThreads - 1

SendPlaces == {"check", "loop", "last", "closing", "admit", "count", "add", "push"}

\* A handler has a frame if it is one of send before its push.
HandlersHold ==
  \A t \in Threads :
    /\ handler[t].at \in SendPlaces => handler[t].frame \in Frames
    /\ handler[t].at \in {"rest", "start", "more"} => handler[t].frame = NoFrame

StreamInv == StreamTypeOK /\ HandlersHold /\ QueueFits

Handlers == [at : Places, frame : Frames \cup {NoFrame}, load : Int,
             front : Sizes \cup {0}, empty : BOOLEAN]

LEMMA RestIs == Rest \in Handlers /\ Rest.at = "rest" /\ Rest.frame = NoFrame
  BY DEF Rest, Handlers, Places

LEMMA HandlerFields ==
  \A h \in Handlers : /\ h.load \in Int /\ h.front \in Nat /\ h.empty \in BOOLEAN
                      /\ h.frame \in Frames \cup {NoFrame}
<1>1. Sizes \cup {0} \subseteq Nat
  BY StreamAssumption
<1>2. QED
  BY <1>1 DEF Handlers

\* A handler moves on and leaves what it loaded.
Unloaded(h, place) == [h EXCEPT !.at = place, !.load = 0]

LEMMA UnloadedFacts ==
  ASSUME NEW h \in Handlers, NEW place \in Places
  PROVE  /\ Unloaded(h, place) \in Handlers
         /\ Unloaded(h, place).at = place
         /\ Unloaded(h, place).frame = h.frame
<1> DEFINE load == 0
<1>1. load \in Int
  OBVIOUS
<1> HIDE DEF load
<1> DEFINE r == [h EXCEPT !.at = place, !.load = load]
<1>2. r \in Handlers /\ r.at = place /\ r.frame = h.frame
  BY <1>1 DEF Handlers
<1>3. Unloaded(h, place) = r
  BY DEF Unloaded, load
<1> HIDE DEF r
<1>4. QED
  BY <1>2, <1>3

\* A step of one thread, with the handler it leaves behind.
Moves(t, h) == handler' = [handler EXCEPT ![t] = h]

LEMMA AdmissionsAreCounted ==
  ASSUME NEW S \in SUBSET Threads
  PROVE  /\ IsFiniteSet(S) /\ Cardinality(S) \in Nat /\ Cardinality(S) <= IoThreads
         /\ \A t \in S : Cardinality(S \ {t}) = Cardinality(S) - 1
<1>1. IsFiniteSet(Threads) /\ Cardinality(Threads) = IoThreads
  <2>1. 1 \in Int /\ IoThreads \in Nat \ {0} /\ IoThreads \in Int
    BY StreamAssumption
  <2>2. IsFiniteSet(1..IoThreads)
    BY <2>1, FS_Interval
  <2>3. Cardinality(1..IoThreads) = IF 1 > IoThreads THEN 0 ELSE IoThreads - 1 + 1
    BY <2>1, FS_Interval
  <2>4. QED
    BY <2>1, <2>2, <2>3 DEF Threads
<1>2. IsFiniteSet(S) /\ Cardinality(S) <= IoThreads
  BY <1>1, FS_Subset
<1>3. Cardinality(S) \in Nat
  BY <1>2, FS_CardinalityType
<1>4. \A t \in S : Cardinality(S \ {t}) = Cardinality(S) - 1
  <2> SUFFICES ASSUME NEW t \in S PROVE Cardinality(S \ {t}) = Cardinality(S) - 1
    OBVIOUS
  <2>1. QED
    BY <1>2, FS_RemoveElement
<1>5. QED
  BY <1>2, <1>3, <1>4

\* What every step of a handler does to the invariant: the frame it holds fits
\* its place, and the queue grows by no more than the places that are given up.
LEMMA MovesKeepInv ==
  ASSUME StreamInv, NEW t \in Threads, NEW h \in Handlers, Moves(t, h),
         h.at \in SendPlaces => h.frame \in Frames,
         h.at \in {"rest", "start", "more"} => h.frame = NoFrame,
         UNCHANGED <<ws_backpressure_policy, broadcasts, reading>>,
         posted' \in Seq(Frames), write_queue' \in Seq(Frames), pending_bytes' \in Int,
         writing' \in Seq(Frames), sent' \in Seq(Frames), dropped' \subseteq Frames,
         open' \in BOOLEAN, undefined' \in BOOLEAN, races' \subseteq {"empty", "bytes"},
         \/ Len(write_queue') <= Len(write_queue) /\ (Admitted(h) => Admitted(handler[t]))
         \/ Len(write_queue') = Len(write_queue) + 1 /\ Admitted(handler[t]) /\ ~Admitted(h)
         \/ Len(write_queue) < WsMaxPendingMessages /\ Len(write_queue') = Len(write_queue)
  PROVE  StreamInv'
<1>1. handler \in [Threads -> Handlers]
  BY DEF StreamInv, StreamTypeOK, Handlers
<1>2. /\ handler' \in [Threads -> Handlers]
      /\ handler'[t] = h /\ \A u \in Threads : u # t => handler'[u] = handler[u]
  BY <1>1 DEF Moves
<1>3. HandlersHold'
  BY <1>2 DEF HandlersHold, StreamInv
<1>4. /\ Len(write_queue) \in Nat /\ Len(write_queue') \in Nat
      /\ WsMaxPendingMessages \in Nat /\ IoThreads \in Nat
  <2>1. write_queue \in Seq(Frames) /\ write_queue' \in Seq(Frames)
    BY DEF StreamInv, StreamTypeOK
  <2>2. Len(write_queue) \in Nat /\ Len(write_queue') \in Nat
    BY <2>1, LenProperties
  <2>3. QED
    BY <2>2, StreamAssumption
<1>5. Admissions \in SUBSET Threads /\ Admissions' \in SUBSET Threads
  BY DEF Admissions
<1>6. /\ Cardinality(Admissions) \in Nat /\ Cardinality(Admissions') \in Nat
      /\ Cardinality(Admissions') <= IoThreads
      /\ IsFiniteSet(Admissions) /\ IsFiniteSet(Admissions')
  BY <1>5, AdmissionsAreCounted
<1>7. Len(write_queue) + Cardinality(Admissions) <= WsMaxPendingMessages + IoThreads - 1
  BY DEF StreamInv, QueueFits
<1>8. QueueFits'
  <2>1. CASE Len(write_queue') <= Len(write_queue) /\ (Admitted(h) => Admitted(handler[t]))
    <3>1. Admissions' \subseteq Admissions
      BY <1>2, <2>1 DEF Admissions
    <3>2. Cardinality(Admissions') <= Cardinality(Admissions)
      BY <1>6, <3>1, FS_Subset
    <3>3. Len(write_queue') + Cardinality(Admissions') <= WsMaxPendingMessages + IoThreads - 1
      BY <1>4, <1>6, <1>7, <2>1, <3>2
    <3>4. QED
      BY <3>3 DEF QueueFits
  <2>2. CASE Len(write_queue') = Len(write_queue) + 1 /\ Admitted(handler[t]) /\ ~Admitted(h)
    <3>1. t \in Admissions /\ Admissions' = Admissions \ {t}
      BY <1>2, <2>2 DEF Admissions
    <3>2. Cardinality(Admissions') = Cardinality(Admissions) - 1
      BY <1>5, <3>1, AdmissionsAreCounted
    <3>3. Len(write_queue') + Cardinality(Admissions') <= WsMaxPendingMessages + IoThreads - 1
      BY <1>4, <1>6, <1>7, <2>2, <3>2
    <3>4. QED
      BY <3>3 DEF QueueFits
  <2>3. CASE Len(write_queue) < WsMaxPendingMessages /\ Len(write_queue') = Len(write_queue)
    <3>1. Len(write_queue') + Cardinality(Admissions') <= WsMaxPendingMessages + IoThreads - 1
      BY <1>4, <1>6, <2>3
    <3>2. QED
      BY <3>1 DEF QueueFits
  <2>4. QED
    BY <2>1, <2>2, <2>3
<1>9. Len(write_queue') <= WsMaxPendingMessages + IoThreads - 1
  <2>1. Len(write_queue') + Cardinality(Admissions') <= WsMaxPendingMessages + IoThreads - 1
    BY <1>8 DEF QueueFits
  <2>2. QED
    BY <1>4, <1>6, <2>1
<1>10. StreamTypeOK'
  BY <1>2, <1>9 DEF StreamTypeOK, StreamInv, Handlers
<1>11. QED
  BY <1>3, <1>8, <1>10 DEF StreamInv

LEMMA HandlerTypes ==
  ASSUME StreamInv, NEW t \in Threads
  PROVE  /\ handler \in [Threads -> Handlers] /\ handler[t] \in Handlers
         /\ posted \in Seq(Frames) /\ write_queue \in Seq(Frames) /\ pending_bytes \in Int
         /\ writing \in Seq(Frames) /\ sent \in Seq(Frames) /\ dropped \subseteq Frames
         /\ open \in BOOLEAN /\ undefined \in BOOLEAN /\ races \subseteq {"empty", "bytes"}
         /\ handler[t].at \in SendPlaces => handler[t].frame \in Frames
         /\ handler[t].at \in {"rest", "start", "more"} => handler[t].frame = NoFrame
         /\ Len(write_queue) \in Nat
         /\ Rest \in Handlers
<1>1. handler \in [Threads -> Handlers] /\ write_queue \in Seq(Frames)
  BY DEF StreamInv, StreamTypeOK, Handlers
<1>2. Rest \in Handlers
  BY DEF Rest, Handlers, Places
<1>3. QED
  BY <1>1, <1>2 DEF StreamInv, StreamTypeOK, HandlersHold

\* A step that only reads the queue and the counter.
LEMMA ReadingKeepsInv ==
  ASSUME StreamInv, NEW t \in Threads, NEW h \in Handlers, Moves(t, h),
         h.at \in SendPlaces => h.frame \in Frames,
         h.at \in {"rest", "start", "more"} => h.frame = NoFrame,
         UNCHANGED <<sessionVars, posted, write_queue, pending_bytes, writing, sent,
                     undefined>>,
         open' \in BOOLEAN, dropped' \subseteq Frames, races' \subseteq {"empty", "bytes"},
         \/ Admitted(h) => Admitted(handler[t])
         \/ Len(write_queue) < WsMaxPendingMessages
  PROVE  StreamInv'
<1>1. /\ posted' \in Seq(Frames) /\ write_queue' \in Seq(Frames) /\ pending_bytes' \in Int
      /\ writing' \in Seq(Frames) /\ sent' \in Seq(Frames) /\ undefined' \in BOOLEAN
      /\ UNCHANGED <<ws_backpressure_policy, broadcasts, reading>>
      /\ Len(write_queue) \in Nat /\ Len(write_queue') = Len(write_queue)
  BY HandlerTypes DEF sessionVars
<1>2. QED
  BY <1>1, MovesKeepInv

LEMMA CheckInv ==
  ASSUME StreamInv, NEW t \in Threads, Check(t)
  PROVE  StreamInv'
<1> DEFINE f == handler[t].frame
<1>1. f \in Frames
  BY HandlerTypes DEF Check, At, SendPlaces
<1>2. handler[t] \in Handlers /\ dropped \subseteq Frames /\ open \in BOOLEAN
      /\ Rest \in Handlers /\ Len(write_queue) \in Nat /\ races \subseteq {"empty", "bytes"}
  BY HandlerTypes
<1>3. UNCHANGED <<sessionVars, posted, write_queue, pending_bytes, writing, sent, undefined>>
      /\ races' = races
  BY DEF Check
<1>4. ASSUME NEW place \in {"admit", "loop", "closing"}, Goes(t, place),
             place = "admit" => Len(write_queue) < WsMaxPendingMessages,
             open' \in BOOLEAN, dropped' \subseteq Frames
      PROVE  StreamInv'
  <2> DEFINE h == [handler[t] EXCEPT !.at = place]
  <2>1. h \in Handlers /\ h.at = place /\ h.frame = f
    BY <1>2 DEF Handlers, Places
  <2>2. Moves(t, h)
    BY <1>4 DEF Goes, Moves
  <2> HIDE DEF h
  <2>3. Admitted(h) => place = "admit"
    BY <2>1 DEF Admitted
  <2>4. QED
    BY <1>1, <1>2, <1>3, <1>4, <2>1, <2>2, <2>3, ReadingKeepsInv
<1>5. ASSUME ~OverLimit(f) PROVE StreamInv'
  <2>1. Goes(t, "admit") /\ open' = open /\ dropped' = dropped
    BY <1>5 DEF Check
  <2>2. Len(write_queue) < WsMaxPendingMessages
    BY <1>2, <1>5, StreamAssumption DEF OverLimit
  <2>3. QED
    BY <1>2, <1>4, <2>1, <2>2
<1>6. ASSUME Drop(t), Ends(t), open' = open PROVE StreamInv'
  <2>1. dropped' \subseteq Frames /\ Moves(t, Rest) /\ Rest.at = "rest" /\ Rest.frame = NoFrame
    BY <1>1, <1>2, <1>6 DEF Drop, Ends, Moves, Rest
  <2>2. ~Admitted(Rest) /\ Rest.at \notin SendPlaces
    BY <2>1 DEF Admitted, SendPlaces
  <2>3. QED
    BY <1>2, <1>3, <1>6, <2>1, <2>2, ReadingKeepsInv
<1>7. ASSUME Goes(t, "loop"), open' = open, dropped' = dropped PROVE StreamInv'
  BY <1>2, <1>4, <1>7
<1>8. ASSUME open' = FALSE, dropped' = dropped, Goes(t, "closing") PROVE StreamInv'
  BY <1>2, <1>4, <1>8
<1>9. QED
  BY <1>5, <1>6, <1>7, <1>8 DEF Check

LEMMA LoopInv ==
  ASSUME StreamInv, NEW t \in Threads, Loop(t) \/ StillOver(t) \/ CloseReturns(t)
  PROVE  StreamInv'
<1> DEFINE f == handler[t].frame
<1>1. f \in Frames
  BY HandlerTypes DEF Loop, StillOver, CloseReturns, At, SendPlaces
<1>2. handler[t] \in Handlers /\ dropped \subseteq Frames /\ open \in BOOLEAN
      /\ Rest \in Handlers /\ Len(write_queue) \in Nat /\ races \subseteq {"empty", "bytes"}
  BY HandlerTypes
<1>3. UNCHANGED <<sessionVars, posted, write_queue, pending_bytes, writing, sent, undefined>>
      /\ races' = races /\ open' = open
  BY DEF Loop, StillOver, CloseReturns
<1>4. ASSUME NEW place \in {"admit", "load", "last"}, Goes(t, place),
             place = "admit" => Len(write_queue) < WsMaxPendingMessages, dropped' = dropped
      PROVE  StreamInv'
  <2> DEFINE h == [handler[t] EXCEPT !.at = place]
  <2>1. h \in Handlers /\ h.at = place /\ h.frame = f
    BY <1>2 DEF Handlers, Places
  <2>2. Moves(t, h)
    BY <1>4 DEF Goes, Moves
  <2> HIDE DEF h
  <2>3. Admitted(h) => place = "admit"
    BY <2>1 DEF Admitted
  <2>4. h.at \notin {"rest", "start", "more"}
    BY <2>1
  <2>5. open' \in BOOLEAN /\ dropped' \subseteq Frames /\ races' \subseteq {"empty", "bytes"}
    BY <1>2, <1>3, <1>4
  <2>6. (Admitted(h) => Admitted(handler[t])) \/ Len(write_queue) < WsMaxPendingMessages
    BY <1>4, <2>3
  <2>7. QED
    BY <1>1, <1>3, <2>1, <2>2, <2>4, <2>5, <2>6, ReadingKeepsInv
<1>5. ASSUME Loop(t) PROVE StreamInv'
  <2>1. dropped' = dropped /\ (Goes(t, "load") \/ Goes(t, "last"))
    BY <1>5 DEF Loop
  <2>2. QED
    BY <1>4, <2>1
<1>6. ASSUME (StillOver(t) /\ OverLimit(f)) \/ CloseReturns(t) PROVE StreamInv'
  <2>1. Drop(t) /\ Ends(t)
    BY <1>6 DEF StillOver, CloseReturns
  <2>2. dropped' \subseteq Frames /\ Moves(t, Rest) /\ Rest.at = "rest" /\ Rest.frame = NoFrame
    BY <1>1, <1>2, <2>1 DEF Drop, Ends, Moves, Rest
  <2>3. ~Admitted(Rest) /\ Rest.at \notin SendPlaces
    BY <2>2 DEF Admitted, SendPlaces
  <2>4. QED
    BY <1>2, <1>3, <2>2, <2>3, ReadingKeepsInv
<1>7. ASSUME StillOver(t), ~OverLimit(f) PROVE StreamInv'
  <2>1. Goes(t, "admit") /\ dropped' = dropped
    BY <1>7 DEF StillOver
  <2>2. Len(write_queue) < WsMaxPendingMessages
    BY <1>2, <1>7, StreamAssumption DEF OverLimit
  <2>3. QED
    BY <1>4, <2>1, <2>2
<1>8. QED
  BY <1>5, <1>6, <1>7

\* What the remaining handlers leave behind.
LEMMA ReadsInv ==
  ASSUME StreamInv, NEW t \in Threads, Admit(t) \/ Count(t) \/ Load(t) \/ More(t)
  PROVE  StreamInv'
<1>1. /\ UNCHANGED <<sessionVars, posted, write_queue, pending_bytes, writing, sent, undefined>>
      /\ open' = open /\ dropped' = dropped
      /\ races' = races \/ races' = races \cup {"empty"}
  BY DEF Admit, Count, Load, More, Raced
<1>2. /\ handler[t] \in Handlers /\ Rest \in Handlers
      /\ open' \in BOOLEAN /\ dropped' \subseteq Frames /\ races' \subseteq {"empty", "bytes"}
      /\ pending_bytes \in Int /\ write_queue \in Seq(Frames)
      /\ handler[t].at \in SendPlaces => handler[t].frame \in Frames
      /\ handler[t].at \in {"rest", "start", "more"} => handler[t].frame = NoFrame
  BY <1>1, HandlerTypes
<1>3. ASSUME Admit(t) PROVE StreamInv'
  <2> DEFINE h == [handler[t] EXCEPT !.at = "count", !.empty = (write_queue = <<>>)]
  <2>1. Moves(t, h) /\ handler[t].at = "admit"
    BY <1>3 DEF Admit, At, Moves
  <2>2. h \in Handlers /\ h.at = "count" /\ h.frame = handler[t].frame
    <3>1. (write_queue = <<>>) \in BOOLEAN
      OBVIOUS
    <3>2. QED
      BY <1>2, <3>1 DEF Handlers, Places
  <2> HIDE DEF h
  <2>3. h.frame \in Frames /\ Admitted(handler[t])
    BY <1>2, <2>1, <2>2 DEF SendPlaces, Admitted
  <2>4. h.at \notin {"rest", "start", "more"}
    BY <2>2
  <2>5. QED
    BY <1>1, <1>2, <2>1, <2>2, <2>3, <2>4, ReadingKeepsInv
<1>4. ASSUME Count(t) PROVE StreamInv'
  <2> DEFINE h == [handler[t] EXCEPT !.at = "add", !.load = pending_bytes]
  <2>1. Moves(t, h) /\ handler[t].at = "count"
    BY <1>4 DEF Count, At, Moves
  <2>2. h \in Handlers /\ h.at = "add" /\ h.frame = handler[t].frame
    BY <1>2 DEF Handlers, Places
  <2> HIDE DEF h
  <2>3. h.frame \in Frames /\ Admitted(handler[t])
    BY <1>2, <2>1, <2>2 DEF SendPlaces, Admitted
  <2>4. h.at \notin {"rest", "start", "more"}
    BY <2>2
  <2>5. QED
    BY <1>1, <1>2, <2>1, <2>2, <2>3, <2>4, ReadingKeepsInv
<1>5. ASSUME Load(t) PROVE StreamInv'
  <2> DEFINE h == [handler[t] EXCEPT !.at = "subtract", !.load = pending_bytes,
                                     !.front = Head(write_queue).size]
  <2>1. Moves(t, h) /\ write_queue # <<>>
    BY <1>5 DEF Load, Moves
  <2>2. Head(write_queue).size \in Sizes
    BY <1>2, <2>1, HeadAndTail DEF Frames
  <2>3. h \in Handlers /\ h.at = "subtract"
    BY <1>2, <2>2 DEF Handlers, Places
  <2> HIDE DEF h
  <2>4. h.at \notin SendPlaces /\ h.at \notin {"rest", "start", "more"} /\ ~Admitted(h)
    BY <2>3 DEF SendPlaces, Admitted
  <2>5. QED
    BY <1>1, <1>2, <2>1, <2>3, <2>4, ReadingKeepsInv
<1>6. ASSUME NEW h \in {Rest, [Rest EXCEPT !.at = "start"]}, Moves(t, h) PROVE StreamInv'
  <2>1. h \in Handlers /\ h.at \in {"rest", "start"} /\ h.frame = NoFrame
    BY RestIs DEF Handlers, Places
  <2>2. h.at \notin SendPlaces /\ ~Admitted(h)
    BY <2>1 DEF SendPlaces, Admitted
  <2>3. QED
    BY <1>1, <1>2, <1>6, <2>1, <2>2, ReadingKeepsInv
<1>7. ASSUME More(t) PROVE StreamInv'
  <2>1. Moves(t, Rest) \/ Moves(t, [Rest EXCEPT !.at = "start"])
    BY <1>7 DEF More, Moves
  <2>2. QED
    BY <1>6, <2>1
<1>8. QED
  BY <1>3, <1>4, <1>5, <1>7

LEMMA TakeUpInv ==
  ASSUME StreamInv, NEW t \in Threads, TakeUp(t)
  PROVE  StreamInv'
<1> DEFINE f == Head(posted)
           h == [Rest EXCEPT !.at = "check", !.frame = f]
<1>1. /\ Moves(t, h) /\ posted # <<>> /\ posted' = Tail(posted)
      /\ UNCHANGED <<sessionVars, write_queue, pending_bytes, writing, open, sent, dropped,
                     undefined, races>>
  BY DEF TakeUp, Moves
<1>2. posted' \in Seq(Frames) /\ f \in Frames
  BY <1>1, HandlerTypes, HeadAndTail
<1>3. h \in Handlers /\ h.at = "check" /\ h.frame = f
  <2>1. "check" \in Places
    BY DEF Places
  <2>2. QED
    BY <1>2, RestIs DEF Handlers, Places
<1> HIDE DEF h, f
<1>4. h.at \notin {"rest", "start", "more"} /\ ~Admitted(h)
  BY <1>3 DEF Admitted
<1>5. /\ UNCHANGED <<ws_backpressure_policy, broadcasts, reading>>
      /\ write_queue' \in Seq(Frames) /\ pending_bytes' \in Int
      /\ writing' \in Seq(Frames) /\ sent' \in Seq(Frames) /\ dropped' \subseteq Frames
      /\ open' \in BOOLEAN /\ undefined' \in BOOLEAN /\ races' \subseteq {"empty", "bytes"}
      /\ Len(write_queue') <= Len(write_queue)
  BY <1>1, HandlerTypes DEF sessionVars
<1>6. QED
  BY <1>1, <1>2, <1>3, <1>4, <1>5, MovesKeepInv

\* The counter is stored.
LEMMA StoresInv ==
  ASSUME StreamInv, NEW t \in Threads, Add(t) \/ Subtract(t)
  PROVE  StreamInv'
<1>1. /\ UNCHANGED <<sessionVars, posted, write_queue, writing, open, sent, dropped, undefined>>
      /\ races' = races \/ races' = races \cup {"bytes"}
  BY DEF Add, Subtract, Raced
<1>2. /\ handler[t] \in Handlers /\ write_queue \in Seq(Frames)
      /\ handler[t].at \in SendPlaces => handler[t].frame \in Frames
  BY HandlerTypes
<1>3. /\ UNCHANGED <<ws_backpressure_policy, broadcasts, reading>>
      /\ posted' \in Seq(Frames) /\ write_queue' \in Seq(Frames)
      /\ writing' \in Seq(Frames) /\ sent' \in Seq(Frames) /\ dropped' \subseteq Frames
      /\ open' \in BOOLEAN /\ undefined' \in BOOLEAN /\ races' \subseteq {"empty", "bytes"}
      /\ Len(write_queue') <= Len(write_queue)
  BY <1>1, HandlerTypes DEF sessionVars
<1>4. handler[t].load \in Int /\ handler[t].front \in Nat
  <2>1. handler[t].front \in Nat
    BY <1>2, HandlerFields
  <2>2. handler[t].load \in Int
    BY <1>2, HandlerFields
  <2>3. QED
    BY <2>1, <2>2
<1>5. ASSUME Add(t) PROVE StreamInv'
  <2> DEFINE h == Unloaded(handler[t], "push")
  <2>1. /\ Moves(t, h) /\ handler[t].at = "add"
        /\ pending_bytes' = handler[t].load + handler[t].frame.size
    BY <1>5 DEF Add, At, Moves, Unloaded
  <2>2. handler[t].frame \in Frames /\ Admitted(handler[t])
    BY <1>2, <2>1 DEF SendPlaces, Admitted
  <2>3. pending_bytes' \in Int
    BY <1>4, <2>1, <2>2, SizesAreNaturals
  <2>4. "push" \in Places
    BY DEF Places
  <2>5. h \in Handlers /\ h.at = "push" /\ h.frame = handler[t].frame
    BY <1>2, <2>4, UnloadedFacts
  <2> HIDE DEF h
  <2>6. h.at \notin {"rest", "start", "more"}
    BY <2>5
  <2>7. QED
    BY <1>3, <2>1, <2>2, <2>3, <2>5, <2>6, MovesKeepInv
<1>6. ASSUME Subtract(t) PROVE StreamInv'
  <2> DEFINE h == Unloaded(handler[t], "pop")
  <2>1. Moves(t, h) /\ pending_bytes' = handler[t].load - handler[t].front
    BY <1>6 DEF Subtract, Moves, Unloaded
  <2>2. pending_bytes' \in Int
    BY <1>4, <2>1
  <2>3. "pop" \in Places
    BY DEF Places
  <2>4. h \in Handlers /\ h.at = "pop"
    BY <1>2, <2>3, UnloadedFacts
  <2> HIDE DEF h
  <2>5. h.at \notin SendPlaces /\ h.at \notin {"rest", "start", "more"} /\ ~Admitted(h)
    BY <2>4 DEF SendPlaces, Admitted
  <2>6. QED
    BY <1>3, <2>1, <2>2, <2>4, <2>5, MovesKeepInv
<1>7. QED
  BY <1>5, <1>6

LEMMA PushInv ==
  ASSUME StreamInv, NEW t \in Threads, Push(t)
  PROVE  StreamInv'
<1> DEFINE f == handler[t].frame
           h == IF StartsWriting(t) THEN [Rest EXCEPT !.at = "start"] ELSE Rest
<1>1. /\ handler[t].at = "push" /\ Moves(t, h) /\ write_queue' = Append(write_queue, f)
      /\ UNCHANGED <<sessionVars, posted, pending_bytes, writing, open, sent, dropped, undefined>>
      /\ races' = races \/ races' = races \cup {"empty"}
  BY DEF Push, At, Moves, Raced
<1>2. h \in Handlers /\ h.at \in {"rest", "start"} /\ h.frame = NoFrame
  <2>1. "start" \in Places
    BY DEF Places
  <2>2. CASE StartsWriting(t)
    <3>1. h = [Rest EXCEPT !.at = "start"]
      BY <2>2
    <3>2. QED
      BY <3>1, RestIs DEF Handlers, Places
  <2>3. CASE ~StartsWriting(t)
    <3>1. h = Rest
      BY <2>3
    <3>2. QED
      BY <3>1, RestIs
  <2>4. QED
    BY <2>2, <2>3
<1> HIDE DEF h
<1>3. h.at \notin SendPlaces /\ ~Admitted(h) /\ Admitted(handler[t])
  BY <1>1, <1>2 DEF SendPlaces, Admitted
<1>4. f \in Frames
  BY <1>1, HandlerTypes DEF SendPlaces
<1>5. write_queue' \in Seq(Frames) /\ Len(write_queue') = Len(write_queue) + 1
  BY <1>1, <1>4, HandlerTypes, AppendProperties
<1>6. /\ UNCHANGED <<ws_backpressure_policy, broadcasts, reading>>
      /\ posted' \in Seq(Frames) /\ pending_bytes' \in Int
      /\ writing' \in Seq(Frames) /\ sent' \in Seq(Frames) /\ dropped' \subseteq Frames
      /\ open' \in BOOLEAN /\ undefined' \in BOOLEAN /\ races' \subseteq {"empty", "bytes"}
  BY <1>1, HandlerTypes DEF sessionVars
<1>7. QED
  BY <1>1, <1>2, <1>3, <1>5, <1>6, MovesKeepInv

LEMMA StartInv ==
  ASSUME StreamInv, NEW t \in Threads, Start(t)
  PROVE  StreamInv'
<1>1. /\ Moves(t, Rest)
      /\ writing' = writing \/ (write_queue # <<>> /\ writing' = Append(writing, Head(write_queue)))
      /\ UNCHANGED <<sessionVars, posted, write_queue, pending_bytes, open, sent, dropped,
                     undefined, races>>
  BY DEF Start, Ends, Moves
<1>2. Rest \in Handlers /\ Rest.at = "rest" /\ Rest.frame = NoFrame
  BY HandlerTypes DEF Rest
<1>3. Rest.at \notin SendPlaces /\ ~Admitted(Rest)
  BY <1>2 DEF SendPlaces, Admitted
<1>4. writing' \in Seq(Frames)
  <2>1. writing \in Seq(Frames) /\ write_queue \in Seq(Frames)
    BY HandlerTypes
  <2>2. CASE writing' = writing
    BY <2>1, <2>2
  <2>3. CASE write_queue # <<>> /\ writing' = Append(writing, Head(write_queue))
    <3>1. Head(write_queue) \in Frames
      BY <2>1, <2>3, HeadAndTail
    <3>2. QED
      BY <2>1, <2>3, <3>1, AppendProperties
  <2>4. QED
    BY <1>1, <2>2, <2>3
<1>5. /\ UNCHANGED <<ws_backpressure_policy, broadcasts, reading>>
      /\ posted' \in Seq(Frames) /\ pending_bytes' \in Int /\ write_queue' \in Seq(Frames)
      /\ sent' \in Seq(Frames) /\ dropped' \subseteq Frames
      /\ open' \in BOOLEAN /\ undefined' \in BOOLEAN /\ races' \subseteq {"empty", "bytes"}
      /\ Len(write_queue') <= Len(write_queue)
  BY <1>1, HandlerTypes DEF sessionVars
<1>6. QED
  BY <1>1, <1>2, <1>3, <1>4, <1>5, MovesKeepInv

\* What a pop leaves of the queue fits.
LEMMA PopKeepsInv ==
  ASSUME StreamInv, NEW t \in Threads, NEW h \in Handlers, Moves(t, h),
         h.at \in SendPlaces => h.frame \in Frames,
         h.at \in {"rest", "start", "more"} => h.frame = NoFrame,
         ~Admitted(h), write_queue # <<>>, write_queue' = Tail(write_queue),
         dropped' = dropped \/ dropped' = dropped \cup {Head(write_queue)},
         UNCHANGED <<sessionVars, posted, pending_bytes, writing, open, sent, undefined>>,
         races' = races \/ races' = races \cup {"bytes"}
  PROVE  StreamInv'
<1>1. /\ write_queue' \in Seq(Frames) /\ Head(write_queue) \in Frames
      /\ Len(write_queue') <= Len(write_queue)
  BY HandlerTypes, HeadAndTail
<1>2. /\ UNCHANGED <<ws_backpressure_policy, broadcasts, reading>>
      /\ posted' \in Seq(Frames) /\ pending_bytes' \in Int
      /\ writing' \in Seq(Frames) /\ sent' \in Seq(Frames) /\ dropped' \subseteq Frames
      /\ open' \in BOOLEAN /\ undefined' \in BOOLEAN /\ races' \subseteq {"empty", "bytes"}
  BY <1>1, HandlerTypes DEF sessionVars
<1>3. QED
  BY <1>1, <1>2, MovesKeepInv

\* The handler that a pop leaves behind.
AfterPop(t) ==
  IF Sending(t) THEN [handler[t] EXCEPT !.at = "loop", !.front = 0]
                ELSE [Rest EXCEPT !.at = "more", !.empty = (Tail(write_queue) = <<>>)]

LEMMA PopInv ==
  ASSUME StreamInv, NEW t \in Threads, Pop(t)
  PROVE  StreamInv'
<1> DEFINE h == AfterPop(t)
<1>1. /\ Moves(t, h) /\ write_queue # <<>> /\ write_queue' = Tail(write_queue)
      /\ dropped' = dropped \/ dropped' = dropped \cup {Head(write_queue)}
      /\ UNCHANGED <<sessionVars, posted, pending_bytes, writing, open, sent, undefined>>
      /\ races' = races \/ races' = races \cup {"bytes"}
  BY DEF Pop, Moves, AfterPop, Raced
<1>2. handler[t] \in Handlers
  BY HandlerTypes
<1>3. /\ Sending(t) => handler[t].frame \in Frames
      /\ handler[t].frame \in Frames \cup {NoFrame}
  BY <1>2 DEF Sending, Handlers
<1>4. CASE Sending(t)
  <2>1. h = [handler[t] EXCEPT !.at = "loop", !.front = 0]
    BY <1>4 DEF AfterPop
  <2>2. h \in Handlers /\ h.at = "loop" /\ h.frame \in Frames
    BY <1>2, <1>3, <1>4, <2>1 DEF Handlers, Places
  <2> HIDE DEF h
  <2>3. h.at \notin {"rest", "start", "more"} /\ ~Admitted(h)
    BY <2>2 DEF Admitted
  <2>4. QED
    BY <1>1, <2>2, <2>3, PopKeepsInv
<1>5. CASE ~Sending(t)
  <2>1. h = [Rest EXCEPT !.at = "more", !.empty = (Tail(write_queue) = <<>>)]
    BY <1>5 DEF AfterPop
  <2>2. h \in Handlers /\ h.at = "more" /\ h.frame = NoFrame
    <3>1. (Tail(write_queue) = <<>>) \in BOOLEAN /\ "more" \in Places
      BY DEF Places
    <3>2. QED
      BY <2>1, <3>1, RestIs DEF Handlers, Places
  <2> HIDE DEF h
  <2>3. h.at \notin SendPlaces /\ ~Admitted(h)
    BY <2>2 DEF SendPlaces, Admitted
  <2>4. QED
    BY <1>1, <2>2, <2>3, PopKeepsInv
<1>6. QED
  BY <1>4, <1>5

LEMMA OnWriteInv ==
  ASSUME StreamInv, NEW t \in Threads, NEW i \in DOMAIN writing, OnWrite(t, i)
  PROVE  StreamInv'
<1> DEFINE h == IF write_queue = <<>> THEN [Rest EXCEPT !.at = "more", !.empty = TRUE]
                                      ELSE [Rest EXCEPT !.at = "load"]
<1>1. /\ Moves(t, h) /\ writing' = RemoveAt(writing, i)
      /\ sent' = Append(sent, writing[i]) \/ sent' = sent
      /\ UNCHANGED <<sessionVars, posted, write_queue, pending_bytes, open, dropped,
                     undefined, races>>
  BY DEF OnWrite, Written, Moves
<1>2. h \in Handlers /\ h.at \in {"more", "load"} /\ h.frame = NoFrame
  <2>1. "more" \in Places /\ "load" \in Places /\ TRUE \in BOOLEAN
    BY DEF Places
  <2>2. CASE write_queue = <<>>
    <3>1. h = [Rest EXCEPT !.at = "more", !.empty = TRUE]
      BY <2>2
    <3>2. QED
      BY <3>1, RestIs DEF Handlers, Places
  <2>3. CASE write_queue # <<>>
    <3>1. h = [Rest EXCEPT !.at = "load"]
      BY <2>3
    <3>2. QED
      BY <3>1, RestIs DEF Handlers, Places
  <2>4. QED
    BY <2>2, <2>3
<1> HIDE DEF h
<1>3. h.at \notin SendPlaces /\ ~Admitted(h)
  BY <1>2 DEF SendPlaces, Admitted
<1>4. writing \in Seq(Frames) /\ i \in 1..Len(writing)
  BY HandlerTypes
<1>5. writing' \in Seq(Frames)
  BY <1>1, <1>4, RemoveAtFacts
<1>6. sent' \in Seq(Frames)
  <2>1. sent \in Seq(Frames) /\ writing[i] \in Frames
    BY <1>4, HandlerTypes
  <2>2. Append(sent, writing[i]) \in Seq(Frames)
    BY <2>1, AppendProperties
  <2>3. QED
    BY <1>1, <2>1, <2>2
<1>7. /\ UNCHANGED <<ws_backpressure_policy, broadcasts, reading>>
      /\ posted' \in Seq(Frames) /\ pending_bytes' \in Int /\ write_queue' \in Seq(Frames)
      /\ dropped' \subseteq Frames
      /\ open' \in BOOLEAN /\ undefined' \in BOOLEAN /\ races' \subseteq {"empty", "bytes"}
      /\ Len(write_queue') <= Len(write_queue)
  BY <1>1, HandlerTypes DEF sessionVars
<1>8. QED
  BY <1>1, <1>2, <1>3, <1>5, <1>6, <1>7, MovesKeepInv

\* The steps in which no handler moves.
LEMMA OthersInv ==
  ASSUME StreamInv, handler' = handler, write_queue' = write_queue,
         \/ \E size \in Sizes : Broadcast(size)
         \/ \E i \in DOMAIN writing : OnWriteFailed(i)
         \/ ConnectionBreaks \/ OnReadFailed \/ UNCHANGED streamVars
         \/ \E t \in Threads : UsesEmptyQueue(t)
  PROVE  StreamInv'
<1>1. /\ posted \in Seq(Frames) /\ writing \in Seq(Frames)
      /\ handler \in [Threads -> Handlers] /\ write_queue \in Seq(Frames)
      /\ pending_bytes \in Int /\ sent \in Seq(Frames) /\ dropped \subseteq Frames
      /\ Len(write_queue) <= WsMaxPendingMessages + IoThreads - 1
      /\ ws_backpressure_policy \in Policies /\ broadcasts \in 0..MaxFrames
      /\ reading \in BOOLEAN /\ open \in BOOLEAN /\ undefined \in BOOLEAN
      /\ races \subseteq {"empty", "bytes"}
  BY DEF StreamInv, StreamTypeOK, Handlers
<1>2. HandlersHold' /\ QueueFits'
  <2>1. Admissions' = Admissions
    BY DEF Admissions, Admitted
  <2>2. QED
    BY <2>1 DEF StreamInv, HandlersHold, QueueFits
<1>3. ASSUME NEW size \in Sizes, Broadcast(size) PROVE StreamTypeOK'
  <2> DEFINE f == [number |-> broadcasts + 1, size |-> size]
  <2>1. /\ broadcasts < MaxFrames /\ broadcasts' = broadcasts + 1
        /\ posted' = (IF Alive THEN Append(posted, f) ELSE posted)
        /\ UNCHANGED <<ws_backpressure_policy, reading, pending_bytes, writing, open, sent,
                       dropped, undefined, races>>
    BY <1>3 DEF Broadcast
  <2>2. broadcasts' \in 0..MaxFrames /\ f \in Frames
    BY <1>1, <2>1, StreamAssumption DEF Frames
  <2> HIDE DEF f
  <2>3. posted' \in Seq(Frames)
    BY <1>1, <2>1, <2>2, AppendProperties
  <2>4. QED
    BY <1>1, <2>1, <2>2, <2>3 DEF StreamTypeOK, Handlers
<1>4. ASSUME NEW i \in DOMAIN writing, OnWriteFailed(i) PROVE StreamTypeOK'
  <2>1. i \in 1..Len(writing)
    BY <1>1
  <2>2. writing' \in Seq(Frames)
    BY <1>1, <1>4, <2>1, RemoveAtFacts DEF OnWriteFailed
  <2>3. QED
    BY <1>1, <1>4, <2>2 DEF OnWriteFailed, sessionVars, StreamTypeOK, Handlers
<1>5. ASSUME ConnectionBreaks \/ OnReadFailed \/ UNCHANGED streamVars PROVE StreamTypeOK'
  BY <1>1, <1>5 DEF ConnectionBreaks, OnReadFailed, streamVars, sessionVars, StreamTypeOK, Handlers
<1>6. ASSUME NEW t \in Threads, UsesEmptyQueue(t) PROVE StreamTypeOK'
  BY <1>1, <1>6 DEF UsesEmptyQueue, sessionVars, StreamTypeOK, Handlers
<1>7. QED
  BY <1>2, <1>3, <1>4, <1>5, <1>6 DEF StreamInv

LEMMA StreamInvStep ==
  ASSUME StreamInv, [StreamNext]_streamVars
  PROVE  StreamInv'
<1>1. ASSUME NEW t \in Threads, TakeUp(t) \/ HandlerStep(t) \/ CloseReturns(t)
      PROVE  StreamInv'
  <2>1. CASE UsesEmptyQueue(t)
    <3>1. handler' = handler /\ write_queue' = write_queue
      BY <2>1 DEF UsesEmptyQueue
    <3>2. \E u \in Threads : UsesEmptyQueue(u)
      BY <2>1
    <3>3. QED
      BY <3>1, <3>2, OthersInv, Zenon
  <2>2. CASE ~UsesEmptyQueue(t)
    BY <1>1, <2>2, CheckInv, LoopInv, ReadsInv, TakeUpInv, StoresInv, PushInv, StartInv, PopInv
       DEF HandlerStep
  <2>3. QED
    BY <2>1, <2>2
<1>2. ASSUME NEW t \in Threads, NEW i \in DOMAIN writing, OnWrite(t, i) PROVE StreamInv'
  BY <1>2, OnWriteInv
<1>3. CASE \/ \E size \in Sizes : Broadcast(size)
           \/ \E i \in DOMAIN writing : OnWriteFailed(i)
           \/ ConnectionBreaks \/ OnReadFailed \/ UNCHANGED streamVars
  <2>1. handler' = handler /\ write_queue' = write_queue
    BY <1>3 DEF Broadcast, OnWriteFailed, ConnectionBreaks, OnReadFailed, streamVars
  <2>2. QED
    BY <1>3, <2>1, OthersInv, Zenon
<1>4. QED
  BY <1>1, <1>2, <1>3 DEF StreamNext

LEMMA StreamInvInit == StreamInit => StreamInv
<1> SUFFICES ASSUME StreamInit PROVE StreamInv
  OBVIOUS
<1>1. handler \in [Threads -> Handlers] /\ \A t \in Threads : handler[t] = Rest
  BY RestIs DEF StreamInit
<1>2. HandlersHold
  BY <1>1, RestIs DEF HandlersHold, SendPlaces
<1>3. Admissions = {}
  BY <1>1, RestIs DEF Admissions, Admitted
<1>4. /\ <<>> \in Seq(Frames) /\ Len(<<>>) = 0 /\ Cardinality({}) = 0
      /\ 0 <= WsMaxPendingMessages + IoThreads - 1
  BY FS_EmptySet, StreamAssumption
<1>5. QueueFits
  BY <1>3, <1>4 DEF StreamInit, QueueFits
<1>6. broadcasts \in 0..MaxFrames
  BY StreamAssumption DEF StreamInit
<1>7. Len(write_queue) = 0 /\ 0 \in Int
  BY <1>4 DEF StreamInit
<1>8. /\ ws_backpressure_policy \in Policies
      /\ posted \in Seq(Frames) /\ write_queue \in Seq(Frames)
      /\ writing \in Seq(Frames) /\ sent \in Seq(Frames) /\ dropped \subseteq Frames
      /\ Len(write_queue) <= WsMaxPendingMessages + IoThreads - 1
      /\ pending_bytes \in Int
      /\ reading \in BOOLEAN /\ open \in BOOLEAN /\ undefined \in BOOLEAN
      /\ races \subseteq {"empty", "bytes"}
  BY <1>4, <1>7 DEF StreamInit
<1>9. StreamTypeOK
  BY <1>1, <1>6, <1>8, Zenon DEF StreamTypeOK, Handlers
<1>10. QED
  BY <1>2, <1>5, <1>9 DEF StreamInv

LEMMA StreamInvariant == StreamSpec => []StreamInv
  BY StreamInvInit, StreamInvStep, PTL DEF StreamSpec

\* The types hold, and the queue of a session is never longer than the limit
\* plus one frame for each further thread: the handlers of send that have passed
\* over_limit before the first of them pushes (send).
THEOREM StreamTypeTheorem == StreamSpec => []StreamTypeOK
  BY StreamInvariant, PTL DEF StreamInv

-----------------------------------------------------------------------------
(***************************************************************************)
(* The counter.  Between its store of the counter and its push or pop a    *)
(* handler has the counter ahead of the queue by what it adds or takes     *)
(* away; the counter is the size of the queue and these differences.  They *)
(* are summed up over the threads.                                         *)
(***************************************************************************)
Ahead(h) == IF h.at = "push" THEN h.frame.size ELSE IF h.at = "pop" THEN -h.front ELSE 0

\* v[k] is the sum of the first k threads.
Totals(v, handlers) ==
  /\ v \in [0..IoThreads -> Int]
  /\ v[0] = 0
  /\ \A k \in Threads : v[k] = v[k - 1] + Ahead(handlers[k])

PendingInv ==
  "bytes" \notin races =>
    \E v : Totals(v, handler) /\ pending_bytes = Bytes(write_queue) + v[IoThreads]

LEMMA AheadType ==
  ASSUME NEW h \in Handlers, h.at = "push" => h.frame \in Frames
  PROVE  Ahead(h) \in Int
<1>1. h.front \in Nat
  BY HandlerFields
<1>2. h.at = "push" => h.frame.size \in Nat
  BY SizesAreNaturals
<1>3. QED
  BY <1>1, <1>2 DEF Ahead

\* Before and after a step.
LEMMA AheadTypes ==
  ASSUME StreamInv, StreamInv', NEW t \in Threads
  PROVE  Ahead(handler[t]) \in Int /\ Ahead(handler'[t]) \in Int
<1>1. /\ handler[t] \in Handlers /\ handler'[t] \in Handlers
      /\ handler[t].at = "push" => handler[t].frame \in Frames
      /\ handler'[t].at = "push" => handler'[t].frame \in Frames
  BY DEF StreamInv, StreamTypeOK, HandlersHold, Handlers, SendPlaces
<1>2. QED
  BY <1>1, AheadType

\* A step of one thread changes the sum by what it changes of its own.
LEMMA TotalMoves ==
  ASSUME StreamInv, StreamInv', NEW t \in Threads,
         \A u \in Threads : u # t => handler'[u] = handler[u],
         NEW v, Totals(v, handler)
  PROVE  \E w : /\ Totals(w, handler')
                /\ w[IoThreads] = v[IoThreads] + Ahead(handler'[t]) - Ahead(handler[t])
<1> DEFINE d == Ahead(handler'[t]) - Ahead(handler[t])
           w == [k \in 0..IoThreads |-> IF k < t THEN v[k] ELSE v[k] + d]
<1>1. \A u \in Threads : Ahead(handler[u]) \in Int
  BY AheadTypes
<1>2. \A u \in Threads : Ahead(handler'[u]) \in Int
  BY AheadTypes
<1>3. \A u \in Threads : u # t => Ahead(handler'[u]) = Ahead(handler[u])
  OBVIOUS
<1>4. IoThreads \in Nat /\ t \in 1..IoThreads /\ Threads = 1..IoThreads
  BY StreamAssumption DEF Threads
<1>5. /\ v \in [0..IoThreads -> Int] /\ v[0] = 0
      /\ \A k \in 1..IoThreads : v[k] = v[k - 1] + Ahead(handler[k])
  BY <1>4 DEF Totals
<1>6. d \in Int /\ Ahead(handler'[t]) = Ahead(handler[t]) + d
  BY <1>1, <1>2
<1> HIDE DEF d
<1>7. w \in [0..IoThreads -> Int] /\ w[0] = 0
  BY <1>4, <1>5, <1>6
<1>8. ASSUME NEW k \in 1..IoThreads PROVE w[k] = w[k - 1] + Ahead(handler'[k])
  <2>1. /\ k \in 0..IoThreads /\ k - 1 \in 0..IoThreads /\ k \in Int
        /\ v[k] \in Int /\ v[k - 1] \in Int /\ v[k] = v[k - 1] + Ahead(handler[k])
        /\ Ahead(handler[k]) \in Int
    BY <1>1, <1>4, <1>5
  <2>2. CASE k < t
    <3>1. w[k] = v[k] /\ w[k - 1] = v[k - 1]
      BY <1>4, <2>1, <2>2
    <3>2. k # t
      BY <1>4, <2>2
    <3>3. Ahead(handler'[k]) = Ahead(handler[k])
      BY <1>3, <1>4, <3>2
    <3>4. QED
      BY <2>1, <3>1, <3>3
  <2>3. CASE k = t
    <3>1. w[k] = v[k] + d /\ w[k - 1] = v[k - 1]
      BY <1>4, <2>1, <2>3
    <3>2. Ahead(handler'[k]) = Ahead(handler[k]) + d
      BY <1>6, <2>3
    <3> HIDE DEF w
    <3>3. QED
      BY <1>6, <2>1, <3>1, <3>2
  <2>4. CASE k > t
    <3>1. w[k] = v[k] + d /\ w[k - 1] = v[k - 1] + d
      BY <1>4, <2>1, <2>4
    <3>2. k # t
      BY <1>4, <2>4
    <3>3. Ahead(handler'[k]) = Ahead(handler[k])
      BY <1>3, <1>4, <3>2
    <3> HIDE DEF w
    <3>4. QED
      BY <1>6, <2>1, <3>1, <3>3
  <2>5. QED
    BY <1>4, <2>1, <2>2, <2>3, <2>4
<1>9. w[IoThreads] = v[IoThreads] + d
  BY <1>4
<1> HIDE DEF w
<1>10. Totals(w, handler')
  BY <1>4, <1>7, <1>8 DEF Totals
<1>11. w[IoThreads] = v[IoThreads] + Ahead(handler'[t]) - Ahead(handler[t])
  <2>1. v[IoThreads] \in Int /\ Ahead(handler[t]) \in Int /\ Ahead(handler'[t]) \in Int
    BY <1>1, <1>2, <1>4, <1>5
  <2>2. d = Ahead(handler'[t]) - Ahead(handler[t])
    BY DEF d
  <2>3. QED
    BY <1>9, <2>1, <2>2
<1>12. QED
  BY <1>10, <1>11

\* The invariant holds after a step of one thread if the counter and the queue
\* change by what the handler changes of its part.
LEMMA PendingMoves ==
  ASSUME StreamInv, StreamInv', PendingInv, NEW t \in Threads, "bytes" \notin races',
         "bytes" \notin races,
         \A u \in Threads : u # t => handler'[u] = handler[u],
         NEW c \in Int, NEW b \in Int,
         pending_bytes' = pending_bytes + c, Bytes(write_queue') = Bytes(write_queue) + b,
         c = b + (Ahead(handler'[t]) - Ahead(handler[t]))
  PROVE  PendingInv'
<1>1. PICK v : Totals(v, handler) /\ pending_bytes = Bytes(write_queue) + v[IoThreads]
  BY DEF PendingInv
<1>2. PICK w : /\ Totals(w, handler')
               /\ w[IoThreads] = v[IoThreads] + Ahead(handler'[t]) - Ahead(handler[t])
  BY <1>1, TotalMoves
<1>3. v[IoThreads] \in Int
  BY <1>1, StreamAssumption DEF Totals
<1>4. Bytes(write_queue) \in Int
  BY HandlerTypes, BytesType
<1>5. Ahead(handler[t]) \in Int /\ Ahead(handler'[t]) \in Int
  BY AheadTypes
<1>6. pending_bytes' = Bytes(write_queue') + w[IoThreads]
  BY <1>1, <1>2, <1>3, <1>4, <1>5
<1>7. QED
  BY <1>2, <1>6 DEF PendingInv

\* Where a step takes the thread, and nothing of the others.
LEMMA OneMoves ==
  ASSUME StreamInv, NEW t \in Threads, TakeUp(t) \/ HandlerStep(t) \/ CloseReturns(t)
  PROVE  \A u \in Threads : u # t => handler'[u] = handler[u]
<1>1. handler \in [Threads -> Handlers]
  BY HandlerTypes
<1>2. \/ \E h : handler' = [handler EXCEPT ![t] = h]
      \/ handler' = handler
  BY DEF TakeUp, HandlerStep, CloseReturns, Check, Loop, StillOver, Admit, Count, Add, Push,
         Start, Load, Subtract, Pop, More, UsesEmptyQueue, Goes, Ends
<1>3. QED
  BY <1>1, <1>2

\* Steps that leave the counter and the queue as they are.
LEMMA PendingStays ==
  ASSUME StreamInv, StreamInv', PendingInv, NEW t \in Threads, "bytes" \notin races',
         "bytes" \notin races,
         \A u \in Threads : u # t => handler'[u] = handler[u],
         UNCHANGED <<pending_bytes, write_queue>>,
         handler[t].at \notin {"push", "pop"}, handler'[t].at \notin {"push", "pop"}
  PROVE  PendingInv'
<1>1. Ahead(handler[t]) = 0 /\ Ahead(handler'[t]) = 0
  BY DEF Ahead
<1>2. pending_bytes \in Int /\ Bytes(write_queue) \in Int
  BY HandlerTypes, BytesType
<1>3. /\ 0 \in Int /\ pending_bytes' = pending_bytes + 0
      /\ Bytes(write_queue') = Bytes(write_queue) + 0
      /\ 0 = 0 + (Ahead(handler'[t]) - Ahead(handler[t]))
  BY <1>1, <1>2
<1>4. QED
  BY <1>3, PendingMoves

\* The steps of a handler that PendingStays speaks of.
LEMMA QuietPending ==
  ASSUME StreamInv, NEW t \in Threads,
         \/ TakeUp(t) \/ CloseReturns(t) \/ Check(t) \/ Loop(t) \/ StillOver(t) \/ Admit(t)
         \/ Count(t) \/ Start(t) \/ Load(t) \/ More(t)
         \/ \E i \in DOMAIN writing : OnWrite(t, i)
  PROVE  /\ UNCHANGED <<pending_bytes, write_queue>>
         /\ \A u \in Threads : u # t => handler'[u] = handler[u]
         /\ handler[t].at \notin {"push", "pop"} /\ handler'[t].at \notin {"push", "pop"}
         /\ races \subseteq races'
<1>1. handler \in [Threads -> Handlers] /\ handler[t] \in Handlers
  BY HandlerTypes
<1>2. /\ UNCHANGED <<pending_bytes, write_queue>>
      /\ races \subseteq races'
  BY DEF TakeUp, CloseReturns, Check, Loop, StillOver, Admit, Count, Start, Load, More,
         OnWrite, Raced
<1>3. handler[t].at \notin {"push", "pop"}
  BY DEF TakeUp, CloseReturns, Check, Loop, StillOver, Admit, Count, Start, Load, More,
         OnWrite, At, Free
<1>4. ASSUME Goes(t, "admit") \/ Goes(t, "loop") \/ Goes(t, "closing") \/ Goes(t, "load")
             \/ Goes(t, "last") \/ Ends(t)
      PROVE  /\ \A u \in Threads : u # t => handler'[u] = handler[u]
             /\ handler'[t].at \notin {"push", "pop"}
  BY <1>1, <1>4, RestIs DEF Goes, Ends, Handlers
<1>5. ASSUME NEW h, handler' = [handler EXCEPT ![t] = h], h.at \notin {"push", "pop"}
      PROVE  /\ \A u \in Threads : u # t => handler'[u] = handler[u]
             /\ handler'[t].at \notin {"push", "pop"}
  BY <1>1, <1>5
<1>6. CASE CloseReturns(t) \/ Check(t) \/ Loop(t) \/ StillOver(t) \/ Start(t)
  <2>1. Goes(t, "admit") \/ Goes(t, "loop") \/ Goes(t, "closing") \/ Goes(t, "load")
          \/ Goes(t, "last") \/ Ends(t)
    BY <1>6 DEF CloseReturns, Check, Loop, StillOver, Start
  <2>2. QED
    BY <1>2, <1>3, <1>4, <2>1
<1>7. CASE TakeUp(t) \/ Admit(t) \/ Count(t) \/ Load(t) \/ More(t)
           \/ \E i \in DOMAIN writing : OnWrite(t, i)
  <2>1. \E h : handler' = [handler EXCEPT ![t] = h] /\ h.at \notin {"push", "pop"}
    <3>1. CASE TakeUp(t)
      <4>1. [Rest EXCEPT !.at = "check", !.frame = Head(posted)].at = "check"
        BY RestIs DEF Handlers
      <4>2. handler' = [handler EXCEPT ![t] = [Rest EXCEPT !.at = "check", !.frame = Head(posted)]]
        BY <3>1 DEF TakeUp
      <4>3. QED
        BY <4>1, <4>2
    <3>2. CASE Admit(t)
      <4> DEFINE h == [handler[t] EXCEPT !.at = "count", !.empty = (write_queue = <<>>)]
      <4>1. h.at = "count"
        BY <1>1 DEF Handlers
      <4>2. handler' = [handler EXCEPT ![t] = h]
        BY <3>2 DEF Admit
      <4>3. QED
        BY <4>1, <4>2
    <3>3. CASE Count(t)
      <4> DEFINE h == [handler[t] EXCEPT !.at = "add", !.load = pending_bytes]
      <4>1. h.at = "add"
        BY <1>1 DEF Handlers
      <4>2. handler' = [handler EXCEPT ![t] = h]
        BY <3>3 DEF Count
      <4>3. QED
        BY <4>1, <4>2
    <3>4. CASE Load(t)
      <4> DEFINE h == [handler[t] EXCEPT !.at = "subtract", !.load = pending_bytes,
                                         !.front = Head(write_queue).size]
      <4>1. h.at = "subtract"
        BY <1>1 DEF Handlers
      <4>2. handler' = [handler EXCEPT ![t] = h]
        BY <3>4 DEF Load
      <4>3. QED
        BY <4>1, <4>2
    <3>5. CASE More(t)
      <4>1. [Rest EXCEPT !.at = "start"].at = "start"
        BY RestIs DEF Handlers
      <4>2. \/ handler' = [handler EXCEPT ![t] = Rest]
            \/ handler' = [handler EXCEPT ![t] = [Rest EXCEPT !.at = "start"]]
        BY <3>5 DEF More
      <4>3. QED
        BY <4>1, <4>2, RestIs
    <3>6. CASE \E i \in DOMAIN writing : OnWrite(t, i)
      <4>1. /\ [Rest EXCEPT !.at = "more", !.empty = TRUE].at = "more"
            /\ [Rest EXCEPT !.at = "load"].at = "load"
        BY RestIs DEF Handlers
      <4>2. \/ handler' = [handler EXCEPT ![t] = [Rest EXCEPT !.at = "more", !.empty = TRUE]]
            \/ handler' = [handler EXCEPT ![t] = [Rest EXCEPT !.at = "load"]]
        BY <3>6 DEF OnWrite
      <4>3. QED
        BY <4>1, <4>2
    <3>7. QED
      BY <1>7, <3>1, <3>2, <3>3, <3>4, <3>5, <3>6
  <2>2. QED
    BY <1>2, <1>3, <1>5, <2>1
<1>8. QED
  BY <1>6, <1>7

LEMMA AddPending ==
  ASSUME StreamInv, StreamInv', PendingInv, NEW t \in Threads, "bytes" \notin races',
         Add(t) \/ Subtract(t)
  PROVE  PendingInv'
<1>1. /\ handler \in [Threads -> Handlers] /\ handler[t] \in Handlers
      /\ handler[t].at \in SendPlaces => handler[t].frame \in Frames
      /\ Bytes(write_queue) \in Int /\ pending_bytes \in Int
  BY HandlerTypes, BytesType
<1>2. "bytes" \notin races /\ pending_bytes = handler[t].load /\ write_queue' = write_queue
  BY DEF Add, Subtract, Raced, CounterChanged
<1>3. \A u \in Threads : u # t => handler'[u] = handler[u]
  BY OneMoves DEF HandlerStep
<1>4. CASE Add(t)
  <2> DEFINE c == handler[t].frame.size
  <2>1. handler[t].at = "add" /\ pending_bytes' = pending_bytes + c
    BY <1>2, <1>4 DEF Add, At
  <2>2. c \in Int
    BY <1>1, <2>1, SizesAreNaturals DEF SendPlaces
  <2>3. handler'[t].at = "push" /\ handler'[t].frame = handler[t].frame
    BY <1>1, <1>4 DEF Add, Handlers
  <2>4. Ahead(handler[t]) = 0 /\ Ahead(handler'[t]) = c
    BY <2>1, <2>3 DEF Ahead
  <2>5. /\ 0 \in Int /\ Bytes(write_queue') = Bytes(write_queue) + 0
        /\ c = 0 + (Ahead(handler'[t]) - Ahead(handler[t]))
    BY <1>1, <1>2, <2>2, <2>4
  <2> HIDE DEF c
  <2>6. QED
    BY <1>2, <1>3, <2>1, <2>2, <2>5, PendingMoves
<1>5. CASE Subtract(t)
  <2> DEFINE c == -handler[t].front
  <2>1. handler[t].front \in Nat /\ handler[t].at = "subtract"
    BY <1>1, <1>5, HandlerFields DEF Subtract, At
  <2>2. c \in Int /\ pending_bytes' = pending_bytes + c
    <3>1. pending_bytes' = pending_bytes - handler[t].front
      BY <1>2, <1>5 DEF Subtract
    <3>2. QED
      BY <1>1, <2>1, <3>1
  <2>3. handler'[t].at = "pop" /\ handler'[t].front = handler[t].front
    BY <1>1, <1>5 DEF Subtract, Handlers
  <2>4. Ahead(handler[t]) = 0 /\ Ahead(handler'[t]) = c
    BY <2>1, <2>3 DEF Ahead
  <2>5. /\ 0 \in Int /\ Bytes(write_queue') = Bytes(write_queue) + 0
        /\ c = 0 + (Ahead(handler'[t]) - Ahead(handler[t]))
    BY <1>1, <1>2, <2>2, <2>4
  <2> HIDE DEF c
  <2>6. QED
    BY <1>2, <1>3, <2>2, <2>5, PendingMoves
<1>6. QED
  BY <1>4, <1>5

LEMMA PushPending ==
  ASSUME StreamInv, StreamInv', PendingInv, NEW t \in Threads, "bytes" \notin races', Push(t)
  PROVE  PendingInv'
<1> DEFINE b == handler[t].frame.size
<1>1. /\ handler \in [Threads -> Handlers] /\ handler[t].at = "push"
      /\ write_queue \in Seq(Frames) /\ handler[t].frame \in Frames
      /\ pending_bytes \in Int
  BY HandlerTypes DEF Push, At, SendPlaces
<1>2. "bytes" \notin races /\ pending_bytes' = pending_bytes
      /\ write_queue' = Append(write_queue, handler[t].frame)
  BY DEF Push, Raced
<1>3. \A u \in Threads : u # t => handler'[u] = handler[u]
  BY OneMoves DEF HandlerStep
<1>4. handler'[t].at \in {"start", "rest"}
  <2>1. [Rest EXCEPT !.at = "start"].at = "start"
    BY RestIs DEF Handlers
  <2>2. \/ handler' = [handler EXCEPT ![t] = Rest]
        \/ handler' = [handler EXCEPT ![t] = [Rest EXCEPT !.at = "start"]]
    BY DEF Push
  <2>3. QED
    BY <1>1, <2>1, <2>2, RestIs
<1>5. Bytes(write_queue') = Bytes(write_queue) + b /\ b \in Int
  BY <1>1, <1>2, BytesOfAppend, SizesAreNaturals
<1>6. Ahead(handler[t]) = b /\ Ahead(handler'[t]) = 0
  BY <1>1, <1>4 DEF Ahead
<1>7. /\ 0 \in Int /\ pending_bytes' = pending_bytes + 0
      /\ 0 = b + (Ahead(handler'[t]) - Ahead(handler[t]))
  BY <1>1, <1>2, <1>5, <1>6
<1> HIDE DEF b
<1>8. QED
  BY <1>2, <1>3, <1>5, <1>7, PendingMoves

LEMMA PopPending ==
  ASSUME StreamInv, StreamInv', PendingInv, NEW t \in Threads, "bytes" \notin races', Pop(t)
  PROVE  PendingInv'
<1> DEFINE b == -handler[t].front
<1>1. /\ handler \in [Threads -> Handlers] /\ handler[t] \in Handlers
      /\ handler[t].at = "pop"
      /\ write_queue \in Seq(Frames) /\ pending_bytes \in Int /\ handler[t].front \in Nat
  BY HandlerTypes, HandlerFields DEF Pop, At
<1>2. /\ "bytes" \notin races /\ pending_bytes' = pending_bytes
      /\ Head(write_queue).size = handler[t].front
      /\ write_queue # <<>> /\ write_queue' = Tail(write_queue)
  BY DEF Pop, Raced
<1>3. \A u \in Threads : u # t => handler'[u] = handler[u]
  BY OneMoves DEF HandlerStep
<1>4. handler'[t].at \in {"loop", "more"}
  <2>1. /\ [handler[t] EXCEPT !.at = "loop", !.front = 0].at = "loop"
        /\ \A e : [Rest EXCEPT !.at = "more", !.empty = e].at = "more"
    BY <1>1, RestIs DEF Handlers
  <2>2. CASE Sending(t)
    <3>1. handler' = [handler EXCEPT ![t].at = "loop", ![t].front = 0]
      BY <2>2 DEF Pop
    <3>2. handler'[t] = [handler[t] EXCEPT !.at = "loop", !.front = 0]
      BY <1>1, <3>1
    <3>3. QED
      BY <2>1, <3>2
  <2>3. CASE ~Sending(t)
    <3>1. \E e : handler' = [handler EXCEPT ![t] = [Rest EXCEPT !.at = "more", !.empty = e]]
      BY <2>3 DEF Pop
    <3>2. \E e : handler'[t] = [Rest EXCEPT !.at = "more", !.empty = e]
      BY <1>1, <3>1
    <3>3. QED
      BY <2>1, <3>2
  <2>4. QED
    BY <2>2, <2>3
<1>5. Bytes(write_queue') = Bytes(write_queue) + b /\ b \in Int
  <2>1. /\ Bytes(write_queue) = Bytes(write_queue') + handler[t].front
        /\ write_queue' \in Seq(Frames)
    BY <1>1, <1>2, HeadAndTail
  <2>2. Bytes(write_queue') \in Int
    BY <2>1, BytesType
  <2>3. QED
    BY <1>1, <2>1, <2>2
<1>6. Ahead(handler[t]) = b /\ Ahead(handler'[t]) = 0
  BY <1>1, <1>4 DEF Ahead
<1>7. /\ 0 \in Int /\ pending_bytes' = pending_bytes + 0
      /\ 0 = b + (Ahead(handler'[t]) - Ahead(handler[t]))
  BY <1>1, <1>2, <1>5, <1>6
<1> HIDE DEF b
<1>8. QED
  BY <1>2, <1>3, <1>5, <1>7, PendingMoves

LEMMA PendingStep ==
  ASSUME StreamInv, PendingInv, [StreamNext]_streamVars
  PROVE  PendingInv'
<1> SUFFICES ASSUME "bytes" \notin races' PROVE PendingInv'
  BY DEF PendingInv
<1>1. StreamInv'
  BY StreamInvStep
<1>2. ASSUME NEW t \in Threads, TakeUp(t) \/ HandlerStep(t) \/ CloseReturns(t)
             \/ \E i \in DOMAIN writing : OnWrite(t, i)
      PROVE  PendingInv'
  <2>1. CASE Add(t) \/ Subtract(t)
    BY <1>1, <2>1, AddPending
  <2>2. CASE Push(t)
    BY <1>1, <2>2, PushPending
  <2>3. CASE Pop(t)
    BY <1>1, <2>3, PopPending
  <2>4. CASE UsesEmptyQueue(t)
    <3>1. UNCHANGED <<handler, pending_bytes, write_queue, races>>
      BY <2>4 DEF UsesEmptyQueue
    <3>2. QED
      BY <3>1 DEF PendingInv
  <2>5. CASE ~(Add(t) \/ Subtract(t) \/ Push(t) \/ Pop(t) \/ UsesEmptyQueue(t))
    <3>1. \/ TakeUp(t) \/ CloseReturns(t) \/ Check(t) \/ Loop(t) \/ StillOver(t) \/ Admit(t)
          \/ Count(t) \/ Start(t) \/ Load(t) \/ More(t)
          \/ \E i \in DOMAIN writing : OnWrite(t, i)
      BY <1>2, <2>5 DEF HandlerStep
    <3>2. /\ UNCHANGED <<pending_bytes, write_queue>>
          /\ \A u \in Threads : u # t => handler'[u] = handler[u]
          /\ handler[t].at \notin {"push", "pop"} /\ handler'[t].at \notin {"push", "pop"}
          /\ races \subseteq races'
      BY <3>1, QuietPending
    <3>3. "bytes" \notin races
      BY <3>2
    <3>4. QED
      BY <1>1, <3>2, <3>3, PendingStays
  <2>6. QED
    BY <2>1, <2>2, <2>3, <2>4, <2>5
<1>3. CASE \/ \E size \in Sizes : Broadcast(size)
           \/ \E i \in DOMAIN writing : OnWriteFailed(i)
           \/ ConnectionBreaks \/ OnReadFailed \/ UNCHANGED streamVars
  <2>1. UNCHANGED <<handler, pending_bytes, write_queue, races>>
    BY <1>3 DEF Broadcast, OnWriteFailed, ConnectionBreaks, OnReadFailed, streamVars
  <2>2. QED
    BY <2>1 DEF PendingInv
<1>4. QED
  BY <1>2, <1>3 DEF StreamNext

\* With no handler between its store of the counter and its push or pop, the
\* differences are all zero.
LEMMA NoneAhead ==
  ASSUME NEW v, Totals(v, handler), \A t \in Threads : ~At(t, "push") /\ ~At(t, "pop")
  PROVE  v[IoThreads] = 0
<1>1. IoThreads \in Nat /\ Threads = 1..IoThreads
  BY StreamAssumption DEF Threads
<1> DEFINE S == {k \in Nat : k <= IoThreads => v[k] = 0}
<1>2. 0 \in S
  BY DEF Totals
<1>3. ASSUME NEW k \in Nat, k \in S PROVE k + 1 \in S
  <2>1. ASSUME k + 1 <= IoThreads PROVE v[k + 1] = 0
    <3>1. k + 1 \in Threads /\ (k + 1) - 1 = k /\ k <= IoThreads
      BY <1>1, <2>1
    <3>2. v[k] = 0
      BY <1>3, <3>1
    <3>3. Ahead(handler[k + 1]) = 0
      BY <3>1 DEF At, Ahead
    <3>4. v[k + 1] = v[k] + Ahead(handler[k + 1])
      BY <3>1 DEF Totals
    <3>5. QED
      BY <3>2, <3>3, <3>4
  <2>2. QED
    BY <2>1
<1> HIDE DEF S
<1>4. \A k \in Nat : k \in S
  BY <1>2, <1>3, NatSetInduction
<1>5. QED
  BY <1>1, <1>4 DEF S

LEMMA PendingInvariant == StreamSpec => []PendingInv
<1>1. StreamInit => PendingInv
  <2> SUFFICES ASSUME StreamInit PROVE PendingInv
    OBVIOUS
  <2> DEFINE v == [k \in 0..IoThreads |-> 0]
  <2>1. \A t \in Threads : handler[t] = Rest
    BY DEF StreamInit
  <2>2. \A t \in Threads : Ahead(handler[t]) = 0
    BY <2>1, RestIs DEF Ahead
  <2>3. IoThreads \in Nat /\ Threads = 1..IoThreads
    BY StreamAssumption DEF Threads
  <2>4. Totals(v, handler)
    BY <2>2, <2>3 DEF Totals
  <2>5. v[IoThreads] = 0 /\ Bytes(write_queue) = 0 /\ pending_bytes = 0
    BY <2>3, BytesOfNone DEF StreamInit
  <2> HIDE DEF v
  <2>6. QED
    BY <2>4, <2>5 DEF PendingInv
<1>2. QED
  BY <1>1, PendingStep, StreamInvariant, PTL DEF StreamSpec

\* The counter is the size of the queue when no handler is between the two, as
\* long as no handler has stored one that another had changed, or popped a frame
\* of another size than the one it subtracted (send, on_write).
THEOREM PendingTheorem == StreamSpec => []PendingBytesMatch
<1>1. StreamInv /\ PendingInv => PendingBytesMatch
  <2> SUFFICES ASSUME StreamInv, PendingInv, "bytes" \notin races,
                      \A t \in Threads : ~At(t, "push") /\ ~At(t, "pop")
               PROVE  pending_bytes = Bytes(write_queue)
    BY DEF PendingBytesMatch
  <2>1. PICK v : Totals(v, handler) /\ pending_bytes = Bytes(write_queue) + v[IoThreads]
    BY DEF PendingInv
  <2>2. v[IoThreads] = 0
    BY <2>1, NoneAhead
  <2>3. Bytes(write_queue) \in Nat
    <3>1. write_queue \in Seq(Frames)
      BY DEF StreamInv, StreamTypeOK
    <3>2. QED
      BY <3>1, BytesType
  <2>4. QED
    BY <2>1, <2>2, <2>3
<1>2. QED
  BY <1>1, PendingInvariant, StreamInvariant, PTL

-----------------------------------------------------------------------------
(***************************************************************************)
(* The account of the frames, under the policies that never touch the      *)
(* frame being written, as long as no handler has acted on an emptiness    *)
(* that had ended.  At any time one of the outstanding write and the       *)
(* handlers that will start or end one is there at most, and only if the   *)
(* queue is not empty: a send that pushes to an empty queue is the only    *)
(* one to start a write.  So the frame at the front is the one being       *)
(* written, and on_write, which pops whatever is at the front, pops the    *)
(* right one.                                                              *)
(***************************************************************************)

\* A handler that has popped no frame yet of the write it ended, or is to
\* start one.
Popping(h) == h.at \in {"load", "subtract", "pop"}

Writer(h) == Popping(h) \/ h.at = "start" \/ (h.at = "more" /\ h.empty = FALSE)

OneWrite ==
  /\ open => reading
  /\ Len(writing) <= 1
  /\ \A t, u \in Threads : Writer(handler[t]) /\ Writer(handler[u]) => t = u
  /\ \A t \in Threads : Writer(handler[t]) => writing = <<>> /\ write_queue # <<>>
  /\ writing # <<>> => write_queue # <<>> /\ writing[1] = Head(write_queue)
  /\ undefined = FALSE

\* Only on_write pops, and a session is closed when send waits for the close.
OnlyWritesPop ==
  \A t \in Threads :
    /\ handler[t].at \notin {"loop", "last"}
    /\ Popping(handler[t]) => handler[t].frame = NoFrame
    /\ handler[t].at = "closing" => ~open

\* The queue without the frame that went out and is still to be popped.
Kept ==
  IF \E t \in Threads : Popping(handler[t]) THEN Tail(write_queue) ELSE write_queue

\* No frame is in two of the places a frame goes through, or twice in one.
NumbersDiffer ==
  /\ Distinct(posted) /\ Distinct(Kept) /\ Distinct(sent)
  /\ Numbers(posted) \cap Numbers(Kept) = {}
  /\ Numbers(posted) \cap Numbers(sent) = {}
  /\ Numbers(Kept) \cap Numbers(sent) = {}
  /\ Numbers(posted) \cup Numbers(Kept) \cup Numbers(sent) \subseteq 1..broadcasts
  /\ \A t \in Threads : handler[t].frame # NoFrame =>
       /\ handler[t].frame.number \in 1..broadcasts
       /\ handler[t].frame.number \notin Numbers(posted) \cup Numbers(Kept) \cup Numbers(sent)
       /\ \A u \in Threads : handler[u].frame.number = handler[t].frame.number => u = t

NoneIsLost ==
  open =>
    \A n \in 1..broadcasts :
      \/ n \in Numbers(posted) \cup Numbers(Kept) \cup Numbers(sent) \cup Handled
      \/ \E f \in dropped : f.number = n

Account == OneWrite /\ OnlyWritesPop /\ NumbersDiffer /\ NoneIsLost

AccountInv == ws_backpressure_policy # "DropOldest" /\ "empty" \notin races => Account

Spared(t) == \A u \in Threads : u # t => handler'[u] = handler[u]

LEMMA AfterGoing ==
  ASSUME StreamInv, NEW t \in Threads
  PROVE  /\ \A place : Goes(t, place) => /\ handler'[t].at = place
                                         /\ handler'[t].frame = handler[t].frame
         /\ Ends(t) => handler'[t] = Rest
<1>1. handler \in [Threads -> Handlers] /\ handler[t] \in Handlers
  BY HandlerTypes
<1>2. QED
  BY <1>1 DEF Goes, Ends, Handlers

\* The queue without that frame is the same if the queue is, and the thread
\* that moves is still about to pop, or still not.
LEMMA KeptStays ==
  ASSUME NEW t \in Threads, Spared(t), write_queue' = write_queue,
         Popping(handler'[t]) <=> Popping(handler[t])
  PROVE  Kept' = Kept
<1>1. (\E u \in Threads : Popping(handler'[u])) <=> \E u \in Threads : Popping(handler[u])
  BY DEF Spared
<1>2. QED
  BY <1>1 DEF Kept

\* A step that keeps the frames where they are, but for one that a handler
\* drops or the connection takes with it.
LEMMA NumbersStay ==
  ASSUME NumbersDiffer, NoneIsLost, NEW t \in Threads, Spared(t),
         UNCHANGED <<posted, Kept, sent, broadcasts>>,
         dropped \subseteq dropped', open' => open,
         handler'[t].frame = handler[t].frame \/ handler'[t].frame = NoFrame,
         \/ handler'[t].frame = handler[t].frame
         \/ handler[t].frame = NoFrame
         \/ ~open'
         \/ \E f \in dropped' : f.number = handler[t].frame.number
  PROVE  NumbersDiffer' /\ NoneIsLost'
<1>1. /\ Numbers(posted') = Numbers(posted) /\ Numbers(Kept') = Numbers(Kept)
      /\ Numbers(sent') = Numbers(sent)
      /\ Distinct(posted') /\ Distinct(Kept') /\ Distinct(sent')
  BY DEF NumbersDiffer
<1>2. ASSUME NEW u \in Threads, handler'[u].frame # NoFrame
      PROVE  handler'[u].frame = handler[u].frame
  BY <1>2 DEF Spared
<1>3. ASSUME NEW u \in Threads, handler'[u].frame # NoFrame, NEW w \in Threads,
             handler'[w].frame.number = handler'[u].frame.number
      PROVE  w = u
  <2>1. handler'[u].frame = handler[u].frame /\ handler[u].frame.number \in 1..broadcasts
    BY <1>2, <1>3 DEF NumbersDiffer
  <2>2. NoFrame.number = 0 /\ handler[u].frame.number # 0
    <3>1. 0 \notin 1..broadcasts
      OBVIOUS
    <3>2. QED
      BY <2>1, <3>1 DEF NoFrame
  <2>3. handler'[w].frame # NoFrame
    BY <1>3, <2>1, <2>2
  <2>4. handler'[w].frame = handler[w].frame
    BY <1>2, <2>3
  <2>5. QED
    BY <1>3, <2>1, <2>4 DEF NumbersDiffer
<1>4. NumbersDiffer'
  BY <1>1, <1>2, <1>3 DEF NumbersDiffer
<1>5. ASSUME open', NEW n \in 1..broadcasts
      PROVE  \/ n \in Numbers(posted') \cup Numbers(Kept') \cup Numbers(sent') \cup Handled'
             \/ \E f \in dropped' : f.number = n
  <2>1. CASE n \in Numbers(posted) \cup Numbers(Kept) \cup Numbers(sent)
    BY <1>1, <2>1
  <2>2. CASE n \in Handled
    <3>1. PICK u \in Threads : n = handler[u].frame.number
      BY <2>2 DEF Handled
    <3>2. CASE handler'[u].frame = handler[u].frame
      BY <3>1, <3>2 DEF Handled
    <3>3. CASE handler'[u].frame # handler[u].frame
      <4>1. u = t
        BY <3>3 DEF Spared
      <4>2. handler[t].frame # NoFrame
        BY <3>1, <4>1 DEF NoFrame
      <4>3. QED
        BY <1>5, <3>1, <3>3, <4>1, <4>2
    <3>4. QED
      BY <3>2, <3>3
  <2>3. CASE \E f \in dropped : f.number = n
    BY <2>3
  <2>4. QED
    BY <1>5, <2>1, <2>2, <2>3 DEF NoneIsLost
<1>6. NoneIsLost'
  BY <1>5 DEF NoneIsLost
<1>7. QED
  BY <1>4, <1>6

\* A step that starts no write and ends none.
LEMMA WritersStay ==
  ASSUME OneWrite, NEW t \in Threads, Spared(t),
         UNCHANGED <<write_queue, writing, reading, undefined>>, open' => open,
         Writer(handler'[t]) => Writer(handler[t])
  PROVE  OneWrite'
<1>1. \A u \in Threads : Writer(handler'[u]) => Writer(handler[u])
  BY DEF Spared
<1>2. QED
  BY <1>1 DEF OneWrite

UnmovedVars == <<write_queue, writing, reading, undefined, posted, sent, broadcasts>>

\* The frame of a handler that leaves it is accounted for.
MayLeave(t) ==
  \/ handler'[t].frame = handler[t].frame
  \/ handler[t].frame = NoFrame
  \/ ~open'
  \/ \E f \in dropped' : f.number = handler[t].frame.number

\* A step that only moves a handler, which may drop its frame.
LEMMA LocalAccount ==
  ASSUME Account, NEW t \in Threads, Spared(t),
         UNCHANGED UnmovedVars,
         dropped \subseteq dropped', open' => open,
         Writer(handler'[t]) => Writer(handler[t]),
         Popping(handler'[t]) <=> Popping(handler[t]),
         handler'[t].at \notin {"loop", "last"}, handler'[t].at = "closing" => ~open',
         handler'[t].frame = handler[t].frame \/ handler'[t].frame = NoFrame,
         MayLeave(t)
  PROVE  Account'
<1>1. OneWrite'
  BY WritersStay DEF Account, UnmovedVars
<1>2. Kept' = Kept
  BY KeptStays DEF UnmovedVars
<1>3. NumbersDiffer' /\ NoneIsLost'
  BY <1>2, NumbersStay DEF Account, MayLeave, UnmovedVars
<1>4. ASSUME NEW u \in Threads
      PROVE  /\ handler'[u].at \notin {"loop", "last"}
             /\ Popping(handler'[u]) => handler'[u].frame = NoFrame
             /\ handler'[u].at = "closing" => ~open'
  <2>1. CASE u = t
    BY <2>1 DEF Account, OnlyWritesPop
  <2>2. CASE u # t
    BY <2>2 DEF Account, OnlyWritesPop, Spared
  <2>3. QED
    BY <2>1, <2>2
<1>5. OnlyWritesPop'
  BY <1>4 DEF OnlyWritesPop
<1>6. QED
  BY <1>1, <1>3, <1>5 DEF Account

LEMMA CheckAccount ==
  ASSUME StreamInv, Account, ws_backpressure_policy # "DropOldest",
         NEW t \in Threads, Check(t) \/ CloseReturns(t)
  PROVE  Account'
<1>1. /\ UNCHANGED UnmovedVars
      /\ dropped \subseteq dropped' /\ (open' => open)
  BY DEF Check, CloseReturns, Drop, sessionVars, UnmovedVars
<1>2. Spared(t)
  BY OneMoves DEF HandlerStep, Spared
<1>3. ~Popping(handler[t])
  BY DEF Check, CloseReturns, At, Popping
<1>4. CASE Goes(t, "admit")
  <2>1. handler'[t].at = "admit" /\ handler'[t].frame = handler[t].frame
    BY <1>4, AfterGoing
  <2>2. /\ ~Writer(handler'[t]) /\ ~Popping(handler'[t])
        /\ handler'[t].at \notin {"loop", "last"} /\ handler'[t].at # "closing"
    BY <2>1 DEF Writer, Popping
  <2>3. /\ Writer(handler'[t]) => Writer(handler[t])
        /\ Popping(handler'[t]) <=> Popping(handler[t])
        /\ handler'[t].at \notin {"loop", "last"} /\ (handler'[t].at = "closing" => ~open')
        /\ handler'[t].frame = handler[t].frame \/ handler'[t].frame = NoFrame
        /\ MayLeave(t)
    BY <1>1, <1>3, <2>1, <2>2 DEF MayLeave
  <2>4. QED
    BY <1>1, <1>2, <2>3, LocalAccount
<1>5. CASE Goes(t, "closing") /\ open' = FALSE
  <2>1. handler'[t].at = "closing" /\ handler'[t].frame = handler[t].frame
    BY <1>5, AfterGoing
  <2>2. /\ ~Writer(handler'[t]) /\ ~Popping(handler'[t])
        /\ handler'[t].at \notin {"loop", "last"} /\ ~open'
    BY <1>5, <2>1 DEF Writer, Popping
  <2>3. /\ Writer(handler'[t]) => Writer(handler[t])
        /\ Popping(handler'[t]) <=> Popping(handler[t])
        /\ handler'[t].at \notin {"loop", "last"} /\ (handler'[t].at = "closing" => ~open')
        /\ handler'[t].frame = handler[t].frame \/ handler'[t].frame = NoFrame
        /\ MayLeave(t)
    BY <1>1, <1>3, <2>1, <2>2 DEF MayLeave
  <2>4. QED
    BY <1>1, <1>2, <2>3, LocalAccount
<1>6. CASE Ends(t) /\ (Drop(t) \/ ~open')
  <2>1. handler'[t].at = "rest" /\ handler'[t].frame = NoFrame
    BY <1>6, AfterGoing, RestIs
  <2>2. /\ ~Writer(handler'[t]) /\ ~Popping(handler'[t])
        /\ handler'[t].at \notin {"loop", "last"} /\ handler'[t].at # "closing"
    BY <2>1 DEF Writer, Popping
  <2>3. ~open' \/ \E f \in dropped' : f.number = handler[t].frame.number
    BY <1>6 DEF Drop
  <2>4. /\ Writer(handler'[t]) => Writer(handler[t])
        /\ Popping(handler'[t]) <=> Popping(handler[t])
        /\ handler'[t].at \notin {"loop", "last"} /\ (handler'[t].at = "closing" => ~open')
        /\ handler'[t].frame = handler[t].frame \/ handler'[t].frame = NoFrame
        /\ MayLeave(t)
    BY <1>1, <1>3, <2>1, <2>2, <2>3 DEF MayLeave
  <2>5. QED
    BY <1>1, <1>2, <2>4, LocalAccount
<1>7. CASE CloseReturns(t)
  <2>1. ~open' /\ Ends(t)
    BY <1>7 DEF CloseReturns, At, Account, OnlyWritesPop
  <2>2. QED
    BY <1>6, <2>1
<1>8. CASE Check(t)
  <2>1. \/ Goes(t, "admit")
        \/ Goes(t, "closing") /\ open' = FALSE
        \/ Ends(t) /\ Drop(t)
    BY <1>8 DEF Check
  <2>2. QED
    BY <1>4, <1>5, <1>6, <2>1
<1>9. QED
  BY <1>7, <1>8

LEMMA ReadsAccount ==
  ASSUME StreamInv, Account, NEW t \in Threads,
         Admit(t) \/ Count(t) \/ Add(t) \/ Load(t) \/ Subtract(t)
  PROVE  Account'
<1>1. /\ UNCHANGED UnmovedVars
      /\ dropped \subseteq dropped' /\ (open' => open)
  BY DEF Admit, Count, Add, Load, Subtract, sessionVars, UnmovedVars
<1>2. Spared(t)
  BY OneMoves DEF HandlerStep, Spared
<1>3. handler \in [Threads -> Handlers] /\ handler[t] \in Handlers
  BY HandlerTypes
<1>4. CASE Admit(t) \/ Count(t) \/ Add(t)
  <2>1. ~Popping(handler[t])
    BY <1>4 DEF Admit, Count, Add, At, Popping
  <2>2. handler'[t].at \in {"count", "add", "push"} /\ handler'[t].frame = handler[t].frame
    <3>1. CASE Admit(t)
      BY <1>3, <3>1 DEF Admit, Handlers
    <3>2. CASE Count(t)
      BY <1>3, <3>2 DEF Count, Handlers
    <3>3. CASE Add(t)
      BY <1>3, <3>3 DEF Add, Handlers
    <3>4. QED
      BY <1>4, <3>1, <3>2, <3>3
  <2>3. /\ ~Writer(handler'[t]) /\ ~Popping(handler'[t])
        /\ handler'[t].at \notin {"loop", "last"} /\ handler'[t].at # "closing"
    BY <2>2 DEF Writer, Popping
  <2>4. /\ Writer(handler'[t]) => Writer(handler[t])
        /\ Popping(handler'[t]) <=> Popping(handler[t])
        /\ handler'[t].at \notin {"loop", "last"} /\ (handler'[t].at = "closing" => ~open')
        /\ handler'[t].frame = handler[t].frame \/ handler'[t].frame = NoFrame
        /\ MayLeave(t)
    BY <1>1, <2>1, <2>2, <2>3 DEF MayLeave
  <2>5. QED
    BY <1>1, <1>2, <2>4, LocalAccount
<1>5. CASE Load(t) \/ Subtract(t)
  <2>1. Popping(handler[t])
    BY <1>5 DEF Load, Subtract, At, Popping
  <2>2. handler'[t].at \in {"subtract", "pop"} /\ handler'[t].frame = handler[t].frame
    <3>1. CASE Load(t)
      BY <1>3, <3>1 DEF Load, Handlers
    <3>2. CASE Subtract(t)
      BY <1>3, <3>2 DEF Subtract, Handlers
    <3>3. QED
      BY <1>5, <3>1, <3>2
  <2>3. /\ Writer(handler[t]) /\ Popping(handler'[t])
        /\ handler'[t].at \notin {"loop", "last"} /\ handler'[t].at # "closing"
    BY <2>1, <2>2 DEF Writer, Popping
  <2>4. /\ Writer(handler'[t]) => Writer(handler[t])
        /\ Popping(handler'[t]) <=> Popping(handler[t])
        /\ handler'[t].at \notin {"loop", "last"} /\ (handler'[t].at = "closing" => ~open')
        /\ handler'[t].frame = handler[t].frame \/ handler'[t].frame = NoFrame
        /\ MayLeave(t)
    BY <1>1, <2>1, <2>2, <2>3 DEF MayLeave
  <2>5. QED
    BY <1>1, <1>2, <2>4, LocalAccount
<1>6. QED
  BY <1>4, <1>5

LEMMA MoreAccount ==
  ASSUME StreamInv, Account, NEW t \in Threads, "empty" \notin races', More(t)
  PROVE  Account'
<1>1. /\ UNCHANGED UnmovedVars
      /\ dropped \subseteq dropped' /\ (open' => open)
      /\ handler[t].at = "more" /\ handler[t].empty = (write_queue = <<>>)
  BY DEF More, sessionVars, UnmovedVars, At, Raced, EmptinessChanged
<1>2. Spared(t)
  BY OneMoves DEF HandlerStep, Spared
<1>3. /\ handler \in [Threads -> Handlers] /\ handler[t] \in Handlers
      /\ handler[t].frame = NoFrame
  BY <1>1, HandlerTypes
<1>4. ~Popping(handler[t])
  BY <1>1 DEF Popping
<1>5. CASE write_queue = <<>>
  <2>1. handler'[t] = Rest
    BY <1>3, <1>5 DEF More
  <2>2. /\ ~Writer(handler'[t]) /\ ~Popping(handler'[t]) /\ handler'[t].frame = NoFrame
        /\ handler'[t].at \notin {"loop", "last"} /\ handler'[t].at # "closing"
    BY <2>1, RestIs DEF Writer, Popping
  <2>3. /\ Writer(handler'[t]) => Writer(handler[t])
        /\ Popping(handler'[t]) <=> Popping(handler[t])
        /\ handler'[t].at \notin {"loop", "last"} /\ (handler'[t].at = "closing" => ~open')
        /\ handler'[t].frame = handler[t].frame \/ handler'[t].frame = NoFrame
        /\ MayLeave(t)
    BY <1>1, <1>3, <1>4, <2>2 DEF MayLeave
  <2>4. QED
    BY <1>1, <1>2, <2>3, LocalAccount
<1>6. CASE write_queue # <<>>
  <2>1. handler'[t] = [Rest EXCEPT !.at = "start"]
    BY <1>3, <1>6 DEF More
  <2>2. handler'[t].at = "start" /\ handler'[t].frame = NoFrame
    BY <2>1, RestIs DEF Handlers
  <2>3. /\ Writer(handler[t]) /\ ~Popping(handler'[t])
        /\ handler'[t].at \notin {"loop", "last"} /\ handler'[t].at # "closing"
    BY <1>1, <1>6, <2>2 DEF Writer, Popping
  <2>4. /\ Writer(handler'[t]) => Writer(handler[t])
        /\ Popping(handler'[t]) <=> Popping(handler[t])
        /\ handler'[t].at \notin {"loop", "last"} /\ (handler'[t].at = "closing" => ~open')
        /\ handler'[t].frame = handler[t].frame \/ handler'[t].frame = NoFrame
        /\ MayLeave(t)
    BY <1>1, <1>3, <1>4, <2>2, <2>3 DEF MayLeave
  <2>5. QED
    BY <1>1, <1>2, <2>4, LocalAccount
<1>7. QED
  BY <1>5, <1>6

LEMMA StartAccount ==
  ASSUME StreamInv, Account, NEW t \in Threads, Start(t)
  PROVE  Account'
<1>1. /\ handler[t].at = "start" /\ Writer(handler[t]) /\ ~Popping(handler[t])
      /\ UNCHANGED <<write_queue, posted, sent, broadcasts, dropped, reading, open, undefined>>
  BY DEF Start, At, Writer, Popping, sessionVars
<1>2. /\ handler \in [Threads -> Handlers] /\ handler[t].frame = NoFrame
      /\ write_queue \in Seq(Frames)
  BY <1>1, HandlerTypes
<1>3. writing = <<>> /\ write_queue # <<>>
  BY <1>1 DEF Account, OneWrite
<1>4. handler'[t] = Rest /\ Spared(t)
  BY <1>2, AfterGoing, OneMoves DEF Start, HandlerStep, Spared
<1>5. ~Popping(handler'[t]) /\ ~Writer(handler'[t]) /\ handler'[t].frame = NoFrame
  BY <1>4, RestIs DEF Popping, Writer
<1>6. writing' = <<Head(write_queue)>>
  <2>1. writing' = Append(writing, Head(write_queue))
    BY <1>3 DEF Start
  <2>2. QED
    BY <1>3, <2>1
<1>7. OneWrite'
  <2>1. \A u \in Threads : ~Writer(handler'[u])
    BY <1>1, <1>4, <1>5 DEF Account, OneWrite, Spared
  <2>2. Len(writing') = 1 /\ writing'[1] = Head(write_queue)
    BY <1>6
  <2>3. QED
    BY <1>1, <1>3, <2>1, <2>2 DEF Account, OneWrite
<1>8. Kept' = Kept
  BY <1>1, <1>4, <1>5, KeptStays
<1>9. NumbersDiffer' /\ NoneIsLost'
  BY <1>1, <1>2, <1>4, <1>5, <1>8, NumbersStay DEF Account
<1>10. OnlyWritesPop'
  BY <1>1, <1>4, RestIs DEF Account, OnlyWritesPop, Spared, Popping
<1>11. QED
  BY <1>7, <1>9, <1>10 DEF Account

LEMMA PopAccount ==
  ASSUME StreamInv, Account, NEW t \in Threads, Pop(t)
  PROVE  Account'
<1>1. /\ handler[t].at = "pop" /\ Writer(handler[t]) /\ Popping(handler[t])
      /\ write_queue # <<>> /\ write_queue' = Tail(write_queue)
      /\ UNCHANGED <<posted, sent, broadcasts, reading, open, undefined, writing>>
  BY DEF Pop, At, Writer, Popping, sessionVars
<1>2. handler \in [Threads -> Handlers] /\ handler[t].frame = NoFrame /\ ~Sending(t)
  BY <1>1, HandlerTypes DEF Account, OnlyWritesPop, Sending
<1>3. writing = <<>> /\ \A u \in Threads : Writer(handler[u]) => u = t
  BY <1>1 DEF Account, OneWrite
<1>4. /\ handler'[t] = [Rest EXCEPT !.at = "more", !.empty = (write_queue' = <<>>)]
      /\ dropped' = dropped
  BY <1>2 DEF Pop
<1>5. Spared(t)
  BY OneMoves DEF HandlerStep, Spared
<1>6. /\ handler'[t].at = "more" /\ handler'[t].frame = NoFrame
      /\ handler'[t].empty = (write_queue' = <<>>)
  BY <1>4, RestIs DEF Handlers
<1>7. ~Popping(handler'[t]) /\ (Writer(handler'[t]) => write_queue' # <<>>)
  BY <1>6 DEF Popping, Writer
<1>8. \A u \in Threads : Writer(handler'[u]) => u = t
  BY <1>3, <1>5 DEF Spared
<1>9. \A u \in Threads : ~Popping(handler'[u])
  BY <1>7, <1>8 DEF Writer
<1>10. OneWrite'
  BY <1>1, <1>3, <1>7, <1>8 DEF Account, OneWrite
<1>11. Kept' = Kept
  <2>1. Kept' = write_queue'
    BY <1>9 DEF Kept
  <2>2. Kept = Tail(write_queue)
    BY <1>1 DEF Kept
  <2>3. QED
    BY <1>1, <2>1, <2>2
<1>12. NumbersDiffer' /\ NoneIsLost'
  BY <1>1, <1>2, <1>4, <1>5, <1>6, <1>11, NumbersStay DEF Account
<1>13. OnlyWritesPop'
  BY <1>1, <1>5, <1>6, <1>9 DEF Account, OnlyWritesPop, Spared
<1>14. QED
  BY <1>10, <1>12, <1>13 DEF Account

LEMMA TakeUpAccount ==
  ASSUME StreamInv, Account, NEW t \in Threads, TakeUp(t)
  PROVE  Account'
<1> DEFINE f == Head(posted)
<1>1. /\ handler[t].at = "rest" /\ posted # <<>> /\ posted' = Tail(posted)
      /\ UNCHANGED <<write_queue, sent, broadcasts, dropped, reading, open, undefined, writing>>
  BY DEF TakeUp, Free, At, sessionVars
<1>2. /\ handler \in [Threads -> Handlers] /\ handler[t].frame = NoFrame
      /\ posted \in Seq(Frames)
  BY <1>1, HandlerTypes
<1>3. Spared(t)
  BY OneMoves DEF Spared
<1>4. /\ f \in Frames /\ posted' \in Seq(Frames)
      /\ Numbers(posted) = Numbers(posted') \cup {f.number}
      /\ Distinct(posted') /\ f.number \notin Numbers(posted')
  BY <1>1, <1>2, HeadAndTail DEF Account, NumbersDiffer
<1>5. handler'[t].at = "check" /\ handler'[t].frame = f
  <2>1. handler'[t] = [Rest EXCEPT !.at = "check", !.frame = f]
    BY <1>2 DEF TakeUp
  <2>2. QED
    BY <2>1, RestIs DEF Handlers
<1> HIDE DEF f
<1>6. /\ ~Popping(handler'[t]) /\ ~Popping(handler[t]) /\ ~Writer(handler'[t])
  BY <1>1, <1>5 DEF Popping, Writer
<1>7. OneWrite'
  BY <1>1, <1>3, <1>6, WritersStay DEF Account
<1>8. Kept' = Kept
  BY <1>1, <1>3, <1>6, KeptStays
<1>9. /\ Numbers(Kept') = Numbers(Kept) /\ Numbers(sent') = Numbers(sent)
      /\ Distinct(Kept') /\ Distinct(sent')
  BY <1>1, <1>8 DEF Account, NumbersDiffer
<1>10. /\ f.number \in 1..broadcasts
       /\ f.number \notin Numbers(Kept) \cup Numbers(sent)
       /\ \A u \in Threads : handler[u].frame.number # f.number
  <2>1. f.number \in Numbers(posted) /\ f.number \in 1..broadcasts
    BY <1>4 DEF Account, NumbersDiffer
  <2>2. ASSUME NEW u \in Threads PROVE handler[u].frame.number # f.number
    <3>1. CASE handler[u].frame = NoFrame
      <4>1. 0 \notin 1..broadcasts
        OBVIOUS
      <4>2. QED
        BY <2>1, <3>1, <4>1 DEF NoFrame
    <3>2. CASE handler[u].frame # NoFrame
      BY <2>1, <3>2 DEF Account, NumbersDiffer
    <3>3. QED
      BY <3>1, <3>2
  <2>3. QED
    BY <2>1, <2>2 DEF Account, NumbersDiffer
<1>11. ASSUME NEW u \in Threads, handler'[u].frame # NoFrame
       PROVE  /\ handler'[u].frame.number \in 1..broadcasts'
              /\ handler'[u].frame.number \notin
                   Numbers(posted') \cup Numbers(Kept') \cup Numbers(sent')
              /\ \A w \in Threads : handler'[w].frame.number = handler'[u].frame.number => w = u
  <2>1. CASE u = t
    BY <1>1, <1>3, <1>4, <1>5, <1>9, <1>10, <2>1 DEF Spared
  <2>2. CASE u # t
    <3>1. handler'[u] = handler[u]
      BY <1>3, <2>2 DEF Spared
    <3>2. /\ handler[u].frame.number \in 1..broadcasts
          /\ handler[u].frame.number \notin Numbers(posted) \cup Numbers(Kept) \cup Numbers(sent)
          /\ \A w \in Threads : handler[w].frame.number = handler[u].frame.number => w = u
      BY <1>11, <3>1 DEF Account, NumbersDiffer
    <3>3. \A w \in Threads : handler'[w].frame.number = handler'[u].frame.number => w = u
      BY <1>3, <1>5, <1>10, <3>1, <3>2 DEF Spared
    <3>4. QED
      BY <1>1, <1>4, <1>9, <3>1, <3>2, <3>3
  <2>3. QED
    BY <2>1, <2>2
<1>12. NumbersDiffer'
  BY <1>1, <1>4, <1>9, <1>11 DEF Account, NumbersDiffer
<1>13. NoneIsLost'
  <2>1. \A n \in Numbers(posted) : n \in Numbers(posted') \cup Handled'
    BY <1>4, <1>5 DEF Handled
  <2>2. \A n \in 1..broadcasts : n \in Handled => n \in Handled'
    <3> SUFFICES ASSUME NEW n \in 1..broadcasts, NEW u \in Threads, n = handler[u].frame.number
                 PROVE  n \in Handled'
      BY DEF Handled
    <3>1. 0 \notin 1..broadcasts
      OBVIOUS
    <3>2. u # t
      BY <1>2, <3>1 DEF NoFrame
    <3>3. QED
      BY <1>3, <3>2 DEF Spared, Handled
  <2>3. QED
    BY <1>1, <1>9, <2>1, <2>2 DEF Account, NoneIsLost
<1>14. OnlyWritesPop'
  BY <1>1, <1>3, <1>5, <1>6 DEF Account, OnlyWritesPop, Spared
<1>15. QED
  BY <1>7, <1>12, <1>13, <1>14 DEF Account

LEMMA PushAccount ==
  ASSUME StreamInv, Account, NEW t \in Threads, "empty" \notin races', Push(t)
  PROVE  Account'
<1> DEFINE f == handler[t].frame
<1>1. /\ handler[t].at = "push" /\ handler[t].empty = (write_queue = <<>>)
      /\ write_queue' = Append(write_queue, f)
      /\ UNCHANGED <<posted, sent, broadcasts, dropped, reading, open, undefined, writing>>
  BY DEF Push, At, sessionVars, Raced, EmptinessChanged
<1>2. /\ handler \in [Threads -> Handlers] /\ f \in Frames
      /\ write_queue \in Seq(Frames) /\ writing \in Seq(Frames)
  BY <1>1, HandlerTypes DEF SendPlaces
<1>3. Spared(t)
  BY OneMoves DEF HandlerStep, Spared
<1>4. f # NoFrame
  BY <1>2 DEF NoFrame, Frames
<1>5. handler'[t].frame = NoFrame /\ handler'[t].at \in {"rest", "start"}
      /\ (handler'[t].at = "start" => write_queue = <<>>)
  <2>1. CASE write_queue = <<>>
    <3>1. handler'[t] = [Rest EXCEPT !.at = "start"]
      BY <1>1, <1>2, <2>1 DEF Push, StartsWriting
    <3>2. QED
      BY <2>1, <3>1, RestIs DEF Handlers
  <2>2. CASE write_queue # <<>>
    <3>1. handler'[t] = Rest
      BY <1>1, <1>2, <2>2 DEF Push, StartsWriting
    <3>2. QED
      BY <3>1, RestIs
  <2>3. QED
    BY <2>1, <2>2
<1>6. /\ ~Popping(handler'[t]) /\ ~Popping(handler[t]) /\ ~Writer(handler[t])
      /\ Writer(handler'[t]) => write_queue = <<>>
  BY <1>1, <1>5 DEF Popping, Writer
<1>7. write_queue' \in Seq(Frames) /\ write_queue' # <<>>
  BY <1>1, <1>2, AppendProperties
<1>8. write_queue # <<>> => /\ Head(write_queue') = Head(write_queue)
                           /\ Tail(write_queue') = Append(Tail(write_queue), f)
  BY <1>1, <1>2, HeadTailAppend
<1> HIDE DEF f
<1>9. OneWrite'
  <2>1. \A u \in Threads : u # t => (Writer(handler'[u]) <=> Writer(handler[u]))
    BY <1>3 DEF Spared
  <2>2. CASE write_queue = <<>>
    <3>1. writing = <<>> /\ \A u \in Threads : ~Writer(handler[u])
      BY <2>2 DEF Account, OneWrite
    <3>2. \A u \in Threads : Writer(handler'[u]) => u = t
      BY <2>1, <3>1
    <3>3. QED
      BY <1>1, <1>7, <3>1, <3>2 DEF Account, OneWrite
  <2>3. CASE write_queue # <<>>
    <3>1. \A u \in Threads : Writer(handler'[u]) => Writer(handler[u])
      BY <1>6, <2>1, <2>3
    <3>2. QED
      BY <1>1, <1>7, <1>8, <2>3, <3>1 DEF Account, OneWrite
  <2>4. QED
    BY <2>2, <2>3
<1>10. Kept' = Append(Kept, f) /\ Kept \in Seq(Frames)
  <2>1. (\E u \in Threads : Popping(handler'[u])) <=> \E u \in Threads : Popping(handler[u])
    BY <1>3, <1>6 DEF Spared
  <2>2. CASE \E u \in Threads : Popping(handler[u])
    <3>1. write_queue # <<>>
      BY <2>2 DEF Account, OneWrite, Writer
    <3>2. Kept = Tail(write_queue) /\ Kept' = Tail(write_queue')
      BY <2>1, <2>2 DEF Kept
    <3>3. Tail(write_queue) \in Seq(Frames)
      BY <1>2, <3>1, HeadAndTail
    <3>4. QED
      BY <1>8, <3>1, <3>2, <3>3
  <2>3. CASE ~ \E u \in Threads : Popping(handler[u])
    <3>1. Kept = write_queue /\ Kept' = write_queue'
      BY <2>1, <2>3 DEF Kept
    <3>2. QED
      BY <1>1, <1>2, <3>1
  <2>4. QED
    BY <2>2, <2>3
<1>11. /\ f.number \in 1..broadcasts
       /\ f.number \notin Numbers(posted) \cup Numbers(Kept) \cup Numbers(sent)
       /\ \A u \in Threads : handler[u].frame.number = f.number => u = t
  BY <1>4 DEF f, Account, NumbersDiffer
<1>12. Numbers(Kept') = Numbers(Kept) \cup {f.number} /\ Distinct(Kept')
  BY <1>2, <1>10, <1>11, NumbersOfAppend DEF Account, NumbersDiffer
<1>13. /\ Numbers(posted') = Numbers(posted) /\ Numbers(sent') = Numbers(sent)
       /\ Distinct(posted') /\ Distinct(sent')
  BY <1>1 DEF Account, NumbersDiffer
<1>14. ASSUME NEW u \in Threads, handler'[u].frame # NoFrame
       PROVE  /\ handler'[u].frame.number \in 1..broadcasts'
              /\ handler'[u].frame.number \notin
                   Numbers(posted') \cup Numbers(Kept') \cup Numbers(sent')
              /\ \A w \in Threads : handler'[w].frame.number = handler'[u].frame.number => w = u
  <2>1. u # t /\ handler'[u] = handler[u]
    BY <1>3, <1>5, <1>14 DEF Spared
  <2>2. /\ handler[u].frame.number \in 1..broadcasts
        /\ handler[u].frame.number \notin Numbers(posted) \cup Numbers(Kept) \cup Numbers(sent)
        /\ \A w \in Threads : handler[w].frame.number = handler[u].frame.number => w = u
    BY <1>14, <2>1 DEF Account, NumbersDiffer
  <2>3. handler[u].frame.number # f.number
    BY <1>11, <2>1
  <2>4. handler'[t].frame.number # handler[u].frame.number
    <3>1. 0 \notin 1..broadcasts
      OBVIOUS
    <3>2. QED
      BY <1>5, <2>2, <3>1 DEF NoFrame
  <2>5. \A w \in Threads : handler'[w].frame.number = handler'[u].frame.number => w = u
    BY <1>3, <2>1, <2>2, <2>4 DEF Spared
  <2>6. QED
    BY <1>1, <1>12, <1>13, <2>1, <2>2, <2>3, <2>5
<1>15. NumbersDiffer'
  BY <1>1, <1>11, <1>12, <1>13, <1>14 DEF Account, NumbersDiffer
<1>16. NoneIsLost'
  <2>1. \A n \in Handled : n = f.number \/ n \in Handled'
    <3> SUFFICES ASSUME NEW u \in Threads
                 PROVE  handler[u].frame.number = f.number \/ handler[u].frame.number \in Handled'
      BY DEF Handled
    <3>1. CASE u = t
      BY <3>1 DEF f
    <3>2. CASE u # t
      BY <1>3, <3>2 DEF Spared, Handled
    <3>3. QED
      BY <3>1, <3>2
  <2>2. QED
    BY <1>1, <1>12, <1>13, <2>1 DEF Account, NoneIsLost
<1>17. OnlyWritesPop'
  BY <1>1, <1>3, <1>5, <1>6 DEF Account, OnlyWritesPop, Spared
<1>18. QED
  BY <1>9, <1>15, <1>16, <1>17 DEF Account

LEMMA OnWriteAccount ==
  ASSUME StreamInv, Account, NEW t \in Threads, NEW i \in DOMAIN writing, OnWrite(t, i)
  PROVE  Account'
<1> DEFINE f == Head(write_queue)
<1>1. /\ handler[t].at = "rest"
      /\ UNCHANGED <<write_queue, posted, broadcasts, dropped, reading, open, undefined>>
  BY DEF OnWrite, Free, At, sessionVars
<1>2. /\ handler \in [Threads -> Handlers] /\ handler[t].frame = NoFrame
      /\ write_queue \in Seq(Frames) /\ writing \in Seq(Frames) /\ sent \in Seq(Frames)
  BY <1>1, HandlerTypes
<1>3. i \in 1..Len(writing) /\ Len(writing) \in Nat /\ Len(writing) <= 1
  BY <1>2 DEF Account, OneWrite
<1>4. i = 1 /\ Len(writing) = 1 /\ writing # <<>>
  BY <1>3
<1>5. /\ write_queue # <<>> /\ writing[i] = f
      /\ \A u \in Threads : ~Writer(handler[u])
  BY <1>4 DEF Account, OneWrite
<1>6. /\ f \in Frames /\ f \in ToSet(write_queue) /\ Tail(write_queue) \in Seq(Frames)
      /\ Numbers(write_queue) = Numbers(Tail(write_queue)) \cup {f.number}
      /\ Distinct(write_queue) =>
           Distinct(Tail(write_queue)) /\ f.number \notin Numbers(Tail(write_queue))
  BY <1>2, <1>5, HeadAndTail
<1> HIDE DEF f
<1>7. sent' = Append(sent, f)
  BY <1>5, <1>6 DEF OnWrite, Written
<1>8. writing' = <<>>
  <2>1. writing' = RemoveAt(writing, i)
    BY DEF OnWrite
  <2>2. Len(writing') = 0 /\ writing' \in Seq(Frames)
    BY <1>2, <1>3, <1>4, <2>1, RemoveAtFacts
  <2>3. QED
    BY <2>2, EmptySeq
<1>9. handler' = [handler EXCEPT ![t] = [Rest EXCEPT !.at = "load"]]
  BY <1>5 DEF OnWrite
<1>10. /\ Spared(t) /\ handler'[t].at = "load" /\ handler'[t].frame = NoFrame
  BY <1>2, <1>9, RestIs DEF Spared, Handlers
<1>11. Popping(handler'[t]) /\ \A u \in Threads : Writer(handler'[u]) => u = t
  BY <1>5, <1>10 DEF Popping, Spared
<1>12. OneWrite'
  <2>1. Len(<<>>) = 0
    OBVIOUS
  <2>2. QED
    BY <1>1, <1>5, <1>8, <1>11, <2>1 DEF Account, OneWrite
<1>13. Kept = write_queue /\ Kept' = Tail(write_queue)
  <2>1. \A u \in Threads : ~Popping(handler[u])
    BY <1>5 DEF Writer
  <2>2. QED
    BY <1>1, <1>11, <2>1 DEF Kept
<1>14. /\ Numbers(Kept) = Numbers(Kept') \cup {f.number}
       /\ Distinct(Kept') /\ f.number \notin Numbers(Kept')
  BY <1>6, <1>13 DEF Account, NumbersDiffer
<1>15. Numbers(sent') = Numbers(sent) \cup {f.number} /\ Distinct(sent')
  <2>1. Distinct(sent) /\ f.number \notin Numbers(sent)
    BY <1>14 DEF Account, NumbersDiffer
  <2>2. QED
    BY <1>2, <1>6, <1>7, <2>1, NumbersOfAppend
<1>16. Numbers(posted') = Numbers(posted) /\ Distinct(posted')
  BY <1>1 DEF Account, NumbersDiffer
<1>17. \A u \in Threads : handler'[u].frame = handler[u].frame
  BY <1>2, <1>10 DEF Spared
<1>18. NumbersDiffer'
  BY <1>1, <1>14, <1>15, <1>16, <1>17 DEF Account, NumbersDiffer
<1>19. NoneIsLost'
  <2>1. Handled' = Handled
    BY <1>17 DEF Handled
  <2>2. QED
    BY <1>1, <1>14, <1>15, <1>16, <2>1 DEF Account, NoneIsLost
<1>20. OnlyWritesPop'
  BY <1>1, <1>10 DEF Account, OnlyWritesPop, Spared, Popping
<1>21. QED
  BY <1>12, <1>18, <1>19, <1>20 DEF Account

LEMMA BroadcastAccount ==
  ASSUME StreamInv, Account, NEW size \in Sizes, Broadcast(size)
  PROVE  Account'
<1> DEFINE f == [number |-> broadcasts + 1, size |-> size]
<1>1. /\ broadcasts' = broadcasts + 1 /\ broadcasts \in Nat
      /\ UNCHANGED <<handler, write_queue, writing, reading, open, sent, dropped, undefined>>
      /\ posted' = (IF Alive THEN Append(posted, f) ELSE posted)
      /\ posted \in Seq(Frames) /\ f \in Frames /\ f.number = broadcasts + 1
  BY StreamAssumption DEF Broadcast, StreamInv, StreamTypeOK, Frames
<1> HIDE DEF f
<1>2. OneWrite' /\ OnlyWritesPop'
  BY <1>1 DEF Account, OneWrite, OnlyWritesPop
<1>3. /\ broadcasts + 1 \notin 1..broadcasts
      /\ 1..(broadcasts + 1) = 1..broadcasts \cup {broadcasts + 1}
  BY <1>1
<1>4. /\ Kept' = Kept /\ Numbers(Kept') = Numbers(Kept) /\ Distinct(Kept')
      /\ Numbers(sent') = Numbers(sent) /\ Distinct(sent')
      /\ Handled' = Handled
  BY <1>1 DEF Account, NumbersDiffer, Kept, Handled
<1>5. CASE Alive
  <2>1. posted' = Append(posted, f)
    BY <1>1, <1>5
  <2>2. f.number \notin Numbers(posted) \cup Numbers(Kept) \cup Numbers(sent)
    BY <1>1, <1>3 DEF Account, NumbersDiffer
  <2>3. Numbers(posted') = Numbers(posted) \cup {broadcasts + 1} /\ Distinct(posted')
    BY <1>1, <2>1, <2>2, NumbersOfAppend DEF Account, NumbersDiffer
  <2>4. \A t \in Threads : handler'[t].frame # NoFrame =>
          /\ handler'[t].frame.number \in 1..broadcasts'
          /\ handler'[t].frame.number \notin
               Numbers(posted') \cup Numbers(Kept') \cup Numbers(sent')
          /\ \A u \in Threads : handler'[u].frame.number = handler'[t].frame.number => u = t
    <3> SUFFICES ASSUME NEW t \in Threads, handler[t].frame # NoFrame
                 PROVE  /\ handler[t].frame.number \in 1..broadcasts'
                        /\ handler[t].frame.number \notin
                             Numbers(posted') \cup Numbers(Kept') \cup Numbers(sent')
                        /\ \A u \in Threads :
                             handler[u].frame.number = handler[t].frame.number => u = t
      BY <1>1
    <3>1. /\ handler[t].frame.number \in 1..broadcasts
          /\ handler[t].frame.number \notin Numbers(posted) \cup Numbers(Kept) \cup Numbers(sent)
          /\ \A u \in Threads : handler[u].frame.number = handler[t].frame.number => u = t
      BY DEF Account, NumbersDiffer
    <3>2. QED
      BY <1>1, <1>3, <1>4, <2>3, <3>1
  <2>5. NumbersDiffer'
    BY <1>1, <1>3, <1>4, <2>2, <2>3, <2>4 DEF Account, NumbersDiffer
  <2>6. NoneIsLost'
    BY <1>1, <1>3, <1>4, <2>3 DEF Account, NoneIsLost
  <2>7. QED
    BY <1>2, <2>5, <2>6 DEF Account
<1>6. CASE ~Alive
  <2>1. ~open /\ posted' = posted
    BY <1>1, <1>6 DEF Account, OneWrite, Alive
  <2>2. Numbers(posted') = Numbers(posted) /\ Distinct(posted')
    BY <2>1 DEF Account, NumbersDiffer
  <2>3. NumbersDiffer'
    BY <1>1, <1>3, <1>4, <2>2 DEF Account, NumbersDiffer
  <2>4. NoneIsLost'
    BY <1>1, <2>1 DEF NoneIsLost
  <2>5. QED
    BY <1>2, <2>3, <2>4 DEF Account
<1>7. QED
  BY <1>5, <1>6

\* A write that fails, and the end of the connection.
LEMMA ConnectionAccount ==
  ASSUME StreamInv, Account,
         \/ \E i \in DOMAIN writing : OnWriteFailed(i)
         \/ ConnectionBreaks \/ OnReadFailed \/ UNCHANGED streamVars
  PROVE  Account'
<1>1. /\ UNCHANGED <<handler, write_queue, posted, sent, broadcasts, dropped, undefined>>
      /\ (open' => open /\ reading')
  BY DEF OnWriteFailed, ConnectionBreaks, OnReadFailed, streamVars, sessionVars,
         Account, OneWrite
<1>2. writing' = writing \/ writing' = <<>>
  <2>1. CASE \E i \in DOMAIN writing : OnWriteFailed(i)
    <3>1. PICK i \in DOMAIN writing : writing' = RemoveAt(writing, i)
      BY <2>1 DEF OnWriteFailed
    <3>2. writing \in Seq(Frames)
      BY DEF StreamInv, StreamTypeOK
    <3>3. i \in 1..Len(writing) /\ Len(writing) \in Nat
      BY <3>2
    <3>4. Len(writing) - 1 = 0
      <4>1. Len(writing) <= 1
        BY DEF Account, OneWrite
      <4> DEFINE n == Len(writing)
      <4>2. n \in Nat /\ i \in 1..n /\ n <= 1
        BY <3>3, <4>1
      <4> HIDE DEF n
      <4>3. n - 1 = 0
        BY <4>2
      <4>4. QED
        BY <4>3 DEF n
    <3>5. RemoveAt(writing, i) \in Seq(Frames) /\ Len(RemoveAt(writing, i)) = Len(writing) - 1
      BY <3>2, <3>3, RemoveAtFacts
    <3>6. writing' \in Seq(Frames) /\ Len(writing') = 0
      BY <3>1, <3>4, <3>5
    <3>7. QED
      BY <3>6, EmptySeq
  <2>2. CASE ConnectionBreaks \/ OnReadFailed \/ UNCHANGED streamVars
    BY <2>2 DEF ConnectionBreaks, OnReadFailed, streamVars
  <2>3. QED
    BY <2>1, <2>2
<1>3. OneWrite'
  <2>1. Len(<<>>) = 0
    OBVIOUS
  <2>2. QED
    BY <1>1, <1>2, <2>1 DEF Account, OneWrite
<1>4. OnlyWritesPop'
  BY <1>1 DEF Account, OnlyWritesPop
<1>5. Kept' = Kept /\ Handled' = Handled
  BY <1>1 DEF Kept, Handled
<1>6. Numbers(posted') = Numbers(posted) /\ Numbers(Kept') = Numbers(Kept)
      /\ Numbers(sent') = Numbers(sent)
      /\ Distinct(posted') /\ Distinct(Kept') /\ Distinct(sent')
  BY <1>1, <1>5 DEF Account, NumbersDiffer
<1>7. NumbersDiffer'
  BY <1>1, <1>6 DEF Account, NumbersDiffer
<1>8. NoneIsLost'
  BY <1>1, <1>5, <1>6 DEF Account, NoneIsLost
<1>9. QED
  BY <1>3, <1>4, <1>7, <1>8 DEF Account

LEMMA AccountStep ==
  ASSUME StreamInv, AccountInv, [StreamNext]_streamVars
  PROVE  AccountInv'
<1>1. ws_backpressure_policy' = ws_backpressure_policy /\ races \subseteq races'
  BY DEF StreamNext, HandlerStep, TakeUp, CloseReturns, Broadcast, OnWrite, OnWriteFailed,
         ConnectionBreaks, OnReadFailed, Check, Loop, StillOver, Admit, Count, Add, Push,
         Start, Load, Subtract, Pop, More, UsesEmptyQueue, Raced, streamVars, sessionVars
<1> SUFFICES ASSUME ws_backpressure_policy # "DropOldest", "empty" \notin races'
             PROVE  Account'
  BY <1>1 DEF AccountInv
<1>2. Account
  BY <1>1 DEF AccountInv
<1>3. ASSUME NEW t \in Threads, TakeUp(t) \/ HandlerStep(t) \/ CloseReturns(t) PROVE Account'
  <2>1. ~Loop(t) /\ ~StillOver(t)
    BY <1>2 DEF Loop, StillOver, At, Account, OnlyWritesPop
  <2>2. ~UsesEmptyQueue(t)
    BY <1>2 DEF UsesEmptyQueue, At, Account, OneWrite, Writer, Popping
  <2>3. QED
    BY <1>2, <1>3, <2>1, <2>2, TakeUpAccount, CheckAccount, ReadsAccount, PushAccount,
       StartAccount, PopAccount, MoreAccount DEF HandlerStep
<1>4. ASSUME NEW t \in Threads, NEW i \in DOMAIN writing, OnWrite(t, i) PROVE Account'
  BY <1>2, <1>4, OnWriteAccount
<1>5. CASE \E size \in Sizes : Broadcast(size)
  BY <1>2, <1>5, BroadcastAccount
<1>6. CASE \/ \E i \in DOMAIN writing : OnWriteFailed(i)
           \/ ConnectionBreaks \/ OnReadFailed \/ UNCHANGED streamVars
  BY <1>2, <1>6, ConnectionAccount
<1>7. QED
  BY <1>3, <1>4, <1>5, <1>6 DEF StreamNext

LEMMA AccountInit == StreamInit => AccountInv
<1> SUFFICES ASSUME StreamInit PROVE Account
  BY DEF AccountInv
<1>1. \A t \in Threads : handler[t].at = "rest" /\ handler[t].frame = NoFrame
  BY RestIs DEF StreamInit
<1>2. \A t \in Threads : ~Writer(handler[t]) /\ ~Popping(handler[t])
  BY <1>1 DEF Writer, Popping
<1>3. /\ posted = <<>> /\ sent = <<>> /\ writing = <<>> /\ broadcasts = 0
      /\ open = TRUE /\ reading = TRUE /\ undefined = FALSE
      /\ Kept = <<>>
  BY <1>2 DEF StreamInit, Kept
<1>4. Numbers(<<>>) = {} /\ Distinct(<<>>) /\ Len(<<>>) = 0 /\ 1..0 = {}
  BY DEF Numbers, Distinct
<1>5. OneWrite /\ OnlyWritesPop
  BY <1>1, <1>2, <1>3, <1>4 DEF OneWrite, OnlyWritesPop
<1>6. NumbersDiffer /\ NoneIsLost
  BY <1>1, <1>3, <1>4 DEF NumbersDiffer, NoneIsLost
<1>7. QED
  BY <1>5, <1>6 DEF Account

\* A sequence without repetition is as long as the set of its numbers.
LEMMA DistinctCount ==
  ASSUME NEW s \in Seq(Frames), Distinct(s)
  PROVE  Cardinality(Numbers(s)) = Len(s)
<1> DEFINE g == [i \in 1..Len(s) |-> s[i].number]
<1>1. Len(s) \in Nat /\ DOMAIN s = 1..Len(s)
  OBVIOUS
<1>2. g \in Bijection(1..Len(s), Numbers(s))
  BY <1>1 DEF Bijection, Injection, Surjection, IsInjective, Distinct, Numbers
<1>3. ExistsBijection(1..Len(s), Numbers(s))
  BY <1>2 DEF ExistsBijection
<1>4. IsFiniteSet(1..Len(s)) /\ Cardinality(1..Len(s)) = Len(s)
  <2>1. 1 \in Int /\ Len(s) \in Int
    BY <1>1
  <2>2. Cardinality(1..Len(s)) = IF 1 > Len(s) THEN 0 ELSE Len(s) - 1 + 1
    BY <2>1, FS_Interval
  <2>3. IsFiniteSet(1..Len(s))
    BY <2>1, FS_Interval
  <2>4. QED
    BY <1>1, <2>2, <2>3
<1>5. QED
  BY <1>3, <1>4, FS_Bijection

\* Where the account holds, what FramesAreAccounted says follows.
LEMMA AccountSuffices ==
  ASSUME StreamInv, Account
  PROVE  Accounted /\ Len(writing) <= 1 /\ ~undefined
<1>1. /\ posted \in Seq(Frames) /\ write_queue \in Seq(Frames)
      /\ writing \in Seq(Frames) /\ sent \in Seq(Frames)
  BY DEF StreamInv, StreamTypeOK
<1>2. Cardinality(Numbers(sent)) = Len(sent)
  BY <1>1, DistinctCount DEF Account, NumbersDiffer
<1>3. Numbers(Kept) \subseteq Numbers(write_queue)
  <2>1. CASE \E t \in Threads : Popping(handler[t])
    <3>1. write_queue # <<>> /\ Kept = Tail(write_queue)
      BY <2>1 DEF Account, OneWrite, Writer, Kept
    <3>2. QED
      BY <1>1, <3>1, HeadAndTail
  <2>2. CASE ~ \E t \in Threads : Popping(handler[t])
    BY <2>2 DEF Kept
  <2>3. QED
    BY <2>1, <2>2
<1> DEFINE p2 == posted \o write_queue
           p3 == p2 \o writing
<1>4. p2 \in Seq(Frames) /\ Numbers(p2) = Numbers(posted) \cup Numbers(write_queue)
  BY <1>1, NumbersOfConcat, ConcatProperties
<1> HIDE DEF p2
<1>5. p3 \in Seq(Frames) /\ Numbers(p3) = Numbers(p2) \cup Numbers(writing)
  BY <1>1, <1>4, NumbersOfConcat, ConcatProperties
<1> HIDE DEF p3
<1>6. Numbers(p3 \o sent) = Numbers(p3) \cup Numbers(sent)
  BY <1>1, <1>5, NumbersOfConcat
<1>7. ASSUME NEW n \in 1..broadcasts, open
      PROVE  n \in Numbers(p3 \o sent) \cup Handled \/ \E f \in dropped : f.number = n
  BY <1>3, <1>4, <1>5, <1>6, <1>7 DEF Account, NoneIsLost
<1>8. Accounted
  BY <1>2, <1>7 DEF Accounted, p2, p3
<1>9. QED
  BY <1>8 DEF Account, OneWrite

\* Under drop_newest and disconnect a session loses no frame and sends none
\* twice, one write is outstanding at most, and the front of an empty queue is
\* never used, however the accesses of its handlers interleave and wherever the
\* connection breaks, as long as no handler acts on an emptiness of the queue
\* that another one has ended (send, do_write, on_write).
THEOREM AccountTheorem == StreamSpec => []FramesAreAccounted
<1>1. StreamInv /\ AccountInv => FramesAreAccounted
  BY AccountSuffices DEF AccountInv, FramesAreAccounted
<1>2. QED
  BY <1>1, AccountInit, AccountStep, StreamInvariant, PTL DEF StreamSpec
=============================================================================
