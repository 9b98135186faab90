----------------------- MODULE FilesystemScannerProofs -----------------------
(***************************************************************************)
(* Proofs about the scanner, for every tree of paths, every set of disks   *)
(* and options, and any number of changes while a scan runs.               *)
(*                                                                         *)
(* ScanInv is the inductive invariant: an entry is visited once and before *)
(* what is below it, and what was read of it is true unless a change       *)
(* touched it since.  ParentInv (whatever is above an entry was taken for  *)
(* a directory and not excluded) and CaptureInv (what should be captured   *)
(* is captured or on its way) rest on it, and the properties on them.      *)
(***************************************************************************)
EXTENDS FilesystemScanner, FiniteSetTheorems, SequenceTheorems,
        WellFoundedInduction, TLAPS

-----------------------------------------------------------------------------
(***************************************************************************)
(* The paths above a path.                                                 *)
(***************************************************************************)

\* A set of numbers that is not empty has a least one: what holds of a path when it
\* holds of the lesser ones holds of all.
LEMMA LeastNatural ==
  ASSUME NEW T \in SUBSET Nat, T # {}
  PROVE  \E n \in T : \A m \in T : n <= m
<1>1. PICK n \in T : \A m \in T : ~ (<<m, n>> \in OpToRel(<, Nat))
  BY NatLessThanWellFounded, WFMin
<1>2. \A m \in T : ~ (m < n)
  BY <1>1 DEF OpToRel
<1>3. QED
  BY <1>2

\* The recursion of Ancestors, for a function f.
IsAncestors(f) ==
  f = [p \in Paths |->
         IF p = Root THEN {} ELSE {ParentPath[p]} \cup f[ParentPath[p]]]

\* U has what is above p and what is above anything in U.
Closed(U, p) ==
  /\ p # Root => ParentPath[p] \in U
  /\ \A u \in U : u # Root => ParentPath[u] \in U

\* There is a function like that: the least closed set of every path.
LEMMA AncestorsDefined == IsAncestors(Ancestors)
<1> DEFINE h == [p \in Paths |-> {q \in Paths : \A U \in SUBSET Paths : Closed(U, p) => q \in U}]
<1>1. \A p \in Paths : p # Root => ParentPath[p] \in Paths
  BY PathAssumption
<1>2. h[Root] = {}
  <2>1. {} \in SUBSET Paths /\ Closed({}, Root) /\ Root \in Paths
    BY PathAssumption DEF Closed
  <2>2. QED
    BY <2>1
<1>3. ASSUME NEW p \in Paths, p # Root
      PROVE  h[p] = {ParentPath[p]} \cup h[ParentPath[p]]
  <2> DEFINE P == ParentPath[p]
             U0 == {P} \cup h[P]
  <2>1. P \in Paths
    BY <1>1, <1>3
  <2>2. \A U \in SUBSET Paths : Closed(U, p) => P \in U /\ Closed(U, P)
    BY <1>3 DEF Closed
  <2>3. U0 \subseteq h[p]
    BY <2>1, <2>2
  <2>4. U0 \in SUBSET Paths
    BY <2>1
  <2>5. Closed(U0, p)
    <3>1. \A U \in SUBSET Paths : Closed(U, P) => (P # Root => ParentPath[P] \in U)
      BY DEF Closed
    <3>2. P # Root => ParentPath[P] \in h[P]
      BY <1>1, <2>1, <3>1
    <3>3. ASSUME NEW u \in h[P], u # Root PROVE ParentPath[u] \in h[P]
      <4>1. u \in Paths /\ \A U \in SUBSET Paths : Closed(U, P) => u \in U
        BY <2>1
      <4>2. \A U \in SUBSET Paths : Closed(U, P) => ParentPath[u] \in U
        BY <3>3, <4>1 DEF Closed
      <4>3. ParentPath[u] \in Paths
        BY <1>1, <3>3, <4>1
      <4>4. QED
        BY <2>1, <4>2, <4>3
    <3> HIDE DEF h
    <3>4. QED
      BY <3>2, <3>3 DEF Closed
  <2>6. h[p] \subseteq U0
    BY <2>4, <2>5
  <2>7. QED
    BY <2>3, <2>6
<1> HIDE DEF h
<1>4. IsAncestors(h)
  <2>1. h = [p \in Paths |-> h[p]]
    BY DEF h
  <2>2. \A p \in Paths : h[p] = IF p = Root THEN {} ELSE {ParentPath[p]} \cup h[ParentPath[p]]
    BY <1>2, <1>3
  <2>3. QED
    BY <2>1, <2>2, Zenon DEF IsAncestors
<1>5. Ancestors = CHOOSE f : IsAncestors(f)
  BY Zenon DEF Ancestors, IsAncestors
<1>6. QED
  BY <1>4, <1>5

LEMMA AncestorsOfPath ==
  /\ Ancestors[Root] = {}
  /\ \A p \in Paths : p # Root =>
       ParentPath[p] \in Paths /\ Ancestors[p] = {ParentPath[p]} \cup Ancestors[ParentPath[p]]
<1>1. Ancestors = [p \in Paths |->
         IF p = Root THEN {} ELSE {ParentPath[p]} \cup Ancestors[ParentPath[p]]]
  BY AncestorsDefined, Zenon DEF IsAncestors
<1> HIDE DEF Ancestors
<1>2. \A p \in Paths : Ancestors[p] =
         IF p = Root THEN {} ELSE {ParentPath[p]} \cup Ancestors[ParentPath[p]]
  BY <1>1
<1>3. QED
  BY <1>2, PathAssumption

LEMMA AncestorsAreAbove ==
  \A p \in Paths :
    /\ Ancestors[p] \subseteq Paths
    /\ \A q \in Ancestors[p] : q < p
    /\ \A q \in Ancestors[p] : Ancestors[q] \subseteq Ancestors[p]
    /\ p # Root => Root \in Ancestors[p]
    /\ \A q \in Ancestors[p] : \E c \in Ancestors[p] \cup {p} : c # Root /\ ParentPath[c] = q
<1> DEFINE Holds(p) ==
      /\ Ancestors[p] \subseteq Paths
      /\ \A q \in Ancestors[p] : q < p
      /\ \A q \in Ancestors[p] : Ancestors[q] \subseteq Ancestors[p]
      /\ p # Root => Root \in Ancestors[p]
      /\ \A q \in Ancestors[p] : \E c \in Ancestors[p] \cup {p} : c # Root /\ ParentPath[c] = q
    T == {p \in Paths : ~Holds(p)}
<1> SUFFICES ASSUME T # {} PROVE FALSE
  OBVIOUS
<1> HIDE DEF Ancestors
<1>1. T \in SUBSET Nat
  BY PathAssumption
<1>2. PICK p \in T : \A m \in T : p <= m
  <2> HIDE DEF T
  <2>1. QED
    BY <1>1, LeastNatural
<1>3. CASE p = Root
  BY <1>3, AncestorsOfPath
<1>4. CASE p # Root
  <2> DEFINE P == ParentPath[p]
  <2>1. /\ p \in Paths /\ P \in Paths /\ P < p /\ p \in Nat /\ P \in Nat
        /\ Ancestors[p] = {P} \cup Ancestors[P]
    BY <1>4, AncestorsOfPath, PathAssumption
  <2>2. Holds(P)
    <3>1. P \notin T
      BY <1>2, <2>1
    <3>2. QED
      BY <2>1, <3>1
  <2>3. \A q \in Ancestors[p] : q < p
    <3>1. \A q \in Ancestors[P] : q \in Nat /\ q < P
      BY <2>2, PathAssumption
    <3>2. QED
      BY <2>1, <3>1
  <2>4. \A q \in Ancestors[p] : Ancestors[q] \subseteq Ancestors[p]
    BY <2>1, <2>2
  <2>5. Root \in Ancestors[p]
    BY <2>1, <2>2
  <2>6. ASSUME NEW q \in Ancestors[p]
        PROVE  \E c \in Ancestors[p] \cup {p} : c # Root /\ ParentPath[c] = q
    BY <1>4, <2>1, <2>2
  <2>7. Ancestors[p] \subseteq Paths
    BY <2>1, <2>2
  <2>8. QED
    BY <1>4, <2>3, <2>4, <2>5, <2>6, <2>7
<1>5. QED
  BY <1>3, <1>4

-----------------------------------------------------------------------------
(***************************************************************************)
(* The open directories.                                                   *)
(***************************************************************************)

\* The entries that are listed and not yet visited, in a stack of directories.
WaitingIn(dirs) == UNION {dirs[i] : i \in DOMAIN dirs}

\* No path waits twice.
Apart(dirs) ==
  \A i, j \in DOMAIN dirs : \A e \in dirs[i] : \A f \in dirs[j] :
    e.path = f.path => i = j /\ e = f

\* What Advance leaves of the open directories.
Rest(dirs, top, e) == <<dirs[top] \ {e}>> \o SubSeq(dirs, top + 1, Len(dirs))

LEMMA RestIsStack ==
  ASSUME NEW dirs \in Seq(SUBSET Listed), NEW top \in DOMAIN dirs, NEW e
  PROVE  /\ Rest(dirs, top, e) \in Seq(SUBSET Listed)
         /\ DOMAIN Rest(dirs, top, e) = 1 .. (Len(dirs) - top + 1)
         /\ Rest(dirs, top, e)[1] = dirs[top] \ {e}
         /\ \A i \in DOMAIN Rest(dirs, top, e) \ {1} :
              top + i - 1 \in DOMAIN dirs /\ Rest(dirs, top, e)[i] = dirs[top + i - 1]
<1> DEFINE S == SUBSET Listed
           s == <<dirs[top] \ {e}>>
           r == SubSeq(dirs, top + 1, Len(dirs))
           n == Len(dirs)
<1>1. n \in Nat /\ DOMAIN dirs = 1..n /\ top \in 1..n /\ \A i \in 1..n : dirs[i] \in S
  BY LenProperties, ElementOfSeq
<1>2. s \in Seq(S) /\ Len(s) = 1 /\ s[1] = dirs[top] \ {e}
  <2>1. dirs[top] \ {e} \in S
    BY <1>1
  <2>2. QED
    BY <2>1
<1> HIDE DEF S, s
<1>3. r \in Seq(S) /\ Len(r) = n - top /\ \A i \in 1..(n - top) : r[i] = dirs[top + i]
  <2> DEFINE m == top + 1
  <2>1. m \in Int /\ n \in Int /\ \A i \in m..n : dirs[i] \in S
    BY <1>1
  <2> HIDE DEF m, n
  <2>2. /\ SubSeq(dirs, m, n) \in Seq(S)
        /\ Len(SubSeq(dirs, m, n)) = IF m <= n THEN n - m + 1 ELSE 0
        /\ \A i \in 1..(n - m + 1) : SubSeq(dirs, m, n)[i] = dirs[m + i - 1]
    BY <2>1, SubSeqProperties
  <2> DEFINE q == SubSeq(dirs, m, n)
  <2>3. q = r
    BY DEF m, n
  <2> HIDE DEF q, r
  <2>4. /\ r \in Seq(S)
        /\ Len(r) = IF m <= n THEN n - m + 1 ELSE 0
        /\ \A i \in 1..(n - m + 1) : r[i] = dirs[m + i - 1]
    BY <2>2, <2>3 DEF q
  <2>5. \A i \in 1..(n - top) : i \in 1..(n - m + 1) /\ m + i - 1 = top + i
    BY <1>1 DEF m
  <2>6. Len(r) = n - top
    BY <1>1, <2>4 DEF m
  <2>7. QED
    BY <2>4, <2>5, <2>6
<1> HIDE DEF n, r
<1>4. /\ s \o r \in Seq(S)
      /\ Len(s \o r) = Len(s) + Len(r)
      /\ \A i \in 1..(Len(s) + Len(r)) :
           (s \o r)[i] = IF i <= Len(s) THEN s[i] ELSE r[i - Len(s)]
  <2>1. s \in Seq(S) /\ r \in Seq(S)
    BY <1>2, <1>3
  <2>2. QED
    BY ONLY <2>1, ConcatProperties, Zenon
<1>5. Rest(dirs, top, e) = s \o r
  BY DEF Rest, s, r, n
<1> DEFINE t == s \o r
<1> HIDE DEF t
<1>6. t \in Seq(S) /\ Len(t) = n - top + 1 /\ DOMAIN t = 1..(n - top + 1)
  <2>1. Len(t) = n - top + 1
    BY <1>1, <1>2, <1>3, <1>4 DEF t
  <2>2. t \in Seq(S)
    BY <1>4 DEF t
  <2>3. DOMAIN t = 1..Len(t)
    BY <2>2, LenProperties
  <2>4. QED
    BY <2>1, <2>2, <2>3
<1>7. \A i \in 1..(n - top + 1) : t[i] = IF i <= 1 THEN s[i] ELSE r[i - 1]
  BY <1>1, <1>2, <1>3, <1>4 DEF t
<1>8. t[1] = dirs[top] \ {e}
  BY <1>1, <1>2, <1>7
<1>9. \A i \in 1..(n - top + 1) \ {1} : top + i - 1 \in 1..n /\ t[i] = dirs[top + i - 1]
  <2>1. \A i \in 1..(n - top + 1) \ {1} :
          i - 1 \in 1..(n - top) /\ top + (i - 1) = top + i - 1 /\ top + i - 1 \in 1..n /\ ~(i <= 1)
    BY <1>1
  <2>2. QED
    BY <1>3, <1>7, <2>1
<1>10. Rest(dirs, top, e) = t
  BY <1>5 DEF t
<1>11. QED
  BY <1>1, <1>6, <1>8, <1>9, <1>10 DEF S, n

\* What Advance does: the traversal is over when nothing waits; otherwise an entry
\* that waited is next, and what waited besides still waits.
LEMMA AdvanceFacts ==
  ASSUME NEW dirs \in Seq(SUBSET Listed), Advance(dirs)
  PROVE  \/ /\ WaitingIn(dirs) = {}
            /\ pc' = "done" /\ fault' = "none"
            /\ path' = path /\ recursion_pending' = recursion_pending /\ stack' = stack
         \/ /\ path' \in WaitingIn(dirs)
            /\ stack' \in Seq(SUBSET Listed)
            /\ WaitingIn(stack') \subseteq WaitingIn(dirs)
            /\ Apart(dirs) =>
                 /\ WaitingIn(stack') = WaitingIn(dirs) \ {path'}
                 /\ Apart(stack')
            /\ recursion_pending' = TRUE /\ pc' = "status" /\ fault' = fault
<1> DEFINE open == {i \in DOMAIN dirs : dirs[i] # {}}
<1>1. DOMAIN dirs = 1..Len(dirs) /\ Len(dirs) \in Nat
  BY LenProperties
<1>2. CASE open = {}
  <2>1. WaitingIn(dirs) = {}
    BY <1>2 DEF WaitingIn
  <2>2. QED
    BY <1>2, <2>1 DEF Advance, End
<1>3. CASE open # {}
  <2> DEFINE top == CHOOSE i \in open : \A j \in open : i <= j
  <2>1. \E i \in open : \A j \in open : i <= j
    <3>1. open \in SUBSET Nat
      BY <1>1
    <3> HIDE DEF open
    <3>2. QED
      BY <1>3, <3>1, LeastNatural
  <2>2. top \in open /\ \A j \in open : top <= j
    BY <2>1
  <2>3. PICK e \in dirs[top] :
          /\ path' = e
          /\ recursion_pending' = TRUE
          /\ stack' = <<dirs[top] \ {e}>> \o SubSeq(dirs, top + 1, Len(dirs))
          /\ pc' = "status"
          /\ UNCHANGED fault
    BY <1>3, Zenon DEF Advance
  <2> HIDE DEF top
  <2>4. top \in DOMAIN dirs /\ \A j \in DOMAIN dirs : j < top => dirs[j] = {}
    BY <1>1, <2>2
  <2> HIDE DEF open
  <2> DEFINE s == Rest(dirs, top, e)
  <2>5. stack' = s
    BY <2>3, Zenon DEF Rest
  <2>6. /\ s \in Seq(SUBSET Listed)
        /\ DOMAIN s = 1 .. (Len(dirs) - top + 1)
        /\ s[1] = dirs[top] \ {e}
        /\ \A i \in DOMAIN s \ {1} : top + i - 1 \in DOMAIN dirs /\ s[i] = dirs[top + i - 1]
    BY <2>4, RestIsStack
  <2> HIDE DEF s
  <2>7. e \in WaitingIn(dirs)
    BY <2>4 DEF WaitingIn
  <2>8. \A i \in DOMAIN s : top + i - 1 \in DOMAIN dirs /\ s[i] \subseteq dirs[top + i - 1]
    <3>1. top + 1 - 1 = top
      BY <1>1, <2>4
    <3>2. QED
      BY <2>4, <2>6, <3>1
  <2>9. WaitingIn(s) \subseteq WaitingIn(dirs)
    BY <2>8 DEF WaitingIn
  <2>10. ASSUME Apart(dirs)
         PROVE  WaitingIn(s) = WaitingIn(dirs) \ {e} /\ Apart(s)
    <3>1. \A j \in DOMAIN dirs : j # top => e \notin dirs[j]
      BY <2>3, <2>4, <2>10 DEF Apart
    <3>2. \A i \in DOMAIN s : e \notin s[i]
      <4>1. \A i \in DOMAIN s \ {1} : top + i - 1 # top
        BY <1>1, <2>4, <2>6
      <4>2. QED
        BY <2>6, <3>1, <4>1
    <3>3. \A j \in DOMAIN dirs : \A f \in dirs[j] : f # e => \E i \in DOMAIN s : f \in s[i]
      <4> SUFFICES ASSUME NEW j \in DOMAIN dirs, NEW f \in dirs[j], f # e
                   PROVE  \E i \in DOMAIN s : f \in s[i]
        OBVIOUS
      <4>1. ~ (j < top)
        BY <2>4
      <4>2. CASE j = top
        <5>1. 1 \in DOMAIN s
          BY <1>1, <2>4, <2>6
        <5>2. QED
          BY <2>6, <4>2, <5>1
      <4>3. CASE j # top
        <5> DEFINE i == j - top + 1
        <5>1. i \in DOMAIN s \ {1} /\ top + i - 1 = j
          BY <1>1, <2>4, <2>6, <4>1, <4>3
        <5>2. s[i] = dirs[j]
          BY <2>6, <5>1
        <5>3. QED
          BY <5>1, <5>2
      <4>4. QED
        BY <4>2, <4>3
    <3>4. WaitingIn(s) = WaitingIn(dirs) \ {e}
      BY <2>9, <3>2, <3>3 DEF WaitingIn
    <3>5. Apart(s)
      <4>1. \A i, j \in DOMAIN s : top + i - 1 = top + j - 1 => i = j
        BY <1>1, <2>4, <2>6
      <4>2. QED
        BY <2>8, <2>10, <4>1 DEF Apart
    <3>6. QED
      BY <3>4, <3>5
  <2>11. QED
    BY <2>3, <2>5, <2>6, <2>7, <2>9, <2>10
<1>4. QED
  BY <1>2, <1>3

LEMMA StackOfPushed ==
  ASSUME NEW dirs \in Seq(SUBSET Listed), NEW L \in SUBSET Listed
  PROVE  /\ <<L>> \o dirs \in Seq(SUBSET Listed)
         /\ WaitingIn(<<L>> \o dirs) = L \cup WaitingIn(dirs)
         /\ /\ Apart(dirs)
            /\ \A e, f \in L : e.path = f.path => e = f
            /\ \A e \in L, f \in WaitingIn(dirs) : e.path # f.path
            => Apart(<<L>> \o dirs)
<1> DEFINE S == SUBSET Listed
           s == <<L>>
           t == s \o dirs
<1>1. s \in Seq(S) /\ Len(s) = 1 /\ s[1] = L
  OBVIOUS
<1>2. dirs \in Seq(S) /\ Len(dirs) \in Nat /\ DOMAIN dirs = 1..Len(dirs)
  BY LenProperties
<1> HIDE DEF S, s
<1>3. /\ s \o dirs \in Seq(S)
      /\ Len(s \o dirs) = Len(s) + Len(dirs)
      /\ \A i \in 1..(Len(s) + Len(dirs)) :
           (s \o dirs)[i] = IF i <= Len(s) THEN s[i] ELSE dirs[i - Len(s)]
  <2>1. s \in Seq(S) /\ dirs \in Seq(S)
    BY <1>1, <1>2
  <2>2. QED
    BY ONLY <2>1, ConcatProperties, Zenon
<1> HIDE DEF t
<1>4. DOMAIN t = 1..(Len(dirs) + 1)
  <2>1. t \in Seq(S) /\ Len(t) = Len(dirs) + 1
    BY <1>1, <1>2, <1>3 DEF t
  <2>2. DOMAIN t = 1..Len(t)
    BY <2>1, LenProperties
  <2>3. QED
    BY <2>1, <2>2
<1>5. \A i \in 1..(Len(dirs) + 1) : t[i] = IF i <= 1 THEN s[i] ELSE dirs[i - 1]
  BY <1>1, <1>2, <1>3 DEF t
<1>6. t[1] = L /\ 1 \in DOMAIN t
  BY <1>1, <1>2, <1>4, <1>5
<1>7. \A i \in DOMAIN t \ {1} : i - 1 \in DOMAIN dirs /\ t[i] = dirs[i - 1]
  BY <1>2, <1>4, <1>5
<1>8. \A i \in DOMAIN dirs : i + 1 \in DOMAIN t \ {1} /\ t[i + 1] = dirs[i]
  <2>1. \A i \in DOMAIN dirs : i + 1 \in DOMAIN t \ {1} /\ i + 1 - 1 = i
    BY <1>2, <1>4
  <2>2. QED
    BY <1>7, <2>1
<1>9. WaitingIn(t) = L \cup WaitingIn(dirs)
  <2>1. WaitingIn(t) \subseteq L \cup WaitingIn(dirs)
    BY <1>6, <1>7 DEF WaitingIn
  <2>2. L \cup WaitingIn(dirs) \subseteq WaitingIn(t)
    BY <1>6, <1>8 DEF WaitingIn
  <2>3. QED
    BY <2>1, <2>2
<1>10. ASSUME Apart(dirs),
              \A e, f \in L : e.path = f.path => e = f,
              \A e \in L, f \in WaitingIn(dirs) : e.path # f.path
       PROVE  Apart(t)
  <2>1. \A i, j \in DOMAIN t \ {1} : i - 1 = j - 1 => i = j
    BY <1>2, <1>4
  <2>2. \A i \in DOMAIN t \ {1} : t[i] \subseteq WaitingIn(dirs)
    BY <1>7 DEF WaitingIn
  <2>3. \A i, j \in DOMAIN t \ {1} : \A e \in t[i] : \A f \in t[j] :
          e.path = f.path => i = j /\ e = f
    BY <1>7, <1>10, <2>1 DEF Apart
  <2>4. \A j \in DOMAIN t : \A e \in t[1] : \A f \in t[j] :
          /\ e.path = f.path => 1 = j /\ e = f
          /\ f.path = e.path => j = 1 /\ f = e
    BY <1>6, <1>10, <2>2
  <2>5. QED
    BY <2>3, <2>4 DEF Apart
<1>11. QED
  BY <1>3, <1>9, <1>10 DEF t, s, S

\* What opening a directory adds.
LEMMA PushedFacts ==
  ASSUME ScanTypeOK, NEW d \in Paths
  PROVE  /\ Listing(d) \in SUBSET Listed
         /\ Pushed(d) \in Seq(SUBSET Listed)
         /\ WaitingIn(Pushed(d)) =
              (IF d \in options.unreadable THEN {} ELSE Listing(d)) \cup WaitingIn(stack)
         /\ Apart(stack) /\ (\A e \in Listing(d), f \in WaitingIn(stack) : e.path # f.path)
              => Apart(Pushed(d))
<1>1. Listing(d) \in SUBSET Listed
  BY DEF Listing, Listed, ScanTypeOK, Contents, Absent
<1>2. \A e, f \in Listing(d) : e.path = f.path => e = f
  BY DEF Listing
<1>3. stack \in Seq(SUBSET Listed)
  BY DEF ScanTypeOK
<1>4. CASE d \in options.unreadable
  BY <1>1, <1>3, <1>4 DEF Pushed
<1>5. CASE d \notin options.unreadable
  <2> DEFINE L == Listing(d)
  <2> HIDE DEF L
  <2>1. L \in SUBSET Listed /\ Pushed(d) = <<L>> \o stack
    BY <1>1, <1>5 DEF Pushed, L
  <2>2. /\ <<L>> \o stack \in Seq(SUBSET Listed)
        /\ WaitingIn(<<L>> \o stack) = L \cup WaitingIn(stack)
        /\ /\ Apart(stack)
           /\ \A e, f \in L : e.path = f.path => e = f
           /\ \A e \in L, f \in WaitingIn(stack) : e.path # f.path
           => Apart(<<L>> \o stack)
    BY <1>3, <2>1, StackOfPushed
  <2>3. QED
    BY <1>1, <1>2, <1>5, <2>1, <2>2 DEF L
<1>6. QED
  BY <1>4, <1>5

\* The directories that Increment advances through.
ToVisit == IF EntersDirectory \/ EntersSymlink THEN Pushed(path.path) ELSE stack

LEMMA ToVisitTyped ==
  ASSUME ScanTypeOK
  PROVE  path.path \in Paths /\ ToVisit \in Seq(SUBSET Listed)
BY PushedFacts DEF ToVisit, ScanTypeOK, Listed

-----------------------------------------------------------------------------
(***************************************************************************)
(* Types.                                                                  *)
(***************************************************************************)
LEMMA DisksTyped ==
  /\ \A files \in Disks : files \in [Paths -> Contents]
  /\ Absent \in Contents
BY ScannerAssumption DEF IsDisk, Contents

LEMMA InitTyped == ScannerInit => ScanTypeOK
<1> SUFFICES ASSUME ScannerInit PROVE ScanTypeOK
  OBVIOUS
<1>1. disk \in [Paths -> Contents] /\ options \in ScanOptions
  BY DisksTyped DEF ScannerInit
<1>2. changes \in Seq(SUBSET Paths) /\ stack \in Seq(SUBSET Listed)
  BY EmptySeq DEF ScannerInit
<1>3. path \in Listed /\ found \in Types
  BY PathAssumption DEF ScannerInit, Listed, Types
<1>4. QED
  BY <1>1, <1>2, <1>3 DEF ScannerInit, ScanTypeOK

LEMMA TouchedArePaths == ASSUME NEW p \in Paths PROVE Touched(p) \in SUBSET Paths
BY DEF Touched

LEMMA StepTyped ==
  ASSUME ScanTypeOK, ScannerNext PROVE ScanTypeOK'
<1> USE DEF ScanTypeOK
<1> HIDE DEF Ancestors
<1>0. path.path \in Paths
  BY DEF Listed
<1>1. ASSUME NEW p \in Paths, NEW new \in Contents, FilesChange(p, new) PROVE ScanTypeOK'
  <2>1. disk' \in [Paths -> Contents]
    BY <1>1, DisksTyped DEF FilesChange
  <2>2. changes' \in Seq(SUBSET Paths)
    BY <1>1, TouchedArePaths, AppendProperties DEF FilesChange
  <2>3. QED
    BY <1>1, <2>1, <2>2 DEF FilesChange, scanVars
<1>2. ASSUME NEW p \in Paths, NEW files \in Disks, DirectoryMovesIn(p, files) PROVE ScanTypeOK'
  <2>1. disk' \in [Paths -> Contents]
    BY <1>2, DisksTyped DEF DirectoryMovesIn
  <2>2. changes' \in Seq(SUBSET Paths)
    BY <1>2, TouchedArePaths, AppendProperties DEF DirectoryMovesIn
  <2>3. QED
    BY <1>2, <2>1, <2>2 DEF DirectoryMovesIn, scanVars
<1>3. CASE Begin
  BY <1>3 DEF Begin, End
<1>4. CASE StatusFails
  BY <1>4 DEF StatusFails, End
<1>5. CASE Skip
  <2>1. (SymlinkStatus(path.path) # "Directory") \in BOOLEAN
    OBVIOUS
  <2>2. recursion_pending' \in BOOLEAN
    BY <1>5, Zenon DEF Skip
  <2>3. QED
    BY <1>5, <2>2 DEF Skip
<1>6. CASE LimitExceeded
  BY <1>6 DEF LimitExceeded, End
<1>7. CASE Status
  <2>1. SymlinkStatus(path.path) # "None" => SymlinkStatus(path.path) \in Types
    BY <1>0 DEF SymlinkStatus, Contents, Absent, Types
  <2>2. QED
    BY <1>7, <2>1 DEF Status
<1>8. CASE Metadata
  <2>1. disk[path.path].inode \in Inodes \cup {0}
    BY <1>0 DEF Contents, Absent
  <2>2. (IF path.path = Root THEN RootPath ELSE path.path) \in Paths \cup {0}
    BY <1>0 DEF RootPath
  <2>3. raw' \subseteq RawEntries
    BY <1>8, <2>1, <2>2 DEF Metadata, RawEntries
  <2>4. QED
    BY <1>8, <2>3 DEF Metadata, AfterEntry
<1>9. ASSUME NEW dirs \in Seq(SUBSET Listed), Advance(dirs),
             UNCHANGED <<disk, changes, options, found, raw, diagnostics>>
      PROVE  ScanTypeOK'
  <2>1. WaitingIn(dirs) \subseteq Listed
    BY ElementOfSeq, LenProperties DEF WaitingIn
  <2>2. QED
    BY <1>9, <2>1, AdvanceFacts
<1>10. CASE OpenRoot
  <2>1. Pushed(Root) \in Seq(SUBSET Listed)
    BY PushedFacts, PathAssumption
  <2>2. CASE Advance(Pushed(Root))
    BY <1>9, <1>10, <2>1, <2>2 DEF OpenRoot
  <2>3. CASE End("traversal") /\ UNCHANGED <<path, recursion_pending, stack>>
    BY <1>10, <2>3 DEF OpenRoot, End
  <2>4. QED
    BY <1>10, <2>2, <2>3 DEF OpenRoot
<1>11. CASE Increment
  <2>1. ToVisit \in Seq(SUBSET Listed)
    BY ToVisitTyped
  <2>2. CASE Advance(ToVisit)
    BY <1>9, <1>11, <2>1, <2>2 DEF Increment
  <2>3. CASE End("traversal") /\ UNCHANGED <<path, recursion_pending, stack>>
    BY <1>11, <2>3 DEF Increment, End
  <2>4. QED
    BY <1>11, <2>2, <2>3 DEF Increment, ToVisit
<1>12. QED
  BY <1>1, <1>2, <1>3, <1>4, <1>5, <1>6, <1>7, <1>8, <1>10, <1>11 DEF ScannerNext

LEMMA StutterTyped == ASSUME ScanTypeOK, UNCHANGED scannerVars PROVE ScanTypeOK'
BY DEF ScanTypeOK, scannerVars, scanVars

\* Every variable of the scan keeps its type, whatever changes meanwhile.
THEOREM ScanTypeTheorem == ScannerSpec => []ScanTypeOK
<1>1. ScanTypeOK /\ [ScannerNext]_scannerVars => ScanTypeOK'
  BY StepTyped, StutterTyped
<1>2. QED
  BY <1>1, InitTyped, PTL DEF ScannerSpec

-----------------------------------------------------------------------------
(***************************************************************************)
(* What the scan has seen, and what it still visits.                       *)
(***************************************************************************)
PathsIn(entries) == {e.path : e \in entries}

Waiting == WaitingIn(stack)

\* The paths of what is listed or visited and not yet opened.
Unopened == PathsIn(Waiting) \cup (IF pc = "done" THEN {} ELSE {path.path})

Seen == Unopened \cup (PathsIn(raw) \ {0})

\* Nothing in U is above anything in S.
NotAbove(U, S) == \A q \in U : \A x \in S : q \notin Ancestors[x]

\* An entry is visited once: it waits once, or is visited, or is in the result, and
\* what is below it is not seen before it is opened.
OnceInv ==
  /\ Apart(stack)
  /\ pc # "done" => path.path \notin PathsIn(Waiting)
  /\ PathsIn(raw) \cap PathsIn(Waiting) = {}
  /\ pc \in {"begin", "status", "metadata"} => path.path \notin PathsIn(raw)
  /\ \A e, f \in raw : e.path = f.path => e = f
  /\ NotAbove(Unopened, Seen)
  /\ Root \notin PathsIn(Waiting)

\* The root is visited first.
RootInv ==
  /\ pc \in {"begin", "open"} => path.path = Root
  /\ pc = "increment" => path.path # Root
  /\ pc \in {"begin", "status", "metadata"} /\ path.path = Root => raw = {}

\* What was read of an entry is true, or the entry was touched by a change.
ListedInv ==
  /\ \A e \in Waiting : e.type = disk[e.path].type \/ ~Stable(e.path)
  /\ pc # "done" /\ path.path # Root
       => path.type = disk[path.path].type \/ ~Stable(path.path)
  /\ pc = "metadata" /\ path.path # Root
       => found = disk[path.path].type \/ ~Stable(path.path)

\* A directory that is in the result and not excluded, or the root.
Good(d) ==
  \/ d = Root
  \/ d \notin options.exclude /\ \E r \in raw : r.path = d /\ r.type = "Directory"

\* What was listed as a directory is none any more, or was exchanged twice.
Away(d) == ChangedTwice \/ (disk[d].type # "Directory" /\ ~Stable(d))

\* The iterator enters what collect_one_entry took for a directory.
EnterInv ==
  /\ pc \in {"begin", "status", "metadata"} => recursion_pending = TRUE
  /\ pc = "metadata" /\ path.path # Root /\ path.type = "Directory"
       => (found = "Directory" /\ path.path \notin options.exclude) \/ Away(path.path)
  /\ pc = "increment" /\ recursion_pending = TRUE /\ path.type = "Directory"
       => Good(path.path) \/ Away(path.path)

ScanInv == ScanTypeOK /\ OnceInv /\ RootInv /\ ListedInv /\ EnterInv

\* A change of the file system, seen from the scan: it touches some paths.
Changes(touched) ==
  /\ touched \in SUBSET Paths
  /\ changes' = Append(changes, touched)
  /\ \A q \in Paths : disk'[q] = disk[q] \/ q \in touched
  /\ UNCHANGED scanVars

LEMMA ChangesFacts ==
  ASSUME ScanTypeOK,
         \/ \E p \in Paths, new \in Contents : FilesChange(p, new)
         \/ \E p \in Paths, files \in Disks : DirectoryMovesIn(p, files)
  PROVE  \E touched : Changes(touched)
<1> HIDE DEF Ancestors
<1>1. ASSUME NEW p \in Paths, NEW new \in Contents, FilesChange(p, new)
      PROVE  Changes(Touched(p))
  BY <1>1, TouchedArePaths DEF FilesChange, Changes, Touched
<1>2. ASSUME NEW p \in Paths, NEW files \in Disks, DirectoryMovesIn(p, files)
      PROVE  Changes(Touched(p))
  BY <1>2, TouchedArePaths DEF DirectoryMovesIn, Changes
<1>3. QED
  BY <1>1, <1>2

\* A path that is touched is not stable; a path that is touched again changed twice.
LEMMA TouchFacts ==
  ASSUME ScanTypeOK, NEW touched, Changes(touched)
  PROVE  /\ \A q \in Paths : Stable(q)' <=> Stable(q) /\ q \notin touched
         /\ ChangedTwice => ChangedTwice'
         /\ \A q \in touched : ~Stable(q) => ChangedTwice'
<1> DEFINE n == Len(changes)
<1>1. changes \in Seq(SUBSET Paths) /\ touched \in SUBSET Paths /\ changes' = Append(changes, touched)
  BY DEF ScanTypeOK, Changes
<1>2. n \in Nat /\ DOMAIN changes = 1..n
  BY <1>1, LenProperties
<1>3. /\ DOMAIN changes' = 1..(n + 1)
      /\ \A i \in 1..n : changes'[i] = changes[i]
      /\ changes'[n + 1] = touched
  <2>1. /\ changes' \in Seq(SUBSET Paths) /\ Len(changes') = n + 1
        /\ \A i \in 1..n : changes'[i] = changes[i]
        /\ changes'[n + 1] = touched
    BY <1>1, AppendProperties
  <2>2. DOMAIN changes' = 1..Len(changes')
    BY <2>1, LenProperties
  <2>3. QED
    BY <2>1, <2>2
<1> HIDE DEF n
<1>4. /\ DOMAIN changes' = DOMAIN changes \cup {n + 1}
      /\ n + 1 \notin DOMAIN changes
      /\ \A i \in DOMAIN changes : i < n + 1
  BY <1>2, <1>3
<1>5. \A q \in Paths : Stable(q)' <=> Stable(q) /\ q \notin touched
  BY <1>2, <1>3, <1>4 DEF Stable
<1>6. ChangedTwice => ChangedTwice'
  BY <1>2, <1>3, <1>4 DEF ChangedTwice
<1>7. ASSUME NEW q \in touched, ~Stable(q) PROVE ChangedTwice'
  <2>1. PICK i \in DOMAIN changes : q \in changes[i]
    BY <1>7 DEF Stable
  <2>2. i \in DOMAIN changes' /\ n + 1 \in DOMAIN changes' /\ i < n + 1
        /\ q \in changes'[i] \cap changes'[n + 1]
    BY <1>2, <1>3, <1>4, <2>1
  <2>3. QED
    BY <2>2 DEF ChangedTwice
<1>8. QED
  BY <1>5, <1>6, <1>7

\* What waits has a path of the tree.
LEMMA WaitingTyped ==
  ASSUME ScanTypeOK
  PROVE  /\ Waiting \subseteq Listed
         /\ PathsIn(Waiting) \subseteq Paths
         /\ path.path \in Paths
         /\ PathsIn(raw) \subseteq Paths \cup {0}
         /\ 0 \notin Paths
<1>1. \A i \in DOMAIN stack : stack[i] \subseteq Listed
  BY ElementOfSeq, LenProperties DEF ScanTypeOK
<1>2. Waiting \subseteq Listed
  BY <1>1 DEF Waiting, WaitingIn
<1>3. QED
  BY <1>2, PathAssumption DEF ScanTypeOK, Listed, RawEntries, PathsIn

LEMMA ChangesKeepInv ==
  ASSUME ScanInv, NEW touched, Changes(touched), ScanTypeOK' PROVE ScanInv'
<1> USE DEF ScanInv
<1>1. /\ \A q \in Paths : Stable(q)' <=> Stable(q) /\ q \notin touched
      /\ ChangedTwice => ChangedTwice'
      /\ \A q \in touched : ~Stable(q) => ChangedTwice'
  BY TouchFacts
<1>2. /\ options' = options /\ pc' = pc /\ path' = path /\ found' = found
      /\ recursion_pending' = recursion_pending /\ stack' = stack /\ raw' = raw
      /\ \A q \in Paths : disk'[q] = disk[q] \/ q \in touched
  BY DEF Changes, scanVars
<1>4. Waiting' = Waiting
  BY <1>2 DEF Waiting, WaitingIn
<1>3. OnceInv' /\ RootInv'
  <2>1. Unopened' = Unopened /\ Seen' = Seen
    BY <1>2, <1>4 DEF Unopened, Seen
  <2> HIDE DEF Ancestors, Unopened, Seen, Waiting
  <2>2. QED
    BY <1>2, <1>4, <2>1 DEF OnceInv, RootInv, Apart, NotAbove
<1>5. ListedInv'
  <2>1. \A q \in Paths : disk'[q] # disk[q] \/ ~Stable(q) => ~Stable(q)'
    BY <1>1, <1>2
  <2>2. \A e \in Waiting : e.path \in Paths
    BY WaitingTyped DEF PathsIn
  <2>3. path.path \in Paths
    BY WaitingTyped
  <2> HIDE DEF Stable
  <2>4. \A e \in Waiting' : e.type = disk'[e.path].type \/ ~Stable(e.path)'
    BY <1>4, <2>1, <2>2 DEF ListedInv
  <2>5. pc' # "done" /\ path.path # Root => path.type = disk'[path.path].type \/ ~Stable(path.path)'
    BY <1>2, <2>1, <2>3 DEF ListedInv
  <2>6. pc' = "metadata" /\ path.path # Root => found = disk'[path.path].type \/ ~Stable(path.path)'
    BY <1>2, <2>1, <2>3 DEF ListedInv
  <2>7. QED
    BY <1>2, <2>4, <2>5, <2>6 DEF ListedInv, Stable
<1>6. Away(path.path) => Away(path.path)'
  <2>1. path.path \in Paths
    BY WaitingTyped
  <2>2. CASE ChangedTwice
    BY <1>1, <2>2 DEF Away
  <2>3. CASE disk[path.path].type # "Directory" /\ ~Stable(path.path)
    <3>1. CASE path.path \in touched
      BY <1>1, <2>3, <3>1 DEF Away
    <3>2. CASE path.path \notin touched
      <4>1. disk'[path.path] = disk[path.path] /\ ~Stable(path.path)'
        BY <1>1, <1>2, <2>1, <2>3, <3>2
      <4>2. QED
        BY <1>2, <2>3, <4>1 DEF Away, Stable
    <3>3. QED
      BY <3>1, <3>2
  <2>4. QED
    BY <2>2, <2>3 DEF Away
<1>7. EnterInv'
  <2>1. Good(path.path) => Good(path.path)'
    BY <1>2 DEF Good
  <2>2. QED
    BY <1>2, <1>6, <2>1 DEF EnterInv
<1>8. QED
  BY <1>3, <1>5, <1>7

\* The steps that keep the result and the open directories as they are.
LEMMA LookingKeepsInv ==
  ASSUME ScanInv, ScanTypeOK', pc # "done",
         UNCHANGED <<disk, changes, options, path, stack, raw>>,
         \/ pc' = "done" /\ UNCHANGED <<found, recursion_pending>>
         \/ Begin \/ Skip \/ Status
  PROVE  ScanInv'
<1> USE DEF ScanInv
<1>1. pc' = "done" \/ (pc = "begin" /\ pc' = "status") \/ (pc = "status" /\ pc' \in {"increment", "metadata"})
  BY DEF Begin, Skip, Status, End
<1>2. Waiting' = Waiting /\ PathsIn(raw)' = PathsIn(raw) /\ path' = path /\ raw' = raw /\ stack' = stack
  BY DEF Waiting, WaitingIn, PathsIn
<1>3. path.path \in Paths
  BY WaitingTyped
<1>4. OnceInv'
  <2>1. Unopened' \subseteq Unopened /\ Seen' \subseteq Seen
    BY <1>2 DEF Unopened, Seen
  <2>2. NotAbove(Unopened', Seen')
    BY <2>1 DEF OnceInv, NotAbove
  <2> HIDE DEF Ancestors, Unopened, Seen, Waiting, PathsIn
  <2>3. NotAbove(Unopened, Seen)'
    BY <2>2 DEF NotAbove
  <2>4. Apart(stack)'
    BY <1>2 DEF OnceInv, Apart
  <2>5. QED
    BY <1>1, <1>2, <2>3, <2>4 DEF OnceInv
<1>5. RootInv'
  <2>1. Skip => path.path # Root
    BY DEF Skip, Selected
  <2>2. pc' = "increment" => Skip
    BY DEF Begin, Skip, Status, End
  <2>3. QED
    BY <1>1, <1>2, <2>1, <2>2 DEF RootInv
<1>6. ListedInv'
  <2>1. Status /\ path.path # Root => found' = disk[path.path].type
    BY DEF Status, SymlinkStatus
  <2>2. pc' = "metadata" => Status
    BY DEF Begin, Skip, Status, End
  <2>3. Stable(path.path)' <=> Stable(path.path)
    BY <1>2 DEF Stable
  <2>4. \A e \in Waiting : Stable(e.path)' <=> Stable(e.path)
    BY DEF Stable
  <2> HIDE DEF Stable
  <2>5. \A e \in Waiting' : e.type = disk'[e.path].type \/ ~Stable(e.path)'
    BY <1>2, <2>4 DEF ListedInv
  <2>6. pc' # "done" /\ path.path # Root => path.type = disk'[path.path].type \/ ~Stable(path.path)'
    BY <1>1, <2>3 DEF ListedInv
  <2>7. pc' = "metadata" /\ path.path # Root => found' = disk'[path.path].type \/ ~Stable(path.path)'
    BY <2>1, <2>2
  <2>8. QED
    BY <1>2, <2>5, <2>6, <2>7 DEF ListedInv, Stable
<1>7. EnterInv'
  <2>1. Away(path.path)' <=> Away(path.path)
    BY <1>2 DEF Away, Stable, ChangedTwice
  <2>2. path.path # Root /\ disk[path.path].type # "Directory" /\ path.type = "Directory" /\ pc # "done" => Away(path.path)
    BY DEF ListedInv, Away
  <2> HIDE DEF Away
  <2>3. pc' \in {"begin", "status", "metadata"} => recursion_pending' = TRUE
    <3>1. ASSUME pc' \in {"begin", "status", "metadata"} PROVE Begin \/ Status
      BY <1>1, <3>1 DEF Skip
    <3>2. Begin \/ Status => recursion_pending' = recursion_pending
      BY Zenon DEF Begin, Status
    <3>3. Begin \/ Status => recursion_pending = TRUE
      BY DEF EnterInv, Begin, Status
    <3>4. QED
      BY <3>1, <3>2, <3>3, Zenon
  <2>4. ASSUME pc' = "metadata", path.path # Root, path.type = "Directory"
        PROVE  (found' = "Directory" /\ path.path \notin options.exclude) \/ Away(path.path)
    <3>1. Status
      BY <2>4 DEF Begin, Skip, Status, End
    <3>2. found' = disk[path.path].type /\ Selected(path.path, disk[path.path].type)
      BY <2>4, <3>1 DEF Status, SymlinkStatus
    <3>3. QED
      BY <2>2, <2>4, <3>1, <3>2 DEF Selected, Status
  <2>5. ASSUME pc' = "increment", recursion_pending' = TRUE, path.type = "Directory"
        PROVE  Away(path.path)
    <3>1. Skip
      BY <2>5 DEF Begin, Skip, Status, End
    <3>2. path.path # Root /\ SymlinkStatus(path.path) = disk[path.path].type
      BY <3>1 DEF Skip, Selected, SymlinkStatus
    <3>3. disk[path.path].type # "Directory"
      BY <2>5, <3>1, <3>2 DEF Skip
    <3>4. QED
      BY <2>2, <2>5, <3>1, <3>2, <3>3 DEF Skip
  <2>6. QED
    BY <1>2, <2>1, <2>3, <2>4, <2>5 DEF EnterInv
<1>8. QED
  BY <1>4, <1>5, <1>6, <1>7

\* An entry is added to the result.
LEMMA MetadataKeepsInv ==
  ASSUME ScanInv, ScanTypeOK', Metadata PROVE ScanInv'
<1> USE DEF ScanInv
<1> DEFINE r == [path  |-> IF path.path = Root THEN RootPath ELSE path.path,
                 type  |-> found,
                 inode |-> disk[path.path].inode]
<1>1. /\ pc = "metadata" /\ raw' = raw \cup {r}
      /\ pc' = IF path.path = Root THEN "open" ELSE "increment"
      /\ UNCHANGED <<disk, changes, options, path, found, recursion_pending, stack>>
  BY DEF Metadata, AfterEntry
<1>2. /\ path.path \in Paths /\ 0 \notin Paths /\ PathsIn(Waiting) \subseteq Paths
      /\ r.path \in {0, path.path} /\ r.type = found
      /\ path.path # Root => r.path = path.path
  BY WaitingTyped DEF RootPath
<1> HIDE DEF r
<1>3. Waiting' = Waiting /\ PathsIn(raw') = PathsIn(raw) \cup {r.path}
  BY <1>1 DEF Waiting, WaitingIn, PathsIn
<1>4. OnceInv'
  <2>1. Unopened' \subseteq Unopened /\ Seen' \subseteq Seen
    BY <1>1, <1>2, <1>3 DEF Unopened, Seen, PathsIn
  <2>2. NotAbove(Unopened', Seen')
    BY <2>1 DEF OnceInv, NotAbove
  <2>3. r.path \notin PathsIn(raw)
    <3>1. CASE path.path = Root
      BY <1>1, <3>1 DEF RootInv, PathsIn
    <3>2. CASE path.path # Root
      BY <1>1, <1>2, <3>2 DEF OnceInv
    <3>3. QED
      BY <3>1, <3>2
  <2>4. \A e, f \in raw' : e.path = f.path => e = f
    BY <1>1, <2>3 DEF OnceInv, PathsIn
  <2> HIDE DEF Ancestors, Unopened, Seen, Waiting
  <2>5. NotAbove(Unopened, Seen)'
    BY <2>2 DEF NotAbove
  <2>6. Apart(stack)'
    BY <1>1 DEF OnceInv, Apart
  <2>7. PathsIn(raw') \cap PathsIn(Waiting) = {}
    BY <1>1, <1>2, <1>3 DEF OnceInv
  <2>8. PathsIn(raw)' = PathsIn(raw') /\ PathsIn(Waiting)' = PathsIn(Waiting)
    BY <1>3 DEF PathsIn
  <2> HIDE DEF PathsIn
  <2>9. QED
    BY <1>1, <1>3, <2>4, <2>5, <2>6, <2>7, <2>8 DEF OnceInv
<1>5. RootInv'
  BY <1>1 DEF RootInv
<1>6. ListedInv'
  BY <1>1, <1>3 DEF ListedInv, Stable
<1>7. EnterInv'
  <2>1. Away(path.path)' <=> Away(path.path)
    BY <1>1 DEF Away, Stable, ChangedTwice
  <2>2. path.path # Root /\ found = "Directory" /\ path.path \notin options.exclude => Good(path.path)'
    BY <1>1, <1>2 DEF Good
  <2> HIDE DEF Away, Good
  <2>3. QED
    BY <1>1, <2>1, <2>2 DEF EnterInv
<1>8. QED
  BY <1>4, <1>5, <1>6, <1>7

\* The paths of a listing.
LEMMA ListingFacts ==
  ASSUME ScanTypeOK, NEW d \in Paths
  PROVE  /\ \A e \in Listing(d) :
              /\ e.path \in Paths /\ e.path # Root /\ ParentPath[e.path] = d
              /\ e.type = disk[e.path].type
         /\ \A q \in Paths : q # Root /\ ParentPath[q] = d /\ disk[q].type # "None"
              => [path |-> q, type |-> disk[q].type] \in Listing(d)
BY DEF Listing

\* A directory is opened, or not, and the next entry is visited.
LEMMA OpeningKeepsOnce ==
  ASSUME ScanInv, ScanTypeOK', pc \in {"open", "increment"},
         NEW dirs, dirs = stack \/ dirs = Pushed(path.path), Advance(dirs),
         UNCHANGED <<disk, changes, options, found, raw, diagnostics>>
  PROVE  OnceInv'
<1> USE DEF ScanInv
<1> HIDE DEF Ancestors
<1> DEFINE d == path.path
           W == PathsIn(WaitingIn(dirs))
           O == PathsIn(Waiting)
           R == PathsIn(raw) \ {0}
           L == PathsIn(Listing(d))
<1>1. /\ d \in Paths /\ O \subseteq Paths /\ R \subseteq Paths /\ 0 \notin Paths
      /\ Unopened = O \cup {d} /\ Seen = O \cup {d} \cup R
      /\ stack \in Seq(SUBSET Listed)
  BY WaitingTyped DEF Unopened, Seen, ScanTypeOK
<1>2. \A c \in L : c \in Paths /\ c # Root /\ Ancestors[c] = {d} \cup Ancestors[d] /\ d \in Ancestors[c]
  BY <1>1, ListingFacts, AncestorsOfPath DEF PathsIn
<1>3. L \cap (O \cup {d} \cup R) = {}
  BY <1>1, <1>2 DEF OnceInv, NotAbove
<1>4. \A e \in Listing(d), f \in WaitingIn(stack) : e.path # f.path
  BY <1>3 DEF PathsIn, Waiting
<1>5. Apart(stack) /\ Apart(Pushed(d)) /\ Pushed(d) \in Seq(SUBSET Listed)
  BY <1>1, <1>4, PushedFacts DEF OnceInv
<1>6. Apart(dirs) /\ dirs \in Seq(SUBSET Listed)
  BY <1>1, <1>5
<1>7. WaitingIn(dirs) \subseteq Listing(d) \cup Waiting
  BY <1>1, PushedFacts DEF Waiting
<1>8. W \subseteq L \cup O
  BY <1>7 DEF PathsIn
<1>9. NotAbove(W, W \cup R)
  <2> SUFFICES ASSUME NEW q \in L \cup O, NEW x \in L \cup O \cup R PROVE q \notin Ancestors[x]
    BY <1>8 DEF NotAbove
  <2>1. q # d /\ q \in Paths
    BY <1>1, <1>2, <1>3, OnceInv DEF OnceInv
  <2>2. q \in L => q \notin Ancestors[d]
    <3>1. ASSUME q \in Ancestors[d] PROVE d \notin Ancestors[q]
      <4>1. q < d /\ \A z \in Ancestors[q] : z < q
        BY <1>1, <2>1, <3>1, AncestorsAreAbove
      <4>2. q \in Nat /\ d \in Nat
        BY <1>1, <2>1, PathAssumption
      <4>3. QED
        BY <4>1, <4>2
    <3>2. QED
      BY <1>2, <3>1
  <2>3. q \in O => q \notin Ancestors[d]
    BY <1>1 DEF OnceInv, NotAbove
  <2>4. CASE x \in L
    BY <1>2, <2>1, <2>2, <2>3, <2>4
  <2>5. CASE x \in O \cup R
    <3>1. q \in L => d \in Ancestors[q]
      BY <1>2
    <3>2. d \notin Ancestors[x]
      BY <1>1, <2>5 DEF OnceInv, NotAbove
    <3>3. x \in Paths /\ \A z \in Ancestors[x] : Ancestors[z] \subseteq Ancestors[x]
      BY <1>1, <2>5, AncestorsAreAbove
    <3>4. q \in O => q \notin Ancestors[x]
      BY <1>1, <2>5 DEF OnceInv, NotAbove
    <3>5. QED
      BY <3>1, <3>2, <3>3, <3>4
  <2>6. QED
    BY <2>4, <2>5
<1>10. Root \notin W
  BY <1>2, <1>8 DEF OnceInv
<1>11. PathsIn(raw) \cap W = {}
  <2>1. 0 \notin L \cup O
    BY <1>1, <1>2
  <2>2. O \cap PathsIn(raw) = {}
    BY DEF OnceInv
  <2>3. QED
    BY <1>3, <1>8, <2>1, <2>2
<1> DEFINE wait == WaitingIn(dirs)
<1> HIDE DEF W, O, R, L, d, wait
<1>12. \/ wait = {} /\ pc' = "done" /\ stack' = stack /\ path' = path
       \/ /\ path' \in wait /\ WaitingIn(stack') = wait \ {path'} /\ Apart(stack')
          /\ pc' = "status"
  BY <1>6, AdvanceFacts DEF wait
<1>13. raw' = raw /\ PathsIn(raw)' = PathsIn(raw)
  BY DEF PathsIn
<1>14. CASE wait = {} /\ pc' = "done" /\ stack' = stack /\ path' = path
  <2>1. Waiting' = Waiting /\ PathsIn(Waiting)' = PathsIn(Waiting) /\ Apart(stack)'
    BY <1>5, <1>14 DEF Waiting, WaitingIn, PathsIn, Apart
  <2>2. Unopened' \subseteq Unopened /\ Seen' \subseteq Seen
    BY <1>13, <1>14, <2>1 DEF Unopened, Seen
  <2>3. NotAbove(Unopened', Seen')
    BY <2>2 DEF OnceInv, NotAbove
  <2>4. NotAbove(Unopened, Seen)'
    BY <2>3 DEF NotAbove
  <2> HIDE DEF Unopened, Seen, Waiting, PathsIn, Apart
  <2>5. QED
    BY <1>13, <1>14, <2>1, <2>4 DEF OnceInv
<1>15. CASE /\ path' \in wait /\ WaitingIn(stack') = wait \ {path'} /\ Apart(stack')
            /\ pc' = "status"
  <2>1. Waiting' = wait \ {path'} /\ Apart(stack)'
    BY <1>15 DEF Waiting, Apart, WaitingIn
  <2>2. \A e, f \in wait : e.path = f.path => e = f
    BY <1>6 DEF Apart, wait, WaitingIn
  <2>3. W = PathsIn(wait)
    BY DEF W, wait
  <2>4. path'.path \in W /\ path'.path \notin PathsIn(wait \ {path'}) /\ PathsIn(wait \ {path'}) \subseteq W
    BY <1>15, <2>2, <2>3 DEF PathsIn
  <2>5. PathsIn(Waiting)' = PathsIn(wait \ {path'})
    BY <2>1 DEF PathsIn
  <2>6. Unopened' \subseteq W /\ Seen' \subseteq W \cup R
    BY <1>13, <1>15, <2>4, <2>5 DEF Unopened, Seen, R
  <2>7. NotAbove(Unopened', Seen')
    BY <1>9, <2>6 DEF NotAbove
  <2>8. NotAbove(Unopened, Seen)'
    BY <2>7 DEF NotAbove
  <2> HIDE DEF Unopened, Seen, Waiting, PathsIn, Apart
  <2>9. QED
    BY <1>10, <1>11, <1>13, <1>15, <2>1, <2>4, <2>5, <2>8 DEF OnceInv
<1>16. QED
  BY <1>12, <1>14, <1>15

LEMMA OpeningKeepsInv ==
  ASSUME ScanInv, ScanTypeOK', pc \in {"open", "increment"},
         NEW dirs, dirs = stack \/ dirs = Pushed(path.path), Advance(dirs),
         UNCHANGED <<disk, changes, options, found, raw, diagnostics>>
  PROVE  ScanInv'
<1> USE DEF ScanInv
<1> HIDE DEF Ancestors
<1>1. OnceInv'
  BY OpeningKeepsOnce
<1>2. path.path \in Paths /\ stack \in Seq(SUBSET Listed) /\ Waiting \subseteq Listed
  BY WaitingTyped DEF ScanTypeOK
<1>3. WaitingIn(dirs) \subseteq Listing(path.path) \cup Waiting
  BY <1>2, PushedFacts DEF Waiting
<1>4. dirs \in Seq(SUBSET Listed)
  BY <1>2, PushedFacts
<1>5. \A e \in WaitingIn(dirs) :
        e.path # Root /\ (e.type = disk[e.path].type \/ ~Stable(e.path))
  <2>1. \A e \in Waiting : e.path # Root /\ (e.type = disk[e.path].type \/ ~Stable(e.path))
    BY DEF OnceInv, ListedInv, PathsIn
  <2>2. \A e \in Listing(path.path) : e.path # Root /\ e.type = disk[e.path].type
    BY <1>2, ListingFacts
  <2>3. QED
    BY <1>3, <2>1, <2>2
<1> DEFINE wait == WaitingIn(dirs)
<1> HIDE DEF wait
<1>6. \/ /\ pc' = "done" /\ stack' = stack /\ path' = path /\ recursion_pending' = recursion_pending
      \/ /\ path' \in wait /\ WaitingIn(stack') \subseteq wait
         /\ recursion_pending' = TRUE /\ pc' = "status"
  BY <1>4, AdvanceFacts DEF wait
<1>7. \A q : Stable(q)' <=> Stable(q)
  BY DEF Stable
<1>8. RootInv'
  BY <1>5, <1>6 DEF RootInv, wait
<1>9. ListedInv'
  <2>1. \A e \in Waiting' : e.type = disk[e.path].type \/ ~Stable(e.path)
    BY <1>5, <1>6 DEF ListedInv, Waiting, wait
  <2>2. pc' # "done" => path'.type = disk[path'.path].type \/ ~Stable(path'.path)
    BY <1>5, <1>6 DEF wait
  <2>3. pc' # "metadata"
    BY <1>6
  <2> HIDE DEF Waiting
  <2>4. QED
    BY <2>1, <2>2, <2>3 DEF ListedInv, Stable
<1>10. EnterInv'
  BY <1>6 DEF EnterInv
<1>11. QED
  BY <1>1, <1>8, <1>9, <1>10

LEMMA ScanInvInit == ScannerInit => ScanInv
<1> SUFFICES ASSUME ScannerInit PROVE ScanInv
  OBVIOUS
<1> HIDE DEF Ancestors
<1>1. Waiting = {} /\ Apart(stack)
  BY DEF ScannerInit, Waiting, WaitingIn, Apart
<1>2. PathsIn(Waiting) = {} /\ PathsIn(raw) = {} /\ Unopened = {Root} /\ Seen = {Root}
  BY <1>1 DEF ScannerInit, PathsIn, Unopened, Seen
<1>3. NotAbove(Unopened, Seen)
  BY <1>2, AncestorsOfPath DEF NotAbove
<1>4. OnceInv
  BY <1>1, <1>2, <1>3 DEF OnceInv, ScannerInit
<1>5. RootInv /\ ListedInv /\ EnterInv
  BY <1>1 DEF RootInv, ListedInv, EnterInv, ScannerInit
<1>6. QED
  BY <1>4, <1>5, InitTyped DEF ScanInv

LEMMA ScanInvStep ==
  ASSUME ScanInv, ScannerNext PROVE ScanInv'
<1> HIDE DEF Ancestors
<1>1. ScanTypeOK /\ ScanTypeOK'
  BY StepTyped DEF ScanInv
<1>2. CASE \/ \E p \in Paths, new \in Contents : FilesChange(p, new)
           \/ \E p \in Paths, files \in Disks : DirectoryMovesIn(p, files)
  BY <1>1, <1>2, ChangesFacts, ChangesKeepInv
<1>3. CASE Begin \/ StatusFails \/ Skip \/ LimitExceeded \/ Status
  <2>1. /\ pc # "done" /\ UNCHANGED <<disk, changes, options, path, stack, raw>>
        /\ (pc' = "done" /\ UNCHANGED <<found, recursion_pending>>) \/ Begin \/ Skip \/ Status
    BY <1>3 DEF Begin, StatusFails, Skip, LimitExceeded, Status, End
  <2>2. QED
    BY <1>1, <2>1, LookingKeepsInv
<1>4. CASE Metadata
  BY <1>1, <1>4, MetadataKeepsInv
<1>5. ASSUME pc # "done", End("traversal"), UNCHANGED <<path, recursion_pending, stack>>,
             UNCHANGED <<disk, changes, options, found, raw, diagnostics>>
      PROVE  ScanInv'
  BY <1>1, <1>5, LookingKeepsInv DEF End
<1>6. CASE OpenRoot
  <2>1. pc = "open" /\ path.path = Root /\ UNCHANGED <<disk, changes, options, found, raw, diagnostics>>
    BY <1>6 DEF OpenRoot, ScanInv, RootInv
  <2>2. CASE Advance(Pushed(Root))
    BY <1>1, <2>1, <2>2, OpeningKeepsInv
  <2>3. CASE End("traversal") /\ UNCHANGED <<path, recursion_pending, stack>>
    BY <1>5, <2>1, <2>3
  <2>4. QED
    BY <1>6, <2>2, <2>3 DEF OpenRoot
<1>7. CASE Increment
  <2>1. pc = "increment" /\ UNCHANGED <<disk, changes, options, found, raw, diagnostics>>
    BY <1>7 DEF Increment
  <2>2. ToVisit = stack \/ ToVisit = Pushed(path.path)
    BY DEF ToVisit
  <2>3. CASE Advance(ToVisit)
    BY <1>1, <2>1, <2>2, <2>3, OpeningKeepsInv
  <2>4. CASE End("traversal") /\ UNCHANGED <<path, recursion_pending, stack>>
    BY <1>5, <2>1, <2>4
  <2>5. QED
    BY <1>7, <2>3, <2>4 DEF Increment, ToVisit
<1>8. QED
  BY <1>2, <1>3, <1>4, <1>6, <1>7 DEF ScannerNext

-----------------------------------------------------------------------------
(***************************************************************************)
(* What is below an excluded directory is not visited.                     *)
(***************************************************************************)

\* Whatever is above something that was seen is in the result and not excluded.
ParentInv ==
  ~options.follow_symlinks /\ ~ChangedTwice
    => \A x \in Seen : \A d \in Ancestors[x] : Good(d)

\* A directory is opened and the next entry is visited, or the traversal is over.
Opening(dirs) ==
  /\ \/ pc = "open" /\ dirs = Pushed(Root)
     \/ /\ pc = "increment" /\ dirs = ToVisit
        /\ EntersDirectory => Opens(path.path)
  /\ Advance(dirs)
  /\ UNCHANGED <<disk, changes, options, found, raw, diagnostics>>

LEMMA SeenAfterOpening ==
  ASSUME ScanInv, NEW dirs, Opening(dirs)
  PROVE  /\ Seen' \subseteq Seen \cup PathsIn(Listing(path.path))
         /\ dirs = stack => Seen' \subseteq Seen
<1> USE DEF ScanInv
<1>1. path.path \in Paths /\ stack \in Seq(SUBSET Listed)
  BY WaitingTyped DEF ScanTypeOK
<1>2. /\ dirs \in Seq(SUBSET Listed)
      /\ WaitingIn(dirs) \subseteq Listing(path.path) \cup Waiting
      /\ dirs = stack => WaitingIn(dirs) = Waiting
  <2>1. dirs = stack \/ dirs = Pushed(path.path)
    BY DEF Opening, ToVisit, RootInv
  <2>2. QED
    BY <1>1, <2>1, PushedFacts DEF Waiting
<1>3. \/ pc' = "done" /\ path' = path /\ stack' = stack
      \/ path' \in WaitingIn(dirs) /\ WaitingIn(stack') \subseteq WaitingIn(dirs) /\ pc' = "status"
  BY <1>2, AdvanceFacts DEF Opening
<1>4. raw' = raw /\ pc # "done"
  BY DEF Opening
<1>5. CASE pc' = "done" /\ path' = path /\ stack' = stack
  BY <1>4, <1>5 DEF Seen, Unopened, Waiting, WaitingIn, PathsIn
<1>6. CASE path' \in WaitingIn(dirs) /\ WaitingIn(stack') \subseteq WaitingIn(dirs) /\ pc' = "status"
  <2> DEFINE wait == WaitingIn(dirs)
             ahead == WaitingIn(stack')
  <2>1. Seen' = PathsIn(ahead) \cup {path'.path} \cup (PathsIn(raw) \ {0})
    BY <1>4, <1>6 DEF Seen, Unopened, Waiting, WaitingIn, PathsIn
  <2> HIDE DEF wait, ahead
  <2>2. path' \in wait /\ ahead \subseteq wait
    BY <1>6 DEF wait, ahead
  <2>3. Seen' \subseteq PathsIn(wait) \cup (PathsIn(raw) \ {0})
    BY <2>1, <2>2 DEF PathsIn
  <2>4. /\ PathsIn(wait) \subseteq PathsIn(Listing(path.path)) \cup PathsIn(Waiting)
        /\ dirs = stack => PathsIn(wait) = PathsIn(Waiting)
    BY <1>2 DEF wait, PathsIn
  <2>5. PathsIn(Waiting) \cup (PathsIn(raw) \ {0}) \subseteq Seen
    BY DEF Seen, Unopened
  <2>6. QED
    BY <2>3, <2>4, <2>5
<1>7. QED
  BY <1>3, <1>5, <1>6

\* Every step, seen from what is opened.
LEMMA StepKinds ==
  ASSUME ScanInv, ScannerNext
  PROVE  \/ \E touched : Changes(touched)
         \/ Begin \/ Skip \/ Status \/ Metadata
         \/ \E dirs : Opening(dirs)
         \/ /\ pc # "done" /\ pc' = "done" /\ fault' # "none"
            /\ UNCHANGED <<disk, changes, options, path, stack, raw>>
<1> HIDE DEF Ancestors
<1>1. CASE OpenRoot
  BY <1>1 DEF OpenRoot, Opening, End
<1>2. CASE Increment
  <2>1. CASE Advance(ToVisit) /\ (EntersDirectory => Opens(path.path))
    BY <1>2, <2>1, Zenon DEF Increment, Opening
  <2>2. CASE End("traversal") /\ UNCHANGED <<path, recursion_pending, stack>>
    BY <1>2, <2>2 DEF Increment, End
  <2>3. QED
    BY <1>2, <2>1, <2>2, Zenon DEF Increment, ToVisit
<1>3. CASE StatusFails \/ LimitExceeded
  BY <1>3 DEF StatusFails, LimitExceeded, End
<1>4. CASE \/ \E p \in Paths, new \in Contents : FilesChange(p, new)
           \/ \E p \in Paths, files \in Disks : DirectoryMovesIn(p, files)
  BY <1>4, ChangesFacts DEF ScanInv
<1>5. QED
  BY <1>1, <1>2, <1>3, <1>4 DEF ScannerNext

LEMMA ParentInvStep ==
  ASSUME ScanInv, ParentInv, ScannerNext PROVE ParentInv'
<1> HIDE DEF Ancestors
<1>1. ASSUME options' = options, ChangedTwice => ChangedTwice', Seen' \subseteq Seen,
             raw \subseteq raw'
      PROVE  ParentInv'
  <2>1. \A d : Good(d) => Good(d)'
    BY <1>1 DEF Good
  <2> HIDE DEF Good, Seen, ChangedTwice
  <2>2. QED
    BY <1>1, <2>1 DEF ParentInv
<1>2. ASSUME NEW touched, Changes(touched) PROVE ParentInv'
  <2>1. ChangedTwice => ChangedTwice'
    BY <1>2, TouchFacts DEF ScanInv
  <2>2. options' = options /\ raw' = raw /\ Seen' = Seen
    BY <1>2 DEF Changes, scanVars, Seen, Unopened, Waiting, WaitingIn, PathsIn
  <2>3. QED
    BY <1>1, <2>1, <2>2
<1>3. ASSUME pc # "done", UNCHANGED <<changes, options, path, stack, raw>> PROVE ParentInv'
  <2>1. ChangedTwice => ChangedTwice'
    BY <1>3 DEF ChangedTwice
  <2>2. Seen' \subseteq Seen
    BY <1>3 DEF Seen, Unopened, Waiting, WaitingIn, PathsIn
  <2>3. QED
    BY <1>1, <1>3, <2>1, <2>2
<1>4. CASE Metadata
  <2>1. ChangedTwice => ChangedTwice'
    BY <1>4 DEF ChangedTwice, Metadata
  <2>2. Seen' \subseteq Seen
    BY <1>4 DEF Seen, Unopened, Waiting, WaitingIn, PathsIn, Metadata, AfterEntry, RootPath
  <2>3. QED
    BY <1>1, <1>4, <2>1, <2>2 DEF Metadata
<1>5. ASSUME NEW dirs, Opening(dirs) PROVE ParentInv'
  <2> DEFINE d == path.path
  <2>1. ChangedTwice' <=> ChangedTwice
    BY <1>5 DEF ChangedTwice, Opening
  <2>2. options' = options /\ raw' = raw
    BY <1>5 DEF Opening
  <2>3. CASE dirs = stack
    BY <1>1, <1>5, <2>1, <2>2, <2>3, SeenAfterOpening
  <2>4. CASE dirs # stack
    <3> SUFFICES ASSUME ~options.follow_symlinks, ~ChangedTwice
                 PROVE  \A x \in Seen' : \A a \in Ancestors[x] : Good(a)
      <4>1. \A a : Good(a) => Good(a)'
        BY <2>2 DEF Good
      <4> HIDE DEF Good, Seen, ChangedTwice
      <4>2. QED
        BY <2>1, <2>2, <4>1 DEF ParentInv
    <3>1. \A x \in Seen : \A a \in Ancestors[x] : Good(a)
      BY DEF ParentInv
    <3>2. d \in Seen /\ d \in Paths
      BY <1>5, WaitingTyped DEF Seen, Unopened, Opening, ScanInv
    <3>3. Good(d)
      <4>1. CASE d = Root
        BY <4>1 DEF Good
      <4>2. CASE d # Root
        <5>1. pc = "increment" /\ ~EntersSymlink /\ EntersDirectory /\ Opens(d)
          BY <1>5, <2>4, <4>2 DEF Opening, ToVisit, EntersSymlink, ScanInv, RootInv
        <5>2. recursion_pending = TRUE /\ path.type = "Directory"
          BY <5>1, Zenon DEF EntersDirectory, ScanInv, ScanTypeOK
        <5>3. Good(d) \/ Away(d)
          BY <5>1, <5>2 DEF ScanInv, EnterInv
        <5>4. disk[d].type = "Directory"
          BY <5>1 DEF Opens
        <5>5. QED
          BY <5>3, <5>4 DEF Away
      <4>3. QED
        BY <4>1, <4>2
    <3>4. \A c \in PathsIn(Listing(d)) : Ancestors[c] = {d} \cup Ancestors[d]
      BY <3>2, ListingFacts, AncestorsOfPath DEF PathsIn, ScanInv
    <3>5. Seen' \subseteq Seen \cup PathsIn(Listing(d))
      BY <1>5, SeenAfterOpening
    <3>6. QED
      BY <3>1, <3>2, <3>3, <3>4, <3>5
  <2>5. QED
    BY <2>3, <2>4
<1>6. CASE Begin \/ Skip \/ Status
  BY <1>3, <1>6 DEF Begin, Skip, Status
<1>7. QED
  BY <1>2, <1>3, <1>4, <1>5, <1>6, StepKinds

LEMMA ScanInvariantStutters ==
  ASSUME UNCHANGED scannerVars
  PROVE  /\ ScanInv => ScanInv'
         /\ ParentInv => ParentInv'
<1> HIDE DEF Ancestors
<1>1. /\ disk' = disk /\ changes' = changes /\ options' = options /\ pc' = pc /\ path' = path
      /\ found' = found /\ recursion_pending' = recursion_pending /\ stack' = stack /\ raw' = raw
      /\ diagnostics' = diagnostics /\ fault' = fault
  BY DEF scannerVars, scanVars
<1>2. Waiting' = Waiting /\ PathsIn(raw)' = PathsIn(raw)
  BY <1>1 DEF Waiting, WaitingIn, PathsIn
<1>3. Unopened' = Unopened /\ Seen' = Seen
  BY <1>1, <1>2 DEF Unopened, Seen
<1>4. PathsIn(Waiting)' = PathsIn(Waiting)
  BY <1>2 DEF PathsIn
<1>5. ChangedTwice' <=> ChangedTwice
  BY <1>1 DEF ChangedTwice
<1>6. \A q : (Stable(q)' <=> Stable(q)) /\ (Good(q)' <=> Good(q))
  BY <1>1 DEF Stable, Good
<1>8. Apart(stack)' <=> Apart(stack)
  BY <1>1 DEF Apart
<1>9. NotAbove(Unopened, Seen)' <=> NotAbove(Unopened, Seen)
  BY <1>3 DEF NotAbove
<1>10. ScanTypeOK => ScanTypeOK'
  BY StutterTyped
<1> HIDE DEF Waiting, Unopened, Seen, PathsIn, ChangedTwice, Stable, Good, Away, Apart, NotAbove
<1>11. OnceInv => OnceInv'
  BY <1>1, <1>2, <1>4, <1>8, <1>9 DEF OnceInv
<1>12. ListedInv => ListedInv'
  <2>1. Stable(path.path)' <=> Stable(path.path)
    BY <1>1 DEF Stable
  <2>2. \A e \in Waiting : Stable(e.path)' <=> Stable(e.path)
    BY <1>6
  <2>3. QED
    BY <1>1, <1>2, <2>1, <2>2 DEF ListedInv, Stable
<1>13. EnterInv => EnterInv'
  <2>1. (Good(path.path)' <=> Good(path.path)) /\ (Away(path.path)' <=> Away(path.path))
    BY <1>1, <1>5 DEF Good, Away, Stable
  <2>2. QED
    BY <1>1, <2>1 DEF EnterInv
<1>14. RootInv => RootInv'
  BY <1>1 DEF RootInv
<1>15. ParentInv => ParentInv'
  BY <1>1, <1>3, <1>5, <1>6 DEF ParentInv, Good
<1>16. QED
  BY <1>10, <1>11, <1>12, <1>13, <1>14, <1>15 DEF ScanInv

\* The scan visits an entry once, knows its type unless it was touched, and has
\* whatever is above it in the result.
THEOREM ScanInvariant == ScannerSpec => [](ScanInv /\ ParentInv)
<1> HIDE DEF Ancestors
<1>1. ScannerInit => ScanInv /\ ParentInv
  <2> SUFFICES ASSUME ScannerInit PROVE ScanInv /\ ParentInv
    OBVIOUS
  <2>1. Seen = {Root}
    BY DEF ScannerInit, Seen, Unopened, Waiting, WaitingIn, PathsIn
  <2>2. ParentInv
    BY <2>1, AncestorsOfPath DEF ParentInv
  <2>3. QED
    BY <2>2, ScanInvInit
<1>2. ScanInv /\ ParentInv /\ [ScannerNext]_scannerVars => (ScanInv /\ ParentInv)'
  BY ScanInvStep, ParentInvStep, ScanInvariantStutters
<1>3. QED
  BY <1>1, <1>2, PTL DEF ScannerSpec

\* README "scan-exclude applied to directories prunes subtree traversal": nothing
\* below an excluded directory is in the result.
THEOREM ExcludedTheorem == ScannerSpec => []ExcludedSubtreesArePruned
<1> HIDE DEF Ancestors
<1>1. ScanInv /\ ParentInv => ExcludedSubtreesArePruned
  BY DEF ParentInv, Seen, PathsIn, Good, ExcludedSubtreesArePruned
<1>2. QED
  BY <1>1, ScanInvariant, PTL

-----------------------------------------------------------------------------
(***************************************************************************)
(* What does not change is found.                                          *)
(***************************************************************************)
EntryOf(q) == [path |-> q, type |-> disk[q].type]

\* An entry the scan still has to visit or to open on its way to p.
OnTheWay(p, q) ==
  /\ q \in (Ancestors[p] \cup {p}) \ {Root}
  /\ \/ EntryOf(q) \in Waiting
     \/ /\ path = EntryOf(q)
        /\ \/ pc \in {"status", "metadata"}
           \/ pc = "increment" /\ q # p /\ recursion_pending = TRUE

Coming(p) ==
  \/ path.path = Root /\ pc \in {"begin", "status", "metadata", "open"}
  \/ \E q \in Paths : OnTheWay(p, q)

\* What should be captured is captured or on its way.
CaptureInv ==
  (pc = "done" => fault = "none") =>
    \A p \in Paths : ShouldCapture(p) => IsCaptured(p) \/ (pc # "done" /\ Coming(p))

\* What is above something that should be captured is a directory the scan enters,
\* and neither has changed.
LEMMA ShouldFacts ==
  ASSUME ScanTypeOK, NEW p \in Paths, ShouldCapture(p)
  PROVE  \A q \in (Ancestors[p] \cup {p}) \ {Root} :
           /\ q \in Paths /\ Stable(q) /\ disk[q].type # "None"
           /\ Selected(q, disk[q].type) /\ SymlinkStatus(q) = disk[q].type
           /\ q # p => disk[q].type = "Directory" /\ q \notin options.unreadable
<1> HIDE DEF Ancestors
<1>1. Ancestors[p] \subseteq Paths
  BY AncestorsAreAbove
<1>2. QED
  BY <1>1 DEF ShouldCapture, Pruned, Selected, SymlinkStatus

\* What is below a directory on the way is on the way when the directory is opened.
LEMMA ChildOnTheWay ==
  ASSUME ScanTypeOK, NEW p \in Paths, ShouldCapture(p), NEW d \in Ancestors[p],
         d = Root \/ d \notin options.unreadable
  PROVE  \E q \in (Ancestors[p] \cup {p}) \ {Root} : EntryOf(q) \in WaitingIn(Pushed(d))
<1> HIDE DEF Ancestors
<1>1. Ancestors[p] \subseteq Paths
  BY AncestorsAreAbove
<1>2. PICK q \in Ancestors[p] \cup {p} : q # Root /\ ParentPath[q] = d
  BY AncestorsAreAbove
<1>3. q \in Paths /\ d \in Paths /\ disk[q].type # "None"
  BY <1>1, <1>2, ShouldFacts
<1>4. EntryOf(q) \in Listing(d)
  BY <1>2, <1>3, ListingFacts DEF EntryOf
<1>5. d \notin options.unreadable
  BY DEF ShouldCapture
<1>6. QED
  BY <1>2, <1>3, <1>4, <1>5, PushedFacts

LEMMA WaitingIsComing ==
  ASSUME ScanTypeOK, NEW p \in Paths, NEW dirs \in Seq(SUBSET Listed), Apart(dirs), Advance(dirs),
         disk' = disk,
         NEW q \in (Ancestors[p] \cup {p}) \ {Root}, EntryOf(q) \in WaitingIn(dirs)
  PROVE  pc' # "done" /\ Coming(p)'
<1> HIDE DEF Ancestors
<1>1. q \in Paths
  BY AncestorsAreAbove
<1>2. /\ path' \in WaitingIn(dirs) /\ WaitingIn(stack') = WaitingIn(dirs) \ {path'}
      /\ pc' = "status"
  BY AdvanceFacts
<1>3. path' = EntryOf(q) \/ EntryOf(q) \in WaitingIn(stack')
  BY <1>2
<1>4. EntryOf(q)' = EntryOf(q) /\ Waiting' = WaitingIn(stack')
  BY DEF EntryOf, Waiting, WaitingIn
<1>5. OnTheWay(p, q)'
  BY <1>2, <1>3, <1>4 DEF OnTheWay
<1>6. QED
  BY <1>1, <1>2, <1>5 DEF Coming

LEMMA OpeningIsComing ==
  ASSUME ScanInv, NEW dirs, Opening(dirs), NEW p \in Paths, ShouldCapture(p), Coming(p)
  PROVE  pc' # "done" /\ Coming(p)'
<1> USE DEF ScanInv
<1> HIDE DEF Ancestors
<1>1. path.path \in Paths /\ stack \in Seq(SUBSET Listed) /\ Waiting = WaitingIn(stack)
  BY WaitingTyped DEF ScanTypeOK, Waiting
<1>2. dirs = stack \/ dirs = Pushed(path.path)
  BY DEF Opening, ToVisit, RootInv
<1>3. dirs \in Seq(SUBSET Listed) /\ Waiting \subseteq WaitingIn(dirs)
  BY <1>1, <1>2, PushedFacts
<1>4. Apart(dirs)
  <2> DEFINE d == path.path
  <2>1. \A e \in Listing(d) : e.path \in Paths /\ d \in Ancestors[e.path]
    BY <1>1, ListingFacts, AncestorsOfPath
  <2>2. d \in Unopened /\ PathsIn(Waiting) \subseteq Seen
    BY DEF Unopened, Seen, Opening
  <2>3. \A e \in Listing(d), f \in WaitingIn(stack) : e.path # f.path
    BY <1>1, <2>1, <2>2 DEF OnceInv, NotAbove, PathsIn
  <2>4. QED
    BY <1>1, <1>2, <2>3, PushedFacts DEF OnceInv
<1>5. \E q \in (Ancestors[p] \cup {p}) \ {Root} : EntryOf(q) \in WaitingIn(dirs)
  <2>1. CASE pc = "open"
    <3>1. dirs = Pushed(Root) /\ Root \in Ancestors[p]
      BY <2>1, AncestorsAreAbove DEF Opening, ShouldCapture
    <3>2. QED
      BY <3>1, ChildOnTheWay
  <2>2. CASE pc = "increment"
    <3>1. PICK q \in Paths : OnTheWay(p, q)
      BY <2>2 DEF Coming
    <3>2. CASE EntryOf(q) \in Waiting
      BY <1>3, <3>1, <3>2 DEF OnTheWay
    <3>3. CASE path = EntryOf(q) /\ q # p /\ recursion_pending = TRUE
      <4>1. q \in Ancestors[p] /\ disk[q].type = "Directory" /\ q \notin options.unreadable
        BY <3>1, <3>3, ShouldFacts DEF OnTheWay
      <4>2. path.path = q /\ path.type = "Directory"
        BY <3>3, <4>1 DEF EntryOf
      <4>3. EntersDirectory
        BY <3>3, <4>2, Zenon DEF EntersDirectory
      <4>4. dirs = Pushed(q)
        BY <2>2, <4>2, <4>3 DEF Opening, ToVisit
      <4>5. QED
        BY <4>1, <4>4, ChildOnTheWay
    <3>4. QED
      BY <2>2, <3>1, <3>2, <3>3 DEF OnTheWay
  <2>3. QED
    BY <2>1, <2>2 DEF Opening
<1>6. QED
  BY <1>3, <1>4, <1>5, WaitingIsComing DEF Opening

\* What collect_one_entry does on the way: it goes on to the result.
LEMMA LookingIsComing ==
  ASSUME ScanInv, Begin \/ Skip \/ Status \/ Metadata, pc' # "done",
         NEW p \in Paths, ShouldCapture(p), Coming(p)
  PROVE  IsCaptured(p)' \/ Coming(p)'
<1> USE DEF ScanInv
<1> HIDE DEF Ancestors
<1>1. UNCHANGED <<disk, changes, options, path, stack>>
  BY DEF Begin, Skip, Status, Metadata
<1>2. Waiting' = Waiting /\ \A q : EntryOf(q)' = EntryOf(q)
  BY <1>1 DEF Waiting, WaitingIn, EntryOf
<1>3. CASE path.path = Root /\ pc \in {"begin", "status", "metadata", "open"}
  <2>1. ~Skip
    BY <1>3 DEF Skip, Selected
  <2>2. QED
    BY <1>1, <1>3, <2>1 DEF Begin, Status, Metadata, AfterEntry, End, Coming
<1>4. ASSUME NEW q \in Paths, OnTheWay(p, q) PROVE IsCaptured(p)' \/ Coming(p)'
  <2>1. CASE EntryOf(q) \in Waiting
    <3>1. OnTheWay(p, q)'
      BY <1>2, <1>4, <2>1 DEF OnTheWay
    <3>2. QED
      BY <1>4, <3>1 DEF Coming
  <2>2. CASE path = EntryOf(q) /\ pc \in {"status", "metadata"}
    <3>1. /\ path.path = q /\ q # Root /\ Stable(q)
          /\ Selected(q, disk[q].type) /\ SymlinkStatus(q) = disk[q].type
      BY <1>4, <2>2, ShouldFacts DEF OnTheWay, EntryOf
    <3>2. ~Skip
      BY <3>1 DEF Skip
    <3>3. CASE Status
      <4>1. OnTheWay(p, q)'
        BY <1>1, <1>2, <1>4, <2>2, <3>3 DEF OnTheWay, Status
      <4>2. QED
        BY <1>4, <4>1 DEF Coming
    <3>4. CASE Metadata
      <4>1. CASE q = p
        <5>1. found = disk[p].type
          BY <3>1, <3>4, <4>1 DEF ListedInv, Metadata
        <5>2. [path |-> p, type |-> found, inode |-> disk[p].inode] \in raw'
          BY <3>1, <3>4, <4>1 DEF Metadata
        <5>3. \E e \in raw' : e.path = p /\ e.type = disk[p].type
          BY <5>1, <5>2
        <5>4. QED
          BY <1>1, <5>3 DEF IsCaptured
      <4>2. CASE q # p
        <5>1. pc' = "increment"
          BY <3>1, <3>4 DEF Metadata, AfterEntry
        <5>2. recursion_pending = TRUE
          BY <2>2 DEF EnterInv
        <5>3. recursion_pending' = TRUE
          BY <3>4, <5>2, Zenon DEF Metadata
        <5>4. OnTheWay(p, q)'
          BY <1>1, <1>2, <1>4, <2>2, <4>2, <5>1, <5>3 DEF OnTheWay
        <5>5. QED
          BY <1>4, <5>4 DEF Coming
      <4>3. QED
        BY <4>1, <4>2
    <3>5. QED
      BY <2>2, <3>2, <3>3, <3>4 DEF Begin
  <2>3. QED
    BY <1>4, <2>1, <2>2 DEF OnTheWay, Begin, Skip, Status, Metadata
<1>5. QED
  BY <1>3, <1>4 DEF Coming

\* What should be captured after a change should have been before.
LEMMA ChangesAreComing ==
  ASSUME ScanInv, NEW touched, Changes(touched), NEW p \in Paths, ShouldCapture(p)'
  PROVE  /\ ShouldCapture(p)
         /\ IsCaptured(p) => IsCaptured(p)'
         /\ Coming(p) => Coming(p)'
<1> USE DEF ScanInv
<1> HIDE DEF Ancestors
<1>1. /\ options' = options /\ pc' = pc /\ path' = path
      /\ recursion_pending' = recursion_pending /\ stack' = stack /\ raw' = raw
      /\ \A q \in Paths : disk'[q] = disk[q] \/ q \in touched
  BY DEF Changes, scanVars
<1>2. \A q \in Paths : Stable(q)' <=> Stable(q) /\ q \notin touched
  BY TouchFacts
<1>3. Ancestors[p] \subseteq Paths
  BY AncestorsAreAbove
<1>4. \A q \in Ancestors[p] \cup {p} : Stable(q)'
  BY DEF ShouldCapture
<1>5. \A q \in Ancestors[p] \cup {p} : disk'[q] = disk[q] /\ Stable(q)
  BY <1>1, <1>2, <1>3, <1>4
<1>6. ShouldCapture(p)
  <2>1. Pruned(p)' <=> Pruned(p)
    BY <1>1 DEF Pruned
  <2> HIDE DEF Stable, Pruned
  <2>2. QED
    BY <1>1, <1>5, <2>1 DEF ShouldCapture
<1>7. IsCaptured(p) => IsCaptured(p)'
  BY <1>1, <1>5 DEF IsCaptured
<1>8. Coming(p) => Coming(p)'
  <2>1. Waiting' = Waiting /\ \A q \in Ancestors[p] \cup {p} : EntryOf(q)' = EntryOf(q)
    BY <1>1, <1>5 DEF Waiting, WaitingIn, EntryOf
  <2>2. \A q \in Paths : OnTheWay(p, q) => OnTheWay(p, q)'
    <3> SUFFICES ASSUME NEW q \in Paths, OnTheWay(p, q) PROVE OnTheWay(p, q)'
      OBVIOUS
    <3>1. EntryOf(q)' = EntryOf(q)
      BY <2>1 DEF OnTheWay
    <3>2. QED
      BY <1>1, <2>1, <3>1 DEF OnTheWay
  <2>3. QED
    BY <1>1, <2>2 DEF Coming
<1>9. QED
  BY <1>6, <1>7, <1>8

LEMMA CaptureInvStep ==
  ASSUME ScanInv, CaptureInv, ScannerNext PROVE CaptureInv'
<1> USE DEF ScanInv
<1> HIDE DEF Ancestors
<1>1. ASSUME pc # "done", UNCHANGED <<disk, changes, options>>, raw \subseteq raw',
             \A p \in Paths : ShouldCapture(p) /\ Coming(p)
               => IsCaptured(p)' \/ (pc' # "done" /\ Coming(p)')
      PROVE  CaptureInv'
  <2>1. \A p \in Paths : ShouldCapture(p)' <=> ShouldCapture(p)
    BY <1>1 DEF ShouldCapture, Stable, Pruned
  <2>2. \A p \in Paths : IsCaptured(p) => IsCaptured(p)'
    BY <1>1 DEF IsCaptured
  <2>3. \A p \in Paths : ShouldCapture(p) => IsCaptured(p) \/ Coming(p)
    BY <1>1 DEF CaptureInv
  <2> HIDE DEF ShouldCapture, IsCaptured, Coming
  <2>4. \A p \in Paths : ShouldCapture(p)' => IsCaptured(p)' \/ (pc' # "done" /\ Coming(p)')
    BY <1>1, <2>1, <2>2, <2>3
  <2>5. QED
    BY <2>4 DEF CaptureInv
<1>2. ASSUME NEW touched, Changes(touched) PROVE CaptureInv'
  <2>1. pc' = pc /\ fault' = fault
    BY <1>2 DEF Changes, scanVars
  <2> HIDE DEF ShouldCapture, IsCaptured, Coming
  <2>2. \A p \in Paths : ShouldCapture(p)' =>
          /\ ShouldCapture(p)
          /\ IsCaptured(p) => IsCaptured(p)'
          /\ Coming(p) => Coming(p)'
    BY <1>2, ChangesAreComing
  <2>3. QED
    BY <2>1, <2>2 DEF CaptureInv
<1>3. CASE Begin \/ Skip \/ Status \/ Metadata
  <2>1. pc # "done" /\ UNCHANGED <<disk, changes, options>> /\ raw \subseteq raw'
    BY <1>3 DEF Begin, Skip, Status, Metadata
  <2>2. pc' = "done" => fault' # "none"
    BY <1>3 DEF Begin, Skip, Status, Metadata, AfterEntry, End
  <2>3. CASE pc' = "done"
    BY <2>2, <2>3 DEF CaptureInv
  <2>4. CASE pc' # "done"
    BY <1>1, <1>3, <2>1, <2>4, LookingIsComing
  <2>5. QED
    BY <2>3, <2>4
<1>4. ASSUME NEW dirs, Opening(dirs) PROVE CaptureInv'
  <2>1. pc # "done" /\ UNCHANGED <<disk, changes, options>> /\ raw \subseteq raw'
    BY <1>4 DEF Opening
  <2>2. QED
    BY <1>1, <1>4, <2>1, OpeningIsComing
<1>5. CASE pc' = "done" /\ fault' # "none"
  BY <1>5 DEF CaptureInv
<1>6. QED
  BY <1>2, <1>3, <1>4, <1>5, StepKinds

\* README "directories remain traversable unless excluded": what is there during the
\* whole scan is in the result with its type, unless the options leave it out or the
\* scan was cut short.
THEOREM CaptureTheorem == ScannerSpec => []StableEntriesAreCaptured
<1> HIDE DEF Ancestors
<1>1. ScannerInit => CaptureInv
  BY DEF ScannerInit, CaptureInv, Coming
<1>2. CaptureInv /\ UNCHANGED scannerVars => CaptureInv'
  <2> SUFFICES ASSUME CaptureInv, UNCHANGED scannerVars PROVE CaptureInv'
    OBVIOUS
  <2>1. /\ disk' = disk /\ changes' = changes /\ options' = options /\ pc' = pc /\ path' = path
        /\ recursion_pending' = recursion_pending /\ stack' = stack /\ raw' = raw /\ fault' = fault
    BY DEF scannerVars, scanVars
  <2>2. \A p : (ShouldCapture(p)' <=> ShouldCapture(p)) /\ (IsCaptured(p)' <=> IsCaptured(p))
    BY <2>1 DEF ShouldCapture, Stable, Pruned, IsCaptured
  <2>3. \A p, q : OnTheWay(p, q)' <=> OnTheWay(p, q)
    BY <2>1 DEF OnTheWay, EntryOf, Waiting, WaitingIn
  <2>4. \A p : Coming(p)' <=> Coming(p)
    BY <2>1, <2>3 DEF Coming
  <2> HIDE DEF ShouldCapture, IsCaptured, Coming
  <2>5. QED
    BY <2>1, <2>2, <2>4 DEF CaptureInv
<1>3. ScanInv /\ CaptureInv /\ [ScannerNext]_scannerVars => CaptureInv'
  BY <1>2, CaptureInvStep
<1>4. CaptureInv => StableEntriesAreCaptured
  BY DEF CaptureInv, StableEntriesAreCaptured
<1>5. QED
  BY <1>1, <1>3, <1>4, ScanInvariant, PTL DEF ScannerSpec

-----------------------------------------------------------------------------
(***************************************************************************)
(* The snapshot that is built from the result is valid.                    *)
(***************************************************************************)

\* A key and a key that is salted differ in length; the salt is the last element.
LEMMA SaltedKey ==
  ASSUME NEW a, NEW b, NEW c, NEW d
  PROVE  /\ Len(<<a, b, c>>) = 3
         /\ Len(<<a, b, c>> \o <<d>>) = 4
         /\ (<<a, b, c>> \o <<d>>)[4] = d
<1> DEFINE T == {a, b, c, d}
           s == <<a, b, c>>
           t == <<d>>
<1>1. s \in Seq(T) /\ Len(s) = 3
  OBVIOUS
<1>2. t \in Seq(T) /\ Len(t) = 1 /\ t[1] = d
  OBVIOUS
<1> HIDE DEF T, s, t
<1>3. /\ Len(s \o t) = Len(s) + Len(t)
      /\ \A i \in 1..(Len(s) + Len(t)) : (s \o t)[i] = IF i <= Len(s) THEN s[i] ELSE t[i - Len(s)]
  <2>1. s \in Seq(T) /\ t \in Seq(T)
    BY <1>1, <1>2
  <2>2. QED
    BY ONLY <2>1, ConcatProperties, Zenon
<1>4. Len(s \o t) = 4 /\ (s \o t)[4] = d
  BY <1>1, <1>2, <1>3
<1>5. QED
  BY <1>1, <1>4 DEF s, t

\* No two paths are the same in a set of raw entries.
OnePathEach(R) ==
  /\ R \subseteq RawEntries
  /\ \A e, f \in R : e.path = f.path => e = f

LEMMA StableIdFacts ==
  ASSUME NEW R, OnePathEach(R), NEW e \in R, NEW f \in R
  PROVE  /\ StableId(R, e) # NoId
         /\ StableId(R, e) = StableId(R, f) => e = f
<1> DEFINE Later(g) == \E h \in R : h.path < g.path /\ BaseKey(h) = BaseKey(g)
<1>1. \A g \in R :
        /\ Len(BaseKey(g)) = 3
        /\ Len(BaseKey(g) \o <<g.path>>) = 4
        /\ (BaseKey(g) \o <<g.path>>)[4] = g.path
  BY SaltedKey DEF BaseKey
<1>2. \A g \in R : StableId(R, g) = IF Later(g) THEN BaseKey(g) \o <<g.path>> ELSE BaseKey(g)
  BY DEF StableId
<1>3. e.path \in Nat /\ f.path \in Nat
  <2>1. e \in RawEntries /\ f \in RawEntries
    BY DEF OnePathEach
  <2>2. Paths \cup {0} \subseteq Nat
    BY PathAssumption
  <2>3. QED
    BY <2>1, <2>2 DEF RawEntries
<1>4. StableId(R, e) # NoId
  <2>1. Len(StableId(R, e)) \in {3, 4}
    BY <1>1, <1>2
  <2>2. Len(NoId) = 0
    BY DEF NoId
  <2>3. QED
    BY <2>1, <2>2
<1>5. ASSUME StableId(R, e) = StableId(R, f) PROVE e = f
  <2>1. CASE Later(e) /\ Later(f)
    <3>1. e.path = f.path
      BY <1>1, <1>2, <1>5, <2>1
    <3>2. QED
      BY <3>1 DEF OnePathEach
  <2>2. CASE ~Later(e) /\ ~Later(f)
    <3>1. BaseKey(e) = BaseKey(f)
      BY <1>2, <1>5, <2>2
    <3>2. ~ (e.path < f.path) /\ ~ (f.path < e.path)
      BY <2>2, <3>1
    <3>3. e.path = f.path
      BY <1>3, <3>2
    <3>4. QED
      BY <3>3 DEF OnePathEach
  <2>3. CASE Later(e) /\ ~Later(f)
    <3>1. Len(StableId(R, e)) = 4 /\ Len(StableId(R, f)) = 3
      <4> HIDE DEF Later
      <4>1. StableId(R, e) = BaseKey(e) \o <<e.path>> /\ StableId(R, f) = BaseKey(f)
        BY <1>2, <2>3
      <4>2. QED
        BY <1>1, <4>1, Zenon
    <3>2. QED
      BY <1>5, <3>1
  <2>4. CASE ~Later(e) /\ Later(f)
    <3>1. Len(StableId(R, e)) = 3 /\ Len(StableId(R, f)) = 4
      <4> HIDE DEF Later
      <4>1. StableId(R, f) = BaseKey(f) \o <<f.path>> /\ StableId(R, e) = BaseKey(e)
        BY <1>2, <2>4
      <4>2. QED
        BY <1>1, <4>1, Zenon
    <3>2. QED
      BY <1>5, <3>1
  <2>5. QED
    BY <2>1, <2>2, <2>3, <2>4
<1>6. QED
  BY <1>4, <1>5

\* A tree of raw entries: the root is a directory, everything else has a directory
\* above it.
IsTree(R) ==
  /\ OnePathEach(R)
  /\ \A e \in R : e.path \in Paths
  /\ \E r \in R : r.path = Root /\ r.type = "Directory"
  /\ \A e \in R : e.path # Root => \E g \in R : g.path = ParentPath[e.path] /\ g.type = "Directory"

\* The four passes of the validator accept what is built from a tree: ids are unique
\* although inodes are shared, and parents lead to the root.
LEMMA TreesAreValid ==
  ASSUME NEW R, IsTree(R) PROVE IsValidSnapshot(BuildSnapshot(R, Root))
<1> DEFINE s == BuildSnapshot(R, Root)
           Id(e) == StableId(R, e)
           Entry(e) == [id |-> Id(e), path |-> e.path, type |-> e.type,
                        parent |-> ParentId(R, Root, e)]
<1>1. PICK r \in R : r.path = Root /\ r.type = "Directory"
  BY DEF IsTree
<1>2. OnePathEach(R) /\ \A e, f \in R : e.path = f.path => e = f
  BY DEF IsTree, OnePathEach
<1>3. \A e, f \in R : Id(e) # NoId /\ (Id(e) = Id(f) => e = f)
  BY <1>2, StableIdFacts
<1>4. s.root_entry_id = Id(r) /\ s.entries = {Entry(e) : e \in R}
  <2>1. (CHOOSE e \in R : e.path = Root) = r
    BY <1>1, <1>2
  <2>2. RootEntryId(R, Root) = Id(r)
    BY <1>1, <2>1 DEF RootEntryId
  <2>3. QED
    BY <2>2 DEF BuildSnapshot
<1>5. ParentId(R, Root, r) = NoId
  BY <1>1 DEF ParentId
<1>6. ASSUME NEW e \in R, e # r
      PROVE  \E g \in R : /\ g.path = ParentPath[e.path] /\ g.path < e.path
                          /\ g.type = "Directory" /\ ParentId(R, Root, e) = Id(g)
  <2>1. e.path # Root /\ e.path \in Paths
    BY <1>1, <1>2, <1>6 DEF IsTree
  <2>2. PICK g \in R : g.path = ParentPath[e.path] /\ g.type = "Directory"
    BY <2>1 DEF IsTree
  <2>3. ParentsOf(R, e) = {g}
    BY <1>2, <2>2 DEF ParentsOf
  <2>4. ParentId(R, Root, e) = Id(g)
    BY <2>1, <2>3 DEF ParentId
  <2>5. QED
    BY <2>1, <2>2, <2>4, PathAssumption
<1> HIDE DEF s, Id
<1>7. \A e, f \in R : Entry(e).id = Entry(f).id => e = f
  BY <1>3
<1>8. RootEntries(s) = {Entry(r)}
  BY <1>3, <1>4 DEF RootEntries
<1>9. HeaderPass(s)
  BY <1>1, <1>3, <1>4, <1>5, <1>8 DEF HeaderPass
<1>10. IdentityPass(s)
  <2>1. \A e, f \in s.entries : e.id = f.id => e = f
    BY <1>4, <1>7
  <2>2. \A e \in R : e # r => ParentId(R, Root, e) # NoId
    BY <1>3, <1>6
  <2>3. QED
    BY <1>4, <1>8, <2>1, <2>2 DEF IdentityPass
<1>11. PathPass(s)
  BY <1>2, <1>4 DEF PathPass
<1>12. ParentGraphPass(s)
  <2>1. \A e \in s.entries \ RootEntries(s) :
          \E f \in s.entries : f.id = e.parent /\ f.type = "Directory"
    <3>1. SUFFICES ASSUME NEW e \in R, Entry(e) # Entry(r)
                   PROVE  \E f \in s.entries : f.id = Entry(e).parent /\ f.type = "Directory"
      BY <1>4, <1>8
    <3>2. PICK g \in R : g.type = "Directory" /\ ParentId(R, Root, e) = Id(g)
      BY <1>6, <3>1
    <3>3. Entry(g) \in s.entries /\ Entry(g).id = Entry(e).parent /\ Entry(g).type = "Directory"
      BY <1>4, <3>2
    <3>4. QED
      BY <3>3
  <2>2. IsAcyclic(s.entries)
    <3> SUFFICES ASSUME NEW S \in SUBSET s.entries, S # {}
                 PROVE  \E e \in S : \A f \in S : e.parent # f.id
      BY DEF IsAcyclic
    <3> DEFINE P == {e.path : e \in S}
    <3>0. \A e \in S : \E g \in R : e = Entry(g) /\ e.path = g.path /\ g.path \in Nat
      <4>1. \A g \in R : Entry(g).path = g.path /\ g.path \in Nat
        BY PathAssumption DEF IsTree
      <4>2. \A e \in S : \E g \in R : e = Entry(g)
        BY <1>4
      <4> HIDE DEF Entry
      <4>3. QED
        BY <4>1, <4>2
    <3>1. P \in SUBSET Nat /\ P # {}
      BY <3>0
    <3>2. PICK n \in P : \A m \in P : n <= m
      <4> HIDE DEF P
      <4>1. QED
        BY <3>1, LeastNatural
    <3>3. PICK e \in R : Entry(e) \in S /\ e.path = n
      <4>1. PICK x \in S : x.path = n
        BY <3>2
      <4> HIDE DEF Entry
      <4>2. QED
        BY <3>0, <4>1
    <3>4. ASSUME NEW h \in R, Entry(h) \in S PROVE ParentId(R, Root, e) # Id(h)
      <4>1. CASE e = r
        BY <1>3, <1>5, <4>1
      <4>2. CASE e # r
        <5>1. PICK g \in R : g.path < e.path /\ ParentId(R, Root, e) = Id(g)
          BY <1>6, <4>2
        <5>2. h.path \in P
          BY <3>4
        <5>3. h # g
          <6>1. n <= h.path /\ n \in Nat /\ h.path \in Nat
            BY <3>1, <3>2, <5>2
          <6>2. QED
            BY <3>3, <5>1, <6>1
        <5>4. QED
          BY <1>3, <5>1, <5>3
      <4>3. QED
        BY <4>1, <4>2
    <3>5. \A f \in S : Entry(e).parent # f.id
      BY <1>4, <3>4
    <3>6. QED
      BY <3>3, <3>5
  <2>3. QED
    BY <2>1, <2>2 DEF ParentGraphPass
<1>13. QED
  BY <1>9, <1>10, <1>11, <1>12 DEF IsValidSnapshot, s

\* The path of the root is what it is, unless it was configured with a slash.
NormalRootInv == ~options.trailing_slash => 0 \notin PathsIn(raw)

LEMMA NormalRootStep ==
  ASSUME ScanInv, NormalRootInv, ScannerNext PROVE NormalRootInv'
<1> HIDE DEF Ancestors
<1>1. CASE Metadata
  <2>1. path.path \in Paths /\ 0 \notin Paths
    BY WaitingTyped DEF ScanInv
  <2>2. QED
    BY <1>1, <2>1, PathAssumption DEF Metadata, RootPath, NormalRootInv, PathsIn
<1>2. CASE raw' = raw /\ options' = options
  BY <1>2 DEF NormalRootInv, PathsIn
<1>3. QED
  BY <1>1, <1>2, StepKinds DEF Changes, scanVars, Begin, Skip, Status, Opening

\* Whatever changes during a scan, and wherever it is cut short, the snapshot that is
\* built from its result passes the validator, unless a path changes twice or the
\* configuration allows for no valid snapshot.
THEOREM ValidTheorem == ScannerSpec => []CapturedTreesAreValid
<1> HIDE DEF Ancestors
<1>1. ScannerInit => NormalRootInv
  BY DEF ScannerInit, NormalRootInv, PathsIn
<1>2. NormalRootInv /\ UNCHANGED scannerVars => NormalRootInv'
  BY DEF NormalRootInv, PathsIn, scannerVars, scanVars
<1>3. ScanInv /\ NormalRootInv /\ [ScannerNext]_scannerVars => NormalRootInv'
  BY <1>2, NormalRootStep
<1>4. ScanInv /\ ParentInv /\ NormalRootInv => CapturedTreesAreValid
  <2> SUFFICES ASSUME ScanInv, ParentInv, NormalRootInv,
                      ~options.trailing_slash, ~options.follow_symlinks, ~ChangedTwice,
                      NEW r \in raw, r.path = Root, r.type = "Directory"
               PROVE  IsValidSnapshot(Snapshot)
    BY DEF CapturedTreesAreValid
  <2>1. OnePathEach(raw) /\ \A e \in raw : e.path \in Paths /\ e.path \in Seen
    <3>1. 0 \notin PathsIn(raw) /\ PathsIn(raw) \subseteq Paths \cup {0}
      BY WaitingTyped DEF NormalRootInv, ScanInv
    <3>2. \A e \in raw : e.path \in PathsIn(raw)
      BY DEF PathsIn
    <3>3. \A e \in raw : e.path \in Paths /\ e.path \in Seen
      BY <3>1, <3>2 DEF Seen
    <3>4. QED
      BY <3>3 DEF OnePathEach, ScanInv, OnceInv, ScanTypeOK
  <2>2. ASSUME NEW e \in raw, e.path # Root
        PROVE  \E g \in raw : g.path = ParentPath[e.path] /\ g.type = "Directory"
    <3>1. ParentPath[e.path] \in Ancestors[e.path]
      BY <2>1, <2>2, AncestorsOfPath
    <3>2. Good(ParentPath[e.path])
      BY <2>1, <3>1 DEF ParentInv
    <3>3. QED
      BY <3>2 DEF Good
  <2>3. IsTree(raw)
    BY <2>1, <2>2 DEF IsTree
  <2>4. RootPath = Root
    BY DEF RootPath
  <2>5. QED
    BY <2>3, <2>4, TreesAreValid DEF Snapshot
<1>5. QED
  BY <1>1, <1>3, <1>4, ScanInvariant, PTL DEF ScannerSpec

=============================================================================
