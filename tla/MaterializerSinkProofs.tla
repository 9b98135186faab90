----------------------- MODULE MaterializerSinkProofs -----------------------
(***************************************************************************)
(* Proofs about the delta engine and the sink, for every set of trees with *)
(* any number of links to a file, with and without inodes.  The ids of a   *)
(* snapshot are unique, the rename heuristic pairs by rank and so pairs    *)
(* nothing twice, and the loop over renames keeps two promises, whatever   *)
(* its order: an entry that was renamed is at its new path, and no path    *)
(* leads to an entry that is not there.                                    *)
(***************************************************************************)
EXTENDS MaterializerSink, FiniteSetTheorems, WellFoundedInduction, TLAPS

-----------------------------------------------------------------------------
(***************************************************************************)
(* Induction.                                                              *)
(***************************************************************************)

\* A set of numbers that is not empty has a least one.
LEMMA LeastNatural ==
  ASSUME NEW T \in SUBSET Nat, T # {}
  PROVE  \E n \in T : \A m \in T : n <= m
<1>1. PICK n \in T : \A m \in T : ~ (<<m, n>> \in OpToRel(<, Nat))
  BY NatLessThanWellFounded, WFMin
<1>2. \A m \in T : ~ (m < n)
  BY <1>1 DEF OpToRel
<1>3. QED
  BY <1>2

\* What holds of 0 and of the next number holds up to any bound.
LEMMA BoundedInduction ==
  ASSUME NEW n \in Nat, NEW S, 0 \in S,
         \A k \in 1..n : k - 1 \in S => k \in S
  PROVE  \A k \in 0..n : k \in S
<1> SUFFICES ASSUME ~ \A k \in 0..n : k \in S
             PROVE  FALSE
  OBVIOUS
<1> DEFINE rest == {k \in 0..n : k \notin S}
<1>1. rest \in SUBSET Nat /\ rest # {}
  OBVIOUS
<1>2. PICK k \in rest : \A m \in rest : k <= m
  <2> HIDE DEF rest
  <2>1. QED
    BY <1>1, LeastNatural
<1>3. k \in 1..n /\ k \notin S
  OBVIOUS
<1>4. k - 1 \in 0..n /\ k - 1 \notin rest
  BY <1>2, <1>3
<1>5. QED
  BY <1>3, <1>4

-----------------------------------------------------------------------------
(***************************************************************************)
(* The ids of a snapshot.                                                  *)
(***************************************************************************)

\* Keys are below the first salted one.
LEMMA KeyBounds ==
  /\ Cardinality(Paths) \in Nat /\ Cardinality(Inodes) \in Nat
  /\ \A p \in Paths : p \in Nat /\ 1 <= p /\ p <= Cardinality(Paths)
  /\ \A i \in Inodes : i \in Nat /\ 1 <= i /\ i <= Cardinality(Paths) + Cardinality(Inodes)
<1>1. Cardinality(Paths) \in Nat /\ Cardinality(Inodes) \in Nat
  BY TreeAssumption, FS_CardinalityType
<1>2. ASSUME NEW p \in Paths PROVE p \in Nat /\ 1 <= p /\ p <= Cardinality(Paths)
  <2>1. p \in 1..Cardinality(Paths)
    BY TreeAssumption
  <2>2. QED
    BY <1>1, <2>1
<1>3. ASSUME NEW i \in Inodes
      PROVE  i \in Nat /\ 1 <= i /\ i <= Cardinality(Paths) + Cardinality(Inodes)
  <2>1. i \in 1..(Cardinality(Paths) + Cardinality(Inodes))
    BY TreeAssumption
  <2>2. QED
    BY <1>1, <2>1
<1>4. QED
  BY <1>1, <1>2, <1>3

\* A salted id is no inode and tells the inode and the path it was made from.
LEMMA SaltedIds ==
  ASSUME NEW i \in Inodes, NEW p \in Paths
  PROVE  /\ SaltedId(i, p) \in EntryIds
         /\ SaltedId(i, p) \notin Inodes
         /\ \A j \in Inodes, q \in Paths : SaltedId(i, p) = SaltedId(j, q) => i = j /\ p = q
<1> DEFINE K == Cardinality(Paths) + Cardinality(Inodes)
<1>1. /\ K \in Nat
      /\ \A q \in Paths : q \in Nat /\ 1 <= q /\ q <= K
      /\ \A j \in Inodes : j \in Nat /\ 1 <= j /\ j <= K
  BY KeyBounds
<1>2. \A j, q : SaltedId(j, q) = j * K + q
  BY DEF SaltedId
<1> HIDE DEF K
<1>3. SaltedId(i, p) \in EntryIds
  BY DEF EntryIds
<1>4. SaltedId(i, p) \notin Inodes
  <2>1. i * K \in Nat /\ i * K >= K
    BY <1>1
  <2>2. i * K + p > K
    BY <1>1, <2>1
  <2>3. QED
    BY <1>1, <1>2, <2>2
<1>5. ASSUME NEW j \in Inodes, NEW q \in Paths, NEW l \in Inodes, NEW r \in Paths, j < l
      PROVE  j * K + q # l * K + r
  <2>1. PICK d \in Nat : l = j + 1 + d
    <3>1. l - j - 1 \in Nat /\ l = j + 1 + (l - j - 1)
      BY <1>1, <1>5
    <3>2. QED
      BY <3>1
  <2>2. l * K = j * K + K + d * K /\ d * K \in Nat /\ j * K \in Nat
    BY <1>1, <2>1
  <2>3. l * K + r > j * K + q
    BY <1>1, <2>2
  <2>4. QED
    BY <1>1, <2>2, <2>3
<1>6. ASSUME NEW j \in Inodes, NEW q \in Paths, SaltedId(i, p) = SaltedId(j, q)
      PROVE  i = j /\ p = q
  <2>1. i * K + p = j * K + q
    BY <1>2, <1>6
  <2>2. ~ (i < j) /\ ~ (j < i)
    BY <1>5, <2>1
  <2>3. i = j
    BY <1>1, <2>2
  <2>4. i * K \in Nat
    BY <1>1
  <2>5. QED
    BY <1>1, <2>1, <2>3, <2>4
<1>7. QED
  BY <1>3, <1>4, <1>6

\* Without inodes an id is the path, with inodes the first link of a file has the
\* inode for its id and the others have salted ones.
LEMMA StableIdCases ==
  ASSUME NEW posix_ \in BOOLEAN, NEW tree, IsTree(tree), NEW p \in DOMAIN tree
  PROVE  /\ p \in Paths /\ tree[p].inode \in Inodes
         /\ StableId(posix_, tree, p) \in EntryIds
         /\ ~posix_ => StableId(posix_, tree, p) = p
         /\ posix_ =>
              \/ /\ StableId(posix_, tree, p) = tree[p].inode
                 /\ \A q \in DOMAIN tree : q < p => tree[q].inode # tree[p].inode
              \/ StableId(posix_, tree, p) = SaltedId(tree[p].inode, p)
<1>1. p \in Paths /\ tree[p] \in [inode : Inodes, stamp : Stamps, permissions : Permissions]
  BY DEF IsTree
<1>2. tree[p].inode \in Inodes
  BY <1>1
<1>3. /\ ~posix_ => StableId(posix_, tree, p) = p
      /\ posix_ =>
           \/ /\ StableId(posix_, tree, p) = tree[p].inode
              /\ \A q \in DOMAIN tree : q < p => tree[q].inode # tree[p].inode
           \/ StableId(posix_, tree, p) = SaltedId(tree[p].inode, p)
  BY DEF StableId
<1>4. StableId(posix_, tree, p) \in EntryIds
  BY <1>1, <1>2, <1>3, SaltedIds DEF EntryIds
<1>5. QED
  BY <1>1, <1>2, <1>3, <1>4

LEMMA StableIdsAreUnique ==
  ASSUME NEW posix_ \in BOOLEAN, NEW tree, IsTree(tree),
         NEW p \in DOMAIN tree, NEW q \in DOMAIN tree,
         StableId(posix_, tree, p) = StableId(posix_, tree, q)
  PROVE  p = q
<1>1. /\ p \in Paths /\ tree[p].inode \in Inodes
      /\ q \in Paths /\ tree[q].inode \in Inodes
  BY StableIdCases
<1>2. p \in Nat /\ q \in Nat
  BY <1>1, KeyBounds
<1>3. CASE ~posix_
  BY <1>3, StableIdCases
<1>4. CASE posix_
  <2> DEFINE First(x) == /\ StableId(posix_, tree, x) = tree[x].inode
                         /\ \A y \in DOMAIN tree : y < x => tree[y].inode # tree[x].inode
             Later(x) == StableId(posix_, tree, x) = SaltedId(tree[x].inode, x)
  <2>1. (First(p) \/ Later(p)) /\ (First(q) \/ Later(q))
    BY <1>4, StableIdCases
  <2>2. CASE First(p) /\ First(q)
    <3>1. ~ (p < q) /\ ~ (q < p)
      BY <2>2
    <3>2. QED
      BY <1>2, <3>1
  <2>3. CASE Later(p) /\ Later(q)
    <3>1. SaltedId(tree[p].inode, p) = SaltedId(tree[q].inode, q)
      BY <2>3
    <3>2. QED
      BY <1>1, <3>1, SaltedIds
  <2>4. CASE First(p) /\ Later(q)
    <3>1. SaltedId(tree[q].inode, q) \in Inodes
      BY <1>1, <2>4
    <3>2. QED
      BY <1>1, <3>1, SaltedIds
  <2>5. CASE Later(p) /\ First(q)
    <3>1. SaltedId(tree[p].inode, p) \in Inodes
      BY <1>1, <2>5
    <3>2. QED
      BY <1>1, <3>1, SaltedIds
  <2>6. QED
    BY <2>1, <2>2, <2>3, <2>4, <2>5
<1>5. QED
  BY <1>3, <1>4

\* What an id and a path say of the entries of a snapshot.
IsSnapshot(entries) ==
  /\ entries \subseteq Entries
  /\ \A e, f \in entries : e.id = f.id => e = f
  /\ \A e, f \in entries : e.path = f.path => e = f

\* With inodes, every file has a link whose id is the inode.
HasFirstLinks(entries) ==
  \A e \in entries :
    /\ e.inode \in Inodes
    /\ e.id \in Inodes => e.id = e.inode
    /\ \E f \in entries : f.id = e.inode

EntryAt(posix_, tree, p) ==
  [id     |-> StableId(posix_, tree, p),
   path   |-> p,
   inode  |-> IF posix_ THEN tree[p].inode ELSE 0,
   parent |-> IF p = Root THEN 0 ELSE StableId(posix_, tree, ParentPath[p]),
   meta   |-> [stamp |-> tree[p].stamp, permissions |-> tree[p].permissions]]

LEMMA EntriesAreAtPaths ==
  ASSUME NEW posix_, NEW tree
  PROVE  EntriesOf(posix_, tree) = {EntryAt(posix_, tree, p) : p \in DOMAIN tree}
BY DEF EntriesOf, EntryAt

LEMMA EntryType ==
  ASSUME NEW posix_ \in BOOLEAN, NEW tree, IsTree(tree), NEW p \in DOMAIN tree
  PROVE  EntryAt(posix_, tree, p) \in Entries
<1>1. /\ p \in Paths
      /\ tree[p] \in [inode : Inodes, stamp : Stamps, permissions : Permissions]
      /\ p # Root => ParentPath[p] \in DOMAIN tree
  BY DEF IsTree
<1>2. StableId(posix_, tree, p) \in EntryIds
  BY StableIdCases
<1>3. p # Root => StableId(posix_, tree, ParentPath[p]) \in EntryIds
  BY <1>1, StableIdCases
<1>4. tree[p].inode \in Inodes /\ tree[p].stamp \in Stamps /\ tree[p].permissions \in Permissions
  BY <1>1
<1>5. [stamp |-> tree[p].stamp, permissions |-> tree[p].permissions] \in Metas
  BY <1>4 DEF Metas
<1>6. QED
  BY <1>1, <1>2, <1>3, <1>4, <1>5 DEF EntryAt, Entries

\* The first path that has the inode of p.
LEMMA FirstLinkExists ==
  ASSUME NEW tree, IsTree(tree), NEW p \in DOMAIN tree
  PROVE  \E q \in DOMAIN tree : StableId(TRUE, tree, q) = tree[p].inode
<1> DEFINE links == {q \in DOMAIN tree : tree[q].inode = tree[p].inode}
<1>1. \A q \in DOMAIN tree : q \in Nat
  BY KeyBounds DEF IsTree
<1>2. links \in SUBSET Nat /\ links # {}
  BY <1>1
<1>3. PICK q \in links : \A r \in links : q <= r
  <2> HIDE DEF links
  <2>1. QED
    BY <1>2, LeastNatural
<1>4. q \in DOMAIN tree /\ tree[q].inode = tree[p].inode
  OBVIOUS
<1>5. ~ \E r \in DOMAIN tree : r < q /\ tree[r].inode = tree[q].inode
  <2> SUFFICES ASSUME NEW r \in DOMAIN tree, r < q, tree[r].inode = tree[q].inode
               PROVE  FALSE
    OBVIOUS
  <2>1. r \in links
    BY <1>4
  <2>2. q <= r
    BY <1>3, <2>1
  <2>3. QED
    BY <1>1, <1>4, <2>2
<1>6. StableId(TRUE, tree, q) = tree[q].inode
  BY <1>5 DEF StableId
<1>7. QED
  BY <1>4, <1>6

\* SnapshotBuilder::build makes a snapshot of every tree.
LEMMA EntriesAreSnapshot ==
  ASSUME NEW posix_ \in BOOLEAN, NEW tree, IsTree(tree)
  PROVE  /\ IsSnapshot(EntriesOf(posix_, tree))
         /\ posix_ => HasFirstLinks(EntriesOf(posix_, tree))
         /\ ~posix_ => \A e \in EntriesOf(posix_, tree) : e.id = e.path
<1> DEFINE E == EntriesOf(posix_, tree)
<1>1. \A e \in E : \E p \in DOMAIN tree : e = EntryAt(posix_, tree, p)
  BY EntriesAreAtPaths
<1>2. \A p : EntryAt(posix_, tree, p).path = p
  BY DEF EntryAt
<1>3. \A p : EntryAt(posix_, tree, p).id = StableId(posix_, tree, p)
  BY DEF EntryAt
<1>4. E \subseteq Entries
  BY <1>1, EntryType
<1>5. ASSUME NEW e \in E, NEW f \in E, e.id = f.id PROVE e = f
  <2>1. PICK p \in DOMAIN tree : e = EntryAt(posix_, tree, p)
    BY <1>1
  <2>2. PICK q \in DOMAIN tree : f = EntryAt(posix_, tree, q)
    BY <1>1
  <2>3. StableId(posix_, tree, p) = StableId(posix_, tree, q)
    BY <1>3, <1>5, <2>1, <2>2
  <2>4. p = q
    BY <2>3, StableIdsAreUnique
  <2>5. QED
    BY <2>1, <2>2, <2>4
<1>6. ASSUME NEW e \in E, NEW f \in E, e.path = f.path PROVE e = f
  BY <1>1, <1>2, <1>6
<1>7. IsSnapshot(E)
  BY <1>4, <1>5, <1>6, Zenon DEF IsSnapshot
<1>8. ASSUME posix_ = TRUE, NEW e \in E
      PROVE  /\ e.inode \in Inodes
             /\ e.id \in Inodes => e.id = e.inode
             /\ \E f \in E : f.id = e.inode
  <2>1. PICK p \in DOMAIN tree : e = EntryAt(posix_, tree, p)
    BY <1>1
  <2>2. e.inode = tree[p].inode
    BY <1>8, <2>1 DEF EntryAt
  <2>3. e.id = StableId(posix_, tree, p)
    BY <1>3, <2>1
  <2>4. /\ p \in Paths /\ tree[p].inode \in Inodes
        /\ e.id = tree[p].inode \/ e.id = SaltedId(tree[p].inode, p)
    BY <1>8, <2>3, StableIdCases
  <2>5. e.id \in Inodes => e.id = e.inode
    BY <2>2, <2>4, SaltedIds
  <2>6. PICK q \in DOMAIN tree : StableId(TRUE, tree, q) = tree[p].inode
    BY FirstLinkExists
  <2>7. EntryAt(posix_, tree, q) \in E /\ EntryAt(posix_, tree, q).id = tree[p].inode
    BY <1>3, <1>8, <2>6, EntriesAreAtPaths
  <2>8. QED
    BY <2>2, <2>4, <2>5, <2>7
<1>9. ASSUME posix_ = FALSE, NEW e \in E PROVE e.id = e.path
  <2>1. PICK p \in DOMAIN tree : e = EntryAt(posix_, tree, p)
    BY <1>1
  <2>2. e.id = StableId(posix_, tree, p) /\ e.path = p
    BY <1>2, <1>3, <2>1
  <2>3. QED
    BY <1>9, <2>2, StableIdCases
<1>10. QED
  BY <1>7, <1>8, <1>9 DEF HasFirstLinks

\* There are as many entries as paths at most.
LEMMA SnapshotsAreFinite ==
  ASSUME NEW entries, IsSnapshot(entries)
  PROVE  IsFiniteSet(entries)
<1> DEFINE pathOf == [e \in entries |-> e.path]
<1>1. \A e \in entries : e.path \in Paths
  BY DEF IsSnapshot, Entries
<1>2. pathOf \in [entries -> Paths]
  BY <1>1
<1>3. \A e, f \in entries : pathOf[e] = pathOf[f] => e = f
  BY DEF IsSnapshot
<1>4. pathOf \in Injection(entries, Paths)
  BY <1>2, <1>3 DEF Injection, IsInjective
<1>5. IsFiniteSet(Paths)
  BY TreeAssumption
<1> HIDE DEF pathOf
<1>6. QED
  BY <1>4, <1>5, FS_Injection

-----------------------------------------------------------------------------
(***************************************************************************)
(* Deltas.                                                                 *)
(***************************************************************************)

\* Entries without a counterpart by id.
Unmatched(entries, others) == {e \in entries : e.id \notin Ids(others)}

LEMMA IdsOf ==
  ASSUME NEW entries
  PROVE  \A i : i \in Ids(entries) <=> \E e \in entries : e.id = i
BY DEF Ids

\* What the rename heuristic pairs.
Moved(base, target) ==
  HeuristicRenames(Unmatched(base, target), Unmatched(target, base))

\* The pairs behind renamed_entries.
RenamedPairs(base, target) ==
  Moved(base, target) \cup {q \in ById(base, target) : q[1].path # q[2].path}

LEMMA ComputedParts ==
  ASSUME NEW base, NEW target
  PROVE  /\ Compute(base, target).removed =
              {e \in Unmatched(base, target) : \A pair \in Moved(base, target) : pair[1] # e}
         /\ Compute(base, target).added =
              {e \in Unmatched(target, base) : \A pair \in Moved(base, target) : pair[2] # e}
         /\ Compute(base, target).modified =
              {[id |-> pair[2].id, before |-> pair[1].meta, after |-> pair[2].meta] :
                 pair \in {q \in ById(base, target) : q[1].meta # q[2].meta}}
         /\ Compute(base, target).renamed =
              {Rename(pair) : pair \in RenamedPairs(base, target)}
BY DEF Compute, Unmatched, Moved, RenamedPairs

\* Entries of one fingerprint have different ranks.
LEMMA RanksDiffer ==
  ASSUME NEW entries, IsSnapshot(entries), NEW bucket \in SUBSET entries,
         NEW e \in bucket, NEW f \in bucket,
         Fingerprint(e) = Fingerprint(f), Rank(e, bucket) = Rank(f, bucket)
  PROVE  e = f
<1> DEFINE Before(x) == {g \in bucket : Fingerprint(g) = Fingerprint(x) /\ g.path < x.path}
<1>1. IsFiniteSet(bucket)
  BY SnapshotsAreFinite, FS_Subset
<1>2. \A g \in bucket : g.path \in Nat
  BY KeyBounds DEF IsSnapshot, Entries
<1>3. \A x : Rank(x, bucket) = Cardinality(Before(x))
  BY DEF Rank
<1>4. ASSUME NEW x \in bucket, NEW y \in bucket, x.path < y.path,
             Fingerprint(x) = Fingerprint(y)
      PROVE  Rank(x, bucket) # Rank(y, bucket)
  <2>1. Before(x) \in SUBSET Before(y)
    BY <1>2, <1>4
  <2>2. x \in Before(y) /\ x \notin Before(x)
    BY <1>2, <1>4
  <2>3. Before(y) \in SUBSET bucket
    OBVIOUS
  <2> HIDE DEF Before
  <2>4. IsFiniteSet(Before(y))
    BY <1>1, <2>3, FS_Subset
  <2>5. Cardinality(Before(x)) # Cardinality(Before(y))
    BY <2>1, <2>2, <2>4, FS_Subset
  <2>6. QED
    BY <1>3, <2>5
<1>5. ~ (e.path < f.path) /\ ~ (f.path < e.path)
  BY <1>4
<1>6. e.path = f.path
  BY <1>2, <1>5
<1>7. QED
  BY <1>6 DEF IsSnapshot

LEMMA PairsAreTuples ==
  ASSUME NEW S, NEW T, NEW pair \in S \X T
  PROVE  pair = <<pair[1], pair[2]>> /\ pair[1] \in S /\ pair[2] \in T
OBVIOUS

\* What the heuristic pairs, it pairs once, and the same from the other side.
LEMMA MovedPairs ==
  ASSUME NEW base, NEW target, IsSnapshot(base), IsSnapshot(target)
  PROVE  /\ \A pair \in Moved(base, target) :
              /\ pair = <<pair[1], pair[2]>>
              /\ pair[1] \in Unmatched(base, target) /\ pair[2] \in Unmatched(target, base)
              /\ Fingerprint(pair[1]) = Fingerprint(pair[2])
         /\ \A pair, other \in Moved(base, target) : pair[1] = other[1] <=> pair[2] = other[2]
         /\ \A e, f : <<e, f>> \in Moved(base, target) => <<f, e>> \in Moved(target, base)
<1> DEFINE R == Unmatched(base, target)
           A == Unmatched(target, base)
<1>1. R \in SUBSET base /\ A \in SUBSET target
  BY DEF Unmatched
<1>2. ASSUME NEW pair \in Moved(base, target)
      PROVE  /\ pair = <<pair[1], pair[2]>> /\ pair[1] \in R /\ pair[2] \in A
             /\ Fingerprint(pair[1]) = Fingerprint(pair[2])
             /\ Rank(pair[1], R) = Rank(pair[2], A)
  <2>1. /\ pair \in R \X A
        /\ Fingerprint(pair[1]) = Fingerprint(pair[2])
        /\ Rank(pair[1], R) = Rank(pair[2], A)
    BY DEF Moved, HeuristicRenames
  <2> HIDE DEF R, A
  <2>2. QED
    BY <2>1, PairsAreTuples
<1> HIDE DEF R, A
<1>3. ASSUME NEW pair \in Moved(base, target), NEW other \in Moved(base, target)
      PROVE  pair[1] = other[1] <=> pair[2] = other[2]
  <2>1. /\ pair[1] \in R /\ pair[2] \in A /\ other[1] \in R /\ other[2] \in A
        /\ Fingerprint(pair[1]) = Fingerprint(pair[2])
        /\ Fingerprint(other[1]) = Fingerprint(other[2])
        /\ Rank(pair[1], R) = Rank(pair[2], A)
        /\ Rank(other[1], R) = Rank(other[2], A)
    BY <1>2
  <2>2. ASSUME pair[1] = other[1] PROVE pair[2] = other[2]
    <3>1. /\ Fingerprint(pair[2]) = Fingerprint(other[2])
          /\ Rank(pair[2], A) = Rank(other[2], A)
      BY <2>1, <2>2
    <3>2. QED
      BY <1>1, <2>1, <3>1, RanksDiffer
  <2>3. ASSUME pair[2] = other[2] PROVE pair[1] = other[1]
    <3>1. /\ Fingerprint(pair[1]) = Fingerprint(other[1])
          /\ Rank(pair[1], R) = Rank(other[1], R)
      BY <2>1, <2>3
    <3>2. QED
      BY <1>1, <2>1, <3>1, RanksDiffer
  <2>4. QED
    BY <2>2, <2>3
<1>4. ASSUME NEW e, NEW f, <<e, f>> \in Moved(base, target)
      PROVE  <<f, e>> \in Moved(target, base)
  <2>1. /\ e \in R /\ f \in A /\ Fingerprint(e) = Fingerprint(f) /\ Rank(e, R) = Rank(f, A)
    BY <1>2, <1>4
  <2>2. Moved(target, base) =
          {pair \in A \X R : /\ Fingerprint(pair[1]) = Fingerprint(pair[2])
                             /\ Rank(pair[1], A) = Rank(pair[2], R)}
    BY DEF Moved, HeuristicRenames, A, R
  <2>3. QED
    BY <2>1, <2>2
<1>5. QED
  BY <1>2, <1>3, <1>4 DEF R, A

LEMMA MatchedPairs ==
  ASSUME NEW base, NEW target, IsSnapshot(base), IsSnapshot(target)
  PROVE  /\ \A pair \in ById(base, target) :
              /\ pair = <<pair[1], pair[2]>>
              /\ pair[1] \in base /\ pair[2] \in target /\ pair[1].id = pair[2].id
         /\ \A pair, other \in ById(base, target) : pair[1] = other[1] <=> pair[2] = other[2]
         /\ \A e, f : <<e, f>> \in ById(base, target) <=>
                        e \in base /\ f \in target /\ e.id = f.id
<1>1. ASSUME NEW pair \in ById(base, target)
      PROVE  /\ pair = <<pair[1], pair[2]>>
             /\ pair[1] \in base /\ pair[2] \in target /\ pair[1].id = pair[2].id
  <2>1. pair \in base \X target /\ pair[1].id = pair[2].id
    BY DEF ById
  <2>2. QED
    BY <2>1, PairsAreTuples
<1>2. ASSUME NEW pair \in ById(base, target), NEW other \in ById(base, target)
      PROVE  pair[1] = other[1] <=> pair[2] = other[2]
  <2>1. /\ pair[1] \in base /\ pair[2] \in target /\ pair[1].id = pair[2].id
        /\ other[1] \in base /\ other[2] \in target /\ other[1].id = other[2].id
    BY <1>1
  <2>2. QED
    BY <2>1 DEF IsSnapshot
<1>3. ASSUME NEW e, NEW f
      PROVE  <<e, f>> \in ById(base, target) <=> e \in base /\ f \in target /\ e.id = f.id
  BY DEF ById
<1>4. QED
  BY <1>1, <1>2, <1>3

\* Renames start at different entries and end at different ones.
LEMMA RenamedOnce ==
  ASSUME NEW base, NEW target, IsSnapshot(base), IsSnapshot(target)
  PROVE  /\ \A pair \in RenamedPairs(base, target) :
              /\ pair = <<pair[1], pair[2]>> /\ pair[1] \in base /\ pair[2] \in target
              /\ pair[1].id \in Ids(target) => pair[1].id = pair[2].id
              /\ pair[2].id \in Ids(base) => pair[1].id = pair[2].id
         /\ \A pair, other \in RenamedPairs(base, target) :
              pair[1] = other[1] <=> pair[2] = other[2]
<1>1. ASSUME NEW pair \in Moved(base, target)
      PROVE  /\ pair = <<pair[1], pair[2]>> /\ pair[1] \in base /\ pair[2] \in target
             /\ pair[1].id \notin Ids(target) /\ pair[2].id \notin Ids(base)
  BY MovedPairs DEF Unmatched
<1>2. ASSUME NEW pair \in ById(base, target)
      PROVE  /\ pair = <<pair[1], pair[2]>> /\ pair[1] \in base /\ pair[2] \in target
             /\ pair[1].id \in Ids(target) /\ pair[2].id \in Ids(base)
             /\ pair[1].id = pair[2].id
  <2>1. /\ pair = <<pair[1], pair[2]>> /\ pair[1] \in base /\ pair[2] \in target
        /\ pair[1].id = pair[2].id
    BY MatchedPairs
  <2>2. QED
    BY <2>1 DEF Ids
<1>3. \A pair \in RenamedPairs(base, target) :
        pair \in Moved(base, target) \/ pair \in ById(base, target)
  BY DEF RenamedPairs
<1>4. ASSUME NEW pair \in RenamedPairs(base, target), NEW other \in RenamedPairs(base, target)
      PROVE  pair[1] = other[1] <=> pair[2] = other[2]
  <2>1. CASE pair \in Moved(base, target) /\ other \in Moved(base, target)
    BY <2>1, MovedPairs
  <2>2. CASE pair \in ById(base, target) /\ other \in ById(base, target)
    BY <2>2, MatchedPairs
  <2>3. CASE pair \in Moved(base, target) /\ other \in ById(base, target)
    <3>1. pair[1] # other[1] /\ pair[2] # other[2]
      BY <1>1, <1>2, <2>3
    <3>2. QED
      BY <3>1
  <2>4. CASE pair \in ById(base, target) /\ other \in Moved(base, target)
    <3>1. pair[1] # other[1] /\ pair[2] # other[2]
      BY <1>1, <1>2, <2>4
    <3>2. QED
      BY <3>1
  <2>5. QED
    BY <1>3, <2>1, <2>2, <2>3, <2>4
<1>5. QED
  BY <1>1, <1>2, <1>3, <1>4

\* A modification is of an entry that both have, and has its new metadata.
LEMMA ModifiedEntries ==
  ASSUME NEW base, NEW target, IsSnapshot(base), IsSnapshot(target)
  PROVE  /\ \A m \in Compute(base, target).modified :
              /\ m.id \in Ids(base) /\ m.id \in Ids(target) /\ m.after \in Metas
              /\ \A e \in target : e.id = m.id => e.meta = m.after
         /\ \A m, n \in Compute(base, target).modified : m.id = n.id => m = n
         /\ \A b \in base, e \in target : b.id = e.id /\ b.meta # e.meta =>
              e.id \in Ids(Compute(base, target).modified)
<1> DEFINE modified == Compute(base, target).modified
<1>1. modified = {[id |-> pair[2].id, before |-> pair[1].meta, after |-> pair[2].meta] :
                    pair \in {q \in ById(base, target) : q[1].meta # q[2].meta}}
  BY ComputedParts
<1> HIDE DEF modified
<1>2. \A m \in modified : \E pair \in ById(base, target) :
        m = [id |-> pair[2].id, before |-> pair[1].meta, after |-> pair[2].meta]
  BY <1>1
<1>3. ASSUME NEW m \in modified
      PROVE  /\ m.id \in Ids(base) /\ m.id \in Ids(target) /\ m.after \in Metas
             /\ \A e \in target : e.id = m.id => e.meta = m.after
  <2>1. PICK pair \in ById(base, target) :
          m = [id |-> pair[2].id, before |-> pair[1].meta, after |-> pair[2].meta]
    BY <1>2
  <2>2. pair[1] \in base /\ pair[2] \in target /\ pair[1].id = pair[2].id
    BY MatchedPairs
  <2>3. m.id = pair[2].id /\ m.after = pair[2].meta
    BY <2>1
  <2>4. pair[2] \in Entries /\ \A e \in target : e.id = pair[2].id => e = pair[2]
    BY <2>2 DEF IsSnapshot
  <2>5. pair[2].meta \in Metas
    BY <2>4 DEF Entries
  <2>6. QED
    BY <2>2, <2>3, <2>4, <2>5, IdsOf
<1>4. ASSUME NEW m \in modified, NEW n \in modified, m.id = n.id PROVE m = n
  <2>1. PICK pair \in ById(base, target) :
          m = [id |-> pair[2].id, before |-> pair[1].meta, after |-> pair[2].meta]
    BY <1>2
  <2>2. PICK other \in ById(base, target) :
          n = [id |-> other[2].id, before |-> other[1].meta, after |-> other[2].meta]
    BY <1>2
  <2>3. m.id = pair[2].id /\ n.id = other[2].id
    BY <2>1, <2>2
  <2>4. pair[2] \in target /\ other[2] \in target
    BY MatchedPairs
  <2>5. pair[2] = other[2]
    BY <1>4, <2>3, <2>4 DEF IsSnapshot
  <2>6. pair[1] = other[1]
    BY <2>5, MatchedPairs
  <2>7. QED
    BY <2>1, <2>2, <2>5, <2>6
<1>5. ASSUME NEW b \in base, NEW e \in target, b.id = e.id, b.meta # e.meta
      PROVE  e.id \in Ids(modified)
  <2> DEFINE pair == <<b, e>>
  <2>1. /\ pair \in {q \in ById(base, target) : q[1].meta # q[2].meta}
        /\ pair[1] = b /\ pair[2] = e
    BY <1>5, MatchedPairs
  <2>2. [id |-> pair[2].id, before |-> pair[1].meta, after |-> pair[2].meta] \in modified
    BY <1>1, <2>1
  <2> HIDE DEF pair
  <2>3. \E m \in modified : m.id = e.id
    BY <2>1, <2>2
  <2>4. QED
    BY <2>3, IdsOf
<1>6. QED
  BY <1>3, <1>4, <1>5 DEF modified

\* What the validator asks, without the names.
LEMMA ValidDelta ==
  ASSUME NEW delta, NEW base, NEW target,
         \A x, y \in delta.added : x.id = y.id => x = y,
         \A x, y \in delta.removed : x.id = y.id => x = y,
         \A x, y \in delta.modified : x.id = y.id => x = y,
         \A x, y \in delta.renamed : x.before_id = y.before_id => x = y,
         \A x, y \in delta.renamed : x.after_id = y.after_id => x = y,
         \A x, y \in delta.renamed : x.new_path = y.new_path => x = y,
         Ids(delta.added) \cap (Ids(delta.removed) \cup Ids(delta.modified)) = {},
         Ids(delta.removed) \cap Ids(delta.modified) = {},
         Ids(delta.removed) \cup Ids(delta.modified) \cup {r.before_id : r \in delta.renamed}
           \subseteq Ids(base),
         Ids(delta.added) \cup Ids(delta.modified) \cup {r.after_id : r \in delta.renamed}
           \subseteq Ids(target)
  PROVE  IsValidDelta(delta, base, target)
BY Zenon DEF IsValidDelta, AreDistinct

\* The renames of a delta, by their pairs.
LEMMA RenameFields ==
  ASSUME NEW pair
  PROVE  /\ Rename(pair).before_id = pair[1].id /\ Rename(pair).after_id = pair[2].id
         /\ Rename(pair).old_path = pair[1].path /\ Rename(pair).new_path = pair[2].path
BY DEF Rename

LEMMA RenamesAreDistinct ==
  ASSUME NEW base, NEW target, IsSnapshot(base), IsSnapshot(target),
         NEW r \in Compute(base, target).renamed, NEW q \in Compute(base, target).renamed,
         \/ r.before_id = q.before_id \/ r.after_id = q.after_id
         \/ r.old_path = q.old_path \/ r.new_path = q.new_path
  PROVE  r = q
<1>1. PICK x \in RenamedPairs(base, target) : r = Rename(x)
  BY ComputedParts
<1>2. PICK y \in RenamedPairs(base, target) : q = Rename(y)
  BY ComputedParts
<1>3. /\ x = <<x[1], x[2]>> /\ x[1] \in base /\ x[2] \in target
      /\ y = <<y[1], y[2]>> /\ y[1] \in base /\ y[2] \in target
      /\ x[1] = y[1] <=> x[2] = y[2]
  BY RenamedOnce
<1>4. \/ x[1].id = y[1].id \/ x[2].id = y[2].id
      \/ x[1].path = y[1].path \/ x[2].path = y[2].path
  BY <1>1, <1>2, RenameFields
<1>5. x[1] = y[1] \/ x[2] = y[2]
  BY <1>3, <1>4 DEF IsSnapshot
<1>6. x = y
  BY <1>3, <1>5
<1>7. QED
  BY <1>1, <1>2, <1>6

\* DeltaEngine::compute makes deltas that the validator accepts.
LEMMA ComputedIsValid ==
  ASSUME NEW base, NEW target, IsSnapshot(base), IsSnapshot(target)
  PROVE  IsValidDelta(Compute(base, target), base, target)
<1> DEFINE delta == Compute(base, target)
<1>1. /\ delta.removed \subseteq Unmatched(base, target)
      /\ delta.added \subseteq Unmatched(target, base)
  BY ComputedParts
<1>2. /\ Unmatched(base, target) \subseteq base /\ Unmatched(target, base) \subseteq target
      /\ \A e \in Unmatched(base, target) : e.id \in Ids(base) /\ e.id \notin Ids(target)
      /\ \A e \in Unmatched(target, base) : e.id \in Ids(target) /\ e.id \notin Ids(base)
  BY DEF Unmatched, Ids
<1>3. /\ \A m \in delta.modified : m.id \in Ids(base) /\ m.id \in Ids(target)
      /\ \A x, y \in delta.modified : x.id = y.id => x = y
  BY ModifiedEntries
<1>4. \A r \in delta.renamed : \E pair \in RenamedPairs(base, target) : r = Rename(pair)
  BY ComputedParts
<1>5. \A x, y \in delta.renamed :
        /\ x.before_id = y.before_id => x = y
        /\ x.after_id = y.after_id => x = y
        /\ x.new_path = y.new_path => x = y
  BY RenamesAreDistinct
<1> HIDE DEF delta
<1>6. /\ \A x, y \in delta.added : x.id = y.id => x = y
      /\ \A x, y \in delta.removed : x.id = y.id => x = y
  BY <1>1, <1>2 DEF IsSnapshot
<1>7. /\ \A i \in Ids(delta.removed) : i \in Ids(base) /\ i \notin Ids(target)
      /\ \A i \in Ids(delta.added) : i \in Ids(target) /\ i \notin Ids(base)
      /\ \A i \in Ids(delta.modified) : i \in Ids(base) /\ i \in Ids(target)
  BY <1>1, <1>2, <1>3, IdsOf
<1>8. ASSUME NEW r \in delta.renamed PROVE r.before_id \in Ids(base) /\ r.after_id \in Ids(target)
  <2>1. PICK pair \in RenamedPairs(base, target) : r = Rename(pair)
    BY <1>4
  <2>2. pair[1] \in base /\ pair[2] \in target
    BY RenamedOnce
  <2>3. QED
    BY <2>1, <2>2, RenameFields DEF Ids
<1>9. /\ Ids(delta.added) \cap (Ids(delta.removed) \cup Ids(delta.modified)) = {}
       /\ Ids(delta.removed) \cap Ids(delta.modified) = {}
  BY <1>7
<1>10. /\ Ids(delta.removed) \cup Ids(delta.modified) \cup {r.before_id : r \in delta.renamed}
            \subseteq Ids(base)
       /\ Ids(delta.added) \cup Ids(delta.modified) \cup {r.after_id : r \in delta.renamed}
            \subseteq Ids(target)
  BY <1>7, <1>8
<1>11. IsValidDelta(delta, base, target)
  BY <1>3, <1>5, <1>6, <1>9, <1>10, ValidDelta
<1>12. QED
  BY <1>11 DEF delta

\* A pair of two snapshots is a pair of the other direction, turned around.
LEMMA PairsTurnAround ==
  ASSUME NEW base, NEW target, IsSnapshot(base), IsSnapshot(target)
  PROVE  /\ \A e, f : <<e, f>> \in Moved(base, target) <=> <<f, e>> \in Moved(target, base)
         /\ \A e, f : <<e, f>> \in ById(base, target) <=> <<f, e>> \in ById(target, base)
         /\ \A e, f : <<e, f>> \in RenamedPairs(base, target)
                        <=> <<f, e>> \in RenamedPairs(target, base)
<1>1. \A e, f : <<e, f>> \in Moved(base, target) <=> <<f, e>> \in Moved(target, base)
  BY MovedPairs
<1>2. \A e, f : <<e, f>> \in ById(base, target) <=> <<f, e>> \in ById(target, base)
  <2>1. \A e, f : <<e, f>> \in ById(base, target) <=> e \in base /\ f \in target /\ e.id = f.id
    BY DEF ById
  <2>2. \A e, f : <<f, e>> \in ById(target, base) <=> f \in target /\ e \in base /\ f.id = e.id
    BY DEF ById
  <2>3. QED
    BY <2>1, <2>2
<1>3. ASSUME NEW e, NEW f
      PROVE  <<e, f>> \in RenamedPairs(base, target) <=> <<f, e>> \in RenamedPairs(target, base)
  <2>1. \A b, t, x, y : <<x, y>> \in RenamedPairs(b, t) <=>
          <<x, y>> \in Moved(b, t) \/ (<<x, y>> \in ById(b, t) /\ x.path # y.path)
    BY DEF RenamedPairs
  <2>2. QED
    BY <1>1, <1>2, <2>1
<1>4. QED
  BY <1>1, <1>2, <1>3

LEMMA InvertedParts ==
  ASSUME NEW delta
  PROVE  Invert(delta) =
           [removed  |-> delta.added,
            added    |-> delta.removed,
            modified |-> {[id |-> m.id, before |-> m.after, after |-> m.before] :
                            m \in delta.modified},
            renamed  |-> {[before_id |-> r.after_id, after_id |-> r.before_id,
                           old_path |-> r.new_path, new_path |-> r.old_path] :
                            r \in delta.renamed}]
BY DEF Invert

LEMMA UnmatchedTurnAround ==
  ASSUME NEW base, NEW target, IsSnapshot(base), IsSnapshot(target)
  PROVE  Compute(target, base).removed = Compute(base, target).added
<1>1. \A pair \in Moved(base, target) : pair = <<pair[1], pair[2]>>
  BY MovedPairs
<1>2. \A pair \in Moved(target, base) : pair = <<pair[1], pair[2]>>
  BY MovedPairs
<1>3. ASSUME NEW e
      PROVE  (\A pair \in Moved(target, base) : pair[1] # e)
               <=> (\A pair \in Moved(base, target) : pair[2] # e)
  <2>1. ASSUME NEW pair \in Moved(target, base), pair[1] = e
        PROVE  \E other \in Moved(base, target) : other[2] = e
    <3>1. <<pair[2], pair[1]>> \in Moved(base, target)
      BY <1>2, PairsTurnAround
    <3>2. QED
      BY <2>1, <3>1
  <2>2. ASSUME NEW pair \in Moved(base, target), pair[2] = e
        PROVE  \E other \in Moved(target, base) : other[1] = e
    <3>1. <<pair[2], pair[1]>> \in Moved(target, base)
      BY <1>1, PairsTurnAround
    <3>2. QED
      BY <2>2, <3>1
  <2>3. QED
    BY <2>1, <2>2
<1>4. Compute(target, base).removed =
        {e \in Unmatched(target, base) : \A pair \in Moved(target, base) : pair[1] # e}
  BY ComputedParts
<1>5. Compute(base, target).added =
        {e \in Unmatched(target, base) : \A pair \in Moved(base, target) : pair[2] # e}
  BY ComputedParts
<1>6. QED
  BY <1>3, <1>4, <1>5

LEMMA ModifiedTurnAround ==
  ASSUME NEW base, NEW target, IsSnapshot(base), IsSnapshot(target),
         NEW m \in Compute(base, target).modified
  PROVE  [id |-> m.id, before |-> m.after, after |-> m.before] \in Compute(target, base).modified
<1>1. PICK pair \in ById(base, target) :
        /\ pair[1].meta # pair[2].meta
        /\ m = [id |-> pair[2].id, before |-> pair[1].meta, after |-> pair[2].meta]
  BY ComputedParts
<1>2. <<pair[2], pair[1]>> \in ById(target, base) /\ pair[1].id = pair[2].id
  BY MatchedPairs
<1> DEFINE other == <<pair[2], pair[1]>>
<1>3. /\ other \in ById(target, base) /\ other[1].meta # other[2].meta
      /\ other[1] = pair[2] /\ other[2] = pair[1]
  BY <1>1, <1>2
<1>4. [id |-> m.id, before |-> m.after, after |-> m.before] =
        [id |-> other[2].id, before |-> other[1].meta, after |-> other[2].meta]
  BY <1>1, <1>2, <1>3
<1> HIDE DEF other
<1>5. QED
  BY <1>3, <1>4, ComputedParts

LEMMA RenamedTurnAround ==
  ASSUME NEW base, NEW target, IsSnapshot(base), IsSnapshot(target),
         NEW r \in Compute(base, target).renamed
  PROVE  [before_id |-> r.after_id, after_id |-> r.before_id,
          old_path |-> r.new_path, new_path |-> r.old_path] \in Compute(target, base).renamed
<1>1. PICK pair \in RenamedPairs(base, target) : r = Rename(pair)
  BY ComputedParts
<1>2. pair = <<pair[1], pair[2]>>
  BY RenamedOnce
<1> DEFINE other == <<pair[2], pair[1]>>
<1>3. other \in RenamedPairs(target, base) /\ other[1] = pair[2] /\ other[2] = pair[1]
  BY <1>2, PairsTurnAround
<1>4. Rename(other) = [before_id |-> r.after_id, after_id |-> r.before_id,
                       old_path |-> r.new_path, new_path |-> r.old_path]
  BY <1>1, <1>3 DEF Rename
<1> HIDE DEF other
<1>5. QED
  BY <1>3, <1>4, ComputedParts

LEMMA ComputedIsRecord ==
  ASSUME NEW base, NEW target
  PROVE  Compute(base, target) = [removed  |-> Compute(base, target).removed,
                                  added    |-> Compute(base, target).added,
                                  modified |-> Compute(base, target).modified,
                                  renamed  |-> Compute(base, target).renamed]
BY DEF Compute

\* The fields of a modification and of a rename, twice turned around.
LEMMA TurnedTwice ==
  ASSUME NEW base, NEW target
  PROVE  /\ \A m \in Compute(base, target).modified :
              m = [id |-> m.id, before |-> m.before, after |-> m.after]
         /\ \A r \in Compute(base, target).renamed :
              r = [before_id |-> r.before_id, after_id |-> r.after_id,
                   old_path |-> r.old_path, new_path |-> r.new_path]
<1>1. \A m \in Compute(base, target).modified : \E pair :
        m = [id |-> pair[2].id, before |-> pair[1].meta, after |-> pair[2].meta]
  BY ComputedParts
<1>2. \A r \in Compute(base, target).renamed : \E pair : r = Rename(pair)
  BY ComputedParts
<1>3. \A pair : Rename(pair) =
        [before_id |-> Rename(pair).before_id, after_id |-> Rename(pair).after_id,
         old_path |-> Rename(pair).old_path, new_path |-> Rename(pair).new_path]
  BY DEF Rename
<1>4. QED
  BY <1>1, <1>2, <1>3

\* The inverse of a delta is the delta of the other direction.
LEMMA InvertIsOtherDirection ==
  ASSUME NEW base, NEW target, IsSnapshot(base), IsSnapshot(target)
  PROVE  Invert(Compute(base, target)) = Compute(target, base)
<1> DEFINE D == Compute(base, target)
           B == Compute(target, base)
           TurnM(m) == [id |-> m.id, before |-> m.after, after |-> m.before]
           TurnR(r) == [before_id |-> r.after_id, after_id |-> r.before_id,
                        old_path |-> r.new_path, new_path |-> r.old_path]
<1>1. B.removed = D.added /\ D.removed = B.added
  BY UnmatchedTurnAround
<1>2. /\ \A m \in D.modified : TurnM(m) \in B.modified
      /\ \A m \in B.modified : TurnM(m) \in D.modified
  BY ModifiedTurnAround
<1>3. /\ \A r \in D.renamed : TurnR(r) \in B.renamed
      /\ \A r \in B.renamed : TurnR(r) \in D.renamed
  BY RenamedTurnAround
<1>4. /\ \A m \in B.modified : m = [id |-> m.id, before |-> m.before, after |-> m.after]
      /\ \A r \in B.renamed : r = [before_id |-> r.before_id, after_id |-> r.after_id,
                                   old_path |-> r.old_path, new_path |-> r.new_path]
  BY TurnedTwice
<1>5. \A m \in B.modified : TurnM(TurnM(m)) = m
  BY <1>4
<1>6. \A r \in B.renamed : TurnR(TurnR(r)) = r
  BY <1>4
<1>7. B = [removed |-> B.removed, added |-> B.added, modified |-> B.modified,
           renamed |-> B.renamed]
  BY ComputedIsRecord
<1>8. Invert(D) = [removed |-> D.added, added |-> D.removed,
                   modified |-> {TurnM(m) : m \in D.modified},
                   renamed |-> {TurnR(r) : r \in D.renamed}]
  BY InvertedParts
<1> HIDE DEF D, B, TurnM, TurnR
<1>9. {TurnM(m) : m \in D.modified} = B.modified
  BY <1>2, <1>5
<1>10. {TurnR(r) : r \in D.renamed} = B.renamed
  BY <1>3, <1>6
<1>11. Invert(D) = B
  BY <1>1, <1>7, <1>8, <1>9, <1>10
<1>12. QED
  BY <1>11 DEF D, B

-----------------------------------------------------------------------------
(***************************************************************************)
(* The loops of apply_delta.                                               *)
(***************************************************************************)

\* The types of the maps of a host, and no path of them dangles.
MapsOK(maps) ==
  /\ maps = [by_id |-> maps.by_id, by_path |-> maps.by_path]
  /\ DOMAIN maps.by_id \subseteq EntryIds
  /\ \A i \in DOMAIN maps.by_id : maps.by_id[i] \in Entries
  /\ DOMAIN maps.by_path \subseteq Paths
  /\ \A p \in DOMAIN maps.by_path :
       /\ maps.by_path[p] \in DOMAIN maps.by_id
       /\ maps.by_id[maps.by_path[p]].path = p

\* The maps of a set of entries with unique ids and paths.
LEMMA IndexFacts ==
  ASSUME NEW entries, IsSnapshot(entries)
  PROVE  /\ DOMAIN EntriesById(entries) = Ids(entries)
         /\ \A e \in entries : EntriesById(entries)[e.id] = e
         /\ \A p \in DOMAIN IdByPath(entries) :
              \E e \in entries : e.path = p /\ IdByPath(entries)[p] = e.id
         /\ \A e \in entries : e.path \in DOMAIN IdByPath(entries)
                                 /\ IdByPath(entries)[e.path] = e.id
<1>1. DOMAIN EntriesById(entries) = Ids(entries)
  BY DEF EntriesById
<1>2. ASSUME NEW e \in entries PROVE EntriesById(entries)[e.id] = e
  <2>1. e.id \in Ids(entries)
    BY DEF Ids
  <2>2. EntriesById(entries)[e.id] = CHOOSE f \in entries : f.id = e.id
    BY <2>1 DEF EntriesById
  <2>3. \A f \in entries : f.id = e.id => f = e
    BY DEF IsSnapshot
  <2>4. QED
    BY <2>2, <2>3
<1>3. ASSUME NEW p \in DOMAIN IdByPath(entries)
      PROVE  \E e \in entries : e.path = p /\ IdByPath(entries)[p] = e.id
  <2>1. p \in {e.path : e \in entries}
    BY DEF IdByPath
  <2>2. \E e \in entries : e.path = p
    BY <2>1
  <2>3. IdByPath(entries)[p] = (CHOOSE e \in entries : e.path = p).id
    BY <2>1 DEF IdByPath
  <2>4. QED
    BY <2>2, <2>3
<1>4. \A e \in entries : e.path \in DOMAIN IdByPath(entries)
  BY DEF IdByPath
<1>5. ASSUME NEW e \in entries PROVE IdByPath(entries)[e.path] = e.id
  <2>1. PICK f \in entries : f.path = e.path /\ IdByPath(entries)[e.path] = f.id
    BY <1>3, <1>4
  <2>2. QED
    BY <2>1 DEF IsSnapshot
<1>6. QED
  BY <1>1, <1>2, <1>3, <1>4, <1>5

LEMMA SnapshotPart ==
  ASSUME NEW entries, IsSnapshot(entries), NEW part \in SUBSET entries
  PROVE  IsSnapshot(part)
BY DEF IsSnapshot

\* The maps of a snapshot.
LEMMA IndexedSnapshot ==
  ASSUME NEW entries, IsSnapshot(entries)
  PROVE  MapsOK([by_id |-> EntriesById(entries), by_path |-> IdByPath(entries)])
<1>1. \A e \in entries : e \in Entries /\ e.id \in EntryIds /\ e.path \in Paths
  BY DEF IsSnapshot, Entries
<1>2. /\ DOMAIN EntriesById(entries) = Ids(entries)
      /\ \A e \in entries : EntriesById(entries)[e.id] = e
      /\ \A p \in DOMAIN IdByPath(entries) :
           \E e \in entries : e.path = p /\ IdByPath(entries)[p] = e.id
  BY IndexFacts
<1>3. \A i \in DOMAIN EntriesById(entries) :
        i \in EntryIds /\ EntriesById(entries)[i] \in Entries
  BY <1>1, <1>2, IdsOf
<1>4. \A p \in DOMAIN IdByPath(entries) :
        /\ p \in Paths
        /\ IdByPath(entries)[p] \in DOMAIN EntriesById(entries)
        /\ EntriesById(entries)[IdByPath(entries)[p]].path = p
  BY <1>1, <1>2, IdsOf
<1>5. QED
  BY <1>3, <1>4 DEF MapsOK

\* Removed entries leave with their paths.
LEMMA RemovalsKeepMaps ==
  ASSUME NEW maps, MapsOK(maps), NEW delta,
         \A e \in delta.removed : e.id \in DOMAIN maps.by_id /\ maps.by_id[e.id].path = e.path
  PROVE  /\ MapsOK(AfterRemovals(maps, delta))
         /\ DOMAIN AfterRemovals(maps, delta).by_id = DOMAIN maps.by_id \ Ids(delta.removed)
         /\ \A i \in DOMAIN maps.by_id \ Ids(delta.removed) :
              AfterRemovals(maps, delta).by_id[i] = maps.by_id[i]
         /\ \A p \in DOMAIN maps.by_path : (\A e \in delta.removed : e.path # p) =>
              /\ p \in DOMAIN AfterRemovals(maps, delta).by_path
              /\ AfterRemovals(maps, delta).by_path[p] = maps.by_path[p]
<1> DEFINE after == AfterRemovals(maps, delta)
           gone == {e.path : e \in delta.removed}
<1>1. /\ after = [by_id |-> after.by_id, by_path |-> after.by_path]
      /\ after.by_id = Without(maps.by_id, Ids(delta.removed))
      /\ after.by_path = Without(maps.by_path, gone)
  BY DEF AfterRemovals
<1> HIDE DEF after
<1>2. /\ DOMAIN after.by_id = DOMAIN maps.by_id \ Ids(delta.removed)
      /\ \A i \in DOMAIN after.by_id : after.by_id[i] = maps.by_id[i]
  BY <1>1 DEF Without
<1>3. /\ DOMAIN after.by_path = DOMAIN maps.by_path \ gone
      /\ \A p \in DOMAIN after.by_path : after.by_path[p] = maps.by_path[p]
  BY <1>1 DEF Without
<1>4. ASSUME NEW p \in DOMAIN after.by_path
      PROVE  /\ after.by_path[p] \in DOMAIN after.by_id
             /\ after.by_id[after.by_path[p]].path = p
  <2>1. /\ p \in DOMAIN maps.by_path /\ p \notin gone
        /\ after.by_path[p] = maps.by_path[p]
    BY <1>3
  <2>2. maps.by_path[p] \in DOMAIN maps.by_id /\ maps.by_id[maps.by_path[p]].path = p
    BY <2>1 DEF MapsOK
  <2>3. maps.by_path[p] \notin Ids(delta.removed)
    <3> SUFFICES ASSUME NEW e \in delta.removed, e.id = maps.by_path[p]
                 PROVE  FALSE
      BY IdsOf
    <3>1. e.path = p
      BY <2>2
    <3>2. QED
      BY <2>1, <3>1
  <2>4. QED
    BY <1>2, <2>1, <2>2, <2>3
<1>5. MapsOK(after)
  <2>1. /\ DOMAIN after.by_id \subseteq EntryIds
        /\ \A i \in DOMAIN after.by_id : after.by_id[i] \in Entries
        /\ DOMAIN after.by_path \subseteq Paths
    BY <1>2, <1>3 DEF MapsOK
  <2>2. QED
    BY <1>1, <1>4, <2>1 DEF MapsOK
<1>6. ASSUME NEW p \in DOMAIN maps.by_path, \A e \in delta.removed : e.path # p
      PROVE  p \in DOMAIN after.by_path /\ after.by_path[p] = maps.by_path[p]
  BY <1>3, <1>6
<1>7. QED
  BY <1>2, <1>5, <1>6 DEF after

\* Added entries come with their paths.
LEMMA AdditionsKeepMaps ==
  ASSUME NEW maps, MapsOK(maps), NEW delta, IsSnapshot(delta.added),
         \A e \in delta.added : e.id \notin DOMAIN maps.by_id
  PROVE  /\ MapsOK(AfterAdditions(maps, delta))
         /\ DOMAIN AfterAdditions(maps, delta).by_id = DOMAIN maps.by_id \cup Ids(delta.added)
         /\ \A i \in DOMAIN maps.by_id : AfterAdditions(maps, delta).by_id[i] = maps.by_id[i]
         /\ \A e \in delta.added :
              /\ AfterAdditions(maps, delta).by_id[e.id] = e
              /\ e.path \in DOMAIN AfterAdditions(maps, delta).by_path
              /\ AfterAdditions(maps, delta).by_path[e.path] = e.id
         /\ \A p \in DOMAIN maps.by_path : (\A e \in delta.added : e.path # p) =>
              /\ p \in DOMAIN AfterAdditions(maps, delta).by_path
              /\ AfterAdditions(maps, delta).by_path[p] = maps.by_path[p]
<1> DEFINE after == AfterAdditions(maps, delta)
           ids == EntriesById(delta.added)
           paths == IdByPath(delta.added)
<1>1. /\ after = [by_id |-> after.by_id, by_path |-> after.by_path]
      /\ after.by_id = UpdatedBy(maps.by_id, ids)
      /\ after.by_path = UpdatedBy(maps.by_path, paths)
  BY DEF AfterAdditions
<1>2. /\ DOMAIN ids = Ids(delta.added)
      /\ \A e \in delta.added : ids[e.id] = e
      /\ \A p \in DOMAIN paths : \E e \in delta.added : e.path = p /\ paths[p] = e.id
      /\ \A e \in delta.added : e.path \in DOMAIN paths /\ paths[e.path] = e.id
  BY IndexFacts
<1>3. \A e \in delta.added : e.id \in DOMAIN ids /\ e.id \notin DOMAIN maps.by_id
  BY <1>2, IdsOf
<1>4. \A i \in DOMAIN ids : i \notin DOMAIN maps.by_id
  BY <1>2, IdsOf
<1>5. MapsOK([by_id |-> ids, by_path |-> paths])
  BY IndexedSnapshot
<1> HIDE DEF after, ids, paths
<1>6. /\ DOMAIN after.by_id = DOMAIN maps.by_id \cup DOMAIN ids
      /\ \A i \in DOMAIN maps.by_id : after.by_id[i] = maps.by_id[i]
      /\ \A i \in DOMAIN ids : after.by_id[i] = ids[i]
  BY <1>1, <1>4 DEF UpdatedBy
<1>7. /\ DOMAIN after.by_path = DOMAIN maps.by_path \cup DOMAIN paths
      /\ \A p \in DOMAIN paths : after.by_path[p] = paths[p]
      /\ \A p \in DOMAIN maps.by_path \ DOMAIN paths : after.by_path[p] = maps.by_path[p]
  BY <1>1 DEF UpdatedBy
<1>8. /\ DOMAIN ids \subseteq EntryIds
      /\ \A i \in DOMAIN ids : ids[i] \in Entries
      /\ DOMAIN paths \subseteq Paths
      /\ \A p \in DOMAIN paths : paths[p] \in DOMAIN ids /\ ids[paths[p]].path = p
  BY <1>5 DEF MapsOK
<1>9. /\ DOMAIN maps.by_id \subseteq EntryIds
      /\ \A i \in DOMAIN maps.by_id : maps.by_id[i] \in Entries
      /\ DOMAIN maps.by_path \subseteq Paths
      /\ \A p \in DOMAIN maps.by_path :
           maps.by_path[p] \in DOMAIN maps.by_id /\ maps.by_id[maps.by_path[p]].path = p
  BY DEF MapsOK
<1>10. /\ DOMAIN after.by_id \subseteq EntryIds
       /\ \A i \in DOMAIN after.by_id : after.by_id[i] \in Entries
       /\ DOMAIN after.by_path \subseteq Paths
  BY <1>6, <1>7, <1>8, <1>9
<1>11. ASSUME NEW p \in DOMAIN after.by_path
       PROVE  /\ after.by_path[p] \in DOMAIN after.by_id
              /\ after.by_id[after.by_path[p]].path = p
  <2>1. CASE p \in DOMAIN paths
    BY <1>6, <1>7, <1>8, <2>1
  <2>2. CASE p \notin DOMAIN paths
    BY <1>6, <1>7, <1>9, <2>2
  <2>3. QED
    BY <2>1, <2>2
<1>12. MapsOK(after)
  BY <1>1, <1>10, <1>11 DEF MapsOK
<1>13. \A e \in delta.added : e.path \in DOMAIN after.by_path /\ after.by_path[e.path] = e.id
  BY <1>2, <1>7
<1>14. ASSUME NEW p \in DOMAIN maps.by_path, \A e \in delta.added : e.path # p
       PROVE  p \in DOMAIN after.by_path /\ after.by_path[p] = maps.by_path[p]
  <2>1. p \notin DOMAIN paths
    BY <1>2, <1>14
  <2>2. QED
    BY <1>7, <2>1
<1>15. QED
  BY <1>2, <1>3, <1>6, <1>12, <1>13, <1>14 DEF after

\* A modification replaces the metadata of an entry, and nothing else.
LEMMA ModificationsKeepMaps ==
  ASSUME NEW maps, MapsOK(maps), NEW delta,
         \A m \in delta.modified : m.after \in Metas,
         \A m, n \in delta.modified : m.id = n.id => m = n
  PROVE  /\ MapsOK(AfterModifications(maps, delta))
         /\ AfterModifications(maps, delta).by_path = maps.by_path
         /\ DOMAIN AfterModifications(maps, delta).by_id = DOMAIN maps.by_id
         /\ \A i \in DOMAIN maps.by_id :
              /\ i \notin Ids(delta.modified) =>
                   AfterModifications(maps, delta).by_id[i] = maps.by_id[i]
              /\ \A m \in delta.modified : m.id = i =>
                   AfterModifications(maps, delta).by_id[i] = [maps.by_id[i] EXCEPT !.meta = m.after]
<1> DEFINE after == AfterModifications(maps, delta)
           Of(i) == CHOOSE m \in delta.modified : m.id = i
<1>1. /\ after = [by_id |-> after.by_id, by_path |-> after.by_path]
      /\ after.by_path = maps.by_path
      /\ after.by_id = [i \in DOMAIN maps.by_id |->
                          IF \E m \in delta.modified : m.id = i
                            THEN [maps.by_id[i] EXCEPT !.meta = Of(i).after]
                            ELSE maps.by_id[i]]
  <2>1. maps = [by_id |-> maps.by_id, by_path |-> maps.by_path]
    BY DEF MapsOK
  <2>2. QED
    BY <2>1 DEF AfterModifications
<1> HIDE DEF after
<1>2. DOMAIN after.by_id = DOMAIN maps.by_id
  BY <1>1
<1>3. ASSUME NEW i \in DOMAIN maps.by_id, i \notin Ids(delta.modified)
      PROVE  after.by_id[i] = maps.by_id[i]
  <2>1. ~ \E m \in delta.modified : m.id = i
    BY <1>3, IdsOf
  <2>2. QED
    BY <1>1, <2>1
<1>4. ASSUME NEW i \in DOMAIN maps.by_id, NEW m \in delta.modified, m.id = i
      PROVE  after.by_id[i] = [maps.by_id[i] EXCEPT !.meta = m.after]
  <2>1. Of(i) = m
    BY <1>4
  <2> HIDE DEF Of
  <2>2. QED
    BY <1>1, <1>4, <2>1
<1> HIDE DEF Of
<1>5. ASSUME NEW i \in DOMAIN maps.by_id
      PROVE  after.by_id[i] \in Entries /\ after.by_id[i].path = maps.by_id[i].path
  <2>1. maps.by_id[i] \in Entries
    BY DEF MapsOK
  <2>2. CASE i \notin Ids(delta.modified)
    BY <1>3, <2>1, <2>2
  <2>3. CASE i \in Ids(delta.modified)
    <3>1. PICK m \in delta.modified : m.id = i
      BY <2>3, IdsOf
    <3>2. after.by_id[i] = [maps.by_id[i] EXCEPT !.meta = m.after] /\ m.after \in Metas
      BY <1>4, <3>1
    <3>3. QED
      BY <2>1, <3>2 DEF Entries
  <2>4. QED
    BY <2>2, <2>3
<1>6. MapsOK(after)
  BY <1>1, <1>2, <1>5 DEF MapsOK
<1>7. QED
  BY <1>1, <1>2, <1>3, <1>4, <1>6 DEF after

\* The entry a rename makes of e.
RenamedEntry(e, r) == [e EXCEPT !.id = r.after_id, !.path = r.new_path]

\* A rename moves an entry to its new path, and with it what led there.
LEMMA RenameKeepsMaps ==
  ASSUME NEW maps, MapsOK(maps), NEW r,
         r.before_id \in DOMAIN maps.by_id,
         r.after_id \in DOMAIN maps.by_id => r.after_id = r.before_id,
         r.after_id \in EntryIds, r.new_path \in Paths
  PROVE  /\ MapsOK(AfterRename(maps, r))
         /\ DOMAIN AfterRename(maps, r).by_id =
              (DOMAIN maps.by_id \ {r.before_id}) \cup {r.after_id}
         /\ AfterRename(maps, r).by_id[r.after_id] = RenamedEntry(maps.by_id[r.before_id], r)
         /\ \A i \in DOMAIN maps.by_id \ {r.before_id} :
              AfterRename(maps, r).by_id[i] = maps.by_id[i]
         /\ r.new_path \in DOMAIN AfterRename(maps, r).by_path
         /\ AfterRename(maps, r).by_path[r.new_path] = r.after_id
         /\ \A p \in DOMAIN maps.by_path :
              p # maps.by_id[r.before_id].path /\ p # r.new_path =>
                /\ p \in DOMAIN AfterRename(maps, r).by_path
                /\ AfterRename(maps, r).by_path[p] = maps.by_path[p]
<1> DEFINE after == AfterRename(maps, r)
           old == maps.by_id[r.before_id]
           e == RenamedEntry(old, r)
           kept == Without(maps.by_id, {r.before_id})
           ways == Without(maps.by_path, {old.path})
<1>1. old \in Entries
  BY DEF MapsOK
<1>2. e \in Entries /\ e.id = r.after_id /\ e.path = r.new_path
  BY <1>1 DEF RenamedEntry, Entries
<1>3. after = Indexed([by_id |-> kept, by_path |-> ways], e)
  BY DEF AfterRename, RenamedEntry
<1> HIDE DEF after, old, e, kept, ways
<1>4. /\ after = [by_id |-> after.by_id, by_path |-> after.by_path]
      /\ after.by_id = UpdatedBy(kept, [i \in {e.id} |-> e])
      /\ after.by_path = UpdatedBy(ways, [p \in {e.path} |-> e.id])
  BY <1>3 DEF Indexed
<1>5. /\ DOMAIN kept = DOMAIN maps.by_id \ {r.before_id}
      /\ \A i \in DOMAIN kept : kept[i] = maps.by_id[i]
      /\ DOMAIN ways = DOMAIN maps.by_path \ {old.path}
      /\ \A p \in DOMAIN ways : ways[p] = maps.by_path[p]
  BY DEF kept, ways, Without
<1>6. r.after_id \notin DOMAIN kept
  BY <1>5
<1>7. /\ DOMAIN after.by_id = DOMAIN kept \cup {r.after_id}
      /\ after.by_id[r.after_id] = e
      /\ \A i \in DOMAIN kept : after.by_id[i] = kept[i]
  <2> DEFINE g == [i \in {e.id} |-> e]
  <2>1. DOMAIN g = {r.after_id} /\ g[r.after_id] = e
    BY <1>2
  <2>2. after.by_id = UpdatedBy(kept, g)
    BY <1>4
  <2> HIDE DEF g
  <2>3. QED
    BY <1>6, <2>1, <2>2 DEF UpdatedBy
<1>8. /\ DOMAIN after.by_path = DOMAIN ways \cup {r.new_path}
      /\ after.by_path[r.new_path] = r.after_id
      /\ \A p \in DOMAIN ways \ {r.new_path} : after.by_path[p] = ways[p]
  <2> DEFINE g == [p \in {e.path} |-> e.id]
  <2>1. DOMAIN g = {r.new_path} /\ g[r.new_path] = r.after_id
    BY <1>2
  <2>2. after.by_path = UpdatedBy(ways, g)
    BY <1>4
  <2> HIDE DEF g
  <2>3. QED
    BY <2>1, <2>2 DEF UpdatedBy
<1>9. ASSUME NEW p \in DOMAIN after.by_path
      PROVE  after.by_path[p] \in DOMAIN after.by_id /\ after.by_id[after.by_path[p]].path = p
  <2>1. CASE p = r.new_path
    BY <1>2, <1>7, <1>8, <2>1
  <2>2. CASE p # r.new_path
    <3>1. p \in DOMAIN maps.by_path /\ p # old.path /\ after.by_path[p] = maps.by_path[p]
      BY <1>5, <1>8, <2>2
    <3>2. maps.by_path[p] \in DOMAIN maps.by_id /\ maps.by_id[maps.by_path[p]].path = p
      BY <3>1 DEF MapsOK
    <3>3. maps.by_path[p] # r.before_id
      BY <3>1, <3>2 DEF old
    <3>4. maps.by_path[p] \in DOMAIN kept
      BY <1>5, <3>2, <3>3
    <3>5. QED
      BY <1>5, <1>7, <3>1, <3>2, <3>4
  <2>3. QED
    BY <2>1, <2>2
<1>10. /\ DOMAIN after.by_id \subseteq EntryIds
       /\ \A i \in DOMAIN after.by_id : after.by_id[i] \in Entries
       /\ DOMAIN after.by_path \subseteq Paths
  BY <1>2, <1>5, <1>7, <1>8 DEF MapsOK
<1>11. MapsOK(after)
  BY <1>4, <1>9, <1>10 DEF MapsOK
<1>12. /\ DOMAIN after.by_id = (DOMAIN maps.by_id \ {r.before_id}) \cup {r.after_id}
       /\ \A i \in DOMAIN maps.by_id \ {r.before_id} : after.by_id[i] = maps.by_id[i]
  BY <1>5, <1>7
<1>13. ASSUME NEW p \in DOMAIN maps.by_path, p # old.path, p # r.new_path
       PROVE  p \in DOMAIN after.by_path /\ after.by_path[p] = maps.by_path[p]
  BY <1>5, <1>8, <1>13
<1>14. r.new_path \in DOMAIN after.by_path /\ after.by_path[r.new_path] = r.after_id
  BY <1>8
<1>15. QED
  BY <1>7, <1>11, <1>12, <1>13, <1>14 DEF after, e, old

\* The recursion of AfterRenames up to the path n, for a function f.
IsRenaming(f, maps, delta, n) ==
  f = [p \in 0..n |->
         IF p = 0 THEN maps
         ELSE IF {r \in delta.renamed : r.old_path = p} = {} THEN f[p - 1]
         ELSE AfterRename(f[p - 1], CHOOSE r \in {r \in delta.renamed : r.old_path = p} : TRUE)]

\* Such a function exists: the one up to n extends the one up to n - 1.
LEMMA RenamingExists ==
  ASSUME NEW maps, NEW delta, NEW n \in Nat
  PROVE  \E f : IsRenaming(f, maps, delta, n)
<1> DEFINE From(p) == {r \in delta.renamed : r.old_path = p}
           Step(m, p) == IF From(p) = {} THEN m
                         ELSE AfterRename(m, CHOOSE r \in From(p) : TRUE)
           Renaming(f, k) == f = [p \in 0..k |-> IF p = 0 THEN maps ELSE Step(f[p - 1], p)]
           S == {k \in 0..n : \E f : Renaming(f, k)}
<1>1. 0 \in S
  <2> DEFINE g == [p \in 0..0 |-> maps]
  <2> HIDE DEF Step
  <2>1. g = [p \in 0..0 |-> g[p]] /\ \A p \in 0..0 : p = 0 /\ g[p] = maps
    OBVIOUS
  <2> HIDE DEF g
  <2>2. Renaming(g, 0)
    BY <2>1
  <2>3. QED
    BY <2>2
<1>2. ASSUME NEW k \in 1..n, k - 1 \in S PROVE k \in S
  <2> HIDE DEF Step
  <2>1. PICK f : Renaming(f, k - 1)
    BY <1>2
  <2> DEFINE g == [p \in 0..k |-> IF p = k THEN Step(f[k - 1], k) ELSE f[p]]
  <2>2. ASSUME NEW p \in 0..k PROVE g[p] = IF p = 0 THEN maps ELSE Step(g[p - 1], p)
    <3>1. CASE p = k
      <4>1. k # 0 /\ k - 1 \in 0..k /\ k - 1 # k
        OBVIOUS
      <4>2. g[k] = Step(f[k - 1], k) /\ g[k - 1] = f[k - 1]
        BY <4>1
      <4> HIDE DEF g
      <4>3. QED
        BY <3>1, <4>1, <4>2
    <3>2. CASE p # k
      <4>1. p \in 0..(k - 1) /\ (p # 0 => p - 1 \in 0..k /\ p - 1 # k)
        BY <3>2
      <4>2. f[p] = IF p = 0 THEN maps ELSE Step(f[p - 1], p)
        BY <2>1, <4>1
      <4>3. g[p] = f[p] /\ (p # 0 => g[p - 1] = f[p - 1])
        BY <3>2, <4>1
      <4> HIDE DEF g
      <4>4. QED
        BY <4>2, <4>3
    <3>3. QED
      BY <3>1, <3>2
  <2>3. g = [p \in 0..k |-> g[p]]
    OBVIOUS
  <2> HIDE DEF g
  <2>4. Renaming(g, k)
    BY <2>2, <2>3
  <2>5. k \in 0..n
    OBVIOUS
  <2>6. QED
    BY <2>4, <2>5
<1> HIDE DEF S
<1>3. \A k \in 0..n : k \in S
  BY <1>1, <1>2, BoundedInduction
<1>4. n \in S
  BY <1>3
<1>5. PICK f : Renaming(f, n)
  BY <1>4 DEF S
<1>6. IsRenaming(f, maps, delta, n)
  BY <1>5, Zenon DEF IsRenaming
<1>7. QED
  BY <1>6

\* What AfterRenames computes.
LEMMA RenamingOfMaps ==
  ASSUME NEW maps, NEW delta
  PROVE  \E f : /\ IsRenaming(f, maps, delta, Cardinality(Paths))
                /\ AfterRenames(maps, delta) = f[Cardinality(Paths)]
<1> DEFINE f == CHOOSE g : IsRenaming(g, maps, delta, Cardinality(Paths))
<1>1. AfterRenames(maps, delta) = f[Cardinality(Paths)]
  BY Zenon DEF AfterRenames, IsRenaming
<1>2. Cardinality(Paths) \in Nat
  BY KeyBounds
<1>3. IsRenaming(f, maps, delta, Cardinality(Paths))
  BY <1>2, RenamingExists, Zenon
<1>4. QED
  BY <1>1, <1>3, Zenon

\* What the loop over renames can rely on.
RenamesOK(maps, renamed) ==
  /\ \A r \in renamed :
       /\ r.before_id \in DOMAIN maps.by_id
       /\ r.after_id \in DOMAIN maps.by_id => r.after_id = r.before_id
       /\ r.after_id \in EntryIds /\ r.new_path \in Paths /\ r.old_path \in Paths
       /\ maps.by_id[r.before_id].path = r.old_path
  /\ \A r, q \in renamed :
       (\/ r.before_id = q.before_id \/ r.after_id = q.after_id
        \/ r.old_path = q.old_path \/ r.new_path = q.new_path) => r = q

\* m are the maps with some of the renames done.
AreDone(m, maps, done) ==
  /\ MapsOK(m)
  /\ DOMAIN m.by_id =
       (DOMAIN maps.by_id \ {r.before_id : r \in done}) \cup {r.after_id : r \in done}
  /\ \A r \in done : m.by_id[r.after_id] = RenamedEntry(maps.by_id[r.before_id], r)
  /\ \A i \in DOMAIN maps.by_id :
       (\A r \in done : r.before_id # i) => m.by_id[i] = maps.by_id[i]
  /\ \A r \in done : (\A q \in done : q.old_path # r.new_path) =>
       r.new_path \in DOMAIN m.by_path /\ m.by_path[r.new_path] = r.after_id
  /\ \A p \in DOMAIN maps.by_path :
       (\A r \in done : r.old_path # p /\ r.new_path # p) =>
         p \in DOMAIN m.by_path /\ m.by_path[p] = maps.by_path[p]

LEMMA OneMoreRename ==
  ASSUME NEW maps, MapsOK(maps), NEW renamed, RenamesOK(maps, renamed),
         NEW done \in SUBSET renamed, NEW m, AreDone(m, maps, done),
         NEW r \in renamed, r \notin done
  PROVE  AreDone(AfterRename(m, r), maps, done \cup {r})
<1> DEFINE after == AfterRename(m, r)
<1>1. /\ r.before_id \in DOMAIN maps.by_id
      /\ r.after_id \in DOMAIN maps.by_id => r.after_id = r.before_id
      /\ r.after_id \in EntryIds /\ r.new_path \in Paths
      /\ maps.by_id[r.before_id].path = r.old_path
  BY DEF RenamesOK
<1>2. \A q \in done : /\ q.before_id # r.before_id /\ q.after_id # r.after_id
                      /\ q.new_path # r.new_path
  <2> SUFFICES ASSUME NEW q \in done,
                      \/ q.before_id = r.before_id \/ q.after_id = r.after_id
                      \/ q.new_path = r.new_path
               PROVE  FALSE
    OBVIOUS
  <2>1. q = r
    BY DEF RenamesOK
  <2>2. QED
    BY <2>1
<1>3. \A q \in done : q.after_id # r.before_id
  BY <1>1, <1>2 DEF RenamesOK
<1>4. /\ r.before_id \in DOMAIN m.by_id
      /\ m.by_id[r.before_id] = maps.by_id[r.before_id]
  BY <1>1, <1>2 DEF AreDone
<1>5. r.after_id \in DOMAIN m.by_id => r.after_id = r.before_id
  BY <1>1, <1>2 DEF AreDone
<1>6. /\ MapsOK(after)
      /\ DOMAIN after.by_id = (DOMAIN m.by_id \ {r.before_id}) \cup {r.after_id}
      /\ after.by_id[r.after_id] = RenamedEntry(m.by_id[r.before_id], r)
      /\ \A i \in DOMAIN m.by_id \ {r.before_id} : after.by_id[i] = m.by_id[i]
      /\ r.new_path \in DOMAIN after.by_path /\ after.by_path[r.new_path] = r.after_id
      /\ \A p \in DOMAIN m.by_path :
           p # m.by_id[r.before_id].path /\ p # r.new_path =>
             p \in DOMAIN after.by_path /\ after.by_path[p] = m.by_path[p]
  <2>1. MapsOK(m)
    BY DEF AreDone
  <2>2. QED
    BY <1>1, <1>4, <1>5, <2>1, RenameKeepsMaps
<1> HIDE DEF after
<1>7. DOMAIN after.by_id =
        (DOMAIN maps.by_id \ {q.before_id : q \in done \cup {r}})
          \cup {q.after_id : q \in done \cup {r}}
  <2>1. DOMAIN m.by_id =
          (DOMAIN maps.by_id \ {q.before_id : q \in done}) \cup {q.after_id : q \in done}
    BY DEF AreDone
  <2>2. /\ {q.before_id : q \in done \cup {r}} = {q.before_id : q \in done} \cup {r.before_id}
        /\ {q.after_id : q \in done \cup {r}} = {q.after_id : q \in done} \cup {r.after_id}
    OBVIOUS
  <2>3. r.before_id \notin {q.after_id : q \in done}
    BY <1>3
  <2>4. QED
    BY <1>6, <2>1, <2>2, <2>3
<1>8. ASSUME NEW q \in done \cup {r}
      PROVE  after.by_id[q.after_id] = RenamedEntry(maps.by_id[q.before_id], q)
  <2>1. CASE q = r
    BY <1>4, <1>6, <2>1
  <2>2. CASE q \in done
    <3>1. q.after_id \in DOMAIN m.by_id /\ q.after_id # r.before_id
      BY <1>3, <2>2 DEF AreDone
    <3>2. after.by_id[q.after_id] = m.by_id[q.after_id]
      BY <1>6, <3>1
    <3>3. QED
      BY <2>2, <3>2 DEF AreDone
  <2>3. QED
    BY <2>1, <2>2
<1>9. ASSUME NEW i \in DOMAIN maps.by_id, \A q \in done \cup {r} : q.before_id # i
      PROVE  after.by_id[i] = maps.by_id[i]
  <2>1. m.by_id[i] = maps.by_id[i] /\ i \in DOMAIN m.by_id /\ i # r.before_id
    BY <1>9 DEF AreDone
  <2>2. QED
    BY <1>6, <2>1
<1>10. ASSUME NEW p \in DOMAIN m.by_path, p # r.old_path, p # r.new_path
       PROVE  p \in DOMAIN after.by_path /\ after.by_path[p] = m.by_path[p]
  BY <1>1, <1>4, <1>6, <1>10
<1>11. ASSUME NEW q \in done \cup {r}, \A s \in done \cup {r} : s.old_path # q.new_path
       PROVE  q.new_path \in DOMAIN after.by_path /\ after.by_path[q.new_path] = q.after_id
  <2>1. CASE q = r
    BY <1>6, <2>1
  <2>2. CASE q \in done
    <3>1. q.new_path \in DOMAIN m.by_path /\ m.by_path[q.new_path] = q.after_id
      BY <1>11, <2>2 DEF AreDone
    <3>2. q.new_path # r.old_path /\ q.new_path # r.new_path
      BY <1>2, <1>11, <2>2
    <3>3. QED
      BY <1>10, <3>1, <3>2
  <2>3. QED
    BY <2>1, <2>2
<1>12. ASSUME NEW p \in DOMAIN maps.by_path,
              \A q \in done \cup {r} : q.old_path # p /\ q.new_path # p
       PROVE  p \in DOMAIN after.by_path /\ after.by_path[p] = maps.by_path[p]
  <2>1. p \in DOMAIN m.by_path /\ m.by_path[p] = maps.by_path[p]
    BY <1>12 DEF AreDone
  <2>2. QED
    BY <1>10, <1>12, <2>1
<1>13. AreDone(after, maps, done \cup {r})
  BY <1>6, <1>7, <1>8, <1>9, <1>11, <1>12 DEF AreDone
<1>14. QED
  BY <1>13 DEF after

\* The loop does all of them, whatever order the old paths are in.
LEMMA RenamesAreDone ==
  ASSUME NEW maps, MapsOK(maps), NEW delta, RenamesOK(maps, delta.renamed)
  PROVE  AreDone(AfterRenames(maps, delta), maps, delta.renamed)
<1> DEFINE N == Cardinality(Paths)
           Done(k) == {r \in delta.renamed : r.old_path <= k}
<1>1. PICK f : IsRenaming(f, maps, delta, N) /\ AfterRenames(maps, delta) = f[N]
  BY RenamingOfMaps
<1>2. N \in Nat /\ \A r \in delta.renamed : r.old_path \in 1..N
  BY KeyBounds DEF RenamesOK
<1> HIDE DEF N
<1> DEFINE S == {k \in 0..N : AreDone(f[k], maps, Done(k))}
<1>3. 0 \in S
  <2>1. f[0] = maps
    BY <1>1, <1>2 DEF IsRenaming
  <2>2. Done(0) = {}
    BY <1>2
  <2>3. AreDone(maps, maps, {})
    BY DEF AreDone
  <2> HIDE DEF Done
  <2>4. QED
    BY <1>2, <2>1, <2>2, <2>3
<1>4. ASSUME NEW k \in 1..N, k - 1 \in S PROVE k \in S
  <2> DEFINE From == {r \in delta.renamed : r.old_path = k}
  <2>1. f[k] = IF From = {} THEN f[k - 1] ELSE AfterRename(f[k - 1], CHOOSE r \in From : TRUE)
    <3> DEFINE Turn(p) == IF {r \in delta.renamed : r.old_path = p} = {} THEN f[p - 1]
                          ELSE AfterRename(f[p - 1],
                                 CHOOSE r \in {r \in delta.renamed : r.old_path = p} : TRUE)
    <3>1. f = [p \in 0..N |-> IF p = 0 THEN maps ELSE Turn(p)]
      BY <1>1, Zenon DEF IsRenaming
    <3>2. k \in 0..N /\ k # 0
      BY <1>2
    <3> HIDE DEF Turn
    <3>3. f[k] = Turn(k)
      BY <3>1, <3>2
    <3>4. QED
      BY <3>3, Zenon DEF Turn
  <2>2. AreDone(f[k - 1], maps, Done(k - 1))
    BY <1>4
  <2>3. CASE From = {}
    <3>1. Done(k) = Done(k - 1)
      BY <1>2, <2>3
    <3> HIDE DEF Done, From
    <3>2. AreDone(f[k], maps, Done(k))
      BY <2>1, <2>2, <2>3, <3>1
    <3>3. QED
      BY <1>2, <3>2
  <2>4. CASE From # {}
    <3>1. PICK r \in From : r = CHOOSE q \in From : TRUE
      BY <2>4
    <3>2. r \in delta.renamed /\ r.old_path = k
      BY <3>1
    <3>3. ASSUME NEW q \in delta.renamed, q.old_path = k PROVE q = r
      <4>1. q.old_path = r.old_path
        BY <3>2, <3>3
      <4>2. QED
        BY <3>2, <4>1 DEF RenamesOK
    <3>4. Done(k) = Done(k - 1) \cup {r} /\ r \notin Done(k - 1)
      BY <1>2, <3>2, <3>3
    <3>5. Done(k - 1) \in SUBSET delta.renamed
      OBVIOUS
    <3>6. f[k] = AfterRename(f[k - 1], r)
      BY <2>1, <2>4, <3>1
    <3> HIDE DEF Done, From
    <3>7. AreDone(f[k], maps, Done(k))
      BY <2>2, <3>2, <3>4, <3>5, <3>6, OneMoreRename
    <3>8. QED
      BY <1>2, <3>7
  <2>5. QED
    BY <2>3, <2>4
<1> HIDE DEF S
<1>5. \A k \in 0..N : k \in S
  BY <1>2, <1>3, <1>4, BoundedInduction
<1>6. AreDone(f[N], maps, Done(N))
  BY <1>2, <1>5 DEF S
<1>7. Done(N) = delta.renamed
  BY <1>2
<1>8. QED
  BY <1>1, <1>6, <1>7

\* New parents are ids or none, and nothing else changes.
LEMMA ReparentingKeepsMaps ==
  ASSUME NEW maps, MapsOK(maps), NEW delta
  PROVE  /\ MapsOK(AfterReparenting(maps, delta))
         /\ DOMAIN AfterReparenting(maps, delta).by_id = DOMAIN maps.by_id
         /\ \A i \in DOMAIN maps.by_id :
              LET e == AfterReparenting(maps, delta).by_id[i] IN
              /\ e.id = maps.by_id[i].id /\ e.path = maps.by_id[i].path
              /\ e.inode = maps.by_id[i].inode /\ e.meta = maps.by_id[i].meta
<1> DEFINE after == AfterReparenting(maps, delta)
           Parent(p) == IF ParentPath[p] \in DOMAIN maps.by_path
                          THEN maps.by_path[ParentPath[p]] ELSE 0
<1>1. /\ after = [by_id |-> after.by_id, by_path |-> after.by_path]
      /\ after.by_path = maps.by_path
      /\ after.by_id =
           [i \in DOMAIN maps.by_id |->
              IF (\E r \in delta.renamed : r.after_id = i) /\ maps.by_id[i].path # Root
                THEN [maps.by_id[i] EXCEPT !.parent = Parent(maps.by_id[i].path)]
                ELSE maps.by_id[i]]
  <2>1. maps = [by_id |-> maps.by_id, by_path |-> maps.by_path]
    BY DEF MapsOK
  <2>2. QED
    BY <2>1 DEF AfterReparenting
<1>2. \A p : Parent(p) \in EntryIds \cup {0}
  BY DEF MapsOK
<1> HIDE DEF after, Parent
<1>3. ASSUME NEW i \in DOMAIN maps.by_id
      PROVE  /\ after.by_id[i] \in Entries
             /\ after.by_id[i].id = maps.by_id[i].id /\ after.by_id[i].path = maps.by_id[i].path
             /\ after.by_id[i].inode = maps.by_id[i].inode
             /\ after.by_id[i].meta = maps.by_id[i].meta
  <2>1. maps.by_id[i] \in Entries
    BY DEF MapsOK
  <2>2. \/ after.by_id[i] = maps.by_id[i]
        \/ after.by_id[i] = [maps.by_id[i] EXCEPT !.parent = Parent(maps.by_id[i].path)]
    BY <1>1
  <2>3. QED
    BY <1>2, <2>1, <2>2 DEF Entries
<1>4. MapsOK(after)
  BY <1>1, <1>3 DEF MapsOK
<1>5. DOMAIN after.by_id = DOMAIN maps.by_id
  BY <1>1
<1>6. QED
  BY <1>3, <1>4, <1>5 DEF after

\* A renamed entry hangs below the entry that its directory's path leads to.
LEMMA ReparentedEntry ==
  ASSUME NEW maps, MapsOK(maps), NEW delta, NEW i \in DOMAIN maps.by_id
  PROVE  /\ AfterReparenting(maps, delta).by_path = maps.by_path
         /\ AfterReparenting(maps, delta).by_id[i].path = maps.by_id[i].path
         /\ (\A r \in delta.renamed : r.after_id # i) =>
              AfterReparenting(maps, delta).by_id[i].parent = maps.by_id[i].parent
         /\ \A r \in delta.renamed :
              /\ r.after_id = i /\ maps.by_id[i].path # Root
              /\ ParentPath[maps.by_id[i].path] \in DOMAIN maps.by_path
              => AfterReparenting(maps, delta).by_id[i].parent
                   = maps.by_path[ParentPath[maps.by_id[i].path]]
<1> DEFINE after == AfterReparenting(maps, delta)
           old == maps.by_id[i]
           parent == IF ParentPath[old.path] \in DOMAIN maps.by_path
                       THEN maps.by_path[ParentPath[old.path]] ELSE 0
<1>1. /\ after.by_path = maps.by_path
      /\ after.by_id[i] = IF (\E r \in delta.renamed : r.after_id = i) /\ old.path # Root
                            THEN [old EXCEPT !.parent = parent] ELSE old
  <2>1. maps = [by_id |-> maps.by_id, by_path |-> maps.by_path]
    BY DEF MapsOK
  <2>2. QED
    BY <2>1 DEF AfterReparenting
<1>2. old \in Entries
  BY DEF MapsOK
<1> HIDE DEF after, old
<1>3. [old EXCEPT !.parent = parent].parent = parent
      /\ [old EXCEPT !.parent = parent].path = old.path
  BY <1>2 DEF Entries
<1>4. ASSUME NEW r \in delta.renamed, r.after_id = i, old.path # Root,
             ParentPath[old.path] \in DOMAIN maps.by_path
      PROVE  after.by_id[i].parent = maps.by_path[ParentPath[old.path]]
  BY <1>1, <1>3, <1>4
<1>5. QED
  BY <1>1, <1>3, <1>4 DEF after, old

-----------------------------------------------------------------------------
(***************************************************************************)
(* A computed delta leads from its base to its target.                     *)
(***************************************************************************)

\* EntriesMatchClaim, of any map and any entries.
Shows(posix_, by_id, entries) ==
  /\ DOMAIN by_id = Ids(entries)
  /\ \A e \in entries :
       /\ by_id[e.id].id = e.id /\ by_id[e.id].path = e.path
       /\ by_id[e.id].meta.stamp = e.meta.stamp
       /\ posix_ /\ e.id \in Inodes => by_id[e.id].meta = e.meta

\* Where the entries of two snapshots go in the delta between them.
LEMMA BaseEntries ==
  ASSUME NEW base, NEW target, IsSnapshot(base), IsSnapshot(target), NEW e \in base
  PROVE  /\ e.id \in Ids(Compute(base, target).removed) <=> e \in Compute(base, target).removed
         /\ e \in Compute(base, target).removed =>
              e.id \notin Ids(target) /\ \A pair \in RenamedPairs(base, target) : pair[1] # e
         /\ e.id \notin Ids(target) /\ e \notin Compute(base, target).removed =>
              \E pair \in Moved(base, target) : pair[1] = e
<1> DEFINE removed == Compute(base, target).removed
<1>1. removed = {f \in Unmatched(base, target) : \A pair \in Moved(base, target) : pair[1] # f}
  BY ComputedParts
<1>2. \A f \in removed : f \in base /\ f.id \notin Ids(target)
  BY <1>1 DEF Unmatched
<1> HIDE DEF removed
<1>3. e.id \in Ids(removed) <=> e \in removed
  <2>1. ASSUME NEW f \in removed, f.id = e.id PROVE f = e
    BY <1>2, <2>1 DEF IsSnapshot
  <2>2. QED
    BY <2>1, IdsOf
<1>4. ASSUME e \in removed, NEW pair \in RenamedPairs(base, target) PROVE pair[1] # e
  <2>1. CASE pair \in Moved(base, target)
    BY <1>1, <1>4, <2>1
  <2>2. CASE pair \in ById(base, target)
    <3>1. pair[2] \in target /\ pair[1].id = pair[2].id
      BY <2>2, MatchedPairs
    <3>2. pair[1].id \in Ids(target)
      BY <3>1, IdsOf
    <3>3. QED
      BY <1>2, <1>4, <3>2
  <2>3. QED
    BY <2>1, <2>2 DEF RenamedPairs
<1>5. ASSUME e.id \notin Ids(target), e \notin removed
      PROVE  \E pair \in Moved(base, target) : pair[1] = e
  BY <1>1, <1>5 DEF Unmatched
<1>6. QED
  BY <1>2, <1>3, <1>4, <1>5 DEF removed

LEMMA TargetEntries ==
  ASSUME NEW base, NEW target, IsSnapshot(base), IsSnapshot(target), NEW e \in target
  PROVE  /\ e.id \in Ids(Compute(base, target).added) <=> e \in Compute(base, target).added
         /\ e \in Compute(base, target).added =>
              e.id \notin Ids(base) /\ \A pair \in RenamedPairs(base, target) : pair[2] # e
         /\ e.id \notin Ids(base) /\ e \notin Compute(base, target).added =>
              \E pair \in Moved(base, target) : pair[2] = e
<1> DEFINE added == Compute(base, target).added
<1>1. added = {f \in Unmatched(target, base) : \A pair \in Moved(base, target) : pair[2] # f}
  BY ComputedParts
<1>2. \A f \in added : f \in target /\ f.id \notin Ids(base)
  BY <1>1 DEF Unmatched
<1> HIDE DEF added
<1>3. e.id \in Ids(added) <=> e \in added
  <2>1. ASSUME NEW f \in added, f.id = e.id PROVE f = e
    BY <1>2, <2>1 DEF IsSnapshot
  <2>2. QED
    BY <2>1, IdsOf
<1>4. ASSUME e \in added, NEW pair \in RenamedPairs(base, target) PROVE pair[2] # e
  <2>1. CASE pair \in Moved(base, target)
    BY <1>1, <1>4, <2>1
  <2>2. CASE pair \in ById(base, target)
    <3>1. pair[1] \in base /\ pair[1].id = pair[2].id
      BY <2>2, MatchedPairs
    <3>2. pair[2].id \in Ids(base)
      BY <3>1, IdsOf
    <3>3. QED
      BY <1>2, <1>4, <3>2
  <2>3. QED
    BY <2>1, <2>2 DEF RenamedPairs
<1>5. ASSUME e.id \notin Ids(base), e \notin added
      PROVE  \E pair \in Moved(base, target) : pair[2] = e
  BY <1>1, <1>5 DEF Unmatched
<1>6. QED
  BY <1>2, <1>3, <1>4, <1>5 DEF added

\* The maps after the first three loops.
Prepared(maps, delta) ==
  AfterModifications(AfterAdditions(AfterRemovals(maps, delta), delta), delta)

\* The entries that are in both snapshots have their new metadata, at their old
\* paths, and the added ones are there.
LEMMA PreparedMaps ==
  ASSUME NEW posix_, NEW base, NEW target, IsSnapshot(base), IsSnapshot(target),
         NEW maps, MapsOK(maps), Shows(posix_, maps.by_id, base)
  PROVE  LET delta == Compute(base, target)
             after == Prepared(maps, delta)
         IN  /\ MapsOK(after)
             /\ DOMAIN after.by_id = (Ids(base) \ Ids(delta.removed)) \cup Ids(delta.added)
             /\ \A e \in delta.added :
                  /\ after.by_id[e.id] = e
                  /\ e.path \in DOMAIN after.by_path /\ after.by_path[e.path] = e.id
             /\ \A b \in base : b \notin delta.removed =>
                  /\ after.by_id[b.id].id = b.id /\ after.by_id[b.id].path = b.path
                  /\ after.by_id[b.id].parent = maps.by_id[b.id].parent
                  /\ b.path \in DOMAIN maps.by_path /\ (\A e \in delta.added : e.path # b.path) =>
                       /\ b.path \in DOMAIN after.by_path
                       /\ after.by_path[b.path] = maps.by_path[b.path]
                  /\ b.id \notin Ids(target) => after.by_id[b.id] = maps.by_id[b.id]
                  /\ \A e \in target : e.id = b.id =>
                       /\ after.by_id[b.id].meta.stamp = e.meta.stamp
                       /\ posix_ /\ e.id \in Inodes => after.by_id[b.id].meta = e.meta
<1> DEFINE delta == Compute(base, target)
           M1 == AfterRemovals(maps, delta)
           M2 == AfterAdditions(M1, delta)
           M3 == AfterModifications(M2, delta)
<1>1. /\ \A b \in base : maps.by_id[b.id].id = b.id /\ maps.by_id[b.id].path = b.path
      /\ DOMAIN maps.by_id = Ids(base)
      /\ \A b \in base : /\ b.id \in Ids(base)
                         /\ maps.by_id[b.id].meta.stamp = b.meta.stamp
                         /\ posix_ /\ b.id \in Inodes => maps.by_id[b.id].meta = b.meta
  BY IdsOf DEF Shows
<1>2. delta.removed \in SUBSET base /\ delta.added \in SUBSET target
  BY ComputedParts DEF Unmatched
<1>3. /\ \A b \in base : b.id \in Ids(delta.removed) <=> b \in delta.removed
      /\ \A e \in delta.added : e.id \notin Ids(base)
  BY <1>2, BaseEntries, TargetEntries
<1>4. IsSnapshot(delta.added)
  BY <1>2, SnapshotPart
<1>5. /\ \A m \in delta.modified :
           /\ m.id \in Ids(base) /\ m.after \in Metas
           /\ \A e \in target : e.id = m.id => e.meta = m.after
      /\ \A m, n \in delta.modified : m.id = n.id => m = n
      /\ \A m \in delta.modified : m.id \in Ids(target)
      /\ \A b \in base, e \in target : b.id = e.id /\ b.meta # e.meta => e.id \in Ids(delta.modified)
  BY ModifiedEntries
<1> HIDE DEF delta
<1>6. /\ MapsOK(M1)
      /\ DOMAIN M1.by_id = Ids(base) \ Ids(delta.removed)
      /\ \A i \in Ids(base) \ Ids(delta.removed) : M1.by_id[i] = maps.by_id[i]
      /\ \A p \in DOMAIN maps.by_path : (\A e \in delta.removed : e.path # p) =>
           p \in DOMAIN M1.by_path /\ M1.by_path[p] = maps.by_path[p]
  BY <1>1, <1>2, RemovalsKeepMaps
<1> HIDE DEF M1
<1>7. /\ MapsOK(M2)
      /\ DOMAIN M2.by_id = DOMAIN M1.by_id \cup Ids(delta.added)
      /\ \A i \in DOMAIN M1.by_id : M2.by_id[i] = M1.by_id[i]
      /\ \A e \in delta.added :
           /\ M2.by_id[e.id] = e
           /\ e.path \in DOMAIN M2.by_path /\ M2.by_path[e.path] = e.id
      /\ \A p \in DOMAIN M1.by_path : (\A e \in delta.added : e.path # p) =>
           p \in DOMAIN M2.by_path /\ M2.by_path[p] = M1.by_path[p]
  <2>1. \A e \in delta.added : e.id \notin DOMAIN M1.by_id
    BY <1>3, <1>6
  <2>2. QED
    BY <1>4, <1>6, <2>1, AdditionsKeepMaps
<1> HIDE DEF M2
<1>8. /\ MapsOK(M3)
      /\ M3.by_path = M2.by_path
      /\ DOMAIN M3.by_id = DOMAIN M2.by_id
      /\ \A i \in DOMAIN M2.by_id :
           /\ i \notin Ids(delta.modified) => M3.by_id[i] = M2.by_id[i]
           /\ \A m \in delta.modified : m.id = i =>
                M3.by_id[i] = [M2.by_id[i] EXCEPT !.meta = m.after]
  BY <1>5, <1>7, ModificationsKeepMaps
<1> HIDE DEF M3
<1>9. DOMAIN M3.by_id = (Ids(base) \ Ids(delta.removed)) \cup Ids(delta.added)
  BY <1>6, <1>7, <1>8
<1>10. ASSUME NEW e \in delta.added
       PROVE  /\ M3.by_id[e.id] = e
              /\ e.path \in DOMAIN M3.by_path /\ M3.by_path[e.path] = e.id
  <2>1. e.id \notin Ids(delta.modified)
    BY <1>3, <1>5, IdsOf
  <2>2. e.id \in DOMAIN M2.by_id
    BY <1>7, IdsOf
  <2>3. QED
    BY <1>7, <1>8, <2>1, <2>2
<1>11. ASSUME NEW b \in base, b \notin delta.removed
       PROVE  /\ M3.by_id[b.id].id = b.id /\ M3.by_id[b.id].path = b.path
              /\ M3.by_id[b.id].parent = maps.by_id[b.id].parent
              /\ b.id \notin Ids(target) => M3.by_id[b.id] = maps.by_id[b.id]
              /\ \A e \in target : e.id = b.id =>
                   /\ M3.by_id[b.id].meta.stamp = e.meta.stamp
                   /\ posix_ /\ e.id \in Inodes => M3.by_id[b.id].meta = e.meta
  <2>1. b.id \in Ids(base) \ Ids(delta.removed)
    BY <1>1, <1>3, <1>11
  <2>2. b.id \in DOMAIN M2.by_id /\ M2.by_id[b.id] = maps.by_id[b.id]
    BY <1>6, <1>7, <2>1
  <2>3. CASE b.id \in Ids(delta.modified)
    <3>1. PICK m \in delta.modified : m.id = b.id
      BY <2>3, IdsOf
    <3>2. M3.by_id[b.id] = [maps.by_id[b.id] EXCEPT !.meta = m.after]
      BY <1>8, <2>2, <3>1
    <3>3. maps.by_id[b.id] \in Entries
      BY <1>1 DEF MapsOK
    <3>4. /\ M3.by_id[b.id].id = b.id /\ M3.by_id[b.id].path = b.path
          /\ M3.by_id[b.id].meta = m.after
          /\ M3.by_id[b.id].parent = maps.by_id[b.id].parent
      BY <1>1, <3>2, <3>3 DEF Entries
    <3>5. b.id \in Ids(target) /\ \A e \in target : e.id = b.id => e.meta = m.after
      BY <1>5, <3>1
    <3>6. QED
      BY <3>4, <3>5
  <2>4. CASE b.id \notin Ids(delta.modified)
    <3>1. M3.by_id[b.id] = maps.by_id[b.id]
      BY <1>8, <2>2, <2>4
    <3>2. \A e \in target : e.id = b.id => e.meta = b.meta
      BY <1>5, <2>4
    <3>3. QED
      BY <1>1, <3>1, <3>2
  <2>5. QED
    BY <2>3, <2>4
<1>12. ASSUME NEW b \in base, b \notin delta.removed, b.path \in DOMAIN maps.by_path,
              \A e \in delta.added : e.path # b.path
       PROVE  b.path \in DOMAIN M3.by_path /\ M3.by_path[b.path] = maps.by_path[b.path]
  <2>1. \A e \in delta.removed : e.path # b.path
    BY <1>2, <1>12 DEF IsSnapshot
  <2>2. QED
    BY <1>6, <1>7, <1>8, <1>12, <2>1
<1>13. M3 = Prepared(maps, delta)
  BY DEF Prepared, M1, M2, M3
<1>14. QED
  BY <1>8, <1>9, <1>10, <1>11, <1>12, <1>13 DEF delta

\* The renames of a computed delta meet what its loop relies on.
LEMMA PreparedRenames ==
  ASSUME NEW base, NEW target, IsSnapshot(base), IsSnapshot(target), NEW maps,
         DOMAIN maps.by_id = (Ids(base) \ Ids(Compute(base, target).removed))
                               \cup Ids(Compute(base, target).added),
         \A b \in base : b \notin Compute(base, target).removed =>
           maps.by_id[b.id].path = b.path
  PROVE  RenamesOK(maps, Compute(base, target).renamed)
<1> DEFINE delta == Compute(base, target)
<1>1. ASSUME NEW r \in delta.renamed
      PROVE  /\ r.before_id \in DOMAIN maps.by_id
             /\ r.after_id \in DOMAIN maps.by_id => r.after_id = r.before_id
             /\ r.after_id \in EntryIds /\ r.new_path \in Paths /\ r.old_path \in Paths
             /\ maps.by_id[r.before_id].path = r.old_path
  <2>1. PICK pair \in RenamedPairs(base, target) : r = Rename(pair)
    BY ComputedParts
  <2>2. /\ pair[1] \in base /\ pair[2] \in target
        /\ pair[1].id \in Ids(target) => pair[1].id = pair[2].id
        /\ pair[2].id \in Ids(base) => pair[1].id = pair[2].id
    BY RenamedOnce
  <2>3. /\ r.before_id = pair[1].id /\ r.after_id = pair[2].id
        /\ r.old_path = pair[1].path /\ r.new_path = pair[2].path
    BY <2>1, RenameFields
  <2>4. pair[1] \in Entries /\ pair[2] \in Entries
    BY <2>2 DEF IsSnapshot
  <2>5. r.after_id \in EntryIds /\ r.new_path \in Paths /\ r.old_path \in Paths
    BY <2>3, <2>4 DEF Entries
  <2>6. pair[1].id \notin Ids(delta.removed) /\ pair[1].id \in Ids(base)
    BY <2>2, BaseEntries, IdsOf
  <2>7. pair[2].id \notin Ids(delta.added)
    BY <2>2, TargetEntries
  <2>8. maps.by_id[pair[1].id].path = pair[1].path
    BY <2>2, BaseEntries
  <2>9. QED
    BY <2>2, <2>3, <2>5, <2>6, <2>7, <2>8
<1>2. \A r, q \in delta.renamed :
        (\/ r.before_id = q.before_id \/ r.after_id = q.after_id
         \/ r.old_path = q.old_path \/ r.new_path = q.new_path) => r = q
  BY RenamesAreDistinct
<1> HIDE DEF delta
<1>3. RenamesOK(maps, delta.renamed)
  BY <1>1, <1>2 DEF RenamesOK
<1>4. QED
  BY <1>3 DEF delta

\* The entry that is shown for e, with its id, its path and its metadata.
IsShown(posix_, shown, e) ==
  /\ shown.id = e.id /\ shown.path = e.path
  /\ shown.meta.stamp = e.meta.stamp
  /\ posix_ /\ e.id \in Inodes => shown.meta = e.meta

\* The heuristic pairs entries with the stamp that the fingerprint has; with
\* inodes it never gets to the link whose id is the inode.
LEMMA MovedEntries ==
  ASSUME NEW posix_ \in BOOLEAN, NEW base, NEW target,
         IsSnapshot(base), IsSnapshot(target),
         posix_ => HasFirstLinks(base) /\ HasFirstLinks(target),
         NEW pair \in Moved(base, target)
  PROVE  /\ pair[1] \in base /\ pair[2] \in target /\ pair \in RenamedPairs(base, target)
         /\ pair[1].id \notin Ids(target) /\ pair[2].id \notin Ids(base)
         /\ pair[1].meta.stamp = pair[2].meta.stamp
         /\ posix_ => pair[2].id \notin Inodes
<1>1. /\ pair[1] \in Unmatched(base, target) /\ pair[2] \in Unmatched(target, base)
      /\ Fingerprint(pair[1]) = Fingerprint(pair[2])
  BY MovedPairs
<1>2. /\ pair[1] \in base /\ pair[2] \in target
      /\ pair[1].id \notin Ids(target) /\ pair[2].id \notin Ids(base)
  BY <1>1 DEF Unmatched
<1>3. pair[1].inode = pair[2].inode /\ pair[1].meta.stamp = pair[2].meta.stamp
  BY <1>1 DEF Fingerprint
<1>4. ASSUME posix_ = TRUE, pair[2].id \in Inodes PROVE FALSE
  <2>1. pair[2].id = pair[2].inode
    BY <1>2, <1>4 DEF HasFirstLinks
  <2>2. PICK f \in base : f.id = pair[1].inode
    BY <1>2, <1>4 DEF HasFirstLinks
  <2>3. pair[2].id \in Ids(base)
    BY <1>3, <2>1, <2>2, IdsOf
  <2>4. QED
    BY <1>2, <2>3
<1>5. QED
  BY <1>2, <1>3, <1>4 DEF RenamedPairs

\* Renames start at entries that moved, and at no other.
LEMMA BeforeIds ==
  ASSUME NEW base, NEW target, IsSnapshot(base), IsSnapshot(target),
         NEW r \in Compute(base, target).renamed
  PROVE  /\ r.before_id \in Ids(base) /\ r.after_id \in Ids(target)
         /\ \A b \in base, e \in target :
              b.id = e.id /\ r.before_id = b.id => b.path # e.path
<1>1. PICK pair \in RenamedPairs(base, target) : r = Rename(pair)
  BY ComputedParts
<1>2. /\ pair[1] \in base /\ pair[2] \in target
      /\ r.before_id = pair[1].id /\ r.after_id = pair[2].id
  BY <1>1, RenamedOnce, RenameFields
<1>3. ASSUME NEW b \in base, NEW e \in target, b.id = e.id, r.before_id = b.id
      PROVE  b.path # e.path
  <2>1. pair[1] = b
    BY <1>2, <1>3 DEF IsSnapshot
  <2>2. pair[1].id \in Ids(target)
    BY <1>3, <2>1, IdsOf
  <2>3. pair[2] = e
    BY <1>2, <1>3, <2>1, <2>2, RenamedOnce DEF IsSnapshot
  <2>4. pair \notin Moved(base, target)
    BY <2>2, MovedPairs DEF Unmatched
  <2>5. pair[1].path # pair[2].path
    BY <2>4 DEF RenamedPairs
  <2>6. QED
    BY <2>1, <2>3, <2>5
<1>4. QED
  BY <1>2, <1>3, IdsOf

\* The maps that show the base show the target after the loops of apply_delta.
LEMMA AppliedDelta ==
  ASSUME NEW posix_ \in BOOLEAN, NEW base, NEW target,
         IsSnapshot(base), IsSnapshot(target),
         posix_ => HasFirstLinks(base) /\ HasFirstLinks(target),
         NEW maps, MapsOK(maps), Shows(posix_, maps.by_id, base)
  PROVE  /\ MapsOK(Applied(maps, Compute(base, target)))
         /\ Shows(posix_, Applied(maps, Compute(base, target)).by_id, target)
<1> DEFINE delta == Compute(base, target)
           M3 == Prepared(maps, delta)
           M4 == AfterRenames(M3, delta)
           M5 == AfterReparenting(M4, delta)
<1>1. /\ MapsOK(M3)
      /\ DOMAIN M3.by_id = (Ids(base) \ Ids(delta.removed)) \cup Ids(delta.added)
      /\ \A e \in delta.added : M3.by_id[e.id] = e
      /\ \A b \in base : b \notin delta.removed =>
           /\ M3.by_id[b.id].id = b.id /\ M3.by_id[b.id].path = b.path
           /\ b.id \notin Ids(target) => M3.by_id[b.id] = maps.by_id[b.id]
           /\ \A e \in target : e.id = b.id =>
                /\ M3.by_id[b.id].meta.stamp = e.meta.stamp
                /\ posix_ /\ e.id \in Inodes => M3.by_id[b.id].meta = e.meta
  BY PreparedMaps
<1>2. RenamesOK(M3, delta.renamed)
  BY <1>1, PreparedRenames
<1>3. delta.added \in SUBSET target
  BY ComputedParts DEF Unmatched
<1>4. /\ \A b \in base : /\ b.id \in Ids(delta.removed) <=> b \in delta.removed
                         /\ b \in delta.removed => b.id \notin Ids(target)
                         /\ b.id \notin Ids(target) /\ b \notin delta.removed =>
                              \E pair \in Moved(base, target) : pair[1] = b
      /\ \A b \in base, pair \in RenamedPairs(base, target) :
           pair[1] = b => b \notin delta.removed
  BY BaseEntries
<1>5. \A e \in target :
        /\ e \in delta.added => e.id \notin Ids(base)
        /\ e.id \notin Ids(base) /\ e \notin delta.added =>
             \E pair \in Moved(base, target) : pair[2] = e
  BY TargetEntries
<1>6. \A pair \in RenamedPairs(base, target) :
        Rename(pair) \in delta.renamed
  BY ComputedParts
<1>7. \A r \in delta.renamed :
        /\ r.before_id \in Ids(base) /\ r.after_id \in Ids(target)
        /\ \A b \in base, e \in target :
             b.id = e.id /\ r.before_id = b.id => b.path # e.path
  BY BeforeIds
<1>8. Applied(maps, delta) = M5
  BY DEF Applied, Prepared
<1> HIDE DEF delta, M3
<1>9. /\ MapsOK(M4)
      /\ DOMAIN M4.by_id = (DOMAIN M3.by_id \ {r.before_id : r \in delta.renamed})
                             \cup {r.after_id : r \in delta.renamed}
      /\ \A r \in delta.renamed : M4.by_id[r.after_id] = RenamedEntry(M3.by_id[r.before_id], r)
      /\ \A i \in DOMAIN M3.by_id :
           (\A r \in delta.renamed : r.before_id # i) => M4.by_id[i] = M3.by_id[i]
  <2>1. AreDone(M4, M3, delta.renamed)
    BY <1>1, <1>2, RenamesAreDone
  <2> HIDE DEF M4
  <2>2. QED
    BY <2>1 DEF AreDone
<1> HIDE DEF M4
<1>10. /\ MapsOK(M5)
       /\ DOMAIN M5.by_id = DOMAIN M4.by_id
       /\ \A i \in DOMAIN M4.by_id :
            LET e == M5.by_id[i] IN
            /\ e.id = M4.by_id[i].id /\ e.path = M4.by_id[i].path
            /\ e.inode = M4.by_id[i].inode /\ e.meta = M4.by_id[i].meta
  BY <1>9, ReparentingKeepsMaps
<1> HIDE DEF M5
<1>11. ASSUME NEW pair \in RenamedPairs(base, target)
       PROVE  /\ pair[2].id \in DOMAIN M4.by_id
              /\ M4.by_id[pair[2].id].id = pair[2].id
              /\ M4.by_id[pair[2].id].path = pair[2].path
              /\ M4.by_id[pair[2].id].meta = M3.by_id[pair[1].id].meta
  <2> DEFINE r == Rename(pair)
  <2>1. r.after_id = pair[2].id /\ r.before_id = pair[1].id /\ r.new_path = pair[2].path
    BY RenameFields
  <2>2. r \in delta.renamed
    BY <1>6
  <2> HIDE DEF r
  <2>3. r.before_id \in DOMAIN M3.by_id
    BY <1>2, <2>2 DEF RenamesOK
  <2>4. M3.by_id[r.before_id] \in Entries
    BY <1>1, <2>3 DEF MapsOK
  <2>5. M4.by_id[r.after_id] = RenamedEntry(M3.by_id[r.before_id], r)
    BY <1>9, <2>2
  <2>6. /\ M4.by_id[r.after_id].id = r.after_id
        /\ M4.by_id[r.after_id].path = r.new_path
        /\ M4.by_id[r.after_id].meta = M3.by_id[r.before_id].meta
    BY <2>4, <2>5 DEF RenamedEntry, Entries
  <2>7. r.after_id \in DOMAIN M4.by_id
    BY <1>9, <2>2
  <2>8. QED
    BY <2>1, <2>6, <2>7
<1>12. ASSUME NEW e \in target
       PROVE  e.id \in DOMAIN M4.by_id /\ IsShown(posix_, M4.by_id[e.id], e)
  <2>1. CASE e.id \in Ids(base)
    <3>1. PICK b \in base : b.id = e.id
      BY <2>1, IdsOf
    <3>2. b \notin delta.removed
      BY <1>4, <3>1, IdsOf
    <3>3. /\ M3.by_id[b.id].id = b.id /\ M3.by_id[b.id].path = b.path
          /\ M3.by_id[b.id].meta.stamp = e.meta.stamp
          /\ posix_ /\ e.id \in Inodes => M3.by_id[b.id].meta = e.meta
      BY <1>1, <3>1, <3>2
    <3>4. CASE b.path = e.path
      <4>1. \A r \in delta.renamed : r.before_id # b.id
        BY <1>7, <3>1, <3>4
      <4>2. b.id \in DOMAIN M3.by_id
        BY <1>1, <1>4, <2>1, <3>1, <3>2
      <4>3. b.id \in DOMAIN M4.by_id /\ M4.by_id[b.id] = M3.by_id[b.id]
        BY <1>9, <4>1, <4>2
      <4>4. QED
        BY <3>1, <3>3, <3>4, <4>3 DEF IsShown
    <3>5. CASE b.path # e.path
      <4> DEFINE pair == <<b, e>>
      <4>1. pair[1] = b /\ pair[2] = e
        OBVIOUS
      <4>2. pair \in RenamedPairs(base, target)
        BY <3>1, <3>5 DEF RenamedPairs, ById
      <4> HIDE DEF pair
      <4>3. QED
        BY <1>11, <3>1, <3>3, <4>1, <4>2 DEF IsShown
    <3>6. QED
      BY <3>4, <3>5
  <2>2. CASE e \in delta.added
    <3>1. e.id \notin Ids(base) /\ e.id \in DOMAIN M3.by_id
      BY <1>1, <1>5, <2>2, IdsOf
    <3>2. \A r \in delta.renamed : r.before_id # e.id
      BY <1>7, <3>1
    <3>3. e.id \in DOMAIN M4.by_id /\ M4.by_id[e.id] = e
      BY <1>1, <1>9, <2>2, <3>1, <3>2
    <3>4. QED
      BY <3>3 DEF IsShown
  <2>3. CASE e.id \notin Ids(base) /\ e \notin delta.added
    <3>1. PICK pair \in Moved(base, target) : pair[2] = e
      BY <1>5, <2>3
    <3>2. /\ pair[1] \in base /\ pair \in RenamedPairs(base, target)
          /\ pair[1].id \notin Ids(target)
          /\ pair[1].meta.stamp = e.meta.stamp
          /\ posix_ => e.id \notin Inodes
      BY <3>1, MovedEntries
    <3>3. M3.by_id[pair[1].id] = maps.by_id[pair[1].id]
      BY <1>1, <1>4, <3>2
    <3>4. maps.by_id[pair[1].id].meta.stamp = pair[1].meta.stamp
      BY <3>2 DEF Shows
    <3>5. QED
      BY <1>11, <3>1, <3>2, <3>3, <3>4 DEF IsShown
  <2>4. QED
    BY <2>1, <2>2, <2>3
<1>13. ASSUME NEW i \in DOMAIN M4.by_id PROVE i \in Ids(target)
  <2>1. CASE i \in {r.after_id : r \in delta.renamed}
    BY <1>7, <2>1
  <2>2. CASE i \in Ids(delta.added)
    BY <1>3, <2>2, IdsOf
  <2>3. CASE i \in Ids(base) \ Ids(delta.removed) /\ i \notin {r.before_id : r \in delta.renamed}
    <3> SUFFICES ASSUME i \notin Ids(target) PROVE FALSE
      OBVIOUS
    <3>1. PICK b \in base : b.id = i
      BY <2>3, IdsOf
    <3>2. PICK pair \in Moved(base, target) : pair[1] = b
      BY <1>4, <2>3, <3>1
    <3>3. Rename(pair) \in delta.renamed /\ Rename(pair).before_id = i
      BY <1>6, <3>1, <3>2, RenameFields DEF RenamedPairs
    <3>4. QED
      BY <2>3, <3>3
  <2>4. QED
    BY <1>1, <1>9, <2>1, <2>2, <2>3
<1>14. Shows(posix_, M5.by_id, target)
  <2>1. DOMAIN M5.by_id = Ids(target)
    <3>1. \A i \in Ids(target) : i \in DOMAIN M4.by_id
      BY <1>12, IdsOf
    <3>2. QED
      BY <1>10, <1>13, <3>1
  <2>2. QED
    BY <1>10, <1>12, <2>1 DEF Shows, IsShown
<1>15. QED
  BY <1>8, <1>10, <1>14 DEF delta

-----------------------------------------------------------------------------
(***************************************************************************)
(* Navigation after a delta.                                               *)
(***************************************************************************)

\* PathsLead and ParentsAreShown, of any maps.
Leads(by_path, entries) ==
  \A e \in entries : e.path \in DOMAIN by_path /\ by_path[e.path] = e.id

Hang(by_id, entries) == \A e \in entries : by_id[e.id].parent = e.parent

\* The scanned directory is there, and the parent of everything else.
HasParents(entries) ==
  /\ \E e \in entries : e.path = Root /\ e.id = Root
  /\ \A e \in entries : e.path # Root =>
       \E f \in entries : f.path = ParentPath[e.path] /\ f.id = e.parent

LEMMA EntriesHaveParents ==
  ASSUME NEW posix_ \in BOOLEAN, NEW tree, IsTree(tree)
  PROVE  HasParents(EntriesOf(posix_, tree))
<1> DEFINE E == EntriesOf(posix_, tree)
<1>1. \A p \in DOMAIN tree : EntryAt(posix_, tree, p) \in E
  BY EntriesAreAtPaths
<1>2. \A p : /\ EntryAt(posix_, tree, p).path = p
             /\ EntryAt(posix_, tree, p).id = StableId(posix_, tree, p)
             /\ p # Root => EntryAt(posix_, tree, p).parent
                              = StableId(posix_, tree, ParentPath[p])
  BY DEF EntryAt
<1>3. /\ Root \in DOMAIN tree /\ tree[Root].inode = Root
      /\ \A p \in DOMAIN tree \ {Root} : ParentPath[p] \in DOMAIN tree
      /\ \A p, q \in DOMAIN tree : p # q /\ tree[p].inode = tree[q].inode =>
           p \in Leaves /\ q \in Leaves
      /\ DOMAIN tree \subseteq Paths
  BY DEF IsTree
<1>4. StableId(posix_, tree, Root) = Root
  <2>1. Root \notin Leaves
    BY DEF Leaves
  <2>2. \A q \in DOMAIN tree : q < Root => q # Root
    BY <1>3, KeyBounds
  <2>3. ~ \E q \in DOMAIN tree : q < Root /\ tree[q].inode = tree[Root].inode
    BY <1>3, <2>1, <2>2
  <2>4. QED
    BY <1>3, <2>3 DEF StableId
<1>5. \E e \in E : e.path = Root /\ e.id = Root
  BY <1>1, <1>2, <1>3, <1>4
<1>6. ASSUME NEW e \in E, e.path # Root
      PROVE  \E f \in E : f.path = ParentPath[e.path] /\ f.id = e.parent
  <2>1. PICK p \in DOMAIN tree : e = EntryAt(posix_, tree, p)
    BY EntriesAreAtPaths
  <2>2. p # Root /\ e.path = p /\ e.parent = StableId(posix_, tree, ParentPath[p])
    BY <1>2, <1>6, <2>1
  <2>3. ParentPath[p] \in DOMAIN tree
    BY <1>3, <2>2
  <2>4. QED
    BY <1>1, <1>2, <2>2, <2>3
<1>7. QED
  BY <1>5, <1>6 DEF HasParents

\* The scanned directory is never renamed.
LEMMA RootStays ==
  ASSUME NEW base, NEW target, IsSnapshot(base), IsSnapshot(target),
         HasParents(base), HasParents(target), NEW pair \in RenamedPairs(base, target)
  PROVE  pair[2].path # Root
<1> SUFFICES ASSUME pair[2].path = Root PROVE FALSE
  OBVIOUS
<1>1. /\ pair[1] \in base /\ pair[2] \in target
      /\ pair[2].id \in Ids(base) => pair[1].id = pair[2].id
  BY RenamedOnce
<1>2. PICK e \in target : e.path = Root /\ e.id = Root
  BY DEF HasParents
<1>3. PICK b \in base : b.path = Root /\ b.id = Root
  BY DEF HasParents
<1>4. pair[2].id = Root
  BY <1>1, <1>2 DEF IsSnapshot
<1>5. pair[2].id \in Ids(base)
  BY <1>3, <1>4, IdsOf
<1>6. pair[1] = b
  BY <1>1, <1>3, <1>4, <1>5 DEF IsSnapshot
<1>7. pair \notin Moved(base, target)
  BY <1>5, MovedPairs DEF Unmatched
<1>8. pair[1].path # pair[2].path
  BY <1>7 DEF RenamedPairs
<1>9. QED
  BY <1>3, <1>6, <1>8

\* Without one of the two known causes, a delta leaves the tree navigable.
LEMMA AppliedNavigation ==
  ASSUME NEW posix_ \in BOOLEAN, NEW base, NEW target,
         IsSnapshot(base), IsSnapshot(target), HasParents(base), HasParents(target),
         NEW maps, MapsOK(maps), Shows(posix_, maps.by_id, base),
         Leads(maps.by_path, base), Hang(maps.by_id, base),
         ~TakesOver(base, target), ~ReplacesParent(base, target)
  PROVE  /\ Leads(Applied(maps, Compute(base, target)).by_path, target)
         /\ Hang(Applied(maps, Compute(base, target)).by_id, target)
<1> DEFINE delta == Compute(base, target)
           M3 == Prepared(maps, delta)
           M4 == AfterRenames(M3, delta)
           M5 == AfterReparenting(M4, delta)
<1>1. /\ MapsOK(M3)
      /\ DOMAIN M3.by_id = (Ids(base) \ Ids(delta.removed)) \cup Ids(delta.added)
      /\ \A e \in delta.added :
           /\ M3.by_id[e.id] = e
           /\ e.path \in DOMAIN M3.by_path /\ M3.by_path[e.path] = e.id
      /\ \A b \in base : b \notin delta.removed =>
           /\ M3.by_id[b.id].path = b.path
           /\ M3.by_id[b.id].parent = maps.by_id[b.id].parent
           /\ b.path \in DOMAIN maps.by_path /\ (\A e \in delta.added : e.path # b.path) =>
                /\ b.path \in DOMAIN M3.by_path
                /\ M3.by_path[b.path] = maps.by_path[b.path]
  BY PreparedMaps
<1>2. RenamesOK(M3, delta.renamed)
  BY <1>1, PreparedRenames
<1>3. delta.added \in SUBSET target
  BY ComputedParts DEF Unmatched
<1>4. \A b \in base : /\ b.id \in Ids(delta.removed) <=> b \in delta.removed
                      /\ b \in delta.removed => b.id \notin Ids(target)
  BY BaseEntries
<1>5. \A e \in target :
        /\ e \in delta.added => e.id \notin Ids(base)
        /\ e.id \notin Ids(base) /\ e \notin delta.added =>
             \E pair \in Moved(base, target) : pair[2] = e
  BY TargetEntries
<1>6. \A r \in delta.renamed : \E pair \in RenamedPairs(base, target) :
        /\ r = Rename(pair) /\ pair[2] \in target /\ pair[2].path # Root
        /\ r.after_id = pair[2].id /\ r.new_path = pair[2].path
  <2> SUFFICES ASSUME NEW r \in delta.renamed
               PROVE  \E pair \in RenamedPairs(base, target) :
                        /\ r = Rename(pair) /\ pair[2] \in target /\ pair[2].path # Root
                        /\ r.after_id = pair[2].id /\ r.new_path = pair[2].path
    OBVIOUS
  <2>1. PICK pair \in RenamedPairs(base, target) : r = Rename(pair)
    BY ComputedParts
  <2>2. pair[2] \in target /\ pair[2].path # Root
    BY RenamedOnce, RootStays
  <2>3. r.after_id = pair[2].id /\ r.new_path = pair[2].path
    BY <2>1, RenameFields
  <2>4. QED
    BY <2>1, <2>2, <2>3
<1>7. \A r \in delta.renamed :
        /\ r.before_id \in Ids(base)
        /\ \A b \in base, e \in target :
             b.id = e.id /\ r.before_id = b.id => b.path # e.path
  BY BeforeIds
<1>8. \A r \in delta.renamed, e \in target : r.old_path # e.path
  BY DEF TakesOver
<1>9. \A pair \in RenamedPairs(base, target) :
        Rename(pair) \in delta.renamed /\ Rename(pair).after_id = pair[2].id
  BY ComputedParts, RenameFields
<1>10. Applied(maps, delta) = M5
  BY DEF Applied, Prepared
<1> HIDE DEF delta, M3
<1>11. /\ MapsOK(M4)
       /\ DOMAIN M4.by_id = (DOMAIN M3.by_id \ {r.before_id : r \in delta.renamed})
                              \cup {r.after_id : r \in delta.renamed}
       /\ \A r \in delta.renamed : M4.by_id[r.after_id] = RenamedEntry(M3.by_id[r.before_id], r)
       /\ \A i \in DOMAIN M3.by_id :
            (\A r \in delta.renamed : r.before_id # i) => M4.by_id[i] = M3.by_id[i]
       /\ \A r \in delta.renamed : (\A q \in delta.renamed : q.old_path # r.new_path) =>
            r.new_path \in DOMAIN M4.by_path /\ M4.by_path[r.new_path] = r.after_id
       /\ \A p \in DOMAIN M3.by_path :
            (\A r \in delta.renamed : r.old_path # p /\ r.new_path # p) =>
              p \in DOMAIN M4.by_path /\ M4.by_path[p] = M3.by_path[p]
  <2>1. AreDone(M4, M3, delta.renamed)
    BY <1>1, <1>2, RenamesAreDone
  <2> HIDE DEF M4
  <2>2. QED
    BY <2>1 DEF AreDone
<1> HIDE DEF M4
<1>12. ASSUME NEW i \in DOMAIN M4.by_id
       PROVE  /\ M5.by_path = M4.by_path
              /\ (\A r \in delta.renamed : r.after_id # i) =>
                   M5.by_id[i].parent = M4.by_id[i].parent
              /\ \A r \in delta.renamed :
                   /\ r.after_id = i /\ M4.by_id[i].path # Root
                   /\ ParentPath[M4.by_id[i].path] \in DOMAIN M4.by_path
                   => M5.by_id[i].parent = M4.by_path[ParentPath[M4.by_id[i].path]]
  <2>1. MapsOK(M4)
    BY <1>11
  <2>2. M5.by_path = M4.by_path
    BY <2>1, ReparentedEntry
  <2>3. (\A r \in delta.renamed : r.after_id # i) => M5.by_id[i].parent = M4.by_id[i].parent
    BY <2>1, ReparentedEntry
  <2>4. ASSUME NEW r \in delta.renamed, r.after_id = i, M4.by_id[i].path # Root,
               ParentPath[M4.by_id[i].path] \in DOMAIN M4.by_path
        PROVE  M5.by_id[i].parent = M4.by_path[ParentPath[M4.by_id[i].path]]
    BY <2>1, <2>4, ReparentedEntry
  <2>5. QED
    BY <2>2, <2>3, <2>4
<1> HIDE DEF M5
<1>13. ASSUME NEW e \in target, \A r \in delta.renamed : r.after_id # e.id
       PROVE  /\ e.path \in DOMAIN M4.by_path /\ M4.by_path[e.path] = e.id
              /\ e.id \in DOMAIN M4.by_id /\ M4.by_id[e.id].parent = e.parent
  <2>1. ASSUME NEW r \in delta.renamed PROVE r.old_path # e.path /\ r.new_path # e.path
    <3>1. PICK pair \in RenamedPairs(base, target) :
            pair[2] \in target /\ r.after_id = pair[2].id /\ r.new_path = pair[2].path
      BY <1>6
    <3>2. pair[2] # e
      BY <1>13, <3>1
    <3>3. QED
      BY <1>8, <3>1, <3>2 DEF IsSnapshot
  <2>2. CASE e \in delta.added
    <3>1. e.id \notin Ids(base) /\ e.id \in DOMAIN M3.by_id
      BY <1>1, <1>5, <2>2, IdsOf
    <3>2. \A r \in delta.renamed : r.before_id # e.id
      BY <1>7, <3>1
    <3>3. e.id \in DOMAIN M4.by_id /\ M4.by_id[e.id] = e
      BY <1>1, <1>11, <2>2, <3>1, <3>2
    <3>4. e.path \in DOMAIN M4.by_path /\ M4.by_path[e.path] = e.id
      BY <1>1, <1>11, <2>1, <2>2
    <3>5. QED
      BY <3>3, <3>4
  <2>3. CASE e \notin delta.added
    <3>1. e.id \in Ids(base)
      <4> SUFFICES ASSUME e.id \notin Ids(base) PROVE FALSE
        OBVIOUS
      <4>1. PICK pair \in Moved(base, target) : pair[2] = e
        BY <1>5, <2>3
      <4>2. pair \in RenamedPairs(base, target)
        BY DEF RenamedPairs
      <4>3. QED
        BY <1>9, <1>13, <4>1, <4>2
    <3>2. PICK b \in base : b.id = e.id
      BY <3>1, IdsOf
    <3>3. b.path = e.path
      <4> SUFFICES ASSUME b.path # e.path PROVE FALSE
        OBVIOUS
      <4> DEFINE pair == <<b, e>>
      <4>1. pair[2] = e
        OBVIOUS
      <4>2. pair \in RenamedPairs(base, target)
        BY <3>2 DEF RenamedPairs, ById
      <4> HIDE DEF pair
      <4>3. QED
        BY <1>9, <1>13, <4>1, <4>2
    <3>4. b \notin delta.removed
      BY <1>4, <3>2, IdsOf
    <3>5. \A a \in delta.added : a.path # b.path
      BY <1>3, <2>3, <3>3 DEF IsSnapshot
    <3>6. b.path \in DOMAIN maps.by_path /\ maps.by_path[b.path] = b.id
      BY DEF Leads
    <3>7. b.path \in DOMAIN M3.by_path /\ M3.by_path[b.path] = b.id
      BY <1>1, <3>4, <3>5, <3>6
    <3>8. e.path \in DOMAIN M4.by_path /\ M4.by_path[e.path] = e.id
      BY <1>11, <2>1, <3>2, <3>3, <3>7
    <3>9. b.id \in DOMAIN M3.by_id /\ \A r \in delta.renamed : r.before_id # b.id
      BY <1>1, <1>4, <1>7, <3>1, <3>2, <3>3, <3>4
    <3>10. b.id \in DOMAIN M4.by_id /\ M4.by_id[b.id] = M3.by_id[b.id]
      BY <1>11, <3>9
    <3>11. M3.by_id[b.id].parent = b.parent
      BY <1>1, <3>4 DEF Hang
    <3>12. b.parent = e.parent
      BY <3>2, <3>3 DEF ReplacesParent
    <3>13. QED
      BY <3>2, <3>8, <3>10, <3>11, <3>12
  <2>4. QED
    BY <2>2, <2>3
<1>14. ASSUME NEW e \in target, NEW r \in delta.renamed, r.after_id = e.id
       PROVE  /\ e.path \in DOMAIN M4.by_path /\ M4.by_path[e.path] = e.id
              /\ e.id \in DOMAIN M4.by_id /\ M4.by_id[e.id].path = e.path
              /\ e.path # Root
  <2>1. r.new_path = e.path /\ e.path # Root
    <3>1. PICK pair \in RenamedPairs(base, target) :
            /\ pair[2] \in target /\ pair[2].path # Root
            /\ r.after_id = pair[2].id /\ r.new_path = pair[2].path
      BY <1>6
    <3>2. pair[2] = e
      BY <1>14, <3>1 DEF IsSnapshot
    <3>3. QED
      BY <3>1, <3>2
  <2>2. e.path \in DOMAIN M4.by_path /\ M4.by_path[e.path] = e.id
    BY <1>8, <1>11, <1>14, <2>1
  <2>3. M3.by_id[r.before_id] \in Entries
    BY <1>1, <1>2 DEF MapsOK, RenamesOK
  <2>4. M4.by_id[r.after_id] = RenamedEntry(M3.by_id[r.before_id], r)
    BY <1>11
  <2>5. M4.by_id[e.id].path = e.path
    BY <1>14, <2>1, <2>3, <2>4 DEF RenamedEntry, Entries
  <2>6. e.id \in DOMAIN M4.by_id
    BY <1>11, <1>14
  <2>7. QED
    BY <2>1, <2>2, <2>5, <2>6
<1>15. ASSUME NEW e \in target
       PROVE  e.path \in DOMAIN M5.by_path /\ M5.by_path[e.path] = e.id
  BY <1>12, <1>13, <1>14
<1>16. ASSUME NEW e \in target PROVE M5.by_id[e.id].parent = e.parent
  <2>1. CASE \A r \in delta.renamed : r.after_id # e.id
    BY <1>12, <1>13, <2>1
  <2>2. CASE \E r \in delta.renamed : r.after_id = e.id
    <3>1. PICK r \in delta.renamed : r.after_id = e.id
      BY <2>2
    <3>2. e.id \in DOMAIN M4.by_id /\ M4.by_id[e.id].path = e.path /\ e.path # Root
      BY <1>14, <3>1
    <3>3. PICK f \in target : f.path = ParentPath[e.path] /\ f.id = e.parent
      BY <3>2 DEF HasParents
    <3>4. ParentPath[e.path] \in DOMAIN M4.by_path /\ M4.by_path[ParentPath[e.path]] = e.parent
      BY <1>13, <1>14, <3>3
    <3>5. QED
      BY <1>12, <3>1, <3>2, <3>4
  <2>3. QED
    BY <2>1, <2>2
<1>17. QED
  BY <1>10, <1>15, <1>16 DEF delta, Leads, Hang

-----------------------------------------------------------------------------
(***************************************************************************)
(* The sink.                                                               *)
(***************************************************************************)

\* Records name captures that are stored.
LogOK(records, n) ==
  /\ records \in Seq(LogRecords)
  /\ \A i \in 1..Len(records) :
       /\ records[i].target \in 1..n
       /\ records[i].type = "Delta" => records[i].base \in 1..n

HostMaps == [by_id |-> entries_by_id, by_path |-> id_by_path]

\* The inductive invariant: the maps are consistent, and show the capture that
\* the state claims; every record is of captures that are there to be applied.
SinkIInv ==
  /\ posix \in BOOLEAN
  /\ captures \in Seq(Trees) /\ Len(captures) <= MaxCaptures
  /\ LogOK(log, Len(captures))
  /\ received \in 0..Len(log)
  /\ last_snapshot_id \in 0..Len(captures)
  /\ last_sequence \in 0..Len(log)
  /\ MapsOK(HostMaps)
  /\ last_snapshot_id # 0 =>
       Shows(posix, entries_by_id, EntriesOf(posix, captures[last_snapshot_id]))

\* Records of a capture come behind the others.
LEMMA LogGrows ==
  ASSUME NEW records, NEW n \in Nat, LogOK(records, n), n + 1 <= MaxCaptures,
         NEW r \in LogRecords, r.target = n + 1, r.type = "Delta" => r.base \in 1..n
  PROVE  /\ LogOK(Append(records, r), n + 1)
         /\ Len(Append(records, r)) = Len(records) + 1
<1>1. /\ records \in Seq(LogRecords)
      /\ \A i \in 1..Len(records) :
           /\ records[i].target \in 1..n
           /\ records[i].type = "Delta" => records[i].base \in 1..n
  BY DEF LogOK
<1> DEFINE more == Append(records, r)
<1>2. /\ more \in Seq(LogRecords) /\ Len(more) = Len(records) + 1 /\ Len(records) \in Nat
      /\ \A i \in 1..Len(records) : more[i] = records[i]
      /\ more[Len(records) + 1] = r
  BY <1>1
<1> HIDE DEF more
<1>3. ASSUME NEW i \in 1..Len(more)
      PROVE  more[i].target \in 1..(n + 1) /\ (more[i].type = "Delta" => more[i].base \in 1..(n + 1))
  <2>1. CASE i = Len(records) + 1
    BY <1>2, <2>1
  <2>2. CASE i # Len(records) + 1
    <3>1. i \in 1..Len(records)
      BY <1>2, <2>2
    <3>2. more[i].target \in 1..n /\ (more[i].type = "Delta" => more[i].base \in 1..n)
      BY <1>1, <1>2, <3>1
    <3>3. QED
      BY <3>2
  <2>3. QED
    BY <2>1, <2>2
<1>4. LogOK(more, n + 1)
  BY <1>2, <1>3 DEF LogOK
<1>5. QED
  BY <1>2, <1>4 DEF more

\* The same for the delta that follows the snapshot record of its capture.
LEMMA LogGrowsByTwo ==
  ASSUME NEW records, NEW n \in Nat, LogOK(records, n), n + 1 <= MaxCaptures,
         NEW b \in 1..n
  PROVE  LET more == records \o <<SnapshotRecord(n + 1), DeltaRecord(b, n + 1)>>
         IN  LogOK(more, n + 1) /\ Len(more) = Len(records) + 2
<1> DEFINE S == SnapshotRecord(n + 1)
           D == DeltaRecord(b, n + 1)
           more == records \o <<S, D>>
<1>1. /\ records \in Seq(LogRecords)
      /\ \A i \in 1..Len(records) :
           /\ records[i].target \in 1..n
           /\ records[i].type = "Delta" => records[i].base \in 1..n
  BY DEF LogOK
<1>2. S \in LogRecords /\ D \in LogRecords
  <2>1. n + 1 \in SnapshotIds /\ b \in SnapshotIds
    BY SinkAssumption DEF SnapshotIds
  <2>2. QED
    BY <2>1 DEF LogRecords
<1>3. /\ S.target = n + 1 /\ S.type = "Snapshot"
      /\ D.target = n + 1 /\ D.base = b
  BY DEF SnapshotRecord, DeltaRecord
<1> HIDE DEF S, D
<1>4. /\ more \in Seq(LogRecords) /\ Len(more) = Len(records) + 2 /\ Len(records) \in Nat
      /\ \A i \in 1..Len(records) : more[i] = records[i]
      /\ more[Len(records) + 1] = S /\ more[Len(records) + 2] = D
  BY <1>1, <1>2
<1> HIDE DEF more
<1>5. ASSUME NEW i \in 1..Len(more)
      PROVE  more[i].target \in 1..(n + 1) /\ (more[i].type = "Delta" => more[i].base \in 1..(n + 1))
  <2>1. CASE i = Len(records) + 1
    <3>1. more[i] = S
      BY <1>4, <2>1
    <3>2. QED
      BY <1>3, <3>1
  <2>2. CASE i = Len(records) + 2
    <3>1. more[i] = D
      BY <1>4, <2>2
    <3>2. QED
      BY <1>3, <3>1
  <2>3. CASE i \in 1..Len(records)
    <3>1. more[i].target \in 1..n /\ (more[i].type = "Delta" => more[i].base \in 1..n)
      BY <1>1, <1>4, <2>3
    <3>2. QED
      BY <3>1
  <2>4. QED
    BY <1>4, <2>1, <2>2, <2>3
<1>6. LogOK(more, n + 1)
  BY <1>4, <1>5 DEF LogOK
<1>7. QED
  BY <1>4, <1>6 DEF more, S, D

\* Captures are trees, and their entries snapshots.
LEMMA CapturesAreSnapshots ==
  ASSUME SinkIInv, NEW s \in 1..Len(captures)
  PROVE  /\ IsSnapshot(EntriesOf(posix, captures[s]))
         /\ posix => HasFirstLinks(EntriesOf(posix, captures[s]))
         /\ HasParents(EntriesOf(posix, captures[s]))
<1>1. posix \in BOOLEAN /\ captures \in Seq(Trees)
  BY DEF SinkIInv
<1>2. captures[s] \in Trees
  BY <1>1
<1>3. IsTree(captures[s])
  BY <1>2, SinkAssumption
<1>4. QED
  BY <1>1, <1>3, EntriesAreSnapshot, EntriesHaveParents

LEMMA InitInv == SinkInit => SinkIInv
<1> SUFFICES ASSUME SinkInit PROVE SinkIInv
  OBVIOUS
<1>1. /\ posix \in BOOLEAN /\ captures = <<>> /\ log = <<>> /\ received = 0
      /\ entries_by_id = <<>> /\ id_by_path = <<>>
      /\ last_snapshot_id = 0 /\ last_sequence = 0
  BY DEF SinkInit
<1>2. LogOK(log, Len(captures))
  BY <1>1 DEF LogOK
<1>3. MapsOK(HostMaps)
  <2>1. DOMAIN entries_by_id = {} /\ DOMAIN id_by_path = {}
    BY <1>1
  <2>2. QED
    BY <2>1 DEF MapsOK, HostMaps
<1>4. MaxCaptures \in Nat
  BY SinkAssumption
<1>5. QED
  BY <1>1, <1>2, <1>3, <1>4 DEF SinkIInv

\* A capture leaves what is shown, and what it is shown from.
LEMMA CaptureKeepsInv ==
  ASSUME SinkIInv, NEW tree \in Trees, Len(captures) < MaxCaptures,
         captures' = Append(captures, tree),
         LogOK(log', Len(captures) + 1), Len(log') \in Nat, Len(log) <= Len(log'),
         UNCHANGED <<posix, received, hostVars>>
  PROVE  SinkIInv'
<1>1. /\ posix \in BOOLEAN /\ captures \in Seq(Trees) /\ LogOK(log, Len(captures))
      /\ received \in 0..Len(log) /\ last_snapshot_id \in 0..Len(captures)
      /\ last_sequence \in 0..Len(log) /\ MapsOK(HostMaps)
      /\ last_snapshot_id # 0 =>
           Shows(posix, entries_by_id, EntriesOf(posix, captures[last_snapshot_id]))
  BY DEF SinkIInv
<1>2. /\ posix' = posix /\ received' = received /\ entries_by_id' = entries_by_id
      /\ id_by_path' = id_by_path /\ last_snapshot_id' = last_snapshot_id
      /\ last_sequence' = last_sequence
  BY DEF hostVars
<1>3. /\ captures' \in Seq(Trees) /\ Len(captures') = Len(captures) + 1
      /\ \A s \in 1..Len(captures) : captures'[s] = captures[s]
  BY <1>1
<1>4. Len(captures') <= MaxCaptures
  BY <1>1, <1>3, SinkAssumption
<1>5. MapsOK(HostMaps')
  BY <1>1, <1>2 DEF HostMaps
<1>6. last_snapshot_id' # 0 =>
        Shows(posix', entries_by_id', EntriesOf(posix', captures'[last_snapshot_id']))
  <2>1. last_snapshot_id # 0 => captures'[last_snapshot_id] = captures[last_snapshot_id]
    BY <1>1, <1>3
  <2>2. QED
    BY <1>1, <1>2, <2>1
<1>7. Len(captures) \in Nat /\ Len(log) \in Nat
  BY <1>1 DEF LogOK
<1>8. /\ received' \in 0..Len(log') /\ last_sequence' \in 0..Len(log')
      /\ last_snapshot_id' \in 0..Len(captures')
  BY <1>1, <1>2, <1>3, <1>7
<1>9. LogOK(log', Len(captures'))
  BY <1>3
<1>10. QED
  BY <1>1, <1>2, <1>3, <1>4, <1>5, <1>6, <1>8, <1>9 DEF SinkIInv

\* So do the maps that a record leads to, when they show its capture.
LEMMA RecordKeepsInv ==
  ASSUME SinkIInv, NEW seq \in DOMAIN log, Receive(seq),
         MapsOK(HostMaps'), last_snapshot_id' = log[seq].target, last_sequence' = seq,
         Shows(posix, entries_by_id', EntriesOf(posix, captures[log[seq].target]))
  PROVE  SinkIInv'
<1>1. /\ posix \in BOOLEAN /\ captures \in Seq(Trees) /\ Len(captures) <= MaxCaptures
      /\ LogOK(log, Len(captures)) /\ received \in 0..Len(log)
  BY DEF SinkIInv
<1>2. log \in Seq(LogRecords) /\ seq \in 1..Len(log) /\ log[seq].target \in 1..Len(captures)
  BY <1>1 DEF LogOK
<1>3. /\ posix' = posix /\ captures' = captures /\ log' = log
      /\ received' \in {seq, received}
  BY DEF Receive
<1>4. /\ received' \in 0..Len(log') /\ last_sequence' \in 0..Len(log')
      /\ last_snapshot_id' \in 0..Len(captures')
  BY <1>1, <1>2, <1>3
<1>5. Shows(posix', entries_by_id', EntriesOf(posix', captures'[last_snapshot_id']))
  BY <1>3
<1>6. QED
  BY <1>1, <1>3, <1>4, <1>5 DEF SinkIInv

LEMMA NextKeepsInv == SinkIInv /\ [SinkNext]_sinkVars => SinkIInv'
<1> SUFFICES ASSUME SinkIInv, [SinkNext]_sinkVars PROVE SinkIInv'
  OBVIOUS
<1>1. /\ posix \in BOOLEAN /\ captures \in Seq(Trees) /\ Len(captures) <= MaxCaptures
      /\ LogOK(log, Len(captures)) /\ received \in 0..Len(log)
      /\ MapsOK(HostMaps)
      /\ last_snapshot_id # 0 =>
           Shows(posix, entries_by_id, EntriesOf(posix, captures[last_snapshot_id]))
  BY DEF SinkIInv
<1>2. Len(captures) \in Nat /\ Len(log) \in Nat /\ MaxCaptures \in Nat
  BY <1>1, SinkAssumption DEF LogOK
<1>3. ASSUME NEW seq \in DOMAIN log
      PROVE  /\ log[seq].target \in 1..Len(captures)
             /\ log[seq].type = "Delta" => log[seq].base \in 1..Len(captures)
  BY <1>1 DEF LogOK
<1>4. ASSUME NEW tree \in Trees, CaptureFull(tree) PROVE SinkIInv'
  <2>1. /\ Len(captures) < MaxCaptures /\ captures' = Append(captures, tree)
        /\ log' = Append(log, SnapshotRecord(Len(captures) + 1))
        /\ UNCHANGED <<posix, received, hostVars>>
    BY <1>4 DEF CaptureFull
  <2> DEFINE r == SnapshotRecord(Len(captures) + 1)
  <2>2. Len(captures) + 1 \in SnapshotIds
    BY <1>2, <2>1 DEF SnapshotIds
  <2>3. r \in LogRecords /\ r.target = Len(captures) + 1 /\ r.type # "Delta"
    BY <2>2 DEF LogRecords, SnapshotRecord
  <2> HIDE DEF r
  <2>4. LogOK(log', Len(captures) + 1) /\ Len(log') = Len(log) + 1
    BY <1>1, <1>2, <2>1, <2>3, LogGrows DEF r
  <2>5. QED
    BY <1>2, <2>1, <2>4, CaptureKeepsInv
<1>5. ASSUME NEW tree \in Trees, NEW b \in DOMAIN captures, CaptureUpdate(b, tree)
      PROVE  SinkIInv'
  <2>1. /\ Len(captures) < MaxCaptures /\ captures' = Append(captures, tree)
        /\ log' = log \o <<SnapshotRecord(Len(captures) + 1),
                           DeltaRecord(b, Len(captures) + 1)>>
        /\ UNCHANGED <<posix, received, hostVars>>
    BY <1>5 DEF CaptureUpdate
  <2>2. b \in 1..Len(captures)
    BY <1>1
  <2>3. LogOK(log', Len(captures) + 1) /\ Len(log') = Len(log) + 2
    BY <1>1, <1>2, <2>1, <2>2, LogGrowsByTwo
  <2>4. Len(log') \in Nat /\ Len(log) <= Len(log')
    BY <1>2, <2>3
  <2>5. QED
    BY <2>1, <2>3, <2>4, CaptureKeepsInv
<1>6. ASSUME NEW seq \in DOMAIN log, ApplySnapshot(seq) PROVE SinkIInv'
  <2> DEFINE entries == EntriesOf(posix, captures[log[seq].target])
  <2>1. /\ Receive(seq)
        /\ entries_by_id' = EntriesById(entries) /\ id_by_path' = IdByPath(entries)
        /\ last_snapshot_id' = log[seq].target /\ last_sequence' = seq
    BY <1>6 DEF ApplySnapshot, EntriesOfCapture
  <2>2. IsSnapshot(entries)
    BY <1>3, CapturesAreSnapshots
  <2> HIDE DEF entries
  <2>3. MapsOK(HostMaps')
    BY <2>1, <2>2, IndexedSnapshot DEF HostMaps
  <2>4. Shows(posix, entries_by_id', entries)
    BY <2>1, <2>2, IndexFacts DEF Shows
  <2>5. QED
    BY <2>1, <2>3, <2>4, RecordKeepsInv DEF entries
<1>7. ASSUME NEW seq \in DOMAIN log, ApplyDelta(seq) PROVE SinkIInv'
  <2> DEFINE base == EntriesOf(posix, captures[log[seq].base])
             target == EntriesOf(posix, captures[log[seq].target])
             maps == Applied(HostMaps, Compute(base, target))
  <2>1. /\ Receive(seq) /\ log[seq].type = "Delta" /\ last_snapshot_id = log[seq].base
        /\ entries_by_id' = maps.by_id /\ id_by_path' = maps.by_path
        /\ last_snapshot_id' = log[seq].target /\ last_sequence' = seq
    BY <1>7, Zenon DEF ApplyDelta, EntriesOfCapture, BaseMatches, HostMaps
  <2>2. /\ IsSnapshot(base) /\ IsSnapshot(target)
        /\ posix => HasFirstLinks(base) /\ HasFirstLinks(target)
    BY <1>3, <2>1, CapturesAreSnapshots
  <2>3. Shows(posix, entries_by_id, base)
    BY <1>1, <1>3, <2>1
  <2> HIDE DEF base, target
  <2>4. Shows(posix, HostMaps.by_id, base)
    BY <2>3 DEF HostMaps
  <2>5. MapsOK(maps) /\ Shows(posix, maps.by_id, target)
    BY <1>1, <2>2, <2>4, AppliedDelta
  <2> HIDE DEF maps
  <2>6. MapsOK(HostMaps')
    <3>1. HostMaps' = [by_id |-> maps.by_id, by_path |-> maps.by_path]
      BY <2>1 DEF HostMaps
    <3>2. QED
      BY <2>5, <3>1 DEF MapsOK
  <2>7. QED
    BY <2>1, <2>5, <2>6, RecordKeepsInv DEF target
<1>8. ASSUME NEW seq \in DOMAIN log, RefuseDelta(seq) PROVE SinkIInv'
  <2>1. /\ posix' = posix /\ captures' = captures /\ log' = log
        /\ received' \in {seq, received}
        /\ entries_by_id' = entries_by_id /\ id_by_path' = id_by_path
        /\ last_snapshot_id' = last_snapshot_id /\ last_sequence' = last_sequence
    BY <1>8 DEF RefuseDelta, Receive, hostVars
  <2>2. received' \in 0..Len(log)
    BY <1>1, <1>2, <2>1 DEF LogOK
  <2>3. QED
    BY <2>1, <2>2 DEF SinkIInv, HostMaps
<1>9. CASE UNCHANGED sinkVars
  BY <1>9 DEF sinkVars, hostVars, SinkIInv, HostMaps
<1>10. QED
  BY <1>4, <1>5, <1>6, <1>7, <1>8, <1>9 DEF SinkNext

LEMMA InvAlways == SinkSpec => []SinkIInv
<1>1. QED
  BY InitInv, NextKeepsInv, PTL DEF SinkSpec

\* What the maps of a host hold, at any time and whatever was applied: entries
\* with ids, paths and metadata that a capture can have, and positions within
\* the captures and the records (HostMaterializedState).
THEOREM SinkTypeTheorem == SinkSpec => []SinkTypeOK
<1>1. SinkIInv => SinkTypeOK
  BY DEF SinkIInv, SinkTypeOK, MapsOK, HostMaps, LogOK
<1>2. QED
  BY <1>1, InvAlways, PTL

\* The sink shows the snapshot that it claims to show, entry by entry, for all
\* trees and any order of snapshots, deltas and repeated records
\* (MaterializerSink::apply_snapshot, apply_delta, DeltaEngine::compute).
THEOREM ClaimTheorem == SinkSpec => []EntriesMatchClaim
<1>1. SinkIInv => EntriesMatchClaim
  <2> SUFFICES ASSUME SinkIInv, last_snapshot_id # 0
               PROVE  Shows(posix, entries_by_id, EntriesOfCapture(last_snapshot_id))
    BY DEF EntriesMatchClaim, Shows
  <2>1. QED
    BY DEF SinkIInv, EntriesOfCapture
<1>2. QED
  BY <1>1, InvAlways, PTL

\* No path leads to an entry that is gone or elsewhere, although the loops of
\* apply_delta erase and insert paths that other entries have by then
\* (index_entry and the loop over renamed_entries).
THEOREM DanglingTheorem == SinkSpec => []NoDanglingPaths
<1>1. SinkIInv => NoDanglingPaths
  BY DEF SinkIInv, NoDanglingPaths, MapsOK, HostMaps
<1>2. QED
  BY <1>1, InvAlways, PTL

\* The validator takes every computed delta, and inverting one is computing the
\* delta of the other direction (DeltaEngine::compute, invert, DeltaValidator).
THEOREM SoundTheorem == SinkSpec => []ComputedDeltasAreSound
<1>1. SinkIInv => ComputedDeltasAreSound
  <2> SUFFICES ASSUME SinkIInv, NEW i \in DOMAIN captures, NEW j \in DOMAIN captures
               PROVE  LET base == EntriesOfCapture(i)
                          target == EntriesOfCapture(j)
                      IN  /\ IsValidDelta(Compute(base, target), base, target)
                          /\ Invert(Compute(base, target)) = Compute(target, base)
    BY DEF ComputedDeltasAreSound
  <2>1. i \in 1..Len(captures) /\ j \in 1..Len(captures)
    BY DEF SinkIInv
  <2>2. IsSnapshot(EntriesOfCapture(i)) /\ IsSnapshot(EntriesOfCapture(j))
    BY <2>1, CapturesAreSnapshots DEF EntriesOfCapture
  <2>3. QED
    BY <2>2, ComputedIsValid, InvertIsOtherDirection
<1>2. QED
  BY <1>1, InvAlways, PTL

\* A tree that can be navigated stops being so only when a delta gives the path
\* of an entry it renames to another, or leaves an entry alone whose directory
\* is replaced; every snapshot restores it (the loops of apply_delta,
\* build_from_snapshot).
THEOREM NavigationTheorem == SinkSpec => NavigationLossIsKnown
<1>1. ASSUME SinkIInv, [SinkNext]_sinkVars PROVE [KeepsNavigation]_sinkVars
  <2> SUFFICES ASSUME hostVars' # hostVars PROVE KeepsNavigation
    BY <1>1 DEF KeepsNavigation
  <2>1. /\ captures \in Seq(Trees) /\ LogOK(log, Len(captures)) /\ MapsOK(HostMaps)
        /\ last_snapshot_id # 0 =>
             Shows(posix, entries_by_id, EntriesOf(posix, captures[last_snapshot_id]))
        /\ posix \in BOOLEAN
    BY <1>1 DEF SinkIInv
  <2>2. PICK seq \in DOMAIN log : ApplySnapshot(seq) \/ ApplyDelta(seq)
    BY <1>1 DEF SinkNext, CaptureFull, CaptureUpdate, RefuseDelta, sinkVars
  <2> DEFINE target == EntriesOf(posix, captures[log[seq].target])
  <2>3. /\ log[seq].target \in 1..Len(captures)
        /\ log[seq].type = "Delta" => log[seq].base \in 1..Len(captures)
    BY <2>1 DEF LogOK
  <2>4. /\ posix' = posix /\ captures' = captures /\ log' = log
        /\ last_snapshot_id' = log[seq].target /\ last_sequence' = seq
    BY <2>2 DEF ApplySnapshot, ApplyDelta, Receive
  <2>5. ASSUME Leads(id_by_path', target), Hang(entries_by_id', target)
        PROVE  KeepsNavigation
    BY <2>4, <2>5
       DEF KeepsNavigation, TreeIsNavigable, EntriesOfCapture, PathsLead, ParentsAreShown,
           Leads, Hang
  <2>6. IsSnapshot(target) /\ HasParents(target)
    BY <1>1, <2>3, CapturesAreSnapshots
  <2>7. CASE ApplySnapshot(seq)
    <3>1. entries_by_id' = EntriesById(target) /\ id_by_path' = IdByPath(target)
      BY <2>7 DEF ApplySnapshot, EntriesOfCapture
    <3> HIDE DEF target
    <3>2. Leads(id_by_path', target) /\ Hang(entries_by_id', target)
      BY <2>6, <3>1, IndexFacts DEF Leads, Hang
    <3>3. QED
      BY <2>5, <3>2
  <2>8. CASE ApplyDelta(seq)
    <3> DEFINE base == EntriesOf(posix, captures[log[seq].base])
               maps == Applied(HostMaps, Compute(base, target))
    <3>1. /\ log[seq].type = "Delta" /\ last_snapshot_id = log[seq].base
          /\ entries_by_id' = maps.by_id /\ id_by_path' = maps.by_path
      BY <2>8, Zenon DEF ApplyDelta, EntriesOfCapture, BaseMatches, HostMaps
    <3>2. last_snapshot_id # 0 /\ base = EntriesOfCapture(last_snapshot_id)
      BY <2>1, <2>3, <3>1 DEF EntriesOfCapture
    <3>3. target = EntriesOfCapture(last_snapshot_id')
      BY <2>4 DEF EntriesOfCapture
    <3>4. IsSnapshot(base) /\ HasParents(base)
      BY <1>1, <2>3, <3>1, CapturesAreSnapshots
    <3>5. Shows(posix, HostMaps.by_id, base)
      BY <2>1, <3>1, <3>2 DEF HostMaps
    <3> HIDE DEF base, target
    <3>6. CASE ~TreeIsNavigable \/ TakesOver(base, target) \/ ReplacesParent(base, target)
      BY <2>4, <3>1, <3>2, <3>3, <3>6, Zenon DEF KeepsNavigation
    <3>7. CASE /\ TreeIsNavigable
               /\ ~TakesOver(base, target) /\ ~ReplacesParent(base, target)
      <4>1. Leads(HostMaps.by_path, base) /\ Hang(HostMaps.by_id, base)
        BY <3>2, <3>7 DEF TreeIsNavigable, PathsLead, ParentsAreShown, Leads, Hang, HostMaps
      <4>2. Leads(maps.by_path, target) /\ Hang(maps.by_id, target)
        BY <2>1, <2>6, <3>4, <3>5, <3>7, <4>1, AppliedNavigation
      <4> HIDE DEF maps
      <4>3. Leads(id_by_path', target) /\ Hang(entries_by_id', target)
        BY <3>1, <4>2
      <4>4. QED
        BY <2>5, <4>3
    <3>8. QED
      BY <3>6, <3>7
  <2>9. QED
    BY <2>2, <2>7, <2>8
<1>2. QED
  BY <1>1, InvAlways, PTL DEF SinkSpec, NavigationLossIsKnown
=============================================================================
