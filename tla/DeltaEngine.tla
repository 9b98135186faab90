---------------------------- MODULE DeltaEngine ----------------------------
(***************************************************************************)
(* Muninn's SnapshotBuilder and DeltaEngine as operators: the entries of a *)
(* snapshot with their stable ids, the delta between two snapshots, and    *)
(* its inverse.                                                            *)
(*                                                                         *)
(* A tree is a function from the scanned paths to what the file system     *)
(* says of them: the inode, the stamp (size and modification time) and     *)
(* the permissions.  Paths are numbers in their lexicographic order and    *)
(* fix the type of what they name.  Two files with one inode are hard      *)
(* links.  "posix" says whether the scanner could read inodes.             *)
(***************************************************************************)
EXTENDS Integers, FiniteSets, Sequences

CONSTANTS
  Paths,       \* 1..n in lexicographic order
  Root,        \* the scanned directory
  ParentPath,  \* the parent of every path but Root
  NameOf,      \* the last component of a path
  Inodes,      \* numbers with a type, as in make_base_stable_key, from 1 on
  Stamps, Permissions

ASSUME TreeAssumption ==
  /\ IsFiniteSet(Paths) /\ Paths = 1..Cardinality(Paths)
  /\ Root \in Paths
  /\ ParentPath \in [Paths \ {Root} -> Paths]
  /\ IsFiniteSet(Inodes) /\ Inodes \subseteq 1..(Cardinality(Paths) + Cardinality(Inodes))
  /\ Root \in Inodes

Leaves == Paths \ ({Root} \cup {ParentPath[p] : p \in Paths \ {Root}})

\* What a scan can find: the parent of everything is found too, and only files
\* share an inode and with it their metadata.  The scanned directory itself
\* keeps its inode.
IsTree(tree) ==
  /\ DOMAIN tree \subseteq Paths
  /\ \A p \in DOMAIN tree :
       tree[p] \in [inode : Inodes, stamp : Stamps, permissions : Permissions]
  /\ Root \in DOMAIN tree /\ tree[Root].inode = Root
  /\ \A p \in DOMAIN tree \ {Root} : ParentPath[p] \in DOMAIN tree
  /\ \A p, q \in DOMAIN tree : p # q /\ tree[p].inode = tree[q].inode =>
       p \in Leaves /\ q \in Leaves /\ tree[p] = tree[q]

-----------------------------------------------------------------------------
\* The key of a later link, salted with its path: a number of its own, beyond
\* the inodes and the paths.
SaltedId(inode, p) == inode * (Cardinality(Paths) + Cardinality(Inodes)) + p

\* generate_stable_id: the inode if it is known, for the first path that has it,
\* a salted id for its other links; the path otherwise.
StableId(posix, tree, p) ==
  IF ~posix THEN p
  ELSE IF \E q \in DOMAIN tree : q < p /\ tree[q].inode = tree[p].inode
    THEN SaltedId(tree[p].inode, p)
    ELSE tree[p].inode

\* SnapshotBuilder::build.
EntriesOf(posix, tree) ==
  {[id     |-> StableId(posix, tree, p),
    path   |-> p,
    inode  |-> IF posix THEN tree[p].inode ELSE 0,
    parent |-> IF p = Root THEN 0 ELSE StableId(posix, tree, ParentPath[p]),
    meta   |-> [stamp |-> tree[p].stamp, permissions |-> tree[p].permissions]] :
      p \in DOMAIN tree}

Ids(entries) == {e.id : e \in entries}

-----------------------------------------------------------------------------
\* make_rename_fingerprint, for entries that have no counterpart by id: with
\* known inodes these are other links to files that are in both snapshots.
Fingerprint(e) == <<e.inode, e.meta.stamp, NameOf[e.path]>>

\* Position of an entry in its bucket, which is in path order.
Rank(e, bucket) ==
  Cardinality({f \in bucket : Fingerprint(f) = Fingerprint(e) /\ f.path < e.path})

\* The rename heuristic takes, for the removed entries in path order, the first
\* added entry of the same fingerprint that is still free.
HeuristicRenames(removed, added) ==
  {pair \in removed \X added :
     /\ Fingerprint(pair[1]) = Fingerprint(pair[2])
     /\ Rank(pair[1], removed) = Rank(pair[2], added)}

\* Mutant of ById: an entry that moved is not looked at for other changes.
ByIdAtSamePath(base, target) ==
  {pair \in base \X target : pair[1].id = pair[2].id /\ pair[1].path = pair[2].path}

ById(base, target) == {pair \in base \X target : pair[1].id = pair[2].id}

Rename(pair) == [before_id |-> pair[1].id,  after_id |-> pair[2].id,
                 old_path  |-> pair[1].path, new_path |-> pair[2].path]

\* DeltaEngine::compute.
Compute(base, target) ==
  LET removed == {e \in base : e.id \notin Ids(target)}
      added == {e \in target : e.id \notin Ids(base)}
      moved == HeuristicRenames(removed, added)
  IN  [removed  |-> {e \in removed : \A pair \in moved : pair[1] # e},
       added    |-> {e \in added : \A pair \in moved : pair[2] # e},
       modified |-> {[id |-> pair[2].id, before |-> pair[1].meta, after |-> pair[2].meta] :
                       pair \in {q \in ById(base, target) : q[1].meta # q[2].meta}},
       renamed  |-> {Rename(pair) :
                       pair \in moved \cup {q \in ById(base, target) :
                                              q[1].path # q[2].path}}]

\* Mutant of Invert: the endpoints of a rename are swapped, its paths are not.
InvertKeepingPaths(delta) ==
  [removed  |-> delta.added,
   added    |-> delta.removed,
   modified |-> {[id |-> m.id, before |-> m.after, after |-> m.before] :
                   m \in delta.modified},
   renamed  |-> {[before_id |-> r.after_id, after_id |-> r.before_id,
                  old_path |-> r.old_path, new_path |-> r.new_path] :
                   r \in delta.renamed}]

\* DeltaEngine::invert.
Invert(delta) ==
  [removed  |-> delta.added,
   added    |-> delta.removed,
   modified |-> {[id |-> m.id, before |-> m.after, after |-> m.before] :
                   m \in delta.modified},
   renamed  |-> {[before_id |-> r.after_id, after_id |-> r.before_id,
                  old_path |-> r.new_path, new_path |-> r.old_path] :
                   r \in delta.renamed}]

-----------------------------------------------------------------------------
\* No two elements have the same key.
AreDistinct(S, Key(_)) == \A x, y \in S : Key(x) = Key(y) => x = y

\* DeltaReferentialIntegrityPass, run before a delta is stored.
IsValidDelta(delta, base, target) ==
  LET Id(x) == x.id
      BeforeId(r) == r.before_id
      AfterId(r) == r.after_id
      NewPath(r) == r.new_path
      modified == Ids(delta.modified)
  IN  /\ AreDistinct(delta.added, Id) /\ AreDistinct(delta.removed, Id)
      /\ AreDistinct(delta.modified, Id)
      /\ AreDistinct(delta.renamed, BeforeId) /\ AreDistinct(delta.renamed, AfterId)
      /\ AreDistinct(delta.renamed, NewPath)
      /\ Ids(delta.added) \cap (Ids(delta.removed) \cup modified) = {}
      /\ Ids(delta.removed) \cap modified = {}
      /\ Ids(delta.removed) \cup modified \cup {r.before_id : r \in delta.renamed}
           \subseteq Ids(base)
      /\ Ids(delta.added) \cup modified \cup {r.after_id : r \in delta.renamed}
           \subseteq Ids(target)

\* delta_has_changes.
HasChanges(delta) ==
  \/ delta.removed # {} \/ delta.added # {}
  \/ delta.modified # {} \/ delta.renamed # {}
=============================================================================
