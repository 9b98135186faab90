--------------------------- MODULE SnapshotBuild ---------------------------
(***************************************************************************)
(* Muninn's SnapshotBuilder::build and SnapshotValidator as operators on   *)
(* the raw entries of a scan.                                              *)
(*                                                                         *)
(* Paths are numbers in their lexicographic order, as in DeltaEngine; 0 is *)
(* the normalised form of a root that was given with a trailing slash      *)
(* ("/data/", "."): lexically_normal keeps the slash, and no parent_path() *)
(* ends with one.  The FNV hash of a key is the key itself, so two entries *)
(* collide only when their keys are equal.  Of the validator the errors    *)
(* are modelled, which keep a snapshot from being stored; warnings         *)
(* (timestamps, permissions, names, depth) are not.                        *)
(***************************************************************************)
EXTENDS Integers, FiniteSets, Sequences

CONSTANTS
  Paths,        \* 1..n in lexicographic order
  Root,         \* the scanned directory
  ParentPath    \* the parent of every path but Root

ASSUME PathAssumption ==
  /\ Paths \subseteq Nat \ {0}
  /\ Root \in Paths
  /\ ParentPath \in [Paths \ {Root} -> Paths]
  /\ \A p \in Paths \ {Root} : ParentPath[p] < p

\* The id 0: no entry, no parent.
NoId == <<>>

-----------------------------------------------------------------------------
(***************************************************************************)
(* SnapshotBuilder.  A raw entry has a path, a type and an inode, which is *)
(* 0 when its metadata could not be read.                                  *)
(***************************************************************************)

\* make_base_stable_key: the inode if it is known, the path otherwise.
BaseKey(e) == IF e.inode # 0 THEN <<e.type, "inode", e.inode>>
                             ELSE <<e.type, "path", e.path>>

\* Mutant of StableId: hard links share the id of their inode.
StableIdUnsalted(raw, e) == BaseKey(e)

\* generate_stable_id: in path order the first entry with a key keeps it as its
\* id, later ones (hard links) get one that is salted with their path.
StableId(raw, e) ==
  IF \E f \in raw : f.path < e.path /\ BaseKey(f) = BaseKey(e)
    THEN BaseKey(e) \o <<e.path>>
    ELSE BaseKey(e)

\* The entry of the parent path.
ParentsOf(raw, e) == {f \in raw : f.path = ParentPath[e.path]}

\* An entry whose parent path is missing gets the parent id 0.
ParentId(raw, root_path, e) ==
  IF e.path = root_path \/ ParentsOf(raw, e) = {}
    THEN NoId
    ELSE StableId(raw, CHOOSE f \in ParentsOf(raw, e) : TRUE)

\* The scanner collects the root first and stops when it cannot, so the
\* builder's fallback for a missing root entry has nothing to fall back to.
RootEntryId(raw, root_path) ==
  IF \E e \in raw : e.path = root_path
    THEN StableId(raw, CHOOSE e \in raw : e.path = root_path)
    ELSE NoId

BuildSnapshot(raw, root_path) ==
  [root_entry_id |-> RootEntryId(raw, root_path),
   entries |-> {[id     |-> StableId(raw, e),
                 path   |-> e.path,
                 type   |-> e.type,
                 parent |-> ParentId(raw, root_path, e)] : e \in raw}]

-----------------------------------------------------------------------------
(***************************************************************************)
(* SnapshotValidator, one operator per pass.                               *)
(***************************************************************************)
RootEntries(snapshot) ==
  {e \in snapshot.entries : e.id = snapshot.root_entry_id}

HeaderPass(snapshot) ==
  /\ snapshot.root_entry_id # NoId
  /\ RootEntries(snapshot) # {}
  /\ \A e \in RootEntries(snapshot) : e.type = "Directory" /\ e.parent = NoId

IdentityPass(snapshot) ==
  /\ \A e, f \in snapshot.entries : e.id = f.id => e = f
  /\ \A e \in snapshot.entries \ RootEntries(snapshot) : e.parent # NoId

PathPass(snapshot) ==
  \A e, f \in snapshot.entries : e.path = f.path => e = f

\* Every set of entries has one whose parent is outside of it.
IsAcyclic(entries) ==
  \A S \in (SUBSET entries) \ {{}} : \E e \in S : \A f \in S : e.parent # f.id

ParentGraphPass(snapshot) ==
  /\ \A e \in snapshot.entries \ RootEntries(snapshot) :
       \E f \in snapshot.entries : f.id = e.parent /\ f.type = "Directory"
  /\ IsAcyclic(snapshot.entries)

IsValidSnapshot(snapshot) ==
  /\ HeaderPass(snapshot)
  /\ IdentityPass(snapshot)
  /\ PathPass(snapshot)
  /\ ParentGraphPass(snapshot)
=============================================================================
