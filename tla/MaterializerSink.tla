-------------------------- MODULE MaterializerSink --------------------------
(***************************************************************************)
(* Hugin's MaterializerSink, fed from Muninn's outbox: captures append     *)
(* snapshot and delta records, the gateway applies the records it is       *)
(* handed, and the tree and snapshot endpoints answer from the result.     *)
(*                                                                         *)
(* Reads that overlap (the pull timer and commands of frontends) hand over *)
(* records again, in batches of any size: the next record can be the one   *)
(* behind the newest or any older one.  Snapshot ids are the positions in  *)
(* "captures"; one Muninn has one host identifier, so there is one state.  *)
(***************************************************************************)
EXTENDS DeltaEngine

CONSTANTS
  Trees,        \* what the scans find
  MaxCaptures   \* bound: captures that are stored

ASSUME SinkAssumption ==
  /\ \A tree \in Trees : IsTree(tree)
  /\ MaxCaptures \in Nat \ {0}

VARIABLES
  posix,             \* the scanner reads inodes
  captures,          \* trees of the stored snapshots
  log,               \* the records of the outbox
  received,          \* largest sequence handed over so far
  entries_by_id,     \* HostMaterializedState
  id_by_path,
  last_snapshot_id,  \* 0 as long as there is no state
  last_sequence

hostVars == <<entries_by_id, id_by_path, last_snapshot_id, last_sequence>>
sinkVars == <<posix, captures, log, received, hostVars>>

SnapshotRecord(s) == [type |-> "Snapshot", base |-> 0, target |-> s]
DeltaRecord(b, s) == [type |-> "Delta", base |-> b, target |-> s]

SnapshotIds == 1..MaxCaptures
EntriesOfCapture(s) == EntriesOf(posix, captures[s])

Metas == [stamp : Stamps, permissions : Permissions]
EntryIds == Inodes \cup Paths \cup {SaltedId(i, p) : i \in Inodes, p \in Paths}
Entries == [id : EntryIds, path : Paths, inode : Inodes \cup {0},
            parent : EntryIds \cup {0}, meta : Metas]
LogRecords == {SnapshotRecord(s) : s \in SnapshotIds}
                \cup {DeltaRecord(b, s) : b, s \in SnapshotIds}

SinkTypeOK ==
  /\ posix \in BOOLEAN
  /\ captures \in Seq(Trees)
  /\ log \in Seq(LogRecords)
  /\ received \in 0..Len(log)
  /\ \A i \in DOMAIN entries_by_id : entries_by_id[i] \in Entries
  /\ DOMAIN id_by_path \subseteq Paths
  /\ \A p \in DOMAIN id_by_path : id_by_path[p] \in EntryIds
  /\ last_snapshot_id \in 0..Len(captures)
  /\ last_sequence \in 0..Len(log)

SinkInit ==
  /\ posix \in BOOLEAN
  /\ captures = <<>>
  /\ log = <<>>
  /\ received = 0
  /\ entries_by_id = <<>>
  /\ id_by_path = <<>>
  /\ last_snapshot_id = 0
  /\ last_sequence = 0

-----------------------------------------------------------------------------
(***************************************************************************)
(* Captures, as IndexingPipeline stores and announces them.                *)
(***************************************************************************)
CaptureFull(tree) ==
  /\ Len(captures) < MaxCaptures
  /\ captures' = Append(captures, tree)
  /\ log' = Append(log, SnapshotRecord(Len(captures) + 1))
  /\ UNCHANGED <<posix, received, hostVars>>

\* An update of any stored snapshot; without changes, or with a delta that the
\* validator rejects, nothing is stored.
CaptureUpdate(b, tree) ==
  /\ Len(captures) < MaxCaptures
  /\ LET base == EntriesOfCapture(b)
         target == EntriesOf(posix, tree)
         delta == Compute(base, target)
     IN  IsValidDelta(delta, base, target) /\ HasChanges(delta)
  /\ captures' = Append(captures, tree)
  /\ log' = log \o <<SnapshotRecord(Len(captures) + 1),
                     DeltaRecord(b, Len(captures) + 1)>>
  /\ UNCHANGED <<posix, received, hostVars>>

-----------------------------------------------------------------------------
(***************************************************************************)
(* The gateway.                                                            *)
(***************************************************************************)
Without(f, S) == [x \in DOMAIN f \ S |-> f[x]]

Receive(seq) ==
  /\ seq \in 1..(received + 1) \cap DOMAIN log
  /\ received' = IF seq > received THEN seq ELSE received
  /\ UNCHANGED <<posix, captures, log>>

EntriesById(entries) == [i \in Ids(entries) |-> CHOOSE e \in entries : e.id = i]
IdByPath(entries) == [p \in {e.path : e \in entries} |->
                        (CHOOSE e \in entries : e.path = p).id]

\* Mutant of ApplySnapshot: the state claims the sequence number.
ApplySnapshotBySequence(seq) ==
  /\ Receive(seq)
  /\ log[seq].type = "Snapshot"
  /\ LET entries == EntriesOfCapture(log[seq].target) IN
       /\ entries_by_id' = EntriesById(entries)
       /\ id_by_path' = IdByPath(entries)
  /\ last_snapshot_id' = seq
  /\ last_sequence' = seq

\* apply_snapshot replaces the state, whatever it was.
ApplySnapshot(seq) ==
  /\ Receive(seq)
  /\ log[seq].type = "Snapshot"
  /\ LET entries == EntriesOfCapture(log[seq].target) IN
       /\ entries_by_id' = EntriesById(entries)
       /\ id_by_path' = IdByPath(entries)
  /\ last_snapshot_id' = log[seq].target
  /\ last_sequence' = seq

\* f with the values of g where g has one.
UpdatedBy(f, g) ==
  [x \in DOMAIN f \cup DOMAIN g |-> IF x \in DOMAIN g THEN g[x] ELSE f[x]]

\* The maps of a host while a delta is applied to them.
Indexed(maps, e) ==
  [by_id |-> UpdatedBy(maps.by_id, [i \in {e.id} |-> e]),
   by_path |-> UpdatedBy(maps.by_path, [p \in {e.path} |-> e.id])]

AfterRemovals(maps, delta) ==
  [by_id |-> Without(maps.by_id, Ids(delta.removed)),
   by_path |-> Without(maps.by_path, {e.path : e \in delta.removed})]

AfterAdditions(maps, delta) ==
  [by_id |-> UpdatedBy(maps.by_id, EntriesById(delta.added)),
   by_path |-> UpdatedBy(maps.by_path, IdByPath(delta.added))]

AfterModifications(maps, delta) ==
  [maps EXCEPT !.by_id =
     [i \in DOMAIN @ |->
        IF \E m \in delta.modified : m.id = i
          THEN [@[i] EXCEPT !.meta = (CHOOSE m \in delta.modified : m.id = i).after]
          ELSE @[i]]]

\* Mutant of AfterRename: the old path keeps its id.
AfterRenameKeepingPath(maps, r) ==
  LET i == IF r.before_id \in DOMAIN maps.by_id THEN r.before_id ELSE r.after_id
      e == [maps.by_id[i] EXCEPT !.id = r.after_id, !.path = r.new_path]
  IN  Indexed([maps EXCEPT !.by_id = Without(@, {r.before_id})], e)

\* One turn of the loop over renamed_entries: whatever id_by_path says of the
\* old path is erased, also when it belongs to another entry by now.  That an
\* entry is not found, and the delta stays half applied, does not happen while
\* EntriesMatchClaim holds; here it would be an error of evaluation.
AfterRename(maps, r) ==
  LET i == IF r.before_id \in DOMAIN maps.by_id THEN r.before_id ELSE r.after_id
      e == [maps.by_id[i] EXCEPT !.id = r.after_id, !.path = r.new_path]
  IN  Indexed([by_id |-> Without(maps.by_id, {r.before_id}),
               by_path |-> Without(maps.by_path, {maps.by_id[i].path})], e)

\* The loop over renamed_entries, in the order DeltaEngine sorts them into:
\* after[p] has those done whose old path is p or before p.
AfterRenames(maps, delta) ==
  LET From(p) == {r \in delta.renamed : r.old_path = p}
      after[p \in 0..Cardinality(Paths)] ==
        IF p = 0 THEN maps
        ELSE IF From(p) = {} THEN after[p - 1]
        ELSE AfterRename(after[p - 1], CHOOSE r \in From(p) : TRUE)
  IN  after[Cardinality(Paths)]

\* Mutant of AfterReparenting: entries that keep their id keep their parent.
AfterReparentingNewIds(maps, delta) ==
  [maps EXCEPT !.by_id =
     [i \in DOMAIN @ |->
        IF (\E r \in delta.renamed : r.after_id = i /\ r.before_id # i) /\ @[i].path # Root
          THEN LET parent == ParentPath[@[i].path] IN
               [@[i] EXCEPT !.parent = IF parent \in DOMAIN maps.by_path
                                         THEN maps.by_path[parent] ELSE 0]
          ELSE @[i]]]

\* The second loop: renamed entries get the parent that id_by_path names.
AfterReparenting(maps, delta) ==
  [maps EXCEPT !.by_id =
     [i \in DOMAIN @ |->
        IF (\E r \in delta.renamed : r.after_id = i) /\ @[i].path # Root
          THEN LET parent == ParentPath[@[i].path] IN
               [@[i] EXCEPT !.parent = IF parent \in DOMAIN maps.by_path
                                         THEN maps.by_path[parent] ELSE 0]
          ELSE @[i]]]

Applied(maps, delta) ==
  LET removed == AfterRemovals(maps, delta)
      added == AfterAdditions(removed, delta)
      modified == AfterModifications(added, delta)
  IN  AfterReparenting(AfterRenames(modified, delta), delta)

\* Mutant of BaseMatches: any state will do.
SomeState(delta) == last_snapshot_id # 0

\* apply_delta is called without a host id and looks for the state that shows
\* the base snapshot.
BaseMatches(record) == last_snapshot_id = record.base

ApplyDelta(seq) ==
  /\ Receive(seq)
  /\ log[seq].type = "Delta"
  /\ BaseMatches(log[seq])
  /\ LET delta == Compute(EntriesOfCapture(log[seq].base),
                                 EntriesOfCapture(log[seq].target))
         maps == Applied([by_id |-> entries_by_id, by_path |-> id_by_path], delta)
     IN  /\ entries_by_id' = maps.by_id
         /\ id_by_path' = maps.by_path
  /\ last_snapshot_id' = log[seq].target
  /\ last_sequence' = seq

\* Without such a state the delta is refused and nothing changes.
RefuseDelta(seq) ==
  /\ Receive(seq)
  /\ log[seq].type = "Delta"
  /\ ~BaseMatches(log[seq])
  /\ UNCHANGED hostVars

SinkNext ==
  \/ \E tree \in Trees : CaptureFull(tree)
  \/ \E tree \in Trees, b \in DOMAIN captures : CaptureUpdate(b, tree)
  \/ \E seq \in DOMAIN log :
       ApplySnapshot(seq) \/ ApplyDelta(seq) \/ RefuseDelta(seq)

SinkSpec == SinkInit /\ [][SinkNext]_sinkVars

-----------------------------------------------------------------------------
\* The state shows the entries of the snapshot it claims to show, at their
\* paths and with their metadata, whatever deltas and repeated snapshots led
\* there (MaterializerSink::apply_snapshot, apply_delta, DeltaEngine::compute).
\* Without inodes, and for further links of one file, entries are paired by the
\* rename heuristic, which does not look at permissions and keeps the old ones.
EntriesMatchClaim ==
  last_snapshot_id # 0 =>
    LET entries == EntriesOfCapture(last_snapshot_id) IN
    /\ DOMAIN entries_by_id = Ids(entries)
    /\ \A e \in entries :
         LET shown == entries_by_id[e.id] IN
         /\ shown.id = e.id /\ shown.path = e.path
         /\ shown.meta.stamp = e.meta.stamp
         /\ posix /\ e.id \in Inodes => shown.meta = e.meta

\* A path never leads to an entry that is gone or now elsewhere: list_children
\* and the removal of a subtree start from id_by_path.
NoDanglingPaths ==
  \A p \in DOMAIN id_by_path :
    /\ id_by_path[p] \in DOMAIN entries_by_id
    /\ entries_by_id[id_by_path[p]].path = p

\* The validator never rejects a delta that was computed, whatever the rename
\* heuristic paired, so an update of a stored snapshot is not refused; and the
\* inverse of a delta is the delta of the other direction, the heuristic pairs
\* the same entries both ways (DeltaEngine::compute, invert, DeltaValidator).
ComputedDeltasAreSound ==
  \A i, j \in DOMAIN captures :
    LET base == EntriesOfCapture(i)
        target == EntriesOfCapture(j)
        delta == Compute(base, target)
    IN  /\ IsValidDelta(delta, base, target)
        /\ Invert(delta) = Compute(target, base)

PathsLead(entries) ==
  \A e \in entries : e.path \in DOMAIN id_by_path /\ id_by_path[e.path] = e.id

ParentsAreShown(entries) ==
  \A e \in entries : entries_by_id[e.id].parent = e.parent

\* Every entry can be found by its path and hangs below the directory that the
\* claimed snapshot puts it in: what the tests expect of a snapshot with a
\* delta applied to it, and what MaterializerSink::list_children relies on.
TreeIsNavigable ==
  last_snapshot_id # 0 =>
    LET entries == EntriesOfCapture(last_snapshot_id)
    IN  PathsLead(entries) /\ ParentsAreShown(entries)

\* A path of the target was that of an entry the delta renames.
TakesOver(base, target) ==
  \E r \in Compute(base, target).renamed, e \in target : e.path = r.old_path

\* An entry stays where it is while the directory around it is replaced.
ReplacesParent(base, target) ==
  \E b \in base, e \in target : b.id = e.id /\ b.path = e.path /\ b.parent # e.parent

\* What a step may do to a tree that can be navigated.
KeepsNavigation ==
  \/ UNCHANGED hostVars
  \/ TreeIsNavigable'
  \/ /\ log[last_sequence'].type = "Delta"
     /\ LET base == EntriesOfCapture(last_snapshot_id)
            target == EntriesOfCapture(last_snapshot_id')
        IN  ~TreeIsNavigable \/ TakesOver(base, target) \/ ReplacesParent(base, target)

\* Nothing else makes a tree that can be navigated one that cannot: a snapshot
\* never does, nor does a refused delta, nor a delta that neither gives away the
\* path of an entry it renames nor puts a new directory around one it leaves
\* alone (the loops of MaterializerSink::apply_delta, in their order).
NavigationLossIsKnown == [][KeepsNavigation]_sinkVars
=============================================================================
