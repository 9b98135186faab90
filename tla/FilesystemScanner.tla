------------------------- MODULE FilesystemScanner -------------------------
(***************************************************************************)
(* Muninn's LocalFilesystemScanner::scan on a file system that changes     *)
(* while it is scanned, up to the snapshot that is built and validated.    *)
(*                                                                         *)
(* The scanner makes a system call at a time: the iterator lists a         *)
(* directory when it opens it, the type that decides on recursion is the   *)
(* one that was listed, the type of the entry comes from an lstat of its   *)
(* own, the inode from another one.  Between two of them anything can      *)
(* happen to the files.                                                    *)
(*                                                                         *)
(* std::filesystem::recursive_directory_iterator is external; it is the    *)
(* one of libstdc++: a listing is buffered when a directory is opened,     *)
(* directories without permission are skipped, and any other error ends    *)
(* the traversal, the iterator is the end iterator from then on.           *)
(***************************************************************************)
EXTENDS SnapshotBuild

CONSTANTS
  Disks,        \* what the file system may hold when the scan begins
  ScanOptions,  \* the options to scan with
  Inodes,       \* inode numbers
  MaxChanges    \* bound: changes of the file system during a scan

Types == {"Directory", "File", "Symlink"}
Absent == [type |-> "None", inode |-> 0]
Contents == {Absent} \cup [type : Types, inode : Inodes]

\* Whatever is above a path; a Symlink leads to a directory if it is above one.
Ancestors[p \in Paths] ==
  IF p = Root THEN {} ELSE {ParentPath[p]} \cup Ancestors[ParentPath[p]]

IsDisk(files) ==
  /\ files \in [Paths -> Contents]
  /\ \A p \in Paths \ {Root} :
       files[p].type # "None" => files[ParentPath[p]].type \in {"Directory", "Symlink"}
  /\ \A p, q \in Paths :
       p # q /\ files[p].type # "None" /\ files[p].inode = files[q].inode
         => files[p].type = "File" /\ files[q].type = "File"

ASSUME ScannerAssumption ==
  /\ Inodes \subseteq Nat \ {0}
  /\ Cardinality(Inodes) > Cardinality(Paths)
  /\ \A files \in Disks : IsDisk(files)
  /\ ScanOptions \subseteq
       [follow_symlinks : BOOLEAN, max_entries : Nat \ {0},
        include : SUBSET Paths,      \* paths some include glob matches
        exclude : SUBSET Paths,      \* paths some exclude glob matches
        trailing_slash : BOOLEAN,    \* of the root that was configured
        unreadable : SUBSET Paths]   \* directories the process may not list
  /\ MaxChanges \in Nat

VARIABLES
  disk,       \* the file system
  changes,    \* history: the paths that each change touched
  options,
  pc,         \* the next system call of the scan
  path,       \* the path the iterator stands at
  found,      \* the type its lstat returned
  recursion_pending,
  stack,      \* open directories: what is listed and not yet visited
  raw,        \* result.entries
  diagnostics,
  fault       \* history: what ended the scan early

scanVars == <<options, pc, path, found, recursion_pending, stack, raw,
              diagnostics, fault>>
scannerVars == <<disk, changes, scanVars>>

RawEntries == [path : Paths \cup {0}, type : Types, inode : Inodes \cup {0}]
Listed == [path : Paths, type : Types]

ScanTypeOK ==
  /\ disk \in [Paths -> Contents]
  /\ changes \in Seq(SUBSET Paths)
  /\ options \in ScanOptions
  /\ pc \in {"begin", "status", "metadata", "open", "increment", "done"}
  /\ path \in Listed
  /\ found \in Types
  /\ recursion_pending \in BOOLEAN
  /\ stack \in Seq(SUBSET Listed)
  /\ raw \subseteq RawEntries
  /\ diagnostics \subseteq {"RootPathMissing", "RootPathNotDirectory",
                            "MetadataUnavailable", "EntryLimitExceeded"}
  /\ fault \in {"none", "root", "status", "limit", "traversal"}

RootPath == IF options.trailing_slash THEN 0 ELSE Root

ScannerInit ==
  /\ disk \in Disks
  /\ changes = <<>>
  /\ options \in ScanOptions
  /\ pc = "begin"
  /\ path = [path |-> Root, type |-> "Directory"]
  /\ found = "Directory"
  /\ recursion_pending = TRUE
  /\ stack = <<>>
  /\ raw = {}
  /\ diagnostics = {}
  /\ fault = "none"

-----------------------------------------------------------------------------
(***************************************************************************)
(* The file system.                                                        *)
(***************************************************************************)
Touched(p) == {q \in Paths : q = p \/ p \in Ancestors[q]}

\* A new object gets the lowest inode number that is free, which may be the one
\* of a file that was removed, or is another link to an existing file.
NewInodes(type) ==
  {i \in Inodes :
     \/ /\ \A q \in Paths : disk[q].inode # i
        /\ \A j \in Inodes : j < i => \E q \in Paths : disk[q].inode = j
     \/ /\ type = "File"
        /\ \E q \in Paths : disk[q] = [type |-> "File", inode |-> i]}

\* A path is created, replaced (rename) or removed, with what was below it.
FilesChange(p, new) ==
  /\ pc # "done"
  /\ Len(changes) < MaxChanges
  /\ p # Root => disk[ParentPath[p]].type = "Directory"
  /\ new # disk[p]
  /\ new = Absent \/ new.inode \in NewInodes(new.type)
  /\ disk' = [q \in Paths |-> IF q = p THEN new
                              ELSE IF p \in Ancestors[q] THEN Absent ELSE disk[q]]
  /\ changes' = Append(changes, Touched(p))
  /\ UNCHANGED scanVars

\* A directory is moved to a path, with all that is below it (renamed, or
\* exchanged with what is there).
DirectoryMovesIn(p, files) ==
  /\ pc # "done"
  /\ Len(changes) < MaxChanges
  /\ p # Root /\ disk[ParentPath[p]].type = "Directory"
  /\ disk[p].type # "Directory" /\ files[p].type = "Directory"
  /\ disk' = [q \in Paths |-> IF q \in Touched(p) THEN files[q] ELSE disk[q]]
  /\ IsDisk(disk')
  /\ changes' = Append(changes, Touched(p))
  /\ UNCHANGED scanVars

-----------------------------------------------------------------------------
(***************************************************************************)
(* scan up to the first call of collect_one_entry.                         *)
(***************************************************************************)
End(how) == pc' = "done" /\ fault' = how

\* exists and is_directory follow a symlink; a root that is none is refused.
Begin ==
  /\ pc = "begin"
  /\ IF disk[Root].type \in {"Directory", "Symlink"}
       THEN pc' = "status" /\ UNCHANGED <<diagnostics, fault>>
       ELSE /\ End("root")
            /\ diagnostics' = {IF disk[Root].type = "None" THEN "RootPathMissing"
                                                           ELSE "RootPathNotDirectory"}
  /\ UNCHANGED <<disk, changes, options, path, found, recursion_pending, stack, raw>>

-----------------------------------------------------------------------------
(***************************************************************************)
(* collect_one_entry, in the order of its system calls.                    *)
(***************************************************************************)

\* Mutant of Selected: include globs select directories, too.
SelectedAlsoDirectories(p, type) ==
  p = Root \/ p \in options.include \ options.exclude

\* Globs are matched against the whole path and the name of an entry.
\* Directories stay traversable unless excluded.
Selected(p, type) ==
  \/ p = Root
  \/ type = "Directory" /\ p \notin options.exclude
  \/ p \in options.include \ options.exclude

\* symlink_status; an lstat of a path with a trailing slash follows a symlink.
SymlinkStatus(p) ==
  IF p = Root /\ options.trailing_slash /\ disk[p].type = "Symlink"
    THEN "Directory" ELSE disk[p].type

\* Where the loop goes when an entry is collected or skipped; the first call,
\* for the root, is followed by the constructor of the iterator.
AfterEntry == IF path.path = Root THEN "open" ELSE "increment"

\* symlink_status fails for an entry that is gone: collect_one_entry returns
\* false, and the loop is left.
StatusFails ==
  /\ pc = "status"
  /\ SymlinkStatus(path.path) = "None"
  /\ End("status")
  /\ diagnostics' = diagnostics \cup {"MetadataUnavailable"}
  /\ UNCHANGED <<disk, changes, options, path, found, recursion_pending, stack, raw>>

\* Mutant of Skip: an excluded directory is not entered in the result, its
\* subtree is traversed.
SkipKeepingRecursion ==
  /\ pc = "status"
  /\ SymlinkStatus(path.path) # "None"
  /\ ~Selected(path.path, SymlinkStatus(path.path))
  /\ pc' = "increment"
  /\ UNCHANGED <<disk, changes, options, path, found, recursion_pending, stack, raw,
                 diagnostics, fault>>

\* The globs do not select the entry; an excluded directory is not descended
\* into, as far as symlink_status says that it is one.
Skip ==
  /\ pc = "status"
  /\ SymlinkStatus(path.path) # "None"
  /\ ~Selected(path.path, SymlinkStatus(path.path))
  /\ recursion_pending' = (SymlinkStatus(path.path) # "Directory")
  /\ pc' = "increment"
  /\ UNCHANGED <<disk, changes, options, path, found, stack, raw, diagnostics, fault>>

\* One entry too many ends the scan.
LimitExceeded ==
  /\ pc = "status"
  /\ SymlinkStatus(path.path) # "None"
  /\ Selected(path.path, SymlinkStatus(path.path))
  /\ Cardinality(raw) >= options.max_entries
  /\ End("limit")
  /\ diagnostics' = diagnostics \cup {"EntryLimitExceeded"}
  /\ UNCHANGED <<disk, changes, options, path, found, recursion_pending, stack, raw>>

Status ==
  /\ pc = "status"
  /\ SymlinkStatus(path.path) # "None"
  /\ Selected(path.path, SymlinkStatus(path.path))
  /\ Cardinality(raw) < options.max_entries
  /\ found' = SymlinkStatus(path.path)
  /\ pc' = "metadata"
  /\ UNCHANGED <<disk, changes, options, path, recursion_pending, stack, raw,
                 diagnostics, fault>>

\* Mutant of Metadata: the type is read again, whatever it is by now.
MetadataWithType ==
  /\ pc = "metadata"
  /\ raw' = raw \cup {[path  |-> IF path.path = Root THEN RootPath ELSE path.path,
                       type  |-> disk[path.path].type,
                       inode |-> disk[path.path].inode]}
  /\ pc' = AfterEntry
  /\ UNCHANGED <<disk, changes, options, path, found, recursion_pending, stack,
                 diagnostics, fault>>

\* fill_entry_metadata: the lstat that reads the inode finds what is there by
\* now; when that is nothing, the inode stays 0 and the entry is kept.  The
\* size of a file is not told apart here.
Metadata ==
  /\ pc = "metadata"
  /\ raw' = raw \cup {[path  |-> IF path.path = Root THEN RootPath ELSE path.path,
                       type  |-> found,
                       inode |-> disk[path.path].inode]}
  /\ pc' = AfterEntry
  /\ UNCHANGED <<disk, changes, options, path, found, recursion_pending, stack,
                 diagnostics, fault>>

-----------------------------------------------------------------------------
(***************************************************************************)
(* The iterator.                                                           *)
(***************************************************************************)
Listing(d) ==
  {[path |-> p, type |-> disk[p].type] :
     p \in {q \in Paths \ {Root} : ParentPath[q] = d /\ disk[q].type # "None"}}

\* The directories that are still open when d, if anything, was opened too.
Pushed(d) == IF d \in options.unreadable THEN stack ELSE <<Listing(d)>> \o stack

\* The next entry in the order of readdir, which is any; directories that are
\* used up are closed.
Advance(dirs) ==
  LET open == {i \in DOMAIN dirs : dirs[i] # {}} IN
  IF open = {}
    THEN /\ End("none")
         /\ UNCHANGED <<path, recursion_pending, stack>>
    ELSE LET top == CHOOSE i \in open : \A j \in open : i <= j IN
         \E e \in dirs[top] :
           /\ path' = e
           /\ recursion_pending' = TRUE
           /\ stack' = <<dirs[top] \ {e}>> \o SubSeq(dirs, top + 1, Len(dirs))
           /\ pc' = "status"
           /\ UNCHANGED fault

\* The constructor opens the root, following a symlink.
OpenRoot ==
  /\ pc = "open"
  /\ IF disk[Root].type \in {"Directory", "Symlink"}
       THEN Advance(Pushed(Root))
       ELSE End("traversal") /\ UNCHANGED <<path, recursion_pending, stack>>
  /\ UNCHANGED <<disk, changes, options, found, raw, diagnostics>>

\* What was listed as a directory is opened without following symlinks.
EntersDirectory == recursion_pending /\ path.type = "Directory"

\* What was listed as a symlink is looked at again.
EntersSymlink ==
  /\ recursion_pending /\ path.type = "Symlink" /\ options.follow_symlinks
  /\ disk[path.path].type \in {"Directory", "Symlink"}

Opens(d) ==
  \/ disk[d].type = "Directory"
  \/ disk[d].type = "Symlink" /\ options.follow_symlinks

\* increment(ec).  When opening fails the loop condition ends the loop: its
\* body, which reports ec and goes on, does not see an error.
Increment ==
  /\ pc = "increment"
  /\ IF EntersDirectory /\ ~Opens(path.path)
       THEN End("traversal") /\ UNCHANGED <<path, recursion_pending, stack>>
       ELSE Advance(IF EntersDirectory \/ EntersSymlink
                      THEN Pushed(path.path) ELSE stack)
  /\ UNCHANGED <<disk, changes, options, found, raw, diagnostics>>

ScannerNext ==
  \/ \E p \in Paths, new \in Contents : FilesChange(p, new)
  \/ \E p \in Paths, files \in Disks : DirectoryMovesIn(p, files)
  \/ Begin
  \/ StatusFails
  \/ Skip
  \/ LimitExceeded
  \/ Status
  \/ Metadata
  \/ OpenRoot
  \/ Increment

ScannerSpec == ScannerInit /\ [][ScannerNext]_scannerVars

-----------------------------------------------------------------------------
\* The snapshot that IndexingPipeline builds from the result.
Snapshot == BuildSnapshot(raw, RootPath)

ChangedTwice ==
  \E i, j \in DOMAIN changes : i < j /\ changes[i] \cap changes[j] # {}

Stable(p) == \A i \in DOMAIN changes : p \notin changes[i]

Pruned(p) ==
  \E d \in Ancestors[p] \ {Root} : d \in options.exclude \cup options.unreadable

\* Whatever is created, removed, replaced, linked or moved while the scan runs,
\* and wherever it is cut short, its result is a snapshot that the validator
\* accepts, hard links and reused inodes included: a rejected one needs a path
\* that changes twice during the scan, or a configuration that no scan satisfies
\* (a root with a trailing slash, a root that is a symlink, follow_symlinks).
CapturedTreesAreValid ==
  pc = "done" /\ raw # {} /\ ~options.trailing_slash /\ ~options.follow_symlinks
    /\ ~ChangedTwice /\ (\E e \in raw : e.path = Root /\ e.type = "Directory")
      => IsValidSnapshot(Snapshot)

\* README "scan-include filters non-directory entries; directories remain
\* traversable unless excluded": what is there during the whole scan is in the
\* result with its type, unless the options leave it out or the scan was cut
\* short.
IsCaptured(p) ==
  \E e \in raw : e.path = p /\ e.type = disk[p].type

ShouldCapture(p) ==
  /\ p # Root /\ disk[p].type # "None"
  /\ \A q \in Ancestors[p] \cup {p} : Stable(q)
  /\ \A q \in Ancestors[p] \ {Root} : disk[q].type = "Directory"
  /\ Root \notin options.unreadable /\ ~Pruned(p)
  /\ p \notin options.exclude
  /\ disk[p].type = "Directory" \/ p \in options.include

StableEntriesAreCaptured ==
  pc = "done" /\ fault = "none" => \A p \in Paths : ShouldCapture(p) => IsCaptured(p)

\* README "scan-exclude applied to directories prunes subtree traversal": no
\* entry below an excluded directory is in the result, unless that directory
\* was exchanged for something else and back, or is a symlink that is followed.
ExcludedSubtreesArePruned ==
  ~options.follow_symlinks /\ ~ChangedTwice =>
    \A e \in raw : e.path # 0 =>
      \A d \in Ancestors[e.path] : d = Root \/ d \notin options.exclude

\* What the message of the loop says of an error, "Traversal encountered an
\* error and skipped an entry": the other entries, those that are there during
\* the whole scan, are in the result.
ErrorsSkipOneEntry ==
  pc = "done" /\ fault = "traversal"
    => \A p \in Paths : ShouldCapture(p) => IsCaptured(p)
=============================================================================
