------------------------ MODULE MCFilesystemScanner ------------------------
(***************************************************************************)
(* A root with two directories and a file in either.  Two changes during a *)
(* scan are enough for a file to move (it is linked at one place, unlinked *)
(* at the other), for a directory to be replaced and put back, and for two *)
(* directories to change at once.  The disks: plain files, two links to    *)
(* one file, and a symlink to a directory.                                 *)
(***************************************************************************)
EXTENDS FilesystemScanner, TLC

MCPaths == 1..5                            \* r, r/d, r/d/x, r/e, r/e/x
MCParentPath == 2 :> 1 @@ 3 :> 2 @@ 4 :> 1 @@ 5 :> 4
MCInodes == 1..6

Holds(type, i) == [type |-> type, inode |-> i]
MCPlain == 1 :> Holds("Directory", 1) @@ 2 :> Holds("Directory", 2)
             @@ 3 :> Holds("File", 3) @@ 4 :> Holds("Directory", 4)
MCDisks == {
  MCPlain @@ 5 :> Holds("File", 5),
  MCPlain @@ 5 :> Holds("File", 3),
  4 :> Holds("Symlink", 4) @@ 5 :> Holds("File", 5) @@ MCPlain }

Plain == [follow_symlinks |-> FALSE, max_entries |-> 9, include |-> MCPaths,
          exclude |-> {}, trailing_slash |-> FALSE, unreadable |-> {}]
MCScanOptions == {
  Plain,
  [Plain EXCEPT !.max_entries = 3],
  [Plain EXCEPT !.exclude = {2}, !.include = {3}],
  [Plain EXCEPT !.follow_symlinks = TRUE, !.unreadable = {2}],
  [Plain EXCEPT !.trailing_slash = TRUE] }
=============================================================================
