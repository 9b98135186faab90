------------------------- MODULE MCMaterializerSink -------------------------
(***************************************************************************)
(* A directory with three subdirectories and a file of the same name in    *)
(* each.  The trees differ by what the scanner has to tell apart: a file   *)
(* that changes, moves or is replaced, a directory that moves with its     *)
(* file, one that is replaced, and two that trade places; and, in the      *)
(* trees with a second link to a file, that link elsewhere, or being the   *)
(* only one that is left.                                                  *)
(***************************************************************************)
EXTENDS MaterializerSink, TLC

MCPaths == 1..7                       \* r, r/d, r/d/x, r/e, r/e/x, r/f, r/f/x
MCParentPath == 2 :> 1 @@ 3 :> 2 @@ 4 :> 1 @@ 5 :> 4 @@ 6 :> 1 @@ 7 :> 6
MCNameOf == 1 :> "r" @@ 2 :> "d" @@ 3 :> "x" @@ 4 :> "e" @@ 5 :> "x"
              @@ 6 :> "f" @@ 7 :> "x"
MCInodes == 1..7

Found(i, s, p) == [inode |-> i, stamp |-> s, permissions |-> p]
RootDir == 1 :> Found(1, 1, 1)
Dir(path, i) == path :> Found(i, 1, 1)

MCTrees == {
  RootDir @@ Dir(2, 2) @@ 3 :> Found(3, 1, 1) @@ Dir(4, 4),
  RootDir @@ Dir(2, 2) @@ 3 :> Found(3, 2, 1) @@ Dir(4, 4),                  \* written
  RootDir @@ Dir(2, 2) @@ Dir(4, 4) @@ 5 :> Found(3, 1, 2),                  \* moved
  RootDir @@ Dir(2, 2) @@ 3 :> Found(3, 1, 1) @@ Dir(4, 4) @@ 5 :> Found(5, 1, 1),
  RootDir @@ Dir(4, 2) @@ 5 :> Found(3, 1, 1),                               \* d became e
  RootDir @@ Dir(2, 4) @@ 3 :> Found(3, 2, 2) @@ Dir(4, 2),                  \* d, e swapped
  RootDir @@ Dir(2, 7) @@ Dir(4, 2) @@ 5 :> Found(3, 1, 1),                  \* d made anew
  RootDir @@ Dir(2, 7) @@ 3 :> Found(3, 1, 1) @@ Dir(4, 4),                  \* around its file
  RootDir,
  RootDir @@ Dir(2, 2) @@ 3 :> Found(3, 1, 1) @@ Dir(4, 4) @@ 5 :> Found(3, 1, 1),
  RootDir @@ Dir(2, 2) @@ 3 :> Found(3, 1, 2) @@ Dir(6, 6) @@ 7 :> Found(3, 1, 2) }
=============================================================================
