--------------------------- MODULE MCFrontendApi ---------------------------
(***************************************************************************)
(* Two I/O threads.  Either three commands, two workers with room for one  *)
(* task and no upload: a queue fills up when callers give up while its     *)
(* worker is busy.  Or an upload by two threads next to one command.       *)
(* The requests: a directory d that another file of the request is to be;  *)
(* a file twice, with a shorter and a longer content; a file that is there *)
(* already, longer, with one that cannot be decoded and one that is not    *)
(* allowed; and two files that are too large together.                     *)
(***************************************************************************)
EXTENDS FrontendApi, TLC

MCTargets == {"a", "d", "d/b"}
MCDirOf == "a" :> "top" @@ "d" :> "top" @@ "d/b" :> "d"
Sends(p, n) == [path |-> p, size |-> n, encoded |-> TRUE, allowed |-> TRUE]
MCRequests == {
  <<Sends("d/b", 1), Sends("d", 1)>>,
  <<Sends("a", 1), Sends("a", 2)>>,
  <<Sends("a", 1), [Sends("d", 1) EXCEPT !.encoded = FALSE],
    [Sends("d/b", 1) EXCEPT !.allowed = FALSE]>>,
  <<Sends("a", 2), Sends("d/b", 2)>> }

MCWorkloads == {[commands |-> Calls, uploads |-> FALSE]}
                 \cup {[commands |-> {c}, uploads |-> TRUE] : c \in {CHOOSE c \in Calls : TRUE}}
=============================================================================
