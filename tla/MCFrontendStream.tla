-------------------------- MODULE MCFrontendStream --------------------------
(***************************************************************************)
(* Frames of one unit and of four, the latter over the byte limit of three *)
(* alone; one may be queued, and two threads run the handlers.             *)
(***************************************************************************)
EXTENDS FrontendStream

MCSizes == {1, 4}
AllPolicies == {"DropNewest", "DropOldest", "Disconnect"}
DefaultPolicy == {"DropOldest"}
=============================================================================
