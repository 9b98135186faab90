--------------------------- MODULE MCMuninnBridge ---------------------------
(***************************************************************************)
(* Records are told apart by their sequence numbers only, so one value for *)
(* the content of a record is enough.                                      *)
(***************************************************************************)
EXTENDS MuninnBridge
=============================================================================
