------------------------ MODULE MCIngestCoordinator ------------------------
(***************************************************************************)
(* MCIngest.cfg: two overlapping callers, four records, two crashes.  The  *)
(* state of a host is touched by calls for that host only, so one host is  *)
(* enough; the theorems hold for every set of hosts.                       *)
(***************************************************************************)
EXTENDS IngestCoordinator
=============================================================================
