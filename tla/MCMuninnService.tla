-------------------------- MODULE MCMuninnService --------------------------
(***************************************************************************)
(* Two states of the watched tree and a capture in each second: every      *)
(* (second, content) pair has its own snapshot id, and within a second the *)
(* larger id belongs to the larger content, so that retention can prefer   *)
(* either the older or the younger of two captures of one second.          *)
(* Beyond what the threads do, MCService.cfg has at most one event: none,  *)
(* where the remote worker and the watch loop capture, delete and retain   *)
(* the same two snapshots of a second; a tick, and there are two more; a   *)
(* crash; or a failing cleanup.  MCServiceRace.cfg has only the tick, so   *)
(* that a base and its target differ in both, and room for one more record. *)
(***************************************************************************)
EXTENDS MuninnService

MCContents == {0, 1}
MCSnapshotIds == 1 .. 2 * (MaxTime + 1)
MCCreatedAt == [id \in MCSnapshotIds |-> (id - 1) \div 2]
MCContentOf == [id \in MCSnapshotIds |-> (id - 1) % 2]
MCDeltaPairs == MCSnapshotIds \X MCSnapshotIds
MCRecords == {SnapshotRecord(t) : t \in MCSnapshotIds}
               \cup {DeltaRecord(d[1], d[2]) : d \in MCDeltaPairs}
=============================================================================
