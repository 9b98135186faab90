---------------------------- MODULE MCLmdbStore ----------------------------
(***************************************************************************)
(* MCStore.cfg: three snapshots, two of them captured in the same second,  *)
(* so that the tie-break on the id decides what retention keeps, and the   *)
(* deltas that lead from each of those two to the third.  Two consumers    *)
(* and three sequence numbers: one consumer can be ahead of the other, a   *)
(* transaction can enqueue a batch of two behind or before another record, *)
(* an acknowledgement can go beyond the end, and a record can follow a     *)
(* compaction.                                                             *)
(***************************************************************************)
EXTENDS LmdbStore, TLC

MCSnapshotIds == 1..3
MCCreatedAt == [id \in MCSnapshotIds |-> IF id < 3 THEN 1 ELSE 2]
MCDeltaPairs == {<<1, 3>>, <<2, 3>>}
MCRecords == {SnapshotRecord(t) : t \in MCSnapshotIds}
               \cup {DeltaRecord(d[1], d[2]) : d \in MCDeltaPairs}

\* The two consumers are interchangeable; no liveness property is checked.
MCConsumerSymmetry == Permutations(Consumers)
=============================================================================
