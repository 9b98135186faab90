----------------------------- MODULE LmdbStore -----------------------------
(***************************************************************************)
(* Muninn's LmdbStore: the snapshots and deltas databases next to the      *)
(* transport outbox.  A call that stores and announces (put_..._with_      *)
(* transport) does both in one write transaction.                          *)
(*                                                                         *)
(* A snapshot id is a hash over the capture time and all entries, so the   *)
(* id determines the payload: CreatedAt is a function of the id and        *)
(* storing an id twice changes nothing.                                    *)
(***************************************************************************)
EXTENDS TransportOutbox

CONSTANTS
  SnapshotIds,  \* the snapshot ids that can occur, positive integers
  CreatedAt,    \* capture time of a snapshot, in seconds
  DeltaPairs,   \* bound: the <<base, target>> a delta is computed for
  MaxKeep       \* bound: the largest retention count tried

SnapshotRecord(id) == [type |-> "Snapshot", base |-> 0, target |-> id]
DeltaRecord(b, t) == [type |-> "Delta", base |-> b, target |-> t]

ASSUME StoreAssumption ==
  /\ SnapshotIds \subseteq Nat \ {0}
  /\ CreatedAt \in [SnapshotIds -> Nat]
  /\ MaxKeep \in Nat
  /\ \A t \in SnapshotIds : SnapshotRecord(t) \in Records
  /\ DeltaPairs \subseteq SnapshotIds \X SnapshotIds
  /\ \A d \in DeltaPairs : DeltaRecord(d[1], d[2]) \in Records
  /\ MaxBatch >= 2

VARIABLES
  snapshots,    \* ids of the stored snapshots
  deltas        \* keys <<base, target>> of the stored deltas

storeVars == <<outbox, next_sequence, consumer_ack, snapshots, deltas>>

StoreTypeOK ==
  /\ OutboxTypeOK
  /\ snapshots \subseteq SnapshotIds
  /\ deltas \subseteq SnapshotIds \X SnapshotIds

-----------------------------------------------------------------------------
Touches(d, id) == d[1] = id \/ d[2] = id

\* The sort order of apply_snapshot_retention: newer capture time first, then
\* the larger id.
Newer(i, j) ==
  \/ CreatedAt[i] > CreatedAt[j]
  \/ CreatedAt[i] = CreatedAt[j] /\ i > j

\* Mutant of Retained: the comparison with the count is off by one.
RetainedOneMore(keep) ==
  {i \in snapshots : Cardinality({j \in snapshots : Newer(j, i)}) <= keep}

\* The first "keep" snapshots in that order.
Retained(keep) ==
  {i \in snapshots : Cardinality({j \in snapshots : Newer(j, i)}) < keep}

-----------------------------------------------------------------------------
StoreInit ==
  /\ OutboxInit
  /\ snapshots = {}
  /\ deltas = {}

\* put_snapshot and put_snapshot_with_transport.
PutSnapshotWithTransport(id, enqueue) ==
  /\ snapshots' = snapshots \cup {id}
  /\ IF enqueue THEN EnqueueRecords(<<SnapshotRecord(id)>>)
                ELSE UNCHANGED outboxVars
  /\ UNCHANGED deltas

\* Mutant: the delta is announced before the snapshot it leads to.
PutDeltaAnnouncedFirst(b, t, enqueue) ==
  /\ snapshots' = snapshots \cup {t}
  /\ deltas' = deltas \cup {<<b, t>>}
  /\ IF enqueue THEN EnqueueRecords(<<DeltaRecord(b, t), SnapshotRecord(t)>>)
                ELSE UNCHANGED outboxVars

\* Mutant: only the delta is announced.
PutDeltaAnnouncedAlone(b, t, enqueue) ==
  /\ snapshots' = snapshots \cup {t}
  /\ deltas' = deltas \cup {<<b, t>>}
  /\ IF enqueue THEN EnqueueRecords(<<DeltaRecord(b, t)>>)
                ELSE UNCHANGED outboxVars

\* Mutant: the key of the delta is built without its base.
PutDeltaWithoutBase(b, t, enqueue) ==
  /\ snapshots' = snapshots \cup {t}
  /\ deltas' = deltas \cup {<<0, t>>}
  /\ IF enqueue THEN EnqueueRecords(<<SnapshotRecord(t), DeltaRecord(b, t)>>)
                ELSE UNCHANGED outboxVars

\* Snapshot, delta and both records in one transaction.  The base snapshot
\* was read in an earlier transaction and is not looked up again.
PutSnapshotAndDeltaWithTransport(b, t, enqueue) ==
  /\ snapshots' = snapshots \cup {t}
  /\ deltas' = deltas \cup {<<b, t>>}
  /\ IF enqueue THEN EnqueueRecords(<<SnapshotRecord(t), DeltaRecord(b, t)>>)
                ELSE UNCHANGED outboxVars

\* put_delta stores a delta by itself; the endpoints need not be stored.
PutDelta(b, t) ==
  /\ deltas' = deltas \cup {<<b, t>>}
  /\ UNCHANGED outboxVars
  /\ UNCHANGED snapshots

\* enqueue_snapshot and enqueue_delta announce without storing.
EnqueueOnly(rec) ==
  /\ EnqueueRecords(<<rec>>)
  /\ UNCHANGED <<snapshots, deltas>>

\* Mutant of DeleteSnapshot: only the deltas that start at id are removed.
DeleteSnapshotAndOutgoing(id) ==
  /\ id \in snapshots
  /\ snapshots' = snapshots \ {id}
  /\ deltas' = {d \in deltas : d[1] # id}
  /\ UNCHANGED outboxVars

\* Mutant of DeleteSnapshot: the records that announce id are purged too.
DeleteSnapshotAndRecords(id) ==
  /\ id \in snapshots
  /\ snapshots' = snapshots \ {id}
  /\ deltas' = {d \in deltas : ~Touches(d, id)}
  /\ outbox' = [s \in {t \in DOMAIN outbox : outbox[t].target # id} |-> outbox[s]]
  /\ UNCHANGED <<next_sequence, consumer_ack>>

\* An id that is not stored is NotFound and changes nothing.
DeleteSnapshot(id) ==
  /\ id \in snapshots
  /\ snapshots' = snapshots \ {id}
  /\ deltas' = {d \in deltas : ~Touches(d, id)}
  /\ UNCHANGED outboxVars

\* With at most "keep" snapshots the transaction is aborted; otherwise only
\* deltas with both endpoints retained stay.
ApplySnapshotRetention(keep) ==
  /\ Cardinality(snapshots) > keep
  /\ snapshots' = Retained(keep)
  /\ deltas' = {d \in deltas : d[1] \in Retained(keep) /\ d[2] \in Retained(keep)}
  /\ UNCHANGED outboxVars

StoreNext ==
  \/ \E id \in SnapshotIds, e \in BOOLEAN : PutSnapshotWithTransport(id, e)
  \/ \E d \in DeltaPairs, e \in BOOLEAN :
        PutSnapshotAndDeltaWithTransport(d[1], d[2], e)
  \/ \E d \in DeltaPairs : PutDelta(d[1], d[2])
  \/ \E t \in SnapshotIds : EnqueueOnly(SnapshotRecord(t))
  \/ \E d \in DeltaPairs : EnqueueOnly(DeltaRecord(d[1], d[2]))
  \/ \E id \in SnapshotIds : DeleteSnapshot(id)
  \/ \E keep \in 0..MaxKeep : ApplySnapshotRetention(keep)
  \/ /\ \/ \E c \in Consumers : RegisterTransportConsumer(c)
        \/ \E c \in Consumers, seq \in 0..MaxSequence : AckTransportUntil(c, seq)
        \/ CompactUpToMinAcked
     /\ UNCHANGED <<snapshots, deltas>>

StoreSpec == StoreInit /\ [][StoreNext]_storeVars

-----------------------------------------------------------------------------
\* The outbox keeps its own promises while it shares transactions with the
\* snapshot and delta tables: every store step is an outbox step.
OutboxImplemented == OutboxSpec

\* Removing a snapshot, by delete_snapshot or by retention, takes every delta
\* that starts or ends at it along in the same transaction.
NoStepOrphansDeltas ==
  \A id \in snapshots \ snapshots' : \A d \in deltas' : ~Touches(d, id)

RemovalTakesItsDeltas == [][NoStepOrphansDeltas]_storeVars

\* README "retain newest n snapshots": in every state the set that retention
\* would keep has exactly n members (all, if there are fewer), and nothing it
\* drops was captured later than something it keeps.
RetentionKeepsNewest ==
  \A keep \in 0..MaxKeep :
    /\ Cardinality(Retained(keep)) =
         IF Cardinality(snapshots) <= keep THEN Cardinality(snapshots) ELSE keep
    /\ \A i \in Retained(keep), j \in snapshots \ Retained(keep) :
         CreatedAt[i] >= CreatedAt[j]

=============================================================================
