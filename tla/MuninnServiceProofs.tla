------------------------ MODULE MuninnServiceProofs ------------------------
(***************************************************************************)
(* Proofs about the store of Muninn and about serve mode, which uses it.   *)
(*                                                                         *)
(* Of the store: sharing transactions with the snapshot and delta tables   *)
(* does not change what the outbox promises, and no snapshot leaves the    *)
(* store without its deltas.  That retention keeps the newest is a matter  *)
(* of counting: a snapshot is kept when fewer than "keep" are newer, and   *)
(* the numbers of newer ones are all different.                            *)
(*                                                                         *)
(* Of serve mode: whatever its threads interleave, every step is a call of *)
(* the store, so what is proved of the store holds of the service; and     *)
(* without remote commands every stored delta can be applied.  DeltaInv is *)
(* about the base a capture holds between two transactions, RetentionBound *)
(* is inductive as it stands.                                              *)
(***************************************************************************)
EXTENDS MuninnService, TransportOutboxProofs

-----------------------------------------------------------------------------
(***************************************************************************)
(* The store.                                                              *)
(***************************************************************************)
USE StoreAssumption

\* A transaction announces one record or two, and both are batches.
LEMMA BatchFacts ==
  /\ \A r \in Records : <<r>> \in Batches
  /\ \A r1, r2 \in Records : <<r1, r2>> \in Batches
<1>1. 1 \in 1..MaxBatch /\ 2 \in 1..MaxBatch
  BY OutboxAssumption, StoreAssumption
<1>2. ASSUME NEW r \in Records PROVE <<r>> \in Batches
  <2>1. <<r>> \in [1..1 -> Records]
    OBVIOUS
  <2>2. QED
    BY <1>1, <2>1 DEF Batches
<1>3. ASSUME NEW r1 \in Records, NEW r2 \in Records PROVE <<r1, r2>> \in Batches
  <2>1. <<r1, r2>> \in [1..2 -> Records]
    OBVIOUS
  <2>2. QED
    BY <1>1, <2>1 DEF Batches
<1>4. QED
  BY <1>2, <1>3

\* Every transaction of the store is one transaction of the outbox or leaves
\* the outbox alone.
LEMMA StoreStepIsOutboxStep ==
  ASSUME [StoreNext]_storeVars
  PROVE  [OutboxNext]_outboxVars
<1>1. ASSUME NEW id \in SnapshotIds, NEW e \in BOOLEAN,
             PutSnapshotWithTransport(id, e)
      PROVE  [OutboxNext]_outboxVars
  <2>1. SnapshotRecord(id) \in Records
    OBVIOUS
  <2>2. <<SnapshotRecord(id)>> \in Batches
    BY <2>1, BatchFacts
  <2>3. QED
    BY <1>1, <2>2 DEF PutSnapshotWithTransport, OutboxNext
<1>2. ASSUME NEW d \in DeltaPairs, NEW e \in BOOLEAN,
             PutSnapshotAndDeltaWithTransport(d[1], d[2], e)
      PROVE  [OutboxNext]_outboxVars
  <2>1. SnapshotRecord(d[2]) \in Records /\ DeltaRecord(d[1], d[2]) \in Records
    OBVIOUS
  <2>2. <<SnapshotRecord(d[2]), DeltaRecord(d[1], d[2])>> \in Batches
    BY <2>1, BatchFacts
  <2>3. QED
    BY <1>2, <2>2 DEF PutSnapshotAndDeltaWithTransport, OutboxNext
<1>3. ASSUME NEW rec \in Records, EnqueueOnly(rec)
      PROVE  [OutboxNext]_outboxVars
  BY <1>3, BatchFacts DEF EnqueueOnly, OutboxNext
<1>4. ASSUME NEW d \in DeltaPairs, PutDelta(d[1], d[2])
      PROVE  [OutboxNext]_outboxVars
  BY <1>4 DEF PutDelta
<1>5. ASSUME NEW id \in SnapshotIds, DeleteSnapshot(id)
      PROVE  [OutboxNext]_outboxVars
  BY <1>5 DEF DeleteSnapshot
<1>6. ASSUME NEW keep \in 0..MaxKeep, ApplySnapshotRetention(keep)
      PROVE  [OutboxNext]_outboxVars
  BY <1>6 DEF ApplySnapshotRetention
<1>7. CASE UNCHANGED storeVars
  BY <1>7 DEF storeVars, outboxVars
<1>8. CASE \/ \E c \in Consumers : RegisterTransportConsumer(c)
           \/ \E c \in Consumers, seq \in 0..MaxSequence :
                AckTransportUntil(c, seq)
           \/ CompactUpToMinAcked
  BY <1>8 DEF OutboxNext
<1>9. /\ \A t \in SnapshotIds : SnapshotRecord(t) \in Records
      /\ \A d \in DeltaPairs : DeltaRecord(d[1], d[2]) \in Records
  OBVIOUS
<1>10. QED
  BY <1>1, <1>2, <1>3, <1>4, <1>5, <1>6, <1>7, <1>8, <1>9 DEF StoreNext

\* The store implements the outbox, so everything proved of the outbox holds
\* of it inside the store.
THEOREM OutboxTheorem == StoreSpec => OutboxImplemented
<1>1. StoreInit => OutboxInit
  BY DEF StoreInit
<1>2. [StoreNext]_storeVars => [OutboxNext]_outboxVars
  BY StoreStepIsOutboxStep
<1>3. QED
  BY <1>1, <1>2, PTL DEF StoreSpec, OutboxImplemented, OutboxSpec

-----------------------------------------------------------------------------
TablesTypeOK ==
  /\ snapshots \subseteq SnapshotIds
  /\ deltas \subseteq SnapshotIds \X SnapshotIds

LEMMA TablesStep ==
  ASSUME TablesTypeOK, [StoreNext]_storeVars
  PROVE  TablesTypeOK'
<1>1. ASSUME NEW id \in SnapshotIds, NEW e \in BOOLEAN,
             PutSnapshotWithTransport(id, e)
      PROVE  TablesTypeOK'
  BY <1>1 DEF PutSnapshotWithTransport, TablesTypeOK
<1>2. ASSUME NEW d \in DeltaPairs, NEW e \in BOOLEAN,
             PutSnapshotAndDeltaWithTransport(d[1], d[2], e)
      PROVE  TablesTypeOK'
  <2>1. d[1] \in SnapshotIds /\ d[2] \in SnapshotIds
    OBVIOUS
  <2>2. /\ snapshots' = snapshots \cup {d[2]}
        /\ deltas' = deltas \cup {<<d[1], d[2]>>}
    BY <1>2 DEF PutSnapshotAndDeltaWithTransport
  <2>3. snapshots' \subseteq SnapshotIds
    BY <2>1, <2>2 DEF TablesTypeOK
  <2>4. deltas' \subseteq SnapshotIds \X SnapshotIds
    BY <2>1, <2>2 DEF TablesTypeOK
  <2>5. QED
    BY <2>3, <2>4 DEF TablesTypeOK
<1>3. ASSUME NEW d \in DeltaPairs, PutDelta(d[1], d[2])
      PROVE  TablesTypeOK'
  <2>1. d[1] \in SnapshotIds /\ d[2] \in SnapshotIds
    OBVIOUS
  <2>2. QED
    BY <1>3, <2>1 DEF PutDelta, TablesTypeOK
<1>4. ASSUME NEW id \in SnapshotIds, DeleteSnapshot(id)
      PROVE  TablesTypeOK'
  BY <1>4 DEF DeleteSnapshot, TablesTypeOK
<1>5. ASSUME NEW keep \in 0..MaxKeep, ApplySnapshotRetention(keep)
      PROVE  TablesTypeOK'
  BY <1>5 DEF ApplySnapshotRetention, Retained, TablesTypeOK
<1>6. ASSUME UNCHANGED <<snapshots, deltas>>
      PROVE  TablesTypeOK'
  BY <1>6 DEF TablesTypeOK
<1>7. QED
  BY <1>1, <1>2, <1>3, <1>4, <1>5, <1>6 DEF StoreNext, EnqueueOnly, storeVars

\* Types of all five databases, from the outbox invariant and the tables.
THEOREM StoreTypeTheorem == StoreSpec => []StoreTypeOK
<1>1. StoreInit => TablesTypeOK
  BY DEF StoreInit, TablesTypeOK
<1>2. TablesTypeOK /\ [StoreNext]_storeVars => TablesTypeOK'
  BY TablesStep
<1>3. StoreSpec => []TablesTypeOK
  BY <1>1, <1>2, PTL DEF StoreSpec
<1>4. OutboxInv /\ TablesTypeOK => StoreTypeOK
  BY DEF OutboxInv, TablesTypeOK, StoreTypeOK
<1>5. QED
  BY <1>3, <1>4, OutboxTheorem, OutboxInvariant, PTL DEF OutboxImplemented

\* When delete_snapshot or retention removes a snapshot, no delta that starts
\* or ends at it survives the transaction.
THEOREM RemovalTheorem == StoreSpec => RemovalTakesItsDeltas
<1>1. [StoreNext]_storeVars => [NoStepOrphansDeltas]_storeVars
  <2>1. ASSUME NEW id \in SnapshotIds, DeleteSnapshot(id)
        PROVE  NoStepOrphansDeltas
    BY <2>1 DEF DeleteSnapshot, NoStepOrphansDeltas
  <2>2. ASSUME NEW keep \in 0..MaxKeep, ApplySnapshotRetention(keep)
        PROVE  NoStepOrphansDeltas
    BY <2>2 DEF ApplySnapshotRetention, NoStepOrphansDeltas, Touches
  <2>3. ASSUME snapshots \subseteq snapshots'
        PROVE  NoStepOrphansDeltas
    BY <2>3 DEF NoStepOrphansDeltas
  <2>4. QED
    BY <2>1, <2>2, <2>3
       DEF StoreNext, PutSnapshotWithTransport,
           PutSnapshotAndDeltaWithTransport, PutDelta, EnqueueOnly
<1>2. QED
  BY <1>1, PTL DEF StoreSpec, RemovalTakesItsDeltas

-----------------------------------------------------------------------------
(***************************************************************************)
(* Retention.  The rank of a snapshot is the number of newer ones.  Ranks  *)
(* are different, so they are exactly 0 to the number of snapshots minus   *)
(* one, and "rank below keep" picks keep snapshots.                        *)
(***************************************************************************)
LEMMA NewerIsTotalOrder ==
  /\ \A i \in SnapshotIds : ~Newer(i, i)
  /\ \A i, j \in SnapshotIds : i # j => Newer(i, j) \/ Newer(j, i)
  /\ \A i, j, k \in SnapshotIds : Newer(i, j) /\ Newer(j, k) => Newer(i, k)
<1>1. \A i \in SnapshotIds : i \in Nat /\ CreatedAt[i] \in Nat
  OBVIOUS
<1>2. QED
  BY <1>1 DEF Newer

\* The sort order of apply_snapshot_retention with a count of keep: exactly
\* keep snapshots are retained, and none that is dropped is newer.
LEMMA RetentionCounts ==
  ASSUME snapshots \subseteq SnapshotIds, IsFiniteSet(snapshots), NEW keep \in Nat
  PROVE  /\ Cardinality(Retained(keep)) =
              IF Cardinality(snapshots) <= keep THEN Cardinality(snapshots)
                                                ELSE keep
         /\ \A i \in Retained(keep), j \in snapshots \ Retained(keep) : Newer(i, j)
<1> DEFINE N == Cardinality(snapshots)
           Above(i) == {j \in snapshots : Newer(j, i)}
           rank == [i \in snapshots |-> Cardinality(Above(i))]
<1>1. N \in Nat
  BY FS_CardinalityType
<1>2. ASSUME NEW i \in snapshots
      PROVE  IsFiniteSet(Above(i)) /\ rank[i] \in 0..(N - 1)
  <2>1. Above(i) \in SUBSET (snapshots \ {i})
    BY NewerIsTotalOrder
  <2>2. IsFiniteSet(snapshots \ {i}) /\ Cardinality(snapshots \ {i}) = N - 1
    BY FS_RemoveElement
  <2>3. IsFiniteSet(Above(i)) /\ Cardinality(Above(i)) <= N - 1
    BY <2>1, <2>2, FS_Subset
  <2>4. Cardinality(Above(i)) \in Nat
    BY <2>3, FS_CardinalityType
  <2>5. QED
    BY <1>1, <2>3, <2>4
<1>3. ASSUME NEW i \in snapshots, NEW j \in snapshots, Newer(i, j)
      PROVE  rank[i] < rank[j]
  <2>1. Above(i) \in SUBSET Above(j) /\ i \in Above(j) /\ i \notin Above(i)
    BY <1>3, NewerIsTotalOrder
  <2>2. /\ Cardinality(Above(i)) <= Cardinality(Above(j))
        /\ Cardinality(Above(j)) # Cardinality(Above(i))
    BY <1>2, <2>1, FS_Subset
  <2>3. rank[i] = Cardinality(Above(i)) /\ rank[j] = Cardinality(Above(j))
    OBVIOUS
  <2> HIDE DEF rank, Above, N
  <2>4. rank[i] <= rank[j] /\ rank[j] # rank[i]
    BY <2>2, <2>3
  <2>5. rank[i] \in Int /\ rank[j] \in Int
    BY <1>1, <1>2
  <2>6. QED
    BY <2>4, <2>5
<1> HIDE DEF rank, N
<1>4. rank \in [snapshots -> 0..(N - 1)]
  BY <1>2 DEF rank
<1>5. rank \in Injection(snapshots, 0..(N - 1))
  <2>1. ASSUME NEW i \in snapshots, NEW j \in snapshots, rank[i] = rank[j]
        PROVE  i = j
    <3>1. rank[i] \in Int /\ ~(rank[i] < rank[j]) /\ ~(rank[j] < rank[i])
      BY <1>1, <1>4, <2>1
    <3>2. QED
      BY <1>3, <3>1, NewerIsTotalOrder
  <2>2. QED
    BY <1>4, <2>1 DEF Injection, IsInjective
<1>6. rank \in Surjection(snapshots, 0..(N - 1))
  <2>1. IsFiniteSet(0..(N - 1)) /\ Cardinality(0..(N - 1)) = N
    BY <1>1, FS_Interval, SMTT(30)
  <2>2. QED
    BY <1>5, <2>1, FS_Injection DEF N
<1>7. Retained(keep) = {i \in snapshots : rank[i] < keep}
  BY DEF Retained, rank
<1>8. CASE N <= keep
  <2>1. \A i \in snapshots : rank[i] < keep
    BY <1>1, <1>4, <1>8
  <2>2. Retained(keep) = snapshots
    BY <1>7, <2>1
  <2>3. QED
    BY <1>8, <2>2 DEF N
<1>9. CASE keep < N
  <2> DEFINE g == [i \in Retained(keep) |-> rank[i]]
             T == 0..(keep - 1)
  <2>1. g \in [Retained(keep) -> T]
    <3>1. ASSUME NEW i \in Retained(keep) PROVE rank[i] \in T
      <4>1. i \in snapshots /\ rank[i] < keep
        BY <1>7
      <4>2. rank[i] \in 0..(N - 1)
        BY <1>4, <4>1
      <4>3. QED
        BY <1>1, <4>1, <4>2
    <3>2. QED
      BY <3>1
  <2>2. g \in Injection(Retained(keep), T)
    BY <1>5, <1>7, <2>1 DEF Injection, IsInjective
  <2>3. ASSUME NEW r \in T PROVE \E i \in Retained(keep) : g[i] = r
    <3>1. r \in 0..(N - 1)
      BY <1>1, <1>9
    <3>2. PICK i \in snapshots : rank[i] = r
      BY <1>6, <3>1 DEF Surjection
    <3>3. QED
      BY <1>7, <3>2
  <2>4. g \in Surjection(Retained(keep), T)
    BY <2>1, <2>3 DEF Surjection
  <2>5. ExistsBijection(Retained(keep), T)
    BY <2>2, <2>4 DEF ExistsBijection, Bijection
  <2>6. Retained(keep) \in SUBSET snapshots
    BY <1>7
  <2>7. IsFiniteSet(Retained(keep))
    BY <2>6, FS_Subset
  <2>8. Cardinality(T) = Cardinality(Retained(keep))
    BY <2>5, <2>7, FS_Bijection
  <2>9. Cardinality(T) = keep
    BY FS_Interval
  <2>10. Cardinality(Retained(keep)) = keep
    BY <2>8, <2>9
  <2>11. ASSUME NEW i \in Retained(keep), NEW j \in snapshots \ Retained(keep)
         PROVE  Newer(i, j)
    <3>1. i \in snapshots /\ rank[i] < keep /\ ~(rank[j] < keep)
      BY <1>7
    <3>2. ~(rank[j] < rank[i])
      BY <1>1, <1>4, <3>1
    <3>3. QED
      BY <1>3, <3>1, <3>2, NewerIsTotalOrder
  <2>12. ~(Cardinality(snapshots) <= keep)
    BY <1>1, <1>9 DEF N
  <2>13. QED
    BY <2>10, <2>11, <2>12
<1>10. QED
  BY <1>1, <1>8, <1>9

\* Retention keeps the newest, from the types and a finite table.
LEMMA RetentionFacts ==
  ASSUME TablesTypeOK, IsFiniteSet(snapshots)
  PROVE  RetentionKeepsNewest
<1> SUFFICES ASSUME NEW keep \in 0..MaxKeep
             PROVE  /\ Cardinality(Retained(keep)) =
                         IF Cardinality(snapshots) <= keep
                           THEN Cardinality(snapshots) ELSE keep
                    /\ \A i \in Retained(keep), j \in snapshots \ Retained(keep) :
                         CreatedAt[i] >= CreatedAt[j]
  BY DEF RetentionKeepsNewest
<1>1. snapshots \subseteq SnapshotIds /\ keep \in Nat
  BY DEF TablesTypeOK
<1>2. ASSUME NEW i \in SnapshotIds, NEW j \in SnapshotIds, Newer(i, j)
      PROVE  CreatedAt[i] >= CreatedAt[j]
  BY <1>2 DEF Newer
<1>3. Retained(keep) \subseteq snapshots
  BY DEF Retained
<1>4. QED
  BY <1>1, <1>2, <1>3, RetentionCounts

\* A transaction adds one snapshot at most.
LEMMA SnapshotsStayFinite ==
  ASSUME IsFiniteSet(snapshots), [StoreNext]_storeVars
  PROVE  IsFiniteSet(snapshots)'
<1>1. ASSUME NEW id, snapshots' = snapshots \cup {id} PROVE IsFiniteSet(snapshots')
  BY <1>1, FS_AddElement
<1>2. ASSUME snapshots' \in SUBSET snapshots PROVE IsFiniteSet(snapshots')
  BY <1>2, FS_Subset
<1>3. ASSUME NEW keep \in 0..MaxKeep, ApplySnapshotRetention(keep)
      PROVE  snapshots' \in SUBSET snapshots
  BY <1>3 DEF ApplySnapshotRetention, Retained
<1>4. QED
  BY <1>1, <1>2, <1>3
     DEF StoreNext, storeVars, PutSnapshotWithTransport,
         PutSnapshotAndDeltaWithTransport, PutDelta, EnqueueOnly, DeleteSnapshot

\* README "retain newest n snapshots", for every table the store can hold and
\* every count: exactly n are kept, and nothing newer is dropped.
THEOREM RetentionTheorem == StoreSpec => []RetentionKeepsNewest
<1>1. StoreInit => TablesTypeOK /\ IsFiniteSet(snapshots)
  BY FS_EmptySet DEF StoreInit, TablesTypeOK
<1>2. TablesTypeOK /\ IsFiniteSet(snapshots) /\ [StoreNext]_storeVars
        => TablesTypeOK' /\ IsFiniteSet(snapshots)'
  BY TablesStep, SnapshotsStayFinite
<1>3. TablesTypeOK /\ IsFiniteSet(snapshots) => RetentionKeepsNewest
  BY RetentionFacts
<1>4. QED
  BY <1>1, <1>2, <1>3, PTL DEF StoreSpec

-----------------------------------------------------------------------------
(***************************************************************************)
(* Serve mode.                                                             *)
(***************************************************************************)
USE ServiceAssumption

\* Types of the threads and their environment, and what a capture knows of its
\* snapshot by the time it reads its base or writes.
ThreadInv ==
  /\ now \in 0..MaxTime
  /\ files \in Contents
  /\ pc \in [Threads -> {"idle", "boot", "scan", "read_base", "put", "retain"}]
  /\ base \in [Threads -> SnapshotIds \cup {0}]
  /\ snap \in [Threads -> SnapshotIds \cup {0}]
  /\ watch_base \in SnapshotIds \cup {0}
  /\ pipeline_mutex \in Threads
  /\ serving \in BOOLEAN
  /\ crashes \in 0..MaxCrashes
  /\ failed_cleanups \in 0..MaxFailures
  /\ \A t \in Threads : pc[t] \in {"read_base", "put"} => snap[t] \in SnapshotIds

\* Every second and content has a snapshot id.
LEMMA SnapshotOfFact ==
  ASSUME NEW time \in 0..MaxTime, NEW content \in Contents
  PROVE  SnapshotOf(time, content) \in SnapshotIds
<1>1. Captures(time, content) # {}
  OBVIOUS
<1>2. SnapshotOf(time, content) \in Captures(time, content)
  BY <1>1 DEF SnapshotOf
<1>3. QED
  BY <1>2 DEF Captures

LEMMA WatchIsThread == Watch \in Threads
BY DEF Threads

\* The part of ThreadInv that a new process resets.
ProcessInv ==
  /\ pc \in [Threads -> {"idle", "boot", "scan", "read_base", "put", "retain"}]
  /\ base \in [Threads -> SnapshotIds \cup {0}]
  /\ snap \in [Threads -> SnapshotIds \cup {0}]
  /\ watch_base \in SnapshotIds \cup {0}
  /\ pipeline_mutex \in Threads
  /\ serving \in BOOLEAN
  /\ \A t \in Threads : pc[t] \in {"read_base", "put"} => snap[t] \in SnapshotIds

\* A fresh process is well typed.
LEMMA FreshFacts ==
  /\ FreshPc \in [Threads -> {"idle", "boot", "scan", "read_base", "put", "retain"}]
  /\ \A t \in Threads : FreshPc[t] \notin {"read_base", "put"}
  /\ NoSnapshots \in [Threads -> SnapshotIds \cup {0}]
<1>1. FreshPc \in [Threads -> {"idle", "boot", "scan", "read_base", "put", "retain"}]
  BY DEF FreshPc
<1>2. ASSUME NEW t \in Threads PROVE FreshPc[t] \in {"idle", "boot"}
  BY DEF FreshPc
<1>3. NoSnapshots \in [Threads -> SnapshotIds \cup {0}]
  BY DEF NoSnapshots
<1>4. QED
  BY <1>1, <1>2, <1>3

LEMMA StartFact == StartProcess => ProcessInv'
<1> SUFFICES ASSUME StartProcess PROVE ProcessInv'
  OBVIOUS
<1>1. pc' = FreshPc /\ base' = NoSnapshots /\ snap' = NoSnapshots
  BY DEF StartProcess
<1>2. \A t \in Threads : pc'[t] \notin {"read_base", "put"}
  BY <1>1, FreshFacts
<1>3. watch_base' = 0 /\ pipeline_mutex' = Watch /\ serving' = FALSE
  BY DEF StartProcess
<1>4. QED
  BY <1>1, <1>2, <1>3, FreshFacts, WatchIsThread DEF ProcessInv

LEMMA ThreadInit == ServiceInit => ThreadInv
<1> SUFFICES ASSUME ServiceInit PROVE ThreadInv
  OBVIOUS
<1>1. pc = FreshPc /\ base = NoSnapshots /\ snap = NoSnapshots
  BY DEF ServiceInit
<1>2. \A t \in Threads : pc[t] \notin {"read_base", "put"}
  BY <1>1, FreshFacts
<1>3. /\ now \in 0..MaxTime /\ files \in Contents /\ watch_base = 0
      /\ pipeline_mutex = Watch /\ serving = FALSE
      /\ crashes \in 0..MaxCrashes /\ failed_cleanups \in 0..MaxFailures
  BY DEF ServiceInit
<1>4. QED
  BY <1>1, <1>2, <1>3, FreshFacts, WatchIsThread DEF ThreadInv

\* One step of a capture keeps the types.
LEMMA ThreadCapture ==
  ASSUME ThreadInv, NEW t \in Threads, CaptureStep(t)
  PROVE  ThreadInv'
<1> USE DEF ThreadInv
<1>1. ASSUME pc' = [pc EXCEPT ![t] = "idle"] \/ pc' = [pc EXCEPT ![t] = "retain"]
      PROVE  /\ pc' \in [Threads -> {"idle", "boot", "scan", "read_base", "put", "retain"}]
             /\ \A u \in Threads : pc'[u] \in {"read_base", "put"} =>
                  u # t /\ pc[u] \in {"read_base", "put"}
  BY <1>1
<1>2. ASSUME NEW ok \in BOOLEAN, Finish(t, ok)
      PROVE  /\ pc' \in [Threads -> {"idle", "boot", "scan", "read_base", "put", "retain"}]
             /\ base' \in [Threads -> SnapshotIds \cup {0}]
             /\ snap' \in [Threads -> SnapshotIds \cup {0}]
             /\ \A u \in Threads : pc'[u] \in {"read_base", "put"} => snap'[u] \in SnapshotIds
  <2>1. pc' = [pc EXCEPT ![t] = "idle"] \/ pc' = [pc EXCEPT ![t] = "retain"]
    BY <1>2 DEF Finish
  <2>2. base' = [base EXCEPT ![t] = 0] /\ snap' = [snap EXCEPT ![t] = 0]
    BY <1>2 DEF Finish
  <2>3. \A u \in Threads : u # t => snap'[u] = snap[u]
    BY <2>2
  <2>4. QED
    BY <1>1, <2>1, <2>2, <2>3
<1>3. Unlock(t) => pipeline_mutex' \in Threads
  BY WatchIsThread DEF Unlock
<1>4. CASE Scan(t)
  <2>1. SnapshotOf(now, files) \in SnapshotIds
    BY SnapshotOfFact
  <2>2. QED
    BY <1>4, <2>1 DEF Scan, environmentVars
<1>5. CASE ScanInvalid(t)
  BY <1>5, <1>2, <1>3 DEF ScanInvalid, environmentVars
<1>6. CASE ReadBaseMissing(t)
  BY <1>6, <1>2, <1>3 DEF ReadBaseMissing, environmentVars
<1>7. CASE ReadBaseUnchanged(t)
  BY <1>7, <1>2, <1>3 DEF ReadBaseUnchanged, environmentVars
<1>8. CASE ReadBaseChanged(t)
  BY <1>8 DEF ReadBaseChanged, environmentVars
<1>9. CASE Put(t)
  BY <1>9, <1>2, <1>3 DEF Put, environmentVars
<1>10. CASE PutFails(t)
  BY <1>10, <1>2, <1>3 DEF PutFails, environmentVars
<1>11. CASE Retain(t)
  BY <1>11, <1>1 DEF Retain
<1>12. CASE RetainFails(t)
  <2>1. failed_cleanups' \in 0..MaxFailures /\ UNCHANGED <<now, files, crashes>>
    BY <1>12 DEF RetainFails
  <2>2. CASE serving
    BY <1>12, <1>1, <2>1, <2>2 DEF RetainFails
  <2>3. CASE ~serving
    <3>1. ProcessInv'
      BY <1>12, <2>3, StartFact DEF RetainFails
    <3>2. QED
      BY <2>1, <3>1 DEF ProcessInv
  <2>4. QED
    BY <2>2, <2>3
<1>13. QED
  BY <1>4, <1>5, <1>6, <1>7, <1>8, <1>9, <1>10, <1>11, <1>12 DEF CaptureStep

LEMMA ThreadStep ==
  ASSUME ThreadInv, [ServiceNext]_serviceVars
  PROVE  ThreadInv'
<1> USE DEF ThreadInv
<1>1. CASE Tick
  BY <1>1 DEF Tick, threadVars
<1>2. CASE FilesChange
  BY <1>2 DEF FilesChange, threadVars
<1>3. CASE CrashAndRestart
  <2>1. ProcessInv'
    BY <1>3, StartFact DEF CrashAndRestart
  <2>2. crashes' \in 0..MaxCrashes /\ UNCHANGED <<now, files, failed_cleanups>>
    BY <1>3 DEF CrashAndRestart
  <2>3. QED
    BY <2>1, <2>2 DEF ProcessInv
<1>4. CASE Boot
  BY <1>4, WatchIsThread DEF Boot, environmentVars
<1>5. CASE WatchCycle
  BY <1>5, WatchIsThread DEF WatchCycle, environmentVars
<1>6. ASSUME NEW w \in Workers, NEW b \in SnapshotIds \cup {0}, RemoteCapture(w, b)
      PROVE  ThreadInv'
  BY <1>6 DEF RemoteCapture, environmentVars, Threads
<1>7. ASSUME NEW w \in Workers, NEW id \in SnapshotIds, RemoteDelete(w, id)
      PROVE  ThreadInv'
  BY <1>7 DEF RemoteDelete, environmentVars, threadVars
<1>8. ASSUME NEW t \in Threads, CaptureStep(t)
      PROVE  ThreadInv'
  BY <1>8, ThreadCapture
<1>9. CASE UNCHANGED serviceVars
  BY <1>9 DEF serviceVars, threadVars, environmentVars
<1>10. QED
  BY <1>1, <1>2, <1>3, <1>4, <1>5, <1>6, <1>7, <1>8, <1>9 DEF ServiceNext

\* The only steps that reach the store are its operations.
LEMMA ServiceStepIsStoreStep ==
  ASSUME ThreadInv, [ServiceNext]_serviceVars
  PROVE  [StoreNext]_storeVars
<1>1. ASSUME NEW t \in Threads, Put(t)
      PROVE  StoreNext
  <2>1. snap[t] \in SnapshotIds /\ base[t] \in SnapshotIds \cup {0}
    BY <1>1 DEF Put, ThreadInv
  <2>2. CASE base[t] = 0
    BY <1>1, <2>1, <2>2 DEF Put, StoreNext
  <2>3. CASE base[t] # 0
    <3> DEFINE pair == <<base[t], snap[t]>>
    <3>1. pair \in DeltaPairs /\ pair[1] = base[t] /\ pair[2] = snap[t]
      BY <2>1, <2>3
    <3>2. PutSnapshotAndDeltaWithTransport(pair[1], pair[2], TRUE)
      BY <1>1, <2>3, <3>1 DEF Put
    <3>3. QED
      BY <3>1, <3>2 DEF StoreNext
  <2>4. QED
    BY <2>2, <2>3
<1>2. ASSUME NEW t \in Threads, Retain(t)
      PROVE  [StoreNext]_storeVars
  BY <1>2 DEF Retain, StoreNext
<1>3. ASSUME NEW t \in Threads, CaptureStep(t), ~Put(t), ~Retain(t)
      PROVE  UNCHANGED storeVars
  BY <1>3 DEF CaptureStep, Scan, ScanInvalid, ReadBaseMissing, ReadBaseUnchanged,
              ReadBaseChanged, PutFails, RetainFails
<1>4. ASSUME NEW w \in Workers, NEW id \in SnapshotIds, RemoteDelete(w, id)
      PROVE  StoreNext
  BY <1>4 DEF RemoteDelete, StoreNext
<1>5. ASSUME NEW w \in Workers, NEW b \in SnapshotIds \cup {0}, RemoteCapture(w, b)
      PROVE  UNCHANGED storeVars
  BY <1>5 DEF RemoteCapture
<1>6. CASE Tick \/ FilesChange \/ CrashAndRestart \/ Boot \/ WatchCycle
  BY <1>6 DEF Tick, FilesChange, CrashAndRestart, Boot, WatchCycle
<1>7. CASE UNCHANGED serviceVars
  BY <1>7 DEF serviceVars
<1>8. QED
  BY <1>1, <1>2, <1>3, <1>4, <1>5, <1>6, <1>7 DEF ServiceNext

\* ThreadInv holds of the service.
LEMMA ThreadInvariant == ServiceSpec => []ThreadInv
<1>1. ThreadInv /\ [ServiceNext]_serviceVars => ThreadInv'
  BY ThreadStep
<1>2. QED
  BY <1>1, ThreadInit, PTL DEF ServiceSpec

\* Serve mode is a client of the store: with any number of threads, at any
\* interleaving and across crashes it makes only the store's transactions, so
\* the theorems about the store and its outbox are theorems about the service.
THEOREM ServiceImplementsStore == ServiceSpec => StoreSpec
<1>1. ServiceInit => StoreInit
  BY DEF ServiceInit
<1>2. ThreadInv /\ [ServiceNext]_serviceVars => [StoreNext]_storeVars
  BY ServiceStepIsStoreStep
<1>3. QED
  BY <1>1, <1>2, ThreadInvariant, PTL DEF ServiceSpec, StoreSpec

\* Types of the whole service, threads and databases.
THEOREM ServiceTypeTheorem == ServiceSpec => []ServiceTypeOK
<1>1. ThreadInv /\ StoreTypeOK => ServiceTypeOK
  BY DEF ThreadInv, ServiceTypeOK
<1>2. QED
  BY <1>1, ThreadInvariant, ServiceImplementsStore, StoreTypeTheorem, PTL

-----------------------------------------------------------------------------
\* A batch starts at next_sequence with its first record.
LEMMA EnqueueFirst ==
  ASSUME OutboxInv, NEW recs \in Batches, EnqueueRecords(recs)
  PROVE  next_sequence \in DOMAIN outbox' /\ outbox'[next_sequence] = recs[1]
<1>1. next_sequence \in Nat \ {0} /\ Len(recs) \in Nat \ {0}
  BY EnqueueShape DEF OutboxInv, OutboxTypeOK
<1>2. next_sequence \in next_sequence .. next_sequence + Len(recs) - 1
  BY <1>1
<1>3. next_sequence - next_sequence + 1 = 1
  BY <1>1
<1>4. QED
  BY <1>1, <1>2, <1>3 DEF EnqueueRecords

\* A batch that starts with the record of the snapshot that is stored with it
\* keeps every stored snapshot announced.
LEMMA AnnouncedPut ==
  ASSUME OutboxInv, StoredSnapshotsAreAnnounced, NEW id \in SnapshotIds,
         NEW recs \in Batches, EnqueueRecords(recs), recs[1] = SnapshotRecord(id),
         snapshots' = snapshots \cup {id}
  PROVE  StoredSnapshotsAreAnnounced'
<1>1. /\ DOMAIN outbox \subseteq DOMAIN outbox'
      /\ \A s \in DOMAIN outbox : outbox'[s] = outbox[s]
  BY EnqueueShape
<1>2. next_sequence \in DOMAIN outbox' /\ outbox'[next_sequence] = SnapshotRecord(id)
  BY EnqueueFirst
<1>3. QED
  BY <1>1, <1>2 DEF StoredSnapshotsAreAnnounced

LEMMA AnnouncedStep ==
  ASSUME ThreadInv, OutboxInv, StoredSnapshotsAreAnnounced,
         [ServiceNext]_serviceVars
  PROVE  StoredSnapshotsAreAnnounced'
<1>1. ASSUME outbox' = outbox, snapshots' \subseteq snapshots
      PROVE  StoredSnapshotsAreAnnounced'
  BY <1>1 DEF StoredSnapshotsAreAnnounced
<1>2. ASSUME NEW t \in Threads, Put(t)
      PROVE  StoredSnapshotsAreAnnounced'
  <2>1. snap[t] \in SnapshotIds /\ base[t] \in SnapshotIds \cup {0}
    BY <1>2 DEF Put, ThreadInv
  <2>2. CASE base[t] = 0
    <3> DEFINE recs == <<SnapshotRecord(snap[t])>>
    <3>1. EnqueueRecords(recs) /\ snapshots' = snapshots \cup {snap[t]}
      BY <1>2, <2>2 DEF Put, PutSnapshotWithTransport
    <3>2. SnapshotRecord(snap[t]) \in Records
      BY <2>1, StoreAssumption
    <3>3. recs \in Batches
      BY <3>2, BatchFacts
    <3>4. recs[1] = SnapshotRecord(snap[t])
      OBVIOUS
    <3>5. QED
      BY <2>1, <3>1, <3>3, <3>4, AnnouncedPut
  <2>3. CASE base[t] # 0
    <3> DEFINE recs == <<SnapshotRecord(snap[t]), DeltaRecord(base[t], snap[t])>>
    <3>1. EnqueueRecords(recs) /\ snapshots' = snapshots \cup {snap[t]}
      BY <1>2, <2>3 DEF Put, PutSnapshotAndDeltaWithTransport
    <3> DEFINE pair == <<base[t], snap[t]>>
    <3>2. pair \in DeltaPairs /\ pair[1] = base[t] /\ pair[2] = snap[t]
      BY <2>1, <2>3
    <3>3. SnapshotRecord(snap[t]) \in Records /\ DeltaRecord(base[t], snap[t]) \in Records
      BY <2>1, <3>2, StoreAssumption
    <3>4. recs \in Batches
      BY <3>3, BatchFacts
    <3>5. recs[1] = SnapshotRecord(snap[t])
      OBVIOUS
    <3>6. QED
      BY <2>1, <3>1, <3>4, <3>5, AnnouncedPut
  <2>4. QED
    BY <2>2, <2>3
<1>3. ASSUME NEW t \in Threads, CaptureStep(t), ~Put(t)
      PROVE  StoredSnapshotsAreAnnounced'
  <2>1. UNCHANGED storeVars \/ ApplySnapshotRetention(KeepLatest)
    BY <1>3 DEF CaptureStep, Scan, ScanInvalid, ReadBaseMissing, ReadBaseUnchanged,
                ReadBaseChanged, PutFails, Retain, RetainFails
  <2>2. outbox' = outbox /\ snapshots' \subseteq snapshots
    BY <2>1 DEF storeVars, ApplySnapshotRetention, Retained, outboxVars
  <2>3. QED
    BY <2>2, <1>1
<1>4. ASSUME NEW w \in Workers, NEW id \in SnapshotIds, RemoteDelete(w, id)
      PROVE  StoredSnapshotsAreAnnounced'
  BY <1>1, <1>4 DEF RemoteDelete, DeleteSnapshot, outboxVars
<1>5. ASSUME UNCHANGED storeVars
      PROVE  StoredSnapshotsAreAnnounced'
  BY <1>1, <1>5 DEF storeVars
<1>6. QED
  BY <1>2, <1>3, <1>4, <1>5
     DEF ServiceNext, Tick, FilesChange, CrashAndRestart, Boot, WatchCycle,
         RemoteCapture, serviceVars

\* No stored snapshot is unannounced, whatever threads, crashes and failed
\* calls came before it: nothing in serve mode compacts the outbox, and what
\* stores a snapshot writes its record in the same transaction.
THEOREM AnnouncedTheorem == ServiceSpec => []StoredSnapshotsAreAnnounced
<1>1. ServiceInit => StoredSnapshotsAreAnnounced
  BY DEF ServiceInit, StoreInit, StoredSnapshotsAreAnnounced
<1>2. ThreadInv /\ OutboxInv /\ StoredSnapshotsAreAnnounced /\ [ServiceNext]_serviceVars
        => StoredSnapshotsAreAnnounced'
  BY AnnouncedStep
<1>3. ServiceSpec => []OutboxInv
  BY ServiceImplementsStore, OutboxTheorem, OutboxInvariant, PTL DEF OutboxImplemented
<1>4. QED
  BY <1>1, <1>2, <1>3, ThreadInvariant, PTL DEF ServiceSpec

-----------------------------------------------------------------------------
\* What the watch loop relies on between reading its base and writing: nobody
\* else removes it.
BaseIsStored ==
  pc[Watch] = "put" /\ base[Watch] # 0 => base[Watch] \in snapshots

WatchInv == DeltaEndpointsStored /\ BaseIsStored

LEMMA WatchStep ==
  ASSUME Workers = {}, ThreadInv, WatchInv, [ServiceNext]_serviceVars
  PROVE  WatchInv'
<1> USE DEF WatchInv, BaseIsStored, DeltaEndpointsStored
<1>1. Threads = {Watch}
  BY DEF Threads
<1>2. /\ pc \in [Threads -> {"idle", "boot", "scan", "read_base", "put", "retain"}]
      /\ base \in [Threads -> SnapshotIds \cup {0}]
  BY DEF ThreadInv
<1>3. ASSUME UNCHANGED storeVars, pc'[Watch] # "put"
      PROVE  WatchInv'
  BY <1>3 DEF storeVars
<1>4. CASE Tick \/ FilesChange \/ UNCHANGED serviceVars
  BY <1>4 DEF Tick, FilesChange, threadVars, storeVars, serviceVars
<1>5. CASE CrashAndRestart
  BY <1>5, <1>1, <1>3 DEF CrashAndRestart, StartProcess, FreshPc
<1>6. CASE Boot \/ WatchCycle
  BY <1>6, <1>1, <1>2, <1>3 DEF Boot, WatchCycle
<1>7. \A ok \in BOOLEAN : Finish(Watch, ok) => pc'[Watch] \in {"idle", "retain"}
  BY <1>1, <1>2 DEF Finish
<1>8. CASE Scan(Watch)
  BY <1>8, <1>1, <1>2 DEF Scan, storeVars
<1>9. CASE ScanInvalid(Watch) \/ ReadBaseMissing(Watch) \/ ReadBaseUnchanged(Watch)
             \/ PutFails(Watch)
  BY <1>9, <1>3, <1>7
     DEF ScanInvalid, ReadBaseMissing, ReadBaseUnchanged, PutFails
<1>10. CASE ReadBaseChanged(Watch)
  BY <1>10 DEF ReadBaseChanged, storeVars
<1>11. CASE Put(Watch)
  <2>1. pc'[Watch] # "put"
    BY <1>11, <1>7 DEF Put
  <2>2. CASE base[Watch] = 0
    <3>1. snapshots \subseteq snapshots' /\ deltas' = deltas
      BY <1>11, <2>2 DEF Put, PutSnapshotWithTransport
    <3>2. QED
      BY <2>1, <3>1
  <2>3. CASE base[Watch] # 0
    <3>1. /\ snapshots' = snapshots \cup {snap[Watch]}
          /\ deltas' = deltas \cup {<<base[Watch], snap[Watch]>>}
      BY <1>11, <2>3 DEF Put, PutSnapshotAndDeltaWithTransport
    <3>2. base[Watch] \in snapshots
      BY <1>11, <2>3 DEF Put
    <3>3. QED
      BY <2>1, <3>1, <3>2
  <2>4. QED
    BY <2>2, <2>3
<1>12. CASE Retain(Watch)
  <2>1. pc'[Watch] # "put"
    BY <1>12, <1>1, <1>2 DEF Retain
  <2>2. CASE UNCHANGED storeVars
    BY <1>3, <2>1, <2>2
  <2>3. CASE ApplySnapshotRetention(KeepLatest)
    BY <2>1, <2>3 DEF ApplySnapshotRetention
  <2>4. QED
    BY <1>12, <2>2, <2>3 DEF Retain
<1>13. CASE RetainFails(Watch)
  BY <1>13, <1>1, <1>2, <1>3 DEF RetainFails, StartProcess, FreshPc
<1>14. QED
  BY <1>1, <1>4, <1>5, <1>6, <1>8, <1>9, <1>10, <1>11, <1>12, <1>13
     DEF ServiceNext, CaptureStep

\* Without remote commands, the default, every stored delta starts and ends at
\* a stored snapshot, across crashes, aborted captures and retention; with them
\* it does not, see MCServiceRace.cfg.
THEOREM WatchAloneTheorem ==
  Workers = {} => (ServiceSpec => []DeltaEndpointsStored)
<1> SUFFICES ASSUME Workers = {}
             PROVE  ServiceSpec => []DeltaEndpointsStored
  OBVIOUS
<1>1. ServiceInit => WatchInv
  BY WatchIsThread
     DEF ServiceInit, StoreInit, FreshPc, WatchInv, DeltaEndpointsStored, BaseIsStored
<1>2. ThreadInv /\ WatchInv /\ [ServiceNext]_serviceVars => WatchInv'
  BY WatchStep
<1>3. WatchInv => DeltaEndpointsStored
  BY DEF WatchInv
<1>4. QED
  BY <1>1, <1>2, <1>3, ThreadInvariant, PTL DEF ServiceSpec

-----------------------------------------------------------------------------
(***************************************************************************)
(* The order of the records.  Between reading its base and writing, a      *)
(* capture relies on the base having been announced: that cannot be undone *)
(* even when the base itself is deleted meanwhile.                         *)
(***************************************************************************)
Announced(id) == \E r \in DOMAIN outbox : outbox[r] = SnapshotRecord(id)

BasesWereAnnounced ==
  \A t \in Threads : pc[t] = "put" /\ base[t] # 0 => Announced(base[t])

DeltaInv == DeltaRecordsFollowSnapshots /\ BasesWereAnnounced

\* The write transaction puts its records in their order behind next_sequence.
LEMMA EnqueueContent ==
  ASSUME OutboxInv, NEW recs \in Batches, EnqueueRecords(recs),
         NEW i \in 1..Len(recs)
  PROVE  next_sequence + i - 1 \in DOMAIN outbox' /\
         outbox'[next_sequence + i - 1] = recs[i]
<1> DEFINE s == next_sequence + i - 1
<1>1. next_sequence \in Nat \ {0} /\ Len(recs) \in Nat \ {0}
  BY EnqueueShape DEF OutboxInv, OutboxTypeOK
<1>2. s \in next_sequence .. next_sequence + Len(recs) - 1 /\ s >= next_sequence
  BY <1>1
<1>3. s - next_sequence + 1 = i
  BY <1>1
<1> HIDE DEF s
<1>4. QED
  BY <1>2, <1>3 DEF EnqueueRecords, s

\* What every transaction leaves alone: records that are there stay there, and
\* a new one is behind all of them.
LEMMA AnnouncedStays ==
  ASSUME OutboxInv, NEW recs \in Batches, EnqueueRecords(recs)
  PROVE  /\ \A id : Announced(id) => Announced(id)'
         /\ \A s \in DOMAIN outbox' : s \in DOMAIN outbox \/
              \E i \in 1..Len(recs) : s = next_sequence + i - 1
<1>1. /\ Len(recs) \in Nat \ {0}
      /\ DOMAIN outbox' = DOMAIN outbox
           \cup (next_sequence .. next_sequence + Len(recs) - 1)
      /\ \A s \in DOMAIN outbox : outbox'[s] = outbox[s]
  BY EnqueueShape
<1>2. \A id : Announced(id) => Announced(id)'
  BY <1>1 DEF Announced
<1>3. ASSUME NEW s \in next_sequence .. next_sequence + Len(recs) - 1
      PROVE  \E i \in 1..Len(recs) : s = next_sequence + i - 1
  <2>1. next_sequence \in Nat
    BY DEF OutboxInv, OutboxTypeOK
  <2>2. s - next_sequence + 1 \in 1..Len(recs)
    BY <1>1, <2>1
  <2>3. s = next_sequence + (s - next_sequence + 1) - 1
    BY <2>1
  <2>4. QED
    BY <2>2, <2>3
<1>4. QED
  BY <1>1, <1>2, <1>3

\* A record of the old outbox has its predecessors as before.
LEMMA OldDeltasFollow ==
  ASSUME OutboxInv, DeltaRecordsFollowSnapshots,
         NEW recs \in Batches, EnqueueRecords(recs),
         NEW s \in DOMAIN outbox, outbox'[s].type = "Delta"
  PROVE  /\ s - 1 \in DOMAIN outbox'
         /\ outbox'[s - 1] = SnapshotRecord(outbox'[s].target)
         /\ \E r \in DOMAIN outbox' :
               r < s - 1 /\ outbox'[r] = SnapshotRecord(outbox'[s].base)
<1>1. /\ DOMAIN outbox \subseteq DOMAIN outbox'
      /\ \A u \in DOMAIN outbox : outbox'[u] = outbox[u]
  BY EnqueueShape
<1>2. /\ s - 1 \in DOMAIN outbox
      /\ outbox[s - 1] = SnapshotRecord(outbox[s].target)
      /\ \E r \in DOMAIN outbox :
            r < s - 1 /\ outbox[r] = SnapshotRecord(outbox[s].base)
  BY <1>1 DEF DeltaRecordsFollowSnapshots
<1>3. QED
  BY <1>1, <1>2

\* A write of a full snapshot adds no delta record; one with a delta adds it
\* right behind its target, and its base was announced in an earlier write.
LEMMA PutKeepsOrder ==
  ASSUME ThreadInv, OutboxInv, DeltaInv, NEW t \in Threads, Put(t)
  PROVE  DeltaRecordsFollowSnapshots' /\ \A id : Announced(id) => Announced(id)'
<1>1. snap[t] \in SnapshotIds /\ base[t] \in SnapshotIds \cup {0}
  BY DEF Put, ThreadInv
<1>2. SnapshotRecord(snap[t]) \in Records
  BY <1>1, StoreAssumption
<1>3. next_sequence \in Nat \ {0} /\ \A s \in DOMAIN outbox : s < next_sequence /\ s \in Nat
  BY DEF OutboxInv, OutboxTypeOK, OutboxIsWindow
<1>4. CASE base[t] = 0
  <2> DEFINE recs == <<SnapshotRecord(snap[t])>>
  <2>1. EnqueueRecords(recs) /\ recs \in Batches
    BY <1>2, <1>4, BatchFacts DEF Put, PutSnapshotWithTransport
  <2>2. Len(recs) = 1 /\ recs[1] = SnapshotRecord(snap[t])
    OBVIOUS
  <2> HIDE DEF recs
  <2>3. ASSUME NEW s \in DOMAIN outbox', outbox'[s].type = "Delta"
        PROVE  s \in DOMAIN outbox
    <3>1. CASE \E i \in 1..Len(recs) : s = next_sequence + i - 1
      <4>1. outbox'[s] = SnapshotRecord(snap[t])
        BY <2>1, <2>2, <3>1, EnqueueContent
      <4>2. QED
        BY <2>3, <4>1 DEF SnapshotRecord
    <3>2. QED
      BY <2>1, <3>1, AnnouncedStays
  <2>4. DeltaRecordsFollowSnapshots'
    BY <2>1, <2>3, OldDeltasFollow DEF DeltaInv, DeltaRecordsFollowSnapshots
  <2>5. QED
    BY <2>1, <2>4, AnnouncedStays
<1>5. CASE base[t] # 0
  <2> DEFINE recs == <<SnapshotRecord(snap[t]), DeltaRecord(base[t], snap[t])>>
             pair == <<base[t], snap[t]>>
             new == next_sequence + 1
  <2>1. pair \in DeltaPairs /\ pair[1] = base[t] /\ pair[2] = snap[t]
    BY <1>1, <1>5
  <2>2. DeltaRecord(base[t], snap[t]) \in Records
    BY <2>1, StoreAssumption
  <2>3. EnqueueRecords(recs) /\ recs \in Batches
    BY <1>2, <1>5, <2>2, BatchFacts DEF Put, PutSnapshotAndDeltaWithTransport
  <2>4. /\ Len(recs) = 2 /\ recs[1] = SnapshotRecord(snap[t])
        /\ recs[2] = DeltaRecord(base[t], snap[t])
    OBVIOUS
  <2> HIDE DEF recs
  <2>5. /\ next_sequence \in DOMAIN outbox' /\ outbox'[next_sequence] = SnapshotRecord(snap[t])
        /\ outbox'[new] = DeltaRecord(base[t], snap[t])
    <3>1. 1 \in 1..Len(recs) /\ 2 \in 1..Len(recs)
      BY <2>4
    <3>2. next_sequence + 1 - 1 = next_sequence /\ next_sequence + 2 - 1 = new
      BY <1>3
    <3>3. QED
      BY <2>3, <2>4, <3>1, <3>2, EnqueueContent
  <2>6. PICK r \in DOMAIN outbox : outbox[r] = SnapshotRecord(base[t])
    BY <1>5 DEF DeltaInv, BasesWereAnnounced, Announced, Put
  <2>7. r \in DOMAIN outbox' /\ outbox'[r] = SnapshotRecord(base[t])
    BY <2>3, <2>6, EnqueueShape
  <2>8. ASSUME NEW s \in DOMAIN outbox', outbox'[s].type = "Delta"
        PROVE  s \in DOMAIN outbox \/ s = new
    <3>1. CASE s = next_sequence
      BY <2>5, <2>8, <3>1 DEF SnapshotRecord
    <3>2. CASE \E i \in 1..Len(recs) : s = next_sequence + i - 1
      BY <1>3, <2>4, <3>1, <3>2
    <3>3. QED
      BY <2>3, <3>2, AnnouncedStays
  <2>9. /\ outbox'[new].type = "Delta"
        /\ outbox'[new].target = snap[t] /\ outbox'[new].base = base[t]
    BY <2>5 DEF DeltaRecord
  <2>10. new - 1 = next_sequence /\ r < new - 1
    BY <1>3, <2>6
  <2> HIDE DEF new
  <2>11. /\ new - 1 \in DOMAIN outbox'
         /\ outbox'[new - 1] = SnapshotRecord(outbox'[new].target)
         /\ \E q \in DOMAIN outbox' :
               q < new - 1 /\ outbox'[q] = SnapshotRecord(outbox'[new].base)
    BY <2>5, <2>7, <2>9, <2>10
  <2>12. DeltaRecordsFollowSnapshots'
    BY <2>3, <2>8, <2>11, OldDeltasFollow DEF DeltaInv, DeltaRecordsFollowSnapshots
  <2>13. QED
    BY <2>3, <2>12, AnnouncedStays
<1>6. QED
  BY <1>4, <1>5

\* A step of a capture that does not write.
LEMMA DeltaCapture ==
  ASSUME ThreadInv, StoredSnapshotsAreAnnounced, DeltaInv,
         NEW t \in Threads, CaptureStep(t), ~Put(t)
  PROVE  DeltaInv'
<1>1. UNCHANGED storeVars \/ ApplySnapshotRetention(KeepLatest)
  BY DEF CaptureStep, Scan, ScanInvalid, ReadBaseMissing, ReadBaseUnchanged,
         ReadBaseChanged, PutFails, Retain, RetainFails
<1>2. outbox' = outbox
  BY <1>1 DEF storeVars, ApplySnapshotRetention, outboxVars
<1>3. DeltaRecordsFollowSnapshots' /\ \A id : Announced(id) <=> Announced(id)'
  BY <1>2 DEF DeltaInv, DeltaRecordsFollowSnapshots, Announced
<1>4. /\ pc \in [Threads -> {"idle", "boot", "scan", "read_base", "put", "retain"}]
      /\ base \in [Threads -> SnapshotIds \cup {0}]
  BY DEF ThreadInv
<1>5. ASSUME NEW u \in Threads, pc'[u] = "put", base'[u] # 0
      PROVE  Announced(base'[u])
  <2>1. CASE Scan(t) \/ ReadBaseChanged(t)
    <3>1. base' = base /\ (u # t => pc'[u] = pc[u])
      BY <1>4, <2>1 DEF Scan, ReadBaseChanged
    <3>2. CASE u # t
      BY <1>5, <3>1, <3>2 DEF DeltaInv, BasesWereAnnounced
    <3>3. CASE u = t /\ Scan(t)
      BY <1>4, <1>5, <3>1, <3>3 DEF Scan
    <3>4. CASE u = t /\ ReadBaseChanged(t)
      <4>1. base[t] \in snapshots
        BY <3>4 DEF ReadBaseChanged
      <4>2. QED
        BY <3>1, <3>4, <4>1 DEF StoredSnapshotsAreAnnounced, Announced
    <3>5. QED
      BY <2>1, <3>2, <3>3, <3>4
  <2>2. CASE \E ok \in BOOLEAN : Finish(t, ok)
    <3>1. u # t
      BY <1>4, <1>5, <2>2 DEF Finish
    <3>2. pc'[u] = pc[u] /\ base'[u] = base[u]
      BY <1>4, <2>2, <3>1 DEF Finish
    <3>3. QED
      BY <1>5, <3>2 DEF DeltaInv, BasesWereAnnounced
  <2>3. CASE pc' = [pc EXCEPT ![t] = "idle"] /\ base' = base
    <3>1. u # t /\ pc'[u] = pc[u]
      BY <1>4, <1>5, <2>3
    <3>2. QED
      BY <1>5, <2>3, <3>1 DEF DeltaInv, BasesWereAnnounced
  <2>4. CASE StartProcess
    <3>1. pc'[u] = FreshPc[u]
      BY <2>4 DEF StartProcess
    <3>2. QED
      BY <1>5, <3>1, FreshFacts
  <2>5. QED
    BY <2>1, <2>2, <2>3, <2>4
       DEF CaptureStep, ScanInvalid, ReadBaseMissing, ReadBaseUnchanged,
           PutFails, Retain, RetainFails
<1>6. QED
  BY <1>3, <1>5 DEF DeltaInv, BasesWereAnnounced

LEMMA DeltaStep ==
  ASSUME ThreadInv, OutboxInv, StoredSnapshotsAreAnnounced, DeltaInv,
         [ServiceNext]_serviceVars
  PROVE  DeltaInv'
<1>1. /\ pc \in [Threads -> {"idle", "boot", "scan", "read_base", "put", "retain"}]
      /\ base \in [Threads -> SnapshotIds \cup {0}]
  BY DEF ThreadInv
<1>2. ASSUME outbox' = outbox,
             \A u \in Threads : pc'[u] = "put" => pc[u] = "put" /\ base'[u] = base[u]
      PROVE  DeltaInv'
  BY <1>2 DEF DeltaInv, DeltaRecordsFollowSnapshots, BasesWereAnnounced, Announced
<1>3. ASSUME NEW t \in Threads, Put(t)
      PROVE  DeltaInv'
  <2>1. \A u \in Threads : u # t => pc'[u] = pc[u] /\ base'[u] = base[u]
    BY <1>1, <1>3 DEF Put, Finish
  <2>2. pc'[t] # "put"
    BY <1>1, <1>3 DEF Put, Finish
  <2>3. \A u \in Threads : pc'[u] = "put" => pc[u] = "put" /\ base'[u] = base[u]
    BY <2>1, <2>2
  <2>4. DeltaRecordsFollowSnapshots' /\ \A id : Announced(id) => Announced(id)'
    BY <1>3, PutKeepsOrder
  <2>5. QED
    BY <2>3, <2>4 DEF DeltaInv, BasesWereAnnounced
<1>4. ASSUME NEW t \in Threads, CaptureStep(t), ~Put(t)
      PROVE  DeltaInv'
  BY <1>4, DeltaCapture
<1>5. CASE Tick \/ FilesChange \/ UNCHANGED serviceVars
  BY <1>2, <1>5 DEF Tick, FilesChange, serviceVars, storeVars, threadVars
<1>6. CASE CrashAndRestart
  <2>1. outbox' = outbox /\ \A u \in Threads : pc'[u] = FreshPc[u]
    BY <1>6 DEF CrashAndRestart, StartProcess, storeVars
  <2>2. QED
    BY <1>2, <2>1, FreshFacts
<1>7. CASE Boot \/ WatchCycle
  <2>1. outbox' = outbox /\ pc'[Watch] # "put"
    BY <1>1, <1>7, WatchIsThread DEF Boot, WatchCycle, storeVars
  <2>2. \A u \in Threads : u # Watch => pc'[u] = pc[u] /\ base'[u] = base[u]
    BY <1>1, <1>7 DEF Boot, WatchCycle
  <2>3. QED
    BY <1>2, <2>1, <2>2
<1>8. ASSUME NEW w \in Workers, NEW b \in SnapshotIds \cup {0}, RemoteCapture(w, b)
      PROVE  DeltaInv'
  <2>1. w \in Threads
    BY DEF Threads
  <2>2. outbox' = outbox /\ pc'[w] # "put"
    BY <1>1, <1>8, <2>1 DEF RemoteCapture, storeVars
  <2>3. \A u \in Threads : u # w => pc'[u] = pc[u] /\ base'[u] = base[u]
    BY <1>1, <1>8 DEF RemoteCapture
  <2>4. QED
    BY <1>2, <2>2, <2>3
<1>9. ASSUME NEW w \in Workers, NEW id \in SnapshotIds, RemoteDelete(w, id)
      PROVE  DeltaInv'
  BY <1>2, <1>9 DEF RemoteDelete, DeleteSnapshot, outboxVars, threadVars
<1>10. QED
  BY <1>3, <1>4, <1>5, <1>6, <1>7, <1>8, <1>9 DEF ServiceNext

\* A consumer can read the outbox front to back: whatever captures interleave,
\* fail or are cut off by a crash, a delta record directly follows its target
\* and comes after its base.
THEOREM DeltaTheorem == ServiceSpec => []DeltaRecordsFollowSnapshots
<1>1. ServiceInit => DeltaInv
  <2> SUFFICES ASSUME ServiceInit PROVE DeltaInv
    OBVIOUS
  <2>1. DOMAIN outbox = {} /\ pc = FreshPc
    BY DEF ServiceInit, StoreInit, OutboxInit
  <2>2. QED
    BY <2>1, FreshFacts DEF DeltaInv, DeltaRecordsFollowSnapshots, BasesWereAnnounced
<1>2. ThreadInv /\ OutboxInv /\ StoredSnapshotsAreAnnounced /\ DeltaInv
        /\ [ServiceNext]_serviceVars => DeltaInv'
  BY DeltaStep
<1>3. DeltaInv => DeltaRecordsFollowSnapshots
  BY DEF DeltaInv
<1>4. ServiceSpec => []OutboxInv
  BY ServiceImplementsStore, OutboxTheorem, OutboxInvariant, PTL DEF OutboxImplemented
<1>5. QED
  BY <1>1, <1>2, <1>3, <1>4, ThreadInvariant, AnnouncedTheorem, PTL DEF ServiceSpec

-----------------------------------------------------------------------------
(***************************************************************************)
(* Retention.  The bound is inductive as it stands: what a capture stores  *)
(* is paid for by its own cleanup to come, what a failing cleanup leaves   *)
(* by failed_cleanups, and one that succeeds leaves exactly KeepLatest.    *)
(***************************************************************************)
Retaining == {t \in Threads : pc[t] = "retain"}

FiniteInv == IsFiniteSet(snapshots) /\ snapshots \subseteq SnapshotIds

\* There are finitely many threads to count.
LEMMA ThreadsAreFinite ==
  ASSUME NEW R \in SUBSET Threads
  PROVE  IsFiniteSet(R) /\ Cardinality(R) \in Nat
<1>1. IsFiniteSet(Threads)
  BY FS_AddElement DEF Threads
<1>2. IsFiniteSet(R)
  BY <1>1, FS_Subset
<1>3. QED
  BY <1>2, FS_CardinalityType

\* A thread that goes to its cleanup is counted once more, and one that goes
\* anywhere else from anywhere else does not change the count.
LEMMA RetainingMoves ==
  ASSUME ThreadInv, NEW t \in Threads, NEW at,
         pc[t] # "retain", pc' = [pc EXCEPT ![t] = at]
  PROVE  Cardinality(Retaining') =
           IF at = "retain" THEN Cardinality(Retaining) + 1
                            ELSE Cardinality(Retaining)
<1>1. pc'[t] = at /\ \A u \in Threads : u # t => pc'[u] = pc[u]
  BY DEF ThreadInv
<1>2. IsFiniteSet(Retaining) /\ t \notin Retaining
  BY ThreadsAreFinite DEF Retaining
<1>3. CASE at = "retain"
  <2>1. Retaining' = Retaining \cup {t}
    BY <1>1, <1>3 DEF Retaining
  <2>2. Cardinality(Retaining \cup {t}) = Cardinality(Retaining) + 1
    BY <1>2, FS_AddElement
  <2>3. QED
    BY <1>3, <2>1, <2>2
<1>4. CASE at # "retain"
  <2>1. Retaining' = Retaining
    BY <1>1, <1>2, <1>4 DEF Retaining
  <2>2. QED
    BY <1>4, <2>1
<1>5. QED
  BY <1>3, <1>4

\* A thread that gives up its cleanup is counted no more.
LEMMA RetainingLeaves ==
  ASSUME ThreadInv, NEW t \in Threads,
         pc[t] = "retain", pc' = [pc EXCEPT ![t] = "idle"]
  PROVE  Cardinality(Retaining') = Cardinality(Retaining) - 1
<1>1. pc'[t] = "idle" /\ \A u \in Threads : u # t => pc'[u] = pc[u]
  BY DEF ThreadInv
<1>2. IsFiniteSet(Retaining) /\ t \in Retaining
  BY ThreadsAreFinite DEF Retaining
<1>3. Retaining' = Retaining \ {t}
  BY <1>1 DEF Retaining
<1>4. Cardinality(Retaining \ {t}) = Cardinality(Retaining) - 1
  BY <1>2, FS_RemoveElement
<1>5. QED
  BY <1>3, <1>4

\* Fewer snapshots and at least as many cleanups to come: the bound stays.
LEMMA BoundIsMonotonic ==
  ASSUME ThreadInv, FiniteInv, RetentionBound,
         serving' => serving,
         snapshots' \in SUBSET snapshots,
         Cardinality(Retaining) + failed_cleanups
           <= Cardinality(Retaining') + failed_cleanups',
         failed_cleanups' \in Nat
  PROVE  RetentionBound'
<1>1. Cardinality(snapshots') <= Cardinality(snapshots)
  BY FS_Subset DEF FiniteInv
<1>2. Cardinality(snapshots) \in Nat /\ Cardinality(snapshots') \in Nat
  BY FS_Subset, FS_CardinalityType DEF FiniteInv
<1>3. KeepLatest \in Nat /\ failed_cleanups \in Nat
  BY DEF ThreadInv
<1>4. Cardinality(Retaining) \in Nat /\ Cardinality(Retaining') \in Nat
  <2>1. Retaining \in SUBSET Threads /\ Retaining' \in SUBSET Threads
    BY DEF Retaining
  <2>2. QED
    BY <2>1, ThreadsAreFinite
<1>5. ASSUME serving', KeepLatest > 0
      PROVE  Cardinality(snapshots')
               <= KeepLatest + Cardinality(Retaining') + failed_cleanups'
  <2>1. Cardinality(snapshots)
          <= KeepLatest + Cardinality(Retaining) + failed_cleanups
    BY <1>5 DEF RetentionBound, Retaining
  <2>2. QED
    BY <1>1, <1>2, <1>3, <1>4, <2>1
<1>6. QED
  BY <1>5 DEF RetentionBound, Retaining

\* A write adds one snapshot at most and sends its thread to the cleanup.
LEMMA PutKeepsBound ==
  ASSUME ThreadInv, FiniteInv, RetentionBound, NEW t \in Threads, Put(t)
  PROVE  RetentionBound'
<1>1. snapshots' = snapshots \cup {snap[t]} /\ UNCHANGED <<serving, failed_cleanups>>
  BY DEF Put, PutSnapshotWithTransport, PutSnapshotAndDeltaWithTransport, environmentVars
<1>2. pc' = [pc EXCEPT ![t] = "retain"] /\ pc[t] # "retain"
  BY DEF Put, Finish
<1>3. Cardinality(Retaining') = Cardinality(Retaining) + 1
  BY <1>2, RetainingMoves
<1>4. /\ Cardinality(snapshots) \in Nat /\ Cardinality(snapshots') \in Nat
      /\ Cardinality(snapshots') <= Cardinality(snapshots) + 1
  <2>1. Cardinality(snapshots \cup {snap[t]}) =
          IF snap[t] \in snapshots THEN Cardinality(snapshots)
                                   ELSE Cardinality(snapshots) + 1
    BY FS_AddElement DEF FiniteInv
  <2>2. Cardinality(snapshots) \in Nat
    BY FS_CardinalityType DEF FiniteInv
  <2>3. QED
    BY <1>1, <2>1, <2>2
<1>5. /\ KeepLatest \in Nat /\ failed_cleanups \in Nat
      /\ Cardinality(Retaining) \in Nat
  BY ThreadsAreFinite DEF ThreadInv, Retaining
<1>6. ASSUME serving, KeepLatest > 0
      PROVE  Cardinality(snapshots')
               <= KeepLatest + Cardinality(Retaining') + failed_cleanups
  <2>1. Cardinality(snapshots)
          <= KeepLatest + Cardinality(Retaining) + failed_cleanups
    BY <1>6 DEF RetentionBound, Retaining
  <2>2. QED
    BY <1>3, <1>4, <1>5, <2>1
<1>7. QED
  BY <1>1, <1>6 DEF RetentionBound, Retaining

\* A cleanup that succeeds leaves KeepLatest snapshots, however many captures,
\* failures and crashes came before it.
LEMMA RetainKeepsBound ==
  ASSUME ThreadInv, FiniteInv, NEW t \in Threads, Retain(t)
  PROVE  RetentionBound'
<1> SUFFICES ASSUME KeepLatest > 0
             PROVE  Cardinality(snapshots')
                      <= KeepLatest + Cardinality(Retaining') + failed_cleanups'
  BY DEF RetentionBound, Retaining
<1>1. failed_cleanups' = 0 /\ KeepLatest \in Nat
  BY DEF Retain
<1>2. Cardinality(Retaining') \in Nat
  BY ThreadsAreFinite DEF Retaining
<1>3. Cardinality(snapshots) \in Nat
  BY FS_CardinalityType DEF FiniteInv
<1>4. Cardinality(snapshots') <= KeepLatest
  <2>1. CASE Cardinality(snapshots) > KeepLatest
    <3>1. snapshots' = Retained(KeepLatest)
      BY <2>1 DEF Retain, ApplySnapshotRetention
    <3>2. ~(Cardinality(snapshots) <= KeepLatest)
      BY <1>1, <1>3, <2>1
    <3>3. Cardinality(Retained(KeepLatest)) = KeepLatest
      BY <1>1, <3>2, RetentionCounts DEF FiniteInv
    <3>4. QED
      BY <1>1, <3>1, <3>3
  <2>2. CASE ~(Cardinality(snapshots) > KeepLatest)
    <3>1. snapshots' = snapshots
      BY <2>2 DEF Retain, storeVars
    <3>2. QED
      BY <1>1, <1>3, <2>2, <3>1
  <2>3. QED
    BY <2>1, <2>2
<1>5. Cardinality(snapshots') \in Nat
  <2>1. snapshots' \in SUBSET snapshots
    BY DEF Retain, ApplySnapshotRetention, Retained, storeVars
  <2>2. QED
    BY <2>1, FS_Subset, FS_CardinalityType DEF FiniteInv
<1>6. QED
  BY <1>1, <1>2, <1>4, <1>5

LEMMA BoundStep ==
  ASSUME ThreadInv, FiniteInv, RetentionBound, [ServiceNext]_serviceVars
  PROVE  RetentionBound'
<1>1. failed_cleanups \in Nat /\ Cardinality(Retaining) \in Nat
  BY ThreadsAreFinite DEF ThreadInv, Retaining
<1>2. ASSUME serving' = FALSE PROVE RetentionBound'
  BY <1>2 DEF RetentionBound
<1>3. ASSUME NEW t \in Threads, NEW at, pc' = [pc EXCEPT ![t] = at],
             pc[t] # "retain", serving' = serving, snapshots' = snapshots,
             failed_cleanups' = failed_cleanups
      PROVE  RetentionBound'
  <2>1. Cardinality(Retaining') \in Nat
    BY ThreadsAreFinite DEF Retaining
  <2>2. Cardinality(Retaining') =
          IF at = "retain" THEN Cardinality(Retaining) + 1 ELSE Cardinality(Retaining)
    BY <1>3, RetainingMoves
  <2>3. Cardinality(Retaining) + failed_cleanups
          <= Cardinality(Retaining') + failed_cleanups'
    BY <1>1, <1>3, <2>1, <2>2
  <2>4. QED
    BY <1>1, <1>3, <2>3, BoundIsMonotonic
<1>4. ASSUME UNCHANGED <<pc, serving, failed_cleanups>>, snapshots' \in SUBSET snapshots
      PROVE  RetentionBound'
  <2>1. Retaining' = Retaining
    BY <1>4 DEF Retaining
  <2>2. Cardinality(Retaining) + failed_cleanups
          <= Cardinality(Retaining') + failed_cleanups'
    BY <1>1, <1>4, <2>1
  <2>3. QED
    BY <1>1, <1>4, <2>2, BoundIsMonotonic
<1>5. ASSUME NEW t \in Threads, RetainFails(t)
      PROVE  RetentionBound'
  <2>1. CASE serving
    <3>1. /\ pc[t] = "retain" /\ pc' = [pc EXCEPT ![t] = "idle"]
          /\ failed_cleanups' = failed_cleanups + 1
          /\ UNCHANGED <<serving, snapshots>>
      BY <1>5, <2>1 DEF RetainFails, storeVars
    <3>2. Cardinality(Retaining') = Cardinality(Retaining) - 1
      BY <3>1, RetainingLeaves
    <3>3. Cardinality(Retaining) + failed_cleanups
            <= Cardinality(Retaining') + failed_cleanups'
      BY <1>1, <3>1, <3>2
    <3>4. failed_cleanups' \in Nat
      BY <1>1, <3>1
    <3>5. QED
      BY <3>1, <3>3, <3>4, BoundIsMonotonic
  <2>2. CASE ~serving
    BY <1>2, <1>5, <2>2 DEF RetainFails, StartProcess
  <2>3. QED
    BY <2>1, <2>2
<1>6. ASSUME NEW t \in Threads, Put(t) PROVE RetentionBound'
  BY <1>6, PutKeepsBound
<1>7. ASSUME NEW t \in Threads, Retain(t) PROVE RetentionBound'
  BY <1>7, RetainKeepsBound
<1>8. ASSUME NEW t \in Threads, CaptureStep(t),
             ~Put(t), ~Retain(t), ~RetainFails(t)
      PROVE  RetentionBound'
  <2>1. /\ pc[t] # "retain" /\ \E at : pc' = [pc EXCEPT ![t] = at]
        /\ UNCHANGED <<serving, storeVars, environmentVars>>
    BY <1>8 DEF CaptureStep, Scan, ScanInvalid, ReadBaseMissing, ReadBaseUnchanged,
                ReadBaseChanged, PutFails, Finish
  <2>2. UNCHANGED <<serving, snapshots, failed_cleanups>>
    BY <2>1 DEF storeVars, environmentVars
  <2>3. QED
    BY <1>3, <2>1, <2>2
<1>9. CASE CrashAndRestart
  BY <1>2, <1>9 DEF CrashAndRestart, StartProcess
<1>10. CASE Boot \/ WatchCycle
  <2>1. /\ pc[Watch] # "retain" /\ \E at : pc' = [pc EXCEPT ![Watch] = at]
        /\ UNCHANGED <<serving, storeVars, environmentVars>>
    BY <1>10 DEF Boot, WatchCycle
  <2>2. UNCHANGED <<serving, snapshots, failed_cleanups>>
    BY <2>1 DEF storeVars, environmentVars
  <2>3. QED
    BY <1>3, <2>1, <2>2, WatchIsThread
<1>11. ASSUME NEW w \in Workers, NEW b \in SnapshotIds \cup {0}, RemoteCapture(w, b)
       PROVE  RetentionBound'
  <2>1. /\ pc[w] # "retain" /\ pc' = [pc EXCEPT ![w] = "scan"] /\ w \in Threads
        /\ UNCHANGED <<serving, snapshots, failed_cleanups>>
    BY <1>11 DEF RemoteCapture, storeVars, environmentVars, Threads
  <2>2. QED
    BY <1>3, <2>1
<1>12. ASSUME NEW w \in Workers, NEW id \in SnapshotIds, RemoteDelete(w, id)
       PROVE  RetentionBound'
  BY <1>4, <1>12 DEF RemoteDelete, DeleteSnapshot, threadVars, environmentVars
<1>13. CASE Tick \/ FilesChange \/ UNCHANGED serviceVars
  BY <1>4, <1>13
     DEF Tick, FilesChange, serviceVars, storeVars, threadVars, environmentVars
<1>14. QED
  BY <1>5, <1>6, <1>7, <1>8, <1>9, <1>10, <1>11, <1>12, <1>13 DEF ServiceNext

\* With retention configured the store stays bounded: KeepLatest, one for each
\* capture on its way to its cleanup and one for each cleanup that failed since
\* one succeeded, for any number of threads, crashes and failures.
THEOREM BoundTheorem == ServiceSpec => []RetentionBound
<1>1. ServiceInit => RetentionBound
  BY DEF ServiceInit, RetentionBound
<1>2. StoreInit => TablesTypeOK /\ IsFiniteSet(snapshots)
  BY FS_EmptySet DEF StoreInit, TablesTypeOK
<1>3. TablesTypeOK /\ IsFiniteSet(snapshots) /\ [StoreNext]_storeVars
        => TablesTypeOK' /\ IsFiniteSet(snapshots)'
  BY TablesStep, SnapshotsStayFinite
<1>4. StoreSpec => [](TablesTypeOK /\ IsFiniteSet(snapshots))
  BY <1>2, <1>3, PTL DEF StoreSpec
<1>5. TablesTypeOK /\ IsFiniteSet(snapshots) => FiniteInv
  BY DEF TablesTypeOK, FiniteInv
<1>6. ServiceSpec => []FiniteInv
  BY <1>4, <1>5, ServiceImplementsStore, PTL
<1>7. ThreadInv /\ FiniteInv /\ RetentionBound /\ [ServiceNext]_serviceVars
        => RetentionBound'
  BY BoundStep
<1>8. QED
  BY <1>1, <1>6, <1>7, ThreadInvariant, PTL DEF ServiceSpec
=============================================================================
