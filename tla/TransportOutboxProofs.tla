----------------------- MODULE TransportOutboxProofs -----------------------
(***************************************************************************)
(* Proofs about the transport outbox, for every set of consumers and       *)
(* records and every bound.  The inductive invariant is OutboxInv: types   *)
(* and the window of stored sequence numbers.  The action properties need  *)
(* it because a batch is written behind next_sequence, which only leaves   *)
(* stored records alone when all of them are below it.                     *)
(***************************************************************************)
EXTENDS TransportOutbox, TLAPS, FiniteSetTheorems

OutboxInv == OutboxTypeOK /\ OutboxIsWindow

USE OutboxAssumption

\* What a transaction that enqueues does to the outbox: every later argument
\* about EnqueueRecords uses only these facts.
LEMMA EnqueueShape ==
  ASSUME OutboxInv, NEW recs \in Batches, EnqueueRecords(recs)
  PROVE  /\ Len(recs) \in Nat \ {0}
         /\ next_sequence' = next_sequence + Len(recs)
         /\ DOMAIN outbox' =
              DOMAIN outbox \cup (next_sequence .. next_sequence + Len(recs) - 1)
         /\ \A s \in DOMAIN outbox : outbox'[s] = outbox[s]
         /\ outbox' \in [DOMAIN outbox' -> Records]
         /\ consumer_ack' = consumer_ack
<1>1. PICK n \in 1..MaxBatch : recs \in [1..n -> Records]
  BY DEF Batches
<1>2. Len(recs) = n /\ recs \in Seq(Records)
  BY <1>1
<1>3. next_sequence \in Nat \ {0} /\ DOMAIN outbox \subseteq Nat \ {0}
  BY DEF OutboxInv, OutboxTypeOK
<1>4. \A s \in DOMAIN outbox : s < next_sequence /\ outbox[s] \in Records
  BY DEF OutboxInv, OutboxTypeOK, OutboxIsWindow
<1> DEFINE D == DOMAIN outbox \cup (next_sequence .. next_sequence + n - 1)
           F(s) == IF s >= next_sequence THEN recs[s - next_sequence + 1]
                                         ELSE outbox[s]
<1>5. outbox' = [s \in D |-> F(s)]
  BY <1>2 DEF EnqueueRecords
<1>6. DOMAIN outbox' = D
  BY <1>5
<1>7. ASSUME NEW s \in DOMAIN outbox PROVE outbox'[s] = outbox[s]
  <2>1. s \in D /\ ~(s >= next_sequence)
    BY <1>3, <1>4
  <2>2. QED
    BY <1>5, <2>1
<1>8. ASSUME NEW s \in D PROVE F(s) \in Records
  <2>1. CASE s \in DOMAIN outbox
    BY <1>3, <1>4, <2>1
  <2>2. CASE s \in next_sequence .. next_sequence + n - 1
    <3>1. s >= next_sequence /\ s - next_sequence + 1 \in 1..n
      BY <1>3, <2>2
    <3>2. recs[s - next_sequence + 1] \in Records
      BY <1>1, <3>1
    <3>3. QED
      BY <3>1, <3>2
  <2>3. QED
    BY <2>1, <2>2
<1>9. outbox' \in [DOMAIN outbox' -> Records]
  BY <1>5, <1>6, <1>8
<1>10. QED
  BY <1>2, <1>6, <1>7, <1>9 DEF EnqueueRecords

\* Enqueueing extends the window at its end by exactly the new numbers.
LEMMA EnqueueKeepsInv ==
  ASSUME OutboxInv, NEW recs \in Batches, EnqueueRecords(recs)
  PROVE  OutboxInv'
<1> DEFINE n == Len(recs)
<1>1. /\ n \in Nat \ {0}
      /\ next_sequence' = next_sequence + n
      /\ DOMAIN outbox' = DOMAIN outbox \cup (next_sequence .. next_sequence + n - 1)
      /\ outbox' \in [DOMAIN outbox' -> Records]
      /\ consumer_ack' = consumer_ack
  BY EnqueueShape
<1>2. next_sequence \in Nat \ {0} /\ DOMAIN outbox \subseteq Nat \ {0}
  BY DEF OutboxInv, OutboxTypeOK
<1> HIDE DEF n
<1>3. OutboxTypeOK'
  BY <1>1, <1>2 DEF OutboxInv, OutboxTypeOK
<1>4. OutboxIsWindow'
  <2>1. ASSUME NEW s \in DOMAIN outbox' PROVE s < next_sequence'
    BY <1>1, <1>2 DEF OutboxInv, OutboxIsWindow
  <2>2. ASSUME NEW s \in DOMAIN outbox', NEW t \in s..(next_sequence' - 1)
        PROVE  t \in DOMAIN outbox'
    <3>1. s \in Nat /\ t \in Nat /\ s <= t /\ t <= next_sequence + n - 1
      BY <1>1, <1>2
    <3>2. CASE t >= next_sequence
      BY <1>1, <1>2, <3>1, <3>2
    <3>3. CASE t < next_sequence
      <4>1. s \in DOMAIN outbox /\ t \in s..(next_sequence - 1)
        BY <1>1, <1>2, <3>1, <3>3
      <4>2. QED
        BY <1>1, <4>1 DEF OutboxInv, OutboxIsWindow
    <3>4. QED
      BY <1>2, <3>1, <3>2, <3>3
  <2>3. QED
    BY <2>1, <2>2 DEF OutboxIsWindow
<1>5. QED
  BY <1>3, <1>4 DEF OutboxInv

\* Registering and acknowledging touch only the positions of the consumers.
LEMMA AckKeepsInv ==
  ASSUME OutboxInv, NEW c \in Consumers,
         \/ RegisterTransportConsumer(c)
         \/ \E seq \in 0..MaxSequence : AckTransportUntil(c, seq)
  PROVE  OutboxInv'
<1>1. PICK n \in Nat :
        /\ consumer_ack' = [d \in DOMAIN consumer_ack \cup {c} |->
                              IF d = c THEN n ELSE consumer_ack[d]]
        /\ outbox' = outbox
        /\ next_sequence' = next_sequence
  BY DEF RegisterTransportConsumer, AckTransportUntil, Registered
<1>2. /\ DOMAIN consumer_ack' = DOMAIN consumer_ack \cup {c}
      /\ consumer_ack' \in [DOMAIN consumer_ack' -> Nat]
  BY <1>1 DEF OutboxInv, OutboxTypeOK
<1>3. QED
  BY <1>1, <1>2 DEF OutboxInv, OutboxTypeOK, OutboxIsWindow

\* Compaction removes the lower part of the window: a number above a kept one
\* is above the minimum of the acknowledgements as well.
LEMMA CompactKeepsInv ==
  ASSUME OutboxInv, CompactUpToMinAcked
  PROVE  OutboxInv'
<1>1. /\ DOMAIN outbox' = {t \in DOMAIN outbox : ~AckedByAll(t)}
      /\ outbox' = [s \in {t \in DOMAIN outbox : ~AckedByAll(t)} |-> outbox[s]]
      /\ next_sequence' = next_sequence
      /\ consumer_ack' = consumer_ack
  BY DEF CompactUpToMinAcked
<1>2. OutboxTypeOK'
  BY <1>1 DEF OutboxInv, OutboxTypeOK
<1>3. ASSUME NEW s \in DOMAIN outbox', NEW t \in s..(next_sequence - 1)
      PROVE  t \in DOMAIN outbox'
  <2>1. s \in DOMAIN outbox /\ ~AckedByAll(s) /\ s \in Nat /\ next_sequence \in Nat
    BY <1>1 DEF OutboxInv, OutboxTypeOK
  <2>2. t \in DOMAIN outbox /\ t \in Nat /\ s <= t
    BY <2>1 DEF OutboxInv, OutboxIsWindow
  <2>3. PICK c \in Registered : ~(s <= consumer_ack[c])
    BY <2>1 DEF AckedByAll
  <2>4. consumer_ack[c] \in Nat
    BY <2>3 DEF OutboxInv, OutboxTypeOK, Registered
  <2>5. ~(t <= consumer_ack[c])
    BY <2>1, <2>2, <2>3, <2>4
  <2>6. QED
    BY <1>1, <2>2, <2>3, <2>5 DEF AckedByAll
<1>4. QED
  BY <1>1, <1>2, <1>3 DEF OutboxInv, OutboxIsWindow

LEMMA StepKeepsInv ==
  ASSUME OutboxInv, [OutboxNext]_outboxVars
  PROVE  OutboxInv'
<1>1. CASE \E recs \in Batches : EnqueueRecords(recs)
  BY <1>1, EnqueueKeepsInv
<1>2. CASE \E c \in Consumers : RegisterTransportConsumer(c)
  BY <1>2, AckKeepsInv
<1>3. CASE \E c \in Consumers, seq \in 0..MaxSequence : AckTransportUntil(c, seq)
  BY <1>3, AckKeepsInv
<1>4. CASE CompactUpToMinAcked
  BY <1>4, CompactKeepsInv
<1>5. CASE UNCHANGED outboxVars
  BY <1>5 DEF outboxVars, OutboxInv, OutboxTypeOK, OutboxIsWindow
<1>6. QED
  BY <1>1, <1>2, <1>3, <1>4, <1>5 DEF OutboxNext

LEMMA InitInv == OutboxInit => OutboxInv
  BY DEF OutboxInit, OutboxInv, OutboxTypeOK, OutboxIsWindow

\* The inductive invariant holds in every reachable state.
THEOREM OutboxInvariant == OutboxSpec => []OutboxInv
<1>1. OutboxInit => OutboxInv
  BY InitInv
<1>2. OutboxInv /\ [OutboxNext]_outboxVars => OutboxInv'
  BY StepKeepsInv
<1>3. QED
  BY <1>1, <1>2, PTL DEF OutboxSpec

\* The stored records are always a gapless window below next_sequence, as
\* reserve_next_sequence and compaction leave them.
THEOREM WindowTheorem == OutboxSpec => [](OutboxTypeOK /\ OutboxIsWindow)
  BY OutboxInvariant, PTL DEF OutboxInv

-----------------------------------------------------------------------------
(***************************************************************************)
(* Action properties.                                                      *)
(***************************************************************************)

\* The position of a consumer moves forwards only, and by its own
\* acknowledgements only.
LEMMA AcksAreIsolated == OutboxSpec => [][NoStepMovesOtherAcks]_outboxVars
<1>1. ASSUME OutboxInv, OutboxNext
      PROVE  NoStepMovesOtherAcks
  <2>1. \A c \in Registered : consumer_ack[c] \in Nat
    BY <1>1 DEF OutboxInv, OutboxTypeOK, Registered
  <2>2. ASSUME NEW c \in Consumers, RegisterTransportConsumer(c)
        PROVE  NoStepMovesOtherAcks
    BY <2>1, <2>2
       DEF RegisterTransportConsumer, NoStepMovesOtherAcks, Registered
  <2>3. ASSUME NEW c \in Consumers, NEW seq \in 0..MaxSequence,
               AckTransportUntil(c, seq)
        PROVE  NoStepMovesOtherAcks
    BY <2>1, <2>3 DEF AckTransportUntil, NoStepMovesOtherAcks, Registered
  <2>4. ASSUME UNCHANGED consumer_ack
        PROVE  NoStepMovesOtherAcks
    BY <2>1, <2>4 DEF NoStepMovesOtherAcks, Registered
  <2>5. QED
    BY <1>1, <2>2, <2>3, <2>4 DEF OutboxNext, EnqueueRecords, CompactUpToMinAcked
<1>2. OutboxInv /\ [OutboxNext]_outboxVars => [NoStepMovesOtherAcks]_outboxVars
  BY <1>1
<1>3. QED
  BY <1>2, OutboxInvariant, PTL DEF OutboxSpec

\* No acknowledgement, registration or compaction takes a record from the
\* outbox that some registered consumer has still to read.
THEOREM UnreadTheorem == OutboxSpec => UnreadRecordsAreKept
<1>1. ASSUME OutboxInv, OutboxNext
      PROVE  NoStepDropsUnread
  <2> SUFFICES ASSUME NEW c \in Registered, NEW s \in Unread(c)
               PROVE  s \in DOMAIN outbox'
    BY DEF NoStepDropsUnread
  <2>1. s \in DOMAIN outbox /\ c \in DOMAIN consumer_ack /\ s > consumer_ack[c]
    BY DEF Unread, Behind, LastAcked, Registered
  <2>2. ASSUME NEW recs \in Batches, EnqueueRecords(recs)
        PROVE  s \in DOMAIN outbox'
    BY <1>1, <2>1, <2>2, EnqueueShape
  <2>3. ASSUME CompactUpToMinAcked
        PROVE  s \in DOMAIN outbox'
    <3>1. s \in Nat /\ consumer_ack[c] \in Nat
      BY <1>1, <2>1 DEF OutboxInv, OutboxTypeOK
    <3>2. ~AckedByAll(s)
      BY <2>1, <3>1 DEF AckedByAll, Registered
    <3>3. QED
      BY <2>1, <2>3, <3>2 DEF CompactUpToMinAcked
  <2>4. ASSUME UNCHANGED outbox
        PROVE  s \in DOMAIN outbox'
    BY <2>1, <2>4
  <2>5. QED
    BY <1>1, <2>2, <2>3, <2>4
       DEF OutboxNext, RegisterTransportConsumer, AckTransportUntil
<1>2. OutboxInv /\ [OutboxNext]_outboxVars => [NoStepDropsUnread]_outboxVars
  BY <1>1
<1>3. QED
  BY <1>2, OutboxInvariant, AcksAreIsolated, PTL DEF OutboxSpec, UnreadRecordsAreKept

\* A sequence number names one record for ever: next_sequence never goes back,
\* and below it nothing is written again, compacted or not.
THEOREM SequencesTheorem == OutboxSpec => SequencesAreNotReused
<1>1. ASSUME OutboxInv, OutboxNext
      PROVE  NoStepReusesSequence
  <2>1. ASSUME NEW recs \in Batches, EnqueueRecords(recs)
        PROVE  NoStepReusesSequence
    <3>1. /\ Len(recs) \in Nat
          /\ next_sequence \in Nat
          /\ next_sequence' = next_sequence + Len(recs)
          /\ DOMAIN outbox' = DOMAIN outbox
               \cup (next_sequence .. next_sequence + Len(recs) - 1)
          /\ \A s \in DOMAIN outbox : outbox'[s] = outbox[s]
      BY <1>1, <2>1, EnqueueShape DEF OutboxInv, OutboxTypeOK
    <3>2. QED
      BY <3>1 DEF NoStepReusesSequence
  <2>2. ASSUME CompactUpToMinAcked
        PROVE  NoStepReusesSequence
    BY <1>1, <2>2
       DEF CompactUpToMinAcked, NoStepReusesSequence, OutboxInv, OutboxTypeOK
  <2>3. ASSUME UNCHANGED <<outbox, next_sequence>>
        PROVE  NoStepReusesSequence
    BY <1>1, <2>3 DEF NoStepReusesSequence, OutboxInv, OutboxTypeOK
  <2>4. QED
    BY <1>1, <2>1, <2>2, <2>3
       DEF OutboxNext, RegisterTransportConsumer, AckTransportUntil
<1>2. OutboxInv /\ [OutboxNext]_outboxVars => [NoStepReusesSequence]_outboxVars
  BY <1>1
<1>3. QED
  BY <1>2, OutboxInvariant, PTL DEF OutboxSpec, SequencesAreNotReused

-----------------------------------------------------------------------------
(***************************************************************************)
(* Reads.                                                                  *)
(***************************************************************************)

\* The cursor walks upwards: a batch that reaches s holds everything behind
\* the position that is not above s.
LEMMA BatchReachesDown ==
  ASSUME OutboxInv, NEW ack \in Nat, NEW n \in Nat,
         NEW s \in BatchBehind(ack, n), NEW t \in Behind(ack), t <= s
  PROVE  t \in BatchBehind(ack, n)
<1> DEFINE Below(u) == {v \in Behind(ack) : v < u}
<1>1. Behind(ack) \in SUBSET Nat /\ s \in Behind(ack)
  BY DEF Behind, BatchBehind, OutboxInv, OutboxTypeOK
<1>2. IsFiniteSet(Below(s))
  <2>1. Below(s) \in SUBSET Nat /\ \A v \in Below(s) : v <= s
    BY <1>1
  <2>2. QED
    BY <1>1, <2>1, FS_BoundedSetOfNaturals
<1>3. Below(t) \in SUBSET Below(s)
  BY <1>1
<1>4. IsFiniteSet(Below(t)) /\ Cardinality(Below(t)) <= Cardinality(Below(s))
  BY <1>2, <1>3, FS_Subset
<1>5. Cardinality(Below(s)) \in Nat /\ Cardinality(Below(t)) \in Nat
  BY <1>2, <1>4, FS_CardinalityType
<1>6. Cardinality(Below(s)) < n
  BY DEF BatchBehind
<1>7. Cardinality(Below(t)) < n
  BY <1>4, <1>5, <1>6
<1>8. QED
  BY <1>7 DEF BatchBehind

\* A batch is a run of consecutive numbers: fetch_transport_batch_for_consumer
\* skips nothing, for any batch size and any position.
LEMMA BatchesFollow == OutboxInv => BatchesAreConsecutive
<1> SUFFICES ASSUME OutboxInv,
                    NEW c \in Consumers, NEW n \in 1..MaxSequence,
                    NEW s \in FetchBatch(c, n), NEW t \in Unread(c), t < s
             PROVE  t \in FetchBatch(c, n) /\ t + 1 \in FetchBatch(c, n)
  BY DEF BatchesAreConsecutive
<1> DEFINE ack == LastAcked(c)
<1>1. ack \in Nat /\ n \in Nat
  BY DEF OutboxInv, OutboxTypeOK, LastAcked, Registered
<1>2. s \in BatchBehind(ack, n) /\ s \in Behind(ack) /\ t \in Behind(ack)
  BY DEF FetchBatch, BatchBehind, Unread
<1>3. /\ s \in DOMAIN outbox /\ t \in DOMAIN outbox /\ t > ack
      /\ s \in Nat /\ t \in Nat /\ s < next_sequence /\ next_sequence \in Nat
  BY <1>2 DEF Behind, OutboxInv, OutboxTypeOK, OutboxIsWindow
<1>4. t + 1 \in Behind(ack)
  <2>1. t + 1 \in t..(next_sequence - 1)
    BY <1>3
  <2>2. t + 1 \in DOMAIN outbox
    BY <1>3, <2>1 DEF OutboxInv, OutboxIsWindow
  <2>3. QED
    BY <1>1, <1>3, <2>2 DEF Behind
<1>5. t <= s /\ t + 1 <= s
  BY <1>3
<1>6. QED
  BY <1>1, <1>2, <1>4, <1>5, BatchReachesDown DEF FetchBatch

\* In every reachable state a batch is the next run of consecutive numbers.
THEOREM BatchTheorem == OutboxSpec => []BatchesAreConsecutive
  BY OutboxInvariant, BatchesFollow, PTL

=============================================================================
