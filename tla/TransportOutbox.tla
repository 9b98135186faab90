-------------------------- MODULE TransportOutbox --------------------------
(***************************************************************************)
(* The transport outbox of Muninn's LMDB store: the databases              *)
(* transport_outbox (sequence -> frame), meta (next_transport_sequence)    *)
(* and transport_consumers (consumer id -> last acknowledged sequence).    *)
(*                                                                         *)
(* Every writer holds LmdbStore::writer_mutex_ and runs in one LMDB write  *)
(* transaction that commits or aborts as a whole, so each operation is one *)
(* atomic action.  A crash loses nothing that was committed, and an abort  *)
(* (a full map, a failing commit) leaves the variables as they were: both  *)
(* are stuttering steps of this specification.                             *)
(***************************************************************************)
EXTENDS Integers, Sequences, FiniteSets

CONSTANTS
  Consumers,    \* consumer ids, "client_instance_id:host_id" in the code
  Records,      \* what a frame carries: record type, routing key, payload
  MaxBatch,     \* bound: records that one transaction enqueues
  MaxSequence   \* bound: the largest sequence number ever reserved

ASSUME OutboxAssumption ==
  /\ MaxBatch \in Nat \ {0}
  /\ MaxSequence \in Nat

VARIABLES
  outbox,         \* function from the stored sequence numbers to Records
  next_sequence,  \* meta: the next sequence number to hand out
  consumer_ack    \* function from the registered consumers to Nat

outboxVars == <<outbox, next_sequence, consumer_ack>>

Batches == UNION {[1..n -> Records] : n \in 1..MaxBatch}

OutboxTypeOK ==
  /\ next_sequence \in Nat \ {0}
  /\ outbox \in [DOMAIN outbox -> Records]
  /\ DOMAIN outbox \subseteq Nat \ {0}
  /\ consumer_ack \in [DOMAIN consumer_ack -> Nat]
  /\ DOMAIN consumer_ack \subseteq Consumers

-----------------------------------------------------------------------------
(***************************************************************************)
(* Reads.                                                                  *)
(***************************************************************************)
Registered == DOMAIN consumer_ack

\* A consumer without an entry reads as if it had acknowledged nothing.
LastAcked(c) == IF c \in Registered THEN consumer_ack[c] ELSE 0

Behind(ack) == {s \in DOMAIN outbox : s > ack}

Unread(c) == Behind(LastAcked(c))

\* Mutant of BatchBehind: the cursor walks down from the newest record.
NewestBehind(ack, n) ==
  {s \in Behind(ack) : Cardinality({t \in Behind(ack) : t > s}) < n}

\* fetch_transport_batch_for_consumer: the cursor starts behind the
\* acknowledged sequence and walks up the keys for at most n records.  The
\* order of a batch is the order of its sequence numbers.
BatchBehind(ack, n) ==
  {s \in Behind(ack) : Cardinality({t \in Behind(ack) : t < s}) < n}

FetchBatch(c, n) == BatchBehind(LastAcked(c), n)

\* Mutant of AckedByAll: the maximum position instead of the minimum.
AckedByAny(s) == \E c \in Registered : s <= consumer_ack[c]

\* compact_transport_up_to_min_acked takes the minimum over all consumers;
\* s is at most that minimum exactly when everyone has acknowledged s.
AckedByAll(s) == \A c \in Registered : s <= consumer_ack[c]

-----------------------------------------------------------------------------
(***************************************************************************)
(* Writes, one action per transaction.                                     *)
(***************************************************************************)
OutboxInit ==
  /\ outbox = [s \in {} |-> s]
  /\ next_sequence = 1
  /\ consumer_ack = [c \in {} |-> 0]

\* Mutant of EnqueueRecords: a number is reserved once more after the last put.
EnqueueRecordsSkipping(recs) ==
  /\ next_sequence + Len(recs) - 1 <= MaxSequence
  /\ outbox' = [s \in DOMAIN outbox \cup
                        (next_sequence .. next_sequence + Len(recs) - 1) |->
                   IF s >= next_sequence THEN recs[s - next_sequence + 1]
                                         ELSE outbox[s]]
  /\ next_sequence' = next_sequence + Len(recs) + 1
  /\ UNCHANGED consumer_ack

\* reserve_next_sequence and put for each record, all in one transaction.
EnqueueRecords(recs) ==
  /\ next_sequence + Len(recs) - 1 <= MaxSequence
  /\ outbox' = [s \in DOMAIN outbox \cup
                        (next_sequence .. next_sequence + Len(recs) - 1) |->
                   IF s >= next_sequence THEN recs[s - next_sequence + 1]
                                         ELSE outbox[s]]
  /\ next_sequence' = next_sequence + Len(recs)
  /\ UNCHANGED consumer_ack

\* A known consumer keeps its position: that case aborts the transaction.
RegisterTransportConsumer(c) ==
  /\ c \notin Registered
  /\ consumer_ack' = [d \in Registered \cup {c} |->
                         IF d = c THEN 0 ELSE consumer_ack[d]]
  /\ UNCHANGED <<outbox, next_sequence>>

\* The position becomes the maximum of the old and the acknowledged one; an
\* unknown consumer is created.  Nothing compares seq with next_sequence.
AckTransportUntil(c, seq) ==
  /\ c \in Registered => seq > consumer_ack[c]
  /\ consumer_ack' = [d \in Registered \cup {c} |->
                         IF d = c THEN seq ELSE consumer_ack[d]]
  /\ UNCHANGED <<outbox, next_sequence>>

\* Mutant of CompactUpToMinAcked: an emptied outbox starts over at 1.
CompactAndRenumber ==
  /\ Registered # {}
  /\ outbox' = [s \in {t \in DOMAIN outbox : ~AckedByAll(t)} |-> outbox[s]]
  /\ next_sequence' = IF DOMAIN outbox' = {} THEN 1 ELSE next_sequence
  /\ UNCHANGED consumer_ack

\* compact_transport_up_to_min_acked.
CompactUpToMinAcked ==
  /\ Registered # {}
  /\ outbox' = [s \in {t \in DOMAIN outbox : ~AckedByAll(t)} |-> outbox[s]]
  /\ UNCHANGED <<next_sequence, consumer_ack>>

OutboxNext ==
  \/ \E recs \in Batches : EnqueueRecords(recs)
  \/ \E c \in Consumers : RegisterTransportConsumer(c)
  \/ \E c \in Consumers, seq \in 0..MaxSequence : AckTransportUntil(c, seq)
  \/ CompactUpToMinAcked

OutboxSpec == OutboxInit /\ [][OutboxNext]_outboxVars

-----------------------------------------------------------------------------
(***************************************************************************)
(* What the outbox promises.                                               *)
(***************************************************************************)

\* The stored sequence numbers are a window that ends just below
\* next_sequence: neither enqueue nor compaction leaves a hole, so a reader
\* that walks the keys upwards never skips a record that is still to come.
OutboxIsWindow ==
  /\ \A s \in DOMAIN outbox : s < next_sequence
  /\ \A s \in DOMAIN outbox : \A t \in s..(next_sequence - 1) :
        t \in DOMAIN outbox

\* README "One consumer ack does not remove unread records for other
\* consumers": whatever acknowledgements and compactions happen, a record
\* leaves the outbox only when every consumer registered at that moment has
\* acknowledged it; and a record becomes read by its reader only: a step moves
\* the position of at most one consumer, only forwards, and forgets none.
NoStepDropsUnread ==
  \A c \in Registered : Unread(c) \subseteq DOMAIN outbox'

NoStepMovesOtherAcks ==
  /\ Registered \subseteq DOMAIN consumer_ack'
  /\ \A c \in Registered : consumer_ack'[c] >= consumer_ack[c]
  /\ \A c, d \in Registered :
        consumer_ack'[c] # consumer_ack[c] /\ consumer_ack'[d] # consumer_ack[d]
          => c = d

UnreadRecordsAreKept == [][NoStepDropsUnread /\ NoStepMovesOtherAcks]_outboxVars

\* A sequence number names one record for ever: it is never handed out a
\* second time, not even after compaction has deleted its record, and a stored
\* frame is never overwritten.
NoStepReusesSequence ==
  /\ next_sequence' >= next_sequence
  /\ \A s \in DOMAIN outbox' :
        s < next_sequence => s \in DOMAIN outbox /\ outbox'[s] = outbox[s]

SequencesAreNotReused == [][NoStepReusesSequence]_outboxVars

\* A batch is the next run of consecutive sequence numbers behind the position
\* of the consumer, whatever the batch size: a client that acknowledges the
\* largest sequence number of a batch acknowledges exactly what it was handed.
BatchesAreConsecutive ==
  \A c \in Consumers, n \in 1..MaxSequence :
    \A s \in FetchBatch(c, n), t \in Unread(c) :
      t < s => t \in FetchBatch(c, n) /\ t + 1 \in FetchBatch(c, n)

=============================================================================
