------------------------- MODULE IngestCoordinator -------------------------
(***************************************************************************)
(* Hugin's IngestCoordinator over an ingest store and a downstream sink.   *)
(*                                                                         *)
(* ingest() checks the sequence number under mutex_, lets go of it, parses *)
(* and validates the frame, appends it to the store, hands it to the sink, *)
(* and takes the mutex again to advance the position of the host and to    *)
(* decide about the acknowledgement.  Calls for one host can overlap, and  *)
(* the process can stop between any two of these steps: the store          *)
(* survives, the positions in memory do not.                               *)
(*                                                                         *)
(* Payloads play no part: a record is its host and sequence number.        *)
(***************************************************************************)
EXTENDS Integers, FiniteSets

CONSTANTS
  Hosts,         \* authenticated host ids
  Threads,       \* threads that call ingest()
  AckBatchSize,  \* options_.ack_batch_size, raised to 1 by the constructor
  MaxSequence,   \* bound: the largest sequence number offered
  MaxCrashes     \* bound: crashes of the process

ASSUME IngestAssumption ==
  /\ AckBatchSize \in Nat \ {0}
  /\ MaxSequence \in Nat
  /\ MaxCrashes \in Nat

Sequences == 1..MaxSequence

VARIABLES
  ingest_log,      \* store: sequence numbers of the stored frames of a host
  checkpoint,      \* store: checkpoint of a host, 0 if it has none
  loaded,          \* host_states_[h].loaded
  last_committed,  \* host_states_[h].last_committed_sequence
  since_last_ack,  \* host_states_[h].since_last_ack
  pc,              \* where each thread is in ingest()
  host,            \* argument host_id of the running call
  sequence,        \* argument sequence of the running call
  sink_seen,       \* history: records handed to the sink, of each host
  sink_position,   \* history: the record last handed to the sink, of each host
  acked,           \* history: largest acknowledgement given to each host
  crashes          \* number of crashes so far

storeVars == <<ingest_log, checkpoint>>
stateVars == <<loaded, last_committed, since_last_ack>>
callVars == <<pc, host, sequence>>
historyVars == <<sink_seen, sink_position, acked, crashes>>
ingestVars == <<storeVars, stateVars, callVars, historyVars>>

IngestTypeOK ==
  /\ ingest_log \in [Hosts -> SUBSET Sequences]
  /\ checkpoint \in [Hosts -> 0..MaxSequence]
  /\ loaded \in [Hosts -> BOOLEAN]
  /\ last_committed \in [Hosts -> 0..MaxSequence]
  /\ since_last_ack \in [Hosts -> 0..(AckBatchSize - 1)]
  /\ pc \in [Threads -> {"idle", "append", "sink", "commit"}]
  /\ host \in [Threads -> Hosts]
  /\ sequence \in [Threads -> Sequences \cup {0}]
  /\ sink_seen \in [Hosts -> SUBSET Sequences]
  /\ sink_position \in [Hosts -> 0..MaxSequence]
  /\ acked \in [Hosts -> 0..MaxSequence]
  /\ crashes \in 0..MaxCrashes

-----------------------------------------------------------------------------
AtLeast(i, j) == IF i >= j THEN i ELSE j

IngestInit ==
  /\ ingest_log = [h \in Hosts |-> {}]
  /\ checkpoint = [h \in Hosts |-> 0]
  /\ loaded = [h \in Hosts |-> FALSE]
  /\ last_committed = [h \in Hosts |-> 0]
  /\ since_last_ack = [h \in Hosts |-> 0]
  /\ pc = [t \in Threads |-> "idle"]
  /\ host \in [Threads -> Hosts]
  /\ sequence = [t \in Threads |-> 0]
  /\ sink_seen = [h \in Hosts |-> {}]
  /\ sink_position = [h \in Hosts |-> 0]
  /\ acked = [h \in Hosts |-> 0]
  /\ crashes = 0

\* Mutant of Position: a host that is not in memory starts at the beginning.
PositionInMemory(h) == IF loaded[h] THEN last_committed[h] ELSE 0

\* The position load_host_state_locked yields, from the store the first time.
Position(h) == IF loaded[h] THEN last_committed[h] ELSE checkpoint[h]

LoadHostState(h) ==
  /\ loaded' = [loaded EXCEPT ![h] = TRUE]
  /\ last_committed' = [last_committed EXCEPT ![h] = Position(h)]
  /\ since_last_ack' = [since_last_ack EXCEPT ![h] = IF loaded[h] THEN @ ELSE 0]

Acknowledge(h, seq) == acked' = [acked EXCEPT ![h] = AtLeast(@, seq)]

\* A sequence number up to the position: acknowledged again, not stored again.
Duplicate(t, h, seq) ==
  /\ pc[t] = "idle"
  /\ LoadHostState(h)
  /\ seq <= Position(h)
  /\ Acknowledge(h, Position(h))
  /\ UNCHANGED <<storeVars, callVars, sink_seen, sink_position, crashes>>

\* Beyond the expected number: neither stored nor acknowledged.
Gap(t, h, seq) ==
  /\ pc[t] = "idle"
  /\ LoadHostState(h)
  /\ seq > Position(h) + 1
  /\ UNCHANGED <<storeVars, callVars, historyVars>>

\* Mutant of Expected: any number that is new passes.
ExpectedOrLater(t, h, seq) ==
  /\ pc[t] = "idle"
  /\ LoadHostState(h)
  /\ seq > Position(h)
  /\ pc' = [pc EXCEPT ![t] = "append"]
  /\ host' = [host EXCEPT ![t] = h]
  /\ sequence' = [sequence EXCEPT ![t] = seq]
  /\ UNCHANGED <<storeVars, historyVars>>

\* The expected number: the call goes on without the mutex.
Expected(t, h, seq) ==
  /\ pc[t] = "idle"
  /\ LoadHostState(h)
  /\ seq = Position(h) + 1
  /\ pc' = [pc EXCEPT ![t] = "append"]
  /\ host' = [host EXCEPT ![t] = h]
  /\ sequence' = [sequence EXCEPT ![t] = seq]
  /\ UNCHANGED <<storeVars, historyVars>>

\* The frame does not parse or validate, or the store fails.
Reject(t) ==
  /\ pc[t] = "append"
  /\ pc' = [pc EXCEPT ![t] = "idle"]
  /\ UNCHANGED <<storeVars, stateVars, host, sequence, historyVars>>

\* Mutant of Append: the checkpoint is set, not raised.
AppendSettingCheckpoint(t) ==
  /\ pc[t] = "append"
  /\ ingest_log' = [ingest_log EXCEPT ![host[t]] = @ \cup {sequence[t]}]
  /\ checkpoint' = [checkpoint EXCEPT ![host[t]] = sequence[t]]
  /\ pc' = [pc EXCEPT ![t] = "sink"]
  /\ UNCHANGED <<stateVars, host, sequence, historyVars>>

\* Mutant of Append: a record that is already stored skips the sink.
AppendOnceToSink(t) ==
  /\ pc[t] = "append"
  /\ ingest_log' = [ingest_log EXCEPT ![host[t]] = @ \cup {sequence[t]}]
  /\ checkpoint' = [checkpoint EXCEPT ![host[t]] = AtLeast(@, sequence[t])]
  /\ pc' = [pc EXCEPT ![t] = IF sequence[t] \in ingest_log[host[t]]
                               THEN "commit" ELSE "sink"]
  /\ UNCHANGED <<stateVars, host, sequence, historyVars>>

\* append_if_absent_and_checkpoint: record and checkpoint in one transaction.
Append(t) ==
  /\ pc[t] = "append"
  /\ ingest_log' = [ingest_log EXCEPT ![host[t]] = @ \cup {sequence[t]}]
  /\ checkpoint' = [checkpoint EXCEPT ![host[t]] = AtLeast(@, sequence[t])]
  /\ pc' = [pc EXCEPT ![t] = "sink"]
  /\ UNCHANGED <<stateVars, host, sequence, historyVars>>

\* The sink gets the record; that it fails is counted and nothing else.
ApplySink(t) ==
  /\ pc[t] = "sink"
  /\ sink_seen' = [sink_seen EXCEPT ![host[t]] = @ \cup {sequence[t]}]
  /\ sink_position' = [sink_position EXCEPT ![host[t]] = sequence[t]]
  /\ pc' = [pc EXCEPT ![t] = "commit"]
  /\ UNCHANGED <<storeVars, stateVars, host, sequence, acked, crashes>>

\* Mutant of Commit: the counter is not reset by an acknowledgement.
CommitKeepingCount(t) ==
  /\ pc[t] = "commit"
  /\ LET h == host[t] IN
       /\ last_committed' =
            [last_committed EXCEPT ![h] = AtLeast(@, sequence[t])]
       /\ since_last_ack' = [since_last_ack EXCEPT ![h] = @ + 1]
       /\ IF since_last_ack[h] + 1 >= AckBatchSize
            THEN Acknowledge(h, last_committed'[h])
            ELSE UNCHANGED acked
  /\ pc' = [pc EXCEPT ![t] = "idle"]
  /\ UNCHANGED <<storeVars, loaded, host, sequence, sink_seen, sink_position,
                 crashes>>

\* The second critical section: the position advances, and every
\* AckBatchSize-th record of the host is acknowledged with the position.
Commit(t) ==
  /\ pc[t] = "commit"
  /\ LET h == host[t] IN
       /\ last_committed' =
            [last_committed EXCEPT ![h] = AtLeast(@, sequence[t])]
       /\ IF since_last_ack[h] + 1 >= AckBatchSize
            THEN /\ since_last_ack' = [since_last_ack EXCEPT ![h] = 0]
                 /\ Acknowledge(h, AtLeast(last_committed[h], sequence[t]))
            ELSE /\ since_last_ack' = [since_last_ack EXCEPT ![h] = @ + 1]
                 /\ UNCHANGED acked
  /\ pc' = [pc EXCEPT ![t] = "idle"]
  /\ UNCHANGED <<storeVars, loaded, host, sequence, sink_seen, sink_position,
                 crashes>>

\* The process dies between any two steps and starts again on the same store.
CrashAndRestart ==
  /\ crashes < MaxCrashes
  /\ crashes' = crashes + 1
  /\ loaded' = [h \in Hosts |-> FALSE]
  /\ last_committed' = [h \in Hosts |-> 0]
  /\ since_last_ack' = [h \in Hosts |-> 0]
  /\ pc' = [t \in Threads |-> "idle"]
  /\ UNCHANGED <<storeVars, host, sequence, sink_seen, sink_position, acked>>

Proceed(t) == Append(t) \/ ApplySink(t) \/ Commit(t)

IngestNext ==
  \/ \E t \in Threads, h \in Hosts, seq \in Sequences :
       Duplicate(t, h, seq) \/ Gap(t, h, seq) \/ Expected(t, h, seq)
  \/ \E t \in Threads : Proceed(t) \/ Reject(t)
  \/ CrashAndRestart

IngestSpec == IngestInit /\ [][IngestNext]_ingestVars

\* A host that keeps sending the record behind its last acknowledgement.
Resend(h) ==
  \E t \in Threads, seq \in {acked[h] + 1} \cap Sequences :
    Duplicate(t, h, seq) \/ Expected(t, h, seq)

\* Hosts resend, calls go on, and the store does not fail for ever.
IngestFairness ==
  /\ \A h \in Hosts : SF_ingestVars(Resend(h))
  /\ \A t \in Threads : WF_ingestVars(Proceed(t) \/ Reject(t))
  /\ \A t \in Threads : SF_ingestVars(Append(t))

FairIngestSpec == IngestSpec /\ IngestFairness

-----------------------------------------------------------------------------
\* The log of a host has no hole and ends at the checkpoint, although the
\* number was checked before the mutex was released and overlapping calls
\* append in any order.
LogIsPrefix == \A h \in Hosts : ingest_log[h] = 1..checkpoint[h]

\* Nothing is acknowledged before it is durable: the host may forget every
\* record up to its last acknowledgement, whatever crashes come later.
AcksAreDurable == \A h \in Hosts : 1..acked[h] \subseteq ingest_log[h]

\* Of the stored records of a host each crash keeps at most one from the sink,
\* the one between store and sink: it is a duplicate when it is sent again.
NeverSunk(h) ==
  {s \in ingest_log[h] : /\ s \notin sink_seen[h]
                         /\ \A t \in Threads :
                              ~(pc[t] = "sink" /\ host[t] = h /\ sequence[t] = s)}
SinkLossBound == \A h \in Hosts : Cardinality(NeverSunk(h)) <= crashes

\* The coordinator with its store keeps the promises of a commit log.
Promises == INSTANCE CommitLog WITH length <- checkpoint, promised <- acked
CommitLogImplemented == Promises!LogSpec

\* A host that keeps resending gets its last record acknowledged, also with
\* acknowledgement batches that never fill up and across restarts.
EverythingIsAcked == \A h \in Hosts : <>(acked[h] = MaxSequence)

\* The sink is handed the records of a host in order the first time: an older
\* record that comes late, from an overlapping call or after a restart, is one
\* the sink has already had.
NoStepDeliversLate ==
  \A h \in Hosts :
    sink_position'[h] < sink_position[h] => sink_position'[h] \in sink_seen[h]
FirstDeliveriesInOrder == [][NoStepDeliversLate]_ingestVars

=============================================================================
