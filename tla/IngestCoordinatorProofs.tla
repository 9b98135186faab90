---------------------- MODULE IngestCoordinatorProofs ----------------------
(***************************************************************************)
(* Proofs about the ingest coordinator, for all sets of hosts and threads, *)
(* every acknowledgement batch size and any number of crashes.             *)
(*                                                                         *)
(* LogIsPrefix and AcksAreDurable are not inductive: what keeps the log    *)
(* free of holes is that a call which passed the check carries at most the *)
(* number behind the checkpoint, although the position it was checked      *)
(* against may be old, and what keeps acknowledgements durable is that no  *)
(* position in memory is ahead of the checkpoint.  IngestInv adds both.    *)
(* What the sink is handed needs DeliveryInv: how far calls, store and     *)
(* sink can be from the position in memory.                                *)
(***************************************************************************)
EXTENDS IngestCoordinator, FiniteSetTheorems, TLAPS

\* No position in memory is ahead of the store.
MemoryBehindStore ==
  \A h \in Hosts : last_committed[h] <= checkpoint[h]

\* A call past the check is at most one ahead of the checkpoint, a call past
\* the store at most at the checkpoint.
CallsInReach ==
  \A t \in Threads :
    /\ pc[t] # "idle" => sequence[t] \in Sequences
    /\ pc[t] = "append" => sequence[t] <= checkpoint[host[t]] + 1
    /\ pc[t] \in {"sink", "commit"} => sequence[t] <= checkpoint[host[t]]

AcksBehindStore == \A h \in Hosts : acked[h] <= checkpoint[h]

IngestInv ==
  /\ IngestTypeOK
  /\ LogIsPrefix
  /\ MemoryBehindStore
  /\ CallsInReach
  /\ AcksBehindStore

USE IngestAssumption

LEMMA AtLeastFacts ==
  ASSUME NEW i \in 0..MaxSequence, NEW j \in 0..MaxSequence
  PROVE  /\ AtLeast(i, j) \in 0..MaxSequence
         /\ i <= AtLeast(i, j)
         /\ j <= AtLeast(i, j)
         /\ \A k \in Int : i <= k /\ j <= k => AtLeast(i, j) <= k
  BY DEF AtLeast

LEMMA IngestInitInv == IngestInit => IngestInv
  BY DEF IngestInit, IngestInv, IngestTypeOK, LogIsPrefix, MemoryBehindStore,
         CallsInReach, AcksBehindStore, Sequences

\* Loading a host keeps the part of the invariant about positions.
LEMMA LoadFacts ==
  ASSUME IngestInv, NEW h \in Hosts, LoadHostState(h)
  PROVE  /\ Position(h) \in 0..MaxSequence
         /\ Position(h) <= checkpoint[h]
         /\ loaded' \in [Hosts -> BOOLEAN]
         /\ last_committed' \in [Hosts -> 0..MaxSequence]
         /\ since_last_ack' \in [Hosts -> 0..(AckBatchSize - 1)]
         /\ \A g \in Hosts : last_committed'[g] <= checkpoint[g]
<1>1. Position(h) \in 0..MaxSequence /\ Position(h) <= checkpoint[h]
  BY DEF Position, IngestInv, IngestTypeOK, MemoryBehindStore
<1>2. since_last_ack' \in [Hosts -> 0..(AckBatchSize - 1)]
  BY DEF LoadHostState, IngestInv, IngestTypeOK
<1>3. /\ loaded' \in [Hosts -> BOOLEAN]
      /\ last_committed' \in [Hosts -> 0..MaxSequence]
  BY <1>1 DEF LoadHostState, IngestInv, IngestTypeOK
<1>4. \A g \in Hosts : last_committed'[g] <= checkpoint[g]
  BY <1>1 DEF LoadHostState, IngestInv, IngestTypeOK, MemoryBehindStore
<1>5. QED
  BY <1>1, <1>2, <1>3, <1>4

LEMMA DuplicateInv ==
  ASSUME IngestInv, NEW t \in Threads, NEW h \in Hosts, NEW seq \in Sequences,
         Duplicate(t, h, seq)
  PROVE  IngestInv'
<1>1. LoadHostState(h)
  BY DEF Duplicate
<1>2. acked' \in [Hosts -> 0..MaxSequence] /\ AcksBehindStore'
  <2>1. acked' = [acked EXCEPT ![h] = AtLeast(@, Position(h))]
    BY DEF Duplicate, Acknowledge
  <2>2. /\ AtLeast(acked[h], Position(h)) \in 0..MaxSequence
        /\ AtLeast(acked[h], Position(h)) <= checkpoint[h]
    BY <1>1, LoadFacts DEF AtLeast, IngestInv, IngestTypeOK, AcksBehindStore
  <2>3. checkpoint' = checkpoint
    BY DEF Duplicate, storeVars
  <2>4. QED
    BY <2>1, <2>2, <2>3 DEF IngestInv, IngestTypeOK, AcksBehindStore
<1>3. IngestTypeOK' /\ LogIsPrefix' /\ MemoryBehindStore' /\ CallsInReach'
  BY <1>1, <1>2, LoadFacts
     DEF Duplicate, storeVars, callVars, IngestInv, IngestTypeOK, LogIsPrefix,
         MemoryBehindStore, CallsInReach
<1>4. QED
  BY <1>2, <1>3 DEF IngestInv

LEMMA GapInv ==
  ASSUME IngestInv, NEW t \in Threads, NEW h \in Hosts, NEW seq \in Sequences,
         Gap(t, h, seq)
  PROVE  IngestInv'
<1>1. LoadHostState(h)
  BY DEF Gap
<1>2. QED
  BY <1>1, LoadFacts
     DEF Gap, storeVars, callVars, historyVars, IngestInv, IngestTypeOK,
         LogIsPrefix, MemoryBehindStore, CallsInReach, AcksBehindStore

\* The new call carries the number behind a position that is not ahead of the
\* checkpoint.
LEMMA ExpectedInv ==
  ASSUME IngestInv, NEW t \in Threads, NEW h \in Hosts, NEW seq \in Sequences,
         Expected(t, h, seq)
  PROVE  IngestInv'
<1>1. LoadHostState(h)
  BY DEF Expected
<1>2. IngestTypeOK' /\ LogIsPrefix' /\ MemoryBehindStore' /\ AcksBehindStore'
  BY <1>1, LoadFacts
     DEF Expected, storeVars, historyVars, IngestInv, IngestTypeOK, LogIsPrefix,
         MemoryBehindStore, AcksBehindStore
<1>3. seq <= checkpoint[h] + 1
  BY <1>1, LoadFacts DEF Expected, IngestInv, IngestTypeOK, Sequences
<1>4. CallsInReach'
  BY <1>3 DEF Expected, storeVars, IngestInv, IngestTypeOK, CallsInReach
<1>5. QED
  BY <1>2, <1>4 DEF IngestInv

LEMMA RejectInv ==
  ASSUME IngestInv, NEW t \in Threads, Reject(t)
  PROVE  IngestInv'
  BY DEF Reject, storeVars, stateVars, historyVars, IngestInv, IngestTypeOK,
         LogIsPrefix, MemoryBehindStore, CallsInReach, AcksBehindStore

\* The record is at most one behind the end of the log, so the log stays a
\* prefix and no other call gets out of reach, because checkpoints only rise.
LEMMA AppendInv ==
  ASSUME IngestInv, NEW t \in Threads, Append(t)
  PROVE  IngestInv'
<1> DEFINE h == host[t]
           s == sequence[t]
<1>1. /\ h \in Hosts
      /\ s \in Sequences
      /\ s <= checkpoint[h] + 1
      /\ checkpoint[h] \in 0..MaxSequence
      /\ ingest_log[h] = 1..checkpoint[h]
  BY DEF Append, IngestInv, IngestTypeOK, CallsInReach, LogIsPrefix
<1>2. /\ ingest_log' = [ingest_log EXCEPT ![h] = @ \cup {s}]
      /\ checkpoint' = [checkpoint EXCEPT ![h] = AtLeast(@, s)]
      /\ pc' = [pc EXCEPT ![t] = "sink"]
      /\ UNCHANGED <<stateVars, host, sequence, historyVars>>
  BY DEF Append
<1> HIDE DEF h, s
<1>3. /\ AtLeast(checkpoint[h], s) \in 0..MaxSequence
      /\ AtLeast(checkpoint[h], s) >= checkpoint[h]
      /\ AtLeast(checkpoint[h], s) >= s
      /\ ingest_log[h] \cup {s} = 1..AtLeast(checkpoint[h], s)
  BY <1>1 DEF AtLeast, Sequences
<1>4. /\ IngestTypeOK'
      /\ LogIsPrefix'
  BY <1>1, <1>2, <1>3
     DEF IngestInv, IngestTypeOK, LogIsPrefix, stateVars, historyVars
<1>5. \A g \in Hosts : /\ checkpoint[g] \in 0..MaxSequence
                       /\ checkpoint'[g] \in 0..MaxSequence
                       /\ checkpoint[g] <= checkpoint'[g]
  <2> SUFFICES ASSUME NEW g \in Hosts
               PROVE  /\ checkpoint[g] \in 0..MaxSequence
                      /\ checkpoint'[g] \in 0..MaxSequence
                      /\ checkpoint[g] <= checkpoint'[g]
    OBVIOUS
  <2>1. checkpoint \in [Hosts -> 0..MaxSequence]
    BY DEF IngestInv, IngestTypeOK
  <2>2. CASE g = h
    BY <1>1, <1>2, <1>3, <2>1, <2>2
  <2>3. CASE g # h
    BY <1>2, <2>1, <2>3
  <2>4. QED
    BY <2>2, <2>3
<1>6. MemoryBehindStore' /\ AcksBehindStore'
  <2>1. last_committed' = last_committed /\ acked' = acked
    BY <1>2 DEF stateVars, historyVars
  <2>2. QED
    BY <1>5, <2>1
       DEF IngestInv, IngestTypeOK, MemoryBehindStore, AcksBehindStore
<1>7. CallsInReach'
  <2> SUFFICES ASSUME NEW u \in Threads
               PROVE  /\ pc'[u] # "idle" => sequence'[u] \in Sequences
                      /\ pc'[u] = "append" =>
                           sequence'[u] <= checkpoint'[host'[u]] + 1
                      /\ pc'[u] \in {"sink", "commit"} =>
                           sequence'[u] <= checkpoint'[host'[u]]
    BY DEF CallsInReach
  <2>1. CASE u = t
    <3>1. pc'[u] = "sink" /\ sequence'[u] = s /\ host'[u] = h
      BY <1>2, <2>1 DEF h, s, IngestInv, IngestTypeOK
    <3>2. s <= checkpoint'[h]
      BY <1>1, <1>2, <1>3 DEF IngestInv, IngestTypeOK
    <3>3. QED
      BY <1>1, <3>1, <3>2
  <2>2. CASE u # t
    <3>1. pc'[u] = pc[u] /\ sequence'[u] = sequence[u] /\ host'[u] = host[u]
      BY <1>2, <2>2 DEF IngestInv, IngestTypeOK
    <3>2. host[u] \in Hosts /\ sequence[u] \in Sequences \cup {0}
      BY DEF IngestInv, IngestTypeOK
    <3>3. QED
      BY <1>5, <3>1, <3>2 DEF IngestInv, CallsInReach, Sequences
  <2>3. QED
    BY <2>1, <2>2
<1>8. QED
  BY <1>4, <1>6, <1>7 DEF IngestInv

LEMMA ApplySinkInv ==
  ASSUME IngestInv, NEW t \in Threads, ApplySink(t)
  PROVE  IngestInv'
<1>1. host[t] \in Hosts /\ sequence[t] \in Sequences
  BY DEF ApplySink, IngestInv, IngestTypeOK, CallsInReach
<1>2. QED
  BY <1>1, SMTT(30)
     DEF ApplySink, storeVars, stateVars, IngestInv, IngestTypeOK, LogIsPrefix,
         MemoryBehindStore, CallsInReach, AcksBehindStore, Sequences

\* The position that is reached and perhaps acknowledged is the maximum of two
\* numbers that are both behind the checkpoint.
LEMMA CommitInv ==
  ASSUME IngestInv, NEW t \in Threads, Commit(t)
  PROVE  IngestInv'
<1> DEFINE h == host[t]
           p == AtLeast(last_committed[h], sequence[t])
<1>1. h \in Hosts /\ p \in 0..MaxSequence /\ p <= checkpoint[h]
  BY DEF Commit, AtLeast, IngestInv, IngestTypeOK, CallsInReach,
         MemoryBehindStore, Sequences
<1>2. /\ last_committed' = [last_committed EXCEPT ![h] = p]
      /\ pc' = [pc EXCEPT ![t] = "idle"]
      /\ UNCHANGED <<storeVars, loaded, host, sequence, sink_seen,
                     sink_position, crashes>>
  BY DEF Commit
<1>3. /\ acked' \in [Hosts -> 0..MaxSequence]
      /\ \A g \in Hosts : acked'[g] <= checkpoint[g]
  <2>1. \/ UNCHANGED acked
        \/ acked' = [acked EXCEPT ![h] = AtLeast(@, p)]
    BY DEF Commit, Acknowledge
  <2>2. /\ AtLeast(acked[h], p) \in 0..MaxSequence
        /\ AtLeast(acked[h], p) <= checkpoint[h]
    BY <1>1 DEF AtLeast, IngestInv, IngestTypeOK, AcksBehindStore
  <2>3. QED
    BY <1>1, <2>1, <2>2 DEF IngestInv, IngestTypeOK, AcksBehindStore
<1>4. since_last_ack' \in [Hosts -> 0..(AckBatchSize - 1)]
  BY <1>1 DEF Commit, IngestInv, IngestTypeOK
<1> HIDE DEF h, p
<1>5. IngestTypeOK' /\ LogIsPrefix' /\ CallsInReach' /\ AcksBehindStore'
  BY <1>1, <1>2, <1>3, <1>4
     DEF storeVars, IngestInv, IngestTypeOK, LogIsPrefix, CallsInReach,
         AcksBehindStore
<1>6. MemoryBehindStore'
  BY <1>1, <1>2 DEF storeVars, IngestInv, IngestTypeOK, MemoryBehindStore
<1>7. QED
  BY <1>5, <1>6 DEF IngestInv

LEMMA CrashInv ==
  ASSUME IngestInv, CrashAndRestart
  PROVE  IngestInv'
  BY DEF CrashAndRestart, storeVars, IngestInv, IngestTypeOK, LogIsPrefix,
         MemoryBehindStore, CallsInReach, AcksBehindStore

LEMMA IngestStepInv ==
  ASSUME IngestInv, [IngestNext]_ingestVars
  PROVE  IngestInv'
<1>1. CASE \E t \in Threads, h \in Hosts, seq \in Sequences :
             Duplicate(t, h, seq) \/ Gap(t, h, seq) \/ Expected(t, h, seq)
  BY <1>1, DuplicateInv, GapInv, ExpectedInv
<1>2. CASE \E t \in Threads : Proceed(t) \/ Reject(t)
  BY <1>2, AppendInv, ApplySinkInv, CommitInv, RejectInv DEF Proceed
<1>3. CASE CrashAndRestart
  BY <1>3, CrashInv
<1>4. CASE UNCHANGED ingestVars
  BY <1>4
     DEF ingestVars, storeVars, stateVars, callVars, historyVars, IngestInv,
         IngestTypeOK, LogIsPrefix, MemoryBehindStore, CallsInReach,
         AcksBehindStore
<1>5. QED
  BY <1>1, <1>2, <1>3, <1>4 DEF IngestNext

\* The inductive invariant holds in every reachable state.
THEOREM IngestInvariant == IngestSpec => []IngestInv
  BY IngestInitInv, IngestStepInv, PTL DEF IngestSpec

-----------------------------------------------------------------------------
\* The log of a host is the prefix up to its checkpoint, however the calls of
\* ingest() overlap between their two critical sections.
THEOREM LogTheorem == IngestSpec => []LogIsPrefix
  BY IngestInvariant, PTL DEF IngestInv

\* What ingest() acknowledged is in the log, before and after any crash.
THEOREM AckTheorem == IngestSpec => []AcksAreDurable
<1>1. IngestInv => AcksAreDurable
  BY DEF IngestInv, IngestTypeOK, AcksBehindStore, LogIsPrefix, AcksAreDurable
<1>2. QED
  BY <1>1, IngestInvariant, PTL

-----------------------------------------------------------------------------
(***************************************************************************)
(* The coordinator implements the commit log: a record stored for the      *)
(* first time is the abstract Store, an acknowledgement is the abstract    *)
(* Acknowledge, every other step and every crash is a stutter.             *)
(***************************************************************************)
logVars == <<checkpoint, acked>>

\* Storing a record moves the checkpoint by one, or not at all when another
\* call stored it first.
LEMMA AppendImplements ==
  ASSUME IngestInv, NEW t \in Threads, Append(t)
  PROVE  (\E h \in Hosts : Promises!Store(h)) \/ UNCHANGED logVars
<1> DEFINE h == host[t]
           s == sequence[t]
<1>1. /\ h \in Hosts
      /\ s \in 1..MaxSequence
      /\ s <= checkpoint[h] + 1
      /\ checkpoint \in [Hosts -> 0..MaxSequence]
  BY DEF Append, IngestInv, IngestTypeOK, CallsInReach, Sequences
<1>2. /\ checkpoint' = [checkpoint EXCEPT ![h] = AtLeast(@, s)]
      /\ acked' = acked
  BY DEF Append, historyVars
<1> HIDE DEF h, s
<1>3. CASE s <= checkpoint[h]
  <2>1. AtLeast(checkpoint[h], s) = checkpoint[h]
    BY <1>1, <1>3 DEF AtLeast
  <2>2. checkpoint' = checkpoint
    BY <1>1, <1>2, <2>1
  <2>3. QED
    BY <1>2, <2>2 DEF logVars
<1>4. CASE s = checkpoint[h] + 1
  <2>1. AtLeast(checkpoint[h], s) = checkpoint[h] + 1
    BY <1>1, <1>4 DEF AtLeast
  <2>2. Promises!Store(h)
    BY <1>2, <2>1 DEF Promises!Store
  <2>3. QED
    BY <1>1, <2>2
<1>5. QED
  BY <1>1, <1>3, <1>4

\* An acknowledgement up to a position behind the checkpoint.
LEMMA AcknowledgeImplements ==
  ASSUME IngestInv, NEW h \in Hosts, NEW p \in 0..MaxSequence,
         p <= checkpoint[h], Acknowledge(h, p), checkpoint' = checkpoint
  PROVE  Promises!Acknowledge(h)
<1>1. AtLeast(acked[h], p) \in acked[h] .. checkpoint[h]
  BY DEF AtLeast, IngestInv, IngestTypeOK, AcksBehindStore
<1>2. acked' = [acked EXCEPT ![h] = AtLeast(acked[h], p)]
  BY DEF Acknowledge
<1>3. QED
  BY <1>1, <1>2 DEF Promises!Acknowledge

LEMMA StepImplements ==
  ASSUME IngestInv, [IngestNext]_ingestVars
  PROVE  [Promises!LogNext]_logVars
<1>1. ASSUME NEW t \in Threads, NEW h \in Hosts, NEW seq \in Sequences,
             Duplicate(t, h, seq)
      PROVE  Promises!LogNext
  <2>1. LoadHostState(h) /\ Acknowledge(h, Position(h)) /\ checkpoint' = checkpoint
    BY <1>1 DEF Duplicate, storeVars
  <2>2. Position(h) \in 0..MaxSequence /\ Position(h) <= checkpoint[h]
    BY <2>1, LoadFacts
  <2>3. QED
    BY <2>1, <2>2, AcknowledgeImplements DEF Promises!LogNext
<1>2. ASSUME NEW t \in Threads, Commit(t)
      PROVE  Promises!LogNext \/ UNCHANGED logVars
  <2> DEFINE h == host[t]
             p == AtLeast(last_committed[h], sequence[t])
  <2>1. h \in Hosts /\ p \in 0..MaxSequence /\ p <= checkpoint[h]
    BY <1>2 DEF Commit, AtLeast, IngestInv, IngestTypeOK, CallsInReach,
                MemoryBehindStore, Sequences
  <2>2. /\ checkpoint' = checkpoint
        /\ Acknowledge(h, p) \/ UNCHANGED acked
    BY <1>2 DEF Commit, storeVars
  <2> HIDE DEF h, p
  <2>3. QED
    BY <2>1, <2>2, AcknowledgeImplements DEF Promises!LogNext, logVars
<1>3. ASSUME NEW t \in Threads, Append(t)
      PROVE  Promises!LogNext \/ UNCHANGED logVars
  BY <1>3, AppendImplements DEF Promises!LogNext
<1>4. ASSUME NEW t \in Threads, NEW h \in Hosts, NEW seq \in Sequences,
             Gap(t, h, seq) \/ Expected(t, h, seq)
      PROVE  UNCHANGED logVars
  BY <1>4 DEF Gap, Expected, storeVars, historyVars, logVars
<1>5. ASSUME NEW t \in Threads, ApplySink(t) \/ Reject(t)
      PROVE  UNCHANGED logVars
  BY <1>5 DEF ApplySink, Reject, storeVars, historyVars, logVars
<1>6. ASSUME CrashAndRestart \/ UNCHANGED ingestVars
      PROVE  UNCHANGED logVars
  BY <1>6 DEF CrashAndRestart, ingestVars, storeVars, historyVars, logVars
<1>7. QED
  BY <1>1, <1>2, <1>3, <1>4, <1>5, <1>6 DEF IngestNext, Proceed

\* Whatever calls overlap and whenever the process crashes, what a host sees of
\* the coordinator is a log that grows by one and is acknowledged behind its end.
THEOREM CommitLogTheorem == IngestSpec => CommitLogImplemented
<1>1. IngestInit => Promises!LogInit
  BY DEF IngestInit, Promises!LogInit
<1>2. IngestInv /\ [IngestNext]_ingestVars
        => [Promises!LogNext]_<<checkpoint, acked>>
  BY StepImplements DEF logVars
<1>3. QED
  BY <1>1, <1>2, IngestInvariant, PTL
     DEF IngestSpec, CommitLogImplemented, Promises!LogSpec

-----------------------------------------------------------------------------
\* Every variable of the coordinator has its type in every reachable state: no
\* batch counter reaches AckBatchSize and no position passes MaxSequence.
THEOREM IngestTypeTheorem == IngestSpec => []IngestTypeOK
  BY IngestInvariant, PTL DEF IngestInv

-----------------------------------------------------------------------------
(***************************************************************************)
(* What the sink is handed.  The records that a running process has stored *)
(* and not yet handed over have the number behind its position, however    *)
(* many calls carry it, because the position only passes a record the sink *)
(* has had.  A crash can therefore lose one record of a host, and a record *)
(* that comes to the sink for the first time is the latest there is.       *)
(***************************************************************************)

\* A call belongs to the process that accepted it, at the position it has or at
\* one that the sink is past.
CallsAreRecent ==
  \A t \in Threads : pc[t] # "idle" =>
    /\ loaded[host[t]]
    /\ sequence[t] <= last_committed[host[t]] + 1
    /\ sequence[t] <= last_committed[host[t]] \/ pc[t] = "commit" =>
         sequence[t] \in sink_seen[host[t]]

\* The store is at most one record ahead of a position in memory.
StoreBehindMemory ==
  \A h \in Hosts : loaded[h] => checkpoint[h] <= last_committed[h] + 1

SinkBehindStore == \A h \in Hosts : sink_position[h] <= checkpoint[h]

DeliveryInv ==
  /\ CallsAreRecent
  /\ StoreBehindMemory
  /\ SinkBehindStore

\* A record on its way to the sink that the sink does not have is the one behind
\* the position, and nothing beyond it is stored.
LEMMA FreshRecordIsNext ==
  ASSUME IngestInv, DeliveryInv, NEW t \in Threads, pc[t] = "sink",
         sequence[t] \notin sink_seen[host[t]]
  PROVE  /\ sequence[t] = last_committed[host[t]] + 1
         /\ checkpoint[host[t]] <= sequence[t]
<1> DEFINE h == host[t]
           s == sequence[t]
<1>1. h \in Hosts /\ s \in Int /\ last_committed[h] \in Int
  BY DEF IngestInv, IngestTypeOK, Sequences
<1>2. loaded[h] /\ s <= last_committed[h] + 1 /\ ~(s <= last_committed[h])
  BY DEF DeliveryInv, CallsAreRecent
<1>3. checkpoint[h] <= last_committed[h] + 1
  BY <1>1, <1>2 DEF DeliveryInv, StoreBehindMemory
<1> HIDE DEF h, s
<1>4. s = last_committed[h] + 1
  BY <1>1, <1>2
<1>5. checkpoint[h] <= s
  BY <1>3, <1>4
<1>6. QED
  BY <1>4, <1>5 DEF h, s

LEMMA DeliveryInit == IngestInit => DeliveryInv
  BY DEF IngestInit, DeliveryInv, CallsAreRecent, StoreBehindMemory, SinkBehindStore

\* Loading a host is invisible to the calls of that host: there are none unless
\* it is loaded already.
LEMMA LoadKeepsDelivery ==
  ASSUME IngestInv, DeliveryInv, NEW h \in Hosts, LoadHostState(h)
  PROVE  /\ \A g \in Hosts : loaded[g] =>
              loaded'[g] /\ last_committed'[g] = last_committed[g]
         /\ loaded'[h] /\ last_committed'[h] = Position(h)
         /\ \A g \in Hosts : loaded'[g] => checkpoint[g] <= last_committed'[g] + 1
<1>1. /\ loaded' = [loaded EXCEPT ![h] = TRUE]
      /\ last_committed' = [last_committed EXCEPT ![h] = Position(h)]
  BY DEF LoadHostState
<1>2. loaded'[h] /\ last_committed'[h] = Position(h)
  BY <1>1 DEF IngestInv, IngestTypeOK
<1>3. \A g \in Hosts : loaded[g] =>
        loaded'[g] /\ last_committed'[g] = last_committed[g]
  BY <1>1 DEF Position, IngestInv, IngestTypeOK
<1>4. ASSUME NEW g \in Hosts, loaded'[g]
      PROVE  checkpoint[g] <= last_committed'[g] + 1
  <2>1. CASE loaded[g]
    BY <1>3, <2>1 DEF DeliveryInv, StoreBehindMemory
  <2>2. CASE ~loaded[g]
    <3>1. g = h /\ last_committed'[g] = checkpoint[g]
      BY <1>1, <1>2, <1>4, <2>2 DEF Position, IngestInv, IngestTypeOK
    <3>2. checkpoint[g] \in Int
      BY DEF IngestInv, IngestTypeOK
    <3>3. QED
      BY <3>1, <3>2
  <2>3. QED
    BY <2>1, <2>2
<1>5. QED
  BY <1>2, <1>3, <1>4

\* A call that is answered at the check changes positions only.
LEMMA CheckKeepsDelivery ==
  ASSUME IngestInv, DeliveryInv, NEW h \in Hosts, LoadHostState(h),
         UNCHANGED <<callVars, checkpoint, sink_seen, sink_position>>
  PROVE  DeliveryInv'
<1>1. StoreBehindMemory' /\ SinkBehindStore'
  BY LoadKeepsDelivery DEF StoreBehindMemory, SinkBehindStore, DeliveryInv
<1>2. CallsAreRecent'
  <2> SUFFICES ASSUME NEW u \in Threads, pc'[u] # "idle"
               PROVE  /\ loaded'[host'[u]]
                      /\ sequence'[u] <= last_committed'[host'[u]] + 1
                      /\ sequence'[u] <= last_committed'[host'[u]] \/ pc'[u] = "commit"
                           => sequence'[u] \in sink_seen'[host'[u]]
    BY DEF CallsAreRecent
  <2>1. pc[u] # "idle" /\ UNCHANGED <<pc[u], host[u], sequence[u], sink_seen>>
    BY DEF callVars
  <2>2. host[u] \in Hosts /\ loaded[host[u]]
    BY <2>1 DEF DeliveryInv, CallsAreRecent, IngestInv, IngestTypeOK
  <2>3. loaded'[host[u]] /\ last_committed'[host[u]] = last_committed[host[u]]
    BY <2>2, LoadKeepsDelivery
  <2>4. QED
    BY <2>1, <2>3 DEF DeliveryInv, CallsAreRecent
<1>3. QED
  BY <1>1, <1>2 DEF DeliveryInv

\* A call that passes the check carries a number the position has not reached.
LEMMA ExpectedKeepsDelivery ==
  ASSUME IngestInv, DeliveryInv, NEW t \in Threads, NEW h \in Hosts,
         NEW seq \in Sequences, Expected(t, h, seq)
  PROVE  DeliveryInv'
<1>1. /\ LoadHostState(h)
      /\ seq = Position(h) + 1
      /\ pc' = [pc EXCEPT ![t] = "append"]
      /\ host' = [host EXCEPT ![t] = h]
      /\ sequence' = [sequence EXCEPT ![t] = seq]
      /\ UNCHANGED <<checkpoint, sink_seen, sink_position>>
  BY DEF Expected, storeVars, historyVars
<1>2. StoreBehindMemory' /\ SinkBehindStore'
  BY <1>1, LoadKeepsDelivery DEF StoreBehindMemory, SinkBehindStore, DeliveryInv
<1>3. CallsAreRecent'
  <2> SUFFICES ASSUME NEW u \in Threads, pc'[u] # "idle"
               PROVE  /\ loaded'[host'[u]]
                      /\ sequence'[u] <= last_committed'[host'[u]] + 1
                      /\ sequence'[u] <= last_committed'[host'[u]] \/ pc'[u] = "commit"
                           => sequence'[u] \in sink_seen'[host'[u]]
    BY DEF CallsAreRecent
  <2>1. CASE u = t
    <3>1. pc'[u] = "append" /\ host'[u] = h /\ sequence'[u] = seq
      BY <1>1, <2>1 DEF IngestInv, IngestTypeOK
    <3>2. loaded'[h] /\ last_committed'[h] = Position(h)
      BY <1>1, LoadKeepsDelivery
    <3>3. Position(h) \in Int /\ seq = Position(h) + 1
      BY <1>1, LoadFacts
    <3>4. seq <= last_committed'[h] + 1 /\ ~(seq <= last_committed'[h])
      BY <3>2, <3>3
    <3>5. QED
      BY <3>1, <3>2, <3>4
  <2>2. CASE u # t
    <3>1. pc[u] # "idle" /\ UNCHANGED <<pc[u], host[u], sequence[u], sink_seen>>
      BY <1>1, <2>2 DEF IngestInv, IngestTypeOK
    <3>2. host[u] \in Hosts /\ loaded[host[u]]
      BY <3>1 DEF DeliveryInv, CallsAreRecent, IngestInv, IngestTypeOK
    <3>3. loaded'[host[u]] /\ last_committed'[host[u]] = last_committed[host[u]]
      BY <1>1, <3>2, LoadKeepsDelivery
    <3>4. QED
      BY <3>1, <3>3 DEF DeliveryInv, CallsAreRecent
  <2>3. QED
    BY <2>1, <2>2
<1>4. QED
  BY <1>2, <1>3 DEF DeliveryInv

\* A stored record is at most one behind the position it was checked against,
\* which has not gone back since.
LEMMA AppendKeepsDelivery ==
  ASSUME IngestInv, DeliveryInv, NEW t \in Threads, Append(t)
  PROVE  DeliveryInv'
<1> DEFINE h == host[t]
           s == sequence[t]
<1>1. /\ h \in Hosts /\ s \in Int
      /\ s <= last_committed[h] + 1 /\ last_committed[h] \in Int
      /\ checkpoint \in [Hosts -> 0..MaxSequence]
      /\ pc[t] = "append"
  BY DEF Append, DeliveryInv, CallsAreRecent, IngestInv, IngestTypeOK, Sequences
<1>2. /\ checkpoint' = [checkpoint EXCEPT ![h] = AtLeast(@, s)]
      /\ pc' = [pc EXCEPT ![t] = "sink"]
      /\ UNCHANGED <<loaded, last_committed, host, sequence, sink_seen, sink_position>>
  BY DEF Append, stateVars, historyVars
<1>3. CallsAreRecent'
  BY <1>1, <1>2 DEF DeliveryInv, CallsAreRecent, IngestInv, IngestTypeOK
<1> HIDE DEF h, s
<1>4. ASSUME NEW g \in Hosts
      PROVE  /\ sink_position[g] <= checkpoint'[g]
             /\ loaded[g] => checkpoint'[g] <= last_committed[g] + 1
  <2>1. checkpoint'[g] = IF g = h THEN AtLeast(checkpoint[g], s) ELSE checkpoint[g]
    BY <1>1, <1>2
  <2>2. sink_position[g] \in Int /\ checkpoint[g] \in Int /\ last_committed[g] \in Int
    BY DEF IngestInv, IngestTypeOK
  <2>3. /\ sink_position[g] <= checkpoint[g]
        /\ loaded[g] => checkpoint[g] <= last_committed[g] + 1
    BY DEF DeliveryInv, SinkBehindStore, StoreBehindMemory
  <2>4. QED
    BY <1>1, <2>1, <2>2, <2>3 DEF AtLeast
<1>5. StoreBehindMemory' /\ SinkBehindStore'
  BY <1>2, <1>4 DEF StoreBehindMemory, SinkBehindStore
<1>6. QED
  BY <1>3, <1>5 DEF DeliveryInv

\* The sink gets a record that is stored.
LEMMA ApplySinkKeepsDelivery ==
  ASSUME IngestInv, DeliveryInv, NEW t \in Threads, ApplySink(t)
  PROVE  DeliveryInv'
<1>1. /\ host[t] \in Hosts /\ sequence[t] <= checkpoint[host[t]]
      /\ pc[t] = "sink"
  BY DEF ApplySink, IngestInv, IngestTypeOK, CallsInReach
<1>2. /\ sink_seen' = [sink_seen EXCEPT ![host[t]] = @ \cup {sequence[t]}]
      /\ sink_position' = [sink_position EXCEPT ![host[t]] = sequence[t]]
      /\ pc' = [pc EXCEPT ![t] = "commit"]
      /\ UNCHANGED <<checkpoint, loaded, last_committed, host, sequence>>
  BY DEF ApplySink, storeVars, stateVars
<1>3. StoreBehindMemory' /\ SinkBehindStore'
  BY <1>1, <1>2
     DEF DeliveryInv, StoreBehindMemory, SinkBehindStore, IngestInv, IngestTypeOK
<1>4. CallsAreRecent'
  <2>1. sequence[t] \in sink_seen'[host[t]]
    BY <1>1, <1>2 DEF IngestInv, IngestTypeOK
  <2>2. \A g \in Hosts : sink_seen[g] \subseteq sink_seen'[g]
    BY <1>1, <1>2 DEF IngestInv, IngestTypeOK
  <2>3. \A u \in Threads : host[u] \in Hosts /\ (u # t => pc'[u] = pc[u])
    BY <1>2 DEF IngestInv, IngestTypeOK
  <2>4. QED
    BY <1>1, <1>2, <2>1, <2>2, <2>3 DEF DeliveryInv, CallsAreRecent
<1>5. QED
  BY <1>3, <1>4 DEF DeliveryInv

\* A position advances by one, and only past a record the sink has had.
LEMMA CommitKeepsDelivery ==
  ASSUME IngestInv, DeliveryInv, NEW t \in Threads, Commit(t)
  PROVE  DeliveryInv'
<1> DEFINE h == host[t]
           s == sequence[t]
           p == last_committed[h]
<1>1. /\ h \in Hosts /\ s \in Int /\ p \in Int
      /\ s <= p + 1 /\ s \in sink_seen[h]
      /\ last_committed \in [Hosts -> 0..MaxSequence]
  BY DEF Commit, DeliveryInv, CallsAreRecent, IngestInv, IngestTypeOK, Sequences
<1>2. /\ last_committed' = [last_committed EXCEPT ![h] = AtLeast(@, s)]
      /\ pc' = [pc EXCEPT ![t] = "idle"]
      /\ UNCHANGED <<checkpoint, loaded, host, sequence, sink_seen, sink_position>>
  BY DEF Commit, storeVars
<1> HIDE DEF s, p
<1>3. /\ last_committed'[h] = AtLeast(p, s)
      /\ \A g \in Hosts : g # h => last_committed'[g] = last_committed[g]
  BY <1>1, <1>2 DEF p
<1> HIDE DEF h
<1>4. p <= AtLeast(p, s) /\ (AtLeast(p, s) = p \/ (AtLeast(p, s) = s /\ s = p + 1))
  BY <1>1 DEF AtLeast
<1>5. AtLeast(p, s) \in Int
  BY <1>1 DEF AtLeast
<1>6. StoreBehindMemory' /\ SinkBehindStore'
  <2>1. ASSUME NEW g \in Hosts, loaded[g]
        PROVE  checkpoint[g] <= last_committed'[g] + 1
    <3>1. checkpoint[g] <= last_committed[g] + 1 /\ checkpoint[g] \in Int
      BY <2>1 DEF DeliveryInv, StoreBehindMemory, IngestInv, IngestTypeOK
    <3>2. CASE g = h
      <4>1. checkpoint[g] <= p + 1
        BY <3>1, <3>2 DEF p
      <4>2. QED
        BY <1>1, <1>3, <1>4, <1>5, <3>1, <3>2, <4>1
    <3>3. CASE g # h
      BY <1>3, <3>1, <3>3
    <3>4. QED
      BY <3>2, <3>3
  <2>2. QED
    BY <1>2, <2>1 DEF DeliveryInv, StoreBehindMemory, SinkBehindStore
<1>7. CallsAreRecent'
  <2> SUFFICES ASSUME NEW u \in Threads, pc'[u] # "idle"
               PROVE  /\ loaded[host[u]]
                      /\ sequence[u] <= last_committed'[host[u]] + 1
                      /\ sequence[u] <= last_committed'[host[u]] \/ pc'[u] = "commit"
                           => sequence[u] \in sink_seen[host[u]]
    BY <1>2 DEF CallsAreRecent
  <2>1. pc'[u] = pc[u] /\ host[u] \in Hosts /\ sequence[u] \in Int
    BY <1>2 DEF IngestInv, IngestTypeOK, Sequences
  <2>2. /\ loaded[host[u]]
        /\ sequence[u] <= last_committed[host[u]] + 1
        /\ sequence[u] <= last_committed[host[u]] \/ pc[u] = "commit"
             => sequence[u] \in sink_seen[host[u]]
    BY <2>1 DEF DeliveryInv, CallsAreRecent
  <2>3. CASE host[u] # h
    <3>1. last_committed'[host[u]] = last_committed[host[u]]
      BY <1>3, <2>1, <2>3
    <3>2. QED
      BY <2>1, <2>2, <3>1
  <2>4. CASE host[u] = h
    <3>1. sequence[u] <= p + 1 /\ (sequence[u] <= p => sequence[u] \in sink_seen[h])
      BY <2>2, <2>4 DEF p
    <3>2. sequence[u] <= AtLeast(p, s) + 1
      BY <1>1, <1>4, <1>5, <2>1, <3>1
    <3>3. ASSUME sequence[u] <= AtLeast(p, s)
          PROVE  sequence[u] \in sink_seen[h]
      <4>1. sequence[u] <= p \/ sequence[u] = s
        BY <1>1, <1>4, <2>1, <3>1, <3>3
      <4>2. QED
        BY <1>1, <3>1, <4>1
    <3>4. QED
      BY <1>3, <2>1, <2>2, <2>4, <3>2, <3>3
  <2>5. QED
    BY <2>3, <2>4
<1>8. QED
  BY <1>6, <1>7 DEF DeliveryInv

LEMMA DeliveryStep ==
  ASSUME IngestInv, DeliveryInv, [IngestNext]_ingestVars
  PROVE  DeliveryInv'
<1>1. ASSUME NEW t \in Threads, NEW h \in Hosts, NEW seq \in Sequences,
             Duplicate(t, h, seq) \/ Gap(t, h, seq)
      PROVE  DeliveryInv'
  BY <1>1, CheckKeepsDelivery DEF Duplicate, Gap, storeVars, historyVars
<1>2. ASSUME NEW t \in Threads, Reject(t)
      PROVE  DeliveryInv'
  BY <1>2 DEF Reject, storeVars, stateVars, historyVars, DeliveryInv, CallsAreRecent,
              StoreBehindMemory, SinkBehindStore, IngestInv, IngestTypeOK
<1>3. CASE CrashAndRestart
  BY <1>3 DEF CrashAndRestart, storeVars, DeliveryInv, CallsAreRecent,
              StoreBehindMemory, SinkBehindStore
<1>4. CASE UNCHANGED ingestVars
  BY <1>4 DEF ingestVars, storeVars, stateVars, callVars, historyVars, DeliveryInv,
              CallsAreRecent, StoreBehindMemory, SinkBehindStore
<1>5. QED
  BY <1>1, <1>2, <1>3, <1>4, ExpectedKeepsDelivery, AppendKeepsDelivery,
     ApplySinkKeepsDelivery, CommitKeepsDelivery DEF IngestNext, Proceed

THEOREM DeliveryInvariant == IngestSpec => []DeliveryInv
  BY DeliveryInit, DeliveryStep, IngestInvariant, PTL DEF IngestSpec

\* The sink has every record it is handed out of order: one that is older than
\* the last was handed over before, by an overlapping call or before a restart.
THEOREM OrderTheorem == IngestSpec => FirstDeliveriesInOrder
<1>1. ASSUME IngestInv, DeliveryInv, [IngestNext]_ingestVars
      PROVE  [NoStepDeliversLate]_ingestVars
  <2> SUFFICES ASSUME NEW h \in Hosts, sink_position'[h] < sink_position[h]
               PROVE  sink_position'[h] \in sink_seen[h]
    BY DEF NoStepDeliversLate
  <2>1. sink_position[h] \in Int
    BY <1>1 DEF IngestInv, IngestTypeOK
  <2>2. sink_position' # sink_position
    BY <2>1
  <2>3. PICK t \in Threads : ApplySink(t)
    BY <1>1, <2>2
       DEF IngestNext, Proceed, Duplicate, Gap, Expected, Reject, Append, Commit,
           CrashAndRestart, ingestVars, historyVars
  <2>4. /\ pc[t] = "sink" /\ host[t] \in Hosts /\ sequence[t] \in Int
        /\ sink_position' = [sink_position EXCEPT ![host[t]] = sequence[t]]
    BY <1>1, <2>3 DEF ApplySink, IngestInv, IngestTypeOK, Sequences
  <2>5. h = host[t] /\ sink_position'[h] = sequence[t]
    BY <1>1, <2>1, <2>4 DEF IngestInv, IngestTypeOK
  <2>6. ASSUME sequence[t] \notin sink_seen[h] PROVE FALSE
    <3>1. checkpoint[h] <= sequence[t]
      BY <1>1, <2>4, <2>5, <2>6, FreshRecordIsNext
    <3>2. sink_position[h] <= checkpoint[h] /\ checkpoint[h] \in Int
      BY <1>1 DEF DeliveryInv, SinkBehindStore, IngestInv, IngestTypeOK
    <3>3. QED
      BY <2>1, <2>4, <2>5, <3>1, <3>2
  <2>7. QED
    BY <2>5, <2>6
<1>2. QED
  BY <1>1, IngestInvariant, DeliveryInvariant, PTL DEF IngestSpec, FirstDeliveriesInOrder

-----------------------------------------------------------------------------
(***************************************************************************)
(* Losses.  Only a crash can make a record NeverSunk, and one of them: the *)
(* calls of a host that carry a record the sink does not have carry the    *)
(* same one.                                                               *)
(***************************************************************************)

LEMMA LossesAreFinite ==
  ASSUME IngestInv, NEW h \in Hosts
  PROVE  IsFiniteSet(NeverSunk(h)) /\ Cardinality(NeverSunk(h)) \in Nat
<1>1. IsFiniteSet(Sequences)
  BY FS_Interval DEF Sequences
<1>2. NeverSunk(h) \subseteq Sequences
  BY DEF NeverSunk, IngestInv, IngestTypeOK
<1>3. QED
  BY <1>1, <1>2, FS_Subset, FS_CardinalityType

\* A step of a running process loses nothing: a record that is stored goes to
\* the sink in the same call.
LEMMA StepsLoseNothing ==
  ASSUME IngestInv, NEW h \in Hosts, [IngestNext]_ingestVars, ~CrashAndRestart
  PROVE  NeverSunk(h)' \subseteq NeverSunk(h)
<1>1. ASSUME NEW t \in Threads, NEW g \in Hosts, NEW seq \in Sequences,
             Duplicate(t, g, seq) \/ Gap(t, g, seq) \/ Expected(t, g, seq)
      PROVE  NeverSunk(h)' \subseteq NeverSunk(h)
  <2>1. UNCHANGED <<ingest_log, sink_seen>> /\ pc[t] = "idle"
    BY <1>1 DEF Duplicate, Gap, Expected, storeVars, historyVars
  <2>2. \A u \in Threads : pc[u] = "sink" =>
          UNCHANGED <<pc[u], host[u], sequence[u]>>
    BY <1>1, <2>1 DEF Duplicate, Gap, Expected, callVars, IngestInv, IngestTypeOK
  <2>3. QED
    BY <2>1, <2>2 DEF NeverSunk
<1>2. ASSUME NEW t \in Threads, Reject(t) \/ Commit(t)
      PROVE  NeverSunk(h)' \subseteq NeverSunk(h)
  <2>1. UNCHANGED <<ingest_log, sink_seen, host, sequence>>
    BY <1>2 DEF Reject, Commit, storeVars, historyVars
  <2>2. \A u \in Threads : pc[u] = "sink" => pc'[u] = "sink"
    BY <1>2 DEF Reject, Commit, IngestInv, IngestTypeOK
  <2>3. QED
    BY <2>1, <2>2 DEF NeverSunk
<1>3. ASSUME NEW t \in Threads, Append(t)
      PROVE  NeverSunk(h)' \subseteq NeverSunk(h)
  <2>1. /\ ingest_log' = [ingest_log EXCEPT ![host[t]] = @ \cup {sequence[t]}]
        /\ UNCHANGED <<sink_seen, host, sequence>>
        /\ pc'[t] = "sink"
        /\ \A u \in Threads : pc[u] = "sink" => pc'[u] = "sink"
    BY <1>3 DEF Append, historyVars, IngestInv, IngestTypeOK
  <2>2. \A s \in ingest_log'[h] : s \in ingest_log[h] \/ (host[t] = h /\ s = sequence[t])
    BY <2>1 DEF IngestInv, IngestTypeOK
  <2>3. QED
    BY <2>1, <2>2 DEF NeverSunk
<1>4. ASSUME NEW t \in Threads, ApplySink(t)
      PROVE  NeverSunk(h)' \subseteq NeverSunk(h)
  <2>1. /\ sink_seen' = [sink_seen EXCEPT ![host[t]] = @ \cup {sequence[t]}]
        /\ UNCHANGED <<ingest_log, host, sequence>>
        /\ \A u \in Threads : u # t /\ pc[u] = "sink" => pc'[u] = "sink"
    BY <1>4 DEF ApplySink, storeVars, IngestInv, IngestTypeOK
  <2>2. /\ sink_seen[h] \subseteq sink_seen'[h]
        /\ host[t] = h => sequence[t] \in sink_seen'[h]
    BY <2>1 DEF IngestInv, IngestTypeOK
  <2>3. QED
    BY <2>1, <2>2 DEF NeverSunk
<1>5. ASSUME UNCHANGED ingestVars
      PROVE  NeverSunk(h)' \subseteq NeverSunk(h)
  BY <1>5 DEF ingestVars, storeVars, callVars, historyVars, NeverSunk
<1>6. QED
  BY <1>1, <1>2, <1>3, <1>4, <1>5 DEF IngestNext, Proceed

\* A crash loses the record behind the position, if that is stored.
LEMMA CrashLosesOne ==
  ASSUME IngestInv, DeliveryInv, NEW h \in Hosts, CrashAndRestart
  PROVE  NeverSunk(h)' \subseteq NeverSunk(h) \cup {last_committed[h] + 1}
<1> SUFFICES ASSUME NEW s \in NeverSunk(h)', s \notin NeverSunk(h)
             PROVE  s = last_committed[h] + 1
  OBVIOUS
<1>1. s \in ingest_log[h] /\ s \notin sink_seen[h]
  BY DEF CrashAndRestart, storeVars, NeverSunk
<1>2. PICK t \in Threads : pc[t] = "sink" /\ host[t] = h /\ sequence[t] = s
  BY <1>1 DEF NeverSunk
<1>3. QED
  BY <1>1, <1>2, FreshRecordIsNext

LEMMA LossStep ==
  ASSUME IngestInv, IngestInv', DeliveryInv, SinkLossBound, [IngestNext]_ingestVars
  PROVE  SinkLossBound'
<1> SUFFICES ASSUME NEW h \in Hosts
             PROVE  Cardinality(NeverSunk(h)') <= crashes'
  BY DEF SinkLossBound
<1> DEFINE before == NeverSunk(h)
           after == NeverSunk(h)'
<1>1. /\ IsFiniteSet(before) /\ Cardinality(before) \in Nat
      /\ Cardinality(before) <= crashes /\ crashes \in Nat
  BY LossesAreFinite DEF SinkLossBound, IngestInv, IngestTypeOK
<1>2. CASE CrashAndRestart
  <2> DEFINE more == before \cup {last_committed[h] + 1}
  <2>1. after \subseteq more /\ crashes' = crashes + 1
    BY <1>2, CrashLosesOne DEF CrashAndRestart
  <2> HIDE DEF before, after
  <2>2. /\ IsFiniteSet(more)
        /\ Cardinality(more) = Cardinality(before) \/ Cardinality(more) = Cardinality(before) + 1
    BY <1>1, FS_AddElement
  <2>3. Cardinality(after) <= Cardinality(more) /\ Cardinality(after) \in Nat
    BY <2>1, <2>2, FS_Subset, FS_CardinalityType
  <2> HIDE DEF more
  <2>4. Cardinality(after) <= crashes'
    BY <1>1, <2>1, <2>2, <2>3
  <2>5. QED
    BY <2>4 DEF after
<1>3. CASE ~CrashAndRestart
  <2>1. after \subseteq before
    BY <1>3, StepsLoseNothing
  <2>2. crashes' = crashes
    BY <1>3 DEF IngestNext, Proceed, Duplicate, Gap, Expected, Reject, Append,
                ApplySink, Commit, ingestVars, historyVars
  <2> HIDE DEF before, after
  <2>3. Cardinality(after) <= Cardinality(before) /\ Cardinality(after) \in Nat
    BY <1>1, <2>1, FS_Subset, FS_CardinalityType
  <2>4. Cardinality(after) <= crashes'
    BY <1>1, <2>2, <2>3
  <2>5. QED
    BY <2>4 DEF after
<1>4. QED
  BY <1>2, <1>3

\* Each crash keeps at most one stored record of a host from the sink, however
\* many calls of that host it cuts off.
THEOREM LossTheorem == IngestSpec => []SinkLossBound
<1>1. IngestInit => SinkLossBound
  <2>1. ASSUME IngestInit, NEW h \in Hosts
        PROVE  Cardinality(NeverSunk(h)) <= crashes
    <3>1. NeverSunk(h) = {} /\ crashes = 0
      BY <2>1 DEF IngestInit, NeverSunk
    <3>2. QED
      BY <3>1, FS_EmptySet
  <2>2. QED
    BY <2>1 DEF SinkLossBound
<1>2. IngestInv /\ IngestInv' /\ DeliveryInv /\ SinkLossBound /\ [IngestNext]_ingestVars
        => SinkLossBound'
  BY LossStep
<1>3. QED
  BY <1>1, <1>2, IngestInvariant, DeliveryInvariant, PTL DEF IngestSpec
=============================================================================
