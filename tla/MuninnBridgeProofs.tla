------------------------- MODULE MuninnBridgeProofs -------------------------
(***************************************************************************)
(* Proofs about the bridge, for every set of consumers, every batch size   *)
(* and every bound.  Whatever is on its way between the client and the     *)
(* sessions, of the newest connection or of a broken one, speaks of the    *)
(* records that are covered for the consumer that opened the connection,   *)
(* handed to it or acknowledged by a frontend of it: an acknowledgement    *)
(* names one of them, a batch continues them without a hole.  BridgeInv    *)
(* says this of every message; the safety properties follow.               *)
(***************************************************************************)
EXTENDS MuninnBridge, TransportOutboxProofs, SequenceTheorems,
        FiniteSetTheorems

\* Nothing compacts the outbox while Muninn serves: it holds every record.
OutboxIsComplete ==
  /\ DOMAIN outbox = 1..(next_sequence - 1)
  /\ next_sequence - 1 <= MaxSequence

\* Messages to Muninn when the records H are covered for their sender.
MessagesFrom(H) ==
  {Hello} \cup {IngestAck(s) : s \in H \cup {0}}
    \cup {Command(s, n) : s \in H \cup {0}, n \in CommandBatches \cup {PullBatch}}

\* Runs of records up to top that continue the records H without a hole.
Continuations(H, top) ==
  {(p + 1)..l : p \in {q \in Positions : 1..q \subseteq H}, l \in 0..top}

\* Messages to a client with H covered, from an outbox of top records.
AnswersTo(H, top) ==
  {HelloAck(ok) : ok \in BOOLEAN} \cup {Result(b) : b \in Continuations(H, top)}

IsPrefix(H) == \A s \in H : 1..s \subseteq H

HandedInv ==
  /\ handed \in [Consumers -> SUBSET (1..(next_sequence - 1))]
  /\ claimed \in [Consumers -> SUBSET (1..MaxSequence)]
  /\ \A c \in Consumers : IsPrefix(covered[c]) /\ 1..LastAcked(c) \subseteq covered[c]

ClientInv ==
  /\ consumer \in Consumers
  /\ phase \in {"down", "hello", "ready"}
  /\ last_ack \in covered[consumer] \cup {0}
  /\ pull_armed \in BOOLEAN
  /\ phase = "down" => replies = <<>>
  /\ phase # "down" => connection # 0 /\ opened_by[connection] = consumer

LinkInv ==
  /\ connection \in 0..MaxConnections
  /\ opened_by \in [Connections -> Consumers]
  /\ accepted \subseteq Connections
  /\ DOMAIN inbox = Connections
  /\ \A k \in Connections : inbox[k] \in Seq(MessagesFrom(covered[opened_by[k]]))
  /\ replies \in Seq(AnswersTo(covered[consumer], next_sequence - 1))

BridgeInv ==
  /\ OutboxInv
  /\ OutboxIsComplete
  /\ HandedInv
  /\ ClientInv
  /\ LinkInv

USE OutboxAssumption, BridgeAssumption

-----------------------------------------------------------------------------
(***************************************************************************)
(* The operators.                                                          *)
(***************************************************************************)

\* Largest is the maximum: what apply_crud_result acknowledges, and where a
\* command that brings an acknowledgement reads on.
LEMMA LargestFact ==
  ASSUME NEW S \in SUBSET Nat, NEW m \in S, \A t \in S : t <= m
  PROVE  Largest(S) = m
<1>1. \E s \in S : \A t \in S : t <= s
  OBVIOUS
<1>2. Largest(S) \in S /\ \A t \in S : t <= Largest(S)
  BY <1>1 DEF Largest
<1>3. m <= Largest(S) /\ Largest(S) <= m
  BY <1>2
<1>4. m \in Nat /\ Largest(S) \in Nat
  BY <1>2
<1>5. QED
  BY <1>3, <1>4

\* A batch of a complete outbox is the run behind the position it was read at.
LEMMA BatchIsRun ==
  ASSUME next_sequence \in Nat \ {0}, OutboxIsComplete,
         NEW p \in Nat, NEW n \in Nat
  PROVE  \E l \in 0..(next_sequence - 1) : BatchBehind(p, n) = (p + 1)..l
<1> DEFINE top == next_sequence - 1
           l == IF p + n <= top THEN p + n ELSE top
<1>1. Behind(p) = (p + 1)..top
  BY DEF Behind, OutboxIsComplete
<1>2. ASSUME NEW s \in (p + 1)..top
      PROVE  Cardinality({t \in Behind(p) : t < s}) = s - 1 - p
  <2>1. {t \in Behind(p) : t < s} = (p + 1)..(s - 1)
    BY <1>1
  <2>2. Cardinality((p + 1)..(s - 1)) = s - 1 - p
    BY FS_Interval
  <2>3. QED
    BY <2>1, <2>2
<1>3. BatchBehind(p, n) = {s \in (p + 1)..top : s - 1 - p < n}
  BY <1>1, <1>2 DEF BatchBehind
<1>4. {s \in (p + 1)..top : s - 1 - p < n} = (p + 1)..l
  OBVIOUS
<1>5. l \in 0..top
  OBVIOUS
<1>6. QED
  BY <1>3, <1>4, <1>5

\* What is covered only grows, so a message that was right stays right.
LEMMA MessagesGrow ==
  ASSUME NEW H, NEW G, H \subseteq G
  PROVE  MessagesFrom(H) \subseteq MessagesFrom(G)
  BY DEF MessagesFrom

\* A batch on its way still continues what is covered, when more has been
\* covered and more has been announced since.
LEMMA AnswersGrow ==
  ASSUME NEW H, NEW G, H \subseteq G,
         NEW m \in Nat, NEW n \in Nat, m <= n
  PROVE  AnswersTo(H, m) \subseteq AnswersTo(G, n)
<1>1. Continuations(H, m) \subseteq Continuations(G, n)
  BY DEF Continuations, Positions
<1>2. QED
  BY <1>1 DEF AnswersTo

\* Handing over a run that continues a prefix leaves a prefix.
LEMMA RunExtendsPrefix ==
  ASSUME NEW H \in SUBSET Nat, IsPrefix(H),
         NEW p \in Nat, 1..p \subseteq H, NEW l \in Nat
  PROVE  IsPrefix(H \cup ((p + 1)..l))
<1> SUFFICES ASSUME NEW s \in H \cup ((p + 1)..l), NEW t \in 1..s
             PROVE  t \in H \cup ((p + 1)..l)
  BY DEF IsPrefix
<1>1. CASE s \in H
  BY <1>1 DEF IsPrefix
<1>2. CASE s \in (p + 1)..l
  BY <1>2
<1>3. QED
  BY <1>1, <1>2

-----------------------------------------------------------------------------
(***************************************************************************)
(* What the parts of the invariant say when the outbox and the history     *)
(* stay as they are.                                                       *)
(***************************************************************************)

\* Types and positions that every action relies on.
LEMMA BridgeFacts ==
  ASSUME BridgeInv
  PROVE  /\ next_sequence \in Nat \ {0}
         /\ next_sequence - 1 <= MaxSequence
         /\ \A c \in Consumers : covered[c] \in SUBSET Positions
         /\ \A c \in Consumers : LastAcked(c) \in Positions
         /\ \A c \in Consumers : \A s \in covered[c] \cup {0} :
              s \in Positions /\ 1..s \subseteq covered[c]
<1>1. next_sequence \in Nat \ {0} /\ next_sequence - 1 <= MaxSequence
  BY DEF BridgeInv, OutboxInv, OutboxTypeOK, OutboxIsComplete
<1>2. ASSUME NEW c \in Consumers PROVE covered[c] \in SUBSET Positions
  <2>1. covered[c] = handed[c] \cup claimed[c]
    BY DEF covered
  <2>2. QED
    BY <1>1, <2>1 DEF BridgeInv, HandedInv, Positions
<1>3. ASSUME NEW c \in Consumers PROVE LastAcked(c) \in Positions
  <2>1. LastAcked(c) \in Nat
    BY DEF BridgeInv, OutboxInv, OutboxTypeOK, LastAcked, Registered
  <2>2. CASE LastAcked(c) = 0
    BY <2>2 DEF Positions
  <2>3. CASE LastAcked(c) # 0
    <3>1. LastAcked(c) \in 1..LastAcked(c)
      BY <2>1, <2>3
    <3>2. QED
      BY <1>2, <3>1 DEF BridgeInv, HandedInv
  <2>4. QED
    BY <2>2, <2>3
<1>4. ASSUME NEW c \in Consumers, NEW s \in covered[c] \cup {0}
      PROVE  s \in Positions /\ 1..s \subseteq covered[c]
  <2>1. CASE s \in covered[c]
    BY <1>2, <2>1 DEF BridgeInv, HandedInv, IsPrefix
  <2>2. CASE s = 0
    BY <2>2 DEF Positions
  <2>3. QED
    BY <2>1, <2>2
<1>5. QED
  BY <1>1, <1>2, <1>3, <1>4

\* Without a new record or a new acknowledgement of a frontend, the same is
\* covered.
LEMMA HistoryQuiet ==
  ASSUME UNCHANGED historyVars
  PROVE  UNCHANGED covered
  BY DEF historyVars, covered

\* The outbox and the history do not move: their parts are untouched.
LEMMA QuietParts ==
  ASSUME BridgeInv, UNCHANGED <<outboxVars, historyVars>>
  PROVE  OutboxInv' /\ OutboxIsComplete' /\ HandedInv'
<1>1. UNCHANGED covered
  BY HistoryQuiet
<1>2. QED
  BY <1>1 DEF BridgeInv, outboxVars, OutboxInv, OutboxTypeOK, OutboxIsWindow,
         OutboxIsComplete, HandedInv, historyVars, LastAcked, Registered

-----------------------------------------------------------------------------
(***************************************************************************)
(* The steps of the indexer and of the client.                             *)
(***************************************************************************)

\* A capture appends to the outbox: what is on its way stays right.
LEMMA AnnounceKeepsInv ==
  ASSUME BridgeInv, Announce
  PROVE  BridgeInv'
<1>1. PICK recs \in Batches : EnqueueRecords(recs)
  BY DEF Announce
<1> DEFINE n == Len(recs)
<1>2. /\ n \in Nat \ {0}
      /\ next_sequence' = next_sequence + n
      /\ DOMAIN outbox' = DOMAIN outbox \cup (next_sequence .. next_sequence + n - 1)
      /\ consumer_ack' = consumer_ack
  BY <1>1, EnqueueShape DEF BridgeInv
<1>3. next_sequence + n - 1 <= MaxSequence
  BY <1>1 DEF EnqueueRecords
<1>4. OutboxInv'
  BY <1>1, EnqueueKeepsInv DEF BridgeInv
<1> HIDE DEF n
<1>5. next_sequence \in Nat \ {0} /\ next_sequence' - 1 = next_sequence - 1 + n
  BY <1>2, BridgeFacts
<1>6. OutboxIsComplete'
  BY <1>2, <1>3, <1>5 DEF BridgeInv, OutboxIsComplete
<1>7. UNCHANGED <<clientVars, linkVars, historyVars, covered>>
  BY HistoryQuiet DEF Announce
<1>8. HandedInv'
  <2>1. 1..(next_sequence - 1) \subseteq 1..(next_sequence' - 1)
    BY <1>2, <1>5
  <2>2. \A c \in Consumers : LastAcked(c)' = LastAcked(c)
    BY <1>2 DEF LastAcked, Registered
  <2>3. handed' \in [Consumers -> SUBSET (1..(next_sequence' - 1))]
    BY <1>7, <2>1 DEF BridgeInv, HandedInv, historyVars
  <2>4. QED
    BY <1>7, <2>2, <2>3 DEF BridgeInv, HandedInv, historyVars
<1>9. ClientInv'
  BY <1>7 DEF BridgeInv, ClientInv, clientVars, linkVars
<1>10. LinkInv'
  <2>1. AnswersTo(covered[consumer], next_sequence - 1)
          \subseteq AnswersTo(covered[consumer], next_sequence' - 1)
    BY <1>2, <1>5, AnswersGrow
  <2>2. replies \in Seq(AnswersTo(covered[consumer], next_sequence' - 1))
    BY <2>1, SeqMonotonic DEF BridgeInv, LinkInv
  <2>3. QED
    BY <1>7, <2>2 DEF BridgeInv, LinkInv, clientVars, linkVars
<1>11. QED
  BY <1>4, <1>6, <1>8, <1>9, <1>10 DEF BridgeInv

\* A message of the running client fits what is covered.
LEMMA SendKeepsLinks ==
  ASSUME BridgeInv, phase # "down",
         NEW msg \in MessagesFrom(covered[consumer]), Send(msg)
  PROVE  /\ DOMAIN inbox' = Connections
         /\ \A k \in Connections :
              inbox'[k] \in Seq(MessagesFrom(covered[opened_by[k]]))
<1>1. connection \in Connections /\ opened_by[connection] = consumer
  BY DEF BridgeInv, ClientInv, LinkInv, Connections
<1>2. Append(inbox[connection], msg) \in Seq(MessagesFrom(covered[consumer]))
  BY <1>1, AppendProperties DEF BridgeInv, LinkInv
<1>3. QED
  BY <1>1, <1>2 DEF Send, BridgeInv, LinkInv

\* A new connection starts with a hello and without anything on its way.
LEMMA ConnectKeepsInv ==
  ASSUME BridgeInv, Connect
  PROVE  BridgeInv'
<1>1. OutboxInv' /\ OutboxIsComplete' /\ HandedInv'
  BY QuietParts DEF Connect
<1>2. /\ connection' = connection + 1
      /\ opened_by' = [opened_by EXCEPT ![connection + 1] = consumer]
      /\ inbox' = [inbox EXCEPT ![connection + 1] = <<Hello>>]
      /\ replies' = <<>>
      /\ phase' = "hello"
      /\ UNCHANGED <<outboxVars, consumer, last_ack, pull_armed, accepted, covered>>
  BY HistoryQuiet DEF Connect
<1>3. connection + 1 \in Connections
  BY DEF BridgeInv, LinkInv, Connect, Connections
<1>4. opened_by' \in [Connections -> Consumers] /\ opened_by'[connection'] = consumer
  BY <1>2, <1>3 DEF BridgeInv, LinkInv, ClientInv
<1>5. ClientInv'
  BY <1>2, <1>3, <1>4 DEF BridgeInv, ClientInv, Connections
<1>6. <<Hello>> \in Seq(MessagesFrom(covered[consumer]))
  BY DEF MessagesFrom
<1>7. \A k \in Connections :
        inbox'[k] \in Seq(MessagesFrom(covered[opened_by'[k]]))
  BY <1>2, <1>3, <1>6 DEF BridgeInv, LinkInv
<1>8. replies' \in Seq(AnswersTo(covered'[consumer'], next_sequence' - 1))
  BY <1>2, EmptySeq
<1>9. connection' \in 0..MaxConnections /\ DOMAIN inbox' = Connections
  BY <1>2, <1>3 DEF BridgeInv, LinkInv, Connections
<1>10. LinkInv'
  BY <1>2, <1>4, <1>7, <1>8, <1>9 DEF BridgeInv, LinkInv, Connections
<1>11. QED
  BY <1>1, <1>5, <1>10 DEF BridgeInv

\* A broken connection and a new process both empty the queue to the client;
\* the inboxes keep what the sessions still work on.
LEMMA LossKeepsInv ==
  ASSUME BridgeInv, ConnectionBreaks \/ GatewayRestart \/ ReceiveHelloReject
  PROVE  BridgeInv'
<1>1. OutboxInv' /\ OutboxIsComplete' /\ HandedInv'
  BY QuietParts DEF ConnectionBreaks, GatewayRestart, ReceiveHelloReject
<1>2. /\ phase' = "down" /\ pull_armed' = FALSE /\ replies' = <<>>
      /\ consumer' \in Consumers
      /\ \/ consumer' = consumer /\ last_ack' = last_ack
         \/ last_ack' = 0
      /\ UNCHANGED <<outboxVars, connection, opened_by, accepted, inbox, covered>>
  BY HistoryQuiet DEF ConnectionBreaks, GatewayRestart, ReceiveHelloReject, Disconnected,
         BridgeInv, ClientInv
<1>3. ClientInv'
  BY <1>2 DEF BridgeInv, ClientInv
<1>4. replies' \in Seq(AnswersTo(covered'[consumer'], next_sequence' - 1))
  BY <1>2, EmptySeq
<1>5. LinkInv'
  BY <1>2, <1>4 DEF BridgeInv, LinkInv
<1>6. QED
  BY <1>1, <1>3, <1>5 DEF BridgeInv

\* The accepted hello only starts the pull chain.
LEMMA HelloAckKeepsInv ==
  ASSUME BridgeInv, ReceiveHelloAck
  PROVE  BridgeInv'
<1>1. OutboxInv' /\ OutboxIsComplete' /\ HandedInv'
  BY QuietParts DEF ReceiveHelloAck
<1>2. Tail(replies) \in Seq(AnswersTo(covered[consumer], next_sequence - 1))
  BY HeadTailProperties DEF ReceiveHelloAck, BridgeInv, LinkInv
<1>3. ClientInv'
  BY HistoryQuiet DEF ReceiveHelloAck, BridgeInv, ClientInv
<1>4. LinkInv'
  BY <1>2, HistoryQuiet DEF ReceiveHelloAck, BridgeInv, LinkInv, outboxVars
<1>5. QED
  BY <1>1, <1>3, <1>4 DEF BridgeInv

\* The pull timer acknowledges something that is covered.
LEMMA PullKeepsInv ==
  ASSUME BridgeInv, PullTimer
  PROVE  BridgeInv'
<1>1. OutboxInv' /\ OutboxIsComplete' /\ HandedInv'
  BY QuietParts DEF PullTimer
<1>2. PICK msg \in MessagesFrom(covered[consumer]) : Send(msg)
  <2>1. last_ack \in covered[consumer] \cup {0}
    BY DEF BridgeInv, ClientInv
  <2>2. Command(last_ack, PullBatch) \in MessagesFrom(covered[consumer])
    BY <2>1 DEF MessagesFrom
  <2>3. QED
    BY <2>2 DEF PullTimer
<1>3. /\ phase = "ready"
      /\ UNCHANGED <<outboxVars, consumer, phase, last_ack, connection,
                     opened_by, accepted, replies, covered>>
      /\ pull_armed' \in BOOLEAN
  BY HistoryQuiet DEF PullTimer
<1>4. /\ DOMAIN inbox' = Connections
      /\ \A k \in Connections :
           inbox'[k] \in Seq(MessagesFrom(covered[opened_by[k]]))
  BY <1>2, <1>3, SendKeepsLinks
<1>5. ClientInv'
  BY <1>3 DEF BridgeInv, ClientInv
<1>6. LinkInv'
  BY <1>3, <1>4 DEF BridgeInv, LinkInv, outboxVars
<1>7. QED
  BY <1>1, <1>5, <1>6 DEF BridgeInv

\* When more is covered for the running consumer and nothing else changes but
\* what is on its way, the messages of before stay right.
LEMMA CoveringKeepsLinks ==
  ASSUME BridgeInv, NEW D, D \in [Consumers -> SUBSET Positions],
         \A c \in Consumers : covered[c] \subseteq D[c]
  PROVE  /\ \A k \in Connections : inbox[k] \in Seq(MessagesFrom(D[opened_by[k]]))
         /\ replies \in Seq(AnswersTo(D[consumer], next_sequence - 1))
<1>1. ASSUME NEW k \in Connections
      PROVE  inbox[k] \in Seq(MessagesFrom(D[opened_by[k]]))
  <2>1. opened_by[k] \in Consumers
    BY DEF BridgeInv, LinkInv
  <2>2. MessagesFrom(covered[opened_by[k]]) \subseteq MessagesFrom(D[opened_by[k]])
    BY <2>1, MessagesGrow
  <2>3. QED
    BY <2>2, SeqMonotonic DEF BridgeInv, LinkInv
<1>2. replies \in Seq(AnswersTo(D[consumer], next_sequence - 1))
  <2> DEFINE m == next_sequence - 1
  <2>1. m \in Nat /\ m <= m /\ covered[consumer] \subseteq D[consumer]
    BY BridgeFacts DEF BridgeInv, ClientInv
  <2>2. replies \in Seq(AnswersTo(covered[consumer], m))
    BY DEF BridgeInv, LinkInv
  <2> HIDE DEF m
  <2>3. AnswersTo(covered[consumer], m) \subseteq AnswersTo(D[consumer], m)
    BY <2>1, AnswersGrow
  <2>4. replies \in Seq(AnswersTo(D[consumer], m))
    BY <2>2, <2>3, SeqMonotonic
  <2>5. QED
    BY <2>4 DEF m
<1>3. QED
  BY <1>1, <1>2

\* A frontend acknowledges what it likes: from then on that is covered.
LEMMA FrontendKeepsInv ==
  ASSUME BridgeInv, FrontendCommand
  PROVE  BridgeInv'
<1>1. PICK n \in CommandBatches, ack \in Positions :
        /\ Send(Command(ack, n))
        /\ claimed' = [claimed EXCEPT ![consumer] = @ \cup (1..ack)]
  BY DEF FrontendCommand
<1>2. /\ phase = "ready" /\ consumer \in Consumers
      /\ UNCHANGED <<outboxVars, consumer, phase, last_ack, pull_armed,
                     connection, opened_by, accepted, replies, handed>>
  BY DEF FrontendCommand, clientVars, BridgeInv, ClientInv
<1> DEFINE H == covered[consumer]
           G == H \cup (1..ack)
<1>3. /\ claimed' \in [Consumers -> SUBSET (1..MaxSequence)]
      /\ covered' \in [Consumers -> SUBSET Positions]
      /\ covered'[consumer] = G
      /\ \A c \in Consumers : c # consumer => covered'[c] = covered[c]
      /\ \A c \in Consumers : covered[c] \subseteq covered'[c]
  <2>1. ack \in Nat /\ ack <= MaxSequence /\ 1..ack \subseteq 1..MaxSequence
        /\ 1..MaxSequence \subseteq Positions
    BY DEF Positions
  <2>2. claimed' \in [Consumers -> SUBSET (1..MaxSequence)]
    BY <1>1, <1>2, <2>1 DEF BridgeInv, HandedInv
  <2>3. \A c \in Consumers : handed[c] \in SUBSET Positions
    BY BridgeFacts DEF BridgeInv, HandedInv, Positions
  <2>4. \A c \in Consumers : covered'[c] = handed[c] \cup claimed'[c]
    BY <1>2 DEF covered
  <2>5. \A c \in Consumers : covered[c] = handed[c] \cup claimed[c]
    BY DEF covered
  <2>6. covered' \in [Consumers -> SUBSET Positions]
    BY <1>2, <2>1, <2>2, <2>3 DEF covered
  <2>7. \A c \in Consumers :
          claimed'[c] = IF c = consumer THEN claimed[c] \cup (1..ack) ELSE claimed[c]
    BY <1>1, <1>2 DEF BridgeInv, HandedInv
  <2>8. QED
    BY <1>2, <2>2, <2>4, <2>5, <2>6, <2>7
<1>4. H \in SUBSET Nat /\ IsPrefix(H) /\ ack \in Nat
  BY <1>2, BridgeFacts DEF BridgeInv, HandedInv, Positions
<1> HIDE DEF H
<1>5. IsPrefix(G)
  <2>1. (0 + 1)..ack = 1..ack /\ 1..0 \subseteq H
    BY <1>4
  <2>2. QED
    BY <1>4, <2>1, RunExtendsPrefix
<1> HIDE DEF G
<1>6. OutboxInv' /\ OutboxIsComplete'
  BY <1>2 DEF BridgeInv, outboxVars, OutboxInv, OutboxTypeOK, OutboxIsWindow,
              OutboxIsComplete
<1>7. HandedInv'
  <2>1. \A c \in Consumers : LastAcked(c)' = LastAcked(c)
    BY <1>2 DEF outboxVars, LastAcked, Registered
  <2>2. \A c \in Consumers : IsPrefix(covered'[c])
    BY <1>3, <1>5 DEF BridgeInv, HandedInv
  <2>3. \A c \in Consumers : 1..LastAcked(c) \subseteq covered'[c]
    BY <1>3 DEF BridgeInv, HandedInv
  <2>4. next_sequence' = next_sequence /\ handed' = handed
    BY <1>2 DEF outboxVars
  <2>5. QED
    BY <1>3, <2>1, <2>2, <2>3, <2>4 DEF BridgeInv, HandedInv
<1>8. ClientInv'
  BY <1>2, <1>3 DEF BridgeInv, ClientInv
<1>9. /\ \A k \in Connections : inbox[k] \in Seq(MessagesFrom(covered'[opened_by[k]]))
      /\ replies \in Seq(AnswersTo(covered'[consumer], next_sequence - 1))
  BY <1>3, CoveringKeepsLinks
<1>10. /\ DOMAIN inbox' = Connections
       /\ \A k \in Connections :
            inbox'[k] \in Seq(MessagesFrom(covered'[opened_by[k]]))
  <2>1. connection \in Connections /\ opened_by[connection] = consumer
    BY <1>2 DEF BridgeInv, ClientInv, LinkInv, Connections
  <2>2. ack \in G \cup {0}
    BY <1>4 DEF G
  <2>3. Command(ack, n) \in MessagesFrom(G)
    BY <2>2 DEF MessagesFrom
  <2>4. Append(inbox[connection], Command(ack, n)) \in Seq(MessagesFrom(G))
    BY <1>3, <1>9, <2>1, <2>3, AppendProperties
  <2>5. QED
    BY <1>1, <1>3, <1>9, <2>1, <2>4 DEF Send, BridgeInv, LinkInv
<1>11. LinkInv'
  BY <1>2, <1>9, <1>10 DEF BridgeInv, LinkInv, outboxVars
<1>12. QED
  BY <1>6, <1>7, <1>8, <1>11 DEF BridgeInv

\* apply_crud_result: the batch continues what is covered, the maximum of it
\* is covered as well when it is acknowledged.
LEMMA ResultKeepsInv ==
  ASSUME BridgeInv, ReceiveResult
  PROVE  BridgeInv'
<1> DEFINE H == covered[consumer]
           batch == Head(replies).records
           top == Largest(batch \cup {last_ack})
           G == H \cup batch
<1>1. /\ consumer \in Consumers /\ H \in SUBSET Positions
      /\ last_ack \in H \cup {0} /\ last_ack \in Positions
      /\ IsPrefix(H) /\ next_sequence \in Nat \ {0}
  BY BridgeFacts DEF BridgeInv, ClientInv, HandedInv
<1>2. /\ Head(replies) \in AnswersTo(H, next_sequence - 1)
      /\ Tail(replies) \in Seq(AnswersTo(H, next_sequence - 1))
  BY HeadTailProperties DEF ReceiveResult, BridgeInv, LinkInv
<1>3. batch \in Continuations(H, next_sequence - 1)
  <2>1. Head(replies).type = "crud_result"
    BY DEF ReceiveResult
  <2>2. Head(replies) \notin {HelloAck(ok) : ok \in BOOLEAN}
    BY <2>1 DEF HelloAck
  <2>3. QED
    BY <1>2, <2>2 DEF AnswersTo, Result
<1>4. PICK p \in Positions, l \in 0..(next_sequence - 1) :
        1..p \subseteq H /\ batch = (p + 1)..l
  BY <1>3 DEF Continuations
<1>5. /\ handed' = [handed EXCEPT ![consumer] = @ \cup batch]
      /\ claimed' = claimed
      /\ last_ack' = top
      /\ IF top > last_ack THEN Send(IngestAck(top)) ELSE UNCHANGED inbox
      /\ pull_armed' = (phase = "ready")
      /\ replies' = Tail(replies)
      /\ phase # "down"
      /\ UNCHANGED <<outboxVars, consumer, phase, connection, opened_by, accepted>>
  BY DEF ReceiveResult
<1> HIDE DEF batch, H
<1>6. p \in Nat /\ l \in Nat /\ H \in SUBSET Nat /\ last_ack \in Nat
  BY <1>1, <1>4 DEF Positions
<1>7. top \in G \cup {0}
  <2>1. CASE batch # {} /\ l >= last_ack
    <3>1. batch \cup {last_ack} \in SUBSET Nat /\ l \in batch \cup {last_ack}
          /\ \A t \in batch \cup {last_ack} : t <= l
      BY <1>4, <1>6, <2>1
    <3>2. top = l
      BY <3>1, LargestFact
    <3>3. QED
      BY <1>4, <1>6, <2>1, <3>2
  <2>2. CASE batch = {} \/ l < last_ack
    <3>1. batch \cup {last_ack} \in SUBSET Nat
          /\ \A t \in batch \cup {last_ack} : t <= last_ack
      BY <1>4, <1>6, <2>2
    <3>2. top = last_ack
      BY <3>1, LargestFact
    <3>3. QED
      BY <1>1, <3>2
  <2>3. QED
    BY <1>6, <2>1, <2>2
<1> HIDE DEF top
<1>8. IsPrefix(G)
  BY <1>1, <1>4, <1>6, RunExtendsPrefix
<1>9. H \subseteq G /\ G \in SUBSET Positions
  <2>1. (p + 1)..l \subseteq Positions
    BY <1>1, <1>4, <1>6, BridgeFacts DEF Positions
  <2>2. QED
    BY <1>1, <1>4, <2>1
<1>10. handed' \in [Consumers -> SUBSET (1..(next_sequence - 1))]
  <2>1. batch \in SUBSET (1..(next_sequence - 1))
    BY <1>1, <1>4, <1>6
  <2>2. QED
    BY <1>1, <1>5, <2>1 DEF BridgeInv, HandedInv
<1> HIDE DEF G
<1>11. /\ covered'[consumer] = G
       /\ covered' \in [Consumers -> SUBSET Positions]
       /\ \A c \in Consumers : covered[c] \subseteq covered'[c]
       /\ \A c \in Consumers : c # consumer => covered'[c] = covered[c]
  <2>1. \A c \in Consumers :
          handed'[c] = IF c = consumer THEN handed[c] \cup batch ELSE handed[c]
    BY <1>1, <1>5 DEF BridgeInv, HandedInv
  <2>2. \A c \in Consumers : covered[c] = handed[c] \cup claimed[c]
    BY DEF covered
  <2>3. \A c \in Consumers : covered'[c] = handed'[c] \cup claimed[c]
    BY <1>5 DEF covered
  <2>4. \A c \in Consumers :
          covered'[c] = IF c = consumer THEN covered[c] \cup batch ELSE covered[c]
    BY <2>1, <2>2, <2>3
  <2>5. covered'[consumer] = G
    BY <1>1, <2>4 DEF G, H
  <2>6. \A c \in Consumers : covered'[c] \in SUBSET Positions
    BY <1>9, <2>4, <2>5, BridgeFacts
  <2>7. covered' = [c \in Consumers |-> handed'[c] \cup claimed'[c]]
    BY DEF covered
  <2>8. QED
    BY <2>4, <2>5, <2>6, <2>7
<1>12. OutboxInv' /\ OutboxIsComplete'
  BY <1>5 DEF BridgeInv, outboxVars, OutboxInv, OutboxTypeOK, OutboxIsWindow,
              OutboxIsComplete
<1>13. HandedInv'
  <2>1. \A c \in Consumers : LastAcked(c)' = LastAcked(c)
    BY <1>5 DEF outboxVars, LastAcked, Registered
  <2>2. \A c \in Consumers : IsPrefix(covered'[c])
    BY <1>8, <1>11 DEF BridgeInv, HandedInv
  <2>3. \A c \in Consumers : 1..LastAcked(c) \subseteq covered'[c]
    BY <1>11 DEF BridgeInv, HandedInv
  <2>4. next_sequence' = next_sequence
    BY <1>5 DEF outboxVars
  <2>5. QED
    BY <1>5, <1>10, <2>1, <2>2, <2>3, <2>4 DEF BridgeInv, HandedInv
<1>14. ClientInv'
  BY <1>1, <1>5, <1>7, <1>11 DEF BridgeInv, ClientInv
<1>15. /\ DOMAIN inbox' = Connections
       /\ \A k \in Connections :
            inbox'[k] \in Seq(MessagesFrom(covered'[opened_by[k]]))
  <2>1. connection \in Connections /\ opened_by[connection] = consumer
    BY <1>5 DEF BridgeInv, ClientInv, LinkInv, Connections
  <2>2. \A k \in Connections : inbox[k] \in Seq(MessagesFrom(covered'[opened_by[k]]))
    BY <1>11, CoveringKeepsLinks
  <2>3. CASE top > last_ack
    <3>1. IngestAck(top) \in MessagesFrom(G)
      BY <1>7 DEF MessagesFrom
    <3>2. inbox[connection] \in Seq(MessagesFrom(G))
      BY <1>11, <2>1, <2>2
    <3>3. Append(inbox[connection], IngestAck(top)) \in Seq(MessagesFrom(G))
      BY <3>1, <3>2, AppendProperties
    <3>4. inbox' = [inbox EXCEPT ![connection] =
                                   Append(inbox[connection], IngestAck(top))]
      BY <1>5, <2>3 DEF Send
    <3>5. QED
      BY <1>11, <2>1, <2>2, <3>3, <3>4 DEF BridgeInv, LinkInv
  <2>4. CASE ~(top > last_ack)
    BY <1>5, <2>2, <2>4 DEF BridgeInv, LinkInv
  <2>5. QED
    BY <2>3, <2>4
<1>16. replies' \in Seq(AnswersTo(G, next_sequence - 1))
  <2> DEFINE m == next_sequence - 1
  <2>1. m \in Nat /\ m <= m /\ H \subseteq G
    BY <1>1, <1>9
  <2> HIDE DEF m
  <2>2. AnswersTo(H, m) \subseteq AnswersTo(G, m)
    BY <2>1, AnswersGrow
  <2>3. replies' \in Seq(AnswersTo(H, m))
    BY <1>2, <1>5 DEF m
  <2>4. replies' \in Seq(AnswersTo(G, m))
    BY <2>2, <2>3, SeqMonotonic
  <2>5. QED
    BY <2>4 DEF m
<1>17. LinkInv'
  BY <1>5, <1>11, <1>15, <1>16 DEF BridgeInv, LinkInv, outboxVars
<1>18. QED
  BY <1>12, <1>13, <1>14, <1>17 DEF BridgeInv

-----------------------------------------------------------------------------
(***************************************************************************)
(* The steps of a session.                                                 *)
(***************************************************************************)

\* The position of a consumer moves to something that is covered, if at all.
Advances(c) ==
  \/ UNCHANGED outboxVars
  \/ c \notin Registered /\ RegisterTransportConsumer(c)
  \/ \E seq \in covered[c] \cup {0} : AckTransportUntil(c, seq)

\* Whatever the session does with the message at the head of its inbox, it
\* keeps the invariant if it advances the consumer to something that is
\* covered, and if it answers with a continuation of that.
LEMMA SessionKeepsInv ==
  ASSUME BridgeInv, NEW k \in Connections, inbox[k] # <<>>,
         Advances(opened_by[k]),
         inbox' = [inbox EXCEPT ![k] = Tail(@)] \/ inbox' = [inbox EXCEPT ![k] = <<>>],
         \/ replies' = replies
         \/ \E msg \in AnswersTo(covered[opened_by[k]], next_sequence - 1) :
              Reply(k, msg),
         accepted' \subseteq Connections,
         UNCHANGED <<clientVars, connection, opened_by, historyVars>>
  PROVE  BridgeInv'
<1> DEFINE c == opened_by[k]
<1>0. covered' = covered
  BY HistoryQuiet
<1>1. c \in Consumers
  BY DEF BridgeInv, LinkInv
<1>2. OutboxInv' /\ outbox' = outbox /\ next_sequence' = next_sequence
  <2>1. CASE UNCHANGED outboxVars
    BY <2>1, QuietParts DEF outboxVars
  <2>2. CASE RegisterTransportConsumer(c)
    BY <1>1, <2>2, AckKeepsInv DEF BridgeInv, RegisterTransportConsumer
  <2>3. CASE \E seq \in covered[c] \cup {0} : AckTransportUntil(c, seq)
    <3>1. PICK seq \in 0..MaxSequence : AckTransportUntil(c, seq)
      BY <1>1, <2>3, BridgeFacts DEF Positions
    <3>2. QED
      BY <1>1, <3>1, AckKeepsInv DEF BridgeInv, AckTransportUntil
  <2>4. QED
    BY <2>1, <2>2, <2>3 DEF Advances
<1>3. OutboxIsComplete'
  BY <1>2 DEF BridgeInv, OutboxIsComplete
<1>4. \A d \in Consumers : 1..LastAcked(d)' \subseteq covered[d]
  <2>1. CASE UNCHANGED outboxVars
    BY <2>1 DEF outboxVars, LastAcked, Registered, BridgeInv, HandedInv
  <2>2. CASE RegisterTransportConsumer(c)
    BY <2>2 DEF RegisterTransportConsumer, LastAcked, Registered, BridgeInv, HandedInv
  <2>3. CASE \E seq \in covered[c] \cup {0} : AckTransportUntil(c, seq)
    <3>1. PICK seq \in covered[c] \cup {0} : AckTransportUntil(c, seq)
      BY <2>3
    <3>2. 1..seq \subseteq covered[c]
      BY <1>1, BridgeFacts
    <3>3. \A d \in Consumers :
            LastAcked(d)' = IF d = c THEN seq ELSE LastAcked(d)
      BY <3>1 DEF AckTransportUntil, LastAcked, Registered
    <3>4. QED
      BY <3>2, <3>3 DEF BridgeInv, HandedInv
  <2>4. QED
    BY <2>1, <2>2, <2>3 DEF Advances
<1>5. HandedInv'
  BY <1>0, <1>2, <1>4 DEF BridgeInv, HandedInv, historyVars
<1>6. /\ DOMAIN inbox' = Connections
      /\ \A j \in Connections :
           inbox'[j] \in Seq(MessagesFrom(covered[opened_by[j]]))
  <2>1. inbox[k] \in Seq(MessagesFrom(covered[c]))
    BY DEF BridgeInv, LinkInv
  <2>2. Tail(inbox[k]) \in Seq(MessagesFrom(covered[c]))
    BY <2>1, HeadTailProperties
  <2>3. <<>> \in Seq(MessagesFrom(covered[c]))
    BY EmptySeq
  <2>4. QED
    BY <2>2, <2>3 DEF BridgeInv, LinkInv
<1>7. /\ replies' \in Seq(AnswersTo(covered[consumer], next_sequence - 1))
      /\ phase = "down" => replies' = <<>>
  <2>1. CASE replies' = replies
    BY <2>1 DEF BridgeInv, ClientInv, LinkInv
  <2>2. ASSUME NEW msg \in AnswersTo(covered[c], next_sequence - 1),
               k = connection, phase # "down",
               replies' = Append(replies, msg)
        PROVE  replies' \in Seq(AnswersTo(covered[consumer], next_sequence - 1))
    <3>1. c = consumer
      BY <2>2 DEF BridgeInv, ClientInv
    <3>2. QED
      BY <2>2, <3>1, AppendProperties DEF BridgeInv, LinkInv
  <2>3. QED
    BY <2>1, <2>2 DEF Reply
<1>8. ClientInv'
  BY <1>0, <1>7 DEF BridgeInv, ClientInv, clientVars
<1>9. LinkInv'
  BY <1>0, <1>2, <1>6, <1>7 DEF BridgeInv, LinkInv, clientVars
<1>10. QED
  BY <1>2, <1>3, <1>5, <1>8, <1>9 DEF BridgeInv

\* The message a session works on, and the position it would read from.
LEMMA HeadFacts ==
  ASSUME BridgeInv, NEW k \in Connections, inbox[k] # <<>>
  PROVE  LET msg == Head(inbox[k]) IN
         /\ msg.type = "ingest_ack" => msg.ack \in covered[opened_by[k]] \cup {0}
         /\ msg.type = "crud_command" =>
              /\ msg.ack \in covered[opened_by[k]] \cup {0}
              /\ msg.batch \in Nat
<1> DEFINE H == covered[opened_by[k]]
<1>1. Head(inbox[k]) \in MessagesFrom(H)
  BY HeadTailProperties DEF BridgeInv, LinkInv
<1> HIDE DEF H
<1>2. \A msg \in MessagesFrom(H) :
        /\ msg.type = "ingest_ack" => msg.ack \in H \cup {0}
        /\ msg.type = "crud_command" => msg.ack \in H \cup {0} /\ msg.batch \in Nat
  <2>1. ASSUME NEW s \in H \cup {0}, NEW n \in CommandBatches \cup {PullBatch}
        PROVE  /\ Command(s, n).type = "crud_command"
               /\ Command(s, n).ack = s /\ Command(s, n).batch = n
               /\ n \in Nat
    BY DEF Command
  <2>2. ASSUME NEW s \in H \cup {0}
        PROVE  IngestAck(s).type = "ingest_ack" /\ IngestAck(s).ack = s
    BY DEF IngestAck
  <2>3. Hello.type = "hello"
    BY DEF Hello
  <2>4. QED
    BY <2>1, <2>2, <2>3 DEF MessagesFrom
<1>3. QED
  BY <1>1, <1>2 DEF H

\* What a session answers with when it has nothing to return.
LEMMA PlainAnswers ==
  ASSUME BridgeInv, NEW H
  PROVE  /\ \A ok \in BOOLEAN : HelloAck(ok) \in AnswersTo(H, next_sequence - 1)
         /\ Result({}) \in AnswersTo(H, next_sequence - 1)
<1>1. 0 \in 0..(next_sequence - 1) /\ 0 \in {q \in Positions : 1..q \subseteq H}
  BY BridgeFacts DEF Positions
<1>2. (0 + 1)..0 = {}
  OBVIOUS
<1>3. {} \in Continuations(H, next_sequence - 1)
  BY <1>1, <1>2 DEF Continuations
<1>4. QED
  BY <1>3 DEF AnswersTo

\* A session reads on behind the larger of the stored position and the
\* acknowledgement of the command: its answer has no hole.
LEMMA CommandKeepsInv ==
  ASSUME BridgeInv, NEW k \in Connections, HandleCommand(k)
  PROVE  BridgeInv'
<1> DEFINE c == opened_by[k]
           msg == Head(inbox[k])
           position == Largest({LastAcked(c), msg.ack})
<1>1. c \in Consumers
  BY DEF BridgeInv, LinkInv
<1>2. inbox[k] # <<>> /\ msg.type = "crud_command"
  BY DEF HandleCommand, Receives
<1>3. /\ msg.ack \in covered[c] \cup {0} /\ msg.batch \in Nat
      /\ msg.ack \in Positions /\ 1..(msg.ack) \subseteq covered[c]
      /\ LastAcked(c) \in Positions /\ 1..LastAcked(c) \subseteq covered[c]
  BY <1>1, <1>2, HeadFacts, BridgeFacts DEF BridgeInv, HandedInv
<1>4. position \in {LastAcked(c), msg.ack}
  <2> HIDE DEF c, msg
  <2>1. LastAcked(c) \in Nat /\ msg.ack \in Nat
    BY <1>3 DEF Positions
  <2>2. CASE LastAcked(c) <= msg.ack
    BY <2>1, <2>2, LargestFact
  <2>3. CASE msg.ack <= LastAcked(c)
    BY <2>1, <2>3, LargestFact
  <2>4. QED
    BY <2>1, <2>2, <2>3
<1>5. /\ Consume(k)
      /\ AdvanceTo(k, position)
      /\ Reply(k, Result(BatchBehind(position, msg.batch)))
      /\ UNCHANGED <<clientVars, connection, opened_by, accepted, historyVars>>
  BY DEF HandleCommand
<1> HIDE DEF position, msg
<1>6. position \in Positions /\ position \in Nat /\ 1..position \subseteq covered[c]
  BY <1>3, <1>4 DEF Positions
<1>7. Advances(c)
  <2>1. CASE position > LastAcked(c)
    <3>1. position = msg.ack
      BY <1>3, <1>4, <2>1 DEF Positions
    <3>2. QED
      BY <1>3, <1>5, <2>1, <3>1 DEF AdvanceTo, Advances
  <2>2. CASE ~(position > LastAcked(c))
    BY <1>5, <2>2 DEF AdvanceTo, Advances
  <2>3. QED
    BY <2>1, <2>2
<1>8. Result(BatchBehind(position, msg.batch)) \in AnswersTo(covered[c], next_sequence - 1)
  <2>1. PICK l \in 0..(next_sequence - 1) :
          BatchBehind(position, msg.batch) = (position + 1)..l
    BY <1>3, <1>6, BridgeFacts, BatchIsRun DEF BridgeInv
  <2>2. QED
    BY <1>6, <2>1, SMTT(30) DEF Continuations, AnswersTo
<1>9. QED
  BY <1>2, <1>5, <1>7, <1>8, SessionKeepsInv DEF Consume, BridgeInv, LinkInv

\* The other things a session does.
LEMMA ServiceKeepsInv ==
  ASSUME BridgeInv, NEW k \in Connections,
         HandleHello(k) \/ HandleIngestAck(k) \/ SessionEnds(k) \/ StoreFails(k)
  PROVE  BridgeInv'
<1> DEFINE c == opened_by[k]
<1>1. CASE HandleHello(k)
  <2>1. Advances(c)
    BY <1>1 DEF HandleHello, Advances
  <2>2. accepted' \subseteq Connections
    BY <1>1 DEF HandleHello, BridgeInv, LinkInv
  <2>3. QED
    BY <1>1, <2>1, <2>2, PlainAnswers, SessionKeepsInv
       DEF HandleHello, Receives, Consume
<1>2. CASE HandleIngestAck(k)
  <2>1. inbox[k] # <<>> /\ Head(inbox[k]).ack \in covered[c] \cup {0}
    BY <1>2, HeadFacts DEF HandleIngestAck, Receives
  <2>2. Advances(c)
    BY <1>2, <2>1 DEF HandleIngestAck, AdvanceTo, Advances
  <2>3. QED
    BY <1>2, <2>1, <2>2, SessionKeepsInv
       DEF HandleIngestAck, Consume, BridgeInv, LinkInv
<1>3. CASE SessionEnds(k)
  BY <1>3, SessionKeepsInv DEF SessionEnds, Advances, BridgeInv, LinkInv
<1>4. CASE StoreFails(k)
  <2>1. inbox[k] # <<>> /\ Consume(k) /\ Advances(c)
    <3>1. CASE UNCHANGED outboxVars
      BY <1>4, <3>1 DEF StoreFails, Advances
    <3>2. CASE Receives(k, "crud_command") /\ AdvanceTo(k, Head(inbox[k]).ack)
      <4>1. Head(inbox[k]).ack \in covered[c] \cup {0}
        BY <1>4, <3>2, HeadFacts DEF StoreFails, Receives
      <4>2. QED
        BY <1>4, <3>2, <4>1 DEF StoreFails, AdvanceTo, Advances
    <3>3. QED
      BY <1>4, <3>1, <3>2 DEF StoreFails
  <2>2. \E msg \in AnswersTo(covered[c], next_sequence - 1) : Reply(k, msg)
    BY <1>4, PlainAnswers DEF StoreFails
  <2>3. QED
    BY <1>4, <2>1, <2>2, SessionKeepsInv
       DEF StoreFails, Consume, BridgeInv, LinkInv
<1>5. QED
  BY <1>1, <1>2, <1>3, <1>4

-----------------------------------------------------------------------------
(***************************************************************************)
(* The theorems.                                                           *)
(***************************************************************************)

LEMMA BridgeInitInv == BridgeInit => BridgeInv
<1> SUFFICES ASSUME BridgeInit PROVE BridgeInv
  OBVIOUS
<1>1. OutboxInv
  BY InitInv DEF BridgeInit
<1>2. OutboxIsComplete
  BY DEF BridgeInit, OutboxInit, OutboxIsComplete
<1>3. HandedInv
  <2>1. \A c \in Consumers : covered[c] = {} /\ LastAcked(c) = 0
    BY DEF BridgeInit, covered, OutboxInit, LastAcked, Registered
  <2>2. 1..0 = {}
    OBVIOUS
  <2>3. /\ handed \in [Consumers -> SUBSET (1..(next_sequence - 1))]
        /\ claimed \in [Consumers -> SUBSET (1..MaxSequence)]
    BY DEF BridgeInit
  <2>4. QED
    BY <2>1, <2>2, <2>3 DEF HandedInv, IsPrefix
<1>4. ClientInv
  BY DEF BridgeInit, ClientInv
<1>5. LinkInv
  BY EmptySeq DEF BridgeInit, LinkInv
<1>6. QED
  BY <1>1, <1>2, <1>3, <1>4, <1>5 DEF BridgeInv

LEMMA BridgeStepKeepsInv ==
  ASSUME BridgeInv, [BridgeNext]_bridgeVars
  PROVE  BridgeInv'
<1>1. CASE Announce
  BY <1>1, AnnounceKeepsInv
<1>2. CASE Connect
  BY <1>2, ConnectKeepsInv
<1>3. CASE ConnectionBreaks \/ GatewayRestart \/ ReceiveHelloReject
  BY <1>3, LossKeepsInv
<1>4. CASE ReceiveHelloAck
  BY <1>4, HelloAckKeepsInv
<1>5. CASE ReceiveResult
  BY <1>5, ResultKeepsInv
<1>6. CASE PullTimer \/ FrontendCommand
  BY <1>6, PullKeepsInv, FrontendKeepsInv
<1>7. CASE \E k \in Connections : HandleCommand(k)
  BY <1>7, CommandKeepsInv
<1>8. CASE \E k \in Connections :
             HandleHello(k) \/ HandleIngestAck(k) \/ SessionEnds(k) \/ StoreFails(k)
  BY <1>8, ServiceKeepsInv
<1>9. CASE UNCHANGED bridgeVars
  <2>1. UNCHANGED <<outboxVars, clientVars, linkVars, historyVars, covered>>
    BY <1>9, HistoryQuiet DEF bridgeVars
  <2>2. OutboxInv' /\ OutboxIsComplete' /\ HandedInv'
    BY <2>1, QuietParts
  <2>3. ClientInv' /\ LinkInv'
    BY <2>1 DEF outboxVars, clientVars, linkVars, BridgeInv, ClientInv, LinkInv
  <2>4. QED
    BY <2>2, <2>3 DEF BridgeInv
<1>10. QED
  BY <1>1, <1>2, <1>3, <1>4, <1>5, <1>6, <1>7, <1>8, <1>9
     DEF BridgeNext, Receive, Serve

\* Every message on its way, of the running connection and of broken ones,
\* speaks of records that are covered for the consumer of its connection.
THEOREM BridgeInvariant == BridgeSpec => []BridgeInv
<1>1. BridgeInit => BridgeInv
  BY BridgeInitInv
<1>2. BridgeInv /\ [BridgeNext]_bridgeVars => BridgeInv'
  BY BridgeStepKeepsInv
<1>3. QED
  BY <1>1, <1>2, PTL DEF BridgeSpec

\* The position of a consumer covers only records that were handed to
\* on_crud_result or acknowledged by a frontend's own ack_sequence, which is
\* not checked: whatever breaks, overlaps, fails or restarts skips nothing.
THEOREM AckedTheorem == BridgeSpec => []AckedWereHanded
<1>1. BridgeInv => AckedWereHanded
  BY DEF BridgeInv, HandedInv, AckedWereHanded
<1>2. QED
  BY <1>1, BridgeInvariant, PTL

\* Records reach a consumer in order, with no hole but those a frontend
\* acknowledged before they came.
THEOREM PrefixTheorem == BridgeSpec => []HandedIsPrefix
<1>1. BridgeInv => HandedIsPrefix
  <2>1. \A c \in Consumers : handed[c] \subseteq covered[c]
    BY DEF covered
  <2>2. QED
    BY <2>1 DEF BridgeInv, HandedInv, IsPrefix, HandedIsPrefix
<1>2. QED
  BY <1>1, BridgeInvariant, PTL

\* The bridge keeps its types: no acknowledgement and no batch leaves the
\* range of the sequence numbers.
THEOREM BridgeTypeTheorem == BridgeSpec => []BridgeTypeOK
<1>1. ASSUME BridgeInv PROVE BridgeTypeOK
  <2>1. next_sequence \in Nat \ {0} /\ next_sequence - 1 <= MaxSequence
    BY <1>1, BridgeFacts
  <2>2. \A c \in Consumers : covered[c] \in SUBSET Positions
    BY <1>1, BridgeFacts
  <2>3. ASSUME NEW c \in Consumers PROVE MessagesFrom(covered[c]) \subseteq ToMuninn
    BY <2>2 DEF MessagesFrom, ToMuninn, Positions
  <2>4. ASSUME NEW k \in Connections, NEW i \in DOMAIN inbox[k]
        PROVE  inbox[k][i] \in ToMuninn
    <3>1. opened_by[k] \in Consumers
      BY <1>1 DEF BridgeInv, LinkInv
    <3>2. inbox[k] \in Seq(ToMuninn)
      BY <1>1, <2>3, <3>1, SeqMonotonic DEF BridgeInv, LinkInv
    <3>3. QED
      BY <3>2
  <2>5. Continuations(covered[consumer], next_sequence - 1) \subseteq SUBSET Positions
    BY <2>1 DEF Continuations, Positions
  <2>6. AnswersTo(covered[consumer], next_sequence - 1) \subseteq ToHugin
    BY <2>5 DEF AnswersTo, ToHugin
  <2>7. replies \in Seq(ToHugin)
    BY <1>1, <2>6, SeqMonotonic DEF BridgeInv, LinkInv
  <2>8. \A i \in DOMAIN replies : replies[i] \in ToHugin
    BY <2>7
  <2>9. last_ack \in Positions
    BY <1>1, <2>2 DEF BridgeInv, ClientInv, Positions
  <2>10. /\ handed \in [Consumers -> SUBSET Positions]
         /\ claimed \in [Consumers -> SUBSET Positions]
    BY <1>1, <2>1 DEF BridgeInv, HandedInv, Positions
  <2>11. QED
    BY <1>1, <2>4, <2>8, <2>9, <2>10
       DEF BridgeInv, OutboxInv, ClientInv, LinkInv, BridgeTypeOK
<1>2. QED
  BY <1>1, BridgeInvariant, PTL

\* The bridge uses the outbox only through the transactions of the store: a
\* step appends, registers, acknowledges within the bounds, or leaves it alone.
LEMMA BridgeStepIsOutboxStep ==
  ASSUME BridgeInv, [BridgeNext]_bridgeVars
  PROVE  [OutboxNext]_outboxVars
<1>1. ASSUME NEW k \in Connections, NEW seq \in covered[opened_by[k]] \cup {0},
             AdvanceTo(k, seq)
      PROVE  [OutboxNext]_outboxVars
  <2>1. opened_by[k] \in Consumers
    BY DEF BridgeInv, LinkInv
  <2>2. seq \in 0..MaxSequence
    BY <2>1, BridgeFacts DEF Positions
  <2>3. QED
    BY <1>1, <2>1, <2>2 DEF AdvanceTo, OutboxNext
<1>2. CASE Announce
  BY <1>2 DEF Announce, OutboxNext
<1>3. CASE \E k \in Connections : HandleHello(k)
  BY <1>3 DEF HandleHello, OutboxNext, BridgeInv, LinkInv
<1>4. ASSUME NEW k \in Connections, HandleIngestAck(k)
      PROVE  [OutboxNext]_outboxVars
  BY <1>1, <1>4, HeadFacts DEF HandleIngestAck, Receives
<1>5. ASSUME NEW k \in Connections, HandleCommand(k)
      PROVE  [OutboxNext]_outboxVars
  <2> DEFINE position == Largest({LastAcked(opened_by[k]), Head(inbox[k]).ack})
             ack == Head(inbox[k]).ack
  <2>1. AdvanceTo(k, position) /\ inbox[k] # <<>> /\ Head(inbox[k]).type = "crud_command"
    BY <1>5 DEF HandleCommand, Receives
  <2>2. ack \in covered[opened_by[k]] \cup {0}
    BY <2>1, HeadFacts
  <2>3. opened_by[k] \in Consumers
    BY DEF BridgeInv, LinkInv
  <2>4. LastAcked(opened_by[k]) \in Nat /\ ack \in Nat
    BY <2>2, <2>3, BridgeFacts DEF Positions
  <2>5. CASE ack <= LastAcked(opened_by[k])
    <3>1. position = LastAcked(opened_by[k])
      BY <2>4, <2>5, LargestFact
    <3>2. QED
      BY <2>1, <2>4, <3>1 DEF AdvanceTo
  <2>6. CASE LastAcked(opened_by[k]) <= ack
    <3>1. position = ack
      BY <2>4, <2>6, LargestFact
    <3>2. QED
      BY <1>1, <2>1, <2>2, <3>1
  <2>7. QED
    BY <2>4, <2>5, <2>6
<1>6. ASSUME NEW k \in Connections, StoreFails(k)
      PROVE  [OutboxNext]_outboxVars
  <2>1. CASE UNCHANGED outboxVars
    BY <2>1
  <2>2. CASE Receives(k, "crud_command") /\ AdvanceTo(k, Head(inbox[k]).ack)
    BY <1>1, <2>2, HeadFacts DEF Receives
  <2>3. QED
    BY <1>6, <2>1, <2>2 DEF StoreFails
<1>7. CASE UNCHANGED outboxVars
  BY <1>7
<1>8. QED
  BY <1>2, <1>3, <1>4, <1>5, <1>6, <1>7
     DEF BridgeNext, Receive, Serve, Connect, ConnectionBreaks, GatewayRestart,
         ReceiveHelloAck, ReceiveHelloReject, ReceiveResult, PullTimer,
         FrontendCommand, SessionEnds, bridgeVars

\* The bridge implements the outbox, so what the outbox promises of unread
\* records, sequence numbers and acknowledgements holds under its traffic.
THEOREM BridgeImplementsOutbox == BridgeSpec => OutboxSpec
<1>1. BridgeInit => OutboxInit
  BY DEF BridgeInit
<1>2. BridgeInv /\ [BridgeNext]_bridgeVars => [OutboxNext]_outboxVars
  BY BridgeStepIsOutboxStep
<1>3. QED
  BY <1>1, <1>2, BridgeInvariant, PTL DEF BridgeSpec, OutboxSpec

=============================================================================
