---------------------------- MODULE MuninnBridge ----------------------------
(***************************************************************************)
(* The bridge between the gateway and the indexer: Hugin's websocket       *)
(* client, Muninn's sessions, and the outbox they drain.  The client says  *)
(* hello, is registered as a consumer, pulls batches on a timer, hands     *)
(* each batch to on_crud_result and acknowledges it; commands of frontends *)
(* travel on the same connection and bring batches of their own.           *)
(*                                                                         *)
(* A connection is two queues.  When it breaks, replies on their way are   *)
(* lost, but Muninn's session may go on working off what it had received,  *)
(* while the client already talks to another session.  The client can be   *)
(* restarted, as the same consumer or as a new one.  Frontends acknowledge *)
(* whatever they like.  Handlers of the client are taken as atomic, which  *)
(* is exact for one I/O thread.                                            *)
(***************************************************************************)
EXTENDS TransportOutbox

CONSTANTS
  PullBatch,       \* options_.outbox_batch_size of the client
  CommandBatches,  \* batch sizes frontend commands ask for; {} for no commands
  MaxConnections,  \* bound: connections that are ever opened
  MaxRestarts,     \* bound: restarts of the gateway
  MaxCommands,     \* bound: commands of frontends
  MaxFailures      \* bound: requests the store fails

ASSUME BridgeAssumption ==
  /\ PullBatch \in Nat \ {0}
  /\ CommandBatches \subseteq Nat \ {0}
  /\ MaxConnections \in Nat \ {0}
  /\ MaxRestarts \in Nat
  /\ MaxCommands \in Nat
  /\ MaxFailures \in Nat

VARIABLES
  consumer,      \* identity of the running client
  phase,         \* "down", "hello" (handshake complete) or "ready"
  last_ack,      \* last_ack_sequence_ of the client
  pull_armed,    \* pull_timer_ is running
  connection,    \* number of the newest connection, 0 before the first
  opened_by,     \* who opened each connection
  accepted,      \* connections whose session has accepted a hello
  inbox,         \* messages sent to the session of each connection
  replies,       \* messages on their way to the client
  handed,        \* history: records handed to on_crud_result, by consumer
  claimed,       \* history: positions frontends acknowledged, by consumer
  restarts, commands, failures  \* how often each has happened

clientVars == <<consumer, phase, last_ack, pull_armed>>
linkVars == <<connection, opened_by, accepted, inbox, replies>>
historyVars == <<handed, claimed>>
countVars == <<restarts, commands, failures>>
bridgeVars == <<outboxVars, clientVars, linkVars, historyVars, countVars>>

Hello == [type |-> "hello"]
Command(ack, n) == [type |-> "crud_command", ack |-> ack, batch |-> n]
IngestAck(seq) == [type |-> "ingest_ack", ack |-> seq]
HelloAck(ok) == [type |-> "hello_ack", accepted |-> ok]
Result(batch) == [type |-> "crud_result", records |-> batch]

Connections == 1..MaxConnections
Positions == 0..MaxSequence

ToMuninn == {Hello} \cup {IngestAck(s) : s \in Positions}
              \cup {Command(s, n) : s \in Positions,
                                    n \in CommandBatches \cup {PullBatch}}
ToHugin == {HelloAck(ok) : ok \in BOOLEAN}
             \cup {Result(b) : b \in SUBSET Positions}

BridgeTypeOK ==
  /\ OutboxTypeOK
  /\ consumer \in Consumers
  /\ phase \in {"down", "hello", "ready"}
  /\ last_ack \in Positions
  /\ pull_armed \in BOOLEAN
  /\ connection \in 0..MaxConnections
  /\ opened_by \in [Connections -> Consumers]
  /\ accepted \subseteq Connections
  /\ DOMAIN inbox = Connections
  /\ \A k \in Connections : \A i \in DOMAIN inbox[k] : inbox[k][i] \in ToMuninn
  /\ \A i \in DOMAIN replies : replies[i] \in ToHugin
  /\ handed \in [Consumers -> SUBSET Positions]
  /\ claimed \in [Consumers -> SUBSET Positions]

-----------------------------------------------------------------------------
Largest(S) == CHOOSE s \in S : \A t \in S : t <= s

BridgeInit ==
  /\ OutboxInit
  /\ consumer \in Consumers
  /\ phase = "down"
  /\ last_ack = 0
  /\ pull_armed = FALSE
  /\ connection = 0
  /\ opened_by \in [Connections -> {consumer}]
  /\ accepted = {}
  /\ inbox = [k \in Connections |-> <<>>]
  /\ replies = <<>>
  /\ handed = [c \in Consumers |-> {}]
  /\ claimed = [c \in Consumers |-> {}]
  /\ restarts = 0 /\ commands = 0 /\ failures = 0

\* Captures of the indexer append to the outbox.
Announce ==
  /\ \E recs \in Batches : EnqueueRecords(recs)
  /\ UNCHANGED <<clientVars, linkVars, historyVars, countVars>>

-----------------------------------------------------------------------------
(***************************************************************************)
(* The client.                                                             *)
(***************************************************************************)

Send(msg) == inbox' = [inbox EXCEPT ![connection] = Append(@, msg)]

\* start_connect to on_handshake; the queues of the client start out empty.
Connect ==
  /\ phase = "down"
  /\ connection < MaxConnections
  /\ connection' = connection + 1
  /\ opened_by' = [opened_by EXCEPT ![connection'] = consumer]
  /\ inbox' = [inbox EXCEPT ![connection'] = <<Hello>>]
  /\ replies' = <<>>
  /\ phase' = "hello"
  /\ UNCHANGED <<outboxVars, consumer, last_ack, pull_armed, accepted,
                 historyVars, countVars>>

\* schedule_reconnect, from whichever handler saw the error: the timer is
\* cancelled, last_ack_sequence_ stays.
Disconnected ==
  /\ phase' = "down"
  /\ pull_armed' = FALSE
  /\ replies' = <<>>

ConnectionBreaks ==
  /\ phase # "down"
  /\ connection < MaxConnections
  /\ Disconnected
  /\ UNCHANGED <<outboxVars, consumer, last_ack, connection, opened_by,
                 accepted, inbox, historyVars, countVars>>

\* A new process; docker-compose gives it a new identity, a fixed --host-id
\* the old one.
GatewayRestart ==
  /\ restarts < MaxRestarts
  /\ connection < MaxConnections
  /\ restarts' = restarts + 1
  /\ consumer' \in Consumers
  /\ Disconnected
  /\ last_ack' = 0
  /\ UNCHANGED <<outboxVars, connection, opened_by, accepted, inbox,
                 historyVars, commands, failures>>

\* handle_message, "hello_ack" accepted: the pull chain starts.
ReceiveHelloAck ==
  /\ phase # "down" /\ replies # <<>>
  /\ Head(replies) = HelloAck(TRUE)
  /\ phase' = "ready"
  /\ pull_armed' = TRUE
  /\ replies' = Tail(replies)
  /\ UNCHANGED <<outboxVars, consumer, last_ack, connection, opened_by,
                 accepted, inbox, historyVars, countVars>>

\* "hello_ack" rejected: reconnect.
ReceiveHelloReject ==
  /\ phase # "down" /\ replies # <<>>
  /\ Head(replies) = HelloAck(FALSE)
  /\ Disconnected
  /\ UNCHANGED <<outboxVars, consumer, last_ack, connection, opened_by,
                 accepted, inbox, historyVars, countVars>>

\* The timer of schedule_next_pull: request_read(last_ack_sequence_).
PullTimer ==
  /\ phase = "ready" /\ pull_armed
  /\ pull_armed' = FALSE
  /\ Send(Command(last_ack, PullBatch))
  /\ UNCHANGED <<outboxVars, consumer, phase, last_ack, connection,
                 opened_by, accepted, replies, historyVars, countVars>>

\* submit_command: a command of a frontend.  Nobody compares its ack_sequence
\* with what was handed over, or with what the outbox holds.
FrontendCommand ==
  /\ phase = "ready"
  /\ commands < MaxCommands
  /\ commands' = commands + 1
  /\ \E n \in CommandBatches, ack \in Positions :
       /\ Send(Command(ack, n))
       /\ claimed' = [claimed EXCEPT ![consumer] = @ \cup (1..ack)]
  /\ UNCHANGED <<outboxVars, clientVars, connection, opened_by, accepted,
                 replies, handed, restarts, failures>>

\* Mutant of ReceiveResult: the acknowledgement counts the records.
ReceiveResultCounting ==
  /\ phase # "down" /\ replies # <<>>
  /\ Head(replies).type = "crud_result"
  /\ LET batch == Head(replies).records
         top == last_ack + Cardinality(batch)
     IN  /\ handed' = [handed EXCEPT ![consumer] = @ \cup batch]
         /\ last_ack' = top
         /\ IF top > last_ack THEN Send(IngestAck(top)) ELSE UNCHANGED inbox
  /\ pull_armed' = (phase = "ready")
  /\ replies' = Tail(replies)
  /\ UNCHANGED <<outboxVars, consumer, phase, connection, opened_by, accepted,
                 claimed, countVars>>

\* Mutant of ReceiveResult: an empty batch does not arm the timer again.
ReceiveResultStopping ==
  /\ phase # "down" /\ replies # <<>>
  /\ Head(replies).type = "crud_result"
  /\ LET batch == Head(replies).records
         top == Largest(batch \cup {last_ack})
     IN  /\ handed' = [handed EXCEPT ![consumer] = @ \cup batch]
         /\ last_ack' = top
         /\ IF top > last_ack THEN Send(IngestAck(top)) ELSE UNCHANGED inbox
         /\ pull_armed' = (phase = "ready" /\ batch # {})
  /\ replies' = Tail(replies)
  /\ UNCHANGED <<outboxVars, consumer, phase, connection, opened_by, accepted,
                 claimed, countVars>>

\* apply_crud_result: on_crud_result applies the records in order, whatever
\* was applied before; a larger maximum is acknowledged; the timer is armed.
ReceiveResult ==
  /\ phase # "down" /\ replies # <<>>
  /\ Head(replies).type = "crud_result"
  /\ LET batch == Head(replies).records
         top == Largest(batch \cup {last_ack})
     IN  /\ handed' = [handed EXCEPT ![consumer] = @ \cup batch]
         /\ last_ack' = top
         /\ IF top > last_ack THEN Send(IngestAck(top)) ELSE UNCHANGED inbox
  /\ pull_armed' = (phase = "ready")
  /\ replies' = Tail(replies)
  /\ UNCHANGED <<outboxVars, consumer, phase, connection, opened_by, accepted,
                 claimed, countVars>>

-----------------------------------------------------------------------------
(***************************************************************************)
(* The sessions of Muninn.  A session works on its messages one by one;    *)
(* what a broken one writes goes nowhere.                                  *)
(***************************************************************************)
Receives(k, type) == inbox[k] # <<>> /\ Head(inbox[k]).type = type

Consume(k) == inbox' = [inbox EXCEPT ![k] = Tail(@)]

Reply(k, msg) ==
  replies' = IF k = connection /\ phase # "down" THEN Append(replies, msg)
                                                 ELSE replies

\* The session finds its connection closed before it has read everything.
SessionEnds(k) ==
  /\ k < connection \/ phase = "down"
  /\ inbox[k] # <<>>
  /\ inbox' = [inbox EXCEPT ![k] = <<>>]
  /\ UNCHANGED <<outboxVars, clientVars, connection, opened_by, accepted,
                 replies, historyVars, countVars>>

HandleHello(k) ==
  /\ Receives(k, "hello")
  /\ Consume(k)
  /\ IF opened_by[k] \in Registered
       THEN UNCHANGED outboxVars
       ELSE RegisterTransportConsumer(opened_by[k])
  /\ accepted' = accepted \cup {k}
  /\ Reply(k, HelloAck(TRUE))
  /\ UNCHANGED <<clientVars, connection, opened_by, historyVars, countVars>>

AdvanceTo(k, seq) ==
  IF seq > LastAcked(opened_by[k]) THEN AckTransportUntil(opened_by[k], seq)
                                   ELSE UNCHANGED outboxVars

HandleIngestAck(k) ==
  /\ Receives(k, "ingest_ack")
  /\ k \in accepted
  /\ Consume(k)
  /\ AdvanceTo(k, Head(inbox[k]).ack)
  /\ UNCHANGED <<clientVars, connection, opened_by, accepted, replies,
                 historyVars, countVars>>

\* Mutant of HandleCommand: what it returns counts as acknowledged.
HandleCommandAcking(k) ==
  /\ Receives(k, "crud_command")
  /\ k \in accepted
  /\ Consume(k)
  /\ LET batch == FetchBatch(opened_by[k], Head(inbox[k]).batch) IN
       /\ AdvanceTo(k, IF batch = {} THEN 0 ELSE Largest(batch))
       /\ Reply(k, Result(batch))
  /\ UNCHANGED <<clientVars, connection, opened_by, accepted,
                 historyVars, countVars>>

\* The acknowledgement that comes with a read first, then a batch behind it.
HandleCommand(k) ==
  /\ Receives(k, "crud_command")
  /\ k \in accepted
  /\ Consume(k)
  /\ LET position == Largest({LastAcked(opened_by[k]), Head(inbox[k]).ack})
     IN  /\ AdvanceTo(k, position)
         /\ Reply(k, Result(BatchBehind(position, Head(inbox[k]).batch)))
  /\ UNCHANGED <<clientVars, connection, opened_by, accepted,
                 historyVars, countVars>>

\* The store fails the request, or process refuses the command: a rejected
\* hello or a result without records.  The acknowledgement of a command comes
\* first and may have been stored by then.
StoreFails(k) ==
  /\ inbox[k] # <<>>
  /\ Head(inbox[k]).type = "hello" => connection < MaxConnections
  /\ failures < MaxFailures
  /\ failures' = failures + 1
  /\ Consume(k)
  /\ Reply(k, IF Head(inbox[k]).type = "hello" THEN HelloAck(FALSE)
                                               ELSE Result({}))
  /\ \/ UNCHANGED outboxVars
     \/ Receives(k, "crud_command") /\ AdvanceTo(k, Head(inbox[k]).ack)
  /\ UNCHANGED <<clientVars, connection, opened_by, accepted, historyVars,
                 restarts, commands>>

Serve(k) == HandleHello(k) \/ HandleIngestAck(k) \/ HandleCommand(k)

Receive == ReceiveHelloAck \/ ReceiveHelloReject \/ ReceiveResult

BridgeNext ==
  \/ Announce
  \/ Connect
  \/ ConnectionBreaks
  \/ GatewayRestart
  \/ Receive
  \/ PullTimer
  \/ FrontendCommand
  \/ \E k \in Connections : SessionEnds(k) \/ Serve(k) \/ StoreFails(k)

BridgeSpec == BridgeInit /\ [][BridgeNext]_bridgeVars

\* The reconnect timer and the pull timer expire, sessions and client read
\* what has arrived.
BridgeFairness ==
  /\ WF_bridgeVars(Connect)
  /\ WF_bridgeVars(PullTimer)
  /\ WF_bridgeVars(Receive)
  /\ \A k \in Connections : WF_bridgeVars(Serve(k))

FairBridgeSpec == BridgeSpec /\ BridgeFairness

-----------------------------------------------------------------------------
\* What a consumer may be taken to know: the records handed to on_crud_result
\* in some run of a gateway with that identity, and what a frontend of it
\* acknowledged on its own account, handed over or not.
covered == [c \in Consumers |-> handed[c] \cup claimed[c]]

\* The outbox skips a record for a consumer only on the word of a frontend,
\* whose ack_sequence nobody checks: no break, late session, failed request,
\* overlapping read or restart makes it skip one.
AckedWereHanded ==
  \A c \in Consumers : 1..LastAcked(c) \subseteq covered[c]

\* Records reach a consumer in order, though several reads are in flight at a
\* time and batches overlap, and the only holes are records a frontend
\* acknowledged before they came.
HandedIsPrefix ==
  \A c \in Consumers : \A s \in handed[c] : 1..s \subseteq covered[c]

\* When connections stop breaking, the running gateway is handed everything in
\* the outbox that no frontend has acknowledged in its stead, and the outbox
\* learns that it was.
EverythingIsDelivered ==
  <>[](/\ DOMAIN outbox \subseteq covered[consumer]
       /\ LastAcked(consumer) >= next_sequence - 1)
=============================================================================
