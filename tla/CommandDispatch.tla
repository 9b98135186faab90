-------------------------- MODULE CommandDispatch --------------------------
(***************************************************************************)
(* How a command of a frontend gets to the connection to Muninn: an I/O    *)
(* thread of Hugin blocks in CommandLoadBalancer::execute while one of the *)
(* balancer's workers hands the command to MuninnWebSocketClient, which    *)
(* posts it back to the I/O threads.  A call is a command and stands for   *)
(* itself; what becomes of it on the connection is MuninnBridge's matter.  *)
(***************************************************************************)
EXTENDS Integers, FiniteSets, SequencesExt

CONSTANTS
  Calls,                \* POST requests to the command path
  WorkerThreads,
  MaxQueuePerWorker,
  IoThreads,
  Nobody                \* no call

ASSUME DispatchAssumption ==
  /\ WorkerThreads \in Nat \ {0} /\ MaxQueuePerWorker \in Nat \ {0}
  /\ IoThreads \in Nat \ {0}
  /\ Nobody \notin Calls /\ IsFiniteSet(Calls)

Workers == 0..(WorkerThreads - 1)

VARIABLES
  next_worker,   \* calls so far; size_t is not exhausted
  call,          \* where every call is, ending with its answer
  worker,        \* the worker picked for it
  promise,       \* the status a worker has set
  queue,         \* of every worker
  running,       \* the command a worker has taken
  exited,        \* workers that returned from worker_loop
  connected,     \* the client's hello is complete
  submitting,    \* workers that saw it complete and have not posted yet
  posted,        \* handlers of submit_command that wait for an I/O thread
  enqueued,      \* commands given to the connection
  dropped,       \* commands whose handler found no connection
  lost,          \* history: accepted, and not yet enqueued when it went down
  phase          \* of the process, see main

clientVars == <<connected, submitting, posted, enqueued, dropped, lost>>
workerVars == <<queue, running, exited>>
dispatchVars == <<next_worker, call, worker, promise, workerVars, clientVars, phase>>

Answers == {"ok", "failed", "full", "timed_out"}
Phases == <<"serving", "client_stopped", "io_stopped", "destroying">>

DispatchTypeOK ==
  /\ next_worker \in 0..Cardinality(Calls)
  /\ call \in [Calls -> {"new", "picked", "waiting"} \cup Answers]
  /\ worker \in [Calls -> Workers]
  /\ promise \in [Calls -> {"unset", "ok", "failed"}]
  /\ queue \in [Workers -> Seq(Calls)]
  /\ \A w \in Workers : Len(queue[w]) <= MaxQueuePerWorker
  /\ running \in [Workers -> Calls \cup {Nobody}]
  /\ exited \subseteq Workers
  /\ connected \in BOOLEAN
  /\ submitting \subseteq Workers /\ lost \subseteq Calls
  /\ posted \in Seq(Calls) /\ enqueued \in Seq(Calls) /\ dropped \in Seq(Calls)
  /\ phase \in ToSet(Phases)

DispatchInit ==
  /\ next_worker = 0
  /\ call = [c \in Calls |-> "new"]
  /\ worker = [c \in Calls |-> 0]
  /\ promise = [c \in Calls |-> "unset"]
  /\ queue = [w \in Workers |-> <<>>]
  /\ running = [w \in Workers |-> Nobody]
  /\ exited = {}
  /\ connected = FALSE /\ submitting = {}
  /\ posted = <<>> /\ enqueued = <<>> /\ dropped = <<>> /\ lost = {}
  /\ phase = "serving"

-----------------------------------------------------------------------------
(***************************************************************************)
(* I/O threads.  One that is inside execute runs nothing else.             *)
(***************************************************************************)
InExecute == {c \in Calls : call[c] \in {"picked", "waiting"}}

IoThreadFree ==
  /\ phase \in {"serving", "client_stopped"}
  /\ Cardinality(InExecute) < IoThreads

\* execute picks its worker with fetch_add ...
Pick(c) ==
  /\ IoThreadFree
  /\ call[c] = "new"
  /\ call' = [call EXCEPT ![c] = "picked"]
  /\ worker' = [worker EXCEPT ![c] = next_worker % WorkerThreads]
  /\ next_worker' = next_worker + 1
  /\ UNCHANGED <<promise, workerVars, clientVars, phase>>

\* Mutant of QueueIsFull: off by one.
QueueIsOverFull(w) == Len(queue[w]) > MaxQueuePerWorker

QueueIsFull(w) == Len(queue[w]) >= MaxQueuePerWorker

\* ... and looks at its queue under the worker's mutex later on.
Push(c) ==
  /\ call[c] = "picked"
  /\ ~QueueIsFull(worker[c])
  /\ queue' = [queue EXCEPT ![worker[c]] = Append(@, c)]
  /\ call' = [call EXCEPT ![c] = "waiting"]
  /\ UNCHANGED <<next_worker, worker, promise, running, exited, clientVars, phase>>

Refuse(c) ==
  /\ call[c] = "picked"
  /\ QueueIsFull(worker[c])
  /\ call' = [call EXCEPT ![c] = "full"]
  /\ UNCHANGED <<next_worker, worker, promise, workerVars, clientVars, phase>>

\* wait_for returns when the promise is set or the timeout is over; the task
\* stays where it is.
Return(c) ==
  /\ call[c] = "waiting"
  /\ call' = [call EXCEPT ![c] = IF promise[c] = "unset" THEN "timed_out" ELSE promise[c]]
  /\ UNCHANGED <<next_worker, worker, promise, workerVars, clientVars, phase>>

\* The handler that submit_command posts looks at the connection once more.
RunPosted(i) ==
  /\ IoThreadFree
  /\ i \in DOMAIN posted /\ i <= IoThreads
  /\ posted' = RemoveAt(posted, i)
  /\ IF connected THEN enqueued' = Append(enqueued, posted[i]) /\ UNCHANGED dropped
                  ELSE dropped' = Append(dropped, posted[i]) /\ UNCHANGED enqueued
  /\ UNCHANGED <<next_worker, call, worker, promise, workerVars, connected,
                 submitting, lost, phase>>

\* Commands that were accepted and have not been given to the connection.
Accepted == ToSet(posted) \cup {running[w] : w \in submitting}

SetConnected(b) ==
  /\ connected' = b
  /\ lost' = IF connected /\ ~b THEN lost \cup Accepted ELSE lost

\* hello_ack, or any of the reasons to reconnect.
ConnectionChanges ==
  /\ phase = "serving"
  /\ SetConnected(~connected)
  /\ UNCHANGED <<next_worker, call, worker, promise, workerVars, submitting,
                 posted, enqueued, dropped, phase>>

-----------------------------------------------------------------------------
(***************************************************************************)
(* Workers.                                                                *)
(***************************************************************************)
Take(w) ==
  /\ w \notin exited /\ running[w] = Nobody
  /\ queue[w] # <<>>
  /\ running' = [running EXCEPT ![w] = Head(queue[w])]
  /\ queue' = [queue EXCEPT ![w] = Tail(@)]
  /\ UNCHANGED <<next_worker, call, worker, promise, exited, clientVars, phase>>

\* Mutant of CheckConnection: it does not look at the connection.
CheckNothing(w) ==
  /\ running[w] # Nobody /\ w \notin submitting
  /\ submitting' = submitting \cup {w}
  /\ UNCHANGED <<next_worker, call, worker, promise, workerVars, connected,
                 posted, enqueued, dropped, lost, phase>>

\* The handler of main calls submit_command, which finds the connection up ...
CheckConnection(w) ==
  /\ running[w] # Nobody /\ w \notin submitting
  /\ connected
  /\ submitting' = submitting \cup {w}
  /\ UNCHANGED <<next_worker, call, worker, promise, workerVars, connected,
                 posted, enqueued, dropped, lost, phase>>

\* ... and posts the command, whatever the connection is by then.  The worker
\* sets the promise; nobody may be waiting for it any more.
Submit(w) ==
  /\ w \in submitting
  /\ submitting' = submitting \ {w}
  /\ running' = [running EXCEPT ![w] = Nobody]
  /\ promise' = [promise EXCEPT ![running[w]] = "ok"]
  /\ posted' = Append(posted, running[w])
  /\ UNCHANGED <<next_worker, call, worker, queue, exited, connected, enqueued,
                 dropped, lost, phase>>

\* Without a connection submit_command fails.
FailSubmit(w) ==
  /\ running[w] # Nobody /\ w \notin submitting
  /\ ~connected
  /\ running' = [running EXCEPT ![w] = Nobody]
  /\ promise' = [promise EXCEPT ![running[w]] = "failed"]
  /\ UNCHANGED <<next_worker, call, worker, queue, exited, clientVars, phase>>

\* Mutant of Exit: a worker that is told to stop leaves its queue behind.
ExitAtOnce(w) ==
  /\ phase = "destroying"
  /\ w \notin exited /\ running[w] = Nobody
  /\ exited' = exited \cup {w}
  /\ UNCHANGED <<next_worker, call, worker, promise, queue, running, clientVars, phase>>

\* worker_loop returns once it is told to stop and its queue is empty.
Exit(w) ==
  /\ phase = "destroying"
  /\ w \notin exited /\ running[w] = Nobody
  /\ queue[w] = <<>>
  /\ exited' = exited \cup {w}
  /\ UNCHANGED <<next_worker, call, worker, promise, queue, running, clientVars, phase>>

\* main stops the client, then the I/O threads, joins them and destroys the
\* balancer, which no call is left in.
Shutdown ==
  /\ \E p \in 1..3 :
       /\ phase = Phases[p] /\ phase' = Phases[p + 1]
       /\ p = 3 => InExecute = {}
  /\ SetConnected(FALSE)
  /\ UNCHANGED <<next_worker, call, worker, promise, workerVars, submitting,
                 posted, enqueued, dropped>>

\* What needs an I/O thread that is free.
IoThreadStep ==
  \/ \E c \in Calls : Pick(c)
  \/ \E i \in 1..IoThreads : RunPosted(i)

ExecuteStep(c) == Push(c) \/ Refuse(c) \/ Return(c)

WorkerStep(w) ==
  Take(w) \/ CheckConnection(w) \/ Submit(w) \/ FailSubmit(w) \/ Exit(w)

-----------------------------------------------------------------------------
\* A command that was refused or that failed never gets to the connection, and
\* none gets there twice.  One that was accepted, which its caller is told with
\* 202, gets there or waits to, unless the connection went down in between: then
\* the posted handler may drop it with no more than a line in the log.  Answer,
\* worker and handler run on threads of their own (execute, worker_loop,
\* submit_command).
AnswersAreKept ==
  LET left == posted \o enqueued \o dropped IN
  /\ Cardinality(ToSet(left)) = Len(left)
  /\ ToSet(dropped) \subseteq lost
  /\ \A c \in Calls :
       /\ call[c] = "ok" => c \in ToSet(left)
       /\ call[c] \in {"new", "picked", "full", "failed"} => c \notin ToSet(left)
=============================================================================
