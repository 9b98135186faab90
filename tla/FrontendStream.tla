--------------------------- MODULE FrontendStream ---------------------------
(***************************************************************************)
(* The stream of Hugin's frontend API: results of Muninn are broadcast to  *)
(* a websocket session, which queues them, writes one at a time and        *)
(* applies its backpressure policy when the queue is at its limit.         *)
(*                                                                         *)
(* A session has neither a strand nor a mutex, so its handlers, send and   *)
(* on_write, run on IoThreads threads at the same time.  A step of a       *)
(* handler is one look at write_queue_ or pending_bytes_, or one change of *)
(* them; the counter is loaded and stored in two.  Reads that stand side   *)
(* by side are one step: those of over_limit, empty with the over_limit    *)
(* or the front next to it, the size of the front and the counter.         *)
(*                                                                         *)
(* What two overlapping accesses to the deque do to its memory is left     *)
(* out, but a front or a pop of an empty one is undefined, and nothing is  *)
(* said of what follows.                                                   *)
(***************************************************************************)
EXTENDS Integers, FiniteSets, SequencesExt

CONSTANTS
  Policies,             \* a subset of DropNewest, DropOldest and Disconnect
  Sizes,                \* of the frames
  WsMaxPendingMessages,
  WsMaxPendingBytes,
  Word,                 \* number of values of a size_t
  IoThreads,
  MaxFrames             \* bound: frames that are broadcast

ASSUME StreamAssumption ==
  /\ Policies \subseteq {"DropNewest", "DropOldest", "Disconnect"}
  /\ Sizes \subseteq Nat
  /\ WsMaxPendingMessages \in Nat /\ WsMaxPendingBytes \in Nat
  /\ Word \in Nat \ {0}
  /\ IoThreads \in Nat \ {0}
  /\ MaxFrames \in Nat

VARIABLES
  ws_backpressure_policy,
  broadcasts,     \* number of frames so far
  posted,         \* frames whose send handler no thread has taken up yet
  handler,        \* what each thread runs, and how far it is
  write_queue,
  pending_bytes,  \* as an integer; a size_t where it is compared
  writing,        \* outstanding async_write calls: the frames they began with
  reading,        \* async_read is outstanding
  open,           \* the connection
  sent,           \* frames that went out
  dropped,        \* frames that a warning was logged for
  undefined,      \* the front of an empty deque was used
  races           \* history: what a handler relied on and another one changed

sessionVars == <<ws_backpressure_policy, broadcasts, reading>>
streamVars == <<sessionVars, posted, handler, write_queue, pending_bytes,
                writing, open, sent, dropped, undefined, races>>

Threads == 1..IoThreads
Frames == [number : 1..MaxFrames, size : Sizes]
NoFrame == [number |-> 0, size |-> 0]

\* Where a handler may be: send in "check" to "start", on_write from "load" on.
Places == {"rest", "check", "loop", "last", "closing", "admit", "count", "add",
           "push", "load", "subtract", "pop", "more", "start"}

\* The frame of a send, the counter and the size it loaded, and whether it
\* found the queue empty.
Rest == [at |-> "rest", frame |-> NoFrame, load |-> 0, front |-> 0, empty |-> FALSE]

Bytes(frames) == FoldLeft(LAMBDA sum, f : sum + f.size, 0, frames)

StreamTypeOK ==
  /\ ws_backpressure_policy \in Policies
  /\ broadcasts \in 0..MaxFrames
  /\ posted \in Seq(Frames)
  /\ handler \in [Threads -> [at : Places, frame : Frames \cup {NoFrame}, load : Int,
                              front : Sizes \cup {0}, empty : BOOLEAN]]
  /\ write_queue \in Seq(Frames)
  /\ Len(write_queue) <= WsMaxPendingMessages + IoThreads - 1
  /\ pending_bytes \in Int
  /\ writing \in Seq(Frames) /\ sent \in Seq(Frames) /\ dropped \subseteq Frames
  /\ reading \in BOOLEAN /\ open \in BOOLEAN /\ undefined \in BOOLEAN
  /\ races \subseteq {"empty", "bytes"}

\* A session that has joined the shared state.
StreamInit ==
  /\ ws_backpressure_policy \in Policies
  /\ broadcasts = 0 /\ pending_bytes = 0
  /\ posted = <<>> /\ write_queue = <<>> /\ writing = <<>> /\ sent = <<>>
  /\ handler = [t \in Threads |-> Rest]
  /\ dropped = {} /\ races = {}
  /\ reading = TRUE /\ open = TRUE /\ undefined = FALSE

-----------------------------------------------------------------------------
At(t, place) == handler[t].at = place
Goes(t, place) == handler' = [handler EXCEPT ![t].at = place]
Ends(t) == handler' = [handler EXCEPT ![t] = Rest]

\* Handlers, running or not, are all that keeps the session; the shared state
\* has a weak_ptr.
Alive ==
  reading \/ writing # <<>> \/ posted # <<>> \/ \E t \in Threads : ~At(t, "rest")

\* broadcast and the post in send.
Broadcast(size) ==
  /\ broadcasts < MaxFrames
  /\ broadcasts' = broadcasts + 1
  /\ posted' = IF Alive THEN Append(posted, [number |-> broadcasts + 1, size |-> size])
                        ELSE posted
  /\ UNCHANGED <<ws_backpressure_policy, reading, handler, write_queue, pending_bytes,
                 writing, open, sent, dropped, undefined, races>>

\* Threads are alike: the first one that is free takes up the next handler.
Free(t) == At(t, "rest") /\ \A u \in Threads : u < t => ~At(u, "rest")

TakeUp(t) ==
  /\ Free(t)
  /\ posted # <<>>
  /\ posted' = Tail(posted)
  /\ handler' = [handler EXCEPT ![t] = [Rest EXCEPT !.at = "check", !.frame = Head(posted)]]
  /\ UNCHANGED <<sessionVars, write_queue, pending_bytes, writing, open, sent, dropped,
                 undefined, races>>

\* Mutant of OverLimit: the frame that fills the queue is let in twice.
OverLimitLate(f) ==
  \/ Len(write_queue) > WsMaxPendingMessages
  \/ (pending_bytes + f.size) % Word > WsMaxPendingBytes

\* over_limit of send.
OverLimit(f) ==
  \/ Len(write_queue) >= WsMaxPendingMessages
  \/ (pending_bytes + f.size) % Word > WsMaxPendingBytes

\* The warning of a frame that is not queued.
Drop(t) == dropped' = dropped \cup {handler[t].frame}

\* The first over_limit, and what each policy does about it; close blocks the
\* thread until the peer has answered or is given up.
Check(t) ==
  /\ At(t, "check")
  /\ IF ~OverLimit(handler[t].frame)
       THEN Goes(t, "admit") /\ UNCHANGED <<open, dropped>>
       ELSE \/ /\ ws_backpressure_policy = "DropNewest"
               /\ Drop(t) /\ Ends(t)
               /\ UNCHANGED open
            \/ /\ ws_backpressure_policy = "DropOldest"
               /\ Goes(t, "loop")
               /\ UNCHANGED <<open, dropped>>
            \/ /\ ws_backpressure_policy = "Disconnect"
               /\ open' = FALSE
               /\ Goes(t, "closing")
               /\ UNCHANGED dropped
  /\ UNCHANGED <<sessionVars, posted, write_queue, pending_bytes, writing, sent,
                 undefined, races>>

CloseReturns(t) ==
  /\ At(t, "closing")
  /\ Drop(t) /\ Ends(t)
  /\ UNCHANGED <<sessionVars, posted, write_queue, pending_bytes, writing, open, sent,
                 undefined, races>>

\* The condition of the loop of drop_oldest, and the over_limit behind it.
Loop(t) ==
  /\ At(t, "loop")
  /\ Goes(t, IF OverLimit(handler[t].frame) /\ write_queue # <<>> THEN "load" ELSE "last")
  /\ UNCHANGED <<sessionVars, posted, write_queue, pending_bytes, writing, open, sent,
                 dropped, undefined, races>>

StillOver(t) ==
  /\ At(t, "last")
  /\ IF OverLimit(handler[t].frame) THEN Drop(t) /\ Ends(t)
                                    ELSE Goes(t, "admit") /\ UNCHANGED dropped
  /\ UNCHANGED <<sessionVars, posted, write_queue, pending_bytes, writing, open, sent,
                 undefined, races>>

-----------------------------------------------------------------------------
\* idle.
Admit(t) ==
  /\ At(t, "admit")
  /\ handler' = [handler EXCEPT ![t].at = "count", ![t].empty = (write_queue = <<>>)]
  /\ UNCHANGED <<sessionVars, posted, write_queue, pending_bytes, writing, open, sent,
                 dropped, undefined, races>>

\* The counter before payload_size is added to it ...
Count(t) ==
  /\ At(t, "count")
  /\ handler' = [handler EXCEPT ![t].at = "add", ![t].load = pending_bytes]
  /\ UNCHANGED <<sessionVars, posted, write_queue, pending_bytes, writing, open, sent,
                 dropped, undefined, races>>

\* A handler relies on something that is no longer so.
Raced(kind, stale) == races' = IF stale THEN races \cup {kind} ELSE races

CounterChanged(t) == pending_bytes # handler[t].load

EmptinessChanged(t) == handler[t].empty # (write_queue = <<>>)

\* ... and after it.
Add(t) ==
  /\ At(t, "add")
  /\ pending_bytes' = handler[t].load + handler[t].frame.size
  /\ handler' = [handler EXCEPT ![t].at = "push", ![t].load = 0]
  /\ Raced("bytes", CounterChanged(t))
  /\ UNCHANGED <<sessionVars, posted, write_queue, writing, open, sent, dropped, undefined>>

\* Mutant of StartsWriting: every frame starts a write.
AlwaysWriting(t) == TRUE

\* A send handler calls do_write only if it was idle.
StartsWriting(t) == handler[t].empty

Push(t) ==
  /\ At(t, "push")
  /\ write_queue' = Append(write_queue, handler[t].frame)
  /\ handler' = [handler EXCEPT ![t] =
                   IF StartsWriting(t) THEN [Rest EXCEPT !.at = "start"] ELSE Rest]
  /\ Raced("empty", EmptinessChanged(t))
  /\ UNCHANGED <<sessionVars, posted, pending_bytes, writing, open, sent, dropped, undefined>>

\* do_write: an async_write of the frame at the front.
Start(t) ==
  /\ At(t, "start")
  /\ writing' = IF write_queue = <<>> THEN writing ELSE Append(writing, Head(write_queue))
  /\ Ends(t)
  /\ UNCHANGED <<sessionVars, posted, write_queue, pending_bytes, open, sent, dropped,
                 undefined, races>>

-----------------------------------------------------------------------------
\* The frame of a write that ends went out if its string is still queued;
\* otherwise the write read freed memory and may have sent anything.
Written(f) ==
  \/ sent' = Append(sent, f)
  \/ f \notin ToSet(write_queue) /\ UNCHANGED sent

\* on_write, up to its first look at the queue.
OnWrite(t, i) ==
  /\ Free(t)
  /\ i \in DOMAIN writing
  /\ Written(writing[i])
  /\ writing' = RemoveAt(writing, i)
  /\ handler' = [handler EXCEPT ![t] =
                   IF write_queue = <<>> THEN [Rest EXCEPT !.at = "more", !.empty = TRUE]
                                         ELSE [Rest EXCEPT !.at = "load"]]
  /\ UNCHANGED <<sessionVars, posted, write_queue, pending_bytes, open, dropped,
                 undefined, races>>

\* on_write with an error leaves the queue as it is.
OnWriteFailed(i) ==
  /\ i \in DOMAIN writing /\ ~open
  /\ writing' = RemoveAt(writing, i)
  /\ UNCHANGED <<sessionVars, posted, handler, write_queue, pending_bytes, open, sent,
                 dropped, undefined, races>>

\* Nothing is said of a program that uses the front of an empty deque.
UsesEmptyQueue(t) ==
  /\ At(t, "load") \/ At(t, "pop")
  /\ write_queue = <<>>
  /\ undefined' = TRUE
  /\ UNCHANGED <<sessionVars, posted, handler, write_queue, pending_bytes, writing,
                 open, sent, dropped, races>>

\* on_write and the loop of drop_oldest: the size of the front and the counter
\* before it is subtracted ...
Load(t) ==
  /\ At(t, "load")
  /\ write_queue # <<>>
  /\ handler' = [handler EXCEPT ![t].at = "subtract", ![t].load = pending_bytes,
                                ![t].front = Head(write_queue).size]
  /\ UNCHANGED <<sessionVars, posted, write_queue, pending_bytes, writing, open, sent,
                 dropped, undefined, races>>

\* Mutant of Subtract: the counter is not reduced.
SubtractNothing(t) ==
  /\ At(t, "subtract")
  /\ pending_bytes' = handler[t].load
  /\ handler' = [handler EXCEPT ![t].at = "pop", ![t].load = 0]
  /\ Raced("bytes", CounterChanged(t))
  /\ UNCHANGED <<sessionVars, posted, write_queue, writing, open, sent, dropped, undefined>>

\* ... and after it.
Subtract(t) ==
  /\ At(t, "subtract")
  /\ pending_bytes' = handler[t].load - handler[t].front
  /\ handler' = [handler EXCEPT ![t].at = "pop", ![t].load = 0]
  /\ Raced("bytes", CounterChanged(t))
  /\ UNCHANGED <<sessionVars, posted, write_queue, writing, open, sent, dropped, undefined>>

Sending(t) == handler[t].frame # NoFrame

\* pop_front takes whatever is at the front by now.  The loop of drop_oldest
\* does not spare the frame that async_write refers to.
Pop(t) ==
  /\ At(t, "pop")
  /\ write_queue # <<>>
  /\ write_queue' = Tail(write_queue)
  /\ IF Sending(t)
       THEN /\ dropped' = dropped \cup {Head(write_queue)}
            /\ handler' = [handler EXCEPT ![t].at = "loop", ![t].front = 0]
       ELSE /\ handler' = [handler EXCEPT ![t] = [Rest EXCEPT !.at = "more",
                                                              !.empty = (write_queue' = <<>>)]]
            /\ UNCHANGED dropped
  /\ Raced("bytes", Head(write_queue).size # handler[t].front)
  /\ UNCHANGED <<sessionVars, posted, pending_bytes, writing, open, sent, undefined>>

\* Mutant of More: the next write is left to the next frame.
MoreNever(t) ==
  /\ At(t, "more")
  /\ Ends(t)
  /\ Raced("empty", EmptinessChanged(t))
  /\ UNCHANGED <<sessionVars, posted, write_queue, pending_bytes, writing, open, sent,
                 dropped, undefined>>

\* The second look of on_write at the queue.
More(t) ==
  /\ At(t, "more")
  /\ handler' = [handler EXCEPT ![t] =
                   IF write_queue = <<>> THEN Rest ELSE [Rest EXCEPT !.at = "start"]]
  /\ Raced("empty", EmptinessChanged(t))
  /\ UNCHANGED <<sessionVars, posted, write_queue, pending_bytes, writing, open, sent,
                 dropped, undefined>>

ConnectionBreaks ==
  /\ open /\ open' = FALSE
  /\ UNCHANGED <<sessionVars, posted, handler, write_queue, pending_bytes, writing,
                 sent, dropped, undefined, races>>

\* on_read with an error does not read again.
OnReadFailed ==
  /\ reading /\ ~open
  /\ reading' = FALSE
  /\ UNCHANGED <<ws_backpressure_policy, broadcasts, posted, handler, write_queue,
                 pending_bytes, writing, open, sent, dropped, undefined, races>>

\* What a thread does that has taken up a handler.
HandlerStep(t) ==
  \/ Check(t) \/ Loop(t) \/ StillOver(t)
  \/ Admit(t) \/ Count(t) \/ Add(t) \/ Push(t) \/ Start(t)
  \/ Load(t) \/ Subtract(t) \/ Pop(t) \/ More(t) \/ UsesEmptyQueue(t)

StreamNext ==
  /\ ~undefined
  /\ \/ \E size \in Sizes : Broadcast(size)
     \/ \E t \in Threads : TakeUp(t) \/ HandlerStep(t) \/ CloseReturns(t)
     \/ \E i \in DOMAIN writing : OnWriteFailed(i) \/ \E t \in Threads : OnWrite(t, i)
     \/ ConnectionBreaks
     \/ OnReadFailed

StreamSpec == StreamInit /\ [][StreamNext]_streamVars

\* Threads run as long as there is something to run, and a frontend that stays
\* connected takes what is written to it.  A close may block its thread for ever.
ThreadsRun ==
  \E t \in Threads : \/ HandlerStep(t) \/ TakeUp(t)
                     \/ open /\ \E i \in DOMAIN writing : OnWrite(t, i)

FairStreamSpec == StreamSpec /\ WF_streamVars(~undefined /\ ThreadsRun)

-----------------------------------------------------------------------------
\* pending_bytes_ is the size of what is queued, under every policy, unless one
\* of two things has happened: a handler stored a counter that another one had
\* changed since it loaded it, or popped a frame of another size than the one
\* it subtracted, because another handler had popped that (send, on_write).
PendingBytesMatch ==
  "bytes" \notin races /\ (\A t \in Threads : ~At(t, "push") /\ ~At(t, "pop")) =>
    pending_bytes = Bytes(write_queue)

Numbers(frames) == {frames[i].number : i \in DOMAIN frames}

Handled == {handler[t].frame.number : t \in Threads}

\* Every frame a session was given waits, is being written, went out or was
\* logged as dropped, and went out at most once (WebsocketSession::send, do_write, on_write).
Accounted ==
  /\ Cardinality(Numbers(sent)) = Len(sent)
  /\ \A n \in 1..broadcasts :
       \/ n \in Numbers(posted \o write_queue \o writing \o sent) \cup Handled
       \/ \E f \in dropped : f.number = n
       \/ ~open

\* The policies that never touch the frame being written keep account of every
\* frame, have one write outstanding at most and never use the front of an
\* empty queue, unless a handler acted on an emptiness of the queue that another
\* one had ended since: send when it pushes, on_write when it looks again.
FramesAreAccounted ==
  ws_backpressure_policy # "DropOldest" /\ "empty" \notin races =>
    Accounted /\ Len(writing) <= 1 /\ ~undefined

\* The same of every policy, as the warning of send says it: the frames that
\* are dropped are the ones it counts.
DropsAreCounted == Accounted

\* When no more frames come the queue empties, to a connection that stays open
\* or to make room, unless a handler acted on an emptiness that had ended: a send
\* that saw the queue busy and pushes when on_write has emptied it leaves its
\* frame to the next one (send, do_write, on_write).
StreamDrains ==
  write_queue # <<>> ~>
    write_queue = <<>> \/ ~open \/ "empty" \in races \/ undefined
=============================================================================
