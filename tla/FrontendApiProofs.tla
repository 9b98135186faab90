------------------------- MODULE FrontendApiProofs -------------------------
(***************************************************************************)
(* Proofs about the commands and the directory uploads of Hugin's frontend *)
(* API, for every set of calls and targets, every request, any number of   *)
(* workers, uploaders and I/O threads and every limit.                     *)
(***************************************************************************)
EXTENDS FrontendApi, FiniteSetTheorems, SequenceTheorems, TLAPS

-----------------------------------------------------------------------------
(***************************************************************************)
(* Induction, and sequences in which nothing comes twice.                  *)
(***************************************************************************)

\* A set that has 0 and is closed under the successor has every number.
LEMMA NatSetInduction ==
  ASSUME NEW S, 0 \in S, \A n \in Nat : n \in S => n + 1 \in S
  PROVE  \A n \in Nat : n \in S
<1> SUFFICES ASSUME ~ \A n \in Nat : n \in S
             PROVE  FALSE
  OBVIOUS
<1> DEFINE rest == {n \in Nat : n \notin S}
<1>1. PICK n \in rest : \A m \in rest : ~ (<<m, n>> \in OpToRel(<, Nat))
  <2>1. rest \subseteq Nat /\ rest # {}
    OBVIOUS
  <2> HIDE DEF rest
  <2>2. QED
    BY <2>1, NatLessThanWellFounded, WFMin
<1>2. \A m \in Nat : m < n => m \in S
  BY <1>1 DEF OpToRel
<1>3. n \in Nat /\ n # 0
  OBVIOUS
<1>4. n - 1 \in Nat /\ n - 1 < n /\ (n - 1) + 1 = n
  BY <1>3
<1>5. QED
  BY <1>2, <1>4

\* What is left of a sequence when one place is taken out.
LEMMA RemoveAtFacts ==
  ASSUME NEW S, NEW s \in Seq(S), NEW i \in 1..Len(s)
  PROVE  /\ RemoveAt(s, i) \in Seq(S)
         /\ Len(RemoveAt(s, i)) = Len(s) - 1
         /\ \A j \in 1..(Len(s) - 1) :
              RemoveAt(s, i)[j] = IF j < i THEN s[j] ELSE s[j + 1]
<1> DEFINE front == SubSeq(s, 1, i - 1)
           rest == SubSeq(s, i + 1, Len(s))
           n == Len(s)
<1>1. n \in Nat /\ i \in 1..n /\ \A k \in 1..n : s[k] \in S
  OBVIOUS
<1> HIDE DEF n
<1>2. /\ front \in Seq(S) /\ Len(front) = i - 1
      /\ \A j \in 1..(i - 1) : front[j] = s[j]
  <2>1. \A k \in 1..(i - 1) : s[k] \in S
    BY <1>1
  <2>2. 1 \in Int /\ i - 1 \in Int
    BY <1>1
  <2>3. /\ front \in Seq(S)
        /\ Len(front) = IF 1 <= i - 1 THEN (i - 1) - 1 + 1 ELSE 0
        /\ \A j \in 1..((i - 1) - 1 + 1) : front[j] = s[1 + j - 1]
    BY <2>1, <2>2, SubSeqProperties
  <2> HIDE DEF front
  <2>4. Len(front) = i - 1 /\ (i - 1) - 1 + 1 = i - 1 /\ \A j \in Int : 1 + j - 1 = j
    BY <1>1, <2>3
  <2>5. QED
    BY <2>3, <2>4
<1>3. /\ rest \in Seq(S) /\ Len(rest) = n - i
      /\ \A j \in 1..(n - i) : rest[j] = s[i + j]
  <2>1. \A k \in (i + 1)..n : s[k] \in S
    BY <1>1
  <2>2. i + 1 \in Int /\ n \in Int
    BY <1>1
  <2>3. /\ rest \in Seq(S)
        /\ Len(rest) = IF i + 1 <= n THEN n - (i + 1) + 1 ELSE 0
        /\ \A j \in 1..(n - (i + 1) + 1) : rest[j] = s[(i + 1) + j - 1]
    BY <2>1, <2>2, SubSeqProperties DEF n
  <2> HIDE DEF rest
  <2>4. /\ Len(rest) = n - i
        /\ n - (i + 1) + 1 = n - i
        /\ \A j \in Int : (i + 1) + j - 1 = i + j
    BY <1>1, <2>3
  <2>5. QED
    BY <2>3, <2>4
<1> HIDE DEF front, rest
<1>4. /\ front \o rest \in Seq(S)
      /\ Len(front \o rest) = Len(front) + Len(rest)
      /\ \A j \in 1..(Len(front) + Len(rest)) :
           (front \o rest)[j] = IF j <= Len(front) THEN front[j] ELSE rest[j - Len(front)]
  BY <1>2, <1>3, ConcatProperties
<1>5. Len(front) + Len(rest) = n - 1
  BY <1>1, <1>2, <1>3
<1>6. ASSUME NEW j \in 1..(n - 1)
      PROVE  (front \o rest)[j] = IF j < i THEN s[j] ELSE s[j + 1]
  <2>1. CASE j < i
    BY <1>1, <1>2, <1>4, <1>5, <2>1
  <2>2. CASE ~(j < i)
    <3>1. j - (i - 1) \in 1..(n - i) /\ i + (j - (i - 1)) = j + 1 /\ ~(j <= i - 1)
      BY <1>1, <2>2
    <3>2. (front \o rest)[j] = rest[j - (i - 1)]
      BY <1>2, <1>4, <1>5, <3>1
    <3>3. QED
      BY <1>3, <2>2, <3>1, <3>2
  <2>3. QED
    BY <2>1, <2>2
<1>7. QED
  BY <1>4, <1>5, <1>6 DEF RemoveAt, front, rest, n

\* A sequence in which nothing comes twice.
Distinct(s) == \A i, j \in DOMAIN s : s[i] = s[j] => i = j

LEMMA SetOfNone == ToSet(<<>>) = {} /\ Distinct(<<>>)
  BY DEF ToSet, Distinct

LEMMA SetOfAppend ==
  ASSUME NEW S, NEW s \in Seq(S), NEW x \in S
  PROVE  /\ Append(s, x) \in Seq(S)
         /\ ToSet(Append(s, x)) = ToSet(s) \cup {x}
         /\ Distinct(s) /\ x \notin ToSet(s) => Distinct(Append(s, x))
<1> DEFINE r == Append(s, x)
           n == Len(s)
<1>1. /\ n \in Nat /\ DOMAIN s = 1..n
      /\ r \in Seq(S) /\ DOMAIN r = 1..(n + 1)
      /\ \A i \in 1..n : r[i] = s[i]
      /\ r[n + 1] = x
  OBVIOUS
<1> HIDE DEF r, n
<1>2. \A i \in 1..(n + 1) : i \in 1..n \/ i = n + 1
  BY <1>1
<1>3. 1..n \subseteq 1..(n + 1) /\ n + 1 \in 1..(n + 1)
  BY <1>1
<1>4. ToSet(r) = ToSet(s) \cup {x}
  BY <1>1, <1>2, <1>3, Zenon DEF ToSet
<1>5. Distinct(s) /\ x \notin ToSet(s) => Distinct(r)
  BY <1>1, <1>2 DEF ToSet, Distinct
<1>6. QED
  BY <1>1, <1>4, <1>5 DEF r

LEMMA SetOfRemoveAt ==
  ASSUME NEW S, NEW s \in Seq(S), NEW i \in 1..Len(s)
  PROVE  /\ s[i] \in S
         /\ RemoveAt(s, i) \in Seq(S)
         /\ Len(RemoveAt(s, i)) = Len(s) - 1
         /\ ToSet(s) = ToSet(RemoveAt(s, i)) \cup {s[i]}
         /\ Distinct(s) => Distinct(RemoveAt(s, i))
         /\ Distinct(s) => s[i] \notin ToSet(RemoveAt(s, i))
<1> DEFINE r == RemoveAt(s, i)
           n == Len(s)
<1>1. n \in Nat /\ DOMAIN s = 1..n /\ i \in 1..n /\ s[i] \in S
  OBVIOUS
<1>2. /\ r \in Seq(S) /\ Len(r) = n - 1
      /\ \A j \in 1..(n - 1) : r[j] = IF j < i THEN s[j] ELSE s[j + 1]
  BY RemoveAtFacts
<1>3. DOMAIN r = 1..(n - 1)
  BY <1>2
<1> HIDE DEF r, n
<1> DEFINE at(j) == IF j < i THEN j ELSE j + 1
<1>4. \A j \in 1..(n - 1) : at(j) \in 1..n /\ at(j) # i /\ r[j] = s[at(j)]
  BY <1>1, <1>2
<1>5. \A j, k \in 1..(n - 1) : at(j) = at(k) => j = k
  BY <1>1
<1>6. ASSUME NEW k \in 1..n, k # i
      PROVE  \E j \in 1..(n - 1) : at(j) = k
  <2>1. CASE k < i
    <3>1. k \in 1..(n - 1) /\ at(k) = k
      BY <1>1, <2>1
    <3>2. QED
      BY <3>1
  <2>2. CASE ~(k < i)
    <3>1. k - 1 \in 1..(n - 1) /\ at(k - 1) = k
      BY <1>1, <1>6, <2>2
    <3>2. QED
      BY <3>1
  <2>3. QED
    BY <2>1, <2>2
<1> HIDE DEF at
<1>7. ToSet(r) \subseteq ToSet(s)
  BY <1>1, <1>3, <1>4 DEF ToSet
<1>8. ASSUME NEW k \in 1..n PROVE s[k] \in ToSet(r) \cup {s[i]}
  <2>1. CASE k # i
    <3>1. PICK j \in 1..(n - 1) : at(j) = k
      BY <1>6, <2>1
    <3>2. r[j] = s[k]
      BY <1>4, <3>1
    <3>3. QED
      BY <1>3, <3>2 DEF ToSet
  <2>2. QED
    BY <2>1
<1>9. ToSet(s) = ToSet(r) \cup {s[i]}
  BY <1>1, <1>7, <1>8 DEF ToSet
<1>10. Distinct(s) => Distinct(r)
  BY <1>1, <1>3, <1>4, <1>5 DEF Distinct
<1>11. Distinct(s) => s[i] \notin ToSet(r)
  BY <1>1, <1>3, <1>4 DEF Distinct, ToSet
<1>12. QED
  BY <1>1, <1>2, <1>9, <1>10, <1>11 DEF r, n

\* Sequences that have nothing in common are one in which nothing comes twice.
LEMMA SetOfConcat ==
  ASSUME NEW S, NEW s \in Seq(S), NEW r \in Seq(S)
  PROVE  /\ s \o r \in Seq(S)
         /\ ToSet(s \o r) = ToSet(s) \cup ToSet(r)
         /\ Distinct(s) /\ Distinct(r) /\ ToSet(s) \cap ToSet(r) = {} => Distinct(s \o r)
<1>1. /\ Len(s) \in Nat /\ Len(r) \in Nat
      /\ DOMAIN s = 1..Len(s) /\ DOMAIN r = 1..Len(r)
  OBVIOUS
<1>2. /\ s \o r \in Seq(S) /\ Len(s \o r) = Len(s) + Len(r)
      /\ \A i \in 1..(Len(s) + Len(r)) :
           (s \o r)[i] = IF i <= Len(s) THEN s[i] ELSE r[i - Len(s)]
  BY ConcatProperties
<1> DEFINE t == s \o r
           n == Len(s)
           m == Len(r)
<1>3. DOMAIN t = 1..(n + m)
  BY <1>2
<1>4. \A i \in 1..n : i \in DOMAIN t /\ t[i] = s[i]
  BY <1>1, <1>2, <1>3
<1>5. \A i \in 1..m : n + i \in DOMAIN t /\ t[n + i] = r[i]
  <2> SUFFICES ASSUME NEW i \in 1..m
               PROVE  n + i \in DOMAIN t /\ t[n + i] = r[i]
    OBVIOUS
  <2>1. n + i \in 1..(n + m) /\ ~(n + i <= n) /\ (n + i) - n = i
    BY <1>1
  <2>2. QED
    BY <1>2, <1>3, <2>1
<1>6. \A i \in DOMAIN t :
        \/ i \in 1..n /\ t[i] = s[i]
        \/ i - n \in 1..m /\ t[i] = r[i - n]
  BY <1>1, <1>2, <1>3
<1>7. t \in Seq(S) /\ n \in Nat /\ m \in Nat /\ DOMAIN s = 1..n /\ DOMAIN r = 1..m
  BY <1>1, <1>2
<1> HIDE DEF t, n, m
<1>8. ToSet(t) \subseteq ToSet(s) \cup ToSet(r)
  BY <1>6, <1>7 DEF ToSet
<1>9. ToSet(s) \subseteq ToSet(t)
  BY <1>4, <1>7 DEF ToSet
<1>10. ToSet(r) \subseteq ToSet(t)
  <2> SUFFICES ASSUME NEW i \in 1..m PROVE r[i] \in ToSet(t)
    BY <1>7 DEF ToSet
  <2>1. QED
    BY <1>5 DEF ToSet
<1>11. ASSUME Distinct(s), Distinct(r), ToSet(s) \cap ToSet(r) = {}
       PROVE  Distinct(t)
  <2> SUFFICES ASSUME NEW i \in DOMAIN t, NEW j \in DOMAIN t, t[i] = t[j]
               PROVE  i = j
    BY DEF Distinct
  <2>1. i \in Int /\ j \in Int
    BY <1>3, <1>7
  <2>2. \A k \in 1..n, l \in 1..m : s[k] # r[l]
    BY <1>7, <1>11 DEF ToSet
  <2>3. (i \in 1..n /\ j \in 1..n) \/ (i - n \in 1..m /\ j - n \in 1..m)
    BY <1>6, <2>2
  <2>4. CASE i \in 1..n /\ j \in 1..n
    BY <1>4, <1>7, <1>11, <2>4 DEF Distinct
  <2>5. CASE i - n \in 1..m /\ j - n \in 1..m
    <3>1. r[i - n] = t[i] /\ r[j - n] = t[j]
      BY <1>3, <1>6, <1>7, <2>1, <2>5
    <3>2. i - n = j - n
      BY <1>7, <1>11, <2>5, <3>1 DEF Distinct
    <3>3. QED
      BY <1>7, <2>1, <3>2
  <2>6. QED
    BY <2>3, <2>4, <2>5
<1>12. QED
  BY <1>7, <1>8, <1>9, <1>10, <1>11 DEF t

LEMMA DistinctCount ==
  ASSUME NEW S, NEW s \in Seq(S), Distinct(s)
  PROVE  Cardinality(ToSet(s)) = Len(s)
<1> DEFINE g == [i \in 1..Len(s) |-> s[i]]
<1>1. Len(s) \in Nat /\ DOMAIN s = 1..Len(s)
  OBVIOUS
<1>2. g \in Bijection(1..Len(s), ToSet(s))
  BY <1>1 DEF Bijection, Injection, Surjection, IsInjective, Distinct, ToSet
<1>3. ExistsBijection(1..Len(s), ToSet(s))
  BY <1>2 DEF ExistsBijection
<1>4. IsFiniteSet(1..Len(s)) /\ Cardinality(1..Len(s)) = Len(s)
  <2>1. 1 \in Int /\ Len(s) \in Int
    BY <1>1
  <2>2. Cardinality(1..Len(s)) = IF 1 > Len(s) THEN 0 ELSE Len(s) - 1 + 1
    BY <2>1, FS_Interval
  <2>3. IsFiniteSet(1..Len(s))
    BY <2>1, FS_Interval
  <2>4. QED
    BY <1>1, <2>2, <2>3
<1>5. QED
  BY <1>3, <1>4, FS_Bijection

-----------------------------------------------------------------------------
(***************************************************************************)
(* Commands.  A call is in one place at a time: on its way to a queue, in  *)
(* the queue of the worker that was picked for it, with this worker, or    *)
(* handed to the client, which is when its promise says "ok".              *)
(***************************************************************************)
QueuedInv ==
  \A w \in Workers :
    /\ Distinct(queue[w])
    /\ running[w] \notin ToSet(queue[w])
    /\ \A c \in Calls :
         c \in ToSet(queue[w]) \/ running[w] = c =>
           worker[c] = w /\ promise[c] = "unset" /\ call[c] \in {"waiting", "timed_out"}

\* The calls that were handed to the client.
Handed == ToSet(posted) \cup ToSet(enqueued) \cup ToSet(dropped)

HandedInv ==
  /\ Distinct(posted) /\ Distinct(enqueued) /\ Distinct(dropped)
  /\ ToSet(posted) \cap ToSet(enqueued) = {}
  /\ ToSet(posted) \cap ToSet(dropped) = {}
  /\ ToSet(enqueued) \cap ToSet(dropped) = {}
  /\ \A c \in Calls : c \in Handed <=> promise[c] = "ok"

\* A worker that submits has its command, and what waits while the connection
\* is down was lost with it.
LostInv ==
  /\ \A w \in submitting : running[w] \in Calls
  /\ ~connected => Accepted \subseteq lost
  /\ ToSet(dropped) \subseteq lost

AnswerInv ==
  \A c \in Calls :
    /\ call[c] = "ok" => promise[c] = "ok"
    /\ call[c] = "failed" => promise[c] = "failed"
    /\ call[c] \in {"new", "picked", "full"} => promise[c] = "unset"

Begun == {c \in Calls : call[c] # "new"}

DispatchInv ==
  /\ DispatchTypeOK
  /\ next_worker = Cardinality(Begun)
  /\ QueuedInv
  /\ HandedInv
  /\ AnswerInv

LEMMA WorkersAreNumbers ==
  /\ Workers \subseteq Nat
  /\ 0 \in Workers
  /\ \A n \in Nat : n % WorkerThreads \in Workers
<1>1. WorkerThreads \in Nat /\ WorkerThreads > 0
  BY DispatchAssumption
<1>2. \A n \in Nat : n % WorkerThreads \in 0..(WorkerThreads - 1)
  BY <1>1
<1>3. QED
  BY <1>1, <1>2 DEF Workers

LEMMA PhasesAre ==
  ToSet(Phases) = {"serving", "client_stopped", "io_stopped", "destroying"}
<1>1. DOMAIN Phases = {1, 2, 3, 4}
  BY DEF Phases
<1>2. /\ Phases[1] = "serving" /\ Phases[2] = "client_stopped"
      /\ Phases[3] = "io_stopped" /\ Phases[4] = "destroying"
  BY DEF Phases
<1>3. QED
  BY <1>1, <1>2 DEF ToSet

LEMMA DispatchStart == DispatchInit => DispatchInv
<1> SUFFICES ASSUME DispatchInit PROVE DispatchInv
  OBVIOUS
<1>1. Begun = {}
  BY DEF DispatchInit, Begun
<1>2. Cardinality(Begun) = 0 /\ Cardinality(Calls) \in Nat
  BY <1>1, FS_EmptySet, FS_CardinalityType, DispatchAssumption
<1>3. DispatchTypeOK
  <2>1. <<>> \in Seq(Calls) /\ Len(<<>>) = 0 /\ MaxQueuePerWorker \in Nat /\ 0 \in Workers
    BY DispatchAssumption, WorkersAreNumbers
  <2>2. phase \in ToSet(Phases)
    BY PhasesAre DEF DispatchInit
  <2>3. queue \in [Workers -> Seq(Calls)] /\ \A w \in Workers : Len(queue[w]) <= MaxQueuePerWorker
    BY <2>1 DEF DispatchInit
  <2>4. /\ next_worker \in 0..Cardinality(Calls)
        /\ call \in [Calls -> {"new", "picked", "waiting"} \cup Answers]
        /\ worker \in [Calls -> Workers]
        /\ promise \in [Calls -> {"unset", "ok", "failed"}]
        /\ running \in [Workers -> Calls \cup {Nobody}]
        /\ exited \subseteq Workers
    BY <1>2, <2>1 DEF DispatchInit
  <2>5. connected \in BOOLEAN /\ submitting \subseteq Workers /\ lost \subseteq Calls
    BY DEF DispatchInit
  <2>6. posted \in Seq(Calls) /\ enqueued \in Seq(Calls) /\ dropped \in Seq(Calls)
    BY <2>1 DEF DispatchInit
  <2>7. QED
    BY <2>2, <2>3, <2>4, <2>5, <2>6 DEF DispatchTypeOK
<1>4. QueuedInv
  BY SetOfNone, DispatchAssumption DEF DispatchInit, QueuedInv
<1>5. HandedInv
  BY SetOfNone DEF DispatchInit, HandedInv, Handed
<1>6. AnswerInv
  BY DEF DispatchInit, AnswerInv
<1>7. QED
  BY <1>1, <1>2, <1>3, <1>4, <1>5, <1>6 DEF DispatchInv, DispatchInit

\* What changes no call from or to "new" keeps the count.
LEMMA BegunStays ==
  ASSUME DispatchInv, next_worker' = next_worker,
         \A c \in Calls : call[c] = "new" <=> call'[c] = "new"
  PROVE  next_worker' = Cardinality(Begun')
<1>1. Begun' = Begun
  BY DEF Begun
<1>2. QED
  BY <1>1 DEF DispatchInv

LEMMA PickKeeps ==
  ASSUME DispatchInv, NEW c \in Calls, Pick(c)
  PROVE  DispatchInv'
<1> USE DEF DispatchInv
<1>1. /\ call[c] = "new" /\ call' = [call EXCEPT ![c] = "picked"]
      /\ worker' = [worker EXCEPT ![c] = next_worker % WorkerThreads]
      /\ next_worker' = next_worker + 1
      /\ UNCHANGED <<promise, workerVars, clientVars, phase>>
  BY DEF Pick
<1>2. call \in [Calls -> {"new", "picked", "waiting"} \cup Answers]
  BY DEF DispatchTypeOK
<1>3. Begun' = Begun \cup {c} /\ c \notin Begun
  BY <1>1, <1>2 DEF Begun
<1>4. /\ IsFiniteSet(Begun) /\ IsFiniteSet(Begun')
      /\ Cardinality(Begun') \in Nat /\ Cardinality(Begun') <= Cardinality(Calls)
      /\ Cardinality(Calls) \in Nat /\ Cardinality(Begun) \in Nat
  <2>1. IsFiniteSet(Calls) /\ Begun \in SUBSET Calls /\ Begun' \in SUBSET Calls
    BY DispatchAssumption DEF Begun
  <2>2. QED
    BY <2>1, FS_Subset, FS_CardinalityType
<1>5. Cardinality(Begun') = Cardinality(Begun) + 1
  <2>1. Cardinality(Begun \cup {c}) = Cardinality(Begun) + 1
    BY <1>3, <1>4, FS_AddElement
  <2>2. QED
    BY <1>3, <2>1
<1>6. next_worker' = Cardinality(Begun') /\ next_worker' \in 0..Cardinality(Calls)
  BY <1>1, <1>4, <1>5
<1>7. next_worker % WorkerThreads \in Workers
  BY <1>4, WorkersAreNumbers
<1>8. DispatchTypeOK'
  <2>1. /\ call' \in [Calls -> {"new", "picked", "waiting"} \cup Answers]
        /\ worker' \in [Calls -> Workers]
    BY <1>1, <1>2, <1>7 DEF DispatchTypeOK
  <2>2. QED
    BY <1>1, <1>6, <2>1 DEF DispatchTypeOK, workerVars, clientVars
<1>9. QueuedInv'
  <2>1. \A w \in Workers : c \notin ToSet(queue[w]) /\ running[w] # c
    BY <1>1 DEF QueuedInv
  <2>2. UNCHANGED <<queue, running, promise>>
    BY <1>1 DEF workerVars
  <2>3. \A d \in Calls : d # c => call'[d] = call[d] /\ worker'[d] = worker[d]
    BY <1>1, <1>2 DEF DispatchTypeOK
  <2>4. QED
    BY <2>1, <2>2, <2>3 DEF QueuedInv
<1>10. HandedInv'
  BY <1>1 DEF HandedInv, Handed, clientVars
<1>11. AnswerInv'
  BY <1>1, <1>2 DEF AnswerInv
<1>12. QED
  BY <1>6, <1>8, <1>9, <1>10, <1>11

LEMMA PushKeeps ==
  ASSUME DispatchInv, NEW c \in Calls, Push(c)
  PROVE  DispatchInv'
<1> USE DEF DispatchInv
<1> DEFINE v == worker[c]
<1>1. /\ call[c] = "picked" /\ ~QueueIsFull(v)
      /\ queue' = [queue EXCEPT ![v] = Append(@, c)]
      /\ call' = [call EXCEPT ![c] = "waiting"]
      /\ UNCHANGED <<next_worker, worker, promise, running, exited, clientVars, phase>>
  BY DEF Push
<1>2. /\ call \in [Calls -> {"new", "picked", "waiting"} \cup Answers]
      /\ v \in Workers /\ queue \in [Workers -> Seq(Calls)]
  BY DEF DispatchTypeOK
<1> HIDE DEF v
<1>3. queue[v] \in Seq(Calls)
  BY <1>2
<1>4. /\ \A w \in Workers : w # v => queue'[w] = queue[w]
      /\ queue'[v] = Append(queue[v], c)
  BY <1>1, <1>2
<1>5. promise[c] = "unset" /\ \A w \in Workers : c \notin ToSet(queue[w]) /\ running[w] # c
  BY <1>1 DEF AnswerInv, QueuedInv
<1>6. /\ queue'[v] \in Seq(Calls) /\ ToSet(queue'[v]) = ToSet(queue[v]) \cup {c}
      /\ Distinct(queue'[v])
  BY <1>2, <1>3, <1>4, <1>5, SetOfAppend DEF QueuedInv
<1>7. next_worker' = Cardinality(Begun')
  BY <1>1, <1>2, BegunStays
<1>8. DispatchTypeOK'
  <2>1. Len(queue'[v]) = Len(queue[v]) + 1 /\ Len(queue[v]) \in Nat
    BY <1>3, <1>4
  <2>2. Len(queue'[v]) <= MaxQueuePerWorker
    BY <1>1, <2>1, DispatchAssumption DEF QueueIsFull
  <2>3. \A w \in Workers : Len(queue'[w]) <= MaxQueuePerWorker
    BY <1>4, <2>2 DEF DispatchTypeOK
  <2>4. queue' \in [Workers -> Seq(Calls)]
    BY <1>1, <1>2, <1>4, <1>6
  <2>5. call' \in [Calls -> {"new", "picked", "waiting"} \cup Answers]
    BY <1>1, <1>2
  <2>6. QED
    BY <1>1, <2>3, <2>4, <2>5 DEF DispatchTypeOK, clientVars
<1>9. QueuedInv'
  <2> SUFFICES ASSUME NEW w \in Workers
               PROVE  /\ Distinct(queue'[w])
                      /\ running'[w] \notin ToSet(queue'[w])
                      /\ \A d \in Calls :
                           d \in ToSet(queue'[w]) \/ running'[w] = d =>
                             /\ worker'[d] = w /\ promise'[d] = "unset"
                             /\ call'[d] \in {"waiting", "timed_out"}
    BY DEF QueuedInv
  <2>1. UNCHANGED <<running, worker, promise>> /\ call'[c] = "waiting"
        /\ \A d \in Calls : d # c => call'[d] = call[d]
    BY <1>1, <1>2
  <2>2. CASE w = v
    <3>1. running'[v] \notin ToSet(queue'[v])
      BY <1>2, <1>5, <1>6, <2>1 DEF QueuedInv
    <3>2. ASSUME NEW d \in Calls, d \in ToSet(queue'[v]) \/ running'[v] = d
          PROVE  worker'[d] = v /\ promise'[d] = "unset" /\ call'[d] \in {"waiting", "timed_out"}
      <4>1. CASE d = c
        BY <1>5, <2>1, <4>1 DEF v
      <4>2. CASE d # c
        <5>1. d \in ToSet(queue[v]) \/ running[v] = d
          BY <1>6, <2>1, <3>2, <4>2
        <5>2. QED
          BY <1>2, <2>1, <4>2, <5>1 DEF QueuedInv
      <4>3. QED
        BY <4>1, <4>2
    <3>3. QED
      BY <1>6, <2>2, <3>1, <3>2
  <2>3. CASE w # v
    BY <1>4, <1>5, <2>1, <2>3 DEF QueuedInv
  <2>4. QED
    BY <2>2, <2>3
<1>10. HandedInv'
  BY <1>1 DEF HandedInv, Handed, clientVars
<1>11. AnswerInv'
  BY <1>1, <1>2 DEF AnswerInv
<1>12. QED
  BY <1>7, <1>8, <1>9, <1>10, <1>11

LEMMA AnswerKeeps ==
  ASSUME DispatchInv, NEW c \in Calls, Refuse(c) \/ Return(c)
  PROVE  DispatchInv'
<1> USE DEF DispatchInv
<1>1. /\ call \in [Calls -> {"new", "picked", "waiting"} \cup Answers]
      /\ promise \in [Calls -> {"unset", "ok", "failed"}]
  BY DEF DispatchTypeOK
<1>2. /\ call' = [call EXCEPT ![c] = call'[c]]
      /\ \/ call[c] = "picked" /\ call'[c] = "full"
         \/ /\ call[c] = "waiting"
            /\ call'[c] = IF promise[c] = "unset" THEN "timed_out" ELSE promise[c]
      /\ UNCHANGED <<next_worker, worker, promise, workerVars, clientVars, phase>>
  BY <1>1 DEF Refuse, Return
<1>3. /\ \A d \in Calls : d # c => call'[d] = call[d]
      /\ call[c] # "new" /\ call'[c] \in Answers
  BY <1>1, <1>2 DEF Answers
<1>4. next_worker' = Cardinality(Begun')
  <2>1. \A d \in Calls : call[d] = "new" <=> call'[d] = "new"
    BY <1>3 DEF Answers
  <2>2. QED
    BY <1>2, <2>1, BegunStays
<1>5. DispatchTypeOK'
  <2>1. call' \in [Calls -> {"new", "picked", "waiting"} \cup Answers]
    <3>1. \A d \in Calls : call'[d] \in {"new", "picked", "waiting"} \cup Answers
      BY <1>1, <1>3
    <3>2. call' = [d \in Calls |-> call'[d]]
      <4>1. [call EXCEPT ![c] = call'[c]] = [d \in Calls |-> IF d = c THEN call'[c] ELSE call[d]]
        BY <1>1
      <4>2. QED
        BY <1>2, <1>3, <4>1
    <3>3. QED
      BY <3>1, <3>2
  <2>2. QED
    BY <1>2, <2>1 DEF DispatchTypeOK, workerVars, clientVars
<1>6. QueuedInv'
  <2>1. UNCHANGED <<queue, running, worker, promise>>
    BY <1>2 DEF workerVars
  <2>2. \A d \in Calls : call[d] \in {"waiting", "timed_out"} /\ promise[d] = "unset" =>
                           call'[d] \in {"waiting", "timed_out"}
    BY <1>2, <1>3
  <2>3. QED
    BY <2>1, <2>2 DEF QueuedInv
<1>7. HandedInv'
  BY <1>2 DEF HandedInv, Handed, clientVars
<1>8. AnswerInv'
  <2>1. UNCHANGED promise
    BY <1>2
  <2>2. QED
    BY <1>1, <1>2, <1>3, <2>1 DEF AnswerInv
<1>9. QED
  BY <1>4, <1>5, <1>6, <1>7, <1>8

LEMMA RunPostedKeeps ==
  ASSUME DispatchInv, NEW i, RunPosted(i)
  PROVE  DispatchInv'
<1> USE DEF DispatchInv
<1> DEFINE c == posted[i]
           left == RemoveAt(posted, i)
<1>1. /\ posted' = left
      /\ IF connected THEN enqueued' = Append(enqueued, c) /\ UNCHANGED dropped
                      ELSE dropped' = Append(dropped, c) /\ UNCHANGED enqueued
      /\ UNCHANGED <<next_worker, call, worker, promise, workerVars, connected,
                     submitting, lost, phase>>
  BY DEF RunPosted
<1>2. posted \in Seq(Calls) /\ enqueued \in Seq(Calls) /\ dropped \in Seq(Calls)
  BY DEF DispatchTypeOK
<1>3. i \in 1..Len(posted)
  <2>1. i \in DOMAIN posted
    BY DEF RunPosted
  <2>2. QED
    BY <1>2, <2>1
<1>4. /\ c \in Calls /\ left \in Seq(Calls)
      /\ ToSet(posted) = ToSet(left) \cup {c}
      /\ Distinct(left) /\ c \notin ToSet(left)
  BY <1>2, <1>3, SetOfRemoveAt DEF HandedInv
<1>5. c \notin ToSet(enqueued) /\ c \notin ToSet(dropped)
  BY <1>4 DEF HandedInv
<1> HIDE DEF c, left
<1>6. next_worker' = Cardinality(Begun')
  BY <1>1, BegunStays
<1>7. /\ Append(enqueued, c) \in Seq(Calls) /\ Append(dropped, c) \in Seq(Calls)
      /\ ToSet(Append(enqueued, c)) = ToSet(enqueued) \cup {c} /\ Distinct(Append(enqueued, c))
      /\ ToSet(Append(dropped, c)) = ToSet(dropped) \cup {c} /\ Distinct(Append(dropped, c))
  BY <1>2, <1>4, <1>5, SetOfAppend DEF HandedInv
<1>8. DispatchTypeOK'
  <2>1. posted' \in Seq(Calls) /\ enqueued' \in Seq(Calls) /\ dropped' \in Seq(Calls)
    BY <1>1, <1>2, <1>4, <1>7
  <2>2. QED
    BY <1>1, <2>1 DEF DispatchTypeOK, workerVars
<1>9. QueuedInv'
  BY <1>1 DEF QueuedInv, workerVars
<1>10. HandedInv'
  <2>1. ToSet(posted') = ToSet(left) /\ Distinct(posted')
    BY <1>1, <1>4
  <2>2. CASE connected
    <3>1. /\ ToSet(enqueued') = ToSet(enqueued) \cup {c} /\ Distinct(enqueued')
          /\ ToSet(dropped') = ToSet(dropped) /\ Distinct(dropped')
      BY <1>1, <1>7, <2>2 DEF HandedInv
    <3>2. Handed' = Handed
      BY <1>4, <2>1, <3>1 DEF Handed
    <3>3. UNCHANGED promise
      BY <1>1
    <3>4. QED
      BY <1>4, <1>5, <2>1, <3>1, <3>2, <3>3 DEF HandedInv
  <2>3. CASE ~connected
    <3>1. /\ ToSet(dropped') = ToSet(dropped) \cup {c} /\ Distinct(dropped')
          /\ ToSet(enqueued') = ToSet(enqueued) /\ Distinct(enqueued')
      BY <1>1, <1>7, <2>3 DEF HandedInv
    <3>2. Handed' = Handed
      BY <1>4, <2>1, <3>1 DEF Handed
    <3>3. UNCHANGED promise
      BY <1>1
    <3>4. QED
      BY <1>4, <1>5, <2>1, <3>1, <3>2, <3>3 DEF HandedInv
  <2>4. QED
    BY <2>2, <2>3
<1>11. AnswerInv'
  BY <1>1 DEF AnswerInv
<1>12. QED
  BY <1>6, <1>8, <1>9, <1>10, <1>11

LEMMA TakeKeeps ==
  ASSUME DispatchInv, NEW w \in Workers, Take(w)
  PROVE  DispatchInv'
<1> USE DEF DispatchInv
<1> DEFINE c == Head(queue[w])
<1>1. /\ running[w] = Nobody /\ queue[w] # <<>>
      /\ running' = [running EXCEPT ![w] = c]
      /\ queue' = [queue EXCEPT ![w] = Tail(@)]
      /\ UNCHANGED <<next_worker, call, worker, promise, exited, clientVars, phase>>
  BY DEF Take
<1>2. /\ queue \in [Workers -> Seq(Calls)] /\ queue[w] \in Seq(Calls)
      /\ running \in [Workers -> Calls \cup {Nobody}]
      /\ Len(queue[w]) <= MaxQueuePerWorker /\ Distinct(queue[w])
  BY DEF DispatchTypeOK, QueuedInv
<1>3. /\ c \in Calls /\ c \in ToSet(queue[w])
      /\ Tail(queue[w]) \in Seq(Calls) /\ Len(Tail(queue[w])) = Len(queue[w]) - 1
      /\ Distinct(Tail(queue[w]))
      /\ ToSet(Tail(queue[w])) = ToSet(queue[w]) \ {c}
  <2> DEFINE s == queue[w]
             t == Tail(s)
             n == Len(s)
  <2>1. /\ s \in Seq(Calls) /\ s # <<>> /\ n \in Nat /\ n >= 1 /\ DOMAIN s = 1..n
    BY <1>1, <1>2, EmptySeq
  <2>2. /\ c = s[1] /\ c \in Calls /\ t \in Seq(Calls) /\ Len(t) = n - 1
        /\ \A i \in 1..(n - 1) : t[i] = s[i + 1]
    BY <2>1
  <2>3. DOMAIN t = 1..(n - 1)
    BY <2>2
  <2>4. Distinct(s)
    BY <1>2
  <2> HIDE DEF s, t, n, c
  <2>5. 1 \in 1..n /\ \A i \in 1..(n - 1) : i + 1 \in 1..n /\ i + 1 # 1
    BY <2>1
  <2>6. \A i \in 1..n : i # 1 => i - 1 \in 1..(n - 1) /\ (i - 1) + 1 = i
    BY <2>1
  <2>7. c \in ToSet(s)
    BY <2>1, <2>2, <2>5 DEF ToSet
  <2>8. ToSet(t) \subseteq ToSet(s) \ {c}
    BY <2>1, <2>2, <2>3, <2>4, <2>5 DEF ToSet, Distinct
  <2>9. ASSUME NEW i \in 1..n, s[i] # c PROVE s[i] \in ToSet(t)
    <3>1. i - 1 \in 1..(n - 1) /\ (i - 1) + 1 = i
      BY <2>2, <2>6, <2>9
    <3>2. t[i - 1] = s[i]
      BY <2>2, <3>1
    <3>3. QED
      BY <2>3, <3>1, <3>2 DEF ToSet
  <2>10. ToSet(t) = ToSet(s) \ {c}
    BY <2>1, <2>8, <2>9 DEF ToSet
  <2>11. Distinct(t)
    <3> SUFFICES ASSUME NEW i \in 1..(n - 1), NEW j \in 1..(n - 1), t[i] = t[j]
                 PROVE  i = j
      BY <2>3 DEF Distinct
    <3>1. i + 1 = j + 1
      BY <2>1, <2>2, <2>4, <2>5 DEF Distinct
    <3>2. QED
      BY <3>1
  <2>12. QED
    BY <2>2, <2>7, <2>10, <2>11 DEF s, t, n
<1> HIDE DEF c
<1>4. next_worker' = Cardinality(Begun')
  BY <1>1, BegunStays
<1>5. /\ running'[w] = c /\ queue'[w] = Tail(queue[w])
      /\ \A x \in Workers : x # w => running'[x] = running[x] /\ queue'[x] = queue[x]
  BY <1>1, <1>2
<1>6. DispatchTypeOK'
  <2>1. queue' \in [Workers -> Seq(Calls)] /\ running' \in [Workers -> Calls \cup {Nobody}]
    BY <1>1, <1>2, <1>3
  <2>2. Len(queue'[w]) <= MaxQueuePerWorker
    <3>1. Len(queue[w]) \in Nat /\ MaxQueuePerWorker \in Nat
      BY <1>2, DispatchAssumption
    <3>2. QED
      BY <1>2, <1>3, <1>5, <3>1
  <2>3. \A x \in Workers : Len(queue'[x]) <= MaxQueuePerWorker
    BY <1>5, <2>2 DEF DispatchTypeOK
  <2>4. QED
    BY <1>1, <2>1, <2>3 DEF DispatchTypeOK, clientVars
<1>7. QueuedInv'
  <2> SUFFICES ASSUME NEW x \in Workers
               PROVE  /\ Distinct(queue'[x])
                      /\ running'[x] \notin ToSet(queue'[x])
                      /\ \A d \in Calls :
                           d \in ToSet(queue'[x]) \/ running'[x] = d =>
                             /\ worker'[d] = x /\ promise'[d] = "unset"
                             /\ call'[d] \in {"waiting", "timed_out"}
    BY DEF QueuedInv
  <2>1. UNCHANGED <<worker, promise, call>>
    BY <1>1
  <2>2. CASE x = w
    <3>1. \A d \in Calls : d \in ToSet(queue'[w]) \/ running'[w] = d => d \in ToSet(queue[w])
      BY <1>3, <1>5
    <3>2. QED
      BY <1>3, <1>5, <2>1, <2>2, <3>1 DEF QueuedInv
  <2>3. CASE x # w
    BY <1>5, <2>1, <2>3 DEF QueuedInv
  <2>4. QED
    BY <2>2, <2>3
<1>8. HandedInv'
  BY <1>1 DEF HandedInv, Handed, clientVars
<1>9. AnswerInv'
  BY <1>1 DEF AnswerInv
<1>10. QED
  BY <1>4, <1>6, <1>7, <1>8, <1>9

LEMMA FinishKeeps ==
  ASSUME DispatchInv, LostInv, NEW w \in Workers, Submit(w) \/ FailSubmit(w)
  PROVE  DispatchInv'
<1> USE DEF DispatchInv
<1> DEFINE c == running[w]
           submits == w \in submitting
<1>1. /\ c # Nobody
      /\ running' = [running EXCEPT ![w] = Nobody]
      /\ promise' = [promise EXCEPT ![c] = IF submits THEN "ok" ELSE "failed"]
      /\ posted' = IF submits THEN Append(posted, c) ELSE posted
      /\ UNCHANGED <<next_worker, call, worker, queue, exited, connected, enqueued,
                     dropped, lost, phase>>
      /\ submitting' \subseteq submitting
  BY DispatchAssumption DEF Submit, FailSubmit, clientVars, LostInv
<1>2. /\ running \in [Workers -> Calls \cup {Nobody}] /\ c \in Calls
      /\ promise \in [Calls -> {"unset", "ok", "failed"}]
      /\ posted \in Seq(Calls)
  BY <1>1 DEF DispatchTypeOK
<1>3. /\ worker[c] = w /\ promise[c] = "unset" /\ call[c] \in {"waiting", "timed_out"}
      /\ c \notin ToSet(queue[w])
  BY <1>2 DEF QueuedInv
<1>4. c \notin Handed
  BY <1>2, <1>3 DEF HandedInv
<1>5. \A x \in Workers : x # w => c \notin ToSet(queue[x]) /\ running[x] # c
  BY <1>2, <1>3 DEF QueuedInv
<1> HIDE DEF c, submits
<1>6. /\ running'[w] = Nobody /\ \A x \in Workers : x # w => running'[x] = running[x]
      /\ promise'[c] = (IF submits THEN "ok" ELSE "failed")
      /\ \A d \in Calls : d # c => promise'[d] = promise[d]
  BY <1>1, <1>2
<1>7. next_worker' = Cardinality(Begun')
  BY <1>1, BegunStays
<1>8. /\ Append(posted, c) \in Seq(Calls)
      /\ ToSet(Append(posted, c)) = ToSet(posted) \cup {c} /\ Distinct(Append(posted, c))
  BY <1>2, <1>4, SetOfAppend DEF HandedInv, Handed
<1>9. DispatchTypeOK'
  <2>1. /\ running' \in [Workers -> Calls \cup {Nobody}]
        /\ promise' \in [Calls -> {"unset", "ok", "failed"}]
        /\ posted' \in Seq(Calls)
    BY <1>1, <1>2, <1>8
  <2>2. QED
    BY <1>1, <2>1 DEF DispatchTypeOK
<1>10. QueuedInv'
  <2> SUFFICES ASSUME NEW x \in Workers
               PROVE  /\ Distinct(queue'[x])
                      /\ running'[x] \notin ToSet(queue'[x])
                      /\ \A d \in Calls :
                           d \in ToSet(queue'[x]) \/ running'[x] = d =>
                             /\ worker'[d] = x /\ promise'[d] = "unset"
                             /\ call'[d] \in {"waiting", "timed_out"}
    BY DEF QueuedInv
  <2>1. UNCHANGED <<worker, call, queue>>
    BY <1>1
  <2>2. CASE x = w
    <3>1. Nobody \notin ToSet(queue[w])
      <4>1. \A i \in DOMAIN queue[w] : queue[w][i] \in Calls
        BY DEF DispatchTypeOK
      <4>2. QED
        BY <4>1, DispatchAssumption DEF ToSet
    <3>2. \A d \in Calls : d \in ToSet(queue'[w]) \/ running'[w] = d =>
                             d \in ToSet(queue[w]) /\ d # c
      BY <1>3, <1>6, <2>1, DispatchAssumption
    <3>3. QED
      BY <1>6, <2>1, <2>2, <3>1, <3>2 DEF QueuedInv
  <2>3. CASE x # w
    <3>1. running'[x] = running[x] /\ c \notin ToSet(queue[x]) /\ running[x] # c
      BY <1>5, <1>6, <2>3
    <3>2. QED
      BY <1>6, <2>1, <3>1 DEF QueuedInv
  <2>4. QED
    BY <2>2, <2>3
<1>11. HandedInv'
  <2>1. UNCHANGED <<enqueued, dropped>>
    BY <1>1
  <2>2. CASE submits
    <3>1. ToSet(posted') = ToSet(posted) \cup {c} /\ Distinct(posted')
      BY <1>1, <1>8, <2>2
    <3>2. Handed' = Handed \cup {c}
      BY <2>1, <3>1 DEF Handed
    <3>3. \A d \in Calls : d \in Handed' <=> promise'[d] = "ok"
      BY <1>4, <1>6, <2>2, <3>2 DEF HandedInv
    <3>4. QED
      BY <1>4, <2>1, <3>1, <3>3 DEF HandedInv, Handed
  <2>3. CASE ~submits
    <3>1. UNCHANGED posted
      BY <1>1, <2>3
    <3>2. Handed' = Handed
      BY <2>1, <3>1 DEF Handed
    <3>3. \A d \in Calls : d \in Handed' <=> promise'[d] = "ok"
      BY <1>4, <1>6, <2>3, <3>2 DEF HandedInv
    <3>4. QED
      BY <2>1, <3>1, <3>3 DEF HandedInv
  <2>4. QED
    BY <2>2, <2>3
<1>12. AnswerInv'
  BY <1>1, <1>3, <1>6 DEF AnswerInv
<1>13. QED
  BY <1>7, <1>9, <1>10, <1>11, <1>12

LEMMA OthersKeep ==
  ASSUME DispatchInv, LostInv,
         \/ ConnectionChanges
         \/ Shutdown
         \/ \E w \in Workers : Exit(w) \/ CheckConnection(w)
         \/ UNCHANGED dispatchVars
  PROVE  DispatchInv'
<1> USE DEF DispatchInv
<1>1. /\ UNCHANGED <<next_worker, call, worker, promise, queue, running, posted, enqueued, dropped>>
      /\ exited' \subseteq Workers
      /\ connected' \in BOOLEAN
      /\ submitting' \subseteq Workers /\ lost' \subseteq Calls
      /\ phase' \in ToSet(Phases)
  <2>0. lost \cup Accepted \subseteq Calls
    <3>1. ToSet(posted) \subseteq Calls
      BY DEF ToSet, DispatchTypeOK
    <3>2. QED
      BY <3>1 DEF DispatchTypeOK, LostInv, Accepted
  <2>1. CASE ConnectionChanges
    BY <2>0, <2>1 DEF ConnectionChanges, SetConnected, workerVars, DispatchTypeOK
  <2>2. CASE Shutdown
    <3>1. \E p \in 1..3 : phase' = Phases[p + 1]
      BY <2>2 DEF Shutdown
    <3>2. \A p \in 1..3 : p + 1 \in DOMAIN Phases
      BY DEF Phases
    <3>3. phase' \in ToSet(Phases)
      BY <3>1, <3>2 DEF ToSet
    <3>4. QED
      BY <2>0, <2>2, <3>3 DEF Shutdown, SetConnected, workerVars, DispatchTypeOK
  <2>3. CASE \E w \in Workers : Exit(w) \/ CheckConnection(w)
    BY <2>3 DEF Exit, CheckConnection, workerVars, clientVars, DispatchTypeOK
  <2>4. CASE UNCHANGED dispatchVars
    BY <2>4 DEF dispatchVars, workerVars, clientVars, DispatchTypeOK
  <2>5. QED
    BY <2>1, <2>2, <2>3, <2>4
<1>2. next_worker' = Cardinality(Begun')
  BY <1>1, BegunStays
<1>3. DispatchTypeOK'
  BY <1>1 DEF DispatchTypeOK
<1>4. QueuedInv' /\ HandedInv' /\ AnswerInv'
  BY <1>1 DEF QueuedInv, HandedInv, Handed, AnswerInv
<1>5. QED
  BY <1>2, <1>3, <1>4

\* What is accepted moves from the worker to the posted handlers and on to the
\* connection; when that goes down all of it is lost.
LEMMA LostStep ==
  ASSUME DispatchInv, LostInv,
         \/ IoThreadStep \/ ConnectionChanges \/ Shutdown
         \/ \E c \in Calls : ExecuteStep(c)
         \/ \E w \in Workers : WorkerStep(w)
         \/ UNCHANGED dispatchVars
  PROVE  LostInv'
<1>0. /\ posted \in Seq(Calls) /\ dropped \in Seq(Calls)
      /\ running \in [Workers -> Calls \cup {Nobody}]
      /\ submitting \subseteq Workers
  BY DEF DispatchInv, DispatchTypeOK
<1>1. ASSUME UNCHANGED clientVars, \A w \in submitting : running'[w] = running[w]
      PROVE  LostInv'
  <2>1. Accepted' = Accepted
    BY <1>1 DEF Accepted, clientVars
  <2>2. QED
    BY <1>1, <2>1 DEF LostInv, clientVars
<1>2. CASE \E c \in Calls : Pick(c) \/ ExecuteStep(c)
  BY <1>1, <1>2 DEF Pick, ExecuteStep, Push, Refuse, Return, workerVars
<1>3. CASE \E w \in Workers : Take(w) \/ FailSubmit(w) \/ Exit(w)
  <2>1. PICK w \in Workers : Take(w) \/ FailSubmit(w) \/ Exit(w)
    BY <1>3
  <2>2. /\ UNCHANGED clientVars
        /\ \A x \in Workers : x # w => running'[x] = running[x]
        /\ w \in submitting => running'[w] = running[w]
    BY <1>0, <2>1, DispatchAssumption DEF Take, FailSubmit, Exit, LostInv
  <2>3. QED
    BY <1>0, <1>1, <2>2
<1>4. CASE \E i \in 1..IoThreads : RunPosted(i)
  <2>1. PICK i \in 1..IoThreads : RunPosted(i)
    BY <1>4
  <2>2. /\ i \in 1..Len(posted)
        /\ posted' = RemoveAt(posted, i)
        /\ connected => UNCHANGED dropped
        /\ ~connected => dropped' = Append(dropped, posted[i])
        /\ UNCHANGED <<running, connected, submitting, lost>>
    BY <1>0, <2>1 DEF RunPosted, workerVars
  <2>3. /\ ToSet(posted) = ToSet(posted') \cup {posted[i]}
        /\ posted[i] \in Calls
    BY <1>0, <2>2, SetOfRemoveAt DEF DispatchInv, HandedInv
  <2>4. Accepted' \subseteq Accepted /\ posted[i] \in Accepted
    BY <2>2, <2>3 DEF Accepted
  <2>5. CASE connected
    BY <2>2, <2>4, <2>5 DEF LostInv
  <2>6. CASE ~connected
    <3>1. ToSet(dropped') = ToSet(dropped) \cup {posted[i]}
      <4>1. ToSet(Append(dropped, posted[i])) = ToSet(dropped) \cup {posted[i]}
        BY <1>0, <2>3, SetOfAppend
      <4>2. QED
        BY <2>2, <2>6, <4>1
    <3>2. QED
      BY <2>2, <2>4, <2>6, <3>1 DEF LostInv
  <2>7. QED
    BY <2>5, <2>6
<1>5. CASE ConnectionChanges \/ Shutdown
  <2>1. /\ UNCHANGED <<running, submitting, posted, dropped>>
        /\ \E b \in BOOLEAN : SetConnected(b)
    BY <1>5 DEF ConnectionChanges, Shutdown, workerVars, DispatchInv, DispatchTypeOK
  <2>2. Accepted' = Accepted
    BY <2>1 DEF Accepted
  <2>3. QED
    BY <2>1, <2>2 DEF SetConnected, LostInv, DispatchInv, DispatchTypeOK
<1>6. CASE \E w \in Workers : CheckConnection(w)
  <2>1. PICK w \in Workers : CheckConnection(w)
    BY <1>6
  <2>2. /\ connected /\ running[w] \in Calls
        /\ submitting' = submitting \cup {w}
        /\ UNCHANGED <<running, connected, dropped, lost>>
    BY <1>0, <2>1 DEF CheckConnection, workerVars
  <2>3. QED
    BY <2>2 DEF LostInv
<1>7. CASE \E w \in Workers : Submit(w)
  <2>1. PICK w \in Workers : Submit(w)
    BY <1>7
  <2>2. /\ w \in submitting /\ submitting' = submitting \ {w}
        /\ \A x \in Workers : x # w => running'[x] = running[x]
        /\ posted' = Append(posted, running[w]) /\ running[w] \in Calls
        /\ UNCHANGED <<connected, dropped, lost>>
    BY <1>0, <2>1 DEF Submit, LostInv
  <2>3. ToSet(posted') = ToSet(posted) \cup {running[w]}
    BY <1>0, <2>2, SetOfAppend
  <2>4. Accepted' \subseteq Accepted
    <3>1. {running'[x] : x \in submitting'} \subseteq {running[x] : x \in submitting}
      BY <1>0, <2>2
    <3>2. QED
      BY <2>2, <2>3, <3>1 DEF Accepted
  <2>5. QED
    BY <1>0, <2>2, <2>4 DEF LostInv
<1>8. CASE UNCHANGED dispatchVars
  BY <1>1, <1>8 DEF dispatchVars, workerVars
<1>9. QED
  BY <1>2, <1>3, <1>4, <1>5, <1>6, <1>7, <1>8
     DEF IoThreadStep, WorkerStep

LEMMA DispatchStep ==
  ASSUME DispatchInv, LostInv, [FrontendNext]_frontendVars
  PROVE  DispatchInv' /\ LostInv'
<1>1. \/ IoThreadStep \/ ConnectionChanges \/ Shutdown
      \/ \E c \in Calls : ExecuteStep(c)
      \/ \E w \in Workers : WorkerStep(w)
      \/ UNCHANGED dispatchVars
  BY DEF FrontendNext, ServeCommands, ServeUpload, ShutDown, frontendVars
<1>2. QED
  BY <1>1, LostStep, PickKeeps, PushKeeps, AnswerKeeps, RunPostedKeeps, TakeKeeps,
     FinishKeeps, OthersKeep
     DEF IoThreadStep, ExecuteStep, WorkerStep

\* What the answer of a call says of its command.
LEMMA AnswersFollow == DispatchInv /\ LostInv => AnswersAreKept
<1> SUFFICES ASSUME DispatchInv, LostInv PROVE AnswersAreKept
  OBVIOUS
<1> DEFINE two == posted \o enqueued
           left == posted \o enqueued \o dropped
<1>1. posted \in Seq(Calls) /\ enqueued \in Seq(Calls) /\ dropped \in Seq(Calls)
  BY DEF DispatchInv, DispatchTypeOK
<1>2. /\ two \in Seq(Calls) /\ Distinct(two)
      /\ ToSet(two) = ToSet(posted) \cup ToSet(enqueued)
  BY <1>1, SetOfConcat DEF DispatchInv, HandedInv
<1>3. left = two \o dropped
  OBVIOUS
<1> HIDE DEF two, left
<1>4. ToSet(two) \cap ToSet(dropped) = {}
  BY <1>2 DEF DispatchInv, HandedInv
<1>5. left \in Seq(Calls) /\ Distinct(left) /\ ToSet(left) = Handed
  BY <1>1, <1>2, <1>3, <1>4, SetOfConcat DEF DispatchInv, HandedInv, Handed
<1>6. Cardinality(ToSet(left)) = Len(left)
  BY <1>5, DistinctCount
<1>7. \A c \in Calls :
        /\ call[c] = "ok" => c \in ToSet(left)
        /\ call[c] \in {"new", "picked", "full", "failed"} => c \notin ToSet(left)
  BY <1>5 DEF DispatchInv, HandedInv, AnswerInv
<1>8. QED
  BY <1>6, <1>7 DEF AnswersAreKept, left, LostInv

THEOREM DispatchInvariant == FrontendSpec => [](DispatchInv /\ LostInv)
<1>1. FrontendInit => DispatchInv /\ LostInv
  <2>1. DispatchInit => LostInv
    BY SetOfNone DEF DispatchInit, LostInv, Accepted
  <2>2. QED
    BY <2>1, DispatchStart DEF FrontendInit
<1>2. QED
  BY <1>1, DispatchStep, PTL DEF FrontendSpec

\* No command that was refused or that failed gets to the connection, none gets
\* there twice, and one that was accepted is dropped only if the connection
\* went down between submit_command's look at it and the posted handler's, for
\* any number of I/O threads and workers and whenever execute gives up.
THEOREM AnswersTheorem == FrontendSpec => []AnswersAreKept
  BY AnswersFollow, DispatchInvariant, PTL

-----------------------------------------------------------------------------
(***************************************************************************)
(* What BytesOf computes.  It takes the indices in an order that CHOOSE    *)
(* gives; the total of the sizes does not depend on it.                    *)
(***************************************************************************)

\* g gives every set of the first n files its bytes.
IsSum(g, r, n) ==
  /\ g \in [SUBSET (1..n) -> Nat]
  /\ g[{}] = 0
  /\ \A s \in SUBSET (1..n) : \A x \in s : g[s] = g[s \ {x}] + r[x].size

\* Mapping with the index that CHOOSE takes first.
IsFold(iter, r, T) ==
  iter = [s \in SUBSET T |->
            IF s = {} THEN 0
            ELSE r[CHOOSE x \in s : TRUE].size + iter[s \ {CHOOSE x \in s : TRUE}]]

LEMMA SumExists ==
  ASSUME NEW r, NEW m \in Nat, \A i \in 1..m : r[i].size \in Nat
  PROVE  \E g : IsSum(g, r, m)
<1> DEFINE S == {n \in Nat : n <= m => \E g : IsSum(g, r, n)}
<1>1. 0 \in S
  <2> DEFINE g == [s \in SUBSET (1..0) |-> 0]
  <2>1. 1..0 = {}
    OBVIOUS
  <2>2. g \in [SUBSET (1..0) -> Nat] /\ g[{}] = 0
    OBVIOUS
  <2>3. IsSum(g, r, 0)
    BY <2>1, <2>2 DEF IsSum
  <2>4. QED
    BY <2>3
<1>2. ASSUME NEW n \in Nat, n \in S PROVE n + 1 \in S
  <2> SUFFICES ASSUME n + 1 <= m PROVE \E g : IsSum(g, r, n + 1)
    OBVIOUS
  <2>1. PICK g : IsSum(g, r, n)
    BY <1>2
  <2> DEFINE k == n + 1
             h == [s \in SUBSET (1..k) |->
                     IF k \in s THEN g[s \ {k}] + r[k].size ELSE g[s]]
  <2>2. /\ 1..n \subseteq 1..k /\ k \in 1..k /\ k \notin 1..n
        /\ \A s \in SUBSET (1..k) : s \ {k} \in SUBSET (1..n)
        /\ \A s \in SUBSET (1..k) : k \notin s => s \in SUBSET (1..n)
        /\ k \in 1..m
    OBVIOUS
  <2>3. r[k].size \in Nat
    BY <2>2
  <2> HIDE DEF k
  <2>4. \A s \in SUBSET (1..n) : g[s] \in Nat
    BY <2>1 DEF IsSum
  <2>5. h \in [SUBSET (1..k) -> Nat]
    <3>1. \A s \in SUBSET (1..k) :
            (IF k \in s THEN g[s \ {k}] + r[k].size ELSE g[s]) \in Nat
      BY <2>2, <2>3, <2>4
    <3>2. QED
      BY <3>1
  <2>6. h[{}] = 0
    BY <2>1 DEF IsSum
  <2>7. ASSUME NEW s \in SUBSET (1..k), NEW x \in s
        PROVE  h[s] = h[s \ {x}] + r[x].size
    <3>1. CASE k \notin s
      <4>1. s \in SUBSET (1..n) /\ k \notin s \ {x} /\ s \ {x} \in SUBSET (1..k)
        BY <2>2, <3>1
      <4>2. h[s] = g[s] /\ h[s \ {x}] = g[s \ {x}]
        BY <3>1, <4>1
      <4>3. QED
        BY <2>1, <4>1, <4>2 DEF IsSum
    <3>2. CASE x = k
      <4>1. s \ {x} \in SUBSET (1..k) /\ k \notin s \ {x} /\ k \in s
        BY <3>2
      <4>2. h[s] = g[s \ {k}] + r[k].size /\ h[s \ {x}] = g[s \ {k}]
        BY <3>2, <4>1
      <4>3. QED
        BY <3>2, <4>2
    <3>3. CASE k \in s /\ x # k
      <4> DEFINE t == s \ {k}
      <4>1. /\ t \in SUBSET (1..n) /\ x \in t /\ t \ {x} \in SUBSET (1..n)
            /\ (s \ {x}) \ {k} = t \ {x}
            /\ s \ {x} \in SUBSET (1..k) /\ k \in s \ {x} /\ x \in 1..m
        BY <2>2, <3>3
      <4>2. h[s] = g[t] + r[k].size /\ h[s \ {x}] = g[t \ {x}] + r[k].size
        BY <3>3, <4>1
      <4>3. g[t] = g[t \ {x}] + r[x].size /\ g[t \ {x}] \in Nat /\ r[x].size \in Nat
        BY <2>1, <2>4, <4>1 DEF IsSum
      <4>4. g[t] \in Nat
        BY <2>4, <4>1
      <4> HIDE DEF t, h
      <4>5. QED
        BY <2>3, <4>2, <4>3, <4>4
    <3>4. QED
      BY <3>1, <3>2, <3>3
  <2> HIDE DEF h
  <2>8. IsSum(h, r, k)
    BY <2>5, <2>6, <2>7 DEF IsSum
  <2>9. QED
    BY <2>8 DEF k
<1> HIDE DEF S
<1>3. \A n \in Nat : n \in S
  BY <1>1, <1>2, NatSetInduction
<1>4. QED
  BY <1>3 DEF S

LEMMA BytesAreSum ==
  ASSUME NEW r, NEW n \in Nat, NEW g, IsSum(g, r, n),
         \A i \in 1..n : r[i].size \in Nat, NEW T \in SUBSET (1..n)
  PROVE  BytesOf(r, T) = g[T]
<1> DEFINE it == CHOOSE iter : iter = [s \in SUBSET T |->
                   IF s = {} THEN 0
                   ELSE LET x == CHOOSE x \in s : TRUE IN r[x].size + iter[s \ {x}]]
<1>1. BytesOf(r, T) = it[T]
  BY Zenon DEF BytesOf, MapThenSumSet, MapThenFoldSet
<1>2. it = CHOOSE iter : IsFold(iter, r, T)
  BY Zenon DEF IsFold
<1> HIDE DEF it
<1>3. \E iter : IsFold(iter, r, T)
  <2> DEFINE h == [s \in SUBSET T |-> g[s]]
  <2>1. ASSUME NEW s \in SUBSET T, s # {}
        PROVE  h[s] = r[CHOOSE x \in s : TRUE].size + h[s \ {CHOOSE x \in s : TRUE}]
    <3> DEFINE x == CHOOSE x \in s : TRUE
    <3>1. x \in s
      BY <2>1
    <3> HIDE DEF x
    <3>2. s \in SUBSET (1..n) /\ s \ {x} \in SUBSET T /\ s \ {x} \in SUBSET (1..n) /\ x \in 1..n
      BY <3>1
    <3>3. g[s] = g[s \ {x}] + r[x].size /\ g[s \ {x}] \in Nat /\ r[x].size \in Nat
      BY <3>1, <3>2 DEF IsSum
    <3>4. g[s] = r[x].size + g[s \ {x}]
      BY <3>3
    <3>5. QED
      BY <3>2, <3>4 DEF x
  <2>2. h[{}] = 0
    BY DEF IsSum
  <2>3. h = [s \in SUBSET T |->
              IF s = {} THEN 0
              ELSE r[CHOOSE x \in s : TRUE].size + h[s \ {CHOOSE x \in s : TRUE}]]
    <3>1. \A s \in SUBSET T : h[s] = IF s = {} THEN 0
              ELSE r[CHOOSE x \in s : TRUE].size + h[s \ {CHOOSE x \in s : TRUE}]
      BY <2>1, <2>2
    <3>2. h = [s \in SUBSET T |-> h[s]]
      OBVIOUS
    <3> HIDE DEF h
    <3>3. QED
      BY <3>1, <3>2
  <2>4. IsFold(h, r, T)
    BY <2>3 DEF IsFold
  <2>5. QED
    BY <2>4
<1>4. IsFold(it, r, T)
  BY <1>2, <1>3
<1>5. IsFiniteSet(T)
  <2>1. IsFiniteSet(1..n)
    BY FS_Interval
  <2>2. QED
    BY <2>1, FS_Subset
<1> DEFINE S == {k \in Nat : \A s \in SUBSET T : Cardinality(s) = k => it[s] = g[s]}
<1>6. 0 \in S
  <2>1. ASSUME NEW s \in SUBSET T, Cardinality(s) = 0 PROVE it[s] = g[s]
    <3>1. s = {}
      BY <1>5, <2>1, FS_Subset, FS_EmptySet
    <3>2. it[{}] = 0 /\ g[{}] = 0
      BY <1>4 DEF IsFold, IsSum
    <3>3. QED
      BY <3>1, <3>2
  <2>2. QED
    BY <2>1
<1>7. ASSUME NEW k \in Nat, k \in S PROVE k + 1 \in S
  <2>1. ASSUME NEW s \in SUBSET T, Cardinality(s) = k + 1 PROVE it[s] = g[s]
    <3> DEFINE x == CHOOSE x \in s : TRUE
    <3>1. IsFiniteSet(s)
      BY <1>5, FS_Subset
    <3>2. s # {}
      <4>1. k + 1 # 0
        OBVIOUS
      <4>2. QED
        BY <2>1, <4>1, FS_EmptySet
    <3>3. x \in s
      BY <3>2
    <3>4. it[s] = r[x].size + it[s \ {x}]
      BY <1>4, <3>2 DEF IsFold
    <3> HIDE DEF x
    <3>5. s \ {x} \in SUBSET T /\ s \ {x} \in SUBSET (1..n) /\ s \in SUBSET (1..n) /\ x \in 1..n
      BY <3>3
    <3>6. Cardinality(s \ {x}) = k
      <4>1. Cardinality(s \ {x}) = Cardinality(s) - 1
        BY <3>1, <3>3, FS_RemoveElement
      <4>2. QED
        BY <2>1, <4>1
    <3>7. it[s \ {x}] = g[s \ {x}]
      BY <1>7, <3>5, <3>6
    <3>8. g[s] = g[s \ {x}] + r[x].size /\ g[s \ {x}] \in Nat /\ r[x].size \in Nat
      BY <3>3, <3>5 DEF IsSum
    <3>9. QED
      BY <3>4, <3>7, <3>8
  <2>2. QED
    BY <2>1
<1> HIDE DEF S
<1>8. \A k \in Nat : k \in S
  BY <1>6, <1>7, NatSetInduction
<1>9. Cardinality(T) \in Nat
  BY <1>5, FS_CardinalityType
<1>10. it[T] = g[T]
  BY <1>8, <1>9 DEF S
<1>11. QED
  BY <1>1, <1>10

LEMMA BytesOfAll ==
  ASSUME NEW r \in Seq(Files)
  PROVE  /\ BytesOf(r, {}) = 0
         /\ \A T \in SUBSET DOMAIN r : BytesOf(r, T) \in Nat
         /\ \A T \in SUBSET DOMAIN r : \A i \in T :
              /\ BytesOf(r, T) = BytesOf(r, T \ {i}) + r[i].size
              /\ r[i].size \in Nat
<1> DEFINE n == Len(r)
<1>1. n \in Nat /\ DOMAIN r = 1..n /\ \A i \in 1..n : r[i].size \in Nat
  <2>1. \A i \in 1..n : r[i] \in Files
    OBVIOUS
  <2>2. QED
    BY <2>1 DEF Files
<1> HIDE DEF n
<1>2. PICK g : IsSum(g, r, n)
  BY <1>1, SumExists
<1>3. \A T \in SUBSET (1..n) : BytesOf(r, T) = g[T]
  BY <1>1, <1>2, BytesAreSum
<1>4. BytesOf(r, {}) = 0
  BY <1>2, <1>3 DEF IsSum
<1>5. \A T \in SUBSET (1..n) : BytesOf(r, T) \in Nat
  BY <1>2, <1>3 DEF IsSum
<1>6. ASSUME NEW T \in SUBSET (1..n), NEW i \in T
      PROVE  BytesOf(r, T) = BytesOf(r, T \ {i}) + r[i].size /\ r[i].size \in Nat
  <2>1. T \ {i} \in SUBSET (1..n) /\ i \in 1..n
    OBVIOUS
  <2>2. QED
    BY <1>1, <1>2, <1>3, <2>1 DEF IsSum
<1>7. QED
  BY <1>1, <1>4, <1>5, <1>6

-----------------------------------------------------------------------------
(***************************************************************************)
(* Directory uploads.  A file that was claimed is with one thread, or was  *)
(* reported as failed, or is done; what is counted, what has been added to *)
(* the decoded bytes and what must be on the disk are the files beyond a   *)
(* point of the turn of their thread.                                      *)
(***************************************************************************)
Places == {"claim", "reserve", "directory", "open", "write", "close", "exited"}
Working == {"reserve", "directory", "open", "write", "close"}
Uncounted == {"reserve", "directory", "open", "write"}

Stored == [kind : {"file", "directory", "absent"}, content : Seq(0..Len(items))]

\* The types, but for the two counters whose bounds say what they count.
UploadTypes ==
  /\ upload \in {"new", "running", "answered", "refused"}
  /\ items \in Requests \cup {<<>>}
  /\ uploader \in [Uploaders -> Places]
  /\ item \in [Uploaders -> 0..Len(items)]
  /\ next_index \in Nat \ {0}
  /\ total_decoded_bytes \in Nat
  /\ failures \in Seq(DOMAIN items)
  /\ disk \in [Targets -> Stored]
  /\ disk_full \in BOOLEAN

Claimed == {i \in DOMAIN items : i < next_index}
Busy == {u \in Uploaders : uploader[u] \in Working}
Exited == {u \in Uploaders : uploader[u] = "exited"}
Held(places) == {item[u] : u \in {v \in Uploaders : uploader[v] \in places}}
Beyond(places) == (Claimed \ ToSet(failures)) \ Held(places)

NothingBegun ==
  upload = "new" =>
    /\ items = <<>> /\ next_index = 1 /\ failures = <<>> /\ success_count = 0
    /\ \A u \in Uploaders : uploader[u] = "claim" /\ item[u] = 0

TakenOnce ==
  /\ \A u \in Busy : item[u] \in Claimed /\ item[u] \notin ToSet(failures)
  /\ \A u, v \in Busy : item[u] = item[v] => u = v
  /\ ToSet(failures) \subseteq Claimed
  /\ Distinct(failures)

AllTaken ==
  /\ \A u \in Exited : next_index > Len(items)
  /\ next_index <= Len(items) + 1 + Cardinality(Exited)
  /\ upload = "answered" => Exited = Uploaders

Counted == success_count = Cardinality(Beyond(Uncounted))

BytesAreReserved ==
  /\ BytesOf(items, Beyond({"reserve"})) <= MaxTotalBytes
  /\ BytesOf(items, Beyond({"reserve"})) <= total_decoded_bytes

\* A file that is named once is empty while it is written and complete when its
\* stream is closed.
DiskFollows ==
  \A i \in DOMAIN items : IsUnique(i) =>
    /\ i \in Held({"write", "close"}) => disk[items[i].path] = File(<<>>)
    /\ i \in Beyond(Working) /\ ~disk_full =>
         disk[items[i].path] = File([b \in 1..items[i].size |-> i])

UploadInv ==
  /\ UploadTypes /\ NothingBegun
  /\ TakenOnce /\ AllTaken /\ Counted
  /\ BytesAreReserved /\ DiskFollows

LEMMA ItemsAre ==
  ASSUME items \in Requests \cup {<<>>}
  PROVE  /\ items \in Seq(Files) /\ Len(items) \in Nat /\ DOMAIN items = 1..Len(items)
         /\ \A i \in DOMAIN items : items[i].path \in Targets /\ items[i].size \in Nat
<1>1. items \in Seq(Files)
  <2>1. <<>> \in Seq(Files) /\ \A request \in Requests : request \in Seq(Files)
    BY UploadAssumption
  <2>2. QED
    BY <2>1
<1>2. Len(items) \in Nat /\ DOMAIN items = 1..Len(items)
  BY <1>1
<1>3. \A i \in DOMAIN items : items[i] \in Files
  BY <1>1, <1>2
<1>4. QED
  BY <1>1, <1>2, <1>3 DEF Files

LEMMA UploadStart == UploadInit => UploadInv
<1> SUFFICES ASSUME UploadInit PROVE UploadInv
  OBVIOUS
<1>1. /\ items = <<>> /\ Len(items) = 0 /\ DOMAIN items = {} /\ failures = <<>>
      /\ ToSet(failures) = {} /\ Distinct(failures)
  BY SetOfNone DEF UploadInit
<1>2. Busy = {} /\ Exited = {} /\ Claimed = {}
  BY <1>1 DEF UploadInit, Busy, Exited, Claimed, Working
<1>3. \A places : Beyond(places) = {}
  BY <1>2 DEF Beyond
<1>4. UploadTypes
  <2>1. \A target \in Targets : disk[target] \in Stored
    <3>1. <<>> \in Seq(0..Len(items))
      OBVIOUS
    <3>2. <<0, 0>> \in Seq(0..Len(items))
      BY <1>1
    <3>3. QED
      BY <3>1, <3>2 DEF UploadInit, Stored, File, Absent
  <2>2. disk \in [Targets -> Stored]
    BY <2>1 DEF UploadInit
  <2>3. item \in [Uploaders -> 0..Len(items)]
    BY <1>1 DEF UploadInit
  <2>4. failures \in Seq(DOMAIN items)
    BY <1>1
  <2>5. items \in Requests \cup {<<>>}
    BY <1>1, Zenon
  <2>6. uploader \in [Uploaders -> Places]
    BY DEF UploadInit, Places
  <2>7. /\ upload = "new" /\ next_index = 1 /\ total_decoded_bytes = 0
        /\ disk_full = FALSE
    BY Zenon DEF UploadInit
  <2>8. /\ upload \in {"new", "running", "answered", "refused"}
        /\ next_index \in Nat \ {0} /\ total_decoded_bytes \in Nat
    BY <2>7
  <2>9. disk_full \in BOOLEAN
    BY <2>7, Zenon
  <2>10. QED
    BY <2>2, <2>3, <2>4, <2>5, <2>6, <2>8, <2>9 DEF UploadTypes
<1>5. NothingBegun /\ TakenOnce
  BY <1>1, <1>2 DEF UploadInit, NothingBegun, TakenOnce
<1>6. AllTaken
  BY <1>1, <1>2, FS_EmptySet DEF UploadInit, AllTaken
<1>7. Counted
  BY <1>3, FS_EmptySet DEF UploadInit, Counted
<1>8. BytesAreReserved
  <2>1. BytesOf(items, {}) = 0
    BY <1>4, ItemsAre, BytesOfAll DEF UploadTypes
  <2>2. Beyond({"reserve"}) = {} /\ total_decoded_bytes = 0 /\ MaxTotalBytes >= 0
    BY <1>3, UploadAssumption DEF UploadInit
  <2>3. QED
    BY <2>1, <2>2 DEF BytesAreReserved
<1>9. DiskFollows
  BY <1>1 DEF DiskFollows
<1>10. QED
  BY <1>4, <1>5, <1>6, <1>7, <1>8, <1>9 DEF UploadInv

LEMMA BeginKeeps ==
  ASSUME UploadInv, NEW request \in Requests, BeginUpload(request)
  PROVE  UploadInv'
<1>1. /\ upload = "new" /\ upload' \in {"refused", "running"} /\ items' = request
      /\ UNCHANGED <<uploader, item, next_index, success_count, total_decoded_bytes,
                     failures, disk, disk_full>>
  BY DEF BeginUpload
<1>2. /\ items = <<>> /\ next_index = 1 /\ failures = <<>> /\ success_count = 0
      /\ \A u \in Uploaders : uploader[u] = "claim" /\ item[u] = 0
  BY <1>1 DEF UploadInv, NothingBegun
<1>3. /\ items' \in Seq(Files) /\ Len(items') \in Nat /\ DOMAIN items' = 1..Len(items')
  BY <1>1, UploadAssumption
<1>4. ToSet(failures') = {} /\ Distinct(failures')
  BY <1>1, <1>2, SetOfNone
<1>5. Busy' = {} /\ Exited' = {} /\ Claimed' = {}
  BY <1>1, <1>2, <1>3 DEF Busy, Exited, Claimed, Working
<1>6. /\ \A places : (Claimed' \ ToSet(failures')) \ Held(places)' = {}
      /\ \A places : places \subseteq Working => Held(places)' = {}
  BY <1>1, <1>2, <1>5 DEF Held, Working
<1>7. UploadTypes'
  <2>1. \A target \in Targets : disk[target] \in Stored'
    <3>1. Seq(0..Len(items)) \subseteq Seq(0..Len(items'))
      <4>1. 0..Len(items) \subseteq 0..Len(items')
        BY <1>2, <1>3
      <4>2. QED
        BY <4>1, SeqMonotonic
    <3>2. Stored \subseteq Stored'
      BY <3>1 DEF Stored
    <3>3. QED
      BY <3>2 DEF UploadInv, UploadTypes
  <2>2. disk' \in [Targets -> Stored']
    BY <1>1, <2>1 DEF UploadInv, UploadTypes
  <2>3. item' \in [Uploaders -> 0..Len(items')]
    BY <1>1, <1>2, <1>3 DEF UploadInv, UploadTypes
  <2>4. failures' \in Seq(DOMAIN items')
    BY <1>1, <1>2
  <2>5. QED
    BY <1>1, <2>2, <2>3, <2>4 DEF UploadInv, UploadTypes
<1>8. NothingBegun' /\ TakenOnce'
  BY <1>1, <1>4, <1>5 DEF NothingBegun, TakenOnce
<1>9. AllTaken'
  BY <1>1, <1>2, <1>3, <1>5, FS_EmptySet DEF AllTaken
<1>10. Counted'
  <2>1. Beyond(Uncounted)' = {}
    BY <1>6 DEF Beyond
  <2>2. QED
    BY <1>1, <1>2, <2>1, FS_EmptySet DEF Counted
<1>11. BytesAreReserved'
  <2>1. Beyond({"reserve"})' = {}
    BY <1>6 DEF Beyond
  <2>2. BytesOf(items', {}) = 0
    BY <1>3, BytesOfAll
  <2>3. total_decoded_bytes' \in Nat
    BY <1>1 DEF UploadInv, UploadTypes
  <2>4. BytesOf(items', Beyond({"reserve"})') = 0
    BY <2>1, <2>2
  <2>5. 0 <= MaxTotalBytes /\ 0 <= total_decoded_bytes'
    BY <2>3, UploadAssumption
  <2>6. QED
    BY <2>4, <2>5 DEF BytesAreReserved
<1>12. DiskFollows'
  <2>1. Beyond(Working)' = {} /\ Held({"write", "close"})' = {}
    BY <1>6 DEF Beyond, Working
  <2>2. QED
    BY <2>1 DEF DiskFollows
<1>13. QED
  BY <1>7, <1>8, <1>9, <1>10, <1>11, <1>12 DEF UploadInv

LEMMA AnswerUploadKeeps ==
  ASSUME UploadInv, AnswerUpload \/ UNCHANGED uploadVars
  PROVE  UploadInv'
<1>1. /\ UNCHANGED <<items, uploader, item, next_index, success_count,
                     total_decoded_bytes, failures, disk, disk_full>>
      /\ \/ upload' = "answered" /\ Exited = Uploaders
         \/ upload' = upload
  BY DEF AnswerUpload, uploadVars, Exited
<1>2. UploadTypes' /\ NothingBegun' /\ TakenOnce' /\ Counted' /\ BytesAreReserved'
  BY <1>1 DEF UploadInv, UploadTypes, Stored, NothingBegun, TakenOnce, Counted,
              BytesAreReserved, Beyond, Held, Claimed, Busy
<1>3. AllTaken'
  BY <1>1 DEF UploadInv, AllTaken, Exited
<1>4. DiskFollows'
  BY <1>1 DEF UploadInv, DiskFollows, Beyond, Held, Claimed, IsUnique
<1>5. QED
  BY <1>2, <1>3, <1>4 DEF UploadInv

(***************************************************************************)
(* The turn of a thread: it takes a file or finds none, reports a failure, *)
(* or gets on with the file it has.                                        *)
(***************************************************************************)
Takes(u) ==
  /\ uploader[u] = "claim" /\ next_index <= Len(items)
  /\ Goes(u, "reserve") /\ item' = [item EXCEPT ![u] = next_index]
  /\ next_index' = next_index + 1
  /\ UNCHANGED <<success_count, failures, total_decoded_bytes>>

FindsNone(u) ==
  /\ uploader[u] = "claim" /\ next_index > Len(items)
  /\ Goes(u, "exited")
  /\ next_index' = next_index + 1
  /\ UNCHANGED <<item, success_count, failures, total_decoded_bytes>>

Fails(u) ==
  /\ uploader[u] \in Uncounted
  /\ Fail(u)
  /\ UNCHANGED <<item, next_index, success_count>>
  /\ total_decoded_bytes' \in {total_decoded_bytes, total_decoded_bytes + Taken(u).size}

GetsOn(u) ==
  /\ \/ /\ uploader[u] = "reserve" /\ Goes(u, "directory")
        /\ total_decoded_bytes' = total_decoded_bytes + Taken(u).size
        /\ total_decoded_bytes' <= MaxTotalBytes
        /\ UNCHANGED success_count
     \/ /\ \/ uploader[u] = "directory" /\ Goes(u, "open")
           \/ uploader[u] = "open" /\ Goes(u, "write")
           \/ uploader[u] = "close" /\ Goes(u, "claim")
        /\ UNCHANGED <<success_count, total_decoded_bytes>>
     \/ /\ uploader[u] = "write" /\ Goes(u, "close")
        /\ success_count' = success_count + 1
        /\ UNCHANGED total_decoded_bytes
  /\ UNCHANGED <<item, next_index, failures>>

LEMMA TurnsAre ==
  ASSUME UploadInv, NEW u \in Uploaders, UploaderStep(u)
  PROVE  /\ upload = "running" /\ UNCHANGED <<upload, items>>
         /\ Takes(u) \/ FindsNone(u) \/ Fails(u) \/ GetsOn(u)
<1>1. upload = "running" /\ UNCHANGED <<upload, items>>
  BY DEF UploaderStep, Claim, DecodeFails, Reserve, CreateDirectory, OpenFile,
         WriteFails, Write, Close, At
<1>2. CASE Claim(u)
  <2>1. next_index \in Nat /\ Len(items) \in Nat
    BY ItemsAre DEF UploadInv, UploadTypes
  <2>2. CASE next_index > Len(items)
    BY <1>2, <2>2 DEF Claim, At, FindsNone
  <2>3. CASE ~(next_index > Len(items))
    <3>1. next_index <= Len(items)
      BY <2>1, <2>3
    <3>2. QED
      BY <1>1, <1>2, <2>3, <3>1 DEF Claim, At, Takes
  <2>4. QED
    BY <1>1, <2>2, <2>3
<1>3. CASE DecodeFails(u) \/ WriteFails(u)
  BY <1>1, <1>3 DEF DecodeFails, WriteFails, At, Fails, Uncounted
<1>4. CASE Reserve(u)
  <2>1. CASE total_decoded_bytes' > MaxTotalBytes \/ ~Taken(u).allowed
    BY <1>1, <1>4, <2>1 DEF Reserve, At, Fails, Uncounted
  <2>2. CASE ~(total_decoded_bytes' > MaxTotalBytes \/ ~Taken(u).allowed)
    <3>1. total_decoded_bytes' = total_decoded_bytes + Taken(u).size
      BY <1>4 DEF Reserve
    <3>2. total_decoded_bytes \in Nat /\ item[u] \in DOMAIN items
      BY <1>4 DEF Reserve, At, UploadInv, UploadTypes, TakenOnce, Busy, Working, Claimed
    <3>3. Taken(u).size \in Nat
      BY <3>2, ItemsAre DEF UploadInv, UploadTypes, Taken
    <3>4. total_decoded_bytes' <= MaxTotalBytes
      BY <2>2, <3>1, <3>2, <3>3, UploadAssumption
    <3>5. QED
      BY <1>1, <1>4, <2>2, <3>4 DEF Reserve, At, GetsOn
  <2>3. QED
    BY <2>1, <2>2
<1>5. CASE CreateDirectory(u)
  BY <1>1, <1>5 DEF CreateDirectory, At, Fails, GetsOn, Uncounted
<1>6. CASE OpenFile(u)
  BY <1>1, <1>6 DEF OpenFile, At, Fails, GetsOn, Uncounted
<1>7. CASE Write(u) \/ Close(u)
  BY <1>1, <1>7 DEF Write, Close, At, GetsOn
<1>8. QED
  BY <1>2, <1>3, <1>4, <1>5, <1>6, <1>7 DEF UploaderStep

\* The files that threads have at some places, when one thread moves.
LEMMA HeldMoves ==
  ASSUME UploadInv, NEW u \in Uploaders, NEW to, NEW places \in SUBSET Working,
         Goes(u, to), item' = item
  PROVE  /\ to \in places /\ uploader[u] \in places => Held(places)' = Held(places)
         /\ to \in places /\ uploader[u] \notin places =>
              Held(places)' = Held(places) \cup {item[u]}
         /\ to \notin places /\ uploader[u] \in places =>
              /\ Held(places)' = Held(places) \ {item[u]}
              /\ item[u] \in Held(places)
         /\ to \notin places /\ uploader[u] \notin places => Held(places)' = Held(places)
<1> DEFINE at == {v \in Uploaders : uploader[v] \in places}
<1>1. /\ at' = {v \in Uploaders : uploader'[v] \in places}
      /\ Held(places) = {item[v] : v \in at} /\ Held(places)' = {item[v] : v \in at'}
  BY DEF Held
<1>2. uploader'[u] = to /\ \A v \in Uploaders : v # u => uploader'[v] = uploader[v]
  BY DEF Goes, UploadInv, UploadTypes
<1>3. \A v \in at : \A w \in at : item[v] = item[w] => v = w
  BY DEF UploadInv, TakenOnce, Busy
<1>4. CASE to \in places /\ uploader[u] \in places
  <2>1. at' = at
    BY <1>1, <1>2, <1>4
  <2>2. QED
    BY <1>1, <1>4, <2>1
<1>5. CASE to \in places /\ uploader[u] \notin places
  <2>1. at' = at \cup {u}
    BY <1>1, <1>2, <1>5
  <2>2. QED
    BY <1>1, <1>5, <2>1
<1>6. CASE to \notin places /\ uploader[u] \in places
  <2>1. at' = at \ {u} /\ u \in at
    BY <1>1, <1>2, <1>6
  <2>2. QED
    BY <1>1, <1>3, <1>6, <2>1
<1>7. CASE to \notin places /\ uploader[u] \notin places
  <2>1. at' = at
    BY <1>1, <1>2, <1>7
  <2>2. QED
    BY <1>1, <1>7, <2>1
<1>8. QED
  BY <1>4, <1>5, <1>6, <1>7

\* What a turn of u may change for the files on the disk.
TurnOnDisk(u) ==
  /\ Beyond(Working)' \subseteq
       Beyond(Working) \cup {i \in {item[u]} : uploader[u] = "close"}
  /\ Held({"write", "close"})' \subseteq
       Held({"write", "close"}) \cup {i \in {item[u]} : uploader[u] = "open" /\ uploader'[u] = "write"}
  /\ uploader[u] = "close" => item[u] \notin Held({"write", "close"})'

AccountKept ==
  TakenOnce /\ AllTaken /\ Counted /\ BytesAreReserved

LEMMA SetsAreFinite ==
  ASSUME UploadInv, NEW places
  PROVE  /\ Beyond(places) \in SUBSET DOMAIN items
         /\ IsFiniteSet(Beyond(places)) /\ Cardinality(Beyond(places)) \in Nat
         /\ IsFiniteSet(Exited) /\ Cardinality(Exited) \in Nat
<1>1. Beyond(places) \in SUBSET DOMAIN items
  BY DEF Beyond, Claimed
<1>2. IsFiniteSet(DOMAIN items)
  <2>1. DOMAIN items = 1..Len(items) /\ Len(items) \in Int /\ 1 \in Int
    BY ItemsAre DEF UploadInv, UploadTypes
  <2>2. IsFiniteSet(1..Len(items))
    BY <2>1, FS_Interval
  <2>3. QED
    BY <2>1, <2>2
<1>3. IsFiniteSet(Exited)
  <2>1. Exited \in SUBSET Uploaders
    BY DEF Exited
  <2>2. QED
    BY <2>1, FS_Subset, UploadAssumption
<1>4. QED
  BY <1>1, <1>2, <1>3, FS_Subset, FS_CardinalityType

LEMMA TakesKeeps ==
  ASSUME UploadInv, NEW u \in Uploaders, Takes(u), upload = "running",
         UNCHANGED <<upload, items>>
  PROVE  AccountKept' /\ TurnOnDisk(u)
<1> DEFINE i == next_index
<1>1. /\ i \in Nat \ {0} /\ i \in DOMAIN items /\ Len(items) \in Nat
      /\ DOMAIN items = 1..Len(items)
      /\ uploader \in [Uploaders -> Places] /\ item \in [Uploaders -> 0..Len(items)]
      /\ next_index' = i + 1 /\ uploader[u] = "claim"
      /\ UNCHANGED <<success_count, failures, total_decoded_bytes>>
  BY ItemsAre DEF UploadInv, UploadTypes, Takes
<1>2. /\ uploader'[u] = "reserve" /\ item'[u] = i
      /\ \A v \in Uploaders : v # u => uploader'[v] = uploader[v] /\ item'[v] = item[v]
  BY <1>1 DEF Takes, Goes
<1>3. Claimed' = Claimed \cup {i} /\ i \notin Claimed
  BY <1>1 DEF Claimed
<1> HIDE DEF i
<1>4. /\ \A v \in Busy : item[v] \in Claimed /\ item[v] \notin ToSet(failures) /\ v # u
      /\ \A v, w \in Busy : item[v] = item[w] => v = w
      /\ ToSet(failures) \subseteq Claimed /\ Distinct(failures)
  BY <1>1 DEF UploadInv, TakenOnce, Busy, Working
<1>5. Busy' = Busy \cup {u} /\ Exited' = Exited
  BY <1>1, <1>2 DEF Busy, Exited, Working
<1>6. ASSUME NEW places \in SUBSET Working
      PROVE  Held(places)' = Held(places) \cup {j \in {i} : "reserve" \in places}
  <2> DEFINE at == {v \in Uploaders : uploader[v] \in places}
  <2>1. /\ at' = {v \in Uploaders : uploader'[v] \in places}
        /\ Held(places) = {item[v] : v \in at} /\ Held(places)' = {item'[v] : v \in at'}
    BY DEF Held
  <2>2. at' = at \cup {v \in {u} : "reserve" \in places} /\ u \notin at
    BY <1>1, <1>2 DEF Working
  <2> HIDE DEF at
  <2>3. at \subseteq Uploaders
    BY DEF at
  <2>4. QED
    BY <1>2, <2>1, <2>2, <2>3
<1>7. ASSUME NEW places \in SUBSET Working, "reserve" \in places
      PROVE  Beyond(places)' = Beyond(places)
  BY <1>1, <1>3, <1>4, <1>6, <1>7 DEF Beyond
<1>8. TakenOnce'
  BY <1>1, <1>2, <1>3, <1>4, <1>5 DEF TakenOnce, Busy
<1>9. AllTaken'
  <2>1. \A v \in Exited : next_index > Len(items)
    BY DEF UploadInv, AllTaken
  <2>2. Exited = {} /\ i <= Len(items)
    BY <1>1, <2>1 DEF i
  <2>3. QED
    BY <1>1, <1>5, <2>2, FS_EmptySet DEF AllTaken
<1>10. Counted'
  <2>1. Uncounted \in SUBSET Working /\ "reserve" \in Uncounted
    BY DEF Uncounted, Working
  <2>2. Beyond(Uncounted)' = Beyond(Uncounted)
    BY <1>7, <2>1
  <2>3. QED
    BY <1>1, <2>2 DEF UploadInv, Counted
<1>11. BytesAreReserved'
  <2>1. Beyond({"reserve"})' = Beyond({"reserve"})
    BY <1>7 DEF Working
  <2>2. QED
    BY <1>1, <2>1 DEF UploadInv, BytesAreReserved
<1>12. TurnOnDisk(u)
  <2>1. Beyond(Working)' = Beyond(Working)
    BY <1>7 DEF Working
  <2>2. Held({"write", "close"})' = Held({"write", "close"})
    BY <1>6 DEF Working
  <2>3. QED
    BY <1>1, <2>1, <2>2 DEF TurnOnDisk
<1>13. QED
  BY <1>8, <1>9, <1>10, <1>11, <1>12 DEF AccountKept

LEMMA FindsNoneKeeps ==
  ASSUME UploadInv, NEW u \in Uploaders, FindsNone(u), upload = "running",
         UNCHANGED <<upload, items>>
  PROVE  AccountKept' /\ TurnOnDisk(u)
<1>1. /\ next_index \in Nat \ {0} /\ Len(items) \in Nat
      /\ DOMAIN items = 1..Len(items)
      /\ uploader \in [Uploaders -> Places]
      /\ next_index' = next_index + 1 /\ uploader[u] = "claim" /\ next_index > Len(items)
      /\ UNCHANGED <<item, success_count, failures, total_decoded_bytes>>
  BY ItemsAre DEF UploadInv, UploadTypes, FindsNone
<1>2. /\ Goes(u, "exited") /\ uploader'[u] = "exited"
      /\ \A v \in Uploaders : v # u => uploader'[v] = uploader[v]
  BY <1>1 DEF FindsNone, Goes
<1>3. Claimed' = Claimed
  BY <1>1 DEF Claimed
<1>4. Busy' = Busy /\ Exited' = Exited \cup {u} /\ u \notin Exited
  BY <1>1, <1>2 DEF Busy, Exited, Working
<1>5. ASSUME NEW places \in SUBSET Working
      PROVE  Held(places)' = Held(places) /\ Beyond(places)' = Beyond(places)
  <2>1. "exited" \notin places /\ uploader[u] \notin places
    BY <1>1 DEF Working
  <2>2. Held(places)' = Held(places)
    BY <1>1, <1>2, <2>1, HeldMoves
  <2>3. QED
    BY <1>1, <1>3, <2>2 DEF Beyond
<1>6. TakenOnce'
  BY <1>1, <1>3, <1>4 DEF UploadInv, TakenOnce
<1>7. AllTaken'
  <2>1. Cardinality(Exited') = Cardinality(Exited) + 1 /\ Cardinality(Exited) \in Nat
    <3>1. IsFiniteSet(Exited) /\ Cardinality(Exited) \in Nat
      BY SetsAreFinite
    <3>2. Cardinality(Exited \cup {u}) = Cardinality(Exited) + 1
      BY <1>4, <3>1, FS_AddElement
    <3>3. QED
      BY <1>4, <3>1, <3>2
  <2>2. next_index <= Len(items) + 1 + Cardinality(Exited)
    BY DEF UploadInv, AllTaken
  <2>3. next_index' > Len(items) /\ next_index' <= Len(items) + 1 + Cardinality(Exited')
    BY <1>1, <2>1, <2>2
  <2>4. QED
    BY <2>3 DEF AllTaken
<1>8. Counted'
  BY <1>1, <1>5 DEF UploadInv, Counted, Uncounted, Working
<1>9. BytesAreReserved'
  <2>1. Beyond({"reserve"})' = Beyond({"reserve"})
    BY <1>5 DEF Working
  <2>2. QED
    BY <1>1, <2>1 DEF UploadInv, BytesAreReserved
<1>10. TurnOnDisk(u)
  BY <1>1, <1>5 DEF TurnOnDisk, Working
<1>11. QED
  BY <1>6, <1>7, <1>8, <1>9, <1>10 DEF AccountKept

LEMMA FailsKeeps ==
  ASSUME UploadInv, NEW u \in Uploaders, Fails(u), upload = "running",
         UNCHANGED <<upload, items>>
  PROVE  AccountKept' /\ TurnOnDisk(u)
<1> DEFINE i == item[u]
<1>1. /\ uploader[u] \in Uncounted /\ Goes(u, "claim")
      /\ failures' = Append(failures, i)
      /\ UNCHANGED <<items, item, next_index, success_count>>
      /\ uploader \in [Uploaders -> Places]
  BY DEF Fails, Fail, UploadInv, UploadTypes
<1>2. /\ uploader'[u] = "claim"
      /\ \A v \in Uploaders : v # u => uploader'[v] = uploader[v]
  BY <1>1 DEF Goes
<1>3. /\ u \in Busy /\ i \in Claimed /\ i \notin ToSet(failures)
      /\ \A v \in Busy : item[v] = i => v = u
      /\ ToSet(failures) \subseteq Claimed /\ Distinct(failures)
  BY <1>1 DEF UploadInv, TakenOnce, Busy, Working, Uncounted
<1>4. /\ ToSet(failures') = ToSet(failures) \cup {i} /\ Distinct(failures')
  <2>1. failures \in Seq(DOMAIN items) /\ i \in DOMAIN items
    BY <1>3 DEF UploadInv, UploadTypes, Claimed
  <2>2. QED
    BY <1>1, <1>3, <2>1, SetOfAppend
<1>5. Claimed' = Claimed /\ Busy' = Busy \ {u} /\ Exited' = Exited
  BY <1>1, <1>2 DEF Claimed, Busy, Exited, Working, Uncounted
<1>6. ASSUME NEW places \in SUBSET Working
      PROVE  /\ Held(places)' = Held(places) \ {j \in {i} : uploader[u] \in places}
             /\ uploader[u] \in places => i \in Held(places)
  <2>1. "claim" \notin places
    BY DEF Working
  <2>2. QED
    BY <1>1, <2>1, HeldMoves
<1>7. ASSUME NEW places \in SUBSET Working
      PROVE  Beyond(places)' = Beyond(places) \ {i}
  BY <1>4, <1>5, <1>6 DEF Beyond
<1>8. TakenOnce'
  BY <1>1, <1>3, <1>4, <1>5 DEF UploadInv, TakenOnce
<1>9. AllTaken'
  BY <1>1, <1>5 DEF UploadInv, AllTaken
<1>10. Counted'
  <2>1. Uncounted \in SUBSET Working
    BY DEF Uncounted, Working
  <2>2. i \in Held(Uncounted)
    BY <1>1, <1>6, <2>1
  <2>3. Beyond(Uncounted)' = Beyond(Uncounted)
    BY <1>7, <2>1, <2>2 DEF Beyond
  <2>4. QED
    BY <1>1, <2>3 DEF UploadInv, Counted
<1>11. BytesAreReserved'
  <2> DEFINE passed == Beyond({"reserve"})
  <2>1. Beyond({"reserve"})' = passed \ {i}
    BY <1>7 DEF Working
  <2>2. /\ items \in Seq(Files) /\ passed \in SUBSET DOMAIN items
        /\ passed \ {i} \in SUBSET DOMAIN items
    BY ItemsAre, SetsAreFinite DEF UploadInv, UploadTypes
  <2>3. BytesOf(items, passed) <= MaxTotalBytes /\ BytesOf(items, passed) <= total_decoded_bytes
    BY DEF UploadInv, BytesAreReserved
  <2> HIDE DEF passed
  <2>4. BytesOf(items, passed \ {i}) <= BytesOf(items, passed)
    <3>1. BytesOf(items, passed) \in Nat /\ BytesOf(items, passed \ {i}) \in Nat
      BY <2>2, BytesOfAll
    <3>2. CASE i \in passed
      <4>1. /\ BytesOf(items, passed) = BytesOf(items, passed \ {i}) + items[i].size
            /\ items[i].size \in Nat
        BY <2>2, <3>2, BytesOfAll
      <4>2. QED
        BY <3>1, <4>1
    <3>3. CASE i \notin passed
      <4>1. passed \ {i} = passed
        BY <3>3
      <4>2. QED
        BY <3>1, <4>1
    <3>4. QED
      BY <3>2, <3>3
  <2>5. /\ BytesOf(items, passed) \in Nat /\ BytesOf(items, passed \ {i}) \in Nat
        /\ total_decoded_bytes \in Nat /\ MaxTotalBytes \in Nat
    BY <2>2, BytesOfAll, UploadAssumption DEF UploadInv, UploadTypes
  <2>6. total_decoded_bytes' >= total_decoded_bytes /\ total_decoded_bytes' \in Nat
    <3>1. Taken(u).size \in Nat
      BY <1>3, ItemsAre DEF UploadInv, UploadTypes, Taken, Claimed
    <3>2. QED
      BY <2>5, <3>1 DEF Fails
  <2>7. BytesOf(items', Beyond({"reserve"})') = BytesOf(items, passed \ {i})
    BY <1>1, <2>1
  <2>8. /\ BytesOf(items', Beyond({"reserve"})') <= MaxTotalBytes
        /\ BytesOf(items', Beyond({"reserve"})') <= total_decoded_bytes'
    BY <2>3, <2>4, <2>5, <2>6, <2>7
  <2>9. QED
    BY <2>8 DEF BytesAreReserved
<1>12. TurnOnDisk(u)
  <2>1. Beyond(Working)' \subseteq Beyond(Working)
    BY <1>7
  <2>2. Held({"write", "close"})' \subseteq Held({"write", "close"})
    BY <1>6 DEF Working
  <2>3. QED
    BY <1>1, <2>1, <2>2 DEF TurnOnDisk, Uncounted
<1>13. QED
  BY <1>8, <1>9, <1>10, <1>11, <1>12 DEF AccountKept

LEMMA GetsOnKeeps ==
  ASSUME UploadInv, NEW u \in Uploaders, GetsOn(u), upload = "running",
         UNCHANGED <<upload, items>>
  PROVE  AccountKept' /\ TurnOnDisk(u)
<1> DEFINE i == item[u]
           to == uploader'[u]
<1>1. /\ uploader \in [Uploaders -> Places]
      /\ UNCHANGED <<items, item, next_index, failures>>
  BY DEF GetsOn, UploadInv, UploadTypes
<1>2. /\ Goes(u, to)
      /\ \/ uploader[u] = "reserve" /\ to = "directory"
         \/ uploader[u] = "directory" /\ to = "open"
         \/ uploader[u] = "open" /\ to = "write"
         \/ uploader[u] = "write" /\ to = "close"
         \/ uploader[u] = "close" /\ to = "claim"
      /\ uploader[u] \in Working
      /\ \A v \in Uploaders : v # u => uploader'[v] = uploader[v]
  BY <1>1 DEF GetsOn, Goes, Working
<1>3. /\ i \in Claimed /\ i \notin ToSet(failures)
      /\ Busy' \subseteq Busy /\ Exited' = Exited /\ Claimed' = Claimed
  <2>1. u \in Busy
    BY <1>2 DEF Busy
  <2>2. Busy' \subseteq Busy
    BY <1>1, <1>2, <2>1 DEF Busy, Working
  <2>3. Exited' = Exited
    BY <1>1, <1>2 DEF Exited, Working
  <2>4. QED
    BY <1>1, <2>1, <2>2, <2>3 DEF UploadInv, TakenOnce, Claimed
<1> HIDE DEF i, to
<1>4. ASSUME NEW places \in SUBSET Working
      PROVE  /\ to \in places /\ uploader[u] \notin places =>
                  Held(places)' = Held(places) \cup {i}
             /\ to \notin places /\ uploader[u] \in places =>
                  /\ Held(places)' = Held(places) \ {i} /\ i \in Held(places)
                  /\ Beyond(places)' = Beyond(places) \cup {i} /\ i \notin Beyond(places)
             /\ (to \in places <=> uploader[u] \in places) =>
                  Held(places)' = Held(places) /\ Beyond(places)' = Beyond(places)
  <2>1. /\ to \in places /\ uploader[u] \in places => Held(places)' = Held(places)
        /\ to \in places /\ uploader[u] \notin places =>
             Held(places)' = Held(places) \cup {i}
        /\ to \notin places /\ uploader[u] \in places =>
             /\ Held(places)' = Held(places) \ {i}
             /\ i \in Held(places)
        /\ to \notin places /\ uploader[u] \notin places => Held(places)' = Held(places)
    BY <1>1, <1>2, HeldMoves DEF i
  <2>2. Beyond(places)' = (Claimed \ ToSet(failures)) \ Held(places)'
    BY <1>1, <1>3 DEF Beyond
  <2>3. QED
    BY <1>3, <2>1, <2>2 DEF Beyond
<1>5. TakenOnce'
  BY <1>1, <1>3 DEF UploadInv, TakenOnce
<1>6. AllTaken'
  BY <1>1, <1>3 DEF UploadInv, AllTaken
<1>7. Counted'
  <2>1. Uncounted \in SUBSET Working
    BY DEF Uncounted, Working
  <2>2. CASE uploader[u] = "write"
    <3>1. to \notin Uncounted /\ uploader[u] \in Uncounted
      BY <1>2, <2>2 DEF Uncounted
    <3>2. Beyond(Uncounted)' = Beyond(Uncounted) \cup {i} /\ i \notin Beyond(Uncounted)
      BY <1>4, <2>1, <3>1
    <3>3. IsFiniteSet(Beyond(Uncounted)) /\ Cardinality(Beyond(Uncounted)) \in Nat
      BY SetsAreFinite
    <3>4. Cardinality(Beyond(Uncounted) \cup {i}) = Cardinality(Beyond(Uncounted)) + 1
      BY <3>2, <3>3, FS_AddElement
    <3>5. success_count' = success_count + 1
      BY <2>2 DEF GetsOn
    <3>6. QED
      BY <3>2, <3>4, <3>5 DEF UploadInv, Counted
  <2>3. CASE uploader[u] # "write"
    <3>1. to \in Uncounted <=> uploader[u] \in Uncounted
      BY <1>2, <2>3 DEF Uncounted
    <3>2. Beyond(Uncounted)' = Beyond(Uncounted)
      BY <1>4, <2>1, <3>1
    <3>3. success_count' = success_count
      BY <2>3 DEF GetsOn
    <3>4. QED
      BY <3>2, <3>3 DEF UploadInv, Counted
  <2>4. QED
    BY <2>2, <2>3
<1>8. BytesAreReserved'
  <2> DEFINE passed == Beyond({"reserve"})
  <2>1. {"reserve"} \in SUBSET Working
    BY DEF Working
  <2>2. items \in Seq(Files) /\ passed \in SUBSET DOMAIN items /\ i \in DOMAIN items
    BY <1>3, ItemsAre, SetsAreFinite DEF UploadInv, UploadTypes, Claimed
  <2>3. BytesOf(items, passed) <= MaxTotalBytes /\ BytesOf(items, passed) <= total_decoded_bytes
    BY DEF UploadInv, BytesAreReserved
  <2>4. CASE uploader[u] = "reserve"
    <3>1. to \notin {"reserve"} /\ uploader[u] \in {"reserve"}
      BY <1>2, <2>4
    <3>2. Beyond({"reserve"})' = passed \cup {i} /\ i \notin passed
      BY <1>4, <2>1, <3>1
    <3> HIDE DEF passed
    <3>3. /\ passed \cup {i} \in SUBSET DOMAIN items /\ i \in passed \cup {i}
          /\ (passed \cup {i}) \ {i} = passed
      BY <2>2, <3>2
    <3>4. /\ BytesOf(items, passed \cup {i}) = BytesOf(items, passed) + items[i].size
          /\ items[i].size \in Nat /\ BytesOf(items, passed) \in Nat
      BY <2>2, <3>3, BytesOfAll
    <3>5. /\ total_decoded_bytes' = total_decoded_bytes + items[i].size
          /\ total_decoded_bytes' <= MaxTotalBytes
      BY <2>4 DEF GetsOn, Taken, i
    <3>6. total_decoded_bytes \in Nat /\ MaxTotalBytes \in Nat
      BY UploadAssumption DEF UploadInv, UploadTypes
    <3>7. /\ BytesOf(items, passed \cup {i}) <= total_decoded_bytes'
          /\ BytesOf(items, passed \cup {i}) <= MaxTotalBytes
      BY <2>3, <3>4, <3>5, <3>6
    <3>8. QED
      BY <1>1, <3>2, <3>7 DEF BytesAreReserved
  <2>5. CASE uploader[u] # "reserve"
    <3>1. to \in {"reserve"} <=> uploader[u] \in {"reserve"}
      BY <1>2, <2>5
    <3>2. Beyond({"reserve"})' = passed
      BY <1>4, <2>1, <3>1
    <3>3. total_decoded_bytes' = total_decoded_bytes
      BY <2>5 DEF GetsOn
    <3>4. QED
      BY <1>1, <2>3, <3>2, <3>3 DEF BytesAreReserved
  <2>6. QED
    BY <2>4, <2>5
<1>9. TurnOnDisk(u)
  <2>1. Working \in SUBSET Working /\ {"write", "close"} \in SUBSET Working
    BY DEF Working
  <2>2. Beyond(Working)' \subseteq Beyond(Working) \cup {j \in {i} : uploader[u] = "close"}
    <3>1. CASE uploader[u] = "close"
      <4>1. to \notin Working /\ uploader[u] \in Working
        BY <1>2, <3>1 DEF Working
      <4>2. QED
        BY <1>4, <2>1, <3>1, <4>1
    <3>2. CASE uploader[u] # "close"
      <4>1. to \in Working <=> uploader[u] \in Working
        BY <1>2, <3>2 DEF Working
      <4>2. QED
        BY <1>4, <2>1, <4>1
    <3>3. QED
      BY <3>1, <3>2
  <2>3. /\ Held({"write", "close"})' \subseteq
             Held({"write", "close"}) \cup {j \in {i} : uploader[u] = "open" /\ to = "write"}
        /\ uploader[u] = "close" => i \notin Held({"write", "close"})'
    <3> DEFINE places == {"write", "close"}
    <3>1. CASE uploader[u] = "open"
      <4>1. to \in places /\ uploader[u] \notin places /\ to = "write"
        BY <1>2, <3>1
      <4>2. Held(places)' = Held(places) \cup {i}
        BY <1>4, <2>1, <4>1
      <4>3. QED
        BY <3>1, <4>1, <4>2
    <3>2. CASE uploader[u] = "close"
      <4>1. to \notin places /\ uploader[u] \in places
        BY <1>2, <3>2
      <4>2. Held(places)' = Held(places) \ {i}
        BY <1>4, <2>1, <4>1
      <4>3. QED
        BY <3>2, <4>2
    <3>3. CASE uploader[u] \notin {"open", "close"}
      <4>1. to \in places <=> uploader[u] \in places
        BY <1>2, <3>3
      <4>2. Held(places)' = Held(places)
        BY <1>4, <2>1, <4>1
      <4>3. QED
        BY <3>3, <4>2
    <3>4. QED
      BY <3>1, <3>2, <3>3
  <2>4. QED
    BY <2>2, <2>3 DEF TurnOnDisk, i, to
<1>10. QED
  BY <1>5, <1>6, <1>7, <1>8, <1>9 DEF AccountKept

\* A file on the disk that is not the one u works on stays as it is.
LEMMA OtherFilesStay ==
  ASSUME UploadInv, NEW u \in Uploaders, UploaderStep(u),
         NEW i \in DOMAIN items, IsUnique(i), disk[items[i].path].kind = "file",
         uploader[u] \in {"open", "close"} => item[u] # i
  PROVE  disk'[items[i].path] = disk[items[i].path]
<1> DEFINE p == items[i].path
<1>1. disk \in [Targets -> Stored] /\ p \in Targets
  BY ItemsAre DEF UploadInv, UploadTypes
<1>2. CASE UNCHANGED disk
  BY <1>2
<1>3. CASE CreateDirectory(u)
  <2>1. CASE disk' = [d \in Targets |-> IF d = DirOf[Taken(u).path] THEN Directory ELSE disk[d]]
    <3>1. CASE p = DirOf[Taken(u).path]
      <4>1. disk[DirOf[Taken(u).path]].kind = "file" /\ DirOf[Taken(u).path] \in Targets
        BY <1>1, <3>1
      <4>2. UNCHANGED disk
        BY <1>3, <4>1 DEF CreateDirectory
      <4>3. QED
        BY <4>2
    <3>2. CASE p # DirOf[Taken(u).path]
      BY <1>1, <2>1, <3>2
    <3>3. QED
      BY <3>1, <3>2
  <2>2. CASE ~(disk' = [d \in Targets |-> IF d = DirOf[Taken(u).path] THEN Directory ELSE disk[d]])
    BY <1>3, <2>2 DEF CreateDirectory
  <2>3. QED
    BY <2>1, <2>2
<1>4. CASE OpenFile(u) \/ Close(u)
  <2>1. uploader[u] \in {"open", "close"}
    BY <1>4 DEF OpenFile, Close, At
  <2>2. item[u] # i /\ item[u] \in DOMAIN items
    BY <2>1 DEF UploadInv, TakenOnce, Busy, Working, Claimed
  <2>3. Taken(u).path # p
    BY <2>2 DEF IsUnique, Taken
  <2>4. \E f : disk' = [disk EXCEPT ![Taken(u).path] = f] \/ disk' = disk
    BY <1>4 DEF OpenFile, Close
  <2>5. QED
    BY <1>1, <2>3, <2>4
<1>5. QED
  BY <1>2, <1>3, <1>4 DEF UploaderStep, Claim, DecodeFails, Reserve, WriteFails, Write

LEMMA DiskKeeps ==
  ASSUME UploadInv, NEW u \in Uploaders, UploaderStep(u), TurnOnDisk(u)
  PROVE  DiskFollows'
<1>1. UNCHANGED items
  BY TurnsAre
<1> SUFFICES ASSUME NEW i \in DOMAIN items, IsUnique(i)
             PROVE  /\ i \in Held({"write", "close"})' => disk'[items[i].path] = File(<<>>)
                    /\ i \in Beyond(Working)' /\ ~disk_full' =>
                         disk'[items[i].path] = File([b \in 1..items[i].size |-> i])
  BY <1>1 DEF DiskFollows, IsUnique
<1> DEFINE p == items[i].path
<1>2. /\ i \in Held({"write", "close"}) => disk[p] = File(<<>>)
      /\ i \in Beyond(Working) /\ ~disk_full => disk[p] = File([b \in 1..items[i].size |-> i])
  BY DEF UploadInv, DiskFollows
<1>3. /\ disk \in [Targets -> Stored] /\ p \in Targets /\ items[i].size \in Nat
      /\ disk_full \in BOOLEAN /\ uploader \in [Uploaders -> Places]
  BY ItemsAre DEF UploadInv, UploadTypes
<1>4. \A c : File(c).kind = "file"
  BY DEF File
<1>5. disk_full => disk_full'
  BY DEF UploaderStep, Claim, DecodeFails, Reserve, CreateDirectory, OpenFile, WriteFails,
         Write, Close
<1>6. ASSUME i \in Held({"write", "close"})' PROVE disk'[p] = File(<<>>)
  <2>1. CASE uploader[u] = "open" /\ uploader'[u] = "write" /\ item[u] = i
    <3>1. OpenFile(u)
      BY <2>1 DEF UploaderStep, Claim, DecodeFails, Reserve, CreateDirectory, OpenFile,
                  WriteFails, Write, Close, At
    <3>2. ~(DiskAt(u).kind = "directory")
      BY <1>3, <2>1, <3>1 DEF OpenFile, Fail, Goes
    <3>3. disk' = [disk EXCEPT ![p] = File(<<>>)]
      BY <2>1, <3>1, <3>2 DEF OpenFile, Taken
    <3>4. QED
      BY <1>3, <3>3
  <2>2. CASE ~(uploader[u] = "open" /\ uploader'[u] = "write" /\ item[u] = i)
    <3>1. i \in Held({"write", "close"}) /\ ~(uploader[u] = "close" /\ item[u] = i)
      BY <1>6, <2>2 DEF TurnOnDisk
    <3>2. ~(uploader[u] = "open" /\ item[u] = i)
      BY <3>1 DEF Held, UploadInv, TakenOnce, Busy, Working
    <3>3. disk[p] = File(<<>>)
      BY <1>2, <3>1
    <3>4. disk[p].kind = "file"
      BY <1>4, <3>3
    <3>5. disk'[p] = disk[p]
      BY <3>1, <3>2, <3>4, OtherFilesStay
    <3>6. QED
      BY <3>3, <3>5
  <2>3. QED
    BY <2>1, <2>2
<1>7. ASSUME i \in Beyond(Working)', ~disk_full'
      PROVE  disk'[p] = File([b \in 1..items[i].size |-> i])
  <2>1. CASE uploader[u] = "close" /\ item[u] = i
    <3>1. Close(u)
      BY <2>1 DEF UploaderStep, Claim, DecodeFails, Reserve, CreateDirectory, OpenFile,
                  WriteFails, Write, Close, At
    <3>2. i \in Held({"write", "close"})
      BY <2>1 DEF Held
    <3>3. disk[p] = File(<<>>) /\ Taken(u) = items[i]
      BY <1>2, <2>1, <3>2 DEF Taken
    <3>4. PICK written \in BOOLEAN :
            /\ disk' = IF written
                         THEN [disk EXCEPT ![Taken(u).path] = File(Overwritten(@.content, u))]
                         ELSE disk
            /\ disk_full' = (disk_full \/ ~written)
      BY <3>1 DEF Close
    <3>5. written
      BY <1>7, <3>4
    <3>6. disk' = [disk EXCEPT ![p] = File(Overwritten(@.content, u))]
      BY <3>3, <3>4, <3>5
    <3>7. disk'[p] = File(Overwritten(disk[p].content, u))
      BY <1>3, <3>6
    <3>8. disk[p].content = <<>>
      BY <3>3 DEF File
    <3>9. Overwritten(<<>>, u) = [b \in 1..items[i].size |-> i]
      <4>1. DOMAIN <<>> \cup 1..items[i].size = 1..items[i].size
        OBVIOUS
      <4>2. \A b \in 1..items[i].size : b <= items[i].size
        BY <1>3
      <4>3. QED
        BY <2>1, <3>3, <4>1, <4>2 DEF Overwritten
    <3>10. QED
      BY <3>7, <3>8, <3>9
  <2>2. CASE ~(uploader[u] = "close" /\ item[u] = i)
    <3>1. i \in Beyond(Working)
      BY <1>7, <2>2 DEF TurnOnDisk
    <3>2. ~(uploader[u] = "open" /\ item[u] = i)
      BY <3>1 DEF Beyond, Held, Working
    <3>3. disk[p] = File([b \in 1..items[i].size |-> i])
      BY <1>2, <1>5, <1>7, <3>1
    <3>4. disk[p].kind = "file"
      BY <1>4, <3>3
    <3>5. disk'[p] = disk[p]
      BY <2>2, <3>2, <3>4, OtherFilesStay
    <3>6. QED
      BY <3>3, <3>5
  <2>3. QED
    BY <2>1, <2>2
<1>8. QED
  BY <1>6, <1>7

LEMMA OverwrittenIsContent ==
  ASSUME NEW S, NEW content \in Seq(S), NEW u, item[u] \in S, Taken(u).size \in Nat
  PROVE  Overwritten(content, u) \in Seq(S)
<1> DEFINE n == Taken(u).size
           m == IF n <= Len(content) THEN Len(content) ELSE n
<1>1. Len(content) \in Nat /\ DOMAIN content = 1..Len(content)
  OBVIOUS
<1>2. m \in Nat /\ DOMAIN content \cup 1..n = 1..m
  BY <1>1
<1>3. \A b \in 1..m : (IF b <= n THEN item[u] ELSE content[b]) \in S
  BY <1>1, <1>2
<1> HIDE DEF m
<1>4. Overwritten(content, u) = [b \in 1..m |-> IF b <= n THEN item[u] ELSE content[b]]
  BY <1>2 DEF Overwritten
<1>5. Overwritten(content, u) \in [1..m -> S]
  BY <1>3, <1>4
<1>6. QED
  BY <1>2, <1>5, SeqDef

LEMMA TypesKeep ==
  ASSUME UploadInv, NEW u \in Uploaders, UploaderStep(u)
  PROVE  UploadTypes'
<1>1. /\ upload = "running" /\ UNCHANGED <<upload, items>>
      /\ Takes(u) \/ FindsNone(u) \/ Fails(u) \/ GetsOn(u)
  BY TurnsAre
<1>2. /\ UploadTypes /\ items \in Seq(Files) /\ Len(items) \in Nat
      /\ DOMAIN items = 1..Len(items)
      /\ \A i \in DOMAIN items : items[i].path \in Targets /\ items[i].size \in Nat
  BY ItemsAre DEF UploadInv, UploadTypes
<1>3. uploader[u] \in Working => item[u] \in DOMAIN items /\ Taken(u).size \in Nat
  BY <1>2 DEF UploadInv, TakenOnce, Busy, Claimed, Taken
<1>4. uploader' \in [Uploaders -> Places]
  <2>1. \E to \in Places : Goes(u, to)
    BY <1>1 DEF Takes, FindsNone, Fails, Fail, GetsOn, Places
  <2>2. QED
    BY <1>2, <2>1 DEF Goes, UploadTypes
<1>5. item' \in [Uploaders -> 0..Len(items)] /\ next_index' \in Nat \ {0}
  <2>1. next_index \in Nat \ {0} /\ item \in [Uploaders -> 0..Len(items)]
    BY <1>2 DEF UploadTypes
  <2>2. CASE Takes(u)
    BY <1>2, <2>1, <2>2 DEF Takes
  <2>3. CASE FindsNone(u) \/ Fails(u) \/ GetsOn(u)
    BY <2>1, <2>3 DEF FindsNone, Fails, GetsOn
  <2>4. QED
    BY <1>1, <2>2, <2>3
<1>6. total_decoded_bytes' \in Nat
  <2>1. total_decoded_bytes \in Nat
    BY <1>2 DEF UploadTypes
  <2>2. CASE uploader[u] \in Working
    BY <1>1, <1>3, <2>1, <2>2 DEF Takes, FindsNone, Fails, GetsOn
  <2>3. CASE uploader[u] \notin Working
    BY <1>1, <2>1, <2>3 DEF Takes, FindsNone, Fails, GetsOn, Working, Uncounted
  <2>4. QED
    BY <2>2, <2>3
<1>7. failures' \in Seq(DOMAIN items)
  <2>1. failures \in Seq(DOMAIN items)
    BY <1>2 DEF UploadTypes
  <2>2. CASE Fails(u)
    <3>1. item[u] \in DOMAIN items /\ failures' = Append(failures, item[u])
      BY <1>3, <2>2 DEF Fails, Fail, Uncounted, Working
    <3>2. QED
      BY <2>1, <3>1, AppendProperties
  <2>3. CASE ~Fails(u)
    BY <1>1, <2>1, <2>3 DEF Takes, FindsNone, GetsOn
  <2>4. QED
    BY <2>2, <2>3
<1>8. disk_full' \in BOOLEAN
  <2>1. disk_full \in BOOLEAN
    BY <1>2 DEF UploadTypes
  <2>2. QED
    BY <2>1, Zenon DEF UploaderStep, Claim, DecodeFails, Reserve, CreateDirectory,
                       OpenFile, WriteFails, Write, Close
<1>9. disk' \in [Targets -> Stored]
  <2>1. disk \in [Targets -> Stored] /\ \A d \in Targets : disk[d] \in Stored
    BY <1>2 DEF UploadTypes
  <2>2. <<>> \in Seq(0..Len(items))
    OBVIOUS
  <2>3. /\ Directory \in Stored
        /\ \A content \in Seq(0..Len(items)) : File(content) \in Stored
    BY <2>2 DEF Directory, File, Stored
  <2>4. CASE CreateDirectory(u)
    <3>1. \/ disk' = [d \in Targets |-> IF d = DirOf[Taken(u).path] THEN Directory ELSE disk[d]]
          \/ disk' = disk
      BY <2>4 DEF CreateDirectory
    <3>2. QED
      BY <2>1, <2>3, <3>1
  <2>5. CASE OpenFile(u)
    <3>1. disk' = [disk EXCEPT ![Taken(u).path] = File(<<>>)] \/ disk' = disk
      BY <2>5 DEF OpenFile
    <3>2. File(<<>>) \in Stored
      BY <2>2, <2>3
    <3>3. QED
      BY <2>1, <3>1, <3>2
  <2>6. CASE Close(u)
    <3> DEFINE p == Taken(u).path
    <3>1. item[u] \in DOMAIN items /\ Taken(u).size \in Nat /\ p \in Targets
      BY <1>2, <1>3, <2>6 DEF Close, At, Working, Taken
    <3>2. \/ disk' = [disk EXCEPT ![p] = File(Overwritten(disk[p].content, u))]
          \/ disk' = disk
      BY <2>6 DEF Close
    <3>3. disk[p].content \in Seq(0..Len(items)) /\ item[u] \in 0..Len(items)
      BY <1>2, <2>1, <3>1 DEF Stored
    <3>4. Overwritten(disk[p].content, u) \in Seq(0..Len(items))
      BY <3>1, <3>3, OverwrittenIsContent
    <3>5. File(Overwritten(disk[p].content, u)) \in Stored
      BY <2>3, <3>4
    <3>6. QED
      BY <2>1, <3>2, <3>5
  <2>7. CASE UNCHANGED disk
    BY <2>1, <2>7
  <2>8. QED
    BY <2>4, <2>5, <2>6, <2>7
       DEF UploaderStep, Claim, DecodeFails, Reserve, WriteFails, Write
<1>10. Stored' = Stored
  BY <1>1 DEF Stored
<1>11. QED
  BY <1>1, <1>2, <1>4, <1>5, <1>6, <1>7, <1>8, <1>9, <1>10 DEF UploadTypes

LEMMA UploadStep ==
  ASSUME UploadInv, [FrontendNext]_frontendVars
  PROVE  UploadInv'
<1>1. \/ \E request \in Requests : BeginUpload(request)
      \/ \E u \in Uploaders : UploaderStep(u)
      \/ AnswerUpload
      \/ UNCHANGED uploadVars
  BY DEF FrontendNext, ServeCommands, ServeUpload, ShutDown, frontendVars
<1>2. ASSUME NEW u \in Uploaders, UploaderStep(u) PROVE UploadInv'
  <2>1. /\ upload = "running" /\ UNCHANGED <<upload, items>>
        /\ Takes(u) \/ FindsNone(u) \/ Fails(u) \/ GetsOn(u)
    BY <1>2, TurnsAre
  <2>2. AccountKept' /\ TurnOnDisk(u)
    BY <2>1, TakesKeeps, FindsNoneKeeps, FailsKeeps, GetsOnKeeps
  <2>3. UploadTypes' /\ DiskFollows'
    BY <1>2, <2>2, TypesKeep, DiskKeeps
  <2>4. NothingBegun'
    BY <2>1 DEF NothingBegun
  <2>5. QED
    BY <2>2, <2>3, <2>4 DEF UploadInv, AccountKept
<1>3. QED
  BY <1>1, <1>2, BeginKeeps, AnswerUploadKeeps

THEOREM UploadInvariant == FrontendSpec => []UploadInv
<1>1. FrontendInit => UploadInv
  BY UploadStart DEF FrontendInit
<1>2. QED
  BY <1>1, UploadStep, PTL DEF FrontendSpec

\* What is counted and what is counted out agree when the threads are joined,
\* and the disk has what was uploaded, for every request, any number of threads
\* and every order of their turns (directory upload of FrontendApiServer).
THEOREM UploadsTheorem == FrontendSpec => []UploadsAreAccounted
<1>1. UploadInv => UploadsAreAccounted
  <2> SUFFICES ASSUME UploadInv, upload = "answered"
               PROVE  /\ success_count = Cardinality(Uploaded)
                      /\ Cardinality(ToSet(failures)) = Len(failures)
                      /\ ~disk_full => \A i \in Uploaded : IsUnique(i) =>
                           disk[items[i].path] = File([b \in 1..items[i].size |-> i])
                      /\ BytesOf(items, Uploaded) <= MaxTotalBytes
    BY DEF UploadsAreAccounted
  <2>1. Exited = Uploaders /\ Uploaders # {} /\ \A u \in Exited : next_index > Len(items)
    BY UploadAssumption DEF UploadInv, AllTaken
  <2>2. next_index > Len(items) /\ next_index \in Nat
    BY <2>1 DEF UploadInv, UploadTypes
  <2>3. Claimed = DOMAIN items
    <3>1. DOMAIN items = 1..Len(items) /\ Len(items) \in Nat
      BY ItemsAre DEF UploadInv, UploadTypes
    <3>2. \A i \in 1..Len(items) : i < next_index
      BY <2>2, <3>1
    <3>3. QED
      BY <3>1, <3>2 DEF Claimed
  <2>4. ASSUME NEW places \in SUBSET Working PROVE Beyond(places) = Uploaded
    <3>1. Held(places) = {}
      BY <2>1 DEF Held, Exited, Working
    <3>2. QED
      BY <2>3, <3>1 DEF Beyond, Uploaded
  <2>5. success_count = Cardinality(Uploaded)
    BY <2>4 DEF UploadInv, Counted, Uncounted, Working
  <2>6. Cardinality(ToSet(failures)) = Len(failures)
    BY DistinctCount DEF UploadInv, UploadTypes, TakenOnce
  <2>7. ~disk_full => \A i \in Uploaded : IsUnique(i) =>
          disk[items[i].path] = File([b \in 1..items[i].size |-> i])
    <3>1. Beyond(Working) = Uploaded /\ Uploaded \subseteq DOMAIN items
      BY <2>4 DEF Uploaded
    <3>2. QED
      BY <3>1 DEF UploadInv, DiskFollows
  <2>8. BytesOf(items, Uploaded) <= MaxTotalBytes
    <3>1. Beyond({"reserve"}) = Uploaded
      BY <2>4 DEF Working
    <3>2. QED
      BY <3>1 DEF UploadInv, BytesAreReserved
  <2>9. QED
    BY <2>5, <2>6, <2>7, <2>8
<1>2. QED
  BY <1>1, UploadInvariant, PTL

\* Everything keeps its type, and no thread claims more than once beyond the
\* end of the files.
THEOREM FrontendTypeTheorem == FrontendSpec => []FrontendTypeOK
<1>1. UploadInv => UploadTypeOK
  <2> SUFFICES ASSUME UploadInv PROVE UploadTypeOK
    OBVIOUS
  <2>1. /\ UploadTypes /\ Len(items) \in Nat /\ DOMAIN items = 1..Len(items)
        /\ next_index \in Nat \ {0}
    BY ItemsAre DEF UploadInv, UploadTypes
  <2>2. next_index \in 1..(Len(items) + 1 + Cardinality(Uploaders))
    <3>1. Exited \in SUBSET Uploaders
      BY DEF Exited
    <3>2. /\ Cardinality(Exited) <= Cardinality(Uploaders)
          /\ Cardinality(Uploaders) \in Nat /\ Cardinality(Exited) \in Nat
      BY <3>1, SetsAreFinite, FS_Subset, FS_CardinalityType, UploadAssumption
    <3>3. next_index <= Len(items) + 1 + Cardinality(Exited)
      BY DEF UploadInv, AllTaken
    <3>4. QED
      BY <2>1, <3>2, <3>3
  <2>3. success_count \in 0..Len(items)
    <3> DEFINE counted == Beyond(Uncounted)
    <3>1. counted \in SUBSET (1..Len(items)) /\ Cardinality(counted) \in Nat
      BY <2>1, SetsAreFinite
    <3>2. success_count = Cardinality(counted)
      BY DEF UploadInv, Counted
    <3>3. IsFiniteSet(1..Len(items)) /\ Cardinality(1..Len(items)) = Len(items)
      <4>1. 1 \in Int /\ Len(items) \in Int
        BY <2>1
      <4>2. /\ IsFiniteSet(1..Len(items))
            /\ Cardinality(1..Len(items)) = IF 1 > Len(items) THEN 0 ELSE Len(items) - 1 + 1
        BY <4>1, FS_Interval
      <4>3. QED
        BY <2>1, <4>2
    <3> HIDE DEF counted
    <3>4. Cardinality(counted) <= Len(items)
      BY <3>1, <3>3, FS_Subset
    <3>5. QED
      BY <2>1, <3>1, <3>2, <3>4
  <2>4. \A target \in Targets :
          /\ disk[target].kind \in {"file", "directory", "absent"}
          /\ disk[target].content \in Seq(0..Len(items))
    BY <2>1 DEF UploadTypes, Stored
  <2>5. QED
    BY <2>1, <2>2, <2>3, <2>4 DEF UploadTypeOK, UploadTypes, Places
<1>2. FrontendSpec => [](workload \in Workloads)
  <2>1. FrontendInit => workload \in Workloads
    BY DEF FrontendInit
  <2>2. workload \in Workloads /\ [FrontendNext]_frontendVars => (workload \in Workloads)'
    BY DEF FrontendNext, frontendVars
  <2>3. QED
    BY <2>1, <2>2, PTL DEF FrontendSpec
<1>3. DispatchInv => DispatchTypeOK
  BY DEF DispatchInv
<1>4. DispatchTypeOK /\ UploadTypeOK /\ workload \in Workloads => FrontendTypeOK
  BY DEF FrontendTypeOK
<1>5. QED
  BY <1>1, <1>2, <1>3, <1>4, DispatchInvariant, UploadInvariant, PTL

=============================================================================
