------------------------- MODULE TrafficPathProofs -------------------------
(***************************************************************************)
(* Proofs about TrafficPath: the queue, the publisher threads, the posts   *)
(* and the verifier's record implement EvidenceStream, and a stop that saw *)
(* its thread end has drained it, for any number of callers, threads,      *)
(* frames, stops and finalisations and any batch size.                     *)
(***************************************************************************)
EXTENDS TrafficPath, SequenceTheorems, TLAPS

-----------------------------------------------------------------------------
(* The inductive invariant *)

\* TypeOK, and the two bounds the code's guards keep.
TypeInv ==
    /\ TypeOK
    /\ Len(worker) <= MaxThreads
    /\ stopping.pc # "idle" => stops < MaxStops

\* The queue is in the order of publication, between its sentinels.
QueueInv ==
    /\ \A i \in DOMAIN queue : queue[i] <= frames
    /\ \A i, j \in DOMAIN queue :
          i < j /\ queue[i] # Sentinel /\ queue[j] # Sentinel => queue[i] < queue[j]

\* Frames taken from the queue: in a buffer not yet posted, on their way to
\* the verifier, or in its record.
Holding(t) == worker[t].pc \in {"get", "post"}
InBuf(t, x) == Holding(t) /\ Contains(worker[t].buf, x)

Sent == {p \in posts : p.stage = "sent"}
Taken(x) ==
    \/ \E t \in DOMAIN worker : InBuf(t, x)
    \/ \E p \in Sent : Contains(p.data, x)
    \/ Contains(file, x)

\* They came before what is still in the queue.
TakenInv ==
    \A x \in Frames : Taken(x) =>
        /\ x <= frames
        /\ \A i \in DOMAIN queue : queue[i] # Sentinel => x < queue[i]

\* Batches are in order, and the record has no frame twice.
Increasing(s) == \A i, j \in 1 .. Len(s) : i < j => s[i] < s[j]

OrderInv ==
    /\ \A t \in DOMAIN worker : Holding(t) => Increasing(worker[t].buf)
    /\ \A p \in Sent : Increasing(p.data)
    /\ IsInjective(file)

\* A frame is in one place.
PlaceInv ==
    \A x \in Frames :
        /\ \A t, u \in DOMAIN worker : InBuf(t, x) /\ InBuf(u, x) => t = u
        /\ \A p, q \in Sent : Contains(p.data, x) /\ Contains(q.data, x) => p = q
        /\ \A t \in DOMAIN worker, p \in Sent : ~(InBuf(t, x) /\ Contains(p.data, x))
        /\ \A t \in DOMAIN worker : ~(InBuf(t, x) /\ Contains(file, x))
        /\ \A p \in Sent : ~(Contains(p.data, x) /\ Contains(file, x))

Places == QueueInv /\ TakenInv /\ OrderInv /\ PlaceInv

IInv == TypeInv /\ Places

-----------------------------------------------------------------------------
(* The inductive invariant of a stop *)

\* No thread has died or was left behind by a join.
Clean == abandoned = {} /\ \A t \in DOMAIN worker : worker[t].pc # "crashed"

\* What precedes the mark has left the queue.
PastMark == \A i \in DOMAIN queue : queue[i] > stopping.mark

\* The sentinel is behind everything that precedes the mark.
SentinelWaits ==
    \E k \in DOMAIN queue :
        /\ queue[k] = Sentinel
        /\ \A i \in DOMAIN queue : i < k => queue[i] # Sentinel
        /\ \A i \in DOMAIN queue : i > k => queue[i] > stopping.mark

DrainInv ==
    /\ \A t \in DOMAIN worker :
          worker[t].pc = "ended" => worker[t].draining /\ worker[t].buf = <<>>
    /\ Clean =>
          /\ \A t \in DOMAIN worker : t # thread => worker[t].pc = "ended"
          /\ stopping.pc = "idle" =>
                /\ \A i \in DOMAIN queue : queue[i] # Sentinel
                /\ started => ~worker[thread].draining
          /\ stopping.pc = "join" =>
                IF worker[thread].draining THEN PastMark ELSE SentinelWaits
          /\ stopping.pc = "clear" => worker[thread].pc = "ended" /\ PastMark

-----------------------------------------------------------------------------
(* Sequences *)

LEMMA InAppend ==
  ASSUME NEW S, NEW s \in Seq(S), NEW e \in S, NEW x
  PROVE  Contains(Append(s, e), x) <=> Contains(s, x) \/ x = e
<1>1. /\ Len(Append(s, e)) = Len(s) + 1 /\ Len(s) \in Nat
      /\ \A i \in 1 .. Len(s) : Append(s, e)[i] = s[i]
      /\ Append(s, e)[Len(s) + 1] = e
  BY AppendProperties, LenProperties
<1>. QED
  BY <1>1 DEF Contains

LEMMA InTail ==
  ASSUME NEW S, NEW s \in Seq(S), s # <<>>
  PROVE  /\ Tail(s) \in Seq(S) /\ Head(s) = s[1] /\ Head(s) \in S
         /\ Len(s) \in Nat \ {0} /\ Len(Tail(s)) = Len(s) - 1
         /\ \A i \in 1 .. Len(Tail(s)) : Tail(s)[i] = s[i + 1]
BY HeadTailProperties, EmptySeq, LenProperties

LEMMA InConcat ==
  ASSUME NEW S, NEW s \in Seq(S), NEW u \in Seq(S), NEW x
  PROVE  Contains(s \o u, x) <=> Contains(s, x) \/ Contains(u, x)
<1>1. /\ Len(s \o u) = Len(s) + Len(u) /\ Len(s) \in Nat /\ Len(u) \in Nat
      /\ \A i \in 1 .. Len(s) + Len(u) :
            (s \o u)[i] = IF i <= Len(s) THEN s[i] ELSE u[i - Len(s)]
  BY ConcatProperties, LenProperties
<1>2. ASSUME Contains(s, x) PROVE Contains(s \o u, x)
  BY <1>1, <1>2 DEF Contains
<1>3. ASSUME Contains(u, x) PROVE Contains(s \o u, x)
  <2>1. PICK i \in 1 .. Len(u) : u[i] = x
    BY <1>3 DEF Contains
  <2>2. Len(s) + i \in 1 .. Len(s) + Len(u) /\ (s \o u)[Len(s) + i] = x
    BY <1>1, <2>1
  <2>. QED
    BY <1>1, <2>2 DEF Contains
<1>4. ASSUME Contains(s \o u, x) PROVE Contains(s, x) \/ Contains(u, x)
  <2>1. PICK i \in 1 .. Len(s) + Len(u) : (s \o u)[i] = x
    BY <1>1, <1>4 DEF Contains
  <2>2. CASE i <= Len(s)
    BY <1>1, <2>1, <2>2 DEF Contains
  <2>3. CASE i > Len(s)
    <3>1. i - Len(s) \in 1 .. Len(u) /\ u[i - Len(s)] = x
      BY <1>1, <2>1, <2>3
    <3>. QED
      BY <3>1 DEF Contains
  <2>. QED
    BY <1>1, <2>2, <2>3
<1>. QED
  BY <1>2, <1>3, <1>4

LEMMA InPrefix ==
  ASSUME NEW S, NEW s \in Seq(S), NEW n \in 0 .. Len(s)
  PROVE  /\ SubSeq(s, 1, n) \in Seq(S) /\ Len(SubSeq(s, 1, n)) = n
         /\ \A i \in 1 .. n : SubSeq(s, 1, n)[i] = s[i]
         /\ \A x : Contains(SubSeq(s, 1, n), x) => Contains(s, x)
         /\ Increasing(s) => Increasing(SubSeq(s, 1, n))
<1>1. Len(s) \in Nat /\ \A i \in 1 .. n : s[i] \in S
  BY LenProperties, ElementOfSeq
<1>2. /\ SubSeq(s, 1, n) \in Seq(S) /\ Len(SubSeq(s, 1, n)) = n
      /\ \A i \in 1 .. n : SubSeq(s, 1, n)[i] = s[i]
  BY <1>1, SubSeqProperties
<1>. QED
  BY <1>1, <1>2 DEF Contains, Increasing

-----------------------------------------------------------------------------
(* Types *)

LEMMA WorkerBecomes ==
  ASSUME worker \in Seq(Worker), NEW t \in DOMAIN worker, NEW w \in Worker, Becomes(t, w)
  PROVE  /\ worker' \in Seq(Worker) /\ Len(worker') = Len(worker)
         /\ DOMAIN worker' = DOMAIN worker
         /\ worker'[t] = w /\ \A u \in DOMAIN worker : u # t => worker'[u] = worker[u]
<1>1. t \in 1 .. Len(worker) /\ DOMAIN worker = 1 .. Len(worker)
  BY LenProperties
<1>2. /\ worker' \in Seq(Worker) /\ Len(worker') = Len(worker)
      /\ \A u \in 1 .. Len(worker) : worker'[u] = IF u = t THEN w ELSE worker[u]
  BY <1>1, ExceptSeq DEF Becomes
<1>3. DOMAIN worker' = 1 .. Len(worker')
  BY <1>2, LenProperties
<1>. QED
  BY <1>1, <1>2, <1>3

\* What a thread can become keeps its type.
LEMMA ThreadType ==
  ASSUME TypeInv, NEW t \in DOMAIN worker
  PROVE  /\ worker[t] \in Worker /\ t \in Threads /\ DOMAIN worker = 1 .. Len(worker)
         /\ Len(worker) \in Nat
         /\ Flushed(worker[t]) \in Worker /\ FoundEmpty(worker[t]) \in Worker
         /\ \A pc \in {"get", "post", "await", "ended", "crashed"} :
               [worker[t] EXCEPT !.pc = pc] \in Worker
         /\ [worker[t] EXCEPT !.draining = TRUE] \in Worker
<1>1. DOMAIN worker = 1 .. Len(worker) /\ Len(worker) \in Nat
  BY LenProperties DEF TypeInv, TypeOK
<1>2. worker[t] \in Worker
  BY <1>1, ElementOfSeq DEF TypeInv, TypeOK
<1>3. <<>> \in Seq(Frames)
  BY EmptySeq
<1>4. t \in Threads
  BY <1>1, TrafficAssumption DEF TypeInv, Threads
<1>. QED
  BY <1>1, <1>2, <1>3, <1>4 DEF Worker, Flushed, FoundEmpty

LEMMA Staged ==
  ASSUME posts \subseteq Post, NEW p \in posts,
         NEW stage \in {"appended", "ok", "refused", "acked", "failed"}, Stage(p, stage)
  PROVE  posts' \subseteq Post /\ Sent' = Sent \ {p}
<1>1. [p EXCEPT !.stage = stage] \in Post /\ [p EXCEPT !.stage = stage].stage # "sent"
  BY DEF Post
<1>. QED
  BY <1>1 DEF Stage, Sent

LEMMA TypeInit == Init => TypeInv
<1>. SUFFICES ASSUME Init PROVE TypeInv
  OBVIOUS
<1>1. /\ <<>> \in Seq(Frames \cup {Sentinel}) /\ <<>> \in Seq(Worker) /\ <<>> \in Seq(Frames)
      /\ <<>> \in Seq(Entry) /\ Len(<<>>) = 0
  BY EmptySeq
<1>2. /\ frames \in 0 .. MaxFrames /\ stops \in 0 .. MaxStops /\ 0 <= MaxThreads
      /\ thread \in 0 .. 0
      /\ stopping \in [pc : {"idle", "join", "clear"}, thread : 0 .. 0, mark : 0 .. frames]
  BY TrafficAssumption DEF Init, NotStopping
<1>3. /\ caller \in [Callers -> {"idle", "publish"}]
      /\ finalizer \in [Finalizers -> {"idle", "record", "done"}]
  BY DEF Init
<1>. QED
  BY <1>1, <1>2, <1>3 DEF Init, TypeInv, TypeOK, NotStopping

LEMMA CallerType ==
  ASSUME TypeInv, NEW c \in Callers, CallStart(c) \/ CallPublish(c)
  PROVE  TypeInv'
<1>. USE DEF TypeInv, TypeOK
<1>1. Len(worker) \in Nat /\ DOMAIN worker = 1 .. Len(worker)
  BY LenProperties
<1>2. CASE CallStart(c) /\ started
  BY <1>2 DEF CallStart, stopVars, recordVars
<1>3. CASE CallStart(c) /\ ~started
  <2>. DEFINE new == [pc |-> "get", buf |-> <<>>, draining |-> FALSE]
  <2>0. new \in Worker
    BY EmptySeq DEF Worker
  <2>1. worker' = Append(worker, new)
    BY <1>3 DEF CallStart
  <2>. HIDE DEF new
  <2>2. worker' \in Seq(Worker) /\ Len(worker') = Len(worker) + 1
    BY <2>0, <2>1, AppendProperties
  <2>3. DOMAIN worker' = 1 .. Len(worker) + 1
    BY <2>2, LenProperties
  <2>4. caller' \in [Callers -> {"idle", "publish"}]
    BY <1>3 DEF CallStart
  <2>. QED
    BY <1>1, <1>3, <2>2, <2>3, <2>4, TrafficAssumption DEF CallStart, stopVars, recordVars
<1>4. CASE CallPublish(c)
  <2>1. frames + 1 \in Frames /\ frames \in Nat
    BY <1>4, TrafficAssumption DEF CallPublish, Frames
  <2>2. queue' \in Seq(Frames \cup {Sentinel})
    BY <1>4, <2>1, AppendProperties DEF CallPublish
  <2>3. caller' \in [Callers -> {"idle", "publish"}]
    BY <1>4 DEF CallPublish
  <2>4. frames' \in 0 .. MaxFrames /\ 0 .. frames \subseteq 0 .. frames'
    BY <1>4, <2>1 DEF CallPublish, Frames
  <2>. QED
    BY <1>1, <1>4, <2>2, <2>3, <2>4 DEF CallPublish, stopVars, recordVars
<1>. QED
  BY <1>2, <1>3, <1>4

LEMMA PublisherType ==
  ASSUME TypeInv, NEW t \in DOMAIN worker, Publisher(t)
  PROVE  TypeInv'
<1>1. /\ worker[t] \in Worker /\ t \in Threads /\ DOMAIN worker = 1 .. Len(worker)
      /\ Len(worker) \in Nat
      /\ Flushed(worker[t]) \in Worker /\ FoundEmpty(worker[t]) \in Worker
      /\ \A pc \in {"get", "post", "await", "ended", "crashed"} :
            [worker[t] EXCEPT !.pc = pc] \in Worker
      /\ [worker[t] EXCEPT !.draining = TRUE] \in Worker
  BY ThreadType
<1>2. worker[t].buf \in Seq(Frames)
  BY <1>1 DEF Worker
<1>. USE DEF TypeInv, TypeOK
<1>3. ASSUME NEW w \in Worker, Becomes(t, w), UNCHANGED <<frames, started, thread, caller, stopVars, recordVars, finalizer>>,
             queue' \in Seq(Frames \cup {Sentinel}), posts' \subseteq Post
      PROVE  TypeInv'
  <2>1. worker' \in Seq(Worker) /\ Len(worker') = Len(worker) /\ DOMAIN worker' = DOMAIN worker
    BY <1>3, WorkerBecomes
  <2>. QED
    BY <1>1, <1>3, <2>1 DEF stopVars, recordVars
<1>4. CASE TakeFrame(t)
  <2>1. /\ Head(queue) \in Frames /\ queue' \in Seq(Frames \cup {Sentinel})
    BY <1>4, InTail DEF TakeFrame
  <2>2. Extended(worker[t].buf, Head(queue)) \in Seq(Frames)
    BY <1>2, <2>1, AppendProperties DEF Extended
  <2>3. PICK pc \in {"get", "post"} :
            Becomes(t, [worker[t] EXCEPT !.buf = Extended(worker[t].buf, Head(queue)), !.pc = pc])
    BY <1>4 DEF TakeFrame
  <2>4. [worker[t] EXCEPT !.buf = Extended(worker[t].buf, Head(queue)), !.pc = pc] \in Worker
    BY <1>1, <2>2 DEF Worker
  <2>. QED
    BY <1>3, <1>4, <2>1, <2>3, <2>4 DEF TakeFrame
<1>5. CASE TakeSentinel(t)
  <2>1. queue' \in Seq(Frames \cup {Sentinel})
    BY <1>5, InTail DEF TakeSentinel
  <2>. QED
    BY <1>1, <1>3, <1>5, <2>1 DEF TakeSentinel
<1>6. CASE QueueEmpty(t)
  BY <1>1, <1>3, <1>6 DEF QueueEmpty
<1>7. CASE PostSent(t)
  <2>1. [by |-> t, data |-> worker[t].buf, stage |-> "sent"] \in Post
    BY <1>1, <1>2 DEF Post
  <2>. QED
    BY <1>1, <1>3, <1>7, <2>1 DEF PostSent
<1>8. CASE PostBreaks(t)
  <2>1. PICK n \in 0 .. Len(worker[t].buf) - 1 :
            posts' = IF n = 0 THEN posts
                     ELSE posts \cup {[by |-> t, data |-> SubSeq(worker[t].buf, 1, n),
                                       stage |-> "sent"]}
    BY <1>8 DEF PostBreaks
  <2>2. n \in 0 .. Len(worker[t].buf)
    BY <1>2, <2>1, LenProperties
  <2>3. SubSeq(worker[t].buf, 1, n) \in Seq(Frames)
    BY <1>2, <2>2, InPrefix
  <2>4. [by |-> t, data |-> SubSeq(worker[t].buf, 1, n), stage |-> "sent"] \in Post
    BY <1>1, <2>3 DEF Post
  <2>. QED
    BY <1>1, <1>3, <1>8, <2>1, <2>4 DEF PostBreaks
<1>9. CASE ReplyRead(t)
  <2>1. posts' \subseteq Post
    <3>1. PICK p \in posts : p.stage \in {"ok", "refused"}
                          /\ Stage(p, IF p.stage = "ok" THEN "acked" ELSE p.stage)
      BY <1>9 DEF ReplyRead
    <3>. QED
      BY <3>1, Staged
  <2>. QED
    BY <1>1, <1>3, <1>9, <2>1 DEF ReplyRead
<1>10. CASE ReplyLost(t)
  BY <1>1, <1>3, <1>10 DEF ReplyLost
<1>. QED
  BY <1>4, <1>5, <1>6, <1>7, <1>8, <1>9, <1>10 DEF Publisher

LEMMA StopType ==
  ASSUME TypeInv, Stop
  PROVE  TypeInv'
<1>. USE DEF TypeInv, TypeOK
<1>1. Len(worker) \in Nat /\ DOMAIN worker = 1 .. Len(worker)
  BY LenProperties
<1>2. CASE StopBegins
  <2>1. queue' \in Seq(Frames \cup {Sentinel})
    BY <1>2, AppendProperties DEF StopBegins
  <2>2. stopping' \in [pc : {"idle", "join", "clear"}, thread : 0 .. Len(worker), mark : 0 .. frames]
    BY <1>2 DEF StopBegins
  <2>. QED
    BY <1>1, <1>2, <2>1, <2>2, TrafficAssumption DEF StopBegins, recordVars
<1>3. CASE JoinReturns
  <2>1. stopping' \in [pc : {"idle", "join", "clear"}, thread : 0 .. Len(worker), mark : 0 .. frames]
    BY <1>3 DEF JoinReturns
  <2>2. stopping.thread \in DOMAIN worker
    BY <1>1, <1>3 DEF JoinReturns
  <2>3. stopping'.pc = "clear" /\ stopping'.thread = stopping.thread
    BY <1>3 DEF JoinReturns
  <2>4. abandoned' \subseteq DOMAIN worker
    BY <1>3, <2>2 DEF JoinReturns
  <2>. QED
    BY <1>3, <2>1, <2>3, <2>4 DEF JoinReturns, publisherVars, recordVars
<1>4. CASE StopClears
  <2>1. stopping' \in [pc : {"idle", "join", "clear"}, thread : 0 .. Len(worker), mark : 0 .. frames]
    BY <1>1, <1>4 DEF StopClears, NotStopping
  <2>2. stops' \in 0 .. MaxStops
    BY <1>4, TrafficAssumption DEF StopClears
  <2>. QED
    BY <1>1, <1>4, <2>1, <2>2 DEF StopClears, NotStopping, recordVars
<1>. QED
  BY <1>2, <1>3, <1>4 DEF Stop

LEMMA VerifierType ==
  ASSUME TypeInv, Verifier
  PROVE  TypeInv'
<1>. USE DEF TypeInv, TypeOK
<1>1. ASSUME NEW p \in posts, AppendTraffic(p) PROVE TypeInv'
  <2>1. p.data \in Seq(Frames)
    BY DEF Post
  <2>2. CASE IsFinalized
    BY <1>1, <2>2, Staged DEF AppendTraffic, publisherVars, stopVars
  <2>3. CASE ~IsFinalized
    <3>. /\ file' = file \o p.data /\ hashed' = hashed \o p.data
         /\ file \in Seq(Frames) /\ hashed \in Seq(Frames)
      BY <1>1, <2>3 DEF AppendTraffic
    <3>1. file' \in Seq(Frames) /\ hashed' \in Seq(Frames)
      BY <2>1, ConcatProperties
    <3>2. posts' \subseteq Post
      BY <1>1, <2>3, Staged DEF AppendTraffic
    <3>. QED
      BY <1>1, <2>3, <3>1, <3>2 DEF AppendTraffic, IsFinalized, publisherVars, stopVars
  <2>. QED
    BY <2>2, <2>3
<1>2. ASSUME NEW p \in posts, AppendFails(p) PROVE TypeInv'
  <2>1. PICK n \in 0 .. Len(p.data) : file' = file \o SubSeq(p.data, 1, n)
    BY <1>2 DEF AppendFails
  <2>2. SubSeq(p.data, 1, n) \in Seq(Frames)
    BY <2>1, InPrefix DEF Post
  <2>3. file' \in Seq(Frames)
    BY <2>1, <2>2, ConcatProperties
  <2>4. posts' \subseteq Post
    BY <1>2, Staged DEF AppendFails
  <2>. QED
    BY <1>2, <2>3, <2>4 DEF AppendFails, publisherVars, stopVars
<1>3. ASSUME NEW p \in posts, RecordTraffic(p) PROVE TypeInv'
  <2>1. [endpoint |-> "/traffic", data |-> p.data] \in Entry
    BY DEF Post, Entry
  <2>2. transcript' \in Seq(Entry)
    BY <1>3, <2>1, AppendProperties DEF RecordTraffic
  <2>3. posts' \subseteq Post
    BY <1>3, Staged DEF RecordTraffic
  <2>. QED
    BY <1>3, <2>2, <2>3 DEF RecordTraffic, publisherVars, stopVars
<1>4. ASSUME NEW f \in Finalizers, FinalizeTraffic(f) PROVE TypeInv'
  <2>1. finalizer' \in [Finalizers -> {"idle", "record", "done"}]
    BY <1>4 DEF FinalizeTraffic
  <2>. QED
    BY <1>4, <2>1 DEF FinalizeTraffic, publisherVars, stopVars
<1>5. ASSUME NEW f \in Finalizers, RecordFinalize(f) PROVE TypeInv'
  <2>1. finalizer' \in [Finalizers -> {"idle", "record", "done"}]
    BY <1>5 DEF RecordFinalize
  <2>2. PICK digest \in finalized :
            transcript' = Append(transcript, [endpoint |-> "/traffic/finalize", data |-> digest])
    BY <1>5 DEF RecordFinalize
  <2>3. [endpoint |-> "/traffic/finalize", data |-> digest] \in Entry
    BY <2>2 DEF Entry
  <2>4. transcript' \in Seq(Entry)
    BY <2>2, <2>3, AppendProperties
  <2>. QED
    BY <1>5, <2>1, <2>4 DEF RecordFinalize, publisherVars, stopVars
<1>. QED
  BY <1>1, <1>2, <1>3, <1>4, <1>5 DEF Verifier

LEMMA TypeNext == TypeInv /\ [Next]_vars => TypeInv'
<1>. SUFFICES ASSUME TypeInv, [Next]_vars PROVE TypeInv'
  OBVIOUS
<1>1. CASE Next
  BY <1>1, CallerType, PublisherType, StopType, VerifierType DEF Next
<1>2. CASE UNCHANGED vars
  BY <1>2 DEF vars, publisherVars, stopVars, recordVars, TypeInv, TypeOK
<1>. QED
  BY <1>1, <1>2

(* The variables of publisher, stop, verifier and the requests have their   *)
(* types in every reachable state: a publisher thread that is named exists, *)
(* a stop works on the thread that start() named, and the digest given out  *)
(* is of what was hashed.                                                   *)
THEOREM TypeCorrect == Spec => []TypeOK
<1>1. TypeInv => TypeOK
  BY DEF TypeInv
<1>. QED
  BY <1>1, TypeInit, TypeNext, PTL DEF Spec

-----------------------------------------------------------------------------
(* Places *)

LEMMA EmptyHasNone == \A x : ~Contains(<<>>, x)
<1>1. Len(<<>>) = 0
  BY EmptySeq
<1>. QED
  BY <1>1 DEF Contains

LEMMA TypesOfPlaces ==
  ASSUME TypeInv
  PROVE  /\ DOMAIN worker = 1 .. Len(worker) /\ Len(worker) \in Nat
         /\ \A t \in DOMAIN worker : worker[t] \in Worker /\ worker[t].buf \in Seq(Frames)
         /\ \A p \in Sent : p \in Post /\ p.data \in Seq(Frames)
         /\ file \in Seq(Frames)
         /\ DOMAIN queue = 1 .. Len(queue) /\ Len(queue) \in Nat
         /\ \A i \in DOMAIN queue : queue[i] \in Nat /\ queue[i] \in 0 .. MaxFrames
         /\ frames \in Nat /\ Frames \subseteq Nat
<1>. USE DEF TypeInv, TypeOK
<1>1. DOMAIN worker = 1 .. Len(worker) /\ Len(worker) \in Nat
  BY LenProperties
<1>2. \A t \in DOMAIN worker : worker[t] \in Worker
  BY <1>1, ElementOfSeq
<1>3. DOMAIN queue = 1 .. Len(queue) /\ Len(queue) \in Nat
  BY LenProperties
<1>4. \A i \in DOMAIN queue : queue[i] \in Frames \cup {Sentinel}
  BY <1>3, ElementOfSeq
<1>5. Frames \cup {Sentinel} \subseteq 0 .. MaxFrames /\ 0 .. MaxFrames \subseteq Nat
  BY TrafficAssumption DEF Frames, Sentinel
<1>. QED
  BY <1>1, <1>2, <1>3, <1>4, <1>5, TrafficAssumption DEF Worker, Post, Sent, Frames

LEMMA QueueNext ==
  ASSUME TypeInv'
  PROVE  /\ queue' \in Seq(Frames \cup {Sentinel})
         /\ DOMAIN queue' = 1 .. Len(queue') /\ Len(queue') \in Nat
         /\ frames' \in Nat
BY LenProperties, TrafficAssumption DEF TypeInv, TypeOK

\* Nothing leaves the queue for another place, and nothing old enters it.
LEMMA NothingTaken ==
  ASSUME TypeInv, Places, QueueInv', frames' \in Nat, frames <= frames', file' = file,
         Sent' \subseteq Sent,
         \A t \in DOMAIN worker' : Holding(t)' =>
            \/ worker'[t].buf = <<>>
            \/ t \in DOMAIN worker /\ Holding(t) /\ worker'[t].buf = worker[t].buf,
         \A i \in DOMAIN queue' : queue'[i] # Sentinel =>
            queue'[i] = frames + 1 \/ \E j \in DOMAIN queue : queue'[i] = queue[j]
  PROVE  Places'
<1>1. \A x : \A t \in DOMAIN worker' : InBuf(t, x)' => t \in DOMAIN worker /\ InBuf(t, x)
  BY EmptyHasNone DEF InBuf
<1>2. \A x : Taken(x)' => Taken(x)
  BY <1>1 DEF Taken
<1>3. TakenInv'
  <2>. SUFFICES ASSUME NEW x \in Frames, Taken(x)'
                PROVE  x <= frames' /\ \A i \in DOMAIN queue' : queue'[i] # Sentinel => x < queue'[i]
    BY DEF TakenInv
  <2>1. x <= frames /\ \A i \in DOMAIN queue : queue[i] # Sentinel => x < queue[i]
    BY <1>2 DEF Places, TakenInv
  <2>. QED
    BY <2>1, TypesOfPlaces
<1>4. OrderInv'
  <2>1. ASSUME NEW t \in DOMAIN worker', Holding(t)' PROVE Increasing(worker'[t].buf)
    BY <2>1, EmptySeq DEF Places, OrderInv, Increasing
  <2>. QED
    BY <2>1 DEF Places, OrderInv
<1>5. PlaceInv'
  BY <1>1 DEF Places, PlaceInv
<1>. QED
  BY <1>3, <1>4, <1>5 DEF Places

\* The head of the queue goes to a buffer.
LEMMA TakeKeeps ==
  ASSUME TypeInv, Places, NEW t \in DOMAIN worker, TakeFrame(t)
  PROVE  Places'
<1>. DEFINE h == Head(queue)
<1>1. /\ DOMAIN queue = 1 .. Len(queue) /\ Len(queue) \in Nat \ {0} /\ h = queue[1] /\ h \in Frames
      /\ queue' \in Seq(Frames \cup {Sentinel}) /\ Len(queue') = Len(queue) - 1
      /\ \A i \in 1 .. Len(queue') : queue'[i] = queue[i + 1]
  BY InTail, TypesOfPlaces DEF TakeFrame, TypeInv, TypeOK
<1>2. DOMAIN queue' = 1 .. Len(queue')
  BY <1>1, LenProperties
<1>3. /\ worker[t].pc = "get" /\ worker[t] \in Worker /\ worker[t].buf \in Seq(Frames)
  BY TypesOfPlaces DEF TakeFrame
<1>4. /\ worker'[t].buf = Append(worker[t].buf, h) /\ worker'[t].pc \in {"get", "post"}
      /\ DOMAIN worker' = DOMAIN worker
      /\ \A u \in DOMAIN worker : u # t => worker'[u] = worker[u]
  <2>. DEFINE buf == Append(worker[t].buf, h)
  <2>1. buf \in Seq(Frames)
    BY <1>1, <1>3, AppendProperties
  <2>2. PICK pc \in {"get", "post"} : Becomes(t, [worker[t] EXCEPT !.buf = buf, !.pc = pc])
    BY DEF TakeFrame, Extended
  <2>. HIDE DEF buf
  <2>3. [worker[t] EXCEPT !.buf = buf, !.pc = pc] \in Worker
    BY <1>3, <2>1 DEF Worker
  <2>4. /\ worker'[t] = [worker[t] EXCEPT !.buf = buf, !.pc = pc]
        /\ DOMAIN worker' = DOMAIN worker
        /\ \A u \in DOMAIN worker : u # t => worker'[u] = worker[u]
    BY <2>2, <2>3, WorkerBecomes DEF TypeInv, TypeOK
  <2>5. worker'[t].buf = buf /\ worker'[t].pc = pc
    BY <1>3, <2>4 DEF Worker
  <2>. QED
    BY <2>4, <2>5 DEF buf
<1>5. UNCHANGED <<frames, posts, file>> /\ Sent' = Sent
  BY DEF TakeFrame, recordVars, Sent
<1>6. h <= frames /\ \A i \in 2 .. Len(queue) : queue[i] # Sentinel => h < queue[i]
  <2>1. queue[1] # Sentinel
    BY <1>1 DEF TakeFrame
  <2>. QED
    BY <1>1, <2>1 DEF Places, QueueInv
<1>7. \A x \in Frames : Taken(x) => x < h
  BY <1>1 DEF Places, TakenInv, TakeFrame
<1>8. QueueInv'
  <2>1. \A i \in 1 .. Len(queue') : i + 1 \in DOMAIN queue /\ queue'[i] = queue[i + 1]
    BY <1>1
  <2>2. \A i \in DOMAIN queue' : queue'[i] <= frames'
    BY <1>2, <1>5, <2>1 DEF Places, QueueInv
  <2>3. \A i, j \in 1 .. Len(queue') : i < j => i + 1 < j + 1
    BY <1>1
  <2>4. \A i, j \in DOMAIN queue' :
           i < j /\ queue'[i] # Sentinel /\ queue'[j] # Sentinel => queue'[i] < queue'[j]
    BY <1>2, <2>1, <2>3 DEF Places, QueueInv
  <2>. QED
    BY <2>2, <2>4 DEF QueueInv
<1>9. \A x \in Frames :
         /\ InBuf(t, x)' <=> InBuf(t, x) \/ x = h
         /\ \A u \in DOMAIN worker : u # t => (InBuf(u, x)' <=> InBuf(u, x))
  BY <1>1, <1>3, <1>4, InAppend DEF InBuf, Holding
<1>10. ASSUME NEW x \in Frames, Taken(x)' PROVE Taken(x) \/ x = h
  BY <1>4, <1>5, <1>9, <1>10 DEF Taken
<1>11. TakenInv'
  <2>. SUFFICES ASSUME NEW x \in Frames, Taken(x)'
                PROVE  x <= frames' /\ \A i \in DOMAIN queue' : queue'[i] # Sentinel => x < queue'[i]
    BY DEF TakenInv
  <2>1. CASE x = h
    BY <1>1, <1>2, <1>5, <1>6, <2>1
  <2>2. CASE Taken(x)
    BY <1>1, <1>2, <1>5, <2>2 DEF Places, TakenInv
  <2>. QED
    BY <1>10, <2>1, <2>2
<1>12. OrderInv'
  <2>1. Increasing(worker'[t].buf)
    <3>1. Increasing(worker[t].buf)
      BY <1>3 DEF Places, OrderInv, Holding
    <3>2. \A i \in 1 .. Len(worker[t].buf) : worker[t].buf[i] \in Frames /\ worker[t].buf[i] < h
      <4>. SUFFICES ASSUME NEW i \in 1 .. Len(worker[t].buf)
                    PROVE  worker[t].buf[i] \in Frames /\ worker[t].buf[i] < h
        OBVIOUS
      <4>1. worker[t].buf[i] \in Frames
        BY <1>3, ElementOfSeq
      <4>2. Taken(worker[t].buf[i])
        BY <1>3 DEF Taken, InBuf, Holding, Contains
      <4>. QED
        BY <1>7, <4>1, <4>2
    <3>3. /\ Len(worker[t].buf) \in Nat
          /\ Len(Append(worker[t].buf, h)) = Len(worker[t].buf) + 1
          /\ \A i \in 1 .. Len(worker[t].buf) : Append(worker[t].buf, h)[i] = worker[t].buf[i]
          /\ Append(worker[t].buf, h)[Len(worker[t].buf) + 1] = h
      BY <1>1, <1>3, AppendProperties, LenProperties
    <3>4. \A i, j \in 1 .. Len(worker[t].buf) + 1 : i < j =>
             i \in 1 .. Len(worker[t].buf) /\ (j \in 1 .. Len(worker[t].buf) \/ j = Len(worker[t].buf) + 1)
      BY <3>3
    <3>. QED
      BY <1>4, <3>1, <3>2, <3>3, <3>4 DEF Increasing
  <2>2. \A u \in DOMAIN worker' : Holding(u)' => Increasing(worker'[u].buf)
    BY <1>4, <2>1 DEF Places, OrderInv, Holding
  <2>. QED
    BY <1>5, <2>2 DEF Places, OrderInv
<1>13. PlaceInv'
  <2>1. ~Taken(h)
    BY <1>1, <1>7, TrafficAssumption DEF Frames
  <2>2. /\ \A u \in DOMAIN worker : ~InBuf(u, h)
        /\ \A p \in Sent : ~Contains(p.data, h)
        /\ ~Contains(file, h)
    BY <2>1 DEF Taken
  <2>. QED
    BY <1>4, <1>5, <1>9, <2>2 DEF Places, PlaceInv
<1>. QED
  BY <1>8, <1>11, <1>12, <1>13 DEF Places

\* A post takes a piece of a buffer, and what it leaves is gone.
LEMMA PostKeeps ==
  ASSUME TypeInv, Places, NEW t \in DOMAIN worker, worker[t].pc = "post",
         UNCHANGED <<frames, queue, file>>, DOMAIN worker' = DOMAIN worker,
         \A u \in DOMAIN worker : u # t => worker'[u] = worker[u],
         Holding(t)' => worker'[t].buf = <<>>,
         NEW p, Sent' = Sent \cup {p}, Increasing(p.data),
         \A x : Contains(p.data, x) => Contains(worker[t].buf, x)
  PROVE  Places'
<1>1. \A x : \A u \in DOMAIN worker : InBuf(u, x)' => u # t /\ InBuf(u, x)
  BY EmptyHasNone DEF InBuf, Holding
<1>2. \A x : Contains(p.data, x) => InBuf(t, x)
  BY DEF InBuf, Holding
<1>3. \A x : Taken(x)' => Taken(x)
  BY <1>1, <1>2 DEF Taken
<1>4. TakenInv'
  BY <1>3 DEF Places, TakenInv
<1>5. OrderInv'
  <2>1. ASSUME NEW u \in DOMAIN worker', Holding(u)' PROVE Increasing(worker'[u].buf)
    BY <2>1, EmptySeq DEF Places, OrderInv, Increasing, Holding
  <2>. QED
    BY <2>1 DEF Places, OrderInv
<1>6. PlaceInv'
  <2>. SUFFICES ASSUME NEW x \in Frames
                PROVE  /\ \A u, v \in DOMAIN worker : InBuf(u, x)' /\ InBuf(v, x)' => u = v
                       /\ \A q, r \in Sent' : Contains(q.data, x) /\ Contains(r.data, x) => q = r
                       /\ \A u \in DOMAIN worker, q \in Sent' : ~(InBuf(u, x)' /\ Contains(q.data, x))
                       /\ \A u \in DOMAIN worker : ~(InBuf(u, x)' /\ Contains(file, x))
                       /\ \A q \in Sent' : ~(Contains(q.data, x) /\ Contains(file, x))
    BY DEF PlaceInv
  <2>1. /\ \A u, v \in DOMAIN worker : InBuf(u, x) /\ InBuf(v, x) => u = v
        /\ \A q, r \in Sent : Contains(q.data, x) /\ Contains(r.data, x) => q = r
        /\ \A u \in DOMAIN worker, q \in Sent : ~(InBuf(u, x) /\ Contains(q.data, x))
        /\ \A u \in DOMAIN worker : ~(InBuf(u, x) /\ Contains(file, x))
        /\ \A q \in Sent : ~(Contains(q.data, x) /\ Contains(file, x))
    BY DEF Places, PlaceInv
  <2>. QED
    BY <1>1, <1>2, <2>1
<1>7. QueueInv'
  BY DEF Places, QueueInv
<1>. QED
  BY <1>4, <1>5, <1>6, <1>7 DEF Places

\* A piece of a post goes to the record, and the post is over.
LEMMA RecordKeeps ==
  ASSUME TypeInv, Places, UNCHANGED <<frames, queue, worker>>,
         NEW p \in Sent, Sent' = Sent \ {p}, NEW chunk \in Seq(Frames), file' = file \o chunk,
         Increasing(chunk), \A x : Contains(chunk, x) => Contains(p.data, x)
  PROVE  /\ Places'
         /\ Len(file') = Len(file) + Len(chunk) /\ Len(file) \in Nat /\ Len(chunk) \in Nat
         /\ \A i \in 1 .. Len(file) : file'[i] = file[i]
         /\ \A i \in Len(file) + 1 .. Len(file') :
               i - Len(file) \in 1 .. Len(chunk) /\ file'[i] = chunk[i - Len(file)]
<1>1. \A x : Contains(file', x) <=> Contains(file, x) \/ Contains(chunk, x)
  BY InConcat, TypesOfPlaces
<1>2. \A x : \A u \in DOMAIN worker : InBuf(u, x)' <=> InBuf(u, x)
  BY DEF InBuf, Holding
<1>3. \A x : Taken(x)' => Taken(x)
  BY <1>1, <1>2 DEF Taken
<1>4. TakenInv'
  BY <1>3 DEF Places, TakenInv
<1>5. /\ file \in Seq(Frames) /\ Len(file) \in Nat /\ Len(chunk) \in Nat
      /\ file' \in Seq(Frames) /\ Len(file') = Len(file) + Len(chunk)
      /\ DOMAIN file' = 1 .. Len(file') /\ DOMAIN file = 1 .. Len(file)
      /\ \A i \in 1 .. Len(file) + Len(chunk) :
            file'[i] = IF i <= Len(file) THEN file[i] ELSE chunk[i - Len(file)]
  <2>1. file \in Seq(Frames)
    BY TypesOfPlaces
  <2>. QED
    BY <2>1, ConcatProperties, LenProperties
<1>6. /\ \A i \in 1 .. Len(file) : file'[i] = file[i]
      /\ \A i \in Len(file) + 1 .. Len(file') :
            i - Len(file) \in 1 .. Len(chunk) /\ file'[i] = chunk[i - Len(file)]
  BY <1>5
<1>7. IsInjective(file')
  <2>. SUFFICES ASSUME NEW i \in 1 .. Len(file'), NEW j \in 1 .. Len(file'),
                       file'[i] = file'[j], i < j
                PROVE  FALSE
    <3>1. ASSUME \A i, j \in 1 .. Len(file') : file'[i] = file'[j] => ~(i < j)
          PROVE  \A i, j \in 1 .. Len(file') : file'[i] = file'[j] => i = j
      BY <1>5, <3>1
    <3>. QED
      BY <1>5, <3>1 DEF IsInjective
  <2>1. CASE j <= Len(file)
    <3>1. i \in 1 .. Len(file) /\ j \in 1 .. Len(file) /\ file[i] = file[j]
      BY <1>5, <1>6, <2>1
    <3>2. i = j
      BY <1>5, <3>1 DEF Places, OrderInv, IsInjective
    <3>. QED
      BY <3>1, <3>2
  <2>2. CASE i > Len(file)
    <3>1. /\ i - Len(file) \in 1 .. Len(chunk) /\ j - Len(file) \in 1 .. Len(chunk)
          /\ i - Len(file) < j - Len(file)
          /\ file'[i] = chunk[i - Len(file)] /\ file'[j] = chunk[j - Len(file)]
      BY <1>5, <1>6, <2>2
    <3>2. chunk[i - Len(file)] < chunk[j - Len(file)] /\ chunk[i - Len(file)] \in Frames
      BY <3>1, ElementOfSeq DEF Increasing
    <3>3. chunk[i - Len(file)] \in Nat /\ chunk[j - Len(file)] = chunk[i - Len(file)]
      BY <3>1, <3>2, TypesOfPlaces
    <3>. QED
      BY <3>2, <3>3
  <2>3. CASE i <= Len(file) /\ j > Len(file)
    <3>1. Contains(file, file'[i])
      BY <1>5, <1>6, <2>3 DEF Contains
    <3>2. Contains(chunk, file'[j])
      <4>1. j - Len(file) \in 1 .. Len(chunk) /\ file'[j] = chunk[j - Len(file)]
        BY <1>5, <1>6, <2>3
      <4>. QED
        BY <4>1 DEF Contains
    <3>3. file'[i] \in Frames
      BY <1>5, ElementOfSeq
    <3>. QED
      BY <3>1, <3>2, <3>3 DEF Places, PlaceInv
  <2>. QED
    BY <1>5, <2>1, <2>2, <2>3
<1>8. OrderInv'
  BY <1>7 DEF Places, OrderInv, Holding
<1>9. PlaceInv'
  <2>. SUFFICES ASSUME NEW x \in Frames
                PROVE  /\ \A u, v \in DOMAIN worker : InBuf(u, x) /\ InBuf(v, x) => u = v
                       /\ \A q, r \in Sent' : Contains(q.data, x) /\ Contains(r.data, x) => q = r
                       /\ \A u \in DOMAIN worker, q \in Sent' : ~(InBuf(u, x) /\ Contains(q.data, x))
                       /\ \A u \in DOMAIN worker : ~(InBuf(u, x) /\ Contains(file', x))
                       /\ \A q \in Sent' : ~(Contains(q.data, x) /\ Contains(file', x))
    BY <1>2 DEF PlaceInv
  <2>1. /\ \A u, v \in DOMAIN worker : InBuf(u, x) /\ InBuf(v, x) => u = v
        /\ \A q, r \in Sent : Contains(q.data, x) /\ Contains(r.data, x) => q = r
        /\ \A u \in DOMAIN worker, q \in Sent : ~(InBuf(u, x) /\ Contains(q.data, x))
        /\ \A u \in DOMAIN worker : ~(InBuf(u, x) /\ Contains(file, x))
        /\ \A q \in Sent : ~(Contains(q.data, x) /\ Contains(file, x))
    BY DEF Places, PlaceInv
  <2>. QED
    BY <1>1, <2>1
<1>10. QueueInv'
  BY DEF Places, QueueInv
<1>. QED
  BY <1>4, <1>5, <1>6, <1>8, <1>9, <1>10 DEF Places

-----------------------------------------------------------------------------
(* Every step keeps the places *)

LEMMA PlacesInit == Init => Places
<1>. SUFFICES ASSUME Init PROVE Places
  OBVIOUS
<1>1. /\ queue = <<>> /\ worker = <<>> /\ posts = {} /\ file = <<>>
      /\ DOMAIN <<>> = {} /\ Len(<<>>) = 0
  BY EmptySeq, LenProperties DEF Init
<1>. QED
  BY <1>1, EmptyHasNone
  DEF Places, QueueInv, TakenInv, OrderInv, PlaceInv, Taken, InBuf, Sent, IsInjective

LEMMA CallerKeeps ==
  ASSUME IInv, TypeInv', NEW c \in Callers, CallStart(c) \/ CallPublish(c)
  PROVE  Places'
<1>. USE DEF IInv
<1>1. CASE CallStart(c)
  <2>1. \A t \in DOMAIN worker' : \/ t \in DOMAIN worker /\ worker'[t] = worker[t]
                                  \/ worker'[t].buf = <<>>
    <3>1. CASE started
      BY <1>1, <3>1 DEF CallStart
    <3>2. CASE ~started
      <4>. DEFINE new == [pc |-> "get", buf |-> <<>>, draining |-> FALSE]
      <4>1. new \in Worker
        BY EmptySeq DEF Worker
      <4>2. worker' = Append(worker, new)
        BY <1>1, <3>2 DEF CallStart
      <4>3. new.buf = <<>>
        OBVIOUS
      <4>. HIDE DEF new
      <4>4. /\ worker' \in Seq(Worker) /\ Len(worker') = Len(worker) + 1
            /\ \A i \in 1 .. Len(worker) : worker'[i] = worker[i]
            /\ worker'[Len(worker) + 1] = new
        BY <4>1, <4>2, AppendProperties DEF TypeInv, TypeOK
      <4>5. DOMAIN worker' = 1 .. Len(worker) + 1
        BY <4>4, LenProperties
      <4>. QED
        BY <4>3, <4>4, <4>5, TypesOfPlaces
    <3>. QED
      BY <3>1, <3>2
  <2>2. UNCHANGED <<frames, queue, posts, file>> /\ Sent' = Sent
    BY <1>1 DEF CallStart, recordVars, Sent
  <2>3. QueueInv'
    BY <2>2 DEF Places, QueueInv
  <2>. QED
    BY <2>1, <2>2, <2>3, NothingTaken, TypesOfPlaces DEF Holding
<1>2. CASE CallPublish(c)
  <2>1. frames + 1 \in Frames
    BY <1>2, TypesOfPlaces, TrafficAssumption DEF CallPublish, Frames
  <2>2. /\ frames' = frames + 1 /\ queue' = Append(queue, frames + 1)
        /\ UNCHANGED <<worker, posts, file>> /\ Sent' = Sent
    BY <1>2 DEF CallPublish, recordVars, Sent
  <2>3. /\ Len(queue') = Len(queue) + 1 /\ queue'[Len(queue) + 1] = frames + 1
        /\ \A i \in 1 .. Len(queue) : queue'[i] = queue[i]
    BY <2>1, <2>2, AppendProperties DEF TypeInv, TypeOK
  <2>4. /\ \A i \in DOMAIN queue' : \/ i = Len(queue) + 1 /\ queue'[i] = frames + 1
                                    \/ i \in DOMAIN queue /\ queue'[i] = queue[i]
        /\ \A i \in DOMAIN queue : queue[i] <= frames /\ queue[i] \in Nat
    <3>1. DOMAIN queue' = 1 .. Len(queue) + 1 /\ DOMAIN queue = 1 .. Len(queue) /\ Len(queue) \in Nat
      BY <2>3, QueueNext, TypesOfPlaces
    <3>2. \A i \in DOMAIN queue : queue[i] <= frames /\ queue[i] \in Nat
      BY TypesOfPlaces DEF Places, QueueInv
    <3>. QED
      <4>1. ASSUME NEW i \in 1 .. Len(queue) PROVE i \in DOMAIN queue /\ queue'[i] = queue[i]
        BY <2>3, <3>1
      <4>2. \A i \in DOMAIN queue' : i = Len(queue) + 1 \/ i \in 1 .. Len(queue)
        BY <3>1
      <4>. QED
        BY <2>3, <3>2, <4>1, <4>2
  <2>5. QueueInv'
    <3>1. \A i \in DOMAIN queue' : queue'[i] <= frames'
      BY <2>2, <2>4, TypesOfPlaces
    <3>2. ASSUME NEW i \in DOMAIN queue', NEW j \in DOMAIN queue', i < j,
                 queue'[i] # Sentinel, queue'[j] # Sentinel
          PROVE  queue'[i] < queue'[j]
      <4>1. i \in DOMAIN queue /\ queue'[i] = queue[i]
        BY <2>3, <2>4, <3>2, QueueNext, TypesOfPlaces
      <4>2. CASE j \in DOMAIN queue /\ queue'[j] = queue[j]
        BY <3>2, <4>1, <4>2 DEF Places, QueueInv
      <4>3. CASE queue'[j] = frames + 1
        BY <2>4, <4>1, <4>3, TypesOfPlaces
      <4>. QED
        BY <2>4, <4>2, <4>3
    <3>. QED
      BY <3>1, <3>2 DEF QueueInv
  <2>. QED
    BY <2>2, <2>4, <2>5, NothingTaken, TypesOfPlaces DEF Holding
<1>. QED
  BY <1>1, <1>2

LEMMA PublisherKeeps ==
  ASSUME IInv, TypeInv', NEW t \in DOMAIN worker, Publisher(t)
  PROVE  Places'
<1>. USE DEF IInv
<1>1. /\ worker[t] \in Worker /\ worker[t].buf \in Seq(Frames) /\ t \in Threads
      /\ Flushed(worker[t]) \in Worker /\ FoundEmpty(worker[t]) \in Worker
      /\ \A pc \in {"get", "post", "await", "ended", "crashed"} :
            [worker[t] EXCEPT !.pc = pc] \in Worker
      /\ [worker[t] EXCEPT !.draining = TRUE] \in Worker
      /\ worker \in Seq(Worker)
      /\ frames \in Nat
  BY ThreadType, TypesOfPlaces DEF TypeInv, TypeOK
<1>2. ASSUME NEW w \in Worker, Becomes(t, w), UNCHANGED <<frames, file>>, Sent' \subseteq Sent,
             w.pc \in {"get", "post"} => w.buf = <<>> \/ (Holding(t) /\ w.buf = worker[t].buf),
             queue' = queue \/ (queue # <<>> /\ queue' = Tail(queue))
      PROVE  Places'
  <2>1. /\ DOMAIN worker' = DOMAIN worker /\ worker'[t] = w
        /\ \A u \in DOMAIN worker : u # t => worker'[u] = worker[u]
    BY <1>1, <1>2, WorkerBecomes
  <2>2. /\ \A i \in DOMAIN queue' : \E j \in DOMAIN queue : queue'[i] = queue[j]
        /\ QueueInv'
    <3>1. CASE queue' = queue
      BY <1>2, <3>1 DEF Places, QueueInv
    <3>2. CASE queue # <<>> /\ queue' = Tail(queue)
      <4>1. /\ DOMAIN queue = 1 .. Len(queue) /\ Len(queue) \in Nat \ {0}
            /\ Len(queue') = Len(queue) - 1 /\ DOMAIN queue' = 1 .. Len(queue')
            /\ \A i \in 1 .. Len(queue') : queue'[i] = queue[i + 1]
        BY <3>2, InTail, TypesOfPlaces, QueueNext DEF TypeInv, TypeOK
      <4>2. \A i \in DOMAIN queue' : i + 1 \in DOMAIN queue /\ queue'[i] = queue[i + 1]
        BY <4>1
      <4>3. \A i, j \in DOMAIN queue' : i < j => i + 1 < j + 1
        BY <4>1
      <4>4. /\ \A i \in DOMAIN queue' : queue'[i] <= frames'
            /\ \A i, j \in DOMAIN queue' :
                  i < j /\ queue'[i] # Sentinel /\ queue'[j] # Sentinel => queue'[i] < queue'[j]
        BY <1>2, <4>2, <4>3 DEF Places, QueueInv
      <4>. QED
        BY <4>2, <4>4 DEF QueueInv
    <3>. QED
      BY <1>2, <3>1, <3>2
  <2>3. ASSUME NEW u \in DOMAIN worker', Holding(u)'
        PROVE  \/ worker'[u].buf = <<>>
               \/ u \in DOMAIN worker /\ Holding(u) /\ worker'[u].buf = worker[u].buf
    <3>1. CASE u = t
      BY <1>2, <2>1, <2>3, <3>1 DEF Holding
    <3>2. CASE u # t
      BY <2>1, <2>3, <3>2 DEF Holding
    <3>. QED
      BY <3>1, <3>2
  <2>. QED
    BY <1>1, <1>2, <2>2, <2>3, NothingTaken
<1>3. CASE TakeFrame(t)
  BY <1>3, TakeKeeps
<1>4. CASE TakeSentinel(t)
  <2>1. Sent' = Sent /\ UNCHANGED <<frames, file>>
    BY <1>4 DEF TakeSentinel, Sent, recordVars
  <2>2. Holding(t) /\ [worker[t] EXCEPT !.draining = TRUE].buf = worker[t].buf
    BY <1>1, <1>4 DEF TakeSentinel, Holding, Worker
  <2>. QED
    BY <1>1, <1>2, <1>4, <2>1, <2>2 DEF TakeSentinel
<1>5. CASE QueueEmpty(t)
  <2>1. Sent' = Sent /\ UNCHANGED <<frames, file>>
    BY <1>5 DEF QueueEmpty, Sent, recordVars
  <2>2. Holding(t) /\ FoundEmpty(worker[t]).buf = worker[t].buf
    BY <1>1, <1>5 DEF QueueEmpty, Holding, Worker, FoundEmpty
  <2>. QED
    BY <1>1, <1>2, <1>5, <2>1, <2>2 DEF QueueEmpty
<1>6. CASE PostSent(t)
  <2>. DEFINE p == [by |-> t, data |-> worker[t].buf, stage |-> "sent"]
  <2>1. Sent' = Sent \cup {p} /\ UNCHANGED <<frames, queue, file>> /\ worker[t].pc = "post"
    BY <1>6 DEF PostSent, Sent, recordVars
  <2>2. /\ DOMAIN worker' = DOMAIN worker /\ worker'[t] = [worker[t] EXCEPT !.pc = "await"]
        /\ \A u \in DOMAIN worker : u # t => worker'[u] = worker[u]
    BY <1>1, <1>6, WorkerBecomes DEF PostSent
  <2>3. ~Holding(t)'
    BY <1>1, <2>2 DEF Holding, Worker
  <2>4. Increasing(worker[t].buf)
    BY <2>1 DEF Places, OrderInv, Holding
  <2>5. p.data = worker[t].buf
    OBVIOUS
  <2>. HIDE DEF p
  <2>. QED
    BY <2>1, <2>2, <2>3, <2>4, <2>5, PostKeeps
<1>7. CASE PostBreaks(t)
  <2>1. PICK n \in 0 .. Len(worker[t].buf) - 1 :
            posts' = IF n = 0 THEN posts
                     ELSE posts \cup {[by |-> t, data |-> SubSeq(worker[t].buf, 1, n),
                                       stage |-> "sent"]}
    BY <1>7 DEF PostBreaks
  <2>2. /\ UNCHANGED <<frames, queue, file>> /\ worker[t].pc = "post"
        /\ Becomes(t, Flushed(worker[t])) /\ Flushed(worker[t]).buf = <<>>
    BY <1>1, <1>7 DEF PostBreaks, recordVars, Flushed, Worker
  <2>3. CASE n = 0
    <3>1. Sent' = Sent
      BY <2>1, <2>3 DEF Sent
    <3>. DEFINE w == Flushed(worker[t])
    <3>2. w \in Worker /\ Becomes(t, w) /\ w.buf = <<>> /\ Sent' \subseteq Sent
      BY <1>1, <2>2, <3>1
    <3>3. queue' = queue /\ frames' = frames /\ file' = file
      BY <2>2
    <3>. HIDE DEF w
    <3>4. w.pc \in {"get", "post"} => w.buf = <<>> \/ (Holding(t) /\ w.buf = worker[t].buf)
      BY <3>2
    <3>. QED
      BY <1>2, <3>2, <3>3, <3>4
  <2>4. CASE n # 0
    <3>. DEFINE p == [by |-> t, data |-> SubSeq(worker[t].buf, 1, n), stage |-> "sent"]
    <3>1. Sent' = Sent \cup {p}
      BY <2>1, <2>4 DEF Sent
    <3>2. /\ DOMAIN worker' = DOMAIN worker /\ worker'[t].buf = <<>>
          /\ \A u \in DOMAIN worker : u # t => worker'[u] = worker[u]
      BY <1>1, <2>2, WorkerBecomes
    <3>3. n \in 0 .. Len(worker[t].buf)
      BY <1>1, LenProperties
    <3>4. Increasing(worker[t].buf)
      BY <2>2 DEF Places, OrderInv, Holding
    <3>5. /\ p.data = SubSeq(worker[t].buf, 1, n)
          /\ Increasing(SubSeq(worker[t].buf, 1, n))
          /\ \A x : Contains(SubSeq(worker[t].buf, 1, n), x) => Contains(worker[t].buf, x)
      BY <1>1, <3>3, <3>4, InPrefix
    <3>. HIDE DEF p
    <3>. QED
      BY <2>2, <3>1, <3>2, <3>5, PostKeeps
  <2>. QED
    BY <2>3, <2>4
<1>8. CASE ReplyRead(t)
  <2>1. /\ UNCHANGED <<frames, queue, file>>
        /\ Becomes(t, Flushed(worker[t])) /\ Flushed(worker[t]).buf = <<>>
    BY <1>1, <1>8 DEF ReplyRead, recordVars, Flushed, Worker
  <2>2. Sent' \subseteq Sent
    <3>1. PICK p \in posts : p.stage \in {"ok", "refused"}
                          /\ Stage(p, IF p.stage = "ok" THEN "acked" ELSE p.stage)
      BY <1>8 DEF ReplyRead
    <3>. QED
      BY <3>1, Staged DEF TypeInv, TypeOK
  <2>. DEFINE w == Flushed(worker[t])
  <2>3. w \in Worker /\ Becomes(t, w) /\ w.buf = <<>>
    BY <1>1, <2>1
  <2>4. queue' = queue /\ frames' = frames /\ file' = file
    BY <2>1
  <2>. HIDE DEF w
  <2>5. w.pc \in {"get", "post"} => w.buf = <<>> \/ (Holding(t) /\ w.buf = worker[t].buf)
    BY <2>3
  <2>. QED
    BY <1>2, <2>2, <2>3, <2>4, <2>5
<1>9. CASE ReplyLost(t)
  <2>1. Sent' = Sent /\ UNCHANGED <<frames, queue, file>>
    BY <1>9 DEF ReplyLost, Sent, recordVars
  <2>2. [worker[t] EXCEPT !.pc = "crashed"].pc = "crashed"
    BY <1>1 DEF Worker
  <2>. QED
    BY <1>1, <1>2, <1>9, <2>1, <2>2 DEF ReplyLost
<1>. QED
  BY <1>3, <1>4, <1>5, <1>6, <1>7, <1>8, <1>9 DEF Publisher

LEMMA StopKeeps ==
  ASSUME IInv, TypeInv', Stop
  PROVE  Places'
<1>. USE DEF IInv
<1>1. UNCHANGED <<frames, worker, posts, file>> /\ Sent' = Sent
  BY DEF Stop, StopBegins, JoinReturns, StopClears, publisherVars, recordVars, Sent
<1>2. queue' = queue \/ queue' = Append(queue, Sentinel)
  BY DEF Stop, StopBegins, JoinReturns, StopClears, publisherVars
<1>3. \A i \in DOMAIN queue' : queue'[i] # Sentinel => i \in DOMAIN queue /\ queue'[i] = queue[i]
  <2>1. CASE queue' = Append(queue, Sentinel)
    <3>1. /\ Len(queue') = Len(queue) + 1 /\ queue'[Len(queue) + 1] = Sentinel
          /\ \A i \in 1 .. Len(queue) : queue'[i] = queue[i]
      BY <2>1, AppendProperties DEF TypeInv, TypeOK
    <3>2. \A i \in DOMAIN queue' : i = Len(queue) + 1 \/ i \in 1 .. Len(queue)
      BY <3>1, QueueNext, TypesOfPlaces
    <3>. QED
      BY <3>1, <3>2, TypesOfPlaces
  <2>. QED
    BY <1>2, <2>1
<1>4. QueueInv'
  <2>1. \A i \in DOMAIN queue' : queue'[i] <= frames'
    BY <1>1, <1>3, TypesOfPlaces DEF Places, QueueInv, Sentinel
  <2>. QED
    BY <1>3, <2>1 DEF Places, QueueInv
<1>. QED
  BY <1>1, <1>3, <1>4, NothingTaken, TypesOfPlaces DEF Holding

\* What a post records, and what that leaves of the invariant.
LEMMA VerifierKeeps ==
  ASSUME IInv, TypeInv', Verifier
  PROVE  Places'
<1>. USE DEF IInv
<1>1. UNCHANGED <<frames, queue, worker>>
  BY DEF Verifier, AppendTraffic, AppendFails, RecordTraffic, FinalizeTraffic, RecordFinalize,
         publisherVars
<1>2. ASSUME file' = file, Sent' \subseteq Sent PROVE Places'
  <2>1. QueueInv'
    BY <1>1 DEF Places, QueueInv
  <2>. QED
    BY <1>1, <1>2, <2>1, NothingTaken, TypesOfPlaces DEF Holding
<1>3. ASSUME NEW p \in posts, AppendTraffic(p) PROVE Places'
  <2>1. p \in Sent /\ p.data \in Seq(Frames) /\ Sent' = Sent \ {p}
    BY <1>3, Staged DEF AppendTraffic, Sent, TypeInv, TypeOK, Post
  <2>2. CASE file' = file
    BY <1>2, <2>1, <2>2
  <2>3. CASE file' = file \o p.data
    <3>1. Increasing(p.data)
      BY <2>1 DEF Places, OrderInv
    <3>. QED
      BY <1>1, <2>1, <2>3, <3>1, RecordKeeps
  <2>. QED
    BY <1>3, <2>2, <2>3 DEF AppendTraffic
<1>4. ASSUME NEW p \in posts, AppendFails(p) PROVE Places'
  <2>1. p \in Sent /\ p.data \in Seq(Frames) /\ Sent' = Sent \ {p}
    BY <1>4, Staged DEF AppendFails, Sent, TypeInv, TypeOK, Post
  <2>2. PICK n \in 0 .. Len(p.data) : file' = file \o SubSeq(p.data, 1, n)
    BY <1>4 DEF AppendFails
  <2>. DEFINE chunk == SubSeq(p.data, 1, n)
  <2>3. Increasing(p.data)
    BY <2>1 DEF Places, OrderInv
  <2>4. /\ chunk \in Seq(Frames) /\ Increasing(chunk) /\ file' = file \o chunk
        /\ \A x : Contains(chunk, x) => Contains(p.data, x)
    BY <2>1, <2>2, <2>3, InPrefix
  <2>. HIDE DEF chunk
  <2>. QED
    BY <1>1, <2>1, <2>4, RecordKeeps
<1>5. ASSUME NEW p \in posts, RecordTraffic(p) PROVE Places'
  <2>1. Sent' \subseteq Sent /\ file' = file
    BY <1>5, Staged DEF RecordTraffic, TypeInv, TypeOK
  <2>. QED
    BY <1>2, <2>1
<1>6. ASSUME NEW f \in Finalizers, FinalizeTraffic(f) \/ RecordFinalize(f) PROVE Places'
  <2>1. Sent' = Sent /\ file' = file
    BY <1>6 DEF FinalizeTraffic, RecordFinalize, Sent
  <2>. QED
    BY <1>2, <2>1
<1>. QED
  BY <1>3, <1>4, <1>5, <1>6 DEF Verifier

LEMMA IInvNext == IInv /\ [Next]_vars => IInv'
<1>. SUFFICES ASSUME IInv, [Next]_vars PROVE IInv'
  OBVIOUS
<1>1. TypeInv'
  BY TypeNext DEF IInv
<1>2. CASE Next
  BY <1>1, <1>2, CallerKeeps, PublisherKeeps, StopKeeps, VerifierKeeps DEF IInv, Next
<1>3. CASE UNCHANGED vars
  BY <1>1, <1>3 DEF vars, publisherVars, stopVars, recordVars, IInv, Places, QueueInv, TakenInv,
                    OrderInv, PlaceInv, Taken, InBuf, Holding, Sent
<1>. QED
  BY <1>2, <1>3

LEMMA Invariance == Spec => []IInv
<1>1. Init => IInv
  BY TypeInit, PlacesInit DEF IInv
<1>. QED
  BY <1>1, IInvNext, PTL DEF Spec

-----------------------------------------------------------------------------
(* Refinement *)

\* A post that is recorded, whole or in part, is a step of the evidence.
LEMMA RecordIsRecord ==
  ASSUME IInv, UNCHANGED <<frames, queue, worker>>, ~IsFinalized, UNCHANGED finalized,
         NEW p \in Sent, Sent' = Sent \ {p}, NEW chunk \in Seq(Frames), file' = file \o chunk,
         Increasing(chunk), \A x : Contains(chunk, x) => Contains(p.data, x)
  PROVE  Evidence!Record
<1>1. /\ Places'
      /\ Len(file') = Len(file) + Len(chunk) /\ Len(file) \in Nat /\ Len(chunk) \in Nat
      /\ \A i \in 1 .. Len(file) : file'[i] = file[i]
      /\ \A i \in Len(file) + 1 .. Len(file') :
            i - Len(file) \in 1 .. Len(chunk) /\ file'[i] = chunk[i - Len(file)]
  BY RecordKeeps DEF IInv
<1>2. /\ file \in Seq(Frames) /\ file' \in Seq(Frames) /\ DOMAIN file' = 1 .. Len(file')
      /\ frames \in Nat
  BY TypesOfPlaces, ConcatProperties, LenProperties DEF IInv
<1>3. Evidence!Extends(file', file)
  <2>1. Len(file) \in 0 .. Len(file')
    BY <1>1
  <2>2. /\ SubSeq(file', 1, Len(file)) \in Seq(Frames) /\ Len(SubSeq(file', 1, Len(file))) = Len(file)
        /\ \A i \in 1 .. Len(file) : SubSeq(file', 1, Len(file))[i] = file'[i]
    BY <1>2, <2>1, InPrefix
  <2>3. SubSeq(file', 1, Len(file)) = file
    BY <1>1, <1>2, <2>2, SeqEqual
  <2>. QED
    BY <1>1, <2>3 DEF Evidence!Extends
<1>4. \A i \in DOMAIN file' : file'[i] \in 1 .. frames
  <2>. SUFFICES ASSUME NEW i \in DOMAIN file' PROVE file'[i] \in 1 .. frames
    OBVIOUS
  <2>1. file'[i] \in Frames
    BY <1>2, ElementOfSeq
  <2>2. ASSUME NEW x \in Frames, x = file'[i] PROVE x <= frames
    <3>1. Taken(x)'
      BY <1>2, <2>2 DEF Taken, Contains
    <3>. QED
      BY <1>1, <3>1 DEF Places, TakenInv
  <2>3. file'[i] <= frames
    BY <2>1, <2>2
  <2>. QED
    BY <1>2, <2>1, <2>3, TrafficAssumption DEF Frames
<1>5. \A i, j \in DOMAIN file' : file'[i] = file'[j] => i = j
  BY <1>1 DEF Places, OrderInv, IsInjective
<1>6. \A i, j \in Len(file) + 1 .. Len(file') : i < j => file'[i] < file'[j]
  <2>. SUFFICES ASSUME NEW i \in Len(file) + 1 .. Len(file'), NEW j \in Len(file) + 1 .. Len(file'),
                       i < j
                PROVE  file'[i] < file'[j]
    OBVIOUS
  <2>1. /\ i - Len(file) \in 1 .. Len(chunk) /\ file'[i] = chunk[i - Len(file)]
        /\ j - Len(file) \in 1 .. Len(chunk) /\ file'[j] = chunk[j - Len(file)]
        /\ i - Len(file) < j - Len(file)
    BY <1>1
  <2>. QED
    BY <2>1 DEF Increasing
<1>. QED
  BY <1>3, <1>4, <1>5, <1>6 DEF Evidence!Record, IsFinalized

LEMMA EvidenceStep ==
  ASSUME IInv, [Next]_vars
  PROVE  [Evidence!Next]_(Evidence!vars)
<1>1. CASE UNCHANGED <<frames, file, finalized>>
  BY <1>1 DEF Evidence!vars, IsFinalized
<1>2. ASSUME NEW c \in Callers, CallStart(c) \/ CallPublish(c)
      PROVE  [Evidence!Next]_(Evidence!vars)
  <2>1. CASE CallStart(c)
    BY <1>1, <2>1 DEF CallStart, recordVars
  <2>2. CASE CallPublish(c)
    <3>1. Evidence!Publish
      BY <2>2 DEF CallPublish, recordVars, Evidence!Publish, IsFinalized
    <3>. QED
      BY <3>1 DEF Evidence!Next
  <2>. QED
    BY <1>2, <2>1, <2>2
<1>3. ASSUME NEW t \in DOMAIN worker, Publisher(t)
      PROVE  [Evidence!Next]_(Evidence!vars)
  BY <1>1, <1>3 DEF Publisher, TakeFrame, TakeSentinel, QueueEmpty, PostSent, PostBreaks, ReplyRead,
                    ReplyLost, recordVars
<1>4. CASE Stop
  BY <1>1, <1>4 DEF Stop, StopBegins, JoinReturns, StopClears, publisherVars, recordVars
<1>5. ASSUME NEW p \in posts, AppendTraffic(p) \/ AppendFails(p)
      PROVE  [Evidence!Next]_(Evidence!vars)
  <2>1. p \in Sent /\ p.data \in Seq(Frames) /\ Sent' = Sent \ {p}
    BY <1>5, Staged DEF AppendTraffic, AppendFails, Sent, IInv, TypeInv, TypeOK, Post
  <2>2. UNCHANGED <<frames, queue, worker, finalized>>
    BY <1>5 DEF AppendTraffic, AppendFails, publisherVars
  <2>3. Increasing(p.data)
    BY <2>1 DEF IInv, Places, OrderInv
  <2>4. CASE IsFinalized
    BY <1>1, <1>5, <2>2, <2>4 DEF AppendTraffic, AppendFails
  <2>5. CASE ~IsFinalized
    <3>1. PICK chunk : /\ chunk \in Seq(Frames) /\ file' = file \o chunk /\ Increasing(chunk)
                       /\ \A x : Contains(chunk, x) => Contains(p.data, x)
      <4>1. CASE AppendTraffic(p)
        BY <2>1, <2>3, <2>5, <4>1 DEF AppendTraffic
      <4>2. CASE AppendFails(p)
        <5>1. PICK n \in 0 .. Len(p.data) : file' = file \o SubSeq(p.data, 1, n)
          BY <4>2 DEF AppendFails
        <5>. QED
          BY <2>1, <2>3, <5>1, InPrefix
      <4>. QED
        BY <1>5, <4>1, <4>2
    <3>2. Evidence!Record
      BY <2>1, <2>2, <2>5, <3>1, RecordIsRecord
    <3>. QED
      BY <3>2 DEF Evidence!Next
  <2>. QED
    BY <2>4, <2>5
<1>6. ASSUME NEW p \in posts, RecordTraffic(p)
      PROVE  [Evidence!Next]_(Evidence!vars)
  BY <1>1, <1>6 DEF RecordTraffic, publisherVars
<1>7. ASSUME NEW f \in Finalizers, FinalizeTraffic(f)
      PROVE  [Evidence!Next]_(Evidence!vars)
  <2>1. Evidence!Seal
    BY <1>7 DEF FinalizeTraffic, IsFinalized, publisherVars, Evidence!Seal
  <2>. QED
    BY <2>1 DEF Evidence!Next
<1>8. ASSUME NEW f \in Finalizers, RecordFinalize(f)
      PROVE  [Evidence!Next]_(Evidence!vars)
  BY <1>1, <1>8 DEF RecordFinalize, publisherVars
<1>9. CASE UNCHANGED vars
  BY <1>1, <1>9 DEF vars, publisherVars, recordVars
<1>. QED
  BY <1>2, <1>3, <1>4, <1>5, <1>6, <1>7, <1>8, <1>9 DEF Next, Verifier

(* However frames are batched, posted, lost, stored in part or finalised    *)
(* meanwhile, the record is a stream of evidence: published frames, each    *)
(* once, in order within a batch, and frozen when its digest is given out.  *)
THEOREM RecordIsEvidence == Spec => ImplementsEvidence
<1>1. Init => Evidence!Init
  BY DEF Init, Evidence!Init, IsFinalized
<1>2. IInv /\ [Next]_vars => [Evidence!Next]_(Evidence!vars)
  BY EvidenceStep
<1>. QED
  BY <1>1, <1>2, Invariance, PTL DEF Spec, ImplementsEvidence, Evidence!Spec

-----------------------------------------------------------------------------
(* A stop drains *)

LEMMA DrainUnchanged ==
  ASSUME DrainInv, UNCHANGED <<queue, started, thread, worker, stopping, abandoned>>
  PROVE  DrainInv'
BY DEF DrainInv, Clean, PastMark, SentinelWaits

LEMMA DrainCaller ==
  ASSUME IInv, DrainInv, TypeInv', NEW c \in Callers, CallStart(c) \/ CallPublish(c)
  PROVE  DrainInv'
<1>1. CASE CallStart(c) /\ started
  BY <1>1, DrainUnchanged DEF CallStart, stopVars
<1>2. CASE CallStart(c) /\ ~started
  <2>. DEFINE new == [pc |-> "get", buf |-> <<>>, draining |-> FALSE]
  <2>1. new \in Worker /\ new.pc = "get" /\ ~new.draining
    BY EmptySeq DEF Worker
  <2>2. worker' = Append(worker, new) /\ thread' = Len(worker') /\ UNCHANGED <<queue, stopVars>>
    BY <1>2 DEF CallStart
  <2>. HIDE DEF new
  <2>3. /\ worker' \in Seq(Worker) /\ Len(worker') = Len(worker) + 1
        /\ \A i \in 1 .. Len(worker) : worker'[i] = worker[i]
        /\ worker'[Len(worker) + 1] = new
    BY <2>1, <2>2, AppendProperties DEF IInv, TypeInv, TypeOK
  <2>4. /\ DOMAIN worker' = 1 .. Len(worker) + 1 /\ DOMAIN worker = 1 .. Len(worker)
        /\ Len(worker) \in Nat
    BY <2>3, LenProperties DEF IInv, TypeInv, TypeOK
  <2>5. thread = 0 /\ stopping.pc = "idle"
    BY <1>2 DEF IInv, TypeInv, TypeOK
  <2>6. \A t \in DOMAIN worker' :
           \/ t = thread' /\ worker'[t] = new
           \/ t \in DOMAIN worker /\ t # thread /\ worker'[t] = worker[t]
    BY <2>2, <2>3, <2>4, <2>5
  <2>7. thread' \in DOMAIN worker' /\ worker'[thread'] = new
    BY <2>2, <2>3, <2>4
  <2>8. \A t \in DOMAIN worker : t \in DOMAIN worker' /\ worker'[t] = worker[t]
    BY <2>3, <2>4
  <2>9. Clean' => Clean
    BY <2>2, <2>8 DEF Clean, stopVars
  <2>. QED
    BY <2>1, <2>2, <2>5, <2>6, <2>7, <2>9 DEF DrainInv, stopVars
<1>3. CASE CallPublish(c)
  <2>1. frames + 1 \in Frames /\ frames \in Nat
    BY <1>3, TypesOfPlaces, TrafficAssumption DEF CallPublish, Frames, IInv
  <2>2. queue' = Append(queue, frames + 1) /\ UNCHANGED <<started, thread, worker, stopVars>>
    BY <1>3 DEF CallPublish
  <2>3. /\ Len(queue') = Len(queue) + 1 /\ queue'[Len(queue) + 1] = frames + 1
        /\ \A i \in 1 .. Len(queue) : queue'[i] = queue[i]
        /\ DOMAIN queue' = 1 .. Len(queue) + 1 /\ DOMAIN queue = 1 .. Len(queue)
        /\ Len(queue) \in Nat
    <3>1. queue \in Seq(Frames \cup {Sentinel}) /\ frames + 1 \in Frames \cup {Sentinel}
      BY <2>1 DEF IInv, TypeInv, TypeOK
    <3>2. queue' \in Seq(Frames \cup {Sentinel})
      BY DEF TypeInv, TypeOK
    <3>. QED
      BY <2>2, <3>1, <3>2, AppendProperties, LenProperties
  <2>4. stopping.mark \in Nat /\ stopping.mark < frames + 1 /\ frames + 1 # Sentinel
    <3>1. stopping.mark \in 0 .. frames /\ frames \in Nat
      BY DEF IInv, TypeInv, TypeOK
    <3>. QED
      BY <3>1 DEF Sentinel
  <2>5. \A i \in DOMAIN queue' :
           \/ i = Len(queue) + 1 /\ queue'[i] # Sentinel /\ queue'[i] > stopping.mark
           \/ i \in DOMAIN queue /\ queue'[i] = queue[i]
    BY <2>1, <2>3, <2>4
  <2>6. PastMark => PastMark'
    BY <2>2, <2>5 DEF PastMark, stopVars
  <2>7. SentinelWaits => SentinelWaits'
    <3>. SUFFICES ASSUME SentinelWaits PROVE SentinelWaits'
      OBVIOUS
    <3>1. PICK k \in DOMAIN queue :
              /\ queue[k] = Sentinel
              /\ \A i \in DOMAIN queue : i < k => queue[i] # Sentinel
              /\ \A i \in DOMAIN queue : i > k => queue[i] > stopping.mark
      BY DEF SentinelWaits
    <3>2. k \in DOMAIN queue' /\ queue'[k] = Sentinel
      BY <2>3, <3>1
    <3>. QED
      BY <2>2, <2>5, <3>1, <3>2 DEF SentinelWaits, stopVars
  <2>. QED
    BY <2>2, <2>5, <2>6, <2>7 DEF DrainInv, Clean, stopVars
<1>. QED
  BY <1>1, <1>2, <1>3

\* A thread that takes nothing from the queue and dies at most by ending.
LEMMA DrainKeeps ==
  ASSUME IInv, DrainInv, NEW t \in DOMAIN worker, NEW w \in Worker, Becomes(t, w),
         Alive(t), UNCHANGED <<queue, started, thread, stopVars>>,
         w.draining = worker[t].draining, w.pc = "ended" => w.draining /\ w.buf = <<>>
  PROVE  DrainInv'
<1>1. /\ DOMAIN worker' = DOMAIN worker /\ worker'[t] = w
      /\ \A u \in DOMAIN worker : u # t => worker'[u] = worker[u]
  BY WorkerBecomes DEF IInv, TypeInv, TypeOK
<1>2. Clean' => Clean
  BY <1>1 DEF Clean, Alive, stopVars
<1>3. Clean => t = thread /\ stopping.pc # "clear"
  BY DEF DrainInv, Alive
<1>. QED
  BY <1>1, <1>2, <1>3 DEF DrainInv, PastMark, SentinelWaits, stopVars

LEMMA DrainPublisher ==
  ASSUME IInv, DrainInv, TypeInv', NEW t \in DOMAIN worker, Publisher(t)
  PROVE  DrainInv'
<1>1. /\ worker[t] \in Worker /\ worker[t].buf \in Seq(Frames) /\ t \in Threads
      /\ Flushed(worker[t]) \in Worker /\ FoundEmpty(worker[t]) \in Worker
      /\ \A pc \in {"get", "post", "await", "ended", "crashed"} :
            [worker[t] EXCEPT !.pc = pc] \in Worker
      /\ [worker[t] EXCEPT !.draining = TRUE] \in Worker
      /\ worker \in Seq(Worker)
  BY ThreadType, TypesOfPlaces DEF IInv, TypeInv, TypeOK
<1>2. Alive(t)
  BY DEF Publisher, TakeFrame, TakeSentinel, QueueEmpty, PostSent, PostBreaks, ReplyRead, ReplyLost,
         Alive
<1>3. ASSUME queue # <<>>, queue' = Tail(queue)
      PROVE  /\ DOMAIN queue = 1 .. Len(queue) /\ Len(queue) \in Nat \ {0} /\ Head(queue) = queue[1]
             /\ DOMAIN queue' = 1 .. Len(queue) - 1
             /\ \A i \in DOMAIN queue' : i + 1 \in DOMAIN queue /\ queue'[i] = queue[i + 1]
             /\ \A i \in DOMAIN queue : queue[i] \in Nat
  <2>1. /\ DOMAIN queue = 1 .. Len(queue) /\ Len(queue) \in Nat \ {0} /\ Head(queue) = queue[1]
        /\ Len(queue') = Len(queue) - 1
        /\ \A i \in 1 .. Len(queue') : queue'[i] = queue[i + 1]
        /\ \A i \in DOMAIN queue : queue[i] \in Nat
    <3>1. queue \in Seq(Frames \cup {Sentinel})
      BY DEF IInv, TypeInv, TypeOK
    <3>2. /\ DOMAIN queue = 1 .. Len(queue) /\ \A i \in DOMAIN queue : queue[i] \in Nat
      BY TypesOfPlaces DEF IInv
    <3>3. /\ Len(queue) \in Nat \ {0} /\ Head(queue) = queue[1]
          /\ Len(Tail(queue)) = Len(queue) - 1
          /\ \A i \in 1 .. Len(Tail(queue)) : Tail(queue)[i] = queue[i + 1]
      BY <1>3, <3>1, InTail
    <3>. QED
      BY <1>3, <3>2, <3>3
  <2>2. DOMAIN queue' = 1 .. Len(queue')
    BY QueueNext
  <2>. QED
    BY <2>1, <2>2
<1>4. CASE TakeFrame(t)
  <2>1. PICK pc \in {"get", "post"} :
            Becomes(t, [worker[t] EXCEPT !.buf = Extended(worker[t].buf, Head(queue)), !.pc = pc])
    BY <1>4 DEF TakeFrame
  <2>. DEFINE w == [worker[t] EXCEPT !.buf = Extended(worker[t].buf, Head(queue)), !.pc = pc]
  <2>2. w \in Worker /\ w.pc \in {"get", "post"} /\ w.draining = worker[t].draining
    <3>1. Head(queue) \in Frames
      BY <1>4, InTail, SMTT(30) DEF TakeFrame, IInv, TypeInv, TypeOK
    <3>2. Extended(worker[t].buf, Head(queue)) \in Seq(Frames)
      BY <1>1, <3>1, AppendProperties DEF Extended
    <3>. QED
      BY <1>1, <3>2 DEF Worker
  <2>3. Becomes(t, w)
    BY <2>1
  <2>. HIDE DEF w
  <2>4. /\ DOMAIN worker' = DOMAIN worker /\ worker'[t] = w
        /\ \A u \in DOMAIN worker : u # t => worker'[u] = worker[u]
    BY <1>1, <2>2, <2>3, WorkerBecomes
  <2>5. /\ queue # <<>> /\ queue' = Tail(queue) /\ Head(queue) # Sentinel
        /\ UNCHANGED <<started, thread, stopVars>>
    BY <1>4 DEF TakeFrame
  <2>6. Clean' => Clean
    BY <2>4, <2>5, <1>2 DEF Clean, Alive, stopVars
  <2>7. Clean => t = thread /\ stopping.pc # "clear"
    BY <1>2 DEF DrainInv, Alive
  <2>8. PastMark => PastMark'
    BY <1>3, <2>5 DEF PastMark, stopVars
  <2>9. SentinelWaits => SentinelWaits'
    <3>. SUFFICES ASSUME SentinelWaits PROVE SentinelWaits'
      OBVIOUS
    <3>1. PICK k \in DOMAIN queue :
              /\ queue[k] = Sentinel
              /\ \A i \in DOMAIN queue : i < k => queue[i] # Sentinel
              /\ \A i \in DOMAIN queue : i > k => queue[i] > stopping.mark
      BY DEF SentinelWaits
    <3>2. k - 1 \in DOMAIN queue' /\ queue'[k - 1] = Sentinel
      <4>1. k # 1
        BY <1>3, <2>5, <3>1
      <4>2. k - 1 \in DOMAIN queue' /\ (k - 1) + 1 = k
        BY <1>3, <2>5, <4>1
      <4>. QED
        BY <1>3, <2>5, <3>1, <4>2
    <3>3. \A i \in DOMAIN queue' : i \in Nat /\ (i < k - 1 => i + 1 < k) /\ (i > k - 1 => i + 1 > k)
      BY <1>3, <2>5
    <3>. QED
      BY <1>3, <2>5, <3>1, <3>2, <3>3 DEF SentinelWaits, stopVars
  <2>10. (\A i \in DOMAIN queue : queue[i] # Sentinel) => \A i \in DOMAIN queue' : queue'[i] # Sentinel
    BY <1>3, <2>5
  <2>. QED
    BY <2>2, <2>4, <2>5, <2>6, <2>7, <2>8, <2>9, <2>10 DEF DrainInv, stopVars
<1>5. CASE TakeSentinel(t)
  <2>. DEFINE w == [worker[t] EXCEPT !.draining = TRUE]
  <2>1. /\ queue # <<>> /\ queue' = Tail(queue) /\ Head(queue) = Sentinel
        /\ Becomes(t, w) /\ UNCHANGED <<started, thread, stopVars>>
    BY <1>5 DEF TakeSentinel
  <2>2. w \in Worker /\ w.pc = "get" /\ w.draining
    BY <1>1, <1>5 DEF TakeSentinel, Worker
  <2>. HIDE DEF w
  <2>3. /\ DOMAIN worker' = DOMAIN worker /\ worker'[t] = w
        /\ \A u \in DOMAIN worker : u # t => worker'[u] = worker[u]
    BY <1>1, <2>1, <2>2, WorkerBecomes
  <2>4. Clean' => Clean
    BY <2>1, <2>3, <1>2 DEF Clean, Alive, stopVars
  <2>5. Clean => t = thread /\ stopping.pc # "clear"
    BY <1>2 DEF DrainInv, Alive
  <2>6. 1 \in DOMAIN queue /\ queue[1] = Sentinel
    BY <1>3, <2>1
  <2>7. Clean => stopping.pc = "join"
    BY <2>5, <2>6 DEF DrainInv, IInv, TypeInv, TypeOK
  <2>8. stopping.mark \in Nat
    BY DEF IInv, TypeInv, TypeOK
  <2>9. ~PastMark
    BY <2>6, <2>8 DEF PastMark, Sentinel
  <2>10. SentinelWaits => PastMark'
    <3>. SUFFICES ASSUME SentinelWaits PROVE PastMark'
      OBVIOUS
    <3>1. PICK k \in DOMAIN queue :
              /\ \A i \in DOMAIN queue : i < k => queue[i] # Sentinel
              /\ \A i \in DOMAIN queue : i > k => queue[i] > stopping.mark
      BY DEF SentinelWaits
    <3>2. k = 1
      BY <1>3, <2>1, <2>6, <3>1
    <3>3. \A i \in DOMAIN queue' : i + 1 > k
      BY <1>3, <2>1, <3>2
    <3>. QED
      BY <1>3, <2>1, <3>1, <3>3 DEF PastMark, stopVars
  <2>. QED
    BY <2>1, <2>2, <2>3, <2>4, <2>5, <2>7, <2>9, <2>10 DEF DrainInv, stopVars
<1>6. CASE QueueEmpty(t)
  <2>. DEFINE w == FoundEmpty(worker[t])
  <2>1. /\ w \in Worker /\ Becomes(t, w) /\ UNCHANGED <<queue, started, thread, stopVars>>
        /\ w.draining = worker[t].draining /\ (w.pc = "ended" => w.draining /\ w.buf = <<>>)
    BY <1>1, <1>6 DEF QueueEmpty, FoundEmpty, Worker
  <2>. HIDE DEF w
  <2>. QED
    BY <1>2, <2>1, DrainKeeps
<1>7. CASE PostSent(t)
  <2>. DEFINE w == [worker[t] EXCEPT !.pc = "await"]
  <2>1. /\ w \in Worker /\ Becomes(t, w) /\ UNCHANGED <<queue, started, thread, stopVars>>
        /\ w.draining = worker[t].draining /\ w.pc # "ended"
    BY <1>1, <1>7 DEF PostSent, Worker
  <2>. HIDE DEF w
  <2>. QED
    BY <1>2, <2>1, DrainKeeps
<1>8. CASE PostBreaks(t) \/ ReplyRead(t)
  <2>. DEFINE w == Flushed(worker[t])
  <2>1. /\ w \in Worker /\ Becomes(t, w) /\ UNCHANGED <<queue, started, thread, stopVars>>
        /\ w.draining = worker[t].draining /\ (w.pc = "ended" => w.draining /\ w.buf = <<>>)
    BY <1>1, <1>8 DEF PostBreaks, ReplyRead, Flushed, Worker
  <2>. HIDE DEF w
  <2>. QED
    BY <1>2, <2>1, DrainKeeps
<1>9. CASE ReplyLost(t)
  <2>. DEFINE w == [worker[t] EXCEPT !.pc = "crashed"]
  <2>1. /\ w \in Worker /\ Becomes(t, w) /\ UNCHANGED <<queue, started, thread, stopVars>>
        /\ w.draining = worker[t].draining /\ w.pc = "crashed"
    BY <1>1, <1>9 DEF ReplyLost, Worker
  <2>. HIDE DEF w
  <2>. QED
    BY <1>2, <2>1, DrainKeeps
<1>. QED
  BY <1>4, <1>5, <1>6, <1>7, <1>8, <1>9 DEF Publisher

LEMMA DrainStop ==
  ASSUME IInv, DrainInv, TypeInv', Stop
  PROVE  DrainInv'
<1>1. CASE StopBegins
  <2>1. /\ queue' = Append(queue, Sentinel) /\ stopping' = [pc |-> "join", thread |-> thread, mark |-> frames]
        /\ UNCHANGED <<thread, worker, abandoned>> /\ stopping.pc = "idle" /\ started
    BY <1>1 DEF StopBegins
  <2>2. /\ Len(queue') = Len(queue) + 1 /\ queue'[Len(queue) + 1] = Sentinel
        /\ \A i \in 1 .. Len(queue) : queue'[i] = queue[i]
        /\ DOMAIN queue' = 1 .. Len(queue) + 1 /\ DOMAIN queue = 1 .. Len(queue)
        /\ Len(queue) \in Nat
    BY <2>1, AppendProperties, QueueNext, TypesOfPlaces DEF IInv, TypeInv, TypeOK
  <2>3. Clean' => Clean
    BY <2>1 DEF Clean
  <2>4. stopping'.pc = "join"
    BY <2>1
  <2>5. Clean => SentinelWaits'
    <3>. SUFFICES ASSUME Clean PROVE SentinelWaits'
      OBVIOUS
    <3>1. \A i \in DOMAIN queue : queue[i] # Sentinel
      BY <2>1 DEF DrainInv
    <3>2. Len(queue) + 1 \in DOMAIN queue'
      BY <2>2
    <3>3. /\ \A i \in DOMAIN queue' : i < Len(queue) + 1 => queue'[i] # Sentinel
          /\ \A i \in DOMAIN queue' : ~(i > Len(queue) + 1)
      BY <2>2, <3>1
    <3>. QED
      BY <2>2, <3>2, <3>3 DEF SentinelWaits
  <2>6. Clean => ~worker[thread].draining
    BY <2>1 DEF DrainInv
  <2>. QED
    BY <2>1, <2>3, <2>4, <2>5, <2>6 DEF DrainInv
<1>2. CASE JoinReturns
  <2>1. /\ stopping' = [stopping EXCEPT !.pc = "clear"] /\ UNCHANGED <<queue, thread, worker>>
        /\ stopping.pc = "join" /\ stopping.thread = thread /\ thread \in DOMAIN worker
        /\ stopping'.pc = "clear" /\ stopping'.mark = stopping.mark
    <3>1. DOMAIN worker = 1 .. Len(worker)
      BY TypesOfPlaces DEF IInv
    <3>. QED
      BY <1>2, <3>1 DEF JoinReturns, publisherVars, IInv, TypeInv, TypeOK
  <2>2. Clean' => Clean /\ worker[thread].pc = "ended"
    BY <1>2, <2>1 DEF JoinReturns, Clean, Alive
  <2>3. Clean /\ worker[thread].pc = "ended" => PastMark
    BY <2>1 DEF DrainInv
  <2>4. PastMark => PastMark'
    BY <2>1 DEF PastMark
  <2>. QED
    BY <2>1, <2>2, <2>3, <2>4 DEF DrainInv
<1>3. CASE StopClears
  <2>1. /\ UNCHANGED <<queue, worker, abandoned>> /\ stopping.pc = "clear"
        /\ stopping' = NotStopping /\ thread' = 0 /\ ~started' /\ stopping'.pc = "idle"
    BY <1>3 DEF StopClears, NotStopping
  <2>2. stopping.mark \in Nat
    BY DEF IInv, TypeInv, TypeOK
  <2>3. PastMark => \A i \in DOMAIN queue : queue[i] # Sentinel
    BY <2>2 DEF PastMark, Sentinel
  <2>4. Clean' => Clean
    BY <2>1 DEF Clean
  <2>. QED
    BY <2>1, <2>3, <2>4 DEF DrainInv
<1>. QED
  BY <1>1, <1>2, <1>3 DEF Stop

(* A stop whose join saw its thread end leaves nothing of what was          *)
(* published before it in the queue or in the thread's buffer, whatever is  *)
(* published meanwhile and however the posts end short of an exception.     *)
THEOREM StopIsComplete == Spec => []StopDrains
<1>1. Init => DrainInv
  <2>. SUFFICES ASSUME Init PROVE DrainInv
    OBVIOUS
  <2>1. /\ queue = <<>> /\ worker = <<>> /\ stopping.pc = "idle" /\ ~started /\ DOMAIN <<>> = {}
    BY EmptySeq, LenProperties DEF Init, NotStopping
  <2>. QED
    BY <2>1 DEF DrainInv
<1>2. IInv /\ IInv' /\ DrainInv /\ [Next]_vars => DrainInv'
  <2>. SUFFICES ASSUME IInv, TypeInv', DrainInv, [Next]_vars PROVE DrainInv'
    BY DEF IInv
  <2>1. CASE Verifier
    BY <2>1, DrainUnchanged
    DEF Verifier, AppendTraffic, AppendFails, RecordTraffic, FinalizeTraffic, RecordFinalize,
        publisherVars, stopVars
  <2>2. CASE UNCHANGED vars
    BY <2>2, DrainUnchanged DEF vars, publisherVars, stopVars
  <2>. QED
    BY <2>1, <2>2, DrainCaller, DrainPublisher, DrainStop DEF Next
<1>3. IInv /\ DrainInv => StopDrains
  <2>. SUFFICES ASSUME IInv, DrainInv, stopping.pc = "clear", Clean
                PROVE  /\ \A i \in DOMAIN queue : queue[i] > stopping.mark
                       /\ worker[stopping.thread].buf = <<>>
    BY DEF StopDrains, Clean
  <2>1. stopping.thread = thread /\ thread \in DOMAIN worker
    BY TypesOfPlaces DEF IInv, TypeInv, TypeOK
  <2>. QED
    BY <2>1 DEF DrainInv, PastMark
<1>. QED
  BY <1>1, <1>2, <1>3, Invariance, PTL DEF Spec

=============================================================================
