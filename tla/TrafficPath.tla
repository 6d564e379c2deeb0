----------------------------- MODULE TrafficPath -----------------------------
(***************************************************************************)
(* Egress frames from the prover to the verifier's record: the             *)
(* TrafficPublisher of proverdet/traffic_publisher.py, driven by           *)
(* ProverState of prover/main.py, and VerifierState of                     *)
(* verifier_server/main.py with its two handlers.                          *)
(*                                                                         *)
(* Callers are threads that publish: workload threads and the handler of   *)
(* /debug/emit-frames.  A frame is named by its place in the queue's order *)
(* of arrival.  A batch is posted once, over a connection that may fail    *)
(* before, during or after the transfer of the body.  The verifier has a   *)
(* thread per request.                                                     *)
(***************************************************************************)
EXTENDS Naturals, Sequences, SequencesExt

CONSTANTS
    Callers,     \* threads that publish
    Finalizers,  \* requests to /traffic/finalize
    MaxBatch,    \* frames that reach max_batch_bytes
    MaxFrames,   \* bound: frames ever published
    MaxThreads,  \* bound: publisher threads ever started
    MaxStops     \* bound: calls of stop()

ASSUME TrafficAssumption ==
    /\ MaxBatch \in Nat \ {0}
    /\ MaxFrames \in Nat \ {0}
    /\ MaxThreads \in Nat \ {0}
    /\ MaxStops \in Nat

VARIABLES
    frames,      \* frames put in the queue so far
    queue,       \* self._queue
    started,     \* self._started
    thread,      \* self._thread: index into worker, 0 for None
    worker,      \* every publisher thread started
    caller,      \* where each caller is
    stopping,    \* where the main thread is in stop(), and its locals
    stops,       \* calls of stop() completed
    abandoned,   \* threads whose join timed out (for the properties)
    posts,       \* POSTs to /traffic of which the verifier can receive something
    file,        \* traffic.bin
    hashed,      \* what self._hasher has been fed
    finalized,   \* self._finalized: {} or {the content the digest is of}
    transcript,  \* transcript.jsonl, entries of the traffic endpoints
    finalizer    \* where each finalize request is

publisherVars == <<frames, queue, started, thread, worker, caller>>
stopVars == <<stopping, stops, abandoned>>
recordVars == <<file, hashed, finalized, transcript>>
vars == <<publisherVars, stopVars, posts, recordVars, finalizer>>

-----------------------------------------------------------------------------

Frames == 1..MaxFrames
Sentinel == 0                 \* _DRAIN_SENTINEL
Threads == 1..MaxThreads

(* A publisher thread: buf is the batch, draining says it has taken the     *)
(* sentinel; "await" is inside urlopen with the body sent.                  *)
Worker == [pc : {"get", "post", "await", "ended", "crashed"}, buf : Seq(Frames),
           draining : BOOLEAN]

Alive(t) == worker[t].pc \notin {"ended", "crashed"}

(* "sent": the handler may read what has arrived; "appended": stored but    *)
(* not in the transcript; "ok" and "refused": 200 and 409 are on the wire;  *)
(* "acked": the 200 has been read; "failed": the handler died.              *)
Post == [by : Threads, data : Seq(Frames),
         stage : {"sent", "appended", "ok", "refused", "acked", "failed"}]

Entry == [endpoint : {"/traffic", "/traffic/finalize"}, data : Seq(Frames)]

NotStopping == [pc |-> "idle", thread |-> 0, mark |-> 0]

Init ==
    /\ frames = 0
    /\ queue = <<>>
    /\ started = FALSE
    /\ thread = 0
    /\ worker = <<>>
    /\ caller = [c \in Callers |-> "idle"]
    /\ stopping = NotStopping
    /\ stops = 0
    /\ abandoned = {}
    /\ posts = {}
    /\ file = <<>>
    /\ hashed = <<>>
    /\ finalized = {}
    /\ transcript = <<>>
    /\ finalizer = [f \in Finalizers |-> "idle"]

-----------------------------------------------------------------------------
(* _publish_frame: start(), then publish().  They are two steps, and a stop *)
(* may come between.                                                        *)

CallStart(c) ==
    /\ caller[c] = "idle"
    /\ frames < MaxFrames
    /\ caller' = [caller EXCEPT ![c] = "publish"]
    /\ IF started
       THEN UNCHANGED <<started, thread, worker>>
       ELSE /\ Len(worker) < MaxThreads
            /\ started' = TRUE
            /\ worker' = Append(worker, [pc |-> "get", buf |-> <<>>, draining |-> FALSE])
            /\ thread' = Len(worker')
    /\ UNCHANGED <<frames, queue, stopVars, posts, recordVars, finalizer>>

(* A workload calls start() again for its next frame; emit-frames does not. *)
CallPublish(c) ==
    /\ caller[c] = "publish"
    /\ frames < MaxFrames
    /\ frames' = frames + 1
    /\ queue' = Append(queue, frames')
    /\ \E next \in {"idle", "publish"} : caller' = [caller EXCEPT ![c] = next]
    /\ UNCHANGED <<started, thread, worker, stopVars, posts, recordVars, finalizer>>

-----------------------------------------------------------------------------
(* _run: one publisher thread. *)

Becomes(t, w) == worker' = [worker EXCEPT ![t] = w]

Extended(buf, frame) == Append(buf, frame)

TakeFrame(t) ==
    /\ worker[t].pc = "get"
    /\ queue # <<>> /\ Head(queue) # Sentinel
    /\ queue' = Tail(queue)
    /\ LET buf == Extended(worker[t].buf, Head(queue))
           due == ~worker[t].draining /\ Len(buf) >= MaxBatch
       IN  Becomes(t, [worker[t] EXCEPT !.buf = buf, !.pc = IF due THEN "post" ELSE "get"])
    /\ UNCHANGED <<frames, started, thread, caller, stopVars, posts, recordVars, finalizer>>

(* Mutant of TakeSentinel: the thread returns at once.                      *)
TakeSentinelReturning(t) ==
    /\ worker[t].pc = "get"
    /\ queue # <<>> /\ Head(queue) = Sentinel
    /\ queue' = Tail(queue)
    /\ Becomes(t, [worker[t] EXCEPT !.pc = "ended"])
    /\ UNCHANGED <<frames, started, thread, caller, stopVars, posts, recordVars, finalizer>>

TakeSentinel(t) ==
    /\ worker[t].pc = "get"
    /\ queue # <<>> /\ Head(queue) = Sentinel
    /\ queue' = Tail(queue)
    /\ Becomes(t, [worker[t] EXCEPT !.draining = TRUE])
    /\ UNCHANGED <<frames, started, thread, caller, stopVars, posts, recordVars, finalizer>>

(* queue.Empty, after the flush interval or while draining: what the buffer *)
(* holds is sent, and a draining thread with nothing to send returns.       *)
(* Mutant of FoundEmpty: only a draining thread sends a half-full batch.    *)
FoundEmptyWaiting(w) ==
    IF w.draining THEN [w EXCEPT !.pc = IF w.buf # <<>> THEN "post" ELSE "ended"] ELSE w

FoundEmpty(w) ==
    CASE w.buf # <<>> -> [w EXCEPT !.pc = "post"]
      [] w.draining /\ w.buf = <<>> -> [w EXCEPT !.pc = "ended"]
      [] OTHER -> w

QueueEmpty(t) ==
    /\ worker[t].pc = "get"
    /\ queue = <<>>
    /\ Becomes(t, FoundEmpty(worker[t]))
    /\ UNCHANGED <<frames, queue, started, thread, caller, stopVars, posts, recordVars, finalizer>>

(* _flush has returned.  Mutant: the buffer is not replaced.                *)
FlushedKeeping(w) == [w EXCEPT !.pc = IF w.draining THEN "ended" ELSE "get"]
Flushed(w) == [w EXCEPT !.pc = IF w.draining THEN "ended" ELSE "get", !.buf = <<>>]

PostSent(t) ==
    /\ worker[t].pc = "post"
    /\ posts' = posts \cup {[by |-> t, data |-> worker[t].buf, stage |-> "sent"]}
    /\ Becomes(t, [worker[t] EXCEPT !.pc = "await"])
    /\ UNCHANGED <<frames, queue, started, thread, caller, stopVars, recordVars, finalizer>>

(* URLError: the connection is refused or breaks while the body is sent.    *)
(* The batch is dropped; a handler may still read the part that arrived.    *)
PostBreaks(t) ==
    /\ worker[t].pc = "post"
    /\ \E n \in 0..Len(worker[t].buf) - 1 :
          posts' = IF n = 0 THEN posts
                   ELSE posts \cup {[by |-> t, data |-> SubSeq(worker[t].buf, 1, n),
                                     stage |-> "sent"]}
    /\ Becomes(t, Flushed(worker[t]))
    /\ UNCHANGED <<frames, queue, started, thread, caller, stopVars, recordVars, finalizer>>

(* The reply is read; 409 is an HTTPError, so a URLError.                   *)
Stage(p, stage) == posts' = (posts \ {p}) \cup {[p EXCEPT !.stage = stage]}

ReplyRead(t) ==
    /\ worker[t].pc = "await"
    /\ \E p \in posts :
          /\ p.by = t /\ p.data = worker[t].buf
          /\ p.stage \in {"ok", "refused"}
          /\ Stage(p, IF p.stage = "ok" THEN "acked" ELSE p.stage)
    /\ Becomes(t, Flushed(worker[t]))
    /\ UNCHANGED <<frames, queue, started, thread, caller, stopVars, recordVars, finalizer>>

(* No reply in time, or the connection is closed without one: urlopen       *)
(* raises what is no URLError, and the thread ends with the exception.      *)
ReplyLost(t) ==
    /\ worker[t].pc = "await"
    /\ Becomes(t, [worker[t] EXCEPT !.pc = "crashed"])
    /\ UNCHANGED <<frames, queue, started, thread, caller, stopVars, posts, recordVars, finalizer>>

-----------------------------------------------------------------------------
(* stop(), called by the main thread of the prover, on a signal and once    *)
(* more when the server has ended.                                          *)

StopBegins ==
    /\ stopping.pc = "idle" /\ stops < MaxStops
    /\ started
    /\ queue' = Append(queue, Sentinel)
    /\ stopping' = [pc |-> "join", thread |-> thread, mark |-> frames]
    /\ UNCHANGED <<frames, started, thread, worker, caller, stops, abandoned, posts,
                   recordVars, finalizer>>

JoinReturns ==
    /\ stopping.pc = "join"
    /\ stopping' = [stopping EXCEPT !.pc = "clear"]
    /\ abandoned' = abandoned \cup {t \in {stopping.thread} : Alive(t)}
    /\ UNCHANGED <<publisherVars, stops, posts, recordVars, finalizer>>

(* Mutant of StopClears: the thread is not forgotten.                       *)
StopClearsFlag ==
    /\ stopping.pc = "clear"
    /\ started' = FALSE
    /\ stopping' = NotStopping
    /\ stops' = stops + 1
    /\ UNCHANGED <<frames, queue, thread, worker, caller, abandoned, posts, recordVars, finalizer>>

StopClears ==
    /\ stopping.pc = "clear"
    /\ started' = FALSE
    /\ thread' = 0
    /\ stopping' = NotStopping
    /\ stops' = stops + 1
    /\ UNCHANGED <<frames, queue, worker, caller, abandoned, posts, recordVars, finalizer>>

-----------------------------------------------------------------------------
(* The verifier: POST /traffic and POST /traffic/finalize. *)

IsFinalized == finalized # {}

(* append_traffic, under _traffic_lock.                                     *)
AppendTraffic(p) ==
    /\ p.stage = "sent"
    /\ IF IsFinalized
       THEN /\ Stage(p, "refused")
            /\ UNCHANGED <<file, hashed>>
       ELSE /\ Stage(p, "appended")
            /\ file' = file \o p.data
            /\ hashed' = hashed \o p.data
    /\ UNCHANGED <<publisherVars, stopVars, finalized, transcript, finalizer>>

(* The write raises: part of the data may be in the file, none of it in the *)
(* hash, and the handler ends without a reply.                              *)
AppendFails(p) ==
    /\ p.stage = "sent"
    /\ ~IsFinalized
    /\ Stage(p, "failed")
    /\ \E n \in 0..Len(p.data) : file' = file \o SubSeq(p.data, 1, n)
    /\ UNCHANGED <<publisherVars, stopVars, hashed, finalized, transcript, finalizer>>

RecordTraffic(p) ==
    /\ p.stage = "appended"
    /\ Stage(p, "ok")
    /\ transcript' = Append(transcript, [endpoint |-> "/traffic", data |-> p.data])
    /\ UNCHANGED <<publisherVars, stopVars, file, hashed, finalized, finalizer>>

(* finalize_traffic, under the same lock, and the transcript's entry.       *)
FinalizeTraffic(f) ==
    /\ finalizer[f] = "idle"
    /\ finalizer' = [finalizer EXCEPT ![f] = "record"]
    /\ finalized' = IF IsFinalized THEN finalized ELSE {hashed}
    /\ UNCHANGED <<publisherVars, stopVars, posts, file, hashed, transcript>>

RecordFinalize(f) ==
    /\ finalizer[f] = "record"
    /\ finalizer' = [finalizer EXCEPT ![f] = "done"]
    /\ \E digest \in finalized :
          transcript' = Append(transcript, [endpoint |-> "/traffic/finalize", data |-> digest])
    /\ UNCHANGED <<publisherVars, stopVars, posts, file, hashed, finalized>>

-----------------------------------------------------------------------------

Publisher(t) ==
    \/ TakeFrame(t) \/ TakeSentinel(t) \/ QueueEmpty(t)
    \/ PostSent(t) \/ PostBreaks(t) \/ ReplyRead(t) \/ ReplyLost(t)

Stop == StopBegins \/ JoinReturns \/ StopClears

Verifier ==
    \/ \E p \in posts : AppendTraffic(p) \/ AppendFails(p) \/ RecordTraffic(p)
    \/ \E f \in Finalizers : FinalizeTraffic(f) \/ RecordFinalize(f)

Next ==
    \/ \E c \in Callers : CallStart(c) \/ CallPublish(c)
    \/ \E t \in DOMAIN worker : Publisher(t)
    \/ Stop
    \/ Verifier

Spec == Init /\ [][Next]_vars

(* A publisher thread is scheduled, its queue.get and its urlopen have      *)
(* timeouts.  Nothing is assumed of the verifier or of the callers.         *)
FairSpec == Spec /\ \A t \in Threads : WF_vars(t \in DOMAIN worker /\ Publisher(t))

-----------------------------------------------------------------------------
(* Properties. *)

TypeOK ==
    /\ frames \in 0..MaxFrames
    /\ queue \in Seq(Frames \cup {Sentinel})
    /\ started \in BOOLEAN
    /\ worker \in Seq(Worker)
    /\ thread \in 0..Len(worker)
    /\ started <=> thread # 0
    /\ caller \in [Callers -> {"idle", "publish"}]
    /\ stopping \in [pc : {"idle", "join", "clear"}, thread : 0..Len(worker), mark : 0..frames]
    /\ stopping.pc # "idle" => stopping.thread = thread /\ started
    /\ stops \in 0..MaxStops
    /\ abandoned \subseteq DOMAIN worker
    /\ posts \subseteq Post
    /\ file \in Seq(Frames)
    /\ hashed \in Seq(Frames)
    /\ finalized \subseteq {hashed}
    /\ transcript \in Seq(Entry)
    /\ finalizer \in [Finalizers -> {"idle", "record", "done"}]

(* The record holds published frames, each at most once, in order within a  *)
(* batch, and does not change once its digest is out: across lost replies,  *)
(* broken transfers, threads abandoned by a stop and posts still under way  *)
(* at finalisation.                                                         *)
Evidence == INSTANCE EvidenceStream WITH
    published <- frames, recorded <- file, sealed <- IsFinalized

ImplementsEvidence == Evidence!Spec

(* A stop whose join sees the thread end has drained it: every frame that   *)
(* was published before is out of the queue and out of the thread's buffer, *)
(* so it was posted.  Except after a thread has died or was abandoned: the  *)
(* sentinel it never took ends its successor, and nobody sends what comes   *)
(* later.                                                                   *)
StopDrains ==
    /\ stopping.pc = "clear"
    /\ abandoned = {} /\ \A t \in DOMAIN worker : worker[t].pc # "crashed"
    => /\ \A i \in DOMAIN queue : queue[i] > stopping.mark
       /\ worker[stopping.thread].buf = <<>>

(* A published frame does not stay behind, in the queue or in a half-full   *)
(* batch, while there is a publisher thread that has not ended.             *)
Held(f) == \/ \E i \in DOMAIN queue : queue[i] = f
           \/ \E t \in DOMAIN worker : Alive(t) /\ \E i \in DOMAIN worker[t].buf : worker[t].buf[i] = f

NothingIsHeldBack ==
    \A f \in Frames : Held(f) ~> ~Held(f) \/ ~started \/ ~Alive(thread)
=============================================================================
