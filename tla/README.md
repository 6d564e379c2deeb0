# Verification of deterministic-inference-server

TLA+ models of this repository: its servers and protocols, its network stack and
the pipeline around them, the TLC configurations that check them on small
instances, and TLAPS proofs of the most important theorems for every value of
the constants.  Paths below are relative
to the repository root.

    tlc -workers 2 -config ServerRestart.cfg MCInferenceServer.tla   # one run
    tlapm InferenceServerProofs.tla                                  # a module's proofs

`PROJECT.json` lists the components, the runs and their configurations, a
mutation of the code for every property (the form the property is known to
catch), the source lines behind every definition, the hazards and the findings.

## 1. The system

The repository serves LLM inference whose output can be reproduced bit by bit
and checked by somebody else.  Its parts:

| Part | Code | State it keeps | Operations | Talks to |
|---|---|---|---|---|
| Inference server | `modules/inference/server/main.py` | `ServerState` (manifest, `applied_at`, capture log, vLLM process), one lock, `os.environ` | boot; POST `/manifest`, `/run`, `/replay`; capturing proxy; wait loop; signals | the vLLM child (process, port), clients, `capture.jsonl` |
| Userspace TCP server | `modules/network/networkdet/userspace_tcp_server.py`, `tcp.py` | one `ConnectionState` per client address, connection counter | packet handlers, retransmission timer, stale cleanup | a raw socket, the peers' kernels |
| Warden | `networkdet/warden.py` | `ConnState` per 4-tuple | normalise a packet, reset | both sides of a connection, in line or recording |
| Net stack, DPDK, libnetdet | `networkdet/{__init__,frame,ip,capture,backend_*}.py`, `native/libnetdet` | frame builders, capture ring, transmit buffer, mbuf pool | process a response, flush, report, loopback, close | NIC |
| Prover agent | `modules/attestation/prover/main.py`, `proverdet/workload_runner.py` | workload thread, recorded tasks, attestation store | start and stop a workload, replay, graph | publisher, verifier |
| Traffic publisher | `proverdet/traffic_publisher.py` | queue, buffer, thread | start, publish, stop | verifier `/traffic` |
| Verifier server | `modules/attestation/verifier_server/main.py` | traffic file, hash, finalised digest, transcript | append, finalise | publisher, scheduler |
| Scheduler and verdict | `proverdet/scheduler.py`, `verdict.py`, `replay*.py`, `erasure.py` | ticks, due times, summaries | poll graph, issue replay, judge | prover over HTTP |
| Proof of secure erasure | `modules/memory/pose` | noise in DRAM, GPU memory and on disk, tracker of results | fill, challenge, report | GPU, host memory, NVMe |
| TAP demos | `demos/tap-protocol/servers`, `demos/tap-train` | ids, training locks, adapters, `alarm.jsonl` | forward, release, recompute later, accuse | four servers in a chain |
| Resolver, builder | `modules/inference/resolver`, `build/builder`, `core/common/hf_resolution.py` | manifest, lockfile, cache | pin a model's commit and files; seal a closure | Hugging Face hub, mirror, Nix |
| Pipeline, runner, capture | `modules/pipeline.py`, `_cmd.py`, `inference/{runner,capture}`, `workflows` | output directories, bundles | run, convert a capture | vLLM, net stack |
| Verifier report | `modules/attestation/verifier` | none | compare two bundles | output directories |
| Freivalds, token commitments | `modules/attestation/freivalds`, `e2e` | none | check a product; extract and commit | |

### Inference server

One Python process owns one vLLM child.  Every HTTP request has a thread.  POST
`/manifest` takes `state.lock` without blocking, checks the manifest, rewrites
`os.environ`, verifies artifacts, stops the child, launches another, polls
`/health` until something on the port answers, with no timeout on the probe
itself, and then updates three attributes of `ServerState` one after the other; the
third is the capture log, whose constructor empties the file before it is stored.  `/run`, `/replay` and the proxy read these
attributes without the lock.  The main thread waits on the child it last saw;
when that dies it takes the lock to tell a restart from a crash.  Signals stop
the child without the lock.  What is hard: the stages interleave with readers, a
stage may fail after earlier ones took effect, vLLM may crash at any moment, and
the process object, the environment, the manifest on display and the stamp change
at different moments.  What makes it correct: one engine at a time, each launched
as its manifest declares; labels that are truthful when they claim to be current;
captured requests lost to no application but one that succeeds, and recorded under no
log newer than the engine that answered; the lock released unless an engine hangs; and
no server left without an engine.

### Userspace TCP server

A single thread serves a request per connection so that the bytes on the wire
depend only on the run: ISNs come from a hash of the run id and the connection
index, all segments are built at once, in order.  It keeps its own retransmission
store.  What is hard: loss, duplication and reordering, the wrap of sequence
numbers, ACKs of an earlier connection from the same address, the FIN, whose
number is kept in two places, and a send that fails in the middle of a response and
is survived, after all of it was numbered and some of it stored.  What makes it
correct: nothing the client still misses is forgotten unless a send failed, a number
stands for one frame, the client reads a prefix of a response and never past a hole, and
retransmission ends.

### Prover, publisher, verifier

Workload threads and `/debug/emit-frames` put frames into an unbounded queue; one
publisher thread batches them and posts each batch once; the verifier appends
what it receives and finalises once.  A stop of the publisher joins with a
timeout and forgets the thread whether or not it has ended, and a batch that fails
is dropped.  A stop of a workload forgets it first, then sets its event, joins
and reads its totals.  What is hard: two publisher threads on a queue, a sentinel
nobody took, replies that are lost after the batch was stored, batches under way
at finalisation, starts and stops that overlap.  What makes it correct: the traffic
recorded consists of published frames, each at most once, in order within a
batch, frozen by the first digest; a stop drains; no workload is leaked; an
honest workload is not accused by the moment at which it was stopped.

### Scheduler, replay and verdict

One daemon thread of the verifier polls `/graph` and sends challenges to `/replay`
when they are due, one exchange at a time.  The prover answers with a stream of
chunks that has no length: its end is the end of the connection, whether the
handler finished or raised.  After it the verifier fetches the attestations from
the prover's memory, recomputes, and writes a verdict entry, then a summary.
What is hard: handlers that outlive their client, a prover that crashes between
the evidence and the fetch, exceptions at every exchange, a stop whose join times
out, and a driver that computes the verdict from two files while they grow.  What makes
it correct: verdicts that are right, judged challenges that the prover also has
on record, a period kept whatever happens, nobody accused without cause, and a loop
that a prover which is silent, hangs or dies does not hold.

### Warden

One object normalises every frame of every connection, and a connection's state
is two offsets, changed by whichever SYN or SYN-ACK passed last.  What is hard:
numbers that wrap, repeated and late handshakes, a 4-tuple that is used again, and
three strippings that correct the same two length fields one after the other.  What
makes it correct: the capture tells the same story as the link, and a receiver finds
the bytes that were sent.

### Net stack and libnetdet

A process builds the frames of all responses of a run, keeps a copy of each in a
ring that becomes evidence, and sends them in one burst through DPDK.  What is
hard: a driver that takes a prefix of the burst, a pool that runs dry within it,
two counters that wrap at different sizes, and connections that interleave.
What makes it correct: frames depend only on the payloads of their connection,
a report without complaint means the ring is what was sent, and no mbuf leaks.

### Proof of secure erasure

Memory is overwritten with noise that both sides can compute, and then blocks
are asked for.  Noise is made in chunks, by several processes or several ciphers,
in one index space over three regions.  What is hard: the offsets, and failures
nobody looks at, such as a short write or a `dd` that stopped.  What makes it correct:
an honest prover passes whichever way it stored, and what a passing prover was
asked for it held.

### TAP demos

A gateway numbers and signs each call, a tap releases the answer to the client and
has it recomputed afterwards in a thread nobody waits for.  What is hard: four
processes that end and start again, ids that start again with the gateway while the
alarm log goes on, timeouts that leave handlers behind, two calls that train the same
adapter.  What makes it correct: no false or ambiguous alarm, every released answer
judged unless a named failure prevented it, and digests that can be fetched.

### Resolver, builder, pipeline, runner, capture, verifier report

Commands that run one after the other and leave files.  What is hard: the hub's
branch moves between two questions, a mirror lags, any command may raise or be killed
between two writes, and the next one works with what it left.  What makes it correct:
commits are never mixed, a bundle whose digests hold stands for the run whose files
lie beside it, and a report tells what the runs did.

## 2. Plan

Steps 1 to 7 are modelled and checked, and every safety property of 1 to 6 and of
the pipeline is proved.

1. `InferenceServer`, its abstract specification `VllmService`.  Proved.
2. `UserspaceTcp`, with `ResponseStream` as what it promises.  Proved, the refinement
   for initial sequence numbers that are apart (section 6).
3. `TrafficPath` (publisher queue and thread, verifier record) with
   `EvidenceStream` as what it promises, and `WorkloadRunner`.  Both are proved.
4. `VerifierScheduler`: scheduler, replay stream, verdict.  Proved.
5. `TapProtocol`: both demos.  Safety is proved.
6. `Warden`.  Proved, for any size of the sequence space.
7. The sequential components: `ProofOfErasure`, `NetStack`, `ModelResolution` with
   `RunPipeline`.  All are proved, `NetStack` by induction over the capture (section 6).
8. Freivalds' checks and the attestation steps built on them are left out
   (section 8).

The order follows what would hurt most: the first is the only part that manages
a live engine, the second puts the bytes on the wire, and 3 to 5 are
what an auditor relies on.  Each component has a module, an `MC` module where its
constants need definitions, and where there are theorems a `...Proofs` module;
`ProverNodeProofs` and `PipelineProofs` extend two components each (section 6), for which
the names that every module has are `PoseSpec`, `NetSpec` and so on in two of them.
No module declares a recursive operator; `NetStack` selects frames with a recursive function.

## 3. Modules

### InferenceServer

One action per step of a thread that others can see in between.

* `Boot*`: `main()` up to `serve_forever`.  `VllmReady`, `VllmHangs`, `VllmDies`: the
  child; hung, it accepts connections and answers nothing, and holds a probe until it dies.
* `PostManifest` takes the lock; then the stages of `_start_vllm`: `ChecksPass`
  (environment rewritten), `ArtifactsPass`, `StopOld` or `StopTimesOut`,
  `LaunchNew`, `SawHealthy`, `SetManifest`, `SetAppliedAt`, `OpenCaptureLog` (the
  constructor, which empties the file), `StoreCaptureLog` (the attribute), and
  `ReleaseLock`; `ApplyFails` is the exception of any stage that can raise, the
  opening of the log with the new manifest already on display included.
  `RespondDigest` and `RespondRest` read the reply after the lock is released.
* `StartCalls`, `CallVllm`, `ReplyCalls`: `/run` and `/replay`, with one snapshot at
  the start and `manifest_digest` read at the end.
* `ProxyStart`, `ProxyAnswered`, `ProxyFails`, `ProxyAppend`: the proxy; the log is
  the one referenced on arrival, and the entry is appended on completion.
* `MainWaits`, `MainWakes`, `MainChecks`, `Shutdown`, `Exit`: the main thread.

`proc` is every process ever launched, with the manifest of its command line and
the one its environment came from; `vllmProc` is an index into it.  `appliedAt`
and `captureLog` are named by the launch they belong to instead of by time and
object, so that "current" can be stated.  A manifest is a model value: what the
checks compute from it is a choice of passing or failing, as for the hardware
and the artifacts.  Answers of vLLM are named by the process that gave them.
The environment is one value because `_set_deterministic_env` sets or removes
every key it knows.

`VllmService` is the promise: one engine slot; an engine starts only when the slot
is empty, from one manifest for command line and environment; the manifest
displayed is the one of the latest start; the server gives up only when the slot is
empty.  `ImplementsService` is the refinement.

### UserspaceTcp

`HandleSyn`, `HandleAck`, `HandleFin`, `HandleRst` are the packet handlers,
`Retransmit` and `GiveUp` the timer, `CleanupStale` the 30 s cleanup.  `HandleAck`
includes everything the handler does: the handshake, pruning, the reset of the
count, and the response when the packet has payload and none was sent.  The
client is the peer's kernel TCP (external): it connects, sends its request in
parts, takes segments in order, acknowledges cumulatively, closes or aborts.  The
network is the set of all packets ever sent: any of them may be received any
number of times, in any order, or never.  One unit of sequence space is one
packet's payload; `SeqSpace` stands for 2^32.

Any send may raise (`Raises`, at most `MaxFaults` times).  In a handler, ENETDOWN is
caught by `serve_forever`, which goes on from what the handler has done so far, and any
other error ends the server; in the timer both end it (`loop`).  `SendFails` is the send of a
handler's last or only frame; `BreakOff` the send of a response's k-th segment, when all segments
are numbered, k are stored, k - 1 sent, and `response_sent` is still false, so that the
next packet with payload builds another response behind the first; `RetransmitFails` a
round of the timer.  `cut` remembers the connections whose response was broken off.

`ResponseStream` is the promise: the client's stream is a prefix of one response,
and ends only after its last segment; on a connection whose response was broken off,
another response may follow one that is complete, and nothing else.

### TrafficPath and WorkloadRunner

`CallStart` and `CallPublish` are the two halves of `_publish_frame`; a stop may
come between.  `TakeFrame`, `TakeSentinel` and `QueueEmpty` are the branches of the
publisher's loop, `PostSent`, `PostBreaks`, `ReplyRead` and `ReplyLost` the outcomes
of `_flush`: the connection may be refused, break while the body is sent (the
verifier reads what arrived: `rfile.read` returns a short body), answer, or not
answer.  `StopBegins`, `JoinReturns`, `StopClears` are `stop()`; the join returns when
the thread has ended or its timeout has passed, so it may return at any time.
`AppendTraffic`, `AppendFails`, `RecordTraffic`, `FinalizeTraffic` and `RecordFinalize`
are the verifier's two handlers, each split where the lock is released.  A frame
is named by its place in the queue and is one unit of size, `MaxBatch` of them
reach `max_batch_bytes`.  Of the transcript only the entries of these endpoints
are kept.  `stop()` is called by one thread, one call after the other.

`EvidenceStream` is the promise: chunks of published frames are recorded, each
frame at most once, in order within a chunk, and nothing after the seal.
A frame may be lost, and chunks may change places: the code promises no more.

In `WorkloadRunner`, `Start` is the whole of `start()`, which holds the lock; `stop()` and
its handler are six steps, because only the second holds it.  A workload
thread's steps are `NextPrompt`, `RecordTask`, `GradientSteps` and `DownloadFails`; one
prompt is one unit of FLOPs, and one unit of gradient steps is what "training"
(mixed_lora with gradient steps) does without declaring it.

### VerifierScheduler

`LoopTop` to `ReadEnds` are `_tick_once` with `_do_graph` and `_do_replay`, split at every
exchange; each exchange may answer, break or time out whatever the prover does.
`FetchFound`, `FetchMissing` and `FetchFails` are one attestation of `verify_evidence`;
`cursor` counts the slices of the output used so far, as in the code.
`RecordVerdict` and `RecordSummary` are apart because a process that exits
(`StopScheduler`, `VerifierExits`) and a driver that reads (`ReadTranscript`,
`EmitVerdict`) may come between.  On the prover, `Compute` stores an attestation and
then writes its chunk, `Finish` writes the evidence or an error, `Capture` logs the
reply, and the connection is shut when the handler returns or `Raises` (before the
headers are out, the client sees a broken connection instead of an end).
`ProverCrash` and `ProverRestarts` lose the store and the log.  `tick` is the loop's
count, from which the code computes its due times: real time does not matter.
A matmul may come out wrong (`wrong`); the Freivalds check is taken to notice it.
The driver runs the benign workload, whose traffic is within its claims.

### TapProtocol

Per call, the handler of each process is a small state: `GatewayAccepts` numbers and
signs, `TapReceives`, `TapReleases` and `TapSpawns` are `tap.py`'s handler around its
exchange with the Host, with the release of the answer before the thread is spawned,
`HostInfers` or `HostTakesLock`, `HostTrains`, `HostRegisters` the Host of each demo, `RecompReceives`,
`RecompInfers` and `RecompTrains` the verification, which writes the alarm itself.
`...GivesUp` are the timeouts, after which the handler upstream is gone and the one
downstream goes on.  `HostFails` and `RecompFails` are exceptions.
`GatewayEnds` and its like end a process with everything its threads were doing, `HostBoots`
and `RecompBoots` are the warm-up, `Starts` the next run: counter, registry and locks
are lost, `alarm.jsonl` and the adapter directories stay.  An adapter is its digest; a
computation yields any digest, so an honest cluster and a dishonest one are
both there.

### Warden

`Normalize` is `normalize()`: its statements are the operators `NormalizeIp`, `SeqOffset`,
`ShiftedAck`, `BoundUrgent`, `StripReset`, `StripOptions`, `ZeroPadding`, applied in
the code's order.  The rest of the module is the endpoints' TCP
(external), which opens the same 4-tuple with any of the ISNs, repeats SYN and
SYN-ACK, sends, resets, and receives late frames; `Strays` are frames of any well-formed
layout.  "recorded" is how the inference server uses the warden (the
normalised frame is captured, the original went out), "inline" is the
use its class documentation shows.  A field whose new value nobody
reads back is one flag, `noise`.

### ProofOfErasure

`Pregenerates` with `DdWrites`, `DdStops` and `Truncates` is `pregen_urandom`; `FillsChunk` is a
chunk of `run_protocol`'s streaming, through the five ways to make noise (`Noise`) and the
three regions' writes; `Challenge` is a round (`Respond`, `VerifyResponse`);
`Returns` and `Raises` its ends.  A block is the counter of the AES
stream it starts at, which is what the different generators must agree on.  `Report` is
`generate_report`; its sums go over the three regions by name (`Total`).

### NetStack

`ProcessResponse` and `ProcessExchange` are the stack's two entry points: builder,
segmentation, ring, and send.  `CreateSim`, `CreateDpdk`, `CreateFails`, `Close` are
its life; `Flush` with `FlushExhausted` and `FlushNothing` the DPDK backend over
libnetdet (`SendResult`: allocation of the mbufs, the prefix the driver accepts, the
release of the rest).  The port's receive queue takes its mbufs from the same pool
when the port is started (`RxRing`).  `DriverReleases` and `Accepts` are the driver (external).  The
EAL can be initialised once in a process (`eal`).  `StreamRebuilds` looks at the frames
of one connection in the ring (`OfConn`) and relates each to the one before it: its number
is where that one ended, its offset goes on or starts again after a PSH, and the PSH
frames end the payloads that were given, one by one.  Together these say that the chunks put
together are the payloads.

### ModelResolution and RunPipeline

`ModelResolution` has no state: for each question of `hf_resolution.py` it gives the set
of answers it can end with, by resolution mode, hub and mirror.  `RunPipeline` is
the commands as sequences of writes over `dirs`: `ResolveCommit`, `ResolveFiles`,
`WriteManifestOut`; `Build`, also with a closure digest that the schema refuses when the
lockfile of a Pipeline has already been rewritten (`ValidLock`); `StartRun`, `Infer`, `WriteFile`, `WriteBundle`;
`StartCapture` with the same writes in its own order; `Verify`, `VerifyLastTwo` and `Reported`.
`Raise` and `Kill` stop a command between any two of them.  `HubMoves` gives the branch another
commit.  A digest is the value digested; a run's output is the commit whose weights
it was served, or nothing for a mock.

## 4. Runs

| Run | Shows | Bounds |
|---|---|---|
| `ServerRestart` | types, declared environment, restart never taken for a crash, refinement of `VllmService` (one engine, truthful labels); the lock is released unless an engine stays hung; no server lingers without an engine | 2 handlers, 2 manifests, 3 launches |
| `ServerRequests` | a run that no launch overlapped was answered by the manifest it names; the capture file is emptied only by an application that has reached its stamp, and records nothing under a log newer than the engine that answered | 2 handlers, 2 manifests, 2 launches, 2 requests per run, 2 captured per log |
| `TcpDelivery` | types, nothing missing is forgotten, a number stands for one frame, the client reads a prefix and never past a hole, retransmission ends | 2 request packets in either order, 2 segments, 2 SYNs, 2 retransmissions, 1 failed send, 16 numbers |
| `TrafficDelivery` | types, a stop that saw its thread end has drained it, refinement of `EvidenceStream`; no frame is held back while a thread lives | 1 caller, 3 frames, batches of 2, 2 threads, 1 stop, 2 finalisations |
| `RunnerStops` | no workload leaked, an honest one not accused | 2 starts, 2 stops, 2 workloads of 2 prompts |
| `SchedulerReplays` | types, verdicts are right, nobody is accused without cause; every iteration ends | 4 ticks with 2 challenges of 1 round, 1 crash, 1 prompt |
| `SchedulerDiesDoc` | a finding (section 7) | the same |
| `TapVerdicts` | alarms are founded, a digest can be fetched while its Host runs, every released answer is judged unless a named failure prevents it | 2 calls, 2 outputs, 1 end of a process, both demos |
| `WardenRewrites` | types, distances between numbers are kept, the receiver finds the same bytes | 4 numbers, 2 ISNs, 2 hashes, 2 connections on a 4-tuple, 1 word sent |
| `ErasureWipes` | types, an honest prover passes and overwrote everything, a passing one held what it was asked for | regions up to 3 blocks in every mix, chunks of 2, 2 processes, 2 rounds, 1 fault |
| `EgressReports` | types with the account of mbufs, frames rebuild payloads, a clean stack's ring is what it sent | 2 connections, payloads of 0, 1 and 3 bytes, MSS 2, 4 numbers, a pool of 4 with 1 in the receive queue, 3 payloads, 2 stacks |
| `PipelineRuns` | types, commits are never mixed, bundles are bound to their runs, reports are true | 2 commits, 1 move, a lagging mirror, 2 directories, 2 runs or captures, 1 resolution |

Why the bounds are enough.  Two handlers are one that holds the lock and one that
reads or is refused: the code has no step in which three meet.  Three launches
are the boot, an application and another that follows a failed or timed-out one.
Two manifests of the same model are the case where vLLM cannot tell a request
meant for the other.  For TCP, the first connection's numbers straddle the
wrap, and the second begins where an old acknowledgment is ahead of the new
numbers; two SYNs are the one in progress and its duplicate, before, during or
after the response.  One failed send breaks off one response, and the second, for which
the client has the other packet of its request or the same one again, fits in the rest of
the numbers.  The FIN and the reset of the client carry no acknowledgment number, which the server
does not read.  The ISNs are far enough apart for two responses not to overlap:
hashed ISNs that fall within a response's length of each other would
let a client accept segments of a later connection, with a probability the
models do not speak of.  For the traffic path, three frames are a full batch and a started one, the second
thread is the successor of one that was abandoned or has died, and the second
finalisation is the one that must repeat the first's digest.  For the
runner, two starts and two stops are every pair that can overlap, and the second
workload is the one that meets what the first left behind.  For the scheduler, the
second challenge is the one that a late handler of the first can meet, a challenge
of the code has one round, and one crash is enough to lose what was stored; with
one prompt, the second challenge is what exceeds the claims.  For the TAP demos, two
calls are the pair that trains one adapter or shares an id across a restart, which
one end provides.  For the warden, the second connection is the one that
overwrites the offsets of the first; 4 numbers with hashes below and above the ISNs
make offsets of both signs and wraps.  For erasure, 3 blocks in chunks of 2 are a full
chunk and a partial one, and two processes share them unevenly.  For
the net stack, 3 bytes are a full segment and a short one, and three mbufs run out in a
burst that two connections filled.  For the pipeline, two runs are the pair a report
compares, also when both write into one directory; with `MaxResolves` = 1, that a second
resolution of a manifest mixes no commits is shown by the theorem alone.
`MaxConns`, `MaxFaults`, `MaxLaunch`, `MaxSeq`, `MaxFrames`, `MaxThreads`, `MaxStops` and `MaxRuns`
bound histories, not behaviour: deadlock is not checked because a run ends when they are
reached, or when the server has exited or the client is done.

## 5. Fairness

`InferenceServer`: handler threads inside `_start_vllm` run (weak fairness), as every wait
in it has a timeout and returns or raises, but for one: `urlopen` at `main.py:1073` has none, and a
handler in it is under no obligation while the engine it probes is hung (`Blocked`); the
boot's wait is the same.  `LockIsReleased` therefore says that the lock is released or its
holder is blocked from some point on for ever (section 7).  The main thread runs; its blocking `with state.lock` needs strong
fairness: a client that posts manifests without pause could otherwise always be
first.  A killed process dies, and its sockets with it.  Clients, signals, crashes and vLLM's start, and its
recovery from a hang, have none.

`UserspaceTcp`: only the server's timer while the server runs.  The loop reaches it when the receive
loop has drained what has arrived (a `select` of 5 ms, then packets until none is left), at most
every 20 ms: that packets do not arrive for ever faster than they are handled is assumed.
Nothing is assumed of the network or the client.

`TrafficPath`: only the publisher threads, whose `queue.get` and `urlopen` have timeouts;
nothing is assumed of the verifier, the callers or the thread that stops.

`VerifierScheduler`: only the scheduler's thread, whose `urlopen` calls have a timeout of
ten seconds for each receive.  A stream of a challenge has a bounded number of chunks in the
model; a reply that trickles without end, each piece within the timeout, would hold the
thread, and is not there.  Otherwise nothing is assumed of the prover, the driver or the signals.

`TapProtocol`: handlers and the threads that wait for a training lock go on, as every
`urlopen` has a timeout and a computation ends in a result or an exception.  That clients
call, and that processes end or start again, is not assumed.

`WorkloadRunner`, `Warden`, `ProofOfErasure`, `NetStack` and `RunPipeline` have none, and no
liveness property.

## 6. Proofs

`InferenceServerProofs` proves, for any set of handlers, manifests and bounds:
`TypeOK`, `LockDiscipline`, `OneEngine`, `LaunchedAsDeclared`, `AppliedIsRunning`,
`RestartIsNotACrash`, `QuietRunIsAttested`, `CaptureAppendOnly`,
`CaptureMatchesEngine` and the refinement `ImplementsService`.  The assumption is `ServerAssumption`.

None of them is inductive alone.  The inductive invariant `IInv` adds:

* `BootInv`: what is true before the server accepts requests: no handler is
  active, and at most the boot process exists;
* `BoundInv`, `ProxyInv`: launches stay below the bound while a handler applies,
  and a proxied request carries a log that exists;
* `EngineInv`: only the latest process can be alive, and none is while the lock
  holder is about to launch;
* `EnvInv`: from the rewrite to the launch the environment is the holder's manifest;
* `AppliedInv`: while the stamp is current, or is about to be written, the
  manifest displayed is that of the latest process;
* `RunInv` with `EndpointInv`: a run that is under way, no other launch having come
  between, has its snapshot from the latest process's manifest and its answers
  from that process alone, for no application touches manifest or stamp without
  a launch;
* `CaptureInv`: from a launch until the log is replaced, the log in use is of an
  earlier launch, so that only an application past its stamp empties the file;
* `AnswerInv`: a request that has its log, and one that has been answered, had an
  engine at least as late as that log.

Frame lemmas (`ProcFrame`, `FieldFrame`, `HandlerFrame`, ...) say what groups
of actions leave unchanged, so that each part of `IInv` is proved from the few
actions that disturb it.  `IInv` is itself true in TLC under the constants of
`ServerRestart` and, with two captured requests, of `ServerRequests`.

That the server implements `VllmService` follows from `IInv`: the engine of the
abstract state is that of the latest process (`EngineFacts`, from `EngineInv`),
`SetManifest` publishes its configuration (from `AppliedInv`), and every other step
starts, stops or keeps it.

`UserspaceTcpProofs` proves `TypeOK` from `TcpAssumption` alone, `OneEgress` under the
hypothesis `ResponsesFit` (the responses a connection can be given, of which there is one more
than sends have failed, are shorter than half of the sequence space), and
`ForgottenWasReceived` and the refinement of `ResponseStream` (`DeliversPrefix`) under
`IsnsApart`: also, the numbers of two connections' responses do not meet.  The
code draws the numbers from a hash and checks nothing of the kind, so this stands in the
theorems and not among the assumptions of the model; `MCUserspaceTcp` states it of its
own instance, and it cannot be dropped: with numbers that meet, a client takes a late
segment of the connection before.

All of it is proved for any number of failed sends, in any handler and in the timer.  The
invariant has two layers.  `EgressInv` is about the server: `FramesOk` relates every frame
sent or stored to its connection's numbers and to its neighbours of the same connection (a number has one frame; behind a
segment comes the next of its response, its FIN, or, where a response has been broken off, the
first of another), and `StoreInv` says which numbers a connection has used and which of them may have no frame at
all: those behind the segment at which a send failed.  `ClientInv` is about both ends: a client's next
number is as far from its connection's first as it has read, and what it has read is a prefix of a
response.  `Offset` counts a number from its connection's ISN, and
all comparisons are made there (`OffsetOf`, `OffsetAdd`, `SeqLteByOffset`: the signed
comparison is the order of the offsets while they are less than half the space).  Steps of
the server are of three kinds: a response or a piece of one (`AnswerDoes`), a new connection (`SynDoes`), and
all others, which number nothing (`QuietServer`).

`TrafficPathProofs` proves `TypeOK`, the refinement of `EvidenceStream` (`ImplementsEvidence`)
and `StopDrains`, from `TrafficAssumption`, for any number of callers, threads,
frames, stops and finalisations and any batch size.  For the refinement, the invariant
`Places` says that a frame taken from the queue is in one place (a thread's
buffer, a post on its way, or the record: `PlaceInv`), that it came before all that
is still queued (`TakenInv`), and that batches are in order (`OrderInv`); a
post that lost its reply is not sent again, so the record takes no frame twice.
For `StopDrains`, `DrainInv` follows a stop: while it joins, the sentinel is
behind everything published before (`SentinelWaits`), until the thread takes it
and has emptied queue and buffer (`PastMark`).

`WardenProofs` proves `TypeOK`, `FlowKept` and `SameBytes` from `WardenAssumption`, for any
size of the sequence space, any keyed hash, any numbers and any number of
connections on the 4-tuple.  It assumes that a connection sends less than the sequence space
(`MaxSent < W`), beyond which a number would not name one byte.  `OffsetInv` says that the one
`ConnState` of a direction is that of its sender's present connection; for
it to stay so when late frames pass, `WireInv` says where a frame's number is behind
that of a SYN of its connection (`PairInv`, `CurrentInv`) and that what an endpoint
knows of the other came from a SYN (`PeerInv`).  `LastInv` is `FlowKept` stated for the
frame that passed last against the connections there are now.  The three strippings
have a lemma each on what they leave (`StrippedReset`, `StrippedOptions`, `NormalizedIp`),
which `NormalizedTcp` puts together.  `IInv` holds in TLC under the constants of
`WardenRewrites`.

`ProverNodeProofs`, in its first half, proves `TypeOK`, `StrayIsTold`, `ReportedOnce` and
`HonestIsNotAccused` for any number of requests, workloads and prompts, from
`RunnerAssumption`.  The inductive invariant adds `CountInv` (between a prompt's
inference and its record the observed side is one ahead, and nowhere else for an
honest workload), `HoldInv` (what a stop request holds the runner no longer names) and
`JoinInv` (what a stop that saw its workload end has read was final).  It holds in TLC
under the constants of `RunnerStops`.

Its second half proves `PoseTypeOK`, `HonestPasses` and `PassedIsHeld` of `ProofOfErasure`
for any ceilings of the regions and any chunk, number of processes, rounds and faults, from `PoseAssumption`.  `Geometry` and `Places` put the regions in the
stream one behind the other, so that the Verifier's map and the Prover's offsets lead an
index to the same block (`SameBlock`); `SameNoise` shows that the five ways to make noise give a
block what a challenge expects of its index, wherever a chunk starts, and `NoiseIsNew`
that this is never what the memory held before.  Of the invariant, `PlaceInv` ties the
running offset to region and block, `HonestInv` says that without a fault all that was
streamed is what a challenge will expect, and `HeldInv` that while all rounds have passed
every drawn block still verifies.  While the noise file is written nothing has been
streamed, so writing it disturbs none of these (`PregenKeeps`).  `PoseInv` holds in TLC
under the constants of `ErasureWipes`.

`VerifierSchedulerProofs` proves `TypeOK`, `VerdictIsRight` and `AccusedWithCause` for any number of rounds,
challenges and crashes and any periods, from `SchedulerAssumption`.  The inductive
invariant adds `EntryInv` (a log entry is about a challenge that was sent), `StoreInv`
(what is stored or wrong was computed, and all that was computed is stored while the
prover has not crashed), `EvidenceInv` (evidence on the wire or read from it is that of
a challenge with all rounds done) and `FetchInv` (between two attestations: as long as
no reason to refuse was found, the rounds looked at were found and right, and a reason
is a wrong round or a crash).  `FetchInv` rests on `EvidenceInv`: the prover no longer
touches the rounds of a challenge whose evidence was read.  For `AccusedWithCause`,
`DriverInv` says that once the transcript has been read as not correct, a cause exists;
causes stay (`CausesStay`), so it does not matter what the scheduler writes between the
reading of the two files.  `FrameOfOthers` and `HandlerFrame`
say what the verifier's and the prover's steps leave alone; the invariant holds in TLC
under the constants of `SchedulerReplays`, with one round and with two.

`PipelineProofs`, in its first half, proves `TypeOK`, `OneCommit`, `BundleIsBound` and `ReportIsOfItsRuns` for
any repository, mirrors, directories, closures and bounds, from
`ResolutionAssumption` and `PipelineAssumption`.  `OneCommit` is inductive once the manifest
that waits for `--manifest-out` is included (`CommitInv`).  For the others, the
invariant says of a command under way that the bundle is the last file it will
write and that its outputs exist once the network record has been written (`JobInv`),
so that what a bundle says of its run was final when it was said (`BundleInv`);
then digests that hold tie the files to the run (`BoundBundles`), and a
comparison of the files is one of the runs (`VerifyStep`).

Its second half proves the three invariants of `NetStack`, `NetTypeOK`, `StreamRebuilds` and
`EgressIsCaptured`, for any connections, payloads, segment size, widths of the two counters
and bounds, from `NetStackAssumption`.  Of it the proofs use that
a full pool is less than the 16-bit burst count: without that, a burst cut by
`rte_eth_tx_burst`'s argument would leave mbufs that nobody frees.

* The frames of a connection are selected from the ring by a recursive function.  What is
  needed of it is proved by induction over its argument: a set of numbers that contains 0 and is closed under
  the successor is `Nat`, because a number outside it would have a least one
  (`LeastElement`, from the well-foundedness of the order; `Induction`).  From the existence of the function
  (`UpToExists`) follow its equation (`UpToDef`), that it depends on a prefix only
  (`UpToPrefix`), and what it selects from a sequence with one element more or with another
  behind it (`WhereAppend`, `WhereConcat`).
* `FramesOfPayload` says what one payload becomes: all segments but the last are full, and
  the last one alone has PSH and ends where the payload ends (`SegmentsCover`).
* `StreamInv` is `StreamRebuilds` with the builder: its next number is where the last frame of its connection
  ended, its next IP identification is the count of frames mod 2^16, and the last frame has PSH.
  `StreamGrows` keeps this for one payload, across both wraps (`ModOfSum`); an exchange is two of them,
  and the other connections keep their frames (`EmitStep`).
* `PoolInv` is the account of mbufs, with the EAL up under a DPDK stack; `BufferInv` adds to
  `EgressIsCaptured` that a simulated stack buffers nothing.

`NetInv`, their conjunction, holds in TLC under the constants of `EgressReports`.

`TapProtocolProofs` proves `TypeOK`, `AlarmIsFounded` and `ReplyIsFetchable` for any calls,
outputs and ends of processes, from `TapAssumption`.  The inductive invariant adds
`NumberInv` and `UniqueInv` (numbers of the Gateway's present run are at most its counter,
and no two calls of a run share one), `RelayInv` (how far a call has come in each process;
an answer that went out is signed with its request's number), `AdapterInv` (what this
run of the Host has answered is in its registry) and `AlarmInv` (an alarm is the record of
a call's one judgement).  `AlarmIsFounded` rests on two facts that hold across restarts:
a number is not given again in one run (`NumbersKept`), and an answer is not changed
once it was sent (`AnswerKept`).  `IInv` holds in TLC under the constants of
`TapVerdicts`, with one end of a process and with two.

Proved but in no run of their own, because `ImplementsService` has them as
consequences or another run shows them: `LockDiscipline`, `OneEngine`,
`AppliedIsRunning`, `ReportedOnce`, and the `TypeOK` of `WorkloadRunner` and of `TapProtocol`.

Only model-checked is liveness (`LockIsReleased`, `NoZombieServer`, `RetransmissionEnds`,
`NothingIsHeldBack`, `TickEnds`, `ReleasedIsJudged`), which the prover does not reach.  Every
other property of a passing run is a theorem.

## 7. Findings

The run `SchedulerDiesDoc` shows that an exception of `get_attestation` ends the scheduler's
thread (`scheduler.py:248`, `312`): no challenge is sent any more.

In four more places the code does less than a line of it says.  The models have these too; the
properties are what holds in spite of them.

* The start of an engine has a timeout of 300 s (`inference/server/main.py:1068`), but `urlopen` has
  none (1073): an engine that accepts a health probe and never answers holds the application, and
  the lock, for ever.
* The "append-only" capture log (515) is emptied by the constructor of the next one (524),
  while requests still take the old one (until 491).
* `_send_response` stores each frame "for retransmission" (`userspace_tcp_server.py:489`), but
  after a send that failed in the middle of a response the segments that follow are numbered
  (495) and stored nowhere; the client waits for them.
* "Network down, retrying" (690) is true of the handlers only: the same error in the retransmission
  timer (699) is caught by nobody and ends the server.

The following are other behaviours of the code that the models contain.  Paths are below `src/modules` unless they start with
`demos` or `tests`.

Servers and scheduler

* The reply to POST `/manifest` is read after the lock is released
  (`inference/server/main.py:686`) and can name another client's manifest; compare
  `tests/e2e/test_manifest_endpoint_live.py:77`.
* A bundle's `manifest_digest` is read at the end of the run, its `run_id` at the start
  (`main.py:835`; docstring at 732).
* Entries of `capture.jsonl` follow completion, not arrival, while
  `capture_to_bundle` numbers requests by their position in it.
* A retransmitted SYN replaces the connection and its ISN; the client's ACKs of the
  first ISN then prune frames that it never received (`userspace_tcp_server.py:377`, `428`).
  `ForgottenWasReceived` is what does hold: for a client on the server's ISN, and unless a
  send failed within the response, what it misses stays in the store.
* That is not to say it is sent again: a FIN of the client stops retransmission
  (538, 622), so a client that half-closes after its request may never get the
  response.  No property and no document promises that it does.
* A response is not marked as sent when a send fails (511, 514), so that a repeated request is
  answered again at other numbers: the egress of a run then depends on the network,
  and a client that got all segments of the first response (the send that raised may have been of
  the last one) reads a second one behind it.
* While an application replaces the capture log, the old object still records what the
  new engine answers, and requests that took it append to the emptied file: entries of two logs,
  each with its own numbers, lie in one file, and nothing in an entry tells which (491, 524).
* If the new log cannot be opened, the reply is 500 with the new manifest already
  applied and stamped (488-491, 519-524).
* `_flush` catches only `URLError`; a reply that does not come in time ends the publisher
  thread with another exception (`traffic_publisher.py:115`), and `start()` never
  replaces it.
* A write to the traffic file that fails in part (`AppendFails`) leaves data in the
  file that the running digest does not cover.
* `stop()` forgets a workload before it has ended, so another can be started beside it
  (`workload_runner.py:106`; line 47 says at most one).  It sets one workload's
  observed FLOPs against the claims of every workload so far (`StopTotals`), and a
  workload replaced by `start()` after its end is reported by no stop.
* A reply whose handler raises (`Raises`) ends like a complete one.  The scheduler
  then records neither a verdict nor a 599 entry, and `replay_correctness` passes,
  although the comment at `scheduler.py:224-226` expects an error chunk.
* Replayed FLOPs count as observed but are claimed by nobody (`compute_budget`): an
  honest workload that is small next to its challenges is accused
  (`AccusedWithCause` names this as a cause).
* TAP training: an inference call and a training call, or the two passes of one call, can
  run at the same time, since the lock is per cluster; `demos/tap-train/plan.md:34` says not.

Network

* `_encrypt_ip_id` is called a permutation and is a truncated hash: two identifications
  may become equal.
* RST with URG keeps an urgent pointer to a payload that was stripped (`warden.py:277-303`).
* Inline, an acknowledgement is shifted twice, once each way, so that the endpoints disagree;
  `warden.py:1-6` presents this use.  `FlowKept` is therefore about "recorded".
* A flush drops the frames beyond the accepted prefix, and `match` stays true, with nothing
  confirmed too; `EgressIsCaptured` asks for confirmed as many as submitted.
* `api.egress_frames` never flushes; a second DPDK stack in one process fails.
* `runner/main.py` closes the stack (430) before it reads the loopback (438): with
  DPDK and loopback the read raises and no bundle is written (comment at 432).
* In vLLM mode the stack is always the simulated one (408) while the bundle's route mode says
  DPDK (539).

Pipeline and erasure

* `hf_resolution.py:471-478`: in cache-first mode a mirror's partial list of shards has every
  required role, and an incomplete model is pinned.
* `requested_revision` and `resolved_revision` (497) are not admitted by the schema: the
  branch asked for is always `main`.
* `build_runtime` rewrites the lockfile in place before it validates the result
  (`build/builder/main.py:334-373`): a Pipeline given a closure digest that is not one keeps a lockfile that
  every later stage refuses.
* `resolve_hf` changes a Pipeline's manifest before the result is validated: one that fails
  leaves a manifest that no later stage accepts.
* vLLM is started by the model's name without the pinned revision
  (`vllm_runner.py:38-53`), and a vLLM run's `resolved_env` is always empty (526).
* `capture_to_bundle` compares no manifest digest and mixes the boots of a server;
  `verify` checks neither `bundle_digest` nor that the two manifests agree.
* Two runs into one directory make `Pipeline.verify` (`pipeline.py:77`) compare a bundle with
  itself.
* `artifact_id` is a basename (373), so that files of one name in two directories collide;
  the runner refuses such a lockfile.
* The "ulp" comparison (`attestation/verifier/main.py:84-87`) maps negative floats above the
  positive ones instead of below: 0.0 and -0.0 are 2^64 apart.
* `pregen_urandom` leaves the blocks beyond `cores * per_core` zero and ignores how `dd` ended;
  `wiped_bytes` (`protocol.py:17`) counts blocks that a short write left; `run_protocol` does not
  release its regions when it raises.

## 8. Not modelled

* Wording, JSON, HTTP framing, logging, hashes (taken as injective), GPU work.
* HTTP GET handlers of the inference server, which change nothing.
* Frames that are not well-formed, and fragments, through the warden: a data offset below 20 or
  beyond the frame makes `normalize` cut at the wrong place or raise.
* An exception in the TAP demos' `_log_alarm` itself.
* Transient errors of the receive socket of the TCP server: they leave the loop or are ENETDOWN in a
  handler that has done nothing.
* The clock: erasure deadlines and the duration of exchanges.
* A second signal that interrupts the publisher's `stop()` inside its lock
  (`prover/main.py:425`), which is not reentrant.
* Freivalds' checks: their soundness is a probability over random vectors, and the streaming
  form's chain of hashes is a fold over digests; neither has a state another step can meet.
  `VerifierScheduler` takes them to notice a wrong product.
* `modules/attestation/e2e`, `manifest/model.py` and the pure parts of `core/common`: functions
  on data.  Number comparison under a tolerance is equality in `RunPipeline`.
* `workflows/verified_inference.py`'s attestation steps and the training workflow:
  sequential programs without failures of their own that they handle.
* `scripts`, `demos/prover-verifier/scripts`, continuous integration: drivers.
