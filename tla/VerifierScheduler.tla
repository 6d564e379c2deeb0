-------------------------- MODULE VerifierScheduler --------------------------
(***************************************************************************)
(* The verifier's active half: the VerifierScheduler thread of             *)
(* proverdet/scheduler.py, the handler of /replay in prover/main.py with   *)
(* produce_evidence_stream (proverdet/replay.py) and the attestation store *)
(* behind it, verify_evidence (proverdet/replay_verify.py), and the        *)
(* verdict engine (proverdet/verdict.py) as the driver calls it after a    *)
(* benign workload.                                                        *)
(*                                                                         *)
(* The scheduler issues one request at a time.  The prover has a thread    *)
(* per request; one whose client gave up may go on.  A reply is a stream   *)
(* of chunks without a length: that it has ended only shows in the         *)
(* connection's end.  The prover may crash and come back with nothing but  *)
(* a new process, and a matmul may come out wrong.                         *)
(***************************************************************************)
EXTENDS Naturals, Sequences

CONSTANTS
    Rounds,        \* proof_of_work.rounds of a replay request
    TickMs,        \* tick_ms
    GraphPeriod,   \* graph_period_ms
    ReplayPeriod,  \* replay_period_ms
    ReplayFlops,   \* 2 * dim^3, of one round
    PromptFlops,   \* what a workload claims for one prompt
    MaxTicks,      \* bound: iterations of the scheduler's loop
    MaxPrompts,    \* bound: prompts of the workload
    MaxCrashes     \* bound: crashes of the prover

ASSUME SchedulerAssumption ==
    /\ Rounds \in Nat \ {0}
    /\ TickMs \in Nat \ {0}
    /\ GraphPeriod \in Nat \ {0}
    /\ ReplayPeriod \in Nat \ {0}
    /\ ReplayFlops \in Nat \ {0}
    /\ PromptFlops \in Nat \ {0}
    /\ MaxTicks \in Nat
    /\ MaxPrompts \in Nat
    /\ MaxCrashes \in Nat

VARIABLES
    tick,        \* _tick
    graphDue,    \* _next_graph_due
    replayDue,   \* _next_replay_due
    sched,       \* where the scheduler thread is, and its locals
    stop,        \* _stop is set
    transcript,  \* transcript.jsonl: the entries of challenges
    summaries,   \* summaries.jsonl: the replay_evidence lines
    replay,      \* every challenge issued: its handler and its connection
    store,       \* AttestationStore: the rounds <<replay, round>> stored
    wrong,       \* the rounds whose matmul came out wrong
    captured,    \* the prover's capture log: the "sent" entries of /replay
    up,          \* the prover's process runs
    crashes,     \* crashes of the prover so far
    driver       \* the demo driver, and the verdict it is given

schedulerVars == <<tick, graphDue, replayDue, sched>>
logVars == <<transcript, summaries>>
proverVars == <<store, wrong, captured, up, crashes>>
vars == <<schedulerVars, stop, logVars, replay, proverVars, driver>>

-----------------------------------------------------------------------------

Entry == [direction : {"sent", "received"},
          endpoint : {"/replay", "/replay/verdict"},
          replay : Nat, status : {0, 200, 422, 599}]

Sent(endpoint, r) ==
    [direction |-> "sent", endpoint |-> endpoint, replay |-> r, status |-> 0]

Received(endpoint, r, status) ==
    [direction |-> "received", endpoint |-> endpoint, replay |-> r, status |-> status]

Record(entry) == transcript' = Append(transcript, entry)

(* pc: at the top of the loop, waiting for /graph, looking whether a replay *)
(* is due, reading the stream, fetching attestations, between the verdict   *)
(* and its summary; "ended" by stop(), "killed" with its process, "dead" of *)
(* an exception.  round and cursor are those of verify_evidence's loop.     *)
Scheduler == [pc : {"loop", "graph", "due", "reading", "fetching", "judged",
                    "ended", "killed", "dead"},
              evidence : BOOLEAN, round : 0..Rounds + 1, cursor : 0..Rounds,
              failing : BOOLEAN]

At(pc) == [pc |-> pc, evidence |-> FALSE, round |-> 0, cursor |-> 0, failing |-> FALSE]

Chunks == {"pow", "evidence", "error"}

(* wire: chunks written and not read; end: whether the connection is open,  *)
(* was shut down in order, or was reset.                                    *)
Replay == [pc : {"computing", "capturing", "done", "failed"}, round : 0..Rounds,
           status : {200, 500}, wire : Seq(Chunks), end : {"open", "eof", "broken"}]

(* The challenge the scheduler is busy with is always the latest:           *)
(* _replay_counter is Len(replay).                                          *)
counter == Len(replay)

Becomes(r, handler) == replay' = [replay EXCEPT ![r] = handler]

(* A reply is read until its end or a failure; then its connection is shut. *)
Reads(r) == sched.pc = "reading" /\ r = counter

Driver == [pc : {"working", "stopped", "read", "done"}, claims : Nat,
           correct : BOOLEAN, verdict : {"none", "inference", "training_or_exfil"}]

Init ==
    /\ tick = 0
    /\ graphDue = 0
    /\ replayDue = 0
    /\ sched = At("loop")
    /\ stop = FALSE
    /\ transcript = <<>>
    /\ summaries = 0
    /\ replay = <<>>
    /\ store = {}
    /\ wrong = {}
    /\ captured = <<>>
    /\ up = TRUE
    /\ crashes = 0
    /\ driver = [pc |-> "working", claims |-> 0, correct |-> TRUE, verdict |-> "none"]

-----------------------------------------------------------------------------
(* The scheduler's loop: _tick_once. *)

(* The next time something is due, after it was done in this tick.          *)
NextDue(period) == (tick + 1) * TickMs + period

LoopTop ==
    /\ sched.pc = "loop"
    /\ ~stop
    /\ tick < MaxTicks
    /\ IF tick * TickMs >= graphDue
       THEN sched' = At("graph")
       ELSE sched' = At("due")
    /\ UNCHANGED <<tick, graphDue, replayDue, stop, logVars, replay, proverVars, driver>>

LoopEnds ==
    /\ sched.pc = "loop"
    /\ stop
    /\ sched' = At("ended")
    /\ UNCHANGED <<tick, graphDue, replayDue, stop, logVars, replay, proverVars, driver>>

(* /graph is answered or not: an entry either way, and a graph without      *)
(* tasks (build_empty_graph), whose claims add nothing to the summaries.    *)
GraphAnswered ==
    /\ sched.pc = "graph"
    /\ graphDue' = NextDue(GraphPeriod)
    /\ sched' = At("due")
    /\ UNCHANGED <<tick, replayDue, stop, logVars, replay, proverVars, driver>>

NotDue ==
    /\ sched.pc = "due"
    /\ tick * TickMs < replayDue
    /\ tick' = tick + 1
    /\ sched' = At("loop")
    /\ UNCHANGED <<graphDue, replayDue, stop, logVars, replay, proverVars, driver>>

(* The prover is asked when the first chunk is: a refused connection is an  *)
(* exception of the stream.                                                 *)
SendReplay ==
    /\ sched.pc = "due"
    /\ tick * TickMs >= replayDue
    /\ sched' = At("reading")
    /\ Record(Sent("/replay", counter + 1))
    /\ \E reached \in {TRUE, FALSE} :
          /\ reached => up
          /\ replay' = Append(replay,
                [pc |-> IF reached THEN "computing" ELSE "failed", round |-> 0,
                 status |-> 500, wire |-> <<>>,
                 end |-> IF reached THEN "open" ELSE "broken"])
    /\ UNCHANGED <<tick, graphDue, replayDue, stop, summaries, proverVars, driver>>

(* _do_replay returns; the tick is over.                                    *)
EndReplay ==
    /\ replayDue' = NextDue(ReplayPeriod)
    /\ tick' = tick + 1
    /\ sched' = At("loop")
    /\ UNCHANGED graphDue

ReadChunk ==
    /\ sched.pc = "reading"
    /\ replay[counter].wire # <<>>
    /\ Becomes(counter, [replay[counter] EXCEPT !.wire = Tail(@)])
    /\ sched' = [sched EXCEPT !.evidence = @ \/ Head(replay[counter].wire) = "evidence"]
    /\ Record(Received("/replay", counter, 200))
    /\ UNCHANGED <<tick, graphDue, replayDue, stop, summaries, proverVars, driver>>

(* Mutant of Breaks: the stream is read without a timeout.                  *)
BreaksOnReset(r) == replay[r].end = "broken"

(* A timeout, a reset, or a line cut off.                                   *)
Breaks(r) ==
    \/ replay[r].end = "broken"
    \/ replay[r].wire = <<>> /\ replay[r].end = "open"

ReadBreaks ==
    /\ sched.pc = "reading"
    /\ Breaks(counter)
    /\ Record(Received("/replay", counter, 599))
    /\ Becomes(counter, [replay[counter] EXCEPT !.wire = <<>>])
    /\ EndReplay
    /\ UNCHANGED <<stop, summaries, proverVars, driver>>

(* Evidence that left the prover has passed its schema: it parses.          *)
ReadEnds ==
    /\ sched.pc = "reading"
    /\ replay[counter].wire = <<>>
    /\ replay[counter].end = "eof"
    /\ IF sched.evidence
       THEN /\ sched' = [At("fetching") EXCEPT !.round = 1]
            /\ UNCHANGED <<tick, graphDue, replayDue>>
       ELSE EndReplay
    /\ UNCHANGED <<stop, logVars, replay, proverVars, driver>>

-----------------------------------------------------------------------------
(* verify_evidence, one attestation after the other. *)

(* Mutant of Fetching: one attestation too many.                            *)
FetchingBeyond == sched.pc = "fetching" /\ sched.round <= Rounds + 1

Fetching == sched.pc = "fetching" /\ sched.round <= Rounds

(* The slice of the output checked for a round begins where the slices of   *)
(* the attestations found so far end.                                       *)
FetchFound ==
    /\ Fetching
    /\ up
    /\ <<counter, sched.round>> \in store
    /\ sched' = [sched EXCEPT
          !.round = @ + 1,
          !.cursor = @ + 1,
          !.failing = @ \/ sched.cursor + 1 # sched.round
                        \/ <<counter, sched.round>> \in wrong]
    /\ UNCHANGED <<tick, graphDue, replayDue, stop, logVars, replay, proverVars, driver>>

(* Mutant of FetchMissing: the round is skipped and no reason is noted.     *)
FetchMissingUnnoted ==
    /\ Fetching
    /\ up
    /\ <<counter, sched.round>> \notin store
    /\ sched' = [sched EXCEPT !.round = @ + 1]
    /\ UNCHANGED <<tick, graphDue, replayDue, stop, logVars, replay, proverVars, driver>>

FetchMissing ==
    /\ Fetching
    /\ up
    /\ <<counter, sched.round>> \notin store
    /\ sched' = [sched EXCEPT !.round = @ + 1, !.failing = TRUE]
    /\ UNCHANGED <<tick, graphDue, replayDue, stop, logVars, replay, proverVars, driver>>

(* get_attestation lets everything but a 404 through, and so do             *)
(* verify_evidence, _do_replay, _tick_once and the loop.                    *)
FetchFails ==
    /\ Fetching
    /\ sched' = At("dead")
    /\ UNCHANGED <<tick, graphDue, replayDue, stop, logVars, replay, proverVars, driver>>

RecordVerdict ==
    /\ sched.pc = "fetching"
    /\ sched.round > Rounds
    /\ sched' = At("judged")
    /\ Record(Received("/replay/verdict", counter, IF sched.failing THEN 422 ELSE 200))
    /\ UNCHANGED <<tick, graphDue, replayDue, stop, summaries, replay, proverVars, driver>>

RecordSummary ==
    /\ sched.pc = "judged"
    /\ summaries' = summaries + 1
    /\ EndReplay
    /\ UNCHANGED <<stop, transcript, replay, proverVars, driver>>

-----------------------------------------------------------------------------
(* The verifier's signal handler: stop() joins for two seconds, then the    *)
(* process ends and its daemon thread with it.                              *)

Stopped == {"ended", "killed", "dead"}

StopScheduler ==
    /\ ~stop
    /\ stop' = TRUE
    /\ UNCHANGED <<schedulerVars, logVars, replay, proverVars, driver>>

VerifierExits ==
    /\ stop
    /\ sched.pc \notin Stopped
    /\ sched' = At("killed")
    /\ UNCHANGED <<tick, graphDue, replayDue, stop, logVars, replay, proverVars, driver>>

-----------------------------------------------------------------------------
(* The prover: one handler per challenge. *)

(* What is written after the client has gone is lost, or fails (Raises).    *)
Write(r, chunk) == IF Reads(r) THEN Append(replay[r].wire, chunk) ELSE replay[r].wire

Compute(r) ==
    /\ replay[r].pc = "computing"
    /\ replay[r].round < Rounds
    /\ LET round == replay[r].round + 1 IN
          /\ store' = store \union {<<r, round>>}
          /\ wrong' \in {wrong, wrong \union {<<r, round>>}}
          /\ Becomes(r, [replay[r] EXCEPT !.round = round, !.wire = Write(r, "pow")])
    /\ UNCHANGED <<schedulerVars, stop, logVars, captured, up, crashes, driver>>

(* The evidence, or an error when it does not fit its schema.               *)
Finish(r) ==
    /\ replay[r].pc = "computing"
    /\ replay[r].round = Rounds
    /\ \E chunk \in {"evidence", "error"} :
          Becomes(r, [replay[r] EXCEPT
             !.pc = "capturing",
             !.status = IF chunk = "evidence" THEN 200 ELSE 500,
             !.wire = Write(r, chunk)])
    /\ UNCHANGED <<schedulerVars, stop, logVars, proverVars, driver>>

(* The connection is shut when the handler returns.                         *)
Capture(r) ==
    /\ replay[r].pc = "capturing"
    /\ captured' = Append(captured, [replay |-> r, status |-> replay[r].status])
    /\ Becomes(r, [replay[r] EXCEPT !.pc = "done", !.end = "eof"])
    /\ UNCHANGED <<schedulerVars, stop, logVars, store, wrong, up, crashes, driver>>

(* A file cannot be written, or the client is gone: nothing is caught, and  *)
(* the connection is shut as if the reply were complete; or, if the headers *)
(* have not gone out, without a reply (RemoteDisconnected at the client).   *)
ShutEnds(r) == {"eof"} \cup {end \in {"broken"} : replay[r].round = 0}

Raises(r) ==
    /\ replay[r].pc \in {"computing", "capturing"}
    /\ \E end \in ShutEnds(r) :
          Becomes(r, [replay[r] EXCEPT !.pc = "failed", !.end = end])
    /\ UNCHANGED <<schedulerVars, stop, logVars, proverVars, driver>>

ProverCrash ==
    /\ up
    /\ crashes < MaxCrashes
    /\ up' = FALSE
    /\ crashes' = crashes + 1
    /\ \E end \in {"eof", "broken"} :
          replay' = [r \in DOMAIN replay |->
             IF replay[r].pc \in {"computing", "capturing"}
             THEN [replay[r] EXCEPT !.pc = "failed", !.end = end]
             ELSE replay[r]]
    /\ UNCHANGED <<schedulerVars, stop, logVars, store, wrong, captured, driver>>

(* A new process: an empty store, and JsonlLog truncates the capture log.   *)
ProverRestarts ==
    /\ ~up
    /\ up' = TRUE
    /\ store' = {}
    /\ captured' = <<>>
    /\ UNCHANGED <<schedulerVars, stop, logVars, replay, wrong, crashes, driver>>

-----------------------------------------------------------------------------
(* The driver, after a benign workload: its claims are those of the prompts *)
(* the prover's process has recorded, and it observes no FLOPs itself.      *)

WorkloadStops ==
    /\ driver.pc = "working"
    /\ up
    /\ \E prompts \in 0..MaxPrompts :
          driver' = [driver EXCEPT !.pc = "stopped", !.claims = prompts * PromptFlops]
    /\ UNCHANGED <<schedulerVars, stop, logVars, replay, proverVars>>

IsVerdict(entry) == entry.direction = "received" /\ entry.endpoint = "/replay/verdict"

(* Mutant of replay_correctness: every entry of a challenge counts.         *)
replay_entries_correct(entries) ==
    \A i \in DOMAIN entries :
        entries[i].direction = "received" => entries[i].status = 200

replay_correctness(entries) ==
    \A i \in DOMAIN entries : IsVerdict(entries[i]) => entries[i].status = 200

compute_budget(observed, claimed) ==
    \/ claimed = 0 /\ observed = 0
    \/ 10 * observed <= 11 * claimed

observed_total == summaries * Rounds * ReplayFlops

(* emit_verdict reads the two files one after the other, beside the         *)
(* scheduler that writes them.                                              *)
ReadTranscript ==
    /\ driver.pc = "stopped"
    /\ driver' = [driver EXCEPT !.pc = "read", !.correct = replay_correctness(transcript)]
    /\ UNCHANGED <<schedulerVars, stop, logVars, replay, proverVars>>

EmitVerdict ==
    /\ driver.pc = "read"
    /\ driver' = [driver EXCEPT
          !.pc = "done",
          !.verdict = IF driver.correct /\ compute_budget(observed_total, driver.claims)
                      THEN "inference" ELSE "training_or_exfil"]
    /\ UNCHANGED <<schedulerVars, stop, logVars, replay, proverVars>>

-----------------------------------------------------------------------------

SchedulerStep ==
    \/ LoopTop \/ LoopEnds \/ GraphAnswered \/ NotDue
    \/ SendReplay \/ ReadChunk \/ ReadBreaks \/ ReadEnds
    \/ FetchFound \/ FetchMissing \/ FetchFails \/ RecordVerdict \/ RecordSummary

Handler(r) == Compute(r) \/ Finish(r) \/ Capture(r) \/ Raises(r)

Next ==
    \/ SchedulerStep
    \/ StopScheduler \/ VerifierExits
    \/ \E r \in DOMAIN replay : Handler(r)
    \/ ProverCrash \/ ProverRestarts
    \/ WorkloadStops \/ ReadTranscript \/ EmitVerdict

Spec == Init /\ [][Next]_vars

(* Every wait of the scheduler's thread has a timeout of ten seconds;       *)
(* nothing is assumed of the prover.                                        *)
FairSpec == Spec /\ WF_vars(SchedulerStep)

-----------------------------------------------------------------------------
(* Properties. *)

TypeOK ==
    /\ tick \in Nat
    /\ graphDue \in Nat /\ replayDue \in Nat
    /\ sched \in Scheduler
    /\ stop \in BOOLEAN
    /\ transcript \in Seq(Entry)
    /\ summaries \in Nat
    /\ replay \in Seq(Replay)
    /\ store \subseteq (1..counter) \X (1..Rounds)
    /\ wrong \subseteq (1..counter) \X (1..Rounds)
    /\ captured \in Seq([replay : 1..counter, status : {200, 500}])
    /\ up \in BOOLEAN
    /\ crashes \in 0..MaxCrashes
    /\ driver \in Driver

Verdicts == {i \in DOMAIN transcript : IsVerdict(transcript[i])}
Judged(r, status) == \E i \in Verdicts : transcript[i].replay = r /\ transcript[i].status = status

(* A challenge passes only if the prover did all its rounds and did them    *)
(* right, and is refused only if a round came out wrong or the prover's     *)
(* store was lost: by no order of the challenges, the late handlers of      *)
(* earlier ones, or the moment at which the stream ended.                   *)
VerdictIsRight ==
    \A r \in 1..counter :
        /\ Judged(r, 200) => replay[r].round = Rounds /\ wrong \cap ({r} \X (1..Rounds)) = {}
        /\ Judged(r, 422) => wrong \cap ({r} \X (1..Rounds)) # {} \/ crashes > 0

(* Whoever is accused has given cause: a wrong round, a lost store, or more *)
(* FLOPs observed than claimed.  Challenges under way, broken streams and a *)
(* verifier that stops are no cause, whenever the verdict is asked for.     *)
AccusedWithCause ==
    driver.verdict = "training_or_exfil" =>
        wrong # {} \/ crashes > 0 \/ 10 * observed_total > 11 * driver.claims

(* A prover that hangs, fails or dies does not hold the scheduler: every    *)
(* iteration of its loop ends.                                              *)
TickEnds ==
    (sched.pc # "loop") ~> (sched.pc \in {"loop"} \union Stopped)

(* What the repository says and the code does not do. *)

(* scheduler.py:79: "`start()` runs in a daemon thread until `stop()` is    *)
(* called."                                                                 *)
RunsUntilStopped == sched.pc = "dead" => stop
=============================================================================
