----------------------- MODULE VerifierSchedulerProofs -----------------------
(***************************************************************************)
(* Proofs about VerifierScheduler for any numbers of rounds, challenges    *)
(* and crashes, any periods and any claims: its type invariant, that every *)
(* verdict on a challenge is right, and that nobody is accused without     *)
(* cause.                                                                  *)
(***************************************************************************)
EXTENDS VerifierScheduler, SequenceTheorems, TLAPS

(* An entry is about a challenge that was sent; a verdict passes or refuses.*)
WellRecorded(e) == e.replay \in 1..counter /\ (IsVerdict(e) => e.status \in {200, 422})

EntryInv == \A i \in DOMAIN transcript : WellRecorded(transcript[i])

(* Only rounds that were computed are stored or wrong, and all of them are  *)
(* stored while the prover has not crashed.                                 *)
StoreInv ==
    /\ \A r \in 1..counter, i \in 1..Rounds :
          <<r, i>> \in store \union wrong => i <= replay[r].round
    /\ crashes = 0 =>
          /\ up
          /\ \A r \in 1..counter, i \in 1..Rounds : i <= replay[r].round => <<r, i>> \in store

(* Evidence on the wire, or read from it, is that of a challenge whose      *)
(* rounds are all done.                                                     *)
EvidenceInv ==
    /\ \A r \in 1..counter : \A k \in 1..Len(replay[r].wire) :
          replay[r].wire[k] = "evidence" => replay[r].round = Rounds
    /\ sched.pc \in {"reading", "fetching", "judged"} => counter > 0
    /\ (sched.pc = "reading" /\ sched.evidence) \/ sched.pc = "fetching"
          => replay[counter].round = Rounds

WrongRounds(r) == {i \in 1..Rounds : <<r, i>> \in wrong}

(* What verify_evidence knows in the middle of its loop.                    *)
FetchInv ==
    sched.pc = "fetching" =>
        /\ sched.cursor < sched.round
        /\ sched.failing => crashes > 0 \/ WrongRounds(counter) # {}
        /\ ~sched.failing =>
              /\ sched.cursor = sched.round - 1
              /\ \A i \in 1..Rounds : i < sched.round => <<counter, i>> \notin wrong

(* What the driver has found is for a cause that does not go away.          *)
DriverInv ==
    /\ driver.verdict # "none" => driver.pc = "done"
    /\ ~driver.correct => wrong # {} \/ crashes > 0
    /\ AccusedWithCause

IInv == TypeOK /\ EntryInv /\ StoreInv /\ EvidenceInv /\ FetchInv /\ VerdictIsRight /\ DriverInv

-----------------------------------------------------------------------------
(* Facts about the state. *)

LEMMA ReplayOf ==
  ASSUME TypeOK
  PROVE  /\ counter \in Nat
         /\ DOMAIN replay = 1..counter
         /\ \A r \in 1..counter : replay[r] \in Replay
  BY LenProperties, ElementOfSeq DEF TypeOK, counter

LEMMA TranscriptOf ==
  ASSUME TypeOK
  PROVE  /\ Len(transcript) \in Nat
         /\ DOMAIN transcript = 1..Len(transcript)
         /\ \A i \in DOMAIN transcript : transcript[i] \in Entry
  BY LenProperties, ElementOfSeq DEF TypeOK

LEMMA BecomesKeeps ==
  ASSUME TypeOK, NEW r \in 1..counter, NEW h \in Replay, Becomes(r, h)
  PROVE  /\ replay' \in Seq(Replay)
         /\ counter' = counter
         /\ \A q \in 1..counter : replay'[q] = IF q = r THEN h ELSE replay[q]
<1>1. /\ [replay EXCEPT ![r] = h] \in Seq(Replay)
      /\ Len([replay EXCEPT ![r] = h]) = Len(replay)
      /\ \A q \in 1..Len(replay) : [replay EXCEPT ![r] = h][q] = IF q = r THEN h ELSE replay[q]
  BY ExceptSeq DEF TypeOK, counter
<1>. QED
  BY <1>1 DEF Becomes, counter

LEMMA NextDueIsNat ==
  ASSUME SchedulerAssumption, TypeOK, NEW period \in Nat
  PROVE  NextDue(period) \in Nat
<1>1. (tick + 1) \in Nat /\ TickMs \in Nat
  BY DEF TypeOK, SchedulerAssumption
<1>2. (tick + 1) * TickMs \in Nat
  BY <1>1
<1>. QED
  BY <1>2 DEF NextDue

(* A handler's reply: every chunk in its place, the evidence after the last *)
(* round.                                                                   *)
EvidenceAtEnd(h) == \A k \in 1..Len(h.wire) : h.wire[k] = "evidence" => h.round = Rounds

LEMMA WriteKeeps ==
  ASSUME TypeOK, NEW r \in 1..counter, NEW chunk \in Chunks
  PROVE  /\ Write(r, chunk) \in Seq(Chunks)
         /\ \A k \in 1..Len(Write(r, chunk)) :
               Write(r, chunk)[k] = "evidence" =>
                  chunk = "evidence" \/ \E j \in 1..Len(replay[r].wire) : replay[r].wire[j] = "evidence"
<1>1. replay[r].wire \in Seq(Chunks)
  BY ReplayOf DEF Replay
<1>2. CASE Reads(r)
  <2>. DEFINE w == Append(replay[r].wire, chunk)
  <2>1. /\ w \in Seq(Chunks) /\ Len(w) = Len(replay[r].wire) + 1
        /\ \A k \in 1..Len(replay[r].wire) : w[k] = replay[r].wire[k]
        /\ w[Len(replay[r].wire) + 1] = chunk
        /\ Len(replay[r].wire) \in Nat
    BY <1>1, AppendProperties, LenProperties
  <2>2. Write(r, chunk) = w
    BY <1>2 DEF Write
  <2>. HIDE DEF w
  <2>3. \A k \in 1..Len(w) : k \in 1..Len(replay[r].wire) \/ k = Len(replay[r].wire) + 1
    BY <2>1
  <2>4. \A k \in 1..Len(w) : w[k] = chunk \/ \E j \in 1..Len(replay[r].wire) : replay[r].wire[j] = w[k]
    BY <2>1, <2>3
  <2>. QED
    BY <2>1, <2>2, <2>4
<1>3. CASE ~Reads(r)
  BY <1>1, <1>3 DEF Write
<1>. QED
  BY <1>2, <1>3

(* What one step of a handler makes of its reply and of the store.          *)
Computed(r, h) ==
    /\ replay[r].round < Rounds
    /\ h.round = replay[r].round + 1
    /\ store' = store \union {<<r, h.round>>}
    /\ wrong' \in {wrong, wrong \union {<<r, h.round>>}}

HandlerResult(r, h) ==
    /\ Becomes(r, h)
    /\ EvidenceAtEnd(replay[r]) => EvidenceAtEnd(h)
    /\ \/ Computed(r, h)
       \/ h.round = replay[r].round /\ UNCHANGED <<store, wrong>>
    /\ UNCHANGED <<schedulerVars, stop, logVars, up, crashes, driver>>

LEMMA HandlerStep ==
  ASSUME SchedulerAssumption, TypeOK, NEW r \in 1..counter, Handler(r)
  PROVE  \E h \in Replay : HandlerResult(r, h)
<1>. DEFINE v == replay[r]
<1>0. /\ v \in Replay /\ v.round \in 0..Rounds /\ v.wire \in Seq(Chunks) /\ Rounds \in Nat
  BY ReplayOf DEF Replay, SchedulerAssumption
<1>1. CASE Compute(r)
  <2>. DEFINE w == Write(r, "pow")
              h == [v EXCEPT !.round = v.round + 1, !.wire = w]
  <2>1. w \in Seq(Chunks) /\ \A k \in 1..Len(w) : w[k] = "evidence" =>
           \E j \in 1..Len(v.wire) : v.wire[j] = "evidence"
    BY WriteKeeps, "pow" \in Chunks DEF Chunks
  <2>2. /\ v.round < Rounds /\ Becomes(r, h)
        /\ store' = store \union {<<r, v.round + 1>>}
        /\ wrong' \in {wrong, wrong \union {<<r, v.round + 1>>}}
        /\ UNCHANGED <<schedulerVars, stop, logVars, up, crashes, driver>>
    BY <1>1 DEF Compute
  <2>. HIDE DEF w
  <2>3. h.round = v.round + 1 /\ h.wire = w
    BY <1>0 DEF Replay
  <2>4. v.round + 1 \in 0..Rounds
    BY <1>0, <2>2, SMTT(30)
  <2>5. h \in Replay
    BY <1>0, <2>1, <2>4 DEF Replay
  <2>6. EvidenceAtEnd(v) => EvidenceAtEnd(h)
    BY <1>0, <2>1, <2>2, <2>3, SMTT(30) DEF EvidenceAtEnd
  <2>. HIDE DEF h
  <2>7. HandlerResult(r, h)
    BY <2>2, <2>3, <2>6 DEF HandlerResult, Computed
  <2>. QED
    BY <2>5, <2>7
<1>2. CASE Finish(r)
  <2>1. PICK w \in Seq(Chunks), status \in {200, 500} :
           Becomes(r, [v EXCEPT !.pc = "capturing", !.status = status, !.wire = w])
    <3>1. PICK chunk \in {"evidence", "error"} :
             Becomes(r, [v EXCEPT
                !.pc = "capturing", !.status = IF chunk = "evidence" THEN 200 ELSE 500,
                !.wire = Write(r, chunk)])
      BY <1>2 DEF Finish
    <3>2. Write(r, chunk) \in Seq(Chunks)
      BY WriteKeeps, chunk \in Chunks DEF Chunks
    <3>3. (IF chunk = "evidence" THEN 200 ELSE 500) \in {200, 500}
      OBVIOUS
    <3>. QED
      BY <3>1, <3>2, <3>3, ZenonT(30)
  <2>. DEFINE h == [v EXCEPT !.pc = "capturing", !.status = status, !.wire = w]
  <2>2. h \in Replay
    <3>1. w \in Seq(Chunks) /\ status \in {200, 500}
      BY <2>1
    <3>. QED
      BY <1>0, <3>1, ZenonT(30) DEF Replay
  <2>3. v.round = Rounds /\ UNCHANGED <<store, wrong>>
        /\ UNCHANGED <<schedulerVars, stop, logVars, up, crashes, driver>>
    BY <1>2 DEF Finish, proverVars
  <2>4. h.round = v.round
    BY <1>0 DEF Replay
  <2>5. Becomes(r, h)
    BY <2>1
  <2>. HIDE DEF h
  <2>6. HandlerResult(r, h)
    BY <2>3, <2>4, <2>5 DEF HandlerResult, EvidenceAtEnd
  <2>. QED
    BY <2>2, <2>6
<1>3. CASE Capture(r) \/ Raises(r)
  <2>1. PICK c \in {"done", "failed"}, e \in {"eof", "broken"} :
          Becomes(r, [v EXCEPT !.pc = c, !.end = e])
    BY <1>3 DEF Capture, Raises, ShutEnds
  <2>2. UNCHANGED <<store, wrong>> /\ UNCHANGED <<schedulerVars, stop, logVars, up, crashes, driver>>
    BY <1>3 DEF Capture, Raises, proverVars
  <2>. DEFINE h == [v EXCEPT !.pc = c, !.end = e]
  <2>3. h.round = v.round /\ h.wire = v.wire /\ h \in Replay
    <3>1. c \in {"done", "failed"} /\ e \in {"eof", "broken"}
      BY <2>1
    <3>. QED
      BY <1>0, <3>1, ZenonT(30) DEF Replay
  <2>4. Becomes(r, h)
    BY <2>1
  <2>. HIDE DEF h
  <2>5. HandlerResult(r, h)
    BY <2>2, <2>3, <2>4 DEF HandlerResult, EvidenceAtEnd
  <2>. QED
    BY <2>3, <2>5
<1>. QED
  BY <1>1, <1>2, <1>3 DEF Handler

-----------------------------------------------------------------------------
(* The type invariant. *)

LEMMA TypeInit == ASSUME SchedulerAssumption, Init PROVE TypeOK
<1>1. sched \in Scheduler
  BY DEF Init, At, Scheduler, SchedulerAssumption
<1>2. driver \in Driver
  BY DEF Init, Driver
<1>3. transcript \in Seq(Entry) /\ replay \in Seq(Replay) /\ counter = 0
      /\ captured \in Seq([replay : 1..counter, status : {200, 500}])
  BY EmptySeq DEF Init, counter
<1>4. tick \in Nat /\ graphDue \in Nat /\ replayDue \in Nat /\ crashes \in 0..MaxCrashes
      /\ summaries \in Nat
  BY DEF Init, SchedulerAssumption
<1>5. store = {} /\ wrong = {} /\ stop \in BOOLEAN /\ up \in BOOLEAN
  BY DEF Init
<1>. QED
  BY <1>1, <1>2, <1>3, <1>4, <1>5 DEF TypeOK

LEMMA RecordKeeps ==
  ASSUME TypeOK, NEW e \in Entry, Record(e)
  PROVE  /\ transcript' \in Seq(Entry)
         /\ DOMAIN transcript' = 1..(Len(transcript) + 1)
         /\ \A i \in DOMAIN transcript : transcript'[i] = transcript[i]
         /\ transcript'[Len(transcript) + 1] = e
<1>. DEFINE t == Append(transcript, e)
<1>1. /\ t \in Seq(Entry) /\ Len(t) = Len(transcript) + 1
      /\ \A i \in 1..Len(transcript) : t[i] = transcript[i]
      /\ t[Len(transcript) + 1] = e
  BY AppendProperties DEF TypeOK
<1>2. DOMAIN t = 1..Len(t)
  BY <1>1, LenProperties
<1>3. transcript' = t
  BY DEF Record
<1>. HIDE DEF t
<1>. QED
  BY <1>1, <1>2, <1>3, TranscriptOf

LEMMA EntryTypes ==
  ASSUME NEW r \in Nat
  PROVE  /\ Sent("/replay", r) \in Entry
         /\ \A status \in {200, 599} : Received("/replay", r, status) \in Entry
         /\ \A status \in {200, 422} : Received("/replay/verdict", r, status) \in Entry
  BY DEF Entry, Sent, Received

(* The scheduler's locals, as every action leaves them.                     *)
LEMMA AtKeeps ==
  ASSUME SchedulerAssumption,
         NEW pc \in {"loop", "graph", "due", "reading", "fetching", "judged",
                     "ended", "killed", "dead"}
  PROVE  At(pc) \in Scheduler /\ At(pc).pc = pc /\ At(pc).evidence = FALSE
  BY DEF At, Scheduler, SchedulerAssumption

LEMMA SchedulerLocals ==
  ASSUME SchedulerAssumption, TypeOK, FetchInv,
         \/ LoopTop \/ LoopEnds \/ GraphAnswered \/ NotDue
         \/ SendReplay \/ ReadChunk \/ ReadBreaks \/ ReadEnds
         \/ FetchFound \/ FetchMissing \/ FetchFails \/ RecordVerdict \/ RecordSummary
         \/ VerifierExits
  PROVE  sched' \in Scheduler
<1>0. sched \in Scheduler /\ Rounds \in Nat \ {0}
  BY DEF TypeOK, SchedulerAssumption
<1>1. CASE \/ LoopTop \/ LoopEnds \/ GraphAnswered \/ NotDue \/ SendReplay
           \/ ReadBreaks \/ FetchFails \/ RecordVerdict \/ RecordSummary \/ VerifierExits
  <2>1. \E pc \in {"loop", "graph", "due", "reading", "fetching", "judged",
                   "ended", "killed", "dead"} : sched' = At(pc)
    BY <1>1 DEF LoopTop, LoopEnds, GraphAnswered, NotDue, SendReplay, ReadBreaks,
                FetchFails, RecordVerdict, RecordSummary, VerifierExits, EndReplay
  <2>. QED
    BY <2>1, AtKeeps
<1>2. CASE ReadChunk
  <2>1. sched' = [sched EXCEPT !.evidence = @ \/ Head(replay[counter].wire) = "evidence"]
    BY <1>2 DEF ReadChunk
  <2>2. (sched.evidence \/ Head(replay[counter].wire) = "evidence") \in BOOLEAN
    OBVIOUS
  <2>. QED
    BY <1>0, <2>1, <2>2 DEF Scheduler
<1>3. CASE ReadEnds
  <2>1. \/ sched' = At("loop")
        \/ sched' = [At("fetching") EXCEPT !.round = 1]
    BY <1>3 DEF ReadEnds, EndReplay
  <2>2. At("loop") \in Scheduler /\ At("fetching") \in Scheduler
    BY AtKeeps
  <2>3. 1 \in 0..Rounds + 1
    BY <1>0
  <2>. QED
    BY <2>1, <2>2, <2>3 DEF Scheduler
<1>4. CASE FetchFound
  <2>. DEFINE f == \/ sched.failing
                   \/ sched.cursor + 1 # sched.round
                   \/ <<counter, sched.round>> \in wrong
  <2>1. sched' = [sched EXCEPT !.round = @ + 1, !.cursor = @ + 1, !.failing = f]
    BY <1>4 DEF FetchFound
  <2>2. /\ sched.round + 1 \in 0..Rounds + 1
        /\ sched.cursor + 1 \in 0..Rounds
    BY <1>0, <1>4 DEF FetchFound, Fetching, FetchInv, Scheduler
  <2>3. f \in BOOLEAN
    OBVIOUS
  <2>. HIDE DEF f
  <2>. QED
    BY <1>0, <2>1, <2>2, <2>3 DEF Scheduler
<1>5. CASE FetchMissing
  <2>1. sched' = [sched EXCEPT !.round = @ + 1, !.failing = TRUE]
    BY <1>5 DEF FetchMissing
  <2>2. sched.round + 1 \in 0..Rounds + 1
    BY <1>0, <1>5 DEF FetchMissing, Fetching, Scheduler
  <2>. QED
    BY <1>0, <2>1, <2>2 DEF Scheduler
<1>. QED
  BY <1>1, <1>2, <1>3, <1>4, <1>5

(* The rounds and the log of what was computed outlive a new challenge.     *)
LEMMA Grows ==
  ASSUME TypeOK, counter' \in Nat, counter <= counter'
  PROVE  /\ UNCHANGED captured => captured' \in Seq([replay : 1..counter', status : {200, 500}])
         /\ UNCHANGED <<store, wrong>> =>
               /\ store' \subseteq (1..counter') \X (1..Rounds)
               /\ wrong' \subseteq (1..counter') \X (1..Rounds)
<1>0. 1..counter \subseteq 1..counter'
  BY ReplayOf
<1>1. [replay : 1..counter, status : {200, 500}] \subseteq [replay : 1..counter', status : {200, 500}]
  BY <1>0
<1>2. captured \in Seq([replay : 1..counter', status : {200, 500}])
  <2>. DEFINE S == [replay : 1..counter, status : {200, 500}]
              T == [replay : 1..counter', status : {200, 500}]
  <2>1. captured \in Seq(S) /\ S \subseteq T
    BY <1>1 DEF TypeOK
  <2>. HIDE DEF S, T
  <2>2. captured \in [1..Len(captured) -> S] /\ Len(captured) \in Nat
    BY <2>1, LenProperties, ElementOfSeq
  <2>3. captured \in [1..Len(captured) -> T]
    BY <2>1, <2>2
  <2>4. captured \in Seq(T)
    BY <2>2, <2>3, IsASeq
  <2>. QED
    BY <2>4 DEF T
<1>3. (1..counter) \X (1..Rounds) \subseteq (1..counter') \X (1..Rounds)
  BY <1>0
<1>. QED
  BY <1>2, <1>3 DEF TypeOK

(* Steps that touch neither the challenges nor the transcript.              *)
Quiet ==
    \/ LoopTop \/ LoopEnds \/ GraphAnswered \/ NotDue \/ ReadEnds
    \/ FetchFound \/ FetchMissing \/ FetchFails \/ RecordSummary \/ VerifierExits
    \/ StopScheduler \/ WorkloadStops \/ ReadTranscript \/ EmitVerdict
    \/ UNCHANGED vars

LEMMA QuietFrame ==
  ASSUME Quiet
  PROVE  UNCHANGED <<replay, transcript, store, wrong, captured, up, crashes>>
<1>1. CASE \/ LoopTop \/ LoopEnds \/ GraphAnswered \/ NotDue \/ ReadEnds
  BY <1>1 DEF LoopTop, LoopEnds, GraphAnswered, NotDue, ReadEnds, logVars, proverVars
<1>2. CASE \/ FetchFound \/ FetchMissing \/ FetchFails \/ RecordSummary \/ VerifierExits
  BY <1>2 DEF FetchFound, FetchMissing, FetchFails, RecordSummary, VerifierExits, logVars, proverVars
<1>3. CASE \/ StopScheduler \/ WorkloadStops \/ ReadTranscript \/ EmitVerdict \/ UNCHANGED vars
  BY <1>3 DEF StopScheduler, WorkloadStops, ReadTranscript, EmitVerdict, vars, logVars, proverVars
<1>. QED
  BY <1>1, <1>2, <1>3 DEF Quiet

(* The scheduler's clock and counters, in any of its steps.                 *)
LEMMA ClockStep ==
  ASSUME SchedulerAssumption, TypeOK, [Next]_vars
  PROVE  tick' \in Nat /\ graphDue' \in Nat /\ replayDue' \in Nat /\ summaries' \in Nat
         /\ stop' \in BOOLEAN
<1>0. /\ tick \in Nat /\ graphDue \in Nat /\ replayDue \in Nat /\ summaries \in Nat
      /\ stop \in BOOLEAN
      /\ NextDue(GraphPeriod) \in Nat /\ NextDue(ReplayPeriod) \in Nat
  BY NextDueIsNat DEF TypeOK, SchedulerAssumption
<1>1. CASE \/ LoopTop \/ LoopEnds \/ GraphAnswered \/ NotDue \/ SendReplay
  BY <1>0, <1>1 DEF LoopTop, LoopEnds, GraphAnswered, NotDue, SendReplay, logVars
<1>5. CASE \/ ReadChunk \/ FetchFound \/ FetchMissing \/ FetchFails \/ RecordVerdict
           \/ VerifierExits
  BY <1>0, <1>5 DEF ReadChunk, FetchFound, FetchMissing, FetchFails, RecordVerdict,
     VerifierExits, logVars
<1>2. CASE ReadBreaks \/ ReadEnds \/ RecordSummary
  <2>1. /\ tick' \in {tick, tick + 1} /\ UNCHANGED <<graphDue, stop>>
        /\ replayDue' \in {replayDue, NextDue(ReplayPeriod)}
        /\ summaries' \in {summaries, summaries + 1}
    BY <1>2, Zenon DEF ReadBreaks, ReadEnds, RecordSummary, EndReplay, logVars
  <2>. QED
    BY <1>0, <2>1
<1>3. CASE \/ StopScheduler \/ WorkloadStops \/ ReadTranscript \/ EmitVerdict
           \/ ProverCrash \/ ProverRestarts \/ UNCHANGED vars
  BY <1>0, <1>3 DEF StopScheduler, WorkloadStops, ReadTranscript, EmitVerdict,
     ProverCrash, ProverRestarts, vars, logVars, schedulerVars
<1>4. CASE \E r \in DOMAIN replay : Handler(r)
  <2>1. UNCHANGED <<schedulerVars, stop, logVars>>
    BY <1>4 DEF Handler, Compute, Finish, Capture, Raises
  <2>. QED
    BY <1>0, <2>1 DEF schedulerVars, logVars
<1>. QED
  BY <1>1, <1>2, <1>3, <1>4, <1>5 DEF Next, SchedulerStep

LEMMA DriverStep ==
  ASSUME SchedulerAssumption, TypeOK, [Next]_vars
  PROVE  driver' \in Driver
<1>0. driver \in Driver
  BY DEF TypeOK
<1>1. CASE WorkloadStops
  <2>1. PICK prompts \in 0..MaxPrompts :
           driver' = [driver EXCEPT !.pc = "stopped", !.claims = prompts * PromptFlops]
    BY <1>1 DEF WorkloadStops
  <2>2. prompts \in Nat /\ PromptFlops \in Nat
    BY DEF SchedulerAssumption
  <2>3. prompts * PromptFlops \in Nat
    BY <2>2
  <2>. QED
    BY <1>0, <2>1, <2>3 DEF Driver
<1>2. CASE ReadTranscript
  <2>1. driver' = [driver EXCEPT !.pc = "read", !.correct = replay_correctness(transcript)]
    BY <1>2 DEF ReadTranscript
  <2>2. replay_correctness(transcript) \in BOOLEAN
    BY DEF replay_correctness
  <2>. QED
    BY <1>0, <2>1, <2>2 DEF Driver
<1>3. CASE EmitVerdict
  BY <1>0, <1>3 DEF EmitVerdict, Driver
<1>4. CASE \/ SchedulerStep \/ StopScheduler \/ VerifierExits
           \/ ProverCrash \/ ProverRestarts \/ UNCHANGED vars
  <2>1. UNCHANGED driver
    BY <1>4 DEF SchedulerStep, LoopTop, LoopEnds, GraphAnswered, NotDue, SendReplay,
       ReadChunk, ReadBreaks, ReadEnds, FetchFound, FetchMissing, FetchFails,
       RecordVerdict, RecordSummary, VerifierExits, StopScheduler, ProverCrash,
       ProverRestarts, vars
  <2>. QED
    BY <1>0, <2>1
<1>5. CASE \E r \in DOMAIN replay : Handler(r)
  BY <1>0, <1>5 DEF Handler, Compute, Finish, Capture, Raises
<1>. QED
  BY <1>1, <1>2, <1>3, <1>4, <1>5 DEF Next

(* A new challenge: the prover was reached or was not.                      *)
LEMMA SendKeeps ==
  ASSUME SchedulerAssumption, TypeOK, SendReplay
  PROVE  /\ replay' \in Seq(Replay)
         /\ counter' = counter + 1
         /\ \A q \in 1..counter : replay'[q] = replay[q]
         /\ replay'[counter + 1].wire = <<>> /\ replay'[counter + 1].round = 0
         /\ transcript' \in Seq(Entry)
         /\ Record(Sent("/replay", counter + 1)) /\ Sent("/replay", counter + 1) \in Entry
         /\ UNCHANGED <<store, wrong, captured, up, crashes>>
<1>1. PICK reached \in {TRUE, FALSE} :
         replay' = Append(replay, [pc |-> IF reached THEN "computing" ELSE "failed", round |-> 0,
                 status |-> 500, wire |-> <<>>,
                 end |-> IF reached THEN "open" ELSE "broken"])
  BY DEF SendReplay
<1>. DEFINE v == [pc |-> IF reached THEN "computing" ELSE "failed", round |-> 0,
                 status |-> 500, wire |-> <<>>,
                 end |-> IF reached THEN "open" ELSE "broken"]
<1>2. v \in Replay /\ v.wire = <<>> /\ v.round = 0
  <2>1. <<>> \in Seq(Chunks) /\ 0 \in 0..Rounds
    BY EmptySeq DEF SchedulerAssumption
  <2>. QED
    BY <2>1 DEF Replay
<1>. HIDE DEF v
<1>3. /\ Append(replay, v) \in Seq(Replay)
      /\ Len(Append(replay, v)) = Len(replay) + 1
      /\ \A q \in 1..Len(replay) : Append(replay, v)[q] = replay[q]
      /\ Append(replay, v)[Len(replay) + 1] = v
  BY <1>2, AppendProperties DEF TypeOK
<1>4. replay' = Append(replay, v)
  BY <1>1 DEF v
<1>5. Sent("/replay", counter + 1) \in Entry
  BY EntryTypes, ReplayOf
<1>6. Record(Sent("/replay", counter + 1)) /\ UNCHANGED <<store, wrong, captured, up, crashes>>
  BY DEF SendReplay, proverVars
<1>. QED
  BY <1>2, <1>3, <1>4, <1>5, <1>6, RecordKeeps DEF counter

(* A chunk, or the failure of a stream, is taken from the wire of the latest *)
(* challenge.                                                               *)
ReadResult(w, status) ==
    /\ counter \in 1..counter
    /\ \A k \in 1..Len(w) : w[k] = "evidence" =>
          \E j \in 1..Len(replay[counter].wire) : replay[counter].wire[j] = "evidence"
    /\ Becomes(counter, [replay[counter] EXCEPT !.wire = w])
    /\ [replay[counter] EXCEPT !.wire = w] \in Replay
    /\ Record(Received("/replay", counter, status))
    /\ Received("/replay", counter, status) \in Entry
    /\ UNCHANGED <<store, wrong, captured, up, crashes>>

LEMMA ReadKeeps ==
  ASSUME TypeOK, EvidenceInv, ReadChunk \/ ReadBreaks
  PROVE  \E w \in Seq(Chunks), status \in {200, 599} : ReadResult(w, status)
<1>1. counter \in 1..counter
  <2>1. sched.pc = "reading"
    BY DEF ReadChunk, ReadBreaks
  <2>. QED
    BY <2>1, ReplayOf DEF EvidenceInv
<1>2. replay[counter] \in Replay /\ replay[counter].wire \in Seq(Chunks)
  BY <1>1, ReplayOf DEF Replay
<1>3. CASE ReadChunk
  <2>. DEFINE w == Tail(replay[counter].wire)
  <2>1. /\ w \in Seq(Chunks)
        /\ Len(w) = Len(replay[counter].wire) - 1
        /\ \A k \in 1..Len(w) : w[k] = replay[counter].wire[k + 1]
        /\ Len(replay[counter].wire) \in Nat
    BY <1>2, <1>3, HeadTailProperties, LenProperties DEF ReadChunk
  <2>2. /\ Becomes(counter, [replay[counter] EXCEPT !.wire = w])
        /\ Record(Received("/replay", counter, 200))
        /\ UNCHANGED <<store, wrong, captured, up, crashes>>
    BY <1>3 DEF ReadChunk, proverVars
  <2>. HIDE DEF w
  <2>3. \A k \in 1..Len(w) : k + 1 \in 1..Len(replay[counter].wire)
    BY <2>1
  <2>4. \A k \in 1..Len(w) : w[k] = "evidence" =>
                  \E j \in 1..Len(replay[counter].wire) : replay[counter].wire[j] = "evidence"
    BY <2>1, <2>3
  <2>5. [replay[counter] EXCEPT !.wire = w] \in Replay
    BY <1>2, <2>1 DEF Replay
  <2>6. Received("/replay", counter, 200) \in Entry
    BY EntryTypes, ReplayOf
  <2>. QED
    BY <1>1, <2>1, <2>2, <2>4, <2>5, <2>6 DEF ReadResult
<1>4. CASE ReadBreaks
  <2>1. <<>> \in Seq(Chunks) /\ 1..Len(<<>>) = {}
    BY EmptySeq
  <2>2. /\ Becomes(counter, [replay[counter] EXCEPT !.wire = <<>>])
        /\ Record(Received("/replay", counter, 599))
        /\ UNCHANGED <<store, wrong, captured, up, crashes>>
    BY <1>4 DEF ReadBreaks, proverVars
  <2>3. [replay[counter] EXCEPT !.wire = <<>>] \in Replay
    BY <1>2, <2>1 DEF Replay
  <2>4. Received("/replay", counter, 599) \in Entry
    BY EntryTypes, ReplayOf
  <2>. QED
    BY <1>1, <2>1, <2>2, <2>3, <2>4 DEF ReadResult
<1>. QED
  BY <1>3, <1>4

LEMMA CrashKeeps ==
  ASSUME SchedulerAssumption, TypeOK, ProverCrash
  PROVE  /\ replay' \in Seq(Replay)
         /\ counter' = counter
         /\ \A q \in 1..counter : replay'[q].round = replay[q].round /\ replay'[q].wire = replay[q].wire
         /\ crashes' = crashes + 1 /\ crashes' \in 0..MaxCrashes /\ up' = FALSE
         /\ UNCHANGED <<schedulerVars, transcript, store, wrong, captured>>
<1>1. PICK end \in {"eof", "broken"} :
         replay' = [r \in DOMAIN replay |->
             IF replay[r].pc \in {"computing", "capturing"}
             THEN [replay[r] EXCEPT !.pc = "failed", !.end = end]
             ELSE replay[r]]
  BY DEF ProverCrash
<1>2. ASSUME NEW q \in 1..counter
      PROVE  /\ replay'[q] \in Replay
             /\ replay'[q].round = replay[q].round
             /\ replay'[q].wire = replay[q].wire
  <2>1. replay[q] \in Replay /\ q \in DOMAIN replay
    BY ReplayOf
  <2>2. replay'[q] \in {replay[q], [replay[q] EXCEPT !.pc = "failed", !.end = end]}
    BY <1>1, <2>1
  <2>. DEFINE v == replay[q]
              h == [v EXCEPT !.pc = "failed", !.end = end]
  <2>3. h \in Replay /\ h.round = v.round /\ h.wire = v.wire
    BY <2>1, ZenonT(30) DEF Replay
  <2>. HIDE DEF h
  <2>4. replay'[q] = v \/ replay'[q] = h
    BY <2>2 DEF h
  <2>. QED
    BY <2>1, <2>3, <2>4
<1>3. replay' \in [1..counter -> Replay]
  BY <1>1, <1>2, ReplayOf
<1>4. replay' \in Seq(Replay) /\ Len(replay') = counter
  BY <1>3, IsASeq, LenProperties, ReplayOf
<1>5. /\ crashes' = crashes + 1 /\ crashes < MaxCrashes /\ up' = FALSE
      /\ UNCHANGED <<schedulerVars, transcript, store, wrong, captured>>
  BY DEF ProverCrash, logVars
<1>6. crashes' \in 0..MaxCrashes
  <2>1. crashes \in 0..MaxCrashes /\ MaxCrashes \in Nat
    BY DEF TypeOK, SchedulerAssumption
  <2>. QED
    BY <1>5, <2>1
<1>. QED
  BY <1>2, <1>4, <1>5, <1>6 DEF counter

(* The verdict's entry is about the challenge the scheduler is busy with.   *)
LEMMA VerdictKeeps ==
  ASSUME TypeOK, EvidenceInv, RecordVerdict
  PROVE  \E status \in {200, 422} :
            /\ status = IF sched.failing THEN 422 ELSE 200
            /\ counter \in 1..counter
            /\ Record(Received("/replay/verdict", counter, status))
            /\ Received("/replay/verdict", counter, status) \in Entry
            /\ UNCHANGED <<replay, store, wrong, captured, up, crashes>>
<1>. DEFINE status == IF sched.failing THEN 422 ELSE 200
<1>1. counter \in 1..counter
  <2>1. sched.pc = "fetching"
    BY DEF RecordVerdict
  <2>. QED
    BY <2>1, ReplayOf DEF EvidenceInv
<1>2. /\ Record(Received("/replay/verdict", counter, status))
      /\ UNCHANGED <<replay, store, wrong, captured, up, crashes>>
  BY DEF RecordVerdict, proverVars
<1>3. status \in {200, 422}
  OBVIOUS
<1>4. Received("/replay/verdict", counter, status) \in Entry
  BY <1>3, EntryTypes, ReplayOf
<1>. QED
  BY <1>1, <1>2, <1>3, <1>4

LEMMA SchedStep ==
  ASSUME SchedulerAssumption, TypeOK, FetchInv, [Next]_vars
  PROVE  sched' \in Scheduler
<1>0. sched \in Scheduler
  BY DEF TypeOK
<1>1. CASE SchedulerStep \/ VerifierExits
  BY <1>1, SchedulerLocals DEF SchedulerStep
<1>2. CASE \E r \in DOMAIN replay : Handler(r)
  BY <1>0, <1>2 DEF Handler, Compute, Finish, Capture, Raises, schedulerVars
<1>3. CASE \/ StopScheduler \/ ProverCrash \/ ProverRestarts
           \/ WorkloadStops \/ ReadTranscript \/ EmitVerdict \/ UNCHANGED vars
  BY <1>0, <1>3 DEF StopScheduler, ProverCrash, ProverRestarts, WorkloadStops,
     ReadTranscript, EmitVerdict, vars, schedulerVars
<1>. QED
  BY <1>1, <1>2, <1>3 DEF Next

LEMMA HandlerCaptures ==
  ASSUME TypeOK, NEW r \in 1..counter, Handler(r)
  PROVE  captured' \in Seq([replay : 1..counter, status : {200, 500}])
<1>. DEFINE S == [replay : 1..counter, status : {200, 500}]
<1>1. captured \in Seq(S)
  BY DEF TypeOK
<1>2. CASE Capture(r)
  <2>1. captured' = Append(captured, [replay |-> r, status |-> replay[r].status])
    BY <1>2 DEF Capture
  <2>2. [replay |-> r, status |-> replay[r].status] \in S
    BY ReplayOf DEF Replay
  <2>. HIDE DEF S
  <2>3. captured' \in Seq(S)
    BY <1>1, <2>1, <2>2, AppendProperties
  <2>. QED
    BY <2>3 DEF S
<1>3. CASE Compute(r) \/ Finish(r) \/ Raises(r)
  BY <1>1, <1>3 DEF Compute, Finish, Raises, proverVars
<1>. QED
  BY <1>2, <1>3 DEF Handler

LEMMA TypeStep ==
  ASSUME SchedulerAssumption, TypeOK, EvidenceInv, FetchInv, [Next]_vars
  PROVE  TypeOK'
<1>. DEFINE Prover ==
              /\ replay \in Seq(Replay)
              /\ transcript \in Seq(Entry)
              /\ store \subseteq (1..counter) \X (1..Rounds)
              /\ wrong \subseteq (1..counter) \X (1..Rounds)
              /\ captured \in Seq([replay : 1..counter, status : {200, 500}])
              /\ up \in BOOLEAN
              /\ crashes \in 0..MaxCrashes
<1>1. Prover
  BY DEF TypeOK
<1>2. CASE Quiet
  <2>1. UNCHANGED <<replay, transcript, store, wrong, captured, up, crashes>>
    BY <1>2, QuietFrame
  <2>. QED
    BY <1>1, <2>1, SchedStep, ClockStep, DriverStep DEF TypeOK, counter
<1>3. CASE SendReplay
  <2>1. /\ replay' \in Seq(Replay) /\ transcript' \in Seq(Entry) /\ counter' = counter + 1
        /\ UNCHANGED <<store, wrong, captured, up, crashes>>
    BY <1>3, SendKeeps
  <2>2. counter' \in Nat /\ counter <= counter'
    BY <2>1, ReplayOf
  <2>3. Prover'
    BY <1>1, <2>1, <2>2, Grows
  <2>. QED
    BY <2>3, SchedStep, ClockStep, DriverStep DEF TypeOK
<1>4. CASE ReadChunk \/ ReadBreaks
  <2>0. PICK w \in Seq(Chunks), status \in {200, 599} : ReadResult(w, status)
    BY <1>4, ReadKeeps
  <2>1. /\ counter \in 1..counter
        /\ Becomes(counter, [replay[counter] EXCEPT !.wire = w])
        /\ [replay[counter] EXCEPT !.wire = w] \in Replay
        /\ Record(Received("/replay", counter, status))
        /\ Received("/replay", counter, status) \in Entry
        /\ UNCHANGED <<store, wrong, captured, up, crashes>>
    BY <2>0 DEF ReadResult
  <2>2. replay' \in Seq(Replay) /\ counter' = counter /\ transcript' \in Seq(Entry)
    BY <2>1, BecomesKeeps, RecordKeeps
  <2>3. Prover'
    BY <1>1, <2>1, <2>2
  <2>. QED
    BY <2>3, SchedStep, ClockStep, DriverStep DEF TypeOK
<1>5. CASE RecordVerdict
  <2>1. /\ UNCHANGED <<replay, store, wrong, captured, up, crashes>>
        /\ transcript' \in Seq(Entry)
    BY <1>5, VerdictKeeps, RecordKeeps
  <2>2. counter' = counter
    BY <2>1 DEF counter
  <2>3. Prover'
    BY <1>1, <2>1, <2>2
  <2>. QED
    BY <2>3, SchedStep, ClockStep, DriverStep DEF TypeOK
<1>6. ASSUME NEW r \in DOMAIN replay, Handler(r)
      PROVE  TypeOK'
  <2>0. r \in 1..counter
    BY ReplayOf
  <2>1. PICK h \in Replay : HandlerResult(r, h)
    BY <1>6, <2>0, HandlerStep
  <2>2. /\ replay' \in Seq(Replay) /\ counter' = counter
        /\ UNCHANGED <<transcript, up, crashes>>
    BY <2>0, <2>1, BecomesKeeps DEF HandlerResult, logVars
  <2>3. captured' \in Seq([replay : 1..counter, status : {200, 500}])
    BY <1>6, <2>0, HandlerCaptures
  <2>4. /\ store' \subseteq (1..counter) \X (1..Rounds)
        /\ wrong' \subseteq (1..counter) \X (1..Rounds)
    <3>1. CASE Computed(r, h)
      <4>1. h.round \in 1..Rounds
        BY <2>0, <3>1, ReplayOf DEF Computed, Replay, SchedulerAssumption
      <4>2. <<r, h.round>> \in (1..counter) \X (1..Rounds)
        BY <2>0, <4>1
      <4>. QED
        BY <1>1, <3>1, <4>2 DEF Computed
    <3>2. CASE UNCHANGED <<store, wrong>>
      BY <1>1, <3>2
    <3>. QED
      BY <2>1, <3>1, <3>2 DEF HandlerResult
  <2>5. Prover'
    BY <1>1, <2>2, <2>3, <2>4
  <2>. QED
    BY <2>5, SchedStep, ClockStep, DriverStep DEF TypeOK
<1>7. CASE ProverCrash
  <2>1. /\ replay' \in Seq(Replay) /\ counter' = counter
        /\ crashes' \in 0..MaxCrashes /\ up' = FALSE
        /\ UNCHANGED <<transcript, store, wrong, captured>>
    BY <1>7, CrashKeeps
  <2>2. Prover'
    BY <1>1, <2>1
  <2>. QED
    BY <2>2, SchedStep, ClockStep, DriverStep DEF TypeOK
<1>8. CASE ProverRestarts
  <2>1. /\ store' = {} /\ captured' = <<>> /\ up' = TRUE
        /\ UNCHANGED <<replay, transcript, wrong, crashes>>
    BY <1>8 DEF ProverRestarts, logVars
  <2>2. counter' = counter /\ captured' \in Seq([replay : 1..counter, status : {200, 500}])
    BY <2>1, EmptySeq DEF counter
  <2>3. Prover'
    BY <1>1, <2>1, <2>2
  <2>. QED
    BY <2>3, SchedStep, ClockStep, DriverStep DEF TypeOK
<1>. QED
  BY <1>2, <1>3, <1>4, <1>5, <1>6, <1>7, <1>8 DEF Next, SchedulerStep, Quiet

-----------------------------------------------------------------------------
(* The inductive invariant. *)

(* Steps of anyone but the prover: the challenges keep their rounds, and a  *)
(* new one has none.                                                        *)
ProverFrame ==
    /\ counter' \in Nat /\ counter <= counter'
    /\ \A q \in 1..counter : replay'[q].round = replay[q].round
    /\ \A q \in 1..counter' : q \notin 1..counter => replay'[q].round = 0
    /\ UNCHANGED <<store, wrong, crashes, up>>

LEMMA FrameOfOthers ==
  ASSUME SchedulerAssumption, TypeOK, EvidenceInv,
         Quiet \/ SendReplay \/ ReadChunk \/ ReadBreaks \/ RecordVerdict
  PROVE  ProverFrame
<1>1. CASE Quiet
  <2>1. UNCHANGED <<replay, store, wrong, crashes, up>>
    BY <1>1, QuietFrame
  <2>. QED
    BY <2>1, ReplayOf DEF ProverFrame, counter
<1>2. CASE SendReplay
  <2>1. /\ counter' = counter + 1 /\ counter \in Nat
        /\ \A q \in 1..counter : replay'[q] = replay[q]
        /\ replay'[counter + 1].round = 0
        /\ UNCHANGED <<store, wrong, crashes, up>>
    BY <1>2, SendKeeps, ReplayOf
  <2>2. \A q \in 1..counter' : q \notin 1..counter => q = counter + 1
    BY <2>1
  <2>3. counter' \in Nat /\ counter <= counter'
    BY <2>1
  <2>. QED
    BY <2>1, <2>2, <2>3 DEF ProverFrame
<1>3. CASE ReadChunk \/ ReadBreaks
  <2>0. PICK w \in Seq(Chunks), status \in {200, 599} : ReadResult(w, status)
    BY <1>3, ReadKeeps
  <2>1. /\ counter \in 1..counter
        /\ Becomes(counter, [replay[counter] EXCEPT !.wire = w])
        /\ [replay[counter] EXCEPT !.wire = w] \in Replay
        /\ UNCHANGED <<store, wrong, crashes, up>>
    BY <2>0 DEF ReadResult
  <2>. DEFINE h == [replay[counter] EXCEPT !.wire = w]
  <2>2. h.round = replay[counter].round
    BY <2>1, ReplayOf DEF Replay
  <2>3. h \in Replay /\ Becomes(counter, h)
    BY <2>1
  <2>. HIDE DEF h
  <2>4. counter' = counter /\ \A q \in 1..counter : replay'[q] = IF q = counter THEN h ELSE replay[q]
    BY <2>1, <2>3, BecomesKeeps
  <2>5. \A q \in 1..counter : replay'[q].round = replay[q].round
    BY <2>2, <2>4
  <2>6. UNCHANGED <<store, wrong, crashes, up>> /\ counter \in Nat
    BY <2>1, ReplayOf
  <2>. QED
    BY <2>4, <2>5, <2>6 DEF ProverFrame
<1>4. CASE RecordVerdict
  <2>1. UNCHANGED <<replay, store, wrong, crashes, up>>
    BY <1>4, VerdictKeeps
  <2>. QED
    BY <2>1, ReplayOf DEF ProverFrame, counter
<1>. QED
  BY <1>1, <1>2, <1>3, <1>4

(* What a handler's step means for rounds, store and wrong rounds.          *)
LEMMA HandlerFrame ==
  ASSUME SchedulerAssumption, TypeOK, NEW r \in 1..counter, Handler(r)
  PROVE  /\ counter' = counter
         /\ UNCHANGED <<sched, transcript, up, crashes>>
         /\ \A q \in 1..counter : q # r => replay'[q] = replay[q]
         /\ EvidenceAtEnd(replay[r]) => EvidenceAtEnd(replay'[r])
         /\ \/ replay'[r].round = replay[r].round /\ UNCHANGED <<store, wrong>>
            \/ /\ replay[r].round < Rounds /\ replay'[r].round = replay[r].round + 1
               /\ store' = store \union {<<r, replay'[r].round>>}
               /\ wrong' \in {wrong, wrong \union {<<r, replay'[r].round>>}}
<1>1. PICK h \in Replay : HandlerResult(r, h)
  BY HandlerStep
<1>2. /\ counter' = counter
      /\ \A q \in 1..counter : replay'[q] = IF q = r THEN h ELSE replay[q]
  BY <1>1, BecomesKeeps DEF HandlerResult
<1>3. replay'[r] = h
  BY <1>2
<1>4. UNCHANGED <<sched, transcript, up, crashes>>
  BY <1>1 DEF HandlerResult, schedulerVars, logVars
<1>. QED
  BY <1>1, <1>2, <1>3, <1>4 DEF HandlerResult, Computed

LEMMA StoreStep ==
  ASSUME SchedulerAssumption, TypeOK, EvidenceInv, StoreInv, [Next]_vars
  PROVE  StoreInv'
<1>0. /\ store \subseteq (1..counter) \X (1..Rounds) /\ wrong \subseteq (1..counter) \X (1..Rounds)
      /\ \A r \in 1..counter : replay[r].round \in Nat
      /\ counter \in Nat /\ crashes \in Nat /\ Rounds \in Nat
  BY ReplayOf DEF TypeOK, Replay, SchedulerAssumption
<1>1. CASE Quiet \/ SendReplay \/ ReadChunk \/ ReadBreaks \/ RecordVerdict
  <2>1. ProverFrame
    BY <1>1, FrameOfOthers
  <2>2. \A r \in 1..counter', i \in 1..Rounds :
           r \notin 1..counter => <<r, i>> \notin store \union wrong /\ ~(i <= replay'[r].round)
    BY <1>0, <2>1 DEF ProverFrame
  <2>. QED
    BY <1>0, <2>1, <2>2 DEF ProverFrame, StoreInv
<1>2. ASSUME NEW r \in DOMAIN replay, Handler(r)
      PROVE  StoreInv'
  <2>0. r \in 1..counter
    BY ReplayOf
  <2>1. /\ counter' = counter /\ UNCHANGED <<up, crashes>>
        /\ \A q \in 1..counter : q # r => replay'[q] = replay[q]
        /\ \/ replay'[r].round = replay[r].round /\ UNCHANGED <<store, wrong>>
           \/ /\ replay'[r].round = replay[r].round + 1
              /\ store' = store \union {<<r, replay'[r].round>>}
              /\ wrong' \in {wrong, wrong \union {<<r, replay'[r].round>>}}
    BY <1>2, <2>0, HandlerFrame
  <2>2. CASE replay'[r].round = replay[r].round /\ UNCHANGED <<store, wrong>>
    <3>1. \A q \in 1..counter : replay'[q].round = replay[q].round
      BY <2>1, <2>2
    <3>. QED
      BY <2>1, <2>2, <3>1 DEF StoreInv
  <2>3. CASE /\ replay'[r].round = replay[r].round + 1
             /\ store' = store \union {<<r, replay'[r].round>>}
             /\ wrong' \in {wrong, wrong \union {<<r, replay'[r].round>>}}
    <3>1. ASSUME NEW q \in 1..counter, NEW i \in 1..Rounds, <<q, i>> \in (store \union wrong)'
          PROVE  i <= replay'[q].round
      BY <1>0, <2>0, <2>1, <2>3, <3>1 DEF StoreInv
    <3>2. ASSUME crashes = 0, NEW q \in 1..counter, NEW i \in 1..Rounds, i <= replay'[q].round
          PROVE  <<q, i>> \in store'
      <4>1. CASE q # r
        BY <2>1, <2>3, <3>2, <4>1 DEF StoreInv
      <4>2. CASE q = r
        <5>1. i <= replay[r].round \/ i = replay'[r].round
          BY <1>0, <2>0, <2>3, <3>2, <4>2
        <5>. QED
          BY <2>0, <2>3, <3>2, <4>2, <5>1 DEF StoreInv
      <4>. QED
        BY <4>1, <4>2
    <3>. QED
      BY <2>1, <3>1, <3>2 DEF StoreInv
  <2>. QED
    BY <2>1, <2>2, <2>3
<1>3. CASE ProverCrash
  <2>1. /\ counter' = counter /\ crashes' = crashes + 1 /\ UNCHANGED <<store, wrong>>
        /\ \A q \in 1..counter : replay'[q].round = replay[q].round
    BY <1>3, CrashKeeps
  <2>. QED
    BY <1>0, <2>1 DEF StoreInv
<1>4. CASE ProverRestarts
  <2>1. store' = {} /\ UNCHANGED <<replay, wrong, crashes>> /\ ~up
    BY <1>4 DEF ProverRestarts
  <2>2. crashes' # 0 /\ counter' = counter
    BY <2>1 DEF StoreInv, counter
  <2>. QED
    BY <2>1, <2>2 DEF StoreInv
<1>. QED
  BY <1>1, <1>2, <1>3, <1>4 DEF Next, SchedulerStep, Quiet

LEMMA EntryStep ==
  ASSUME SchedulerAssumption, TypeOK, EvidenceInv, EntryInv, [Next]_vars
  PROVE  EntryInv'
<1>0. counter \in Nat /\ DOMAIN transcript = 1..Len(transcript) /\ Len(transcript) \in Nat
  BY ReplayOf, TranscriptOf
<1>1. ASSUME NEW e \in Entry, Record(e), e.replay \in 1..counter',
             IsVerdict(e) => e.status \in {200, 422},
             counter' \in Nat, counter <= counter'
      PROVE  EntryInv'
  <2>1. /\ DOMAIN transcript' = 1..(Len(transcript) + 1)
        /\ \A i \in DOMAIN transcript : transcript'[i] = transcript[i]
        /\ transcript'[Len(transcript) + 1] = e
    BY <1>1, RecordKeeps
  <2>2. \A i \in DOMAIN transcript' : i \in DOMAIN transcript \/ i = Len(transcript) + 1
    BY <1>0, <2>1
  <2>3. 1..counter \subseteq 1..counter'
    BY <1>0, <1>1
  <2>. QED
    BY <1>1, <2>1, <2>2, <2>3 DEF EntryInv, WellRecorded, IsVerdict
<1>2. CASE Quiet
  <2>1. UNCHANGED <<replay, transcript>>
    BY <1>2, QuietFrame
  <2>. QED
    BY <2>1 DEF EntryInv, WellRecorded, IsVerdict, counter
<1>3. CASE SendReplay
  <2>1. Record(Sent("/replay", counter + 1)) /\ Sent("/replay", counter + 1) \in Entry
        /\ counter' = counter + 1
    BY <1>3, SendKeeps
  <2>2. Sent("/replay", counter + 1).replay = counter + 1 /\ ~IsVerdict(Sent("/replay", counter + 1))
    BY DEF Sent, IsVerdict
  <2>. QED
    BY <1>0, <1>1, <2>1, <2>2
<1>4. CASE ReadChunk \/ ReadBreaks
  <2>0. PICK w \in Seq(Chunks), status \in {200, 599} : ReadResult(w, status)
    BY <1>4, ReadKeeps
  <2>1. /\ counter \in 1..counter
        /\ Becomes(counter, [replay[counter] EXCEPT !.wire = w])
        /\ [replay[counter] EXCEPT !.wire = w] \in Replay
        /\ Record(Received("/replay", counter, status))
        /\ Received("/replay", counter, status) \in Entry
        /\ UNCHANGED <<store, wrong, captured, up, crashes>>
    BY <2>0 DEF ReadResult
  <2>2. counter' = counter
    BY <2>1, BecomesKeeps
  <2>3. /\ Received("/replay", counter, status).replay = counter
        /\ ~IsVerdict(Received("/replay", counter, status))
    BY DEF Received, IsVerdict
  <2>. QED
    BY <1>0, <1>1, <2>1, <2>2, <2>3
<1>5. CASE RecordVerdict
  <2>1. PICK status \in {200, 422} :
            /\ counter \in 1..counter
            /\ Record(Received("/replay/verdict", counter, status))
            /\ Received("/replay/verdict", counter, status) \in Entry
            /\ UNCHANGED replay
    BY <1>5, VerdictKeeps
  <2>2. counter' = counter
    BY <2>1 DEF counter
  <2>3. /\ Received("/replay/verdict", counter, status).replay = counter
        /\ Received("/replay/verdict", counter, status).status \in {200, 422}
    BY <2>1 DEF Received
  <2>. QED
    BY <1>0, <1>1, <2>1, <2>2, <2>3
<1>6. ASSUME NEW r \in DOMAIN replay, Handler(r)
      PROVE  EntryInv'
  <2>1. counter' = counter /\ UNCHANGED transcript
    BY <1>6, HandlerFrame, ReplayOf
  <2>. QED
    BY <2>1 DEF EntryInv, WellRecorded, IsVerdict
<1>7. CASE ProverCrash
  <2>1. counter' = counter /\ UNCHANGED transcript
    BY <1>7, CrashKeeps
  <2>. QED
    BY <2>1 DEF EntryInv, WellRecorded, IsVerdict
<1>8. CASE ProverRestarts
  BY <1>8 DEF ProverRestarts, logVars, counter, EntryInv, WellRecorded, IsVerdict
<1>. QED
  BY <1>2, <1>3, <1>4, <1>5, <1>6, <1>7, <1>8 DEF Next, SchedulerStep, Quiet

(* How the scheduler moves in a step that leaves challenges alone.          *)
LEMMA QuietMoves ==
  ASSUME SchedulerAssumption, TypeOK, Quiet
  PROVE  \/ sched'.pc \notin {"reading", "fetching", "judged"}
         \/ UNCHANGED sched
         \/ /\ sched.pc = "reading" /\ sched.evidence
            /\ sched' = [At("fetching") EXCEPT !.round = 1]
         \/ FetchFound
         \/ FetchMissing
<1>1. CASE \/ LoopTop \/ LoopEnds \/ GraphAnswered \/ NotDue
           \/ FetchFails \/ RecordSummary \/ VerifierExits
  <2>1. \E pc \in {"loop", "graph", "due", "ended", "killed", "dead"} : sched' = At(pc)
    BY <1>1 DEF LoopTop, LoopEnds, GraphAnswered, NotDue, FetchFails, RecordSummary,
                VerifierExits, EndReplay
  <2>. QED
    BY <2>1, AtKeeps
<1>2. CASE ReadEnds
  <2>1. CASE sched.evidence
    BY <1>2, <2>1 DEF ReadEnds
  <2>2. CASE ~sched.evidence
    <3>1. sched' = At("loop")
      BY <1>2, <2>2 DEF ReadEnds, EndReplay
    <3>. QED
      BY <3>1, AtKeeps
  <2>. QED
    BY <2>1, <2>2
<1>3. CASE \/ StopScheduler \/ WorkloadStops \/ ReadTranscript \/ EmitVerdict \/ UNCHANGED vars
  BY <1>3 DEF StopScheduler, WorkloadStops, ReadTranscript, EmitVerdict, vars, schedulerVars
<1>. QED
  BY <1>1, <1>2, <1>3 DEF Quiet

LEMMA EvidenceStep ==
  ASSUME SchedulerAssumption, TypeOK, EvidenceInv, [Next]_vars
  PROVE  EvidenceInv'
<1>0. /\ counter \in Nat /\ sched \in Scheduler
      /\ \A r \in 1..counter : replay[r] \in Replay /\ EvidenceAtEnd(replay[r])
      /\ Rounds \in Nat \ {0}
  BY ReplayOf DEF TypeOK, EvidenceInv, EvidenceAtEnd, SchedulerAssumption
<1>1. CASE Quiet
  <2>1. UNCHANGED replay /\ counter' = counter
    BY <1>1, QuietFrame DEF counter
  <2>2. CASE sched'.pc \notin {"reading", "fetching", "judged"}
    BY <2>1, <2>2 DEF EvidenceInv
  <2>3. CASE UNCHANGED sched
    BY <2>1, <2>3 DEF EvidenceInv
  <2>4. CASE /\ sched.pc = "reading" /\ sched.evidence
             /\ sched' = [At("fetching") EXCEPT !.round = 1]
    BY <2>1, <2>4 DEF EvidenceInv
  <2>5. CASE FetchFound \/ FetchMissing
    <3>1. sched.pc = "fetching" /\ sched'.pc = "fetching"
      BY <1>0, <2>5 DEF FetchFound, FetchMissing, Fetching, Scheduler
    <3>. QED
      BY <2>1, <3>1 DEF EvidenceInv
  <2>. QED
    BY <1>1, <2>2, <2>3, <2>4, <2>5, QuietMoves
<1>2. CASE SendReplay
  <2>1. /\ counter' = counter + 1
        /\ \A q \in 1..counter : replay'[q] = replay[q]
        /\ replay'[counter + 1].wire = <<>>
    BY <1>2, SendKeeps
  <2>2. sched'.pc = "reading" /\ sched'.evidence = FALSE
    BY <1>2, AtKeeps DEF SendReplay
  <2>3. \A q \in 1..counter' : q \in 1..counter \/ q = counter + 1
    BY <1>0, <2>1
  <2>4. \A q \in 1..counter' : EvidenceAtEnd(replay'[q])
    <3>1. EvidenceAtEnd(replay'[counter + 1])
      BY <2>1 DEF EvidenceAtEnd
    <3>. QED
      BY <1>0, <2>1, <2>3, <3>1
  <2>5. counter' > 0
    BY <1>0, <2>1
  <2>. QED
    BY <2>2, <2>4, <2>5 DEF EvidenceInv, EvidenceAtEnd
<1>3. CASE ReadChunk \/ ReadBreaks
  <2>0. PICK w \in Seq(Chunks), status \in {200, 599} : ReadResult(w, status)
    BY <1>3, ReadKeeps
  <2>1. /\ counter \in 1..counter
        /\ \A k \in 1..Len(w) : w[k] = "evidence" =>
              \E j \in 1..Len(replay[counter].wire) : replay[counter].wire[j] = "evidence"
        /\ Becomes(counter, [replay[counter] EXCEPT !.wire = w])
        /\ [replay[counter] EXCEPT !.wire = w] \in Replay
    BY <2>0 DEF ReadResult
  <2>. DEFINE h == [replay[counter] EXCEPT !.wire = w]
  <2>2. h.round = replay[counter].round /\ h.wire = w /\ replay[counter].wire \in Seq(Chunks)
    BY <1>0, <2>1 DEF Replay
  <2>3. h \in Replay /\ Becomes(counter, h)
    BY <2>1
  <2>. HIDE DEF h
  <2>4. /\ counter' = counter
        /\ \A q \in 1..counter : replay'[q] = IF q = counter THEN h ELSE replay[q]
    BY <2>1, <2>3, BecomesKeeps
  <2>5. EvidenceAtEnd(h)
    BY <1>0, <2>1, <2>2 DEF EvidenceAtEnd
  <2>6. \A q \in 1..counter : EvidenceAtEnd(replay'[q])
    BY <1>0, <2>4, <2>5
  <2>7. replay'[counter].round = replay[counter].round /\ counter > 0
    BY <1>0, <2>1, <2>2, <2>4
  <2>8. (sched'.pc = "reading" /\ sched'.evidence) \/ sched'.pc = "fetching"
           => replay[counter].round = Rounds
    <3>1. CASE ReadChunk
      <4>1. sched' = [sched EXCEPT !.evidence = @ \/ Head(replay[counter].wire) = "evidence"]
            /\ sched.pc = "reading" /\ replay[counter].wire # <<>>
        BY <3>1 DEF ReadChunk
      <4>2. Head(replay[counter].wire) = replay[counter].wire[1]
            /\ 1 \in 1..Len(replay[counter].wire)
        BY <2>2, <4>1, HeadTailProperties, LenProperties
      <4>3. sched'.pc = "reading"
            /\ (sched'.evidence <=> sched.evidence \/ Head(replay[counter].wire) = "evidence")
        BY <1>0, <4>1 DEF Scheduler
      <4>4. Head(replay[counter].wire) = "evidence" => replay[counter].round = Rounds
        BY <1>0, <2>1, <4>2 DEF EvidenceAtEnd
      <4>. QED
        BY <4>1, <4>3, <4>4 DEF EvidenceInv
    <3>2. CASE ReadBreaks
      <4>1. sched' = At("loop")
        BY <3>2 DEF ReadBreaks, EndReplay
      <4>. QED
        BY <4>1, AtKeeps
    <3>. QED
      BY <1>3, <3>1, <3>2
  <2>. QED
    BY <2>4, <2>6, <2>7, <2>8 DEF EvidenceInv, EvidenceAtEnd
<1>4. CASE RecordVerdict
  <2>1. counter \in 1..counter /\ UNCHANGED replay
    BY <1>4, VerdictKeeps
  <2>2. sched'.pc = "judged"
    BY <1>4, AtKeeps DEF RecordVerdict
  <2>3. counter' = counter /\ counter > 0
    BY <1>0, <2>1 DEF counter
  <2>. QED
    BY <2>1, <2>2, <2>3 DEF EvidenceInv
<1>5. ASSUME NEW r \in DOMAIN replay, Handler(r)
      PROVE  EvidenceInv'
  <2>0. r \in 1..counter
    BY ReplayOf
  <2>1. /\ counter' = counter /\ UNCHANGED sched
        /\ \A q \in 1..counter : q # r => replay'[q] = replay[q]
        /\ EvidenceAtEnd(replay[r]) => EvidenceAtEnd(replay'[r])
        /\ \/ replay'[r].round = replay[r].round
           \/ replay[r].round < Rounds
    BY <1>5, <2>0, HandlerFrame
  <2>2. \A q \in 1..counter : EvidenceAtEnd(replay'[q])
    BY <1>0, <2>0, <2>1
  <2>3. counter > 0 /\ replay[counter].round = Rounds => replay'[counter].round = Rounds
    BY <1>0, <2>0, <2>1
  <2>. QED
    BY <2>1, <2>2, <2>3 DEF EvidenceInv, EvidenceAtEnd
<1>6. CASE ProverCrash
  <2>1. /\ counter' = counter /\ UNCHANGED sched
        /\ \A q \in 1..counter : replay'[q].round = replay[q].round /\ replay'[q].wire = replay[q].wire
    BY <1>6, CrashKeeps DEF schedulerVars
  <2>2. counter > 0 => counter \in 1..counter
    BY <1>0
  <2>. QED
    BY <2>1, <2>2 DEF EvidenceInv
<1>7. CASE ProverRestarts
  BY <1>7 DEF ProverRestarts, schedulerVars, EvidenceInv, counter
<1>. QED
  BY <1>1, <1>2, <1>3, <1>4, <1>5, <1>6, <1>7 DEF Next, SchedulerStep, Quiet

(* What verify_evidence knows is not spoilt by the prover: the rounds of a  *)
(* challenge it fetches are over.                                           *)
LEMMA FetchStep ==
  ASSUME SchedulerAssumption, TypeOK, EvidenceInv, StoreInv, FetchInv, [Next]_vars
  PROVE  FetchInv'
<1>0. /\ counter \in Nat /\ sched \in Scheduler /\ sched.round \in Nat /\ sched.cursor \in Nat
      /\ Rounds \in Nat /\ crashes \in Nat
  BY ReplayOf DEF TypeOK, Scheduler, SchedulerAssumption
<1>1. ASSUME UNCHANGED <<sched, wrong>>, sched.pc = "fetching" => counter' = counter,
             crashes' \in {crashes, crashes + 1}
      PROVE  FetchInv'
  <2>1. sched' = sched /\ wrong' = wrong /\ (crashes > 0 => crashes' > 0)
    BY <1>0, <1>1
  <2>2. sched.pc = "fetching" =>
           WrongRounds(counter)' = WrongRounds(counter) /\ counter' = counter
    BY <1>1, <2>1 DEF WrongRounds
  <2>. QED
    BY <2>1, <2>2 DEF FetchInv
<1>2. CASE Quiet
  <2>1. UNCHANGED <<replay, wrong, crashes>> /\ counter' = counter
    BY <1>2, QuietFrame DEF counter
  <2>2. CASE sched'.pc \notin {"reading", "fetching", "judged"}
    BY <2>2 DEF FetchInv
  <2>3. CASE UNCHANGED sched
    BY <1>1, <2>1, <2>3
  <2>4. CASE sched' = [At("fetching") EXCEPT !.round = 1]
    <3>1. sched'.round = 1 /\ sched'.cursor = 0 /\ sched'.failing = FALSE
      BY <2>4 DEF At
    <3>. QED
      BY <3>1 DEF FetchInv
  <2>5. CASE FetchFound
    <3>. DEFINE f == \/ sched.failing
                     \/ sched.cursor + 1 # sched.round
                     \/ <<counter, sched.round>> \in wrong
    <3>1. sched.pc = "fetching" /\ sched.round <= Rounds
          /\ sched' = [sched EXCEPT !.round = @ + 1, !.cursor = @ + 1, !.failing = f]
      BY <2>5 DEF FetchFound, Fetching
    <3>2. sched'.round = sched.round + 1 /\ sched'.cursor = sched.cursor + 1
          /\ (sched'.failing <=> f)
      BY <1>0, <3>1 DEF Scheduler
    <3>3. sched.round \in 1..Rounds /\ sched.cursor < sched.round
      BY <1>0, <3>1 DEF FetchInv
    <3>4. sched'.cursor < sched'.round
      BY <1>0, <3>2, <3>3
    <3>5. sched'.failing => crashes > 0 \/ WrongRounds(counter) # {}
      <4>1. CASE sched.failing
        BY <3>1, <4>1 DEF FetchInv
      <4>2. CASE ~sched.failing
        <5>1. sched.cursor + 1 = sched.round
          BY <1>0, <3>1, <4>2 DEF FetchInv
        <5>2. <<counter, sched.round>> \in wrong => sched.round \in WrongRounds(counter)
          BY <3>3 DEF WrongRounds
        <5>. QED
          BY <3>2, <4>2, <5>1, <5>2
      <4>. QED
        BY <4>1, <4>2
    <3>6. ~sched'.failing =>
              /\ sched'.cursor = sched'.round - 1
              /\ \A i \in 1..Rounds : i < sched'.round => <<counter, i>> \notin wrong
      <4>1. \A i \in 1..Rounds : i < sched.round + 1 => i < sched.round \/ i = sched.round
        BY <1>0
      <4>. QED
        BY <1>0, <3>1, <3>2, <4>1 DEF FetchInv
    <3>. QED
      BY <2>1, <3>4, <3>5, <3>6 DEF FetchInv, WrongRounds
  <2>6. CASE FetchMissing
    <3>1. /\ sched.pc = "fetching" /\ sched.round <= Rounds
          /\ <<counter, sched.round>> \notin store
          /\ sched' = [sched EXCEPT !.round = @ + 1, !.failing = TRUE]
      BY <2>6 DEF FetchMissing, Fetching
    <3>2. sched'.round = sched.round + 1 /\ sched'.cursor = sched.cursor /\ sched'.failing = TRUE
      BY <1>0, <3>1 DEF Scheduler
    <3>3. sched.round \in 1..Rounds /\ sched.cursor < sched.round
      BY <1>0, <3>1 DEF FetchInv
    <3>4. crashes > 0
      <4>1. counter \in 1..counter /\ sched.round <= replay[counter].round
        BY <1>0, <3>1 DEF EvidenceInv
      <4>. QED
        BY <1>0, <3>1, <3>3, <4>1 DEF StoreInv
    <3>5. sched'.cursor < sched'.round
      BY <1>0, <3>2, <3>3
    <3>. QED
      BY <2>1, <3>2, <3>4, <3>5 DEF FetchInv
  <2>. QED
    BY <1>2, <2>2, <2>3, <2>4, <2>5, <2>6, QuietMoves
<1>3. CASE SendReplay \/ ReadChunk \/ ReadBreaks \/ RecordVerdict
  <2>1. CASE SendReplay \/ RecordVerdict
    BY <2>1, AtKeeps DEF SendReplay, RecordVerdict, FetchInv
  <2>2. CASE ReadChunk
    BY <1>0, <2>2 DEF ReadChunk, FetchInv, Scheduler
  <2>3. CASE ReadBreaks
    BY <2>3, AtKeeps DEF ReadBreaks, EndReplay, FetchInv
  <2>. QED
    BY <1>3, <2>1, <2>2, <2>3
<1>4. ASSUME NEW r \in DOMAIN replay, Handler(r)
      PROVE  FetchInv'
  <2>0. r \in 1..counter
    BY ReplayOf
  <2>1. /\ counter' = counter /\ UNCHANGED <<sched, crashes>>
        /\ \/ replay'[r].round = replay[r].round /\ UNCHANGED <<store, wrong>>
           \/ /\ replay[r].round < Rounds
              /\ wrong' \in {wrong, wrong \union {<<r, replay'[r].round>>}}
    BY <1>4, <2>0, HandlerFrame
  <2>2. sched.pc = "fetching" => \A i \in 1..Rounds : <<counter, i>> \in wrong' <=> <<counter, i>> \in wrong
    <3>1. sched.pc = "fetching" => replay[counter].round = Rounds
      BY DEF EvidenceInv
    <3>. QED
      BY <1>0, <2>0, <2>1, <3>1
  <2>. QED
    BY <2>1, <2>2 DEF FetchInv, WrongRounds
<1>5. CASE ProverCrash
  BY <1>1, <1>5, CrashKeeps DEF schedulerVars
<1>6. CASE ProverRestarts
  <2>1. UNCHANGED <<sched, wrong, crashes, replay>>
    BY <1>6 DEF ProverRestarts, schedulerVars
  <2>. QED
    BY <1>1, <2>1 DEF counter
<1>. QED
  BY <1>2, <1>3, <1>4, <1>5, <1>6 DEF Next, SchedulerStep, Quiet

(* A verdict is an entry of its own.                                        *)
LEMMA JudgedByRecord ==
  ASSUME TypeOK, NEW e \in Entry, Record(e), NEW r \in Nat, NEW status \in {200, 422}
  PROVE  Judged(r, status)' => Judged(r, status) \/ (IsVerdict(e) /\ e.replay = r /\ e.status = status)
<1>1. /\ DOMAIN transcript' = 1..(Len(transcript) + 1)
      /\ DOMAIN transcript = 1..Len(transcript) /\ Len(transcript) \in Nat
      /\ \A i \in DOMAIN transcript : transcript'[i] = transcript[i]
      /\ transcript'[Len(transcript) + 1] = e
  BY RecordKeeps, TranscriptOf
<1>2. \A i \in DOMAIN transcript' : i \in DOMAIN transcript \/ i = Len(transcript) + 1
  BY <1>1
<1>. QED
  BY <1>1, <1>2 DEF Judged, Verdicts

LEMMA VerdictStep ==
  ASSUME SchedulerAssumption, IInv, [Next]_vars
  PROVE  VerdictIsRight'
<1>. USE DEF IInv
<1>0. /\ counter \in Nat /\ sched \in Scheduler /\ Rounds \in Nat /\ crashes \in Nat
      /\ \A r \in 1..counter : replay[r].round \in Nat
  BY ReplayOf DEF TypeOK, Scheduler, Replay, SchedulerAssumption
<1>1. ASSUME ProverFrame,
             \A r \in 1..counter', status \in {200, 422} : Judged(r, status)' => Judged(r, status)
      PROVE  VerdictIsRight'
  <2>1. \A r \in 1..counter', status \in {200, 422} : Judged(r, status)' => r \in 1..counter
    BY <1>1 DEF Judged, Verdicts, EntryInv, WellRecorded
  <2>2. ASSUME NEW r \in 1..counter'
        PROVE  /\ Judged(r, 200)' => replay'[r].round = Rounds /\ wrong' \cap ({r} \X (1..Rounds)) = {}
               /\ Judged(r, 422)' => wrong' \cap ({r} \X (1..Rounds)) # {} \/ crashes' > 0
    <3>1. CASE r \in 1..counter
      <4>1. replay'[r].round = replay[r].round /\ UNCHANGED <<wrong, crashes>>
        BY <1>1, <3>1 DEF ProverFrame
      <4>. QED
        BY <1>1, <3>1, <4>1 DEF VerdictIsRight
    <3>2. CASE r \notin 1..counter
      BY <2>1, <2>2, <3>2
    <3>. QED
      BY <3>1, <3>2
  <2>. QED
    BY <2>2 DEF VerdictIsRight
<1>2. CASE Quiet
  <2>1. UNCHANGED transcript
    BY <1>2, QuietFrame
  <2>. QED
    BY <1>1, <1>2, <2>1, FrameOfOthers DEF Judged, Verdicts
<1>3. CASE SendReplay
  <2>1. Record(Sent("/replay", counter + 1)) /\ Sent("/replay", counter + 1) \in Entry
    BY <1>3, SendKeeps
  <2>2. ~IsVerdict(Sent("/replay", counter + 1))
    BY DEF Sent, IsVerdict
  <2>3. \A r \in Nat, status \in {200, 422} : Judged(r, status)' => Judged(r, status)
    BY <2>1, <2>2, JudgedByRecord
  <2>4. ProverFrame /\ 1..counter' \subseteq Nat
    BY <1>3, FrameOfOthers
  <2>. QED
    BY <1>1, <2>3, <2>4
<1>4. CASE ReadChunk \/ ReadBreaks
  <2>0. PICK w \in Seq(Chunks), status \in {200, 599} : ReadResult(w, status)
    BY <1>4, ReadKeeps
  <2>1. /\ counter \in 1..counter
        /\ Becomes(counter, [replay[counter] EXCEPT !.wire = w])
        /\ [replay[counter] EXCEPT !.wire = w] \in Replay
        /\ Record(Received("/replay", counter, status))
        /\ Received("/replay", counter, status) \in Entry
        /\ UNCHANGED <<store, wrong, captured, up, crashes>>
    BY <2>0 DEF ReadResult
  <2>2. ~IsVerdict(Received("/replay", counter, status))
    BY DEF Received, IsVerdict
  <2>3. \A r \in Nat, outcome \in {200, 422} : Judged(r, outcome)' => Judged(r, outcome)
    BY <2>1, <2>2, JudgedByRecord
  <2>4. ProverFrame /\ 1..counter' \subseteq Nat
    BY <1>4, FrameOfOthers
  <2>. QED
    BY <1>1, <2>3, <2>4
<1>5. CASE RecordVerdict
  <2>1. PICK status \in {200, 422} :
            /\ status = IF sched.failing THEN 422 ELSE 200
            /\ counter \in 1..counter
            /\ Record(Received("/replay/verdict", counter, status))
            /\ Received("/replay/verdict", counter, status) \in Entry
            /\ UNCHANGED <<replay, store, wrong, captured, up, crashes>>
    BY <1>5, VerdictKeeps
  <2>2. counter' = counter
    BY <2>1 DEF counter
  <2>3. /\ sched.pc = "fetching" /\ sched.round > Rounds
        /\ replay[counter].round = Rounds
    BY <1>5 DEF RecordVerdict, EvidenceInv
  <2>4. status = 200 => wrong \cap ({counter} \X (1..Rounds)) = {}
    <3>1. status = 200 => \A i \in 1..Rounds : <<counter, i>> \notin wrong
      BY <1>0, <2>1, <2>3 DEF FetchInv, Scheduler
    <3>. QED
      BY <3>1
  <2>5. status = 422 => wrong \cap ({counter} \X (1..Rounds)) # {} \/ crashes > 0
    <3>1. status = 422 => crashes > 0 \/ WrongRounds(counter) # {}
      BY <2>1, <2>3 DEF FetchInv
    <3>2. ASSUME NEW i \in 1..Rounds, <<counter, i>> \in wrong
          PROVE  wrong \cap ({counter} \X (1..Rounds)) # {}
      <4>1. <<counter, i>> \in {counter} \X (1..Rounds)
        OBVIOUS
      <4>. QED
        BY <3>2, <4>1, Zenon
    <3>. QED
      BY <3>1, <3>2 DEF WrongRounds
  <2>6. ASSUME NEW r \in 1..counter, NEW outcome \in {200, 422}, Judged(r, outcome)'
        PROVE  Judged(r, outcome) \/ (r = counter /\ outcome = status)
    <3>. DEFINE e == Received("/replay/verdict", counter, status)
    <3>1. e.replay = counter /\ e.status = status
      BY DEF Received
    <3>2. e \in Entry /\ Record(e)
      BY <2>1
    <3>. HIDE DEF e
    <3>. QED
      BY <2>6, <3>1, <3>2, JudgedByRecord
  <2>7. ASSUME NEW r \in 1..counter
        PROVE  /\ Judged(r, 200)' => replay[r].round = Rounds /\ wrong \cap ({r} \X (1..Rounds)) = {}
               /\ Judged(r, 422)' => wrong \cap ({r} \X (1..Rounds)) # {} \/ crashes > 0
    BY <2>3, <2>4, <2>5, <2>6, <2>7 DEF VerdictIsRight
  <2>. QED
    BY <2>1, <2>2, <2>7 DEF VerdictIsRight
<1>6. ASSUME NEW r \in DOMAIN replay, Handler(r)
      PROVE  VerdictIsRight'
  <2>0. r \in 1..counter
    BY ReplayOf
  <2>1. /\ counter' = counter /\ UNCHANGED <<transcript, crashes>>
        /\ \A q \in 1..counter : q # r => replay'[q] = replay[q]
        /\ \/ replay'[r].round = replay[r].round /\ UNCHANGED wrong
           \/ /\ replay[r].round < Rounds
              /\ wrong' \in {wrong, wrong \union {<<r, replay'[r].round>>}}
    BY <1>6, <2>0, HandlerFrame
  <2>2. \A q \in 1..counter, status \in {200, 422} : Judged(q, status)' <=> Judged(q, status)
    BY <2>1 DEF Judged, Verdicts
  <2>3. wrong \subseteq wrong'
    BY <2>1
  <2>4. ASSUME NEW q \in 1..counter, Judged(q, 200)
        PROVE  replay'[q].round = Rounds /\ wrong' \cap ({q} \X (1..Rounds)) = {}
    <3>1. replay[q].round = Rounds /\ wrong \cap ({q} \X (1..Rounds)) = {}
      BY <2>4 DEF VerdictIsRight
    <3>2. replay'[q].round = Rounds
      BY <1>0, <2>1, <3>1
    <3>3. \A i \in 1..Rounds : <<q, i>> \in wrong' => <<q, i>> \in wrong
      BY <1>0, <2>1, <3>1
    <3>. QED
      BY <3>1, <3>2, <3>3
  <2>5. ASSUME NEW q \in 1..counter, Judged(q, 422)
        PROVE  wrong' \cap ({q} \X (1..Rounds)) # {} \/ crashes' > 0
    BY <2>1, <2>3, <2>5 DEF VerdictIsRight
  <2>. QED
    BY <2>1, <2>2, <2>4, <2>5 DEF VerdictIsRight
<1>7. CASE ProverCrash
  <2>1. /\ counter' = counter /\ crashes' = crashes + 1 /\ UNCHANGED <<transcript, wrong>>
        /\ \A q \in 1..counter : replay'[q].round = replay[q].round
    BY <1>7, CrashKeeps
  <2>2. \A q \in 1..counter, status \in {200, 422} : Judged(q, status)' <=> Judged(q, status)
    BY <2>1 DEF Judged, Verdicts
  <2>3. crashes' > 0
    BY <1>0, <2>1
  <2>. QED
    BY <2>1, <2>2, <2>3 DEF VerdictIsRight
<1>8. CASE ProverRestarts
  <2>1. UNCHANGED <<transcript, replay, wrong, crashes>> /\ counter' = counter
    BY <1>8 DEF ProverRestarts, logVars, counter
  <2>2. \A q \in 1..counter, status \in {200, 422} : Judged(q, status)' <=> Judged(q, status)
    BY <2>1 DEF Judged, Verdicts
  <2>. QED
    BY <2>1, <2>2 DEF VerdictIsRight
<1>. QED
  BY <1>2, <1>3, <1>4, <1>5, <1>6, <1>7, <1>8 DEF Next, SchedulerStep, Quiet

LEMMA ProductNat == \A a, b \in Nat : a * b \in Nat
OBVIOUS

(* Causes stay: no step takes back a wrong round, a crash or a summary.     *)
LEMMA CausesStay ==
  ASSUME SchedulerAssumption, TypeOK, EvidenceInv, [Next]_vars
  PROVE  wrong \subseteq wrong' /\ (crashes > 0 => crashes' > 0) /\ observed_total <= observed_total'
<1>0. crashes \in Nat /\ summaries \in Nat
  BY DEF TypeOK, SchedulerAssumption
<1>1. wrong \subseteq wrong' /\ (crashes > 0 => crashes' > 0)
  <2>1. CASE Quiet \/ SendReplay \/ ReadChunk \/ ReadBreaks \/ RecordVerdict
    BY <2>1, FrameOfOthers DEF ProverFrame
  <2>2. ASSUME NEW r \in DOMAIN replay, Handler(r)
        PROVE  wrong \subseteq wrong' /\ crashes' = crashes
    BY <2>2, HandlerFrame, ReplayOf
  <2>3. CASE ProverCrash
    BY <1>0, <2>3, CrashKeeps
  <2>4. CASE ProverRestarts
    BY <2>4 DEF ProverRestarts
  <2>. QED
    BY <2>1, <2>2, <2>3, <2>4 DEF Next, SchedulerStep, Quiet
<1>2. summaries' = summaries \/ summaries' = summaries + 1
  <2>1. CASE RecordSummary
    BY <2>1 DEF RecordSummary
  <2>2. ASSUME NEW r \in DOMAIN replay, Handler(r)
        PROVE  UNCHANGED summaries
    BY <2>2 DEF Handler, Compute, Finish, Capture, Raises, logVars
  <2>3. CASE \/ LoopTop \/ LoopEnds \/ GraphAnswered \/ NotDue \/ SendReplay \/ ReadChunk
             \/ ReadBreaks \/ ReadEnds \/ FetchFound \/ FetchMissing \/ FetchFails \/ RecordVerdict
    BY <2>3 DEF LoopTop, LoopEnds, GraphAnswered, NotDue, SendReplay, ReadChunk, ReadBreaks, ReadEnds,
       FetchFound, FetchMissing, FetchFails, RecordVerdict, logVars
  <2>4. CASE \/ StopScheduler \/ VerifierExits \/ WorkloadStops \/ ReadTranscript \/ EmitVerdict
             \/ ProverCrash \/ ProverRestarts \/ UNCHANGED vars
    BY <2>4 DEF StopScheduler, VerifierExits, WorkloadStops, ReadTranscript, EmitVerdict, ProverCrash,
       ProverRestarts, vars, logVars
  <2>. QED
    BY <2>1, <2>2, <2>3, <2>4 DEF Next, SchedulerStep
<1>3. observed_total <= observed_total'
  <2>. DEFINE R == Rounds
              F == ReplayFlops
  <2>1. R \in Nat /\ F \in Nat
    BY DEF SchedulerAssumption
  <2>2. observed_total = (summaries * R) * F /\ observed_total' = (summaries' * R) * F
    BY DEF observed_total
  <2>. HIDE DEF R, F
  <2>3. (summaries + 1) * R = summaries * R + R /\ summaries * R \in Nat
    BY <1>0, <2>1
  <2>4. (summaries * R + R) * F = (summaries * R) * F + R * F /\ (summaries * R) * F \in Nat /\ R * F \in Nat
    BY <2>1, <2>3
  <2>. QED
    BY <1>2, <2>2, <2>3, <2>4
<1>. QED
  BY <1>1, <1>3

(* The driver reads a 422 only where VerdictIsRight gives it a cause.       *)
LEMMA DriverInvStep ==
  ASSUME SchedulerAssumption, TypeOK, EntryInv, EvidenceInv, VerdictIsRight, DriverInv, [Next]_vars
  PROVE  DriverInv'
<1>0. /\ driver \in Driver /\ driver' \in Driver
      /\ wrong \subseteq wrong' /\ (crashes > 0 => crashes' > 0)
      /\ observed_total \in Nat /\ observed_total' \in Nat /\ observed_total <= observed_total'
  <2>1. summaries \in Nat /\ summaries' \in Nat /\ Rounds \in Nat /\ ReplayFlops \in Nat
    BY ClockStep DEF TypeOK, SchedulerAssumption
  <2>2. observed_total = (summaries * Rounds) * ReplayFlops /\ observed_total' = (summaries' * Rounds) * ReplayFlops
    BY DEF observed_total
  <2>3. observed_total \in Nat /\ observed_total' \in Nat
    BY <2>1, <2>2, ProductNat
  <2>. QED
    BY <2>3, CausesStay, DriverStep DEF TypeOK
<1>1. CASE UNCHANGED driver
  BY <1>0, <1>1 DEF DriverInv, AccusedWithCause, Driver
<1>2. CASE WorkloadStops
  <2>1. /\ driver'.verdict = driver.verdict /\ driver'.correct = driver.correct
        /\ driver.pc = "working" /\ driver.verdict = "none"
    BY <1>0, <1>2 DEF WorkloadStops, DriverInv, Driver
  <2>. QED
    BY <1>0, <2>1 DEF DriverInv, AccusedWithCause
<1>3. CASE ReadTranscript
  <2>1. /\ driver'.verdict = driver.verdict /\ driver'.correct = replay_correctness(transcript)
        /\ driver.verdict = "none"
    BY <1>0, <1>3 DEF ReadTranscript, DriverInv, Driver
  <2>2. ASSUME ~replay_correctness(transcript)
        PROVE  wrong # {} \/ crashes > 0
    <3>1. PICK i \in DOMAIN transcript : IsVerdict(transcript[i]) /\ transcript[i].status # 200
      BY <2>2 DEF replay_correctness
    <3>2. transcript[i].replay \in 1..counter /\ transcript[i].status = 422
      BY <3>1 DEF EntryInv, WellRecorded
    <3>3. Judged(transcript[i].replay, 422)
      BY <3>1, <3>2 DEF Judged, Verdicts
    <3>. QED
      BY <3>2, <3>3 DEF VerdictIsRight
  <2>. QED
    BY <1>0, <2>1, <2>2 DEF DriverInv, AccusedWithCause
<1>4. CASE EmitVerdict
  <2>1. /\ driver'.pc = "done" /\ driver'.claims = driver.claims /\ driver'.correct = driver.correct
        /\ driver'.verdict = IF driver.correct /\ compute_budget(observed_total, driver.claims)
                             THEN "inference" ELSE "training_or_exfil"
    BY <1>0, <1>4 DEF EmitVerdict, Driver
  <2>2. ~compute_budget(observed_total, driver.claims) => 10 * observed_total > 11 * driver.claims
    BY <1>0 DEF compute_budget, Driver
  <2>. QED
    BY <1>0, <2>1, <2>2 DEF DriverInv, AccusedWithCause, Driver
<1>5. UNCHANGED driver \/ WorkloadStops \/ ReadTranscript \/ EmitVerdict
  <2>1. CASE \/ SchedulerStep \/ StopScheduler \/ VerifierExits
             \/ ProverCrash \/ ProverRestarts \/ UNCHANGED vars
    BY <2>1 DEF SchedulerStep, LoopTop, LoopEnds, GraphAnswered, NotDue, SendReplay,
       ReadChunk, ReadBreaks, ReadEnds, FetchFound, FetchMissing, FetchFails,
       RecordVerdict, RecordSummary, VerifierExits, StopScheduler, ProverCrash,
       ProverRestarts, vars
  <2>2. CASE \E r \in DOMAIN replay : Handler(r)
    BY <2>2 DEF Handler, Compute, Finish, Capture, Raises
  <2>. QED
    BY <2>1, <2>2 DEF Next
<1>. QED
  BY <1>1, <1>2, <1>3, <1>4, <1>5

(* The inductive invariant holds: everything the scheduler knows of a       *)
(* challenge agrees with what the prover did for it.                        *)
THEOREM SchedulerInvariant == Spec => []IInv
<1>1. SchedulerAssumption /\ Init => IInv
  <2>. SUFFICES ASSUME SchedulerAssumption, Init PROVE IInv
    OBVIOUS
  <2>1. TypeOK
    BY TypeInit
  <2>2. counter = 0 /\ DOMAIN transcript = {} /\ sched.pc = "loop" /\ store = {} /\ wrong = {} /\ up
    BY AtKeeps, EmptySeq DEF Init, counter
  <2>3. 1..counter = {}
    BY <2>2
  <2>. QED
    BY <2>1, <2>2, <2>3 DEF Init, IInv, EntryInv, StoreInv, EvidenceInv, FetchInv, VerdictIsRight,
                            DriverInv, AccusedWithCause
<1>2. SchedulerAssumption /\ IInv /\ [Next]_vars => IInv'
  BY TypeStep, EntryStep, StoreStep, EvidenceStep, FetchStep, VerdictStep, DriverInvStep DEF IInv
<1>. QED
  BY <1>1, <1>2, SchedulerAssumption, PTL DEF Spec

-----------------------------------------------------------------------------

(* The scheduler, its logs, the challenges and the prover's store have      *)
(* their types: a verdict or a log entry of the prover is about a challenge *)
(* that was issued, and verify_evidence stays within its rounds.            *)
THEOREM TypeCorrect == Spec => []TypeOK
<1>1. IInv => TypeOK
  BY DEF IInv
<1>. QED
  BY <1>1, SchedulerInvariant, PTL

(* A challenge passes only if the prover did every round of it, and right;  *)
(* it is refused only if a round came out wrong or the prover's store was   *)
(* lost in a crash: whatever the order of scheduler, late handlers, crashes *)
(* and stop().                                                              *)
THEOREM VerdictsAreRight == Spec => []VerdictIsRight
<1>1. IInv => VerdictIsRight
  BY DEF IInv
<1>. QED
  BY <1>1, SchedulerInvariant, PTL

(* Whoever is accused has given cause (emit_verdict, verdict.py): a wrong   *)
(* round, a lost store or more FLOPs observed than claimed, at whatever     *)
(* moment of the scheduler's work the two files are read.                   *)
THEOREM AccusationHasCause == Spec => []AccusedWithCause
<1>1. IInv => AccusedWithCause
  BY DEF IInv, DriverInv
<1>. QED
  BY <1>1, SchedulerInvariant, PTL
=============================================================================
