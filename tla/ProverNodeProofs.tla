-------------------------- MODULE ProverNodeProofs --------------------------
(***************************************************************************)
(* Proofs about what runs on the prover's node.  About WorkloadRunner for   *)
(* any number of requests, workloads and prompts: its type invariant, that  *)
(* no workload is leaked, that one stop reports it, and that an honest      *)
(* workload stays within its claims.  And, in the second half, about        *)
(* ProofOfErasure for any regions, batches and faults: its type invariant,  *)
(* that an honest prover passes, and that a region that passes holds the    *)
(* noise it was asked for.                                                  *)
(***************************************************************************)
EXTENDS WorkloadRunner, ProofOfErasure, SequenceTheorems, TLAPS

(* What a workload has counted and claimed at each point of its loop.       *)
Counted(w) ==
    /\ w.own <= w.prompts
    /\ w.observed <= 2 * w.prompts
    /\ w.pc = "record" => w.own < w.prompts /\ w.observed < 2 * w.prompts
    /\ w.pc = "gradient" => w.kind = "training" /\ w.observed < 2 * w.prompts
    /\ w.kind # "training" => w.observed <= w.own + (IF w.pc = "record" THEN 1 ELSE 0)

CountInv == \A r \in DOMAIN run : Counted(run[r]) /\ run[r].own <= claimed

(* What a stop request holds: a workload that the runner no longer names,   *)
(* and that no other request holds.                                         *)
HoldInv ==
    /\ \A s \in Stoppers :
          /\ stopper[s].run \in 0..Len(run)
          /\ stopper[s].pc \in {"idle", "take"} => stopper[s].run = 0
          /\ current # 0 => stopper[s].run # current
    /\ ReportedOnce

(* What a stop request that saw its workload end has read.                  *)
JoinInv ==
    \A s \in Stoppers :
        /\ stopper[s].pc \in {"idle", "take", "set", "join"} => ~stopper[s].joined
        /\ stopper[s].joined =>
              /\ stopper[s].run \in DOMAIN run
              /\ ~Alive(stopper[s].run)
              /\ run[stopper[s].run].kind # "training" =>
                    /\ stopper[s].pc = "total" => stopper[s].observed <= claimed
                    /\ stopper[s].pc = "replied" => stopper[s].observed <= stopper[s].claimed

IInv == TypeOK /\ CountInv /\ HoldInv /\ StrayIsTold /\ JoinInv

LEMMA RunsOf ==
  ASSUME TypeOK
  PROVE  /\ Len(run) \in Nat
         /\ DOMAIN run = 1..Len(run)
         /\ \A r \in DOMAIN run : run[r] \in Run
  BY LenProperties, ElementOfSeq DEF TypeOK

(* Replacing one workload keeps the others.                                 *)
LEMMA BecomesKeeps ==
  ASSUME TypeOK, NEW r \in DOMAIN run, NEW w \in Run, Becomes(r, w)
  PROVE  /\ run' \in Seq(Run)
         /\ Len(run') = Len(run)
         /\ DOMAIN run' = DOMAIN run
         /\ \A q \in DOMAIN run : run'[q] = IF q = r THEN w ELSE run[q]
<1>1. /\ [run EXCEPT ![r] = w] \in Seq(Run)
      /\ Len([run EXCEPT ![r] = w]) = Len(run)
      /\ \A q \in 1..Len(run) : [run EXCEPT ![r] = w][q] = IF q = r THEN w ELSE run[q]
  BY RunsOf, ExceptSeq DEF TypeOK
<1>. QED
  BY <1>1, RunsOf, LenProperties DEF Becomes

(* What one step of a workload makes of it and of the claims.               *)
WorkResult(r, w) ==
    /\ Becomes(r, w)
    /\ w.kind = run[r].kind /\ w.told = run[r].told
    /\ Alive(r)
    /\ claimed' \in {claimed, claimed + 1} /\ w.own <= claimed'
    /\ Counted(w)

LEMMA WorkStep ==
  ASSUME RunnerAssumption, TypeOK, CountInv, NEW r \in DOMAIN run, Workload(r)
  PROVE  \E w \in Run : WorkResult(r, w)
<1>. DEFINE v == run[r]
<1>0. /\ v \in Run /\ v.own <= claimed /\ Counted(v)
      /\ Prompts \in Nat /\ claimed \in Nat
  BY RunsOf DEF CountInv, TypeOK, RunnerAssumption
<1>1. /\ v.told \in BOOLEAN
      /\ v.prompts \in 0..Prompts /\ v.observed \in 0..2 * Prompts /\ v.own \in 0..Prompts
      /\ v.pc \in {"loop", "record", "gradient", "ended"}
  BY <1>0 DEF Run
<1>2. CASE /\ v.pc \in {"loop", "gradient"}
           /\ Becomes(r, [v EXCEPT !.pc = "ended"])
           /\ UNCHANGED claimed
  <2>. DEFINE w == [v EXCEPT !.pc = "ended"]
  <2>1. w.pc = "ended" /\ w.kind = v.kind /\ w.told = v.told /\ w.own = v.own
        /\ w.prompts = v.prompts /\ w.observed = v.observed
    BY <1>0 DEF Run
  <2>2. w \in Run
    BY <1>0 DEF Run
  <2>3. Becomes(r, w) /\ UNCHANGED claimed /\ Alive(r)
    BY <1>2 DEF Alive
  <2>. HIDE DEF w
  <2>4. WorkResult(r, w)
    BY <2>1, <2>3, <1>0, <1>1, <1>2 DEF WorkResult, Counted
  <2>. QED
    BY <2>2, <2>4
<1>3. CASE v.pc = "loop" /\ v.prompts # Prompts /\ Becomes(r, Prompt(r)) /\ UNCHANGED claimed
  <2>. DEFINE n == IF Counts(r) THEN v.observed + 1 ELSE v.observed
              w == [v EXCEPT !.pc = "record", !.prompts = @ + 1, !.observed = n]
  <2>1. v.prompts + 1 \in 0..Prompts /\ n \in {v.observed, v.observed + 1} /\ n \in 0..2 * Prompts
    BY <1>0, <1>1, <1>3 DEF Counted
  <2>2. Becomes(r, w) /\ UNCHANGED claimed /\ Alive(r)
    BY <1>3 DEF Alive, Prompt
  <2>. HIDE DEF n
  <2>3. w.pc = "record" /\ w.kind = v.kind /\ w.told = v.told /\ w.own = v.own
        /\ w.prompts = v.prompts + 1 /\ w.observed = n
    BY <1>0 DEF Run
  <2>4. w \in Run
    BY <1>0, <2>1 DEF Run
  <2>. HIDE DEF w
  <2>5. WorkResult(r, w)
    BY <2>1, <2>2, <2>3, <1>0, <1>1, <1>3 DEF WorkResult, Counted
  <2>. QED
    BY <2>4, <2>5
<1>4. CASE RecordTask(r)
  <2>. DEFINE c == IF v.kind = "training" THEN "gradient" ELSE "loop"
              w == [v EXCEPT !.own = @ + 1, !.pc = c]
  <2>1. v.own + 1 \in 0..Prompts
    BY <1>0, <1>1, <1>4 DEF RecordTask, Counted
  <2>2. c \in {"loop", "record", "gradient", "ended"} /\ (c = "gradient" => v.kind = "training")
        /\ c # "record"
    OBVIOUS
  <2>3. v.pc = "record" /\ Becomes(r, w) /\ claimed' = claimed + 1 /\ Alive(r)
    BY <1>4 DEF RecordTask, Recorded, Alive
  <2>. HIDE DEF c
  <2>4. w.pc = c /\ w.kind = v.kind /\ w.told = v.told /\ w.own = v.own + 1
        /\ w.prompts = v.prompts /\ w.observed = v.observed
    BY <1>0 DEF Run
  <2>5. w \in Run
    BY <1>0, <2>1, <2>2 DEF Run
  <2>. HIDE DEF w
  <2>6. WorkResult(r, w)
    BY <2>2, <2>3, <2>4, <1>0, <1>1 DEF WorkResult, Counted
  <2>. QED
    BY <2>5, <2>6
<1>5. CASE /\ v.pc = "gradient"
           /\ Becomes(r, [v EXCEPT !.observed = @ + 1, !.pc = "loop"])
           /\ UNCHANGED claimed
  <2>. DEFINE w == [v EXCEPT !.observed = @ + 1, !.pc = "loop"]
  <2>1. v.observed + 1 \in 0..2 * Prompts
    BY <1>0, <1>1, <1>5 DEF Counted
  <2>2. Becomes(r, w) /\ UNCHANGED claimed /\ Alive(r)
    BY <1>5 DEF Alive
  <2>3. w.pc = "loop" /\ w.kind = v.kind /\ w.told = v.told /\ w.own = v.own
        /\ w.prompts = v.prompts /\ w.observed = v.observed + 1
    BY <1>0 DEF Run
  <2>4. w \in Run
    BY <1>0, <2>1 DEF Run
  <2>. HIDE DEF w
  <2>5. WorkResult(r, w)
    BY <2>2, <2>3, <1>0, <1>1, <1>5 DEF WorkResult, Counted
  <2>. QED
    BY <2>4, <2>5
<1>. QED
  BY <1>2, <1>3, <1>4, <1>5 DEF Workload, NextPrompt, DownloadFails, GradientSteps

(* A workload's step keeps the invariant: stop requests see no new end of a *)
(* workload undone, and the claims only grow.                               *)
LEMMA WorkInvariant ==
  ASSUME RunnerAssumption, IInv, NEW r \in DOMAIN run, Workload(r)
  PROVE  IInv'
<1>0. TypeOK /\ CountInv /\ HoldInv /\ StrayIsTold /\ JoinInv
  BY DEF IInv
<1>1. PICK w \in Run : WorkResult(r, w)
  BY <1>0, WorkStep
<1>2. UNCHANGED <<current, starter, stopper>>
  BY DEF Workload, NextPrompt, DownloadFails, RecordTask, GradientSteps
<1>3. /\ run' \in Seq(Run)
      /\ Len(run') = Len(run)
      /\ DOMAIN run' = DOMAIN run
      /\ \A q \in DOMAIN run : run'[q] = IF q = r THEN w ELSE run[q]
  BY <1>0, <1>1, BecomesKeeps DEF WorkResult
<1>4. claimed \in Nat /\ claimed' \in Nat /\ claimed <= claimed'
  BY <1>0, <1>1 DEF WorkResult, TypeOK
<1>5. TypeOK'
  BY <1>0, <1>2, <1>3, <1>4 DEF TypeOK
<1>6. CountInv'
  <2>. SUFFICES ASSUME NEW q \in DOMAIN run
                PROVE  Counted(run'[q]) /\ run'[q].own <= claimed'
    BY <1>3 DEF CountInv
  <2>1. CASE q = r
    BY <2>1, <1>1, <1>3 DEF WorkResult
  <2>2. CASE q # r
    <3>1. run'[q] = run[q] /\ run[q].own \in Nat
      BY <2>2, <1>0, <1>3, RunsOf, RunnerAssumption DEF Run
    <3>2. Counted(run[q]) /\ run[q].own <= claimed
      BY <1>0 DEF CountInv
    <3>3. run'[q].own <= claimed'
      BY <3>1, <3>2, <1>4
    <3>. QED
      BY <3>1, <3>2, <3>3
  <2>. QED
    BY <2>1, <2>2
<1>7. \A q \in DOMAIN run : /\ run[q].pc = "ended" => run'[q].pc = "ended"
                            /\ run'[q].told = run[q].told
                            /\ run'[q].kind = run[q].kind
  BY <1>1, <1>3 DEF WorkResult, Alive
<1>8. HoldInv'
  BY <1>0, <1>2, <1>3 DEF HoldInv, ReportedOnce
<1>9. StrayIsTold'
  BY <1>0, <1>2, <1>3, <1>7 DEF StrayIsTold, Alive
<1>10. JoinInv'
  <2>. SUFFICES ASSUME NEW s \in Stoppers, stopper[s].joined
                PROVE  /\ stopper[s].run \in DOMAIN run
                       /\ run'[stopper[s].run].pc = "ended"
                       /\ run'[stopper[s].run].kind # "training" =>
                            /\ stopper[s].pc = "total" => stopper[s].observed <= claimed'
                            /\ stopper[s].pc = "replied" => stopper[s].observed <= stopper[s].claimed
    BY <1>0, <1>2, <1>3 DEF JoinInv, Alive
  <2>1. stopper[s].observed \in Nat
    BY <1>0, RunnerAssumption DEF TypeOK, Stopper
  <2>2. stopper[s].observed <= claimed => stopper[s].observed <= claimed'
    BY <1>4, <2>1
  <2>3. /\ stopper[s].run \in DOMAIN run
        /\ run[stopper[s].run].pc = "ended"
        /\ run[stopper[s].run].kind # "training" =>
             /\ stopper[s].pc = "total" => stopper[s].observed <= claimed
             /\ stopper[s].pc = "replied" => stopper[s].observed <= stopper[s].claimed
    BY <1>0 DEF JoinInv, Alive
  <2>. QED
    BY <1>7, <2>2, <2>3
<1>. QED
  BY <1>5, <1>6, <1>8, <1>9, <1>10 DEF IInv

(* start() keeps the invariant: the new workload is the one the runner      *)
(* names, and the one it replaces has ended.                                *)
LEMMA StartInvariant ==
  ASSUME RunnerAssumption, IInv, NEW s \in Starters, Start(s)
  PROVE  IInv'
<1>0. TypeOK /\ CountInv /\ HoldInv /\ StrayIsTold /\ JoinInv
  BY DEF IInv
<1>1. /\ UNCHANGED <<claimed, stopper>>
      /\ starter' \in [Starters -> {"idle", "started", "conflict"}]
  BY <1>0 DEF Start, TypeOK
<1>2. CASE UNCHANGED <<current, run>>
  BY <1>0, <1>1, <1>2 DEF IInv, TypeOK, CountInv, HoldInv, ReportedOnce, StrayIsTold, JoinInv, Alive
<1>3. ASSUME NEW kind \in Kinds, ~IsRunning, Len(run) < MaxRuns,
             run' = Append(run, [kind |-> kind, pc |-> "loop", told |-> FALSE,
                                 prompts |-> 0, observed |-> 0, own |-> 0]),
             current' = Len(run')
      PROVE  IInv'
  <2>. DEFINE new == [kind |-> kind, pc |-> "loop", told |-> FALSE,
                      prompts |-> 0, observed |-> 0, own |-> 0]
  <2>1. new \in Run
    BY RunnerAssumption DEF RunnerAssumption, Run
  <2>2. Len(run) \in Nat /\ DOMAIN run = 1..Len(run) /\ run \in Seq(Run)
    BY <1>0, RunsOf DEF TypeOK
  <2>3. /\ Counted(new) /\ new.own = 0 /\ new.kind = kind
    BY DEF Counted
  <2>. HIDE DEF new
  <2>4. /\ run' \in Seq(Run)
        /\ Len(run') = Len(run) + 1
        /\ DOMAIN run' = 1..Len(run) + 1
        /\ \A r \in DOMAIN run : run'[r] = run[r]
        /\ run'[Len(run) + 1] = new
    BY <1>3, <2>1, <2>2, AppendProperties, LenProperties DEF new
  <2>5. TypeOK'
    <3>1. Len(run') <= MaxRuns
      BY <1>3, <2>2, <2>4, RunnerAssumption DEF RunnerAssumption
    <3>. QED
      BY <1>0, <1>1, <1>3, <2>4, <3>1 DEF TypeOK
  <2>6. CountInv'
    <3>. SUFFICES ASSUME NEW r \in 1..Len(run) + 1
                  PROVE  Counted(run'[r]) /\ run'[r].own <= claimed
      BY <1>1, <2>4 DEF CountInv
    <3>1. CASE r \in DOMAIN run
      BY <1>0, <2>4, <3>1 DEF CountInv
    <3>2. CASE r = Len(run) + 1
      BY <1>0, <2>3, <2>4, <3>2 DEF TypeOK
    <3>. QED
      BY <2>2, <3>1, <3>2
  <2>7. HoldInv'
    BY <1>0, <1>1, <1>3, <2>2, <2>4 DEF HoldInv, ReportedOnce
  <2>8. StrayIsTold'
    <3>. SUFFICES ASSUME NEW r \in DOMAIN run', run'[r].pc # "ended", r # current'
                  PROVE  run'[r].told
                         \/ \E t \in Stoppers : stopper'[t].pc = "set" /\ stopper'[t].run = r
      BY DEF StrayIsTold, Alive
    <3>1. r \in DOMAIN run /\ run'[r] = run[r]
      BY <1>3, <2>2, <2>4
    <3>2. r # current
      BY <1>3, <3>1, <2>2 DEF IsRunning, Alive
    <3>. QED
      BY <1>0, <1>1, <3>1, <3>2 DEF StrayIsTold, Alive
  <2>9. JoinInv'
    BY <1>0, <1>1, <2>2, <2>4 DEF JoinInv, Alive
  <2>. QED
    BY <2>5, <2>6, <2>7, <2>8, <2>9 DEF IInv
<1>. QED
  BY <1>2, <1>3 DEF Start

(* A stop request's step keeps the invariant.                               *)
LEMMA StopInvariant ==
  ASSUME RunnerAssumption, IInv, NEW s \in Stoppers, StopAsks(s) \/ StopStep(s)
  PROVE  IInv'
<1>0. TypeOK /\ CountInv /\ HoldInv /\ StrayIsTold /\ JoinInv
  BY DEF IInv
<1>1. /\ Len(run) \in Nat /\ DOMAIN run = 1..Len(run)
      /\ \A r \in DOMAIN run : run[r] \in Run
      /\ current \in 0..Len(run) /\ Len(run) <= MaxRuns /\ claimed \in Nat
      /\ Prompts \in Nat /\ MaxRuns \in Nat
  BY <1>0, RunsOf, RunnerAssumption DEF TypeOK, RunnerAssumption
<1>2. /\ stopper \in [Stoppers -> Stopper]
      /\ UNCHANGED <<claimed, starter>>
  BY <1>0 DEF TypeOK, StopAsks, StopStep, StopTakes, StopSets, StopJoins, StopObserves, StopTotals
<1>. DEFINE old == stopper[s]
<1>3. /\ old \in Stopper
      /\ old.run \in 0..Len(run)
  BY <1>0, <1>2 DEF HoldInv
<1>4. CASE StopAsks(s)
  <2>. DEFINE new == [old EXCEPT !.pc = "take", !.wasRunning = IsRunning]
  <2>1. new.pc = "take" /\ new.run = old.run /\ new.joined = old.joined
    BY <1>3 DEF Stopper
  <2>2. IsRunning \in BOOLEAN
    BY DEF IsRunning
  <2>3. new \in Stopper
    BY <1>3, <2>2 DEF Stopper
  <2>4. old.pc = "idle" /\ stopper' = [stopper EXCEPT ![s] = new] /\ UNCHANGED <<current, run>>
    BY <1>4 DEF StopAsks
  <2>. HIDE DEF new
  <2>5. TypeOK'
    BY <1>0, <1>2, <2>3, <2>4 DEF TypeOK
  <2>6. CountInv'
    BY <1>0, <1>2, <2>4 DEF CountInv
  <2>7. HoldInv'
    BY <1>0, <1>2, <2>1, <2>4 DEF HoldInv, ReportedOnce
  <2>8. StrayIsTold'
    BY <1>0, <1>2, <2>1, <2>4 DEF StrayIsTold, Alive
  <2>9. JoinInv'
    BY <1>0, <1>2, <2>1, <2>4 DEF JoinInv, Alive
  <2>. QED
    BY <2>5, <2>6, <2>7, <2>8, <2>9 DEF IInv
<1>5. CASE StopTakes(s)
  <2>. DEFINE new == [old EXCEPT !.pc = "set", !.run = current]
  <2>1. new.pc = "set" /\ new.run = current /\ new.joined = old.joined
    BY <1>3 DEF Stopper
  <2>2. current \in 0..MaxRuns
    BY <1>1
  <2>3. new \in Stopper
    BY <1>3, <2>2 DEF Stopper
  <2>4. /\ old.pc = "take" /\ stopper' = [stopper EXCEPT ![s] = new]
        /\ current' = 0 /\ UNCHANGED run
    BY <1>5 DEF StopTakes
  <2>. HIDE DEF new
  <2>5. TypeOK'
    BY <1>0, <1>2, <2>3, <2>4 DEF TypeOK
  <2>6. CountInv'
    BY <1>0, <1>2, <2>4 DEF CountInv
  <2>7. HoldInv'
    BY <1>0, <1>1, <1>2, <2>1, <2>4 DEF HoldInv, ReportedOnce
  <2>8. StrayIsTold'
    BY <1>0, <1>2, <2>1, <2>4 DEF StrayIsTold, Alive
  <2>9. JoinInv'
    BY <1>0, <1>2, <2>1, <2>4 DEF JoinInv, Alive
  <2>. QED
    BY <2>5, <2>6, <2>7, <2>8, <2>9 DEF IInv
<1>6. CASE StopSets(s)
  <2>. DEFINE new == [old EXCEPT !.pc = "join"]
  <2>1. new.pc = "join" /\ new.run = old.run /\ new.joined = old.joined
    BY <1>3 DEF Stopper
  <2>2. new \in Stopper
    BY <1>3 DEF Stopper
  <2>3. old.pc = "set" /\ stopper' = [stopper EXCEPT ![s] = new] /\ UNCHANGED current
    BY <1>6 DEF StopSets
  <2>4. /\ run' \in Seq(Run) /\ Len(run') = Len(run) /\ DOMAIN run' = DOMAIN run
        /\ \A q \in DOMAIN run :
              /\ run'[q].pc = run[q].pc
              /\ run'[q].kind = run[q].kind
              /\ run'[q].own = run[q].own
              /\ Counted(run[q]) => Counted(run'[q])
              /\ run[q].told => run'[q].told
              /\ q = old.run => run'[q].told
    <3>1. CASE old.run = 0
      BY <3>1, <1>0, <1>1, <1>6 DEF StopSets, Held, TypeOK
    <3>2. CASE old.run # 0
      <4>. DEFINE r == old.run
                  v == run[r]
                  w == [v EXCEPT !.told = TRUE]
      <4>1. r \in DOMAIN run /\ v \in Run
        BY <3>2, <1>1, <1>3
      <4>2. /\ w.told = TRUE /\ w.pc = v.pc /\ w.kind = v.kind /\ w.own = v.own
            /\ w.prompts = v.prompts /\ w.observed = v.observed
        BY <4>1 DEF Run
      <4>3. w \in Run
        BY <4>1 DEF Run
      <4>4. Becomes(r, w)
        BY <3>2, <1>6 DEF StopSets, Held, Becomes
      <4>. HIDE DEF w
      <4>5. /\ run' \in Seq(Run) /\ Len(run') = Len(run) /\ DOMAIN run' = DOMAIN run
            /\ \A q \in DOMAIN run : run'[q] = IF q = r THEN w ELSE run[q]
        BY <1>0, <4>1, <4>3, <4>4, BecomesKeeps
      <4>6. Counted(v) => Counted(w)
        BY <4>2 DEF Counted
      <4>. QED
        BY <4>2, <4>5, <4>6
    <3>. QED
      BY <3>1, <3>2
  <2>5. TypeOK'
    BY <1>0, <1>2, <2>2, <2>3, <2>4 DEF TypeOK
  <2>. HIDE DEF new
  <2>6. CountInv'
    BY <1>0, <1>2, <2>4 DEF CountInv
  <2>7. HoldInv'
    BY <1>0, <1>1, <1>2, <2>1, <2>3, <2>4 DEF HoldInv, ReportedOnce
  <2>8. StrayIsTold'
    <3>. SUFFICES ASSUME NEW r \in DOMAIN run, run[r].pc # "ended", r # current, ~run[r].told,
                         r # old.run
                  PROVE  \E t \in Stoppers : stopper'[t].pc = "set" /\ stopper'[t].run = r
      BY <2>3, <2>4 DEF StrayIsTold, Alive
    <3>1. PICK t \in Stoppers : stopper[t].pc = "set" /\ stopper[t].run = r
      BY <1>0 DEF StrayIsTold, Alive
    <3>2. t # s
      BY <3>1
    <3>. QED
      BY <1>2, <2>3, <3>1, <3>2
  <2>9. JoinInv'
    BY <1>0, <1>2, <2>1, <2>3, <2>4 DEF JoinInv, Alive
  <2>. QED
    BY <2>5, <2>6, <2>7, <2>8, <2>9 DEF IInv
<1>7. CASE StopJoins(s)
  <2>. DEFINE ended == old.run # 0 /\ ~Alive(old.run)
              new == [old EXCEPT !.pc = "observe", !.joined = ended]
  <2>1. ended \in BOOLEAN
    OBVIOUS
  <2>2. old.pc = "join" /\ stopper' = [stopper EXCEPT ![s] = new] /\ UNCHANGED <<current, run>>
    BY <1>7 DEF StopJoins, Held
  <2>3. ended => old.run \in DOMAIN run /\ ~Alive(old.run)
    BY <1>1, <1>3
  <2>. HIDE DEF ended
  <2>4. new.pc = "observe" /\ new.run = old.run /\ new.joined = ended
    BY <1>3 DEF Stopper
  <2>5. new \in Stopper
    BY <1>3, <2>1 DEF Stopper
  <2>. HIDE DEF new
  <2>6. TypeOK'
    BY <1>0, <1>2, <2>2, <2>5 DEF TypeOK
  <2>7. CountInv'
    BY <1>0, <1>2, <2>2 DEF CountInv
  <2>8. HoldInv'
    BY <1>0, <1>2, <2>2, <2>4 DEF HoldInv, ReportedOnce
  <2>9. StrayIsTold'
    BY <1>0, <1>2, <2>2, <2>4 DEF StrayIsTold, Alive
  <2>10. JoinInv'
    BY <1>0, <1>2, <2>2, <2>3, <2>4 DEF JoinInv, Alive
  <2>. QED
    BY <2>6, <2>7, <2>8, <2>9, <2>10 DEF IInv
<1>8. CASE StopObserves(s)
  <2>. DEFINE n == IF old.run = 0 THEN 0 ELSE run[old.run].observed
              new == [old EXCEPT !.pc = "total", !.observed = n]
  <2>1. n \in 0..2 * Prompts
    BY <1>1, <1>3 DEF Run
  <2>2. old.pc = "observe" /\ stopper' = [stopper EXCEPT ![s] = new] /\ UNCHANGED <<current, run>>
    BY <1>8 DEF StopObserves, Held
  <2>3. old.joined /\ run[old.run].kind # "training" => n <= claimed
    <3>. SUFFICES ASSUME old.joined, run[old.run].kind # "training" PROVE n <= claimed
      OBVIOUS
    <3>1. old.run \in DOMAIN run /\ run[old.run].pc = "ended"
      BY <1>0 DEF JoinInv, Alive
    <3>2. /\ run[old.run].observed <= run[old.run].own + 0
          /\ run[old.run].own <= claimed
      BY <1>0, <3>1 DEF CountInv, Counted
    <3>3. run[old.run].observed \in Nat /\ run[old.run].own \in Nat
      BY <1>1, <3>1 DEF Run
    <3>. QED
      BY <1>1, <3>1, <3>2, <3>3
  <2>. HIDE DEF n
  <2>4. /\ new.pc = "total" /\ new.run = old.run /\ new.joined = old.joined
        /\ new.observed = n
    BY <1>3 DEF Stopper
  <2>5. new \in Stopper
    BY <1>3, <2>1 DEF Stopper
  <2>. HIDE DEF new
  <2>6. TypeOK'
    BY <1>0, <1>2, <2>2, <2>5 DEF TypeOK
  <2>7. CountInv'
    BY <1>0, <1>2, <2>2 DEF CountInv
  <2>8. HoldInv'
    BY <1>0, <1>2, <2>2, <2>4 DEF HoldInv, ReportedOnce
  <2>9. StrayIsTold'
    BY <1>0, <1>2, <2>2, <2>4 DEF StrayIsTold, Alive
  <2>10. JoinInv'
    BY <1>0, <1>2, <2>2, <2>3, <2>4 DEF JoinInv, Alive
  <2>. QED
    BY <2>6, <2>7, <2>8, <2>9, <2>10 DEF IInv
<1>9. CASE StopTotals(s)
  <2>. DEFINE new == [old EXCEPT !.pc = "replied", !.claimed = claimed]
  <2>1. old.pc = "total" /\ stopper' = [stopper EXCEPT ![s] = new] /\ UNCHANGED <<current, run>>
    BY <1>9 DEF StopTotals
  <2>2. /\ new.pc = "replied" /\ new.run = old.run /\ new.joined = old.joined
        /\ new.observed = old.observed /\ new.claimed = claimed
    BY <1>3 DEF Stopper
  <2>3. new \in Stopper
    BY <1>1, <1>3 DEF Stopper
  <2>. HIDE DEF new
  <2>4. TypeOK'
    BY <1>0, <1>2, <2>1, <2>3 DEF TypeOK
  <2>5. CountInv'
    BY <1>0, <1>2, <2>1 DEF CountInv
  <2>6. HoldInv'
    BY <1>0, <1>2, <2>1, <2>2 DEF HoldInv, ReportedOnce
  <2>7. StrayIsTold'
    BY <1>0, <1>2, <2>1, <2>2 DEF StrayIsTold, Alive
  <2>8. JoinInv'
    BY <1>0, <1>2, <2>1, <2>2 DEF JoinInv, Alive
  <2>. QED
    BY <2>4, <2>5, <2>6, <2>7, <2>8 DEF IInv
<1>. QED
  BY <1>4, <1>5, <1>6, <1>7, <1>8, <1>9 DEF StopStep

(* The inductive invariant.                                                 *)
THEOREM RunnerInvariant == Spec => []IInv
<1>1. Init => IInv
  <2>. SUFFICES ASSUME Init PROVE IInv
    OBVIOUS
  <2>1. run = <<>> /\ Len(run) = 0 /\ DOMAIN run = {} /\ run \in Seq(Run)
    BY LenProperties, EmptySeq DEF Init
  <2>2. [pc |-> "idle", run |-> 0, wasRunning |-> FALSE, joined |-> FALSE,
         observed |-> 0, claimed |-> 0] \in Stopper
    BY RunnerAssumption DEF RunnerAssumption, Stopper
  <2>. QED
    BY <2>1, <2>2, RunnerAssumption
    DEF Init, IInv, TypeOK, CountInv, HoldInv, ReportedOnce, StrayIsTold, JoinInv, RunnerAssumption
<1>2. IInv /\ [Next]_vars => IInv'
  <2>. SUFFICES ASSUME IInv, [Next]_vars PROVE IInv'
    OBVIOUS
  <2>1. CASE UNCHANGED vars
    BY <2>1 DEF vars, IInv, TypeOK, CountInv, HoldInv, ReportedOnce, StrayIsTold, JoinInv, Alive
  <2>2. ASSUME NEW s \in Starters, Start(s) PROVE IInv'
    BY <2>2, StartInvariant, RunnerAssumption
  <2>3. ASSUME NEW r \in DOMAIN run, Workload(r) PROVE IInv'
    BY <2>3, WorkInvariant, RunnerAssumption
  <2>4. ASSUME NEW s \in Stoppers, StopAsks(s) \/ StopStep(s) PROVE IInv'
    BY <2>4, StopInvariant, RunnerAssumption
  <2>. QED
    BY <2>1, <2>2, <2>3, <2>4 DEF Next
<1>. QED
  BY <1>1, <1>2, PTL DEF Spec

(* The type invariant.                                                      *)
THEOREM TypeCorrect == Spec => []TypeOK
<1>1. IInv => TypeOK
  BY DEF IInv
<1>. QED
  BY <1>1, RunnerInvariant, PTL

(* A workload that runs and that the runner no longer names has been told   *)
(* to stop, or is about to be, for any overlap of starts and stops.         *)
THEOREM NoLeak == Spec => []StrayIsTold
<1>1. IInv => StrayIsTold
  BY DEF IInv
<1>. QED
  BY <1>1, RunnerInvariant, PTL

(* No two stop requests report the same workload.                           *)
THEOREM OneReport == Spec => []ReportedOnce
<1>1. IInv => ReportedOnce
  BY DEF IInv, HoldInv
<1>. QED
  BY <1>1, RunnerInvariant, PTL

(* A stop that saw an honest workload end does not report more observed     *)
(* FLOPs than claimed ones, for any number of prompts and of workloads.     *)
THEOREM HonestIsCleared == Spec => []HonestIsNotAccused
<1>1. IInv => HonestIsNotAccused
  BY DEF IInv, JoinInv, HonestIsNotAccused
<1>. QED
  BY <1>1, RunnerInvariant, PTL

-----------------------------------------------------------------------------
(* The proof of secure erasure.                                           *)

NodeInv ==
    /\ free \in [Regions -> Nat] /\ used \in [Regions -> Nat]
    /\ how \in {"bulk", "multicore", "batched", "single", "devurandom"}

\* The blocks of a region that the fill has got to.
Streamed(r) ==
    IF Place[r] < region THEN Wipeable(r)
    ELSE IF Place[r] = region THEN filled ELSE 0

NoiseInv ==
    /\ file \in [0 .. TotalBlocks - 1 -> Int]
    /\ \A i \in 0 .. TotalBlocks - 1 : file[i] # Old
    /\ DOMAIN memory = Regions
    /\ \A r \in Regions : memory[r] \in [0 .. Wipeable(r) - 1 -> Int]

PlaceInv ==
    /\ phase \in {"pregen", "fill", "challenge", "done", "raised"}
    /\ region \in 1 .. 4 /\ filled \in Nat
    /\ region = 4 => filled = 0
    /\ region # 4 => filled <= Wipeable(RegionAt(region))
    /\ phase = "pregen" => region = 1 /\ filled = 0
    /\ phase = "fill" => region # 4
    /\ phase \in {"challenge", "done"} => region = 4
    /\ wiped = BlocksBefore(region)

RoundInv ==
    /\ rounds \in 0 .. Rounds /\ passed \in 0 .. rounds /\ faults \in 0 .. MaxFaults
    /\ challenged \subseteq 0 .. TotalBlocks - 1
    /\ phase \in {"pregen", "fill"} => rounds = 0 /\ challenged = {}
    /\ phase = "done" => rounds = Rounds

\* Without a failure every block that was streamed is the noise that a
\* challenge will expect there, and no answer has been wrong.
HonestInv ==
    faults = 0 =>
        /\ passed = rounds
        /\ \A r \in Regions : \A i \in 0 .. Streamed(r) - 1 :
               memory[r][i] = Expected(Offset(r) + i)

HeldInv == passed = rounds => \A i \in challenged : VerifyResponse(i)

PoseInv == NodeInv /\ NoiseInv /\ PlaceInv /\ RoundInv /\ HonestInv /\ HeldInv

\* Where the regions are in the stream: one after the other, in the order of
\* the dictionary (prover.py Prover.__init__).
LEMMA Geometry ==
  ASSUME NodeInv
  PROVE  /\ Regions = {"dram", "hbm", "nvme"}
         /\ \A r \in Regions : Wipeable(r) \in Nat
         /\ Offset("dram") = 0
         /\ Offset("hbm") = Wipeable("dram")
         /\ Offset("nvme") = Wipeable("dram") + Wipeable("hbm")
         /\ TotalBlocks
                = Wipeable("dram") + Wipeable("hbm") + Wipeable("nvme")
         /\ BlocksBefore(1) = 0
         /\ BlocksBefore(2) = Wipeable("dram")
         /\ BlocksBefore(3) = Wipeable("dram") + Wipeable("hbm")
         /\ BlocksBefore(4) = TotalBlocks
<1>1. Regions = {"dram", "hbm", "nvme"}
  BY DEF Regions
<1>2. \A r \in Regions : Wipeable(r) \in Nat
  BY DEF NodeInv, Wipeable
<1>3. Place["dram"] = 1 /\ Place["hbm"] = 2 /\ Place["nvme"] = 3
  BY DEF Place
<1> QED
  BY <1>1, <1>2, <1>3
     DEF Offset, TotalBlocks, BlocksBefore, Total

LEMMA Places ==
  /\ Place["dram"] = 1 /\ Place["hbm"] = 2 /\ Place["nvme"] = 3
  /\ RegionAt(1) = "dram" /\ RegionAt(2) = "hbm" /\ RegionAt(3) = "nvme"
<1>1. Place["dram"] = 1 /\ Place["hbm"] = 2 /\ Place["nvme"] = 3
  BY DEF Place
<1>2. Regions = {"dram", "hbm", "nvme"}
  BY DEF Regions
<1>3. RegionAt(1) = "dram"
  BY <1>1, <1>2 DEF RegionAt
<1>4. RegionAt(2) = "hbm"
  BY <1>1, <1>2 DEF RegionAt
<1>5. RegionAt(3) = "nvme"
  BY <1>1, <1>2 DEF RegionAt
<1> QED
  BY <1>1, <1>3, <1>4, <1>5

\* The Verifier's MemoryMap and the Prover's offsets lead an index to the same
\* block.  (memmap.py MemoryMap.resolve, prover.py Prover.respond)
LEMMA SameBlock ==
  ASSUME NodeInv, NEW i \in 0 .. TotalBlocks - 1
  PROVE  \E r \in Regions :
           /\ i - Offset(r) \in 0 .. Wipeable(r) - 1
           /\ Resolve(i) = <<r, i - Offset(r)>>
           /\ Respond(i) = memory[r][i - Offset(r)]
<1> DEFINE a == Wipeable("dram")
           b == Wipeable("hbm")
           c == Wipeable("nvme")
           In(r) == i \in Offset(r) .. Offset(r) + Wipeable(r) - 1
<1>1. /\ a \in Nat /\ b \in Nat /\ c \in Nat /\ i \in 0 .. a + b + c - 1
      /\ Offset("dram") = 0 /\ Offset("hbm") = a /\ Offset("nvme") = a + b
      /\ Regions = {"dram", "hbm", "nvme"}
  BY Geometry
<1>2. \E r \in Regions : In(r) /\ Resolve(i) = <<r, i - Offset(r)>>
  <2>1. CASE i < a
    BY <1>1, <2>1 DEF Resolve
  <2>2. CASE i \in a .. a + b - 1
    BY <1>1, <2>2 DEF Resolve
  <2>3. CASE i >= a + b
    BY <1>1, <2>3 DEF Resolve
  <2> QED
    BY <1>1, <2>1, <2>2, <2>3
<1>3. PICK r \in Regions : In(r) /\ Resolve(i) = <<r, i - Offset(r)>>
  BY <1>2
<1>4. \A q \in Regions : In(q) => q = r
  BY <1>1, <1>3
<1>5. (CHOOSE q \in Regions : In(q)) = r
  BY <1>3, <1>4
<1>6. Respond(i) = memory[r][i - Offset(r)]
  BY <1>5 DEF Respond
<1>7. i - Offset(r) \in 0 .. Wipeable(r) - 1
  BY <1>1, <1>3
<1> QED
  BY <1>3, <1>6, <1>7

\* Whichever way the noise is made, block p of a chunk is the noise of its
\* index.  (noise.py, prover.py)
LEMMA SameNoise ==
  ASSUME PoseAssumption, NodeInv,
         NEW start \in Nat, NEW done \in Nat, NEW p \in Nat
  PROVE  Noise(start, done, p) = Expected(start + done + p)
<1>1. AesPerBlock \in Int
  BY DEF PoseAssumption
<1>2. (start + done + p) * AesPerBlock = start * AesPerBlock + (done + p) * AesPerBlock
  BY <1>1
<1>3. (start + done + p) * AesPerBlock = (start + done) * AesPerBlock + p * AesPerBlock
  BY <1>1
<1>4. CASE how = "bulk"
  BY <1>1, <1>2, <1>4 DEF Noise, BulkNoise, Expected, GenerateBlock
<1>5. CASE how = "multicore"
  BY <1>1, <1>3, <1>5
     DEF Noise, MulticoreNoise, GenerateBlocks, Expected,
         GenerateBlock
<1>6. CASE how = "devurandom"
  BY <1>6 DEF Noise, StreamFromFile, Expected
<1>7. CASE how \in {"batched", "single"}
  <2>1. Noise(start, done, p) = 0 * AesPerBlock + (start + done + p) * AesPerBlock
    BY <1>7 DEF Noise, GenerateBlocks
  <2>2. 0 * AesPerBlock = 0
    BY <1>1
  <2>3. (start + done + p) * AesPerBlock \in Int
    BY <1>1
  <2> QED
    BY <1>7, <2>1, <2>2, <2>3 DEF Expected, GenerateBlock
<1> QED
  BY <1>4, <1>5, <1>6, <1>7 DEF NodeInv

\* What a challenge expects is never what was there before.
LEMMA NoiseIsNew ==
  ASSUME PoseAssumption, NodeInv, NoiseInv, NEW i \in 0 .. TotalBlocks - 1
  PROVE  Expected(i) \in Int /\ Expected(i) # Old
<1>1. AesPerBlock \in Nat /\ Old = -1
  BY DEF PoseAssumption, Old
<1>2. i \in Nat
  OBVIOUS
<1>3. i * AesPerBlock \in Nat
  BY <1>1, <1>2
<1> QED
  BY <1>1, <1>3 DEF Expected, GenerateBlock, NoiseInv

\* The sizes are settled before the run.
LEMMA SizesStay ==
  ASSUME UNCHANGED <<free, used, how>>, NodeInv
  PROVE  /\ NodeInv'
         /\ \A r : Wipeable(r)' = Wipeable(r)
         /\ \A r : Offset(r)' = Offset(r)
         /\ TotalBlocks' = TotalBlocks
         /\ \A p : BlocksBefore(p)' = BlocksBefore(p)
<1>1. \A r : Wipeable(r)' = Wipeable(r)
  BY DEF Wipeable
<1>2. \A p : BlocksBefore(p)' = BlocksBefore(p)
  BY <1>1 DEF BlocksBefore, Total
<1> QED
  BY <1>1, <1>2 DEF Offset, TotalBlocks, NodeInv

LEMMA StartsInPoseInv ==
  ASSUME PoseAssumption, PoseInit
  PROVE  PoseInv
<1>1. NodeInv
  BY DEF PoseAssumption, PoseInit, NodeInv
<1>2. NoiseInv
  BY DEF PoseInit, NoiseInv, Old, Zero
<1>3. PlaceInv
  BY <1>1, Geometry, Places DEF PoseInit, PlaceInv
<1>4. RoundInv
  BY DEF PoseAssumption, PoseInit, RoundInv
<1>5. \A r \in Regions : Streamed(r) = 0
  BY Places DEF Streamed, PoseInit, Regions
<1>6. HonestInv
  BY <1>5 DEF HonestInv, PoseInit
<1>7. HeldInv
  BY DEF HeldInv, PoseInit
<1> QED
  BY <1>1, <1>2, <1>3, <1>4, <1>6, <1>7 DEF PoseInv

\* While the noise file is written nothing has been streamed or asked.
LEMMA PregenKeeps ==
  ASSUME PoseAssumption, PoseInv, phase = "pregen", phase' \in {"pregen", "fill"},
         UNCHANGED <<free, used, how, memory, region, filled, wiped, challenged, rounds, passed>>,
         file' \in [0 .. TotalBlocks - 1 -> Int],
         \A i \in 0 .. TotalBlocks - 1 : file'[i] # Old,
         faults' \in faults .. MaxFaults
  PROVE  PoseInv'
<1> USE DEF PoseInv
<1>1. /\ NodeInv'
      /\ \A r : Wipeable(r)' = Wipeable(r)
      /\ \A r : Offset(r)' = Offset(r)
      /\ TotalBlocks' = TotalBlocks
      /\ \A p : BlocksBefore(p)' = BlocksBefore(p)
  BY SizesStay
<1>2. NoiseInv'
  BY <1>1 DEF NoiseInv, Old
<1>3. PlaceInv'
  BY <1>1 DEF PlaceInv
<1>4. RoundInv'
  BY <1>1 DEF RoundInv
<1>5. \A r \in Regions : Streamed(r)' = 0
  BY <1>1, Places DEF Streamed, PlaceInv, Regions
<1>6. rounds = 0 /\ passed = 0 /\ challenged = {}
  BY DEF RoundInv
<1>7. HonestInv'
  BY <1>5, <1>6 DEF HonestInv
<1>8. HeldInv'
  BY <1>6 DEF HeldInv
<1> QED
  BY <1>1, <1>2, <1>3, <1>4, <1>7, <1>8

LEMMA PregenStep ==
  ASSUME PoseAssumption, PoseInv, PregenUrandom
  PROVE  PoseInv'
<1> DEFINE T == TotalBlocks
<1>1. AesPerBlock \in Nat /\ Old = -1 /\ T \in Nat /\ faults \in 0 .. MaxFaults
      /\ MaxFaults \in Nat
  BY Geometry DEF PoseAssumption, Old, PoseInv, RoundInv
<1>2. \A i \in 0 .. T - 1 : GenerateBlock(i) \in Int /\ GenerateBlock(i) # Old
  <2>1. SUFFICES ASSUME NEW i \in 0 .. T - 1 PROVE i * AesPerBlock \in Nat
    BY <1>1 DEF GenerateBlock
  <2> QED
    BY <1>1
<1>3. file \in [0 .. T - 1 -> Int] /\ \A i \in 0 .. T - 1 : file[i] # Old
  BY DEF PoseInv, NoiseInv
<1> HIDE DEF T
<1>4. CASE Pregenerates
  <2>1. file' = [i \in 0 .. T - 1 |-> GenerateBlock(i)]
    BY <1>4 DEF Pregenerates, T
  <2>2. file' \in [0 .. T - 1 -> Int] /\ \A i \in 0 .. T - 1 : file'[i] # Old
    BY <1>2, <2>1
  <2>3. faults' \in faults .. MaxFaults
    BY <1>1, <1>4 DEF Pregenerates
  <2> QED
    BY <1>4, <2>2, <2>3, PregenKeeps DEF Pregenerates, node, T
<1>5. CASE Truncates
  <2>1. faults' \in faults .. MaxFaults
    BY <1>1, <1>5 DEF Truncates
  <2> QED
    BY <1>3, <1>5, <2>1, PregenKeeps DEF Truncates, node, T
<1>6. ASSUME NEW k \in 0 .. NumCores - 1, DdWrites(k)
      PROVE  PoseInv'
  <2>1. file' = [i \in 0 .. T - 1 |->
                    IF i - k * PerCore \in dd[k] .. dd[k] + Chunk - 1
                    THEN GenerateBlock(i) ELSE file[i]]
    BY <1>6 DEF DdWrites, T
  <2>2. \A i \in 0 .. T - 1 : file'[i] \in {GenerateBlock(i), file[i]}
    BY <2>1
  <2>3. DOMAIN file' = 0 .. T - 1 /\ file' = [i \in 0 .. T - 1 |-> file'[i]]
    BY <2>1
  <2>4. file' \in [0 .. T - 1 -> Int] /\ \A i \in 0 .. T - 1 : file'[i] # Old
    BY <1>2, <1>3, <2>2, <2>3
  <2>5. faults' \in faults .. MaxFaults
    BY <1>1, <1>6 DEF DdWrites
  <2> QED
    BY <1>6, <2>4, <2>5, PregenKeeps DEF DdWrites, node, T
<1>7. ASSUME NEW k \in 0 .. NumCores - 1, DdStops(k)
      PROVE  PoseInv'
  <2>1. faults' \in faults .. MaxFaults
    BY <1>1, <1>7 DEF DdStops
  <2> QED
    BY <1>3, <1>7, <2>1, PregenKeeps DEF DdStops, node, T
<1> QED
  BY <1>4, <1>5, <1>6, <1>7 DEF PregenUrandom

\* A chunk continues its region where the last one ended: what was streamed
\* before stays, and what is new is the noise of its index.
LEMMA FillStep ==
  ASSUME PoseAssumption, PoseInv,
         NEW stored \in 0 .. Chunk, FillsChunk(stored)
  PROVE  PoseInv'
<1>0. PICK r \in Regions : r = RegionAt(region) /\ Place[r] = region
  <2>1. region \in 1 .. 3
    BY DEF FillsChunk, PoseInv, PlaceInv
  <2> QED
    BY <2>1, Places DEF Regions
<1> DEFINE w == Wipeable(r)
           left == w - filled
           n == IF how = "single" THEN 1 ELSE Min({left, Chunk})
           noise == [p \in 0 .. n - 1 |-> Noise(Offset(r), filled, p)]
<1>1. /\ phase = "fill" /\ region \in 1 .. 3 /\ left > 0
      /\ \/ r = "dram" /\ stored = n
         \/ r = "hbm" /\ stored = n
         \/ r = "nvme" /\ stored \in 0 .. n
      /\ WriteRange(r, filled, noise, stored)
      /\ faults' = IF stored = n THEN faults ELSE faults + 1
      /\ faults' <= MaxFaults
      /\ filled' = filled + n
      /\ UNCHANGED <<free, used, how, phase, file, dd, region, wiped, challenged, rounds, passed>>
  BY <1>0 DEF FillsChunk, DramWrites, HbmWrites, NvmeWrites, node,
         PoseInv, PlaceInv
<1>2. /\ NodeInv'
      /\ \A q : Wipeable(q)' = Wipeable(q)
      /\ \A q : Offset(q)' = Offset(q)
      /\ TotalBlocks' = TotalBlocks
      /\ \A p : BlocksBefore(p)' = BlocksBefore(p)
  BY <1>1, SizesStay DEF PoseInv
<1>3. r \in Regions /\ Place[r] = region
      /\ \A q \in Regions : Place[q] = region => q = r
  BY <1>0, Places DEF Regions
<1>4. w \in Nat /\ filled \in 0 .. w /\ Offset(r) \in Nat
      /\ Offset(r) + w <= TotalBlocks /\ TotalBlocks \in Nat
  <2>1. w \in Nat /\ filled \in 0 .. w
    BY <1>0, <1>1, Geometry DEF PoseInv, PlaceInv
  <2>2. TotalBlocks \in Nat /\ Offset(r) \in Nat
        /\ Offset(r) + Wipeable(r) <= TotalBlocks
    <3>1. r \in {"dram", "hbm", "nvme"} /\ Wipeable("dram") \in Nat
          /\ Wipeable("hbm") \in Nat /\ Wipeable("nvme") \in Nat
      BY Geometry DEF PoseInv
    <3>2. NodeInv
      BY DEF PoseInv
    <3> QED
      BY <3>1, <3>2, Geometry
  <2> QED
    BY <2>1, <2>2
<1> HIDE DEF w
<1>5. n \in 1 .. left
  <2>1. Chunk \in Nat \ {0} /\ left \in Nat \ {0}
    BY <1>1, <1>4 DEF PoseAssumption
  <2>2. Min({left, Chunk}) = IF left <= Chunk THEN left ELSE Chunk
    BY <2>1 DEF Min
  <2> QED
    BY <2>1, <2>2
<1>6. \A p \in 0 .. n - 1 :
         /\ noise[p] = Expected(Offset(r) + filled + p)
         /\ noise[p] \in Int
  <2> SUFFICES ASSUME NEW p \in 0 .. n - 1
               PROVE  /\ noise[p] = Expected(Offset(r) + filled + p)
                      /\ noise[p] \in Int
    OBVIOUS
  <2>1. p \in Nat /\ noise[p] = Noise(Offset(r), filled, p)
    BY <1>5
  <2>2. noise[p] = Expected(Offset(r) + filled + p)
    <3>1. NodeInv /\ filled \in Nat /\ Offset(r) \in Nat
      BY <1>4 DEF PoseInv
    <3> QED
      BY <2>1, <3>1, SameNoise
  <2>3. Offset(r) + filled + p \in 0 .. TotalBlocks - 1
    BY <1>4, <1>5
  <2> QED
    BY <2>2, <2>3, NoiseIsNew DEF PoseInv
<1> HIDE DEF noise, n
<1>7. /\ DOMAIN memory' = Regions
      /\ \A q \in Regions : q # r => memory'[q] = memory[q]
      /\ memory'[r] = [i \in 0 .. w - 1 |->
                          IF i - filled \in 0 .. stored - 1 THEN noise[i - filled]
                          ELSE memory[r][i]]
  BY <1>1, <1>3 DEF w, WriteRange, PoseInv, NoiseInv
<1>8. stored \in 0 .. n
  BY <1>1, <1>5
<1>9. memory'[r] \in [0 .. w - 1 -> Int]
  <2>1. memory[r] \in [0 .. w - 1 -> Int]
    BY <1>3 DEF PoseInv, NoiseInv, w
  <2>2. \A i \in 0 .. w - 1 : memory'[r][i] \in Int
    <3> SUFFICES ASSUME NEW i \in 0 .. w - 1 PROVE memory'[r][i] \in Int
      OBVIOUS
    <3>1. CASE i - filled \in 0 .. stored - 1
      <4>1. i - filled \in 0 .. n - 1
        BY <1>5, <1>8, <3>1
      <4> QED
        BY <1>6, <1>7, <3>1, <4>1
    <3>2. CASE i - filled \notin 0 .. stored - 1
      BY <1>7, <2>1, <3>2
    <3> QED
      BY <3>1, <3>2
  <2> QED
    BY <1>7, <2>2
<1>10. NoiseInv'
  <2>1. \A q \in Regions : memory'[q] \in [0 .. Wipeable(q) - 1 -> Int]
    BY <1>3, <1>7, <1>9 DEF PoseInv, NoiseInv, w
  <2> QED
    BY <1>1, <1>2, <1>7, <2>1 DEF PoseInv, NoiseInv, Old
<1>11. filled' \in 0 .. w /\ filled' = filled + n /\ region' = region /\ region \in 1 .. 3
  BY <1>1, <1>4, <1>5
<1>12. PlaceInv'
  <2>1. Wipeable(RegionAt(region))' = w
    BY <1>0, <1>1, <1>2 DEF w, RegionAt
  <2> QED
    BY <1>1, <1>2, <1>11, <2>1 DEF PoseInv, PlaceInv
<1>13. RoundInv'
  BY <1>1, <1>2 DEF PoseInv, RoundInv
<1>14. HonestInv'
  <2>1. SUFFICES ASSUME faults' = 0
                 PROVE  /\ passed' = rounds'
                        /\ \A q \in Regions : \A i \in 0 .. Streamed(q)' - 1 :
                              memory'[q][i] = Expected(Offset(q) + i)'
    BY <1>2 DEF HonestInv
  <2>2. faults = 0 /\ stored = n
    BY <1>1, <2>1 DEF PoseInv, RoundInv
  <2>4. ASSUME NEW q \in Regions, q # r, NEW i \in 0 .. Streamed(q)' - 1
        PROVE  memory'[q][i] = Expected(Offset(q) + i)
    <3>1. Streamed(q)' = Streamed(q)
      BY <1>1, <1>2, <1>3, <2>4 DEF Streamed
    <3> QED
      BY <1>7, <2>2, <2>4, <3>1 DEF PoseInv, HonestInv
  <2>5. ASSUME NEW i \in 0 .. Streamed(r)' - 1
        PROVE  memory'[r][i] = Expected(Offset(r) + i)
    <3>1. Streamed(r)' = filled + n /\ Streamed(r) = filled
      BY <1>1, <1>3, <1>11 DEF Streamed
    <3>2. i \in 0 .. filled + n - 1 /\ i \in 0 .. w - 1
      BY <1>4, <1>5, <1>11, <3>1
    <3>3. CASE i < filled
      <4>1. memory'[r][i] = memory[r][i]
        BY <1>4, <1>7, <3>2, <3>3
      <4> QED
        BY <1>3, <1>4, <2>2, <3>1, <3>2, <3>3, <4>1 DEF PoseInv, HonestInv
    <3>4. CASE i >= filled
      <4>1. i - filled \in 0 .. n - 1 /\ Offset(r) + filled + (i - filled) = Offset(r) + i
        BY <1>4, <1>5, <3>2, <3>4
      <4>2. memory'[r][i] = noise[i - filled]
        BY <1>7, <2>2, <3>2, <4>1
      <4> QED
        BY <1>6, <4>1, <4>2
    <3> QED
      BY <1>4, <3>2, <3>3, <3>4
  <2>6. passed' = rounds'
    BY <1>1, <2>2 DEF PoseInv, HonestInv
  <2>7. ASSUME NEW q \in Regions, NEW i \in 0 .. Streamed(q)' - 1
        PROVE  memory'[q][i] = Expected(Offset(q) + i)'
    <3>1. memory'[q][i] = Expected(Offset(q) + i)
      BY <2>4, <2>5
    <3>2. Expected(Offset(q) + i)' = Expected(Offset(q) + i)
      BY <1>1, <1>2 DEF Expected
    <3> QED
      BY <3>1, <3>2
  <2> QED
    BY <2>6, <2>7
<1>15. HeldInv'
  BY <1>1 DEF PoseInv, RoundInv, HeldInv
<1> QED
  BY <1>2, <1>10, <1>12, <1>13, <1>14, <1>15 DEF PoseInv

\* The regions that were filled stay filled when the next one begins.
LEMMA MoveStep ==
  ASSUME PoseAssumption, PoseInv, FillsRegion
  PROVE  PoseInv'
<1>1. /\ phase = "fill" /\ region \in 1 .. 3
      /\ filled = Wipeable(RegionAt(region))
      /\ wiped' = wiped + Wipeable(RegionAt(region))
      /\ region' = region + 1 /\ filled' = 0
      /\ phase' = IF region = 3 THEN "challenge" ELSE "fill"
      /\ UNCHANGED <<free, used, how, file, dd, memory, challenged, rounds, passed, faults>>
  BY DEF FillsRegion, MovesOn, node, PoseInv, PlaceInv
<1>2. /\ NodeInv'
      /\ \A q : Wipeable(q)' = Wipeable(q)
      /\ \A q : Offset(q)' = Offset(q)
      /\ TotalBlocks' = TotalBlocks
      /\ \A p : BlocksBefore(p)' = BlocksBefore(p)
  BY <1>1, SizesStay DEF PoseInv
<1>3. NoiseInv'
  BY <1>1, <1>2 DEF PoseInv, NoiseInv, Old
<1>4. PlaceInv'
  <2>1. wiped' = BlocksBefore(region + 1)
    <3>1. NodeInv /\ wiped = BlocksBefore(region)
      BY DEF PoseInv, PlaceInv
    <3>2. /\ Wipeable("dram") \in Nat /\ Wipeable("hbm") \in Nat
          /\ Wipeable("nvme") \in Nat
      BY <3>1, Geometry
    <3>3. CASE region = 1
      BY <1>1, <3>1, <3>2, <3>3, Geometry, Places
    <3>4. CASE region = 2
      BY <1>1, <3>1, <3>2, <3>4, Geometry, Places
    <3>5. CASE region = 3
      BY <1>1, <3>1, <3>2, <3>5, Geometry, Places
    <3> QED
      BY <1>1, <3>3, <3>4, <3>5
  <2>2. BlocksBefore(region)' = BlocksBefore(region + 1)
    BY <1>1 DEF BlocksBefore, Total, Wipeable
  <2>3. region' # 4 => 0 <= Wipeable(RegionAt(region))'
    <3>1. region' \in 1 .. 3 => RegionAt(region)' \in Regions
      BY <1>1, Places DEF RegionAt, Regions
    <3>2. \A q \in Regions : Wipeable(q) \in Nat
      BY Geometry DEF PoseInv
    <3>3. Wipeable(RegionAt(region))' = Wipeable(RegionAt(region)')
      BY <1>2
    <3> QED
      BY <1>1, <3>1, <3>2, <3>3
  <2> QED
    BY <1>1, <2>1, <2>2, <2>3 DEF PlaceInv
<1>5. RoundInv'
  BY <1>1, <1>2 DEF PoseInv, RoundInv
<1>6. HonestInv'
  <2>1. ASSUME NEW q \in Regions
        PROVE  Streamed(q)' = Streamed(q)
    <3>1. Place[q] \in 1 .. 3 /\ (Place[q] = region => q = RegionAt(region))
      BY <1>1, Places DEF Regions
    <3> QED
      BY <1>1, <1>2, <3>1 DEF Streamed
  <2>3. ASSUME NEW q \in Regions, NEW i \in 0 .. Streamed(q)' - 1, faults = 0
        PROVE  memory'[q][i] = Expected(Offset(q) + i)'
    <3>1. memory[q][i] = Expected(Offset(q) + i)
      BY <2>1, <2>3 DEF PoseInv, HonestInv
    <3>2. Expected(Offset(q) + i)' = Expected(Offset(q) + i)
      BY <1>1, <1>2 DEF Expected
    <3> QED
      BY <1>1, <3>1, <3>2
  <2> QED
    BY <1>1, <2>3 DEF PoseInv, HonestInv
<1>7. HeldInv'
  BY <1>1 DEF PoseInv, RoundInv, HeldInv
<1> QED
  BY <1>2, <1>3, <1>4, <1>5, <1>6, <1>7 DEF PoseInv

\* Once all regions are filled each one has been streamed to its end.
LEMMA AllStreamed ==
  ASSUME PoseInv, region = 4, NEW r \in Regions
  PROVE  Streamed(r) = Wipeable(r)
<1>1. Place[r] < 4
  BY Places DEF Regions
<1> QED
  BY <1>1 DEF Streamed

\* A block of an honest prover is answered as the Verifier expects.
LEMMA HonestAnswers ==
  ASSUME PoseInv, region = 4, faults = 0, NEW i \in 0 .. TotalBlocks - 1
  PROVE  VerifyResponse(i)
<1>1. PICK r \in Regions :
        /\ i - Offset(r) \in 0 .. Wipeable(r) - 1
        /\ Respond(i) = memory[r][i - Offset(r)]
  BY SameBlock DEF PoseInv
<1>2. memory[r][i - Offset(r)] = Expected(Offset(r) + (i - Offset(r)))
  BY <1>1, AllStreamed DEF PoseInv, HonestInv
<1>3. /\ r \in {"dram", "hbm", "nvme"} /\ Wipeable("dram") \in Nat
      /\ Wipeable("hbm") \in Nat /\ NodeInv
  BY Geometry DEF PoseInv
<1>4. Offset(r) \in Nat
  BY <1>3, Geometry
<1>5. Offset(r) + (i - Offset(r)) = i
  BY <1>4
<1> QED
  BY <1>1, <1>2, <1>5 DEF VerifyResponse

LEMMA ChallengeStep ==
  ASSUME PoseAssumption, PoseInv,
         NEW i \in 0 .. TotalBlocks - 1, Challenge(i)
  PROVE  PoseInv'
<1>1. /\ phase = "challenge" /\ rounds < Rounds
      /\ rounds' = rounds + 1
      /\ challenged' = challenged \cup {i}
      /\ passed' = IF VerifyResponse(i) THEN passed + 1 ELSE passed
      /\ UNCHANGED <<free, used, how, phase, file, dd, memory, region, filled, wiped, faults>>
  BY DEF Challenge, node
<1>2. /\ NodeInv'
      /\ \A q : Wipeable(q)' = Wipeable(q)
      /\ \A q : Offset(q)' = Offset(q)
      /\ TotalBlocks' = TotalBlocks
      /\ \A p : BlocksBefore(p)' = BlocksBefore(p)
  BY <1>1, SizesStay DEF PoseInv
<1>3. NoiseInv'
  BY <1>1, <1>2 DEF PoseInv, NoiseInv, Old
<1>4. PlaceInv'
  BY <1>1, <1>2 DEF PoseInv, PlaceInv, RegionAt
<1>5. Rounds \in Nat /\ rounds \in Nat /\ passed \in 0 .. rounds
  BY DEF PoseAssumption, PoseInv, RoundInv
<1>6. RoundInv'
  BY <1>1, <1>2, <1>5 DEF PoseInv, RoundInv
<1>7. HonestInv'
  <2>1. faults = 0 => passed' = rounds'
    BY <1>1, <1>5, HonestAnswers DEF PoseInv, PlaceInv, HonestInv
  <2>2. ASSUME NEW q \in Regions, NEW j \in 0 .. Streamed(q)' - 1, faults = 0
        PROVE  memory'[q][j] = Expected(Offset(q) + j)'
    <3>1. Streamed(q)' = Streamed(q)
      BY <1>1, <1>2 DEF Streamed
    <3>2. memory[q][j] = Expected(Offset(q) + j)
      BY <2>2, <3>1 DEF PoseInv, HonestInv
    <3>3. Expected(Offset(q) + j)' = Expected(Offset(q) + j)
      BY <1>1, <1>2 DEF Expected
    <3> QED
      BY <1>1, <3>2, <3>3
  <2> QED
    BY <1>1, <2>1, <2>2 DEF HonestInv
<1>8. HeldInv'
  <2>1. SUFFICES ASSUME passed' = rounds', NEW j \in challenged'
                 PROVE  VerifyResponse(j)'
    BY DEF HeldInv
  <2>2. passed = rounds /\ VerifyResponse(i)
    BY <1>1, <1>5, <2>1
  <2>3. VerifyResponse(j)
    BY <1>1, <2>1, <2>2 DEF PoseInv, HeldInv
  <2>4. Respond(j)' = Respond(j)
    BY <1>1, <1>2 DEF Respond
  <2>5. Expected(j)' = Expected(j)
    BY <1>1 DEF Expected
  <2> QED
    BY <2>3, <2>4, <2>5 DEF VerifyResponse
<1> QED
  BY <1>2, <1>3, <1>4, <1>6, <1>7, <1>8 DEF PoseInv

\* The end of a run, and a step that changes nothing.
LEMMA EndStep ==
  ASSUME PoseInv, Returns \/ Raises \/ UNCHANGED poseVars
  PROVE  PoseInv'
<1>1. /\ UNCHANGED <<free, used, how, file, dd, memory, region, filled, wiped, challenged,
                     rounds, passed, faults>>
      /\ phase' \in {phase, "done", "raised"}
      /\ phase' = "done" => phase = "done" \/ (phase = "challenge" /\ rounds = Rounds)
  BY DEF Returns, Raises, poseVars, node
<1>2. /\ NodeInv'
      /\ \A q : Wipeable(q)' = Wipeable(q)
      /\ \A q : Offset(q)' = Offset(q)
      /\ TotalBlocks' = TotalBlocks
      /\ \A p : BlocksBefore(p)' = BlocksBefore(p)
  BY <1>1, SizesStay DEF PoseInv
<1>3. NoiseInv'
  BY <1>1, <1>2 DEF PoseInv, NoiseInv, Old
<1>4. PlaceInv'
  BY <1>1, <1>2 DEF PoseInv, PlaceInv, RegionAt
<1>5. RoundInv'
  BY <1>1, <1>2 DEF PoseInv, RoundInv
<1>6. \A j : Expected(j)' = Expected(j)
  BY <1>1 DEF Expected
<1>7. HonestInv'
  <2>1. ASSUME NEW q \in Regions, NEW j \in 0 .. Streamed(q)' - 1, faults = 0
        PROVE  memory'[q][j] = Expected(Offset(q) + j)'
    <3>1. Streamed(q)' = Streamed(q)
      BY <1>1, <1>2 DEF Streamed
    <3>2. memory[q][j] = Expected(Offset(q) + j)
      BY <2>1, <3>1 DEF PoseInv, HonestInv
    <3>3. Expected(Offset(q) + j)' = Expected(Offset(q) + j)
      BY <1>1, <1>2 DEF Expected
    <3> QED
      BY <1>1, <3>2, <3>3
  <2> QED
    BY <1>1, <2>1 DEF PoseInv, HonestInv
<1>8. HeldInv'
  <2>1. \A j : Respond(j)' = Respond(j)
    BY <1>1, <1>2 DEF Respond
  <2> QED
    BY <1>1, <1>6, <2>1 DEF PoseInv, HeldInv, VerifyResponse
<1> QED
  BY <1>2, <1>3, <1>4, <1>5, <1>7, <1>8 DEF PoseInv

LEMMA PoseStep ==
  ASSUME PoseAssumption, PoseInv, [PoseNext]_(poseVars)
  PROVE  PoseInv'
<1>1. CASE PregenUrandom
  BY <1>1, PregenStep
<1>2. CASE \E stored \in 0 .. Chunk : FillsChunk(stored)
  BY <1>2, FillStep
<1>3. CASE FillsRegion
  BY <1>3, MoveStep
<1>4. CASE \E i \in 0 .. TotalBlocks - 1 : Challenge(i)
  BY <1>4, ChallengeStep
<1>5. CASE Returns \/ Raises \/ UNCHANGED poseVars
  BY <1>5, EndStep
<1> QED
  BY <1>1, <1>2, <1>3, <1>4, <1>5 DEF PoseNext, RunProtocol

LEMMA PoseInvariant == PoseSpec => []PoseInv
<1>1. PoseInit => PoseInv
  BY PoseAssumption, StartsInPoseInv
<1>2. PoseInv /\ [PoseNext]_(poseVars) => PoseInv'
  BY PoseAssumption, PoseStep
<1> QED
  BY <1>1, <1>2, PTL DEF PoseSpec

\* The state of a run is well formed for any sizes, and the report never
\* claims more blocks than the node has.  (protocol.py run_protocol,
\* report.py generate_report)
THEOREM PoseTypeCorrect == PoseSpec => []PoseTypeOK
<1>1. ASSUME PoseInv PROVE PoseTypeOK
  <2>1. NodeInv /\ NoiseInv /\ PlaceInv /\ RoundInv
    BY <1>1 DEF PoseInv
  <2>2. \A r \in Regions : Wipeable(r) \in Nat
    BY <2>1, Geometry
  <2>3. filled \in 0 .. Wipeable(RegionAt(IF region = 4 THEN 3 ELSE region))
    <3>1. RegionAt(3) \in Regions
      BY Places DEF Regions
    <3> QED
      BY <2>1, <2>2, <3>1, SMTT(30) DEF PlaceInv
  <2>4. Report.wiped + Report.reserved <= Report.total
    <3>1. \A r \in Regions : free[r] \in Nat /\ used[r] \in Nat
      BY <2>1 DEF NodeInv
    <3>2. wiped <= TotalBlocks /\ wiped \in Nat
      <4>1. /\ Wipeable("dram") \in Nat /\ Wipeable("hbm") \in Nat
            /\ Wipeable("nvme") \in Nat
        BY <2>1, Geometry
      <4>2. region \in {1, 2, 3, 4} /\ wiped = BlocksBefore(region)
        BY <2>1 DEF PlaceInv
      <4> QED
        BY <2>1, <4>1, <4>2, Geometry
    <3>3. ReportedTotal = Total(Reserved) + TotalBlocks
      <4>1. TotalBlocks = Wipeable("dram") + Wipeable("hbm") + Wipeable("nvme")
        BY <2>1, Geometry
      <4> QED
        BY <2>2, <3>1, <4>1
           DEF ReportedTotal, Total, Reserved, Regions
    <3>4. Total(Reserved) \in Int
      BY <2>2, <3>1 DEF Total, Reserved, Regions
    <3>5. TotalBlocks \in Nat
      BY <2>1, <2>2, Geometry
    <3>6. wiped + Total(Reserved) <= ReportedTotal
      BY <3>2, <3>3, <3>4, <3>5
    <3> QED
      BY <3>6 DEF Report
  <2> QED
    BY <2>1, <2>3, <2>4 DEF NoiseInv, PlaceInv, RoundInv, PoseTypeOK
<1> QED
  BY <1>1, PoseInvariant, PTL

\* A prover that stored everything passes with every block of every region
\* overwritten, whichever way the noise was made and for any sizes and chunk.
\* (prover.py, noise.py, verifier.py)
THEOREM HonestProverPasses == PoseSpec => []HonestPasses
<1>1. ASSUME PoseInv PROVE HonestPasses
  <2>1. SUFFICES ASSUME phase = "done", faults = 0
                 PROVE  /\ Report.passed
                        /\ Report.wiped = TotalBlocks
                        /\ \A r \in Regions : \A i \in DOMAIN memory[r] :
                               memory[r][i] # Old
    BY DEF HonestPasses
  <2>2. NodeInv /\ NoiseInv /\ PlaceInv /\ RoundInv /\ HonestInv
    BY <1>1 DEF PoseInv
  <2>3. region = 4 /\ rounds = Rounds /\ passed = rounds /\ wiped = TotalBlocks
    BY <2>1, <2>2, Geometry DEF PlaceInv, RoundInv, HonestInv
  <2>4. ASSUME NEW r \in Regions, NEW i \in DOMAIN memory[r]
        PROVE  memory[r][i] # Old
    <3>1. i \in 0 .. Wipeable(r) - 1
      BY <2>2 DEF NoiseInv
    <3>2. memory[r][i] = Expected(Offset(r) + i)
      BY <1>1, <2>1, <2>2, <2>3, <3>1, AllStreamed DEF HonestInv
    <3>3. /\ r \in {"dram", "hbm", "nvme"} /\ Wipeable("dram") \in Nat
          /\ Wipeable("hbm") \in Nat /\ Wipeable("nvme") \in Nat
      BY <2>2, Geometry
    <3>4. Offset(r) + i \in 0 .. TotalBlocks - 1
      BY <2>2, <3>1, <3>3, Geometry
    <3> QED
      BY PoseAssumption, <2>2, <3>2, <3>4, NoiseIsNew
  <2> QED
    BY <2>3, <2>4 DEF Report
<1> QED
  BY <1>1, PoseInvariant, PTL

\* A run that passes found its noise in every block it asked for, where the
\* Verifier's map has the block.  (verifier.py Verifier.verify, memmap.py)
THEOREM PassedRunIsHeld == PoseSpec => []PassedIsHeld
<1>1. ASSUME PoseInv PROVE PassedIsHeld
  <2>1. SUFFICES ASSUME phase = "done", passed = Rounds, NEW i \in challenged
                 PROVE  memory[Resolve(i)[1]][Resolve(i)[2]] = Expected(i)
    BY DEF PassedIsHeld, Report
  <2>2. NodeInv /\ RoundInv /\ HeldInv
    BY <1>1 DEF PoseInv
  <2>3. i \in 0 .. TotalBlocks - 1 /\ VerifyResponse(i)
    BY <2>1, <2>2 DEF RoundInv, HeldInv
  <2>4. memory[Resolve(i)[1]][Resolve(i)[2]] = Respond(i)
    BY <2>2, <2>3, SameBlock
  <2> QED
    BY <2>3, <2>4 DEF VerifyResponse
<1> QED
  BY <1>1, PoseInvariant, PTL

=============================================================================
