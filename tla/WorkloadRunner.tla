--------------------------- MODULE WorkloadRunner ---------------------------
(***************************************************************************)
(* The WorkloadRunner of proverdet/workload_runner.py under the handlers   *)
(* /workload/start and /workload/stop of prover/main.py, and the workloads *)
(* of demos/prover-verifier/scripts/workloads.                             *)
(*                                                                         *)
(* Each request is a thread, and so is each workload started.  start()     *)
(* works under the runner's lock; stop() takes the workload out of the     *)
(* runner under the lock and sets its event, joins it and reads its totals *)
(* after.  One unit of FLOPs is one prompt's inference; a workload with    *)
(* gradient steps does another unit that it does not claim.                *)
(***************************************************************************)
EXTENDS Naturals, Sequences

CONSTANTS
    Starters,    \* requests to /workload/start
    Stoppers,    \* requests to /workload/stop
    Prompts,     \* prompts of a workload
    Kinds,       \* the kinds of workload started
    MaxRuns      \* bound: workloads ever started

ASSUME RunnerAssumption ==
    /\ Prompts \in Nat
    /\ Kinds \subseteq {"benign", "loading", "inference", "training"}
    /\ MaxRuns \in Nat

VARIABLES
    current,  \* _thread, _stop_event, _current_workload: index into run, 0 for None
    run,      \* every workload started
    claimed,  \* sum of claimed_flops over recorded_tasks
    starter,  \* where each start request is
    stopper   \* where each stop request is, and its locals

vars == <<current, run, claimed, starter, stopper>>

-----------------------------------------------------------------------------

Runs == 1..MaxRuns

(* Kinds: "benign" and "loading" (lora_loading) keep no FLOPs counter;      *)
(* "inference" and "training" are mixed_lora without and with gradient      *)
(* steps.  pc: at the top of the loop over prompts, before record_task, in  *)
(* the gradient steps, or ended; told: its stop_event is set; observed: its *)
(* observed_flops_total, 0 if it has none; own: what it has claimed so far  *)
(* (for the invariant of the proofs).                                       *)
Run == [kind : Kinds, pc : {"loop", "record", "gradient", "ended"}, told : BOOLEAN,
        prompts : 0..Prompts, observed : 0..2 * Prompts, own : 0..Prompts]

Alive(r) == run[r].pc # "ended"

(* joined: the join returned because the workload had ended.                *)
Stopper == [pc : {"idle", "take", "set", "join", "observe", "total", "replied"},
            run : 0..MaxRuns, wasRunning : BOOLEAN, joined : BOOLEAN,
            observed : 0..2 * Prompts, claimed : Nat]

Init ==
    /\ current = 0
    /\ run = <<>>
    /\ claimed = 0
    /\ starter = [s \in Starters |-> "idle"]
    /\ stopper = [s \in Stoppers |-> [pc |-> "idle", run |-> 0, wasRunning |-> FALSE,
                                      joined |-> FALSE, observed |-> 0, claimed |-> 0]]

-----------------------------------------------------------------------------
(* POST /workload/start. *)

(* is_running, and the same test in start().  Mutant: whether the thread    *)
(* is alive is not asked.                                                   *)
NeverRunning == FALSE
IsRunning == current # 0 /\ Alive(current)

(* start() under the lock: 409 if a workload runs, else a new thread.       *)
Start(s) ==
    /\ starter[s] = "idle"
    /\ \/ /\ IsRunning
          /\ starter' = [starter EXCEPT ![s] = "conflict"]
          /\ UNCHANGED <<current, run>>
       \/ /\ ~IsRunning
          /\ Len(run) < MaxRuns
          /\ starter' = [starter EXCEPT ![s] = "started"]
          /\ \E kind \in Kinds :
                run' = Append(run, [kind |-> kind, pc |-> "loop", told |-> FALSE,
                                    prompts |-> 0, observed |-> 0, own |-> 0])
          /\ current' = Len(run')
    /\ UNCHANGED <<claimed, stopper>>

-----------------------------------------------------------------------------
(* A workload thread. *)

Becomes(r, w) == run' = [run EXCEPT ![r] = w]

Counts(r) == run[r].kind \in {"inference", "training"}

(* The next prompt, unless the event is set or there is none: frames are    *)
(* published and the inference is counted, before the task is recorded.     *)
Prompt(r) == [run[r] EXCEPT !.pc = "record", !.prompts = @ + 1,
                            !.observed = IF Counts(r) THEN @ + 1 ELSE @]

NextPrompt(r) ==
    /\ run[r].pc = "loop"
    /\ Becomes(r, IF run[r].told \/ run[r].prompts = Prompts
                  THEN [run[r] EXCEPT !.pc = "ended"] ELSE Prompt(r))
    /\ UNCHANGED <<current, claimed, starter, stopper>>

(* lora_loading's download raises, and the thread ends with the exception.  *)
DownloadFails(r) ==
    /\ run[r].pc = "loop" /\ run[r].kind = "loading" /\ run[r].prompts = 0
    /\ Becomes(r, [run[r] EXCEPT !.pc = "ended"])
    /\ UNCHANGED <<current, claimed, starter, stopper>>

(* Mutant of RecordTask: a stop that arrives after the work is obeyed       *)
(* before the work is declared.                                             *)
Recorded(r) == [run[r] EXCEPT !.own = @ + 1,
                              !.pc = IF run[r].kind = "training" THEN "gradient" ELSE "loop"]

RecordTaskUnlessTold(r) ==
    /\ run[r].pc = "record"
    /\ claimed' = IF run[r].told THEN claimed ELSE claimed + 1
    /\ Becomes(r, IF run[r].told THEN [run[r] EXCEPT !.pc = "ended"] ELSE Recorded(r))
    /\ UNCHANGED <<current, starter, stopper>>

RecordTask(r) ==
    /\ run[r].pc = "record"
    /\ claimed' = claimed + 1
    /\ Becomes(r, Recorded(r))
    /\ UNCHANGED <<current, starter, stopper>>

(* The gradient steps of one prompt, which no task declares.                *)
GradientSteps(r) ==
    /\ run[r].pc = "gradient"
    /\ Becomes(r, IF run[r].told THEN [run[r] EXCEPT !.pc = "ended"]
                  ELSE [run[r] EXCEPT !.observed = @ + 1, !.pc = "loop"])
    /\ UNCHANGED <<current, claimed, starter, stopper>>

-----------------------------------------------------------------------------
(* POST /workload/stop. *)

StopAsks(s) ==
    /\ stopper[s].pc = "idle"
    /\ stopper' = [stopper EXCEPT ![s] = [@ EXCEPT !.pc = "take", !.wasRunning = IsRunning]]
    /\ UNCHANGED <<current, run, claimed, starter>>

(* Under the lock the runner forgets the workload.                          *)
StopTakes(s) ==
    /\ stopper[s].pc = "take"
    /\ stopper' = [stopper EXCEPT ![s] = [@ EXCEPT !.pc = "set", !.run = current]]
    /\ current' = 0
    /\ UNCHANGED <<run, claimed, starter>>

Held(s) == stopper[s].run

StopSets(s) ==
    /\ stopper[s].pc = "set"
    /\ stopper' = [stopper EXCEPT ![s] = [@ EXCEPT !.pc = "join"]]
    /\ run' = IF Held(s) = 0 THEN run ELSE [run EXCEPT ![Held(s)] = [@ EXCEPT !.told = TRUE]]
    /\ UNCHANGED <<current, claimed, starter>>

(* join(timeout=10) returns when the workload has ended, or in any case.    *)
StopJoins(s) ==
    /\ stopper[s].pc = "join"
    /\ stopper' = [stopper EXCEPT ![s] = [@ EXCEPT !.pc = "observe",
                                                   !.joined = Held(s) # 0 /\ ~Alive(Held(s))]]
    /\ UNCHANGED <<current, run, claimed, starter>>

(* observed_flops_total is read off the workload, then task_totals().       *)
StopObserves(s) ==
    /\ stopper[s].pc = "observe"
    /\ stopper' = [stopper EXCEPT ![s] = [@ EXCEPT !.pc = "total", !.observed =
                       IF Held(s) = 0 THEN 0 ELSE run[Held(s)].observed]]
    /\ UNCHANGED <<current, run, claimed, starter>>

StopTotals(s) ==
    /\ stopper[s].pc = "total"
    /\ stopper' = [stopper EXCEPT ![s] = [@ EXCEPT !.pc = "replied", !.claimed = claimed]]
    /\ UNCHANGED <<current, run, claimed, starter>>

-----------------------------------------------------------------------------

Workload(r) == NextPrompt(r) \/ DownloadFails(r) \/ RecordTask(r) \/ GradientSteps(r)

StopStep(s) ==
    StopTakes(s) \/ StopSets(s) \/ StopJoins(s) \/ StopObserves(s) \/ StopTotals(s)

Next ==
    \/ \E s \in Starters : Start(s)
    \/ \E r \in DOMAIN run : Workload(r)
    \/ \E s \in Stoppers : StopAsks(s) \/ StopStep(s)

Spec == Init /\ [][Next]_vars
-----------------------------------------------------------------------------
(* Properties. *)

TypeOK ==
    /\ run \in Seq(Run)
    /\ Len(run) <= MaxRuns
    /\ current \in {0, Len(run)}
    /\ claimed \in Nat
    /\ starter \in [Starters -> {"idle", "started", "conflict"}]
    /\ stopper \in [Stoppers -> Stopper]

(* A workload that runs although the runner no longer names it has been     *)
(* told to stop, or a stop request is about to tell it: no workload is      *)
(* leaked by starts and stops that overlap.                                 *)
StrayIsTold ==
    \A r \in DOMAIN run :
        Alive(r) /\ r # current =>
            run[r].told \/ \E s \in Stoppers : stopper[s].pc = "set" /\ stopper[s].run = r

(* Of several stop requests at once, one reports a workload's FLOPs.        *)
ReportedOnce ==
    \A s, t \in Stoppers :
        stopper[s].run = stopper[t].run /\ stopper[s].run # 0 => s = t

(* A stop that saw its workload end reports no more observed FLOPs than     *)
(* claimed ones if the workload did only what it declares, wherever the     *)
(* event caught it: an honest workload does not fail the compute budget.    *)
HonestIsNotAccused ==
    \A s \in Stoppers :
        /\ stopper[s].pc = "replied" /\ stopper[s].joined
        /\ run[stopper[s].run].kind # "training"
        => stopper[s].observed <= stopper[s].claimed
=============================================================================
