------------------------ MODULE InferenceServerProofs ------------------------
(***************************************************************************)
(* Proofs about InferenceServer for every set of handlers and manifests    *)
(* and every bound: its type invariant, the lock discipline, that there is *)
(* one engine at a time, that it runs as declared, that applied_at tells   *)
(* the truth about the running process, and that it implements the engine  *)
(* service a client is promised (VllmService).                             *)
(***************************************************************************)
EXTENDS InferenceServer, SequenceTheorems, TLAPS

(* What boot has established by each point of the main thread.              *)
BootInv ==
    /\ mainPc = "boot" => /\ proc = <<>>
                          /\ appliedAt = 0
                          /\ manifest = BootManifest
    /\ mainPc = "boot_await" => /\ proc # <<>>
                                /\ manifest = BootManifest
                                /\ proc[vllmProc].manifest = BootManifest
                                /\ environ = BootManifest
                                /\ appliedAt = 0
    /\ mainPc \in {"boot", "boot_await"} => \A h \in Handlers : pc[h] = "idle"
    /\ mainPc \notin {"boot", "boot_await", "exited"} => captureLog \in Launches

(* What a proxied request carries, which makes its log entry well formed.   *)
ProxyInv ==
    \A h \in Handlers :
        /\ pc[h] \in {"proxying", "append"} => req[h].log \in Launches /\ req[h].seq \in 1..MaxSeq
        /\ pc[h] = "append" => \E p \in Launches : req[h].served = <<p>>

(* A lock holder between stop and Popen has no engine running, and nobody   *)
(* but the latest launch is ever alive.                                     *)
EngineInv ==
    /\ \A p \in DOMAIN proc : Alive(p) => p = vllmProc
    /\ \A h \in Handlers : pc[h] = "launch" => ~Alive(vllmProc)

(* The holder's environment survives from _set_deterministic_env to Popen.  *)
EnvInv ==
    /\ LaunchedAsDeclared
    /\ \A h \in Handlers : pc[h] \in {"artifacts", "stop", "launch"} => environ = req[h].manifest

(* After Popen the holder's manifest is the latest launch's, the stamp is   *)
(* older until it is set, and it is set only after the manifest.            *)
AppliedInv ==
    /\ AppliedIsRunning
    /\ \A h \in Handlers :
          /\ pc[h] \in {"await", "set_manifest", "set_applied", "set_capture", "store_capture", "release"}
             => proc[vllmProc].manifest = req[h].manifest
          /\ pc[h] \in {"await", "set_manifest"} => appliedAt < vllmProc
          /\ pc[h] \in {"set_applied", "set_capture", "store_capture", "release"} => manifest = req[h].manifest

(* The bound on launches, checked on arrival, still holds at Popen.         *)
BoundInv ==
    \A h \in Handlers :
        pc[h] \in {"checks", "artifacts", "stop", "launch"} => Len(proc) < MaxLaunch

(* Only POST /manifest goes through an application.                         *)
EndpointInv ==
    \A h \in Handlers :
        pc[h] \in Applying \cup {"respond", "respond_rest"} => req[h].endpoint = "/manifest"

(* A /run that began on the process there is now, its manifest applied.     *)
Quiet(h) ==
    /\ pc[h] \in {"calling", "replied"} /\ req[h].endpoint = "/run"
    /\ req[h].began = vllmProc /\ req[h].at = req[h].began

(* Its snapshot is still the manifest of that process, which alone answered *)
(* it; and no request began on a process of the future.                     *)
RunInv ==
    \A h \in Handlers :
        /\ req[h].began <= vllmProc
        /\ Quiet(h) =>
              /\ vllmProc # 0 /\ appliedAt = vllmProc
              /\ proc[vllmProc].manifest = req[h].runId
              /\ \A i \in DOMAIN req[h].served : req[h].served[i] \in {0, vllmProc}
              /\ pc[h] = "replied" => req[h].digest = req[h].runId

(* The capture log is of an older launch until the holder replaces it, when *)
(* the stamp is up to date.                                                 *)
CaptureInv ==
    /\ mainPc \in {"boot", "boot_await"} => captureFile = <<>>
    /\ \A h \in Handlers :
          /\ pc[h] \in {"await", "set_manifest", "set_applied", "set_capture", "store_capture"}
             => captureLog < vllmProc
          /\ pc[h] \in {"set_capture", "store_capture", "release"} => appliedAt = vllmProc

(* A proxied request's log is at most as new as the engine there is, and as *)
(* the engine that answered it.                                             *)
AnswerInv ==
    /\ CaptureMatchesEngine
    /\ \A h \in Handlers :
          /\ pc[h] = "proxying" => req[h].log <= vllmProc
          /\ pc[h] = "append" => req[h].log <= req[h].served[1]

IInv ==
    /\ TypeOK /\ BootInv /\ BoundInv /\ ProxyInv /\ LockDiscipline /\ EngineInv /\ EnvInv /\ AppliedInv
    /\ EndpointInv /\ RunInv /\ CaptureInv /\ AnswerInv

LEMMA IdleType == Idle \in Request
  BY ServerAssumption DEF Idle, Request

(* Changing the status of a process keeps the sequence of processes.        *)
LEMMA SetStatusType ==
  ASSUME TypeOK, NEW p \in DOMAIN proc, NEW status \in Statuses, SetStatus(p, status)
  PROVE  /\ proc' \in Seq(Process)
         /\ Len(proc') = Len(proc)
         /\ proc'[p].status = status
         /\ \A q \in DOMAIN proc : /\ proc'[q].manifest = proc[q].manifest
                                   /\ proc'[q].env = proc[q].env
                                   /\ q # p => proc'[q] = proc[q]
<1> DEFINE new == [proc[p] EXCEPT !.status = status]
<1>1. proc \in Seq(Process) /\ DOMAIN proc = 1..Len(proc)
  BY LenProperties DEF TypeOK
<1>2. proc[p] \in Process
  BY <1>1, ElementOfSeq
<1>3. /\ new \in Process
      /\ new.status = status
      /\ new.manifest = proc[p].manifest
      /\ new.env = proc[p].env
  BY <1>2 DEF Process
<1>4. proc' = [proc EXCEPT ![p] = new]
  BY <1>1 DEF SetStatus
<1>. HIDE DEF new
<1>5. /\ [proc EXCEPT ![p] = new] \in Seq(Process)
      /\ Len([proc EXCEPT ![p] = new]) = Len(proc)
      /\ \A q \in 1..Len(proc) : [proc EXCEPT ![p] = new][q] = IF q = p THEN new ELSE proc[q]
  BY <1>1, <1>3, ExceptSeq
<1>. QED
  BY <1>1, <1>3, <1>4, <1>5

(* A handler's locals after the assignments the handlers make to them.      *)
LEMMA RequestUpdates ==
  ASSUME NEW r \in Request
  PROVE  /\ \A m \in Manifests : [r EXCEPT !.digest = m] \in Request
         /\ \A m \in Manifests, n \in 0..MaxLaunch : [r EXCEPT !.runId = m, !.at = n] \in Request
         /\ \A n \in 0..MaxLaunch : /\ [r EXCEPT !.served = Append(@, n)] \in Request
                                    /\ [r EXCEPT !.served = <<n>>] \in Request
<1>1. \A m \in Manifests : [r EXCEPT !.digest = m] \in Request
  BY DEF Request
<1>2. \A m \in Manifests, n \in 0..MaxLaunch : [r EXCEPT !.runId = m, !.at = n] \in Request
  BY DEF Request
<1>3. \A s \in Seq(0..MaxLaunch) : [r EXCEPT !.served = s] \in Request
  BY DEF Request
<1>4. r.served \in Seq(0..MaxLaunch)
  BY DEF Request
<1>5. \A n \in 0..MaxLaunch : Append(r.served, n) \in Seq(0..MaxLaunch) /\ <<n>> \in Seq(0..MaxLaunch)
  BY <1>4, AppendProperties
<1>. QED
  BY <1>1, <1>2, <1>3, <1>5

(* The handler's own part of the state.                                     *)
LEMMA HandlerTypes ==
  ASSUME TypeOK, NEW h \in Handlers
  PROVE  /\ \A to \in HandlerPcs : [pc EXCEPT ![h] = to] \in [Handlers -> HandlerPcs]
         /\ \A r \in Request : [req EXCEPT ![h] = r] \in [Handlers -> Request]
  BY DEF TypeOK

LEMMA EndTypes ==
  ASSUME TypeOK, NEW h \in Handlers, End(h)
  PROVE  pc' \in [Handlers -> HandlerPcs] /\ req' \in [Handlers -> Request]
  BY HandlerTypes, IdleType DEF End, HandlerPcs

LEMMA StepTypes ==
  ASSUME TypeOK, NEW h \in Handlers, NEW from, NEW to \in HandlerPcs, Step(h, from, to)
  PROVE  pc' \in [Handlers -> HandlerPcs]
  BY HandlerTypes DEF Step

LEMMA LaunchTypes ==
  ASSUME TypeOK, NEW m \in Manifests, NEW e \in Manifests
  PROVE  LET new == [status |-> "loading", manifest |-> m, env |-> e]
         IN  /\ new \in Process
             /\ Append(proc, new) \in Seq(Process)
             /\ Len(Append(proc, new)) = Len(proc) + 1
             /\ \A p \in DOMAIN proc : Append(proc, new)[p] = proc[p]
             /\ Append(proc, new)[Len(proc) + 1] = new
<1> DEFINE new == [status |-> "loading", manifest |-> m, env |-> e]
<1>1. new \in Process
  BY DEF Process, Statuses
<1>. QED
  BY <1>1, AppendProperties, LenProperties DEF TypeOK
(* A handler's locals when its request arrives.                             *)
LEMMA StartedTypes ==
  ASSUME NEW e \in Endpoints
  PROVE  /\ \A m \in Manifests : [Idle EXCEPT !.endpoint = e, !.manifest = m] \in Request
         /\ \A m \in Manifests, a, b \in 0..MaxLaunch :
               [Idle EXCEPT !.endpoint = e, !.runId = m, !.at = a, !.began = b] \in Request
         /\ \A a \in 0..MaxLaunch, n \in 0..MaxSeq :
               [Idle EXCEPT !.endpoint = e, !.log = a, !.seq = n] \in Request
<1>1. <<>> \in Seq(0..MaxLaunch) /\ 0 \in 0..MaxLaunch /\ 0 \in 0..MaxSeq /\ BootManifest \in Manifests
  BY ServerAssumption
<1>2. \A m \in Manifests : [Idle EXCEPT !.endpoint = e, !.manifest = m] \in Request
  BY <1>1 DEF Idle, Request
<1>3. \A m \in Manifests, a, b \in 0..MaxLaunch :
         [Idle EXCEPT !.endpoint = e, !.runId = m, !.at = a, !.began = b] \in Request
  BY <1>1 DEF Idle, Request
<1>4. \A a \in 0..MaxLaunch, n \in 0..MaxSeq :
         [Idle EXCEPT !.endpoint = e, !.log = a, !.seq = n] \in Request
  BY <1>1 DEF Idle, Request
<1>. QED
  BY <1>2, <1>3, <1>4

(* While a handler thread has a request, boot is over and vLLM was launched. *)
LEMMA Serving ==
  ASSUME TypeOK, BootInv, NEW h \in Handlers, Running, pc[h] # "idle"
  PROVE  /\ mainPc \notin {"boot", "boot_await", "exited"}
         /\ captureLog \in Launches
         /\ vllmProc \in DOMAIN proc
<1>1. mainPc \notin {"boot", "boot_await", "exited"} /\ captureLog \in Launches
  BY DEF BootInv, Running
<1>2. DOMAIN proc = 1..Len(proc) /\ Len(proc) \in Nat
  BY LenProperties DEF TypeOK
<1>. QED
  BY <1>1, <1>2 DEF TypeOK, Launches

(* Every step keeps the type invariant.                                     *)
LEMMA TypeStep ==
  ASSUME TypeOK, BootInv, BoundInv, ProxyInv, [Next]_vars
  PROVE  TypeOK'
<1>0. /\ Len(proc) \in Nat
      /\ DOMAIN proc = 1..Len(proc)
      /\ \A p \in DOMAIN proc : proc[p] \in Process
  BY LenProperties, ElementOfSeq DEF TypeOK
<1>a. /\ proc' \in Seq(Process) /\ Len(proc') = Len(proc)
      /\ UNCHANGED <<stateVars, vllmProc, environ, captureVars, mainWait>>
      /\ lock' \in Handlers \cup {NoHandler}
      /\ pc' \in [Handlers -> HandlerPcs] /\ req' \in [Handlers -> Request]
      /\ mainPc' \in MainPcs
      => TypeOK'
  BY DEF TypeOK, stateVars, captureVars
<1>1. CASE BootRejects \/ BootFails
  BY <1>1 DEF BootRejects, BootFails, TypeOK, stateVars, procVars, captureVars, MainPcs
<1>2. CASE BootLaunch
  <2>1. environ' \in Manifests /\ MaxLaunch \in Nat \ {0}
    BY <1>2, ServerAssumption DEF BootLaunch
  <2>2. /\ proc' = <<[status |-> "loading", manifest |-> BootManifest, env |-> environ']>>
        /\ [status |-> "loading", manifest |-> BootManifest, env |-> environ'] \in Process
    BY <1>2, <2>1, ServerAssumption DEF BootLaunch, Process, Statuses
  <2>3. proc' \in Seq(Process) /\ Len(proc') = 1
    BY <2>2
  <2>4. appliedAt = 0 /\ captureLog = 0 /\ mainWait = 0
    BY <1>2, <1>0 DEF BootLaunch, BootInv, TypeOK
  <2>. QED
    BY <1>2, <2>1, <2>3, <2>4 DEF BootLaunch, TypeOK, stateVars, captureVars, MainPcs
<1>3. CASE BootReady
  BY <1>3, <1>0 DEF BootReady, TypeOK, procVars, MainPcs, BootInv
<1>4. CASE BootTimesOut
  <2>1. vllmProc \in DOMAIN proc
    BY <1>4, <1>0 DEF BootTimesOut, BootInv, TypeOK
  <2>2. proc' \in Seq(Process) /\ Len(proc') = Len(proc)
    BY <1>4, <2>1, SetStatusType DEF BootTimesOut, Statuses, TypeOK
  <2>. QED
    BY <1>4, <2>2, <1>a DEF BootTimesOut, TypeOK, MainPcs
<1>5. ASSUME NEW p \in DOMAIN proc, VllmReady(p) \/ VllmHangs(p) \/ VllmDies(p)
      PROVE  TypeOK'
  <2>1. proc' \in Seq(Process) /\ Len(proc') = Len(proc)
    BY <1>5, SetStatusType DEF VllmReady, VllmHangs, VllmDies, Statuses
  <2>. QED
    BY <1>5, <2>1, <1>a DEF VllmReady, VllmHangs, VllmDies, TypeOK, mainVars
<1>6. CASE MainWaits \/ MainWakes \/ MainChecks \/ Exit
  BY <1>6, <1>0 DEF MainWaits, MainWakes, MainChecks, MainDecides, Exit, TypeOK, MainPcs,
                    stateVars, procVars, captureVars
<1>7. CASE Shutdown
  <2>1. vllmProc \in DOMAIN proc
    BY <1>7, <1>0 DEF Shutdown, BootInv, TypeOK, Launches
  <2>2. proc' \in Seq(Process) /\ Len(proc') = Len(proc)
    BY <1>7, <2>1, SetStatusType DEF Shutdown, Statuses, TypeOK
  <2>. QED
    BY <1>7, <2>2, <1>a DEF Shutdown, TypeOK, MainPcs
<1>8. ASSUME NEW h \in Handlers, Arrive(h) \/ ApplyStep(h) \/ ReplyStep(h)
      PROVE  TypeOK'
  <2>1. ASSUME NEW m \in Manifests, PostManifest(h, m) PROVE TypeOK'
    <3>1. [Idle EXCEPT !.endpoint = "/manifest", !.manifest = m] \in Request
      BY <2>1, StartedTypes DEF PostManifest
    <3>2. req' \in [Handlers -> Request]
      BY <2>1, <3>1, HandlerTypes DEF PostManifest
    <3>3. pc' \in [Handlers -> HandlerPcs]
      BY <2>1, StepTypes DEF PostManifest, HandlerPcs, Applying
    <3>. QED
      BY <2>1, <3>2, <3>3 DEF PostManifest, TypeOK, stateVars, procVars, captureVars, mainVars
  <2>2. ASSUME NEW e, StartCalls(h, e) PROVE TypeOK'
    <3>1. [Idle EXCEPT !.endpoint = e, !.runId = manifest, !.at = appliedAt,
                       !.began = vllmProc] \in Request
      <4>1. e \in Endpoints /\ manifest \in Manifests /\ appliedAt \in 0..MaxLaunch
            /\ vllmProc \in 0..MaxLaunch
        BY <2>2, <1>0, ServerAssumption DEF StartCalls, TypeOK
      <4>. QED
        BY <4>1, StartedTypes
    <3>2. req' \in [Handlers -> Request]
      BY <2>2, <3>1, HandlerTypes DEF StartCalls
    <3>3. pc' \in [Handlers -> HandlerPcs]
      BY <2>2, StepTypes DEF StartCalls, HandlerPcs, Applying
    <3>. QED
      BY <2>2, <3>2, <3>3 DEF StartCalls, TypeOK, stateVars, procVars, captureVars, mainVars
  <2>3. ASSUME NEW e, ProxyStart(h, e) PROVE TypeOK'
    <3>1. captureLog \in Launches
      BY <2>3, <1>0 DEF ProxyStart, Accepting, BootInv
    <3>2. nextSeq'[captureLog] = nextSeq[captureLog] + 1 /\ nextSeq'[captureLog] \in 1..MaxSeq
          /\ nextSeq' \in [Launches -> 0..MaxSeq]
      BY <2>3, <3>1, ServerAssumption DEF ProxyStart, TypeOK
    <3>3. [Idle EXCEPT !.endpoint = e, !.log = captureLog, !.seq = nextSeq'[captureLog]] \in Request
      <4>1. e \in Endpoints /\ captureLog \in 0..MaxLaunch /\ nextSeq'[captureLog] \in 0..MaxSeq
        BY <2>3, <3>1, <3>2, ServerAssumption DEF ProxyStart, Launches
      <4>. QED
        BY <4>1, StartedTypes
    <3>4. req' \in [Handlers -> Request]
      BY <2>3, <3>3, HandlerTypes DEF ProxyStart
    <3>5. pc' \in [Handlers -> HandlerPcs]
      BY <2>3, StepTypes DEF ProxyStart, HandlerPcs, Applying
    <3>. QED
      BY <2>3, <3>2, <3>4, <3>5 DEF ProxyStart, TypeOK, stateVars, procVars, mainVars
  <2>4. CASE ApplyFails(h) \/ ProxyFails(h) \/ Finish(h)
    <3>1. pc' \in [Handlers -> HandlerPcs] /\ req' \in [Handlers -> Request]
      BY <2>4, EndTypes DEF ApplyFails, ProxyFails, Finish
    <3>. QED
      BY <2>4, <3>1 DEF ApplyFails, Release, ProxyFails, Finish, TypeOK,
                        stateVars, procVars, captureVars, mainVars
  <2>5. CASE ChecksPass(h) \/ ArtifactsPass(h) \/ SawHealthy(h) \/ SetManifest(h)
             \/ SetAppliedAt(h) \/ OpenCaptureLog(h) \/ StoreCaptureLog(h) \/ ReleaseLock(h)
    <3>1. pc' \in [Handlers -> HandlerPcs]
      BY <2>5, StepTypes DEF ChecksPass, ArtifactsPass, SawHealthy, SetManifest,
           SetAppliedAt, OpenCaptureLog, StoreCaptureLog, ReleaseLock, HandlerPcs, Applying
    <3>2. req[h].manifest \in Manifests
      BY DEF TypeOK, Request
    <3>3. CASE ChecksPass(h) \/ ArtifactsPass(h) \/ SawHealthy(h) \/ ReleaseLock(h)
      BY <3>3, <3>1, <3>2
      DEF ChecksPass, ArtifactsPass, SawHealthy, ReleaseLock, Release, TypeOK,
          stateVars, procVars, captureVars, mainVars
    <3>4. CASE SetManifest(h) \/ SetAppliedAt(h)
      BY <3>4, <3>1, <3>2, <1>0
      DEF SetManifest, SetAppliedAt, TypeOK, procVars, captureVars, mainVars
    <3>5. CASE OpenCaptureLog(h)
      <4>1. <<>> \in Seq(CaptureEntry)
        OBVIOUS
      <4>. QED
        BY <3>5, <3>1, <4>1, <1>0 DEF OpenCaptureLog, TypeOK, stateVars, procVars, mainVars
    <3>6. CASE StoreCaptureLog(h)
      BY <3>6, <3>1, <1>0 DEF StoreCaptureLog, TypeOK, procVars, captureVars, mainVars
    <3>. QED
      BY <2>5, <3>3, <3>4, <3>5, <3>6
  <2>6. CASE StopOld(h) \/ StopTimesOut(h)
    <3>1. vllmProc \in DOMAIN proc
      BY <2>6, <1>0, Serving DEF StopOld, StopTimesOut, Step
    <3>2. proc' \in Seq(Process) /\ Len(proc') = Len(proc)
      BY <2>6, <3>1, SetStatusType DEF StopOld, StopIfAlive, StopTimesOut, Statuses, TypeOK
    <3>3. pc' \in [Handlers -> HandlerPcs] /\ req' \in [Handlers -> Request]
      BY <2>6, StepTypes, EndTypes DEF StopOld, StopTimesOut, HandlerPcs, Applying, TypeOK
    <3>. QED
      BY <2>6, <3>2, <3>3, <1>a DEF StopOld, StopTimesOut, Release, TypeOK, mainVars
  <2>7. CASE LaunchNew(h)
    <3>1. req[h].manifest \in Manifests /\ environ \in Manifests
      BY DEF TypeOK, Request
    <3>2. proc' \in Seq(Process) /\ Len(proc') = Len(proc) + 1 /\ vllmProc' = Len(proc')
      BY <2>7, <3>1, LaunchTypes DEF LaunchNew, Popen, Launched
    <3>3. pc' \in [Handlers -> HandlerPcs]
      BY <2>7, StepTypes DEF LaunchNew, HandlerPcs, Applying
    <3>4. Len(proc) < MaxLaunch
      BY <2>7 DEF LaunchNew, Step, BoundInv
    <3>. QED
      BY <2>7, <1>0, <3>2, <3>3, <3>4, ServerAssumption DEF LaunchNew, TypeOK, stateVars, captureVars, mainVars
  <2>8. CASE RespondDigest(h) \/ RespondRest(h) \/ CallVllm(h) \/ ReplyCalls(h) \/ ProxyAnswered(h)
    <3>1. req[h] \in Request /\ appliedAt \in 0..MaxLaunch
          /\ {0} \cup DOMAIN proc \subseteq 0..MaxLaunch
      BY <1>0, ServerAssumption DEF TypeOK
    <3>2. req' \in [Handlers -> Request]
      <4>1. CASE RespondDigest(h) \/ ReplyCalls(h)
        <5>1. [req[h] EXCEPT !.digest = manifest] \in Request
          BY <3>1, RequestUpdates DEF TypeOK
        <5>2. req' = [req EXCEPT ![h] = [req[h] EXCEPT !.digest = manifest]]
          BY <4>1 DEF RespondDigest, ReplyCalls
        <5>. QED
          BY <5>1, <5>2, HandlerTypes
      <4>2. CASE RespondRest(h)
        <5>1. [req[h] EXCEPT !.runId = manifest, !.at = appliedAt] \in Request
          BY <3>1, RequestUpdates DEF TypeOK
        <5>2. req' = [req EXCEPT ![h] = [req[h] EXCEPT !.runId = manifest, !.at = appliedAt]]
          BY <4>2 DEF RespondRest, TypeOK
        <5>. QED
          BY <5>1, <5>2, HandlerTypes
      <4>3. CASE CallVllm(h)
        <5>1. PICK by \in 0..MaxLaunch : req' = [req EXCEPT ![h] = [req[h] EXCEPT !.served = Append(@, by)]]
          BY <4>3, <3>1 DEF CallVllm
        <5>2. [req[h] EXCEPT !.served = Append(@, by)] \in Request
          BY <3>1, RequestUpdates
        <5>. QED
          BY <5>1, <5>2, HandlerTypes
      <4>4. CASE ProxyAnswered(h)
        <5>1. PICK p \in 0..MaxLaunch : req' = [req EXCEPT ![h] = [req[h] EXCEPT !.served = <<p>>]]
          BY <4>4, <3>1 DEF ProxyAnswered
        <5>2. [req[h] EXCEPT !.served = <<p>>] \in Request
          BY <3>1, RequestUpdates
        <5>. QED
          BY <5>1, <5>2, HandlerTypes
      <4>. QED
        BY <2>8, <4>1, <4>2, <4>3, <4>4
    <3>3. pc' \in [Handlers -> HandlerPcs]
      BY <2>8, StepTypes DEF RespondDigest, RespondRest, CallVllm, ReplyCalls, ProxyAnswered,
                             HandlerPcs, Applying, TypeOK
    <3>. QED
      BY <2>8, <3>2, <3>3 DEF RespondDigest, RespondRest, CallVllm, ReplyCalls, ProxyAnswered,
                              TypeOK, stateVars, procVars, captureVars, mainVars
  <2>9. CASE ProxyAppend(h)
    <3>1. captureFile' \in Seq(CaptureEntry)
      <4>1. [log |-> req[h].log, seq |-> req[h].seq, by |-> req[h].served[1]] \in CaptureEntry
        BY <2>9 DEF ProxyAppend, ProxyInv, CaptureEntry
      <4>. QED
        BY <2>9, <4>1, AppendProperties DEF ProxyAppend, TypeOK
    <3>2. pc' \in [Handlers -> HandlerPcs] /\ req' \in [Handlers -> Request]
      BY <2>9, EndTypes DEF ProxyAppend
    <3>. QED
      BY <2>9, <3>1, <3>2 DEF ProxyAppend, TypeOK, stateVars, procVars, mainVars
  <2>. QED
    BY <1>8, <2>1, <2>2, <2>3, <2>4, <2>5, <2>6, <2>7, <2>8, <2>9 DEF Arrive, ApplyStep, ReplyStep
<1>9. CASE UNCHANGED vars
  BY <1>9 DEF TypeOK, vars, stateVars, procVars, captureVars, mainVars
<1>. QED
  BY <1>1, <1>2, <1>3, <1>4, <1>5, <1>6, <1>7, <1>8, <1>9 DEF Next, Boot, Vllm, Main
-----------------------------------------------------------------------------
(* What a step can change: the frame lemmas every invariant below uses.     *)

(* The actions that touch no handler thread.                                *)
Background == Boot \/ Vllm \/ Main \/ Shutdown \/ UNCHANGED vars

LEMMA BackgroundFrame ==
  ASSUME Background
  PROVE  UNCHANGED <<lock, pc, req>>
BY DEF Background, Boot, BootRejects, BootLaunch, BootReady, BootFails, BootTimesOut, Vllm, VllmReady, VllmHangs,
       VllmDies, Main, MainWaits, MainWakes, MainChecks, Exit, Shutdown, vars

LEMMA NextSplit ==
  ASSUME [Next]_vars
  PROVE  Background \/ \E h \in Handlers : Arrive(h) \/ ApplyStep(h) \/ ReplyStep(h)
BY DEF Next, Background

(* A handler's thread state changes only by its own steps.                  *)
LEMMA HandlerFrame ==
  ASSUME TypeOK, [Next]_vars, NEW h \in Handlers
  PROVE  \/ pc'[h] = pc[h] /\ req'[h] = req[h]
         \/ Arrive(h) \/ ApplyStep(h) \/ ReplyStep(h)
<1>1. ASSUME NEW g \in Handlers, g # h, Arrive(g) \/ ApplyStep(g) \/ ReplyStep(g)
      PROVE  pc'[h] = pc[h] /\ req'[h] = req[h]
  <2>0. pc \in [Handlers -> HandlerPcs] /\ req \in [Handlers -> Request]
    BY DEF TypeOK
  <2>1. CASE Arrive(g)
    BY <1>1, <2>0, <2>1 DEF Arrive, PostManifest, StartCalls, ProxyStart, Step
  <2>2. CASE ApplyStep(g)
    BY <1>1, <2>0, <2>2
    DEF ApplyStep, ApplyFails, ChecksPass, ArtifactsPass, StopOld, StopTimesOut, LaunchNew,
        SawHealthy, SetManifest, SetAppliedAt, OpenCaptureLog, StoreCaptureLog, ReleaseLock, Step, End
  <2>3. CASE ReplyStep(g)
    BY <1>1, <2>0, <2>3
    DEF ReplyStep, RespondDigest, RespondRest, CallVllm, ReplyCalls, ProxyAnswered, ProxyFails,
        ProxyAppend, Finish, Step, End
  <2>. QED
    BY <1>1, <2>1, <2>2, <2>3
<1>. QED
  BY <1>1, NextSplit, BackgroundFrame

(* How a handler comes to each stage of an application.                     *)
LEMMA StageEntry ==
  ASSUME TypeOK, [Next]_vars, NEW h \in Handlers
  PROVE  /\ pc'[h] = "checks" => pc[h] = "checks" \/ Len(proc) < MaxLaunch
         /\ pc'[h] = "artifacts" => pc[h] = "artifacts" \/ ChecksPass(h)
         /\ pc'[h] = "stop" => pc[h] = "stop" \/ ArtifactsPass(h)
         /\ pc'[h] = "launch" => pc[h] = "launch" \/ StopOld(h)
         /\ pc'[h] = "await" => pc[h] = "await" \/ LaunchNew(h)
         /\ pc'[h] = "set_manifest" => pc[h] = "set_manifest" \/ SawHealthy(h)
         /\ pc'[h] = "set_applied" => pc[h] = "set_applied" \/ SetManifest(h)
         /\ pc'[h] = "set_capture" => pc[h] = "set_capture" \/ SetAppliedAt(h)
         /\ pc'[h] = "store_capture" => pc[h] = "store_capture" \/ OpenCaptureLog(h)
         /\ pc'[h] = "release" => pc[h] = "release" \/ StoreCaptureLog(h)
         /\ pc'[h] \in Applying \ {"checks"} => req'[h] = req[h] /\ pc[h] \in Applying
<1>0. pc \in [Handlers -> HandlerPcs] /\ req \in [Handlers -> Request]
  BY DEF TypeOK
<1>1. CASE pc'[h] = pc[h] /\ req'[h] = req[h]
  BY <1>1
<1>2. CASE Arrive(h)
  BY <1>0, <1>2 DEF Arrive, PostManifest, StartCalls, ProxyStart, Step, Applying
<1>3. CASE ApplyStep(h)
  <2>1. CASE ApplyFails(h) \/ StopTimesOut(h) \/ ReleaseLock(h)
    BY <1>0, <2>1 DEF ApplyFails, StopTimesOut, ReleaseLock, Step, End, Applying
  <2>2. CASE ChecksPass(h) \/ ArtifactsPass(h) \/ StopOld(h) \/ LaunchNew(h)
    BY <1>0, <2>2 DEF ChecksPass, ArtifactsPass, StopOld, LaunchNew, Step, Applying
  <2>3. CASE SawHealthy(h) \/ SetManifest(h) \/ SetAppliedAt(h) \/ OpenCaptureLog(h) \/ StoreCaptureLog(h)
    BY <1>0, <2>3 DEF SawHealthy, SetManifest, SetAppliedAt, OpenCaptureLog, StoreCaptureLog, Step, Applying
  <2>. QED
    BY <1>3, <2>1, <2>2, <2>3 DEF ApplyStep
<1>4. CASE ReplyStep(h)
  BY <1>0, <1>4
  DEF ReplyStep, RespondDigest, RespondRest, CallVllm, ReplyCalls, ProxyAnswered, ProxyFails,
      ProxyAppend, Finish, Step, End, Applying
<1>. QED
  BY <1>1, <1>2, <1>3, <1>4, HandlerFrame

(* Apart from the two launches, a step keeps the processes, up to their     *)
(* status, and brings none back to life.                                    *)
LEMMA ProcFrame ==
  ASSUME TypeOK, BootInv, [Next]_vars
  PROVE  \/ BootLaunch
         \/ \E h \in Handlers : LaunchNew(h)
         \/ /\ vllmProc' = vllmProc
            /\ DOMAIN proc' = DOMAIN proc
            /\ Len(proc') = Len(proc)
            /\ proc = <<>> => proc' = proc
            /\ \A p \in DOMAIN proc : /\ proc'[p].manifest = proc[p].manifest
                                      /\ proc'[p].env = proc[p].env
                                      /\ proc[p].status = "dead" => proc'[p].status = "dead"
<1> SUFFICES ASSUME ~BootLaunch, \A h \in Handlers : ~LaunchNew(h)
             PROVE  /\ vllmProc' = vllmProc
                    /\ DOMAIN proc' = DOMAIN proc
                    /\ Len(proc') = Len(proc)
                    /\ proc = <<>> => proc' = proc
                    /\ \A p \in DOMAIN proc :
                          /\ proc'[p].manifest = proc[p].manifest
                          /\ proc'[p].env = proc[p].env
                          /\ proc[p].status = "dead" => proc'[p].status = "dead"
  OBVIOUS
<1>0. DOMAIN proc = 1..Len(proc) /\ Len(proc) \in Nat /\ vllmProc = Len(proc)
  BY LenProperties DEF TypeOK
<1>1. ASSUME NEW p \in DOMAIN proc, NEW status \in Statuses, SetStatus(p, status), Alive(p)
      PROVE  /\ DOMAIN proc' = DOMAIN proc
             /\ Len(proc') = Len(proc)
             /\ proc = <<>> => proc' = proc
             /\ \A q \in DOMAIN proc : /\ proc'[q].manifest = proc[q].manifest
                                       /\ proc'[q].env = proc[q].env
                                       /\ proc[q].status = "dead" => proc'[q].status = "dead"
  <2>1. DOMAIN proc' = 1..Len(proc')
    BY <1>1, SetStatusType, LenProperties
  <2>2. proc # <<>>
    BY <1>0, <1>1
  <2>. QED
    BY <1>0, <1>1, <2>1, <2>2, SetStatusType DEF Alive
<1>2. CASE UNCHANGED <<proc, vllmProc>>
  BY <1>2
<1>3. CASE Background
  <2>1. CASE BootTimesOut
    <3>1. vllmProc \in DOMAIN proc /\ "killed" \in Statuses
      BY <2>1, <1>0 DEF BootTimesOut, BootInv, TypeOK, Statuses
    <3>. QED
      BY <2>1, <3>1, <1>1, <1>2 DEF BootTimesOut
  <2>2. CASE Vllm
    <3>1. PICK p \in DOMAIN proc : VllmReady(p) \/ VllmHangs(p) \/ VllmDies(p)
      BY <2>2 DEF Vllm
    <3>2. /\ Alive(p) /\ vllmProc' = vllmProc
          /\ SetStatus(p, "healthy") \/ SetStatus(p, "hung") \/ SetStatus(p, "dead")
      BY <3>1 DEF VllmReady, VllmHangs, VllmDies, Alive
    <3>. QED
      BY <3>2, <1>1 DEF Statuses
  <2>3. CASE Shutdown
    <3>1. vllmProc \in DOMAIN proc /\ {"dead", "killed"} \subseteq Statuses
      BY <2>3, <1>0 DEF Shutdown, BootInv, TypeOK, Launches, Statuses
    <3>. QED
      BY <2>3, <3>1, <1>1, <1>2 DEF Shutdown
  <2>. QED
    BY <1>2, <1>3, <2>1, <2>2, <2>3
    DEF Background, Boot, BootRejects, BootReady, BootFails, Main, MainWaits, MainWakes, MainChecks, Exit,
        vars, procVars
<1>4. ASSUME NEW h \in Handlers, StopOld(h) \/ StopTimesOut(h)
      PROVE  /\ vllmProc' = vllmProc
             /\ UNCHANGED proc
                \/ \E status \in Statuses : SetStatus(vllmProc, status) /\ Alive(vllmProc)
  BY <1>4 DEF StopOld, StopIfAlive, StopTimesOut, Statuses
<1>5. ASSUME NEW h \in Handlers, StopOld(h) \/ StopTimesOut(h)
      PROVE  vllmProc \in DOMAIN proc
  BY <1>5, Serving DEF StopOld, StopTimesOut, Step
<1>6. ASSUME NEW h \in Handlers, Arrive(h) \/ ApplyStep(h) \/ ReplyStep(h),
             ~StopOld(h), ~StopTimesOut(h)
      PROVE  UNCHANGED <<proc, vllmProc>>
  BY <1>6
  DEF Arrive, PostManifest, StartCalls, ProxyStart, ApplyStep, ApplyFails, ChecksPass,
      ArtifactsPass, SawHealthy, SetManifest, SetAppliedAt, OpenCaptureLog, StoreCaptureLog, ReleaseLock, ReplyStep,
      RespondDigest, RespondRest, CallVllm, ReplyCalls, ProxyAnswered, ProxyFails, ProxyAppend,
      Finish, procVars
<1>. QED
  BY <1>1, <1>2, <1>3, <1>4, <1>5, <1>6, NextSplit

(* Who assigns os.environ, state.manifest and state.applied_at.             *)
LEMMA FieldFrame ==
  ASSUME [Next]_vars
  PROVE  /\ environ' = environ \/ BootLaunch \/ \E h \in Handlers : ChecksPass(h)
         /\ manifest' = manifest \/ \E h \in Handlers : SetManifest(h)
         /\ appliedAt' = appliedAt \/ BootReady \/ \E h \in Handlers : SetAppliedAt(h)
<1>1. CASE Background
  BY <1>1
  DEF Background, Boot, BootRejects, BootLaunch, BootReady, BootFails, BootTimesOut, Vllm, VllmReady, VllmHangs,
      VllmDies, Main, MainWaits, MainWakes, MainChecks, Exit, Shutdown, vars, stateVars, procVars
<1>2. ASSUME NEW h \in Handlers, Arrive(h) \/ ReplyStep(h)
      PROVE  UNCHANGED <<environ, manifest, appliedAt>>
  BY <1>2
  DEF Arrive, PostManifest, StartCalls, ProxyStart, ReplyStep, RespondDigest, RespondRest,
      CallVllm, ReplyCalls, ProxyAnswered, ProxyFails, ProxyAppend, Finish, stateVars, procVars
<1>3. ASSUME NEW h \in Handlers, ApplyStep(h)
      PROVE  /\ environ' = environ \/ ChecksPass(h)
             /\ manifest' = manifest \/ SetManifest(h)
             /\ appliedAt' = appliedAt \/ SetAppliedAt(h)
  BY <1>3
  DEF ApplyStep, ApplyFails, ChecksPass, ArtifactsPass, StopOld, StopTimesOut, LaunchNew,
      SawHealthy, SetManifest, SetAppliedAt, OpenCaptureLog, StoreCaptureLog, ReleaseLock, stateVars, procVars
<1>. QED
  BY <1>1, <1>2, <1>3, NextSplit

-----------------------------------------------------------------------------
(* Mutual exclusion of the appliers.                                        *)

LEMMA LockStep ==
  ASSUME TypeOK, LockDiscipline, [Next]_vars
  PROVE  LockDiscipline'
<1>1. CASE Background
  BY <1>1, BackgroundFrame DEF LockDiscipline
<1>2. ASSUME NEW h \in Handlers, Arrive(h) \/ ApplyStep(h) \/ ReplyStep(h)
      PROVE  LockDiscipline'
  <2>0. h # NoHandler /\ pc \in [Handlers -> HandlerPcs]
    BY ServerAssumption DEF TypeOK
  <2>1. CASE \E m \in Manifests : PostManifest(h, m)
    BY <2>0, <2>1, ServerAssumption DEF PostManifest, Step, LockFree, LockDiscipline, Applying
  <2>2. CASE ApplyFails(h) \/ StopTimesOut(h) \/ ReleaseLock(h)
    BY <2>0, <2>2, ServerAssumption
    DEF ApplyFails, StopTimesOut, ReleaseLock, Release, Step, End, LockDiscipline, Applying
  <2>3. CASE ChecksPass(h) \/ ArtifactsPass(h) \/ StopOld(h) \/ LaunchNew(h) \/ SawHealthy(h)
             \/ SetManifest(h) \/ SetAppliedAt(h) \/ OpenCaptureLog(h) \/ StoreCaptureLog(h)
    BY <2>0, <2>3 DEF ChecksPass, ArtifactsPass, StopOld, LaunchNew, SawHealthy, SetManifest,
                      SetAppliedAt, OpenCaptureLog, StoreCaptureLog, Step, LockDiscipline, Applying
  <2>4. CASE \/ \E e \in {"/run", "/replay"} : StartCalls(h, e)
             \/ \E e \in {"/v1", "proxy"} : ProxyStart(h, e)
    BY <2>0, <2>4 DEF StartCalls, ProxyStart, Step, LockDiscipline, Applying
  <2>5. CASE ReplyStep(h)
    BY <2>0, <2>5 DEF ReplyStep, RespondDigest, RespondRest, CallVllm, ReplyCalls, ProxyAnswered,
                      ProxyFails, ProxyAppend, Finish, Step, End, LockDiscipline, Applying
  <2>. QED
    BY <1>2, <2>1, <2>2, <2>3, <2>4, <2>5 DEF Arrive, ApplyStep
<1>. QED
  BY <1>1, <1>2, NextSplit

(* While one handler launches or applies, no other is in _start_vllm.       *)
LEMMA OneApplies ==
  ASSUME LockDiscipline, NEW g \in Handlers, NEW h \in Handlers,
         pc[g] \in Applying, pc[h] \in Applying
  PROVE  g = h
  BY DEF LockDiscipline

-----------------------------------------------------------------------------
(* The other parts of the inductive invariant.                              *)

LEMMA BootStep ==
  ASSUME TypeOK, BootInv, [Next]_vars
  PROVE  BootInv'
<1>0. DOMAIN proc = 1..Len(proc) /\ Len(proc) \in Nat /\ vllmProc = Len(proc)
  BY LenProperties DEF TypeOK
<1>1. CASE BootLaunch
  BY <1>1, ServerAssumption DEF BootLaunch, BootInv, stateVars
<1>2. CASE BootReady
  <2>1. vllmProc \in Launches
    BY <1>0, <1>2, ServerAssumption DEF BootReady, BootInv, TypeOK, Launches
  <2>. QED
    BY <1>2, <2>1 DEF BootReady, BootInv
<1>3. CASE BootRejects \/ BootFails \/ BootTimesOut \/ UNCHANGED vars
  BY <1>3 DEF BootRejects, BootFails, BootTimesOut, BootInv, vars, stateVars, procVars, captureVars, mainVars
<1>4. CASE Main \/ Shutdown
  BY <1>4
  DEF Main, MainWaits, MainWakes, MainChecks, MainDecides, Exit, Shutdown, BootInv, stateVars
<1>5. CASE Vllm
  <2>1. PICK p \in DOMAIN proc : \E status \in Statuses : SetStatus(p, status)
    BY <1>5 DEF Vllm, VllmReady, VllmHangs, VllmDies, Statuses
  <2>2. Len(proc') = Len(proc) /\ \A q \in DOMAIN proc : proc'[q].manifest = proc[q].manifest
    BY <2>1, SetStatusType
  <2>3. proc # <<>> /\ proc' # <<>>
    BY <1>0, <2>1, <2>2
  <2>. QED
    BY <1>0, <1>5, <2>2, <2>3 DEF Vllm, VllmReady, VllmHangs, VllmDies, BootInv, stateVars, mainVars
<1>6. ASSUME NEW h \in Handlers, Arrive(h) \/ ApplyStep(h) \/ ReplyStep(h)
      PROVE  BootInv'
  <2>1. mainPc \notin {"boot", "boot_await", "exited"} /\ vllmProc \in Launches /\ captureLog \in Launches
    <3>1. mainPc \notin {"boot", "boot_await", "exited"}
      BY <1>6
      DEF Arrive, PostManifest, StartCalls, ProxyStart, Accepting, ApplyStep, ApplyFails, ChecksPass,
          ArtifactsPass, StopOld, StopTimesOut, LaunchNew, SawHealthy, SetManifest, SetAppliedAt,
          OpenCaptureLog, StoreCaptureLog, ReleaseLock, ReplyStep, RespondDigest, RespondRest, CallVllm, ReplyCalls,
          ProxyAnswered, ProxyFails, ProxyAppend, Finish, Step, Running, BootInv
    <3>. QED
      BY <1>0, <3>1, ServerAssumption DEF BootInv, TypeOK, Launches
  <2>2. mainPc' = mainPc /\ captureLog' \in Launches
    BY <1>6, <2>1
    DEF Arrive, PostManifest, StartCalls, ProxyStart, ApplyStep, ApplyFails, ChecksPass,
        ArtifactsPass, StopOld, StopTimesOut, LaunchNew, SawHealthy, SetManifest, SetAppliedAt,
        OpenCaptureLog, StoreCaptureLog, ReleaseLock, ReplyStep, RespondDigest, RespondRest, CallVllm, ReplyCalls,
        ProxyAnswered, ProxyFails, ProxyAppend, Finish, stateVars, mainVars
  <2>. QED
    BY <2>1, <2>2 DEF BootInv
<1>. QED
  BY <1>1, <1>2, <1>3, <1>4, <1>5, <1>6, NextSplit DEF Background, Boot

LEMMA BoundStep ==
  ASSUME TypeOK, BootInv, LockDiscipline, BoundInv, [Next]_vars
  PROVE  BoundInv'
<1> SUFFICES ASSUME NEW h \in Handlers, pc'[h] \in {"checks", "artifacts", "stop", "launch"}
             PROVE  Len(proc') < MaxLaunch
  BY DEF BoundInv
<1>1. pc[h] \in {"checks", "artifacts", "stop"} \cup {"launch"} \/ (pc'[h] = "checks" /\ Len(proc) < MaxLaunch)
  BY StageEntry DEF ChecksPass, ArtifactsPass, StopOld, Step
<1>2. Len(proc) < MaxLaunch
  BY <1>1 DEF BoundInv
<1>3. ~BootLaunch
  BY BackgroundFrame DEF Background, Boot, BootLaunch, BootInv
<1>4. ASSUME NEW g \in Handlers, LaunchNew(g) PROVE FALSE
  <2>1. pc[g] = "launch" /\ pc'[g] = "await" /\ lock' = lock
    BY <1>4 DEF LaunchNew, Step, TypeOK
  <2>2. g # h
    BY <2>1
  <2>3. pc'[g] \in Applying /\ pc'[h] \in Applying /\ LockDiscipline'
    BY <2>1, LockStep DEF Applying
  <2>. QED
    BY <2>2, <2>3 DEF LockDiscipline
<1>. QED
  BY <1>2, <1>3, <1>4, ProcFrame

LEMMA ProxyStep ==
  ASSUME TypeOK, BootInv, ProxyInv, [Next]_vars
  PROVE  ProxyInv'
<1> SUFFICES ASSUME NEW h \in Handlers
             PROVE  /\ pc'[h] \in {"proxying", "append"} => req'[h].log \in Launches /\ req'[h].seq \in 1..MaxSeq
                    /\ pc'[h] = "append" => \E p \in Launches : req'[h].served = <<p>>
  BY DEF ProxyInv
<1>0. pc \in [Handlers -> HandlerPcs] /\ req \in [Handlers -> Request]
      /\ DOMAIN proc = 1..Len(proc) /\ Len(proc) \in Nat /\ DOMAIN proc \subseteq Launches
  BY LenProperties, ServerAssumption DEF TypeOK, Launches
<1>1. CASE pc'[h] = pc[h] /\ req'[h] = req[h]
  BY <1>1 DEF ProxyInv
<1>2. CASE Arrive(h)
  <2>1. CASE \E m \in Manifests : PostManifest(h, m)
    BY <1>0, <2>1 DEF PostManifest, Step
  <2>2. CASE \E e \in {"/run", "/replay"} : StartCalls(h, e)
    BY <1>0, <2>2 DEF StartCalls, Step
  <2>3. ASSUME NEW e \in {"/v1", "proxy"}, ProxyStart(h, e)
        PROVE  pc'[h] = "proxying" /\ req'[h].log \in Launches /\ req'[h].seq \in 1..MaxSeq
    <3>1. captureLog \in Launches
      BY <2>3 DEF ProxyStart, Accepting, BootInv
    <3>2. nextSeq'[captureLog] \in 1..MaxSeq
      BY <2>3, <3>1, ServerAssumption DEF ProxyStart, TypeOK
    <3>. QED
      BY <1>0, <2>3, <3>1, <3>2 DEF ProxyStart, Step, Idle
  <2>. QED
    BY <1>2, <2>1, <2>2, <2>3 DEF Arrive
<1>3. CASE ApplyStep(h)
  BY <1>0, <1>3
  DEF ApplyStep, ApplyFails, ChecksPass, ArtifactsPass, StopOld, StopTimesOut, LaunchNew,
      SawHealthy, SetManifest, SetAppliedAt, OpenCaptureLog, StoreCaptureLog, ReleaseLock, Step, End
<1>4. CASE ReplyStep(h)
  <2>1. CASE ProxyAnswered(h)
    <3>1. PICK p \in DOMAIN proc : req' = [req EXCEPT ![h].served = <<p>>]
      BY <2>1 DEF ProxyAnswered
    <3>2. req'[h].served = <<p>> /\ req'[h].log = req[h].log /\ req'[h].seq = req[h].seq
      BY <1>0, <3>1 DEF Request
    <3>. QED
      BY <1>0, <2>1, <3>2 DEF ProxyAnswered, Step, ProxyInv
  <2>2. CASE RespondDigest(h) \/ RespondRest(h) \/ CallVllm(h) \/ ReplyCalls(h) \/ ProxyFails(h)
             \/ ProxyAppend(h) \/ Finish(h)
    BY <1>0, <2>2
    DEF RespondDigest, RespondRest, CallVllm, ReplyCalls, ProxyFails, ProxyAppend, Finish, Step, End
  <2>. QED
    BY <1>4, <2>1, <2>2 DEF ReplyStep
<1>. QED
  BY <1>1, <1>2, <1>3, <1>4, HandlerFrame

(* The engine is stopped before the next one starts, and nobody else starts *)
(* one: the lock keeps every other handler away between the two.            *)
LEMMA EngineStep ==
  ASSUME TypeOK, BootInv, LockDiscipline, EngineInv, [Next]_vars
  PROVE  EngineInv'
<1>0. DOMAIN proc = 1..Len(proc) /\ Len(proc) \in Nat /\ vllmProc = Len(proc)
  BY LenProperties DEF TypeOK
<1>1. CASE BootLaunch
  <2>1. vllmProc' = 1 /\ Len(proc') = 1 /\ DOMAIN proc' = {1}
    BY <1>1 DEF BootLaunch
  <2>2. \A h \in Handlers : pc'[h] = "idle"
    BY <1>1 DEF BootLaunch, BootInv
  <2>. QED
    BY <2>1, <2>2 DEF EngineInv
<1>2. ASSUME NEW h \in Handlers, LaunchNew(h)
      PROVE  EngineInv'
  <2>1. req[h].manifest \in Manifests /\ environ \in Manifests
    BY DEF TypeOK, Request
  <2>2. /\ DOMAIN proc' = 1..Len(proc) + 1
        /\ vllmProc' = Len(proc) + 1
        /\ \A p \in DOMAIN proc : proc'[p] = proc[p]
    BY <1>2, <2>1, LaunchTypes, LenProperties DEF LaunchNew, Popen, Launched
  <2>3. \A p \in DOMAIN proc : ~Alive(p)
    BY <1>2 DEF LaunchNew, Step, EngineInv
  <2>4. \A p \in DOMAIN proc' : Alive(p)' => p = vllmProc'
    BY <1>0, <2>2, <2>3 DEF Alive
  <2>5. ASSUME NEW g \in Handlers PROVE pc'[g] # "launch"
    <3>1. pc[h] = "launch" /\ pc'[h] = "await"
      BY <1>2 DEF LaunchNew, Step, TypeOK
    <3>2. pc'[g] = "launch" => g = h
      BY <3>1, LockStep, OneApplies DEF LockDiscipline, Applying
    <3>. QED
      BY <3>1, <3>2
  <2>. QED
    BY <2>4, <2>5 DEF EngineInv
<1>3. ASSUME ~BootLaunch, \A h \in Handlers : ~LaunchNew(h)
      PROVE  EngineInv'
  <2>1. \A p \in DOMAIN proc' : Alive(p)' => p = vllmProc'
    BY <1>3, ProcFrame DEF EngineInv, Alive
  <2>2. ASSUME NEW h \in Handlers, pc'[h] = "launch"
        PROVE  ~Alive(vllmProc)'
    <3>1. CASE pc[h] = "launch"
      <4>1. ~Alive(vllmProc) /\ vllmProc' = vllmProc
        BY <1>3, <3>1, ProcFrame DEF EngineInv
      <4>2. CASE vllmProc \in DOMAIN proc
        BY <1>3, <4>1, <4>2, ProcFrame DEF Alive
      <4>3. CASE vllmProc \notin DOMAIN proc
        <5>1. proc = <<>>
          BY <1>0, <4>3 DEF TypeOK
        <5>. QED
          BY <1>3, <4>1, <5>1, ProcFrame DEF Alive
      <4>. QED
        BY <4>2, <4>3
    <3>2. CASE StopOld(h)
      <4>1. vllmProc \in DOMAIN proc
        BY <3>2, Serving DEF StopOld, Step
      <4>. QED
        BY <3>2, <4>1, SetStatusType DEF StopOld, StopIfAlive, Alive, Statuses
    <3>. QED
      BY <2>2, <3>1, <3>2, StageEntry
  <2>. QED
    BY <2>1, <2>2 DEF EngineInv
<1>. QED
  BY <1>1, <1>2, <1>3

(* os.environ is the holder's from the checks to Popen, whatever failed     *)
(* applications left in it before.                                          *)
LEMMA EnvStep ==
  ASSUME TypeOK, BootInv, LockDiscipline, EnvInv, [Next]_vars
  PROVE  EnvInv'
<1>0. DOMAIN proc = 1..Len(proc) /\ Len(proc) \in Nat
  BY LenProperties DEF TypeOK
<1>1. LaunchedAsDeclared'
  <2>1. CASE BootLaunch
    BY <2>1 DEF BootLaunch, LaunchedAsDeclared
  <2>2. ASSUME NEW h \in Handlers, LaunchNew(h)
        PROVE  LaunchedAsDeclared'
    <3>1. req[h].manifest \in Manifests /\ environ \in Manifests
      BY DEF TypeOK, Request
    <3>2. environ = req[h].manifest
      BY <2>2 DEF LaunchNew, Step, EnvInv
    <3>3. /\ DOMAIN proc' = 1..Len(proc) + 1
          /\ \A p \in DOMAIN proc : proc'[p] = proc[p]
          /\ proc'[Len(proc) + 1].manifest = req[h].manifest
          /\ proc'[Len(proc) + 1].env = environ
      BY <2>2, <3>1, LaunchTypes, LenProperties DEF LaunchNew, Popen, Launched
    <3>. QED
      BY <1>0, <3>2, <3>3 DEF EnvInv, LaunchedAsDeclared
  <2>. QED
    BY <2>1, <2>2, ProcFrame DEF EnvInv, LaunchedAsDeclared
<1>2. ASSUME NEW h \in Handlers, pc'[h] \in {"artifacts", "stop", "launch"}
      PROVE  environ' = req'[h].manifest
  <2>1. req'[h] = req[h] /\ pc[h] \in Applying
    BY <1>2, StageEntry DEF Applying
  <2>2. ~BootLaunch
    BY <2>1 DEF BootLaunch, BootInv, Applying
  <2>3. CASE ChecksPass(h)
    BY <2>1, <2>3 DEF ChecksPass
  <2>4. CASE ~ChecksPass(h)
    <3>1. pc[h] \in {"artifacts", "stop", "launch"}
      BY <1>2, <2>4, StageEntry DEF ArtifactsPass, StopOld, Step
    <3>2. ~ \E g \in Handlers : ChecksPass(g)
      BY <2>4, <2>1, OneApplies DEF ChecksPass, Step, Applying
    <3>. QED
      BY <2>1, <2>2, <3>1, <3>2, FieldFrame DEF EnvInv
  <2>. QED
    BY <2>3, <2>4
<1>. QED
  BY <1>1, <1>2 DEF EnvInv

(* applied_at is stamped after the manifest is published, and the manifest  *)
(* published is the one the holder launched.                                *)
LEMMA AppliedStep ==
  ASSUME TypeOK, BootInv, LockDiscipline, AppliedInv, [Next]_vars
  PROVE  AppliedInv'
<1>0. /\ DOMAIN proc = 1..Len(proc) /\ Len(proc) \in Nat /\ vllmProc = Len(proc)
      /\ appliedAt \in Nat /\ appliedAt <= vllmProc
  BY LenProperties DEF TypeOK
<1>1. CASE BootLaunch
  BY <1>1 DEF BootLaunch, BootInv, AppliedInv, AppliedIsRunning, stateVars, Applying
<1>2. ASSUME NEW h \in Handlers, LaunchNew(h)
      PROVE  AppliedInv'
  <2>1. req[h].manifest \in Manifests /\ environ \in Manifests
    BY DEF TypeOK, Request
  <2>2. /\ vllmProc' = Len(proc) + 1
        /\ proc'[vllmProc'].manifest = req[h].manifest
        /\ appliedAt' = appliedAt /\ manifest' = manifest
    BY <1>2, <2>1, LaunchTypes DEF LaunchNew, Popen, Launched, stateVars
  <2>3. appliedAt' < vllmProc'
    BY <1>0, <2>2
  <2>4. ASSUME NEW g \in Handlers, pc'[g] \in Applying
        PROVE  g = h /\ pc'[g] = "await" /\ req'[g] = req[h]
    <3>1. pc'[h] = "await" /\ req' = req
      BY <1>2 DEF LaunchNew, Step, TypeOK
    <3>. QED
      BY <2>4, <3>1, LockStep DEF LockDiscipline, Applying
  <2>. QED
    BY <2>2, <2>3, <2>4 DEF AppliedInv, AppliedIsRunning, Applying
<1>3. ASSUME ~BootLaunch, \A h \in Handlers : ~LaunchNew(h)
      PROVE  AppliedInv'
  <2>1. AppliedIsRunning'
    <3>1. CASE BootReady
      BY <1>0, <3>1 DEF BootReady, BootInv, AppliedIsRunning, procVars
    <3>2. ASSUME NEW h \in Handlers, SetManifest(h)
          PROVE  AppliedIsRunning'
      BY <1>0, <3>2 DEF SetManifest, Step, AppliedInv, AppliedIsRunning, procVars
    <3>3. ASSUME NEW h \in Handlers, SetAppliedAt(h)
          PROVE  AppliedIsRunning'
      BY <3>3 DEF SetAppliedAt, Step, AppliedInv, AppliedIsRunning, procVars
    <3>4. CASE UNCHANGED <<manifest, appliedAt>>
      <4>1. vllmProc' = vllmProc
            /\ \A p \in DOMAIN proc : proc'[p].manifest = proc[p].manifest
        BY <1>3, ProcFrame
      <4>2. vllmProc # 0 => vllmProc \in DOMAIN proc
        BY <1>0
      <4>. QED
        BY <3>4, <4>1, <4>2 DEF AppliedInv, AppliedIsRunning
    <3>. QED
      BY <3>1, <3>2, <3>3, <3>4, FieldFrame
  <2>2. ASSUME NEW h \in Handlers, pc'[h] \in Applying \ {"checks", "artifacts", "stop", "launch"}
        PROVE  /\ proc'[vllmProc'].manifest = req'[h].manifest
               /\ pc'[h] \in {"await", "set_manifest"} => appliedAt' < vllmProc'
               /\ pc'[h] \in {"set_applied", "set_capture", "store_capture", "release"} => manifest' = req'[h].manifest
    <3>1. req'[h] = req[h] /\ pc[h] \in {"await", "set_manifest", "set_applied", "set_capture", "store_capture", "release"}
      BY <1>3, <2>2, StageEntry DEF Applying, SawHealthy, SetManifest, SetAppliedAt, OpenCaptureLog, StoreCaptureLog, Step
    <3>2. \A g \in Handlers : pc[g] \in Applying => g = h
      BY <3>1, OneApplies DEF Applying
    <3>3. proc[vllmProc].manifest = req[h].manifest
      BY <3>1 DEF AppliedInv
    <3>4. vllmProc' = vllmProc /\ proc'[vllmProc].manifest = proc[vllmProc].manifest
      <4>1. vllmProc' = vllmProc
        BY <1>3, ProcFrame
      <4>2. vllmProc \in DOMAIN proc \/ proc = <<>>
        BY <1>0 DEF TypeOK
      <4>. QED
        BY <1>3, <4>1, <4>2, ProcFrame
    <3>5. ~BootReady
      BY <3>1 DEF BootReady, BootInv
    <3>6. ASSUME pc'[h] \in {"await", "set_manifest"} PROVE appliedAt' < vllmProc'
      <4>1. CASE pc[h] \in {"await", "set_manifest"}
        <5>1. \A g \in Handlers : ~SetAppliedAt(g)
          BY <3>2, <4>1 DEF SetAppliedAt, Step, Applying
        <5>. QED
          BY <3>4, <3>5, <4>1, <5>1, FieldFrame DEF AppliedInv
      <4>. QED
        BY <1>3, <3>6, <4>1, StageEntry DEF SawHealthy, Step
    <3>7. ASSUME pc'[h] \in {"set_applied", "set_capture", "store_capture", "release"} PROVE manifest' = req'[h].manifest
      <4>1. CASE SetManifest(h)
        BY <3>1, <4>1 DEF SetManifest
      <4>2. CASE pc[h] \in {"set_applied", "set_capture", "store_capture", "release"}
        <5>1. \A g \in Handlers : ~SetManifest(g)
          BY <3>2, <4>2 DEF SetManifest, Step, Applying
        <5>. QED
          BY <3>1, <4>2, <5>1, FieldFrame DEF AppliedInv
      <4>. QED
        BY <3>7, <4>1, <4>2, StageEntry DEF SetAppliedAt, OpenCaptureLog, StoreCaptureLog, Step
    <3>. QED
      BY <3>1, <3>3, <3>4, <3>6, <3>7
  <2>. QED
    BY <2>1, <2>2 DEF AppliedInv, Applying
<1>. QED
  BY <1>1, <1>2, <1>3

(* A request keeps its endpoint, and only an application replies to one.    *)
LEMMA EndpointStep ==
  ASSUME TypeOK, EndpointInv, [Next]_vars
  PROVE  EndpointInv'
<1> SUFFICES ASSUME NEW h \in Handlers, pc'[h] \in Applying \cup {"respond", "respond_rest"}
             PROVE  req'[h].endpoint = "/manifest"
  BY DEF EndpointInv
<1>0. pc \in [Handlers -> HandlerPcs] /\ req \in [Handlers -> Request]
  BY DEF TypeOK
<1>1. CASE pc'[h] = pc[h] /\ req'[h] = req[h]
  BY <1>1 DEF EndpointInv
<1>2. CASE Arrive(h)
  <2>1. ASSUME NEW m \in Manifests, PostManifest(h, m)
        PROVE  req'[h].endpoint = "/manifest"
    BY <1>0, <2>1 DEF PostManifest, Idle
  <2>2. ~ \E e \in {"/run", "/replay"} : StartCalls(h, e)
    BY <1>0 DEF StartCalls, Step, Applying
  <2>3. ~ \E e \in {"/v1", "proxy"} : ProxyStart(h, e)
    BY <1>0 DEF ProxyStart, Step, Applying
  <2>. QED
    BY <1>2, <2>1, <2>2, <2>3 DEF Arrive
<1>3. CASE ApplyStep(h)
  <2>1. pc[h] \in Applying /\ req'[h] = req[h]
    BY <1>0, <1>3
    DEF ApplyStep, ApplyFails, ChecksPass, ArtifactsPass, StopOld, StopTimesOut, LaunchNew,
        SawHealthy, SetManifest, SetAppliedAt, OpenCaptureLog, StoreCaptureLog, ReleaseLock, Step, End, Applying
  <2>. QED
    BY <2>1 DEF EndpointInv
<1>4. CASE ReplyStep(h)
  <2>1. CASE RespondDigest(h)
    <3>1. req' = [req EXCEPT ![h] = [req[h] EXCEPT !.digest = manifest]] /\ pc[h] = "respond"
      BY <2>1 DEF RespondDigest, Step
    <3>. QED
      BY <1>0, <3>1 DEF EndpointInv, Request
  <2>2. CASE ~RespondDigest(h)
    BY <1>0, <1>4, <2>2
    DEF ReplyStep, RespondRest, CallVllm, ReplyCalls, ProxyAnswered, ProxyFails,
        ProxyAppend, Finish, Step, End, Applying
  <2>. QED
    BY <2>1, <2>2
<1>. QED
  BY <1>1, <1>2, <1>3, <1>4, HandlerFrame

(* A step other than a launch leaves the process, its manifest and a stamp  *)
(* that is up to date.                                                      *)
LEMMA StampFrame ==
  ASSUME TypeOK, BootInv, [Next]_vars, ~BootLaunch, \A g \in Handlers : ~LaunchNew(g)
  PROVE  /\ vllmProc' = vllmProc
         /\ vllmProc # 0 => proc'[vllmProc].manifest = proc[vllmProc].manifest
         /\ appliedAt = vllmProc => appliedAt' = vllmProc
<1>0. DOMAIN proc = 1..Len(proc) /\ Len(proc) \in Nat /\ vllmProc = Len(proc)
  BY LenProperties DEF TypeOK
<1>1. vllmProc' = vllmProc /\ \A p \in DOMAIN proc : proc'[p].manifest = proc[p].manifest
  BY ProcFrame
<1>2. vllmProc # 0 => vllmProc \in DOMAIN proc
  BY <1>0
<1>3. appliedAt' = appliedAt \/ appliedAt' = vllmProc
  BY FieldFrame DEF BootReady, SetAppliedAt
<1>. QED
  BY <1>1, <1>2, <1>3

(* A call reaches only the process that ServerState names.                  *)
LEMMA CallReaches ==
  ASSUME TypeOK, EngineInv, NEW h \in Handlers, CallVllm(h)
  PROVE  /\ pc' = pc /\ pc[h] = "calling"
         /\ req'[h].endpoint = req[h].endpoint /\ req'[h].began = req[h].began /\ req'[h].at = req[h].at
         /\ req'[h].runId = req[h].runId
         /\ (\A i \in DOMAIN req[h].served : req[h].served[i] \in {0, vllmProc})
               => \A i \in DOMAIN req'[h].served : req'[h].served[i] \in {0, vllmProc}
<1>1. PICK by \in {0} \cup {p \in DOMAIN proc : Answers(p)} :
         req' = [req EXCEPT ![h].served = Append(@, by)]
  BY DEF CallVllm
<1>2. by \in {0, vllmProc}
  BY <1>1 DEF Answers, EngineInv, Alive
<1>3. req[h] \in Request /\ req[h].served \in Seq(0..MaxLaunch) /\ by \in 0..MaxLaunch
  <2>1. vllmProc \in 0..MaxLaunch /\ 0 \in 0..MaxLaunch
    BY ServerAssumption, LenProperties DEF TypeOK
  <2>2. req[h] \in Request
    BY DEF TypeOK
  <2>3. req[h].served \in Seq(0..MaxLaunch)
    BY <2>2 DEF Request
  <2>. QED
    BY <1>2, <2>1, <2>2, <2>3
<1>4. req' = [req EXCEPT ![h] = [req[h] EXCEPT !.served = Append(req[h].served, by)]]
  BY <1>1
<1>5. /\ req'[h].served = Append(req[h].served, by)
      /\ req'[h].endpoint = req[h].endpoint /\ req'[h].began = req[h].began /\ req'[h].at = req[h].at
      /\ req'[h].runId = req[h].runId
  BY <1>4 DEF TypeOK, Request
<1>6. /\ DOMAIN req[h].served = 1..Len(req[h].served) /\ Len(req[h].served) \in Nat
      /\ DOMAIN Append(req[h].served, by) = 1..Len(req[h].served) + 1
      /\ \A i \in 1..Len(req[h].served) : Append(req[h].served, by)[i] = req[h].served[i]
      /\ Append(req[h].served, by)[Len(req[h].served) + 1] = by
  BY <1>3, AppendProperties, LenProperties
<1>7. ASSUME \A i \in DOMAIN req[h].served : req[h].served[i] \in {0, vllmProc},
             NEW i \in DOMAIN req'[h].served
      PROVE  req'[h].served[i] \in {0, vllmProc}
  <2>1. i \in 1..Len(req[h].served) \/ i = Len(req[h].served) + 1
    BY <1>5, <1>6, <1>7
  <2>. QED
    BY <1>2, <1>5, <1>6, <1>7, <2>1
<1>. QED
  BY <1>5, <1>7 DEF CallVllm

(* Nobody applies anything else while the process stays: the snapshot, what *)
(* was answered and the digest at the end are of one manifest.              *)
LEMMA RunStep ==
  ASSUME TypeOK, BootInv, EngineInv, AppliedInv, EndpointInv, RunInv, [Next]_vars
  PROVE  RunInv'
<1> SUFFICES ASSUME NEW h \in Handlers
             PROVE  /\ req'[h].began <= vllmProc'
                    /\ Quiet(h)' =>
                          /\ vllmProc' # 0 /\ appliedAt' = vllmProc'
                          /\ proc'[vllmProc'].manifest = req'[h].runId
                          /\ \A i \in DOMAIN req'[h].served : req'[h].served[i] \in {0, vllmProc'}
                          /\ pc'[h] = "replied" => req'[h].digest = req'[h].runId
  BY DEF RunInv, Quiet
<1>0. /\ pc \in [Handlers -> HandlerPcs] /\ req \in [Handlers -> Request]
      /\ vllmProc \in Nat /\ vllmProc = Len(proc) /\ req[h].began \in Nat /\ req[h].began <= vllmProc
  BY LenProperties DEF TypeOK, Request, RunInv
<1>1. CASE pc'[h] = pc[h] /\ req'[h] = req[h]
  <2>1. CASE BootLaunch
    BY <1>0, <1>1, <2>1 DEF BootLaunch, BootInv, Quiet
  <2>2. ASSUME NEW g \in Handlers, LaunchNew(g)
        PROVE  vllmProc' = vllmProc + 1
    BY <1>0, <2>2 DEF LaunchNew, Popen
  <2>3. CASE \E g \in Handlers : LaunchNew(g)
    BY <1>0, <1>1, <2>2, <2>3 DEF Quiet
  <2>4. CASE ~BootLaunch /\ \A g \in Handlers : ~LaunchNew(g)
    BY <1>0, <1>1, <2>4, StampFrame DEF RunInv, Quiet
  <2>. QED
    BY <2>1, <2>3, <2>4
<1>2. CASE Arrive(h)
  <2>1. vllmProc' = vllmProc /\ proc' = proc /\ appliedAt' = appliedAt
    BY <1>2 DEF Arrive, PostManifest, StartCalls, ProxyStart, procVars, stateVars
  <2>2. CASE \E m \in Manifests : PostManifest(h, m)
    BY <1>0, <2>1, <2>2 DEF PostManifest, Step, Quiet, Idle
  <2>3. CASE \E e \in {"/v1", "proxy"} : ProxyStart(h, e)
    BY <1>0, <2>1, <2>3 DEF ProxyStart, Step, Quiet, Idle
  <2>4. ASSUME NEW e, StartCalls(h, e)
        PROVE  /\ req'[h].began = vllmProc /\ req'[h].at = appliedAt /\ req'[h].runId = manifest
               /\ req'[h].served = <<>> /\ pc'[h] = "calling" /\ vllmProc # 0
    <3>1. vllmProc # 0
      BY <1>0, <2>4 DEF StartCalls, Accepting, BootInv, TypeOK, Launches
    <3>. QED
      BY <1>0, <2>4, <3>1 DEF StartCalls, Step, Idle
  <2>5. CASE \E e \in {"/run", "/replay"} : StartCalls(h, e)
    BY <1>0, <2>1, <2>4, <2>5 DEF Quiet, AppliedInv, AppliedIsRunning
  <2>. QED
    BY <1>2, <2>2, <2>3, <2>5 DEF Arrive
<1>3. CASE ApplyStep(h)
  <2>1. pc'[h] \notin {"calling", "replied"}
    BY <1>0, <1>3
    DEF ApplyStep, ApplyFails, ChecksPass, ArtifactsPass, StopOld, StopTimesOut, LaunchNew,
        SawHealthy, SetManifest, SetAppliedAt, OpenCaptureLog, StoreCaptureLog, ReleaseLock, Step, End
  <2>2. req'[h].began <= vllmProc
    BY <1>0, <1>3
    DEF ApplyStep, ApplyFails, ChecksPass, ArtifactsPass, StopOld, StopTimesOut, LaunchNew,
        SawHealthy, SetManifest, SetAppliedAt, OpenCaptureLog, StoreCaptureLog, ReleaseLock, End, Idle
  <2>3. vllmProc' = vllmProc \/ vllmProc' = vllmProc + 1
    BY <1>0, <1>3
    DEF ApplyStep, ApplyFails, ChecksPass, ArtifactsPass, StopOld, StopTimesOut, LaunchNew, Popen,
        SawHealthy, SetManifest, SetAppliedAt, OpenCaptureLog, StoreCaptureLog, ReleaseLock, procVars
  <2>4. req'[h].began \in Nat
    BY <1>0, <1>3
    DEF ApplyStep, ApplyFails, ChecksPass, ArtifactsPass, StopOld, StopTimesOut, LaunchNew,
        SawHealthy, SetManifest, SetAppliedAt, OpenCaptureLog, StoreCaptureLog, ReleaseLock, End, Idle
  <2>. QED
    BY <1>0, <2>1, <2>2, <2>3, <2>4 DEF Quiet
<1>4. CASE ReplyStep(h)
  <2>0. vllmProc' = vllmProc /\ proc' = proc /\ appliedAt' = appliedAt /\ manifest' = manifest
    BY <1>4 DEF ReplyStep, RespondDigest, RespondRest, CallVllm, ReplyCalls, ProxyAnswered, ProxyFails,
                ProxyAppend, Finish, procVars, stateVars
  <2>1. CASE CallVllm(h)
    BY <1>0, <2>0, <2>1, CallReaches DEF RunInv, Quiet
  <2>2. CASE ReplyCalls(h)
    <3>1. req' = [req EXCEPT ![h] = [req[h] EXCEPT !.digest = manifest]] /\ pc[h] = "calling"
      BY <2>2 DEF ReplyCalls, Step
    <3>2. /\ req'[h].digest = manifest /\ req'[h].endpoint = req[h].endpoint
          /\ req'[h].began = req[h].began /\ req'[h].at = req[h].at
          /\ req'[h].runId = req[h].runId /\ req'[h].served = req[h].served
      BY <1>0, <3>1 DEF Request
    <3>. QED
      BY <1>0, <2>0, <3>1, <3>2 DEF RunInv, Quiet, AppliedInv, AppliedIsRunning
  <2>3. CASE RespondDigest(h)
    <3>1. req' = [req EXCEPT ![h] = [req[h] EXCEPT !.digest = manifest]] /\ pc'[h] = "respond_rest"
      BY <1>0, <2>3 DEF RespondDigest, Step
    <3>. QED
      BY <1>0, <2>0, <3>1 DEF Quiet, Request
  <2>4. CASE RespondRest(h)
    <3>1. /\ req' = [req EXCEPT ![h] = [req[h] EXCEPT !.runId = manifest, !.at = appliedAt]]
          /\ pc[h] = "respond_rest"
      BY <1>0, <2>4 DEF RespondRest, Step
    <3>2. req'[h].endpoint = "/manifest" /\ req'[h].began = req[h].began
      BY <1>0, <3>1 DEF EndpointInv, Request
    <3>. QED
      BY <1>0, <2>0, <3>2 DEF Quiet
  <2>5. CASE ProxyAnswered(h)
    <3>1. PICK p \in DOMAIN proc : req' = [req EXCEPT ![h] = [req[h] EXCEPT !.served = <<p>>]]
      BY <2>5 DEF ProxyAnswered
    <3>2. pc'[h] = "append" /\ req'[h].began = req[h].began
      BY <1>0, <2>5, <3>1 DEF ProxyAnswered, Step, Request
    <3>. QED
      BY <1>0, <2>0, <3>2 DEF Quiet
  <2>6. CASE ProxyFails(h) \/ ProxyAppend(h) \/ Finish(h)
    BY <1>0, <2>0, <2>6 DEF ProxyFails, ProxyAppend, Finish, End, Quiet, Idle
  <2>. QED
    BY <1>4, <2>1, <2>2, <2>3, <2>4, <2>5, <2>6 DEF ReplyStep
<1>. QED
  BY <1>1, <1>2, <1>3, <1>4, HandlerFrame

(* Who assigns state.capture_log, and what becomes of capture.jsonl.        *)
LEMMA CaptureFrame ==
  ASSUME [Next]_vars
  PROVE  \/ UNCHANGED <<captureLog, captureFile>>
         \/ BootReady
         \/ \E h \in Handlers : OpenCaptureLog(h) /\ captureFile' = <<>> /\ captureLog' = captureLog
         \/ \E h \in Handlers : StoreCaptureLog(h) /\ captureFile' = captureFile
         \/ \E h \in Handlers : ProxyAppend(h)
<1>1. CASE Background
  BY <1>1
  DEF Background, Boot, BootRejects, BootLaunch, BootReady, BootFails, BootTimesOut, Vllm, VllmReady, VllmHangs, VllmDies,
      Main, MainWaits, MainWakes, MainChecks, Exit, Shutdown, vars, stateVars, captureVars
<1>2. ASSUME NEW h \in Handlers, Arrive(h) \/ ApplyStep(h) \/ ReplyStep(h),
             ~OpenCaptureLog(h), ~StoreCaptureLog(h), ~ProxyAppend(h)
      PROVE  UNCHANGED <<captureLog, captureFile>>
  BY <1>2
  DEF Arrive, PostManifest, StartCalls, ProxyStart, ApplyStep, ApplyFails, ChecksPass, ArtifactsPass,
      StopOld, StopTimesOut, LaunchNew, SawHealthy, SetManifest, SetAppliedAt, ReleaseLock, ReplyStep,
      RespondDigest, RespondRest, CallVllm, ReplyCalls, ProxyAnswered, ProxyFails, Finish,
      stateVars, captureVars
<1>3. \A h \in Handlers : /\ OpenCaptureLog(h) => captureFile' = <<>> /\ captureLog' = captureLog
                          /\ StoreCaptureLog(h) => captureFile' = captureFile
  BY DEF OpenCaptureLog, StoreCaptureLog, stateVars, captureVars
<1>. QED
  BY <1>1, <1>2, <1>3, NextSplit

LEMMA CaptureStep ==
  ASSUME TypeOK, BootInv, LockDiscipline, CaptureInv, [Next]_vars
  PROVE  CaptureInv'
<1>0. /\ pc \in [Handlers -> HandlerPcs] /\ vllmProc \in Nat /\ captureLog \in Nat
      /\ captureLog <= vllmProc /\ vllmProc = Len(proc)
  BY LenProperties DEF TypeOK
<1>1. ASSUME mainPc' \in {"boot", "boot_await"}
      PROVE  captureFile' = <<>>
  <2>1. mainPc \in {"boot", "boot_await"} /\ ~BootReady
    <3>1. CASE Background
      BY <1>1, <3>1
      DEF Background, Boot, BootRejects, BootLaunch, BootReady, BootFails, BootTimesOut, Vllm, VllmReady, VllmHangs, VllmDies,
          Main, MainWaits, MainWakes, MainChecks, MainDecides, Exit, Shutdown, vars, mainVars
    <3>2. ASSUME NEW h \in Handlers, Arrive(h) \/ ApplyStep(h) \/ ReplyStep(h)
          PROVE  mainPc' = mainPc
      BY <3>2
      DEF Arrive, PostManifest, StartCalls, ProxyStart, ApplyStep, ApplyFails, ChecksPass,
          ArtifactsPass, StopOld, StopTimesOut, LaunchNew, SawHealthy, SetManifest, SetAppliedAt,
          OpenCaptureLog, StoreCaptureLog, ReleaseLock, ReplyStep, RespondDigest, RespondRest, CallVllm, ReplyCalls,
          ProxyAnswered, ProxyFails, ProxyAppend, Finish, mainVars
    <3>3. ~BootReady
      BY <1>1 DEF BootReady
    <3>. QED
      BY <1>1, <3>1, <3>2, <3>3, NextSplit
  <2>2. \A h \in Handlers : pc[h] = "idle"
    BY <2>1 DEF BootInv
  <2>. QED
    BY <2>1, <2>2, CaptureFrame DEF CaptureInv, OpenCaptureLog, StoreCaptureLog, ProxyAppend, Step
<1>2. ASSUME NEW h \in Handlers,
             pc'[h] \in {"await", "set_manifest", "set_applied", "set_capture", "store_capture"}
      PROVE  captureLog' < vllmProc'
  <2>1. pc[h] \in Applying
    BY <1>2, StageEntry DEF Applying
  <2>2. ~BootReady /\ ~BootLaunch
    BY <2>1 DEF BootReady, BootLaunch, BootInv, Applying
  <2>3. captureLog' = captureLog
    <3>1. ASSUME NEW g \in Handlers, StoreCaptureLog(g)
          PROVE  FALSE
      <4>1. pc[g] \in Applying /\ pc'[g] = "release"
        BY <1>0, <3>1 DEF StoreCaptureLog, Step, Applying
      <4>. QED
        BY <1>2, <2>1, <4>1, OneApplies
    <3>. QED
      BY <2>2, <3>1, CaptureFrame DEF ProxyAppend, stateVars
  <2>4. CASE LaunchNew(h)
    BY <1>0, <2>3, <2>4 DEF LaunchNew, Popen
  <2>5. CASE ~LaunchNew(h)
    <3>1. pc[h] \in {"await", "set_manifest", "set_applied", "set_capture", "store_capture"}
      BY <1>2, <2>5, StageEntry DEF SawHealthy, SetManifest, SetAppliedAt, OpenCaptureLog, Step
    <3>2. \A g \in Handlers : ~LaunchNew(g)
      BY <2>1, <2>5, OneApplies DEF LaunchNew, Step, Applying
    <3>. QED
      BY <2>2, <2>3, <3>1, <3>2, ProcFrame DEF CaptureInv
  <2>. QED
    BY <2>4, <2>5
<1>3. ASSUME NEW h \in Handlers, pc'[h] \in {"set_capture", "store_capture", "release"}
      PROVE  appliedAt' = vllmProc'
  <2>1. pc[h] \in {"set_applied", "set_capture", "store_capture", "release"}
    BY <1>3, StageEntry DEF SetAppliedAt, OpenCaptureLog, StoreCaptureLog, Step
  <2>2. ~BootLaunch
    BY <2>1 DEF BootLaunch, BootInv
  <2>3. ~LaunchNew(h)
    BY <2>1 DEF LaunchNew, Step
  <2>4. \A g \in Handlers : ~LaunchNew(g)
    BY <2>1, <2>3, OneApplies DEF LaunchNew, Step, Applying
  <2>5. CASE SetAppliedAt(h)
    BY <2>5 DEF SetAppliedAt, procVars
  <2>6. CASE ~SetAppliedAt(h)
    <3>1. pc[h] \in {"set_capture", "store_capture", "release"}
      BY <1>3, <2>6, StageEntry DEF OpenCaptureLog, StoreCaptureLog, Step
    <3>. QED
      BY <2>2, <2>4, <3>1, StampFrame DEF CaptureInv
  <2>. QED
    BY <2>5, <2>6
<1>. QED
  BY <1>1, <1>2, <1>3 DEF CaptureInv

(* A request's log is the one in force on arrival, the engine that answers  *)
(* is the latest one, and the log in force is never of a later launch.      *)
LEMMA AnswerStep ==
  ASSUME TypeOK, BootInv, ProxyInv, EngineInv, AnswerInv, [Next]_vars
  PROVE  AnswerInv'
<1>0. /\ pc \in [Handlers -> HandlerPcs] /\ req \in [Handlers -> Request]
      /\ vllmProc \in Nat /\ vllmProc = Len(proc) /\ DOMAIN proc = 1..Len(proc)
      /\ captureLog \in Nat /\ captureLog <= vllmProc
      /\ \A h \in Handlers : req[h].log \in Nat
  BY LenProperties DEF TypeOK, Request
<1>1. vllmProc' \in Nat /\ vllmProc <= vllmProc'
  <2>1. CASE BootLaunch
    BY <1>0, <2>1 DEF BootLaunch, BootInv
  <2>2. ASSUME NEW h \in Handlers, LaunchNew(h)
        PROVE  vllmProc' = vllmProc + 1
    BY <1>0, <2>2 DEF LaunchNew, Popen
  <2>. QED
    BY <1>0, <2>1, <2>2, ProcFrame
<1>2. CaptureMatchesEngine'
  <2>1. CASE captureFile' = captureFile \/ captureFile' = <<>>
    BY <2>1 DEF AnswerInv, CaptureMatchesEngine
  <2>2. ASSUME NEW h \in Handlers, ProxyAppend(h), captureFile' # captureFile
        PROVE  CaptureMatchesEngine'
    <3>. DEFINE entry == [log |-> req[h].log, seq |-> req[h].seq, by |-> req[h].served[1]]
    <3>1. captureFile' = Append(captureFile, entry) /\ pc[h] = "append"
      BY <2>2 DEF ProxyAppend
    <3>2. entry \in CaptureEntry /\ entry.log <= entry.by
      BY <3>1 DEF ProxyInv, AnswerInv, CaptureEntry
    <3>. HIDE DEF entry
    <3>3. /\ Len(captureFile) \in Nat /\ DOMAIN captureFile = 1..Len(captureFile)
          /\ DOMAIN captureFile' = 1..Len(captureFile) + 1
          /\ \A i \in 1..Len(captureFile) : captureFile'[i] = captureFile[i]
          /\ captureFile'[Len(captureFile) + 1] = entry
      BY <3>1, <3>2, AppendProperties, LenProperties DEF TypeOK
    <3>4. \A i \in DOMAIN captureFile' : i \in DOMAIN captureFile \/ i = Len(captureFile) + 1
      BY <3>3
    <3>. QED
      BY <3>2, <3>3, <3>4 DEF AnswerInv, CaptureMatchesEngine
  <2>. QED
    BY <2>1, <2>2, CaptureFrame DEF BootReady
<1>3. ASSUME NEW h \in Handlers, pc'[h] = "proxying"
      PROVE  req'[h].log <= vllmProc'
  <2>1. CASE pc'[h] = pc[h] /\ req'[h] = req[h]
    BY <1>0, <1>1, <1>3, <2>1 DEF AnswerInv
  <2>2. ASSUME NEW e, ProxyStart(h, e)
        PROVE  req'[h].log = captureLog
    BY <1>0, <2>2 DEF ProxyStart, Idle
  <2>3. CASE Arrive(h)
    <3>1. ~ \E m \in Manifests : PostManifest(h, m)
      BY <1>0, <1>3 DEF PostManifest, Step
    <3>2. ~ \E e \in {"/run", "/replay"} : StartCalls(h, e)
      BY <1>0, <1>3 DEF StartCalls, Step
    <3>. QED
      BY <1>0, <1>1, <2>2, <2>3, <3>1, <3>2 DEF Arrive
  <2>4. ~ApplyStep(h)
    BY <1>0, <1>3
    DEF ApplyStep, ApplyFails, ChecksPass, ArtifactsPass, StopOld, StopTimesOut, LaunchNew,
        SawHealthy, SetManifest, SetAppliedAt, OpenCaptureLog, StoreCaptureLog, ReleaseLock, Step, End
  <2>5. ~ReplyStep(h)
    BY <1>0, <1>3
    DEF ReplyStep, RespondDigest, RespondRest, CallVllm, ReplyCalls, ProxyAnswered, ProxyFails,
        ProxyAppend, Finish, Step, End
  <2>. QED
    BY <2>1, <2>3, <2>4, <2>5, HandlerFrame
<1>4. ASSUME NEW h \in Handlers, pc'[h] = "append"
      PROVE  req'[h].log <= req'[h].served[1]
  <2>1. CASE pc'[h] = pc[h] /\ req'[h] = req[h]
    BY <1>4, <2>1 DEF AnswerInv
  <2>2. CASE ProxyAnswered(h)
    <3>1. PICK p \in DOMAIN proc : Answers(p) /\ req' = [req EXCEPT ![h] = [req[h] EXCEPT !.served = <<p>>]]
      BY <2>2 DEF ProxyAnswered
    <3>2. req'[h].served[1] = p /\ req'[h].log = req[h].log
      BY <1>0, <3>1 DEF Request
    <3>3. p = vllmProc
      BY <3>1 DEF EngineInv, Alive, Answers
    <3>. QED
      BY <2>2, <3>2, <3>3 DEF AnswerInv, ProxyAnswered, Step
  <2>3. ~Arrive(h) /\ ~ApplyStep(h)
    BY <1>0, <1>4
    DEF Arrive, PostManifest, StartCalls, ProxyStart, ApplyStep, ApplyFails, ChecksPass, ArtifactsPass,
        StopOld, StopTimesOut, LaunchNew, SawHealthy, SetManifest, SetAppliedAt, OpenCaptureLog,
        StoreCaptureLog, ReleaseLock, Step, End
  <2>4. CASE ReplyStep(h) /\ ~ProxyAnswered(h)
    BY <1>0, <1>4, <2>1, <2>4
    DEF ReplyStep, RespondDigest, RespondRest, CallVllm, ReplyCalls, ProxyFails, ProxyAppend,
        Finish, Step, End
  <2>. QED
    BY <2>1, <2>2, <2>3, <2>4, HandlerFrame
<1>. QED
  BY <1>2, <1>3, <1>4 DEF AnswerInv

-----------------------------------------------------------------------------
(* The theorems.                                                            *)

LEMMA InitInv ==
  ASSUME Init
  PROVE  IInv
<1>1. TypeOK
  <2>1. /\ <<>> \in Seq(Process) /\ Len(<<>>) = 0 /\ <<>> \in Seq(CaptureEntry)
        /\ MaxLaunch \in Nat /\ MaxSeq \in Nat /\ BootManifest \in Manifests
    BY ServerAssumption
  <2>. QED
    BY <2>1, IdleType DEF Init, TypeOK, HandlerPcs, MainPcs
<1>2. BootInv /\ BoundInv /\ ProxyInv
  BY DEF Init, BootInv, BoundInv, ProxyInv
<1>3. LockDiscipline
  BY ServerAssumption DEF Init, LockDiscipline, Applying
<1>4. EngineInv /\ EnvInv /\ AppliedInv
  BY DEF Init, EngineInv, EnvInv, LaunchedAsDeclared, AppliedInv, AppliedIsRunning
<1>5. EndpointInv /\ RunInv /\ CaptureInv /\ AnswerInv
  BY DEF Init, AnswerInv, CaptureMatchesEngine, EndpointInv, RunInv, Quiet, CaptureInv, Idle, Applying
<1>. QED
  BY <1>1, <1>2, <1>3, <1>4, <1>5 DEF IInv

LEMMA StepInv ==
  ASSUME IInv, [Next]_vars
  PROVE  IInv'
BY TypeStep, BootStep, BoundStep, ProxyStep, LockStep, EngineStep, EnvStep, AppliedStep,
   EndpointStep, RunStep, CaptureStep, AnswerStep DEF IInv

(* IInv holds in every reachable state, whatever the handlers, manifests    *)
(* and bounds.                                                              *)
THEOREM Invariance == Spec => []IInv
  BY InitInv, StepInv, PTL DEF Spec

(* ServerState and the threads' locals keep their types; in particular the  *)
(* Popen object stored is always that of the latest process launched        *)
(* (_start_vllm, main.py:414-507).                                          *)
THEOREM TypeCorrect == Spec => []TypeOK
<1>1. IInv => TypeOK
  BY DEF IInv
<1>. QED
  BY <1>1, Invariance, PTL

(* A handler is inside _start_vllm exactly when it holds state.lock, on     *)
(* every exception path (_handle_post_manifest, main.py:674-684).           *)
THEOREM LockCorrect == Spec => []LockDiscipline
<1>1. IInv => LockDiscipline
  BY DEF IInv
<1>. QED
  BY <1>1, Invariance, PTL

(* Two vLLM processes never coexist (_start_vllm, main.py:467-482).         *)
THEOREM OneEngineAtATime == Spec => []OneEngine
<1>1. IInv => OneEngine
  BY DEF IInv, EngineInv, OneEngine
<1>. QED
  BY <1>1, Invariance, PTL

(* Every vLLM process runs with the environment of the manifest its command *)
(* line was built from (main.py:442, 478-482).                              *)
THEOREM RunsAsDeclared == Spec => []LaunchedAsDeclared
<1>1. IInv => LaunchedAsDeclared
  BY DEF IInv, EnvInv
<1>. QED
  BY <1>1, Invariance, PTL

(* When applied_at is the stamp of the latest launch, the manifest on       *)
(* display is the one it was launched from (main.py:489-490).               *)
THEOREM StampIsTruthful == Spec => []AppliedIsRunning
<1>1. IInv => AppliedIsRunning
  BY DEF IInv, AppliedInv
<1>. QED
  BY <1>1, Invariance, PTL

(* The main loop never takes a restart for a crash (main.py:1186-1191).     *)
THEOREM RestartIsSafe == Spec => RestartIsNotACrash
<1>1. ASSUME IInv, [Next]_vars, mainPc # "leaving", mainPc' = "leaving"
      PROVE  ~Alive(vllmProc) /\ \A h \in Handlers : pc[h] \notin Applying
  <2>1. MainChecks /\ mainPc' = MainDecides
    <3>1. ~ \E h \in Handlers : Arrive(h) \/ ApplyStep(h) \/ ReplyStep(h)
      BY <1>1
      DEF Arrive, PostManifest, StartCalls, ProxyStart, ApplyStep, ApplyFails, ChecksPass,
          ArtifactsPass, StopOld, StopTimesOut, LaunchNew, SawHealthy, SetManifest, SetAppliedAt,
          OpenCaptureLog, StoreCaptureLog, ReleaseLock, ReplyStep, RespondDigest, RespondRest, CallVllm, ReplyCalls,
          ProxyAnswered, ProxyFails, ProxyAppend, Finish, mainVars
    <3>2. Background
      BY <1>1, <3>1, NextSplit
    <3>. QED
      BY <1>1, <3>2
      DEF Background, Boot, BootRejects, BootLaunch, BootReady, BootFails, BootTimesOut, Vllm, VllmReady, VllmHangs,
          VllmDies, Main, MainWaits, MainWakes, MainChecks, Exit, Shutdown, vars, mainVars
  <2>2. ~Alive(vllmProc)
    BY <1>1, <2>1 DEF MainDecides
  <2>3. \A h \in Handlers : lock # h
    BY <2>1, ServerAssumption DEF MainChecks, LockFree
  <2>. QED
    BY <1>1, <2>2, <2>3 DEF IInv, LockDiscipline
<1>2. IInv /\ [Next]_vars
      => [mainPc # "leaving" /\ mainPc' = "leaving" =>
            /\ ~Alive(vllmProc)
            /\ \A h \in Handlers : pc[h] \notin Applying]_vars
  BY <1>1
<1>. QED
  BY <1>2, Invariance, PTL DEF Spec, RestartIsNotACrash

(* A /run whose process was not replaced was answered by that process only, *)
(* and its bundle names its manifest by run_id and by digest                *)
(* (_handle_post_run, main.py:731-858, reads ServerState without the lock). *)
THEOREM QuietRunsAreAttested == Spec => []QuietRunIsAttested
<1>1. IInv => QuietRunIsAttested
  BY DEF IInv, RunInv, Quiet, QuietRunIsAttested
<1>. QED
  BY <1>1, Invariance, PTL

(* capture.jsonl only grows, except that the handler whose manifest and     *)
(* stamp are the ones on display empties it before it replaces the log; the *)
(* object's constructor and the store of the attribute are two steps        *)
(* (main.py:490-491, 514-536).                                              *)
THEOREM CaptureOnlyGrows == Spec => CaptureAppendOnly
<1> DEFINE Emptied == /\ captureFile' = <<>>
                      /\ captureLog < appliedAt /\ appliedAt = vllmProc
                      /\ proc[vllmProc].manifest = manifest
<1>1. ASSUME IInv, [Next]_vars
      PROVE  Kept \/ Emptied
  <2>0. captureFile \in Seq(CaptureEntry) /\ Len(captureFile) \in Nat
    BY <1>1, LenProperties DEF IInv, TypeOK
  <2>1. CASE captureFile' = captureFile
    BY <2>0, <2>1, SubSeqFull DEF Kept
  <2>2. ASSUME NEW h \in Handlers, ProxyAppend(h), captureFile' # captureFile
        PROVE  /\ Len(captureFile) <= Len(captureFile')
               /\ SubSeq(captureFile', 1, Len(captureFile)) = captureFile
    <3>. DEFINE entry == [log |-> req[h].log, seq |-> req[h].seq, by |-> req[h].served[1]]
    <3>1. captureFile' = Append(captureFile, entry)
      BY <2>2 DEF ProxyAppend
    <3>2. entry \in CaptureEntry
      BY <1>1, <2>2 DEF ProxyAppend, IInv, ProxyInv, CaptureEntry
    <3>. HIDE DEF entry
    <3>3. /\ captureFile' \in Seq(CaptureEntry) /\ Len(captureFile') = Len(captureFile) + 1
          /\ \A i \in 1..Len(captureFile) : captureFile'[i] = captureFile[i]
      BY <2>0, <3>1, <3>2, AppendProperties
    <3>. DEFINE t == SubSeq(captureFile', 1, Len(captureFile))
    <3>4. \A i \in 1..Len(captureFile) : captureFile'[i] \in CaptureEntry
      BY <2>0, <3>3, ElementOfSeq
    <3>5. /\ t \in Seq(CaptureEntry) /\ Len(t) = Len(captureFile)
          /\ \A i \in 1..Len(captureFile) : t[i] = captureFile'[i]
      <4>1. /\ t \in Seq(CaptureEntry)
            /\ Len(t) = IF 1 <= Len(captureFile) THEN Len(captureFile) - 1 + 1 ELSE 0
            /\ \A i \in 1..Len(captureFile) - 1 + 1 : t[i] = captureFile'[1 + i - 1]
        BY <2>0, <3>4, SubSeqProperties
      <4>. HIDE DEF t
      <4>. QED
        BY <2>0, <4>1
    <3>. HIDE DEF t
    <3>6. t = captureFile
      BY <2>0, <3>3, <3>5, SeqEqual
    <3>. QED
      BY <2>0, <3>3, <3>6 DEF t
  <2>3. CASE BootReady
    BY <1>1, <2>1, <2>3 DEF BootReady, IInv, CaptureInv
  <2>4. ASSUME NEW h \in Handlers, OpenCaptureLog(h)
        PROVE  Emptied
    <3>1. /\ captureLog < vllmProc /\ appliedAt = vllmProc
          /\ proc[vllmProc].manifest = req[h].manifest /\ manifest = req[h].manifest
      BY <1>1, <2>4 DEF OpenCaptureLog, Step, IInv, CaptureInv, AppliedInv
    <3>. QED
      BY <2>4, <3>1 DEF OpenCaptureLog
  <2>. QED
    BY <1>1, <2>1, <2>2, <2>3, <2>4, CaptureFrame DEF Kept
<1>2. IInv /\ [Next]_vars => [Kept \/ Emptied]_vars
  BY <1>1
<1>. QED
  BY <1>2, Invariance, PTL DEF Spec, CaptureAppendOnly

(* No response is recorded under the log of an application later than the   *)
(* engine that gave it: do_POST takes the log on arrival (main.py:604-606), *)
(* and the old engine is gone before a new log is made (467-475, 491).      *)
THEOREM CapturedByItsEngine == Spec => []CaptureMatchesEngine
<1>1. IInv => CaptureMatchesEngine
  BY DEF IInv, AnswerInv
<1>. QED
  BY <1>1, Invariance, PTL

-----------------------------------------------------------------------------
(* InferenceServer implements VllmService *)

(* There is at most one process alive, so the engine is the latest one.     *)
EngineFacts ==
    /\ proc = <<>> => EngineState = "empty" /\ EngineConfig = BootManifest
    /\ proc # <<>> =>
          /\ vllmProc \in DOMAIN proc
          /\ EngineState = IF Alive(vllmProc) THEN proc[vllmProc].status ELSE "empty"
          /\ EngineConfig = proc[vllmProc].manifest
          /\ proc[vllmProc].status \in Statuses

LEMMA EngineNow == TypeOK /\ EngineInv => EngineFacts
<1>. SUFFICES ASSUME TypeOK, EngineInv PROVE EngineFacts
  OBVIOUS
<1>1. DOMAIN proc = 1..Len(proc) /\ Len(proc) \in Nat /\ \A p \in DOMAIN proc : proc[p] \in Process
  BY LenProperties, ElementOfSeq DEF TypeOK
<1>2. CASE proc = <<>>
  BY <1>1, <1>2 DEF EngineFacts, EngineState, EngineConfig
<1>3. CASE proc # <<>>
  <2>1. vllmProc \in DOMAIN proc /\ proc[vllmProc].status \in Statuses
    BY <1>1, <1>3, EmptySeq DEF TypeOK, Process
  <2>2. CASE Alive(vllmProc)
    <3>1. (CHOOSE p \in DOMAIN proc : Alive(p)) = vllmProc
      BY <2>1, <2>2 DEF EngineInv
    <3>. QED
      BY <1>3, <2>1, <2>2, <3>1 DEF EngineFacts, EngineState, EngineConfig
  <2>3. CASE ~Alive(vllmProc)
    BY <1>3, <2>1, <2>3 DEF EngineFacts, EngineInv, EngineState, EngineConfig
  <2>. QED
    BY <2>2, <2>3
<1>. QED
  BY <1>2, <1>3

LEMMA EngineNext == TypeOK' /\ EngineInv' => EngineFacts'
  BY EngineNow, PTL

PhaseFacts ==
    /\ mainPc \in {"boot", "boot_await"} => ServerPhase = "booting"
    /\ mainPc \in {"loop", "wait", "locking"} => ServerPhase = "up"
    /\ mainPc = "leaving" => ServerPhase = "leaving"
    /\ mainPc = "stopped" => ServerPhase = "stopping"
    /\ mainPc = "exited" => ServerPhase = "down"

LEMMA PhaseNow == TypeOK => PhaseFacts
  BY DEF TypeOK, MainPcs, ServerPhase, PhaseFacts

LEMMA PhaseNext == TypeOK' => PhaseFacts'
  BY PhaseNow, PTL

LEMMA ServiceInit ==
  ASSUME Init
  PROVE  Service!Init
<1>1. EngineState = "empty" /\ EngineConfig = BootManifest /\ ServerPhase = "booting"
  BY DEF Init, EngineState, EngineConfig, ServerPhase
<1>. QED
  BY <1>1 DEF Init, Service!Init

(* What SetStatus makes of the engine.                                      *)
LEMMA EngineMoves ==
  ASSUME IInv, IInv', NEW p \in DOMAIN proc, Alive(p), NEW status \in Statuses,
         SetStatus(p, status), UNCHANGED vllmProc
  PROVE  /\ p = vllmProc
         /\ EngineState = proc[vllmProc].status
         /\ EngineState' = IF status = "dead" THEN "empty" ELSE status
         /\ EngineConfig' = EngineConfig
<1>1. EngineFacts /\ EngineFacts'
  BY EngineNow, EngineNext DEF IInv
<1>2. /\ proc # <<>> /\ proc' # <<>> /\ p = vllmProc
      /\ proc'[p].status = status /\ proc'[p].manifest = proc[p].manifest
  <2>1. p = vllmProc
    BY DEF IInv, EngineInv
  <2>2. /\ Len(proc') = Len(proc) /\ proc' \in Seq(Process)
        /\ proc'[p].status = status /\ proc'[p].manifest = proc[p].manifest
    BY SetStatusType DEF IInv
  <2>3. proc \in Seq(Process) /\ DOMAIN proc = 1..Len(proc) /\ Len(proc) \in Nat
    BY LenProperties DEF IInv, TypeOK
  <2>4. Len(proc) # 0
    BY <2>3
  <2>. QED
    BY <2>1, <2>2, <2>3, <2>4, EmptySeq
<1>. QED
  BY <1>1, <1>2 DEF EngineFacts, Alive

(* A step of boot, of the child or of the main thread is one of the service.*)
LEMMA ServerStep ==
  ASSUME IInv, IInv', Boot \/ Vllm \/ Main \/ Shutdown
  PROVE  [Service!Next]_(Service!vars)
<1>1. /\ EngineFacts /\ EngineFacts' /\ PhaseFacts /\ PhaseFacts'
      /\ BootInv /\ BootManifest \in Manifests
  BY EngineNow, EngineNext, PhaseNow, PhaseNext, ServerAssumption DEF IInv
<1>2. UNCHANGED proc /\ UNCHANGED vllmProc
      => EngineState' = EngineState /\ EngineConfig' = EngineConfig
  BY DEF EngineState, EngineConfig, Alive
<1>3. CASE BootRejects \/ BootFails
  <2>1. Service!Leave
    BY <1>1, <1>2, <1>3 DEF BootRejects, BootFails, PhaseFacts, Service!Leave, stateVars, procVars
  <2>. QED
    BY <2>1 DEF Service!Next
<1>4. CASE BootLaunch
  <2>1. proc = <<>> /\ proc' # <<>> /\ proc'[1].status = "loading" /\ proc'[1].manifest = BootManifest
    BY <1>1, <1>4 DEF BootLaunch, BootInv
  <2>2. Service!Start(BootManifest)
    BY <1>1, <1>4, <2>1 DEF BootLaunch, EngineFacts, PhaseFacts, Alive, Service!Start, stateVars
  <2>. QED
    BY <1>1, <2>2 DEF Service!Next
<1>5. CASE BootReady
  <2>1. Service!Open
    BY <1>1, <1>2, <1>5
    DEF BootReady, BootInv, EngineFacts, PhaseFacts, Alive, Answers, Service!Open, procVars
  <2>. QED
    BY <2>1 DEF Service!Next
<1>6. CASE BootTimesOut
  <2>1. ServerPhase = "booting" /\ ServerPhase' = "down" /\ UNCHANGED manifest /\ UNCHANGED vllmProc
    BY <1>1, <1>6 DEF BootTimesOut, PhaseFacts, stateVars
  <2>2. CASE Alive(vllmProc)
    <3>1. vllmProc \in DOMAIN proc /\ SetStatus(vllmProc, "killed")
      BY <1>1, <1>6, <2>2 DEF BootTimesOut, BootInv, EngineFacts
    <3>2. /\ EngineState = proc[vllmProc].status
          /\ EngineState' = "killed"
          /\ EngineConfig' = EngineConfig
      BY <2>1, <2>2, <3>1, EngineMoves DEF Statuses
    <3>3. EngineState \in {"loading", "healthy", "hung", "killed"}
      BY <1>1, <2>2, <3>1, <3>2 DEF EngineFacts, Statuses, Alive
    <3>4. Service!Kill \/ Service!Leave
      BY <2>1, <3>2, <3>3 DEF Service!Kill, Service!Leave
    <3>. QED
      BY <3>4 DEF Service!Next
  <2>3. CASE ~Alive(vllmProc)
    <3>1. Service!Leave
      BY <1>2, <1>6, <2>1, <2>3 DEF BootTimesOut, Service!Leave
    <3>. QED
      BY <3>1 DEF Service!Next
  <2>. QED
    BY <2>2, <2>3
<1>7. ASSUME NEW p \in DOMAIN proc, VllmReady(p)
      PROVE  [Service!Next]_(Service!vars)
  <2>1. Alive(p) /\ SetStatus(p, "healthy") /\ UNCHANGED <<manifest, vllmProc, mainPc>>
    BY <1>7 DEF VllmReady, Alive, stateVars, mainVars
  <2>2. EngineState = "loading" /\ EngineState' = "healthy" /\ EngineConfig' = EngineConfig
    BY <1>7, <2>1, EngineMoves DEF VllmReady, Statuses
  <2>3. Service!Ready
    BY <2>1, <2>2 DEF Service!Ready, ServerPhase
  <2>. QED
    BY <2>3 DEF Service!Next
<1>13. ASSUME NEW p \in DOMAIN proc, VllmHangs(p)
      PROVE  [Service!Next]_(Service!vars)
  <2>1. Alive(p) /\ SetStatus(p, "hung") /\ UNCHANGED <<manifest, vllmProc, mainPc>>
    BY <1>13 DEF VllmHangs, Alive, stateVars, mainVars
  <2>2. EngineState \in {"loading", "healthy"} /\ EngineState' = "hung" /\ EngineConfig' = EngineConfig
    BY <1>13, <2>1, EngineMoves DEF VllmHangs, Statuses
  <2>3. Service!Hang
    BY <2>1, <2>2 DEF Service!Hang, ServerPhase
  <2>. QED
    BY <2>3 DEF Service!Next
<1>8. ASSUME NEW p \in DOMAIN proc, VllmDies(p)
      PROVE  [Service!Next]_(Service!vars)
  <2>1. Alive(p) /\ SetStatus(p, "dead") /\ UNCHANGED <<manifest, vllmProc, mainPc>>
    BY <1>8 DEF VllmDies, stateVars, mainVars
  <2>2. /\ p = vllmProc /\ EngineState = proc[vllmProc].status
        /\ EngineState' = "empty" /\ EngineConfig' = EngineConfig
    BY <2>1, EngineMoves DEF Statuses
  <2>3. EngineState # "empty"
    BY <1>1, <2>2 DEF EngineFacts, Statuses
  <2>4. Service!Die
    BY <2>1, <2>2, <2>3 DEF Service!Die, Service!Signalled, ServerPhase
  <2>. QED
    BY <2>4 DEF Service!Next
<1>9. CASE MainWaits \/ MainWakes
  BY <1>1, <1>2, <1>9 DEF MainWaits, MainWakes, PhaseFacts, Service!vars, stateVars, procVars
<1>10. CASE MainChecks
  <2>1. UNCHANGED <<proc, vllmProc, manifest>> /\ ServerPhase = "up"
    BY <1>1, <1>10 DEF MainChecks, PhaseFacts, stateVars, procVars
  <2>2. CASE mainPc' = "loop"
    BY <1>1, <1>2, <2>1, <2>2 DEF PhaseFacts, Service!vars
  <2>3. CASE mainPc' = "leaving" /\ ~Alive(vllmProc)
    <3>1. Service!GiveUp
      BY <1>1, <1>2, <2>1, <2>3 DEF EngineFacts, PhaseFacts, Service!GiveUp
    <3>. QED
      BY <3>1 DEF Service!Next
  <2>. QED
    BY <1>10, <2>2, <2>3 DEF MainChecks, MainDecides
<1>11. CASE Exit
  <2>1. Service!Leave
    BY <1>1, <1>2, <1>11 DEF Exit, PhaseFacts, Service!Leave, stateVars, procVars
  <2>. QED
    BY <2>1 DEF Service!Next
<1>12. CASE Shutdown
  <2>1. /\ ServerPhase \in {"up", "leaving"} /\ ServerPhase' = "stopping"
        /\ UNCHANGED manifest /\ UNCHANGED vllmProc
    BY <1>1, <1>12 DEF Shutdown, PhaseFacts, stateVars
  <2>2. CASE Alive(vllmProc)
    <3>1. PICK status \in {"dead", "killed"} : SetStatus(vllmProc, status)
      BY <1>12, <2>2 DEF Shutdown
    <3>2. vllmProc \in DOMAIN proc
      BY <1>1, <1>12, EngineNow DEF Shutdown, BootInv, EngineFacts, IInv, TypeOK, Launches
    <3>3. /\ EngineState = proc[vllmProc].status
          /\ EngineState' = IF status = "dead" THEN "empty" ELSE status
          /\ EngineConfig' = EngineConfig
      BY <2>1, <2>2, <3>1, <3>2, EngineMoves DEF Statuses
    <3>4. EngineState \in {"loading", "healthy", "hung", "killed"}
      BY <1>1, <2>2, <3>2, <3>3 DEF EngineFacts, Statuses, Alive
    <3>5. Service!Kill \/ Service!Die \/ Service!Stop
      BY <2>1, <3>1, <3>3, <3>4 DEF Service!Kill, Service!Die, Service!Stop, Service!Signalled
    <3>. QED
      BY <3>5 DEF Service!Next
  <2>3. CASE ~Alive(vllmProc)
    <3>1. Service!Stop
      BY <1>2, <1>12, <2>1, <2>3 DEF Shutdown, Service!Stop
    <3>. QED
      BY <3>1 DEF Service!Next
  <2>. QED
    BY <2>2, <2>3
<1>. QED
  BY <1>3, <1>4, <1>5, <1>6, <1>7, <1>8, <1>9, <1>10, <1>11, <1>12, <1>13 DEF Boot, Vllm, Main

(* A handler's step is one of the service only where it stops the engine,   *)
(* starts one or sets the manifest on display.                              *)
LEMMA HandlerStep ==
  ASSUME IInv, IInv', NEW h \in Handlers, Arrive(h) \/ ApplyStep(h) \/ ReplyStep(h)
  PROVE  [Service!Next]_(Service!vars)
<1>1. /\ EngineFacts /\ EngineFacts' /\ PhaseFacts /\ PhaseFacts' /\ TypeOK /\ BootInv
      /\ AppliedInv /\ EngineInv
  BY EngineNow, EngineNext, PhaseNow, PhaseNext DEF IInv
<1>2. CASE UNCHANGED <<proc, vllmProc, manifest, mainPc>>
  BY <1>2 DEF EngineState, EngineConfig, ServerPhase, Alive, Service!vars
<1>3. /\ Arrive(h) => UNCHANGED <<proc, vllmProc, manifest, mainPc>>
      /\ ReplyStep(h) => UNCHANGED <<proc, vllmProc, manifest, mainPc>>
  BY DEF Arrive, PostManifest, StartCalls, ProxyStart, ReplyStep, RespondDigest, RespondRest,
         CallVllm, ReplyCalls, ProxyAnswered, ProxyFails, ProxyAppend, Finish,
         stateVars, procVars, mainVars
<1>4. CASE StopOld(h)
  <2>1. UNCHANGED <<manifest, vllmProc, mainPc>> /\ pc[h] = "stop" /\ Running
    BY <1>4 DEF StopOld, Step, stateVars, mainVars
  <2>2. CASE Alive(vllmProc)
    <3>1. SetStatus(vllmProc, "dead") /\ vllmProc \in DOMAIN proc
      BY <1>1, <1>4, <2>1, <2>2, Serving DEF StopOld, StopIfAlive
    <3>2. EngineState # "empty" /\ EngineState' = "empty" /\ EngineConfig' = EngineConfig
      BY <1>1, <2>1, <2>2, <3>1, EngineMoves DEF Statuses, EngineFacts
    <3>3. Service!Die
      BY <2>1, <3>2 DEF Service!Die, Service!Signalled, ServerPhase
    <3>. QED
      BY <3>3 DEF Service!Next
  <2>. QED
    BY <1>2, <1>4, <2>1, <2>2 DEF StopOld, StopIfAlive
<1>5. CASE StopTimesOut(h)
  <2>1. /\ UNCHANGED <<manifest, vllmProc, mainPc>> /\ pc[h] = "stop" /\ Running
        /\ Alive(vllmProc) /\ SetStatus(vllmProc, "killed")
    BY <1>5 DEF StopTimesOut, stateVars, mainVars
  <2>2. vllmProc \in DOMAIN proc
    BY <1>1, <2>1, Serving
  <2>3. /\ EngineState = proc[vllmProc].status /\ EngineState' = "killed"
        /\ EngineConfig' = EngineConfig
    BY <2>1, <2>2, EngineMoves DEF Statuses
  <2>4. EngineState \in {"loading", "healthy", "hung", "killed"}
    BY <1>1, <2>1, <2>2, <2>3 DEF EngineFacts, Statuses, Alive
  <2>5. ServerPhase' = ServerPhase
    BY <2>1 DEF ServerPhase
  <2>6. CASE EngineState = "killed"
    BY <2>1, <2>3, <2>5, <2>6 DEF Service!vars
  <2>7. CASE EngineState # "killed"
    <3>1. Service!Kill
      BY <2>1, <2>3, <2>4, <2>5, <2>7 DEF Service!Kill, Service!Signalled
    <3>. QED
      BY <3>1 DEF Service!Next
  <2>. QED
    BY <2>6, <2>7
<1>6. CASE LaunchNew(h)
  <2>1. /\ UNCHANGED <<manifest, mainPc>> /\ pc[h] = "launch" /\ Running
        /\ Popen(req[h].manifest)
    BY <1>6 DEF LaunchNew, Step, stateVars, mainVars
  <2>2. req[h].manifest \in Manifests /\ environ \in Manifests
    BY <1>1 DEF TypeOK, Request
  <2>3. EngineState = "empty"
    BY <1>1, <2>1, Serving DEF EngineInv, EngineFacts
  <2>4. ServerPhase' = ServerPhase /\ ServerPhase \notin {"booting", "down"}
    <3>1. ServerPhase' = ServerPhase
      BY <2>1 DEF ServerPhase
    <3>2. mainPc \in MainPcs \ {"boot", "boot_await", "exited"}
      BY <1>1, <2>1, Serving DEF TypeOK
    <3>. QED
      BY <1>1, <3>1, <3>2 DEF PhaseFacts, MainPcs
  <2>5. proc' # <<>> /\ proc'[vllmProc'].status = "loading"
        /\ proc'[vllmProc'].manifest = req[h].manifest
    <3>1. /\ Len(proc') = Len(proc) + 1 /\ vllmProc' = Len(proc) + 1
          /\ proc'[Len(proc) + 1] = [status |-> "loading", manifest |-> req[h].manifest,
                                     env |-> environ]
      BY <1>1, <2>1, <2>2, LaunchTypes DEF Popen, Launched
    <3>2. Len(proc) \in Nat
      BY <1>1, LenProperties DEF TypeOK
    <3>3. proc' # <<>>
      BY <3>1, <3>2, EmptySeq
    <3>. QED
      BY <3>1, <3>3
  <2>6. EngineState' = "loading" /\ EngineConfig' = req[h].manifest
    BY <1>1, <2>5 DEF EngineFacts, Alive
  <2>7. Service!Start(req[h].manifest)
    BY <2>1, <2>3, <2>4, <2>6 DEF Service!Start
  <2>. QED
    BY <2>2, <2>7 DEF Service!Next
<1>7. CASE SetManifest(h)
  <2>1. /\ UNCHANGED <<proc, vllmProc, mainPc>> /\ pc[h] = "set_manifest" /\ Running
        /\ manifest' = req[h].manifest
    BY <1>7 DEF SetManifest, Step, procVars, mainVars
  <2>2. /\ EngineState' = EngineState /\ EngineConfig' = EngineConfig
        /\ ServerPhase' = ServerPhase
    BY <2>1 DEF EngineState, EngineConfig, ServerPhase, Alive
  <2>3. mainPc \in MainPcs \ {"boot", "boot_await", "exited"} /\ vllmProc \in DOMAIN proc
    BY <1>1, <2>1, Serving DEF TypeOK
  <2>4. ServerPhase \notin {"booting", "down"}
    BY <1>1, <2>3 DEF PhaseFacts, MainPcs
  <2>5. EngineConfig = proc[vllmProc].manifest
    <3>1. proc # <<>>
      BY <2>3
    <3>. QED
      BY <1>1, <3>1 DEF EngineFacts
  <2>6. manifest' = EngineConfig
    BY <1>1, <2>1, <2>5 DEF AppliedInv
  <2>7. Service!Publish
    BY <2>2, <2>4, <2>6 DEF Service!Publish
  <2>. QED
    BY <2>7 DEF Service!Next
<1>8. CASE \/ ApplyFails(h) \/ ChecksPass(h) \/ ArtifactsPass(h) \/ SawHealthy(h)
           \/ SetAppliedAt(h) \/ OpenCaptureLog(h) \/ StoreCaptureLog(h) \/ ReleaseLock(h)
  BY <1>2, <1>8 DEF ApplyFails, ChecksPass, ArtifactsPass, SawHealthy, SetAppliedAt,
                    OpenCaptureLog, StoreCaptureLog, ReleaseLock, stateVars, procVars, mainVars
<1>. QED
  BY <1>2, <1>3, <1>4, <1>5, <1>6, <1>7, <1>8 DEF ApplyStep

(* ServerState, state.lock and the Popen objects implement the service with *)
(* one engine slot (main.py:414-507, 650-696, 1082-1193).                   *)
THEOREM ServerRefinesService == Spec => ImplementsService
<1>1. Init => Service!Init
  BY ServiceInit
<1>2. IInv /\ IInv' /\ [Next]_vars => [Service!Next]_(Service!vars)
  <2>. SUFFICES ASSUME IInv, IInv', [Next]_vars PROVE [Service!Next]_(Service!vars)
    OBVIOUS
  <2>1. CASE UNCHANGED vars
    BY <2>1 DEF vars, stateVars, procVars, mainVars, EngineState, EngineConfig, ServerPhase,
                Alive, Service!vars
  <2>2. CASE Boot \/ Vllm \/ Main \/ Shutdown
    BY <2>2, ServerStep
  <2>3. ASSUME NEW h \in Handlers, Arrive(h) \/ ApplyStep(h) \/ ReplyStep(h)
        PROVE  [Service!Next]_(Service!vars)
    BY <2>3, HandlerStep
  <2>. QED
    BY <2>1, <2>2, <2>3 DEF Next
<1>. QED
  BY <1>1, <1>2, Invariance, PTL DEF Spec, ImplementsService, Service!Spec
=============================================================================
