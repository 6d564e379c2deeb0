--------------------------- MODULE InferenceServer ---------------------------
(***************************************************************************)
(* The deterministic vLLM serving wrapper, modules/inference/server/main.py.*)
(*                                                                         *)
(* One Python process owns one vLLM child process at a time.  It runs      *)
(*   - one thread per HTTP request (ThreadingMixIn): POST /manifest swaps  *)
(*     the child under state.lock, the other endpoints read ServerState    *)
(*     without any lock;                                                   *)
(*   - the main thread, which waits for the child and leaves with it;      *)
(*   - the child itself, which loads, answers and dies on its own.         *)
(* Every assignment to a ServerState attribute that a lock-free reader can *)
(* see is an action of its own.                                            *)
(***************************************************************************)
EXTENDS Naturals, Sequences

CONSTANTS
    Handlers,     \* HTTP handler threads that may be live at once
    Manifests,    \* the manifests clients post
    BootManifest, \* the manifest given with --manifest
    ModelOf,      \* manifest -> model.source, the model name vLLM answers to
    Audited,      \* manifests with audit.token_commitment.enabled
    Endpoints,    \* the endpoints clients call
    NumRequests,  \* len(manifest.requests)
    MaxLaunch,    \* bound: vLLM processes ever launched
    MaxSeq,       \* bound: proxied requests per capture log
    NoHandler     \* nobody holds state.lock

ASSUME ServerAssumption ==
    /\ BootManifest \in Manifests
    /\ DOMAIN ModelOf = Manifests
    /\ Audited \subseteq Manifests
    /\ Endpoints \subseteq {"/manifest", "/run", "/replay", "/v1", "proxy"}
    /\ NumRequests \in Nat \ {0}
    /\ MaxLaunch \in Nat \ {0}
    /\ MaxSeq \in Nat
    /\ NoHandler \notin Handlers

VARIABLES
    manifest,    \* state.manifest
    appliedAt,   \* state.applied_at: the launch whose application stamped it
    captureLog,  \* state.capture_log: the launch whose application created it
    vllmProc,    \* state.vllm_proc: index into proc, 0 before the boot launch
    lock,        \* state.lock
    environ,     \* the manifest whose knobs os.environ carries
    proc,        \* every vLLM process launched, in launch order
    captureFile, \* capture.jsonl
    nextSeq,     \* CaptureLog._seq of each log instance
    pc,          \* where each handler thread is
    req,         \* local variables of each handler thread
    mainPc,      \* where the main thread is
    mainWait     \* the process the main thread's wait() is blocked on

stateVars == <<manifest, appliedAt, captureLog>>
procVars == <<vllmProc, environ, proc>>
captureVars == <<captureFile, nextSeq>>
mainVars == <<mainPc, mainWait>>
vars == <<stateVars, procVars, captureVars, mainVars, lock, pc, req>>

-----------------------------------------------------------------------------
(* Processes and threads. *)

Launches == 1..MaxLaunch

(* A hung process listens on its port and answers nothing.                  *)
Statuses == {"loading", "healthy", "hung", "killed", "dead"}

Process == [status : Statuses, manifest : Manifests, env : Manifests]

Alive(p) == proc[p].status # "dead"             \* Popen.poll() is None
Answers(p) == proc[p].status = "healthy"        \* it answers on vllm_port
Hung == vllmProc # 0 /\ proc[vllmProc].status = "hung"

(* The stages of _start_vllm, all inside the lock. *)
Applying == {"checks", "artifacts", "stop", "launch", "await",
             "set_manifest", "set_applied", "set_capture", "store_capture",
             "release"}

HandlerPcs == Applying \cup
    {"idle", "respond", "respond_rest", "calling", "proxying", "append", "replied"}

(* A handler's locals: the endpoint, the manifest posted, the fields read   *)
(* for the reply (runId stands for everything read with the snapshot), the  *)
(* capture log and sequence number of a proxied request, the processes that *)
(* answered it (0 for an error).  For /run and /replay, at and began only   *)
(* record applied_at and vllm_proc at the start, for the properties.        *)
Idle == [endpoint |-> "none", manifest |-> BootManifest, digest |-> BootManifest,
         runId |-> BootManifest, at |-> 0, log |-> 0, seq |-> 0,
         served |-> <<>>, began |-> 0]

MainPcs == {"boot", "boot_await", "loop", "wait", "locking",
            "leaving", "stopped", "exited"}

(* A new request is accepted from the boot until proxy.shutdown().          *)
Accepting == mainPc \in {"loop", "wait", "locking", "leaving"}
Running == mainPc # "exited"

(* A live handler thread moves on; ends.                                    *)
Step(h, from, to) == Running /\ pc[h] = from /\ pc' = [pc EXCEPT ![h] = to]
End(h) == pc' = [pc EXCEPT ![h] = "idle"] /\ req' = [req EXCEPT ![h] = Idle]
SetStatus(p, status) == proc' = [proc EXCEPT ![p].status = status]

(* state.lock would be acquired; it is released.  Mutants: nobody asks;     *)
(* a path without the finally clause.                                       *)
LockIgnored == TRUE
LockFree == lock = NoHandler
ReleaseForgotten == UNCHANGED lock
Release == lock' = NoHandler

-----------------------------------------------------------------------------
(* Boot: main() up to the point where the proxy serves. *)

Init ==
    /\ manifest = BootManifest
    /\ appliedAt = 0
    /\ captureLog = 0
    /\ vllmProc = 0
    /\ lock = NoHandler
    /\ environ = BootManifest
    /\ proc = <<>>
    /\ captureFile = <<>>
    /\ nextSeq = [l \in Launches |-> 0]
    /\ pc = [h \in Handlers |-> "idle"]
    /\ req = [h \in Handlers |-> Idle]
    /\ mainPc = "boot"
    /\ mainWait = 0

(* Boot validation or strict hardware conformance fails: exit 1. *)
BootRejects ==
    /\ mainPc = "boot"
    /\ mainPc' = "exited"
    /\ UNCHANGED <<stateVars, procVars, captureVars, mainWait, lock, pc, req>>

BootLaunch ==
    /\ mainPc = "boot"
    /\ mainPc' = "boot_await"
    /\ environ' = BootManifest
    /\ proc' = <<[status |-> "loading", manifest |-> BootManifest, env |-> environ']>>
    /\ vllmProc' = 1
    /\ UNCHANGED <<stateVars, captureVars, mainWait, lock, pc, req>>

(* _wait_for_vllm succeeds; ServerState and its CaptureLog are created.     *)
BootReady ==
    /\ mainPc = "boot_await"
    /\ Answers(vllmProc)
    /\ mainPc' = "loop"
    /\ appliedAt' = vllmProc
    /\ captureLog' = vllmProc
    /\ captureFile' = <<>>
    /\ UNCHANGED <<manifest, procVars, nextSeq, mainWait, lock, pc, req>>

(* The capture file or the listening socket cannot be made: the exception   *)
(* ends the server and leaves vLLM as it is.                                *)
BootFails ==
    /\ mainPc = "boot_await"
    /\ Answers(vllmProc)
    /\ mainPc' = "exited"
    /\ UNCHANGED <<stateVars, procVars, captureVars, mainWait, lock, pc, req>>

(* _wait_for_vllm gives up: terminate() without a wait, exit 1.             *)
BootTimesOut ==
    /\ mainPc = "boot_await"
    /\ mainPc' = "exited"
    /\ IF Alive(vllmProc) THEN SetStatus(vllmProc, "killed") ELSE UNCHANGED proc
    /\ UNCHANGED <<stateVars, vllmProc, environ, captureVars, mainWait, lock, pc, req>>

-----------------------------------------------------------------------------
(* The vLLM child. *)

VllmReady(p) ==
    /\ proc[p].status = "loading"
    /\ SetStatus(p, "healthy")
    /\ UNCHANGED <<stateVars, vllmProc, environ, captureVars, mainVars, lock, pc, req>>

(* It accepts connections and leaves them unanswered.                       *)
VllmHangs(p) ==
    /\ proc[p].status \in {"loading", "healthy"}
    /\ SetStatus(p, "hung")
    /\ UNCHANGED <<stateVars, vllmProc, environ, captureVars, mainVars, lock, pc, req>>

(* It exits: a crash at any time, or the end of a pending SIGKILL.          *)
VllmDies(p) ==
    /\ Alive(p)
    /\ SetStatus(p, "dead")
    /\ UNCHANGED <<stateVars, vllmProc, environ, captureVars, mainVars, lock, pc, req>>

-----------------------------------------------------------------------------
(* POST /manifest: _handle_post_manifest and _start_vllm. *)

(* The non-blocking acquire.  When the lock is taken the reply is 409 and   *)
(* nothing changes, as after a body that does not parse (400, 422).         *)
PostManifest(h, m) ==
    /\ "/manifest" \in Endpoints
    /\ Accepting /\ Step(h, "idle", "checks")
    /\ Len(proc) < MaxLaunch
    /\ LockFree
    /\ lock' = h
    /\ req' = [req EXCEPT ![h] = [Idle EXCEPT !.endpoint = "/manifest", !.manifest = m]]
    /\ UNCHANGED <<stateVars, procVars, captureVars, mainVars>>

(* An exception inside _start_vllm: reply 500; the finally clause releases  *)
(* the lock.  Closure, request or hardware check; artifact digest; Popen;   *)
(* vLLM not healthy in time, in which case the new process is left as it is;*)
(* mkdir or open in CaptureLog, when the new manifest is already applied.   *)
ApplyFails(h) ==
    /\ Running /\ pc[h] \in {"checks", "artifacts", "launch", "await", "set_capture"}
    /\ Release
    /\ End(h)
    /\ UNCHANGED <<stateVars, procVars, captureVars, mainVars>>

(* _verify_closure, _validate_requests and _check_hardware pass, then       *)
(* _set_deterministic_env rewrites os.environ.                              *)
ChecksPass(h) ==
    /\ Step(h, "checks", "artifacts")
    /\ environ' = req[h].manifest
    /\ UNCHANGED <<stateVars, vllmProc, proc, captureVars, mainVars, lock, req>>

ArtifactsPass(h) ==
    /\ Step(h, "artifacts", "stop")
    /\ UNCHANGED <<stateVars, procVars, captureVars, mainVars, lock, req>>

StopIfAlive(p) == IF Alive(p) THEN SetStatus(p, "dead") ELSE UNCHANGED proc

(* Terminate the old process and wait until it is gone.  Mutant: it is not  *)
(* stopped.                                                                 *)
StopOldSkipped(h) ==
    /\ Step(h, "stop", "launch")
    /\ UNCHANGED <<stateVars, procVars, captureVars, mainVars, lock, req>>

StopOld(h) ==
    /\ Step(h, "stop", "launch")
    /\ StopIfAlive(vllmProc)
    /\ UNCHANGED <<stateVars, vllmProc, environ, captureVars, mainVars, lock, req>>

(* Mutant of StopTimesOut: the second TimeoutExpired is swallowed.          *)
StopTimesOutIgnored(h) ==
    /\ Step(h, "stop", "launch")
    /\ Alive(vllmProc)
    /\ SetStatus(vllmProc, "killed")
    /\ UNCHANGED <<stateVars, vllmProc, environ, captureVars, mainVars, lock, req>>

(* kill() and the second wait(timeout=5) expires too: TimeoutExpired, 500.  *)
StopTimesOut(h) ==
    /\ Running /\ pc[h] = "stop"
    /\ Alive(vllmProc)
    /\ SetStatus(vllmProc, "killed")
    /\ Release
    /\ End(h)
    /\ UNCHANGED <<stateVars, vllmProc, environ, captureVars, mainVars>>

(* Popen: the child inherits os.environ as it is now.  Mutant: the Popen    *)
(* object is not stored.                                                    *)
Launched(m) == Append(proc, [status |-> "loading", manifest |-> m, env |-> environ])
PopenUnstored(m) == proc' = Launched(m) /\ UNCHANGED vllmProc
Popen(m) == proc' = Launched(m) /\ vllmProc' = Len(proc) + 1

(* Mutants of LaunchNew: applied_at is stamped, or the capture log reset,   *)
(* as soon as the process is launched.                                      *)
LaunchNewStamped(h) ==
    /\ Step(h, "launch", "await")
    /\ Popen(req[h].manifest)
    /\ appliedAt' = vllmProc'
    /\ UNCHANGED <<manifest, captureLog, environ, captureVars, mainVars, lock, req>>

LaunchNewTruncating(h) ==
    /\ Step(h, "launch", "await")
    /\ Popen(req[h].manifest)
    /\ captureFile' = <<>>
    /\ UNCHANGED <<stateVars, environ, nextSeq, mainVars, lock, req>>

LaunchNew(h) ==
    /\ Step(h, "launch", "await")
    /\ Popen(req[h].manifest)
    /\ UNCHANGED <<stateVars, environ, captureVars, mainVars, lock, req>>

(* GET /health on the port answers 200, whichever process holds the port.   *)
SawHealthy(h) ==
    /\ Step(h, "await", "set_manifest")
    /\ \E p \in DOMAIN proc : Answers(p)
    /\ UNCHANGED <<stateVars, procVars, captureVars, mainVars, lock, req>>

SetManifest(h) ==
    /\ Step(h, "set_manifest", "set_applied")
    /\ manifest' = req[h].manifest
    /\ UNCHANGED <<appliedAt, captureLog, procVars, captureVars, mainVars, lock, req>>

SetAppliedAt(h) ==
    /\ Step(h, "set_applied", "set_capture")
    /\ appliedAt' = vllmProc
    /\ UNCHANGED <<manifest, captureLog, procVars, captureVars, mainVars, lock, req>>

(* A new CaptureLog on the same path: _seq is 0 and the file is truncated,  *)
(* while the old object is still the one every new request takes ...        *)
OpenCaptureLog(h) ==
    /\ Step(h, "set_capture", "store_capture")
    /\ captureFile' = <<>>
    /\ UNCHANGED <<stateVars, procVars, nextSeq, mainVars, lock, req>>

(* ... until the attribute is stored.                                       *)
StoreCaptureLog(h) ==
    /\ Step(h, "store_capture", "release")
    /\ captureLog' = vllmProc
    /\ UNCHANGED <<manifest, appliedAt, procVars, captureVars, mainVars, lock, req>>

ReleaseLock(h) ==
    /\ Step(h, "release", "respond")
    /\ Release
    /\ UNCHANGED <<stateVars, procVars, captureVars, mainVars, req>>

(* The 200 body is read from ServerState after the lock is released: first  *)
(* manifest_digest, then run_id and applied_at.                             *)
RespondDigest(h) ==
    /\ Step(h, "respond", "respond_rest")
    /\ req' = [req EXCEPT ![h].digest = manifest]
    /\ UNCHANGED <<stateVars, procVars, captureVars, mainVars, lock>>

RespondRest(h) ==
    /\ Step(h, "respond_rest", "replied")
    /\ req' = [req EXCEPT ![h].runId = manifest, ![h].at = appliedAt]
    /\ UNCHANGED <<stateVars, procVars, captureVars, mainVars, lock>>

-----------------------------------------------------------------------------
(* POST /run and POST /replay: readers of ServerState without the lock. *)

(* The manifest is snapshotted once, before the first vLLM call.  /replay   *)
(* answers 409 and changes nothing when the manifest is not audited.        *)
StartCalls(h, endpoint) ==
    /\ endpoint \in Endpoints \cap {"/run", "/replay"}
    /\ Accepting /\ Step(h, "idle", "calling")
    /\ endpoint = "/replay" => manifest \in Audited
    /\ req' = [req EXCEPT ![h] = [Idle EXCEPT !.endpoint = endpoint,
                                              !.runId = manifest, !.at = appliedAt,
                                              !.began = vllmProc]]
    /\ UNCHANGED <<stateVars, procVars, captureVars, mainVars, lock>>

CallsWanted(h) == IF req[h].endpoint = "/run" THEN NumRequests ELSE 1

(* _call_vllm_chat: whoever listens on the port answers, if it serves the   *)
(* model asked for; any failure is recorded and the loop goes on.           *)
CallVllm(h) ==
    /\ Running
    /\ pc[h] = "calling"
    /\ Len(req[h].served) < CallsWanted(h)
    /\ \E by \in {0} \cup {p \in DOMAIN proc : /\ Answers(p)
                                               /\ ModelOf[proc[p].manifest] = ModelOf[req[h].runId]} :
          req' = [req EXCEPT ![h].served = Append(@, by)]
    /\ UNCHANGED <<stateVars, procVars, captureVars, mainVars, lock, pc>>

(* The bundle: run_id comes from the snapshot, manifest_digest from         *)
(* ServerState as it is at the end.                                         *)
ReplyCalls(h) ==
    /\ Step(h, "calling", "replied")
    /\ Len(req[h].served) = CallsWanted(h)
    /\ req' = [req EXCEPT ![h].digest = manifest]
    /\ UNCHANGED <<stateVars, procVars, captureVars, mainVars, lock>>

-----------------------------------------------------------------------------
(* Any other POST: the capturing reverse proxy. *)

ProxyStart(h, endpoint) ==
    /\ endpoint \in Endpoints \cap {"/v1", "proxy"}
    /\ Accepting /\ Step(h, "idle", "proxying")
    /\ nextSeq[captureLog] < MaxSeq
    /\ nextSeq' = [nextSeq EXCEPT ![captureLog] = @ + 1]
    /\ req' = [req EXCEPT ![h] = [Idle EXCEPT !.endpoint = endpoint, !.log = captureLog,
                                              !.seq = nextSeq'[captureLog]]]
    /\ UNCHANGED <<stateVars, procVars, captureFile, mainVars, lock>>

ProxyAnswered(h) ==
    /\ Step(h, "proxying", "append")
    /\ \E p \in DOMAIN proc : /\ Answers(p)
                              /\ req' = [req EXCEPT ![h].served = <<p>>]
    /\ UNCHANGED <<stateVars, procVars, captureVars, mainVars, lock>>

(* URLError: 502, nothing is captured and the sequence number is lost.      *)
ProxyFails(h) ==
    /\ Running /\ pc[h] = "proxying"
    /\ End(h)
    /\ UNCHANGED <<stateVars, procVars, captureVars, mainVars, lock>>

(* CaptureLog.append through the reference taken on arrival, then the reply.*)
ProxyAppend(h) ==
    /\ Running /\ pc[h] = "append"
    /\ captureFile' = IF req[h].endpoint = "/v1"
                      THEN Append(captureFile, [log |-> req[h].log, seq |-> req[h].seq,
                                                by |-> req[h].served[1]])
                      ELSE captureFile
    /\ End(h)
    /\ UNCHANGED <<stateVars, procVars, nextSeq, mainVars, lock>>

(* The reply is on the wire and the handler thread ends. *)
Finish(h) ==
    /\ Running /\ pc[h] = "replied"
    /\ End(h)
    /\ UNCHANGED <<stateVars, procVars, captureVars, mainVars, lock>>

-----------------------------------------------------------------------------
(* The main thread after boot. *)

MainWaits ==
    /\ mainPc = "loop"
    /\ mainWait' = vllmProc
    /\ mainPc' = "wait"
    /\ UNCHANGED <<stateVars, procVars, captureVars, lock, pc, req>>

MainWakes ==
    /\ mainPc = "wait"
    /\ ~Alive(mainWait)
    /\ mainPc' = "locking"
    /\ UNCHANGED <<stateVars, procVars, captureVars, mainWait, lock, pc, req>>

(* Mutant of MainDecides: the loop never breaks.                            *)
MainStays == "loop"
MainDecides == IF Alive(vllmProc) THEN "loop" ELSE "leaving"

(* with state.lock: a live process means a restart happened; otherwise the  *)
(* loop breaks and main returns the child's exit code.                      *)
MainChecks ==
    /\ mainPc = "locking"
    /\ LockFree
    /\ mainPc' = MainDecides
    /\ UNCHANGED <<stateVars, procVars, captureVars, mainWait, lock, pc, req>>

(* SIGINT or SIGTERM: stop accepting, then stop the child ServerState names.*)
(* The lock is not taken; after a kill() there is no second wait.           *)
Shutdown ==
    /\ mainPc \in {"loop", "wait", "locking", "leaving"}
    /\ mainPc' = "stopped"
    /\ IF Alive(vllmProc)
       THEN \E status \in {"dead", "killed"} : SetStatus(vllmProc, status)
       ELSE UNCHANGED proc
    /\ UNCHANGED <<stateVars, vllmProc, environ, captureVars, mainWait, lock, pc, req>>

(* The interpreter exits and the daemon handler threads die with it.        *)
Exit ==
    /\ mainPc \in {"leaving", "stopped"}
    /\ mainPc' = "exited"
    /\ UNCHANGED <<stateVars, procVars, captureVars, mainWait, lock, pc, req>>

-----------------------------------------------------------------------------

Main == MainWaits \/ MainWakes \/ MainChecks \/ Exit

Boot == BootRejects \/ BootLaunch \/ BootReady \/ BootFails \/ BootTimesOut

Vllm == \E p \in DOMAIN proc : VllmReady(p) \/ VllmHangs(p) \/ VllmDies(p)

(* The steps a handler thread takes on its own once it has a request.       *)
ApplyStep(h) ==
    \/ ApplyFails(h) \/ ChecksPass(h) \/ ArtifactsPass(h) \/ StopOld(h)
    \/ StopTimesOut(h) \/ LaunchNew(h) \/ SawHealthy(h) \/ SetManifest(h)
    \/ SetAppliedAt(h) \/ OpenCaptureLog(h) \/ StoreCaptureLog(h) \/ ReleaseLock(h)

ReplyStep(h) ==
    \/ RespondDigest(h) \/ RespondRest(h) \/ CallVllm(h)
    \/ ReplyCalls(h) \/ ProxyAnswered(h) \/ ProxyFails(h) \/ ProxyAppend(h)
    \/ Finish(h)

Arrive(h) ==
    \/ \E m \in Manifests : PostManifest(h, m)
    \/ \E e \in {"/run", "/replay"} : StartCalls(h, e)
    \/ \E e \in {"/v1", "proxy"} : ProxyStart(h, e)

Next ==
    \/ Boot
    \/ Vllm
    \/ Main
    \/ Shutdown
    \/ \E h \in Handlers : Arrive(h) \/ ApplyStep(h) \/ ReplyStep(h)

Spec == Init /\ [][Next]_vars

(* A health probe without a socket timeout is blocked in urlopen for as     *)
(* long as the process it asks is hung.                                     *)
Blocked(h) == pc[h] = "await" /\ Hung

(* Threads run: every handler inside _start_vllm makes progress (each of    *)
(* its waits has a timeout, but for a health probe that is blocked) and so  *)
(* does the main thread, whose blocking acquire is not overtaken forever.   *)
(* Clients, signals, crashes and vLLM's loading are under no obligation; a  *)
(* killed process does die.                                                 *)
Fairness ==
    /\ \A h \in Handlers : WF_vars(~Blocked(h) /\ ApplyStep(h))
    /\ WF_vars(~(mainPc = "boot_await" /\ Hung) /\ Boot)
    /\ WF_vars(MainWaits) /\ WF_vars(MainWakes) /\ WF_vars(Exit)
    /\ SF_vars(MainChecks)
    /\ \A p \in Launches : WF_vars(p \in DOMAIN proc /\ proc[p].status = "killed" /\ VllmDies(p))

FairSpec == Spec /\ Fairness

-----------------------------------------------------------------------------
(* Properties. *)

CaptureEntry == [log : Launches, seq : 1..MaxSeq, by : Launches]

Request == [endpoint : Endpoints \cup {"none"}, manifest : Manifests, digest : Manifests,
            runId : Manifests, at : 0..MaxLaunch, log : 0..MaxLaunch, seq : 0..MaxSeq,
            served : Seq(0..MaxLaunch), began : 0..MaxLaunch]

TypeOK ==
    /\ manifest \in Manifests
    /\ proc \in Seq(Process)
    /\ Len(proc) <= MaxLaunch
    /\ vllmProc = Len(proc)
    /\ appliedAt \in 0..vllmProc
    /\ captureLog \in 0..vllmProc
    /\ lock \in Handlers \cup {NoHandler}
    /\ environ \in Manifests
    /\ captureFile \in Seq(CaptureEntry)
    /\ nextSeq \in [Launches -> 0..MaxSeq]
    /\ pc \in [Handlers -> HandlerPcs]
    /\ req \in [Handlers -> Request]
    /\ mainPc \in MainPcs
    /\ mainWait \in 0..vllmProc

(* state.lock: a handler is inside _start_vllm exactly when it holds the    *)
(* lock, on every path in and out of it, the exceptions included.           *)
LockDiscipline ==
    \A h \in Handlers : pc[h] \in Applying <=> lock = h

(* Two vLLM processes never coexist: they would fight for the GPU and for   *)
(* the port, and either could answer.  Needs the lock, the wait after       *)
(* terminate, and the abort when even SIGKILL does not end the old one.     *)
OneEngine ==
    \A p, q \in DOMAIN proc : Alive(p) /\ Alive(q) => p = q

(* Every vLLM process runs with the environment (CUBLAS_WORKSPACE_CONFIG,   *)
(* VLLM_BATCH_INVARIANT, ...) of the manifest its command line was built    *)
(* from, although os.environ is process-wide, is set several steps before   *)
(* Popen and is left changed by applications that fail in between.          *)
LaunchedAsDeclared ==
    \A p \in DOMAIN proc : proc[p].env = proc[p].manifest

(* Once applied_at carries the stamp of the latest launch, the manifest on  *)
(* display is the one vLLM was launched from.  (The converse fails: a       *)
(* launch that times out leaves the previous manifest on display.)          *)
AppliedIsRunning ==
    appliedAt = vllmProc /\ vllmProc # 0 => proc[vllmProc].manifest = manifest

(* A /run that began with its manifest applied to the current process, and  *)
(* during which no process was launched, was answered only from that        *)
(* manifest, and its bundle names that manifest by run_id and by digest.    *)
QuietRunIsAttested ==
    \A h \in Handlers :
        /\ pc[h] = "replied" /\ req[h].endpoint = "/run"
        /\ req[h].began = vllmProc /\ req[h].at = req[h].began
        => /\ req[h].digest = req[h].runId
           /\ \A i \in DOMAIN req[h].served :
                 req[h].served[i] # 0 => proc[req[h].served[i]].manifest = req[h].runId

(* capture.jsonl is appended to, or emptied by the handler that has applied *)
(* its manifest and not yet replaced the log: an application that fails on  *)
(* its way there loses no captured request, whatever it has already done.   *)
Kept == /\ Len(captureFile) <= Len(captureFile')
        /\ SubSeq(captureFile', 1, Len(captureFile)) = captureFile

CaptureAppendOnly ==
    [][\/ Kept
       \/ /\ captureFile' = <<>>
          /\ captureLog < appliedAt /\ appliedAt = vllmProc
          /\ proc[vllmProc].manifest = manifest]_vars

(* No response is recorded under the log of an application later than the   *)
(* engine that gave it: a request takes its log on arrival, without the     *)
(* lock, and is answered by whatever engine has the port by then.  (The     *)
(* reverse happens: the old log records what the new engine answers until   *)
(* the attribute is stored.)                                                *)
CaptureMatchesEngine ==
    \A i \in DOMAIN captureFile : captureFile[i].log <= captureFile[i].by

(* The main loop gives up only when vLLM is gone and no handler is about to *)
(* bring it back: a restart is never mistaken for a crash, however long the *)
(* old process has been dead and the new one not launched.                  *)
RestartIsNotACrash ==
    [][mainPc # "leaving" /\ mainPc' = "leaving" =>
         /\ ~Alive(vllmProc)
         /\ \A h \in Handlers : pc[h] \notin Applying]_vars

(* No exception path leaks the lock: a handler that holds it releases it    *)
(* again, unless the engine it waits for stays hung for ever.               *)
LockIsReleased ==
    \A h \in Handlers : []<>(lock # h \/ ~Running) \/ <>[]Blocked(h)

(* The server does not linger without an engine: when vLLM is dead, either  *)
(* a new process comes up or the server exits, for its supervisor to see.   *)
NoZombieServer ==
    LET engineGone == vllmProc # 0 /\ ~Alive(vllmProc)
    IN  engineGone ~> ~engineGone \/ ~Running

(* ServerState, the lock and the process objects implement the one-slot     *)
(* service.                                                                 *)
EngineState ==
    IF \E p \in DOMAIN proc : Alive(p)
    THEN proc[CHOOSE p \in DOMAIN proc : Alive(p)].status
    ELSE "empty"

EngineConfig == IF proc = <<>> THEN BootManifest ELSE proc[vllmProc].manifest

ServerPhase ==
    CASE mainPc \in {"boot", "boot_await"} -> "booting"
      [] mainPc \in {"loop", "wait", "locking"} -> "up"
      [] mainPc = "leaving" -> "leaving"
      [] mainPc = "stopped" -> "stopping"
      [] OTHER -> "down"

Service == INSTANCE VllmService WITH
    engine <- EngineState,
    config <- EngineConfig,
    published <- manifest,
    server <- ServerPhase

ImplementsService == Service!Spec
=============================================================================
