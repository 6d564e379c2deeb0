--------------------------- MODULE RunPipeline ---------------------------
(***************************************************************************)
(* From a manifest to a verify report: modules/pipeline.py and the command  *)
(* line tools it wraps, the resolver, the builder, the runner, the capture  *)
(* converter and the verifier.  One command runs at a time; it may raise    *)
(* or be killed between any two of its writes, and later commands find what *)
(* it left in the output directory.                                         *)
(*                                                                          *)
(* Two front ends share the operations.  In "pipeline" the manifest and the *)
(* lockfile are the fields of a Pipeline object, lost with the process; in  *)
(* "cli" they are files.  A canonical JSON digest is the value digested.    *)
(* What a run computes is a function of the weights it was served: the set  *)
(* of their commit, or the empty set for a mock.                            *)
(***************************************************************************)
EXTENDS ModelResolution, Sequences, SequencesExt

CONSTANTS
    Dirs,        \* output directories
    Hardware,    \* hardware fingerprints
    Expected,    \* the manifest's hardware_profile
    Strict,      \* its runtime.strict_hardware
    Empty,       \* artifacts of length zero, which the schema rejects
    Closures,    \* closure digests a build may find: of a nix query, or given
    Mirrors,     \* mirrors a deployment may have
    Heads,       \* commits the branch may point at when a deployment begins
    MaxRuns,     \* bound: runs and captures begun
    MaxResolves, \* bound: resolutions begun
    MaxMoves     \* bound: moves of the hub's branch

ASSUME PipelineAssumption ==
    /\ Expected \in Hardware /\ Strict \in BOOLEAN
    /\ Heads \subseteq Commits /\ Empty \subseteq Artifact /\ Mirrors \subseteq Mirror
    /\ MaxRuns \in Nat /\ MaxResolves \in Nat /\ MaxMoves \in Nat

VARIABLES
    front,      \* "pipeline" or "cli"
    mirror,     \* the mirror configured
    main,       \* the commit the hub's branch points at
    manifest,   \* the manifest's model part: revision and model artifacts
    lockfile,   \* the lockfile, a set of at most one
    bundles,    \* Pipeline.bundles, as directories
    job,        \* the command under way
    dirs,       \* the files of each output directory
    runs,       \* history: what each run or capture was given and computed
    resolves,   \* resolutions begun
    moves       \* how often the branch has moved

vars == <<front, mirror, main, manifest, lockfile, bundles, job, dirs, runs,
          resolves, moves>>

Idle  == [op |-> "idle"]
Free  == job.op = "idle"

-----------------------------------------------------------------------------
(* Lockfiles *)

\* The manifest as its file has it: some revision, no model artifact yet.
FileManifest == [rev |-> {}, arts |-> {}]

\* validate_with_schema: an artifact of size 0 is refused.
Valid(man) == man.arts \cap Empty = {}

\* The same of a lockfile: its closure digest must look like one.
ValidLock(lock) == lock.closure # "malformed"

\* compute_lockfile_digest: everything but the digest itself.
LockfileDigest(lock) == <<lock.man, lock.arts, lock.closure, lock.atts>>

Sealed(man, arts, closure, atts) ==
    [man |-> man, arts |-> arts, closure |-> closure, atts |-> atts,
     digest |-> <<man, arts, closure, atts>>]

\* resolve_manifest_to_lockfile, the part after the Hugging Face resolution; of
\* the attestations, their types and how many there are of each.
Resolved(man) ==
    Sealed(man, man.arts, "seed", [resolver_provenance |-> 1, build_provenance |-> 0])

\* _resolve_manifest_hf_model: both revisions are the commit, and the model's
\* artifacts take the place of those of an earlier resolution.
Merged(rev, commit, files) == [rev |-> {rev}, arts |-> PinnedArtifacts(commit, files)]

\* For a mutant: an earlier build's attestation is kept.
BuiltOver(lock, closure) ==
    Sealed(lock.man, lock.arts, closure, [lock.atts EXCEPT !.build_provenance = @ + 1])

\* build_runtime: the closure digest, and one build_provenance attestation in
\* the place of those of earlier builds.
Built(lock, closure) ==
    Sealed(lock.man, lock.arts, closure, [lock.atts EXCEPT !.build_provenance = 1])

-----------------------------------------------------------------------------
(* Resolving and building *)

\* resolve() without Hugging Face: the manifest stays, the lockfile is new.
Resolve ==
    /\ Free /\ Valid(manifest)
    /\ lockfile' = {Resolved(manifest)}
    /\ UNCHANGED <<front, mirror, main, manifest, bundles, job, dirs, runs,
                   resolves, moves>>

\* resolve_hf: the commit first ...
ResolveCommit(mode) ==
    /\ Free /\ Valid(manifest) /\ resolves < MaxResolves
    /\ \E c \in CommitAnswers(mode, mirror, main) :
         job' = [op |-> "resolve", mode |-> mode, commit |-> c]
    /\ resolves' = resolves + 1
    /\ UNCHANGED <<front, mirror, main, manifest, lockfile, bundles, dirs,
                   runs, moves>>

\* For a mutant: the branch is asked for again when the files are fetched.
FilesOfBranch == main

\* The files listed and fetched are those of the commit resolved.
FilesCommit == job.commit

\* ... then its files.  A Pipeline's manifest is changed in place, also when
\* the result does not pass the schema; the lockfile only when it does.
ResolveFiles ==
    /\ job.op = "resolve"
    /\ \E files \in InventoryAnswers(job.mode, mirror, FilesCommit) :
         LET man == Merged(job.commit, FilesCommit, files)
         IN  /\ CanMaterialize(job.mode, mirror, FilesCommit, files)
             /\ lockfile' = IF Valid(man) THEN {Resolved(man)} ELSE lockfile
             /\ manifest' = IF front = "pipeline" THEN man ELSE manifest
             /\ job' = IF front = "cli" /\ Valid(man)
                       THEN [op |-> "manifest_out", man |-> man] ELSE Idle
    /\ UNCHANGED <<front, mirror, main, bundles, dirs, runs, resolves, moves>>

\* resolver main(): --manifest-out is written after the lockfile.
WriteManifestOut ==
    /\ job.op = "manifest_out"
    /\ manifest' = job.man
    /\ job' = Idle
    /\ UNCHANGED <<front, mirror, main, lockfile, bundles, dirs, runs,
                   resolves, moves>>

\* The lockfile a command works on: a Pipeline without one resolves first.
CurrentLock == IF lockfile = {} /\ front = "pipeline" /\ Valid(manifest)
               THEN {Resolved(manifest)} ELSE lockfile

\* build_runtime, unless the digest in the lockfile is not its own; a nix
\* query that fails raises before anything is changed.  A closure digest handed
\* over that is not one is refused by the schema after the lockfile has been
\* rewritten in place: a Pipeline keeps the result, the command does not.
Build(closure) ==
    /\ Free
    /\ closure = "malformed" => front = "pipeline"
    /\ \E lock \in CurrentLock :
         /\ ValidLock(lock) /\ lock.digest = LockfileDigest(lock)
         /\ lockfile' = {Built(lock, closure)}
    /\ UNCHANGED <<front, mirror, main, manifest, bundles, job, dirs, runs,
                   resolves, moves>>

-----------------------------------------------------------------------------
(* Running *)

\* _probe_runtime_hardware: a file, the environment, nvidia-smi if enabled, in
\* this order, each a set of at most one; else the manifest's own profile.
Observed(file, env, smi) ==
    CHOOSE h \in Hardware :
        {h} = IF file # {} THEN file ELSE IF env # {} THEN env
              ELSE IF smi # {} THEN smi ELSE {Expected}

Probes == {s \in SUBSET Hardware : Cardinality(s) <= 1}

\* For a mutant: the lockfile's manifest digest is not compared.
AgreesUnbound(man, lock) ==
    /\ ValidLock(lock)
    /\ lock.digest = LockfileDigest(lock)
    /\ man.arts \subseteq lock.arts

\* The runner's checks of lockfile against manifest, in its order.
Agrees(man, lock) ==
    /\ ValidLock(lock)
    /\ lock.man = man
    /\ lock.digest = LockfileDigest(lock)
    /\ man.arts \subseteq lock.arts

\* _hardware_conformance_record: strict_hardware refuses a profile that differs.
Conforms(h) == Strict => h = Expected

\* A Pipeline that has no lockfile builds one before it runs.
RunLock == IF lockfile = {} /\ front = "pipeline" /\ Valid(manifest)
           THEN {Built(Resolved(manifest), "reference")} ELSE lockfile

\* The order in which each command writes its files.
RunWrites     == <<"man", "lock", "net", "tokens", "logits", "bundle">>
CaptureWrites == <<"tokens", "logits", "man", "lock", "bundle">>

\* run(): the checks, up to the first write.
StartRun(dir, hw, net) ==
    /\ Free /\ Valid(manifest) /\ Len(runs) < MaxRuns
    /\ \E lock \in RunLock :
         /\ Agrees(manifest, lock) /\ Conforms(hw)
         /\ job' = [op |-> "run", dir |-> dir, left |-> RunWrites, net |-> net,
                    id |-> Len(runs) + 1]
         /\ runs' = Append(runs, [man |-> manifest, lock |-> lock, hw |-> hw,
                                  out |-> {}, kind |-> "run"])
    /\ lockfile' = RunLock
    /\ UNCHANGED <<front, mirror, main, manifest, bundles, dirs, resolves, moves>>

\* Inference, between the copies and the network record.  vLLM loads the model
\* by name, so it is served the branch's present commit; a mock needs neither.
Infer(mode) ==
    /\ job.op = "run" /\ Head(job.left) = "net" /\ runs[job.id].out = {}
    /\ runs' = [runs EXCEPT ![job.id].out =
                  {IF mode = "mock" THEN {} ELSE {main}}]
    /\ UNCHANGED <<front, mirror, main, manifest, lockfile, bundles, job, dirs,
                   resolves, moves>>

\* capture_to_bundle: outputs and hardware are a server's, started on what the
\* branch points at; the lockfile is not compared with the manifest.
StartCapture(dir, hw) ==
    /\ Free /\ front = "cli" /\ Valid(manifest) /\ Len(runs) < MaxRuns
    /\ \E lock \in lockfile :
         /\ ValidLock(lock)
         /\ runs' = Append(runs, [man |-> manifest, lock |-> lock, hw |-> hw,
                                  out |-> {{main}}, kind |-> "capture"])
    /\ job' = [op |-> "capture", dir |-> dir, left |-> CaptureWrites,
               net |-> "sim", id |-> Len(runs) + 1]
    /\ UNCHANGED <<front, mirror, main, manifest, lockfile, bundles, dirs,
                   resolves, moves>>

Writing == job.op \in {"run", "capture"}

\* The content of a run's file other than the bundle.
Content(id, file) ==
    CASE file = "man"  -> runs[id].man
      [] file = "lock" -> runs[id].lock
      [] OTHER         -> CHOOSE o \in runs[id].out : TRUE

\* The bundle records the digest of each file the command has written.
Bundle(id, files) ==
    [id |-> id, hw |-> runs[id].hw, closure |-> runs[id].lock.closure,
     digests |-> [f \in files |-> Content(id, f)]]

WriteFile ==
    /\ Writing
    /\ LET file == Head(job.left)
       IN  /\ file # "bundle"
           /\ file \notin {"man", "lock"} => runs[job.id].out # {}
           /\ job.net = "loopback" => file # "tokens"
           /\ dirs' = [dirs EXCEPT ![job.dir][file] = {Content(job.id, file)}]
    /\ job' = [job EXCEPT !.left = Tail(@)]
    /\ UNCHANGED <<front, mirror, main, manifest, lockfile, bundles, runs,
                   resolves, moves>>

\* The bundle comes last; a Pipeline remembers where it is.
WriteBundle ==
    /\ Writing /\ job.left = <<"bundle">>
    /\ dirs' = [dirs EXCEPT ![job.dir].bundle =
                  {Bundle(job.id, ToSet(IF job.op = "run" THEN RunWrites
                                        ELSE CaptureWrites) \ {"bundle"})}]
    /\ bundles' = IF front = "pipeline" THEN Append(bundles, job.dir) ELSE bundles
    /\ job' = Idle
    /\ UNCHANGED <<front, mirror, main, manifest, lockfile, runs, resolves, moves>>

\* An exception: the model or the net stack cannot be started, a download
\* fails, or the loopback is read from a backend already closed.
Raise ==
    /\ \/ job.op = "resolve"
       \/ job.op = "run" /\ Head(job.left) = "net" /\ runs[job.id].out = {}
       \/ job.op = "run" /\ Head(job.left) = "tokens" /\ job.net = "loopback"
    /\ job' = Idle
    /\ UNCHANGED <<front, mirror, main, manifest, lockfile, bundles, dirs, runs,
                   resolves, moves>>

\* The process is killed; the next Pipeline is made from the manifest file.
Kill ==
    /\ job' = Idle
    /\ IF front = "pipeline"
       THEN manifest' = FileManifest /\ lockfile' = {} /\ bundles' = <<>>
       ELSE UNCHANGED <<manifest, lockfile, bundles>>
    /\ UNCHANGED <<front, mirror, main, dirs, runs, resolves, moves>>

\* The branch gets another commit.
HubMoves ==
    /\ moves < MaxMoves /\ moves' = moves + 1
    /\ \E c \in Commits \ {main} : main' = c
    /\ UNCHANGED <<front, mirror, manifest, lockfile, bundles, job, dirs, runs,
                   resolves>>

-----------------------------------------------------------------------------
(* Verifying *)

\* _assert_digest on every file a bundle names.
Intact(dir) ==
    \A b \in dirs[dir].bundle :
        \A f \in DOMAIN b.digests : dirs[dir][f] = {b.digests[f]}

\* Whether two directories hold the same outputs.
SameOutputs(d1, d2) == /\ dirs[d1].tokens = dirs[d2].tokens
                       /\ dirs[d1].logits = dirs[d2].logits

\* For a mutant: hardware is compared before the outputs.
StatusHardwareFirst(base, cand, d1, d2) ==
    IF base.hw # cand.hw                THEN "non_conformant_hardware"
    ELSE IF ~SameOutputs(d1, d2)        THEN "mismatch_outputs"
    ELSE IF base.closure # cand.closure THEN "non_conformant_software"
    ELSE "conformant"

\* The comparison of the files, outputs first, then hardware, then software.
Status(base, cand, d1, d2) ==
    IF ~SameOutputs(d1, d2)             THEN "mismatch_outputs"
    ELSE IF base.hw # cand.hw           THEN "non_conformant_hardware"
    ELSE IF base.closure # cand.closure THEN "non_conformant_software"
    ELSE "conformant"

Verify(d1, d2) ==
    /\ Free
    /\ \E base \in dirs[d1].bundle, cand \in dirs[d2].bundle :
         /\ Intact(d1) /\ Intact(d2)
         /\ job' = [op |-> "report", base |-> base.id, cand |-> cand.id,
                     status |-> Status(base, cand, d1, d2)]
    /\ UNCHANGED <<front, mirror, main, manifest, lockfile, bundles, dirs,
                   runs, resolves, moves>>

\* verify() has written its report and returns it.
Reported ==
    /\ job.op = "report"
    /\ job' = Idle
    /\ UNCHANGED <<front, mirror, main, manifest, lockfile, bundles, dirs,
                   runs, resolves, moves>>

\* Pipeline.verify without arguments, as the workflows call it.
VerifyLastTwo ==
    /\ Len(bundles) >= 2
    /\ Verify(bundles[Len(bundles) - 1], bundles[Len(bundles)])

-----------------------------------------------------------------------------

NoFiles == [man |-> {}, lock |-> {}, net |-> {}, tokens |-> {}, logits |-> {},
            bundle |-> {}]

Init ==
    /\ front \in {"pipeline", "cli"} /\ mirror \in Mirrors /\ main \in Heads
    /\ manifest = FileManifest /\ lockfile = {} /\ bundles = <<>> /\ job = Idle
    /\ dirs = [d \in Dirs |-> NoFiles] /\ runs = <<>> /\ resolves = 0 /\ moves = 0

Next ==
    \/ Resolve \/ \E mode \in Modes : ResolveCommit(mode)
    \/ ResolveFiles \/ WriteManifestOut
    \/ \E closure \in Closures \cup {"reference", "malformed"} : Build(closure)
    \/ \E d \in Dirs, file, env, smi \in Probes, net \in {"sim", "loopback"} :
         StartRun(d, Observed(file, env, smi), net)
    \/ \E mode \in {"mock", "vllm"} : Infer(mode)
    \/ \E d \in Dirs, hw \in Hardware : StartCapture(d, hw)
    \/ WriteFile \/ WriteBundle \/ Raise \/ Kill \/ HubMoves
    \/ \E d1, d2 \in Dirs : Verify(d1, d2)
    \/ VerifyLastTwo \/ Reported

Spec == Init /\ [][Next]_vars

-----------------------------------------------------------------------------
(* Properties *)

Manifest == [rev : SUBSET Commits, arts : SUBSET Artifact]

\* A lockfile's digest is its own, and a build is attested once.
Lockfile(lock) ==
    /\ lock.man \in Manifest /\ lock.arts \subseteq Artifact
    /\ lock.closure \in Closures \cup {"seed", "reference", "malformed"}
    /\ lock.digest = LockfileDigest(lock)
    /\ lock.atts \in [{"resolver_provenance", "build_provenance"} -> {0, 1}]
    /\ lock.closure # "seed" => lock.atts.build_provenance = 1

TypeOK ==
    /\ main \in Commits
    /\ manifest \in Manifest
    /\ Cardinality(lockfile) <= 1
    /\ \A lock \in lockfile : Lockfile(lock)
    /\ ToSet(bundles) \subseteq Dirs
    /\ \A d \in Dirs, f \in DOMAIN NoFiles : Cardinality(dirs[d][f]) <= 1

\* Whatever fails, moves or is retried on the way, a manifest and a lockfile
\* never mix commits: every model artifact is of the one revision recorded, and
\* a resolution that succeeded has at least one shard and every other role.
\* (hf_resolution.py resolve_hf_model, resolver main.py _merge_model_artifacts)
OneCommit ==
    \A man \in {manifest} \cup {lock.man : lock \in lockfile} :
        /\ \A a \in man.arts : man.rev = {a.commit}
        /\ man.arts # {} => HasRequired({a.file : a \in man.arts})

\* A runner's bundle stands for a run whose lockfile was resolved from its own
\* manifest; and as long as the digests in it hold, the files beside it are that
\* run's, also after later commands have overwritten part of the directory.  (runner main.py run)
BundleIsBound ==
    \A d \in Dirs : \A b \in dirs[d].bundle :
        LET run == runs[b.id]
        IN  /\ run.kind = "run" => run.lock.man = run.man
            /\ Intact(d) => dirs[d].tokens = run.out /\ dirs[d].lock = {run.lock}

\* A report says what the two runs behind its bundles did, not what the
\* directories happen to hold: outputs that differ are a mismatch, and a
\* conformant pair has equal outputs, hardware and closure, even if a command
\* that failed later left half of its files there.  (verifier main.py verify)
ReportIsOfItsRuns ==
    job.op = "report" =>
        LET base == runs[job.base]
            cand == runs[job.cand]
        IN  /\ (job.status = "mismatch_outputs") = (base.out # cand.out)
            /\ job.status = "conformant" =>
                 base.hw = cand.hw /\ base.lock.closure = cand.lock.closure
=============================================================================
