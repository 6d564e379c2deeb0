--------------------------- MODULE PipelineProofs ---------------------------
(***************************************************************************)
(* Proofs about the pipeline and the stack its responses are sent through.  *)
(* About RunPipeline: whatever fails, is killed or moves between two writes, *)
(* the types hold, no commits are mixed, a bundle whose digests hold has    *)
(* its own run's files beside it, and a report is about the runs behind it. *)
(* About NetStack, in the second half: for any payloads, segment size and   *)
(* counter widths the types hold with the account of mbufs, the frames of a *)
(* connection rebuild what it was given, and the capture is what went out.  *)
(***************************************************************************)
EXTENDS RunPipeline, NetStack, SequenceTheorems, FiniteSetTheorems, WellFoundedInduction,
        TLAPS

-----------------------------------------------------------------------------
(* The inductive invariant *)

IsSeq(s) == s \in Seq({s[i] : i \in DOMAIN s})

\* A manifest of one commit, complete or without a model.
Good(man) ==
    /\ \A a \in man.arts : man.rev = {a.commit}
    /\ man.arts # {} => HasRequired({a.file : a \in man.arts})

CommitInv ==
    /\ Good(manifest)
    /\ \A lock \in lockfile : Good(lock.man)
    /\ job.op = "manifest_out" => Good(job.man)

FileNames == {"man", "lock", "net", "tokens", "logits", "bundle"}

\* One output at most, and a run's lockfile is that of its manifest.
GoodRun(run) ==
    /\ DOMAIN run = {"man", "lock", "hw", "out", "kind"}
    /\ run.out = {} \/ \E o \in run.out : run.out = {o}
    /\ run.kind = "run" => run.lock.man = run.man

RunInv == IsSeq(runs) /\ \A i \in 1 .. Len(runs) : GoodRun(runs[i])

DirInv == DOMAIN dirs = Dirs /\ \A d \in Dirs : DOMAIN dirs[d] = FileNames

NetIsLeft == \E i \in 1 .. Len(job.left) : job.left[i] = "net"

\* The bundle is the last file that is left to write.
BundleIsLast == job.left \in Seq(FileNames) /\ job.left # <<>>
                /\ job.left[Len(job.left)] = "bundle"

\* The network record comes after the outputs, everything else after it.
JobInv ==
    Writing =>
        /\ DOMAIN job = {"op", "dir", "left", "net", "id"}
        /\ job.id \in 1 .. Len(runs) /\ job.dir \in Dirs /\ BundleIsLast
        /\ runs[job.id].out = {} => NetIsLeft

\* What a bundle says of its run was final when it was said.
Describes(b) ==
    /\ b.id \in 1 .. Len(runs)
    /\ runs[b.id].out # {}
    /\ b.hw = runs[b.id].hw /\ b.closure = runs[b.id].lock.closure
    /\ {"lock", "tokens", "logits"} \subseteq DOMAIN b.digests
    /\ b.digests["lock"] = runs[b.id].lock
    /\ {b.digests["tokens"]} = runs[b.id].out
    /\ {b.digests["logits"]} = runs[b.id].out

BundleInv == \A d \in Dirs : \A b \in dirs[d]["bundle"] : Describes(b)

\* A Pipeline remembers only directories it has written a bundle to.
PlacesInv == bundles \in Seq(Dirs)

IInv == /\ CommitInv /\ RunInv /\ DirInv /\ JobInv /\ BundleInv /\ PlacesInv
        /\ ReportIsOfItsRuns

-----------------------------------------------------------------------------
(* Sequences *)

LEMMA SeqOfMore ==
  ASSUME NEW S, NEW T, S \subseteq T, NEW s \in Seq(S)
  PROVE  s \in Seq(T)
BY SeqDef

LEMMA FunctionIsSeq ==
  ASSUME NEW S, NEW n \in Nat, NEW t \in [1 .. n -> S]
  PROVE  t \in Seq(S) /\ Len(t) = n
<1>1. t \in Seq(S)
  BY SeqDef
<1> QED
  BY <1>1

LEMMA RangeIsSeq ==
  ASSUME NEW S, NEW t \in Seq(S)
  PROVE  IsSeq(t)
<1>1. t \in [1 .. Len(t) -> {t[i] : i \in DOMAIN t}] /\ Len(t) \in Nat
  OBVIOUS
<1> QED
  BY <1>1, FunctionIsSeq DEF IsSeq

LEMMA AppendIsSeq ==
  ASSUME NEW s, IsSeq(s), NEW e
  PROVE  /\ IsSeq(Append(s, e)) /\ Len(Append(s, e)) = Len(s) + 1 /\ Len(s) \in Nat
         /\ Append(s, e)[Len(s) + 1] = e
         /\ \A i \in 1 .. Len(s) : Append(s, e)[i] = s[i]
<1> DEFINE T == {s[i] : i \in DOMAIN s} \cup {e}
<1>1. s \in Seq(T)
  BY SeqOfMore DEF IsSeq
<1>2. e \in T
  OBVIOUS
<1> HIDE DEF T
<1>3. Append(s, e) \in Seq(T)
  BY <1>1, <1>2
<1>4. IsSeq(Append(s, e))
  BY <1>3, RangeIsSeq
<1> QED
  BY <1>1, <1>2, <1>4

LEMMA SeqDomain ==
  ASSUME NEW s, IsSeq(s)
  PROVE  Len(s) \in Nat /\ DOMAIN s = 1 .. Len(s)
BY DEF IsSeq

LEMMA SameDomainIsSeq ==
  ASSUME NEW s, IsSeq(s), NEW t, t = [k \in 1 .. Len(s) |-> t[k]]
  PROVE  IsSeq(t) /\ Len(t) = Len(s)
<1> DEFINE T == {t[k] : k \in 1 .. Len(s)}
<1>1. Len(s) \in Nat
  BY SeqDomain
<1>2. t \in [1 .. Len(s) -> T]
  OBVIOUS
<1> HIDE DEF T
<1>3. t \in Seq(T) /\ Len(t) = Len(s)
  BY <1>1, <1>2, FunctionIsSeq
<1>4. IsSeq(t)
  BY <1>3, RangeIsSeq
<1> QED
  BY <1>3, <1>4

LEMMA Writes ==
  /\ RunWrites \in Seq(FileNames) /\ 3 \in 1 .. Len(RunWrites) /\ RunWrites[3] = "net"
  /\ CaptureWrites \in Seq(FileNames)
  /\ RunWrites # <<>> /\ RunWrites[Len(RunWrites)] = "bundle"
  /\ CaptureWrites # <<>> /\ CaptureWrites[Len(CaptureWrites)] = "bundle"
<1>1. RunWrites \in Seq(FileNames)
  <2>1. RunWrites = [i \in 1 .. 6 |-> RunWrites[i]]
    BY DEF RunWrites, FileNames
  <2>2. ASSUME NEW i \in 1 .. 6 PROVE RunWrites[i] \in FileNames
    BY DEF RunWrites, FileNames
  <2>3. RunWrites \in [1 .. 6 -> FileNames]
    BY <2>1, <2>2
  <2> QED
    BY <2>3, FunctionIsSeq
<1>2. Len(RunWrites) = 6
  BY DEF RunWrites, FileNames
<1>3. RunWrites[3] = "net"
  BY DEF RunWrites, FileNames
<1>4. CaptureWrites \in Seq(FileNames)
  <2>1. CaptureWrites = [i \in 1 .. 5 |-> CaptureWrites[i]]
    BY DEF CaptureWrites, FileNames
  <2>2. ASSUME NEW i \in 1 .. 5 PROVE CaptureWrites[i] \in FileNames
    BY DEF CaptureWrites, FileNames
  <2>3. CaptureWrites \in [1 .. 5 -> FileNames]
    BY <2>1, <2>2
  <2> QED
    BY <2>3, FunctionIsSeq
<1>5. Len(CaptureWrites) = 5 /\ CaptureWrites[5] = "bundle" /\ RunWrites[6] = "bundle"
  BY DEF RunWrites, CaptureWrites
<1>6. RunWrites # <<>> /\ CaptureWrites # <<>>
  BY <1>2, <1>5
<1>7. 3 \in 1 .. Len(RunWrites)
  BY <1>2
<1>8. RunWrites[Len(RunWrites)] = "bundle" /\ CaptureWrites[Len(CaptureWrites)] = "bundle"
  BY <1>2, <1>5, Zenon
<1> QED
  BY <1>1, <1>3, <1>4, <1>6, <1>7, <1>8, Zenon

-----------------------------------------------------------------------------
(* No commits are mixed *)

LEMMA InventoryIsComplete ==
  ASSUME NEW mode, NEW m, NEW c, NEW files \in InventoryAnswers(mode, m, c)
  PROVE  HasRequired(files)
BY ResolutionAssumption DEF InventoryAnswers, HasRequired, RepoFiles

LEMMA MergedIsGood ==
  ASSUME NEW mode, NEW m, NEW c, NEW files \in InventoryAnswers(mode, m, c)
  PROVE  Good(Merged(c, c, files))
<1> DEFINE arts == [file : Needed(files), commit : {c}]
<1>1. HasRequired(Needed(files))
  BY InventoryIsComplete DEF HasRequired, Needed
<1>2. {a.file : a \in arts} = Needed(files)
  <2>1. ASSUME NEW f \in Needed(files)
        PROVE  [file |-> f, commit |-> c] \in arts
    OBVIOUS
  <2>2. \A a \in arts : a.file \in Needed(files)
    OBVIOUS
  <2>3. \A f \in Needed(files) : \E a \in arts : a.file = f
    BY <2>1
  <2> QED
    BY <2>2, <2>3
<1>3. \A a \in arts : {c} = {a.commit}
  OBVIOUS
<1> QED
  BY <1>1, <1>2, <1>3 DEF Good, Merged, PinnedArtifacts

LEMMA CommitStep ==
  ASSUME CommitInv, [Next]_vars
  PROVE  CommitInv'
<1> DEFINE Kept == /\ UNCHANGED <<manifest, lockfile>>
                   /\ job'.op # "manifest_out"
<1>1. ASSUME Kept PROVE CommitInv'
  BY <1>1 DEF CommitInv, Good
<1>2. CASE UNCHANGED vars
  BY <1>2 DEF vars, CommitInv, Good
<1>3. CASE Resolve
  BY <1>3 DEF Resolve, Free, Resolved, Sealed, CommitInv, Good
<1>4. ASSUME NEW mode, ResolveCommit(mode) PROVE CommitInv'
  BY <1>4, <1>1 DEF ResolveCommit
<1>5. CASE ResolveFiles
  <2>1. PICK files \in InventoryAnswers(job.mode, mirror, job.commit) :
          LET man == Merged(job.commit, job.commit, files)
          IN  /\ lockfile' = IF Valid(man) THEN {Resolved(man)} ELSE lockfile
              /\ manifest' = IF front = "pipeline" THEN man ELSE manifest
              /\ job' = IF front = "cli" /\ Valid(man)
                        THEN [op |-> "manifest_out", man |-> man] ELSE Idle
    BY <1>5 DEF ResolveFiles, FilesCommit
  <2> DEFINE man == Merged(job.commit, job.commit, files)
  <2>2. Good(man)
    BY MergedIsGood
  <2>3. Resolved(man).man = man
    BY DEF Resolved, Sealed
  <2> HIDE DEF man
  <2>4. Good(manifest)'
    BY <2>1, <2>2 DEF man, CommitInv, Good
  <2>5. \A lock \in lockfile' : Good(lock.man)
    BY <2>1, <2>2, <2>3 DEF man, CommitInv
  <2>6. job'.op = "manifest_out" => Good(job'.man)
    BY <2>1, <2>2 DEF man, Idle
  <2> QED
    BY <2>4, <2>5, <2>6 DEF CommitInv, Good
<1>6. CASE WriteManifestOut
  BY <1>6 DEF WriteManifestOut, Idle, CommitInv, Good
<1>7. ASSUME NEW closure, Build(closure) PROVE CommitInv'
  <2>1. PICK lock \in CurrentLock : lockfile' = {Built(lock, closure)}
    BY <1>7 DEF Build
  <2>2. Good(lock.man)
    BY <2>1 DEF CurrentLock, Resolved, Sealed, CommitInv
  <2>3. Built(lock, closure).man = lock.man
    BY DEF Built, Sealed
  <2> QED
    BY <1>7, <2>1, <2>2, <2>3 DEF Build, Free, CommitInv, Good
<1>8. ASSUME NEW d, NEW hw, NEW net, StartRun(d, hw, net) PROVE CommitInv'
  <2>1. \A lock \in RunLock : Good(lock.man)
    BY DEF RunLock, Built, Resolved, Sealed, CommitInv
  <2>2. manifest' = manifest /\ lockfile' = RunLock /\ job'.op = "run"
    BY <1>8 DEF StartRun
  <2> QED
    BY <2>1, <2>2 DEF CommitInv, Good
<1>9. ASSUME NEW mode, Infer(mode) PROVE CommitInv'
  BY <1>9 DEF Infer, CommitInv, Good
<1>10. ASSUME NEW d, NEW hw, StartCapture(d, hw) PROVE CommitInv'
  BY <1>10, <1>1 DEF StartCapture
<1>11. CASE WriteFile
  <2>1. job'.op = job.op /\ job.op \in {"run", "capture"}
    BY <1>11 DEF WriteFile, Writing
  <2> QED
    BY <1>1, <1>11, <2>1 DEF WriteFile
<1>12. CASE WriteBundle
  BY <1>1, <1>12 DEF WriteBundle, Idle
<1>13. CASE Raise
  BY <1>1, <1>13 DEF Raise, Idle
<1>14. CASE Kill
  <2>1. Good(FileManifest)
    BY DEF Good, FileManifest
  <2> QED
    BY <1>14, <2>1 DEF Kill, Idle, CommitInv, Good
<1>15. CASE HubMoves
  BY <1>15 DEF HubMoves, CommitInv, Good
<1>16. ASSUME NEW d1, NEW d2, Verify(d1, d2) PROVE CommitInv'
  BY <1>1, <1>16 DEF Verify
<1>17. CASE Reported
  BY <1>1, <1>17 DEF Reported, Idle
<1> QED
  BY <1>2, <1>3, <1>4, <1>5, <1>6, <1>7, <1>8, <1>9, <1>10, <1>11, <1>12,
     <1>13, <1>14, <1>15, <1>16, <1>17 DEF Next, VerifyLastTwo

\* Every model artifact of a manifest or a lockfile is of the one revision it
\* records, and a model that was resolved is complete, for any repository, any
\* mirror and any number of moves of the branch.  (hf_resolution.py
\* resolve_hf_model, resolver main.py _merge_model_artifacts)
THEOREM NeverMixed == Spec => []OneCommit
<1>1. Init => CommitInv
  BY DEF Init, CommitInv, Good, FileManifest, Idle
<1>2. CommitInv /\ [Next]_vars => CommitInv'
  BY CommitStep
<1>3. CommitInv => OneCommit
  <2>1. CommitInv => \A man \in {manifest} \cup {lock.man : lock \in lockfile} : Good(man)
    BY DEF CommitInv
  <2> QED
    BY <2>1 DEF OneCommit, Good
<1> QED
  BY <1>1, <1>2, <1>3, PTL DEF Spec

-----------------------------------------------------------------------------
(* Runs, directories and the command under way *)

\* What no command other than a run or a capture touches.
LEMMA QuietStep ==
  ASSUME IInv, UNCHANGED <<dirs, runs>>, job'.op \notin {"run", "capture", "report"}
  PROVE  (RunInv /\ DirInv /\ JobInv /\ BundleInv /\ ReportIsOfItsRuns)'
<1>1. (RunInv /\ DirInv)'
  BY DEF IInv, RunInv, DirInv
<1>2. JobInv'
  BY DEF JobInv, Writing
<1>3. BundleInv'
  BY DEF IInv, BundleInv, Describes
<1>4. ReportIsOfItsRuns'
  BY DEF ReportIsOfItsRuns
<1> QED
  BY <1>1, <1>2, <1>3, <1>4

\* A run is added at the end: those before it stay what they were.
LEMMA NewRun ==
  ASSUME IInv, NEW run, GoodRun(run), runs' = Append(runs, run), dirs' = dirs
  PROVE  /\ (RunInv /\ DirInv /\ BundleInv)'
         /\ Len(runs) + 1 \in 1 .. Len(runs)' /\ runs'[Len(runs) + 1] = run
<1>1. /\ IsSeq(runs') /\ Len(runs') = Len(runs) + 1 /\ Len(runs) \in Nat
      /\ runs'[Len(runs) + 1] = run
      /\ \A i \in 1 .. Len(runs) : runs'[i] = runs[i]
  BY AppendIsSeq DEF IInv, RunInv
<1>2. RunInv'
  <2>1. ASSUME NEW i \in 1 .. Len(runs') PROVE GoodRun(runs'[i])
    <3>1. CASE i \in 1 .. Len(runs)
      BY <1>1, <3>1 DEF IInv, RunInv
    <3>2. CASE i = Len(runs) + 1
      BY <1>1, <3>2
    <3> QED
      BY <1>1, <3>1, <3>2
  <2> QED
    BY <1>1, <2>1 DEF RunInv, GoodRun
<1>3. DirInv'
  BY DEF IInv, DirInv
<1>4. BundleInv'
  <2>1. ASSUME NEW d \in Dirs, NEW b \in dirs[d]["bundle"] PROVE Describes(b)'
    <3>1. Describes(b)
      BY <2>1 DEF IInv, BundleInv
    <3>2. b.id \in 1 .. Len(runs') /\ runs'[b.id] = runs[b.id]
      BY <1>1, <3>1 DEF Describes
    <3> QED
      BY <3>1, <3>2 DEF Describes
  <2> QED
    BY <2>1 DEF BundleInv
<1> QED
  BY <1>1, <1>2, <1>3, <1>4

LEMMA StartRunStep ==
  ASSUME IInv, NEW d \in Dirs, NEW hw, NEW net, StartRun(d, hw, net)
  PROVE  (RunInv /\ DirInv /\ JobInv /\ BundleInv /\ ReportIsOfItsRuns)'
<1>1. PICK lock \in RunLock :
        /\ lock.man = manifest
        /\ job' = [op |-> "run", dir |-> d, left |-> RunWrites, net |-> net,
                   id |-> Len(runs) + 1]
        /\ runs' = Append(runs, [man |-> manifest, lock |-> lock, hw |-> hw,
                                 out |-> {}, kind |-> "run"])
  BY DEF StartRun, Agrees
<1> DEFINE run == [man |-> manifest, lock |-> lock, hw |-> hw, out |-> {}, kind |-> "run"]
<1>2. GoodRun(run)
  BY <1>1 DEF GoodRun
<1>3. runs' = Append(runs, run) /\ dirs' = dirs
  BY <1>1 DEF StartRun
<1> HIDE DEF run
<1>4. (RunInv /\ DirInv /\ BundleInv)' /\ Len(runs) + 1 \in 1 .. Len(runs)'
  BY <1>2, <1>3, NewRun
<1>5. JobInv'
  <2>1. job'.id = Len(runs) + 1 /\ job'.dir = d /\ job'.left = RunWrites
        /\ DOMAIN job' = {"op", "dir", "left", "net", "id"}
    BY <1>1
  <2>3. job'.id \in 1 .. Len(runs)' /\ job'.dir \in Dirs /\ BundleIsLast'
    BY <1>4, <2>1, Writes DEF BundleIsLast
  <2>4. NetIsLeft'
    <3>1. 3 \in 1 .. Len(job'.left) /\ job'.left[3] = "net"
      BY <2>1, Writes
    <3> QED
      BY <3>1 DEF NetIsLeft
  <2> QED
    BY <2>1, <2>3, <2>4 DEF JobInv
<1>6. ReportIsOfItsRuns'
  BY <1>1 DEF ReportIsOfItsRuns
<1> QED
  BY <1>4, <1>5, <1>6

LEMMA StartCaptureStep ==
  ASSUME IInv, NEW d \in Dirs, NEW hw, StartCapture(d, hw)
  PROVE  (RunInv /\ DirInv /\ JobInv /\ BundleInv /\ ReportIsOfItsRuns)'
<1>1. PICK lock \in lockfile :
        runs' = Append(runs, [man |-> manifest, lock |-> lock, hw |-> hw,
                              out |-> {{main}}, kind |-> "capture"])
  BY DEF StartCapture
<1> DEFINE run == [man |-> manifest, lock |-> lock, hw |-> hw,
                   out |-> {{main}}, kind |-> "capture"]
<1>2. GoodRun(run) /\ run.out # {}
  BY DEF GoodRun
<1>3. runs' = Append(runs, run) /\ dirs' = dirs
  BY <1>1 DEF StartCapture
<1> HIDE DEF run
<1>4. /\ (RunInv /\ DirInv /\ BundleInv)'
      /\ Len(runs) + 1 \in 1 .. Len(runs)' /\ runs'[Len(runs) + 1] = run
  BY <1>2, <1>3, NewRun
<1>5. JobInv'
  <2>1. job'.id = Len(runs) + 1 /\ job'.dir = d /\ job'.left = CaptureWrites
        /\ DOMAIN job' = {"op", "dir", "left", "net", "id"}
    BY DEF StartCapture
  <2>3. job'.id \in 1 .. Len(runs)' /\ job'.dir \in Dirs /\ BundleIsLast'
    BY <1>4, <2>1, Writes DEF BundleIsLast
  <2>4. (runs[job.id].out)' # {}
    BY <1>2, <1>4, <2>1
  <2> QED
    BY <2>1, <2>3, <2>4 DEF JobInv
<1>6. ReportIsOfItsRuns'
  BY DEF StartCapture, ReportIsOfItsRuns
<1> QED
  BY <1>4, <1>5, <1>6

\* The outputs are set once, and no bundle speaks of the run before.
LEMMA InferStep ==
  ASSUME IInv, NEW mode, Infer(mode)
  PROVE  (RunInv /\ DirInv /\ JobInv /\ BundleInv /\ ReportIsOfItsRuns)'
<1> DEFINE i   == job.id
           new == [runs[i] EXCEPT !.out = {IF mode = "mock" THEN {} ELSE {main}}]
<1>1. i \in 1 .. Len(runs) /\ job.op = "run" /\ job' = job /\ dirs' = dirs /\ runs[i].out = {}
  BY DEF Infer, IInv, JobInv, Writing
<1>2. runs' = [runs EXCEPT ![i] = new]
  BY DEF Infer
<1>3. /\ IsSeq(runs') /\ Len(runs') = Len(runs) /\ runs'[i] = new
      /\ \A k \in 1 .. Len(runs) : k # i => runs'[k] = runs[k]
  <2>1. IsSeq(runs) /\ DOMAIN runs = 1 .. Len(runs)
    BY SeqDomain DEF IInv, RunInv
  <2> HIDE DEF new, i
  <2>2. runs'[i] = new /\ \A k \in 1 .. Len(runs) : k # i => runs'[k] = runs[k]
    BY <1>1, <1>2, <2>1
  <2>3. runs' = [k \in 1 .. Len(runs) |-> runs'[k]]
    BY <1>2, <2>1
  <2>4. IsSeq(runs') /\ Len(runs') = Len(runs)
    BY <2>1, <2>3, SameDomainIsSeq
  <2> QED
    BY <2>2, <2>4
<1>4. RunInv'
  <2>2. GoodRun(runs[i])
    BY <1>1 DEF IInv, RunInv
  <2>1. new.out = {IF mode = "mock" THEN {} ELSE {main}}
    BY <2>2 DEF GoodRun
  <2>3. GoodRun(new)
    <3>1. DOMAIN new = DOMAIN runs[i] /\ new.kind = runs[i].kind
          /\ new.lock = runs[i].lock /\ new.man = runs[i].man
      BY <2>2 DEF GoodRun
    <3>2. \E o \in new.out : new.out = {o}
      BY <2>1
    <3> HIDE DEF new
    <3> QED
      BY <2>2, <3>1, <3>2 DEF GoodRun
  <2> HIDE DEF new, i
  <2>4. \A k \in 1 .. Len(runs') : GoodRun(runs'[k])
    BY <1>3, <2>3 DEF IInv, RunInv
  <2> QED
    BY <1>3, <2>4 DEF RunInv, GoodRun
<1>5. DirInv'
  BY <1>1 DEF IInv, DirInv
<1>6. JobInv'
  BY <1>1, <1>3 DEF IInv, JobInv, Writing, NetIsLeft, BundleIsLast
<1>7. BundleInv'
  <2>1. ASSUME NEW d \in Dirs, NEW b \in dirs[d]["bundle"] PROVE Describes(b)'
    <3>1. Describes(b)
      BY <2>1 DEF IInv, BundleInv
    <3>2. b.id \in 1 .. Len(runs') /\ runs'[b.id] = runs[b.id]
      BY <1>1, <1>3, <3>1 DEF Describes
    <3> QED
      BY <3>1, <3>2 DEF Describes
  <2> QED
    BY <1>1, <2>1 DEF BundleInv
<1>8. ReportIsOfItsRuns'
  BY <1>1 DEF ReportIsOfItsRuns
<1> QED
  BY <1>4, <1>5, <1>6, <1>7, <1>8

LEMMA WriteFileStep ==
  ASSUME IInv, WriteFile
  PROVE  (RunInv /\ DirInv /\ JobInv /\ BundleInv /\ ReportIsOfItsRuns)'
<1> DEFINE file == Head(job.left)
<1>1. /\ file # "bundle" /\ runs' = runs
      /\ file \notin {"man", "lock"} => runs[job.id].out # {}
      /\ dirs' = [dirs EXCEPT ![job.dir][file] = {Content(job.id, file)}]
      /\ job' = [job EXCEPT !.left = Tail(@)]
      /\ job.op \in {"run", "capture"} /\ Writing
  BY DEF WriteFile, Writing
<1>2. /\ job.id \in 1 .. Len(runs) /\ job.dir \in Dirs /\ BundleIsLast
      /\ runs[job.id].out = {} => NetIsLeft
      /\ DOMAIN job = {"op", "dir", "left", "net", "id"}
  BY <1>1 DEF IInv, JobInv
<1>3. RunInv'
  BY <1>1 DEF IInv, RunInv
<1> HIDE DEF file
<1>4. DirInv' /\ \A d \in Dirs : dirs'[d]["bundle"] = dirs[d]["bundle"]
  <2>1. DOMAIN dirs = Dirs /\ \A d \in Dirs : DOMAIN dirs[d] = FileNames
    BY DEF IInv, DirInv
  <2>2. DOMAIN dirs' = Dirs
    BY <1>1, <2>1
  <2>3. ASSUME NEW d \in Dirs
        PROVE  DOMAIN dirs'[d] = FileNames /\ dirs'[d]["bundle"] = dirs[d]["bundle"]
    <3>1. CASE d = job.dir
      <4>1. dirs'[d] = [dirs[d] EXCEPT ![file] = {Content(job.id, file)}]
        BY <1>1, <2>1, <3>1
      <4> QED
        BY <1>1, <2>1, <4>1 DEF FileNames
    <3>2. CASE d # job.dir
      BY <1>1, <2>1, <3>2
    <3> QED
      BY <3>1, <3>2
  <2> QED
    BY <2>2, <2>3 DEF DirInv
<1>5. BundleInv'
  BY <1>1, <1>4 DEF IInv, BundleInv, Describes
<1>6. job'.id = job.id /\ job'.dir = job.dir /\ job'.left = Tail(job.left) /\ job'.op = job.op
      /\ DOMAIN job' = DOMAIN job
  BY <1>1, <1>2
<1>7. JobInv'
  <2> DEFINE n == Len(job.left)
  <2>1. /\ n \in Nat /\ n > 0 /\ job.left \in Seq(FileNames) /\ job.left[n] = "bundle"
        /\ file = job.left[1]
    BY <1>2 DEF BundleIsLast, file
  <2>2. n > 1
    BY <1>1, <2>1
  <2>3. /\ job'.left \in Seq(FileNames) /\ Len(job'.left) = n - 1
        /\ \A i \in 1 .. n - 1 : job'.left[i] = job.left[i + 1]
    BY <1>6, <2>1, <2>2
  <2>4. BundleIsLast'
    BY <2>1, <2>2, <2>3 DEF BundleIsLast
  <2>5. ASSUME runs[job.id].out = {} PROVE NetIsLeft'
    <3>1. PICK i \in 1 .. n : job.left[i] = "net"
      BY <1>2, <2>5 DEF NetIsLeft
    <3>2. file \in {"man", "lock"}
      BY <1>1, <2>5
    <3>3. i # 1
      BY <2>1, <3>1, <3>2
    <3>4. i - 1 \in 1 .. n - 1 /\ job'.left[i - 1] = "net"
      BY <2>1, <2>3, <3>1, <3>3
    <3> QED
      BY <2>3, <3>4 DEF NetIsLeft
  <2> HIDE DEF n
  <2> QED
    BY <1>1, <1>2, <1>6, <2>4, <2>5 DEF JobInv
<1>8. ReportIsOfItsRuns'
  BY <1>1, <1>6 DEF ReportIsOfItsRuns
<1> QED
  BY <1>3, <1>4, <1>5, <1>7, <1>8

LEMMA WriteBundleStep ==
  ASSUME IInv, WriteBundle
  PROVE  (RunInv /\ DirInv /\ JobInv /\ BundleInv /\ ReportIsOfItsRuns)'
<1> DEFINE files == ToSet(IF job.op = "run" THEN RunWrites ELSE CaptureWrites) \ {"bundle"}
           new   == Bundle(job.id, files)
<1>1. /\ Writing /\ job.left = <<"bundle">> /\ runs' = runs /\ job' = Idle
      /\ dirs' = [dirs EXCEPT ![job.dir]["bundle"] = {new}]
  BY DEF WriteBundle
<1>2. job.id \in 1 .. Len(runs) /\ job.dir \in Dirs /\ runs[job.id].out # {}
  BY <1>1 DEF IInv, JobInv, NetIsLeft
<1>3. PICK o \in runs[job.id].out : runs[job.id].out = {o}
  BY <1>2 DEF IInv, RunInv, GoodRun
<1>4. {"lock", "tokens", "logits"} \subseteq files
  <2>1. /\ RunWrites[2] = "lock" /\ RunWrites[4] = "tokens" /\ RunWrites[5] = "logits"
        /\ DOMAIN RunWrites = 1 .. 6
    BY DEF RunWrites
  <2>2. /\ CaptureWrites[4] = "lock" /\ CaptureWrites[1] = "tokens" /\ CaptureWrites[2] = "logits"
        /\ DOMAIN CaptureWrites = 1 .. 5
    BY DEF CaptureWrites
  <2>3. {"lock", "tokens", "logits"} \subseteq ToSet(RunWrites)
    BY <2>1 DEF ToSet
  <2>4. {"lock", "tokens", "logits"} \subseteq ToSet(CaptureWrites)
    BY <2>2 DEF ToSet
  <2> QED
    BY <2>3, <2>4
<1>5. Describes(new)
  <2>1. new.id = job.id /\ new.hw = runs[job.id].hw /\ new.closure = runs[job.id].lock.closure
        /\ new.digests = [f \in files |-> Content(job.id, f)]
    BY DEF Bundle
  <2> HIDE DEF new, files
  <2>2. new.digests["lock"] = Content(job.id, "lock")
        /\ new.digests["tokens"] = Content(job.id, "tokens")
        /\ new.digests["logits"] = Content(job.id, "logits")
        /\ {"lock", "tokens", "logits"} \subseteq DOMAIN new.digests
    BY <1>4, <2>1
  <2>3. Content(job.id, "lock") = runs[job.id].lock
    BY DEF Content
  <2>4. Content(job.id, "tokens") = o /\ Content(job.id, "logits") = o
    BY <1>3 DEF Content
  <2> QED
    BY <1>2, <1>3, <2>1, <2>2, <2>3, <2>4 DEF Describes
<1> HIDE DEF new
<1>6. /\ DirInv'
      /\ \A d \in Dirs : dirs'[d]["bundle"] = IF d = job.dir THEN {new} ELSE dirs[d]["bundle"]
  <2>1. DOMAIN dirs = Dirs /\ \A d \in Dirs : DOMAIN dirs[d] = FileNames
    BY DEF IInv, DirInv
  <2>2. DOMAIN dirs' = Dirs
    BY <1>1, <2>1
  <2>3. ASSUME NEW d \in Dirs
        PROVE  /\ DOMAIN dirs'[d] = FileNames
               /\ dirs'[d]["bundle"] = IF d = job.dir THEN {new} ELSE dirs[d]["bundle"]
    <3>1. CASE d = job.dir
      <4>1. dirs'[d] = [dirs[d] EXCEPT !["bundle"] = {new}]
        BY <1>1, <2>1, <3>1
      <4> QED
        BY <2>1, <3>1, <4>1 DEF FileNames
    <3>2. CASE d # job.dir
      BY <1>1, <2>1, <3>2
    <3> QED
      BY <3>1, <3>2
  <2> QED
    BY <2>2, <2>3 DEF DirInv
<1>7. BundleInv'
  <2>1. ASSUME NEW d \in Dirs, NEW b \in dirs'[d]["bundle"] PROVE Describes(b)
    BY <1>5, <1>6, <2>1 DEF IInv, BundleInv
  <2> QED
    BY <1>1, <2>1 DEF BundleInv, Describes
<1>8. (RunInv /\ JobInv /\ ReportIsOfItsRuns)'
  BY <1>1 DEF IInv, RunInv, JobInv, Writing, Idle, ReportIsOfItsRuns
<1> QED
  BY <1>6, <1>7, <1>8

LEMMA BoundBundles ==
  ASSUME BundleInv, RunInv
  PROVE  BundleIsBound
<1> SUFFICES ASSUME NEW d \in Dirs, NEW b \in dirs[d]["bundle"]
             PROVE  /\ runs[b.id].kind = "run" => runs[b.id].lock.man = runs[b.id].man
                    /\ Intact(d) => /\ dirs[d].tokens = runs[b.id].out
                                    /\ dirs[d].lock = {runs[b.id].lock}
  BY DEF BundleIsBound
<1>1. Describes(b)
  BY DEF BundleInv
<1>2. GoodRun(runs[b.id])
  BY <1>1 DEF RunInv, Describes
<1>3. ASSUME Intact(d)
      PROVE  dirs[d].tokens = runs[b.id].out /\ dirs[d].lock = {runs[b.id].lock}
  BY <1>1, <1>3 DEF Intact, Describes
<1> QED
  BY <1>2, <1>3 DEF GoodRun

LEMMA VerifyStep ==
  ASSUME IInv, NEW d1 \in Dirs, NEW d2 \in Dirs, Verify(d1, d2)
  PROVE  (RunInv /\ DirInv /\ JobInv /\ BundleInv /\ ReportIsOfItsRuns)'
<1>1. PICK base \in dirs[d1]["bundle"], cand \in dirs[d2]["bundle"] :
        /\ Intact(d1) /\ Intact(d2)
        /\ job' = [op |-> "report", base |-> base.id, cand |-> cand.id,
                   status |-> Status(base, cand, d1, d2)]
  BY DEF Verify
<1> DEFINE r1 == runs[base.id]
           r2 == runs[cand.id]
           status == Status(base, cand, d1, d2)
<1>2. Describes(base) /\ Describes(cand)
  BY <1>1 DEF IInv, BundleInv
<1>3. /\ dirs[d1].tokens = r1.out /\ dirs[d1].logits = r1.out
      /\ base.hw = r1.hw /\ base.closure = r1.lock.closure
  BY <1>1, <1>2 DEF Intact, Describes
<1>4. /\ dirs[d2].tokens = r2.out /\ dirs[d2].logits = r2.out
      /\ cand.hw = r2.hw /\ cand.closure = r2.lock.closure
  BY <1>1, <1>2 DEF Intact, Describes
<1>5. /\ (status = "mismatch_outputs") = (r1.out # r2.out)
      /\ status = "conformant" => r1.hw = r2.hw /\ r1.lock.closure = r2.lock.closure
  BY <1>3, <1>4 DEF Status, SameOutputs
<1>6. runs' = runs /\ dirs' = dirs
  BY DEF Verify
<1>7. ReportIsOfItsRuns'
  <2>1. job'.base = base.id /\ job'.cand = cand.id /\ job'.status = status
    BY <1>1
  <2> HIDE DEF status
  <2> QED
    BY <1>5, <1>6, <2>1 DEF ReportIsOfItsRuns
<1>8. (RunInv /\ DirInv /\ JobInv /\ BundleInv)'
  <2>1. job'.op = "report"
    BY <1>1
  <2> QED
    BY <1>6, <2>1 DEF IInv, RunInv, DirInv, JobInv, Writing, BundleInv, Describes
<1> QED
  BY <1>7, <1>8

LEMMA PlacesStep ==
  ASSUME IInv, [Next]_vars
  PROVE  PlacesInv'
<1>1. CASE UNCHANGED bundles
  BY <1>1 DEF IInv, PlacesInv
<1>2. CASE WriteBundle
  <2>1. job.dir \in Dirs
    BY <1>2 DEF WriteBundle, IInv, JobInv
  <2>2. bundles' = IF front = "pipeline" THEN Append(bundles, job.dir) ELSE bundles
    BY <1>2 DEF WriteBundle
  <2> QED
    BY <2>1, <2>2 DEF IInv, PlacesInv
<1>3. CASE Kill
  <2>1. bundles' = IF front = "pipeline" THEN <<>> ELSE bundles
    BY <1>3 DEF Kill
  <2>2. <<>> \in Seq(Dirs)
    OBVIOUS
  <2> QED
    BY <2>1, <2>2, Zenon DEF IInv, PlacesInv
<1> QED
  BY <1>1, <1>2, <1>3 DEF Next, vars, Resolve, ResolveCommit, ResolveFiles,
     WriteManifestOut, Build, StartRun, Infer, StartCapture, WriteFile, Raise,
     HubMoves, Verify, VerifyLastTwo, Reported

LEMMA Inductive == IInv /\ [Next]_vars => IInv'
<1> SUFFICES ASSUME IInv, [Next]_vars PROVE IInv'
  OBVIOUS
<1> DEFINE Rest == RunInv /\ DirInv /\ JobInv /\ BundleInv /\ ReportIsOfItsRuns
<1>0. CommitInv'
  BY CommitStep DEF IInv
<1>1. ASSUME UNCHANGED <<dirs, runs>>, job'.op \notin {"run", "capture", "report"}
      PROVE  Rest'
  BY <1>1, QuietStep
<1>2. ASSUME UNCHANGED <<dirs, runs, job>> PROVE Rest'
  BY <1>2 DEF IInv, RunInv, DirInv, JobInv, Writing, NetIsLeft, BundleIsLast, BundleInv,
              Describes, ReportIsOfItsRuns
<1> HIDE DEF Rest
<1>3. ASSUME UNCHANGED vars PROVE Rest'
  BY <1>2, <1>3 DEF vars
<1>4. ASSUME Resolve PROVE Rest'
  BY <1>2, <1>4 DEF Resolve
<1>5. ASSUME NEW mode, ResolveCommit(mode) PROVE Rest'
  <2>1. job'.op = "resolve"
    BY <1>5 DEF ResolveCommit
  <2> QED
    BY <1>1, <1>5, <2>1 DEF ResolveCommit
<1>6. ASSUME ResolveFiles PROVE Rest'
  <2>1. job'.op \in {"manifest_out", "idle"}
    BY <1>6 DEF ResolveFiles, Idle
  <2> QED
    BY <1>1, <1>6, <2>1 DEF ResolveFiles
<1>7. ASSUME WriteManifestOut PROVE Rest'
  BY <1>1, <1>7 DEF WriteManifestOut, Idle
<1>8. ASSUME NEW closure, Build(closure) PROVE Rest'
  BY <1>2, <1>8 DEF Build
<1>9. ASSUME NEW d \in Dirs, NEW hw, NEW net, StartRun(d, hw, net) PROVE Rest'
  BY <1>9, StartRunStep DEF Rest
<1>10. ASSUME NEW mode, Infer(mode) PROVE Rest'
  BY <1>10, InferStep DEF Rest
<1>11. ASSUME NEW d \in Dirs, NEW hw, StartCapture(d, hw) PROVE Rest'
  BY <1>11, StartCaptureStep DEF Rest
<1>12. ASSUME WriteFile PROVE Rest'
  BY <1>12, WriteFileStep DEF Rest
<1>13. ASSUME WriteBundle PROVE Rest'
  BY <1>13, WriteBundleStep DEF Rest
<1>14. ASSUME Raise PROVE Rest'
  BY <1>1, <1>14 DEF Raise, Idle
<1>15. ASSUME Kill PROVE Rest'
  BY <1>1, <1>15 DEF Kill, Idle
<1>16. ASSUME HubMoves PROVE Rest'
  BY <1>2, <1>16 DEF HubMoves
<1>17. ASSUME NEW d1 \in Dirs, NEW d2 \in Dirs, Verify(d1, d2) PROVE Rest'
  BY <1>17, VerifyStep DEF Rest
<1>18. ASSUME VerifyLastTwo PROVE Rest'
  <2>1. bundles[Len(bundles) - 1] \in Dirs /\ bundles[Len(bundles)] \in Dirs
    BY <1>18 DEF VerifyLastTwo, IInv, PlacesInv
  <2> QED
    BY <1>17, <1>18, <2>1 DEF VerifyLastTwo
<1>19. ASSUME Reported PROVE Rest'
  BY <1>1, <1>19 DEF Reported, Idle
<1>20. PlacesInv'
  BY PlacesStep
<1>21. Rest'
  BY <1>3, <1>4, <1>5, <1>6, <1>7, <1>8, <1>9, <1>10, <1>11, <1>12, <1>13,
     <1>14, <1>15, <1>16, <1>17, <1>18, <1>19 DEF Next
<1> QED
  BY <1>0, <1>20, <1>21 DEF IInv, Rest

LEMMA Initially == Init => IInv
<1> SUFFICES ASSUME Init PROVE IInv
  OBVIOUS
<1>1. CommitInv /\ PlacesInv
  BY DEF Init, CommitInv, PlacesInv, Good, FileManifest, Idle
<1>2. IsSeq(runs) /\ Len(runs) = 0
  <2>1. runs \in Seq({}) /\ Len(runs) = 0
    BY DEF Init
  <2> QED
    BY <2>1, RangeIsSeq
<1>3. RunInv
  BY <1>2 DEF RunInv
<1>4. DOMAIN NoFiles = FileNames /\ NoFiles["bundle"] = {}
  BY DEF NoFiles, FileNames
<1>5. DirInv /\ BundleInv
  BY <1>4 DEF Init, DirInv, BundleInv
<1>6. JobInv /\ ReportIsOfItsRuns
  BY DEF Init, Idle, JobInv, Writing, ReportIsOfItsRuns
<1> QED
  BY <1>1, <1>3, <1>5, <1>6 DEF IInv

-----------------------------------------------------------------------------
(* Types *)

AtMostOne(S) == S = {} \/ \E x : S = {x}

\* The commit that is being resolved is one of the repository's, whether the
\* mirror or the hub gave it, and what is written holds one version of a file.
TypeInv ==
    /\ mirror \in Mirror /\ main \in Commits
    /\ manifest \in Manifest
    /\ AtMostOne(lockfile) /\ \A lock \in lockfile : Lockfile(lock)
    /\ job.op = "resolve" => job.commit \in Commits
    /\ job.op = "manifest_out" => job.man \in Manifest
    /\ \A d \in Dirs, f \in FileNames : AtMostOne(dirs[d][f])

LEMMA AtMostOneCounts ==
  ASSUME NEW S, AtMostOne(S)
  PROVE  Cardinality(S) <= 1
<1>1. CASE S = {}
  <2>1. Cardinality(S) = 0
    BY <1>1, FS_EmptySet, Zenon
  <2> QED
    BY <2>1
<1>2. ASSUME NEW x, S = {x} PROVE Cardinality(S) <= 1
  <2>1. Cardinality(S) = 1
    BY <1>2, FS_Singleton, Zenon
  <2> QED
    BY <2>1
<1> QED
  BY <1>1, <1>2 DEF AtMostOne

LEMMA FileManifestType == FileManifest \in Manifest
BY DEF FileManifest, Manifest

LEMMA ResolvedType ==
  ASSUME NEW man \in Manifest
  PROVE  Lockfile(Resolved(man)) /\ Resolved(man).man = man
<1> DEFINE atts == [resolver_provenance |-> 1, build_provenance |-> 0]
<1>1. atts \in [{"resolver_provenance", "build_provenance"} -> {0, 1}]
  OBVIOUS
<1> HIDE DEF atts
<1>2. Resolved(man) = Sealed(man, man.arts, "seed", atts)
  BY DEF Resolved, atts
<1>3. man.arts \subseteq Artifact
  BY DEF Manifest
<1> QED
  BY <1>1, <1>2, <1>3 DEF Sealed, Lockfile, LockfileDigest

LEMMA BuiltType ==
  ASSUME NEW lock, Lockfile(lock), NEW closure \in Closures \cup {"reference", "malformed"}
  PROVE  Lockfile(Built(lock, closure))
<1> DEFINE atts == [lock.atts EXCEPT !.build_provenance = 1]
<1>1. /\ atts \in [{"resolver_provenance", "build_provenance"} -> {0, 1}]
      /\ atts.build_provenance = 1
  BY DEF Lockfile
<1> HIDE DEF atts
<1>2. Built(lock, closure) = Sealed(lock.man, lock.arts, closure, atts)
  BY DEF Built, atts
<1> QED
  BY <1>1, <1>2 DEF Sealed, Lockfile, LockfileDigest

LEMMA CommitsAnswered ==
  ASSUME NEW m \in Mirror, NEW c \in Commits, NEW mode,
         NEW answer \in CommitAnswers(mode, m, c)
  PROVE  answer \in Commits
BY DEF CommitAnswers, Mirror

LEMMA MergedType ==
  ASSUME NEW m \in Mirror, NEW c \in Commits, NEW mode,
         NEW files \in InventoryAnswers(mode, m, c)
  PROVE  Merged(c, c, files) \in Manifest
<1>1. \A list \in ListAnswers(mode, m, c) : list \subseteq RepoFiles
  BY DEF ListAnswers, Mirror
<1>2. files \subseteq RepoFiles
  BY <1>1 DEF InventoryAnswers
<1>3. PinnedArtifacts(c, files) \subseteq Artifact
  BY <1>2 DEF PinnedArtifacts, Artifact, Needed
<1> QED
  BY <1>3 DEF Merged, Manifest

\* The steps that write no file.
LEMMA TypesElsewhere ==
  ASSUME TypeInv, [Next]_vars, ~WriteFile, ~WriteBundle
  PROVE  TypeInv'
<1>0. FileManifest \in Manifest
  BY FileManifestType
<1>1. ASSUME UNCHANGED <<mirror, manifest, lockfile, dirs>>, main' \in Commits,
             job'.op \notin {"resolve", "manifest_out"} \/ job' = job
      PROVE  TypeInv'
  BY <1>1 DEF TypeInv
<1>2. ASSUME NEW lock, Lockfile(lock), lockfile' = {lock},
             UNCHANGED <<mirror, main, manifest, dirs>>,
             job'.op \notin {"resolve", "manifest_out"} \/ job' = job
      PROVE  TypeInv'
  BY <1>2 DEF TypeInv, AtMostOne
<1>3. CASE UNCHANGED vars
  BY <1>1, <1>3 DEF vars, TypeInv
<1>4. CASE Resolve
  <2>1. Lockfile(Resolved(manifest))
    BY ResolvedType DEF TypeInv
  <2> QED
    BY <1>2, <1>4, <2>1 DEF Resolve
<1>5. ASSUME NEW mode, ResolveCommit(mode) PROVE TypeInv'
  <2>1. PICK c \in CommitAnswers(mode, mirror, main) :
          job' = [op |-> "resolve", mode |-> mode, commit |-> c]
    BY <1>5 DEF ResolveCommit
  <2>2. job'.op = "resolve" /\ job'.commit = c
    BY <2>1
  <2>3. c \in Commits
    BY CommitsAnswered DEF TypeInv
  <2> QED
    BY <1>5, <2>2, <2>3 DEF ResolveCommit, TypeInv
<1>6. CASE ResolveFiles
  <2>1. PICK files \in InventoryAnswers(job.mode, mirror, job.commit) :
          LET man == Merged(job.commit, job.commit, files)
          IN  /\ lockfile' = IF Valid(man) THEN {Resolved(man)} ELSE lockfile
              /\ manifest' = IF front = "pipeline" THEN man ELSE manifest
              /\ job' = IF front = "cli" /\ Valid(man)
                        THEN [op |-> "manifest_out", man |-> man] ELSE Idle
    BY <1>6 DEF ResolveFiles, FilesCommit
  <2> DEFINE man == Merged(job.commit, job.commit, files)
  <2>2. mirror \in Mirror /\ job.commit \in Commits
    BY <1>6 DEF ResolveFiles, TypeInv
  <2>3. man \in Manifest
    BY <2>2, MergedType
  <2>4. /\ lockfile' = {Resolved(man)} \/ lockfile' = lockfile
        /\ manifest' = man \/ manifest' = manifest
        /\ job' = [op |-> "manifest_out", man |-> man] \/ job' = Idle
    BY <2>1
  <2> HIDE DEF man
  <2>5. Lockfile(Resolved(man))
    BY <2>3, ResolvedType
  <2>6. job'.op \in {"manifest_out", "idle"} /\ (job'.op = "manifest_out" => job'.man = man)
    BY <2>4 DEF Idle
  <2>7. UNCHANGED <<mirror, main, dirs>>
    BY <1>6 DEF ResolveFiles
  <2>8. AtMostOne(lockfile') /\ \A lock \in lockfile' : Lockfile(lock)
    BY <2>4, <2>5 DEF TypeInv, AtMostOne
  <2> QED
    BY <2>3, <2>4, <2>6, <2>7, <2>8 DEF TypeInv
<1>7. CASE WriteManifestOut
  BY <1>7 DEF WriteManifestOut, Idle, TypeInv
<1>8. ASSUME NEW closure \in Closures \cup {"reference", "malformed"}, Build(closure) PROVE TypeInv'
  <2>1. PICK lock \in CurrentLock : lockfile' = {Built(lock, closure)}
    BY <1>8 DEF Build
  <2>2. Lockfile(lock)
    BY <2>1, ResolvedType DEF CurrentLock, TypeInv
  <2>3. Lockfile(Built(lock, closure))
    BY <2>2, BuiltType
  <2> QED
    BY <1>2, <1>8, <2>1, <2>3 DEF Build
<1>9. ASSUME NEW d, NEW hw, NEW net, StartRun(d, hw, net) PROVE TypeInv'
  <2> DEFINE built == Built(Resolved(manifest), "reference")
  <2>1. lockfile' = {built} \/ lockfile' = lockfile
    BY <1>9 DEF StartRun, RunLock
  <2>2. Lockfile(built)
    BY ResolvedType, BuiltType DEF TypeInv
  <2> HIDE DEF built
  <2>3. UNCHANGED <<mirror, main, manifest, dirs>> /\ job'.op = "run"
    BY <1>9 DEF StartRun
  <2>4. CASE lockfile' = lockfile
    BY <1>1, <2>3, <2>4 DEF TypeInv
  <2> QED
    BY <1>2, <2>1, <2>2, <2>3, <2>4
<1>10. ASSUME NEW mode, Infer(mode) PROVE TypeInv'
  BY <1>1, <1>10 DEF Infer, TypeInv
<1>11. ASSUME NEW d, NEW hw, StartCapture(d, hw) PROVE TypeInv'
  <2>1. job'.op = "capture"
    BY <1>11 DEF StartCapture
  <2> QED
    BY <1>1, <1>11, <2>1 DEF StartCapture, TypeInv
<1>12. CASE Raise
  BY <1>1, <1>12 DEF Raise, Idle, TypeInv
<1>13. CASE Kill
  <2>1. /\ \/ manifest' = FileManifest /\ lockfile' = {}
           \/ UNCHANGED <<manifest, lockfile>>
        /\ job'.op = "idle" /\ UNCHANGED <<mirror, main, dirs>>
    BY <1>13 DEF Kill, Idle
  <2> QED
    BY <1>0, <2>1 DEF TypeInv, AtMostOne
<1>14. CASE HubMoves
  BY <1>1, <1>14 DEF HubMoves
<1>15. ASSUME NEW d1, NEW d2, Verify(d1, d2) PROVE TypeInv'
  <2>1. job'.op = "report"
    BY <1>15 DEF Verify
  <2> QED
    BY <1>1, <1>15, <2>1 DEF Verify, TypeInv
<1>16. CASE Reported
  BY <1>1, <1>16 DEF Reported, Idle, TypeInv
<1> QED
  BY <1>3, <1>4, <1>5, <1>6, <1>7, <1>8, <1>9, <1>10, <1>11, <1>12, <1>13,
     <1>14, <1>15, <1>16 DEF Next, VerifyLastTwo

\* A file is written over whatever an earlier command left under its name.
LEMMA TypesWritten ==
  ASSUME IInv, TypeInv, WriteFile \/ WriteBundle
  PROVE  TypeInv'
<1> DEFINE file == IF WriteFile THEN Head(job.left) ELSE "bundle"
<1>1. /\ \E x : dirs' = [dirs EXCEPT ![job.dir][file] = {x}]
      /\ UNCHANGED <<mirror, main, manifest, lockfile>>
  BY DEF WriteFile, WriteBundle
<1>2. DOMAIN dirs = Dirs /\ \A d \in Dirs : DOMAIN dirs[d] = FileNames
  BY DEF IInv, DirInv
<1> HIDE DEF file
<1>3. job'.op \notin {"resolve", "manifest_out"}
  <2>1. CASE WriteFile
    <3>1. "op" \in DOMAIN job /\ job.op \in {"run", "capture"}
      BY <2>1 DEF WriteFile, Writing, IInv, JobInv
    <3>2. job'.op = job.op
      BY <2>1, <3>1 DEF WriteFile
    <3> QED
      BY <3>1, <3>2
  <2>2. CASE WriteBundle
    BY <2>2 DEF WriteBundle, Idle
  <2> QED
    BY <2>1, <2>2
<1>4. ASSUME NEW d \in Dirs, NEW f \in FileNames
      PROVE  AtMostOne(dirs'[d][f])
  <2>1. PICK x : dirs' = [dirs EXCEPT ![job.dir][file] = {x}]
    BY <1>1
  <2>2. dirs'[d][f] = {x} \/ dirs'[d][f] = dirs[d][f]
    BY <1>2, <2>1
  <2> QED
    BY <2>2 DEF TypeInv, AtMostOne
<1> QED
  BY <1>1, <1>3, <1>4 DEF TypeInv

-----------------------------------------------------------------------------
(* What a bundle and a report stand for *)

\* Manifest, lockfile and files have their types: a lockfile carries the digest
\* of its own contents and one attestation however often it is built, whatever
\* command raised or was killed before.  (builder main.py build_runtime,
\* deterministic.py compute_lockfile_digest)
THEOREM TypeCorrect == Spec => []TypeOK
<1>1. Init => TypeInv
  <2> SUFFICES ASSUME Init PROVE TypeInv
    OBVIOUS
  <2>1. job.op = "idle" /\ mirror \in Mirror /\ main \in Commits /\ manifest \in Manifest
    BY FileManifestType, PipelineAssumption DEF Init, Idle
  <2>2. \A d \in Dirs, f \in FileNames : dirs[d][f] = {}
    BY DEF Init, NoFiles, FileNames
  <2> QED
    BY <2>1, <2>2 DEF Init, TypeInv, AtMostOne
<1>2. IInv /\ TypeInv /\ [Next]_vars => TypeInv'
  BY TypesElsewhere, TypesWritten
<1>3. IInv /\ TypeInv => TypeOK
  <2> SUFFICES ASSUME IInv, TypeInv PROVE TypeOK
    OBVIOUS
  <2>1. Cardinality(lockfile) <= 1
    BY AtMostOneCounts DEF TypeInv
  <2>2. \A d \in Dirs, f \in FileNames : Cardinality(dirs[d][f]) <= 1
    BY AtMostOneCounts DEF TypeInv
  <2>3. DOMAIN NoFiles = FileNames
    BY DEF NoFiles, FileNames
  <2>4. ToSet(bundles) \subseteq Dirs
    BY DEF IInv, PlacesInv, ToSet
  <2> QED
    BY <2>1, <2>2, <2>3, <2>4 DEF TypeInv, TypeOK
<1> QED
  BY <1>1, <1>2, <1>3, Initially, Inductive, PTL DEF Spec

\* A bundle speaks of one run, whose lockfile was resolved from its manifest;
\* while its digests hold, the outputs and the lockfile beside it are that
\* run's, whatever later commands wrote there before they failed or were
\* killed, for any number of runs and directories.  (runner main.py run)
THEOREM BundlesAreBound == Spec => []BundleIsBound
<1>1. IInv => BundleIsBound
  BY BoundBundles DEF IInv
<1> QED
  BY <1>1, Initially, Inductive, PTL DEF Spec

\* A report says "mismatch_outputs" exactly when the two runs behind the
\* bundles computed different outputs, and "conformant" only if hardware and
\* closure agree as well.  (verifier main.py verify)
THEOREM ReportsAreTrue == Spec => []ReportIsOfItsRuns
<1>1. IInv => ReportIsOfItsRuns
  BY DEF IInv
<1> QED
  BY <1>1, Initially, Inductive, PTL DEF Spec

-----------------------------------------------------------------------------
(* Arithmetic of counters that wrap.                                       *)

LEMMA ModIs ==
  ASSUME NEW S \in Nat \ {0}, NEW a \in Int, NEW q \in Int, NEW r \in 0 .. S - 1, a = q * S + r
  PROVE  a % S = r
OBVIOUS

LEMMA ModHas ==
  ASSUME NEW S \in Nat \ {0}, NEW a \in Int
  PROVE  a % S \in 0 .. S - 1 /\ \E q \in Int : a = q * S + (a % S)
<1>1. a = S * (a \div S) + (a % S) /\ a \div S \in Int
  OBVIOUS
<1>2. a = (a \div S) * S + (a % S)
  BY <1>1
<1>3. a % S \in 0 .. S - 1
  OBVIOUS
<1>. QED
  BY <1>1, <1>2, <1>3

LEMMA Sums ==
  ASSUME NEW S \in Int, NEW p \in Int, NEW q \in Int
  PROVE  (p + q) * S = p * S + q * S /\ (p - q) * S = p * S - q * S
OBVIOUS

\* A remainder may be taken of a summand first.
LEMMA ModOfSum ==
  ASSUME NEW S \in Nat \ {0}, NEW a \in Int, NEW b \in Int
  PROVE  ((a % S) + b) % S = (a + b) % S
<1>. DEFINE x == a % S
            y == (x + b) % S
<1>1. PICK q \in Int : a = q * S + x
  BY ModHas
<1>2. x \in Int /\ x + b \in Int
  <2>1. x \in 0 .. S - 1
    BY ModHas
  <2>. QED
    BY <2>1
<1>3. y \in 0 .. S - 1 /\ \E p \in Int : x + b = p * S + y
  BY <1>2, ModHas
<1>4. PICK p \in Int : x + b = p * S + y
  BY <1>3
<1>. HIDE DEF x, y
<1>5. a + b = (q + p) * S + y
  <2>1. q * S \in Int /\ p * S \in Int
    OBVIOUS
  <2>2. a + b = (q * S + p * S) + y
    BY <1>1, <1>2, <1>3, <1>4, <2>1
  <2>. QED
    BY <2>2, Sums
<1>6. (a + b) % S = y
  <2>1. a + b \in Int /\ q + p \in Int
    OBVIOUS
  <2>. QED
    BY <1>3, <1>5, <2>1, ModIs
<1>. QED
  BY <1>6 DEF x, y

-----------------------------------------------------------------------------
(* Induction over the natural numbers, for a set: the least number that is *)
(* not in it is a contradiction.                                           *)

LEMMA LeastElement ==
  ASSUME NEW T \in SUBSET Nat, T # {}
  PROVE  \E x \in T : \A y \in T : x <= y
<1> DEFINE R == {ss \in Nat \X Nat : ss[1] < ss[2]}
<1>1. IsWellFoundedOn(R, Nat)
  BY NatLessThanWellFounded DEF OpToRel
<1> HIDE DEF R
<1>2. PICK x \in T : \A y \in T : ~ (<<y, x>> \in R)
  BY <1>1, WFMin
<1>3. \A y \in T : x <= y
  <2>1. SUFFICES ASSUME NEW y \in T, y < x PROVE FALSE
    OBVIOUS
  <2>2. <<y, x>> \in R
    BY <2>1 DEF R
  <2> QED
    BY <1>2, <2>2
<1> QED
  BY <1>3

LEMMA Induction ==
  ASSUME NEW S, 0 \in S, \A n \in Nat : n \in S => n + 1 \in S
  PROVE  \A n \in Nat : n \in S
<1>1. SUFFICES ASSUME Nat \ S # {} PROVE FALSE
  OBVIOUS
<1>2. PICK x \in Nat \ S : \A y \in Nat \ S : x <= y
  BY <1>1, LeastElement
<1>3. x # 0
  OBVIOUS
<1>4. x - 1 \in Nat /\ x - 1 \in S
  BY <1>2, <1>3
<1> QED
  BY <1>4

-----------------------------------------------------------------------------
(* The recursive function that picks elements out of a sequence.           *)

\* One equation of it, for a function f in the place of the function itself.
Pick1(s, keep, f, n) ==
    IF n = 0 THEN <<>>
    ELSE IF s[n] \in keep THEN Append(f[n - 1], s[n]) ELSE f[n - 1]

LEMMA UpToExists ==
  ASSUME NEW s, NEW keep, NEW L \in Nat
  PROVE  \E f : f = [n \in 0 .. L |-> Pick1(s, keep, f, n)]
<1> DEFINE S == {m \in Nat : \E f : f = [n \in 0 .. m |-> Pick1(s, keep, f, n)]}
<1>1. 0 \in S
  <2> DEFINE g == [n \in 0 .. 0 |-> <<>>]
  <2>1. g = [n \in 0 .. 0 |-> Pick1(s, keep, g, n)]
    BY DEF Pick1
  <2> QED
    BY <2>1
<1>2. ASSUME NEW m \in Nat, m \in S
      PROVE  m + 1 \in S
  <2>1. PICK f : f = [n \in 0 .. m |-> Pick1(s, keep, f, n)]
    BY <1>2
  <2> DEFINE g == [n \in 0 .. m + 1 |-> Pick1(s, keep, f, n)]
  <2>2. \A n \in 0 .. m : g[n] = f[n]
    <3> SUFFICES ASSUME NEW n \in 0 .. m PROVE g[n] = f[n]
      OBVIOUS
    <3>1. n \in 0 .. m + 1
      OBVIOUS
    <3>2. f[n] = Pick1(s, keep, f, n)
      BY <2>1
    <3> QED
      BY <3>1, <3>2
  <2>3. \A n \in 0 .. m + 1 : Pick1(s, keep, f, n) = Pick1(s, keep, g, n)
    <3> SUFFICES ASSUME NEW n \in 0 .. m + 1
                 PROVE  Pick1(s, keep, f, n) = Pick1(s, keep, g, n)
      OBVIOUS
    <3>1. CASE n = 0
      BY <3>1 DEF Pick1
    <3>2. CASE n # 0
      <4>1. n - 1 \in 0 .. m
        BY <3>2
      <4>2. g[n - 1] = f[n - 1]
        BY <2>2, <4>1
      <4> HIDE DEF g
      <4> QED
        BY <4>2 DEF Pick1
    <3> QED
      BY <3>1, <3>2
  <2>4. g = [n \in 0 .. m + 1 |-> Pick1(s, keep, g, n)]
    <3>1. g = [n \in 0 .. m + 1 |-> Pick1(s, keep, f, n)]
      OBVIOUS
    <3> HIDE DEF g
    <3> QED
      BY <2>3, <3>1
  <2>5. \E h : h = [n \in 0 .. m + 1 |-> Pick1(s, keep, h, n)]
    <3> HIDE DEF g
    <3> QED
      BY <2>4
  <2> QED
    BY <2>5
<1>3. \A m \in Nat : m \in S
  <2> HIDE DEF S
  <2> QED
    BY <1>1, <1>2, Induction
<1> QED
  BY <1>3

LEMMA UpToDef ==
  ASSUME NEW s, NEW keep, Len(s) \in Nat
  PROVE  \A n \in 0 .. Len(s) : UpTo(s, keep)[n] = Pick1(s, keep, UpTo(s, keep), n)
<1> DEFINE u == UpTo(s, keep)
<1>1. u = CHOOSE f : f = [n \in 0 .. Len(s) |->
                IF n = 0 THEN <<>>
                ELSE IF s[n] \in keep THEN Append(f[n - 1], s[n]) ELSE f[n - 1]]
  BY DEF UpTo
<1>2. \E f : f = [n \in 0 .. Len(s) |->
                IF n = 0 THEN <<>>
                ELSE IF s[n] \in keep THEN Append(f[n - 1], s[n]) ELSE f[n - 1]]
  <2>1. PICK f : f = [n \in 0 .. Len(s) |-> Pick1(s, keep, f, n)]
    BY UpToExists
  <2>2. f = [n \in 0 .. Len(s) |->
                IF n = 0 THEN <<>>
                ELSE IF s[n] \in keep THEN Append(f[n - 1], s[n]) ELSE f[n - 1]]
    BY <2>1 DEF Pick1
  <2> QED
    BY <2>2
<1>3. u = [n \in 0 .. Len(s) |->
                IF n = 0 THEN <<>>
                ELSE IF s[n] \in keep THEN Append(u[n - 1], s[n]) ELSE u[n - 1]]
  <2> HIDE DEF u
  <2> QED
    BY <1>1, <1>2
<1> HIDE DEF u
<1>4. \A n \in 0 .. Len(s) : u[n] = Pick1(s, keep, u, n)
  BY <1>3 DEF Pick1
<1> QED
  BY <1>4 DEF u

LEMMA UpToType ==
  ASSUME NEW E, NEW s \in Seq(E), NEW keep
  PROVE  \A n \in 0 .. Len(s) : UpTo(s, keep)[n] \in Seq(E)
<1> DEFINE u == UpTo(s, keep)
           S == {n \in Nat : n <= Len(s) => u[n] \in Seq(E)}
<1>0. \A n \in 0 .. Len(s) : u[n] = Pick1(s, keep, u, n)
  BY UpToDef
<1> HIDE DEF u
<1>1. 0 \in S
  <2>1. Len(s) \in Nat /\ <<>> \in Seq(E)
    OBVIOUS
  <2>2. u[0] = <<>>
    BY <1>0, <2>1 DEF Pick1
  <2> QED
    BY <2>1, <2>2
<1>2. ASSUME NEW n \in Nat, n \in S
      PROVE  n + 1 \in S
  <2>1. SUFFICES ASSUME n + 1 <= Len(s) PROVE u[n + 1] \in Seq(E)
    OBVIOUS
  <2>2. u[n] \in Seq(E) /\ s[n + 1] \in E
    BY <1>2, <2>1
  <2>3. u[n + 1] = IF s[n + 1] \in keep THEN Append(u[n], s[n + 1]) ELSE u[n]
    BY <1>0, <2>1 DEF Pick1
  <2> QED
    BY <2>2, <2>3
<1>3. \A n \in Nat : n \in S
  <2> HIDE DEF S
  <2> QED
    BY <1>1, <1>2, Induction
<1> QED
  BY <1>3 DEF u

\* It depends on the elements it has come past only.
LEMMA UpToPrefix ==
  ASSUME NEW s, NEW t, NEW keep, Len(s) \in Nat, Len(t) \in Nat,
         NEW m \in Nat, m <= Len(s), m <= Len(t), \A i \in 1 .. m : s[i] = t[i]
  PROVE  UpTo(s, keep)[m] = UpTo(t, keep)[m]
<1> DEFINE u == UpTo(s, keep)
           v == UpTo(t, keep)
           S == {n \in Nat : n <= m => u[n] = v[n]}
<1>0. /\ \A n \in 0 .. Len(s) : u[n] = Pick1(s, keep, u, n)
      /\ \A n \in 0 .. Len(t) : v[n] = Pick1(t, keep, v, n)
  BY UpToDef
<1> HIDE DEF u, v
<1>1. 0 \in S
  BY <1>0 DEF Pick1
<1>2. ASSUME NEW n \in Nat, n \in S
      PROVE  n + 1 \in S
  <2>1. SUFFICES ASSUME n + 1 <= m PROVE u[n + 1] = v[n + 1]
    OBVIOUS
  <2>2. u[n] = v[n] /\ s[n + 1] = t[n + 1]
    BY <1>2, <2>1
  <2>3. u[n + 1] = IF s[n + 1] \in keep THEN Append(u[n], s[n + 1]) ELSE u[n]
    BY <1>0, <2>1 DEF Pick1
  <2>4. v[n + 1] = IF t[n + 1] \in keep THEN Append(v[n], t[n + 1]) ELSE v[n]
    BY <1>0, <2>1 DEF Pick1
  <2> QED
    BY <2>2, <2>3, <2>4
<1>3. \A n \in Nat : n \in S
  <2> HIDE DEF S
  <2> QED
    BY <1>1, <1>2, Induction
<1> QED
  BY <1>3 DEF u, v

LEMMA WhereType ==
  ASSUME NEW E, NEW s \in Seq(E), NEW keep
  PROVE  Where(s, keep) \in Seq(E)
<1>1. Len(s) \in Nat
  OBVIOUS
<1> QED
  BY <1>1, UpToType DEF Where

LEMMA WhereEmpty ==
  ASSUME NEW keep
  PROVE  Where(<<>>, keep) = <<>>
<1>1. Len(<<>>) = 0
  OBVIOUS
<1>2. UpTo(<<>>, keep)[0] = Pick1(<<>>, keep, UpTo(<<>>, keep), 0)
  BY <1>1, UpToDef
<1> QED
  BY <1>1, <1>2 DEF Where, Pick1

\* One more element.
LEMMA WhereAppend ==
  ASSUME NEW E, NEW s \in Seq(E), NEW e \in E, NEW keep
  PROVE  Where(Append(s, e), keep) =
             IF e \in keep THEN Append(Where(s, keep), e) ELSE Where(s, keep)
<1> DEFINE t == Append(s, e)
           n == Len(s)
<1>1. t \in Seq(E) /\ Len(t) = n + 1 /\ n \in Nat /\ t[n + 1] = e
      /\ \A i \in 1 .. n : t[i] = s[i]
  BY AppendProperties
<1> HIDE DEF t, n
<1>2. UpTo(t, keep)[n + 1] = Pick1(t, keep, UpTo(t, keep), n + 1)
  BY <1>1, UpToDef
<1>3. UpTo(t, keep)[n] = UpTo(s, keep)[n]
  <2>1. Len(s) = n /\ n <= Len(t) /\ n <= Len(s)
    BY <1>1 DEF n
  <2> QED
    BY <1>1, <2>1, UpToPrefix
<1>4. Where(t, keep) = IF e \in keep THEN Append(UpTo(s, keep)[n], e)
                           ELSE UpTo(s, keep)[n]
  BY <1>1, <1>2, <1>3 DEF Where, Pick1
<1> QED
  BY <1>4 DEF Where, t, n

LEMMA AppendConcat ==
  ASSUME NEW E, NEW a \in Seq(E), NEW b \in Seq(E), NEW e \in E
  PROVE  a \o Append(b, e) = Append(a \o b, e)
<1>1. Append(b, e) = b \o <<e>> /\ Append(a \o b, e) = (a \o b) \o <<e>>
  BY AppendIsConcat
<1> QED
  BY <1>1, ConcatAssociative

\* A sequence none of whose elements is picked, and one all of whose are.
LEMMA WhereConcat ==
  ASSUME NEW E, NEW s \in Seq(E), NEW t \in Seq(E), NEW keep
  PROVE  /\ (\A i \in 1 .. Len(t) : t[i] \notin keep)
                => Where(s \o t, keep) = Where(s, keep)
         /\ (\A i \in 1 .. Len(t) : t[i] \in keep)
                => Where(s \o t, keep) = Where(s, keep) \o t
<1> DEFINE Up(m) == SubSeq(t, 1, m)
           None(m) == \A i \in 1 .. m : t[i] \notin keep
           All(m) == \A i \in 1 .. m : t[i] \in keep
           S == {m \in Nat : m <= Len(t) =>
                    /\ None(m) => Where(s \o Up(m), keep) = Where(s, keep)
                    /\ All(m) => Where(s \o Up(m), keep) = Where(s, keep) \o Up(m)}
<1>0. Where(s, keep) \in Seq(E)
  BY WhereType
<1>7. \A a \in Seq(E), e \in E : Where(Append(a, e), keep) =
          IF e \in keep THEN Append(Where(a, keep), e) ELSE Where(a, keep)
  BY WhereAppend
<1>1. 0 \in S
  <2>1. Up(0) = <<>>
    BY SubSeqEmpty
  <2>2. s \o Up(0) = s /\ Where(s, keep) \o Up(0) = Where(s, keep)
    BY <1>0, <2>1, ConcatEmptySeq
  <2> QED
    BY <2>2
<1>2. ASSUME NEW m \in Nat, m \in S
      PROVE  m + 1 \in S
  <2>1. SUFFICES ASSUME m + 1 <= Len(t)
                 PROVE  /\ None(m + 1) => Where(s \o Up(m + 1), keep) = Where(s, keep)
                        /\ All(m + 1) => Where(s \o Up(m + 1), keep)
                                            = Where(s, keep) \o Up(m + 1)
    OBVIOUS
  <2>2. Up(m) \in Seq(E) /\ t[m + 1] \in E
    BY <2>1
  <2>3. Up(m + 1) = Append(Up(m), t[m + 1])
    BY <2>1, SubSeqProperties
  <2>4. /\ s \o Up(m + 1) = Append(s \o Up(m), t[m + 1])
        /\ Where(s, keep) \o Up(m + 1) = Append(Where(s, keep) \o Up(m), t[m + 1])
    <3>1. s \o Append(Up(m), t[m + 1]) = Append(s \o Up(m), t[m + 1])
      <4> HIDE DEF Up
      <4> QED
        BY <2>2, AppendConcat
    <3>2. Where(s, keep) \o Append(Up(m), t[m + 1])
              = Append(Where(s, keep) \o Up(m), t[m + 1])
      <4> HIDE DEF Up
      <4> QED
        BY <1>0, <2>2, AppendConcat
    <3> HIDE DEF Up
    <3> QED
      BY <2>3, <3>1, <3>2
  <2>5. Where(s \o Up(m + 1), keep)
            = IF t[m + 1] \in keep THEN Append(Where(s \o Up(m), keep), t[m + 1])
              ELSE Where(s \o Up(m), keep)
    <3>1. s \o Up(m) \in Seq(E)
      BY <2>2
    <3>2. Where(Append(s \o Up(m), t[m + 1]), keep)
            = IF t[m + 1] \in keep THEN Append(Where(s \o Up(m), keep), t[m + 1])
              ELSE Where(s \o Up(m), keep)
      <4> HIDE DEF Up
      <4> QED
        BY <1>7, <2>2, <3>1
    <3> HIDE DEF Up
    <3> QED
      BY <2>4, <3>2
  <2>6. (None(m + 1) => None(m) /\ t[m + 1] \notin keep)
        /\ (All(m + 1) => All(m) /\ t[m + 1] \in keep)
    OBVIOUS
  <2>7. /\ None(m) => Where(s \o Up(m), keep) = Where(s, keep)
        /\ All(m) => Where(s \o Up(m), keep) = Where(s, keep) \o Up(m)
    BY <1>2, <2>1
  <2> HIDE DEF Up, None, All
  <2> QED
    BY <2>4, <2>5, <2>6, <2>7
<1>3. \A m \in Nat : m \in S
  <2> HIDE DEF S
  <2> QED
    BY <1>1, <1>2, Induction
<1>4. Len(t) \in Nat /\ Up(Len(t)) = t
  BY SubSeqFull
<1>5. Len(t) \in S
  BY <1>3, <1>4
<1>6. /\ None(Len(t)) => Where(s \o Up(Len(t)), keep) = Where(s, keep)
      /\ All(Len(t)) => Where(s \o Up(Len(t)), keep) = Where(s, keep) \o Up(Len(t))
  BY <1>4, <1>5
<1> QED
  BY <1>4, <1>6

-----------------------------------------------------------------------------
(* The frames of one payload.                                              *)

Builder == [seq : 0 .. SeqSpace - 1, ipId : 0 .. IdSpace - 1]

LEMMA Multiples ==
  ASSUME NEW m \in Nat, NEW a \in Nat, NEW b \in Nat, a <= b
  PROVE  a * m \in Nat /\ b * m \in Nat /\ a * m <= b * m /\ (a + 1) * m = a * m + m
<1>1. PICK d \in Nat : b = a + d
  <2>1. b - a \in Nat /\ b = a + (b - a)
    OBVIOUS
  <2> QED
    BY <2>1
<1>2. a * m \in Nat /\ d * m \in Nat
  OBVIOUS
<1>3. b * m = a * m + d * m /\ (a + 1) * m = a * m + m
  BY <1>1
<1> QED
  BY <1>2, <1>3

\* A payload of len bytes takes as many segments as cover it.
LEMMA SegmentsCover ==
  ASSUME NetStackAssumption, NEW len \in Nat
  PROVE  /\ Segments(len) \in Nat
         /\ len = 0 => Segments(len) = 0
         /\ len > 0 => /\ Segments(len) >= 1
                       /\ (Segments(len) - 1) * MSS < len
                       /\ len <= Segments(len) * MSS
<1> DEFINE a == len + MSS - 1
           n == a \div MSS
           r == a % MSS
<1>1. MSS \in Nat \ {0} /\ a \in Nat
  BY DEF NetStackAssumption
<1> HIDE DEF a
<1>2. a = MSS * n + r /\ n \in Int /\ r \in 0 .. MSS - 1
  BY <1>1
<1>3. n = Segments(len)
  BY DEF Segments, a
<1> HIDE DEF n, r
<1>4. MSS * n = n * MSS /\ (n - 1) * MSS = n * MSS - MSS /\ n * MSS \in Int
  BY <1>1, <1>2
<1>5. a = len + MSS - 1
  BY DEF a
<1>6. len <= n * MSS /\ n * MSS < len + MSS
  BY <1>1, <1>2, <1>4, <1>5
<1>7. n >= 0
  <2>1. SUFFICES ASSUME n <= -1 PROVE FALSE
    BY <1>2
  <2>2. n * MSS <= -MSS
    <3>1. -n - 1 \in Nat /\ (-n - 1) * MSS \in Nat
      BY <1>1, <1>2, <2>1
    <3>2. (-n - 1) * MSS = -(n * MSS) - MSS
      BY <1>1, <1>2
    <3> QED
      BY <1>1, <1>4, <3>1, <3>2
  <2> QED
    BY <1>1, <1>4, <1>6, <2>2
<1>8. n = 0 => n * MSS = 0
  BY <1>1
<1>9. n >= 1 => n * MSS >= MSS
  <2>1. SUFFICES ASSUME n >= 1 PROVE n * MSS >= MSS
    OBVIOUS
  <2>2. n - 1 \in Nat /\ (n - 1) * MSS \in Nat
    BY <1>1, <1>2, <2>1
  <2> QED
    BY <1>1, <1>4, <2>2
<1>10. len = 0 => n = 0
  BY <1>1, <1>2, <1>4, <1>6, <1>7, <1>9
<1>11. len > 0 => n >= 1
  BY <1>2, <1>6, <1>7, <1>8
<1>12. (n - 1) * MSS < len
  BY <1>1, <1>4, <1>6
<1> QED
  BY <1>2, <1>3, <1>6, <1>7, <1>10, <1>11, <1>12

LEMMA FramesOfPayload ==
  ASSUME NetStackAssumption, NEW c \in Conns, NEW b \in Builder, NEW p \in Payload
  PROVE  /\ BuildDataFrames(c, b, p) \in Seq(Frame)
         /\ Len(BuildDataFrames(c, b, p)) = Segments(p.len)
         /\ Segments(p.len) \in Nat
         /\ \A i \in 1 .. Segments(p.len) :
              LET f == BuildDataFrames(c, b, p)[i]
              IN  /\ f.conn = c /\ f.content = p.content
                  /\ f.seq = (b.seq + (i - 1) * MSS) % SeqSpace
                  /\ f.ipId = (b.ipId + i - 1) % IdSpace
                  /\ f.off = (i - 1) * MSS /\ f.off \in Nat
                  /\ f.len \in 1 .. MSS
                  /\ f.psh <=> i = Segments(p.len)
                  /\ f.psh => f.off + f.len = p.len
                  /\ ~ f.psh => f.len = MSS
<1> DEFINE n == Segments(p.len)
           fr == BuildDataFrames(c, b, p)
<1>1. /\ MSS \in Nat \ {0} /\ SeqSpace \in Nat \ {0} /\ IdSpace \in Nat \ {0}
      /\ p.len \in Nat /\ p.content \in Contents
      /\ b.seq \in Nat /\ b.ipId \in Nat
  <2>1. MSS \in Nat \ {0} /\ SeqSpace \in Nat \ {0} /\ IdSpace \in Nat \ {0} /\ Lengths \subseteq Nat
    BY DEF NetStackAssumption
  <2>2. p.len \in Lengths /\ p.content \in Contents
    BY DEF Payload
  <2>3. b.seq \in 0 .. SeqSpace - 1 /\ b.ipId \in 0 .. IdSpace - 1
    BY DEF Builder
  <2>4. b.seq \in Nat /\ b.ipId \in Nat
    BY <2>1, <2>3
  <2>5. p.len \in Nat
    BY <2>1, <2>2
  <2> QED
    BY <2>1, <2>2, <2>4, <2>5
<1>2. /\ n \in Nat
      /\ p.len = 0 => n = 0
      /\ p.len > 0 => n >= 1 /\ (n - 1) * MSS < p.len /\ p.len <= n * MSS
  BY <1>1, SegmentsCover
<1>3. fr = [i \in 1 .. n |-> BuildFrame(c, b, p, i)]
  BY DEF BuildDataFrames
<1> HIDE DEF n, fr
<1>4. ASSUME NEW i \in 1 .. n
      PROVE  /\ fr[i] \in Frame
             /\ fr[i].conn = c /\ fr[i].content = p.content
             /\ fr[i].seq = (b.seq + (i - 1) * MSS) % SeqSpace
             /\ fr[i].ipId = (b.ipId + i - 1) % IdSpace
             /\ fr[i].off = (i - 1) * MSS /\ fr[i].off \in Nat
             /\ fr[i].len \in 1 .. MSS
             /\ fr[i].psh <=> i = n
             /\ fr[i].psh => fr[i].off + fr[i].len = p.len
             /\ ~ fr[i].psh => fr[i].len = MSS
  <2> DEFINE off == (i - 1) * MSS
             len == IF p.len - off < MSS THEN p.len - off ELSE MSS
  <2>1. fr[i] = [conn |-> c, seq |-> (b.seq + off) % SeqSpace,
                 ipId |-> (b.ipId + i - 1) % IdSpace, psh |-> off + len >= p.len,
                 content |-> p.content, off |-> off, len |-> len]
    BY <1>3 DEF BuildFrame
  <2>2. p.len > 0 /\ i - 1 \in Nat /\ i \in Nat /\ n - 1 \in Nat
    BY <1>1, <1>2
  <2>3. off \in Nat /\ off <= (n - 1) * MSS /\ off < p.len
    <3>1. off \in Nat /\ (n - 1) * MSS \in Nat /\ off <= (n - 1) * MSS
      <4>1. i - 1 \in Nat /\ n - 1 \in Nat /\ i - 1 <= n - 1 /\ MSS \in Nat
        BY <1>1, <1>2, <2>2
      <4>2. \A a, d \in Nat : a <= d => a * MSS \in Nat /\ d * MSS \in Nat /\ a * MSS <= d * MSS
        BY <4>1, Multiples
      <4> QED
        BY <4>1, <4>2
    <3> QED
      BY <1>1, <1>2, <2>2, <3>1
  <2>4. off + MSS = i * MSS
    BY <1>1, <2>2
  <2>5. i = n => off + MSS >= p.len
    BY <1>2, <2>2, <2>4
  <2>6. i # n => off + MSS < p.len
    <3>1. SUFFICES ASSUME i # n PROVE off + MSS < p.len
      OBVIOUS
    <3>2. i <= n - 1
      BY <1>2, <3>1
    <3>3. i * MSS <= (n - 1) * MSS /\ i * MSS \in Nat /\ (n - 1) * MSS \in Nat
      <4>1. i \in Nat /\ n - 1 \in Nat /\ MSS \in Nat
        BY <1>1, <1>2, <2>2
      <4>2. \A a, d \in Nat : a <= d => a * MSS \in Nat /\ d * MSS \in Nat /\ a * MSS <= d * MSS
        BY <4>1, Multiples
      <4> QED
        BY <3>2, <4>1, <4>2
    <3> QED
      BY <1>1, <1>2, <2>2, <2>4, <3>3
  <2> HIDE DEF off
  <2>7. len \in 1 .. MSS /\ (off + len >= p.len <=> i = n)
        /\ (i = n => off + len = p.len) /\ (i # n => len = MSS)
    <3>1. p.len \in Nat /\ MSS \in Nat \ {0} /\ off \in Nat /\ off < p.len
      BY <1>1, <2>3
    <3>2. CASE off + MSS >= p.len
      <4>1. i = n /\ len = p.len - off
        BY <2>6, <3>1, <3>2
      <4> QED
        BY <3>1, <3>2, <4>1
    <3>3. CASE ~(off + MSS >= p.len)
      <4>1. i # n /\ len = MSS
        BY <2>5, <3>1, <3>3
      <4> QED
        BY <3>1, <3>3, <4>1
    <3> QED
      BY <3>2, <3>3
  <2>8. (b.seq + off) % SeqSpace \in 0 .. SeqSpace - 1
        /\ (b.ipId + i - 1) % IdSpace \in 0 .. IdSpace - 1
    <3>1. b.seq + off \in Int /\ b.ipId + i - 1 \in Int
      BY <1>1, <2>2, <2>3
    <3> QED
      BY <1>1, <3>1, ModHas
  <2> HIDE DEF len
  <2>9. fr[i] \in Frame
    BY <1>1, <2>1, <2>3, <2>7, <2>8 DEF Frame
  <2>10. /\ fr[i].conn = c /\ fr[i].content = p.content
         /\ fr[i].seq = (b.seq + off) % SeqSpace
         /\ fr[i].ipId = (b.ipId + i - 1) % IdSpace
         /\ fr[i].off = off /\ fr[i].len = len /\ fr[i].psh = (off + len >= p.len)
    BY <2>1
  <2> QED
    BY <2>3, <2>7, <2>9, <2>10 DEF off
<1>5. fr \in Seq(Frame) /\ Len(fr) = n
  <2>1. n \in Nat /\ \A i \in 1 .. n : fr[i] \in Frame
    BY <1>2, <1>4
  <2>2. n \in Nat /\ \A i \in 1 .. n : BuildFrame(c, b, p, i) \in Frame
    BY <1>3, <2>1
  <2>3. [i \in 1 .. n |-> BuildFrame(c, b, p, i)] \in Seq(Frame)
    BY <2>2
  <2> QED
    BY <1>3, <2>1, <2>3
<1> QED
  BY <1>2, <1>4, <1>5 DEF n, fr

-----------------------------------------------------------------------------
(* What a builder has made of its connection, and what a payload adds.     *)

\* The frames fs of a connection, from its start, rebuild its payloads ps, and
\* its builder b goes on where the last of them ends.
Stream(start, fs, b, ps) ==
    /\ Rebuilds(start, fs, ps)
    /\ b.ipId = Len(fs) % IdSpace
    /\ b.seq = IF Len(fs) = 0 THEN start
               ELSE (fs[Len(fs)].seq + fs[Len(fs)].len) % SeqSpace
    /\ Len(fs) > 0 => fs[Len(fs)].psh

Ends(fs) == Where(fs, {f \in Frame : f.psh})
Sent(ps) == Where(ps, {p \in Payload : p.len > 0})

\* The clauses of Rebuilds: of frame i, and of the payloads.
FrameFits(start, fs, i) ==
    /\ fs[i].seq = IF i = 1 THEN start ELSE (fs[i - 1].seq + fs[i - 1].len) % SeqSpace
    /\ fs[i].ipId = (i - 1) % IdSpace
    /\ fs[i].len \in 1 .. MSS
    /\ fs[i].off = IF i = 1 \/ fs[i - 1].psh THEN 0 ELSE fs[i - 1].off + fs[i - 1].len

EndsMatch(ends, sent) ==
    /\ Len(ends) = Len(sent)
    /\ \A k \in 1 .. Len(ends) :
         ends[k].content = sent[k].content /\ ends[k].off + ends[k].len = sent[k].len

LEMMA RebuildsIs ==
  ASSUME NEW start, NEW fs, NEW ps
  PROVE  Rebuilds(start, fs, ps) <=> /\ \A i \in 1 .. Len(fs) : FrameFits(start, fs, i)
                                     /\ EndsMatch(Ends(fs), Sent(ps))
BY DEF Rebuilds, FrameFits, EndsMatch, Ends, Sent

LEMMA SmallMod ==
  ASSUME NEW S \in Nat \ {0}, NEW r \in 0 .. S - 1
  PROVE  r % S = r
<1>1. r \in Int /\ 0 \in Int /\ r = 0 * S + r
  OBVIOUS
<1> QED
  BY <1>1, ModIs

LEMMA AdvanceType ==
  ASSUME NetStackAssumption, NEW b \in Builder, NEW p \in Payload
  PROVE  /\ Advance(b, p) \in Builder
         /\ p.len = 0 => Advance(b, p).seq = b.seq /\ Advance(b, p).ipId = b.ipId
<1>1. /\ SeqSpace \in Nat \ {0} /\ IdSpace \in Nat \ {0} /\ Lengths \subseteq Nat
  BY DEF NetStackAssumption
<1>2. p.len \in Nat
  BY <1>1 DEF Payload
<1>3. b.seq \in 0 .. SeqSpace - 1 /\ b.ipId \in 0 .. IdSpace - 1
  BY DEF Builder
<1>4. Segments(p.len) \in Nat /\ (p.len = 0 => Segments(p.len) = 0)
  BY <1>2, SegmentsCover
<1> DEFINE n == Segments(p.len)
<1>5. Advance(b, p) = [seq |-> (b.seq + p.len) % SeqSpace, ipId |-> (b.ipId + n) % IdSpace]
  BY DEF Advance
<1> HIDE DEF n
<1>6. (b.seq + p.len) % SeqSpace \in 0 .. SeqSpace - 1 /\ (b.ipId + n) % IdSpace \in 0 .. IdSpace - 1
  <2>1. b.seq + p.len \in Int /\ b.ipId + n \in Int
    BY <1>1, <1>2, <1>3, <1>4 DEF n
  <2> QED
    BY <1>1, <2>1, ModHas
<1>7. p.len = 0 => (b.seq + p.len) % SeqSpace = b.seq /\ (b.ipId + n) % IdSpace = b.ipId
  BY <1>1, <1>3, <1>4 DEF n
<1> QED
  BY <1>5, <1>6, <1>7 DEF Builder

\* A payload put behind the payloads of a connection.
LEMMA StreamGrows ==
  ASSUME NetStackAssumption, NEW c \in Conns, NEW b \in Builder, NEW p \in Payload,
         NEW start \in 0 .. SeqSpace - 1, NEW fs \in Seq(Frame), NEW ps \in Seq(Payload),
         Stream(start, fs, b, ps)
  PROVE  Stream(start, fs \o BuildDataFrames(c, b, p), Advance(b, p), Append(ps, p))
<1> DEFINE n == Segments(p.len)
           fr == BuildDataFrames(c, b, p)
           gs == fs \o fr
           m == Len(fs)
           d == Advance(b, p)
           E == {f \in Frame : f.psh}
<1>1. /\ MSS \in Nat \ {0} /\ SeqSpace \in Nat \ {0} /\ IdSpace \in Nat \ {0}
      /\ p.len \in Nat /\ p.content \in Contents
  <2>1. MSS \in Nat \ {0} /\ SeqSpace \in Nat \ {0} /\ IdSpace \in Nat \ {0} /\ Lengths \subseteq Nat
    BY DEF NetStackAssumption
  <2>2. p.len \in Lengths /\ p.content \in Contents
    BY DEF Payload
  <2> QED
    BY <2>1, <2>2
<1>2. b.seq \in 0 .. SeqSpace - 1 /\ b.ipId \in 0 .. IdSpace - 1
  BY DEF Builder
<1>3. /\ n \in Nat /\ Len(fr) = n /\ fr \in Seq(Frame)
      /\ \A i \in 1 .. n :
           /\ fr[i].conn = c /\ fr[i].content = p.content
           /\ fr[i].seq = (b.seq + (i - 1) * MSS) % SeqSpace
           /\ fr[i].ipId = (b.ipId + i - 1) % IdSpace
           /\ fr[i].off = (i - 1) * MSS /\ fr[i].off \in Nat
           /\ fr[i].len \in 1 .. MSS
           /\ fr[i].psh <=> i = n
           /\ fr[i].psh => fr[i].off + fr[i].len = p.len
           /\ ~ fr[i].psh => fr[i].len = MSS
  BY FramesOfPayload
<1>4. /\ p.len = 0 => n = 0
      /\ p.len > 0 => n >= 1
  BY <1>1, SegmentsCover
<1>5. /\ d = [seq |-> (b.seq + p.len) % SeqSpace, ipId |-> (b.ipId + n) % IdSpace]
      /\ p.len = 0 => d.seq = b.seq /\ d.ipId = b.ipId
  BY AdvanceType DEF Advance
<1>6. /\ \A i \in 1 .. m : FrameFits(start, fs, i)
      /\ EndsMatch(Ends(fs), Sent(ps))
      /\ b.ipId = m % IdSpace
      /\ b.seq = IF m = 0 THEN start ELSE (fs[m].seq + fs[m].len) % SeqSpace
      /\ m > 0 => fs[m].psh
  BY RebuildsIs DEF Stream
<1>7. /\ Sent(ps) \in Seq(Payload) /\ Ends(fs) \in Seq(Frame)
      /\ p.len = 0 => Sent(Append(ps, p)) = Sent(ps)
      /\ p.len > 0 => Sent(Append(ps, p)) = Append(Sent(ps), p)
  <2>1. p \in {x \in Payload : x.len > 0} <=> p.len > 0
    OBVIOUS
  <2>2. Sent(Append(ps, p)) = IF p \in {x \in Payload : x.len > 0}
                              THEN Append(Sent(ps), p) ELSE Sent(ps)
    BY WhereAppend DEF Sent
  <2>3. Sent(ps) \in Seq(Payload) /\ Ends(fs) \in Seq(Frame)
    BY WhereType DEF Sent, Ends
  <2> QED
    BY <1>1, <2>1, <2>2, <2>3
<1>8. /\ gs \in Seq(Frame) /\ Len(gs) = m + n /\ m \in Nat
      /\ \A i \in 1 .. m : gs[i] = fs[i]
      /\ \A i \in 1 .. n : gs[m + i] = fr[i]
  <2>1. n \in Nat /\ Len(fr) = n /\ fr \in Seq(Frame)
    BY <1>3
  <2>2. m \in Nat
    OBVIOUS
  <2> HIDE DEF fr, n, m
  <2>3. /\ fs \o fr \in Seq(Frame) /\ Len(fs \o fr) = m + n
        /\ \A i \in 1 .. m + n : (fs \o fr)[i] = IF i <= m THEN fs[i] ELSE fr[i - m]
    BY <2>1, ConcatProperties DEF m
  <2> HIDE DEF gs
  <2>4. ASSUME NEW i \in 1 .. n PROVE gs[m + i] = fr[i]
    <3>1. m + i \in 1 .. m + n /\ ~ (m + i <= m) /\ (m + i) - m = i
      BY <2>1, <2>2
    <3> QED
      BY <2>3, <3>1 DEF gs
  <2> QED
    BY <2>1, <2>2, <2>3, <2>4 DEF gs
<1> HIDE DEF n, fr, d
<1>9. CASE p.len = 0
  <2>1. fr = <<>>
    BY <1>3, <1>4, <1>9, EmptySeq
  <2>2. gs = fs
    BY <2>1, ConcatEmptySeq
  <2> HIDE DEF gs
  <2> QED
    BY <1>5, <1>6, <1>7, <1>9, <2>2, RebuildsIs DEF Stream, fr, d, gs
<1>10. CASE p.len > 0
  <2>0. n \in Nat /\ n >= 1 /\ n \in 1 .. n
    BY <1>3, <1>4, <1>10
  <2>1. Ends(gs) = Append(Ends(fs), fr[n])
    <3> DEFINE butLast == SubSeq(fr, 1, n - 1)
    <3>1. /\ butLast \in Seq(Frame) /\ Len(butLast) = n - 1 /\ \A i \in 1 .. n - 1 : butLast[i] = fr[i]
          /\ fr = Append(butLast, fr[n])
      <4>1. n - 1 \in 0 .. Len(fr)
        BY <1>3, <2>0
      <4>2. butLast \in Seq(Frame) /\ Len(butLast) = n - 1 /\ \A i \in 1 .. n - 1 : butLast[i] = fr[i]
        BY <1>3, <2>0, SubSeqProperties
      <4>3. Append(butLast, fr[n]) \in Seq(Frame) /\ Len(Append(butLast, fr[n])) = n
            /\ \A i \in 1 .. n : Append(butLast, fr[n])[i] = fr[i]
        <5>1. fr[n] \in Frame
          BY <1>3, <2>0
        <5> HIDE DEF butLast
        <5> QED
          BY <2>0, <4>2, <5>1, AppendProperties
      <4> HIDE DEF butLast
      <4> QED
        BY <1>3, <4>2, <4>3, SeqEqual
    <3> HIDE DEF butLast
    <3>2. fr[n] \in Frame /\ fr[n] \in E
      BY <1>3, <2>0
    <3>3. \A i \in 1 .. Len(butLast) : butLast[i] \notin E
      <4> SUFFICES ASSUME NEW i \in 1 .. Len(butLast) PROVE ~ butLast[i].psh
        OBVIOUS
      <4>1. i \in 1 .. n /\ i # n /\ butLast[i] = fr[i]
        BY <2>0, <3>1
      <4> QED
        BY <1>3, <4>1
    <3> HIDE DEF E
    <3>4. gs = Append(fs \o butLast, fr[n]) /\ fs \o butLast \in Seq(Frame)
      <4>1. fs \o Append(butLast, fr[n]) = Append(fs \o butLast, fr[n])
        BY <3>1, <3>2, AppendConcat
      <4>2. fs \o butLast \in Seq(Frame)
        BY <3>1
      <4> QED
        BY <3>1, <4>1, <4>2
    <3>5. Where(fs \o butLast, E) = Where(fs, E)
      BY <3>1, <3>3, WhereConcat
    <3> HIDE DEF gs
    <3>6. Where(gs, E) = Append(Where(fs \o butLast, E), fr[n])
      <4>1. \A a \in Seq(Frame), e \in Frame :
                e \in E => Where(Append(a, e), E) = Append(Where(a, E), e)
        BY WhereAppend
      <4> QED
        BY <3>2, <3>4, <4>1
    <3> QED
      BY <3>5, <3>6 DEF Ends, E
  <2>2. EndsMatch(Ends(gs), Sent(Append(ps, p)))
    <3>1. fr[n].content = p.content /\ fr[n].off + fr[n].len = p.len
      BY <1>3, <2>0
    <3>2. /\ Append(Ends(fs), fr[n])[Len(Ends(fs)) + 1] = fr[n]
          /\ Append(Sent(ps), p)[Len(Sent(ps)) + 1] = p
          /\ Len(Append(Ends(fs), fr[n])) = Len(Ends(fs)) + 1
          /\ Len(Append(Sent(ps), p)) = Len(Sent(ps)) + 1
          /\ Len(Ends(fs)) \in Nat
          /\ \A k \in 1 .. Len(Ends(fs)) : Append(Ends(fs), fr[n])[k] = Ends(fs)[k]
          /\ \A k \in 1 .. Len(Sent(ps)) : Append(Sent(ps), p)[k] = Sent(ps)[k]
      <4>1. fr[n] \in Frame
        BY <1>3, <2>0
      <4> QED
        BY <1>7, <4>1, AppendProperties
    <3> DEFINE e == Ends(fs)
               q == Sent(ps)
               e1 == Append(e, fr[n])
               q1 == Append(q, p)
    <3>3. /\ e1[Len(e) + 1] = fr[n] /\ q1[Len(q) + 1] = p
          /\ Len(e1) = Len(e) + 1 /\ Len(q1) = Len(q) + 1 /\ Len(e) \in Nat
          /\ \A k \in 1 .. Len(e) : e1[k] = e[k]
          /\ \A k \in 1 .. Len(q) : q1[k] = q[k]
      BY <3>2
    <3>4. /\ Len(e) = Len(q)
          /\ \A k \in 1 .. Len(e) : e[k].content = q[k].content /\ e[k].off + e[k].len = q[k].len
      BY <1>6 DEF EndsMatch
    <3>5. Ends(gs) = e1 /\ Sent(Append(ps, p)) = q1
      BY <1>7, <1>10, <2>1
    <3> HIDE DEF e, q, e1, q1, gs
    <3>6. ASSUME NEW k \in 1 .. Len(e1)
          PROVE  e1[k].content = q1[k].content /\ e1[k].off + e1[k].len = q1[k].len
      <4>1. CASE k = Len(e) + 1
        BY <3>1, <3>3, <3>4, <4>1
      <4>2. CASE k # Len(e) + 1
        <5>1. k \in 1 .. Len(e) /\ k \in 1 .. Len(q)
          BY <3>3, <3>4, <4>2
        <5> QED
          BY <3>3, <3>4, <5>1
      <4> QED
        BY <4>1, <4>2
    <3> QED
      BY <3>3, <3>4, <3>5, <3>6 DEF EndsMatch
  <2>3. ASSUME NEW i \in 1 .. m PROVE FrameFits(start, gs, i)
    <3>1. gs[i] = fs[i] /\ (i # 1 => gs[i - 1] = fs[i - 1])
      BY <1>8
    <3>2. FrameFits(start, fs, i)
      BY <1>6
    <3> HIDE DEF gs
    <3> QED
      BY <3>1, <3>2 DEF FrameFits
  <2>4. FrameFits(start, gs, m + 1)
    <3>1. /\ gs[m + 1] = fr[1] /\ (m > 0 => gs[m] = fs[m]) /\ m + 1 - 1 = m /\ (m + 1 = 1 <=> m = 0)
      BY <1>8, <2>0
    <3>2. fr[1].seq = b.seq /\ fr[1].ipId = b.ipId /\ fr[1].off = 0 /\ fr[1].len \in 1 .. MSS
      <4>1. 1 \in 1 .. n /\ (1 - 1) * MSS = 0
        BY <1>1, <2>0
      <4>2. b.seq % SeqSpace = b.seq /\ b.ipId % IdSpace = b.ipId
        BY <1>1, <1>2, SmallMod
      <4>3. /\ fr[1].seq = (b.seq + (1 - 1) * MSS) % SeqSpace
            /\ fr[1].ipId = (b.ipId + 1 - 1) % IdSpace
            /\ fr[1].off = (1 - 1) * MSS /\ fr[1].len \in 1 .. MSS
        BY <1>3, <4>1
      <4>4. b.seq + 0 = b.seq /\ b.ipId + 1 - 1 = b.ipId
        BY <1>1, <1>2
      <4> QED
        BY <4>1, <4>2, <4>3, <4>4
    <3> HIDE DEF gs, m
    <3> QED
      BY <1>6, <1>8, <3>1, <3>2 DEF FrameFits
  <2>5. ASSUME NEW j \in 2 .. n PROVE FrameFits(start, gs, m + j)
    <3>1. /\ gs[m + j] = fr[j] /\ gs[m + j - 1] = fr[j - 1] /\ j - 1 \in 1 .. n /\ j \in 1 .. n
          /\ j - 1 # n /\ m + j # 1
      <4>1. j - 1 \in 1 .. n /\ j \in 1 .. n /\ j - 1 # n /\ m + j # 1 /\ m + j - 1 = m + (j - 1)
        BY <1>8, <2>0
      <4> HIDE DEF gs
      <4> QED
        BY <1>8, <4>1
    <3>2. (j - 1) * MSS = (j - 2) * MSS + MSS /\ (j - 2) * MSS \in Nat
      <4>1. j - 2 \in Nat
        BY <2>0
      <4> QED
        BY <1>1, <4>1
    <3>3. /\ fr[j].seq = (b.seq + (j - 1) * MSS) % SeqSpace
          /\ fr[j].ipId = (b.ipId + j - 1) % IdSpace
          /\ fr[j].off = (j - 1) * MSS /\ fr[j].len \in 1 .. MSS
          /\ fr[j - 1].seq = (b.seq + (j - 2) * MSS) % SeqSpace
          /\ fr[j - 1].off = (j - 2) * MSS /\ fr[j - 1].len = MSS /\ ~ fr[j - 1].psh
      <4>1. j - 1 - 1 = j - 2
        OBVIOUS
      <4> QED
        BY <1>3, <3>1, <4>1
    <3>4. fr[j].seq = (fr[j - 1].seq + fr[j - 1].len) % SeqSpace
      <4>1. \A a, e \in Int : ((a % SeqSpace) + e) % SeqSpace = (a + e) % SeqSpace
        BY <1>1, ModOfSum
      <4> DEFINE k == (j - 2) * MSS
      <4>2. k \in Nat /\ (j - 1) * MSS = k + MSS
        BY <3>2
      <4>3. fr[j].seq = (b.seq + (j - 1) * MSS) % SeqSpace /\ fr[j - 1].seq = (b.seq + k) % SeqSpace
            /\ fr[j - 1].len = MSS
        BY <3>3
      <4> HIDE DEF k
      <4>4. b.seq + k \in Int /\ MSS \in Int /\ b.seq + (k + MSS) = (b.seq + k) + MSS
        BY <1>1, <1>2, <4>2
      <4>5. (((b.seq + k) % SeqSpace) + MSS) % SeqSpace = ((b.seq + k) + MSS) % SeqSpace
        BY <4>1, <4>4
      <4> QED
        BY <4>2, <4>3, <4>4, <4>5
    <3>5. fr[j].ipId = (m + j - 1) % IdSpace
      <4>1. \A a, e \in Int : ((a % IdSpace) + e) % IdSpace = (a + e) % IdSpace
        BY <1>1, ModOfSum
      <4>2. m \in Int /\ j - 1 \in Int /\ b.ipId + j - 1 = b.ipId + (j - 1) /\ m + j - 1 = m + (j - 1)
        BY <1>1, <1>2, <1>8
      <4>3. b.ipId = m % IdSpace
        BY <1>6
      <4>4. ((m % IdSpace) + (j - 1)) % IdSpace = (m + (j - 1)) % IdSpace
        BY <4>1, <4>2
      <4> QED
        BY <3>3, <4>2, <4>3, <4>4
    <3> HIDE DEF gs
    <3> QED
      BY <3>1, <3>2, <3>3, <3>4, <3>5 DEF FrameFits
  <2>6. \A i \in 1 .. Len(gs) : FrameFits(start, gs, i)
    <3>1. ASSUME NEW i \in m + 1 .. m + n PROVE FrameFits(start, gs, i)
      <4>1. i - m \in 1 .. n /\ i = m + (i - m)
        BY <1>3, <1>8
      <4> HIDE DEF gs
      <4>2. CASE i - m = 1
        BY <2>4, <4>1, <4>2
      <4>3. CASE i - m # 1
        <5>1. i - m \in 2 .. n
          BY <1>3, <1>8, <4>1, <4>3
        <5> QED
          BY <2>5, <4>1, <5>1
      <4> QED
        BY <4>2, <4>3
    <3>2. \A i \in 1 .. Len(gs) : i \in 1 .. m \/ i \in m + 1 .. m + n
      BY <1>3, <1>8
    <3> HIDE DEF gs
    <3> QED
      BY <2>3, <3>1, <3>2
  <2>7. gs[Len(gs)] = fr[n] /\ Len(gs) > 0
    BY <1>8, <2>0
  <2>8. d.ipId = Len(gs) % IdSpace
    <3>1. \A a, e \in Int : ((a % IdSpace) + e) % IdSpace = (a + e) % IdSpace
      BY <1>1, ModOfSum
    <3>2. m \in Int /\ n \in Int /\ d.ipId = (b.ipId + n) % IdSpace /\ Len(gs) = m + n
      BY <1>5, <1>8, <2>0
    <3>3. b.ipId = m % IdSpace
      BY <1>6
    <3> HIDE DEF gs, m
    <3>4. ((m % IdSpace) + n) % IdSpace = (m + n) % IdSpace
      BY <3>1, <3>2
    <3> QED
      BY <3>2, <3>3, <3>4
  <2>9. d.seq = (fr[n].seq + fr[n].len) % SeqSpace
    <3>1. \A a, e \in Int : ((a % SeqSpace) + e) % SeqSpace = (a + e) % SeqSpace
      BY <1>1, ModOfSum
    <3>2. /\ fr[n].seq = (b.seq + (n - 1) * MSS) % SeqSpace
          /\ fr[n].off = (n - 1) * MSS /\ fr[n].off \in Nat /\ fr[n].off + fr[n].len = p.len
          /\ fr[n].len \in 1 .. MSS /\ d.seq = (b.seq + p.len) % SeqSpace
      BY <1>3, <1>5, <2>0
    <3>3. b.seq + fr[n].off \in Int /\ fr[n].len \in Int
          /\ b.seq + p.len = (b.seq + fr[n].off) + fr[n].len
      <4>1. b.seq \in Int /\ fr[n].off \in Int /\ fr[n].len \in Int /\ p.len = fr[n].off + fr[n].len
        BY <1>1, <1>2, <3>2
      <4> QED
        BY <4>1
    <3>4. fr[n].seq = (b.seq + fr[n].off) % SeqSpace
      BY <3>2
    <3>5. (((b.seq + fr[n].off) % SeqSpace) + fr[n].len) % SeqSpace
             = ((b.seq + fr[n].off) + fr[n].len) % SeqSpace
      BY <3>1, <3>3
    <3> QED
      BY <3>2, <3>3, <3>4, <3>5
  <2>10. gs[Len(gs)].psh
    BY <1>3, <2>0, <2>7
  <2>11. Rebuilds(start, gs, Append(ps, p))
    <3> HIDE DEF gs
    <3> QED
      BY <2>2, <2>6, RebuildsIs
  <2>12. Stream(start, gs, d, Append(ps, p))
    <3> HIDE DEF gs
    <3> QED
      BY <2>7, <2>8, <2>9, <2>10, <2>11 DEF Stream
  <2> QED
    BY <2>12 DEF fr, d
<1> QED
  BY <1>1, <1>9, <1>10

-----------------------------------------------------------------------------
(* The inductive invariant of the stack.                                   *)

NetTypes ==
    /\ isn \in [Conns -> Isns]
    /\ backend \in {"none", "sim", "dpdk", "closed"} /\ eal \in {"fresh", "up", "spent"}
    /\ ring \in Seq(Frame) /\ buffer \in Seq(Frame) /\ wire \in Seq(Frame)
    /\ DOMAIN builders \subseteq Conns /\ \A c \in DOMAIN builders : builders[c] \in Builder
    /\ given \in [Conns -> Seq(Payload)]

\* The pool's account; a DPDK stack has the EAL.
PoolInv ==
    /\ pool \in Nat /\ inflight \in Nat
    /\ backend = "dpdk" => eal = "up"
    /\ eal = "up" => pool + inflight = PoolSize - RxRing

\* Only the DPDK backend buffers.
BufferInv == (backend = "sim" => buffer = <<>>) /\ EgressIsCaptured

StreamOf(c) == Stream(isn[c], OfConn(c), GetBuilder(c), given[c])
StreamInv == \A c \in Conns : StreamOf(c)

NetInv == NetTypes /\ PoolInv /\ BufferInv /\ StreamInv

\* A connection that nothing was sent on.
LEMMA EmptyStream ==
  ASSUME NetStackAssumption, NEW start \in Isns
  PROVE  Stream(start, <<>>, [seq |-> start, ipId |-> 0], <<>>)
<1>1. Len(<<>>) = 0 /\ IdSpace \in Nat \ {0}
  BY DEF NetStackAssumption
<1>2. Ends(<<>>) = <<>> /\ Sent(<<>>) = <<>>
  BY WhereEmpty DEF Ends, Sent
<1>3. EndsMatch(Ends(<<>>), Sent(<<>>))
  BY <1>1, <1>2 DEF EndsMatch
<1>4. Rebuilds(start, <<>>, <<>>)
  BY <1>1, <1>3, RebuildsIs
<1>5. 0 % IdSpace = 0
  BY <1>1, SmallMod
<1> QED
  BY <1>1, <1>4, <1>5 DEF Stream

LEMMA StartsInNetInv ==
  ASSUME NetStackAssumption, NetInit
  PROVE  NetInv
<1>1. NetTypes
  BY DEF NetInit, NetTypes
<1>2. PoolInv
  BY DEF NetInit, PoolInv
<1>3. BufferInv
  BY DEF NetInit, BufferInv, EgressIsCaptured, Open
<1>4. StreamInv
  <2> SUFFICES ASSUME NEW c \in Conns PROVE StreamOf(c)
    BY DEF StreamInv
  <2>1. OfConn(c) = <<>>
    BY WhereEmpty DEF NetInit, OfConn
  <2>2. GetBuilder(c) = [seq |-> isn[c], ipId |-> 0] /\ isn[c] \in Isns /\ given[c] = <<>>
    BY DEF NetInit, GetBuilder, NewBuilder
  <2> QED
    BY <2>1, <2>2, EmptyStream DEF StreamOf
<1> QED
  BY <1>1, <1>2, <1>3, <1>4 DEF NetInv

\* The builder of a connection, existing or new.
LEMMA BuilderType ==
  ASSUME NetStackAssumption, NetTypes, NEW c \in Conns
  PROVE  GetBuilder(c) \in Builder /\ isn[c] \in 0 .. SeqSpace - 1
<1>1. isn[c] \in 0 .. SeqSpace - 1 /\ 0 \in 0 .. IdSpace - 1
  <2>1. IdSpace \in Nat \ {0} /\ Isns \subseteq 0 .. SeqSpace - 1
    BY DEF NetStackAssumption
  <2>2. isn[c] \in Isns
    BY DEF NetTypes
  <2>3. 0 \in 0 .. IdSpace - 1
    BY <2>1
  <2> QED
    BY <2>1, <2>2, <2>3
<1> QED
  BY <1>1 DEF NetTypes, GetBuilder, NewBuilder, Builder

\* What does not touch the connections leaves their streams alone.
LEMMA StreamsStay ==
  ASSUME NetInv, UNCHANGED <<isn, ring, builders, given>>
  PROVE  StreamInv'
<1> SUFFICES ASSUME NEW c \in Conns PROVE StreamOf(c)'
  BY DEF StreamInv
<1>1. StreamOf(c)
  BY DEF NetInv, StreamInv
<1> QED
  BY <1>1 DEF StreamOf, OfConn, GetBuilder, NewBuilder

-----------------------------------------------------------------------------
(* Each step keeps the invariant.                                          *)

\* The frames of a connection go behind those of all connections.
LEMMA EmitStep ==
  ASSUME NetStackAssumption, NetInv, NEW c \in Conns, NEW ps \in Seq(Payload),
         NEW frames \in Seq(Frame), NEW nb \in Builder,
         \A i \in 1 .. Len(frames) : frames[i].conn = c,
         Stream(isn[c], OfConn(c) \o frames, nb, given[c] \o ps),
         Emit(c, ps, frames, nb)
  PROVE  NetInv'
<1>1. /\ backend \in {"sim", "dpdk"}
      /\ builders' = [x \in DOMAIN builders \cup {c} |-> IF x = c THEN nb ELSE builders[x]]
      /\ ring' = ring \o frames
      /\ given' = [given EXCEPT ![c] = @ \o ps]
      /\ wire' = IF backend = "sim" THEN wire \o frames ELSE wire
      /\ buffer' = IF backend = "dpdk" THEN buffer \o frames ELSE buffer
      /\ UNCHANGED <<isn, backend, eal, pool, inflight, clean>>
  BY DEF Emit, Open, SendFrames
<1>2. /\ ring \in Seq(Frame) /\ buffer \in Seq(Frame) /\ wire \in Seq(Frame)
      /\ given \in [Conns -> Seq(Payload)] /\ DOMAIN builders \subseteq Conns
      /\ \A x \in DOMAIN builders : builders[x] \in Builder
  BY DEF NetInv, NetTypes
<1>3. \A a, b \in Seq(Frame) : a \o b \in Seq(Frame)
  BY ConcatProperties
<1>4. NetTypes'
  <2>1. given' \in [Conns -> Seq(Payload)]
    <3>1. given[c] \in Seq(Payload)
      BY <1>2
    <3>2. given[c] \o ps \in Seq(Payload)
      BY <3>1, ConcatProperties
    <3> QED
      BY <1>1, <1>2, <3>2
  <2>2. DOMAIN builders' \subseteq Conns /\ \A x \in DOMAIN builders' : builders'[x] \in Builder
    BY <1>1, <1>2
  <2>3. ring' \in Seq(Frame) /\ buffer' \in Seq(Frame) /\ wire' \in Seq(Frame)
    BY <1>1, <1>2, <1>3
  <2>4. isn' \in [Conns -> Isns] /\ backend' \in {"none", "sim", "dpdk", "closed"}
        /\ eal' \in {"fresh", "up", "spent"}
    BY <1>1 DEF NetInv, NetTypes
  <2> QED
    BY <2>1, <2>2, <2>3, <2>4 DEF NetTypes
<1>5. PoolInv'
  BY <1>1 DEF NetInv, PoolInv
<1>6. BufferInv'
  <2>1. (backend = "sim" => buffer = <<>>) /\ (clean => ring = wire \o buffer)
    BY <1>1 DEF NetInv, BufferInv, EgressIsCaptured, Open
  <2>2. backend' = "sim" => buffer' = <<>>
    BY <1>1, <2>1
  <2>3. clean' => ring' = wire' \o buffer'
    <3> SUFFICES ASSUME clean' PROVE ring \o frames = wire' \o buffer'
      BY <1>1
    <3>1. ring = wire \o buffer
      BY <1>1, <2>1
    <3>2. CASE backend = "sim"
      <4>1. buffer = <<>> /\ buffer' = <<>> /\ wire' = wire \o frames
        BY <1>1, <2>1, <3>2
      <4>2. wire \o frames \in Seq(Frame)
        BY <1>2, <1>3
      <4>3. \A a \in Seq(Frame) : a \o <<>> = a
        BY ConcatEmptySeq
      <4> QED
        BY <1>2, <3>1, <4>1, <4>2, <4>3
    <3>3. CASE backend = "dpdk"
      <4>1. buffer' = buffer \o frames /\ wire' = wire
        BY <1>1, <3>3
      <4>2. (wire \o buffer) \o frames = wire \o (buffer \o frames)
        <5>1. \A a1, a2, a3 \in Seq(Frame) : (a1 \o a2) \o a3 = a1 \o (a2 \o a3)
          BY ConcatAssociative
        <5> QED
          BY <1>2, <5>1
      <4> QED
        BY <3>1, <4>1, <4>2
    <3> QED
      BY <1>1, <3>2, <3>3
  <2> QED
    BY <2>2, <2>3 DEF BufferInv, EgressIsCaptured, Open
<1>7. StreamInv'
  <2> SUFFICES ASSUME NEW x \in Conns PROVE StreamOf(x)'
    BY DEF StreamInv
  <2> DEFINE keep == {f \in Frame : f.conn = x}
  <2>0. OfConn(x) = Where(ring, keep) /\ OfConn(x)' = Where(ring \o frames, keep)
    BY <1>1 DEF OfConn
  <2>1. CASE x = c
    <3>1. \A i \in 1 .. Len(frames) : frames[i] \in keep
      BY <2>1
    <3> HIDE DEF keep
    <3>2. Where(ring \o frames, keep) = Where(ring, keep) \o frames
      BY <1>2, <3>1, WhereConcat
    <3>3. GetBuilder(c)' = nb /\ given'[c] = given[c] \o ps /\ isn' = isn
      BY <1>1, <1>2 DEF GetBuilder
    <3> QED
      BY <2>0, <2>1, <3>2, <3>3 DEF StreamOf
  <2>2. CASE x # c
    <3>1. \A i \in 1 .. Len(frames) : frames[i] \notin keep
      BY <2>2
    <3> HIDE DEF keep
    <3>2. Where(ring \o frames, keep) = Where(ring, keep)
      BY <1>2, <3>1, WhereConcat
    <3>3. GetBuilder(x)' = GetBuilder(x) /\ given'[x] = given[x] /\ isn' = isn
      BY <1>1, <1>2, <2>2 DEF GetBuilder, NewBuilder
    <3>4. StreamOf(x)
      BY DEF NetInv, StreamInv
    <3> QED
      BY <2>0, <3>2, <3>3, <3>4 DEF StreamOf
  <2> QED
    BY <2>1, <2>2
<1> QED
  BY <1>4, <1>5, <1>6, <1>7 DEF NetInv

\* A response's frames are of its connection.
LEMMA FramesOfConn ==
  ASSUME NetStackAssumption, NEW c \in Conns, NEW b \in Builder, NEW p \in Payload
  PROVE  /\ BuildDataFrames(c, b, p) \in Seq(Frame)
         /\ \A i \in 1 .. Len(BuildDataFrames(c, b, p)) : BuildDataFrames(c, b, p)[i].conn = c
BY FramesOfPayload

LEMMA ResponseStep ==
  ASSUME NetStackAssumption, NetInv, NEW c \in Conns, NEW p \in Payload,
         ProcessResponse(c, p)
  PROVE  NetInv'
<1> DEFINE b == GetBuilder(c)
           fs == OfConn(c)
           fr == BuildDataFrames(c, b, p)
           d == Advance(b, p)
<1>1. Emit(c, <<p>>, fr, d)
  BY DEF ProcessResponse
<1>2. /\ b \in Builder /\ isn[c] \in 0 .. SeqSpace - 1 /\ fs \in Seq(Frame)
      /\ given[c] \in Seq(Payload) /\ Stream(isn[c], fs, b, given[c])
  <2>1. NetTypes /\ StreamOf(c)
    BY DEF NetInv, StreamInv
  <2>2. ring \in Seq(Frame) /\ given[c] \in Seq(Payload)
    BY <2>1 DEF NetTypes
  <2>3. fs \in Seq(Frame)
    BY <2>2, WhereType DEF OfConn
  <2> QED
    BY <2>1, <2>2, <2>3, BuilderType DEF StreamOf
<1> HIDE DEF b, fs
<1>3. d \in Builder /\ fr \in Seq(Frame) /\ \A i \in 1 .. Len(fr) : fr[i].conn = c
  BY <1>2, AdvanceType, FramesOfConn
<1>4. Stream(isn[c], fs \o fr, d, given[c] \o <<p>>)
  <2>1. Append(given[c], p) = given[c] \o <<p>>
    BY <1>2, AppendIsConcat
  <2>2. Stream(isn[c], fs \o fr, d, Append(given[c], p))
    BY <1>2, StreamGrows
  <2> HIDE DEF fr, d
  <2> QED
    BY <2>1, <2>2
<1>5. <<p>> \in Seq(Payload)
  OBVIOUS
<1> HIDE DEF fr, d
<1> QED
  BY <1>1, <1>3, <1>4, <1>5, EmitStep DEF fs

LEMMA PairOf ==
  ASSUME NEW E, NEW p \in E, NEW q \in E
  PROVE  <<p>> \in Seq(E) /\ <<p, q>> \in Seq(E) /\ Append(<<p>>, q) = <<p, q>>
<1>1. <<p>> \in Seq(E)
  OBVIOUS
<1>2. <<p, q>> \in Seq(E)
  OBVIOUS
<1>3. Len(<<p>>) = 1 /\ <<p>>[1] = p /\ Len(<<p, q>>) = 2 /\ <<p, q>>[1] = p /\ <<p, q>>[2] = q
  OBVIOUS
<1> DEFINE s == Append(<<p>>, q)
           t == <<p, q>>
<1>4. s \in Seq(E) /\ Len(s) = 2 /\ s[1] = p /\ s[2] = q
  BY <1>1, <1>3, AppendProperties
<1>5. t \in Seq(E) /\ Len(t) = 2 /\ t[1] = p /\ t[2] = q
  BY <1>2, <1>3
<1> HIDE DEF s, t
<1>6. s = t
  <2>1. \A i \in 1 .. 2 : i = 1 \/ i = 2
    OBVIOUS
  <2>2. \A i \in 1 .. Len(s) : s[i] = t[i]
    BY <1>4, <1>5, <2>1
  <2> QED
    BY <1>4, <1>5, <2>2, SeqEqual
<1> QED
  BY <1>1, <1>2, <1>6 DEF s, t

LEMMA ExchangeStep ==
  ASSUME NetStackAssumption, NetInv, NEW c \in Conns, NEW p \in Payload,
         NEW q \in Payload, ProcessExchange(c, p, q)
  PROVE  NetInv'
<1> DEFINE b == GetBuilder(c)
           fs == OfConn(c)
           fr == BuildDataFrames(c, b, p)
           d == Advance(b, p)
           gr == BuildDataFrames(c, d, q)
           g == Advance(d, q)
<1>1. Emit(c, <<p, q>>, fr \o gr, g)
  BY DEF ProcessExchange
<1>2. /\ b \in Builder /\ isn[c] \in 0 .. SeqSpace - 1 /\ fs \in Seq(Frame)
      /\ given[c] \in Seq(Payload) /\ Stream(isn[c], fs, b, given[c])
  <2>1. NetTypes /\ StreamOf(c)
    BY DEF NetInv, StreamInv
  <2>2. ring \in Seq(Frame) /\ given[c] \in Seq(Payload)
    BY <2>1 DEF NetTypes
  <2>3. fs \in Seq(Frame)
    BY <2>2, WhereType DEF OfConn
  <2> QED
    BY <2>1, <2>2, <2>3, BuilderType DEF StreamOf
<1> HIDE DEF b, fs
<1>3. d \in Builder /\ fr \in Seq(Frame) /\ \A i \in 1 .. Len(fr) : fr[i].conn = c
  BY <1>2, AdvanceType, FramesOfConn
<1>4. Stream(isn[c], fs \o fr, d, Append(given[c], p))
  BY <1>2, StreamGrows
<1> HIDE DEF fr, d
<1>5. g \in Builder /\ gr \in Seq(Frame) /\ \A i \in 1 .. Len(gr) : gr[i].conn = c
  BY <1>3, AdvanceType, FramesOfConn
<1>6. fs \o fr \in Seq(Frame) /\ Append(given[c], p) \in Seq(Payload)
  BY <1>2, <1>3, ConcatProperties, AppendProperties
<1>7. Stream(isn[c], (fs \o fr) \o gr, g, Append(Append(given[c], p), q))
  BY <1>2, <1>3, <1>4, <1>6, StreamGrows
<1> HIDE DEF gr, g
<1>8. (fs \o fr) \o gr = fs \o (fr \o gr)
  BY <1>2, <1>3, <1>5, ConcatAssociative
<1>9. Append(Append(given[c], p), q) = given[c] \o <<p, q>> /\ <<p, q>> \in Seq(Payload)
  <2>1. <<p>> \in Seq(Payload) /\ Append(<<p>>, q) = <<p, q>> /\ <<p, q>> \in Seq(Payload)
    BY PairOf
  <2>2. Append(given[c], p) = given[c] \o <<p>>
    BY <1>2, AppendIsConcat
  <2>3. \A a1, a2 \in Seq(Payload), e \in Payload : a1 \o Append(a2, e) = Append(a1 \o a2, e)
    BY AppendConcat
  <2> QED
    BY <1>2, <2>1, <2>2, <2>3
<1>10. fr \o gr \in Seq(Frame) /\ \A i \in 1 .. Len(fr \o gr) : (fr \o gr)[i].conn = c
  <2>1. /\ fr \o gr \in Seq(Frame) /\ Len(fr \o gr) = Len(fr) + Len(gr)
        /\ \A i \in 1 .. Len(fr) + Len(gr) :
              (fr \o gr)[i] = IF i <= Len(fr) THEN fr[i] ELSE gr[i - Len(fr)]
    BY <1>3, <1>5, ConcatProperties
  <2>2. Len(fr) \in Nat /\ Len(gr) \in Nat
    BY <1>3, <1>5
  <2>3. ASSUME NEW i \in 1 .. Len(fr) + Len(gr) PROVE (fr \o gr)[i].conn = c
    <3>1. CASE i <= Len(fr)
      BY <1>3, <2>1, <2>2, <3>1
    <3>2. CASE ~ (i <= Len(fr))
      <4>1. i - Len(fr) \in 1 .. Len(gr)
        BY <2>2, <3>2
      <4> QED
        BY <1>5, <2>1, <3>2, <4>1
    <3> QED
      BY <3>1, <3>2
  <2> QED
    BY <2>1, <2>3
<1> DEFINE both == fr \o gr
<1>11. Stream(isn[c], OfConn(c) \o both, g, given[c] \o <<p, q>>) /\ Emit(c, <<p, q>>, both, g)
  BY <1>1, <1>7, <1>8, <1>9 DEF fs
<1>12. both \in Seq(Frame) /\ \A i \in 1 .. Len(both) : both[i].conn = c
  BY <1>10
<1> HIDE DEF both
<1> QED
  BY <1>5, <1>9, <1>11, <1>12, EmitStep

\* A new stack has no frame and no builder.
LEMMA FreshStep ==
  ASSUME NetStackAssumption, NetInv, NEW kind \in {"sim", "dpdk"}, Fresh(kind),
         eal' \in {"fresh", "up", "spent"}, PoolInv'
  PROVE  NetInv'
<1>1. /\ backend' = kind /\ builders' = <<>> /\ ring' = <<>> /\ buffer' = <<>> /\ wire' = <<>>
      /\ given' = [x \in Conns |-> <<>>] /\ isn' = isn
  BY DEF Fresh
<1>2. NetTypes'
  BY <1>1 DEF NetInv, NetTypes
<1>3. BufferInv'
  BY <1>1 DEF BufferInv, EgressIsCaptured
<1>4. StreamInv'
  <2> SUFFICES ASSUME NEW c \in Conns PROVE StreamOf(c)'
    BY DEF StreamInv
  <2>1. OfConn(c)' = <<>>
    BY <1>1, WhereEmpty DEF OfConn
  <2>2. /\ GetBuilder(c)' = [seq |-> isn[c], ipId |-> 0] /\ isn[c] \in Isns
        /\ given'[c] = <<>> /\ isn'[c] = isn[c]
    BY <1>1 DEF NetInv, NetTypes, GetBuilder, NewBuilder
  <2> QED
    BY <2>1, <2>2, EmptyStream DEF StreamOf
<1> QED
  BY <1>2, <1>3, <1>4 DEF NetInv

LEMMA CreateSimStep ==
  ASSUME NetStackAssumption, NetInv, CreateSim
  PROVE  NetInv'
<1>1. Fresh("sim") /\ UNCHANGED <<eal, pool, inflight>> /\ backend' = "sim"
  BY DEF CreateSim, Fresh
<1>2. PoolInv' /\ eal' \in {"fresh", "up", "spent"}
  BY <1>1 DEF NetInv, NetTypes, PoolInv
<1> QED
  BY <1>1, <1>2, FreshStep

LEMMA CreateDpdkStep ==
  ASSUME NetStackAssumption, NetInv, CreateDpdk
  PROVE  NetInv'
<1>1. Fresh("dpdk") /\ eal' = "up" /\ pool' = PoolSize - RxRing /\ inflight' = 0
  BY DEF CreateDpdk
<1>2. PoolSize - RxRing \in Nat
  <2>1. IdSpace \in Nat \ {0} /\ PoolSize \in 0 .. IdSpace - 1 /\ RxRing \in 0 .. PoolSize
    BY DEF NetStackAssumption
  <2> QED
    BY <2>1
<1>3. PoolInv' /\ eal' \in {"fresh", "up", "spent"}
  BY <1>1, <1>2 DEF PoolInv
<1> QED
  BY <1>1, <1>3, FreshStep

LEMMA CreateFailsStep ==
  ASSUME NetInv, CreateFails
  PROVE  NetInv'
<1>1. /\ backend \notin {"sim", "dpdk"} /\ eal' \in {eal, "spent"}
      /\ UNCHANGED <<isn, backend, builders, ring, buffer, wire, pool, inflight, given, clean>>
  BY DEF CreateFails, Open
<1>2. NetTypes' /\ PoolInv'
  BY <1>1 DEF NetInv, NetTypes, PoolInv
<1>3. BufferInv'
  BY <1>1 DEF BufferInv, EgressIsCaptured, Open
<1> QED
  BY <1>1, <1>2, <1>3, StreamsStay DEF NetInv

LEMMA CloseStep ==
  ASSUME NetInv, Close
  PROVE  NetInv'
<1>1. /\ backend' = "closed" /\ buffer' = <<>>
      /\ wire' = IF backend = "sim" THEN <<>> ELSE wire
      /\ eal' = IF backend = "dpdk" THEN "spent" ELSE eal
      /\ UNCHANGED <<isn, builders, ring, pool, inflight, given>>
  BY DEF Close
<1>2. NetTypes' /\ PoolInv'
  BY <1>1 DEF NetInv, NetTypes, PoolInv
<1>3. BufferInv'
  BY <1>1 DEF BufferInv, EgressIsCaptured, Open
<1> QED
  BY <1>1, <1>2, <1>3, StreamsStay DEF NetInv

\* A burst of which n frames are accepted: the mbufs of the others come back.
LEMMA FlushStep ==
  ASSUME NetStackAssumption, NetInv, Flush
  PROVE  NetInv'
<1>1. PICK n \in Accepts(Len(buffer)) :
         /\ Reports(SendResult(buffer, n))
         /\ pool' = pool - Len(buffer) + SendResult(buffer, n).freed
         /\ inflight' = inflight + n
  BY DEF Flush
<1>2. backend = "dpdk" /\ Len(buffer) <= pool
  BY DEF Flush
<1>3. /\ buffer \in Seq(Frame) /\ wire \in Seq(Frame) /\ Len(buffer) \in Nat
      /\ eal = "up" /\ pool \in Nat /\ inflight \in Nat /\ pool + inflight = PoolSize - RxRing
  BY <1>2 DEF NetInv, NetTypes, PoolInv
<1>4. IdSpace \in Nat \ {0} /\ PoolSize \in 0 .. IdSpace - 1 /\ RxRing \in 0 .. PoolSize
  BY DEF NetStackAssumption
<1>5. Len(buffer) % IdSpace = Len(buffer)
  <2>1. Len(buffer) \in 0 .. IdSpace - 1
    BY <1>2, <1>3, <1>4
  <2> QED
    BY <1>4, <2>1, SmallMod
<1>6. n \in 0 .. Len(buffer)
  BY <1>5 DEF Accepts
<1>7. /\ SendResult(buffer, n).confirmed = n /\ SendResult(buffer, n).submitted = Len(buffer)
      /\ SendResult(buffer, n).freed = Len(buffer) - n
  BY <1>5 DEF SendResult
<1>8. /\ clean' => clean /\ n = Len(buffer)
      /\ wire' = wire \o SubSeq(buffer, 1, n) /\ buffer' = <<>>
      /\ UNCHANGED <<isn, backend, builders, ring, eal, given>>
  BY <1>1, <1>7 DEF Reports
<1>9. PoolInv'
  BY <1>1, <1>2, <1>3, <1>6, <1>7, <1>8 DEF PoolInv
<1>10. SubSeq(buffer, 1, n) \in Seq(Frame) /\ wire \o SubSeq(buffer, 1, n) \in Seq(Frame)
  <2>1. SubSeq(buffer, 1, n) \in Seq(Frame)
    BY <1>3, <1>6, SubSeqProperties
  <2> QED
    BY <1>3, <2>1, ConcatProperties
<1>11. NetTypes'
  BY <1>8, <1>10 DEF NetInv, NetTypes
<1>12. BufferInv'
  <2>1. clean' => ring' = wire' \o buffer'
    <3> SUFFICES ASSUME clean' PROVE ring = wire' \o <<>>
      BY <1>8
    <3>1. ring = wire \o buffer
      BY <1>2, <1>8 DEF NetInv, BufferInv, EgressIsCaptured, Open
    <3>2. SubSeq(buffer, 1, n) = buffer
      BY <1>3, <1>8, SubSeqFull
    <3>3. wire' = ring /\ ring \in Seq(Frame)
      BY <1>8, <1>10, <3>1, <3>2
    <3> QED
      BY <3>3, ConcatEmptySeq
  <2> QED
    BY <1>2, <1>8, <2>1 DEF BufferInv, EgressIsCaptured
<1> QED
  BY <1>8, <1>9, <1>11, <1>12, StreamsStay DEF NetInv

\* The pool runs dry: the zero digest does not match, and the account is as before.
LEMMA FlushExhaustedStep ==
  ASSUME NetStackAssumption, NetInv, FlushExhausted
  PROVE  NetInv'
<1>1. /\ backend = "dpdk" /\ Reports(ExhaustedResult) /\ UNCHANGED <<pool, inflight>>
  BY DEF FlushExhausted
<1>2. ExhaustedResult.confirmed = 0 /\ ExhaustedResult.digest = {}
  BY DEF ExhaustedResult, ZeroDigest
<1>3. ~ Match(TxReport(ExhaustedResult))
  BY <1>2 DEF Match, TxReport, Digest
<1>4. /\ ~ clean' /\ wire' = wire \o SubSeq(buffer, 1, 0) /\ buffer' = <<>>
      /\ UNCHANGED <<isn, backend, builders, ring, eal, given>>
  BY <1>1, <1>2, <1>3 DEF Reports
<1>5. NetTypes'
  <2>1. SubSeq(buffer, 1, 0) = <<>> /\ wire \in Seq(Frame)
    BY SubSeqEmpty DEF NetInv, NetTypes
  <2>2. wire' \in Seq(Frame)
    BY <1>4, <2>1, ConcatEmptySeq
  <2> QED
    BY <1>4, <2>2 DEF NetInv, NetTypes
<1>6. PoolInv' /\ BufferInv'
  BY <1>1, <1>4 DEF NetInv, PoolInv, BufferInv, EgressIsCaptured
<1> QED
  BY <1>4, <1>5, <1>6, StreamsStay DEF NetInv

LEMMA OtherStep ==
  ASSUME NetInv, \/ FlushNothing \/ DriverReleases \/ RecvLoopback
                 \/ UNCHANGED netVars
  PROVE  NetInv'
<1>1. /\ UNCHANGED <<isn, backend, builders, ring, buffer, wire, eal, given, clean>>
      /\ \/ UNCHANGED <<pool, inflight>>
         \/ eal = "up" /\ pool' = pool + inflight /\ inflight' = 0
  BY DEF FlushNothing, DriverReleases, RecvLoopback, netVars
<1>2. NetTypes'
  BY <1>1 DEF NetInv, NetTypes
<1>3. PoolInv'
  BY <1>1 DEF NetInv, PoolInv
<1>4. BufferInv'
  BY <1>1 DEF NetInv, BufferInv, EgressIsCaptured, Open
<1> QED
  BY <1>1, <1>2, <1>3, <1>4, StreamsStay DEF NetInv

LEMMA NetStep ==
  ASSUME NetStackAssumption, NetInv, [NetNext]_(netVars)
  PROVE  NetInv'
<1>1. ASSUME NEW c \in Conns, NEW p \in Payload, ProcessResponse(c, p)
      PROVE  NetInv'
  BY <1>1, ResponseStep
<1>2. ASSUME NEW c \in Conns, NEW p \in Payload, NEW q \in Payload,
             ProcessExchange(c, p, q)
      PROVE  NetInv'
  BY <1>2, ExchangeStep
<1> QED
  BY <1>1, <1>2, CreateSimStep, CreateDpdkStep, CreateFailsStep, CloseStep, FlushStep,
     FlushExhaustedStep, OtherStep DEF NetNext

LEMMA NetInvariant == NetSpec => []NetInv
<1>1. NetInit => NetInv
  BY NetStackAssumption, StartsInNetInv
<1>2. NetInv /\ [NetNext]_(netVars) => NetInv'
  BY NetStackAssumption, NetStep
<1> QED
  BY <1>1, <1>2, PTL DEF NetSpec

-----------------------------------------------------------------------------

\* Types, and the account of mbufs: as long as the EAL is up each is free or with
\* the driver, whatever a burst accepts and wherever the pool runs dry.
THEOREM NetTypeCorrect == NetSpec => []NetTypeOK
<1>1. NetInv => NetTypeOK
  BY DEF NetInv, NetTypes, PoolInv, NetTypeOK, Builder
<1> QED
  BY <1>1, NetInvariant, PTL

\* The frames of each connection rebuild the payloads it was given, however the
\* connections interleave, for every segment size and with both counters wrapping.
THEOREM StreamIsRebuilt == NetSpec => []StreamRebuilds
<1>1. NetInv => StreamRebuilds
  BY DEF NetInv, StreamInv, StreamOf, Stream, StreamRebuilds
<1> QED
  BY <1>1, NetInvariant, PTL

\* While every report has matched and confirmed what was submitted, the capture
\* ring is what went out and what is still buffered, in order.
THEOREM CaptureIsEgress == NetSpec => []EgressIsCaptured
<1>1. NetInv => EgressIsCaptured
  BY DEF NetInv, BufferInv
<1> QED
  BY <1>1, NetInvariant, PTL

=============================================================================
