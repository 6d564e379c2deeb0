------------------------- MODULE ModelResolution -------------------------
(***************************************************************************)
(* How a model's files become pinned artifacts                             *)
(* (modules/core/common/hf_resolution.py): the branch is resolved to a     *)
(* commit, the files of that commit are listed, those the pipeline needs   *)
(* are selected, fetched and hashed.  Each question goes to the mirror, to  *)
(* the hub, or to the mirror first, by the resolution mode; a question to   *)
(* the mirror may fail at any time (an HTTP error), so an operator named    *)
(* ...Answers gives every answer the question can end with, and an empty    *)
(* set means it can only raise.                                             *)
(*                                                                          *)
(* A file's content is determined by its name and its commit: a mirror      *)
(* copies, it does not alter.  A digest is that pair.                       *)
(***************************************************************************)
EXTENDS Integers, FiniteSets

CONSTANTS
    Commits,     \* commits of the repository
    Weights,     \* weight shards, the same in each commit
    Others,      \* the files of the other five roles
    Code,        \* its python files
    Trust        \* model.trust_remote_code

Modes == {"online", "cache_first", "offline"}

ASSUME ResolutionAssumption ==
    /\ Trust \in BOOLEAN
    /\ Weights # {}      \* a repository without any has no required inventory
    /\ IsFiniteSet(Weights \cup Others \cup Code)

RepoFiles == Weights \cup Others \cup Code
Artifact  == [file : RepoFiles, commit : Commits]

\* A mirror: the commit its refs.json gives for the branch (at most one), the
\* inventory its files.json gives, and the files it holds, of each commit.
Mirror == [ref  : {s \in SUBSET Commits : Cardinality(s) <= 1},
           inv  : [Commits -> SUBSET RepoFiles],
           have : [Commits -> SUBSET RepoFiles]]

UsesMirror(mode) == mode \in {"cache_first", "offline"}
UsesHub(mode)    == mode # "offline"

\* _resolve_commit.  The schema admits neither requested_revision nor
\* resolved_revision, so the branch asked for is always "main".
CommitAnswers(mode, mirror, main) ==
    (IF UsesMirror(mode) THEN mirror.ref ELSE {})
        \cup (IF UsesHub(mode) THEN {main} ELSE {})

\* _resolve_file_list
ListAnswers(mode, mirror, commit) ==
    (IF UsesMirror(mode) THEN {mirror.inv[commit]} ELSE {})
        \cup (IF UsesHub(mode) THEN {RepoFiles} ELSE {})

\* _select_required_paths: at least one weight shard and every other role.
HasRequired(files) == files \cap Weights # {} /\ Others \subseteq files

\* _resolve_required_inventory: in cache_first mode an inventory that lacks a
\* required file is completed from the hub.  One that merely lacks a shard is
\* not missing anything required.
InventoryAnswers(mode, mirror, commit) ==
    LET lists == ListAnswers(mode, mirror, commit)
    IN  {files \in lists : HasRequired(files)}
        \cup {files \cup RepoFiles : files \in
                IF mode = "cache_first"
                THEN {f \in lists : ~HasRequired(f)} ELSE {}}

\* What is fetched from an inventory: the selected files, and the python files
\* when remote code is trusted.
Needed(files) == files \cap (Weights \cup Others \cup (IF Trust THEN Code ELSE {}))

\* resolve_hf_model, materialize: offline every file must be in the mirror,
\* and trusted remote code needs at least one python file.
CanMaterialize(mode, mirror, commit, files) ==
    /\ mode = "offline" => Needed(files) \subseteq mirror.have[commit]
    /\ Trust => files \cap Code # {}

\* The artifacts add_file makes of an inventory.
PinnedArtifacts(commit, files) == [file : Needed(files), commit : {commit}]
=============================================================================
