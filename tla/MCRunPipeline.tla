-------------------------- MODULE MCRunPipeline --------------------------
EXTENDS RunPipeline, TLC

CONSTANTS c1, c2, w1, w2, other

\* Two commits; one of them has an empty file.
MCEmpty == {[file |-> other, commit |-> c2]}

\* A mirror that lags: it knows the branch as c1 and lists, and holds, one of
\* the two shards only.
LagMirror == [ref |-> {c1}, inv |-> [c \in Commits |-> IF c = c1 THEN {w1, other} ELSE {}],
              have |-> [c \in Commits |-> IF c = c1 THEN {w1, other} ELSE {}]]
MCMirrors == {LagMirror}

SymDirs == Permutations(Dirs)
=============================================================================
