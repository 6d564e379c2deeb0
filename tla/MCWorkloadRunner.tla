-------------------------- MODULE MCWorkloadRunner --------------------------
(* The symmetry of the requests.                                             *)
EXTENDS WorkloadRunner, TLC

CONSTANTS s1, s2, t1, t2

RequestSymmetry == Permutations(Starters) \cup Permutations(Stoppers)
=============================================================================
