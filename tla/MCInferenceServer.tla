-------------------------- MODULE MCInferenceServer --------------------------
(* Constants of InferenceServer that a .cfg cannot write, and the symmetry   *)
(* of its handler threads.                                                   *)
EXTENDS InferenceServer, TLC

CONSTANTS m1, m2, h1, h2

(* Two manifests of the same model that differ in their knobs, the case in   *)
(* which vLLM cannot tell a request meant for the other one.                 *)
SameModel == [m \in Manifests |-> "model"]

HandlerSymmetry == Permutations(Handlers)
=============================================================================
