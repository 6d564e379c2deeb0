--------------------------- MODULE MCUserspaceTcp ---------------------------
(* Constants of UserspaceTcp that a .cfg cannot write.                       *)
EXTENDS UserspaceTcp

(* Sixteen numbers: the first connection's response straddles the wrap, the  *)
(* second begins close to half the space away, behind the first.             *)
WrappingIsn == [i \in 1..MaxConns |-> <<14, 7>>[i]]

(* The first packet selects a response of two segments; the second, read     *)
(* alone, one of a single segment (404).                                     *)
TwoPackets == <<2, 1>>

ASSUME Apart == IsnsApart
=============================================================================
