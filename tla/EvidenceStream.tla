--------------------------- MODULE EvidenceStream ---------------------------
(***************************************************************************)
(* What the traffic path promises, without queues, threads or HTTP: frames *)
(* are published one by one; chunks of them are recorded, each frame at    *)
(* most once and in the order of publication within a chunk; and once the  *)
(* record is sealed it does not change.  A frame may never be recorded.    *)
(***************************************************************************)
EXTENDS Naturals, Sequences

VARIABLES
    published,  \* number of frames published: they are 1..published
    recorded,   \* the frames recorded
    sealed      \* whether the digest has been given out

vars == <<published, recorded, sealed>>

Init ==
    /\ published = 0
    /\ recorded = <<>>
    /\ sealed = FALSE

Publish ==
    /\ published' = published + 1
    /\ UNCHANGED <<recorded, sealed>>

Extends(longer, shorter) ==
    Len(shorter) <= Len(longer) /\ SubSeq(longer, 1, Len(shorter)) = shorter

Record ==
    /\ ~sealed
    /\ Extends(recorded', recorded)
    /\ \A i \in DOMAIN recorded' : recorded'[i] \in 1..published
    /\ \A i, j \in DOMAIN recorded' : recorded'[i] = recorded'[j] => i = j
    /\ \A i, j \in Len(recorded) + 1..Len(recorded') : i < j => recorded'[i] < recorded'[j]
    /\ UNCHANGED <<published, sealed>>

Seal ==
    /\ sealed' = TRUE
    /\ UNCHANGED <<published, recorded>>

Next == Publish \/ Record \/ Seal

Spec == Init /\ [][Next]_vars
=============================================================================
