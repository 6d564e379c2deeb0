--------------------------- MODULE ResponseStream ---------------------------
(***************************************************************************)
(* What a client of the userspace TCP server reads from its socket: the    *)
(* segments of one response, in order, and the end of the stream after the *)
(* last.  When the sending of a response was broken off, and it arrived    *)
(* complete all the same, another one may follow it.                       *)
(***************************************************************************)
EXTENDS Naturals, Sequences

CONSTANTS RequestLen, ResponseLen

VARIABLES
    got,     \* the segments read: the response and the place in it
    eof,     \* the end of the stream has been read
    broken   \* the sending of a response was broken off

vars == <<got, eof, broken>>

Init == got = <<>> /\ eof = FALSE /\ broken = FALSE

Last == got[Len(got)]

Complete == got # <<>> /\ Last.pos = ResponseLen[Last.resp]

(* The first segment of a response, or the one that follows the last read.  *)
Begins == got = <<>> \/ (broken /\ Complete)

Read ==
    /\ ~eof
    /\ \E part \in 1..RequestLen : \E n \in 1..ResponseLen[part] :
          /\ \/ n = 1 /\ Begins
             \/ n > 1 /\ got # <<>> /\ Last = [resp |-> part, pos |-> n - 1]
          /\ got' = Append(got, [resp |-> part, pos |-> n])
    /\ UNCHANGED <<eof, broken>>

End ==
    /\ ~eof
    /\ Complete
    /\ eof' = TRUE
    /\ UNCHANGED <<got, broken>>

Break ==
    /\ broken' = TRUE
    /\ UNCHANGED <<got, eof>>

Next == Read \/ End \/ Break

Spec == Init /\ [][Next]_vars
=============================================================================
