------------------------------- MODULE Warden -------------------------------
(***************************************************************************)
(* ActiveWarden (networkdet/warden.py) between two TCP endpoints that may  *)
(* open the same 4-tuple again.  Every frame passes normalize(): header    *)
(* fields that carry nothing are fixed, options and reset payloads are     *)
(* stripped, and sequence and acknowledgement numbers are shifted by what  *)
(* the initial sequence number (ISN) of their direction was shifted.  The  *)
(* two deployments: "recorded", in which the frames reach the other side   *)
(* as they were and the normalised ones are captured (as /run of the       *)
(* inference server does), and "inline", in which the normalised ones are  *)
(* sent on (as the class documentation shows).                             *)
(*                                                                         *)
(* Lengths are counted in 32-bit words; header fields whose new value is a *)
(* constant, or a keyed hash nobody reads, are one flag: noise.  The       *)
(* checksums are recomputed and correct, and are left out.                 *)
(***************************************************************************)
EXTENDS Integers, FiniteSets

CONSTANTS
    W,          \* the sequence space is 0 .. W-1 (2^32 in the code)
    Isns,       \* initial sequence numbers the endpoints may choose
    Hashes,     \* and those the keyed hash may yield
    MaxRuns,    \* bound: connections of each endpoint
    MaxSent     \* bound: words of data sent by an endpoint in a connection

(* Fewer words than the sequence space has: the wire keeps a frame for     *)
(* ever, where a network drops it before its numbers are used again.       *)
ASSUME WardenAssumption ==
    /\ W \in Nat \ {0} /\ Isns \cup Hashes \subseteq 0 .. W - 1 /\ Isns # {}
    /\ MaxRuns \in Nat /\ MaxSent \in 0 .. W - 1

VARIABLES
    deployment,
    hash,         \* _new_isn: the secret's keyed hash, for each direction
    connections,  \* seq_offset of each direction's ConnState
    end,          \* the endpoints' TCP
    wire,         \* frames behind the warden: each may arrive late, twice or never
    last          \* the frame that passed last and what became of it (history)

vars == <<deployment, hash, connections, end, wire, last>>

Sides == {"client", "server"}

Peer(s) == CHOOSE t \in Sides : t # s

Seq32 == 0 .. W - 1

(* The layout a sender chooses for a frame.                                *)
Shapes == [ipOptions : {0, 2}, options : SUBSET {"mss", "timestamps"}, urg : BOOLEAN,
           pointer : {0, 1}, payload : {0, 1}]

Plain(n) == [ipOptions |-> 0, options |-> {"mss", "timestamps"}, urg |-> FALSE, pointer |-> 0,
             payload |-> n]

(* Data offset and total length of a frame with these options.             *)
OptionWords(options) ==
    (IF "mss" \in options THEN 1 ELSE 0) + (IF "timestamps" \in options THEN 3 ELSE 0)

(* A well-formed frame.  run and peerRun (history): the connection of the  *)
(* sender it belongs to, and the one of the other side it acknowledges.    *)
Frame(kind, s, flags, seq, ack, shape, peerRun) ==
    [kind |-> kind, from |-> s, flags |-> flags \cup (IF shape.urg THEN {"urg"} ELSE {}),
     seq |-> seq, ack |-> ack, ipOptions |-> shape.ipOptions, options |-> shape.options,
     offset |-> 5 + OptionWords(shape.options), pointer |-> shape.pointer,
     total |-> 5 + shape.ipOptions + 5 + OptionWords(shape.options) + shape.payload,
     padding |-> TRUE, noise |-> TRUE, run |-> end[s].run,
     peerRun |-> peerRun]

(* What a receiver takes for data.                                         *)
Payload(f) == f.total - 5 - f.ipOptions - f.offset

Nothing == [kind |-> "none"]

Fresh == [phase |-> "closed", run |-> 0, isn |-> 0, sent |-> 0, peerRun |-> 0, peerIsn |-> 0,
          got |-> 0]

Init ==
    /\ deployment \in {"recorded", "inline"}
    /\ hash \in [Sides -> [Isns -> Hashes]]
    /\ connections = [s \in Sides |-> 0]
    /\ end = [s \in Sides |-> Fresh]
    /\ wire = {}
    /\ last = [in |-> Nothing, out |-> Nothing]

-----------------------------------------------------------------------------
(* normalize(), in the order of its statements.                            *)

(* The IP header: options removed, the rest fixed.                         *)
NormalizeIp(f) ==
    [f EXCEPT !.noise = FALSE, !.ipOptions = 0, !.total = @ - f.ipOptions]

(* A SYN or SYN-ACK gets the hashed ISN; later numbers are shifted by the  *)
(* offset of their own direction, and every acknowledgement by the offset  *)
(* of the other.  Mutants: the offset is not masked to 32 bits; the        *)
(* acknowledgement of a SYN-ACK is not shifted.                            *)
NewIsn(f) == IF "syn" \in f.flags THEN hash[f.from][f.seq] ELSE (f.seq + connections[f.from]) % W

UnmaskedOffset(f) == IF "syn" \in f.flags THEN NewIsn(f) - f.seq ELSE connections[f.from]

SeqOffset(f) == IF "syn" \in f.flags THEN (NewIsn(f) - f.seq) % W ELSE connections[f.from]

ShiftsNoSynAck(f) ==
    IF "ack" \in f.flags /\ "syn" \notin f.flags
    THEN (f.ack + connections[Peer(f.from)]) % W ELSE f.ack

ShiftedAck(f) ==
    IF f.flags \cap {"syn", "ack"} = {"syn"} THEN f.ack
    ELSE (f.ack + connections[Peer(f.from)]) % W

(* An urgent pointer without URG is cleared; one beyond the payload too,   *)
(* with URG.                                                               *)
BoundUrgent(f) ==
    IF "urg" \in f.flags /\ f.pointer <= f.total - 5 - f.offset THEN f
    ELSE [f EXCEPT !.flags = @ \ {"urg"}, !.pointer = 0]

(* A reset loses its payload.                                              *)
StripReset(f) == IF "rst" \in f.flags THEN [f EXCEPT !.total = 5 + f.offset] ELSE f

(* Of the options, a SYN's MSS is kept.  Mutant: the total length is       *)
(* reduced by all of them.                                                 *)
KeptOptions(f) == IF "syn" \in f.flags THEN f.options \cap {"mss"} ELSE {}

StripsAll(f) ==
    [f EXCEPT !.options = KeptOptions(f), !.offset = 5 + OptionWords(KeptOptions(f)),
              !.total = @ - OptionWords(f.options)]

StripOptions(f) ==
    [f EXCEPT !.options = KeptOptions(f), !.offset = 5 + OptionWords(KeptOptions(f)),
              !.total = @ - (OptionWords(f.options) - OptionWords(KeptOptions(f)))]

ZeroPadding(f) == [f EXCEPT !.padding = FALSE]

NormalizeTcp(f) ==
    StripOptions(StripReset(BoundUrgent([f EXCEPT !.seq = NewIsn(f), !.ack = ShiftedAck(f)])))

(* None for a runt or a frame whose IP version is wrong; a frame that is   *)
(* not IPv4 passes as it is.                                               *)
Normalize(f) ==
    CASE f.kind = "runt" -> Nothing
      [] f.kind = "arp" -> f
      [] f.kind = "udp" -> ZeroPadding(NormalizeIp(f))
      [] f.kind \in {"tcp", "other"} -> ZeroPadding(NormalizeTcp(NormalizeIp(f)))

(* A frame passes the warden.  Acknowledgements and resets make no         *)
(* difference to the endpoints below, and are not kept on the wire.        *)
Passes(f) ==
    /\ connections' =
           IF f.kind = "tcp" THEN [connections EXCEPT ![f.from] = SeqOffset(f)] ELSE connections
    /\ last' = [in |-> f, out |-> Normalize(f)]
    /\ wire' = IF f.kind = "tcp" /\ ("syn" \in f.flags \/ Payload(f) > 0)
               THEN wire \cup {IF deployment = "inline" THEN Normalize(f) ELSE f} ELSE wire

-----------------------------------------------------------------------------
(* The endpoints, any TCP.                                                 *)

Plus(isn, n) == (isn + n) % W

Segment(s, flags, shape) ==
    Frame("tcp", s, flags, Plus(end[s].isn, 1 + end[s].sent),
          Plus(end[s].peerIsn, 1 + end[s].got), shape, end[s].peerRun)

Syn(e) == [Frame("tcp", "client", {"syn"}, e.isn, 0, Plain(0), 0) EXCEPT !.run = e.run]

SynAck(e) ==
    [Frame("tcp", "server", {"syn", "ack"}, e.isn, Plus(e.peerIsn, 1), Plain(0), e.peerRun)
        EXCEPT !.run = e.run]

(* The client opens, at any time also again with a new ISN.                *)
Connects(isn) ==
    /\ end["client"].run < MaxRuns
    /\ LET e == [Fresh EXCEPT !.phase = "opening", !.run = end["client"].run + 1, !.isn = isn]
       IN  end' = [end EXCEPT !["client"] = e] /\ Passes(Syn(e))
    /\ UNCHANGED <<deployment, hash>>

(* Timeouts: the SYN, and the SYN-ACK, are sent again.                     *)
RepeatsSyn ==
    /\ end["client"].phase = "opening"
    /\ Passes(Syn(end["client"]))
    /\ UNCHANGED <<deployment, hash, end>>

RepeatsSynAck ==
    /\ end["server"].phase = "open" /\ end["server"].sent = 0
    /\ Passes(SynAck(end["server"]))
    /\ UNCHANGED <<deployment, hash, end>>

(* A SYN arrives: a newer connection replaces the one the server has.      *)
Accepts(f, isn) ==
    /\ f.from = "client" /\ f.flags = {"syn"} /\ f.run > end["server"].peerRun
    /\ LET e == [Fresh EXCEPT !.phase = "open", !.run = end["server"].run + 1, !.isn = isn,
                              !.peerRun = f.run, !.peerIsn = f.seq]
       IN  end' = [end EXCEPT !["server"] = e] /\ Passes(SynAck(e))
    /\ UNCHANGED <<deployment, hash>>

(* The SYN-ACK of the client's connection arrives.                         *)
Opens(f) ==
    /\ f.from = "server" /\ "syn" \in f.flags
    /\ end["client"].phase = "opening" /\ f.peerRun = end["client"].run
    /\ f.ack = Plus(end["client"].isn, 1)
    /\ end' = [end EXCEPT !["client"].phase = "open", !["client"].peerRun = f.run,
                          !["client"].peerIsn = f.seq]
    /\ UNCHANGED <<deployment, hash, connections, wire, last>>

(* An acknowledgement, data or a reset is sent.                            *)
Sends(s, n) ==
    /\ end[s].phase = "open" /\ end[s].sent + n <= MaxSent
    /\ Passes(Segment(s, {"ack"}, Plain(n)))
    /\ end' = [end EXCEPT ![s].sent = @ + n]
    /\ UNCHANGED <<deployment, hash>>

Resets(s) ==
    /\ end[s].phase = "open"
    /\ Passes(Segment(s, {"ack", "rst"}, Plain(0)))
    /\ end' = [end EXCEPT ![s].phase = "closed"]
    /\ UNCHANGED <<deployment, hash>>

(* Data in sequence arrives.                                               *)
Receives(s, f) ==
    /\ f.from = Peer(s) /\ f.flags = {"ack"} /\ Payload(f) > 0
    /\ end[s].phase = "open" /\ f.run = end[s].peerRun
    /\ f.seq = Plus(end[s].peerIsn, 1 + end[s].got)
    /\ end' = [end EXCEPT ![s].got = @ + 1]
    /\ UNCHANGED <<deployment, hash, connections, wire, last>>

(* A frame of no connection, of any well-formed layout: fragments, and     *)
(* frames whose data offset contradicts their length, are not among them.  *)
(* Bound: it is the first frame; what becomes of it does not depend on     *)
(* connections.                                                            *)
Strays(kind, s, flags, shape) ==
    /\ last.in = Nothing
    /\ Passes(Frame(kind, s, flags, CHOOSE isn \in Isns : TRUE, 0, shape, 0))
    /\ UNCHANGED <<deployment, hash, end>>

Next ==
    \/ \E isn \in Isns : Connects(isn) \/ \E f \in wire : Accepts(f, isn)
    \/ RepeatsSyn
    \/ RepeatsSynAck
    \/ \E f \in wire : Opens(f) \/ \E s \in Sides : Receives(s, f)
    \/ \E s \in Sides : Resets(s) \/ \E n \in {0, 1} : Sends(s, n)
    \/ \E kind \in {"other", "udp", "arp", "runt"}, s \in Sides, shape \in Shapes,
          flags \in {{"syn"}, {"syn", "ack"}, {"ack"}, {"ack", "rst"}} :
          Strays(kind, s, flags, shape)

Spec == Init /\ [][Next]_vars

-----------------------------------------------------------------------------

Tcp(f) == f.kind \in {"tcp", "other"}

TypeOK ==
    /\ deployment \in {"recorded", "inline"}
    /\ connections \in [Sides -> Seq32]
    /\ \A s \in Sides : /\ end[s].phase \in {"closed", "opening", "open"}
                        /\ end[s].run \in 0 .. MaxRuns
                        /\ end[s].sent \in 0 .. MaxSent /\ end[s].got \in 0 .. MaxSent
    /\ \A f \in wire \cup {last.out} : Tcp(f) => f.seq \in Seq32 /\ f.ack \in Seq32

(* The capture tells the same story as the link: in a frame that belongs   *)
(* to its sender's present connection, what is sent and acknowledged is    *)
(* as far from the new ISNs as it was from the old, whatever was repeated, *)
(* and whether the 4-tuple was used before.  Excluded are frames that      *)
(* acknowledge a connection the other side has since opened again, for     *)
(* one ConnState per 4-tuple cannot serve both.                            *)
FlowKept ==
    LET f == last.in  s == last.in.from
    IN  deployment = "recorded" /\ f.kind = "tcp" =>
          LET distance(isn, n) == (n - isn) % W
              new(side) == hash[side][end[side].isn]
          IN  /\ f.run = end[s].run =>
                    distance(new(s), last.out.seq) = distance(end[s].isn, f.seq)
              /\ f.run = end[s].run /\ "ack" \in f.flags /\ f.peerRun = end[Peer(s)].run =>
                    distance(new(Peer(s)), last.out.ack) = distance(end[Peer(s)].isn, f.ack)

(* The receiver of a normalised frame, which finds the data behind the     *)
(* options and before the total length, finds the bytes that were sent, or *)
(* none in a reset: the three strippings of options, reset payloads and IP *)
(* options correct the same two lengths one after the other.               *)
SameBytes ==
    Tcp(last.in) =>
        /\ Payload(last.out) = IF "rst" \in last.in.flags THEN 0 ELSE Payload(last.in)
        /\ last.out.offset = 5 + OptionWords(last.out.options)
=============================================================================
