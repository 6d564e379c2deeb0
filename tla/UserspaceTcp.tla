---------------------------- MODULE UserspaceTcp ----------------------------
(***************************************************************************)
(* The deterministic TCP server of                                         *)
(* modules/network/networkdet/userspace_tcp_server.py (on AF_PACKET, with  *)
(* the segments built by networkdet/tcp.py) and one client address.        *)
(*                                                                         *)
(* The server is one thread: a handler per packet, and a timer that        *)
(* resends stored frames. Sending a frame may raise: after ENETDOWN in a   *)
(* handler the server goes on from what the handler has done so far; any   *)
(* other error, or one in the timer, ends it. The client is the peer's     *)
(* kernel TCP, reduced to what the server can tell. The network is the set *)
(* of all packets ever sent: a packet never received again is lost, one    *)
(* received twice is duplicated, and any order is possible. One unit of    *)
(* sequence space is one packet's payload.                                 *)
(***************************************************************************)
EXTENDS Naturals, Sequences

CONSTANTS
    SeqSpace,        \* 2^32 in the code
    Isn,             \* connection index -> deterministic_isn(run_id, index)
    ClientIsn,       \* the client's initial sequence number
    RequestLen,      \* packets the client's request takes
    ResponseLen,     \* request packet -> segments of the response it selects
    MaxResponse,     \* segments of the longest response
    MaxRetransmits,  \* max_retransmits
    MaxFaults,       \* bound: sends that ever fail
    MaxConns         \* bound: SYNs the server ever handles

SeqNos == 0..SeqSpace - 1

ASSUME TcpAssumption ==
    /\ SeqSpace \in Nat \ {0}
    /\ Isn \in [1..MaxConns -> SeqNos]
    /\ ClientIsn \in SeqNos
    /\ RequestLen \in Nat \ {0}
    /\ ResponseLen \in [1..RequestLen -> Nat \ {0}]
    /\ MaxResponse \in Nat \ {0}
    /\ \A part \in 1..RequestLen : ResponseLen[part] <= MaxResponse
    /\ MaxRetransmits \in Nat
    /\ MaxFaults \in Nat
    /\ MaxConns \in Nat \ {0}

VARIABLES
    conn,         \* self.connections[key], index 0 if there is none
    connCounter,  \* self.conn_counter
    failed,       \* the connections counted in stats["retransmit_failures"]
    cut,          \* the connections whose response a failed send broke off
    faults,       \* sends that have failed
    loop,         \* serve_forever: serving, or ended by an error
    client,       \* the client's connection
    toServer,     \* packets the client has sent
    toClient      \* frames the server has sent

serverVars == <<conn, connCounter, failed>>
faultVars == <<cut, faults, loop>>
vars == <<serverVars, faultVars, client, toServer, toClient>>

-----------------------------------------------------------------------------
(* Sequence numbers. *)

Add(a, n) == (a + n) % SeqSpace

(* _seq_lte: the difference, taken as a signed number, is not negative.     *)
(* Mutant: the plain comparison.                                            *)
SeqLtePlain(a, b) == a <= b
SeqLte(a, b) == (b + SeqSpace - a) % SeqSpace < SeqSpace \div 2

(* How far a number is from a connection's ISN: 1 is its first byte.        *)
Offset(i, s) == (s + SeqSpace - Isn[i]) % SeqSpace

-----------------------------------------------------------------------------
(* Packets, connections, the client. *)

Parts == 1..RequestLen

(* A packet of the client; part is the piece of the request it carries, 0   *)
(* if it has no payload, and ack is 0 where the server does not read it.    *)
Packet == [kind : {"syn", "ack", "fin", "rst"}, seq : SeqNos, ack : SeqNos,
           part : Parts \cup {0}]

(* A frame of the server: the connection it was built for, and for data the *)
(* response it belongs to (named by the packet that selected it) and the    *)
(* place of its segment there.                                              *)
Frame == [kind : {"synack", "data", "fin", "ack"}, index : 1..MaxConns,
          seq : SeqNos, ack : SeqNos, resp : Parts \cup {0}, pos : Nat]

NoConn == [index |-> 0, state |-> "CLOSED", seq |-> 0, ack |-> 0, responded |-> FALSE,
           closed |-> FALSE, unacked |-> {}, fin |-> {}, finSeq |-> {}, count |-> 0]

(* ConnectionState; fin holds fin_frame and finSeq holds fin_seq, and are   *)
(* empty for None.                                                          *)
Connection == [index : 0..MaxConns,
               state : {"CLOSED", "SYN_RECEIVED", "ESTABLISHED", "FIN_WAIT_1"},
               seq : SeqNos, ack : SeqNos, responded : BOOLEAN, closed : BOOLEAN,
               unacked : SUBSET Frame, fin : SUBSET Frame, finSeq : SUBSET SeqNos,
               count : 0..MaxRetransmits]

Connected == conn.index # 0

(* irs and nxt: the server's ISN as the client knows it and the next number *)
(* it expects; una: the request packets acknowledged; got: what the         *)
(* application has read; eof: the server's FIN has been accepted.           *)
Client == [state : {"closed", "syn_sent", "established", "aborted"}, irs : SeqNos,
           nxt : SeqNos, una : 0..RequestLen, got : Seq([resp : Parts, pos : Nat]),
           eof : BOOLEAN]

Init ==
    /\ conn = NoConn
    /\ connCounter = 0
    /\ failed = {}
    /\ cut = {}
    /\ faults = 0
    /\ loop = "serving"
    /\ client = [state |-> "closed", irs |-> 0, nxt |-> 0, una |-> 0, got |-> <<>>, eof |-> FALSE]
    /\ toServer = {}
    /\ toClient = {}

ServerSends(frames) == toClient' = toClient \cup frames
ClientSends(packet) == toServer' = toServer \cup {packet}

(* _send_frame raises.  serve_forever catches ENETDOWN around the handlers  *)
(* of packets, and nothing around the timer.                                *)
Serving == loop = "serving"
InHandler == {"serving", "ended"}
InTimer == {"ended"}
Raises(outcomes) == faults < MaxFaults /\ faults' = faults + 1 /\ loop' \in outcomes

(* A handler sends all of these frames; or these before the one that fails. *)
Sends(frames) == ServerSends(frames) /\ UNCHANGED faultVars
SendFails(frames) == Raises(InHandler) /\ ServerSends(frames) /\ UNCHANGED cut

-----------------------------------------------------------------------------
(* The server: _process_packet and the handler it dispatches to. *)

(* RST: the connection is forgotten.                                        *)
HandleRst(p) ==
    /\ p.kind = "rst"
    /\ Serving /\ Connected
    /\ conn' = NoConn
    /\ UNCHANGED <<connCounter, failed, faultVars, client, toServer, toClient>>

(* Any SYN, a duplicate of the current connection's included, makes a new   *)
(* ConnectionState with the next index and so another ISN.                  *)
SynAck(p, index) ==
    [kind |-> "synack", index |-> index, seq |-> Isn[index], ack |-> Add(p.seq, 1),
     resp |-> 0, pos |-> 0]

HandleSyn(p) ==
    /\ p.kind = "syn"
    /\ Serving
    /\ connCounter < MaxConns
    /\ connCounter' = connCounter + 1
    /\ conn' = [NoConn EXCEPT !.index = connCounter', !.state = "SYN_RECEIVED",
                              !.seq = Add(Isn[connCounter'], 1), !.ack = Add(p.seq, 1)]
    /\ Sends({SynAck(p, connCounter')}) \/ SendFails({})
    /\ UNCHANGED <<failed, client, toServer>>

(* The first n data segments of a response on connection c.                 *)
Segments(c, part, n) ==
    {[kind |-> "data", index |-> c.index, seq |-> Add(c.seq, i - 1), ack |-> c.ack,
      resp |-> part, pos |-> i] : i \in 1..n}

(* Mutant of FinFrame: tcp._seq was not advanced over the last chunk.       *)
FinFrameOverlapping(c, part) ==
    [kind |-> "fin", index |-> c.index, seq |-> Add(c.seq, ResponseLen[part] - 1), ack |-> c.ack,
     resp |-> 0, pos |-> 0]

FinFrame(c, part) ==
    [kind |-> "fin", index |-> c.index, seq |-> Add(c.seq, ResponseLen[part]), ack |-> c.ack,
     resp |-> 0, pos |-> 0]

(* fin_seq, kept by running_seq and apart from the frame.  Mutant: it is    *)
(* the number of the last segment.                                          *)
FinSeqEarly(c, part) == Add(c.seq, ResponseLen[part] - 1)
FinSeq(c, part) == Add(c.seq, ResponseLen[part])

(* _send_response on connection c: every data segment, then the FIN, each   *)
(* stored and then sent.  The send of the FIN may fail.  Mutant: the FIN is *)
(* stored once it has been sent.                                            *)
SendResponseFinLate(c, part) ==
    LET data == Segments(c, part, ResponseLen[part])
        fin == FinFrame(c, part)
        sent == [c EXCEPT !.state = "FIN_WAIT_1", !.seq = Add(c.seq, ResponseLen[part] + 1),
                          !.responded = TRUE, !.unacked = @ \cup data]
    IN  \/ Sends(data \cup {fin}) /\ conn' = [sent EXCEPT !.fin = {fin}, !.finSeq = {FinSeq(c, part)}]
        \/ SendFails(data) /\ conn' = sent

SendResponse(c, part) ==
    LET data == Segments(c, part, ResponseLen[part])
        fin == FinFrame(c, part)
    IN  /\ conn' = [c EXCEPT !.state = "FIN_WAIT_1", !.seq = Add(c.seq, ResponseLen[part] + 1),
                             !.responded = TRUE, !.unacked = @ \cup data,
                             !.fin = {fin}, !.finSeq = {FinSeq(c, part)}]
        /\ Sends(data \cup {fin}) \/ SendFails(data)

(* The send of the k-th segment fails: all of them have been numbered by    *)
(* then, the first k are stored, and the response does not count as sent.   *)
(* Mutants: the number is advanced after the sends, and not at all when one *)
(* fails; each segment is numbered when its turn comes.                     *)
BreakOffUnnumbered(c, part, k) ==
    /\ conn' = [c EXCEPT !.unacked = @ \cup Segments(c, part, k)]
    /\ cut' = cut \cup {c.index}
    /\ Raises(InHandler)
    /\ ServerSends(Segments(c, part, k - 1))

BreakOffInTurn(c, part, k) ==
    /\ conn' = [c EXCEPT !.seq = Add(c.seq, k), !.unacked = @ \cup Segments(c, part, k)]
    /\ cut' = cut \cup {c.index}
    /\ Raises(InHandler)
    /\ ServerSends(Segments(c, part, k - 1))

BreakOff(c, part, k) ==
    /\ conn' = [c EXCEPT !.seq = Add(c.seq, ResponseLen[part]),
                         !.unacked = @ \cup Segments(c, part, k)]
    /\ cut' = cut \cup {c.index}
    /\ Raises(InHandler)
    /\ ServerSends(Segments(c, part, k - 1))

(* Frames the number acknowledges leave the store, the retransmission count *)
(* is reset on progress, and an acknowledged FIN is dropped.                *)
Outstanding(ack) == {f \in conn.unacked : ~SeqLte(Add(f.seq, 1), ack)}

(* Mutant: every ACK, a duplicate one too, counts as progress.              *)
AlwaysProgress(ack) == TRUE
Progress(ack) == Outstanding(ack) # conn.unacked

AfterAck(ack) ==
    [conn EXCEPT
        !.state = IF @ = "SYN_RECEIVED" THEN "ESTABLISHED" ELSE @,
        !.unacked = Outstanding(ack),
        !.count = IF Progress(ack) THEN 0 ELSE @,
        !.fin = IF \E n \in conn.finSeq : SeqLte(Add(n, 1), ack) THEN {} ELSE @]

(* Mutant of Answers: the response_sent test is left out.                   *)
AnswersAgain(p) == p.part # 0
Answers(p) == p.part # 0 /\ ~conn.responded

(* An ACK, with or without payload.  The number is not compared with ours   *)
(* on handshake, and the first packet with payload, whichever part of the   *)
(* request it is, selects and triggers the response; the next one triggers  *)
(* another if that was broken off.                                          *)
HandleAck(p) ==
    /\ p.kind = "ack"
    /\ Serving /\ Connected
    /\ IF Answers(p)
       THEN LET c == [AfterAck(p.ack) EXCEPT !.ack = Add(p.seq, 1)]
            IN  \/ SendResponse(c, p.part)
                \/ \E k \in 1..ResponseLen[p.part] : BreakOff(c, p.part, k)
       ELSE conn' = AfterAck(p.ack) /\ UNCHANGED <<toClient, faultVars>>
    /\ UNCHANGED <<connCounter, failed, client, toServer>>

(* FIN: acknowledged whether or not what precedes it has arrived, and       *)
(* retransmission stops, unless the send of the ACK fails.                  *)
FinAck(p) ==
    [kind |-> "ack", index |-> conn.index, seq |-> conn.seq, ack |-> Add(p.seq, 1),
     resp |-> 0, pos |-> 0]

HandleFin(p) ==
    /\ p.kind = "fin"
    /\ Serving /\ Connected
    /\ \/ Sends({FinAck(p)}) /\ conn' = [conn EXCEPT !.ack = Add(p.seq, 1), !.closed = TRUE]
       \/ SendFails({}) /\ conn' = [conn EXCEPT !.ack = Add(p.seq, 1)]
    /\ UNCHANGED <<connCounter, failed, client, toServer>>

(* _check_retransmissions after retransmit_timeout.                         *)
Stored == conn.unacked \cup conn.fin
Owes == Serving /\ Connected /\ Stored # {} /\ ~conn.closed

(* Mutant of Retransmit: one round more than max_retransmits.               *)
RetransmitOneMore ==
    /\ Owes
    /\ conn.count <= MaxRetransmits
    /\ conn' = [conn EXCEPT !.count = @ + 1]
    /\ Sends(Stored)
    /\ UNCHANGED <<connCounter, failed, client, toServer>>

Retransmit ==
    /\ Owes
    /\ conn.count < MaxRetransmits
    /\ conn' = [conn EXCEPT !.count = @ + 1]
    /\ Sends(Stored)
    /\ UNCHANGED <<connCounter, failed, client, toServer>>

(* The frames before f are resent, and f fails.                             *)
Before(f) == {g \in Stored : Offset(conn.index, g.seq) < Offset(conn.index, f.seq)}

RetransmitFails ==
    /\ Owes
    /\ conn.count < MaxRetransmits
    /\ conn' = [conn EXCEPT !.count = @ + 1]
    /\ Raises(InTimer)
    /\ \E f \in Stored : ServerSends(Before(f))
    /\ UNCHANGED <<connCounter, failed, cut, client, toServer>>

GiveUp ==
    /\ Owes
    /\ conn.count >= MaxRetransmits
    /\ conn' = [conn EXCEPT !.unacked = {}, !.fin = {}]
    /\ failed' = failed \cup {conn.index}
    /\ UNCHANGED <<connCounter, faultVars, client, toServer, toClient>>

(* _cleanup_stale_connections: 30 s after the SYN, whatever its state.      *)
CleanupStale ==
    /\ Serving /\ Connected
    /\ conn' = NoConn
    /\ UNCHANGED <<connCounter, failed, faultVars, client, toServer, toClient>>

-----------------------------------------------------------------------------
(* The client. *)

(* connect(); the SYN is also sent again while no SYN-ACK has come.         *)
ClientConnect ==
    /\ client.state = "closed"
    /\ client' = [client EXCEPT !.state = "syn_sent"]
    /\ ClientSends([kind |-> "syn", seq |-> ClientIsn, ack |-> 0, part |-> 0])
    /\ UNCHANGED <<serverVars, faultVars, toClient>>

PureAck(nxt) == [kind |-> "ack", seq |-> Add(ClientIsn, 1 + RequestLen), ack |-> nxt, part |-> 0]

ClientEstablish(f) ==
    /\ client.state = "syn_sent"
    /\ f.kind = "synack"
    /\ client' = [client EXCEPT !.state = "established", !.irs = f.seq, !.nxt = Add(f.seq, 1)]
    /\ ClientSends(PureAck(client'.nxt))
    /\ UNCHANGED <<serverVars, faultVars, toClient>>

(* A part of the request, for the first time or again.                      *)
ClientSendPart(k) ==
    /\ client.state = "established"
    /\ k > client.una
    /\ ClientSends([kind |-> "ack", seq |-> Add(ClientIsn, k), ack |-> client.nxt, part |-> k])
    /\ UNCHANGED <<serverVars, faultVars, client, toClient>>

(* A frame of the server: the next segment in order is taken, any other is  *)
(* not, and both are answered with a cumulative ACK.                        *)
Acknowledged(f) ==
    LET n == (f.ack + SeqSpace - Add(ClientIsn, 1)) % SeqSpace
    IN  IF n < RequestLen THEN n ELSE RequestLen

ClientReceive(f) ==
    /\ client.state = "established"
    /\ LET next == f.kind \in {"data", "fin"} /\ f.seq = client.nxt /\ ~client.eof
       IN  client' = [client EXCEPT
               !.una = IF Acknowledged(f) > @ THEN Acknowledged(f) ELSE @,
               !.nxt = IF next THEN Add(@, 1) ELSE @,
               !.got = IF next /\ f.kind = "data" THEN Append(@, [resp |-> f.resp, pos |-> f.pos]) ELSE @,
               !.eof = @ \/ (next /\ f.kind = "fin")]
    /\ IF f.kind = "ack" THEN UNCHANGED toServer ELSE ClientSends(PureAck(client'.nxt))
    /\ UNCHANGED <<serverVars, faultVars, toClient>>

(* close() or shutdown(SHUT_WR), before or after the response.              *)
ClientFin ==
    /\ client.state = "established"
    /\ ClientSends([kind |-> "fin", seq |-> Add(ClientIsn, 1 + RequestLen), ack |-> 0, part |-> 0])
    /\ UNCHANGED <<serverVars, faultVars, client, toClient>>

ClientAbort ==
    /\ client.state \in {"syn_sent", "established"}
    /\ client' = [client EXCEPT !.state = "aborted"]
    /\ ClientSends([kind |-> "rst", seq |-> Add(ClientIsn, 1 + RequestLen), ack |-> 0, part |-> 0])
    /\ UNCHANGED <<serverVars, faultVars, toClient>>

-----------------------------------------------------------------------------

Server ==
    \/ \E p \in toServer : HandleRst(p) \/ HandleSyn(p) \/ HandleAck(p) \/ HandleFin(p)
    \/ Retransmit \/ RetransmitFails \/ GiveUp \/ CleanupStale

Peer ==
    \/ ClientConnect \/ ClientFin \/ ClientAbort
    \/ \E k \in Parts : ClientSendPart(k)
    \/ \E f \in toClient : ClientEstablish(f) \/ ClientReceive(f)

Next == Server \/ Peer

Spec == Init /\ [][Next]_vars

(* While it runs, the server loop looks at the timers every 20 ms, once the *)
(* packets that have arrived are handled: the receive loop is assumed to    *)
(* drain.  Nothing else is assumed of the network or of the client.         *)
FairSpec == Spec /\ WF_vars(Retransmit) /\ WF_vars(GiveUp)

-----------------------------------------------------------------------------
(* Properties. *)

TypeOK ==
    /\ conn \in Connection
    /\ connCounter \in 0..MaxConns
    /\ conn.index <= connCounter
    /\ failed \subseteq 1..connCounter
    /\ cut \subseteq 1..connCounter
    /\ faults \in 0..MaxFaults
    /\ loop \in InHandler \cup InTimer
    /\ client \in Client
    /\ toServer \subseteq Packet
    /\ toClient \subseteq Frame

(* The connection the server keeps is the one the client is on, and it has  *)
(* not given up.                                                            *)
Shared ==
    /\ Connected /\ conn.index \notin failed
    /\ client.state = "established" /\ client.irs = Isn[conn.index]

(* Every number the connection has used up is the client's already, or that *)
(* of a frame in the store.                                                 *)
ReadOrStored ==
    \A n \in 1..Offset(conn.index, conn.seq) - 1 :
        \/ n < Offset(conn.index, client.nxt)
        \/ \E f \in Stored : Offset(conn.index, f.seq) = n

(* On a shared connection no segment and no FIN is forgotten before the     *)
(* client has it: not when the number wraps, not by a late or a duplicate   *)
(* ACK, not by a send that fails, as long as none broke the response off.   *)
(* (That a stored frame is sent again is another matter: not once the       *)
(* client has closed its side.)                                             *)
ForgottenWasReceived ==
    Shared /\ conn.index \notin cut => ReadOrStored

(* A connection's egress is a function of its connection: however often the *)
(* request is repeated, whatever is acknowledged, resent or broken off, and *)
(* in whatever order, a sequence number stands for one frame, with one      *)
(* content and one acknowledgment number; and unless the response has been  *)
(* broken off, there is one response and one FIN.                           *)
OneEgress ==
    \A f, g \in toClient :
        f.index = g.index /\ f.kind # "ack" /\ g.kind # "ack" =>
            /\ f.seq = g.seq => f = g
            /\ f.kind = g.kind /\ f.pos = g.pos /\ f.index \notin cut => f = g

(* What the hash that deterministic_isn is makes near certain, and nothing  *)
(* in the code checks: the numbers of a connection's responses, of which    *)
(* there is one more than sends have failed, are fewer than half the space, *)
(* and not those of another connection.                                     *)
Reach == (MaxFaults + 1) * MaxResponse + 1

ResponsesFit == Reach < SeqSpace \div 2

Window(i) == {Add(Isn[i], k) : k \in 0..Reach}

IsnsApart ==
    /\ ResponsesFit
    /\ \A i, j \in 1..MaxConns : i # j => Window(i) \cap Window(j) = {}

(* The client reads a prefix of one response, in order, and the end of the  *)
(* stream only after a last segment: no stream is cut short, or continued   *)
(* by another connection of the same address.  Only on a connection whose   *)
(* response was broken off may another follow, and only a complete one.     *)
Stream == INSTANCE ResponseStream WITH
    got <- client.got,
    eof <- client.eof,
    broken <- \E i \in cut : client.irs = Isn[i]

DeliversPrefix == Stream!Spec

(* Retransmission ends: a connection does not owe frames for ever, even if  *)
(* the client keeps sending, or is gone.                                    *)
RetransmissionEnds == []<>~Owes
=============================================================================
