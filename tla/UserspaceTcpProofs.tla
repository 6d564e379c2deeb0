------------------------- MODULE UserspaceTcpProofs -------------------------
(***************************************************************************)
(* Proofs about UserspaceTcp.  Types are proved for every value of the     *)
(* constants; what the server sends, for responses that fit in half the    *)
(* sequence space (ResponsesFit); what a client gets of it, for initial    *)
(* sequence numbers that keep the connections apart (IsnsApart).           *)
(***************************************************************************)
EXTENDS UserspaceTcp, SequenceTheorems, TLAPS

-----------------------------------------------------------------------------
(* The inductive invariants *)

IsData(f) == f.kind = "data"
IsFin(f) == f.kind = "fin"

\* A frame that carries sequence space after the SYN-ACK, and its place there.
Carries(f) == IsData(f) \/ IsFin(f)
Num(f) == Offset(f.index, f.seq)

\* What has been sent, and what is stored, sent or not.
Frames == toClient \cup Stored

\* TypeOK, a segment names its response, and so does one that is yet to be sent.
TypeInv ==
    /\ TypeOK
    /\ \A f \in Frames : IsData(f) => f.resp \in Parts

\* A frame of the first n connections, those of B with a broken-off response.
FrameOk(f, n, B) ==
    /\ f \in Frame
    /\ f.index <= n
    /\ f.kind = "synack" => f.seq = Isn[f.index]
    /\ IsData(f) => /\ f.resp \in Parts
                    /\ f.pos \in 1 .. ResponseLen[f.resp]
                    /\ Num(f) \in 1 .. Reach - 1
                    /\ Num(f) = 1 \/ f.index \notin B => f.pos = Num(f)
    /\ IsFin(f) => Num(f) \in 2 .. Reach

\* Segment f is the last of its response.
LastOf(f) == f.pos = ResponseLen[f.resp]

\* What may come next after segment f.
Follows(f, g, B) ==
    \/ IsData(g) /\ g.resp = f.resp /\ g.pos = f.pos + 1
    \/ LastOf(f) /\ (IsFin(g) \/ (IsData(g) /\ g.pos = 1 /\ f.index \in B))

\* Two frames of a connection: one number, one frame; one FIN; segments in order.
PairOk(f, g, B) ==
    f.index = g.index /\ f.kind # "ack" /\ g.kind # "ack" =>
        /\ f.seq = g.seq => f = g
        /\ IsFin(f) /\ IsFin(g) => f = g
        /\ Carries(f) /\ Carries(g) /\ Num(g) = Num(f) + 1 => IsData(f) /\ Follows(f, g, B)

FramesOk(F, n, B) ==
    /\ \A f \in F : FrameOk(f, n, B)
    /\ \A f, g \in F : PairOk(f, g, B)

FrameInv == FramesOk(Frames, connCounter, cut)

\* The numbers of the connection that are used up, and what they were used for.
Used == Offset(conn.index, conn.seq) - 1

StoreInv ==
    /\ \A f \in conn.unacked : IsData(f) /\ f.index = conn.index
    /\ \A f \in conn.fin : IsFin(f) /\ f.index = conn.index
    /\ Connected /\ ~conn.responded =>
          /\ Used \in 0 .. faults * MaxResponse
          /\ conn.index \notin cut => Used = 0
          /\ \A f \in Frames : Carries(f) /\ f.index = conn.index =>
                /\ IsData(f) /\ Num(f) <= Used
                /\ Num(f) = Used => LastOf(f) /\ f.index \in cut
    /\ \A f \in Frames : IsFin(f) /\ f.index = conn.index => conn.finSeq = {f.seq}

EgressInv == TypeInv /\ FrameInv /\ StoreInv

-----------------------------------------------------------------------------

\* What the client has taken of the sequence space of its connection.
Read == Len(client.got) + (IF client.eof THEN 1 ELSE 0)

\* The client is on connection j, and has read up to a segment of it.
ClientOn(j) ==
    /\ client.irs = Isn[j]
    /\ Read <= Reach
    /\ Offset(j, client.nxt) = 1 + Read
    /\ client.got = <<>> => ~client.eof
    /\ client.got # <<>> => \E g \in toClient :
          /\ IsData(g) /\ g.index = j /\ Num(g) = Len(client.got)
          /\ Stream!Last = [resp |-> g.resp, pos |-> g.pos]
          /\ client.eof => LastOf(g)
    /\ \A p \in toServer : p.kind = "ack" => Offset(j, p.ack) \in 1 .. 1 + Read

ClientInv ==
    /\ client.state \in {"closed", "syn_sent"} =>
          /\ \A p \in toServer : p.kind # "ack"
          /\ \A f \in Frames : ~Carries(f)
          /\ cut = {}
          /\ Connected => Offset(conn.index, conn.seq) = 1
          /\ client.got = <<>> /\ ~client.eof
    /\ client.state = "established" => \E j \in 1 .. connCounter : ClientOn(j)

IInv == EgressInv /\ ClientInv /\ ForgottenWasReceived

-----------------------------------------------------------------------------
(* Sequence numbers *)

LEMMA ModIs ==
  ASSUME NEW S \in Nat \ {0}, NEW a \in Int, NEW q \in Int, NEW r \in 0 .. S - 1, a = q * S + r
  PROVE  a % S = r
OBVIOUS

LEMMA ModHas ==
  ASSUME NEW S \in Nat \ {0}, NEW a \in Nat
  PROVE  a % S \in 0 .. S - 1 /\ \E q \in Int : a = q * S + (a % S)
<1>1. a = S * (a \div S) + (a % S) /\ a \div S \in Int
  OBVIOUS
<1>2. a = (a \div S) * S + (a % S)
  BY <1>1
<1>3. a % S \in 0 .. S - 1
  OBVIOUS
<1>. QED
  BY <1>1, <1>2, <1>3

LEMMA Distribute ==
  ASSUME NEW S \in Int, NEW q \in Int, NEW p \in Int
  PROVE  (q + p) * S = q * S + p * S /\ (q - p) * S = q * S - p * S /\ (q + 1) * S = q * S + S
OBVIOUS

LEMMA ModAdd ==
  ASSUME NEW S \in Nat \ {0}, NEW a \in Nat, NEW n \in Nat
  PROVE  ((a % S) + n) % S = (a + n) % S
<1>1. PICK q \in Int : a = q * S + (a % S)
  BY ModHas
<1>2. a % S \in 0 .. S - 1 /\ (a % S) + n \in Nat
  <2>1. a % S \in 0 .. S - 1
    BY ModHas
  <2>. QED
    BY <2>1
<1>. DEFINE x == a % S
            y == (x + n) % S
<1>3. y \in 0 .. S - 1 /\ \E p \in Int : x + n = p * S + y
  BY <1>2, ModHas
<1>4. PICK p \in Int : x + n = p * S + y
  BY <1>3
<1>5. a = q * S + x /\ x \in 0 .. S - 1
  BY <1>1, <1>2
<1>. HIDE DEF x, y
<1>6. a + n = (q * S + p * S) + y
  <2>1. q * S \in Int /\ p * S \in Int
    OBVIOUS
  <2>. QED
    BY <1>3, <1>4, <1>5, <2>1
<1>7. a + n = (q + p) * S + y
  BY <1>6, Distribute
<1>8. a + n \in Int /\ q + p \in Int /\ y \in 0 .. S - 1
  BY <1>3
<1>9. (a + n) % S = y
  BY <1>7, <1>8, ModIs
<1>. QED
  BY <1>9 DEF x, y

LEMMA AddType ==
  ASSUME NEW a \in Nat, NEW n \in Nat
  PROVE  Add(a, n) \in SeqNos /\ Add(a, n) \in Nat
<1>1. SeqSpace \in Nat \ {0} /\ a + n \in Nat
  BY TcpAssumption
<1>2. Add(a, n) \in 0 .. SeqSpace - 1
  BY <1>1, ModHas DEF Add
<1>. QED
  BY <1>1, <1>2 DEF SeqNos

LEMMA AddAdd ==
  ASSUME NEW a \in Nat, NEW m \in Nat, NEW n \in Nat
  PROVE  Add(Add(a, m), n) = Add(a, m + n)
<1>1. SeqSpace \in Nat \ {0} /\ a + m \in Nat /\ (a + m) + n = a + (m + n)
  BY TcpAssumption
<1>2. (((a + m) % SeqSpace) + n) % SeqSpace = ((a + m) + n) % SeqSpace
  BY <1>1, ModAdd
<1>. QED
  BY <1>1, <1>2 DEF Add

\* The difference of two numbers of a connection, as the 32-bit subtraction has it.
LEMMA ModDifference ==
  ASSUME NEW S \in Nat \ {0}, NEW a \in Nat, NEW b \in Nat, a - b < S, b - a < S
  PROVE  ((b % S) + S - (a % S)) % S = IF a <= b THEN b - a ELSE S - (a - b)
<1>1. PICK q \in Int : a = q * S + (a % S)
  BY ModHas
<1>2. PICK p \in Int : b = p * S + (b % S)
  BY ModHas
<1>. DEFINE x == a % S
            y == b % S
<1>3. /\ a = q * S + x /\ x \in 0 .. S - 1
      /\ b = p * S + y /\ y \in 0 .. S - 1
  BY <1>1, <1>2, ModHas
<1>. HIDE DEF x, y
<1>4. q * S \in Int /\ p * S \in Int /\ (q - p) * S = q * S - p * S
      /\ ((q - p) + 1) * S = (q - p) * S + S /\ q - p \in Int /\ (q - p) + 1 \in Int
  BY Distribute
<1>5. CASE a <= b
  <2>1. b - a \in 0 .. S - 1
    BY <1>5
  <2>2. y + S - x = ((q - p) + 1) * S + (b - a) /\ y + S - x \in Int
    BY <1>3, <1>4
  <2>3. (y + S - x) % S = b - a
    BY <1>4, <2>1, <2>2, ModIs
  <2>. QED
    BY <1>5, <2>3 DEF x, y
<1>6. CASE ~(a <= b)
  <2>1. S - (a - b) \in 0 .. S - 1
    BY <1>6
  <2>2. y + S - x = (q - p) * S + (S - (a - b)) /\ y + S - x \in Int
    BY <1>3, <1>4
  <2>3. (y + S - x) % S = S - (a - b)
    BY <1>4, <2>1, <2>2, ModIs
  <2>. QED
    BY <1>6, <2>3 DEF x, y
<1>. QED
  BY <1>5, <1>6

LEMMA Difference ==
  ASSUME NEW a \in Nat, NEW m \in Nat, NEW n \in Nat, m - n < SeqSpace, n - m < SeqSpace
  PROVE  (Add(a, n) + SeqSpace - Add(a, m)) % SeqSpace
            = IF m <= n THEN n - m ELSE SeqSpace - (m - n)
<1>1. SeqSpace \in Nat \ {0} /\ a + m \in Nat /\ a + n \in Nat
      /\ (a + m) - (a + n) < SeqSpace /\ (a + n) - (a + m) < SeqSpace
  BY TcpAssumption
<1>2. (((a + n) % SeqSpace) + SeqSpace - ((a + m) % SeqSpace)) % SeqSpace
         = IF a + m <= a + n THEN (a + n) - (a + m) ELSE SeqSpace - ((a + m) - (a + n))
  BY <1>1, ModDifference
<1>3. (a + m <= a + n <=> m <= n) /\ (a + n) - (a + m) = n - m /\ (a + m) - (a + n) = m - n
  OBVIOUS
<1>. QED
  BY <1>2, <1>3 DEF Add

(* _seq_lte agrees with the order of the numbers of a connection, across    *)
(* the wrap, as long as they are less than half the space apart.            *)
LEMMA SeqLteIsOrder ==
  ASSUME NEW a \in Nat, NEW m \in Nat, NEW n \in Nat,
         m - n < SeqSpace \div 2, n - m < SeqSpace \div 2
  PROVE  SeqLte(Add(a, m), Add(a, n)) <=> m <= n
<1>. SeqSpace \in Nat \ {0}
  BY TcpAssumption
<1>1. /\ SeqSpace \div 2 \in Nat /\ SeqSpace - SeqSpace \div 2 >= SeqSpace \div 2
      /\ SeqSpace \div 2 <= SeqSpace
  OBVIOUS
<1>2. (Add(a, n) + SeqSpace - Add(a, m)) % SeqSpace
            = IF m <= n THEN n - m ELSE SeqSpace - (m - n)
  BY <1>1, Difference
<1>. QED
  BY <1>1, <1>2 DEF SeqLte


\* A multiple of a number grows with the factor.
LEMMA MultipleGrows ==
  ASSUME NEW M \in Nat, NEW a \in Nat, NEW b \in Nat, a <= b
  PROVE  a * M \in Nat /\ a * M <= b * M /\ (a + 1) * M = a * M + M
<1>1. b - a \in Nat /\ b = a + (b - a)
  OBVIOUS
<1>2. (a + (b - a)) * M = a * M + (b - a) * M /\ (a + 1) * M = a * M + M
  BY <1>1, Distribute
<1>3. a * M \in Nat /\ (b - a) * M \in Nat
  BY <1>1
<1>. QED
  BY <1>1, <1>2, <1>3

-----------------------------------------------------------------------------
(* Constants, and numbers counted from a connection's ISN *)

LEMMA Constants ==
  /\ SeqNos \subseteq Nat /\ ClientIsn \in SeqNos /\ 0 \in SeqNos
  /\ MaxConns \in Nat \ {0} /\ MaxRetransmits \in Nat /\ RequestLen \in Nat \ {0}
  /\ MaxResponse \in Nat \ {0} /\ MaxFaults \in Nat
  /\ \A i \in 1 .. MaxConns : Isn[i] \in SeqNos
  /\ \A part \in Parts : ResponseLen[part] \in Nat \ {0} /\ ResponseLen[part] <= MaxResponse
BY TcpAssumption DEF SeqNos, Parts

\* The number of sends that may fail bounds the numbers of a connection.
LEMMA ReachIs ==
  /\ Reach \in Nat /\ Reach >= 2
  /\ \A n \in 0 .. MaxFaults : n * MaxResponse \in Nat /\ n * MaxResponse + MaxResponse <= Reach - 1
  /\ \A n \in 0 .. MaxFaults : (n + 1) * MaxResponse = n * MaxResponse + MaxResponse
  /\ ResponsesFit => SeqSpace \div 2 \in Nat /\ Reach < SeqSpace \div 2 /\ Reach + 1 < SeqSpace
<1>1. MaxResponse \in Nat /\ MaxResponse >= 1 /\ MaxFaults \in Nat /\ SeqSpace \in Nat \ {0}
  BY TcpAssumption
<1>2. ASSUME NEW n \in 0 .. MaxFaults
      PROVE  /\ n * MaxResponse \in Nat /\ (n + 1) * MaxResponse = n * MaxResponse + MaxResponse
             /\ n * MaxResponse + MaxResponse <= (MaxFaults + 1) * MaxResponse
             /\ (MaxFaults + 1) * MaxResponse \in Nat
  <2>1. n \in Nat /\ n + 1 \in Nat /\ MaxFaults + 1 \in Nat /\ n + 1 <= MaxFaults + 1 /\ n <= n + 1
        /\ MaxFaults + 1 <= MaxFaults + 1
    BY <1>1
  <2>2. (n + 1) * MaxResponse <= (MaxFaults + 1) * MaxResponse
    BY <1>1, <2>1, MultipleGrows
  <2>3. n * MaxResponse \in Nat /\ (n + 1) * MaxResponse = n * MaxResponse + MaxResponse
    BY <1>1, <2>1, MultipleGrows
  <2>4. (MaxFaults + 1) * MaxResponse \in Nat
    BY <1>1, <2>1, MultipleGrows
  <2>. QED
    BY <2>2, <2>3, <2>4
<1>3. (MaxFaults + 1) * MaxResponse \in Nat /\ 0 * MaxResponse + MaxResponse <= (MaxFaults + 1) * MaxResponse
      /\ 0 * MaxResponse = 0
  BY <1>1, <1>2
<1>4. Reach = (MaxFaults + 1) * MaxResponse + 1
  BY DEF Reach
<1>. DEFINE D == (MaxFaults + 1) * MaxResponse
<1>5. D \in Nat /\ D >= 1 /\ Reach = D + 1
  BY <1>1, <1>3, <1>4
<1>6. \A n \in 0 .. MaxFaults : /\ n * MaxResponse \in Nat /\ n * MaxResponse + MaxResponse <= D
                               /\ (n + 1) * MaxResponse = n * MaxResponse + MaxResponse
  BY <1>2
<1>. HIDE DEF D
<1>7. ResponsesFit => SeqSpace \div 2 \in Nat /\ Reach < SeqSpace \div 2 /\ Reach + 1 < SeqSpace
  BY <1>1, <1>5 DEF ResponsesFit
<1>. QED
  BY <1>5, <1>6, <1>7

LEMMA OffsetIs ==
  ASSUME NEW i \in 1 .. MaxConns, NEW s \in SeqNos
  PROVE  Offset(i, s) \in 0 .. SeqSpace - 1 /\ Offset(i, s) \in Nat /\ s = Add(Isn[i], Offset(i, s))
<1>. DEFINE a == Isn[i]
<1>1. /\ SeqSpace \in Nat \ {0} /\ a \in Nat /\ a < SeqSpace /\ s \in 0 .. SeqSpace - 1
      /\ s + SeqSpace - a \in Nat
  BY TcpAssumption, Constants DEF SeqNos
<1>. HIDE DEF a
<1>2. Offset(i, s) = (s + SeqSpace - a) % SeqSpace
  BY DEF Offset, a
<1>3. (s + SeqSpace - a) % SeqSpace \in 0 .. SeqSpace - 1
  BY <1>1, ModHas
<1>4. (((s + SeqSpace - a) % SeqSpace) + a) % SeqSpace = ((s + SeqSpace - a) + a) % SeqSpace
  BY <1>1, ModAdd
<1>5. ((s + SeqSpace - a) + a) % SeqSpace = s
  <2>1. (s + SeqSpace - a) + a = 1 * SeqSpace + s /\ 1 \in Int
    BY <1>1
  <2>2. (s + SeqSpace - a) + a \in Int
    BY <1>1
  <2>. QED
    BY <1>1, <2>1, <2>2, ModIs
<1>6. ((s + SeqSpace - a) % SeqSpace) + a = a + ((s + SeqSpace - a) % SeqSpace)
  BY <1>1, <1>3
<1>. QED
  BY <1>2, <1>3, <1>4, <1>5, <1>6 DEF Add, a

LEMMA OffsetOf ==
  ASSUME NEW i \in 1 .. MaxConns, NEW n \in Nat, n < SeqSpace
  PROVE  Offset(i, Add(Isn[i], n)) = n
<1>1. SeqSpace \in Nat \ {0} /\ Isn[i] \in Nat /\ Isn[i] \in 0 .. SeqSpace - 1
  BY TcpAssumption, Constants DEF SeqNos
<1>2. Add(Isn[i], 0) = Isn[i]
  <2>1. Isn[i] + 0 = 0 * SeqSpace + Isn[i] /\ Isn[i] + 0 \in Int /\ 0 \in Int
    BY <1>1
  <2>2. (Isn[i] + 0) % SeqSpace = Isn[i]
    BY <1>1, <2>1, ModIs
  <2>. QED
    BY <2>2 DEF Add
<1>3. (Add(Isn[i], n) + SeqSpace - Add(Isn[i], 0)) % SeqSpace = IF 0 <= n THEN n - 0 ELSE SeqSpace - (0 - n)
  <2>1. 0 - n < SeqSpace /\ n - 0 < SeqSpace /\ 0 \in Nat
    BY <1>1
  <2>. QED
    BY <1>1, <2>1, Difference
<1>. QED
  BY <1>2, <1>3 DEF Offset

LEMMA OffsetAdd ==
  ASSUME NEW i \in 1 .. MaxConns, NEW s \in SeqNos, NEW k \in Nat, Offset(i, s) + k < SeqSpace
  PROVE  Offset(i, Add(s, k)) = Offset(i, s) + k
<1>. DEFINE o == Offset(i, s)
<1>1. o \in Nat /\ s = Add(Isn[i], o) /\ o + k \in Nat /\ o + k < SeqSpace
  BY OffsetIs
<1>4. Isn[i] \in Nat
  BY Constants
<1>. HIDE DEF o
<1>2. Add(Add(Isn[i], o), k) = Add(Isn[i], o + k)
  BY <1>1, <1>4, AddAdd
<1>3. Offset(i, Add(Isn[i], o + k)) = o + k
  BY <1>1, OffsetOf
<1>. QED
  BY <1>1, <1>2, <1>3 DEF o

LEMMA OffsetInjective ==
  ASSUME NEW i \in 1 .. MaxConns, NEW s \in SeqNos, NEW t \in SeqNos, Offset(i, s) = Offset(i, t)
  PROVE  s = t
BY OffsetIs

LEMMA OffsetIsn ==
  ASSUME NEW i \in 1 .. MaxConns
  PROVE  Offset(i, Isn[i]) = 0
<1>1. SeqSpace \in Nat \ {0} /\ Isn[i] \in 0 .. SeqSpace - 1
  BY TcpAssumption, Constants DEF SeqNos
<1>2. Isn[i] + SeqSpace - Isn[i] = 1 * SeqSpace + 0 /\ 1 \in Int /\ 0 \in 0 .. SeqSpace - 1
      /\ Isn[i] + SeqSpace - Isn[i] \in Int
  BY <1>1
<1>. QED
  BY <1>1, <1>2, ModIs DEF Offset

\* What _seq_lte says of a connection's numbers.
LEMMA SeqLteByOffset ==
  ASSUME ResponsesFit, NEW i \in 1 .. MaxConns, NEW s \in SeqNos, NEW t \in SeqNos,
         Offset(i, s) \in 1 .. Reach + 1, Offset(i, t) \in 1 .. Reach + 1
  PROVE  SeqLte(s, t) <=> Offset(i, s) <= Offset(i, t)
<1>. DEFINE m == Offset(i, s)
            n == Offset(i, t)
<1>1. m \in Nat /\ n \in Nat /\ s = Add(Isn[i], m) /\ t = Add(Isn[i], n)
  BY OffsetIs
<1>4. Isn[i] \in Nat
  BY Constants
<1>2. m - n < SeqSpace \div 2 /\ n - m < SeqSpace \div 2
  BY <1>1, ReachIs
<1>. HIDE DEF m, n
<1>3. SeqLte(Add(Isn[i], m), Add(Isn[i], n)) <=> m <= n
  BY <1>1, <1>4, <1>2, SeqLteIsOrder
<1>. QED
  BY <1>1, <1>3 DEF m, n

-----------------------------------------------------------------------------
(* Types *)

\* After an acknowledgement the connection keeps its identity and numbers.
LEMMA AfterAckIs ==
  ASSUME TypeInv, NEW ack
  PROVE  /\ AfterAck(ack) \in Connection
         /\ AfterAck(ack).index = conn.index /\ AfterAck(ack).seq = conn.seq
         /\ AfterAck(ack).responded = conn.responded /\ AfterAck(ack).finSeq = conn.finSeq
         /\ AfterAck(ack).unacked = Outstanding(ack)
         /\ AfterAck(ack).fin = IF \E n \in conn.finSeq : SeqLte(Add(n, 1), ack) THEN {} ELSE conn.fin
<1>1. conn \in Connection /\ Outstanding(ack) \subseteq conn.unacked /\ 0 \in 0 .. MaxRetransmits
  BY Constants DEF TypeInv, TypeOK, Outstanding
<1>. QED
  BY <1>1 DEF AfterAck, Connection

\* A connection as a SYN makes it.
NewConn(i, seq, ack) ==
    [NoConn EXCEPT !.index = i, !.state = "SYN_RECEIVED", !.seq = seq, !.ack = ack]

LEMMA NewConnection ==
  ASSUME NEW i \in 1 .. MaxConns, NEW seq \in SeqNos, NEW ack \in SeqNos
  PROVE  /\ NewConn(i, seq, ack) \in Connection
         /\ NewConn(i, seq, ack).index = i /\ NewConn(i, seq, ack).seq = seq
         /\ NewConn(i, seq, ack).unacked = {} /\ NewConn(i, seq, ack).fin = {}
         /\ NewConn(i, seq, ack).finSeq = {} /\ ~NewConn(i, seq, ack).responded
<1>. 0 \in 0 .. MaxRetransmits /\ i \in 0 .. MaxConns
  BY Constants
<1>. QED
  BY DEF NewConn, NoConn, Connection

\* What a response is made of.
LEMMA ResponseType ==
  ASSUME NEW c \in Connection, c.index \in 1 .. MaxConns, NEW part \in Parts
  PROVE  /\ Segments(c, part, ResponseLen[part]) \subseteq Frame /\ FinFrame(c, part) \in Frame
         /\ \A k \in 0 .. ResponseLen[part] :
               Segments(c, part, k) \subseteq Segments(c, part, ResponseLen[part])
         /\ FinSeq(c, part) \in SeqNos
         /\ \A n \in Nat : Add(c.seq, n) \in SeqNos
         /\ \A f \in Segments(c, part, ResponseLen[part]) :
               IsData(f) /\ f.resp = part /\ f.index = c.index
         /\ IsFin(FinFrame(c, part)) /\ FinFrame(c, part).index = c.index
<1>1. c.seq \in SeqNos /\ c.seq \in Nat /\ c.ack \in SeqNos /\ ResponseLen[part] \in Nat
  BY Constants DEF Connection
<1>2. \A n \in Nat : Add(c.seq, n) \in SeqNos
  BY <1>1, AddType
<1>3. Segments(c, part, ResponseLen[part]) \subseteq Frame
  <2>1. \A i \in 1 .. ResponseLen[part] : i \in Nat /\ i - 1 \in Nat
    BY <1>1
  <2>. QED
    BY <1>1, <1>2, <2>1 DEF Segments, Frame
<1>4. \A k \in 0 .. ResponseLen[part] :
         Segments(c, part, k) \subseteq Segments(c, part, ResponseLen[part])
  <2>1. \A k \in 0 .. ResponseLen[part] : \A i \in 1 .. k : i \in 1 .. ResponseLen[part]
    BY <1>1
  <2>. QED
    BY <2>1 DEF Segments
<1>. QED
  BY <1>1, <1>2, <1>3, <1>4 DEF Segments, FinFrame, FinSeq, Frame, IsData, IsFin

\* A handler or a timer that starts no connection and no response: of what
\* the server keeps, some is forgotten, and what it sends is stored or an ACK.
Quiet ==
    /\ \/ conn' = NoConn
       \/ /\ conn' \in Connection
          /\ conn'.index = conn.index /\ conn'.seq = conn.seq
          /\ conn'.responded = conn.responded /\ conn'.finSeq = conn.finSeq
          /\ conn'.unacked \subseteq conn.unacked /\ conn'.fin \subseteq conn.fin
    /\ toClient \subseteq toClient'
    /\ \A f \in toClient' : \/ f \in Frames
                            \/ f \in Frame /\ f.kind = "ack" /\ f.index <= connCounter
    /\ failed' \subseteq 1 .. connCounter
    /\ faults' \in 0 .. MaxFaults /\ faults <= faults' /\ loop' \in InHandler \cup InTimer
    /\ UNCHANGED <<connCounter, cut, client, toServer>>

\* A send that succeeds or fails.
LEMMA SendIs ==
  ASSUME TypeInv
  PROVE  /\ UNCHANGED faultVars => /\ faults' \in 0 .. MaxFaults /\ faults <= faults'
                                   /\ loop' \in InHandler \cup InTimer /\ UNCHANGED cut
         /\ Raises(InHandler) \/ Raises(InTimer) =>
                /\ faults' \in 0 .. MaxFaults /\ faults' = faults + 1 /\ faults <= faults'
                /\ loop' \in InHandler \cup InTimer
<1>1. faults \in 0 .. MaxFaults /\ MaxFaults \in Nat /\ loop \in InHandler \cup InTimer
  BY Constants DEF TypeInv, TypeOK
<1>. QED
  BY <1>1 DEF faultVars, Raises

LEMMA ConnIs ==
  ASSUME TypeInv
  PROVE  /\ conn \in Connection /\ conn.unacked \cup conn.fin = Stored /\ connCounter \in Nat
         /\ NoConn \in Connection /\ NoConn.index = 0 /\ NoConn.unacked = {} /\ NoConn.fin = {}
         /\ Connected => conn.index \in 1 .. MaxConns /\ conn.index \in 1 .. connCounter
         /\ Frames \subseteq Frame /\ Stored \subseteq Frames /\ toClient \subseteq Frames
         /\ \A p \in toServer : p \in Packet /\ p.seq \in Nat /\ Add(p.seq, 1) \in SeqNos
<1>. USE DEF TypeInv, TypeOK
<1>1. NoConn \in Connection /\ NoConn.index = 0 /\ NoConn.unacked = {} /\ NoConn.fin = {}
  BY Constants DEF NoConn, Connection
<1>2. \A p \in toServer : p \in Packet /\ p.seq \in Nat
  BY Constants DEF Packet
<1>3. \A p \in toServer : Add(p.seq, 1) \in SeqNos
  BY <1>2, AddType
<1>4. conn \in Connection /\ connCounter \in Nat /\ conn.index \in 0 .. MaxConns
      /\ conn.index <= connCounter /\ connCounter <= MaxConns
  BY Constants DEF Connection
<1>5. Connected => conn.index \in 1 .. MaxConns /\ conn.index \in 1 .. connCounter
  BY <1>4, Constants DEF Connected
<1>6. Frames \subseteq Frame
  BY <1>4 DEF Frames, Stored, Connection
<1>. QED
  BY <1>1, <1>2, <1>3, <1>4, <1>5, <1>6 DEF Frames, Stored

LEMMA QuietServer ==
  ASSUME TypeInv, Server
  PROVE  \/ Quiet
         \/ \E p \in toServer : HandleSyn(p) \/ (HandleAck(p) /\ Answers(p))
<1>1. /\ conn \in Connection /\ NoConn \in Connection
      /\ Connected => conn.index \in 1 .. MaxConns /\ conn.index \in 1 .. connCounter
      /\ toClient \subseteq Frames /\ Stored \subseteq Frames /\ connCounter \in Nat
      /\ \A p \in toServer : Add(p.seq, 1) \in SeqNos
      /\ failed \subseteq 1 .. connCounter
  BY ConnIs DEF TypeInv, TypeOK
<1>2. ASSUME NEW p \in toServer, HandleRst(p) PROVE Quiet
  BY <1>1, <1>2, SendIs DEF HandleRst, Quiet, faultVars
<1>3. ASSUME NEW p \in toServer, HandleAck(p), ~Answers(p) PROVE Quiet
  <2>1. conn' = AfterAck(p.ack) /\ UNCHANGED <<connCounter, failed, client, toServer, toClient, faultVars>>
    BY <1>3 DEF HandleAck
  <2>2. /\ AfterAck(p.ack) \in Connection /\ AfterAck(p.ack).index = conn.index
        /\ AfterAck(p.ack).seq = conn.seq /\ AfterAck(p.ack).responded = conn.responded
        /\ AfterAck(p.ack).finSeq = conn.finSeq
        /\ AfterAck(p.ack).unacked \subseteq conn.unacked /\ AfterAck(p.ack).fin \subseteq conn.fin
    BY AfterAckIs DEF Outstanding
  <2>. QED
    BY <1>1, <2>1, <2>2, SendIs DEF Quiet, faultVars
<1>4. ASSUME NEW p \in toServer, HandleFin(p) PROVE Quiet
  <2>1. /\ conn' \in Connection
        /\ conn'.index = conn.index /\ conn'.seq = conn.seq
        /\ conn'.responded = conn.responded /\ conn'.finSeq = conn.finSeq
        /\ conn'.unacked \subseteq conn.unacked /\ conn'.fin \subseteq conn.fin
    BY <1>1, <1>4 DEF HandleFin, Connection
  <2>2. FinAck(p) \in Frame /\ FinAck(p).kind = "ack" /\ FinAck(p).index <= connCounter
    BY <1>1, <1>4 DEF HandleFin, FinAck, Connection, Frame
  <2>3. UNCHANGED <<connCounter, failed, client, toServer>>
    BY <1>4 DEF HandleFin
  <2>4. CASE Sends({FinAck(p)})
    BY <1>1, <2>1, <2>2, <2>3, <2>4, SendIs DEF Sends, ServerSends, Quiet
  <2>5. CASE SendFails({})
    BY <1>1, <2>1, <2>3, <2>5, SendIs DEF SendFails, ServerSends, Quiet
  <2>. QED
    BY <1>4, <2>4, <2>5 DEF HandleFin
<1>5. ASSUME conn' = [conn EXCEPT !.count = @ + 1], conn.count < MaxRetransmits
      PROVE  /\ conn' \in Connection
             /\ conn'.index = conn.index /\ conn'.seq = conn.seq
             /\ conn'.responded = conn.responded /\ conn'.finSeq = conn.finSeq
             /\ conn'.unacked \subseteq conn.unacked /\ conn'.fin \subseteq conn.fin
  <2>1. conn.count + 1 \in 0 .. MaxRetransmits
    BY <1>1, <1>5, Constants DEF Connection
  <2>. QED
    BY <1>1, <1>5, <2>1 DEF Connection
<1>6. CASE Retransmit
  BY <1>1, <1>5, <1>6, SendIs DEF Retransmit, Sends, ServerSends, Quiet
<1>7. CASE RetransmitFails
  <2>1. toClient \subseteq toClient' /\ toClient' \subseteq toClient \cup Stored
    BY <1>7 DEF RetransmitFails, ServerSends, Before
  <2>. QED
    BY <1>1, <1>5, <1>7, <2>1, SendIs DEF RetransmitFails, Quiet
<1>8. CASE GiveUp
  <2>1. /\ conn' \in Connection
        /\ conn'.index = conn.index /\ conn'.seq = conn.seq
        /\ conn'.responded = conn.responded /\ conn'.finSeq = conn.finSeq
        /\ conn'.unacked \subseteq conn.unacked /\ conn'.fin \subseteq conn.fin
    BY <1>1, <1>8 DEF GiveUp, Connection
  <2>2. failed' \subseteq 1 .. connCounter
    BY <1>1, <1>8 DEF GiveUp, Owes
  <2>. QED
    BY <1>1, <1>8, <2>1, <2>2, SendIs DEF GiveUp, Quiet, faultVars
<1>9. CASE CleanupStale
  BY <1>1, <1>9, SendIs DEF CleanupStale, Quiet, faultVars
<1>. QED
  BY <1>2, <1>3, <1>4, <1>6, <1>7, <1>8, <1>9 DEF Server

\* The response that a packet with payload gets, complete or broken off.
Answered(c, part) ==
    SendResponse(c, part) \/ \E k \in 1 .. ResponseLen[part] : BreakOff(c, part, k)

LEMMA AnswerIs ==
  ASSUME TypeInv, NEW p \in toServer, HandleAck(p), Answers(p)
  PROVE  /\ p.kind = "ack" /\ p.part \in Parts /\ Connected /\ ~conn.responded
         /\ UNCHANGED <<connCounter, failed, client, toServer>>
         /\ \E c \in Connection :
               /\ c.index = conn.index /\ c.seq = conn.seq /\ c.finSeq = conn.finSeq
               /\ c.responded = conn.responded
               /\ c.unacked \subseteq conn.unacked /\ c.fin \subseteq conn.fin
               /\ Answered(c, p.part)
<1>. DEFINE c == [AfterAck(p.ack) EXCEPT !.ack = Add(p.seq, 1)]
<1>1. p \in Packet /\ Add(p.seq, 1) \in SeqNos
  BY ConnIs
<1>2. /\ c \in Connection /\ c.index = conn.index /\ c.seq = conn.seq /\ c.finSeq = conn.finSeq
      /\ c.responded = conn.responded /\ c.unacked \subseteq conn.unacked /\ c.fin \subseteq conn.fin
  <2>1. /\ AfterAck(p.ack) \in Connection /\ AfterAck(p.ack).index = conn.index
        /\ AfterAck(p.ack).seq = conn.seq /\ AfterAck(p.ack).responded = conn.responded
        /\ AfterAck(p.ack).finSeq = conn.finSeq
        /\ AfterAck(p.ack).unacked \subseteq conn.unacked /\ AfterAck(p.ack).fin \subseteq conn.fin
    BY AfterAckIs DEF Outstanding
  <2>. QED
    BY <1>1, <2>1 DEF Connection
<1>3. Answered(c, p.part)
  BY DEF HandleAck, Answered
<1>4. p.part \in Parts /\ ~conn.responded
  BY <1>1 DEF Answers, Packet
<1>. HIDE DEF c
<1>. QED
  BY <1>2, <1>3, <1>4 DEF HandleAck

\* What a response leaves behind, when it is sent and when it is broken off.
LEMMA AnswerDoes ==
  ASSUME TypeInv, Connected, NEW c \in Connection, c.index = conn.index,
         NEW part \in Parts, Answered(c, part)
  PROVE  LET data == Segments(c, part, ResponseLen[part])
             fin == FinFrame(c, part)
         IN  /\ conn' \in Connection /\ conn'.index = conn.index
             /\ toClient \subseteq toClient'
             /\ faults' \in 0 .. MaxFaults /\ faults <= faults' /\ loop' \in InHandler \cup InTimer
             /\ \/ /\ conn'.responded /\ conn'.seq = Add(c.seq, ResponseLen[part] + 1)
                   /\ conn'.unacked = c.unacked \cup data
                   /\ conn'.fin = {fin} /\ conn'.finSeq = {FinSeq(c, part)}
                   /\ toClient' \subseteq toClient \cup data \cup {fin}
                   /\ UNCHANGED cut
                \/ /\ conn'.responded = c.responded /\ conn'.seq = Add(c.seq, ResponseLen[part])
                   /\ conn'.unacked \subseteq c.unacked \cup data
                   /\ conn'.fin = c.fin /\ conn'.finSeq = c.finSeq
                   /\ toClient' \subseteq toClient \cup data
                   /\ cut' = cut \cup {conn.index}
                   /\ faults' = faults + 1
<1>. DEFINE data == Segments(c, part, ResponseLen[part])
            fin == FinFrame(c, part)
<1>1. /\ data \subseteq Frame /\ fin \in Frame /\ FinSeq(c, part) \in SeqNos
      /\ \A k \in 0 .. ResponseLen[part] : Segments(c, part, k) \subseteq data
      /\ \A n \in Nat : Add(c.seq, n) \in SeqNos
      /\ ResponseLen[part] \in Nat /\ ResponseLen[part] + 1 \in Nat
  BY ConnIs, ResponseType, Constants
<1>. HIDE DEF data
<1>2. CASE SendResponse(c, part)
  <2>1. /\ conn' = [c EXCEPT !.state = "FIN_WAIT_1", !.seq = Add(c.seq, ResponseLen[part] + 1),
                             !.responded = TRUE, !.unacked = @ \cup data,
                             !.fin = {fin}, !.finSeq = {FinSeq(c, part)}]
        /\ Sends(data \cup {fin}) \/ SendFails(data)
    BY <1>2 DEF SendResponse, data
  <2>. HIDE DEF fin
  <2>2. /\ conn' \in Connection /\ conn'.index = conn.index
        /\ conn'.responded /\ conn'.seq = Add(c.seq, ResponseLen[part] + 1)
        /\ conn'.unacked = c.unacked \cup data
        /\ conn'.fin = {fin} /\ conn'.finSeq = {FinSeq(c, part)}
    BY <1>1, <2>1 DEF Connection
  <2>3. /\ toClient \subseteq toClient' /\ toClient' \subseteq toClient \cup data \cup {fin}
        /\ UNCHANGED cut
        /\ faults' \in 0 .. MaxFaults /\ faults <= faults' /\ loop' \in InHandler \cup InTimer
    BY <2>1, SendIs DEF Sends, SendFails, ServerSends
  <2>. QED
    BY <2>2, <2>3 DEF data, fin
<1>3. ASSUME NEW k \in 1 .. ResponseLen[part], BreakOff(c, part, k)
      PROVE  /\ conn' \in Connection /\ conn'.index = conn.index
             /\ toClient \subseteq toClient'
             /\ faults' \in 0 .. MaxFaults /\ faults <= faults' /\ loop' \in InHandler \cup InTimer
             /\ conn'.responded = c.responded /\ conn'.seq = Add(c.seq, ResponseLen[part])
             /\ conn'.unacked \subseteq c.unacked \cup data
             /\ conn'.fin = c.fin /\ conn'.finSeq = c.finSeq
             /\ toClient' \subseteq toClient \cup data
             /\ cut' = cut \cup {conn.index}
             /\ faults' = faults + 1
  <2>. DEFINE sent == Segments(c, part, k - 1)
              kept == Segments(c, part, k)
  <2>1. sent \subseteq data /\ kept \subseteq data
    <3>1. k \in 0 .. ResponseLen[part] /\ k - 1 \in 0 .. ResponseLen[part]
      BY <1>1
    <3>. QED
      BY <1>1, <3>1
  <2>2. /\ conn' = [c EXCEPT !.seq = Add(c.seq, ResponseLen[part]), !.unacked = @ \cup kept]
        /\ cut' = cut \cup {c.index} /\ Raises(InHandler) /\ toClient' = toClient \cup sent
    BY <1>3 DEF BreakOff, ServerSends
  <2>. HIDE DEF sent, kept
  <2>3. kept \subseteq Frame /\ Add(c.seq, ResponseLen[part]) \in SeqNos
    BY <1>1, <2>1
  <2>4. /\ conn' \in Connection /\ conn'.index = conn.index
        /\ conn'.responded = c.responded /\ conn'.seq = Add(c.seq, ResponseLen[part])
        /\ conn'.unacked = c.unacked \cup kept /\ conn'.fin = c.fin /\ conn'.finSeq = c.finSeq
    BY <2>2, <2>3 DEF Connection
  <2>. QED
    BY <2>1, <2>2, <2>4, SendIs
<1>. QED
  BY <1>2, <1>3 DEF Answered, data

\* A SYN makes a connection with the next index and no frame but its SYN-ACK.
LEMMA SynDoes ==
  ASSUME TypeInv, NEW p \in toServer, HandleSyn(p)
  PROVE  /\ connCounter' = connCounter + 1 /\ connCounter' \in 1 .. MaxConns
         /\ conn' = NewConn(connCounter + 1, Add(Isn[connCounter + 1], 1), Add(p.seq, 1))
         /\ conn' \in Connection /\ conn'.index = connCounter + 1
         /\ conn'.seq = Add(Isn[connCounter + 1], 1)
         /\ conn'.unacked = {} /\ conn'.fin = {} /\ conn'.finSeq = {} /\ ~conn'.responded
         /\ SynAck(p, connCounter + 1) \in Frame
         /\ toClient \subseteq toClient'
         /\ toClient' \subseteq toClient \cup {SynAck(p, connCounter + 1)}
         /\ faults' \in 0 .. MaxFaults /\ faults <= faults' /\ loop' \in InHandler \cup InTimer
         /\ UNCHANGED <<failed, cut, client, toServer>>
<1>. DEFINE i == connCounter + 1
            ack == Add(p.seq, 1)
            seq == Add(Isn[i], 1)
            new == NewConn(i, seq, ack)
<1>1. /\ connCounter' = i /\ conn' = new /\ connCounter < MaxConns
      /\ Sends({SynAck(p, i)}) \/ SendFails({})
      /\ UNCHANGED <<failed, client, toServer>>
  BY DEF HandleSyn, NewConn
<1>2. i \in 1 .. MaxConns /\ ack \in SeqNos
  BY <1>1, ConnIs, Constants
<1>3. Isn[i] \in SeqNos /\ seq \in SeqNos
  <2>1. Isn[i] \in SeqNos /\ Isn[i] \in Nat
    BY <1>2, Constants
  <2>. QED
    BY <2>1, AddType
<1>4. SynAck(p, i) \in Frame
  BY <1>2, <1>3 DEF SynAck, Frame
<1>. HIDE DEF ack, seq, i
<1>5. /\ new \in Connection /\ new.index = i /\ new.seq = seq /\ new.unacked = {} /\ new.fin = {}
      /\ new.finSeq = {} /\ ~new.responded
  BY <1>2, <1>3, NewConnection
<1>. HIDE DEF new
<1>6. /\ toClient \subseteq toClient' /\ toClient' \subseteq toClient \cup {SynAck(p, i)}
      /\ UNCHANGED cut
      /\ faults' \in 0 .. MaxFaults /\ faults <= faults' /\ loop' \in InHandler \cup InTimer
  BY <1>1, SendIs DEF Sends, SendFails, ServerSends
<1>. QED
  BY <1>1, <1>2, <1>4, <1>5, <1>6 DEF i, seq, ack, new

LEMMA TypeInit == Init => TypeInv
<1>. SUFFICES ASSUME Init PROVE TypeInv
  OBVIOUS
<1>1. <<>> \in Seq([resp : Parts, pos : Nat])
  BY EmptySeq
<1>2. NoConn \in Connection /\ NoConn.index = 0 /\ NoConn.unacked \cup NoConn.fin = {}
  BY Constants DEF NoConn, Connection
<1>3. TypeOK
  BY <1>1, <1>2, Constants DEF Init, TypeOK, Client, InHandler
<1>. QED
  BY <1>2, <1>3 DEF Init, TypeInv, Frames, Stored

LEMMA ServerType ==
  ASSUME TypeInv, Server
  PROVE  TypeInv'
<1>1. /\ connCounter \in 0 .. MaxConns /\ connCounter \in Nat /\ conn.index <= connCounter
      /\ cut \subseteq 1 .. connCounter /\ failed \subseteq 1 .. connCounter
      /\ client \in Client /\ toServer \subseteq Packet
      /\ NoConn \in Connection /\ NoConn.index = 0 /\ NoConn.unacked = {} /\ NoConn.fin = {}
      /\ Frames \subseteq Frame /\ Stored \subseteq Frames /\ toClient \subseteq Frames
      /\ Stored = conn.unacked \cup conn.fin
      /\ Connected => conn.index \in 1 .. MaxConns /\ conn.index \in 1 .. connCounter
      /\ \A f \in Frames : IsData(f) => f.resp \in Parts
  BY ConnIs DEF TypeInv, TypeOK
<1>2. Frames' = toClient' \cup (conn'.unacked \cup conn'.fin)
  BY DEF Frames, Stored
<1>3. CASE Quiet
  <2>1. conn' \in Connection /\ conn'.index <= connCounter
    BY <1>1, <1>3 DEF Quiet
  <2>2. conn'.unacked \cup conn'.fin \subseteq Stored
    BY <1>1, <1>3 DEF Quiet
  <2>3. \A f \in Frames' : f \in Frame /\ (f \in Frames \/ f.kind = "ack")
    BY <1>1, <1>2, <1>3, <2>2 DEF Quiet
  <2>4. TypeOK'
    BY <1>1, <1>2, <1>3, <2>1, <2>3 DEF Quiet, TypeOK
  <2>5. \A f \in Frames' : IsData(f) => f.resp \in Parts
    BY <1>1, <2>3 DEF IsData
  <2>. QED
    BY <2>4, <2>5 DEF TypeInv
<1>4. ASSUME NEW p \in toServer, HandleSyn(p) PROVE TypeInv'
  <2>. DEFINE i == connCounter + 1
  <2>1. /\ connCounter' = i /\ connCounter' \in 1 .. MaxConns
        /\ conn' \in Connection /\ conn'.index = i /\ conn'.unacked = {} /\ conn'.fin = {}
        /\ SynAck(p, i) \in Frame /\ toClient' \subseteq toClient \cup {SynAck(p, i)}
        /\ faults' \in 0 .. MaxFaults /\ loop' \in InHandler \cup InTimer
        /\ UNCHANGED <<failed, cut, client, toServer>>
    BY <1>4, SynDoes
  <2>2. SynAck(p, i).kind = "synack"
    BY DEF SynAck
  <2>3. \A f \in Frames' : f \in Frame /\ (f \in Frames \/ f.kind = "synack")
    BY <1>1, <1>2, <2>1, <2>2
  <2>4. failed \subseteq 1 .. i /\ cut \subseteq 1 .. i
    BY <1>1
  <2>5. TypeOK'
    BY <1>1, <1>2, <2>1, <2>3, <2>4 DEF TypeOK
  <2>6. \A f \in Frames' : IsData(f) => f.resp \in Parts
    BY <1>1, <2>3 DEF IsData
  <2>. QED
    BY <2>5, <2>6 DEF TypeInv
<1>5. ASSUME NEW p \in toServer, HandleAck(p), Answers(p) PROVE TypeInv'
  <2>. DEFINE part == p.part
              data(c) == Segments(c, part, ResponseLen[part])
              fin(c) == FinFrame(c, part)
  <2>1. /\ part \in Parts /\ Connected /\ UNCHANGED <<connCounter, failed, client, toServer>>
    BY <1>5, AnswerIs
  <2>2. PICK c \in Connection : /\ c.index = conn.index /\ c.unacked \subseteq conn.unacked
                                /\ c.fin \subseteq conn.fin /\ Answered(c, part)
    BY <1>5, AnswerIs
  <2>3. /\ conn' \in Connection /\ conn'.index = conn.index
        /\ faults' \in 0 .. MaxFaults /\ loop' \in InHandler \cup InTimer
        /\ cut' \subseteq cut \cup {conn.index}
        /\ toClient' \subseteq toClient \cup data(c) \cup {fin(c)}
        /\ conn'.unacked \subseteq c.unacked \cup data(c) /\ conn'.fin \subseteq c.fin \cup {fin(c)}
    BY <2>1, <2>2, AnswerDoes
  <2>4. /\ data(c) \subseteq Frame /\ fin(c) \in Frame /\ IsFin(fin(c))
        /\ \A f \in data(c) : f.resp = part
    BY <1>1, <2>1, <2>2, ResponseType
  <2>. HIDE DEF data, fin, part
  <2>5. Frames' \subseteq Frames \cup data(c) \cup {fin(c)}
    BY <1>1, <1>2, <2>2, <2>3
  <2>6. toClient' \subseteq Frame
    BY <1>1, <2>3, <2>4
  <2>7. cut' \subseteq 1 .. connCounter
    BY <1>1, <2>1, <2>3
  <2>8. TypeOK'
    BY <1>1, <2>1, <2>3, <2>6, <2>7 DEF TypeOK
  <2>9. \A f \in Frames' : IsData(f) => f.resp \in Parts
    BY <1>1, <2>1, <2>4, <2>5 DEF IsData, IsFin
  <2>. QED
    BY <2>8, <2>9 DEF TypeInv
<1>. QED
  BY <1>3, <1>4, <1>5, QuietServer

\* The client's numbers, and the acknowledgement it makes of them.
LEMMA ClientNumbers ==
  /\ \A n \in Nat : Add(ClientIsn, n) \in SeqNos
  /\ \A nxt \in SeqNos : PureAck(nxt) \in Packet /\ Add(nxt, 1) \in SeqNos
<1>1. \A n \in Nat : Add(ClientIsn, n) \in SeqNos
  BY Constants, AddType
<1>2. \A nxt \in SeqNos : Add(nxt, 1) \in SeqNos
  BY Constants, AddType
<1>3. 1 + RequestLen \in Nat
  BY Constants
<1>. QED
  BY <1>1, <1>2, <1>3 DEF PureAck, Packet

LEMMA AcknowledgedType ==
  ASSUME NEW f \in Frame
  PROVE  Acknowledged(f) \in 0 .. RequestLen
<1>. DEFINE a == f.ack + SeqSpace - Add(ClientIsn, 1)
<1>1. f.ack \in Nat /\ Add(ClientIsn, 1) \in 0 .. SeqSpace - 1 /\ SeqSpace \in Nat \ {0}
  BY TcpAssumption, Constants, AddType DEF Frame, SeqNos
<1>2. a \in Nat
  BY <1>1
<1>. HIDE DEF a
<1>3. a % SeqSpace \in 0 .. SeqSpace - 1
  BY <1>1, <1>2, ModHas
<1>. QED
  BY <1>1, <1>3, Constants DEF Acknowledged, a

LEMMA PeerType ==
  ASSUME TypeInv, Peer
  PROVE  TypeInv'
<1>. USE DEF TypeInv, TypeOK
<1>1. /\ client \in Client /\ client.nxt \in SeqNos /\ toServer \subseteq Packet
      /\ client.una \in 0 .. RequestLen /\ client.eof \in BOOLEAN
      /\ client.got \in Seq([resp : Parts, pos : Nat])
  BY DEF Client
<1>2. client' \in Client /\ toServer' \subseteq Packet /\ UNCHANGED <<serverVars, faultVars, toClient>> => TypeInv'
  BY DEF serverVars, faultVars, Frames, Stored
<1>3. \A n \in Nat : Add(ClientIsn, n) \in SeqNos
  BY ClientNumbers
<1>4. 1 + RequestLen \in Nat /\ 0 \in SeqNos /\ Parts \subseteq Nat
  BY Constants DEF Parts
<1>5. CASE ClientConnect
  <2>1. client' \in Client
    BY <1>1, <1>5 DEF ClientConnect, Client
  <2>2. [kind |-> "syn", seq |-> ClientIsn, ack |-> 0, part |-> 0] \in Packet
    BY <1>4, Constants DEF Packet
  <2>3. toServer' \subseteq Packet /\ UNCHANGED <<serverVars, faultVars, toClient>>
    BY <1>1, <1>5, <2>2 DEF ClientConnect, ClientSends
  <2>. QED
    BY <1>2, <2>1, <2>3
<1>6. CASE ClientFin
  BY <1>1, <1>2, <1>3, <1>4, <1>6 DEF ClientFin, ClientSends, Packet
<1>7. CASE ClientAbort
  <2>1. client' \in Client
    BY <1>1, <1>7 DEF ClientAbort, Client
  <2>. QED
    BY <1>1, <1>2, <1>3, <1>4, <1>7, <2>1 DEF ClientAbort, ClientSends, Packet
<1>8. ASSUME NEW k \in Parts, ClientSendPart(k) PROVE TypeInv'
  <2>1. [kind |-> "ack", seq |-> Add(ClientIsn, k), ack |-> client.nxt, part |-> k] \in Packet
    BY <1>1, <1>3, <1>4 DEF Packet
  <2>. QED
    BY <1>1, <1>2, <1>8, <2>1 DEF ClientSendPart, ClientSends
<1>9. ASSUME NEW f \in toClient, ClientEstablish(f) PROVE TypeInv'
  <2>1. f.seq \in SeqNos /\ Add(f.seq, 1) \in SeqNos
    BY ClientNumbers DEF Frame
  <2>2. client' \in Client /\ client'.nxt \in SeqNos
    BY <1>1, <1>9, <2>1 DEF ClientEstablish, Client
  <2>3. toServer' \subseteq Packet
    BY <1>1, <1>9, <2>2, ClientNumbers DEF ClientEstablish, ClientSends
  <2>. QED
    BY <1>2, <1>9, <2>2, <2>3 DEF ClientEstablish
<1>10. ASSUME NEW f \in toClient, ClientReceive(f) PROVE TypeInv'
  <2>1. f \in Frame /\ Acknowledged(f) \in 0 .. RequestLen /\ Add(client.nxt, 1) \in SeqNos
    BY <1>1, AcknowledgedType, ClientNumbers
  <2>2. f.kind = "data" => Append(client.got, [resp |-> f.resp, pos |-> f.pos])
                             \in Seq([resp : Parts, pos : Nat])
    <3>1. f.kind = "data" => f.resp \in Parts /\ f.pos \in Nat
      BY <2>1 DEF Frames, Frame, IsData
    <3>. QED
      BY <1>1, <3>1
  <2>. DEFINE next == f.kind \in {"data", "fin"} /\ f.seq = client.nxt /\ ~client.eof
              una == IF Acknowledged(f) > client.una THEN Acknowledged(f) ELSE client.una
              nxt == IF next THEN Add(client.nxt, 1) ELSE client.nxt
              got == IF next /\ f.kind = "data"
                     THEN Append(client.got, [resp |-> f.resp, pos |-> f.pos]) ELSE client.got
              eof == client.eof \/ (next /\ f.kind = "fin")
  <2>3. una \in 0 .. RequestLen /\ nxt \in SeqNos /\ eof \in BOOLEAN
        /\ got \in Seq([resp : Parts, pos : Nat])
    BY <1>1, <2>1, <2>2
  <2>4. client' = [client EXCEPT !.una = una, !.nxt = nxt, !.got = got, !.eof = eof]
    BY <1>10 DEF ClientReceive
  <2>. HIDE DEF una, nxt, got, eof
  <2>5. client' \in Client /\ client'.nxt \in SeqNos
    BY <1>1, <2>3, <2>4 DEF Client
  <2>6. toServer' \subseteq Packet
    BY <1>1, <1>10, <2>5, ClientNumbers DEF ClientReceive, ClientSends
  <2>. QED
    BY <1>2, <1>10, <2>5, <2>6 DEF ClientReceive
<1>. QED
  BY <1>5, <1>6, <1>7, <1>8, <1>9, <1>10 DEF Peer

LEMMA TypeNext == TypeInv /\ [Next]_vars => TypeInv'
<1>. SUFFICES ASSUME TypeInv, [Next]_vars PROVE TypeInv'
  OBVIOUS
<1>1. CASE UNCHANGED vars
  BY <1>1 DEF TypeInv, TypeOK, Frames, Stored, vars, serverVars, faultVars
<1>. QED
  BY <1>1, ServerType, PeerType DEF Next

LEMMA TypeAlways == Spec => []TypeInv
BY TypeInit, TypeNext, PTL DEF Spec

(* The server's connection, its counters, the client and every packet and   *)
(* frame are what their types say, whatever is lost, duplicated, reordered, *)
(* acknowledged or fails to be sent.                                        *)
THEOREM TypeCorrect == Spec => []TypeOK
<1>1. TypeInv => TypeOK
  BY DEF TypeInv
<1>. QED
  BY <1>1, TypeAlways, PTL

-----------------------------------------------------------------------------
(* The egress, when the responses of a connection fit in half the space *)

LEMMA EgressInit == Init => EgressInv
<1>1. Init => Frames = {} /\ conn.unacked = {} /\ conn.fin = {} /\ ~Connected
  BY DEF Init, Frames, Stored, NoConn, Connected
<1>2. Init => FrameInv /\ StoreInv
  BY <1>1 DEF FrameInv, FramesOk, StoreInv
<1>. QED
  BY <1>2, TypeInit DEF EgressInv

\* Fewer frames, more acknowledgements, more connections.
LEMMA FramesFewer ==
  ASSUME NEW F, NEW G, NEW n \in Nat, NEW m \in Nat, n <= m, NEW B, NEW C, B \subseteq C,
         FramesOk(F, n, B),
         \A f \in G : f \in F \/ (f \in Frame /\ f.kind = "ack" /\ f.index <= m)
  PROVE  FramesOk(G, m, C)
<1>1. ASSUME NEW f \in F PROVE FrameOk(f, m, C)
  <2>1. FrameOk(f, n, B)
    BY DEF FramesOk
  <2>2. f.index \in Nat /\ f.index <= m
    BY <2>1, Constants DEF FrameOk, Frame
  <2>. QED
    BY <2>1, <2>2 DEF FrameOk
<1>2. \A f \in G : FrameOk(f, m, C)
  BY <1>1 DEF FrameOk, IsData, IsFin
<1>3. ASSUME NEW f \in G, NEW g \in G PROVE PairOk(f, g, C)
  <2>1. CASE f \in F /\ g \in F
    <3>1. PairOk(f, g, B)
      BY <2>1 DEF FramesOk
    <3>. QED
      BY <3>1 DEF PairOk, Follows
  <2>2. CASE f.kind = "ack" \/ g.kind = "ack"
    BY <2>2 DEF PairOk
  <2>. QED
    BY <2>1, <2>2
<1>. QED
  BY <1>2, <1>3 DEF FramesOk

LEMMA QuietEgress ==
  ASSUME EgressInv, Quiet
  PROVE  FrameInv' /\ StoreInv'
<1>1. /\ connCounter \in Nat /\ Frames \subseteq Frame /\ conn.unacked \cup conn.fin = Stored
      /\ NoConn.index = 0 /\ NoConn.unacked = {} /\ NoConn.fin = {}
      /\ Stored \subseteq Frames
  BY ConnIs DEF EgressInv
<1>2. /\ UNCHANGED <<connCounter, cut>>
      /\ \/ conn' = NoConn
         \/ /\ conn'.index = conn.index /\ conn'.seq = conn.seq
            /\ conn'.responded = conn.responded /\ conn'.finSeq = conn.finSeq
            /\ conn'.unacked \subseteq conn.unacked /\ conn'.fin \subseteq conn.fin
  BY DEF Quiet
<1>3. \A f \in Frames' : f \in Frames \/ (f \in Frame /\ f.kind = "ack" /\ f.index <= connCounter)
  <2>1. Frames' = toClient' \cup (conn'.unacked \cup conn'.fin)
    BY DEF Frames, Stored
  <2>2. conn'.unacked \cup conn'.fin \subseteq Frames
    BY <1>1, <1>2
  <2>. QED
    BY <2>1, <2>2 DEF Quiet
<1>4. FrameInv'
  <2>1. FramesOk(Frames', connCounter, cut)
    <3>1. FramesOk(Frames, connCounter, cut) /\ connCounter <= connCounter /\ cut \subseteq cut
      BY <1>1 DEF EgressInv, FrameInv
    <3>. QED
      BY <1>1, <1>3, <3>1, FramesFewer
  <2>. QED
    BY <1>2, <2>1 DEF FrameInv
<1>5. \A f \in Frames' : Carries(f) => f \in Frames /\ f.index # 0
  BY <1>1, <1>3 DEF Carries, IsData, IsFin, Frame
<1>6. CASE conn' = NoConn
  BY <1>1, <1>4, <1>5, <1>6 DEF StoreInv, Connected, Carries
<1>7. CASE conn' # NoConn
  <2>1. faults * MaxResponse \in Nat /\ faults' * MaxResponse \in Nat
        /\ faults * MaxResponse <= faults' * MaxResponse
    <3>1. faults \in Nat /\ faults' \in Nat /\ faults <= faults' /\ MaxResponse \in Nat
      BY Constants DEF Quiet, EgressInv, TypeInv, TypeOK
    <3>. QED
      <4>1. faults' <= faults'
        BY <3>1
      <4>. QED
        BY <3>1, <4>1, MultipleGrows
  <2>2. Used' = Used
    BY <1>2, <1>7 DEF Used
  <2>3. \A k \in 0 .. faults * MaxResponse : k \in 0 .. faults' * MaxResponse
    BY <2>1
  <2>4. /\ \A f \in conn'.unacked : IsData(f) /\ f.index = conn'.index
        /\ \A f \in conn'.fin : IsFin(f) /\ f.index = conn'.index
    BY <1>2, <1>7 DEF EgressInv, StoreInv
  <2>5. Connected' /\ ~conn'.responded =>
          /\ Used' \in 0 .. faults' * MaxResponse
          /\ conn'.index \notin cut' => Used' = 0
          /\ \A f \in Frames' : Carries(f) /\ f.index = conn'.index =>
                /\ IsData(f) /\ Num(f) <= Used'
                /\ Num(f) = Used' => LastOf(f) /\ f.index \in cut'
    BY <1>2, <1>5, <1>7, <2>2, <2>3 DEF EgressInv, StoreInv, Connected
  <2>6. \A f \in Frames' : IsFin(f) /\ f.index = conn'.index => conn'.finSeq = {f.seq}
    BY <1>2, <1>5, <1>7 DEF EgressInv, StoreInv, Carries
  <2>. QED
    BY <1>4, <2>4, <2>5, <2>6 DEF StoreInv
<1>. QED
  BY <1>4, <1>6, <1>7

LEMMA SynEgress ==
  ASSUME ResponsesFit, EgressInv, NEW p \in toServer, HandleSyn(p)
  PROVE  FrameInv' /\ StoreInv'
<1>. DEFINE i == connCounter + 1
            s == SynAck(p, i)
<1>1. /\ connCounter' = i /\ connCounter' \in 1 .. MaxConns
      /\ conn'.index = i /\ conn'.seq = Add(Isn[i], 1)
      /\ conn'.unacked = {} /\ conn'.fin = {} /\ conn'.finSeq = {} /\ ~conn'.responded
      /\ s \in Frame /\ toClient' \subseteq toClient \cup {s}
      /\ faults' \in 0 .. MaxFaults /\ UNCHANGED cut
  BY SynDoes DEF EgressInv
<1>2. /\ connCounter \in Nat /\ toClient \subseteq Frames /\ i \in 1 .. MaxConns
      /\ FramesOk(Frames, connCounter, cut) /\ cut \subseteq 1 .. connCounter
  BY <1>1, ConnIs DEF EgressInv, FrameInv, TypeInv, TypeOK
<1>3. s.kind = "synack" /\ s.index = i /\ s.seq = Isn[i] /\ ~IsData(s) /\ ~IsFin(s)
  BY DEF SynAck, IsData, IsFin
<1>. HIDE DEF s
<1>4. Frames' \subseteq Frames \cup {s}
  BY <1>1, <1>2 DEF Frames, Stored
<1>5. \A f \in Frames : f.index # i /\ f.index <= i /\ f.index \in Nat
  <2>1. \A f \in Frames : f.index \in Nat /\ f.index <= connCounter
    BY <1>2, Constants DEF FramesOk, FrameOk, Frame
  <2>. QED
    BY <1>2, <2>1
<1>6. i <= i /\ connCounter <= i
  BY <1>2
<1>. HIDE DEF i
<1>7. FramesOk(Frames', i, cut)
  <2>1. FramesOk(Frames, i, cut)
    <3>1. i \in Nat /\ cut \subseteq cut
      BY <1>2, Constants
    <3>. QED
      BY <1>2, <1>6, <3>1, FramesFewer
  <2>2. FrameOk(s, i, cut)
    BY <1>1, <1>3, <1>6 DEF FrameOk
  <2>3. ASSUME NEW f \in Frames \cup {s}, NEW g \in Frames \cup {s} PROVE PairOk(f, g, cut)
    <3>1. CASE f \in Frames /\ g \in Frames
      BY <2>1, <3>1 DEF FramesOk
    <3>2. CASE f = s \/ g = s
      BY <1>3, <1>5, <3>2 DEF PairOk, Carries
    <3>. QED
      BY <3>1, <3>2
  <2>. QED
    BY <1>4, <2>1, <2>2, <2>3 DEF FramesOk
<1>8. FrameInv'
  BY <1>1, <1>7 DEF FrameInv
<1>9. \A f \in Frames' : f.index = i => ~Carries(f)
  BY <1>3, <1>4, <1>5 DEF Carries
<1>10. Used' = 0 /\ 0 \in 0 .. faults' * MaxResponse
  <2>1. Offset(i, Add(Isn[i], 1)) = 1
    <3>1. 1 \in Nat /\ 1 < SeqSpace
      BY ReachIs, TcpAssumption
    <3>. QED
      BY <1>2, <3>1, OffsetOf
  <2>2. faults' * MaxResponse \in Nat
    BY <1>1, ReachIs
  <2>. QED
    BY <1>1, <2>1, <2>2 DEF Used
<1>11. StoreInv'
  BY <1>1, <1>9, <1>10 DEF StoreInv, Carries
<1>. QED
  BY <1>8, <1>11

\* The frames of a response, by their place in the connection's numbers.
LEMMA ResponseNumbers ==
  ASSUME ResponsesFit, NEW c \in Connection, c.index \in 1 .. MaxConns, NEW part \in Parts,
         NEW u \in Nat, Offset(c.index, c.seq) = 1 + u, u + MaxResponse <= Reach - 1
  PROVE  LET data == Segments(c, part, ResponseLen[part])
             fin == FinFrame(c, part)
         IN  /\ \A f \in data : /\ f \in Frame /\ IsData(f) /\ f.resp = part /\ f.index = c.index
                                /\ f.pos \in 1 .. ResponseLen[part] /\ Num(f) = u + f.pos
             /\ \A f, g \in data : f.pos = g.pos => f = g
             /\ \A k \in 1 .. ResponseLen[part] : \E f \in data : f.pos = k
             /\ fin \in Frame /\ IsFin(fin) /\ fin.index = c.index
             /\ Num(fin) = u + ResponseLen[part] + 1
             /\ FinSeq(c, part) = fin.seq
             /\ Offset(c.index, Add(c.seq, ResponseLen[part])) = 1 + u + ResponseLen[part]
             /\ Offset(c.index, Add(c.seq, ResponseLen[part] + 1)) = 2 + u + ResponseLen[part]
<1>. DEFINE L == ResponseLen[part]
            data == Segments(c, part, L)
            fin == FinFrame(c, part)
<1>1. L \in Nat \ {0} /\ L <= MaxResponse /\ MaxResponse \in Nat /\ c.seq \in SeqNos
      /\ Reach \in Nat /\ Reach + 1 < SeqSpace
  BY Constants, ReachIs DEF Connection
<1>2. /\ data \subseteq Frame /\ fin \in Frame /\ IsFin(fin) /\ fin.index = c.index
      /\ \A f \in data : IsData(f) /\ f.resp = part /\ f.index = c.index
  BY ResponseType
<1>. HIDE DEF L
<1>3. ASSUME NEW n \in Nat, n <= L + 1
      PROVE  Offset(c.index, Add(c.seq, n)) = 1 + u + n
  <2>1. 1 + u + n < SeqSpace /\ SeqSpace \in Nat
    BY <1>1, <1>3, TcpAssumption
  <2>. QED
    BY <1>1, <2>1, OffsetAdd
<1>4. ASSUME NEW f \in data
      PROVE  f.pos \in 1 .. L /\ Num(f) = u + f.pos
  <2>1. PICK n \in 1 .. L :
           f = [kind |-> "data", index |-> c.index, seq |-> Add(c.seq, n - 1), ack |-> c.ack,
                resp |-> part, pos |-> n]
    BY DEF Segments
  <2>2. n - 1 \in Nat /\ n - 1 <= L + 1 /\ 1 + u + (n - 1) = u + n
    BY <1>1
  <2>3. Offset(c.index, Add(c.seq, n - 1)) = u + n
    BY <1>3, <2>2
  <2>. QED
    BY <2>1, <2>3 DEF Num
<1>5. \A f, g \in data : f.pos = g.pos => f = g
  BY DEF Segments
<1>6. ASSUME NEW k \in 1 .. L PROVE \E f \in data : f.pos = k
  <2>. DEFINE e == [kind |-> "data", index |-> c.index, seq |-> Add(c.seq, k - 1), ack |-> c.ack,
                    resp |-> part, pos |-> k]
  <2>1. e \in data /\ e.pos = k
    BY DEF Segments
  <2>. QED
    BY <2>1
<1>7. Offset(c.index, Add(c.seq, L)) = 1 + u + L /\ Offset(c.index, Add(c.seq, L + 1)) = 2 + u + L
  <2>1. L \in Nat /\ L + 1 \in Nat /\ L <= L + 1 /\ L + 1 <= L + 1 /\ 1 + u + (L + 1) = 2 + u + L
    BY <1>1
  <2>. QED
    BY <1>3, <2>1
<1>8. Num(fin) = u + L + 1 /\ FinSeq(c, part) = fin.seq
  <2>1. fin.seq = Add(c.seq, L) /\ FinSeq(c, part) = Add(c.seq, L)
    BY DEF FinFrame, FinSeq, L
  <2>2. 1 + u + L = u + L + 1
    BY <1>1
  <2>. QED
    BY <1>2, <1>7, <2>1, <2>2 DEF Num
<1>. HIDE DEF data, fin
<1>. QED
  BY <1>2, <1>4, <1>5, <1>6, <1>7, <1>8 DEF L, data, fin

\* A response may come after a connection's numbers up to u, which are used up.
LEMMA ResponseFrames ==
  ASSUME ResponsesFit, NEW F, NEW n \in Nat, NEW B, FramesOk(F, n, B),
         NEW c \in Connection, c.index \in 1 .. MaxConns, c.index <= n, NEW part \in Parts,
         NEW u \in Nat, Offset(c.index, c.seq) = 1 + u, u + MaxResponse <= Reach - 1,
         c.index \notin B => u = 0,
         \A f \in F : Carries(f) /\ f.index = c.index =>
             /\ IsData(f) /\ Num(f) <= u
             /\ Num(f) = u => LastOf(f) /\ f.index \in B
  PROVE  FramesOk(F \cup Segments(c, part, ResponseLen[part]) \cup {FinFrame(c, part)}, n, B)
<1>. DEFINE L == ResponseLen[part]
            data == Segments(c, part, L)
            fin == FinFrame(c, part)
            new == data \cup {fin}
            j == c.index
<1>1. /\ \A f \in data : /\ f \in Frame /\ IsData(f) /\ f.resp = part /\ f.index = j
                         /\ f.pos \in 1 .. L /\ Num(f) = u + f.pos
      /\ \A f, g \in data : f.pos = g.pos => f = g
      /\ fin \in Frame /\ IsFin(fin) /\ fin.index = j
      /\ Num(fin) = u + L + 1
  BY ResponseNumbers
<1>2. L \in Nat \ {0} /\ L <= MaxResponse /\ MaxResponse \in Nat /\ Reach \in Nat
  BY Constants, ReachIs
<1>3. \A f \in F : FrameOk(f, n, B) /\ f \in Frame /\ f.index \in 1 .. MaxConns
  BY DEF FramesOk, FrameOk, Frame
<1>4. ASSUME NEW f \in F, f.index = j, f.kind # "ack"
      PROVE  Num(f) \in Nat /\ Num(f) <= u /\ ~IsFin(f)
  <2>1. CASE f.kind = "synack"
    <3>1. f.seq = Isn[j]
      BY <1>3, <1>4, <2>1 DEF FrameOk
    <3>2. Num(f) = 0
      BY <1>4, <3>1, OffsetIsn DEF Num
    <3>. QED
      BY <2>1, <3>2 DEF IsFin
  <2>2. CASE f.kind # "synack"
    <3>1. Carries(f)
      BY <1>3, <1>4, <2>2 DEF Carries, IsData, IsFin, Frame
    <3>2. IsData(f) /\ Num(f) <= u
      BY <1>4, <3>1
    <3>3. Num(f) \in Nat
      BY <1>2, <1>3, <3>2 DEF FrameOk
    <3>. QED
      BY <3>2, <3>3 DEF IsData, IsFin
  <2>. QED
    BY <2>1, <2>2
<1>. HIDE DEF data, fin, L, j
<1>5. ASSUME NEW f \in new PROVE FrameOk(f, n, B) /\ f.index = j /\ Num(f) \in Nat /\ Num(f) > u /\ f.kind # "ack"
  <2>1. CASE f \in data
    <3>1. /\ f \in Frame /\ IsData(f) /\ f.resp = part /\ f.index = j
          /\ f.pos \in 1 .. L /\ Num(f) = u + f.pos
      BY <1>1, <2>1
    <3>2. Num(f) \in 1 .. Reach - 1 /\ Num(f) > u
      BY <1>2, <3>1
    <3>3. Num(f) = 1 \/ f.index \notin B => f.pos = Num(f)
      BY <1>2, <3>1 DEF j
    <3>4. f.resp \in Parts /\ f.pos \in 1 .. ResponseLen[f.resp]
      BY <3>1 DEF L
    <3>. QED
      BY <1>2, <3>1, <3>2, <3>3, <3>4 DEF FrameOk, IsData, IsFin, j
  <2>2. CASE f = fin
    <3>1. Num(f) \in 2 .. Reach /\ Num(f) > u
      BY <1>1, <1>2, <2>2
    <3>. QED
      BY <1>1, <1>2, <2>2, <3>1 DEF FrameOk, IsData, IsFin, j
  <2>. QED
    BY <2>1, <2>2
<1>6. ASSUME NEW f \in F, NEW g \in new PROVE PairOk(f, g, B) /\ PairOk(g, f, B)
  <2>. SUFFICES ASSUME f.index = j, f.kind # "ack" PROVE PairOk(f, g, B) /\ PairOk(g, f, B)
    BY <1>5 DEF PairOk
  <2>1. Num(f) \in Nat /\ Num(f) <= u /\ ~IsFin(f) /\ g.index = j /\ Num(g) \in Nat /\ Num(g) > u
    BY <1>4, <1>5
  <2>2. f.seq # g.seq
    BY <2>1 DEF Num
  <2>3. Num(f) # Num(g) + 1
    BY <2>1
  <2>4. ASSUME Carries(f), Num(g) = Num(f) + 1
        PROVE  IsData(f) /\ Follows(f, g, B)
    <3>1. Num(f) = u /\ Num(g) = u + 1
      BY <2>1, <2>4
    <3>2. IsData(f) /\ LastOf(f) /\ f.index \in B
      BY <2>4, <3>1 DEF j
    <3>3. IsData(g) /\ g.pos = 1
      BY <1>1, <1>2, <3>1
    <3>. QED
      BY <3>2, <3>3 DEF Follows
  <2>. QED
    BY <2>1, <2>2, <2>3, <2>4 DEF PairOk
<1>7. ASSUME NEW f \in new, NEW g \in new PROVE PairOk(f, g, B)
  <2>1. Num(f) = Num(g) => f = g
    BY <1>1, <1>2
  <2>2. f.index = g.index
    BY <1>1
  <2>3. f.seq = g.seq => f = g
    BY <2>1, <2>2 DEF Num
  <2>4. IsFin(f) /\ IsFin(g) => f = g
    BY <1>1 DEF IsData, IsFin
  <2>5. ASSUME Num(g) = Num(f) + 1
        PROVE  IsData(f) /\ Follows(f, g, B)
    <3>1. f \in data
      BY <1>1, <1>2, <2>5
    <3>2. CASE g \in data
      BY <1>1, <1>2, <2>5, <3>1, <3>2 DEF Follows
    <3>3. CASE g = fin
      <4>1. f.pos = L /\ f.resp = part /\ IsData(f)
        BY <1>1, <1>2, <2>5, <3>1, <3>3
      <4>. QED
        BY <1>1, <3>3, <4>1 DEF Follows, LastOf, L
    <3>. QED
      BY <3>2, <3>3
  <2>. QED
    BY <2>3, <2>4, <2>5 DEF PairOk
<1>8. \A f, g \in F : PairOk(f, g, B)
  BY DEF FramesOk
<1>9. FramesOk(F \cup new, n, B)
  BY <1>3, <1>5, <1>6, <1>7, <1>8 DEF FramesOk
<1>. QED
  BY <1>9 DEF data, fin, L

LEMMA AnswerEgress ==
  ASSUME ResponsesFit, EgressInv, NEW p \in toServer, HandleAck(p), Answers(p)
  PROVE  FrameInv' /\ StoreInv'
<1>. DEFINE part == p.part
            j == conn.index
            L == ResponseLen[part]
            u == Used
<1>1. part \in Parts /\ Connected /\ ~conn.responded /\ UNCHANGED <<connCounter>>
  BY AnswerIs DEF EgressInv
<1>2. PICK c \in Connection :
         /\ c.index = j /\ c.seq = conn.seq /\ c.finSeq = conn.finSeq /\ c.responded = conn.responded
         /\ c.unacked \subseteq conn.unacked /\ c.fin \subseteq conn.fin
         /\ Answered(c, part)
  BY AnswerIs DEF EgressInv
<1>. DEFINE data == Segments(c, part, L)
            fin == FinFrame(c, part)
            F == Frames \cup data \cup {fin}
<1>3. /\ j \in 1 .. MaxConns /\ j \in 1 .. connCounter /\ connCounter \in Nat /\ faults \in 0 .. MaxFaults
      /\ toClient \subseteq Frames /\ Stored = conn.unacked \cup conn.fin /\ Stored \subseteq Frames
      /\ conn.seq \in SeqNos
  BY <1>1, ConnIs DEF EgressInv, TypeInv, TypeOK, Connection
<1>4. /\ u \in 0 .. faults * MaxResponse
      /\ j \notin cut => u = 0
      /\ \A f \in Frames : Carries(f) /\ f.index = j =>
            /\ IsData(f) /\ Num(f) <= u
            /\ Num(f) = u => LastOf(f) /\ f.index \in cut
  BY <1>1 DEF EgressInv, StoreInv
<1>5. /\ u \in Nat /\ Offset(j, conn.seq) = 1 + u /\ u + MaxResponse <= Reach - 1
      /\ u + MaxResponse <= (faults + 1) * MaxResponse /\ (faults + 1) * MaxResponse \in Nat
      /\ L \in Nat \ {0} /\ L <= MaxResponse /\ MaxResponse \in Nat
  <2>1. Offset(j, conn.seq) \in Nat /\ u = Offset(j, conn.seq) - 1
    BY <1>3, OffsetIs DEF Used
  <2>2. /\ faults * MaxResponse \in Nat /\ faults * MaxResponse + MaxResponse <= Reach - 1
        /\ (faults + 1) * MaxResponse = faults * MaxResponse + MaxResponse
        /\ Reach \in Nat
    BY <1>3, ReachIs
  <2>3. L \in Nat \ {0} /\ L <= MaxResponse /\ MaxResponse \in Nat
    BY <1>1, Constants
  <2>. HIDE DEF u, L
  <2>. QED
    BY <1>4, <2>1, <2>2, <2>3
<1>. HIDE DEF u
<1>6. /\ conn' \in Connection /\ conn'.index = j
      /\ \/ /\ conn'.responded /\ conn'.seq = Add(c.seq, L + 1)
            /\ conn'.unacked = c.unacked \cup data
            /\ conn'.fin = {fin} /\ conn'.finSeq = {FinSeq(c, part)}
            /\ toClient' \subseteq toClient \cup data \cup {fin}
            /\ UNCHANGED cut
         \/ /\ conn'.responded = c.responded /\ conn'.seq = Add(c.seq, L)
            /\ conn'.unacked \subseteq c.unacked \cup data
            /\ conn'.fin = c.fin /\ conn'.finSeq = c.finSeq
            /\ toClient' \subseteq toClient \cup data
            /\ cut' = cut \cup {j}
            /\ faults' = faults + 1
  BY <1>1, <1>2, AnswerDoes DEF EgressInv
<1>7. /\ \A f \in data : /\ IsData(f) /\ f.resp = part /\ f.index = j
                         /\ f.pos \in 1 .. L /\ Num(f) = u + f.pos
      /\ IsFin(fin) /\ fin.index = j
      /\ FinSeq(c, part) = fin.seq
      /\ Offset(j, Add(c.seq, L)) = 1 + u + L
  BY <1>1, <1>2, <1>3, <1>5, ResponseNumbers
<1>8. FramesOk(F, connCounter, cut)
  <2>1. FramesOk(Frames, connCounter, cut) /\ j <= connCounter
    BY <1>3 DEF EgressInv, FrameInv
  <2>. QED
    BY <1>1, <1>2, <1>3, <1>4, <1>5, <2>1, ResponseFrames
<1>. HIDE DEF data, fin, L, part, j
<1>9. Frames' = toClient' \cup (conn'.unacked \cup conn'.fin)
  BY DEF Frames, Stored
<1>10. Frames' \subseteq F /\ cut \subseteq cut'
  BY <1>2, <1>3, <1>6, <1>9
<1>11. FrameInv'
  <2>1. connCounter <= connCounter
    BY <1>3
  <2>2. FramesOk(Frames', connCounter, cut')
    BY <1>3, <1>8, <1>10, <2>1, FramesFewer
  <2>. QED
    BY <1>1, <2>2 DEF FrameInv
<1>12. /\ \A f \in conn.unacked : IsData(f) /\ f.index = j
       /\ \A f \in conn.fin : IsFin(f) /\ f.index = j
       /\ \A f \in Frames : f.index = j => ~IsFin(f)
  BY <1>4 DEF EgressInv, StoreInv, Carries, IsData, IsFin, j
<1>13. /\ \A f \in conn'.unacked : IsData(f) /\ f.index = conn'.index
       /\ \A f \in conn'.fin : IsFin(f) /\ f.index = conn'.index
  BY <1>2, <1>6, <1>7, <1>12
<1>14. CASE conn'.responded
  <2>1. conn'.finSeq = {fin.seq}
    BY <1>1, <1>2, <1>6, <1>7, <1>14
  <2>2. \A f \in Frames' : IsFin(f) /\ f.index = conn'.index => f = fin
    BY <1>6, <1>7, <1>10, <1>12 DEF IsData, IsFin
  <2>. QED
    BY <1>11, <1>13, <1>14, <2>1, <2>2 DEF StoreInv
<1>15. CASE ~conn'.responded
  <2>1. /\ conn'.seq = Add(c.seq, L) /\ cut' = cut \cup {j} /\ faults' = faults + 1
        /\ Frames' \subseteq Frames \cup data
    BY <1>2, <1>3, <1>6, <1>9, <1>15
  <2>2. Used' = u + L /\ Used' \in 0 .. faults' * MaxResponse
    <3>1. Used' = u + L
      BY <1>5, <1>6, <1>7, <2>1 DEF Used
    <3>2. u + L <= (faults + 1) * MaxResponse
      BY <1>5
    <3>. QED
      BY <1>5, <2>1, <3>1, <3>2
  <2>3. ASSUME NEW f \in Frames', Carries(f), f.index = j
        PROVE  IsData(f) /\ Num(f) <= u + L /\ (Num(f) = u + L => LastOf(f))
    <3>1. CASE f \in Frames
      <4>1. IsData(f) /\ Num(f) <= u
        BY <1>4, <2>3, <3>1 DEF j
      <4>2. Num(f) \in Nat
        BY <1>3, <3>1, <4>1, ReachIs DEF EgressInv, FrameInv, FramesOk, FrameOk
      <4>. QED
        BY <1>5, <4>1, <4>2
    <3>2. CASE f \in data
      BY <1>5, <1>7, <3>2 DEF LastOf, L
    <3>. QED
      BY <2>1, <3>1, <3>2
  <2>4. \A f \in Frames' : IsFin(f) => f.index # conn'.index
    BY <1>6, <2>3 DEF Carries, IsData, IsFin
  <2>. QED
    BY <1>6, <1>11, <1>13, <1>15, <2>1, <2>2, <2>3, <2>4 DEF StoreInv
<1>. QED
  BY <1>14, <1>15

\* Steps of the client.
LEMMA PeerStep ==
  ASSUME Peer
  PROVE  UNCHANGED <<conn, connCounter, failed, cut, faults, loop, toClient>>
BY DEF Peer, ClientConnect, ClientFin, ClientAbort, ClientSendPart, ClientEstablish,
       ClientReceive, serverVars, faultVars

LEMMA EgressNext ==
  ASSUME ResponsesFit, EgressInv, [Next]_vars
  PROVE  EgressInv'
<1>. SUFFICES FrameInv' /\ StoreInv'
  BY TypeNext DEF EgressInv
<1>1. CASE UNCHANGED <<conn, connCounter, failed, cut, faults, loop, toClient>>
  <2>1. Frames' = Frames /\ Used' = Used /\ Connected' = Connected
    BY <1>1 DEF Frames, Stored, Used, Connected
  <2>. QED
    BY <1>1, <2>1 DEF EgressInv, FrameInv, StoreInv
<1>2. CASE UNCHANGED vars
  BY <1>1, <1>2 DEF vars, serverVars, faultVars
<1>3. CASE Peer
  BY <1>1, <1>3, PeerStep
<1>4. CASE Server
  <2>1. \/ Quiet
        \/ \E p \in toServer : HandleSyn(p) \/ (HandleAck(p) /\ Answers(p))
    BY <1>4, QuietServer DEF EgressInv
  <2>. QED
    BY <2>1, QuietEgress, SynEgress, AnswerEgress
<1>. QED
  BY <1>2, <1>3, <1>4 DEF Next

LEMMA EgressAlways ==
  ASSUME ResponsesFit
  PROVE  Spec => []EgressInv
<1>1. Init => EgressInv
  BY EgressInit
<1>2. EgressInv /\ [Next]_vars => EgressInv'
  BY EgressNext
<1>. QED
  BY <1>1, <1>2, PTL DEF Spec

(* Whatever the client repeats, acknowledges or aborts, however often the   *)
(* timers fire and whichever sends fail, a number of a connection stands    *)
(* for one frame, with one content and one acknowledgment number; and       *)
(* unless the sending of its response has been broken off, each segment of  *)
(* it, and its FIN, is sent in one version.                                 *)
THEOREM EgressIsOne ==
  ASSUME ResponsesFit
  PROVE  Spec => []OneEgress
<1>1. ASSUME EgressInv PROVE OneEgress
  <2>1. toClient \subseteq Frames /\ FramesOk(Frames, connCounter, cut)
    BY <1>1, ConnIs DEF EgressInv, FrameInv
  <2>2. ASSUME NEW f \in toClient, NEW g \in toClient, f.index = g.index, f.kind # "ack", g.kind # "ack"
        PROVE  /\ f.seq = g.seq => f = g
               /\ f.kind = g.kind /\ f.pos = g.pos /\ f.index \notin cut => f = g
    <3>1. FrameOk(f, connCounter, cut) /\ FrameOk(g, connCounter, cut) /\ PairOk(f, g, cut)
      BY <2>1, <2>2 DEF FramesOk
    <3>2. f.kind \in {"synack", "data", "fin"}
      BY <2>2, <3>1 DEF FrameOk, Frame
    <3>3. f.seq = g.seq => f = g
      BY <2>2, <3>1 DEF PairOk
    <3>4. ASSUME IsData(f), IsData(g), f.pos = g.pos, f.index \notin cut PROVE f = g
      <4>1. Num(f) = f.pos /\ Num(g) = f.pos
        BY <2>2, <3>1, <3>4 DEF FrameOk
      <4>2. f.seq \in SeqNos /\ g.seq \in SeqNos /\ f.index \in 1 .. MaxConns
        BY <3>1 DEF FrameOk, Frame
      <4>3. f.seq = g.seq
        BY <2>2, <4>1, <4>2, OffsetInjective DEF Num
      <4>. QED
        BY <3>3, <4>3
    <3>5. ASSUME f.kind = "synack", g.kind = "synack" PROVE f = g
      BY <2>2, <3>1, <3>3, <3>5 DEF FrameOk
    <3>6. IsFin(f) /\ IsFin(g) => f = g
      BY <2>2, <3>1 DEF PairOk
    <3>. QED
      BY <3>2, <3>3, <3>4, <3>5, <3>6 DEF IsData, IsFin
  <2>. QED
    BY <2>2 DEF OneEgress
<1>. QED
  BY <1>1, EgressAlways, PTL

-----------------------------------------------------------------------------
(* The client, when the connections' numbers are apart *)

\* What the client has is counted, and its numbers are too.
LEMMA ReadType ==
  ASSUME TypeInv
  PROVE  /\ client.got \in Seq([resp : Parts, pos : Nat]) /\ Len(client.got) \in Nat
         /\ Read \in Nat /\ client.nxt \in SeqNos /\ client.eof \in BOOLEAN
         /\ Read = IF client.eof THEN Len(client.got) + 1 ELSE Len(client.got)
BY DEF TypeInv, TypeOK, Client, Read

\* Where a client on connection j is.
LEMMA ClientAt ==
  ASSUME ResponsesFit, EgressInv, NEW j \in 1 .. MaxConns, ClientOn(j)
  PROVE  /\ Len(client.got) \in 0 .. Reach - 1
         /\ client.got # <<>> => Len(client.got) >= 1
         /\ client.nxt = Add(Isn[j], 1 + Read) /\ Read \in Nat /\ 1 + Read < SeqSpace
<1>1. /\ Len(client.got) \in Nat /\ Read \in Nat /\ client.nxt \in SeqNos
      /\ Reach \in Nat /\ Reach >= 2 /\ Reach + 1 < SeqSpace /\ SeqSpace \in Nat
  BY ReadType, ReachIs, TcpAssumption DEF EgressInv
<1>2. client.nxt = Add(Isn[j], 1 + Read) /\ 1 + Read < SeqSpace
  BY <1>1, OffsetIs DEF ClientOn
<1>3. CASE client.got = <<>>
  <2>1. Len(client.got) = 0
    BY <1>3, EmptySeq
  <2>. QED
    BY <1>1, <1>2, <1>3, <2>1
<1>4. CASE client.got # <<>>
  <2>1. PICK g \in toClient : IsData(g) /\ Num(g) = Len(client.got)
    BY <1>4 DEF ClientOn
  <2>2. Num(g) \in 1 .. Reach - 1
    BY <2>1, ConnIs DEF EgressInv, FrameInv, FramesOk, FrameOk
  <2>. QED
    BY <1>1, <1>2, <2>1, <2>2
<1>. QED
  BY <1>3, <1>4

\* What the frame is that a client on connection j takes.
LEMMA TakenFrame ==
  ASSUME IsnsApart, EgressInv, NEW j \in 1 .. MaxConns, ClientOn(j), ~client.eof,
         NEW f \in toClient, Carries(f), f.seq = client.nxt
  PROVE  /\ f.index = j /\ Num(f) = Len(client.got) + 1 /\ Num(f) <= Reach
         /\ IsData(f) => /\ f.resp \in Parts /\ f.pos \in 1 .. ResponseLen[f.resp]
                         /\ \/ client.got = <<>> /\ f.pos = 1
                            \/ /\ client.got # <<>> /\ f.pos > 1
                               /\ Stream!Last = [resp |-> f.resp, pos |-> f.pos - 1]
                            \/ client.got # <<>> /\ f.pos = 1 /\ Stream!Complete /\ j \in cut
         /\ IsFin(f) => Stream!Complete
<1>. DEFINE n == Len(client.got)
            i == f.index
<1>1. ResponsesFit /\ Read = n /\ n \in Nat /\ (client.got # <<>> => n >= 1) /\ n <= Reach - 1 /\ Reach \in Nat
      /\ client.nxt = Add(Isn[j], 1 + n)
  <2>1. ResponsesFit
    BY DEF IsnsApart
  <2>2. Read = n /\ Reach \in Nat
    BY ReadType, ReachIs DEF EgressInv
  <2>3. n \in 0 .. Reach - 1 /\ (client.got # <<>> => n >= 1) /\ client.nxt = Add(Isn[j], 1 + Read)
    BY <2>1, ClientAt
  <2>. QED
    BY <2>1, <2>2, <2>3
<1>2. /\ FrameOk(f, connCounter, cut) /\ f \in Frame /\ i \in 1 .. MaxConns /\ f.seq \in SeqNos
      /\ f \in Frames /\ \A g \in toClient : FrameOk(g, connCounter, cut) /\ PairOk(g, f, cut)
  BY ConnIs DEF EgressInv, FrameInv, FramesOk, Frame
<1>3. Num(f) \in 1 .. Reach
  BY <1>1, <1>2 DEF FrameOk, Carries
<1>4. i = j
  <2>1. f.seq = Add(Isn[i], Num(f))
    BY <1>2, OffsetIs DEF Num
  <2>2. 1 + n \in 0 .. Reach /\ Num(f) \in 0 .. Reach
    BY <1>1, <1>3
  <2>3. Add(Isn[i], Num(f)) \in Window(i) /\ Add(Isn[j], 1 + n) \in Window(j)
    BY <2>2 DEF Window
  <2>. QED
    BY <1>1, <1>2, <2>1, <2>3 DEF IsnsApart
<1>5. Num(f) = n + 1
  <2>1. Num(f) = Offset(j, client.nxt)
    BY <1>4 DEF Num
  <2>. QED
    BY <1>1, <2>1 DEF ClientOn
<1>6. CASE client.got = <<>>
  <2>1. n = 0
    BY <1>6, EmptySeq
  <2>2. Num(f) = 1
    BY <1>5, <2>1
  <2>3. IsData(f) => /\ f.resp \in Parts /\ f.pos \in 1 .. ResponseLen[f.resp] /\ f.pos = 1
    BY <1>2, <2>2 DEF FrameOk
  <2>4. ~IsFin(f)
    BY <1>1, <1>2, <2>2 DEF FrameOk
  <2>. QED
    BY <1>3, <1>4, <1>5, <1>6, <2>3, <2>4
<1>7. CASE client.got # <<>>
  <2>1. PICK g \in toClient : /\ IsData(g) /\ g.index = j /\ Num(g) = n
                              /\ Stream!Last = [resp |-> g.resp, pos |-> g.pos]
    BY <1>7 DEF ClientOn
  <2>2. FrameOk(g, connCounter, cut) /\ PairOk(g, f, cut)
    BY <1>2
  <2>3. Follows(g, f, cut)
    BY <1>4, <1>5, <2>1, <2>2 DEF PairOk, Carries, IsData, IsFin
  <2>4. LastOf(g) => Stream!Complete
    BY <1>7, <2>1 DEF LastOf, Stream!Complete
  <2>5. g.pos \in Nat /\ g.pos >= 1 /\ f.pos \in Nat
    BY <1>2, <2>1, <2>2 DEF FrameOk, Frame
  <2>6. IsData(f) => f.resp \in Parts /\ f.pos \in 1 .. ResponseLen[f.resp] /\ ~IsFin(f)
    BY <1>2 DEF FrameOk, IsData, IsFin
  <2>7. CASE IsData(f) /\ f.resp = g.resp /\ f.pos = g.pos + 1
    <3>1. f.pos > 1 /\ f.pos - 1 = g.pos
      BY <2>5, <2>7
    <3>. QED
      BY <1>3, <1>4, <1>5, <1>7, <2>1, <2>6, <2>7, <3>1
  <2>8. CASE LastOf(g) /\ (IsFin(f) \/ (IsData(f) /\ f.pos = 1 /\ j \in cut))
    <3>1. IsFin(f) => ~IsData(f)
      BY DEF IsData, IsFin
    <3>. QED
      BY <1>3, <1>4, <1>5, <1>7, <2>4, <2>6, <2>8, <3>1
  <2>. QED
    BY <2>1, <2>3, <2>7, <2>8 DEF Follows
<1>. QED
  BY <1>6, <1>7

\* The server takes nothing of what it has sent back, and answers only an ACK.
LEMMA ServerStep ==
  ASSUME ResponsesFit, EgressInv, Server
  PROVE  /\ UNCHANGED <<client, toServer>>
         /\ connCounter \in Nat /\ connCounter <= connCounter' /\ connCounter' \in Nat
         /\ toClient \subseteq toClient' /\ cut \subseteq cut'
         /\ (\A p \in toServer : p.kind # "ack") =>
               /\ \A f \in Frames' : Carries(f) => f \in Frames
               /\ cut' = cut
               /\ Connected' => \/ Connected /\ conn'.index = conn.index /\ conn'.seq = conn.seq
                                \/ Offset(conn'.index, conn'.seq) = 1
<1>1. /\ connCounter \in Nat /\ Stored \subseteq Frames /\ Stored = conn.unacked \cup conn.fin
      /\ NoConn.index = 0 /\ NoConn.unacked = {} /\ NoConn.fin = {} /\ toClient \subseteq Frames
  BY ConnIs DEF EgressInv
<1>2. Frames' = toClient' \cup (conn'.unacked \cup conn'.fin)
  BY DEF Frames, Stored
<1>3. CASE Quiet
  <2>1. conn'.unacked \cup conn'.fin \subseteq Frames
    BY <1>1, <1>3 DEF Quiet
  <2>2. \A f \in Frames' : Carries(f) => f \in Frames
    BY <1>2, <1>3, <2>1 DEF Quiet, Carries, IsData, IsFin
  <2>3. Connected' => Connected /\ conn'.index = conn.index /\ conn'.seq = conn.seq
    BY <1>1, <1>3 DEF Quiet, Connected
  <2>. QED
    BY <1>1, <1>3, <2>2, <2>3 DEF Quiet
<1>4. ASSUME NEW p \in toServer, HandleSyn(p)
      PROVE  /\ UNCHANGED <<client, toServer, cut>>
             /\ connCounter' = connCounter + 1 /\ toClient \subseteq toClient'
             /\ \A f \in Frames' : Carries(f) => f \in Frames
             /\ Offset(conn'.index, conn'.seq) = 1
  <2>. DEFINE i == connCounter + 1
  <2>1. /\ connCounter' = i /\ i \in 1 .. MaxConns
        /\ conn'.index = i /\ conn'.seq = Add(Isn[i], 1)
        /\ conn'.unacked = {} /\ conn'.fin = {}
        /\ toClient \subseteq toClient' /\ toClient' \subseteq toClient \cup {SynAck(p, i)}
        /\ UNCHANGED <<failed, cut, client, toServer>>
    BY <1>4, SynDoes DEF EgressInv
  <2>2. Frames' \subseteq Frames \cup {SynAck(p, i)}
    BY <1>1, <1>2, <2>1
  <2>3. ~Carries(SynAck(p, i))
    BY DEF SynAck, Carries, IsData, IsFin
  <2>4. Offset(i, Add(Isn[i], 1)) = 1
    <3>1. 1 \in Nat /\ 1 < SeqSpace
      BY ReachIs, TcpAssumption
    <3>. QED
      BY <2>1, <3>1, OffsetOf
  <2>. QED
    BY <2>1, <2>2, <2>3, <2>4
<1>5. ASSUME NEW p \in toServer, HandleAck(p), Answers(p)
      PROVE  /\ UNCHANGED <<client, toServer, connCounter>> /\ p.kind = "ack"
             /\ toClient \subseteq toClient' /\ cut \subseteq cut'
  <2>1. p.kind = "ack" /\ p.part \in Parts /\ Connected /\ UNCHANGED <<connCounter, failed, client, toServer>>
    BY <1>5, AnswerIs DEF EgressInv
  <2>2. PICK c \in Connection : c.index = conn.index /\ Answered(c, p.part)
    BY <1>5, AnswerIs DEF EgressInv
  <2>3. toClient \subseteq toClient' /\ cut \subseteq cut'
    BY <2>1, <2>2, AnswerDoes DEF EgressInv
  <2>. QED
    BY <2>1, <2>3
<1>6. connCounter + 1 \in Nat /\ connCounter <= connCounter + 1 /\ connCounter <= connCounter
  BY <1>1
<1>7. \/ Quiet
      \/ \E p \in toServer : HandleSyn(p) \/ (HandleAck(p) /\ Answers(p))
  BY QuietServer DEF EgressInv
<1>. QED
  BY <1>1, <1>3, <1>4, <1>5, <1>6, <1>7

\* The client stays where it is, whatever the server sends and it sends itself.
LEMMA ClientOnKept ==
  ASSUME ResponsesFit, EgressInv, NEW j \in 1 .. MaxConns, ClientOn(j),
         client'.irs = client.irs, client'.nxt = client.nxt, client'.got = client.got,
         client'.eof = client.eof, toClient \subseteq toClient',
         \A p \in toServer' : p.kind = "ack" => p \in toServer \/ p.ack = client.nxt
  PROVE  ClientOn(j)'
<1>1. Read' = Read /\ Read \in Nat /\ Stream!Last' = Stream!Last
  BY ReadType DEF Read, EgressInv, Stream!Last
<1>2. \A p \in toServer' : p.kind = "ack" => Offset(j, p.ack) \in 1 .. 1 + Read
  <2>1. Offset(j, client.nxt) \in 1 .. 1 + Read
    BY <1>1 DEF ClientOn
  <2>. QED
    BY <2>1 DEF ClientOn
<1>3. client.got # <<>> => \E g \in toClient' :
          /\ IsData(g) /\ g.index = j /\ Num(g) = Len(client.got)
          /\ Stream!Last = [resp |-> g.resp, pos |-> g.pos]
          /\ client.eof => LastOf(g)
  BY DEF ClientOn
<1>. QED
  BY <1>1, <1>2, <1>3 DEF ClientOn

LEMMA EstablishInv ==
  ASSUME ResponsesFit, EgressInv, ClientInv, NEW f \in toClient, ClientEstablish(f)
  PROVE  ClientInv'
<1>. DEFINE j == f.index
<1>1. j \in 1 .. connCounter /\ f.seq = Isn[j] /\ j \in 1 .. MaxConns /\ connCounter' = connCounter
  <2>1. f.kind = "synack" /\ f \in Frames /\ connCounter' = connCounter
    BY DEF ClientEstablish, serverVars, Frames
  <2>2. f \in Frame /\ f.index <= connCounter /\ f.seq = Isn[f.index]
    BY <2>1 DEF EgressInv, FrameInv, FramesOk, FrameOk
  <2>3. f.index \in 1 .. MaxConns /\ connCounter \in Nat
    BY <2>2, ConnIs DEF Frame, EgressInv
  <2>. QED
    BY <2>1, <2>2, <2>3, Constants
<1>2. /\ client'.state = "established" /\ client'.irs = f.seq /\ client'.nxt = Add(f.seq, 1)
      /\ client'.got = client.got /\ client'.eof = client.eof
      /\ toServer' = toServer \cup {PureAck(client'.nxt)}
  BY DEF ClientEstablish, ClientSends, EgressInv, TypeInv, TypeOK, Client
<1>3. client.got = <<>> /\ ~client.eof /\ \A p \in toServer : p.kind # "ack"
  BY DEF ClientEstablish, ClientInv
<1>4. Read' = 0
  BY <1>2, <1>3, EmptySeq DEF Read
<1>5. Offset(j, client'.nxt) = 1
  <2>1. 1 \in Nat /\ 1 < SeqSpace
    BY ReachIs, TcpAssumption
  <2>. QED
    BY <1>1, <1>2, <2>1, OffsetOf
<1>6. PureAck(client'.nxt).ack = client'.nxt /\ 1 \in 1 .. 1 + 0 /\ 1 = 1 + 0 /\ 0 <= Reach
  BY ReachIs DEF PureAck
<1>7. ClientOn(j)'
  <2>1. \A p \in toServer' : p.kind = "ack" => Offset(j, p.ack) \in 1 .. 1 + 0
    BY <1>2, <1>3, <1>5, <1>6
  <2>2. client'.got = <<>> /\ ~client'.eof /\ client'.irs = Isn[j]
    BY <1>1, <1>2, <1>3
  <2>. HIDE DEF j
  <2>. QED
    BY <1>4, <1>5, <1>6, <2>1, <2>2 DEF ClientOn
<1>. HIDE DEF j
<1>. QED
  BY <1>1, <1>2, <1>7 DEF ClientInv

\* The client's receive, without what it acknowledges of the request.
LEMMA ReceiveIs ==
  ASSUME TypeInv, NEW f \in toClient, ClientReceive(f)
  PROVE  LET next == (IsData(f) \/ IsFin(f)) /\ f.seq = client.nxt /\ ~client.eof
         IN  /\ client'.state = "established" /\ client.state = "established"
             /\ client'.irs = client.irs
             /\ ~next => /\ client'.nxt = client.nxt /\ client'.got = client.got
                         /\ client'.eof = client.eof
             /\ next /\ IsData(f) =>
                   /\ client'.nxt = Add(client.nxt, 1) /\ client'.eof = client.eof
                   /\ client'.got = Append(client.got, [resp |-> f.resp, pos |-> f.pos])
             /\ next /\ IsFin(f) =>
                   /\ client'.nxt = Add(client.nxt, 1) /\ client'.eof /\ client'.got = client.got
             /\ UNCHANGED <<connCounter, toClient>>
             /\ \A p \in toServer' : p.kind = "ack" => p \in toServer \/ p.ack = client'.nxt
<1>. DEFINE next == (IsData(f) \/ IsFin(f)) /\ f.seq = client.nxt /\ ~client.eof
<1>1. client \in Client /\ client.eof \in BOOLEAN
  BY DEF TypeInv, TypeOK, Client
<1>2. f.kind \in {"data", "fin"} <=> IsData(f) \/ IsFin(f)
  BY DEF IsData, IsFin
<1>3. /\ client'.state = client.state /\ client'.irs = client.irs
      /\ client'.nxt = IF next THEN Add(client.nxt, 1) ELSE client.nxt
      /\ client'.got = IF next /\ IsData(f)
                        THEN Append(client.got, [resp |-> f.resp, pos |-> f.pos]) ELSE client.got
      /\ client'.eof = (client.eof \/ (next /\ IsFin(f)))
  BY <1>1, <1>2 DEF ClientReceive, Client, IsData, IsFin
<1>4. \A p \in toServer' : p.kind = "ack" => p \in toServer \/ p.ack = client'.nxt
  BY DEF ClientReceive, ClientSends, PureAck
<1>5. client.state = "established" /\ UNCHANGED <<connCounter, toClient>>
  BY DEF ClientReceive, serverVars
<1>6. IsData(f) => ~IsFin(f)
  BY DEF IsData, IsFin
<1>. QED
  BY <1>1, <1>3, <1>4, <1>5, <1>6

LEMMA ReceiveInv ==
  ASSUME IsnsApart, EgressInv, ClientInv, NEW f \in toClient, ClientReceive(f)
  PROVE  ClientInv'
<1>. DEFINE next == (IsData(f) \/ IsFin(f)) /\ f.seq = client.nxt /\ ~client.eof
            n == Len(client.got)
            e == [resp |-> f.resp, pos |-> f.pos]
<1>1. TypeInv /\ ResponsesFit
  BY DEF EgressInv, IsnsApart
<1>2. /\ client'.state = "established" /\ client.state = "established" /\ client'.irs = client.irs
      /\ ~next => client'.nxt = client.nxt /\ client'.got = client.got /\ client'.eof = client.eof
      /\ UNCHANGED <<connCounter, toClient>>
      /\ \A p \in toServer' : p.kind = "ack" => p \in toServer \/ p.ack = client'.nxt
  BY <1>1, ReceiveIs
<1>3. PICK j \in 1 .. connCounter : ClientOn(j)
  BY <1>2 DEF ClientInv
<1>4. j \in 1 .. MaxConns
  BY <1>1, Constants DEF TypeInv, TypeOK
<1>5. SUFFICES ClientOn(j)'
  BY <1>2 DEF ClientInv
<1>6. CASE ~next
  BY <1>1, <1>2, <1>3, <1>4, <1>6, ClientOnKept
<1>7. CASE next
  <2>1. n \in Nat /\ Read = n /\ ~client.eof /\ client.got \in Seq([resp : Parts, pos : Nat])
        /\ client.nxt \in SeqNos
    BY <1>1, <1>7, ReadType
  <2>2. /\ f.index = j /\ Num(f) = n + 1 /\ n + 1 <= Reach
        /\ IsData(f) => f.resp \in Parts /\ f.pos \in 1 .. ResponseLen[f.resp]
        /\ IsFin(f) => Stream!Complete
    BY <1>3, <1>4, <1>7, TakenFrame DEF Carries
  <2>3. Offset(j, client'.nxt) = 1 + (n + 1)
    <3>1. client'.nxt = Add(client.nxt, 1)
      BY <1>1, <1>7, ReceiveIs
    <3>2. Offset(j, client.nxt) = 1 + n
      BY <1>3, <2>1 DEF ClientOn
    <3>3. 1 \in Nat /\ (1 + n) + 1 < SeqSpace /\ (1 + n) + 1 = 1 + (n + 1)
      BY <1>1, <2>1, <2>2, ReachIs, TcpAssumption
    <3>4. Offset(j, Add(client.nxt, 1)) = Offset(j, client.nxt) + 1
      BY <1>4, <2>1, <3>2, <3>3, OffsetAdd
    <3>. QED
      BY <3>1, <3>2, <3>3, <3>4
  <2>4. \A p \in toServer' : p.kind = "ack" => Offset(j, p.ack) \in 1 .. 1 + (n + 1)
    <3>1. \A p \in toServer : p.kind = "ack" => Offset(j, p.ack) \in 1 .. 1 + n
      BY <1>3, <2>1 DEF ClientOn
    <3>2. 1 + (n + 1) \in 1 .. 1 + (n + 1) /\ \A k \in 1 .. 1 + n : k \in 1 .. 1 + (n + 1)
      BY <2>1
    <3>. QED
      BY <1>2, <2>3, <3>1, <3>2
  <2>5. client'.irs = Isn[j]
    BY <1>2, <1>3 DEF ClientOn
  <2>6. CASE IsData(f)
    <3>1. client'.got = Append(client.got, e) /\ client'.eof = client.eof
      BY <1>1, <1>7, <2>6, ReceiveIs
    <3>2. e \in [resp : Parts, pos : Nat]
      <4>1. f.resp \in Parts /\ f.pos \in Nat
        BY <2>2, <2>6, Constants
      <4>. QED
        BY <4>1
    <3>3. Len(client'.got) = n + 1 /\ client'.got[n + 1] = e
      <4>. HIDE DEF e
      <4>. QED
        BY <2>1, <3>1, <3>2, AppendProperties
    <3>4. client'.got # <<>>
      <4>1. Len(client'.got) # 0
        BY <2>1, <3>3
      <4>. QED
        BY <4>1, EmptySeq
    <3>5. Read' = n + 1 /\ Stream!Last' = e
      BY <2>1, <3>1, <3>3 DEF Read, Stream!Last
    <3>6. f \in toClient' /\ IsData(f) /\ f.index = j /\ Num(f) = Len(client'.got) /\ ~client'.eof
      BY <1>2, <2>1, <2>2, <2>6, <3>1, <3>3
    <3>. QED
      BY <2>2, <2>3, <2>4, <2>5, <3>4, <3>5, <3>6 DEF ClientOn
  <2>7. CASE IsFin(f)
    <3>1. client'.got = client.got /\ client'.eof
      BY <1>1, <1>7, <2>7, ReceiveIs
    <3>2. Read' = n + 1 /\ Stream!Last' = Stream!Last
      BY <2>1, <3>1 DEF Read, Stream!Last
    <3>3. client.got # <<>> /\ Stream!Last.pos = ResponseLen[Stream!Last.resp]
      BY <2>2, <2>7 DEF Stream!Complete
    <3>4. PICK g \in toClient : /\ IsData(g) /\ g.index = j /\ Num(g) = n
                                /\ Stream!Last = [resp |-> g.resp, pos |-> g.pos]
      BY <1>3, <3>3 DEF ClientOn
    <3>5. LastOf(g)
      BY <3>3, <3>4 DEF LastOf
    <3>6. /\ g \in toClient' /\ IsData(g) /\ g.index = j /\ Num(g) = Len(client'.got)
          /\ Stream!Last' = [resp |-> g.resp, pos |-> g.pos] /\ LastOf(g)
      BY <1>2, <3>1, <3>2, <3>4, <3>5
    <3>7. client'.got # <<>>
      BY <3>1, <3>3
    <3>. QED
      BY <2>2, <2>3, <2>4, <2>5, <3>2, <3>6, <3>7 DEF ClientOn
  <2>. QED
    BY <1>7, <2>6, <2>7
<1>. QED
  BY <1>6, <1>7

LEMMA ClientNext ==
  ASSUME IsnsApart, EgressInv, ClientInv, [Next]_vars
  PROVE  ClientInv'
<1>. TypeInv /\ ResponsesFit
  BY DEF EgressInv, IsnsApart
<1>1. \A j \in 1 .. connCounter : j \in 1 .. MaxConns
  BY Constants DEF TypeInv, TypeOK
<1>2. ASSUME UNCHANGED <<client, conn, connCounter, cut, toClient>>,
             \A p \in toServer' : p.kind = "ack" =>
                 p \in toServer \/ (p.ack = client.nxt /\ client.state = "established")
      PROVE  ClientInv'
  <2>1. CASE client.state = "established"
    <3>1. PICK j \in 1 .. connCounter : ClientOn(j)
      BY <2>1 DEF ClientInv
    <3>2. ClientOn(j)'
      BY <1>1, <1>2, <3>1, ClientOnKept
    <3>. QED
      BY <1>2, <2>1, <3>2 DEF ClientInv
  <2>2. CASE client.state # "established"
    <3>1. Frames' = Frames /\ Connected' = Connected
      BY <1>2 DEF Frames, Stored, Connected
    <3>. QED
      BY <1>2, <2>2, <3>1 DEF ClientInv
  <2>. QED
    BY <2>1, <2>2
<1>3. CASE UNCHANGED vars
  BY <1>2, <1>3 DEF vars, serverVars, faultVars
<1>4. CASE Server
  <2>1. /\ UNCHANGED <<client, toServer>>
        /\ connCounter \in Nat /\ connCounter <= connCounter' /\ connCounter' \in Nat
        /\ toClient \subseteq toClient'
        /\ (\A p \in toServer : p.kind # "ack") =>
              /\ \A f \in Frames' : Carries(f) => f \in Frames
              /\ cut' = cut
              /\ Connected' => \/ Connected /\ conn'.index = conn.index /\ conn'.seq = conn.seq
                               \/ Offset(conn'.index, conn'.seq) = 1
    BY <1>4, ServerStep
  <2>2. CASE client.state = "established"
    <3>1. PICK j \in 1 .. connCounter : ClientOn(j)
      BY <2>2 DEF ClientInv
    <3>2. ClientOn(j)'
      BY <1>1, <2>1, <3>1, ClientOnKept
    <3>3. j \in 1 .. connCounter'
      BY <2>1
    <3>. QED
      BY <2>1, <2>2, <3>2, <3>3 DEF ClientInv
  <2>3. CASE client.state \in {"closed", "syn_sent"}
    <3>1. /\ \A p \in toServer : p.kind # "ack"
          /\ \A f \in Frames : ~Carries(f)
          /\ cut = {}
          /\ Connected => Offset(conn.index, conn.seq) = 1
          /\ client.got = <<>> /\ ~client.eof
      BY <2>3 DEF ClientInv
    <3>2. Connected' => Offset(conn'.index, conn'.seq) = 1
      BY <2>1, <3>1
    <3>3. \A f \in Frames' : ~Carries(f)
      BY <2>1, <3>1
    <3>. QED
      BY <2>1, <2>3, <3>1, <3>2, <3>3 DEF ClientInv
  <2>4. CASE client.state = "aborted"
    BY <2>1, <2>4 DEF ClientInv
  <2>. QED
    BY <2>2, <2>3, <2>4 DEF TypeInv, TypeOK, Client
<1>5. CASE ClientConnect
  <2>1. /\ client'.state = "syn_sent" /\ client'.got = client.got /\ client'.eof = client.eof
        /\ client.state = "closed" /\ UNCHANGED <<conn, cut, toClient>>
        /\ \A p \in toServer' : p \in toServer \/ p.kind = "syn"
    BY <1>5 DEF ClientConnect, ClientSends, TypeInv, TypeOK, Client, serverVars, faultVars
  <2>2. Frames' = Frames /\ Connected' = Connected
    BY <2>1 DEF Frames, Stored, Connected
  <2>. QED
    BY <2>1, <2>2 DEF ClientInv
<1>6. CASE ClientFin
  BY <1>2, <1>6 DEF ClientFin, ClientSends, serverVars, faultVars
<1>7. CASE ClientAbort
  <2>1. client'.state = "aborted"
    BY <1>7 DEF ClientAbort, TypeInv, TypeOK, Client
  <2>. QED
    BY <2>1 DEF ClientInv
<1>8. ASSUME NEW k \in Parts, ClientSendPart(k) PROVE ClientInv'
  BY <1>2, <1>8 DEF ClientSendPart, ClientSends, serverVars, faultVars
<1>9. ASSUME NEW f \in toClient, ClientEstablish(f) PROVE ClientInv'
  BY <1>9, EstablishInv
<1>10. ASSUME NEW f \in toClient, ClientReceive(f) PROVE ClientInv'
  BY <1>10, ReceiveInv
<1>. QED
  BY <1>3, <1>4, <1>5, <1>6, <1>7, <1>8, <1>9, <1>10 DEF Next, Peer

-----------------------------------------------------------------------------
(* What the server forgets *)

\* The connection both sides are on.
LEMMA SharedIs ==
  ASSUME IsnsApart, EgressInv, ClientInv, Shared
  PROVE  /\ conn.index \in 1 .. MaxConns /\ conn.seq \in SeqNos /\ ClientOn(conn.index)
         /\ Offset(conn.index, conn.seq) \in Nat /\ Offset(conn.index, client.nxt) = 1 + Read
         /\ Read \in Nat /\ Read <= Reach
<1>1. conn.index \in 1 .. MaxConns /\ conn.seq \in SeqNos /\ Connected /\ connCounter \in Nat
  BY ConnIs DEF EgressInv, Shared, Connection
<1>2. PICK j \in 1 .. connCounter : ClientOn(j)
  BY DEF ClientInv, Shared
<1>3. j \in 1 .. MaxConns
  BY Constants DEF EgressInv, TypeInv, TypeOK
<1>4. j = conn.index
  <2>1. Isn[j] = Isn[conn.index]
    BY <1>2 DEF ClientOn, Shared
  <2>2. 0 \in 0 .. Reach
    BY ReachIs
  <2>3. Add(Isn[j], 0) \in Window(j) /\ Add(Isn[conn.index], 0) \in Window(conn.index)
    BY <2>2 DEF Window
  <2>. QED
    BY <1>1, <1>3, <2>1, <2>3 DEF IsnsApart
<1>. QED
  BY <1>1, <1>2, <1>4, OffsetIs, ReadType DEF ClientOn, EgressInv

\* What the server drops for an ACK of the client, the client has.
LEMMA AckForgets ==
  ASSUME IsnsApart, EgressInv, ClientInv, Shared,
         NEW p \in toServer, p.kind = "ack", NEW f \in Stored,
         f \notin AfterAck(p.ack).unacked \cup AfterAck(p.ack).fin
  PROVE  Num(f) < Offset(conn.index, client.nxt)
<1>. DEFINE j == conn.index
<1>1. /\ j \in 1 .. MaxConns /\ ClientOn(j) /\ Offset(j, client.nxt) = 1 + Read
      /\ Read \in Nat /\ Read <= Reach
  BY SharedIs
<1>2. /\ AfterAck(p.ack).unacked = Outstanding(p.ack)
      /\ AfterAck(p.ack).fin = IF \E n \in conn.finSeq : SeqLte(Add(n, 1), p.ack) THEN {} ELSE conn.fin
  BY AfterAckIs DEF EgressInv
<1>3. f \in Frames /\ f \in Frame /\ f.seq \in SeqNos /\ p.ack \in SeqNos
  BY ConnIs DEF EgressInv, Frame, Packet
<1>4. f.index = j /\ Num(f) \in 1 .. Reach /\ SeqLte(Add(f.seq, 1), p.ack)
  <2>1. FrameOk(f, connCounter, cut) /\ Reach \in Nat
    BY <1>3, ReachIs DEF EgressInv, FrameInv, FramesOk
  <2>2. CASE f \in conn.unacked
    <3>1. IsData(f) /\ f.index = j
      BY <2>2 DEF EgressInv, StoreInv
    <3>2. SeqLte(Add(f.seq, 1), p.ack)
      BY <1>2, <2>2 DEF Outstanding
    <3>. QED
      BY <2>1, <3>1, <3>2 DEF FrameOk
  <2>3. CASE f \in conn.fin
    <3>1. IsFin(f) /\ f.index = j
      BY <2>3 DEF EgressInv, StoreInv
    <3>2. conn.finSeq = {f.seq}
      BY <1>3, <3>1 DEF EgressInv, StoreInv
    <3>3. SeqLte(Add(f.seq, 1), p.ack)
      BY <1>2, <2>3, <3>2
    <3>. QED
      BY <2>1, <3>1, <3>3 DEF FrameOk
  <2>. QED
    BY <2>2, <2>3 DEF Stored
<1>5. Offset(j, p.ack) \in 1 .. 1 + Read
  BY <1>1 DEF ClientOn
<1>6. Offset(j, Add(f.seq, 1)) = Num(f) + 1 /\ Add(f.seq, 1) \in SeqNos
  <2>1. 1 \in Nat /\ Num(f) = Offset(j, f.seq) /\ Offset(j, f.seq) + 1 < SeqSpace
    BY <1>4, ReachIs, TcpAssumption DEF Num, IsnsApart
  <2>2. f.seq \in Nat
    BY <1>3, Constants
  <2>3. Offset(j, Add(f.seq, 1)) = Offset(j, f.seq) + 1
    BY <1>1, <1>3, <2>1, OffsetAdd
  <2>4. Add(f.seq, 1) \in SeqNos
    BY <2>1, <2>2, AddType
  <2>. QED
    BY <2>1, <2>3, <2>4
<1>7. Num(f) + 1 <= Offset(j, p.ack)
  <2>1. Num(f) + 1 \in 1 .. Reach + 1 /\ Offset(j, p.ack) \in 1 .. Reach + 1
    BY <1>1, <1>4, <1>5, ReachIs
  <2>. QED
    BY <1>1, <1>3, <1>4, <1>6, <2>1, SeqLteByOffset DEF IsnsApart
<1>. QED
  BY <1>1, <1>4, <1>5, <1>7

\* A connection stays shared, and loses none of what it must not forget.
LEMMA StoreKeeps ==
  ASSUME EgressInv, ForgottenWasReceived, Shared, conn.index \notin cut,
         conn'.index = conn.index, conn'.seq = conn.seq,
         Offset(conn.index, client.nxt) \in Nat, Offset(conn.index, client'.nxt) \in Nat,
         Offset(conn.index, client.nxt) <= Offset(conn.index, client'.nxt),
         \A f \in Stored : f \in Stored' \/ Num(f) < Offset(conn.index, client'.nxt)
  PROVE  ReadOrStored'
<1>. DEFINE j == conn.index
            seq == conn.seq
<1>1. j \in 1 .. MaxConns /\ seq \in SeqNos
  BY ConnIs DEF EgressInv, Shared, Connection
<1>2. ASSUME NEW n \in 1 .. Offset(j, seq) - 1
      PROVE  \/ n < Offset(j, client'.nxt)
             \/ \E f \in Stored' : Offset(j, f.seq) = n
  <2>1. n \in Nat
    BY <1>1, OffsetIs
  <2>2. n < Offset(j, client.nxt) \/ \E f \in Stored : Offset(j, f.seq) = n
    BY DEF ForgottenWasReceived, ReadOrStored
  <2>3. CASE n < Offset(j, client.nxt)
    BY <2>1, <2>3
  <2>4. CASE \E f \in Stored : Offset(j, f.seq) = n
    <3>1. PICK f \in Stored : Offset(j, f.seq) = n
      BY <2>4
    <3>2. f.index = j
      BY DEF EgressInv, StoreInv, Stored
    <3>3. Num(f) = n
      BY <3>1, <3>2 DEF Num
    <3>. QED
      BY <3>1, <3>3
  <2>. QED
    BY <2>2, <2>3, <2>4
<1>. QED
  BY <1>2 DEF ReadOrStored

\* A response on a connection that none was broken off on is stored as a whole.
LEMMA AnswerStores ==
  ASSUME IsnsApart, EgressInv, NEW p \in toServer, HandleAck(p), Answers(p), conn'.index \notin cut'
  PROVE  ReadOrStored'
<1>. DEFINE part == p.part
            j == conn.index
            L == ResponseLen[part]
<1>1. part \in Parts /\ Connected /\ ~conn.responded /\ ResponsesFit
  BY AnswerIs DEF EgressInv, IsnsApart
<1>2. PICK c \in Connection :
         c.index = j /\ c.seq = conn.seq /\ Answered(c, part)
  BY AnswerIs DEF EgressInv
<1>. DEFINE data == Segments(c, part, L)
            fin == FinFrame(c, part)
<1>3. j \in 1 .. MaxConns /\ conn.seq \in SeqNos /\ faults \in 0 .. MaxFaults
  BY <1>1, ConnIs DEF EgressInv, TypeInv, TypeOK, Connection
<1>4. /\ conn'.index = j /\ j \notin cut
      /\ conn'.seq = Add(c.seq, L + 1)
      /\ conn'.unacked = c.unacked \cup data /\ conn'.fin = {fin}
  BY <1>1, <1>2, AnswerDoes DEF EgressInv
<1>5. Offset(j, c.seq) = 1 + 0 /\ 0 + MaxResponse <= Reach - 1 /\ 0 \in Nat /\ L \in Nat
  <2>1. Used = 0
    BY <1>1, <1>4 DEF EgressInv, StoreInv
  <2>2. Offset(j, conn.seq) \in Nat
    BY <1>3, OffsetIs
  <2>3. 0 * MaxResponse \in Nat /\ 0 * MaxResponse + MaxResponse <= Reach - 1 /\ MaxResponse \in Nat
        /\ Reach \in Nat
    <3>1. 0 \in 0 .. MaxFaults
      BY Constants
    <3>. QED
      BY <3>1, ReachIs, Constants
  <2>4. L \in Nat
    BY <1>1, Constants
  <2>. QED
    BY <1>2, <2>1, <2>2, <2>3, <2>4 DEF Used
<1>6. /\ \A f \in data : f.index = j /\ Num(f) = 0 + f.pos
      /\ \A k \in 1 .. L : \E f \in data : f.pos = k
      /\ fin.index = j /\ Num(fin) = 0 + L + 1
      /\ Offset(j, Add(c.seq, L + 1)) = 2 + 0 + L
  BY <1>1, <1>2, <1>3, <1>5, ResponseNumbers
<1>7. Stored' = c.unacked \cup data \cup {fin}
  BY <1>4 DEF Stored
<1>. HIDE DEF data, fin, L, j, part
<1>8. ASSUME NEW n \in 1 .. (2 + L) - 1 PROVE \E f \in Stored' : Offset(j, f.seq) = n
  <2>1. CASE n \in 1 .. L
    <3>1. PICK f \in data : f.pos = n
      BY <1>6, <2>1
    <3>2. Num(f) = n
      BY <1>6, <2>1, <3>1
    <3>. QED
      BY <1>6, <1>7, <3>1, <3>2 DEF Num
  <2>2. CASE n = L + 1
    BY <1>5, <1>6, <1>7, <2>2 DEF Num
  <2>. QED
    BY <1>5, <2>1, <2>2
<1>. QED
  BY <1>4, <1>5, <1>6, <1>8 DEF ReadOrStored

LEMMA ForgottenNext ==
  ASSUME IsnsApart, EgressInv, ClientInv, ForgottenWasReceived, [Next]_vars
  PROVE  ForgottenWasReceived'
<1>. TypeInv /\ ResponsesFit
  BY DEF EgressInv, IsnsApart
<1>. SUFFICES ASSUME Shared', conn'.index \notin cut' PROVE ReadOrStored'
  BY DEF ForgottenWasReceived
<1>1. /\ conn'.index # 0 /\ conn'.index \notin failed'
      /\ client'.state = "established" /\ client'.irs = Isn[conn'.index]
  BY DEF Shared, Connected
<1>2. ASSUME conn'.index = conn.index, conn'.seq = conn.seq, failed' = failed, cut' = cut,
             client.state = "established", client.irs = client'.irs,
             client'.nxt = client.nxt,
             \A f \in Stored : Shared => f \in Stored' \/ Num(f) < Offset(conn.index, client.nxt)
      PROVE  ReadOrStored'
  <2>1. Shared /\ conn.index \notin cut
    BY <1>1, <1>2 DEF Shared, Connected
  <2>2. Offset(conn.index, client.nxt) \in Nat
    BY <2>1, SharedIs
  <2>3. Offset(conn.index, client.nxt) <= Offset(conn.index, client'.nxt)
    BY <1>2, <2>2
  <2>. QED
    BY <1>2, <2>1, <2>2, <2>3, StoreKeeps
<1>3. CASE UNCHANGED vars
  <2>1. Stored' = Stored
    BY <1>3 DEF vars, serverVars, Stored
  <2>. QED
    BY <1>1, <1>2, <1>3, <2>1 DEF vars, serverVars, faultVars
<1>4. CASE Server
  <2>1. client' = client /\ client.state = "established" /\ client.irs = client'.irs
    BY <1>1, <1>4, ServerStep
  <2>2. ASSUME NEW p \in toServer, HandleRst(p) PROVE FALSE
    BY <1>1, <2>2 DEF HandleRst, NoConn
  <2>3. ASSUME NEW p \in toServer, HandleSyn(p) PROVE ReadOrStored'
    <3>1. conn'.index = connCounter + 1 /\ conn'.seq = Add(Isn[connCounter + 1], 1)
          /\ connCounter + 1 \in 1 .. MaxConns
      BY <2>3, SynDoes
    <3>2. Offset(conn'.index, conn'.seq) = 1
      <4>1. 1 \in Nat /\ 1 < SeqSpace
        BY ReachIs, TcpAssumption
      <4>. QED
        BY <3>1, <4>1, OffsetOf
    <3>. QED
      BY <3>2 DEF ReadOrStored
  <2>4. ASSUME NEW p \in toServer, HandleAck(p), Answers(p) PROVE ReadOrStored'
    BY <2>4, AnswerStores
  <2>5. ASSUME NEW p \in toServer, HandleAck(p), ~Answers(p) PROVE ReadOrStored'
    <3>1. conn' = AfterAck(p.ack) /\ p.kind = "ack" /\ failed' = failed /\ cut' = cut
      BY <2>5 DEF HandleAck, faultVars
    <3>2. conn'.index = conn.index /\ conn'.seq = conn.seq
      BY <3>1, AfterAckIs
    <3>3. Stored' = AfterAck(p.ack).unacked \cup AfterAck(p.ack).fin
      BY <3>1 DEF Stored
    <3>4. \A f \in Stored : Shared => f \in Stored' \/ Num(f) < Offset(conn.index, client.nxt)
      BY <3>1, <3>3, AckForgets
    <3>. QED
      BY <1>2, <2>1, <3>1, <3>2, <3>4
  <2>6. ASSUME NEW p \in toServer, HandleFin(p) PROVE ReadOrStored'
    <3>1. conn'.index = conn.index /\ conn'.seq = conn.seq
          /\ conn'.unacked = conn.unacked /\ conn'.fin = conn.fin
      BY <2>6 DEF HandleFin, TypeInv, TypeOK, Connection
    <3>2. failed' = failed /\ cut' = cut
      BY <2>6 DEF HandleFin, Sends, SendFails, faultVars
    <3>. QED
      BY <1>2, <2>1, <3>1, <3>2 DEF Stored
  <2>7. CASE Retransmit \/ RetransmitFails
    <3>1. conn'.index = conn.index /\ conn'.seq = conn.seq
          /\ conn'.unacked = conn.unacked /\ conn'.fin = conn.fin
      BY <2>7 DEF Retransmit, RetransmitFails, TypeInv, TypeOK, Connection
    <3>2. failed' = failed /\ cut' = cut
      BY <2>7 DEF Retransmit, RetransmitFails, Sends, faultVars
    <3>. QED
      BY <1>2, <2>1, <3>1, <3>2 DEF Stored
  <2>8. CASE GiveUp
    BY <1>1, <2>8 DEF GiveUp, TypeInv, TypeOK, Connection
  <2>9. CASE CleanupStale
    BY <1>1, <2>9 DEF CleanupStale, NoConn
  <2>. QED
    BY <1>4, <2>2, <2>3, <2>4, <2>5, <2>6, <2>7, <2>8, <2>9 DEF Server
<1>5. CASE Peer
  <2>1. UNCHANGED <<conn, connCounter, failed, cut, toClient>> /\ Stored' = Stored
    BY <1>5, PeerStep DEF Stored
  <2>2. CASE ClientConnect \/ ClientAbort
    BY <1>1, <2>2 DEF ClientConnect, ClientAbort, TypeInv, TypeOK, Client
  <2>3. CASE ClientFin \/ \E k \in Parts : ClientSendPart(k)
    <3>1. client' = client
      BY <2>3 DEF ClientFin, ClientSendPart
    <3>. QED
      BY <1>1, <1>2, <2>1, <3>1
  <2>4. ASSUME NEW g \in toClient, ClientEstablish(g) PROVE ReadOrStored'
    <3>1. Connected => Offset(conn.index, conn.seq) = 1
      BY <2>4 DEF ClientEstablish, ClientInv
    <3>2. Offset(conn'.index, conn'.seq) = 1
      BY <1>1, <2>1, <3>1 DEF Connected
    <3>. QED
      BY <3>2 DEF ReadOrStored
  <2>5. ASSUME NEW g \in toClient, ClientReceive(g) PROVE ReadOrStored'
    <3>1. client.state = "established" /\ client.irs = client'.irs
      BY <2>5, ReceiveIs
    <3>2. Shared /\ conn.index \notin cut
      BY <1>1, <2>1, <3>1 DEF Shared, Connected
    <3>3. /\ conn.index \in 1 .. MaxConns /\ Offset(conn.index, client.nxt) = 1 + Read
          /\ Read \in Nat /\ Read <= Reach /\ client.nxt \in SeqNos
      BY <3>2, SharedIs, ReadType
    <3>4. client'.nxt = client.nxt \/ client'.nxt = Add(client.nxt, 1)
      BY <2>5, ReceiveIs
    <3>5. ASSUME client'.nxt # client.nxt
          PROVE  Offset(conn.index, Add(client.nxt, 1)) = (1 + Read) + 1
      <4>1. 1 + Read <= Reach /\ 1 \in Nat
        <5>1. (IsData(g) \/ IsFin(g)) /\ g.seq = client.nxt /\ ~client.eof
          BY <2>5, <3>5, ReceiveIs
        <5>2. ClientOn(conn.index) /\ Read = Len(client.got) /\ Len(client.got) \in Nat
          BY <3>2, <5>1, SharedIs, ReadType
        <5>3. Len(client.got) \in 0 .. Reach - 1
          BY <3>3, <5>2, ClientAt
        <5>. QED
          BY <5>2, <5>3, ReachIs
      <4>2. Offset(conn.index, client.nxt) + 1 < SeqSpace
        BY <3>3, <4>1, ReachIs, TcpAssumption
      <4>3. Offset(conn.index, Add(client.nxt, 1)) = Offset(conn.index, client.nxt) + 1
        BY <3>3, <4>1, <4>2, OffsetAdd
      <4>. QED
        BY <3>3, <4>3
    <3>6. Offset(conn.index, client.nxt) <= Offset(conn.index, client'.nxt)
          /\ Offset(conn.index, client'.nxt) \in Nat /\ Offset(conn.index, client.nxt) \in Nat
      BY <3>3, <3>4, <3>5
    <3>. QED
      BY <2>1, <3>2, <3>6, StoreKeeps
  <2>. QED
    BY <1>5, <2>2, <2>3, <2>4, <2>5 DEF Peer
<1>. QED
  BY <1>3, <1>4, <1>5 DEF Next

LEMMA IInvInit == Init => IInv
<1>1. Init => Frames = {} /\ ~Connected
  BY DEF Init, Frames, Stored, NoConn, Connected
<1>2. Init => ClientInv
  BY <1>1 DEF Init, ClientInv
<1>3. Init => ForgottenWasReceived
  BY <1>1 DEF ForgottenWasReceived, Shared
<1>. QED
  BY <1>2, <1>3, EgressInit DEF IInv

LEMMA IInvAlways ==
  ASSUME IsnsApart
  PROVE  Spec => []IInv
<1>1. IInv /\ [Next]_vars => IInv'
  BY EgressNext, ClientNext, ForgottenNext DEF IInv, IsnsApart
<1>. QED
  BY <1>1, IInvInit, PTL DEF Spec

(* When the numbers of the connections are apart, the connection the server *)
(* keeps and the client is on has, of the numbers it has used up, dropped   *)
(* from its store only those the client has read, on acknowledgements that  *)
(* are cumulative, duplicated, late and across the wrap, and whichever      *)
(* sends fail, but for a connection whose response was broken off.          *)
THEOREM OnlyReceivedIsForgotten ==
  ASSUME IsnsApart
  PROVE  Spec => []ForgottenWasReceived
<1>1. IInv => ForgottenWasReceived
  BY DEF IInv
<1>. QED
  BY <1>1, IInvAlways, PTL

(* When the numbers of the connections are apart, a client reads a prefix   *)
(* of one response, in order, and its end only after the last segment; and  *)
(* when a failed send broke a response off, another may follow a complete   *)
(* one, whichever of its segments were sent and stored.                     *)
THEOREM ClientReadsAResponse ==
  ASSUME IsnsApart
  PROVE  Spec => DeliversPrefix
<1>. DEFINE broken == \E i \in cut : client.irs = Isn[i]
<1>1. Init => Stream!Init
  BY DEF Init, Stream!Init
<1>2. IInv /\ [Next]_vars => [Stream!Next]_(Stream!vars)
  <2>. SUFFICES ASSUME EgressInv, ClientInv, [Next]_vars
                PROVE  [Stream!Next]_(Stream!vars)
    BY DEF IInv
  <2>. TypeInv /\ ResponsesFit
    BY DEF EgressInv, IsnsApart
  <2>1. ASSUME client'.got = client.got, client'.eof = client.eof, broken => broken'
        PROVE  [Stream!Next]_(Stream!vars)
    <3>1. CASE broken' = broken
      BY <2>1, <3>1 DEF Stream!vars
    <3>2. CASE broken' # broken
      <4>1. broken' = TRUE
        BY <2>1, <3>2
      <4>. QED
        BY <2>1, <4>1 DEF Stream!Next, Stream!Break
    <3>. QED
      BY <3>1, <3>2
  <2>2. CASE UNCHANGED vars
    BY <2>1, <2>2 DEF vars, faultVars
  <2>3. CASE Server
    BY <2>1, <2>3, ServerStep
  <2>4. CASE ClientConnect \/ ClientFin \/ ClientAbort \/ \E k \in Parts : ClientSendPart(k)
    <3>1. UNCHANGED cut /\ client'.irs = client.irs /\ client'.got = client.got /\ client'.eof = client.eof
      BY <2>4 DEF ClientConnect, ClientFin, ClientAbort, ClientSendPart, TypeInv, TypeOK, Client, faultVars
    <3>. QED
      BY <2>1, <3>1
  <2>5. ASSUME NEW f \in toClient, ClientEstablish(f) PROVE [Stream!Next]_(Stream!vars)
    <3>1. client'.got = client.got /\ client'.eof = client.eof /\ cut = {}
      BY <2>5 DEF ClientEstablish, ClientInv, TypeInv, TypeOK, Client
    <3>. QED
      BY <2>1, <3>1
  <2>6. ASSUME NEW f \in toClient, ClientReceive(f) PROVE [Stream!Next]_(Stream!vars)
    <3>. DEFINE next == (IsData(f) \/ IsFin(f)) /\ f.seq = client.nxt /\ ~client.eof
    <3>1. UNCHANGED cut /\ client'.irs = client.irs /\ client.state = "established"
      BY <2>6, ReceiveIs DEF ClientReceive, faultVars
    <3>2. CASE ~next
      BY <2>1, <2>6, <3>1, <3>2, ReceiveIs
    <3>3. CASE next
      <4>1. PICK j \in 1 .. connCounter : ClientOn(j)
        BY <3>1 DEF ClientInv
      <4>2. j \in 1 .. MaxConns /\ client.irs = Isn[j] /\ (j \in cut => broken) /\ broken' = broken
        BY <3>1, <4>1, Constants DEF TypeInv, TypeOK, ClientOn
      <4>3. /\ IsData(f) => /\ f.resp \in Parts /\ f.pos \in 1 .. ResponseLen[f.resp]
                            /\ \/ client.got = <<>> /\ f.pos = 1
                               \/ /\ client.got # <<>> /\ f.pos > 1
                                  /\ Stream!Last = [resp |-> f.resp, pos |-> f.pos - 1]
                               \/ client.got # <<>> /\ f.pos = 1 /\ Stream!Complete /\ j \in cut
            /\ IsFin(f) => Stream!Complete
        BY <3>3, <4>1, <4>2, TakenFrame DEF Carries
      <4>. HIDE DEF broken
      <4>4. CASE IsData(f)
        <5>1. client'.got = Append(client.got, [resp |-> f.resp, pos |-> f.pos]) /\ client'.eof = client.eof
          BY <2>6, <3>3, <4>4, ReceiveIs
        <5>2. \/ f.pos = 1 /\ Stream!Begins
              \/ f.pos > 1 /\ client.got # <<>> /\ Stream!Last = [resp |-> f.resp, pos |-> f.pos - 1]
          BY <4>2, <4>3, <4>4 DEF Stream!Begins, broken
        <5>3. f.resp \in 1 .. RequestLen /\ f.pos \in 1 .. ResponseLen[f.resp]
          BY <4>3, <4>4 DEF Parts
        <5>4. Stream!Read
          BY <3>3, <4>2, <5>1, <5>2, <5>3 DEF Stream!Read, broken
        <5>. QED
          BY <5>4 DEF Stream!Next
      <4>5. CASE IsFin(f)
        <5>1. client'.got = client.got /\ client'.eof
          BY <2>6, <3>3, <4>5, ReceiveIs
        <5>2. client'.eof = TRUE
          BY <5>1, TypeNext DEF TypeInv, TypeOK, Client
        <5>3. Stream!End
          BY <3>3, <4>2, <4>3, <4>5, <5>1, <5>2 DEF Stream!End, broken
        <5>. QED
          BY <5>3 DEF Stream!Next
      <4>. QED
        BY <3>3, <4>4, <4>5
    <3>. QED
      BY <3>2, <3>3
  <2>. QED
    BY <2>2, <2>3, <2>4, <2>5, <2>6 DEF Next, Peer
<1>. QED
  BY <1>1, <1>2, IInvAlways, PTL DEF Spec, DeliversPrefix, Stream!Spec
=============================================================================
