---------------------------- MODULE WardenProofs ----------------------------
(***************************************************************************)
(* Proofs about Warden for every sequence space, keyed hash and number of  *)
(* connections: its type invariant, that the capture tells the same story  *)
(* as the link, and that what is stripped leaves the data in place.        *)
(***************************************************************************)
EXTENDS Warden, TLAPS

-----------------------------------------------------------------------------
(* The inductive invariant *)

Frames ==
    [kind : {"tcp", "other", "udp", "arp", "runt"}, from : Sides,
     flags : SUBSET {"syn", "ack", "rst", "urg"}, seq : Seq32, ack : Seq32,
     ipOptions : {0, 2}, options : SUBSET {"mss", "timestamps"}, offset : Int,
     pointer : {0, 1}, total : Int, padding : BOOLEAN, noise : BOOLEAN, run : Nat, peerRun : Nat]

IsSyn(f) == "syn" \in f.flags

\* The header's length is that of its options.
WellFormed(f) == f.offset = 5 + OptionWords(f.options)

End == [phase : {"closed", "opening", "open"}, run : 0 .. MaxRuns, isn : Seq32,
        sent : 0 .. MaxSent, peerRun : 0 .. MaxRuns, peerIsn : Seq32, got : 0 .. MaxSent]

TypeInv ==
    /\ deployment \in {"recorded", "inline"}
    /\ hash \in [Sides -> [Isns -> Hashes]]
    /\ connections \in [Sides -> Seq32]
    /\ end \in [Sides -> End]
    /\ \A f \in wire : f \in Frames /\ f.kind = "tcp" /\ "urg" \notin f.flags

\* An endpoint is on a connection that it has opened, to one the other has opened.
EndInv ==
    /\ \A s \in Sides :
          /\ end[s].run > 0 => end[s].isn \in Isns
          /\ end[s].phase # "closed" => end[s].run > 0
          /\ end[s].phase = "open" => end[s].peerRun > 0
          /\ end[s].peerRun <= end[Peer(s)].run
    /\ end["server"].run <= end["server"].peerRun

\* The offset is that of the present connection.
OffsetInv ==
    \A s \in Sides :
        end[s].run > 0 => connections[s] = (hash[s][end[s].isn] - end[s].isn) % W

\* The initial sequence number of an endpoint's connection, as the wire has it.
WireIsn(s) == IF deployment = "inline" THEN hash[s][end[s].isn] ELSE end[s].isn

\* Frame f is at its place behind the initial sequence number.
InPlace(f, isn) ==
    /\ IsSyn(f) => f.seq = isn
    /\ ~IsSyn(f) => \E n \in 0 .. MaxSent - 1 : f.seq = Plus(isn, 1 + n)

\* A frame is of a connection its sender has opened; one of the present connection is in place,
CurrentInv ==
    \A f \in wire : /\ f.run \in 1 .. end[f.from].run
                    /\ f.run = end[f.from].run => InPlace(f, WireIsn(f.from))

\* and any is in place behind a SYN of its connection.
PairInv ==
    \A f, g \in wire : f.from = g.from /\ f.run = g.run /\ IsSyn(f) => InPlace(g, f.seq)

\* What an endpoint knows of the other it has from a SYN.
PeerInv ==
    \A s \in Sides :
       end[s].peerRun > 0 =>
          \E f \in wire : /\ IsSyn(f) /\ f.from = Peer(s)
                          /\ f.run = end[s].peerRun /\ f.seq = end[s].peerIsn

WireInv == CurrentInv /\ PairInv /\ PeerInv

\* How far a number is from the initial one, before and after.
SameDistance(s, n, m) ==
    (m - hash[s][end[s].isn]) % W = (n - end[s].isn) % W

\* The frame that passed last, against the connections there are now.
LastInv ==
    LET f == last.in  s == last.in.from  p == Peer(last.in.from)
    IN  /\ Tcp(last.out) => last.out.seq \in Seq32 /\ last.out.ack \in Seq32
        /\ f.kind = "tcp" =>
              /\ s \in Sides
              /\ f.run <= end[s].run /\ f.peerRun <= end[p].run
              /\ f.run = end[s].run => SameDistance(s, f.seq, last.out.seq)
              /\ "ack" \in f.flags /\ f.peerRun = end[p].run => SameDistance(p, f.ack, last.out.ack)

IInv == TypeInv /\ EndInv /\ OffsetInv /\ WireInv /\ LastInv /\ SameBytes

-----------------------------------------------------------------------------
(* Arithmetic of the sequence space *)

LEMMA ModIs ==
  ASSUME NEW S \in Nat \ {0}, NEW a \in Int, NEW q \in Int, NEW r \in 0 .. S - 1, a = q * S + r
  PROVE  a % S = r
OBVIOUS

LEMMA ModHas ==
  ASSUME NEW S \in Nat \ {0}, NEW a \in Int
  PROVE  a % S \in 0 .. S - 1 /\ \E q \in Int : a = q * S + (a % S)
<1>1. a = S * (a \div S) + (a % S) /\ a \div S \in Int
  OBVIOUS
<1>2. a = (a \div S) * S + (a % S)
  BY <1>1
<1>3. a % S \in 0 .. S - 1
  OBVIOUS
<1>. QED
  BY <1>1, <1>2, <1>3

LEMMA Sums ==
  ASSUME NEW S \in Int, NEW p \in Int, NEW q \in Int
  PROVE  (p + q) * S = p * S + q * S /\ (p - q) * S = p * S - q * S
OBVIOUS

\* A remainder may be taken of a summand first.
LEMMA ModOfSum ==
  ASSUME NEW S \in Nat \ {0}, NEW a \in Int, NEW b \in Int
  PROVE  ((a % S) + b) % S = (a + b) % S
<1>. DEFINE x == a % S
            y == (x + b) % S
<1>1. PICK q \in Int : a = q * S + x
  BY ModHas
<1>2. x \in Int /\ x + b \in Int
  <2>1. x \in 0 .. S - 1
    BY ModHas
  <2>. QED
    BY <2>1
<1>3. y \in 0 .. S - 1 /\ \E p \in Int : x + b = p * S + y
  BY <1>2, ModHas
<1>4. PICK p \in Int : x + b = p * S + y
  BY <1>3
<1>. HIDE DEF x, y
<1>5. a + b = (q + p) * S + y
  <2>1. q * S \in Int /\ p * S \in Int
    OBVIOUS
  <2>2. a + b = (q * S + p * S) + y
    BY <1>1, <1>2, <1>3, <1>4, <2>1
  <2>. QED
    BY <2>2, Sums
<1>6. (a + b) % S = y
  <2>1. a + b \in Int /\ q + p \in Int
    OBVIOUS
  <2>. QED
    BY <1>3, <1>5, <2>1, ModIs
<1>. QED
  BY <1>6 DEF x, y

\* A number shifted by the offset of its connection is as far behind the new start.
LEMMA Shifts ==
  ASSUME NEW i \in Seq32, NEW h \in Seq32, NEW n \in Int
  PROVE  (n + ((h - i) % W)) % W = ((n - i) + h) % W
<1>1. W \in Nat \ {0} /\ i \in Int /\ h \in Int /\ h - i \in Int
  BY WardenAssumption DEF Seq32
<1>2. (((h - i) % W) + n) % W = ((h - i) + n) % W
  BY <1>1, ModOfSum
<1>3. (h - i) % W \in Int
  <2>1. (h - i) % W \in 0 .. W - 1
    BY <1>1, ModHas
  <2>. QED
    BY <2>1
<1>4. ((h - i) % W) + n = n + ((h - i) % W) /\ (h - i) + n = (n - i) + h
  BY <1>1, <1>3
<1>. QED
  BY <1>2, <1>4

LEMMA ShiftKeepsDistance ==
  ASSUME NEW i \in Seq32, NEW h \in Seq32, NEW n \in Int
  PROVE  (((n + ((h - i) % W)) % W) - h) % W = (n - i) % W
<1>1. W \in Nat \ {0} /\ i \in Int /\ h \in Int /\ (n - i) + h \in Int /\ -h \in Int
  BY WardenAssumption DEF Seq32
<1>2. ((((n - i) + h) % W) + (-h)) % W = (((n - i) + h) + (-h)) % W
  BY <1>1, ModOfSum
<1>3. ((n - i) + h) % W \in Int
  <2>1. ((n - i) + h) % W \in 0 .. W - 1
    BY <1>1, ModHas
  <2>. QED
    BY <2>1
<1>4. ((n - i) + h) + (-h) = n - i /\ (((n - i) + h) % W) + (-h) = (((n - i) + h) % W) - h
  BY <1>1, <1>3
<1>. QED
  BY <1>2, <1>4, Shifts

LEMMA ShiftOfPlace ==
  ASSUME NEW i \in Seq32, NEW h \in Seq32, NEW n \in Nat
  PROVE  (Plus(i, n) + ((h - i) % W)) % W = Plus(h, n)
<1>1. W \in Nat \ {0} /\ i \in Int /\ h \in Int /\ i + n \in Int /\ h + n \in Int /\ h - i \in Int
  BY WardenAssumption DEF Seq32
<1>2. (h - i) % W \in Int
  <2>1. (h - i) % W \in 0 .. W - 1
    BY <1>1, ModHas
  <2>. QED
    BY <2>1
<1>3. (((i + n) % W) + ((h - i) % W)) % W = ((i + n) + ((h - i) % W)) % W
  BY <1>1, <1>2, ModOfSum
<1>4. ((i + n) + ((h - i) % W)) % W = (((i + n) - i) + h) % W
  BY <1>1, Shifts
<1>5. ((i + n) - i) + h = h + n
  BY <1>1
<1>. QED
  BY <1>3, <1>4, <1>5 DEF Plus

LEMMA PlusType ==
  ASSUME NEW i \in Int, NEW n \in Int
  PROVE  Plus(i, n) \in Seq32
<1>1. W \in Nat \ {0} /\ i + n \in Int
  BY WardenAssumption
<1>. QED
  BY <1>1, ModHas DEF Plus, Seq32

LEMMA PlusInjective ==
  ASSUME NEW i \in Int, NEW m \in 0 .. W - 1, NEW n \in 0 .. W - 1, Plus(i, m) = Plus(i, n)
  PROVE  m = n
<1>1. W \in Nat \ {0} /\ m \in Int /\ n \in Int /\ i + m \in Int /\ i + n \in Int /\ -i \in Int
  BY WardenAssumption
<1>2. (((i + m) % W) + (-i)) % W = ((i + m) + (-i)) % W
  BY <1>1, ModOfSum
<1>3. (((i + n) % W) + (-i)) % W = ((i + n) + (-i)) % W
  BY <1>1, ModOfSum
<1>4. (i + m) + (-i) = m /\ (i + n) + (-i) = n
  BY <1>1
<1>5. m % W = n % W
  BY <1>2, <1>3, <1>4 DEF Plus
<1>6. m = 0 * W + m /\ n = 0 * W + n
  BY <1>1
<1>7. m % W = m /\ n % W = n
  BY <1>1, <1>6, ModIs
<1>. QED
  BY <1>5, <1>7

-----------------------------------------------------------------------------
(* What normalize() does to a frame *)

LEMMA Numbers ==
  /\ W \in Nat \ {0} /\ 0 \in Seq32 /\ \A n \in Seq32 : n \in Nat /\ n \in Int
  /\ \A n \in Isns \cup Hashes : n \in Seq32
  /\ MaxRuns \in Nat /\ MaxSent \in Nat
BY WardenAssumption DEF Seq32

LEMMA TwoSides ==
  /\ Sides = {"client", "server"} /\ Peer("client") = "server" /\ Peer("server") = "client"
  /\ \A s \in Sides : /\ Peer(s) \in Sides /\ Peer(Peer(s)) = s /\ Peer(s) # s
                     /\ \A t \in Sides : t # s => t = Peer(s)
<1>1. Peer("client") = "server" /\ Peer("server") = "client"
  BY DEF Peer, Sides
<1>. QED
  BY <1>1 DEF Sides

LEMMA WordsType ==
  ASSUME NEW options
  PROVE  OptionWords(options) \in Nat
BY DEF OptionWords

LEMMA NumbersType ==
  ASSUME TypeInv, NEW f \in Frames, IsSyn(f) => f.seq \in Isns
  PROVE  NewIsn(f) \in Seq32 /\ SeqOffset(f) \in Seq32 /\ ShiftedAck(f) \in Seq32
<1>1. /\ f.from \in Sides /\ f.seq \in Seq32 /\ f.seq \in Int /\ f.ack \in Seq32 /\ f.ack \in Int
      /\ Peer(f.from) \in Sides
      /\ connections[f.from] \in Seq32 /\ connections[f.from] \in Int
      /\ connections[Peer(f.from)] \in Int
  <2>1. f.from \in Sides /\ f.seq \in Seq32 /\ f.ack \in Seq32
    BY DEF Frames
  <2>2. Peer(f.from) \in Sides
    BY <2>1, TwoSides
  <2>3. connections \in [Sides -> Seq32] /\ \A n \in Seq32 : n \in Int
    BY Numbers DEF TypeInv
  <2>. QED
    BY <2>1, <2>2, <2>3
<1>2. IsSyn(f) => hash[f.from][f.seq] \in Seq32
  BY <1>1, Numbers DEF TypeInv
<1>3. \A a, b \in Int : (a + b) % W \in Seq32
  BY PlusType DEF Plus
<1>4. NewIsn(f) \in Seq32
  BY <1>1, <1>2, <1>3 DEF NewIsn, IsSyn
<1>5. \A a, b \in Int : (a - b) % W \in Seq32
  <2>. TAKE a, b \in Int
  <2>1. a - b \in Int
    OBVIOUS
  <2>. QED
    BY <2>1, ModHas, Numbers DEF Seq32
<1>6. SeqOffset(f) \in Seq32
  <2>1. NewIsn(f) \in Int
    BY <1>4, Numbers
  <2>. QED
    BY <1>1, <1>5, <2>1 DEF SeqOffset
<1>7. ShiftedAck(f) \in Seq32
  BY <1>1, <1>3 DEF ShiftedAck
<1>. QED
  BY <1>4, <1>6, <1>7

\* What no part of normalize() changes.
SameFrame(f, g) ==
    /\ g.kind = f.kind /\ g.from = f.from /\ g.run = f.run /\ g.peerRun = f.peerRun
    /\ g.flags \ {"urg"} = f.flags \ {"urg"}
    /\ "urg" \notin f.flags => g.flags = f.flags

LEMMA NormalizedIp ==
  ASSUME NEW f \in Frames
  PROVE  /\ NormalizeIp(f) \in Frames /\ SameFrame(f, NormalizeIp(f))
         /\ NormalizeIp(f).flags = f.flags
         /\ NormalizeIp(f).seq = f.seq /\ NormalizeIp(f).ack = f.ack
         /\ NormalizeIp(f).options = f.options /\ NormalizeIp(f).offset = f.offset
         /\ NormalizeIp(f).ipOptions = 0 /\ NormalizeIp(f).total = f.total - f.ipOptions
<1>1. f.total - f.ipOptions \in Int
  BY DEF Frames
<1>. QED
  BY <1>1 DEF NormalizeIp, Frames, SameFrame

LEMMA BoundedUrgent ==
  ASSUME NEW f \in Frames
  PROVE  /\ BoundUrgent(f) \in Frames /\ SameFrame(f, BoundUrgent(f))
         /\ BoundUrgent(f).seq = f.seq /\ BoundUrgent(f).ack = f.ack
         /\ BoundUrgent(f).options = f.options /\ BoundUrgent(f).offset = f.offset
         /\ BoundUrgent(f).ipOptions = f.ipOptions /\ BoundUrgent(f).total = f.total
<1>1. CASE "urg" \in f.flags /\ f.pointer <= f.total - 5 - f.offset
  BY <1>1 DEF BoundUrgent, SameFrame
<1>2. CASE ~("urg" \in f.flags /\ f.pointer <= f.total - 5 - f.offset)
  <2>. DEFINE g == [f EXCEPT !.flags = @ \ {"urg"}, !.pointer = 0]
  <2>1. BoundUrgent(f) = g
    BY <1>2 DEF BoundUrgent
  <2>2. f.flags \ {"urg"} \in SUBSET {"syn", "ack", "rst", "urg"}
    BY DEF Frames
  <2>3. g \in Frames /\ g.kind = f.kind /\ g.from = f.from /\ g.run = f.run /\ g.peerRun = f.peerRun
        /\ g.flags = f.flags \ {"urg"} /\ g.seq = f.seq /\ g.ack = f.ack
        /\ g.options = f.options /\ g.offset = f.offset
        /\ g.ipOptions = f.ipOptions /\ g.total = f.total
    BY <2>2 DEF Frames
  <2>. HIDE DEF g
  <2>. QED
    BY <2>1, <2>3 DEF SameFrame
<1>. QED
  BY <1>1, <1>2

LEMMA StrippedReset ==
  ASSUME NEW f \in Frames
  PROVE  /\ StripReset(f) \in Frames /\ SameFrame(f, StripReset(f))
         /\ StripReset(f).flags = f.flags
         /\ StripReset(f).seq = f.seq /\ StripReset(f).ack = f.ack
         /\ StripReset(f).options = f.options /\ StripReset(f).offset = f.offset
         /\ StripReset(f).ipOptions = f.ipOptions
         /\ StripReset(f).total = IF "rst" \in f.flags THEN 5 + f.offset ELSE f.total
<1>1. 5 + f.offset \in Int
  BY DEF Frames
<1>. QED
  BY <1>1 DEF StripReset, Frames, SameFrame

LEMMA StrippedOptions ==
  ASSUME NEW f \in Frames
  PROVE  /\ StripOptions(f) \in Frames /\ SameFrame(f, StripOptions(f))
         /\ StripOptions(f).flags = f.flags
         /\ StripOptions(f).seq = f.seq /\ StripOptions(f).ack = f.ack
         /\ WellFormed(StripOptions(f)) /\ StripOptions(f).ipOptions = f.ipOptions
         /\ StripOptions(f).options = KeptOptions(f)
         /\ StripOptions(f).total = f.total - (OptionWords(f.options) - OptionWords(KeptOptions(f)))
<1>1. KeptOptions(f) \in SUBSET {"mss", "timestamps"}
  BY DEF KeptOptions, Frames
<1>2. /\ 5 + OptionWords(KeptOptions(f)) \in Int
      /\ f.total - (OptionWords(f.options) - OptionWords(KeptOptions(f))) \in Int
  BY WordsType DEF Frames
<1>. QED
  BY <1>1, <1>2 DEF StripOptions, Frames, SameFrame, WellFormed

\* A normalised TCP frame: its numbers, and where its data is.
LEMMA NormalizedTcp ==
  ASSUME TypeInv, NEW f \in Frames, IsSyn(f) => f.seq \in Isns, WellFormed(f), Tcp(f)
  PROVE  /\ Normalize(f) \in Frames /\ SameFrame(f, Normalize(f))
         /\ Normalize(f).seq = NewIsn(f) /\ Normalize(f).ack = ShiftedAck(f)
         /\ WellFormed(Normalize(f))
         /\ Payload(Normalize(f)) = IF "rst" \in f.flags THEN 0 ELSE Payload(f)
<1>. DEFINE a == NormalizeIp(f)
            b == [a EXCEPT !.seq = NewIsn(a), !.ack = ShiftedAck(a)]
            c == BoundUrgent(b)
            d == StripReset(c)
            e == StripOptions(d)
            g == ZeroPadding(e)
<1>1. Normalize(f) = g
  BY DEF Tcp, Normalize, NormalizeTcp
<1>2. /\ a \in Frames /\ SameFrame(f, a) /\ a.flags = f.flags /\ a.seq = f.seq /\ a.ack = f.ack
      /\ a.options = f.options /\ a.offset = f.offset /\ a.ipOptions = 0
      /\ a.total = f.total - f.ipOptions
  BY NormalizedIp
<1>3. NewIsn(a) = NewIsn(f) /\ ShiftedAck(a) = ShiftedAck(f)
  BY <1>2 DEF NewIsn, ShiftedAck, SameFrame
<1>4. NewIsn(f) \in Seq32 /\ ShiftedAck(f) \in Seq32
  BY NumbersType
<1>. HIDE DEF a
<1>5. /\ b \in Frames /\ SameFrame(f, b) /\ b.flags = f.flags
      /\ b.seq = NewIsn(f) /\ b.ack = ShiftedAck(f)
      /\ b.options = f.options /\ b.offset = f.offset /\ b.ipOptions = 0
      /\ b.total = f.total - f.ipOptions
  BY <1>2, <1>3, <1>4 DEF Frames, SameFrame
<1>. HIDE DEF b
<1>6. /\ c \in Frames /\ SameFrame(b, c) /\ c.seq = b.seq /\ c.ack = b.ack
      /\ c.options = b.options /\ c.offset = b.offset /\ c.ipOptions = b.ipOptions /\ c.total = b.total
  BY <1>5, BoundedUrgent
<1>. HIDE DEF c
<1>7. /\ d \in Frames /\ SameFrame(c, d) /\ d.flags = c.flags /\ d.seq = c.seq /\ d.ack = c.ack
      /\ d.options = c.options /\ d.offset = c.offset /\ d.ipOptions = c.ipOptions
      /\ d.total = IF "rst" \in c.flags THEN 5 + c.offset ELSE c.total
  BY <1>6, StrippedReset
<1>. HIDE DEF d
<1>8. /\ e \in Frames /\ SameFrame(d, e) /\ e.flags = d.flags /\ e.seq = d.seq /\ e.ack = d.ack
      /\ WellFormed(e) /\ e.ipOptions = d.ipOptions /\ e.options = KeptOptions(d)
      /\ e.total = d.total - (OptionWords(d.options) - OptionWords(KeptOptions(d)))
  BY <1>7, StrippedOptions
<1>. HIDE DEF e
<1>9. /\ g \in Frames /\ SameFrame(e, g) /\ g.flags = e.flags /\ g.seq = e.seq /\ g.ack = e.ack
      /\ g.options = e.options /\ g.offset = e.offset /\ g.ipOptions = e.ipOptions /\ g.total = e.total
  BY <1>8 DEF ZeroPadding, Frames, SameFrame
<1>. HIDE DEF g
<1>10. SameFrame(f, g)
  BY <1>5, <1>6, <1>7, <1>8, <1>9 DEF SameFrame
<1>11. g.seq = NewIsn(f) /\ g.ack = ShiftedAck(f) /\ WellFormed(g)
  BY <1>5, <1>6, <1>7, <1>8, <1>9 DEF WellFormed
<1>12. Payload(g) = IF "rst" \in f.flags THEN 0 ELSE Payload(f)
  <2>1. "rst" \in c.flags <=> "rst" \in f.flags
    BY <1>5, <1>6 DEF SameFrame
  <2>. DEFINE whole == OptionWords(f.options)
              kept == OptionWords(KeptOptions(d))
  <2>2. d.options = f.options /\ e.options = KeptOptions(d) /\ e.offset = 5 + OptionWords(e.options)
    BY <1>5, <1>6, <1>7, <1>8 DEF WellFormed
  <2>3. g.ipOptions = 0 /\ g.offset = 5 + kept
    BY <1>5, <1>6, <1>7, <1>8, <1>9, <2>2
  <2>4. f.offset = 5 + whole
    BY DEF WellFormed
  <2>5. d.total = IF "rst" \in f.flags THEN 5 + f.offset ELSE f.total - f.ipOptions
    BY <1>5, <1>6, <1>7, <2>1
  <2>6. g.total = d.total - (whole - kept)
    BY <1>8, <1>9, <2>2
  <2>7. f.total \in Int /\ f.ipOptions \in Int /\ whole \in Nat /\ kept \in Nat
    BY WordsType DEF Frames
  <2>. HIDE DEF whole, kept
  <2>8. CASE "rst" \in f.flags
    BY <2>3, <2>4, <2>5, <2>6, <2>7, <2>8 DEF Payload
  <2>9. CASE "rst" \notin f.flags
    BY <2>3, <2>4, <2>5, <2>6, <2>7, <2>9 DEF Payload
  <2>. QED
    BY <2>8, <2>9
<1>. QED
  BY <1>1, <1>9, <1>10, <1>11, <1>12

LEMMA BuiltFrame ==
  ASSUME NEW kind \in {"tcp", "other", "udp", "arp", "runt"}, NEW s \in Sides,
         NEW flags \in SUBSET {"syn", "ack", "rst"}, NEW seq \in Seq32, NEW ack \in Seq32,
         NEW shape \in Shapes, NEW peerRun \in Nat, end[s].run \in Nat
  PROVE  /\ Frame(kind, s, flags, seq, ack, shape, peerRun) \in Frames
         /\ WellFormed(Frame(kind, s, flags, seq, ack, shape, peerRun))
         /\ Frame(kind, s, flags, seq, ack, shape, peerRun).kind = kind
         /\ Frame(kind, s, flags, seq, ack, shape, peerRun).from = s
         /\ Frame(kind, s, flags, seq, ack, shape, peerRun).seq = seq
         /\ Frame(kind, s, flags, seq, ack, shape, peerRun).ack = ack
         /\ Frame(kind, s, flags, seq, ack, shape, peerRun).run = end[s].run
         /\ Frame(kind, s, flags, seq, ack, shape, peerRun).peerRun = peerRun
         /\ ~shape.urg => Frame(kind, s, flags, seq, ack, shape, peerRun).flags = flags
         /\ \A x \in {"syn", "ack", "rst"} :
               x \in Frame(kind, s, flags, seq, ack, shape, peerRun).flags <=> x \in flags
         /\ Payload(Frame(kind, s, flags, seq, ack, shape, peerRun)) = shape.payload
<1>1. /\ shape.ipOptions \in {0, 2} /\ shape.options \in SUBSET {"mss", "timestamps"}
      /\ shape.urg \in BOOLEAN /\ shape.pointer \in {0, 1} /\ shape.payload \in {0, 1}
  BY DEF Shapes
<1>2. OptionWords(shape.options) \in Nat
  BY WordsType
<1>3. 5 + OptionWords(shape.options) \in Int
      /\ 5 + shape.ipOptions + 5 + OptionWords(shape.options) + shape.payload \in Int
  BY <1>1, <1>2
<1>4. flags \cup (IF shape.urg THEN {"urg"} ELSE {}) \in SUBSET {"syn", "ack", "rst", "urg"}
  OBVIOUS
<1>5. Frame(kind, s, flags, seq, ack, shape, peerRun) \in Frames
  BY <1>1, <1>3, <1>4 DEF Frame, Frames
<1>6. Payload(Frame(kind, s, flags, seq, ack, shape, peerRun)) = shape.payload
  BY <1>1, <1>2 DEF Frame, Payload
<1>. QED
  BY <1>5, <1>6 DEF Frame, WellFormed

-----------------------------------------------------------------------------
(* A frame passes *)

\* The frame as the other side may receive it.
Sent(f) == IF deployment = "inline" THEN Normalize(f) ELSE f

LEMMA PassedFrame ==
  ASSUME TypeInv, NEW f \in Frames, WellFormed(f), IsSyn(f) => f.seq \in Isns, Passes(f)
  PROVE  /\ connections' \in [Sides -> Seq32]
         /\ last'.in = f /\ SameBytes'
         /\ (Tcp(last.out) => last.out.seq \in Seq32 /\ last.out.ack \in Seq32)'
         /\ f.kind # "tcp" => UNCHANGED <<connections, wire>>
         /\ f.kind = "tcp" =>
               /\ connections'[f.from] = SeqOffset(f)
               /\ \A s \in Sides : s # f.from => connections'[s] = connections[s]
               /\ last'.out.seq = NewIsn(f) /\ last'.out.ack = ShiftedAck(f)
               /\ wire' = wire \/ (wire' = wire \cup {Sent(f)} /\ (IsSyn(f) \/ Payload(f) > 0))
               /\ Sent(f) \in Frames /\ SameFrame(f, Sent(f))
               /\ Sent(f).seq = IF deployment = "inline" THEN NewIsn(f) ELSE f.seq
<1>1. f.from \in Sides /\ SeqOffset(f) \in Seq32 /\ connections \in [Sides -> Seq32]
  BY NumbersType DEF Frames, TypeInv
<1>2. last'.in = f /\ last'.out = Normalize(f)
  BY DEF Passes
<1>3. /\ f.kind # "tcp" => UNCHANGED <<connections, wire>>
      /\ f.kind = "tcp" => /\ connections' = [connections EXCEPT ![f.from] = SeqOffset(f)]
                           /\ wire' = wire \/ (wire' = wire \cup {Sent(f)} /\ (IsSyn(f) \/ Payload(f) > 0))
  BY DEF Passes, Sent, IsSyn
<1>4. connections' \in [Sides -> Seq32]
  BY <1>1, <1>3
<1>5. CASE Tcp(f)
  <2>1. /\ Normalize(f) \in Frames /\ SameFrame(f, Normalize(f))
        /\ Normalize(f).seq = NewIsn(f) /\ Normalize(f).ack = ShiftedAck(f)
        /\ WellFormed(Normalize(f))
        /\ Payload(Normalize(f)) = IF "rst" \in f.flags THEN 0 ELSE Payload(f)
    BY <1>5, NormalizedTcp
  <2>2. SameBytes'
    BY <1>2, <2>1 DEF SameBytes, WellFormed
  <2>3. NewIsn(f) \in Seq32 /\ ShiftedAck(f) \in Seq32
    BY NumbersType
  <2>4. Sent(f) \in Frames /\ SameFrame(f, Sent(f))
        /\ Sent(f).seq = IF deployment = "inline" THEN NewIsn(f) ELSE f.seq
    BY <2>1 DEF Sent, SameFrame
  <2>. QED
    BY <1>1, <1>2, <1>3, <1>4, <2>1, <2>2, <2>3, <2>4
<1>6. CASE ~Tcp(f)
  <2>1. f.kind \in {"udp", "arp", "runt"}
    BY <1>6 DEF Tcp, Frames
  <2>2. ~Tcp(Normalize(f))
    <3>1. CASE f.kind = "runt"
      BY <3>1 DEF Normalize, Nothing, Tcp
    <3>2. CASE f.kind = "arp"
      BY <3>2 DEF Normalize, Tcp
    <3>3. CASE f.kind = "udp"
      <4>1. Normalize(f) = ZeroPadding(NormalizeIp(f)) /\ NormalizeIp(f) \in Frames /\ NormalizeIp(f).kind = "udp"
        BY <3>3, NormalizedIp DEF Normalize, SameFrame
      <4>2. Normalize(f).kind = "udp"
        BY <4>1 DEF ZeroPadding, Frames
      <4>. QED
        BY <4>2 DEF Tcp
    <3>. QED
      BY <2>1, <3>1, <3>2, <3>3
  <2>. QED
    BY <1>2, <1>3, <1>4, <1>6, <2>1, <2>2 DEF SameBytes
<1>. QED
  BY <1>5, <1>6

\* An endpoint on connection e sends frame f of it.
SendsFrame(s, e, f) ==
    /\ end' = [end EXCEPT ![s] = e] /\ UNCHANGED <<deployment, hash>>
    /\ e.run > 0 /\ e.isn \in Isns
    /\ \/ e.run = end[s].run /\ e.isn = end[s].isn
       \/ e.run = end[s].run + 1 /\ IsSyn(f)
    /\ e.peerRun > 0 => \E g \in wire : /\ IsSyn(g) /\ g.from = Peer(s)
                                        /\ g.run = e.peerRun /\ g.seq = e.peerIsn
    /\ f.kind = "tcp" /\ f.from = s /\ f.run = e.run /\ "urg" \notin f.flags /\ WellFormed(f)
    /\ f.peerRun <= end[Peer(s)].run /\ ("ack" \in f.flags => f.peerRun > 0)
    /\ IsSyn(f) => f.seq = e.isn
    /\ ~IsSyn(f) /\ Payload(f) > 0 => \E n \in 0 .. MaxSent - 1 : f.seq = Plus(e.isn, 1 + n)
    /\ Passes(f)

LEMMA SentOffset ==
  ASSUME TypeInv, OffsetInv, NEW s \in Sides, NEW e \in End, NEW f \in Frames, SendsFrame(s, e, f)
  PROVE  OffsetInv'
<1>1. /\ connections'[s] = SeqOffset(f) /\ \A t \in Sides : t # s => connections'[t] = connections[t]
  <2>1. IsSyn(f) => f.seq \in Isns
    BY DEF SendsFrame
  <2>. QED
    BY <2>1, PassedFrame DEF SendsFrame
<1>2. end'[s] = e /\ \A t \in Sides : t # s => end'[t] = end[t]
  BY DEF SendsFrame, TypeInv
<1>3. hash' = hash /\ f.from = s
  BY DEF SendsFrame
<1>4. connections'[s] = (hash[s][e.isn] - e.isn) % W
  <2>1. CASE IsSyn(f)
    BY <1>1, <1>3, <2>1 DEF SeqOffset, NewIsn, IsSyn, SendsFrame
  <2>2. CASE ~IsSyn(f)
    BY <1>1, <1>3, <2>2 DEF SeqOffset, IsSyn, SendsFrame, OffsetInv
  <2>. QED
    BY <2>1, <2>2
<1>. QED
  BY <1>1, <1>2, <1>3, <1>4 DEF OffsetInv

LEMMA SentLast ==
  ASSUME TypeInv, EndInv, OffsetInv, NEW s \in Sides, NEW e \in End, NEW f \in Frames, SendsFrame(s, e, f)
  PROVE  LastInv' /\ SameBytes'
<1>. DEFINE p == Peer(s)
<1>1. /\ last'.in = f /\ SameBytes' /\ (Tcp(last.out) => last.out.seq \in Seq32 /\ last.out.ack \in Seq32)'
      /\ last'.out.seq = NewIsn(f) /\ last'.out.ack = ShiftedAck(f)
  <2>1. IsSyn(f) => f.seq \in Isns
    BY DEF SendsFrame
  <2>. QED
    BY <2>1, PassedFrame DEF SendsFrame
<1>2. end'[s] = e /\ end'[p] = end[p] /\ p \in Sides
  BY TwoSides DEF SendsFrame, TypeInv
<1>3. hash' = hash /\ f.from = s /\ f.run = e.run
  BY DEF SendsFrame
<1>4. f.seq \in Seq32 /\ f.seq \in Int /\ f.ack \in Int
  BY Numbers DEF Frames
<1>5. e.isn \in Seq32 /\ hash[s][e.isn] \in Seq32 /\ e.isn \in Int /\ hash[s][e.isn] \in Int
  <2>1. e.isn \in Isns /\ hash[s][e.isn] \in Hashes
    BY DEF SendsFrame, TypeInv
  <2>. QED
    BY <2>1, Numbers
<1>6. (NewIsn(f) - hash[s][e.isn]) % W = (f.seq - e.isn) % W
  <2>1. CASE IsSyn(f)
    <3>1. NewIsn(f) = hash[s][e.isn] /\ f.seq = e.isn
      BY <1>3, <2>1 DEF NewIsn, IsSyn, SendsFrame
    <3>2. NewIsn(f) - hash[s][e.isn] = 0 /\ f.seq - e.isn = 0
      BY <1>5, <3>1
    <3>. QED
      BY <3>2
  <2>2. CASE ~IsSyn(f)
    <3>1. NewIsn(f) = (f.seq + ((hash[s][e.isn] - e.isn) % W)) % W
      BY <1>3, <2>2 DEF NewIsn, IsSyn, SendsFrame, OffsetInv
    <3>. QED
      BY <1>4, <1>5, <3>1, ShiftKeepsDistance
  <2>. QED
    BY <2>1, <2>2
<1>7. "ack" \in f.flags /\ f.peerRun = end[p].run
         => (ShiftedAck(f) - hash[p][end[p].isn]) % W = (f.ack - end[p].isn) % W
  <2>. SUFFICES ASSUME "ack" \in f.flags, f.peerRun = end[p].run
                PROVE  (ShiftedAck(f) - hash[p][end[p].isn]) % W = (f.ack - end[p].isn) % W
    OBVIOUS
  <2>1. end[p].run > 0
    BY DEF SendsFrame
  <2>2. ShiftedAck(f) = (f.ack + ((hash[p][end[p].isn] - end[p].isn) % W)) % W
    BY <1>2, <1>3, <2>1 DEF ShiftedAck, OffsetInv
  <2>3. end[p].isn \in Seq32 /\ hash[p][end[p].isn] \in Seq32
    <3>1. end[p].isn \in Isns /\ hash[p][end[p].isn] \in Hashes
      BY <1>2, <2>1 DEF EndInv, TypeInv
    <3>. QED
      BY <3>1, Numbers
  <2>. QED
    BY <1>4, <2>2, <2>3, ShiftKeepsDistance
<1>. QED
  BY <1>1, <1>2, <1>3, <1>6, <1>7 DEF LastInv, SameDistance, SendsFrame, End

LEMMA SentWire ==
  ASSUME TypeInv, EndInv, OffsetInv, WireInv, NEW s \in Sides, NEW e \in End, NEW f \in Frames,
         SendsFrame(s, e, f)
  PROVE  WireInv' /\ \A g \in wire' : g \in Frames /\ g.kind = "tcp" /\ "urg" \notin g.flags
<1>. DEFINE isn(t) == IF deployment = "inline" THEN hash[t][end'[t].isn] ELSE end'[t].isn
            new == Sent(f)
<1>1. /\ wire' = wire \/ (wire' = wire \cup {new} /\ (IsSyn(f) \/ Payload(f) > 0))
      /\ new \in Frames /\ SameFrame(f, new)
      /\ new.seq = IF deployment = "inline" THEN NewIsn(f) ELSE f.seq
  <2>1. IsSyn(f) => f.seq \in Isns
    BY DEF SendsFrame
  <2>. QED
    BY <2>1, PassedFrame DEF SendsFrame
<1>2. end'[s] = e /\ \A t \in Sides : t # s => end'[t] = end[t]
  BY DEF SendsFrame, TypeInv
<1>3. /\ new.kind = "tcp" /\ new.from = s /\ new.run = e.run /\ "urg" \notin new.flags
      /\ IsSyn(new) <=> IsSyn(f)
  BY <1>1 DEF SameFrame, SendsFrame, IsSyn
<1>4. \A t \in Sides : WireIsn(t)' = isn(t)
  BY DEF WireIsn, SendsFrame
<1>5. \A t \in Sides : /\ end[t].run \in Nat /\ end'[t].run \in Nat /\ end[t].run <= end'[t].run
                       /\ end[t].run = end'[t].run => isn(t) = WireIsn(t)
  <2>. TAKE t \in Sides
  <2>1. end[t] \in End /\ end'[t] \in End
    BY <1>2 DEF TypeInv
  <2>2. end[t].run \in Nat /\ end'[t].run \in Nat
    BY <2>1, Numbers DEF End
  <2>3. CASE t = s
    BY <1>2, <2>2, <2>3 DEF SendsFrame, WireIsn
  <2>4. CASE t # s
    BY <1>2, <2>2, <2>4 DEF WireIsn
  <2>. QED
    BY <2>3, <2>4
<1>6. (IsSyn(f) \/ Payload(f) > 0) => InPlace(new, isn(s))
  <2>1. e.isn \in Isns /\ e.isn \in Seq32 /\ hash[s][e.isn] \in Seq32 /\ hash' = hash /\ f.from = s
    <3>1. e.isn \in Isns /\ hash[s][e.isn] \in Hashes
      BY DEF SendsFrame, TypeInv
    <3>. QED
      BY <3>1, Numbers DEF SendsFrame
  <2>2. CASE IsSyn(f)
    <3>1. NewIsn(f) = hash[s][e.isn] /\ f.seq = e.isn
      BY <2>1, <2>2 DEF NewIsn, IsSyn, SendsFrame
    <3>. QED
      BY <1>1, <1>2, <1>3, <2>1, <2>2, <3>1 DEF InPlace
  <2>3. CASE ~IsSyn(f) /\ Payload(f) > 0
    <3>1. PICK n \in 0 .. MaxSent - 1 : f.seq = Plus(e.isn, 1 + n)
      BY <2>3 DEF SendsFrame
    <3>2. 1 + n \in Nat
      BY Numbers
    <3>3. NewIsn(f) = (Plus(e.isn, 1 + n) + ((hash[s][e.isn] - e.isn) % W)) % W
      BY <2>1, <2>3, <3>1 DEF NewIsn, IsSyn, SendsFrame, OffsetInv
    <3>4. NewIsn(f) = Plus(hash[s][e.isn], 1 + n)
      BY <2>1, <3>2, <3>3, ShiftOfPlace
    <3>5. new.seq = Plus(isn(s), 1 + n)
      BY <1>1, <1>2, <3>1, <3>4
    <3>. QED
      BY <1>3, <2>3, <3>5 DEF InPlace
  <2>. QED
    BY <2>2, <2>3
<1>. HIDE DEF isn, new
<1>7. ASSUME NEW g \in wire'
      PROVE  /\ g \in Frames /\ g.kind = "tcp" /\ "urg" \notin g.flags
             /\ g.from \in Sides /\ g.run \in 1 .. end'[g.from].run
             /\ g.run = end'[g.from].run => InPlace(g, isn(g.from))
             /\ g.run # end'[g.from].run => g \in wire
  <2>1. CASE g \in wire
    <3>1. g \in Frames /\ g.kind = "tcp" /\ "urg" \notin g.flags /\ g.from \in Sides
      BY <2>1 DEF TypeInv, Frames
    <3>2. g.run \in 1 .. end[g.from].run /\ (g.run = end[g.from].run => InPlace(g, WireIsn(g.from)))
      BY <2>1 DEF WireInv, CurrentInv, PairInv, PeerInv
    <3>3. g.run \in 1 .. end'[g.from].run /\ (g.run = end'[g.from].run => g.run = end[g.from].run)
      BY <1>5, <3>1, <3>2
    <3>. QED
      BY <1>5, <2>1, <3>1, <3>2, <3>3
  <2>2. CASE g \notin wire
    <3>1. g = new /\ (IsSyn(f) \/ Payload(f) > 0)
      BY <1>1, <2>2
    <3>2. e.run \in 1 .. e.run
      BY Numbers DEF SendsFrame, End
    <3>. QED
      BY <1>1, <1>2, <1>3, <1>6, <3>1, <3>2
  <2>. QED
    BY <2>1, <2>2
<1>8. ASSUME NEW g \in wire', NEW h \in wire', g.from = h.from, g.run = h.run, IsSyn(g)
      PROVE  InPlace(h, g.seq)
  <2>1. CASE g.run = end'[g.from].run
    <3>1. g.seq = isn(g.from) /\ InPlace(h, isn(g.from))
      BY <1>7, <1>8, <2>1 DEF InPlace
    <3>. QED
      BY <3>1
  <2>2. CASE g.run # end'[g.from].run
    <3>1. g \in wire /\ h \in wire
      BY <1>7, <1>8, <2>2
    <3>. QED
      BY <1>8, <3>1 DEF WireInv, CurrentInv, PairInv, PeerInv
  <2>. QED
    BY <2>1, <2>2
<1>9. ASSUME NEW t \in Sides, end'[t].peerRun > 0
      PROVE  \E g \in wire' : /\ IsSyn(g) /\ g.from = Peer(t)
                              /\ g.run = end'[t].peerRun /\ g.seq = end'[t].peerIsn
  <2>1. wire \subseteq wire'
    BY <1>1
  <2>2. \E g \in wire : /\ IsSyn(g) /\ g.from = Peer(t)
                       /\ g.run = end'[t].peerRun /\ g.seq = end'[t].peerIsn
    <3>1. CASE t = s
      BY <1>2, <1>9, <3>1 DEF SendsFrame
    <3>2. CASE t # s
      BY <1>2, <1>9, <3>2 DEF WireInv, CurrentInv, PairInv, PeerInv
    <3>. QED
      BY <3>1, <3>2
  <2>. QED
    BY <2>1, <2>2
<1>10. \A g \in wire' : /\ g.run \in 1 .. end'[g.from].run
                        /\ g.run = end'[g.from].run => InPlace(g, WireIsn(g.from)')
  BY <1>4, <1>7
<1>11. WireInv'
  <2>1. CurrentInv'
    BY <1>10 DEF CurrentInv
  <2>2. PairInv'
    BY <1>8 DEF PairInv
  <2>3. PeerInv'
    BY <1>9 DEF PeerInv
  <2>. QED
    BY <2>1, <2>2, <2>3 DEF WireInv
<1>. QED
  BY <1>7, <1>11

LEMMA Sending ==
  ASSUME IInv, EndInv', NEW s \in Sides, NEW e \in End, NEW f \in Frames, SendsFrame(s, e, f)
  PROVE  IInv'
<1>. TypeInv /\ EndInv /\ OffsetInv /\ WireInv
  BY DEF IInv
<1>1. OffsetInv' /\ LastInv' /\ SameBytes'
  BY SentOffset, SentLast
<1>2. WireInv' /\ \A g \in wire' : g \in Frames /\ g.kind = "tcp" /\ "urg" \notin g.flags
  BY SentWire
<1>3. connections' \in [Sides -> Seq32]
  <2>1. IsSyn(f) => f.seq \in Isns
    BY DEF SendsFrame
  <2>. QED
    BY <2>1, PassedFrame DEF SendsFrame
<1>4. end' \in [Sides -> End] /\ UNCHANGED <<deployment, hash>>
  BY DEF SendsFrame, TypeInv
<1>. QED
  BY <1>1, <1>2, <1>3, <1>4 DEF IInv, TypeInv

LEMMA Staying ==
  ASSUME IInv, EndInv', UNCHANGED <<deployment, hash, connections, wire, last>>,
         end' \in [Sides -> End],
         \A s \in Sides : end'[s].run = end[s].run /\ end'[s].isn = end[s].isn,
         \A s \in Sides : end'[s].peerRun > 0 =>
             \E f \in wire : /\ IsSyn(f) /\ f.from = Peer(s)
                             /\ f.run = end'[s].peerRun /\ f.seq = end'[s].peerIsn
  PROVE  IInv'
<1>1. TypeInv' /\ SameBytes'
  BY DEF IInv, TypeInv, SameBytes
<1>2. OffsetInv'
  BY DEF IInv, OffsetInv
<1>3. \A s \in Sides : WireIsn(s)' = WireIsn(s)
  BY DEF WireIsn
<1>4. \A f \in wire : f.from \in Sides
  BY DEF IInv, TypeInv, Frames
<1>5. \A f \in wire' : /\ f.run \in 1 .. end'[f.from].run
                       /\ f.run = end'[f.from].run => InPlace(f, WireIsn(f.from)')
  BY <1>3, <1>4 DEF IInv, WireInv, CurrentInv, PairInv, PeerInv
<1>6. \A f, g \in wire' : f.from = g.from /\ f.run = g.run /\ IsSyn(f) => InPlace(g, f.seq)
  BY DEF IInv, WireInv, CurrentInv, PairInv, PeerInv
<1>7. WireInv'
  <2>1. CurrentInv'
    BY <1>5 DEF CurrentInv
  <2>2. PairInv'
    BY <1>6 DEF PairInv
  <2>3. PeerInv'
    BY DEF PeerInv
  <2>. QED
    BY <2>1, <2>2, <2>3 DEF WireInv
<1>8. LastInv'
  <2>1. \A s \in Sides : Peer(s) \in Sides
    BY TwoSides
  <2>. QED
    BY <2>1 DEF IInv, LastInv, SameDistance
<1>. QED
  BY <1>1, <1>2, <1>7, <1>8 DEF IInv

-----------------------------------------------------------------------------
(* The frames the endpoints send *)

LEMMA PlainShape ==
  ASSUME NEW n \in {0, 1}
  PROVE  Plain(n) \in Shapes /\ ~Plain(n).urg /\ Plain(n).payload = n
BY DEF Plain, Shapes

\* What SendsFrame asks of a frame, but for its place.
Made(f, s, flags, seq, run, peerRun, n) ==
    /\ f \in Frames /\ WellFormed(f) /\ f.kind = "tcp" /\ f.from = s /\ f.flags = flags
    /\ f.seq = seq /\ f.run = run /\ f.peerRun = peerRun /\ Payload(f) = n

LEMMA BuiltPlain ==
  ASSUME NEW s \in Sides, NEW flags \in SUBSET {"syn", "ack", "rst"}, NEW seq \in Seq32,
         NEW ack \in Seq32, NEW n \in {0, 1}, NEW peerRun \in Nat, end[s].run \in Nat
  PROVE  Made(Frame("tcp", s, flags, seq, ack, Plain(n), peerRun), s, flags, seq, end[s].run, peerRun, n)
<1>1. Plain(n) \in Shapes /\ ~Plain(n).urg /\ Plain(n).payload = n
  BY PlainShape
<1>. DEFINE shape == Plain(n)
            f == Frame("tcp", s, flags, seq, ack, shape, peerRun)
<1>2. "tcp" \in {"tcp", "other", "udp", "arp", "runt"} /\ shape \in Shapes
  BY <1>1
<1>. HIDE DEF shape
<1>3. /\ f \in Frames /\ WellFormed(f) /\ f.kind = "tcp" /\ f.from = s /\ f.seq = seq
      /\ f.run = end[s].run /\ f.peerRun = peerRun /\ (~shape.urg => f.flags = flags)
      /\ Payload(f) = shape.payload
  BY <1>2, BuiltFrame
<1>4. Made(f, s, flags, seq, end[s].run, peerRun, n)
  BY <1>1, <1>3 DEF Made, shape
<1>. QED
  BY <1>4 DEF shape

\* The frame of another connection of the sender is otherwise the same.
LEMMA OfRun ==
  ASSUME NEW f, NEW s, NEW flags, NEW seq, NEW run, NEW other \in Nat, NEW peerRun, NEW n,
         Made(f, s, flags, seq, run, peerRun, n)
  PROVE  Made([f EXCEPT !.run = other], s, flags, seq, other, peerRun, n)
BY DEF Made, Frames, WellFormed, Payload

LEMMA EndFields ==
  ASSUME NEW e \in End
  PROVE  /\ e.run \in Nat /\ e.peerRun \in Nat /\ e.isn \in Seq32 /\ e.peerIsn \in Seq32
         /\ e.isn \in Int /\ e.peerIsn \in Int
         /\ e.sent \in Nat /\ e.sent <= MaxSent /\ e.got \in Nat /\ e.got <= MaxSent
BY Numbers DEF End

LEMMA MadeSyn ==
  ASSUME TypeInv, NEW e \in End
  PROVE  Made(Syn(e), "client", {"syn"}, e.isn, e.run, 0, 0)
<1>1. e.isn \in Seq32 /\ e.run \in Nat /\ 0 \in Seq32 /\ end["client"].run \in Nat /\ "client" \in Sides
  BY EndFields, Numbers, TwoSides DEF TypeInv
<1>. DEFINE f == Frame("tcp", "client", {"syn"}, e.isn, 0, Plain(0), 0)
<1>2. Made(f, "client", {"syn"}, e.isn, end["client"].run, 0, 0)
  BY <1>1, BuiltPlain
<1>. HIDE DEF f
<1>3. Made([f EXCEPT !.run = e.run], "client", {"syn"}, e.isn, e.run, 0, 0)
  BY <1>1, <1>2, OfRun
<1>. QED
  BY <1>3 DEF Syn, f

LEMMA MadeSynAck ==
  ASSUME TypeInv, NEW e \in End
  PROVE  Made(SynAck(e), "server", {"syn", "ack"}, e.isn, e.run, e.peerRun, 0)
<1>1. /\ e.isn \in Seq32 /\ e.run \in Nat /\ e.peerRun \in Nat /\ Plus(e.peerIsn, 1) \in Seq32
      /\ end["server"].run \in Nat /\ "server" \in Sides
  BY EndFields, PlusType, TwoSides DEF TypeInv
<1>. DEFINE f == Frame("tcp", "server", {"syn", "ack"}, e.isn, Plus(e.peerIsn, 1), Plain(0), e.peerRun)
<1>2. Made(f, "server", {"syn", "ack"}, e.isn, end["server"].run, e.peerRun, 0)
  BY <1>1, BuiltPlain
<1>. HIDE DEF f
<1>3. Made([f EXCEPT !.run = e.run], "server", {"syn", "ack"}, e.isn, e.run, e.peerRun, 0)
  BY <1>1, <1>2, OfRun
<1>. QED
  BY <1>3 DEF SynAck, f

LEMMA MadeSegment ==
  ASSUME TypeInv, NEW s \in Sides, NEW flags \in SUBSET {"syn", "ack", "rst"}, NEW n \in {0, 1}
  PROVE  Made(Segment(s, flags, Plain(n)), s, flags, Plus(end[s].isn, 1 + end[s].sent), end[s].run,
              end[s].peerRun, n)
<1>1. end[s] \in End
  BY DEF TypeInv
<1>2. /\ end[s].run \in Nat /\ end[s].peerRun \in Nat /\ end[s].isn \in Int /\ end[s].peerIsn \in Int
      /\ 1 + end[s].sent \in Int /\ 1 + end[s].got \in Int
  BY <1>1, EndFields
<1>3. Plus(end[s].isn, 1 + end[s].sent) \in Seq32 /\ Plus(end[s].peerIsn, 1 + end[s].got) \in Seq32
  BY <1>2, PlusType
<1>4. Made(Frame("tcp", s, flags, Plus(end[s].isn, 1 + end[s].sent),
                 Plus(end[s].peerIsn, 1 + end[s].got), Plain(n), end[s].peerRun),
           s, flags, Plus(end[s].isn, 1 + end[s].sent), end[s].run, end[s].peerRun, n)
  BY <1>2, <1>3, BuiltPlain
<1>. QED
  BY <1>4 DEF Segment

\* A new connection of the client, and of the server.
Opening(run, isn) == [Fresh EXCEPT !.phase = "opening", !.run = run, !.isn = isn]

Accepted(run, isn, peerRun, peerIsn) ==
    [Fresh EXCEPT !.phase = "open", !.run = run, !.isn = isn, !.peerRun = peerRun, !.peerIsn = peerIsn]

LEMMA OpeningEnd ==
  ASSUME NEW run \in 0 .. MaxRuns, NEW isn \in Seq32
  PROVE  /\ Opening(run, isn) \in End /\ Opening(run, isn).phase = "opening"
         /\ Opening(run, isn).run = run /\ Opening(run, isn).isn = isn
         /\ Opening(run, isn).peerRun = 0
<1>1. 0 \in 0 .. MaxSent /\ 0 \in 0 .. MaxRuns /\ 0 \in Seq32
  BY Numbers
<1>. QED
  BY <1>1 DEF Opening, Fresh, End

LEMMA AcceptedEnd ==
  ASSUME NEW run \in 0 .. MaxRuns, NEW isn \in Seq32, NEW peerRun \in 0 .. MaxRuns, NEW peerIsn \in Seq32
  PROVE  /\ Accepted(run, isn, peerRun, peerIsn) \in End
         /\ Accepted(run, isn, peerRun, peerIsn).phase = "open"
         /\ Accepted(run, isn, peerRun, peerIsn).run = run
         /\ Accepted(run, isn, peerRun, peerIsn).isn = isn
         /\ Accepted(run, isn, peerRun, peerIsn).peerRun = peerRun
         /\ Accepted(run, isn, peerRun, peerIsn).peerIsn = peerIsn
<1>1. 0 \in 0 .. MaxSent
  BY Numbers
<1>. QED
  BY <1>1 DEF Accepted, Fresh, End

-----------------------------------------------------------------------------
(* The invariant is kept *)

LEMMA IInvInit == Init => IInv
<1>. SUFFICES ASSUME Init
              PROVE  IInv
  OBVIOUS
<1>1. Fresh \in End
  BY Numbers DEF Fresh, End
<1>2. TypeInv
  BY <1>1, Numbers DEF Init, TypeInv
<1>3. EndInv /\ OffsetInv
  BY TwoSides DEF Init, EndInv, OffsetInv, Fresh
<1>4. WireInv
  BY DEF Init, WireInv, CurrentInv, PairInv, PeerInv, Fresh
<1>5. LastInv /\ SameBytes
  BY DEF Init, LastInv, SameBytes, Nothing, Tcp
<1>. QED
  BY <1>2, <1>3, <1>4, <1>5 DEF IInv

\* How the endpoints are numbered in a state.
LEMMA EndTypes ==
  ASSUME IInv
  PROVE  /\ "client" \in Sides /\ "server" \in Sides
         /\ \A s \in Sides : /\ end[s] \in End /\ end[s].run \in Nat /\ end[s].peerRun \in Nat
                             /\ end[s].isn \in Seq32 /\ end[s].isn \in Int
                             /\ end[s].sent \in Nat /\ end[s].got \in Nat
         /\ \A f \in wire : /\ f \in Frames /\ f.from \in Sides /\ f.run \in Nat
                             /\ f.run > 0 /\ f.run <= end[f.from].run /\ f.seq \in Seq32
<1>1. \A s \in Sides : end[s] \in End
  BY DEF IInv, TypeInv
<1>2. \A f \in wire : f \in Frames /\ f.from \in Sides /\ f.run \in 1 .. end[f.from].run /\ f.seq \in Seq32
  BY DEF IInv, TypeInv, WireInv, CurrentInv, Frames
<1>. QED
  BY <1>1, <1>2, EndFields, TwoSides

LEMMA KeptByConnects ==
  ASSUME IInv, NEW isn \in Isns, Connects(isn)
  PROVE  IInv'
<1>. DEFINE e == Opening(end["client"].run + 1, isn)
<1>1. end["client"].run + 1 \in 0 .. MaxRuns /\ isn \in Seq32
  BY EndTypes, Numbers DEF Connects
<1>2. /\ e \in End /\ e.phase = "opening" /\ e.run = end["client"].run + 1 /\ e.isn = isn
      /\ e.peerRun = 0
  BY <1>1, OpeningEnd
<1>3. end' = [end EXCEPT !["client"] = e] /\ Passes(Syn(e)) /\ UNCHANGED <<deployment, hash>>
  BY DEF Connects, Opening
<1>. HIDE DEF e
<1>4. Made(Syn(e), "client", {"syn"}, isn, e.run, 0, 0)
  BY <1>2, MadeSyn DEF IInv
<1>5. EndInv'
  BY <1>2, <1>3, EndTypes, TwoSides DEF IInv, EndInv, TypeInv
<1>6. SendsFrame("client", e, Syn(e))
  BY <1>2, <1>3, <1>4, EndTypes, TwoSides DEF SendsFrame, Made, IsSyn
<1>. QED
  BY <1>2, <1>4, <1>5, <1>6, Sending, EndTypes DEF Made

LEMMA KeptByRepeatsSyn ==
  ASSUME IInv, RepeatsSyn
  PROVE  IInv'
<1>. DEFINE e == end["client"]
<1>1. e \in End /\ e.run > 0 /\ e.isn \in Isns /\ end[Peer("client")].run \in Nat
  BY EndTypes, TwoSides DEF RepeatsSyn, IInv, EndInv
<1>2. Made(Syn(e), "client", {"syn"}, e.isn, e.run, 0, 0)
  BY <1>1, MadeSyn DEF IInv
<1>3. EndInv' /\ end' = [end EXCEPT !["client"] = e]
  BY DEF RepeatsSyn, IInv, EndInv, TypeInv
<1>4. e.peerRun > 0 => \E g \in wire : /\ IsSyn(g) /\ g.from = Peer("client")
                                       /\ g.run = e.peerRun /\ g.seq = e.peerIsn
  BY EndTypes DEF IInv, WireInv, PeerInv
<1>5. SendsFrame("client", e, Syn(e))
  <2>1. 0 <= end[Peer("client")].run /\ "ack" \notin {"syn"}
    BY <1>1
  <2>. QED
    BY <1>1, <1>2, <1>3, <1>4, <2>1 DEF SendsFrame, Made, IsSyn, RepeatsSyn
<1>. QED
  BY <1>1, <1>2, <1>3, <1>5, Sending, EndTypes DEF Made

LEMMA KeptByRepeatsSynAck ==
  ASSUME IInv, RepeatsSynAck
  PROVE  IInv'
<1>. DEFINE e == end["server"]
<1>1. /\ e \in End /\ e.run > 0 /\ e.isn \in Isns
      /\ e.peerRun > 0 /\ e.peerRun <= end[Peer("server")].run
  BY EndTypes, TwoSides DEF RepeatsSynAck, IInv, EndInv
<1>2. Made(SynAck(e), "server", {"syn", "ack"}, e.isn, e.run, e.peerRun, 0)
  BY <1>1, MadeSynAck DEF IInv
<1>3. EndInv' /\ end' = [end EXCEPT !["server"] = e]
  BY DEF RepeatsSynAck, IInv, EndInv, TypeInv
<1>4. e.peerRun > 0 => \E g \in wire : /\ IsSyn(g) /\ g.from = Peer("server")
                                       /\ g.run = e.peerRun /\ g.seq = e.peerIsn
  BY EndTypes DEF IInv, WireInv, PeerInv
<1>5. SendsFrame("server", e, SynAck(e))
  BY <1>1, <1>2, <1>3, <1>4 DEF SendsFrame, Made, IsSyn, RepeatsSynAck
<1>. QED
  BY <1>1, <1>2, <1>3, <1>5, Sending, EndTypes DEF Made

LEMMA KeptByAccepts ==
  ASSUME IInv, NEW isn \in Isns, NEW f \in wire, Accepts(f, isn)
  PROVE  IInv'
<1>. DEFINE e == Accepted(end["server"].run + 1, isn, f.run, f.seq)
<1>1. /\ f.run \in Nat /\ f.run > 0 /\ f.run <= end["client"].run /\ f.seq \in Seq32
      /\ end["client"].run <= MaxRuns
  BY EndTypes DEF Accepts, End
<1>2. end["server"].run + 1 <= f.run /\ end["server"].run \in Nat
  BY <1>1, EndTypes DEF Accepts, IInv, EndInv
<1>3. end["server"].run + 1 \in 0 .. MaxRuns /\ f.run \in 0 .. MaxRuns /\ isn \in Seq32
  BY <1>1, <1>2, EndTypes, Numbers
<1>4. /\ e \in End /\ e.phase = "open" /\ e.run = end["server"].run + 1 /\ e.isn = isn
      /\ e.peerRun = f.run /\ e.peerIsn = f.seq
  BY <1>1, <1>3, AcceptedEnd
<1>5. end' = [end EXCEPT !["server"] = e] /\ Passes(SynAck(e)) /\ UNCHANGED <<deployment, hash>>
  BY DEF Accepts, Accepted
<1>. HIDE DEF e
<1>6. Made(SynAck(e), "server", {"syn", "ack"}, isn, e.run, f.run, 0)
  BY <1>4, MadeSynAck DEF IInv
<1>7. EndInv'
  <2>1. end'["server"] = e /\ end'["client"] = end["client"]
    BY <1>5 DEF IInv, TypeInv, Sides
  <2>2. end["client"].peerRun <= e.run
    BY <1>2, <1>4, EndTypes, TwoSides DEF IInv, EndInv
  <2>. QED
    BY <1>1, <1>2, <1>4, <2>1, <2>2, EndTypes, TwoSides DEF IInv, EndInv
<1>8. \E g \in wire : IsSyn(g) /\ g.from = Peer("server") /\ g.run = e.peerRun /\ g.seq = e.peerIsn
  BY <1>4, TwoSides DEF Accepts, IsSyn
<1>9. SendsFrame("server", e, SynAck(e))
  BY <1>1, <1>2, <1>4, <1>5, <1>6, <1>8, TwoSides DEF SendsFrame, Made, IsSyn
<1>. QED
  BY <1>4, <1>6, <1>7, <1>9, Sending, EndTypes DEF Made

LEMMA KeptByOpens ==
  ASSUME IInv, NEW f \in wire, Opens(f)
  PROVE  IInv'
<1>. DEFINE e == [end["client"] EXCEPT !.phase = "open", !.peerRun = f.run, !.peerIsn = f.seq]
<1>1. /\ f.run \in Nat /\ f.run > 0 /\ f.run <= end["server"].run /\ f.seq \in Seq32
      /\ end["client"] \in End /\ end["server"] \in End
  BY EndTypes DEF Opens
<1>2. f.run \in 0 .. MaxRuns
  BY <1>1, Numbers DEF End
<1>3. /\ e \in End /\ e.phase = "open" /\ e.run = end["client"].run /\ e.isn = end["client"].isn
      /\ e.peerRun = f.run /\ e.peerIsn = f.seq
  BY <1>1, <1>2 DEF End
<1>4. end' = [end EXCEPT !["client"] = e] /\ UNCHANGED <<deployment, hash, connections, wire, last>>
  BY <1>1, ZenonT(30) DEF Opens, IInv, TypeInv, End
<1>. HIDE DEF e
<1>5. end'["client"] = e /\ end'["server"] = end["server"] /\ end' \in [Sides -> End]
  BY <1>3, <1>4 DEF IInv, TypeInv, Sides
<1>6. EndInv'
  <2>1. end["client"].run > 0
    BY EndTypes DEF Opens, IInv, EndInv
  <2>. QED
    BY <1>1, <1>3, <1>5, <2>1, TwoSides DEF IInv, EndInv
<1>7. \A s \in Sides : end'[s].run = end[s].run /\ end'[s].isn = end[s].isn
  BY <1>3, <1>5, TwoSides
<1>8. ASSUME NEW s \in Sides, end'[s].peerRun > 0
      PROVE  \E g \in wire : /\ IsSyn(g) /\ g.from = Peer(s)
                             /\ g.run = end'[s].peerRun /\ g.seq = end'[s].peerIsn
  <2>1. CASE s = "client"
    BY <1>3, <1>5, <2>1, TwoSides DEF Opens, IsSyn
  <2>2. CASE s = "server"
    BY <1>5, <1>8, <2>2 DEF IInv, WireInv, PeerInv
  <2>. QED
    BY <2>1, <2>2 DEF Sides
<1>. QED
  BY <1>4, <1>5, <1>6, <1>7, <1>8, Staying

\* Only the data that was sent is received: it stays within MaxSent.
LEMMA ReceivedWasSent ==
  ASSUME IInv, NEW s \in Sides, NEW f \in wire, Receives(s, f)
  PROVE  end[s].got + 1 \in 0 .. MaxSent
<1>1. /\ end[s].peerRun > 0 /\ end[s].peerIsn \in Seq32 /\ end[s].peerIsn \in Int
      /\ end[s].got \in Nat /\ end[s].got <= MaxSent
  <2>1. end[s] \in End
    BY EndTypes
  <2>. QED
    BY <2>1, EndFields DEF Receives, IInv, EndInv
<1>2. PICK g \in wire : /\ IsSyn(g) /\ g.from = Peer(s) /\ g.run = end[s].peerRun
                        /\ g.seq = end[s].peerIsn
  BY <1>1 DEF IInv, WireInv, PeerInv
<1>3. InPlace(f, end[s].peerIsn) /\ ~IsSyn(f)
  BY <1>2 DEF Receives, IInv, WireInv, PairInv, IsSyn
<1>4. PICK n \in 0 .. MaxSent - 1 : f.seq = Plus(end[s].peerIsn, 1 + n)
  BY <1>3 DEF InPlace
<1>5. f.seq = Plus(end[s].peerIsn, 1 + end[s].got)
  BY DEF Receives
<1>6. MaxSent \in 0 .. W - 1 /\ W \in Nat
  BY WardenAssumption
<1>7. CASE end[s].got = MaxSent
  <2>1. 1 + n \in 1 .. W - 1 /\ 1 + n <= MaxSent
    BY <1>6
  <2>2. CASE 1 + MaxSent < W
    <3>1. 1 + end[s].got \in 0 .. W - 1 /\ 1 + n \in 0 .. W - 1
      BY <1>6, <1>7, <2>1, <2>2
    <3>2. 1 + end[s].got = 1 + n
      BY <1>1, <1>4, <1>5, <3>1, PlusInjective
    <3>. QED
      BY <1>1, <1>7, <2>1, <3>2
  <2>3. CASE 1 + MaxSent = W
    <3>1. W \in Nat \ {0} /\ 0 \in 0 .. W - 1 /\ 1 + n \in 0 .. W - 1
      BY <1>6, <2>1, WardenAssumption
    <3>2. Plus(end[s].peerIsn, W) = Plus(end[s].peerIsn, 0)
      <4>. DEFINE r == end[s].peerIsn
      <4>1. r \in 0 .. W - 1
        BY <1>1 DEF Seq32
      <4>. HIDE DEF r
      <4>2. r + W \in Int /\ r + 0 \in Int /\ r + W = 1 * W + r /\ r + 0 = 0 * W + r
        BY <1>6, <4>1
      <4>3. (r + W) % W = r /\ (r + 0) % W = r
        BY <3>1, <4>1, <4>2, ModIs
      <4>. QED
        BY <4>3 DEF Plus, r
    <3>3. Plus(end[s].peerIsn, 1 + n) = Plus(end[s].peerIsn, 0)
      BY <1>4, <1>5, <1>6, <1>7, <2>3, <3>2
    <3>4. 1 + n = 0
      BY <1>1, <3>1, <3>3, PlusInjective
    <3>. QED
      BY <2>1, <3>4
  <2>. QED
    BY <1>6, <2>2, <2>3
<1>. QED
  BY <1>1, <1>6, <1>7

LEMMA KeptByReceives ==
  ASSUME IInv, NEW s \in Sides, NEW f \in wire, Receives(s, f)
  PROVE  IInv'
<1>. DEFINE e == [end[s] EXCEPT !.got = @ + 1]
<1>1. end[s] \in End /\ end[s].got + 1 \in 0 .. MaxSent
  BY EndTypes, ReceivedWasSent
<1>2. /\ e \in End /\ e.phase = end[s].phase /\ e.run = end[s].run /\ e.isn = end[s].isn
      /\ e.peerRun = end[s].peerRun /\ e.peerIsn = end[s].peerIsn
  BY <1>1 DEF End
<1>3. end' = [end EXCEPT ![s] = e] /\ UNCHANGED <<deployment, hash, connections, wire, last>>
  BY DEF Receives, IInv, TypeInv
<1>. HIDE DEF e
<1>4. end' \in [Sides -> End]
  BY <1>2, <1>3 DEF IInv, TypeInv
<1>5. \A t \in Sides : /\ end'[t].phase = end[t].phase /\ end'[t].run = end[t].run
                       /\ end'[t].isn = end[t].isn /\ end'[t].peerRun = end[t].peerRun
                       /\ end'[t].peerIsn = end[t].peerIsn
  <2>1. end'[s] = e /\ \A t \in Sides : t # s => end'[t] = end[t]
    BY <1>3 DEF IInv, TypeInv
  <2>. QED
    BY <1>2, <2>1
<1>6. EndInv'
  BY <1>5, EndTypes, TwoSides DEF IInv, EndInv
<1>7. \A t \in Sides : end'[t].peerRun > 0 =>
          \E g \in wire : /\ IsSyn(g) /\ g.from = Peer(t)
                          /\ g.run = end'[t].peerRun /\ g.seq = end'[t].peerIsn
  BY <1>5 DEF IInv, WireInv, PeerInv
<1>. QED
  BY <1>3, <1>4, <1>5, <1>6, <1>7, Staying

\* A segment of an open connection, after which the endpoint is e.
LEMMA KeptBySegment ==
  ASSUME IInv, NEW s \in Sides, NEW flags \in {{"ack"}, {"ack", "rst"}}, NEW n \in {0, 1},
         n = 1 => end[s].sent < MaxSent, end[s].phase = "open",
         NEW e \in End, e.run = end[s].run, e.isn = end[s].isn, e.peerRun = end[s].peerRun,
         e.peerIsn = end[s].peerIsn,
         end' = [end EXCEPT ![s] = e], UNCHANGED <<deployment, hash>>,
         Passes(Segment(s, flags, Plain(n)))
  PROVE  IInv'
<1>. DEFINE f == Segment(s, flags, Plain(n))
<1>1. end[s] \in End /\ end[s].run > 0 /\ end[s].isn \in Isns /\ end[s].sent \in Nat
      /\ end[s].peerRun > 0 /\ end[s].peerRun <= end[Peer(s)].run
  BY EndTypes DEF IInv, EndInv
<1>2. Made(f, s, flags, Plus(end[s].isn, 1 + end[s].sent), end[s].run, end[s].peerRun, n)
  <2>1. flags \in SUBSET {"syn", "ack", "rst"}
    OBVIOUS
  <2>. QED
    BY <2>1, MadeSegment DEF IInv
<1>3. "syn" \notin flags /\ "urg" \notin flags
  OBVIOUS
<1>. HIDE DEF f
<1>4. end'[s] = e /\ \A t \in Sides : t # s => end'[t] = end[t]
  BY DEF IInv, TypeInv
<1>5. EndInv'
  <2>1. \A t \in Sides : /\ end'[t].run = end[t].run /\ end'[t].isn = end[t].isn
                         /\ end'[t].peerRun = end[t].peerRun
                         /\ end'[t].phase # "closed" => end'[t].run > 0
                         /\ end'[t].phase = "open" => end'[t].peerRun > 0
    BY <1>1, <1>4 DEF IInv, EndInv
  <2>. QED
    BY <2>1, TwoSides DEF IInv, EndInv
<1>6. e.peerRun > 0 => \E g \in wire : /\ IsSyn(g) /\ g.from = Peer(s)
                                       /\ g.run = e.peerRun /\ g.seq = e.peerIsn
  BY <1>1 DEF IInv, WireInv, PeerInv
<1>7. Payload(f) > 0 => \E m \in 0 .. MaxSent - 1 : f.seq = Plus(e.isn, 1 + m)
  <2>. SUFFICES ASSUME Payload(f) > 0
                PROVE  \E m \in 0 .. MaxSent - 1 : f.seq = Plus(e.isn, 1 + m)
    OBVIOUS
  <2>1. n = 1
    BY <1>2 DEF Made
  <2>2. end[s].sent \in 0 .. MaxSent - 1
    BY <1>1, <2>1, Numbers
  <2>. QED
    BY <1>2, <2>2 DEF Made
<1>8. Passes(f)
  BY DEF f
<1>9. f \in Frames /\ ~IsSyn(f) /\ f.kind = "tcp" /\ f.from = s /\ f.run = e.run /\ "urg" \notin f.flags
      /\ WellFormed(f) /\ f.peerRun <= end[Peer(s)].run /\ f.peerRun > 0
  BY <1>1, <1>2, <1>3 DEF Made, IsSyn
<1>10. SendsFrame(s, e, f)
  BY <1>1, <1>6, <1>7, <1>8, <1>9 DEF SendsFrame
<1>. QED
  BY <1>5, <1>9, <1>10, Sending

LEMMA KeptBySends ==
  ASSUME IInv, NEW s \in Sides, NEW n \in {0, 1}, Sends(s, n)
  PROVE  IInv'
<1>. DEFINE e == [end[s] EXCEPT !.sent = @ + n]
<1>1. end[s] \in End /\ end[s].sent \in Nat /\ end[s].sent + n <= MaxSent /\ end[s].phase = "open"
  BY EndTypes DEF Sends
<1>2. end[s].sent + n \in 0 .. MaxSent /\ (n = 1 => end[s].sent < MaxSent)
  BY <1>1, Numbers
<1>3. /\ e \in End /\ e.run = end[s].run /\ e.isn = end[s].isn /\ e.peerRun = end[s].peerRun
      /\ e.peerIsn = end[s].peerIsn
  BY <1>1, <1>2 DEF End
<1>4. end' = [end EXCEPT ![s] = e] /\ UNCHANGED <<deployment, hash>>
      /\ Passes(Segment(s, {"ack"}, Plain(n)))
  BY DEF Sends, IInv, TypeInv
<1>. HIDE DEF e
<1>5. {"ack"} \in {{"ack"}, {"ack", "rst"}}
  OBVIOUS
<1>. QED
  BY <1>1, <1>2, <1>3, <1>4, <1>5, KeptBySegment

LEMMA KeptByResets ==
  ASSUME IInv, NEW s \in Sides, Resets(s)
  PROVE  IInv'
<1>. DEFINE e == [end[s] EXCEPT !.phase = "closed"]
<1>1. end[s] \in End /\ end[s].phase = "open"
  BY EndTypes DEF Resets
<1>2. /\ e \in End /\ e.run = end[s].run /\ e.isn = end[s].isn /\ e.peerRun = end[s].peerRun
      /\ e.peerIsn = end[s].peerIsn
  BY <1>1 DEF End
<1>3. end' = [end EXCEPT ![s] = e] /\ UNCHANGED <<deployment, hash>>
      /\ Passes(Segment(s, {"ack", "rst"}, Plain(0)))
  BY DEF Resets, IInv, TypeInv
<1>. HIDE DEF e
<1>4. {"ack", "rst"} \in {{"ack"}, {"ack", "rst"}} /\ 0 \in {0, 1} /\ 0 # 1
  OBVIOUS
<1>. QED
  BY <1>1, <1>2, <1>3, <1>4, KeptBySegment

LEMMA KeptByStrays ==
  ASSUME IInv, NEW kind \in {"other", "udp", "arp", "runt"}, NEW s \in Sides, NEW shape \in Shapes,
         NEW flags \in {{"syn"}, {"syn", "ack"}, {"ack"}, {"ack", "rst"}}, Strays(kind, s, flags, shape)
  PROVE  IInv'
<1>. DEFINE seq == CHOOSE isn \in Isns : TRUE
            f == Frame(kind, s, flags, seq, 0, shape, 0)
<1>1. seq \in Isns /\ seq \in Seq32 /\ 0 \in Seq32
  <2>1. seq \in Isns
    BY WardenAssumption
  <2>. QED
    BY <2>1, Numbers
<1>2. Passes(f) /\ UNCHANGED <<deployment, hash, end>>
  BY DEF Strays
<1>. HIDE DEF seq
<1>3. end[s].run \in Nat /\ kind \in {"tcp", "other", "udp", "arp", "runt"} /\ 0 \in Nat
      /\ flags \in SUBSET {"syn", "ack", "rst"}
  BY EndTypes
<1>4. f \in Frames /\ WellFormed(f) /\ f.kind = kind /\ f.seq = seq
  <2>. DEFINE zero == 0
  <2>1. zero \in Seq32 /\ zero \in Nat
    BY <1>1
  <2>2. f = Frame(kind, s, flags, seq, zero, shape, zero)
    OBVIOUS
  <2>. HIDE DEF zero, f
  <2>3. /\ Frame(kind, s, flags, seq, zero, shape, zero) \in Frames
        /\ WellFormed(Frame(kind, s, flags, seq, zero, shape, zero))
        /\ Frame(kind, s, flags, seq, zero, shape, zero).kind = kind
        /\ Frame(kind, s, flags, seq, zero, shape, zero).seq = seq
    BY <1>1, <1>3, <2>1, BuiltFrame, SMTT(30)
  <2>. QED
    BY <2>2, <2>3
<1>. HIDE DEF f
<1>5. /\ last'.in = f /\ SameBytes' /\ UNCHANGED <<connections, wire>>
      /\ (Tcp(last.out) => last.out.seq \in Seq32 /\ last.out.ack \in Seq32)'
  BY <1>1, <1>2, <1>4, PassedFrame DEF IInv
<1>6. TypeInv' /\ EndInv' /\ OffsetInv' /\ PairInv'
  BY <1>2, <1>5 DEF IInv, TypeInv, EndInv, OffsetInv, WireInv, PairInv
<1>7. CurrentInv' /\ PeerInv'
  <2>1. \A t : WireIsn(t)' = WireIsn(t)
    BY <1>2 DEF WireIsn
  <2>. QED
    BY <1>2, <1>5, <2>1 DEF IInv, WireInv, CurrentInv, PeerInv
<1>8. LastInv'
  BY <1>4, <1>5 DEF LastInv
<1>. QED
  BY <1>5, <1>6, <1>7, <1>8 DEF IInv, WireInv

LEMMA IInvNext == IInv /\ [Next]_vars => IInv'
<1>. SUFFICES ASSUME IInv, [Next]_vars
              PROVE  IInv'
  OBVIOUS
<1>1. ASSUME NEW isn \in Isns, Connects(isn)
      PROVE  IInv'
  BY <1>1, KeptByConnects
<1>2. ASSUME NEW isn \in Isns, NEW f \in wire, Accepts(f, isn)
      PROVE  IInv'
  BY <1>2, KeptByAccepts
<1>3. CASE RepeatsSyn
  BY <1>3, KeptByRepeatsSyn
<1>4. CASE RepeatsSynAck
  BY <1>4, KeptByRepeatsSynAck
<1>5. ASSUME NEW f \in wire, Opens(f)
      PROVE  IInv'
  BY <1>5, KeptByOpens
<1>6. ASSUME NEW f \in wire, NEW s \in Sides, Receives(s, f)
      PROVE  IInv'
  BY <1>6, KeptByReceives
<1>7. ASSUME NEW s \in Sides, Resets(s)
      PROVE  IInv'
  BY <1>7, KeptByResets
<1>8. ASSUME NEW s \in Sides, NEW n \in {0, 1}, Sends(s, n)
      PROVE  IInv'
  BY <1>8, KeptBySends
<1>9. ASSUME NEW kind \in {"other", "udp", "arp", "runt"}, NEW s \in Sides, NEW shape \in Shapes,
             NEW flags \in {{"syn"}, {"syn", "ack"}, {"ack"}, {"ack", "rst"}},
             Strays(kind, s, flags, shape)
      PROVE  IInv'
  BY <1>9, KeptByStrays
<1>10. CASE UNCHANGED vars
  BY <1>10 DEF vars, IInv, TypeInv, EndInv, OffsetInv, WireInv, CurrentInv, PairInv, PeerInv, LastInv,
               SameBytes, SameDistance, WireIsn
<1>. QED
  BY <1>1, <1>2, <1>3, <1>4, <1>5, <1>6, <1>7, <1>8, <1>9, <1>10 DEF Next

-----------------------------------------------------------------------------
(* What the invariant says of the properties *)

LEMMA IInvType == IInv => TypeOK
<1>. SUFFICES ASSUME IInv
              PROVE  TypeOK
  OBVIOUS
<1>1. \A s \in Sides : end[s] \in End
  BY EndTypes
<1>2. \A f \in wire : f.seq \in Seq32 /\ f.ack \in Seq32
  BY DEF IInv, TypeInv, Frames
<1>3. Tcp(last.out) => last.out.seq \in Seq32 /\ last.out.ack \in Seq32
  BY DEF IInv, LastInv
<1>4. deployment \in {"recorded", "inline"} /\ connections \in [Sides -> Seq32]
  BY DEF IInv, TypeInv
<1>. QED
  BY <1>1, <1>2, <1>3, <1>4 DEF TypeOK, End

LEMMA IInvFlow == IInv => FlowKept
BY DEF IInv, LastInv, FlowKept, SameDistance

LEMMA SpecKeepsIInv == Spec => []IInv
<1>1. Init => IInv
  BY IInvInit
<1>2. IInv /\ [Next]_vars => IInv'
  BY IInvNext
<1>. QED
  BY <1>1, <1>2, PTL DEF Spec

(* Every number of the connections, of a frame that reached the other side *)
(* and of a normalised one is of the 32-bit sequence space: no shift of    *)
(* NormalizeTcp (warden.py) leaves it.                                     *)
THEOREM TypeCorrect == Spec => []TypeOK
BY SpecKeepsIInv, IInvType, PTL

(* The capture tells the same story as the link, for every sequence space, *)
(* keyed hash and number of connections on the same 4-tuple: a shift is    *)
(* that of the sender's present connection (_normalize_tcp, _new_isn).     *)
THEOREM FlowIsKept == Spec => []FlowKept
BY SpecKeepsIInv, IInvFlow, PTL

(* Data is found in a normalised frame where it was, for frames of every   *)
(* layout: _normalize_ip, _normalize_tcp correct the lengths consistently. *)
THEOREM BytesAreKept == Spec => []SameBytes
<1>1. IInv => SameBytes
  BY DEF IInv
<1>. QED
  BY <1>1, SpecKeepsIInv, PTL

=============================================================================
