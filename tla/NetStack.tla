---------------------------- MODULE NetStack ----------------------------
(***************************************************************************)
(* The deterministic net stack of modules/network/networkdet: one frame     *)
(* builder per connection, the capture ring they share, the simulated and   *)
(* the DPDK backend, and below the latter libnetdet, the C library that     *)
(* puts the buffered frames on the wire in one burst.  A process creates a  *)
(* stack, gives it requests and responses, flushes it, and closes it.       *)
(*                                                                          *)
(* A frame is kept as the fields the builder computes: connection, sequence *)
(* number, IP identification, PSH, and the chunk of the payload it carries. *)
(* The header fields that are constants, and the checksums over the rest,   *)
(* follow from these.  A digest stands for the sequence of frames hashed,   *)
(* as the singleton set of it; the empty set is the all-zero digest of a    *)
(* result that no hash was computed for.                                    *)
(***************************************************************************)
EXTENDS Integers, Sequences, FiniteSets, FiniteSetsExt

CONSTANTS
    Conns,        \* connection indices
    Contents,     \* payloads a caller hands over
    Lengths,      \* their lengths
    MSS,          \* payload bytes a segment holds (config.mss)
    SeqSpace,       \* 2^32: TCP sequence numbers
    IdSpace,        \* 2^16: IP identifications, and the burst count of DPDK
    Isns,         \* initial sequence numbers the run id may hash to
    PoolSize,     \* mbufs of libnetdet's pool (POOL_SIZE)
    RxRing,       \* those the port's receive queue holds (RX_RING_SIZE)
    MaxPayloads,  \* bound: payloads a stack is given
    MaxStacks     \* bound: stacks one process creates

ASSUME NetStackAssumption ==
    /\ MSS \in Nat \ {0} /\ SeqSpace \in Nat \ {0} /\ IdSpace \in Nat \ {0}
    /\ Isns \subseteq 0 .. SeqSpace - 1 /\ Lengths \subseteq Nat
    /\ PoolSize \in 0 .. IdSpace - 1      \* 8191 and 2^16: no burst is cut
    /\ RxRing \in 0 .. PoolSize
    /\ MaxPayloads \in Nat /\ MaxStacks \in Nat

VARIABLES
    isn,       \* what deterministic_isn yields for each connection
    backend,   \* "none" (no stack yet), "sim", "dpdk" or "closed"
    builders,  \* the builder of each connection that has one
    ring,      \* CaptureRing: copies of all frames built
    buffer,    \* the DPDK backend's frames not flushed yet
    wire,      \* frames this stack has put on the wire (sim: its queue)
    report,    \* the last flush's TxReport, as a set of at most one
    eal,       \* "fresh", "up" or "spent": the process's one DPDK EAL
    pool,      \* free mbufs
    inflight,  \* mbufs the driver has accepted and not released
    stacks,    \* how many stacks the process has created
    given,     \* history: what each connection was asked to send
    offered,   \* history: the buffer as the last flush found it
    arrived,   \* what a loopback cable has brought back and nobody read
    clean      \* history: all flushes matched and confirmed what they took

netVars == <<isn, backend, builders, ring, buffer, wire, report, eal, pool,
             inflight, stacks, given, offered, arrived, clean>>

Payload == [content : Contents, len : Lengths]
Frame   == [conn : Conns, seq : 0 .. SeqSpace - 1, ipId : 0 .. IdSpace - 1,
            psh : BOOLEAN, content : Contents, off : Nat, len : Nat]
Open    == backend \in {"sim", "dpdk"}

Digest(frames) == {frames}
ZeroDigest     == {}

-----------------------------------------------------------------------------
(* Building frames *)

\* A new builder: the connection's hashed ISN, IP identification from 0.
NewBuilder(c) == [seq |-> isn[c], ipId |-> 0]

GetBuilder(c) == IF c \in DOMAIN builders THEN builders[c] ELSE NewBuilder(c)

Segments(len) == (len + MSS - 1) \div MSS

\* _wrap_frame and _build_segment: the i-th chunk of payload p.
BuildFrame(c, b, p, i) ==
    LET off == (i - 1) * MSS
        len == IF p.len - off < MSS THEN p.len - off ELSE MSS
    IN  [conn |-> c, seq |-> (b.seq + off) % SeqSpace,
         ipId |-> (b.ipId + i - 1) % IdSpace, psh |-> off + len >= p.len,
         content |-> p.content, off |-> off, len |-> len]

\* segment_data: an empty payload has no segment at all.
BuildDataFrames(c, b, p) ==
    [i \in 1 .. Segments(p.len) |-> BuildFrame(c, b, p, i)]

\* For a mutant: one counter too few.
AdvanceStale(b, p) == [seq |-> (b.seq + (p.len \div MSS) * MSS) % SeqSpace,
                       ipId |-> (b.ipId + Segments(p.len)) % IdSpace]

\* What the builder's counters are once p is cut.
Advance(b, p) == [seq |-> (b.seq + p.len) % SeqSpace,
                  ipId |-> (b.ipId + Segments(p.len)) % IdSpace]

\* send_frame: the sim backend queues the frames, the DPDK one buffers them.
SendFrames(frames) ==
    /\ wire'   = IF backend = "sim" THEN wire \o frames ELSE wire
    /\ buffer' = IF backend = "dpdk" THEN buffer \o frames ELSE buffer

\* The payloads ps of connection c have become frames: captured and sent.
Emit(c, ps, frames, builder) ==
    /\ Open
    /\ MapThenSumSet(LAMBDA x : Len(given[x]), Conns) + Len(ps) <= MaxPayloads
    /\ builders' = [x \in DOMAIN builders \cup {c} |->
                      IF x = c THEN builder ELSE builders[x]]
    /\ ring'  = ring \o frames
    /\ given' = [given EXCEPT ![c] = @ \o ps]
    /\ SendFrames(frames)
    /\ UNCHANGED <<isn, backend, report, eal, pool, inflight, stacks,
                   offered, arrived, clean>>

\* process_response.  The warden check that DPDK adds passes: these frames
\* carry no option, urgent pointer, reserved bit or non-zero padding.
ProcessResponse(c, p) ==
    LET b == GetBuilder(c)
    IN  Emit(c, <<p>>, BuildDataFrames(c, b, p), Advance(b, p))

\* process_exchange: the request is framed by the same builder, so it uses up
\* sequence numbers of the outbound stream.
ProcessExchange(c, p, q) ==
    LET b == GetBuilder(c)
    IN  Emit(c, <<p, q>>,
             BuildDataFrames(c, b, p) \o BuildDataFrames(c, Advance(b, p), q),
             Advance(Advance(b, p), q))

-----------------------------------------------------------------------------
(* Creating and closing a stack *)

\* DeterministicNetStack.__init__: empty ring, no builder, backend started.
Fresh(kind) ==
    /\ backend' = kind
    /\ builders' = <<>> /\ ring' = <<>> /\ buffer' = <<>> /\ wire' = <<>>
    /\ report' = {} /\ offered' = <<>> /\ arrived' = <<>> /\ clean' = TRUE
    /\ given' = [c \in Conns |-> <<>>]
    /\ stacks' = stacks + 1
    /\ UNCHANGED isn

CreateSim ==
    /\ ~Open /\ stacks < MaxStacks
    /\ Fresh("sim")
    /\ UNCHANGED <<eal, pool, inflight>>

\* netdet_init: DPDK's EAL starts once in a process, with a new pool, of which
\* the receive queue fills its descriptors; a frame read is replaced there.
CreateDpdk ==
    /\ ~Open /\ stacks < MaxStacks
    /\ eal = "fresh"
    /\ Fresh("dpdk")
    /\ eal' = "up" /\ pool' = PoolSize - RxRing /\ inflight' = 0

\* netdet_init gives NULL: the port could not be set up, or the EAL has been
\* cleaned up before.  No stack is made.
CreateFails ==
    /\ ~Open /\ stacks < MaxStacks
    /\ eal' \in {eal, "spent"}
    /\ stacks' = stacks + 1
    /\ UNCHANGED <<isn, backend, builders, ring, buffer, wire, report, pool,
                   inflight, given, offered, arrived, clean>>

\* close: frames still buffered are dropped.
Close ==
    /\ Open
    /\ backend' = "closed"
    /\ buffer' = <<>>
    /\ wire' = IF backend = "sim" THEN <<>> ELSE wire
    /\ eal' = IF backend = "dpdk" THEN "spent" ELSE eal
    /\ UNCHANGED <<isn, builders, ring, report, pool, inflight, stacks, given,
                   offered, arrived, clean>>

-----------------------------------------------------------------------------
(* Flushing: netdet_send and the report made of its result *)

\* rte_eth_tx_burst accepts any prefix of the burst; count is cut to 16 bits.
Accepts(count) == 0 .. (count % IdSpace)

\* For a mutant: what the burst refused is not reported as submitted.
SendResultAccepted(frames, n) ==
    [submitted |-> n, confirmed |-> n,
     digest |-> Digest(SubSeq(frames, 1, n)),
     freed |-> (Len(frames) % IdSpace) - n]

\* For a mutant: the refused mbufs are never freed.
SendResultLeaks(frames, n) ==
    [submitted |-> Len(frames), confirmed |-> n,
     digest |-> Digest(SubSeq(frames, 1, n)), freed |-> 0]

\* netdet_send on `count` frames of which the burst accepts n.  mbufs that
\* were not accepted are freed, but only up to the 16-bit count.
SendResult(frames, n) ==
    [submitted |-> Len(frames), confirmed |-> n,
     digest |-> Digest(SubSeq(frames, 1, n)),
     freed |-> (Len(frames) % IdSpace) - n]

\* The pool runs dry at a frame: all mbufs are freed, nothing is sent, and
\* the result keeps the zero digest.
ExhaustedResult == [submitted |-> pool, confirmed |-> 0,
                    digest |-> ZeroDigest, freed |-> 0]

\* flush: the pre-enqueue digest covers only the frames confirmed.
TxReport(res) ==
    [pre |-> Digest(SubSeq(buffer, 1, res.confirmed)), done |-> res.digest,
     submitted |-> res.submitted, confirmed |-> res.confirmed, rx |-> {}]

\* TxReport.match: what was received must also be what was sent, if known.
Match(r) == r.pre = r.done /\ (r.rx # {} => r.done = r.rx)

\* The report and the buffer after netdet_send returned res.
Reports(res) ==
    /\ report'  = {TxReport(res)}
    /\ offered' = buffer
    /\ clean'   = (clean /\ Match(TxReport(res)) /\ res.confirmed = res.submitted)
    /\ wire'    = wire \o SubSeq(buffer, 1, res.confirmed)
    /\ arrived' = arrived \o SubSeq(buffer, 1, res.confirmed)
    /\ buffer'  = <<>>
    /\ UNCHANGED <<isn, backend, builders, ring, eal, stacks, given>>

Flush ==
    /\ backend = "dpdk" /\ buffer # <<>>
    /\ Len(buffer) <= pool
    /\ \E n \in Accepts(Len(buffer)) :
         LET res == SendResult(buffer, n)
         IN  /\ Reports(res)
             /\ pool' = pool - Len(buffer) + res.freed
             /\ inflight' = inflight + n

FlushExhausted ==
    /\ backend = "dpdk" /\ buffer # <<>>
    /\ Len(buffer) > pool
    /\ Reports(ExhaustedResult)
    /\ UNCHANGED <<pool, inflight>>

\* flush with nothing to send, and the simulated backend's, return None.
FlushNothing ==
    /\ Open /\ (backend = "sim" \/ buffer = <<>>)
    /\ report' = {}
    /\ UNCHANGED <<isn, backend, builders, ring, buffer, wire, eal, pool,
                   inflight, stacks, given, offered, arrived, clean>>

\* The driver releases the mbufs of frames it has transmitted.
DriverReleases ==
    /\ eal = "up" /\ inflight > 0
    /\ pool' = pool + inflight /\ inflight' = 0
    /\ UNCHANGED <<isn, backend, builders, ring, buffer, wire, report, eal,
                   stacks, given, offered, arrived, clean>>

\* recv_loopback: what came back within the time limit, some of it lost, all
\* hashed; the caller adds the digest to the report of the last flush.
RecvLoopback ==
    /\ backend = "dpdk" /\ report # {}
    /\ \E lost \in SUBSET (1 .. Len(arrived)) :
         LET got == [i \in 1 .. Len(arrived) |-> <<i, arrived[i]>>]
             kept == SelectSeq(got, LAMBDA e : e[1] \notin lost)
         IN  report' = {[r EXCEPT !.rx = Digest([i \in 1 .. Len(kept) |-> kept[i][2]])]
                          : r \in report}
    /\ arrived' = <<>>
    /\ UNCHANGED <<isn, backend, builders, ring, buffer, wire, eal, pool,
                   inflight, stacks, given, offered, clean>>

-----------------------------------------------------------------------------

NetInit ==
    /\ isn \in [Conns -> Isns]
    /\ backend = "none" /\ builders = <<>> /\ ring = <<>> /\ buffer = <<>>
    /\ wire = <<>> /\ report = {} /\ eal = "fresh" /\ pool = 0 /\ inflight = 0
    /\ stacks = 0 /\ given = [c \in Conns |-> <<>>] /\ offered = <<>>
    /\ arrived = <<>> /\ clean = TRUE

NetNext ==
    \/ CreateSim \/ CreateDpdk \/ CreateFails \/ Close
    \/ \E c \in Conns, p \in Payload : ProcessResponse(c, p)
    \/ \E c \in Conns, p, q \in Payload : ProcessExchange(c, p, q)
    \/ Flush \/ FlushExhausted \/ FlushNothing \/ DriverReleases \/ RecvLoopback

NetSpec == NetInit /\ [][NetNext]_netVars

-----------------------------------------------------------------------------
(* Properties *)

\* Types.  The last conjunct is the pool's account: as long as the EAL is up
\* every mbuf is free or with one of the driver's queues; netdet_send leaks none
\* on any path.
NetTypeOK ==
    /\ backend \in {"none", "sim", "dpdk", "closed"}
    /\ ring \in Seq(Frame) /\ buffer \in Seq(Frame) /\ wire \in Seq(Frame)
    /\ \A c \in DOMAIN builders : builders[c] \in [seq : 0 .. SeqSpace - 1,
                                                   ipId : 0 .. IdSpace - 1]
    /\ eal \in {"fresh", "up", "spent"}
    /\ eal = "up" => pool + inflight = PoolSize - RxRing

\* The elements of s that are in keep, in order: upTo[n] are those among the
\* first n.  (A recursive function, of which facts can be proved.)
UpTo(s, keep) ==
    LET upTo[n \in 0 .. Len(s)] ==
            IF n = 0 THEN <<>>
            ELSE IF s[n] \in keep THEN Append(upTo[n - 1], s[n]) ELSE upTo[n - 1]
    IN  upTo

Where(s, keep) == UpTo(s, keep)[Len(s)]

OfConn(c) == Where(ring, {f \in Frame : f.conn = c})

\* fs are the frames of a connection whose ISN is start and that was given the
\* payloads ps.
Rebuilds(start, fs, ps) ==
    LET sent == Where(ps, {p \in Payload : p.len > 0})
        ends == Where(fs, {f \in Frame : f.psh})
    IN  /\ \A i \in 1 .. Len(fs) :
             /\ fs[i].seq = IF i = 1 THEN start
                            ELSE (fs[i - 1].seq + fs[i - 1].len) % SeqSpace
             /\ fs[i].ipId = (i - 1) % IdSpace
             /\ fs[i].len \in 1 .. MSS
             /\ fs[i].off = IF i = 1 \/ fs[i - 1].psh THEN 0
                            ELSE fs[i - 1].off + fs[i - 1].len
        /\ Len(ends) = Len(sent)
        /\ \A k \in 1 .. Len(ends) :
             ends[k].content = sent[k].content /\ ends[k].off + ends[k].len = sent[k].len

\* The frames of a connection are a function of that connection's payloads
\* alone, however the connections interleave: each frame starts where the one
\* before it ended, mod 2^32, IP identifications count up, mod 2^16, PSH marks
\* the end of a payload, and the chunks put together are the payloads given,
\* in order.  (tcp.py segment_data, ip.py build_packet, frame.py)
StreamRebuilds == \A c \in Conns : Rebuilds(isn[c], OfConn(c), given[c])

\* The run bundle publishes the capture ring and the TxReport side by side.
\* As long as every report said match with as many frames confirmed as
\* submitted, the ring is what went out, in order, and what is still buffered.
\* (backend_dpdk.py flush, netdet.c netdet_send, backend_sim.py send_frame)
EgressIsCaptured == Open /\ clean => ring = wire \o buffer
=============================================================================
