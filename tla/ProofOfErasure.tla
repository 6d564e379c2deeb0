--------------------------- MODULE ProofOfErasure ---------------------------
(***************************************************************************)
(* The proof of secure erasure of modules/memory/pose: compute_ceilings    *)
(* decides how much of DRAM, GPU memory and disk is filled, run_protocol   *)
(* streams noise into the regions, chunk by chunk, and then challenges     *)
(* blocks drawn at random.  The noise is one AES-CTR stream: block i       *)
(* starts at counter i * AesPerBlock, whoever generates it, so a block is  *)
(* modelled by the counter it starts at.  With "devurandom" the noise is a *)
(* file that parallel dd processes write first.                            *)
(*                                                                         *)
(* Failures: a write to the disk region may be short (os.write's result is *)
(* not looked at), a dd may stop (nor is its exit status, when there are   *)
(* several), and a copy or a call may raise, which ends the run.           *)
(* Sizes are in blocks (4096 bytes).                                       *)
(***************************************************************************)
EXTENDS Integers, FiniteSets, FiniteSetsExt

CONSTANTS
    MaxBlocks,    \* bound: blocks of a region
    Chunk,        \* blocks of a chunk (256 MiB; 16 MiB in fill_region)
    AesPerBlock,  \* AES blocks in a block (block_size // 16)
    NumCores,     \* dd processes
    Rounds,       \* num_rounds
    MaxFaults     \* bound: short writes and dd processes that stop

ASSUME PoseAssumption ==
    /\ {MaxBlocks, Rounds, MaxFaults} \subseteq Nat
    /\ {Chunk, AesPerBlock, NumCores} \subseteq Nat \ {0}

VARIABLES
    free,        \* of each region: blocks that are free
    used,        \* and blocks that are not
    how,         \* where the noise comes from and how it is stored
    phase,
    file,        \* what the blocks of the noise file hold
    dd,          \* blocks each dd has written
    memory,      \* of each region: what its blocks hold
    region,      \* the region being filled, by its place
    filled,      \* blocks of it that have been streamed
    wiped,       \* wiped_bytes of the RegionMetrics so far
    challenged,  \* blocks challenged (history)
    rounds,      \* rounds so far
    passed,      \* rounds_passed
    faults       \* failures so far (history)

node == <<free, used, how>>
poseVars == <<node, phase, file, dd, memory, region, filled, wiped, challenged, rounds, passed, faults>>

Regions == {"dram", "hbm", "nvme"}

Place == [dram |-> 1, hbm |-> 2, nvme |-> 3]

RegionAt(place) == CHOOSE r \in Regions : Place[r] = place

Old == -1     \* what a block held before

Zero == -2    \* what a new file holds

-----------------------------------------------------------------------------
(* compute_ceilings: a fraction of the DRAM there is, and of the GPU       *)
(* memory and disk that are free (here, all but one block).                *)
Wipeable(r) ==
    LET ceiling == free[r] + (IF r = "dram" THEN used[r] ELSE 0)
    IN  IF ceiling = 0 THEN 0 ELSE ceiling - 1

\* A sum over the regions.
Total(of) == of["dram"] + of["hbm"] + of["nvme"]

BlocksBefore(place) == Total([r \in Regions |-> IF Place[r] < place THEN Wipeable(r) ELSE 0])

TotalBlocks == BlocksBefore(4)

(* The Prover's offsets, by insertion order.                               *)
Offset(r) == BlocksBefore(Place[r])

(* MemoryMap.resolve.                                                      *)
Resolve(i) ==
    LET hbmStart == Wipeable("dram")  nvmeStart == hbmStart + Wipeable("hbm")
    IN  CASE i < hbmStart -> <<"dram", i>>
          [] i \in hbmStart .. nvmeStart - 1 -> <<"hbm", i - hbmStart>>
          [] i >= nvmeStart -> <<"nvme", i - nvmeStart>>

-----------------------------------------------------------------------------
(* Noise.                                                                  *)

(* generate_block: the counter an index gives.                             *)
GenerateBlock(i) == i * AesPerBlock

(* generate_blocks: block p of the stream from block start.                *)
GenerateBlocks(start, p) == start * AesPerBlock + p * AesPerBlock

(* generate_noise_bulk: one cipher for a region, chunk after chunk.        *)
(* Mutant: the cipher starts at the block number, not at its counter.      *)
StartsAtBlock(start, done, p) == start + (done + p) * AesPerBlock

BulkNoise(start, done, p) == start * AesPerBlock + (done + p) * AesPerBlock

(* generate_noise_multicore: a cipher of its own for every chunk, and the  *)
(* chunks in order (imap).                                                 *)
MulticoreNoise(start, done, p) == GenerateBlocks(start + done, p)

-----------------------------------------------------------------------------
(* The noise file of devurandom.py.                                        *)

PerCore ==
    LET share == ((TotalBlocks \div NumCores) \div Chunk) * Chunk
    IN  IF share = 0 THEN Chunk ELSE share

Processes == IF (TotalBlocks \div NumCores) \div Chunk = 0 THEN 1 ELSE NumCores

(* A file of less than a chunk is one dd, whose failure raises.            *)
Pregenerates ==
    /\ phase = "pregen"
    /\ TotalBlocks \in 1 .. Chunk - 1
    /\ file' = [i \in 0 .. TotalBlocks - 1 |-> GenerateBlock(i)]
    /\ phase' = "fill"
    /\ UNCHANGED <<node, dd, memory, region, filled, wiped, challenged, rounds, passed, faults>>

(* Process k writes its next chunk.                                        *)
DdWrites(k) ==
    /\ phase = "pregen" /\ TotalBlocks >= Chunk
    /\ k < Processes /\ dd[k] < PerCore
    /\ dd' = [dd EXCEPT ![k] = @ + Chunk]
    /\ file' = [i \in 0 .. TotalBlocks - 1 |->
                   IF i - k * PerCore \in dd[k] .. dd[k] + Chunk - 1 THEN GenerateBlock(i)
                   ELSE file[i]]
    /\ UNCHANGED <<node, phase, memory, region, filled, wiped, challenged, rounds, passed, faults>>

DdStops(k) ==
    /\ phase = "pregen" /\ TotalBlocks >= Chunk
    /\ k < Processes /\ dd[k] < PerCore /\ faults < MaxFaults
    /\ dd' = [dd EXCEPT ![k] = PerCore]
    /\ faults' = faults + 1
    /\ UNCHANGED <<node, phase, file, memory, region, filled, wiped, challenged, rounds, passed>>

(* The processes have been waited for, and the file is cut to its size.    *)
Truncates ==
    /\ phase = "pregen" /\ TotalBlocks >= Chunk
    /\ \A k \in 0 .. Processes - 1 : dd[k] >= PerCore
    /\ phase' = "fill"
    /\ UNCHANGED <<node, file, dd, memory, region, filled, wiped, challenged, rounds, passed,
                   faults>>

PregenUrandom ==
    Pregenerates \/ Truncates \/ \E k \in 0 .. NumCores - 1 : DdWrites(k) \/ DdStops(k)

StreamFromFile(start, done, p) == file[start + done + p]

-----------------------------------------------------------------------------
(* Fill and challenge.                                                     *)

(* write_range of the regions: the first stored blocks get there.  All of  *)
(* them in memory; any number on a disk that fills up.                     *)
WriteRange(r, local, noise, stored) ==
    memory' = [memory EXCEPT ![r] = [i \in 0 .. Wipeable(r) - 1 |->
                  IF i - local \in 0 .. stored - 1 THEN noise[i - local] ELSE @[i]]]

DramWrites(local, noise, n) == WriteRange("dram", local, noise, n)

HbmWrites(local, noise, n) == WriteRange("hbm", local, noise, n)

NvmeWrites(local, noise, n, stored) == stored \in 0 .. n /\ WriteRange("nvme", local, noise, stored)

(* The four ways of the Prover: fill_region_bulk (from one core or more,   *)
(* or the file), fill_region's batches, and fill's single blocks, which    *)
(* take the next of one stream for all regions.                            *)
Noise(start, done, p) ==
    CASE how = "bulk" -> BulkNoise(start, done, p)
      [] how = "multicore" -> MulticoreNoise(start, done, p)
      [] how = "devurandom" -> StreamFromFile(start, done, p)
      [] how \in {"batched", "single"} -> GenerateBlocks(0, start + done + p)

(* A chunk is generated and written.                                       *)
FillsChunk(stored) ==
    LET r == RegionAt(region)
        left == Wipeable(r) - filled
        n == IF how = "single" THEN 1 ELSE Min({left, Chunk})
        noise == [p \in 0 .. n - 1 |-> Noise(Offset(r), filled, p)]
    IN  /\ phase = "fill" /\ region <= 3 /\ left > 0
        /\ \/ r = "dram" /\ stored = n /\ DramWrites(filled, noise, n)
           \/ r = "hbm" /\ stored = n /\ HbmWrites(filled, noise, n)
           \/ r = "nvme" /\ NvmeWrites(filled, noise, n, stored)
        /\ faults' = IF stored = n THEN faults ELSE faults + 1
        /\ faults' <= MaxFaults
        /\ filled' = filled + n
        /\ UNCHANGED <<node, phase, file, dd, region, wiped, challenged, rounds, passed>>

(* The region's iterator is exhausted: its RegionMetrics.  Mutant: the     *)
(* next region's chunks are counted from where this one's ended.           *)
MovesOn(count) ==
    /\ phase = "fill" /\ region <= 3 /\ filled = Wipeable(RegionAt(region))
    /\ wiped' = wiped + Wipeable(RegionAt(region))
    /\ region' = region + 1
    /\ filled' = count
    /\ phase' = IF region = 3 THEN "challenge" ELSE "fill"
    /\ UNCHANGED <<node, file, dd, memory, challenged, rounds, passed, faults>>

KeepsCount == MovesOn(filled)

FillsRegion == MovesOn(0)

(* Prover.respond: the block read from the region the index falls into.    *)
Respond(i) ==
    LET r == CHOOSE q \in Regions : i \in Offset(q) .. Offset(q) + Wipeable(q) - 1
    IN  memory[r][i - Offset(r)]

(* Verifier.verify, or verify_from_file.                                   *)
Expected(i) == IF how = "devurandom" THEN file[i] ELSE GenerateBlock(i)

(* Mutant: any block of the region counts.                                 *)
AnyAnswer(i) == Respond(i) \in Int

VerifyResponse(i) == Respond(i) = Expected(i)

Challenge(i) ==
    /\ phase = "challenge" /\ rounds < Rounds
    /\ rounds' = rounds + 1
    /\ challenged' = challenged \cup {i}
    /\ passed' = IF VerifyResponse(i) THEN passed + 1 ELSE passed
    /\ UNCHANGED <<node, phase, file, dd, memory, region, filled, wiped, faults>>

(* The regions are closed and the ProtocolResult is returned.              *)
Returns ==
    /\ phase = "challenge" /\ rounds = Rounds
    /\ phase' = "done"
    /\ UNCHANGED <<node, file, dd, memory, region, filled, wiped, challenged, rounds, passed,
                   faults>>

(* cudaMemcpy, a read or a write fails; or there is nothing to draw from.  *)
Raises ==
    /\ phase \in {"pregen", "fill", "challenge"}
    /\ phase' = "raised"
    /\ UNCHANGED <<node, file, dd, memory, region, filled, wiped, challenged, rounds, passed,
                   faults>>

PoseInit ==
    /\ free \in [Regions -> 0 .. MaxBlocks]
    /\ used \in [Regions -> {0, 1}]
    /\ how \in {"bulk", "multicore", "batched", "single", "devurandom"}
    /\ phase = IF how = "devurandom" THEN "pregen" ELSE "fill"
    /\ file = [i \in 0 .. TotalBlocks - 1 |-> Zero]
    /\ dd = [k \in 0 .. NumCores - 1 |-> 0]
    /\ memory = [r \in Regions |-> [i \in 0 .. Wipeable(r) - 1 |-> Old]]
    /\ region = 1
    /\ filled = 0
    /\ wiped = 0
    /\ challenged = {}
    /\ rounds = 0
    /\ passed = 0
    /\ faults = 0

RunProtocol ==
    \/ \E stored \in 0 .. Chunk : FillsChunk(stored)
    \/ FillsRegion
    \/ \E i \in 0 .. TotalBlocks - 1 : Challenge(i)
    \/ Returns
    \/ Raises

PoseNext == PregenUrandom \/ RunProtocol

PoseSpec == PoseInit /\ [][PoseNext]_poseVars

-----------------------------------------------------------------------------
(* generate_report's figures, for a run that compute_ceilings sized.       *)

Reserved == [r \in Regions |-> free[r] + used[r] - Wipeable(r)]

ReportedTotal == Total([r \in Regions |-> free[r] + used[r]])

Report == [passed |-> passed = Rounds, wiped |-> wiped, total |-> ReportedTotal,
           reserved |-> Total(Reserved)]

PoseTypeOK ==
    /\ phase \in {"pregen", "fill", "challenge", "done", "raised"}
    /\ \A r \in Regions : memory[r] \in [0 .. Wipeable(r) - 1 -> Int]
    /\ file \in [0 .. TotalBlocks - 1 -> Int]
    /\ region \in 1 .. 4 /\ filled \in 0 .. Wipeable(RegionAt(IF region = 4 THEN 3 ELSE region))
    /\ passed \in 0 .. rounds /\ rounds \in 0 .. Rounds /\ faults \in 0 .. MaxFaults
    /\ challenged \subseteq 0 .. TotalBlocks - 1
    /\ Report.wiped + Report.reserved <= Report.total

(* A prover that stored everything passes, whichever way the noise was     *)
(* made and stored: the chunk a block came in, the region it went to and   *)
(* the index it is asked for by lead to the same noise; and then no block  *)
(* of a region holds what it held before.                                  *)
HonestPasses ==
    phase = "done" /\ faults = 0 =>
        /\ Report.passed
        /\ Report.wiped = TotalBlocks
        /\ \A r \in Regions : \A i \in DOMAIN memory[r] : memory[r][i] # Old

(* A run that passes found its noise in every block it asked for, at the   *)
(* place MemoryMap gives the block: one block that a short write left as   *)
(* it was and that is drawn makes the run fail.                            *)
PassedIsHeld ==
    phase = "done" /\ Report.passed =>
        \A i \in challenged :
            memory[Resolve(i)[1]][Resolve(i)[2]] = Expected(i)
=============================================================================
