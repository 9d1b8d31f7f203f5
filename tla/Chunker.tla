------------------------------ MODULE Chunker ------------------------------
(***************************************************************************)
(* Chunker::chunkData and chunkFile (src/common/chunker.cpp), one byte of  *)
(* input a step, on a Chunker object that is used again and again.         *)
(***************************************************************************)
EXTENDS RollingHash, FiniteSets

CONSTANTS
    kMinChunkSize, kAvgChunkSize, kMaxChunkSize,
    kMaskBits,        \* kMask keeps the low kMaskBits bits of a hash
    Byte,             \* the values of a byte
    MaxLen,           \* bound on the length of the input
    MaxCalls          \* bound on the number of calls

ASSUME ChunkerAssumption ==
    /\ {kMinChunkSize, kAvgChunkSize, kMaxChunkSize, kMaskBits} \subseteq Nat \ {0}
    /\ kMinChunkSize <= kAvgChunkSize
    /\ kAvgChunkSize <= kMaxChunkSize
    /\ Byte \subseteq Nat
    /\ MaxLen \in Nat
    /\ MaxCalls \in Nat

VARIABLES
    data,             \* the input of the current or last call
    i,                \* the loop index: bytes consumed
    hash,             \* of the bytes since rolling_hash.reset()
    chunk_start,
    chunks,           \* offset and size of the chunks made so far
    min_size, max_size, total_size,
    last_stats_,
    pc,               \* "idle", "scan" or "failed"
    calls,            \* number of calls made
    last_read         \* history: the last call that read its file to the end

locals == <<data, i, hash, chunk_start, chunks, min_size, max_size, total_size>>
vars == <<locals, last_stats_, pc, calls, last_read>>

normalized_chunk_size == kMinChunkSize + (kAvgChunkSize - kMinChunkSize) \div 2

NoStats == [total_chunks |-> 0, min_size |-> 0, max_size |-> 0, total_size |-> 0]

(* What chunkFile reads of a file, or chunkData is given.  The read is not *)
(* checked: of a file that has become shorter since its size was taken,    *)
(* what is chunked ends in zeros, and is an input like another.            *)
Inputs == UNION {[1 .. n -> Byte] : n \in 0 .. MaxLen}

(* ChunkStats has no initialiser: until a first call sets them, the        *)
(* statistics are whatever was in memory.                                  *)
Uninitialised ==
    {[total_chunks |-> n, min_size |-> n, max_size |-> n, total_size |-> n] : n \in 0 .. 1}

(* No call has read a file yet.                                            *)
NoRead == [done |-> FALSE, chunks |-> <<>>, length |-> 0]

Init ==
    /\ data = <<>> /\ i = 0 /\ hash = reset /\ chunk_start = 0 /\ chunks = <<>>
    /\ min_size = 0 /\ max_size = 0 /\ total_size = 0
    /\ last_stats_ \in Uninitialised
    /\ pc = "idle"
    /\ calls = 0
    /\ last_read = NoRead

(* chunkFile cannot open the file: it returns no chunks and leaves the     *)
(* statistics of the call before.                                          *)
OpenFails ==
    /\ pc # "scan" /\ calls < MaxCalls
    /\ data' = <<>> /\ chunks' = <<>>
    /\ calls' = calls + 1
    /\ pc' = "failed"
    /\ UNCHANGED <<i, hash, chunk_start, min_size, max_size, total_size, last_stats_,
                   last_read>>

(* Mutant: the sizes of the call before are not cleared.                   *)
ChunkDataKeepsSizes(d) ==
    /\ pc # "scan" /\ calls < MaxCalls
    /\ calls' = calls + 1
    /\ data' = d /\ chunks' = <<>>
    /\ i' = 0 /\ hash' = reset /\ chunk_start' = 0
    /\ UNCHANGED <<min_size, max_size, total_size>>
    /\ IF d = <<>>
       THEN /\ last_stats_' = NoStats /\ pc' = "idle"
            /\ last_read' = [done |-> TRUE, chunks |-> <<>>, length |-> 0]
       ELSE pc' = "scan" /\ UNCHANGED <<last_stats_, last_read>>

(* chunkData is entered; empty data resets the statistics and returns.     *)
ChunkData(d) ==
    /\ pc # "scan" /\ calls < MaxCalls
    /\ calls' = calls + 1
    /\ data' = d /\ chunks' = <<>>
    /\ i' = 0 /\ hash' = reset /\ chunk_start' = 0
    /\ min_size' = 0 /\ max_size' = 0 /\ total_size' = 0
    /\ IF d = <<>>
       THEN /\ last_stats_' = NoStats /\ pc' = "idle"
            /\ last_read' = [done |-> TRUE, chunks |-> <<>>, length |-> 0]
       ELSE pc' = "scan" /\ UNCHANGED <<last_stats_, last_read>>

(* Mutant: the early mask is used from the first byte on.                  *)
boundaryFromStart(h, size) ==
    \/ /\ size < normalized_chunk_size
       /\ h % (2 ^ (kMaskBits - 1)) = 0
    \/ /\ size >= normalized_chunk_size
       /\ h % (2 ^ kMaskBits) = 0

(* Where a chunk of `size` bytes whose hash is h may end.                  *)
is_boundary(h, size) ==
    \/ /\ size >= kMinChunkSize /\ size < normalized_chunk_size
       /\ h % (2 ^ (kMaskBits - 1)) = 0
    \/ /\ size >= normalized_chunk_size
       /\ h % (2 ^ kMaskBits) = 0

(* Mutant: the bytes after the last boundary are dropped.                  *)
cutNotAtEnd(h, size, last) == is_boundary(h, size) \/ size >= kMaxChunkSize

is_cut(h, size, last) == is_boundary(h, size) \/ size >= kMaxChunkSize \/ last

(* Mutant: the rolling hash is not reset at a boundary.                    *)
keepHash(h) == h

(* The rolling hash with which the next chunk begins.                      *)
afterCut(h) == reset

(* One iteration of the loop over the input.                               *)
ScanByte ==
    /\ pc = "scan" /\ i < Len(data)
    /\ LET h == append(hash, data[i + 1])
           size == i + 1 - chunk_start
       IN  IF is_cut(h, size, i = Len(data) - 1)
           THEN /\ chunks' = Append(chunks, [offset |-> chunk_start, size |-> size])
                /\ min_size' = IF min_size = 0 \/ size < min_size THEN size ELSE min_size
                /\ max_size' = IF size > max_size THEN size ELSE max_size
                /\ total_size' = total_size + size
                /\ chunk_start' = i + 1
                /\ hash' = afterCut(h)
           ELSE /\ hash' = h
                /\ UNCHANGED <<chunks, min_size, max_size, total_size, chunk_start>>
    /\ i' = i + 1
    /\ UNCHANGED <<data, last_stats_, pc, calls, last_read>>

(* avg_size is total_size over total_chunks; the quotient is left out.     *)
Return ==
    /\ pc = "scan" /\ i = Len(data)
    /\ last_stats_' = [total_chunks |-> Len(chunks), min_size |-> min_size,
                       max_size |-> max_size, total_size |-> total_size]
    /\ pc' = "idle"
    /\ last_read' = [done |-> TRUE, chunks |-> chunks, length |-> Len(data)]
    /\ UNCHANGED <<locals, calls>>

Next == OpenFails \/ (\E d \in Inputs : ChunkData(d)) \/ ScanByte \/ Return

Spec == Init /\ [][Next]_vars

-----------------------------------------------------------------------------
(* PROPERTIES                                                              *)

Positive == Nat \ {0}

(* The types of the call's locals and of the statistics.                   *)
TypeOK ==
    /\ data \in Seq(Byte)
    /\ i \in 0 .. Len(data) \/ pc = "failed"
    /\ hash \in 0 .. kMod - 1
    /\ chunk_start \in Nat
    /\ chunks \in Seq([offset : Nat, size : Positive])
    /\ {min_size, max_size, total_size} \subseteq Nat
    /\ last_stats_ \in [total_chunks : Nat, min_size : Nat, max_size : Nat,
                        total_size : Nat]
    /\ pc \in {"idle", "scan", "failed"}
    /\ calls \in 0 .. MaxCalls
    /\ last_read \in [done : BOOLEAN, chunks : Seq([offset : Nat, size : Positive]),
                      length : Nat]

(* The chunks tile the bytes before chunk_start: each begins where the one *)
(* before it ends, and when the call is over nothing is left out.          *)
Tiling ==
    /\ \A k \in 1 .. Len(chunks) :
          chunks[k].offset + chunks[k].size =
             IF k < Len(chunks) THEN chunks[k + 1].offset ELSE chunk_start
    /\ chunks # <<>> => chunks[1].offset = 0
    /\ pc = "scan" /\ chunks = <<>> => chunk_start = 0
    /\ pc = "scan" /\ i = Len(data) => chunk_start = Len(data)

(* No chunk is longer than kMaxChunkSize, the one being scanned included,  *)
(* and none but the last is shorter than kMinChunkSize.                    *)
SizesBounded ==
    /\ \A k \in 1 .. Len(chunks) :
          /\ chunks[k].size <= kMaxChunkSize
          /\ chunks[k].size >= kMinChunkSize
             \/ (k = Len(chunks) /\ chunk_start = Len(data))
    /\ pc = "scan" => i - chunk_start < kMaxChunkSize

(* The end of the chunk that begins at offset s of d: the first place      *)
(* where a chunk may end, judged by the bytes of the chunk alone, and the  *)
(* end of d at the latest.                                                 *)
CutAfter(d, s) ==
    LET cuts == {n \in 1 .. Len(d) - s : is_cut(HashOf(SubSeq(d, s + 1, s + n)), n, FALSE)}
                \cup {Len(d) - s}
    IN  s + (CHOOSE n \in cuts : \A m \in cuts : n <= m)

(* The chunks of d, one after the other.                                   *)
ChunksOf(d) ==
    LET from[s \in 0 .. Len(d)] ==
           IF s = Len(d) THEN <<>>
           ELSE <<[offset |-> s, size |-> CutAfter(d, s) - s]>> \o from[CutAfter(d, s)]
    IN  from[0]

(* Where a chunk ends depends on its own bytes only, not on what was       *)
(* scanned before it or in an earlier call: identical runs of bytes that   *)
(* start at a boundary are cut alike, on which deduplication rests.        *)
CutByContent == pc = "idle" => chunks = ChunksOf(data)

Sizes(cs) == {cs[k].size : k \in 1 .. Len(cs)}

(* The statistics describe the chunks of the last call that read its file  *)
(* to the end: their number, extreme sizes and the sum the average is      *)
(* taken from, with nothing left of the calls before it or of what was in  *)
(* memory.  So they do while the next call scans, and after a chunkFile    *)
(* that could not open its file (chunker.cpp:11), which returned no chunk; *)
(* before any call has read a file they are not set.                       *)
StatsOfLastRead ==
    last_read.done =>
       LET cs == last_read.chunks
       IN  IF cs = <<>> THEN last_stats_ = NoStats ELSE
              /\ last_stats_.total_chunks = Len(cs)
              /\ last_stats_.total_size = last_read.length
              /\ last_stats_.min_size \in Sizes(cs) /\ last_stats_.max_size \in Sizes(cs)
              /\ \A s \in Sizes(cs) : last_stats_.min_size <= s /\ s <= last_stats_.max_size

(* RollingHash::update, which takes the oldest byte of a window out again, *)
(* is exact on every input: with its weight power_ and modulo kMod.        *)
UpdateForgets == RollsOver(data)

=============================================================================
