---------------------------- MODULE DeltaEngine ----------------------------
(***************************************************************************)
(* Delta synchronization of one file: DeltaEngine (src/core/delta_engine   *)
(* .cpp) splits the local file with the Chunker and keeps apart the chunks *)
(* the server has; those it has not are uploaded, and finalizeFile         *)
(* rebuilds the file from the rows of the chunks table.                    *)
(*                                                                         *)
(* A chunk's hash stands for its bytes, and so does a row of the table.    *)
(* The client that asks for the hashes and sends the chunks is external:   *)
(* it follows the steps of README.md (Delta Synchronization), and gives a  *)
(* chunk the index it has in the file.  Another device may upload the      *)
(* whole file at any time.  StorageManager models how the server stores    *)
(* chunks and rebuilds files; here each message is one step.               *)
(***************************************************************************)
EXTENDS Chunker, MetadataDB

CONSTANTS
    MaxOthers,       \* bound on the uploads of another device
    MaxOtherLen      \* bound on the length of what it uploads

ASSUME DeltaAssumption == MaxOthers \in Nat /\ NoRow \notin Seq(Byte)

VARIABLES
    rows,            \* the rows of the file: file -> index -> bytes or NoRow
    stored,          \* the file the server has rebuilt
    phase,           \* of the client: "idle", "chunk", "send" or "answered"
    server_hashes,   \* what the client was told the server has
    delta,           \* the DeltaInfo
    sent,            \* new chunks sent so far
    success,         \* the answer to the upload
    base,            \* history: the rows when the client asked for them
    others,          \* uploads of another device
    seen             \* history: those before the client asked

server == <<rows, stored>>
client == <<phase, server_hashes, delta, sent, success, base, others, seen>>
dvars  == <<vars, server, client>>

Indexes == 0 .. MaxLen - 1
NoDelta == [new_chunks |-> <<>>, existing_chunks |-> <<>>, bytes_to_transfer |-> 0]

DeltaInit ==
    /\ Init
    /\ rows = [f \in {"file"} |-> [k \in Indexes |-> NoRow]] /\ stored = NoRow
    /\ phase = "idle" /\ server_hashes = {} /\ delta = NoDelta /\ sent = 0
    /\ success = FALSE /\ base = rows.file /\ others = 0 /\ seen = 0

(* The bytes of chunk c of d.                                              *)
bytesOf(d, c) == SubSeq(d, c.offset + 1, c.offset + c.size)

-----------------------------------------------------------------------------
(* computeDelta                                                            *)

(* The client asks for the hashes of the server's chunks of the file and   *)
(* calls computeDelta, which chunks the local file, if it can be read.     *)
Ask(chunkFile) ==
    /\ phase \in {"idle", "answered"}
    /\ chunkFile
    /\ server_hashes' = Range(rows.file) \ {NoRow}
    /\ base' = rows.file /\ seen' = others
    /\ delta' = NoDelta /\ sent' = 0 /\ success' = FALSE
    /\ phase' = "chunk"
    /\ UNCHANGED <<server, others>>

Chunking ==
    /\ ScanByte \/ Return
    /\ UNCHANGED <<server, client>>

(* Mutant: a chunk that occurred before in the file is not sent again.     *)
isNewOnce(c) ==
    /\ bytesOf(data, c) \notin server_hashes
    /\ \A x \in Range(chunks) : x.offset < c.offset => bytesOf(data, x) # bytesOf(data, c)

(* The chunk is not in the server's set.                                   *)
isNew(c) == bytesOf(data, c) \notin server_hashes

(* One iteration of the loop over the chunks.                              *)
divide(d, c) ==
    IF isNew(c)
    THEN [d EXCEPT !.new_chunks = Append(@, c), !.bytes_to_transfer = @ + c.size]
    ELSE [d EXCEPT !.existing_chunks = Append(@, c)]

(* The chunks are divided, each list in the order of the file.  A file     *)
(* that cannot be opened has no chunks, like an empty one.                 *)
ComputeDelta ==
    /\ phase = "chunk" /\ pc # "scan"
    /\ delta' = FoldLeft(divide, NoDelta, chunks)
    /\ phase' = "send"
    /\ UNCHANGED <<vars, server, server_hashes, sent, success, base, others, seen>>

-----------------------------------------------------------------------------
(* The upload of the new chunks                                            *)

AllChunks == Range(delta.new_chunks) \cup Range(delta.existing_chunks)

(* The place of a chunk in the file, by its offset.                        *)
indexOf(c) == Cardinality({x \in AllChunks : x.offset < c.offset})

SendChunk ==
    /\ phase = "send" /\ sent < Len(delta.new_chunks)
    /\ LET c == delta.new_chunks[sent + 1]
       IN  rows' = insertChunk(rows, "file", indexOf(c), bytesOf(data, c))
    /\ sent' = sent + 1
    /\ UNCHANGED <<vars, stored, phase, server_hashes, delta, success, base, others, seen>>

Present(table) == {k \in DOMAIN table : table[k] # NoRow}

(* The bytes of the rows in the order of their indexes; where there is no  *)
(* row there is nothing.                                                   *)
Rebuilt(table) ==
    FlattenSeq([n \in 1 .. MaxLen |-> IF table[n - 1] = NoRow THEN <<>> ELSE table[n - 1]])

(* Mutant: any number of rows will do.                                     *)
acceptsAny(table, messages, total_chunks) == messages > 0

(* finalizeFile's test; without a message the path is not known, and the   *)
(* file cannot be created.                                                 *)
accepts(table, messages, total_chunks) ==
    messages > 0 /\ Cardinality(Present(table)) = total_chunks

(* The stream ends, after the last chunk or because it breaks.             *)
Finalize ==
    /\ phase = "send"
    /\ success' = accepts(rows.file, sent, Cardinality(AllChunks))
    /\ stored' = IF success' THEN Rebuilt(rows.file) ELSE stored
    /\ phase' = "answered"
    /\ UNCHANGED <<vars, rows, server_hashes, delta, sent, base, others, seen>>

(* Another device uploads all chunks of d; while the client is chunking it *)
(* reads nothing of the server's, so an upload then is one just after.     *)
OtherUploads(d) ==
    LET all == ChunksOf(d)
        table == [k \in Indexes |-> IF k < Len(all) THEN bytesOf(d, all[k + 1])
                                    ELSE rows.file[k]]
    IN  /\ others < MaxOthers /\ d # <<>> /\ Len(d) <= MaxOtherLen /\ pc # "scan"
        /\ rows' = [rows EXCEPT !["file"] = table]
        /\ stored' = IF accepts(table, Len(all), Len(all)) THEN d ELSE stored
        /\ others' = others + 1
        /\ UNCHANGED <<vars, phase, server_hashes, delta, sent, success,
                       base, seen>>

-----------------------------------------------------------------------------
(* applyDelta                                                              *)

(* Mutant: a last chunk that uses up the data counts as too long.          *)
tooShort(data_offset, size, length) == data_offset + size >= length

exceeds(data_offset, size, length) == data_offset + size > length

(* One iteration of the loop over the chunks, where r.file is what the     *)
(* stream was given; the first chunk that exceeds the data ends it.        *)
write(r, c, chunk_data) ==
    IF ~r.ok \/ exceeds(r.data_offset, c.size, Len(chunk_data))
    THEN [r EXCEPT !.ok = FALSE]
    ELSE [ok |-> TRUE, data_offset |-> r.data_offset + c.size,
          file |-> r.file \o SubSeq(chunk_data, r.data_offset + 1, r.data_offset + c.size)]

(* The file as it is when it has been opened, which truncates it.          *)
Truncated == [ok |-> TRUE, data_offset |-> 0, file |-> <<>>]

writeChunks(cs, chunk_data) == FoldLeft(LAMBDA r, c : write(r, c, chunk_data), Truncated, cs)

(* What may come of it when the file was `old`.  One that cannot be opened *)
(* stays as it is.  Whether the stream could write is never looked at: the *)
(* file holds a beginning of what the stream was given, all of it unless a *)
(* write failed, after which the stream writes nothing.                    *)
applyDelta(old, cs, chunk_data) ==
    LET r == writeChunks(cs, chunk_data)
    IN  {[result |-> FALSE, file |-> old]}
           \cup {[result |-> r.ok, file |-> SubSeq(r.file, 1, k)] : k \in 0 .. Len(r.file)}

DeltaNext ==
    \/ \E d \in Inputs : Ask(ChunkData(d))
    \/ Ask(OpenFails)
    \/ Chunking \/ ComputeDelta \/ SendChunk \/ Finalize
    \/ \E d \in Inputs : OtherUploads(d)

DeltaSpec == DeltaInit /\ [][DeltaNext]_dvars

-----------------------------------------------------------------------------
(* PROPERTIES                                                              *)

(* Every chunk of the file is in one of the two lists, the bytes of those  *)
(* not sent are among what the server has, bytes_to_transfer is the length *)
(* of those to be sent, and put at the indexes the client gives them the   *)
(* chunks of both lists are the file (delta_engine.cpp:22).                *)
DeltaRebuilds ==
    phase = "send" =>
       LET part(c) == bytesOf(data, c)
           new == delta.new_chunks
           at(k) == CHOOSE c \in AllChunks : indexOf(c) = k - 1
       IN  /\ FlattenSeq([k \in 1 .. Cardinality(AllChunks) |-> part(at(k))]) = data
           /\ Len(new) + Len(delta.existing_chunks) = Len(chunks)
           /\ \A c \in Range(delta.existing_chunks) : part(c) \in server_hashes
           /\ delta.bytes_to_transfer = Len(FlattenSeq([k \in DOMAIN new |-> part(new[k])]))

(* The server had every chunk that was not sent at the index it has now.   *)
InPlace ==
    \A c \in Range(delta.existing_chunks) : base[indexOf(c)] = bytesOf(data, c)

(* When all new chunks were sent, the chunks that were not sent kept their *)
(* indexes, and no other device uploaded meanwhile, an acknowledged upload *)
(* stores the file, and one is refused only when there was nothing to send *)
(* or the file has become shorter: finalizeFile (storage_manager.cpp:84)   *)
(* compares the number of rows with total_chunks, and never drops a row.   *)
DeltaUploadStored ==
    phase = "answered" /\ sent = Len(delta.new_chunks) /\ InPlace /\ others = seen =>
       IF success THEN stored = data
       ELSE sent = 0 \/ \E k \in Present(base) : k >= Len(chunks)

(* Given the first n bytes of a file, applyDelta (delta_engine.cpp:36)     *)
(* leaves the old file and returns false, or leaves no more than a         *)
(* beginning of the chunks that lie within them, in place of what the file *)
(* was; it then returns true exactly when these are all the chunks, and    *)
(* the file is whole if it has the right length: a failed write is not     *)
(* reported, but it loses only bytes at the end.                           *)
ApplyKeepsOrCuts ==
    phase = "send" => \A n \in 0 .. Len(data) :
       LET fits == {k \in DOMAIN chunks : chunks[k].offset + chunks[k].size <= n}
           whole == FlattenSeq([k \in fits |-> bytesOf(data, chunks[k])])
       IN  \A out \in applyDelta(NoRow, chunks, SubSeq(data, 1, n)) :
              IF out.file = NoRow THEN ~out.result
              ELSE /\ IsPrefix(out.file, whole)
                   /\ out.result <=> n = Len(data)
                   /\ out.result /\ Len(out.file) = Len(data) => out.file = data
=============================================================================
