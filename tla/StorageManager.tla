--------------------------- MODULE StorageManager ---------------------------
(***************************************************************************)
(* The upload path of the server: SyncServiceImpl::UploadFile              *)
(* (src/server/sync_service.cpp) driving StorageManager                    *)
(* (src/server/storage_manager.cpp) and the client's MetadataDB.           *)
(*                                                                         *)
(* gRPC runs every call in a thread of its own and the code takes no lock  *)
(* around an upload (db_mutex_ guards only the map of databases), so the   *)
(* model cuts a call at every access to shared state: the test for an      *)
(* existing chunk, the open that truncates it, the write, each SQL         *)
(* statement, each row of a SELECT, the size and the bytes of each chunk   *)
(* copied into the rebuilt file, and the stat, hash and INSERT that end    *)
(* finalizeFile.                                                           *)
(*                                                                         *)
(* A file is a sequence of bytes; the bytes of a chunk are Data[hash].     *)
(***************************************************************************)
EXTENDS MetadataDB, SequencesExt

CONSTANTS
    Clients,      \* client ids
    Paths,        \* file paths
    Hashes,       \* chunk hashes
    Data,         \* Data[h]: the bytes whose SHA-256 is h
    Versions,     \* versions of a file: sequences of chunk hashes
    Uploads,      \* calls of UploadFile, numbered as they arrive; bounds how
                  \* many a behaviour makes
    Faults,       \* what may go wrong in the environment, see FaultKinds
    Zero,         \* the byte a file system fills a hole with
    Uninit,       \* values an uninitialised int64_t may hold
    MaxTime       \* bound on the server's clock, in seconds

(* "crash"          the server process dies and is restarted               *)
(* "short_write"    a write puts only a prefix on disk (disk full, I/O     *)
(*                  error); the code never tests the stream afterwards     *)
(* "partial_write"  a write in progress is seen by other calls, or cut     *)
(*                  short by a crash, when a prefix is on disk             *)
(* "open"           a file cannot be opened for writing                    *)
(* "read"           a file cannot be opened for reading                    *)
(* "db"             sqlite3_open or a statement fails                      *)
(* "broken_stream"  the client's stream ends early: Read returns FALSE as  *)
(*                  it does after the last message                         *)
(* "overlap"        two calls upload the same file at the same time        *)
(* "same_chunk"     two calls with a chunk in common run at the same time  *)
(* "corrupt"        a message carries bytes its hash does not match        *)
FaultKinds == {"crash", "short_write", "partial_write", "open", "read", "db",
               "broken_stream", "overlap", "same_chunk", "corrupt"}

Bytes == (UNION {ToSet(Data[h]) : h \in Hashes}) \cup {Zero}

ASSUME StorageAssumption ==
    /\ Uploads \subseteq Nat
    /\ Faults \subseteq FaultKinds
    /\ Data \in [Hashes -> Seq(Bytes)]
    /\ \A h \in Hashes : Data[h] # <<>>       \* chunkData makes no empty chunk
    /\ Versions \subseteq Seq(Hashes)
    /\ NoRow \notin Hashes
    /\ NoRow \notin Seq(Bytes)
    /\ MaxTime \in Nat
    /\ Uninit # {}

VARIABLES
    chunkFiles,   \* chunkFiles[h]: bytes of chunks/<h>, NoRow if it does not exist
    chunks,       \* chunks[c]: the chunks table of client c's database
    files,        \* files[c]: the files table of client c's database
    disk,         \* disk[c][p]: bytes of the rebuilt file clients/<c>/<p>
    client_dbs,   \* clients whose database the process has open
    clock,        \* system clock, seconds
    pc,           \* pc[u]: the step call u is at
    req,          \* req[u]: client, path and version that call u uploads
    loc,          \* loc[u]: local variables of call u
    stream        \* stream[u]: the data of the message call u handles, and how
                  \* much of it the ofstream of the chunk file has written

vars == <<chunkFiles, chunks, files, disk, client_dbs, clock, pc, req, loc, stream>>

persistent == <<chunkFiles, chunks, files, disk>>

-----------------------------------------------------------------------------
(* Chunk indexes are counted from 0.                                       *)
Indexes == UNION {0 .. Len(v) - 1 : v \in Versions}

Requests == [client : Clients, path : Paths, version : Versions]

(* SHA-256 is taken to be free of collisions: a digest determines and is   *)
(* determined by the bytes it was computed from.                           *)
sha256(bytes) == <<"sha256", bytes>>

(* The empty string sha256File returns for a file it cannot open.          *)
NoDigest == <<"", <<>>>>

(* The bytes of a whole file, chunk after chunk.                           *)
Content(version) == FlattenSeq([i \in DOMAIN version |-> Data[version[i]]])

(* The bytes of a file after `new` is written at offset `at`; a gap left   *)
(* by another writer's truncation is filled with zeros.  A write of no     *)
(* bytes leaves the file as it is.                                         *)
WriteAt(old, at, new) ==
    LET end == IF new = <<>> THEN 0 ELSE at + Len(new)
    IN  [i \in 1 .. (IF end > Len(old) THEN end ELSE Len(old)) |->
            IF i > at /\ i <= end THEN new[i - at]
            ELSE IF i <= Len(old) THEN old[i] ELSE Zero]

(* What getChunk makes of a file it found to be n bytes long: a vector of  *)
(* that length, zero where the file has become shorter.                    *)
ReadOf(bytes, n) == [i \in 1 .. n |-> IF i <= Len(bytes) THEN bytes[i] ELSE Zero]

(* What a write of `bytes` may leave on disk.                              *)
Written(bytes) ==
    {bytes} \cup (IF "short_write" \in Faults
                  THEN {SubSeq(bytes, 1, k) : k \in 0 .. Len(bytes) - 1}
                  ELSE {})

(* The payload of a message whose chunk hash is h.                         *)
Payloads(h) ==
    {Data[h]} \cup (IF "corrupt" \in Faults THEN {Data[g] : g \in Hashes} ELSE {})

Answered == {"ok", "store_failed", "finalize_failed", "lost"}

Active(u) == pc[u] \notin Answered \cup {"idle"}

Goto(u, label) == pc' = [pc EXCEPT ![u] = label]

(* The chunk of the message call u is handling.                            *)
Current(u) == req[u].version[loc[u].recv + 1]

(* What of the message is not written yet.                                 *)
Rest(u) == SubSeq(stream[u].data, stream[u].pos + 1, Len(stream[u].data))

NoLocals == [recv |-> 0, cursor |-> -1, list |-> <<>>, copied |-> 0,
             chunk_size |-> 0, offset |-> 0, good |-> TRUE, size |-> 0, mtime |-> 0,
             rec |-> NoRow]

NoMessage == [data |-> <<>>, pos |-> 0]

-----------------------------------------------------------------------------
Init ==
    /\ chunkFiles = [h \in Hashes |-> NoRow]
    /\ chunks = [c \in Clients |-> [p \in Paths |-> [i \in Indexes |-> NoRow]]]
    /\ files = [c \in Clients |-> [p \in Paths |-> NoRow]]
    /\ disk = [c \in Clients |-> [p \in Paths |-> <<>>]]
    /\ client_dbs = {}
    /\ clock = 0
    /\ pc = [u \in Uploads |-> "idle"]
    /\ req = [u \in Uploads |-> NoRow]
    /\ loc = [u \in Uploads |-> NoLocals]
    /\ stream = [u \in Uploads |-> NoMessage]

(* A client opens a stream.  Its uploader sends the chunks of one version  *)
(* of a file in order, each message naming the client, the path and the    *)
(* number of chunks.  Unless calls may overlap, it starts a second upload  *)
(* of a file only after the first is answered; unless calls may meet in a  *)
(* chunk, what is uploaded at the same time has no chunk in common.        *)
Begin(u) ==
    /\ pc[u] = "idle"
    /\ \A w \in Uploads : w < u => pc[w] # "idle"
    /\ \E r \in Requests :
          /\ \A w \in Uploads : Active(w) =>
                /\ \/ "overlap" \in Faults
                   \/ req[w].client # r.client
                   \/ req[w].path # r.path
                /\ \/ "same_chunk" \in Faults
                   \/ ToSet(req[w].version) \cap ToSet(r.version) = {}
          /\ req' = [req EXCEPT ![u] = r]
    /\ Goto(u, "read")
    /\ UNCHANGED <<persistent, client_dbs, clock, loc, stream>>

(* reader->Read returns a message; none of its data is written yet.        *)
ReadMessage(u) ==
    /\ pc[u] = "read"
    /\ loc[u].recv < Len(req[u].version)
    /\ \E payload \in Payloads(Current(u)) :
          stream' = [stream EXCEPT ![u] = [data |-> payload, pos |-> 0]]
    /\ Goto(u, "store")
    /\ UNCHANGED <<persistent, client_dbs, clock, req, loc>>

(* reader->Read returns false: the stream is complete, or it broke.  The   *)
(* handler cannot tell and goes on to finalizeFile either way.  Before the *)
(* first message client_id and filepath are still empty, so finalizeFile   *)
(* works on the directory of client "" and its ofstream does not open.     *)
StreamEnds(u) ==
    /\ pc[u] = "read"
    /\ loc[u].recv = Len(req[u].version) \/ "broken_stream" \in Faults
    /\ Goto(u, IF loc[u].recv = 0 THEN "finalize_failed" ELSE "list")
    /\ UNCHANGED <<persistent, client_dbs, clock, req, loc, stream>>

-----------------------------------------------------------------------------
(* StorageManager::storeChunk                                              *)

(* Deduplication: a chunk file that exists is taken to hold the chunk.     *)
ChunkExists(u) ==
    /\ pc[u] = "store"
    /\ Goto(u, IF chunkFiles[Current(u)] # NoRow THEN "insert" ELSE "open")
    /\ UNCHANGED <<persistent, client_dbs, clock, req, loc, stream>>

(* Mutant: a failed open is not reported.                                  *)
OpenUnchecked(u) ==
    /\ pc[u] = "open"
    /\ \/ /\ chunkFiles' = [chunkFiles EXCEPT ![Current(u)] = <<>>]
          /\ Goto(u, "write")
       \/ /\ "open" \in Faults
          /\ Goto(u, "insert")
          /\ UNCHANGED chunkFiles
    /\ UNCHANGED <<chunks, files, disk, client_dbs, clock, req, loc, stream>>

(* Opening the ofstream creates the file or truncates it to nothing.       *)
OpenChunk(u) ==
    /\ pc[u] = "open"
    /\ \/ /\ chunkFiles' = [chunkFiles EXCEPT ![Current(u)] = <<>>]
          /\ Goto(u, "write")
       \/ /\ "open" \in Faults
          /\ Goto(u, "store_failed")
          /\ UNCHANGED chunkFiles
    /\ UNCHANGED <<chunks, files, disk, client_dbs, clock, req, loc, stream>>

(* Mutant: the file is opened for appending.                               *)
AppendChunk(u) ==
    /\ pc[u] = "write"
    /\ \E bytes \in Written(Rest(u)) :
          chunkFiles' = [chunkFiles EXCEPT ![Current(u)] = @ \o bytes]
    /\ stream' = [stream EXCEPT ![u].pos = 0]
    /\ Goto(u, "insert")
    /\ UNCHANGED <<chunks, files, disk, client_dbs, clock, req, loc>>

(* file.write puts the rest of the data where the stream stands, and the   *)
(* stream is closed; whether it could write is not looked at.              *)
WriteChunk(u) ==
    /\ pc[u] = "write"
    /\ \E bytes \in Written(Rest(u)) :
          chunkFiles' = [chunkFiles EXCEPT ![Current(u)] =
                           WriteAt(@, stream[u].pos, bytes)]
    /\ stream' = [stream EXCEPT ![u].pos = 0]
    /\ Goto(u, "insert")
    /\ UNCHANGED <<chunks, files, disk, client_dbs, clock, req, loc>>

(* A part of the write has reached the file, not yet the rest.  The stream *)
(* keeps its position: when another call truncates the file before the     *)
(* rest is written, the bytes before it are gone.                          *)
WritePart(u) ==
    /\ pc[u] = "write" /\ "partial_write" \in Faults
    /\ \E k \in 1 .. Len(Rest(u)) - 1 :
          /\ chunkFiles' = [chunkFiles EXCEPT ![Current(u)] =
                              WriteAt(@, stream[u].pos, SubSeq(Rest(u), 1, k))]
          /\ stream' = [stream EXCEPT ![u].pos = @ + k]
    /\ UNCHANGED <<chunks, files, disk, client_dbs, clock, pc, req, loc>>

(* The databases open after getClientDB(c): c's is opened once.            *)
getClientDB(c) == client_dbs \cup {c}

(* getClientDB, then insertChunk under the index the message carries.      *)
InsertChunk(u) ==
    /\ pc[u] = "insert"
    /\ \/ /\ chunks' = [chunks EXCEPT ![req[u].client] =
                          insertChunk(@, req[u].path, loc[u].recv, Current(u))]
          /\ client_dbs' = getClientDB(req[u].client)
          /\ loc' = [loc EXCEPT ![u].recv = @ + 1]
          /\ Goto(u, "read")
       \/ /\ "db" \in Faults
          /\ client_dbs' \in {client_dbs, getClientDB(req[u].client)}
          /\ Goto(u, "store_failed")
          /\ UNCHANGED <<chunks, loc>>
    /\ UNCHANGED <<chunkFiles, files, disk, clock, req, stream>>

-----------------------------------------------------------------------------
(* StorageManager::finalizeFile                                            *)

(* Mutant: the SELECT is not restricted to the file's path.                *)
ListAnyRow(u) ==
    /\ pc[u] = "list"
    /\ \E p \in Paths, i \in Indexes :
          /\ isNextRow(chunks[req[u].client][p], loc[u].cursor, i)
          /\ loc' = [loc EXCEPT ![u].cursor = i,
                                ![u].list = Append(@, chunks[req[u].client][p][i])]
    /\ UNCHANGED <<persistent, client_dbs, clock, pc, req, stream>>

(* getFileChunks fetches the next row.                                     *)
ListRow(u) ==
    /\ pc[u] = "list"
    /\ LET rows == chunks[req[u].client][req[u].path]
       IN  \E i \in Indexes :
              /\ isNextRow(rows, loc[u].cursor, i)
              /\ loc' = [loc EXCEPT ![u].cursor = i,
                                    ![u].list = Append(@, rows[i])]
    /\ UNCHANGED <<persistent, client_dbs, clock, pc, req, stream>>

(* getFileChunks has fetched every row, or a step failed and it returns    *)
(* what it has.                                                            *)
Listed(u) ==
    /\ pc[u] = "list"
    /\ \/ rowsAfter(chunks[req[u].client][req[u].path], loc[u].cursor) = {}
       \/ "db" \in Faults
    /\ UNCHANGED <<persistent, client_dbs, clock, req, loc, stream>>

(* Mutant: the number of rows is not tested.                               *)
ListEndUntested(u) == Listed(u) /\ Goto(u, "create")

(* Mutant: the call waits for missing chunks to arrive.                    *)
ListEndWaits(u) ==
    /\ Listed(u)
    /\ Len(loc[u].list) = Len(req[u].version)
    /\ Goto(u, "create")

(* Mutant: the last index is compared with the number of chunks.           *)
ListEndByIndex(u) ==
    /\ Listed(u)
    /\ Goto(u, IF loc[u].cursor = Len(req[u].version)
               THEN "create" ELSE "finalize_failed")

(* The number of rows must be the announced number of chunks.              *)
ListEnd(u) ==
    /\ Listed(u)
    /\ Goto(u, IF Len(loc[u].list) = Len(req[u].version)
               THEN "create" ELSE "finalize_failed")

(* The "temporary" file is the client's copy itself: opening truncates it. *)
CreateFile(u) ==
    /\ pc[u] = "create"
    /\ \/ /\ disk' = [disk EXCEPT ![req[u].client][req[u].path] = <<>>]
          /\ Goto(u, "copy")
       \/ /\ "open" \in Faults
          /\ Goto(u, "finalize_failed")
          /\ UNCHANGED disk
    /\ UNCHANGED <<chunkFiles, chunks, files, client_dbs, clock, req, loc, stream>>

(* getChunk opens the next chunk and asks for its size; a chunk file that  *)
(* is missing, empty or cannot be opened ends the call.                    *)
SizeChunk(u) ==
    /\ pc[u] = "copy"
    /\ loc[u].copied < Len(loc[u].list)
    /\ LET bytes == chunkFiles[loc[u].list[loc[u].copied + 1]]
       IN  \/ /\ bytes \in {NoRow, <<>>} \/ "read" \in Faults
              /\ Goto(u, "finalize_failed")
              /\ UNCHANGED loc
           \/ /\ bytes \notin {NoRow, <<>>}
              /\ loc' = [loc EXCEPT ![u].chunk_size = Len(bytes)]
              /\ Goto(u, "fetch")
    /\ UNCHANGED <<persistent, client_dbs, clock, req, stream>>

(* getChunk reads that many bytes and the loop writes them.  After a short *)
(* write the stream has failed and writes nothing.                         *)
CopyChunk(u) ==
    /\ pc[u] = "fetch"
    /\ LET bytes == ReadOf(chunkFiles[loc[u].list[loc[u].copied + 1]], loc[u].chunk_size)
       IN  \E out \in IF loc[u].good THEN Written(bytes) ELSE {<<>>} :
              /\ disk' = [disk EXCEPT ![req[u].client][req[u].path] =
                             WriteAt(@, loc[u].offset, out)]
              /\ loc' = [loc EXCEPT ![u].copied = @ + 1,
                                    ![u].offset = @ + Len(out),
                                    ![u].good = @ /\ out = bytes]
    /\ Goto(u, "copy")
    /\ UNCHANGED <<chunkFiles, chunks, files, client_dbs, clock, req, stream>>

(* The file is closed; its size and the time go into the new record.       *)
StatFile(u) ==
    /\ pc[u] = "copy"
    /\ loc[u].copied = Len(loc[u].list)
    /\ loc' = [loc EXCEPT ![u].size = Len(disk[req[u].client][req[u].path]),
                          ![u].mtime = clock]
    /\ Goto(u, "hash")
    /\ UNCHANGED <<persistent, client_dbs, clock, req, stream>>

(* Hash::sha256File reads the file back, or returns the empty string when  *)
(* it cannot open it, which nothing looks at.  The record is complete, but *)
(* for last_sync_time, the one field nothing initialises.                  *)
HashFile(u) ==
    /\ pc[u] = "hash"
    /\ \E t \in Uninit,
          digest \in {sha256(disk[req[u].client][req[u].path])}
                        \cup (IF "read" \in Faults THEN {NoDigest} ELSE {}) :
          loc' = [loc EXCEPT ![u].rec =
                    [size |-> loc[u].size,
                     modified_time |-> loc[u].mtime,
                     hash |-> digest,
                     version |-> 1,
                     deleted |-> FALSE,
                     last_sync_time |-> t]]
    /\ Goto(u, "commit")
    /\ UNCHANGED <<persistent, client_dbs, clock, req, stream>>

(* insertOrUpdateFile makes the new record visible.                        *)
CommitFile(u) ==
    /\ pc[u] = "commit"
    /\ \/ /\ files' = [files EXCEPT ![req[u].client] =
                         insertOrUpdateFile(@, req[u].path, loc[u].rec)]
          /\ Goto(u, "respond")
       \/ /\ "db" \in Faults
          /\ Goto(u, "finalize_failed")
          /\ UNCHANGED files
    /\ UNCHANGED <<chunkFiles, chunks, disk, client_dbs, clock, req, loc, stream>>

Respond(u) ==
    /\ pc[u] = "respond"
    /\ Goto(u, "ok")
    /\ UNCHANGED <<persistent, client_dbs, clock, req, loc, stream>>

-----------------------------------------------------------------------------
(* StorageManager::deleteFile: the row is marked, chunk rows stay.         *)
DeleteFile(c, p) ==
    /\ files' = [files EXCEPT ![c] = markDeleted(@, p)]
    /\ client_dbs' = getClientDB(c)
    /\ UNCHANGED <<chunkFiles, chunks, disk, clock, pc, req, loc, stream>>

(* The process dies and is started again on the same storage root: calls   *)
(* with all they hold and open databases are gone, files and committed     *)
(* rows stay.                                                              *)
Crash ==
    /\ "crash" \in Faults
    /\ pc' = [u \in Uploads |-> IF Active(u) THEN "lost" ELSE pc[u]]
    /\ client_dbs' = {}
    /\ loc' = [u \in Uploads |-> IF Active(u) THEN NoLocals ELSE loc[u]]
    /\ stream' = [u \in Uploads |-> NoMessage]
    /\ UNCHANGED <<persistent, clock, req>>

Tick ==
    /\ clock < MaxTime
    /\ clock' = clock + 1
    /\ UNCHANGED <<persistent, client_dbs, pc, req, loc, stream>>

(* One step of the handler of call u.                                      *)
UploadFile(u) ==
    \/ ReadMessage(u) \/ StreamEnds(u)
    \/ ChunkExists(u) \/ OpenChunk(u) \/ WritePart(u) \/ WriteChunk(u) \/ InsertChunk(u)
    \/ ListRow(u) \/ ListEnd(u) \/ CreateFile(u) \/ SizeChunk(u) \/ CopyChunk(u)
    \/ StatFile(u) \/ HashFile(u) \/ CommitFile(u) \/ Respond(u)

Next ==
    \/ \E u \in Uploads : Begin(u) \/ UploadFile(u)
    \/ \E c \in Clients, p \in Paths : DeleteFile(c, p)
    \/ Crash
    \/ Tick

(* gRPC schedules the thread of every call.  ReadMessage and StreamEnds    *)
(* are fair too: the client sends its messages and closes its stream, or   *)
(* the transport ends it.                                                  *)
Fairness == \A u \in Uploads : WF_vars(UploadFile(u))

Spec == Init /\ [][Next]_vars

FairSpec == Spec /\ Fairness

-----------------------------------------------------------------------------
(* PROPERTIES                                                              *)

Labels == {"idle", "read", "store", "open", "write", "insert", "list", "create",
           "copy", "fetch", "hash", "commit", "respond"} \cup Answered

Digests == ({"sha256"} \X Seq(Bytes)) \cup {NoDigest}

FileRecords == [size : Nat, modified_time : 0 .. MaxTime, hash : Digests,
                version : {1}, deleted : BOOLEAN, last_sync_time : Uninit]

Locals == [recv : Nat, cursor : Indexes \cup {-1}, list : Seq(Hashes),
           copied : Nat, chunk_size : Nat, offset : Nat, good : BOOLEAN, size : Nat,
           mtime : 0 .. MaxTime, rec : FileRecords \cup {NoRow}]

(* The types of the tables, the files on disk and the locals of each call; *)
(* a call past "idle" has a request and never handles more messages than   *)
(* its stream holds.                                                       *)
TypeOK ==
    /\ chunkFiles \in [Hashes -> Seq(Bytes) \cup {NoRow}]
    /\ chunks \in [Clients -> [Paths -> [Indexes -> Hashes \cup {NoRow}]]]
    /\ files \in [Clients -> [Paths -> FileRecords \cup {NoRow}]]
    /\ disk \in [Clients -> [Paths -> Seq(Bytes)]]
    /\ client_dbs \subseteq Clients
    /\ clock \in 0 .. MaxTime
    /\ pc \in [Uploads -> Labels]
    /\ req \in [Uploads -> Requests \cup {NoRow}]
    /\ loc \in [Uploads -> Locals]
    /\ stream \in [Uploads -> [data : Seq(Bytes), pos : Nat]]
    /\ \A u \in Uploads :
          /\ pc[u] # "idle" => req[u] \in Requests
          /\ req[u] \in Requests => loc[u].recv <= Len(req[u].version)
          /\ pc[u] \in {"store", "open", "write", "insert"} =>
                loc[u].recv < Len(req[u].version)
          /\ loc[u].copied <= Len(loc[u].list)
          /\ pc[u] = "fetch" => loc[u].copied < Len(loc[u].list)

(* storeChunk puts the chunk file in place before it inserts the row that  *)
(* names it, so that no row of any client ever names a chunk file that     *)
(* does not exist: not after a failed open, a short write or a crash       *)
(* between the two, and not when two calls store the same chunk at once.   *)
ChunkRowsBacked ==
    \A c \in Clients, p \in Paths, i \in Indexes :
       chunks[c][p][i] # NoRow => chunkFiles[chunks[c][p][i]] # NoRow

(* The calls that were to send chunk h.                                    *)
Senders(h) == {u \in Uploads : pc[u] # "idle" /\ h \in ToSet(req[u].version)}

(* The file named by a hash is never longer than the chunk and holds each  *)
(* byte at its place, or a zero there: the hole left where a second call   *)
(* truncated the file under a first one in the middle of its write.  With  *)
(* one sender there is no hole, and the file holds a prefix of the chunk,  *)
(* whatever write failed and wherever the server died.                     *)
ChunkBytesInPlace ==
    \A h \in Hashes : chunkFiles[h] # NoRow =>
       /\ Len(chunkFiles[h]) <= Len(Data[h])
       /\ \A i \in 1 .. Len(chunkFiles[h]) : chunkFiles[h][i] \in {Data[h][i], Zero}
       /\ (\A u, w \in Senders(h) : u = w) => IsPrefix(chunkFiles[h], Data[h])

(* The bytes of the chunks any call ever sent for a file.                  *)
BytesSentFor(c, p) ==
    UNION {ToSet(Data[h]) : h \in UNION {ToSet(req[u].version) :
              u \in {w \in Uploads : pc[w] # "idle" /\ req[w].client = c
                                                  /\ req[w].path = p}}}

(* A rebuilt file is made only of bytes that were sent for this client and *)
(* this path (or of zeros in a hole): however calls interleave, fail or    *)
(* crash, no chunk of another client's or another path's upload gets in.   *)
NoForeignBytes ==
    \A c \in Clients, p \in Paths :
       ToSet(disk[c][p]) \subseteq BytesSentFor(c, p) \cup {Zero}

(* Every record is that of a whole version: its hash is the digest of a    *)
(* version some call uploaded to this client and path, not of a mixture of *)
(* several.                                                                *)
NoTornFile ==
    \A c \in Clients, p \in Paths : files[c][p] # NoRow =>
       \E u \in Uploads : /\ pc[u] # "idle"
                          /\ req[u].client = c /\ req[u].path = p
                          /\ files[c][p].hash = sha256(Content(req[u].version))

(* The calls for a file.                                                   *)
CallsFor(c, p) ==
    {u \in Uploads : pc[u] # "idle" /\ req[u].client = c /\ req[u].path = p}

(* The record of a file describes the rebuilt file on disk, unless the     *)
(* file is being rebuilt in place, or the last attempt to do so was cut    *)
(* short by a crash or an error and the record is that of a file which is  *)
(* gone.  The next upload that is acknowledged mends it: a call u before   *)
(* it is no excuse any more, whatever u left on disk and in the tables.    *)
RecordMatchesDisk ==
    \A c \in Clients, p \in Paths :
       \/ files[c][p] = NoRow
       \/ files[c][p].hash = sha256(disk[c][p])
       \/ \E u \in CallsFor(c, p) :
             /\ Active(u) \/ pc[u] \in {"lost", "finalize_failed"}
             /\ \A w \in CallsFor(c, p) : pc[w] = "ok" => w < u

(* finalizeFile refuses a call only for a reason: the file is empty, so    *)
(* that no message names it, a message is missing, a longer version was    *)
(* sent for the file before, whose rows are counted too, or a crash        *)
(* between open and write left a chunk file empty.  Rows of other paths,   *)
(* of retries and of calls cut short do no harm.                           *)
RefusedWithReason ==
    \A u \in Uploads : pc[u] = "finalize_failed" =>
       \/ req[u].version = <<>>
       \/ loc[u].recv < Len(req[u].version)
       \/ \E w \in CallsFor(req[u].client, req[u].path) :
             Len(req[w].version) > Len(req[u].version)
       \/ \E h \in ToSet(req[u].version) : chunkFiles[h] = <<>>

(* Every call that is begun is answered, or lost in a crash: no step of    *)
(* the handler waits for another call.                                     *)
UploadAnswered == \A u \in Uploads : pc[u] = "read" ~> pc[u] \in Answered

-----------------------------------------------------------------------------
(* REFINEMENT: the record of a file is what the store shows of it.         *)
FileImage(version) == [hash |-> sha256(Content(version)),
                       size |-> Len(Content(version))]

Shown(row) == IF row = NoRow THEN NoRow
              ELSE [image |-> [hash |-> row.hash, size |-> row.size],
                    deleted |-> row.deleted]

ShownFiles == [image : [hash : Digests, size : Nat], deleted : BOOLEAN]

(* A key without a row is not mistaken for one with a row.                 *)
ASSUME RowAssumption == NoRow \notin FileRecords /\ NoRow \notin ShownFiles

StatusOf(label) ==
    CASE label = "idle" -> "idle"
      [] label = "respond" -> "committed"
      [] label = "ok" -> "acknowledged"
      [] label \in {"store_failed", "finalize_failed"} -> "rejected"
      [] label = "lost" -> "lost"
      [] OTHER -> "running"

Store == INSTANCE FileStore WITH
            None <- NoRow,
            Image <- FileImage,
            status <- [u \in Uploads |-> StatusOf(pc[u])],
            request <- req,
            stored <- [c \in Clients |-> [p \in Paths |-> Shown(files[c][p])]]

(* An upload takes effect in one step or not at all: an acknowledged call  *)
(* has stored exactly the version it sent, a rejected one has changed no   *)
(* record, one lost in a crash has done either.                            *)
AtomicUploads == Store!Spec
=============================================================================
