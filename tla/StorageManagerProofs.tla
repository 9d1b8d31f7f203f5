------------------------ MODULE StorageManagerProofs ------------------------
(***************************************************************************)
(* Theorems about the upload path, for every set of clients, paths, chunks *)
(* and versions and for any number of concurrent calls.  Each theorem says *)
(* which faults it excludes:                                               *)
(*   - what storeChunk leaves on disk and in the chunks table is           *)
(*     consistent (TypeCorrect, RowsBacked, BytesInPlace);                 *)
(*   - a rebuilt file has bytes of its own path only (OwnBytesOnly);       *)
(*   - the record of a file describes the file on disk (RecordsMatch);     *)
(*   - finalizeFile refuses for a reason only (RefusalsHaveReasons);       *)
(*   - an upload is atomic (UploadsAtomic).                                *)
(***************************************************************************)
EXTENDS StorageManager, SequenceTheorems, WellFoundedInduction, TLAPS

(* A call that has not begun has received nothing.                         *)
Fresh == \A u \in Uploads : pc[u] = "idle" => loc[u].recv = 0

TypeInv == TypeOK /\ Fresh

(* The chunk call u is copying.                                            *)
Copied(u) == loc[u].list[loc[u].copied + 1]

(* A call that has passed the test for an existing chunk file, or opened   *)
(* the file itself, finds it in place when it writes and when it inserts   *)
(* the row; a call that has asked for the size of a chunk still has it     *)
(* when it reads.                                                          *)
Opened == \A u \in Uploads :
             /\ pc[u] \in {"write", "insert"} => chunkFiles[Current(u)] # NoRow
             /\ pc[u] = "fetch" => chunkFiles[Copied(u)] # NoRow

(* The data of the message a call is storing is what the message carried,  *)
(* and the stream is never past its end: at its start, until a part of it  *)
(* is written.                                                             *)
Streaming == \A u \in Uploads :
                /\ pc[u] \in {"store", "open", "write"} =>
                      /\ stream[u].data \in Payloads(Current(u))
                      /\ stream[u].pos <= Len(stream[u].data)
                      /\ pc[u] # "write" \/ "partial_write" \notin Faults =>
                            stream[u].pos = 0

IndInv == TypeInv /\ Opened /\ Streaming /\ ChunkRowsBacked

-----------------------------------------------------------------------------
(* Facts about the operators.                                              *)

(* An empty file is a file: NoRow is not the bytes of any.                 *)
LEMMA NoBytes == <<>> \in Seq(Bytes) /\ <<>> # NoRow
<1>1. <<>> \in Seq(Bytes)
  OBVIOUS
<1> QED
  BY <1>1, StorageAssumption

(* The bytes of a chunk are bytes of the model.                            *)
LEMMA DataType ==
    ASSUME NEW h \in Hashes
    PROVE  Data[h] \in Seq(Bytes)
BY StorageAssumption

(* Writing a sequence of bytes into a sequence of bytes at any offset      *)
(* gives a sequence of bytes, however large the hole.                      *)
LEMMA WriteAtType ==
    ASSUME NEW old \in Seq(Bytes), NEW at \in Nat, NEW new \in Seq(Bytes)
    PROVE  WriteAt(old, at, new) \in Seq(Bytes)
<1>1. Zero \in Bytes
  BY DEF Bytes
<1>2. PICK end \in Nat : end = IF new = <<>> THEN 0 ELSE at + Len(new)
  OBVIOUS
<1>3. PICK n \in Nat : n = IF end > Len(old) THEN end ELSE Len(old)
  BY <1>2
<1>4. \A i \in 1 .. n : (i > at /\ i <= end) => new[i - at] \in Bytes
  BY <1>2
<1>5. \A i \in 1 .. n : i <= Len(old) => old[i] \in Bytes
  OBVIOUS
<1>6. WriteAt(old, at, new) \in [1 .. n -> Bytes]
  BY <1>1, <1>2, <1>3, <1>4, <1>5 DEF WriteAt
<1> QED
  BY <1>6

(* Its length, and what it holds byte by byte.                             *)
LEMMA WriteAtBytes ==
    ASSUME NEW old \in Seq(Bytes), NEW at \in Nat, NEW new \in Seq(Bytes)
    PROVE  /\ Len(WriteAt(old, at, new)) =
                 IF new # <<>> /\ at + Len(new) > Len(old)
                 THEN at + Len(new) ELSE Len(old)
           /\ \A i \in 1 .. Len(WriteAt(old, at, new)) : WriteAt(old, at, new)[i] =
                 IF i > at /\ i <= at + Len(new) THEN new[i - at]
                 ELSE IF i <= Len(old) THEN old[i] ELSE Zero
<1>1. PICK end \in Nat : end = IF new = <<>> THEN 0 ELSE at + Len(new)
  OBVIOUS
<1>2. PICK n \in Nat : n = IF end > Len(old) THEN end ELSE Len(old)
  BY <1>1
<1>3. WriteAt(old, at, new) = [i \in 1 .. n |->
            IF i > at /\ i <= end THEN new[i - at]
            ELSE IF i <= Len(old) THEN old[i] ELSE Zero]
  BY <1>1, <1>2 DEF WriteAt
<1>4. Len(WriteAt(old, at, new)) = n
  BY <1>3
<1>5. \A i \in 1 .. n : (i > at /\ i <= end) <=> (i > at /\ i <= at + Len(new))
  BY <1>1
<1>6. \A i \in 1 .. n : WriteAt(old, at, new)[i] =
            IF i > at /\ i <= at + Len(new) THEN new[i - at]
            ELSE IF i <= Len(old) THEN old[i] ELSE Zero
  BY <1>3, <1>5
<1>7. n = IF new # <<>> /\ at + Len(new) > Len(old) THEN at + Len(new) ELSE Len(old)
  BY <1>1, <1>2
<1> QED
  BY <1>4, <1>6, <1>7

(* What a write leaves on disk is a prefix of what was to be written.      *)
LEMMA WrittenType ==
    ASSUME NEW bytes \in Seq(Bytes), NEW out \in Written(bytes)
    PROVE  out \in Seq(Bytes)
<1>1. \A k \in 0 .. Len(bytes) - 1 : SubSeq(bytes, 1, k) \in Seq(Bytes)
  OBVIOUS
<1> QED
  BY <1>1 DEF Written

(* What getChunk returns is bytes, whatever the size it was told.          *)
LEMMA ReadOfType ==
    ASSUME NEW bytes \in Seq(Bytes), NEW n \in Nat
    PROVE  ReadOf(bytes, n) \in Seq(Bytes)
<1>1. Zero \in Bytes
  BY DEF Bytes
<1>2. \A i \in 1 .. n : i <= Len(bytes) => bytes[i] \in Bytes
  OBVIOUS
<1>3. ReadOf(bytes, n) \in [1 .. n -> Bytes]
  BY <1>1, <1>2 DEF ReadOf
<1> QED
  BY <1>3

(* So are the bytes of a message, right or wrong.                          *)
LEMMA PayloadType ==
    ASSUME NEW h \in Hashes, NEW payload \in Payloads(h)
    PROVE  payload \in Seq(Bytes)
BY DataType DEF Payloads

(* The chunk a call is storing is one of its version, at an index the      *)
(* chunks table has.                                                       *)
LEMMA CurrentType ==
    ASSUME TypeOK, NEW u \in Uploads,
           pc[u] \in {"store", "open", "write", "insert"}
    PROVE  /\ Current(u) \in Hashes
           /\ loc[u].recv \in Indexes
           /\ req[u] \in Requests
<1>1. req[u] \in Requests /\ loc[u].recv < Len(req[u].version) /\ loc[u].recv \in Nat
  BY DEF TypeOK, Locals
<1>2. req[u].version \in Versions /\ req[u].version \in Seq(Hashes)
  BY <1>1, StorageAssumption DEF Requests
<1>3. Current(u) \in Hashes
  BY <1>1, <1>2 DEF Current
<1>4. loc[u].recv \in 0 .. Len(req[u].version) - 1
  BY <1>1, <1>2
<1>5. loc[u].recv \in Indexes
  BY <1>2, <1>4 DEF Indexes
<1> QED
  BY <1>1, <1>3, <1>5

-----------------------------------------------------------------------------
(* Type correctness.                                                       *)

(* The server starts well typed.                                           *)
LEMMA InitTypeInv == Init => TypeInv
<1> SUFFICES ASSUME Init PROVE TypeInv
  OBVIOUS
<1>1. NoLocals \in Locals /\ NoLocals.recv = 0
  BY StorageAssumption DEF NoLocals, Locals
<1>2. <<>> \in Seq(Bytes)
  OBVIOUS
<1>3. clock \in 0 .. MaxTime
  BY StorageAssumption DEF Init
<1>4. NoLocals.copied = 0 /\ NoLocals.list = <<>>
  BY DEF NoLocals
<1>5. \A u \in Uploads : NoRow \in Requests => NoLocals.recv <= Len(NoRow.version)
  BY <1>1, StorageAssumption DEF Requests
<1>6. /\ pc \in [Uploads -> Labels]
      /\ req \in [Uploads -> Requests \cup {NoRow}]
      /\ loc \in [Uploads -> Locals]
      /\ stream \in [Uploads -> [data : Seq(Bytes), pos : Nat]]
  BY <1>1 DEF Init, Labels, NoMessage
<1>7. /\ chunkFiles \in [Hashes -> Seq(Bytes) \cup {NoRow}]
      /\ chunks \in [Clients -> [Paths -> [Indexes -> Hashes \cup {NoRow}]]]
      /\ files \in [Clients -> [Paths -> FileRecords \cup {NoRow}]]
      /\ disk \in [Clients -> [Paths -> Seq(Bytes)]]
      /\ client_dbs \subseteq Clients
  BY <1>2 DEF Init
<1>8. \A u \in Uploads : pc[u] = "idle" /\ req[u] = NoRow /\ loc[u] = NoLocals
  BY DEF Init
<1>9. 0 <= Len(<<>>)
  OBVIOUS
<1> QED
  BY <1>1, <1>3, <1>4, <1>5, <1>6, <1>7, <1>8, <1>9 DEF TypeInv, TypeOK, Fresh

(* What is left of a message is bytes too.                                 *)
LEMMA RestType ==
    ASSUME TypeOK, NEW u \in Uploads
    PROVE  /\ stream[u].data \in Seq(Bytes) /\ stream[u].pos \in Nat
           /\ Rest(u) \in Seq(Bytes)
<1>1. stream[u].data \in Seq(Bytes) /\ stream[u].pos \in Nat
  BY DEF TypeOK
<1>2. SubSeq(stream[u].data, stream[u].pos + 1, Len(stream[u].data)) \in Seq(Bytes)
  BY <1>1
<1> QED
  BY <1>1, <1>2 DEF Rest

(* A whole write or a part of one puts bytes where the stream stands.      *)
LEMMA WriteBytes ==
    ASSUME TypeOK, NEW u \in Uploads, WriteChunk(u) \/ WritePart(u)
    PROVE  \E bytes \in Seq(Bytes) :
              chunkFiles' = [chunkFiles EXCEPT ![Current(u)] =
                               WriteAt(@, stream[u].pos, bytes)]
<1>1. Rest(u) \in Seq(Bytes)
  BY RestType
<1>2. CASE WriteChunk(u)
  <2>1. \A bytes \in Written(Rest(u)) : bytes \in Seq(Bytes)
    BY <1>1, WrittenType
  <2> QED
    BY <1>2, <2>1 DEF WriteChunk
<1>3. CASE WritePart(u)
  <2>1. \A k \in 1 .. Len(Rest(u)) - 1 : SubSeq(Rest(u), 1, k) \in Seq(Bytes)
    BY <1>1
  <2> QED
    BY <1>3, <2>1 DEF WritePart
<1> QED
  BY <1>2, <1>3

(* Every step of every call, and every fault, preserves the types.         *)
LEMMA TypeStep == TypeInv /\ Opened /\ [Next]_vars => TypeInv'
<1> SUFFICES ASSUME TypeInv, Opened, [Next]_vars PROVE TypeInv'
  OBVIOUS
<1> USE DEF TypeInv, Fresh
<1>1. ASSUME NEW u \in Uploads, Begin(u) PROVE TypeInv'
  <2>1. PICK r \in Requests : req' = [req EXCEPT ![u] = r]
    BY <1>1 DEF Begin
  <2>2. r.version \in Seq(Hashes)
    BY StorageAssumption DEF Requests
  <2>3. loc[u].recv <= Len(r.version)
    BY <1>1, <2>2 DEF Begin
  <2>4. /\ UNCHANGED <<chunkFiles, chunks, files, disk, client_dbs, clock, loc, stream>>
        /\ pc' = [pc EXCEPT ![u] = "read"]
    BY <1>1 DEF Begin, Goto, persistent
  <2> QED
    BY <2>1, <2>3, <2>4 DEF TypeOK, Labels
<1>2. ASSUME NEW u \in Uploads, ReadMessage(u) PROVE TypeInv'
  <2>1. req[u] \in Requests /\ loc[u].recv \in Nat
    BY <1>2 DEF ReadMessage, TypeOK, Locals
  <2>2. req[u].version \in Seq(Hashes)
    BY <2>1, StorageAssumption DEF Requests
  <2>3. Current(u) \in Hashes
    BY <1>2, <2>1, <2>2 DEF ReadMessage, Current
  <2>4. PICK payload \in Payloads(Current(u)) :
           stream' = [stream EXCEPT ![u] = [data |-> payload, pos |-> 0]]
    BY <1>2 DEF ReadMessage
  <2>5. payload \in Seq(Bytes)
    BY <2>3, PayloadType
  <2>6. stream' \in [Uploads -> [data : Seq(Bytes), pos : Nat]]
    BY <2>4, <2>5 DEF TypeOK
  <2> QED
    BY <1>2, <2>6 DEF ReadMessage, Goto, TypeOK, persistent, Labels, Answered
<1>3. ASSUME NEW u \in Uploads, StreamEnds(u) PROVE TypeInv'
  BY <1>3 DEF StreamEnds, Goto, TypeOK, persistent, Labels, Answered
<1>4. ASSUME NEW u \in Uploads, ChunkExists(u) PROVE TypeInv'
  BY <1>4 DEF ChunkExists, Goto, TypeOK, persistent, Labels, Answered
<1>5. ASSUME NEW u \in Uploads, OpenChunk(u) PROVE TypeInv'
  <2>1. Current(u) \in Hashes /\ <<>> \in Seq(Bytes)
    BY <1>5, CurrentType DEF OpenChunk
  <2>2. chunkFiles' \in [Hashes -> Seq(Bytes) \cup {NoRow}]
    BY <1>5, <2>1 DEF OpenChunk, TypeOK
  <2> QED
    BY <1>5, <2>2 DEF OpenChunk, Goto, TypeOK, Labels, Answered
<1>6. ASSUME NEW u \in Uploads, WriteChunk(u) \/ WritePart(u) PROVE TypeInv'
  <2>1. PICK bytes \in Seq(Bytes) :
           chunkFiles' = [chunkFiles EXCEPT ![Current(u)] =
                            WriteAt(@, stream[u].pos, bytes)]
    BY <1>6, WriteBytes
  <2>2. Current(u) \in Hashes
    BY <1>6, CurrentType DEF WriteChunk, WritePart
  <2>3. chunkFiles[Current(u)] \in Seq(Bytes)
    BY <1>6, <2>2 DEF WriteChunk, WritePart, TypeOK, Opened
  <2>4. chunkFiles' \in [Hashes -> Seq(Bytes) \cup {NoRow}]
    BY <2>1, <2>2, <2>3, RestType, WriteAtType DEF TypeOK
  <2>5. stream' \in [Uploads -> [data : Seq(Bytes), pos : Nat]]
    <3>1. \A k \in 1 .. Len(Rest(u)) - 1 : stream[u].pos + k \in Nat
      BY RestType
    <3>2. stream \in [Uploads -> [data : Seq(Bytes), pos : Nat]]
      BY DEF TypeOK
    <3>3. CASE WriteChunk(u)
      BY <3>2, <3>3 DEF WriteChunk
    <3>4. CASE WritePart(u)
      <4>1. PICK k \in 1 .. Len(Rest(u)) - 1 : stream' = [stream EXCEPT ![u].pos = @ + k]
        BY <3>4 DEF WritePart
      <4> QED
        BY <3>1, <3>2, <4>1
    <3> QED
      BY <1>6, <3>3, <3>4
  <2> QED
    BY <1>6, <2>4, <2>5 DEF WriteChunk, WritePart, Goto, TypeOK, Labels, Answered
<1>7. ASSUME NEW u \in Uploads, InsertChunk(u) PROVE TypeInv'
  <2>1. Current(u) \in Hashes /\ req[u] \in Requests /\ loc[u].recv \in Indexes
    BY <1>7, CurrentType DEF InsertChunk
  <2> DEFINE c == req[u].client
  <2>2. c \in Clients /\ req[u].path \in Paths
    BY <2>1 DEF Requests
  <2>3. insertChunk(chunks[c], req[u].path, loc[u].recv, Current(u))
           \in [Paths -> [Indexes -> Hashes \cup {NoRow}]]
    BY <2>1, <2>2 DEF insertChunk, TypeOK
  <2>4. chunks' \in [Clients -> [Paths -> [Indexes -> Hashes \cup {NoRow}]]]
    BY <1>7, <2>3, <2>2 DEF InsertChunk, TypeOK
  <2>5. client_dbs' \subseteq Clients
    BY <1>7, <2>1 DEF InsertChunk, getClientDB, TypeOK, Requests
  <2>6. loc[u].recv < Len(req[u].version) /\ Len(req[u].version) \in Nat
    BY <1>7, <2>1, StorageAssumption DEF InsertChunk, TypeOK, Requests
  <2>7. [loc[u] EXCEPT !.recv = @ + 1] \in Locals
    <3>1. loc[u] \in Locals /\ loc[u].recv + 1 \in Nat
      BY DEF TypeOK, Locals
    <3> QED
      BY <3>1 DEF Locals
  <2>8. loc' \in [Uploads -> Locals]
    BY <1>7, <2>7 DEF InsertChunk, TypeOK
  <2>9. \A w \in Uploads : /\ loc'[w].copied = loc[w].copied
                           /\ loc'[w].list = loc[w].list
                           /\ w # u => loc'[w] = loc[w]
    BY <1>7, SMTT(60) DEF InsertChunk, TypeOK, Locals
  <2>10. loc'[u].recv <= Len(req[u].version)
    BY <1>7, <2>6 DEF InsertChunk, TypeOK, Locals
  <2> QED
    BY <1>7, <2>4, <2>5, <2>8, <2>9, <2>10, ZenonT(60) DEF InsertChunk, Goto, TypeOK,
        Labels, Answered
<1>8. ASSUME NEW u \in Uploads, ListRow(u) PROVE TypeInv'
  <2> DEFINE rows == chunks[req[u].client][req[u].path]
  <2>1. PICK i \in Indexes :
           /\ isNextRow(rows, loc[u].cursor, i)
           /\ loc' = [loc EXCEPT ![u].cursor = i, ![u].list = Append(@, rows[i])]
    BY <1>8 DEF ListRow
  <2>2. req[u] \in Requests
    BY <1>8 DEF ListRow, TypeOK
  <2>3. rows[i] \in Hashes
    BY <2>1, <2>2 DEF isNextRow, rowsAfter, TypeOK, Requests
  <2>4. loc[u] \in Locals /\ loc[u].list \in Seq(Hashes) /\ loc[u].copied \in Nat
    BY DEF TypeOK, Locals
  <2>5. Append(loc[u].list, rows[i]) \in Seq(Hashes)
    BY <2>3, <2>4
  <2> DEFINE new == [loc[u] EXCEPT !.cursor = i, !.list = Append(@, rows[i])]
  <2>6. /\ new \in Locals /\ new.recv = loc[u].recv
        /\ new.copied = loc[u].copied /\ new.list = Append(loc[u].list, rows[i])
    BY <2>4, <2>5 DEF Locals
  <2>7. Len(loc[u].list) <= Len(new.list) /\ loc[u].copied <= Len(loc[u].list)
    BY <2>3, <2>4, <2>6 DEF TypeOK
  <2>8. loc[u].copied \in Nat /\ Len(loc[u].list) \in Nat /\ Len(new.list) \in Nat
    <3>1. new.list \in Seq(Hashes)
      BY <2>5, <2>6
    <3> HIDE DEF new
    <3> QED
      BY <2>4, <3>1
  <2>9. loc' = [loc EXCEPT ![u] = new]
    BY <2>1
  <2> HIDE DEF new
  <2>10. /\ loc' \in [Uploads -> Locals] /\ loc'[u] = new
        /\ \A w \in Uploads : w # u => loc'[w] = loc[w]
    BY <2>6, <2>9 DEF TypeOK
  <2>11. /\ loc'[u].recv = loc[u].recv
         /\ loc'[u].copied <= Len(loc'[u].list)
    BY <2>6, <2>7, <2>8, <2>10
  <2> QED
    BY <1>8, <2>10, <2>11 DEF ListRow, TypeOK, persistent
<1>9. ASSUME NEW u \in Uploads, ListEnd(u) PROVE TypeInv'
  BY <1>9 DEF ListEnd, Listed, Goto, TypeOK, persistent, Labels, Answered
<1>10. ASSUME NEW u \in Uploads, CreateFile(u) PROVE TypeInv'
  <2>1. req[u].client \in Clients /\ req[u].path \in Paths /\ <<>> \in Seq(Bytes)
    BY <1>10 DEF CreateFile, TypeOK, Requests
  <2>2. [disk[req[u].client] EXCEPT ![req[u].path] = <<>>] \in [Paths -> Seq(Bytes)]
    BY <2>1 DEF TypeOK
  <2>3. disk' \in [Clients -> [Paths -> Seq(Bytes)]]
    BY <1>10, <2>1, <2>2 DEF CreateFile, TypeOK
  <2> QED
    BY <1>10, <2>3 DEF CreateFile, Goto, TypeOK, Labels, Answered
<1>11. ASSUME NEW u \in Uploads, SizeChunk(u) PROVE TypeInv'
  <2>1. /\ loc[u] \in Locals /\ loc[u].copied \in Nat
        /\ loc[u].list \in Seq(Hashes) /\ loc[u].copied < Len(loc[u].list)
    BY <1>11 DEF SizeChunk, TypeOK, Locals
  <2>2. Copied(u) \in Hashes
    BY <2>1 DEF Copied
  <2>3. CASE pc' = [pc EXCEPT ![u] = "finalize_failed"] /\ UNCHANGED loc
    BY <1>11, <2>3 DEF SizeChunk, TypeOK, persistent, Labels, Answered
  <2>4. CASE /\ chunkFiles[Copied(u)] \notin {NoRow, <<>>}
             /\ loc' = [loc EXCEPT ![u].chunk_size = Len(chunkFiles[Copied(u)])]
             /\ pc' = [pc EXCEPT ![u] = "fetch"]
    <3> DEFINE n == Len(chunkFiles[Copied(u)])
               new == [loc[u] EXCEPT !.chunk_size = n]
    <3>1. n \in Nat
      BY <2>2, <2>4 DEF TypeOK
    <3>2. loc' = [loc EXCEPT ![u] = new] /\ pc' = [pc EXCEPT ![u] = "fetch"]
      BY <2>4
    <3> HIDE DEF n
    <3>3. /\ new \in Locals /\ new.recv = loc[u].recv
          /\ new.copied = loc[u].copied /\ new.list = loc[u].list
      BY <2>1, <3>1 DEF Locals
    <3> HIDE DEF new
    <3> QED
      BY <1>11, <2>1, <3>2, <3>3 DEF SizeChunk, TypeOK, persistent, Labels, Answered
  <2> QED
    BY <1>11, <2>3, <2>4 DEF SizeChunk, Copied, Goto
<1>12. ASSUME NEW u \in Uploads, CopyChunk(u) PROVE TypeInv'
  <2> DEFINE bytes == ReadOf(chunkFiles[Copied(u)], loc[u].chunk_size)
             p == req[u].path
             c == req[u].client
  <2>1. /\ loc[u] \in Locals /\ loc[u].copied \in Nat /\ loc[u].offset \in Nat
        /\ loc[u].list \in Seq(Hashes) /\ loc[u].copied < Len(loc[u].list)
        /\ loc[u].good \in BOOLEAN /\ loc[u].chunk_size \in Nat
    BY <1>12 DEF CopyChunk, TypeOK, Locals
  <2>2. Copied(u) \in Hashes
    BY <2>1 DEF Copied
  <2>3. c \in Clients /\ p \in Paths
    BY <1>12 DEF CopyChunk, TypeOK, Requests
  <2>4. bytes \in Seq(Bytes)
    <3>1. chunkFiles[Copied(u)] \in Seq(Bytes)
      BY <1>12, <2>2 DEF CopyChunk, Opened, TypeOK
    <3> QED
      BY <2>1, <3>1, ReadOfType
  <2>5. PICK out \in IF loc[u].good THEN Written(bytes) ELSE {<<>>} :
           /\ disk' = [disk EXCEPT ![c][p] = WriteAt(@, loc[u].offset, out)]
           /\ loc' = [loc EXCEPT ![u].copied = @ + 1,
                                 ![u].offset = @ + Len(out),
                                 ![u].good = @ /\ out = bytes]
    BY <1>12 DEF CopyChunk, Copied
  <2> HIDE DEF bytes
  <2>6. out \in Seq(Bytes) /\ Len(out) \in Nat
    <3>1. out \in Written(bytes) \/ out = <<>>
      BY <2>5
    <3>2. out \in Seq(Bytes)
      BY <2>4, <3>1, WrittenType, NoBytes
    <3> QED
      BY <3>2
  <2>7. WriteAt(disk[c][p], loc[u].offset, out) \in Seq(Bytes)
    BY <2>1, <2>3, <2>6, WriteAtType DEF TypeOK
  <2>8. disk' \in [Clients -> [Paths -> Seq(Bytes)]]
    BY <2>3, <2>5, <2>7 DEF TypeOK
  <2> DEFINE new == [loc[u] EXCEPT !.copied = @ + 1, !.offset = @ + Len(out),
                                   !.good = @ /\ out = bytes]
  <2>9. /\ loc[u].copied + 1 \in Nat /\ loc[u].offset + Len(out) \in Nat
        /\ (loc[u].good /\ out = bytes) \in BOOLEAN
    BY <2>1, <2>6
  <2>10. /\ new \in Locals /\ new.recv = loc[u].recv
         /\ new.copied = loc[u].copied + 1 /\ new.list = loc[u].list
    BY <2>1, <2>9 DEF Locals
  <2>11. loc' = [loc EXCEPT ![u] = new]
    BY <2>5
  <2> HIDE DEF new
  <2>12. new.copied <= Len(new.list)
    BY <2>1, <2>10
  <2> QED
    BY <1>12, <2>8, <2>10, <2>11, <2>12 DEF CopyChunk, Goto, TypeOK, Labels, Answered
<1>13. ASSUME NEW u \in Uploads, StatFile(u) PROVE TypeInv'
  <2>1. req[u].client \in Clients /\ req[u].path \in Paths
    BY <1>13 DEF StatFile, TypeOK, Requests
  <2>2. Len(disk[req[u].client][req[u].path]) \in Nat
    BY <2>1 DEF TypeOK
  <2> DEFINE new == [loc[u] EXCEPT !.size = Len(disk[req[u].client][req[u].path]),
                                   !.mtime = clock]
  <2>3. loc[u] \in Locals /\ clock \in 0 .. MaxTime
    BY DEF TypeOK
  <2>4. /\ new \in Locals /\ new.recv = loc[u].recv
        /\ new.copied = loc[u].copied /\ new.list = loc[u].list
    BY <2>2, <2>3 DEF Locals
  <2>5. loc' = [loc EXCEPT ![u] = new]
    BY <1>13 DEF StatFile
  <2> HIDE DEF new
  <2> QED
    BY <1>13, <2>4, <2>5, ZenonT(60) DEF StatFile, Goto, TypeOK, persistent, Labels, Answered
<1>14. ASSUME NEW u \in Uploads, HashFile(u) PROVE TypeInv'
  <2> DEFINE rec(t, digest) == [size |-> loc[u].size,
                                modified_time |-> loc[u].mtime,
                                hash |-> digest,
                                version |-> 1,
                                deleted |-> FALSE,
                                last_sync_time |-> t]
  <2>1. PICK t \in Uninit, digest \in {sha256(disk[req[u].client][req[u].path]), NoDigest} :
           loc' = [loc EXCEPT ![u].rec = rec(t, digest)]
    BY <1>14 DEF HashFile
  <2>2. digest \in Digests
    <3>1. disk[req[u].client][req[u].path] \in Seq(Bytes)
      BY <1>14 DEF HashFile, TypeOK, Requests
    <3> QED
      BY <2>1, <3>1 DEF Digests, sha256
  <2>3. loc[u] \in Locals /\ loc[u].size \in Nat /\ loc[u].mtime \in 0 .. MaxTime
    BY DEF TypeOK, Locals
  <2>4. rec(t, digest) \in FileRecords
    BY <2>2, <2>3 DEF FileRecords
  <2> HIDE DEF rec
  <2> DEFINE new == [loc[u] EXCEPT !.rec = rec(t, digest)]
  <2>5. /\ new \in Locals /\ new.recv = loc[u].recv
        /\ new.copied = loc[u].copied /\ new.list = loc[u].list
    BY <2>3, <2>4 DEF Locals
  <2>6. loc' = [loc EXCEPT ![u] = new]
    BY <2>1
  <2> HIDE DEF new
  <2> QED
    BY <1>14, <2>5, <2>6 DEF HashFile, Goto, TypeOK, persistent, Labels, Answered
<1>15. ASSUME NEW u \in Uploads, CommitFile(u) PROVE TypeInv'
  <2>1. req[u].client \in Clients /\ req[u].path \in Paths
    BY <1>15 DEF CommitFile, TypeOK, Requests
  <2>2. loc[u].rec \in FileRecords \cup {NoRow}
    BY DEF TypeOK, Locals
  <2>3. insertOrUpdateFile(files[req[u].client], req[u].path, loc[u].rec)
           \in [Paths -> FileRecords \cup {NoRow}]
    BY <2>1, <2>2 DEF insertOrUpdateFile, TypeOK
  <2>4. files' \in [Clients -> [Paths -> FileRecords \cup {NoRow}]]
    BY <1>15, <2>1, <2>3 DEF CommitFile, TypeOK
  <2> QED
    BY <1>15, <2>4 DEF CommitFile, Goto, TypeOK, Labels, Answered
<1>16. ASSUME NEW u \in Uploads, Respond(u) PROVE TypeInv'
  BY <1>16 DEF Respond, Goto, TypeOK, persistent, Labels, Answered
<1>17. ASSUME NEW c \in Clients, NEW p \in Paths, DeleteFile(c, p) PROVE TypeInv'
  <2>1. \A r \in FileRecords : [r EXCEPT !.deleted = TRUE] \in FileRecords
    BY DEF FileRecords
  <2>2. markDeleted(files[c], p) \in [Paths -> FileRecords \cup {NoRow}]
    BY <1>17, <2>1 DEF markDeleted, TypeOK
  <2>3. files' \in [Clients -> [Paths -> FileRecords \cup {NoRow}]]
    BY <1>17, <2>2 DEF DeleteFile, getClientDB, TypeOK
  <2> QED
    BY <1>17, <2>3 DEF DeleteFile, getClientDB, TypeOK
<1>18. CASE Crash
  <2>1. NoLocals \in Locals /\ NoMessage \in [data : Seq(Bytes), pos : Nat]
    BY StorageAssumption DEF NoLocals, Locals, NoMessage
  <2>2. NoLocals.recv = 0 /\ NoLocals.copied = 0 /\ NoLocals.list = <<>>
    BY DEF NoLocals
  <2>3. /\ loc' \in [Uploads -> Locals]
        /\ stream' \in [Uploads -> [data : Seq(Bytes), pos : Nat]]
        /\ pc' \in [Uploads -> Labels]
    BY <1>18, <2>1 DEF Crash, TypeOK, Labels, Answered
  <2>4. ASSUME NEW u \in Uploads
        PROVE  \/ pc'[u] = "lost" /\ pc[u] # "idle" /\ loc'[u] = NoLocals
               \/ pc'[u] = pc[u] /\ loc'[u] = loc[u]
    BY <1>18 DEF Crash, Active, TypeOK
  <2>5. \A u \in Uploads : req[u] \in Requests => Len(req[u].version) \in Nat
    BY StorageAssumption DEF Requests
  <2>6. ASSUME NEW u \in Uploads
        PROVE  (/\ pc[u] # "idle" => req[u] \in Requests
                /\ req[u] \in Requests => loc[u].recv <= Len(req[u].version)
                /\ pc[u] \in {"store", "open", "write", "insert"} =>
                      loc[u].recv < Len(req[u].version)
                /\ loc[u].copied <= Len(loc[u].list)
                /\ pc[u] = "fetch" => loc[u].copied < Len(loc[u].list)
                /\ pc[u] = "idle" => loc[u].recv = 0)'
    BY <1>18, <2>2, <2>4, <2>5 DEF Crash, TypeOK
  <2> QED
    BY <1>18, <2>3, <2>6 DEF Crash, TypeOK, persistent
<1>19. CASE Tick
  BY <1>19, StorageAssumption DEF Tick, TypeOK, persistent
<1>20. CASE UNCHANGED vars
  BY <1>20 DEF vars, TypeOK
<1> QED
  BY <1>1, <1>2, <1>3, <1>4, <1>5, <1>6, <1>7, <1>8, <1>9, <1>10, <1>11, <1>12,
     <1>13, <1>14, <1>15, <1>16, <1>17, <1>18, <1>19, <1>20 DEF Next, UploadFile

-----------------------------------------------------------------------------
(* Frames: what a step leaves alone.                                       *)

(* A step of one call leaves the others' request, place and locals.        *)
LEMMA OtherCalls ==
    ASSUME TypeInv, NEW w \in Uploads, Begin(w) \/ UploadFile(w),
           NEW u \in Uploads, u # w
    PROVE  UNCHANGED <<pc[u], req[u], loc[u]>>
BY DEF TypeInv, TypeOK, Goto, UploadFile, Begin, ReadMessage, StreamEnds,
       ChunkExists, OpenChunk, WritePart, WriteChunk, InsertChunk, ListRow, ListEnd,
       Listed, CreateFile, SizeChunk, CopyChunk, StatFile, HashFile, CommitFile, Respond

(* The handler runs for a call that is begun and not yet answered, and     *)
(* never changes the request.                                              *)
LEMMA HandlerStep ==
    ASSUME TypeInv, NEW u \in Uploads, UploadFile(u)
    PROVE  /\ Active(u) /\ pc[u] # "idle" /\ pc'[u] # "idle" /\ pc'[u] # "lost"
           /\ UNCHANGED req
BY DEF TypeInv, TypeOK, Goto, Active, Answered, UploadFile, ReadMessage, StreamEnds,
       ChunkExists, OpenChunk, WritePart, WriteChunk, InsertChunk, ListRow, ListEnd,
       Listed, CreateFile, SizeChunk, CopyChunk, StatFile, HashFile, CommitFile, Respond

(* What any step may do to a call: it begins, its handler runs, it is lost *)
(* in a crash, or nothing changes.                                         *)
LEMMA CallSteps ==
    ASSUME TypeInv, [Next]_vars, NEW u \in Uploads
    PROVE  \/ Begin(u)
           \/ UploadFile(u)
           \/ /\ Crash /\ Active(u) /\ pc'[u] = "lost"
              /\ req'[u] = req[u] /\ loc'[u] = NoLocals
           \/ UNCHANGED <<pc[u], req[u], loc[u]>>
<1>1. ASSUME NEW w \in Uploads, Begin(w) \/ UploadFile(w)
      PROVE  u = w \/ UNCHANGED <<pc[u], req[u], loc[u]>>
  BY <1>1, OtherCalls
<1>2. CASE Crash
  BY <1>2 DEF Crash, TypeInv, TypeOK
<1>3. CASE Tick \/ UNCHANGED vars \/ \E c \in Clients, p \in Paths : DeleteFile(c, p)
  BY <1>3 DEF Tick, vars, DeleteFile
<1> QED
  BY <1>1, <1>2, <1>3 DEF Next

(* Once begun, a call stays begun and keeps its request.                   *)
LEMMA BegunStays ==
    ASSUME TypeInv, [Next]_vars, NEW u \in Uploads, pc[u] # "idle"
    PROVE  pc'[u] # "idle" /\ req'[u] = req[u]
<1>1. ~ Begin(u)
  BY DEF Begin
<1>2. CASE UploadFile(u)
  BY <1>2, HandlerStep
<1> QED
  BY <1>1, <1>2, CallSteps

(* A step of one call leaves what the others are writing.                  *)
LEMMA OtherStreams ==
    ASSUME TypeInv, NEW w \in Uploads, Begin(w) \/ UploadFile(w),
           NEW u \in Uploads, u # w
    PROVE  UNCHANGED stream[u]
BY DEF TypeInv, TypeOK, UploadFile, Begin, ReadMessage, StreamEnds,
       ChunkExists, OpenChunk, WritePart, WriteChunk, InsertChunk, ListRow, ListEnd,
       Listed, CreateFile, SizeChunk, CopyChunk, StatFile, HashFile, CommitFile, Respond

(* How a call comes to write a chunk file, and goes on.                    *)
LEMMA StreamSteps ==
    ASSUME TypeInv, [Next]_vars, NEW u \in Uploads, pc'[u] \in {"store", "open", "write"}
    PROVE  \/ ReadMessage(u) /\ pc'[u] = "store"
           \/ ChunkExists(u) /\ pc'[u] = "open"
           \/ OpenChunk(u) /\ pc'[u] = "write"
           \/ WritePart(u)
           \/ UNCHANGED <<pc[u], req[u], loc[u], stream[u]>>
<1>1. ASSUME NEW w \in Uploads, w # u, Begin(w) \/ UploadFile(w)
      PROVE  UNCHANGED <<pc[u], req[u], loc[u], stream[u]>>
  BY <1>1, OtherCalls, OtherStreams
<1>2. ASSUME Begin(u) \/ UploadFile(u)
      PROVE  \/ ReadMessage(u) /\ pc'[u] = "store"
             \/ ChunkExists(u) /\ pc'[u] = "open"
             \/ OpenChunk(u) /\ pc'[u] = "write"
             \/ WritePart(u)
  BY <1>2, ZenonT(60) DEF TypeInv, TypeOK, Goto, UploadFile, Begin, ReadMessage, StreamEnds,
         ChunkExists, OpenChunk, WriteChunk, InsertChunk, ListRow, ListEnd,
         Listed, CreateFile, SizeChunk, CopyChunk, StatFile, HashFile, CommitFile, Respond
<1>3. CASE Crash
  <2>1. pc'[u] = IF Active(u) THEN "lost" ELSE pc[u]
    BY <1>3 DEF Crash
  <2> QED
    BY <2>1 DEF Active, Answered
<1>4. CASE Tick \/ UNCHANGED vars \/ \E c \in Clients, p \in Paths : DeleteFile(c, p)
  BY <1>4 DEF Tick, vars, DeleteFile
<1> QED
  BY <1>1, <1>2, <1>3, <1>4 DEF Next

(* An active call was active before or has just begun.                     *)
LEMMA ActiveBefore ==
    ASSUME TypeInv, [Next]_vars, NEW u \in Uploads, Active(u)'
    PROVE  Begin(u) \/ (Active(u) /\ req'[u] = req[u])
<1>1. CASE UploadFile(u)
  BY <1>1, HandlerStep
<1> QED
  BY <1>1, CallSteps DEF Active, Answered

-----------------------------------------------------------------------------
(* What storeChunk leaves behind.                                          *)

(* At the start no row names a chunk.                                      *)
LEMMA InitIndInv == Init => IndInv
<1> SUFFICES ASSUME Init PROVE IndInv
  OBVIOUS
<1>1. TypeInv
  BY InitTypeInv
<1>2. Opened
  BY DEF Init, Opened
<1>3. ChunkRowsBacked
  BY DEF Init, ChunkRowsBacked
<1>4. Streaming
  BY DEF Init, Streaming
<1> QED
  BY <1>1, <1>2, <1>3, <1>4 DEF IndInv

(* Only opening and writing change a chunk file.                           *)
LEMMA ChunkFileSteps ==
    ASSUME [Next]_vars
    PROVE  \/ UNCHANGED chunkFiles
           \/ \E u \in Uploads : OpenChunk(u) \/ WriteChunk(u) \/ WritePart(u)
BY DEF Next, UploadFile, vars, persistent, Begin, ReadMessage, StreamEnds,
       ChunkExists, InsertChunk, ListRow, ListEnd, Listed, CreateFile,
       SizeChunk, CopyChunk, StatFile, HashFile, CommitFile, Respond,
       DeleteFile, Crash, Tick

(* No step of the server removes a chunk file.                             *)
LEMMA ChunkFilesStay ==
    ASSUME TypeInv, Opened, [Next]_vars, NEW h \in Hashes, chunkFiles[h] # NoRow
    PROVE  chunkFiles'[h] # NoRow
<1>1. chunkFiles' \in [Hashes -> Seq(Bytes) \cup {NoRow}]
  BY TypeStep DEF TypeInv, TypeOK
<1>2. ASSUME NEW u \in Uploads, OpenChunk(u) PROVE chunkFiles'[h] # NoRow
  BY <1>2, NoBytes DEF OpenChunk, TypeInv, TypeOK
<1>3. ASSUME NEW u \in Uploads, WriteChunk(u) \/ WritePart(u)
      PROVE  chunkFiles'[h] # NoRow
  <2>1. PICK bytes \in Seq(Bytes) :
           chunkFiles' = [chunkFiles EXCEPT ![Current(u)] =
                            WriteAt(@, stream[u].pos, bytes)]
    BY <1>3, WriteBytes DEF TypeInv
  <2>2. Current(u) \in Hashes
    BY <1>3, CurrentType DEF WriteChunk, WritePart, TypeInv
  <2>3. chunkFiles[Current(u)] \in Seq(Bytes)
    BY <1>3, <2>2 DEF WriteChunk, WritePart, Opened, TypeInv, TypeOK
  <2>4. WriteAt(chunkFiles[Current(u)], stream[u].pos, bytes) # NoRow
    BY <2>3, RestType, WriteAtType, StorageAssumption DEF TypeInv
  <2> QED
    BY <2>1, <2>2, <2>4 DEF TypeInv, TypeOK
<1>4. UNCHANGED chunkFiles \/ \E u \in Uploads : OpenChunk(u) \/ WriteChunk(u) \/ WritePart(u)
  BY ChunkFileSteps
<1> QED
  BY <1>2, <1>3, <1>4

(* The chunk a call is at changes only when the call reads its next        *)
(* message.                                                                *)
LEMMA OpenedStep == TypeInv /\ Opened /\ [Next]_vars => Opened'
<1> SUFFICES ASSUME TypeInv, Opened, [Next]_vars, NEW u \in Uploads
             PROVE  (/\ pc[u] \in {"write", "insert"} => chunkFiles[Current(u)] # NoRow
                     /\ pc[u] = "fetch" => chunkFiles[Copied(u)] # NoRow)'
  BY DEF Opened
<1>1. CASE UNCHANGED <<pc[u], req[u], loc[u]>>
  <2>1. ASSUME pc[u] = "fetch" PROVE Copied(u) \in Hashes
    BY <2>1 DEF Copied, TypeInv, TypeOK, Locals
  <2>2. UNCHANGED <<Current(u), Copied(u)>>
    BY <1>1 DEF Current, Copied
  <2> QED
    BY <1>1, <2>1, <2>2, ChunkFilesStay, CurrentType DEF Opened, TypeInv
<1>2. CASE ChunkExists(u)
  BY <1>2 DEF ChunkExists, Goto, Current, persistent, TypeInv, TypeOK
<1>3. CASE OpenChunk(u)
  <2>1. Current(u) \in Hashes
    BY <1>3, CurrentType DEF OpenChunk, TypeInv
  <2> QED
    BY <1>3, <2>1, NoBytes DEF OpenChunk, Goto, Current, TypeInv, TypeOK
<1>4. CASE WriteChunk(u) \/ WritePart(u)
  <2>1. pc[u] = "write" /\ pc'[u] \in {"write", "insert"} /\ UNCHANGED Current(u)
    BY <1>4 DEF WriteChunk, WritePart, Goto, Current, TypeInv, TypeOK
  <2> QED
    BY <2>1, ChunkFilesStay, CurrentType DEF Opened, TypeInv
<1>5. CASE SizeChunk(u)
  BY <1>5, ZenonT(60) DEF SizeChunk, Goto, Copied, persistent, TypeInv, TypeOK, Locals
<1>6. CASE pc'[u] \notin {"write", "insert", "fetch"}
  BY <1>6
<1>7. \/ UNCHANGED <<pc[u], req[u], loc[u]>>
      \/ ChunkExists(u) \/ OpenChunk(u) \/ WriteChunk(u) \/ WritePart(u) \/ SizeChunk(u)
      \/ pc'[u] \notin {"write", "insert", "fetch"}
  <2>1. ASSUME NEW w \in Uploads, w # u, Begin(w) \/ UploadFile(w)
        PROVE  UNCHANGED <<pc[u], req[u], loc[u]>>
    BY <2>1 DEF TypeInv, TypeOK, Goto, UploadFile, Begin, ReadMessage, StreamEnds,
           ChunkExists, OpenChunk, WritePart, WriteChunk, InsertChunk, ListRow, ListEnd,
           Listed, CreateFile, SizeChunk, CopyChunk, StatFile, HashFile, CommitFile, Respond
  <2>2. CASE \/ Begin(u) \/ ReadMessage(u) \/ StreamEnds(u) \/ InsertChunk(u)
             \/ ListRow(u) \/ ListEnd(u) \/ CreateFile(u) \/ CopyChunk(u)
             \/ StatFile(u) \/ HashFile(u) \/ CommitFile(u) \/ Respond(u)
    BY <2>2 DEF TypeInv, TypeOK, Goto, Begin, ReadMessage, StreamEnds, InsertChunk,
           ListRow, ListEnd, Listed, CreateFile, CopyChunk, StatFile, HashFile,
           CommitFile, Respond
  <2>3. CASE Crash
    BY <2>3 DEF Crash, Active, Answered, TypeInv, TypeOK
  <2>4. CASE Tick \/ UNCHANGED vars \/ \E c \in Clients, p \in Paths : DeleteFile(c, p)
    BY <2>4 DEF Tick, vars, DeleteFile
  <2> QED
    BY <2>1, <2>2, <2>3, <2>4 DEF Next, UploadFile
<1> QED
  BY <1>1, <1>2, <1>3, <1>4, <1>5, <1>6, <1>7

(* A row is inserted only for a chunk whose file is in place.              *)
LEMMA BackedStep == IndInv /\ [Next]_vars => ChunkRowsBacked'
<1> SUFFICES ASSUME IndInv, [Next]_vars,
                    NEW c \in Clients, NEW p \in Paths, NEW i \in Indexes,
                    chunks'[c][p][i] # NoRow
             PROVE  chunkFiles'[chunks'[c][p][i]] # NoRow
  BY DEF ChunkRowsBacked
<1>1. CASE chunks'[c][p][i] = chunks[c][p][i]
  <2>1. chunks[c][p][i] \in Hashes
    BY <1>1 DEF IndInv, TypeInv, TypeOK
  <2> QED
    BY <1>1, <2>1, ChunkFilesStay DEF IndInv, ChunkRowsBacked
<1>2. ASSUME NEW u \in Uploads, InsertChunk(u), chunks'[c][p][i] = Current(u)
      PROVE  chunkFiles'[chunks'[c][p][i]] # NoRow
  BY <1>2 DEF InsertChunk, IndInv, Opened
<1>3. ASSUME NEW u \in Uploads, InsertChunk(u), chunks'[c][p][i] # chunks[c][p][i]
      PROVE  chunks'[c][p][i] = Current(u)
  <2>1. /\ c = req[u].client
        /\ chunks'[c] = insertChunk(chunks[c], req[u].path, loc[u].recv, Current(u))
    BY <1>3 DEF InsertChunk, IndInv, TypeInv, TypeOK
  <2>2. chunks[c] \in [Paths -> [Indexes -> Hashes \cup {NoRow}]]
    BY DEF IndInv, TypeInv, TypeOK
  <2> QED
    BY <1>3, <2>1, <2>2 DEF insertChunk
<1>4. UNCHANGED chunks \/ \E u \in Uploads : InsertChunk(u)
  BY ZenonT(60) DEF Next, UploadFile, vars, persistent, Begin, ReadMessage, StreamEnds,
         ChunkExists, OpenChunk, WritePart, WriteChunk, ListRow, ListEnd,
         Listed, CreateFile, SizeChunk, CopyChunk, StatFile, HashFile,
         CommitFile, Respond, DeleteFile, Crash, Tick
<1> QED
  BY <1>1, <1>2, <1>3, <1>4

(* A message is stored as it was read, and the stream stays within it.     *)
LEMMA StreamingStep == IndInv /\ [Next]_vars => Streaming'
<1> SUFFICES ASSUME IndInv, [Next]_vars, NEW u \in Uploads,
                    pc'[u] \in {"store", "open", "write"}
             PROVE  (/\ stream[u].data \in Payloads(Current(u))
                     /\ stream[u].pos <= Len(stream[u].data)
                     /\ pc[u] # "write" \/ "partial_write" \notin Faults =>
                           stream[u].pos = 0)'
  BY DEF Streaming
<1> USE DEF IndInv, TypeInv
<1>1. CASE ReadMessage(u)
  <2>1. PICK payload \in Payloads(Current(u)) :
           stream' = [stream EXCEPT ![u] = [data |-> payload, pos |-> 0]]
    BY <1>1 DEF ReadMessage
  <2>2. stream'[u].data = payload /\ stream'[u].pos = 0
    BY <2>1 DEF TypeOK
  <2>3. UNCHANGED Current(u) /\ Payloads(Current(u))' = Payloads(Current(u))
    BY <1>1 DEF ReadMessage, Current, Payloads
  <2>4. stream'[u].data \in Seq(Bytes)
    BY TypeStep DEF TypeOK
  <2>5. 0 <= Len(stream'[u].data)
    BY <2>4
  <2> QED
    BY <2>1, <2>2, <2>3, <2>5
<1>2. ASSUME UNCHANGED <<req[u], loc[u], stream[u]>>,
             pc[u] \in {"store", "open"} \/ pc'[u] = pc[u]
      PROVE  (/\ stream[u].data \in Payloads(Current(u))
              /\ stream[u].pos <= Len(stream[u].data)
              /\ pc[u] # "write" \/ "partial_write" \notin Faults =>
                    stream[u].pos = 0)'
  <2>1. UNCHANGED Current(u) /\ Payloads(Current(u))' = Payloads(Current(u))
    BY <1>2 DEF Current, Payloads
  <2> QED
    BY <1>2, <2>1 DEF Streaming
<1>3. CASE WritePart(u)
  <2>1. PICK k \in 1 .. Len(Rest(u)) - 1 : stream' = [stream EXCEPT ![u].pos = @ + k]
    BY <1>3 DEF WritePart
  <2>2. stream'[u].data = stream[u].data /\ stream'[u].pos = stream[u].pos + k
    BY <2>1 DEF TypeOK
  <2>3. /\ stream[u].data \in Seq(Bytes) /\ stream[u].pos \in Nat
        /\ stream[u].pos <= Len(stream[u].data)
        /\ stream[u].data \in Payloads(Current(u))
    BY <1>3, RestType DEF WritePart, Streaming
  <2>4. Len(Rest(u)) = Len(stream[u].data) - stream[u].pos
    BY <2>3 DEF Rest
  <2>5. stream'[u].pos <= Len(stream'[u].data)
    BY <2>2, <2>3, <2>4
  <2>6. UNCHANGED <<Current(u), pc>> /\ Payloads(Current(u))' = Payloads(Current(u))
    BY <1>3 DEF WritePart, Current, Payloads
  <2>7. pc[u] = "write" /\ "partial_write" \in Faults
    BY <1>3 DEF WritePart
  <2> QED
    BY <2>2, <2>3, <2>5, <2>6, <2>7
<1>4. CASE ChunkExists(u) \/ OpenChunk(u)
  <2>1. UNCHANGED <<req[u], loc[u], stream[u]>> /\ pc[u] \in {"store", "open"}
    BY <1>4 DEF ChunkExists, OpenChunk
  <2> QED
    BY <1>2, <2>1
<1>5. CASE UNCHANGED <<pc[u], req[u], loc[u], stream[u]>>
  BY <1>2, <1>5
<1> QED
  BY <1>1, <1>3, <1>4, <1>5, StreamSteps

(* The inductive invariant holds in every reachable state.                 *)
LEMMA IndInvariant == Spec => []IndInv
<1>1. Init => IndInv
  BY InitIndInv
<1>2. IndInv /\ [Next]_vars => IndInv'
  BY TypeStep, OpenedStep, StreamingStep, BackedStep DEF IndInv
<1> QED
  BY <1>1, <1>2, PTL DEF Spec

(* The tables, the files on disk and the locals of every call keep their   *)
(* types: in particular no call handles a message beyond its stream's      *)
(* last, and none copies beyond the chunks it listed.                      *)
THEOREM TypeCorrect == Spec => []TypeOK
<1>1. IndInv => TypeOK
  BY DEF IndInv, TypeInv
<1> QED
  BY <1>1, IndInvariant, PTL

(* storeChunk writes the chunk file before the row, and nothing removes a  *)
(* chunk file: a row of the chunks table always names a file that exists,  *)
(* under every fault and every interleaving.                               *)
THEOREM RowsBacked == Spec => []ChunkRowsBacked
<1>1. IndInv => ChunkRowsBacked
  BY DEF IndInv
<1> QED
  BY <1>1, IndInvariant, PTL

-----------------------------------------------------------------------------
(* What a chunk file holds.                                                *)

(* A prefix, byte by byte.                                                 *)
LEMMA PrefixByByte ==
    ASSUME NEW s \in Seq(Bytes), NEW t \in Seq(Bytes)
    PROVE  IsPrefix(s, t) <=> /\ Len(s) <= Len(t)
                              /\ \A i \in 1 .. Len(s) : s[i] = t[i]
<1>1. ASSUME IsPrefix(s, t) PROVE \A i \in 1 .. Len(s) : s[i] = t[i]
  <2>1. TAKE i \in 1 .. Len(s)
  <2>2. SubSeq(s, 1, Len(s))[i] = s[i] /\ SubSeq(t, 1, Len(s))[i] = t[i]
    BY <1>1 DEF IsPrefix
  <2> QED
    BY <1>1, <2>2 DEF IsPrefix
<1>2. ASSUME Len(s) <= Len(t), \A i \in 1 .. Len(s) : s[i] = t[i]
      PROVE  SubSeq(s, 1, Len(s)) = SubSeq(t, 1, Len(s))
  BY <1>2
<1> QED
  BY <1>1, <1>2 DEF IsPrefix

(* The first bytes of a sequence are a prefix of it.                       *)
LEMMA PartPrefix ==
    ASSUME NEW d \in Seq(Bytes), NEW k \in 0 .. Len(d)
    PROVE  SubSeq(d, 1, k) \in Seq(Bytes) /\ IsPrefix(SubSeq(d, 1, k), d)
<1>1. Len(SubSeq(d, 1, k)) = k /\ \A i \in 1 .. k : SubSeq(d, 1, k)[i] = d[i]
  OBVIOUS
<1>2. SubSeq(d, 1, k) \in Seq(Bytes) /\ k <= Len(d)
  OBVIOUS
<1> QED
  BY <1>1, <1>2, PrefixByByte

(* A short write leaves a prefix of the bytes to be written.               *)
LEMMA WrittenPrefix ==
    ASSUME NEW d \in Seq(Bytes), NEW out \in Written(d)
    PROVE  out \in Seq(Bytes) /\ IsPrefix(out, d)
<1>1. IsPrefix(d, d)
  BY DEF IsPrefix
<1>2. \A k \in 0 .. Len(d) - 1 : IsPrefix(SubSeq(d, 1, k), d)
  BY PartPrefix
<1> QED
  BY <1>1, <1>2, WrittenType DEF Written

(* What is written of d is its first n bytes.                              *)
LEMMA WrittenIs ==
    ASSUME NEW d \in Seq(Bytes), NEW out \in Written(d)
    PROVE  \E n \in 0 .. Len(d) : out = SubSeq(d, 1, n)
<1>1. d = SubSeq(d, 1, Len(d)) /\ Len(d) \in 0 .. Len(d)
  OBVIOUS
<1>2. \A n \in 0 .. Len(d) - 1 : n \in 0 .. Len(d)
  OBVIOUS
<1> QED
  BY <1>1, <1>2 DEF Written

(* The n bytes of d that follow its first at bytes.                        *)
Piece(d, at, n) == SubSeq(SubSeq(d, at + 1, Len(d)), 1, n)

(* The bytes of a piece.                                                   *)
LEMMA PieceIs ==
    ASSUME NEW d \in Seq(Bytes), NEW at \in 0 .. Len(d), NEW n \in 0 .. Len(d) - at
    PROVE  /\ Piece(d, at, n) \in Seq(Bytes) /\ Len(Piece(d, at, n)) = n
           /\ \A k \in 1 .. n : Piece(d, at, n)[k] = d[at + k]
           /\ Piece(d, at, n) = <<>> <=> n = 0
<1> DEFINE r == SubSeq(d, at + 1, Len(d))
<1>1. /\ r \in Seq(Bytes) /\ Len(r) = Len(d) - at
      /\ \A k \in 1 .. Len(d) - at : r[k] = d[at + k]
  OBVIOUS
<1> HIDE DEF r
<1>2. /\ SubSeq(r, 1, n) \in Seq(Bytes) /\ Len(SubSeq(r, 1, n)) = n
      /\ \A k \in 1 .. n : SubSeq(r, 1, n)[k] = r[k]
  BY <1>1
<1>3. \A k \in 1 .. n : k \in 1 .. Len(d) - at
  OBVIOUS
<1>4. SubSeq(r, 1, n) = <<>> <=> n = 0
  <2>1. \A s \in Seq(Bytes) : s = <<>> <=> Len(s) = 0
    OBVIOUS
  <2> QED
    BY <1>2, <2>1
<1> QED
  BY <1>1, <1>2, <1>3, <1>4 DEF Piece, r

(* A piece of d written at its place into a file whose bytes are those of  *)
(* d, or zeros, leaves such a file.                                        *)
LEMMA WriteInPlace ==
    ASSUME NEW d \in Seq(Bytes), NEW at \in 0 .. Len(d), NEW n \in 0 .. Len(d) - at,
           NEW old \in Seq(Bytes), Len(old) <= Len(d),
           \A i \in 1 .. Len(old) : old[i] \in {d[i], Zero}
    PROVE  LET w == WriteAt(old, at, Piece(d, at, n))
           IN  /\ Len(w) <= Len(d)
               /\ \A i \in 1 .. Len(w) : w[i] \in {d[i], Zero}
<1> DEFINE new == Piece(d, at, n)
           w == WriteAt(old, at, new)
<1>1. /\ new \in Seq(Bytes) /\ Len(new) = n
      /\ \A k \in 1 .. n : new[k] = d[at + k]
  BY PieceIs
<1> HIDE DEF new
<1>2. at \in Nat /\ Len(d) \in Nat /\ Len(old) \in Nat /\ n \in Nat /\ at + n <= Len(d)
  OBVIOUS
<1>3. /\ Len(w) = IF new # <<>> /\ at + Len(new) > Len(old) THEN at + Len(new) ELSE Len(old)
      /\ \A i \in 1 .. Len(w) : w[i] = IF i > at /\ i <= at + Len(new) THEN new[i - at]
                                       ELSE IF i <= Len(old) THEN old[i] ELSE Zero
  BY <1>1, <1>2, WriteAtBytes
<1> HIDE DEF w
<1>4. Len(w) <= Len(d) /\ Len(w) \in Nat
  BY <1>1, <1>2, <1>3
<1>5. ASSUME NEW i \in 1 .. Len(w) PROVE w[i] \in {d[i], Zero}
  <2>1. i \in Nat /\ i >= 1
    BY <1>4
  <2>2. CASE i > at /\ i <= at + n
    <3>1. i - at \in 1 .. n /\ at + (i - at) = i
      BY <1>2, <2>1, <2>2
    <3>2. w[i] = new[i - at]
      BY <1>1, <1>3, <2>2
    <3>3. new[i - at] = d[at + (i - at)]
      BY <1>1, <3>1
    <3> QED
      BY <3>1, <3>2, <3>3
  <2>3. CASE ~ (i > at /\ i <= at + n)
    <3>1. w[i] = IF i <= Len(old) THEN old[i] ELSE Zero
      BY <1>1, <1>3, <2>3
    <3>2. i <= Len(old) => i \in 1 .. Len(old)
      BY <1>2, <2>1
    <3> QED
      BY <3>1, <3>2
  <2> QED
    BY <2>2, <2>3
<1> QED
  BY <1>4, <1>5 DEF w, new

(* Written after the bytes that come before it, it leaves the bytes up to  *)
(* its end.                                                                *)
LEMMA WriteGoesOn ==
    ASSUME NEW d \in Seq(Bytes), NEW at \in 0 .. Len(d), NEW n \in 0 .. Len(d) - at
    PROVE  WriteAt(SubSeq(d, 1, at), at, Piece(d, at, n)) = SubSeq(d, 1, at + n)
<1> DEFINE new == Piece(d, at, n)
           old == SubSeq(d, 1, at)
           w == WriteAt(old, at, new)
<1>1. /\ new \in Seq(Bytes) /\ Len(new) = n /\ (new = <<>> <=> n = 0)
      /\ \A k \in 1 .. n : new[k] = d[at + k]
  BY PieceIs
<1>2. old \in Seq(Bytes) /\ Len(old) = at /\ \A i \in 1 .. at : old[i] = d[i]
  OBVIOUS
<1>3. at \in Nat /\ n \in Nat /\ at + n \in 0 .. Len(d)
  OBVIOUS
<1> HIDE DEF new, old
<1>4. /\ Len(w) = IF new # <<>> /\ at + Len(new) > Len(old) THEN at + Len(new) ELSE Len(old)
      /\ \A i \in 1 .. Len(w) : w[i] = IF i > at /\ i <= at + Len(new) THEN new[i - at]
                                       ELSE IF i <= Len(old) THEN old[i] ELSE Zero
  BY <1>1, <1>2, <1>3, WriteAtBytes
<1>5. w \in Seq(Bytes)
  BY <1>1, <1>2, <1>3, WriteAtType
<1> HIDE DEF w
<1>6. Len(w) = at + n
  BY <1>1, <1>2, <1>3, <1>4
<1>7. ASSUME NEW i \in 1 .. at + n PROVE w[i] = d[i]
  <2>1. i \in 1 .. Len(w)
    BY <1>6
  <2>2. CASE i <= at
    <3>1. w[i] = old[i] /\ i \in 1 .. at
      BY <1>1, <1>2, <1>3, <1>4, <2>1, <2>2
    <3> QED
      BY <1>2, <3>1
  <2>3. CASE i > at
    <3>1. i - at \in 1 .. n /\ at + (i - at) = i
      BY <1>3, <2>3
    <3>2. w[i] = new[i - at]
      BY <1>1, <1>3, <1>4, <2>1, <2>3
    <3>3. new[i - at] = d[at + (i - at)]
      BY <1>1, <3>1
    <3> QED
      BY <3>1, <3>2, <3>3
  <2> QED
    BY <1>3, <2>2, <2>3
<1>8. w = SubSeq(d, 1, at + n)
  BY <1>3, <1>5, <1>6, <1>7
<1> QED
  BY <1>8 DEF w, new, old

(* As long as messages are not corrupt, a write puts the next piece of the *)
(* chunk at its place.                                                     *)
LEMMA PieceWritten ==
    ASSUME "corrupt" \notin Faults, IndInv, NEW u \in Uploads, WriteChunk(u) \/ WritePart(u)
    PROVE  LET h  == Current(u)
               d  == Data[Current(u)]
               at == stream[u].pos
           IN  /\ h \in Hashes /\ d \in Seq(Bytes) /\ at \in 0 .. Len(d)
               /\ chunkFiles[h] \in Seq(Bytes)
               /\ \E n \in 0 .. Len(d) - at :
                     /\ chunkFiles' = [chunkFiles EXCEPT ![h] = WriteAt(@, at, Piece(d, at, n))]
                     /\ pc'[u] = "write" => stream'[u].pos = at + n
<1> USE DEF IndInv, TypeInv
<1> DEFINE h  == Current(u)
           d  == Data[Current(u)]
           at == stream[u].pos
<1>1. pc[u] = "write" /\ UNCHANGED <<req, loc>>
  BY DEF WriteChunk, WritePart
<1>2. h \in Hashes /\ d \in Seq(Bytes)
  BY <1>1, CurrentType, DataType
<1>3. stream[u].data = d /\ at \in 0 .. Len(d)
  BY <1>1, <1>2, RestType DEF Streaming, Payloads
<1>4. chunkFiles[h] \in Seq(Bytes)
  BY <1>1, <1>2 DEF Opened, TypeOK
<1>5. Rest(u) = SubSeq(d, at + 1, Len(d)) /\ Rest(u) \in Seq(Bytes)
  BY <1>3, RestType DEF Rest
<1>6. Len(Rest(u)) = Len(d) - at
  BY <1>2, <1>3, <1>5, SMTT(60)
<1>7. CASE WriteChunk(u)
  <2>1. PICK bytes \in Written(Rest(u)) :
           chunkFiles' = [chunkFiles EXCEPT ![h] = WriteAt(@, at, bytes)]
    BY <1>7 DEF WriteChunk
  <2>2. PICK n \in 0 .. Len(Rest(u)) : bytes = SubSeq(Rest(u), 1, n)
    BY <1>5, WrittenIs
  <2>3. bytes = Piece(d, at, n) /\ n \in 0 .. Len(d) - at
    BY <1>5, <1>6, <2>2 DEF Piece
  <2>4. pc'[u] # "write"
    BY <1>7 DEF WriteChunk, Goto, TypeOK
  <2> QED
    BY <1>2, <1>3, <1>4, <2>1, <2>3, <2>4
<1>8. CASE WritePart(u)
  <2>1. PICK n \in 1 .. Len(Rest(u)) - 1 :
           /\ chunkFiles' = [chunkFiles EXCEPT ![h] = WriteAt(@, at, SubSeq(Rest(u), 1, n))]
           /\ stream' = [stream EXCEPT ![u].pos = @ + n]
    BY <1>8 DEF WritePart
  <2>2. SubSeq(Rest(u), 1, n) = Piece(d, at, n) /\ n \in 0 .. Len(d) - at
    BY <1>2, <1>3, <1>5, <1>6 DEF Piece
  <2>3. stream'[u].pos = at + n
    BY <2>1 DEF TypeOK
  <2> QED
    BY <1>2, <1>3, <1>4, <2>1, <2>2, <2>3
<1> QED
  BY <1>7, <1>8

(* At most one call sends the chunk.                                       *)
Sole(h) == \A u, w \in Senders(h) : u = w

(* The chunk file of the only sender holds what it has written so far.     *)
SoleWriter ==
    \A u \in Uploads : pc[u] = "write" /\ Sole(Current(u)) =>
       chunkFiles[Current(u)] = SubSeq(Data[Current(u)], 1, stream[u].pos)

(* The call that is writing a chunk is one of its senders.                 *)
LEMMA WriterSends ==
    ASSUME TypeInv, NEW u \in Uploads, pc[u] \in {"store", "open", "write", "insert"}
    PROVE  u \in Senders(Current(u))
<1>1. req[u].version \in Seq(Hashes) /\ loc[u].recv \in Nat
  BY StorageAssumption DEF TypeInv, TypeOK, Requests, Locals
<1>2. loc[u].recv < Len(req[u].version)
  BY DEF TypeInv, TypeOK
<1>3. loc[u].recv + 1 \in 1 .. Len(req[u].version)
  BY <1>1, <1>2
<1>4. Current(u) \in ToSet(req[u].version)
  BY <1>1, <1>3 DEF Current, ToSet
<1> QED
  BY <1>4 DEF Senders

(* Calls are only added to the senders of a chunk.                         *)
LEMMA SoleBefore ==
    ASSUME TypeInv, [Next]_vars, NEW h, Sole(h)'
    PROVE  Sole(h)
<1>1. ASSUME NEW u \in Senders(h) PROVE u \in Senders(h)'
  BY <1>1, BegunStays DEF Senders
<1> QED
  BY <1>1 DEF Sole

(* A chunk file that is not written stays as it is.                        *)
LEMMA PlaceStep ==
    "corrupt" \notin Faults /\ IndInv /\ ChunkBytesInPlace /\ SoleWriter /\ [Next]_vars
        => ChunkBytesInPlace'
<1> SUFFICES ASSUME "corrupt" \notin Faults, IndInv, ChunkBytesInPlace, SoleWriter,
                    [Next]_vars, NEW h \in Hashes, chunkFiles'[h] # NoRow
             PROVE  /\ Len(chunkFiles'[h]) <= Len(Data[h])
                    /\ \A i \in 1 .. Len(chunkFiles'[h]) :
                          chunkFiles'[h][i] \in {Data[h][i], Zero}
                    /\ Sole(h)' => IsPrefix(chunkFiles'[h], Data[h])
  BY DEF ChunkBytesInPlace, Sole
<1> USE DEF IndInv, TypeInv
<1>1. CASE chunkFiles'[h] = chunkFiles[h]
  BY <1>1, SoleBefore DEF ChunkBytesInPlace, Sole
<1>2. CASE chunkFiles'[h] = <<>>
  <2>1. Data[h] \in Seq(Bytes) /\ <<>> \in Seq(Bytes)
    BY DataType
  <2>2. IsPrefix(<<>>, Data[h])
    BY <2>1 DEF IsPrefix
  <2>3. Len(<<>>) <= Len(Data[h]) /\ Len(<<>>) = 0
    BY <2>1
  <2> QED
    BY <1>2, <2>2, <2>3
<1>3. ASSUME NEW u \in Uploads, WriteChunk(u) \/ WritePart(u), h = Current(u)
      PROVE  /\ Len(chunkFiles'[h]) <= Len(Data[h])
             /\ \A i \in 1 .. Len(chunkFiles'[h]) :
                   chunkFiles'[h][i] \in {Data[h][i], Zero}
             /\ Sole(h)' => IsPrefix(chunkFiles'[h], Data[h])
  <2> DEFINE d == Data[h]
             at == stream[u].pos
  <2>1. d \in Seq(Bytes) /\ at \in 0 .. Len(d) /\ chunkFiles[h] \in Seq(Bytes)
    BY <1>3, PieceWritten
  <2>2. PICK n \in 0 .. Len(d) - at :
           chunkFiles' = [chunkFiles EXCEPT ![h] = WriteAt(@, at, Piece(d, at, n))]
    BY <1>3, PieceWritten
  <2>3. chunkFiles'[h] = WriteAt(chunkFiles[h], at, Piece(d, at, n))
    BY <2>2 DEF TypeOK
  <2>4. chunkFiles[h] # NoRow
    BY <2>1, StorageAssumption
  <2>5. /\ Len(chunkFiles[h]) <= Len(d)
        /\ \A i \in 1 .. Len(chunkFiles[h]) : chunkFiles[h][i] \in {d[i], Zero}
    BY <2>4 DEF ChunkBytesInPlace
  <2> HIDE DEF d, at
  <2>6. /\ Len(chunkFiles'[h]) <= Len(d)
        /\ \A i \in 1 .. Len(chunkFiles'[h]) : chunkFiles'[h][i] \in {d[i], Zero}
    <3> DEFINE w == WriteAt(chunkFiles[h], at, Piece(d, at, n))
    <3>1. Len(w) <= Len(d) /\ \A i \in 1 .. Len(w) : w[i] \in {d[i], Zero}
      BY <2>1, <2>2, <2>5, WriteInPlace
    <3> QED
      BY <2>3, <3>1
  <2>7. ASSUME Sole(h)' PROVE IsPrefix(chunkFiles'[h], d)
    <3>1. Sole(h) /\ pc[u] = "write"
      BY <1>3, <2>7, SoleBefore DEF WriteChunk, WritePart
    <3>2. chunkFiles[h] = SubSeq(d, 1, at)
      BY <1>3, <3>1 DEF SoleWriter, d, at
    <3>3. chunkFiles'[h] = SubSeq(d, 1, at + n)
      BY <2>1, <2>2, <2>3, <3>2, WriteGoesOn
    <3>4. at + n \in 0 .. Len(d)
      BY <2>1, <2>2
    <3> QED
      BY <2>1, <3>3, <3>4, PartPrefix
  <2> QED
    BY <2>6, <2>7 DEF d
<1>4. ASSUME NEW u \in Uploads, OpenChunk(u)
      PROVE  chunkFiles'[h] = chunkFiles[h] \/ chunkFiles'[h] = <<>>
  BY <1>4 DEF OpenChunk, TypeOK
<1>5. ASSUME NEW u \in Uploads, WriteChunk(u) \/ WritePart(u), h # Current(u)
      PROVE  chunkFiles'[h] = chunkFiles[h]
  BY <1>5 DEF WriteChunk, WritePart, TypeOK
<1> QED
  BY <1>1, <1>2, <1>3, <1>4, <1>5, ChunkFileSteps

(* The only sender opens the file, and nobody else writes it.              *)
LEMMA SoleWriterStep ==
    "corrupt" \notin Faults /\ IndInv /\ SoleWriter /\ [Next]_vars => SoleWriter'
<1> SUFFICES ASSUME "corrupt" \notin Faults, IndInv, SoleWriter, [Next]_vars,
                    NEW u \in Uploads, pc'[u] = "write", Sole(Current(u))'
             PROVE  (chunkFiles[Current(u)] = SubSeq(Data[Current(u)], 1, stream[u].pos))'
  BY DEF SoleWriter
<1> USE DEF IndInv, TypeInv
<1>1. CASE OpenChunk(u)
  <2>1. Current(u) \in Hashes /\ stream[u].pos = 0 /\ UNCHANGED <<Current(u), stream>>
    BY <1>1, CurrentType DEF OpenChunk, Current, Streaming
  <2>2. chunkFiles'[Current(u)] = <<>>
    BY <1>1, <2>1 DEF OpenChunk, Goto, TypeOK
  <2>3. SubSeq(Data[Current(u)], 1, 0) = <<>>
    BY <2>1, DataType
  <2> QED
    BY <2>1, <2>2, <2>3
<1>2. CASE WritePart(u)
  <2> DEFINE h == Current(u)
             d == Data[Current(u)]
             at == stream[u].pos
  <2>1. UNCHANGED Current(u) /\ pc[u] = "write"
    BY <1>2 DEF WritePart, Current
  <2>2. Sole(h)
    BY <2>1, SoleBefore DEF Sole
  <2>3. h \in Hashes /\ d \in Seq(Bytes) /\ at \in 0 .. Len(d)
    BY <1>2, PieceWritten
  <2>4. PICK n \in 0 .. Len(d) - at :
           /\ chunkFiles' = [chunkFiles EXCEPT ![h] = WriteAt(@, at, Piece(d, at, n))]
           /\ stream'[u].pos = at + n
    BY <1>2, PieceWritten
  <2>5. chunkFiles'[h] = WriteAt(chunkFiles[h], at, Piece(d, at, n))
    BY <2>3, <2>4 DEF TypeOK
  <2>6. chunkFiles[h] = SubSeq(d, 1, at)
    BY <2>1, <2>2 DEF SoleWriter
  <2>7. chunkFiles'[h] = SubSeq(d, 1, at + n)
    BY <2>3, <2>4, <2>5, <2>6, WriteGoesOn
  <2> QED
    BY <2>1, <2>4, <2>7
<1>3. CASE UNCHANGED <<pc[u], req[u], loc[u], stream[u]>>
  <2>1. UNCHANGED Current(u) /\ pc[u] = "write"
    BY <1>3 DEF Current
  <2>2. Sole(Current(u)) /\ Current(u) \in Hashes
    BY <2>1, SoleBefore, CurrentType DEF Sole
  <2>3. ASSUME NEW w \in Uploads, OpenChunk(w) \/ WriteChunk(w) \/ WritePart(w)
        PROVE  chunkFiles'[Current(u)] = chunkFiles[Current(u)]
    <3>1. w # u
      <4>1. ~ OpenChunk(u) /\ ~ WriteChunk(u)
        BY <1>3, <2>1 DEF OpenChunk, WriteChunk, Goto, TypeOK
      <4>2. ~ WritePart(u)
        <5>1. \A k \in 1 .. Len(Rest(u)) - 1 : k # 0
          BY RestType
        <5>2. ASSUME WritePart(u) PROVE FALSE
          <6>1. PICK k \in 1 .. Len(Rest(u)) - 1 :
                   stream' = [stream EXCEPT ![u].pos = @ + k]
            BY <5>2 DEF WritePart
          <6>2. stream'[u].pos = stream[u].pos + k
            BY <6>1 DEF TypeOK
          <6>3. stream[u].pos \in Nat /\ k \in Int /\ k # 0 /\ stream'[u].pos = stream[u].pos
            BY <1>3, <5>1, RestType
          <6> QED
            BY <6>2, <6>3
        <5> QED
          BY <5>2
      <4> QED
        BY <2>3, <4>1, <4>2
    <3>2. u \in Senders(Current(u)) /\ w \in Senders(Current(w))
      BY <2>1, <2>3, WriterSends DEF OpenChunk, WriteChunk, WritePart
    <3>3. Current(w) # Current(u)
      BY <2>2, <3>1, <3>2 DEF Sole
    <3> QED
      BY <2>2, <2>3, <3>3 DEF OpenChunk, WriteChunk, WritePart, TypeOK
  <2>4. chunkFiles'[Current(u)] = chunkFiles[Current(u)]
    BY <2>3, ChunkFileSteps
  <2> QED
    BY <1>3, <2>1, <2>2, <2>4 DEF SoleWriter
<1>4. OpenChunk(u) \/ WritePart(u) \/ UNCHANGED <<pc[u], req[u], loc[u], stream[u]>>
  BY StreamSteps
<1> QED
  BY <1>1, <1>2, <1>3, <1>4

(* As long as every message carries the bytes its hash was computed from:  *)
(* calls that race to create, truncate and write one chunk file leave in   *)
(* it bytes of the chunk at their places and zeros, and a chunk with one   *)
(* sender a prefix of it, whatever write was cut short.                    *)
THEOREM BytesInPlace ==
    ASSUME "corrupt" \notin Faults
    PROVE  Spec => []ChunkBytesInPlace
<1>1. Init => ChunkBytesInPlace /\ SoleWriter
  BY DEF Init, ChunkBytesInPlace, SoleWriter
<1>2. IndInv /\ ChunkBytesInPlace /\ SoleWriter /\ [Next]_vars
         => (ChunkBytesInPlace /\ SoleWriter)'
  BY PlaceStep, SoleWriterStep
<1> QED
  BY <1>1, <1>2, IndInvariant, PTL DEF Spec

-----------------------------------------------------------------------------
(* What a rebuilt file holds.                                              *)

(* h is a chunk of a version that some call sent for file p of client c.   *)
Sent(h, c, p) ==
    \E w \in Uploads : /\ pc[w] # "idle" /\ req[w].client = c /\ req[w].path = p
                       /\ \E k \in 1 .. Len(req[w].version) : req[w].version[k] = h

(* The rows of a file and the rows a call has fetched name chunks sent for *)
(* that file.                                                              *)
RowsSent ==
    \A c \in Clients, p \in Paths, i \in Indexes :
       chunks[c][p][i] # NoRow => Sent(chunks[c][p][i], c, p)

ListSent ==
    \A u \in Uploads :
       /\ pc[u] = "idle" => loc[u].list = <<>>
       /\ pc[u] # "idle" => \A k \in 1 .. Len(loc[u].list) :
                              Sent(loc[u].list[k], req[u].client, req[u].path)

SentInv == RowsSent /\ ListSent

(* What was sent stays sent.                                               *)
LEMMA SentStays ==
    ASSUME TypeInv, [Next]_vars, NEW h, NEW c, NEW p, Sent(h, c, p)
    PROVE  Sent(h, c, p)'
<1>1. PICK w \in Uploads :
         /\ pc[w] # "idle" /\ req[w].client = c /\ req[w].path = p
         /\ \E k \in 1 .. Len(req[w].version) : req[w].version[k] = h
  BY DEF Sent
<1>2. pc'[w] # "idle" /\ req'[w] = req[w]
  BY <1>1, BegunStays
<1> QED
  BY <1>1, <1>2 DEF Sent

(* A row is inserted for a chunk of the call's own version.                *)
LEMMA RowsSentStep == IndInv /\ SentInv /\ [Next]_vars => RowsSent'
<1> SUFFICES ASSUME IndInv, SentInv, [Next]_vars,
                    NEW c \in Clients, NEW p \in Paths, NEW i \in Indexes,
                    chunks'[c][p][i] # NoRow
             PROVE  Sent(chunks[c][p][i], c, p)'
  BY DEF RowsSent
<1> USE DEF IndInv, TypeInv
<1>1. CASE chunks'[c][p][i] = chunks[c][p][i]
  <2>1. Sent(chunks[c][p][i], c, p)
    BY <1>1 DEF SentInv, RowsSent
  <2>2. ASSUME NEW h, h = chunks[c][p][i] PROVE Sent(h, c, p)'
    BY <2>1, <2>2, SentStays
  <2> QED
    BY <1>1, <2>2
<1>2. ASSUME NEW u \in Uploads, InsertChunk(u), chunks'[c][p][i] # chunks[c][p][i]
      PROVE  Sent(chunks[c][p][i], c, p)'
  <2>1. Current(u) \in Hashes /\ req[u] \in Requests
    BY <1>2, CurrentType DEF InsertChunk
  <2>2. /\ c = req[u].client
        /\ chunks'[c] = insertChunk(chunks[c], req[u].path, loc[u].recv, Current(u))
    BY <1>2 DEF InsertChunk, TypeOK
  <2>3. chunks[c] \in [Paths -> [Indexes -> Hashes \cup {NoRow}]]
    BY DEF TypeOK
  <2>4. p = req[u].path /\ chunks'[c][p][i] = Current(u)
    BY <1>2, <2>2, <2>3 DEF insertChunk
  <2>5. /\ loc[u].recv + 1 \in 1 .. Len(req[u].version)
        /\ req[u].version[loc[u].recv + 1] = Current(u)
    <3>1. req[u].version \in Seq(Hashes)
      BY <2>1, StorageAssumption DEF Requests
    <3> QED
      BY <1>2, <3>1, SMTT(60) DEF InsertChunk, TypeOK, Locals, Current
  <2>6. pc[u] # "idle"
    BY <1>2 DEF InsertChunk
  <2>7. pc'[u] # "idle" /\ req'[u] = req[u]
    BY <2>6, BegunStays
  <2> QED
    BY <2>2, <2>4, <2>5, <2>7 DEF Sent
<1>3. UNCHANGED chunks \/ \E u \in Uploads : InsertChunk(u)
  BY DEF Next, UploadFile, vars, persistent, Begin, ReadMessage, StreamEnds,
         ChunkExists, OpenChunk, WritePart, WriteChunk, ListRow, ListEnd,
         Listed, CreateFile, SizeChunk, CopyChunk, StatFile, HashFile,
         CommitFile, Respond, DeleteFile, Crash, Tick
<1> QED
  BY <1>1, <1>2, <1>3

(* A call that lists rows adds the next one.                               *)
LEMMA RowListed ==
    ASSUME TypeInv, NEW u \in Uploads, ListRow(u)
    PROVE  LET rows == chunks[req[u].client][req[u].path]
           IN  \E i \in Indexes :
                  /\ isNextRow(rows, loc[u].cursor, i)
                  /\ rows[i] \in Hashes
                  /\ loc'[u] = [loc[u] EXCEPT !.cursor = i, !.list = Append(@, rows[i])]
                  /\ loc'[u].list = Append(loc[u].list, rows[i])
                  /\ loc'[u].cursor = i /\ loc'[u].recv = loc[u].recv
                  /\ req[u] \in Requests /\ pc[u] = "list" /\ pc'[u] = "list"
                  /\ UNCHANGED <<req, chunks, chunkFiles>>
<1> DEFINE rows == chunks[req[u].client][req[u].path]
<1>1. PICK i \in Indexes :
         /\ isNextRow(rows, loc[u].cursor, i)
         /\ loc' = [loc EXCEPT ![u].cursor = i, ![u].list = Append(@, rows[i])]
  BY DEF ListRow
<1>2. req[u] \in Requests /\ pc[u] = "list" /\ pc'[u] = "list"
  BY DEF ListRow, TypeInv, TypeOK
<1>3. rows[i] \in Hashes
  BY <1>1, <1>2 DEF isNextRow, rowsAfter, TypeInv, TypeOK, Requests
<1>4. loc[u] \in Locals
  BY DEF TypeInv, TypeOK
<1>5. loc'[u] = [loc[u] EXCEPT !.cursor = i, !.list = Append(@, rows[i])]
  BY <1>1 DEF TypeInv, TypeOK
<1>6. /\ loc'[u].list = Append(loc[u].list, rows[i])
      /\ loc'[u].cursor = i /\ loc'[u].recv = loc[u].recv
  BY <1>4, <1>5 DEF Locals
<1>7. UNCHANGED <<req, chunks, chunkFiles>>
  BY DEF ListRow, persistent
<1> QED
  BY <1>1, <1>2, <1>3, <1>5, <1>6, <1>7

(* What a step of the handler does to the call's locals.                   *)
LEMMA HandlerLocals ==
    ASSUME TypeInv, NEW u \in Uploads, UploadFile(u)
    PROVE  /\ ListRow(u) \/ (loc'[u].list = loc[u].list /\ loc'[u].cursor = loc[u].cursor)
           /\ InsertChunk(u) \/ loc'[u].recv = loc[u].recv
<1>1. loc[u] \in Locals /\ DOMAIN loc = Uploads
  BY DEF TypeInv, TypeOK
<1>2. CASE InsertChunk(u)
  BY <1>1, <1>2 DEF InsertChunk, Locals
<1>3. CASE SizeChunk(u)
  BY <1>1, <1>3 DEF SizeChunk, Locals
<1>4. CASE CopyChunk(u)
  BY <1>1, <1>4 DEF CopyChunk, Locals
<1>5. CASE StatFile(u)
  BY <1>1, <1>5 DEF StatFile, Locals
<1>6. CASE HashFile(u)
  BY <1>1, <1>6 DEF HashFile, Locals
<1>7. CASE ListRow(u)
  <2>1. \E i \in Indexes : loc'[u].recv = loc[u].recv
    BY <1>7, RowListed
  <2>2. loc'[u].recv = loc[u].recv
    BY <2>1
  <2> QED
    BY <1>7, <2>2, Zenon
<1>8. CASE UNCHANGED loc
  BY <1>8
<1>9. \/ ListRow(u) \/ InsertChunk(u) \/ SizeChunk(u) \/ CopyChunk(u) \/ StatFile(u)
      \/ HashFile(u) \/ UNCHANGED loc
  BY DEF UploadFile, ReadMessage, StreamEnds, ChunkExists, OpenChunk, WritePart,
         WriteChunk, ListEnd, Listed, CreateFile, CommitFile, Respond
<1> QED
  BY <1>2, <1>3, <1>4, <1>5, <1>6, <1>7, <1>8, <1>9

(* A call fetches the rows of its own file.                                *)
LEMMA ListSentStep == IndInv /\ SentInv /\ [Next]_vars => ListSent'
<1> SUFFICES ASSUME IndInv, SentInv, [Next]_vars, NEW u \in Uploads
             PROVE  (/\ pc[u] = "idle" => loc[u].list = <<>>
                     /\ pc[u] # "idle" => \A k \in 1 .. Len(loc[u].list) :
                              Sent(loc[u].list[k], req[u].client, req[u].path))'
  BY DEF ListSent
<1> USE DEF IndInv
<1>1. CASE Begin(u)
  <2>1. pc[u] = "idle" /\ loc'[u] = loc[u] /\ pc'[u] # "idle"
    BY <1>1 DEF Begin, Goto, TypeInv, TypeOK
  <2>2. loc'[u].list = <<>>
    BY <2>1 DEF SentInv, ListSent
  <2> QED
    BY <2>1, <2>2
<1>2. CASE pc[u] # "idle" /\ loc'[u].list = loc[u].list
  <2>1. pc'[u] # "idle" /\ req'[u] = req[u]
    BY <1>2, BegunStays
  <2>2. ASSUME NEW k \in 1 .. Len(loc[u].list)
        PROVE  Sent(loc[u].list[k], req[u].client, req[u].path)'
    <3> DEFINE h == loc[u].list[k]
    <3>1. Sent(h, req[u].client, req[u].path)
      BY <1>2 DEF SentInv, ListSent
    <3>2. ASSUME NEW g, NEW c, NEW p, Sent(g, c, p) PROVE Sent(g, c, p)'
      BY <3>2, SentStays
    <3>3. ASSUME NEW g, NEW c, NEW p, g = h, c = req[u].client, p = req[u].path
          PROVE  Sent(g, c, p)'
      BY <3>1, <3>2, <3>3
    <3> QED
      BY <1>2, <2>1, <3>3
  <2> QED
    BY <1>2, <2>1, <2>2
<1>3. CASE ListRow(u)
  <2> DEFINE c == req[u].client
             p == req[u].path
  <2>1. PICK i \in Indexes :
           /\ isNextRow(chunks[c][p], loc[u].cursor, i)
           /\ chunks[c][p][i] \in Hashes
           /\ loc'[u].list = Append(loc[u].list, chunks[c][p][i])
           /\ req[u] \in Requests /\ pc[u] = "list" /\ pc'[u] = "list"
           /\ UNCHANGED <<req, chunks>>
    BY <1>3, RowListed
  <2>2. c \in Clients /\ p \in Paths
    BY <2>1 DEF Requests
  <2>3. Sent(chunks[c][p][i], c, p)
    BY <2>1, <2>2, StorageAssumption DEF SentInv, RowsSent
  <2>4. loc[u].list \in Seq(Hashes)
    BY DEF TypeInv, TypeOK, Locals
  <2>5. ASSUME NEW k \in 1 .. Len(loc'[u].list)
        PROVE  Sent(loc'[u].list[k], c, p)
    <3>1. k \in 1 .. Len(loc[u].list) \/ k = Len(loc[u].list) + 1
      BY <2>1, <2>4
    <3>2. CASE k \in 1 .. Len(loc[u].list)
      <4>1. loc'[u].list[k] = loc[u].list[k]
        BY <2>1, <2>4, <3>2
      <4> QED
        BY <2>1, <3>2, <4>1 DEF SentInv, ListSent
    <3>3. CASE k = Len(loc[u].list) + 1
      BY <2>1, <2>3, <2>4, <3>3
    <3> QED
      BY <3>1, <3>2, <3>3
  <2>6. ASSUME NEW g, NEW d, NEW q, Sent(g, d, q) PROVE Sent(g, d, q)'
    BY <2>6, SentStays
  <2>7. ASSUME NEW g, NEW d, NEW q, NEW k \in 1 .. Len(loc'[u].list),
               g = loc'[u].list[k], d = c, q = p
        PROVE  Sent(g, d, q)'
    BY <2>5, <2>6, <2>7
  <2> QED
    BY <2>1, <2>7
<1>4. CASE UNCHANGED <<pc[u], req[u], loc[u]>> /\ pc[u] = "idle"
  BY <1>4 DEF SentInv, ListSent
<1>5. CASE UploadFile(u)
  BY <1>2, <1>3, <1>5, HandlerLocals, HandlerStep
<1>6. CASE pc'[u] = "lost" /\ loc'[u] = NoLocals
  BY <1>6 DEF NoLocals
<1> QED
  BY <1>1, <1>2, <1>4, <1>5, <1>6, CallSteps
(* What copying one chunk does to the call and to the file.                *)
LEMMA ChunkCopied ==
    ASSUME TypeInv, Opened, NEW u \in Uploads, CopyChunk(u)
    PROVE  LET bytes == ReadOf(chunkFiles[Copied(u)], loc[u].chunk_size)
               c     == req[u].client
               p     == req[u].path
           IN  /\ Copied(u) \in Hashes /\ chunkFiles[Copied(u)] \in Seq(Bytes)
               /\ c \in Clients /\ p \in Paths /\ bytes \in Seq(Bytes)
               /\ pc[u] = "fetch" /\ pc'[u] = "copy"
               /\ loc[u].copied < Len(loc[u].list)
               /\ UNCHANGED <<chunkFiles, chunks, files, req>>
               /\ \E out \in Seq(Bytes) :
                     /\ out \in IF loc[u].good THEN Written(bytes) ELSE {<<>>}
                     /\ disk'[c][p] = WriteAt(disk[c][p], loc[u].offset, out)
                     /\ loc'[u].offset = loc[u].offset + Len(out)
                     /\ loc'[u].good = (loc[u].good /\ out = bytes)
               /\ \A d \in Clients, q \in Paths :
                     (d # c \/ q # p) => disk'[d][q] = disk[d][q]
               /\ loc'[u].copied = loc[u].copied + 1
               /\ loc'[u].recv = loc[u].recv /\ loc'[u].list = loc[u].list
               /\ loc'[u].cursor = loc[u].cursor
<1> DEFINE bytes == ReadOf(chunkFiles[Copied(u)], loc[u].chunk_size)
           c == req[u].client
           p == req[u].path
<1>1. /\ loc[u] \in Locals /\ loc[u].copied \in Nat /\ loc[u].chunk_size \in Nat
      /\ loc[u].list \in Seq(Hashes) /\ loc[u].copied < Len(loc[u].list)
  BY DEF CopyChunk, TypeInv, TypeOK, Locals
<1>2. Copied(u) \in Hashes
  BY <1>1 DEF Copied
<1>3. chunkFiles[Copied(u)] \in Seq(Bytes)
  BY <1>2 DEF CopyChunk, Opened, TypeInv, TypeOK
<1>4. c \in Clients /\ p \in Paths
  BY DEF CopyChunk, TypeInv, TypeOK, Requests
<1>5. bytes \in Seq(Bytes)
  BY <1>1, <1>3, ReadOfType
<1>6. PICK out \in IF loc[u].good THEN Written(bytes) ELSE {<<>>} :
         /\ disk' = [disk EXCEPT ![c][p] = WriteAt(@, loc[u].offset, out)]
         /\ loc' = [loc EXCEPT ![u].copied = @ + 1,
                               ![u].offset = @ + Len(out),
                               ![u].good = @ /\ out = bytes]
  BY DEF CopyChunk, Copied
<1> HIDE DEF bytes
<1>7. out \in Seq(Bytes)
  <2>1. out \in Written(bytes) \/ out = <<>>
    BY <1>6
  <2> QED
    BY <1>5, <2>1, WrittenType, NoBytes
<1>8. /\ disk'[c][p] = WriteAt(disk[c][p], loc[u].offset, out)
      /\ \A d \in Clients, q \in Paths : (d # c \/ q # p) => disk'[d][q] = disk[d][q]
  BY <1>4, <1>6 DEF TypeInv, TypeOK
<1>9. loc'[u] = [loc[u] EXCEPT !.copied = @ + 1, !.offset = @ + Len(out),
                               !.good = @ /\ out = bytes]
  BY <1>6 DEF TypeInv, TypeOK
<1>10. /\ loc'[u].copied = loc[u].copied + 1 /\ loc'[u].offset = loc[u].offset + Len(out)
       /\ loc'[u].good = (loc[u].good /\ out = bytes)
       /\ loc'[u].recv = loc[u].recv /\ loc'[u].list = loc[u].list
       /\ loc'[u].cursor = loc[u].cursor
  BY <1>1, <1>9 DEF Locals
<1>11. /\ pc[u] = "fetch" /\ pc'[u] = "copy"
       /\ UNCHANGED <<chunkFiles, chunks, files, req>>
  BY DEF CopyChunk, Goto, TypeInv, TypeOK
<1>12. \E o \in Seq(Bytes) :
          /\ o \in IF loc[u].good THEN Written(bytes) ELSE {<<>>}
          /\ disk'[c][p] = WriteAt(disk[c][p], loc[u].offset, o)
          /\ loc'[u].offset = loc[u].offset + Len(o)
          /\ loc'[u].good = (loc[u].good /\ o = bytes)
  BY <1>6, <1>7, <1>8, <1>10
<1> QED
  BY <1>1, <1>2, <1>3, <1>4, <1>5, <1>8, <1>10, <1>11, <1>12 DEF bytes

(* b is a byte of a chunk sent for the file.                               *)
SentByte(b, c, p) ==
    \E h \in Hashes : /\ Sent(h, c, p)
                      /\ \E k \in 1 .. Len(Data[h]) : Data[h][k] = b

(* Byte by byte: the files on disk hold zeros and bytes sent for them.     *)
SentBytes ==
    \A c \in Clients, p \in Paths : \A i \in 1 .. Len(disk[c][p]) :
       disk[c][p][i] = Zero \/ SentByte(disk[c][p][i], c, p)

(* What was sent of a file, as a set of bytes.                             *)
LEMMA SentByteIs ==
    ASSUME TypeInv, NEW c, NEW p, NEW b, SentByte(b, c, p)
    PROVE  b \in BytesSentFor(c, p)
<1>1. PICK h \in Hashes : /\ Sent(h, c, p)
                          /\ \E k \in 1 .. Len(Data[h]) : Data[h][k] = b
  BY DEF SentByte
<1>2. PICK w \in Uploads : /\ pc[w] # "idle" /\ req[w].client = c /\ req[w].path = p
                           /\ \E k \in 1 .. Len(req[w].version) : req[w].version[k] = h
  BY <1>1 DEF Sent
<1>3. req[w].version \in Seq(Hashes)
  BY <1>2, StorageAssumption DEF TypeInv, TypeOK, Requests
<1>4. h \in ToSet(req[w].version)
  BY <1>2, <1>3 DEF ToSet
<1>5. b \in ToSet(Data[h])
  BY <1>1, DataType DEF ToSet
<1> QED
  BY <1>2, <1>4, <1>5 DEF BytesSentFor

(* Copying a chunk puts bytes of that chunk into the file, zeros where the *)
(* chunk file has become shorter, or nothing.                              *)
LEMMA CopiedBytes ==
    ASSUME TypeInv, Opened, ChunkBytesInPlace, NEW u \in Uploads, CopyChunk(u),
           NEW i \in 1 .. Len(disk'[req[u].client][req[u].path])
    PROVE  LET old == disk[req[u].client][req[u].path]
               new == disk'[req[u].client][req[u].path]
           IN  \/ new[i] = Zero
               \/ i \in 1 .. Len(old) /\ new[i] = old[i]
               \/ \E k \in 1 .. Len(Data[Copied(u)]) : Data[Copied(u)][k] = new[i]
<1> DEFINE h == Copied(u)
           n == loc[u].chunk_size
           bytes == ReadOf(chunkFiles[h], n)
           at == loc[u].offset
           old == disk[req[u].client][req[u].path]
           new == disk'[req[u].client][req[u].path]
<1>1. /\ h \in Hashes /\ chunkFiles[h] \in Seq(Bytes) /\ bytes \in Seq(Bytes)
      /\ req[u].client \in Clients /\ req[u].path \in Paths
  BY ChunkCopied
<1>2. PICK out \in Seq(Bytes) :
         /\ out \in IF loc[u].good THEN Written(bytes) ELSE {<<>>}
         /\ new = WriteAt(old, at, out)
  BY ChunkCopied
<1>3. at \in Nat /\ n \in Nat /\ old \in Seq(Bytes)
  BY <1>1 DEF TypeInv, TypeOK, Locals
<1>4. Len(out) <= Len(bytes) /\ \A k \in 1 .. Len(out) : out[k] = bytes[k]
  <2>1. CASE out \in Written(bytes)
    BY <1>1, <1>2, <2>1, WrittenPrefix, PrefixByByte
  <2>2. CASE out = <<>>
    BY <1>1, <2>2
  <2> QED
    BY <1>2, <2>1, <2>2
<1>5. \A k \in 1 .. Len(bytes) : bytes[k] = Zero \/ \E j \in 1 .. Len(Data[h]) : Data[h][j] = bytes[k]
  <2>1. NoRow \notin Seq(Bytes)
    BY StorageAssumption
  <2>2. chunkFiles[h] # NoRow
    BY <1>1, <2>1
  <2>3. /\ Len(chunkFiles[h]) <= Len(Data[h])
        /\ \A k \in 1 .. Len(chunkFiles[h]) : chunkFiles[h][k] \in {Data[h][k], Zero}
    BY <1>1, <2>2 DEF ChunkBytesInPlace
  <2>4. Len(bytes) = n /\ \A k \in 1 .. n : bytes[k] = IF k <= Len(chunkFiles[h]) THEN chunkFiles[h][k] ELSE Zero
    BY <1>3 DEF ReadOf
  <2>5. Data[h] \in Seq(Bytes)
    BY <1>1, DataType
  <2> HIDE DEF bytes, h, n
  <2>6. ASSUME NEW k \in 1 .. Len(bytes), bytes[k] # Zero
        PROVE  \E j \in 1 .. Len(Data[h]) : Data[h][j] = bytes[k]
    <3>1. k \in 1 .. n /\ k <= Len(chunkFiles[h])
      BY <1>3, <2>4, <2>6
    <3>2. k \in 1 .. Len(chunkFiles[h]) /\ k \in 1 .. Len(Data[h])
      BY <1>1, <1>3, <2>3, <2>5, <3>1
    <3>3. bytes[k] = chunkFiles[h][k]
      BY <2>4, <3>1
    <3>4. chunkFiles[h][k] \in {Data[h][k], Zero}
      BY <2>3, <3>2
    <3> QED
      BY <2>6, <3>2, <3>3, <3>4
  <2> QED
    BY <2>6
<1>6. i \in 1 .. Len(WriteAt(old, at, out)) /\ i \in Nat
  BY <1>2
<1> HIDE DEF h, n, bytes, at, old, new
<1>7. \A k \in 1 .. Len(WriteAt(old, at, out)) : WriteAt(old, at, out)[k] =
         IF k > at /\ k <= at + Len(out) THEN out[k - at]
         ELSE IF k <= Len(old) THEN old[k] ELSE Zero
  BY <1>3, WriteAtBytes
<1>8. new[i] = IF i > at /\ i <= at + Len(out) THEN out[i - at]
               ELSE IF i <= Len(old) THEN old[i] ELSE Zero
  BY <1>2, <1>6, <1>7, Zenon
<1>9. CASE i > at /\ i <= at + Len(out)
  <2>1. i - at \in 1 .. Len(out) /\ i - at \in 1 .. Len(bytes)
    BY <1>1, <1>2, <1>3, <1>4, <1>6, <1>9
  <2> QED
    BY <1>4, <1>5, <1>8, <1>9, <2>1 DEF h, bytes, at, old, new, n
<1>10. CASE ~ (i > at /\ i <= at + Len(out))
  <2>1. new[i] = IF i <= Len(old) THEN old[i] ELSE Zero
    BY <1>8, <1>10, Zenon
  <2>2. i <= Len(old) => i \in 1 .. Len(old)
    BY <1>3, <1>6
  <2>3. new[i] = Zero \/ (i \in 1 .. Len(old) /\ new[i] = old[i])
    BY <2>1, <2>2, Zenon
  <2> QED
    BY <2>3, Zenon DEF old, new
<1> QED
  BY <1>9, <1>10

(* A file is truncated, or gets bytes of a chunk sent for it.              *)
LEMMA SentBytesStep ==
    IndInv /\ ChunkBytesInPlace /\ SentInv /\ SentBytes /\ [Next]_vars => SentBytes'
<1> SUFFICES ASSUME IndInv, ChunkBytesInPlace, SentInv, SentBytes, [Next]_vars,
                    NEW c \in Clients, NEW p \in Paths, NEW i \in 1 .. Len(disk'[c][p])
             PROVE  disk'[c][p][i] = Zero \/ SentByte(disk[c][p][i], c, p)'
  BY DEF SentBytes
<1> USE DEF IndInv
<1>1. ASSUME NEW b, SentByte(b, c, p) PROVE SentByte(b, c, p)'
  <2>1. PICK h \in Hashes : /\ Sent(h, c, p)
                            /\ \E k \in 1 .. Len(Data[h]) : Data[h][k] = b
    BY <1>1 DEF SentByte
  <2>2. Sent(h, c, p)'
    BY <2>1, SentStays
  <2> QED
    BY <2>1, <2>2 DEF SentByte
<1>2. ASSUME NEW b, b = disk'[c][p][i], b = Zero \/ SentByte(b, c, p)
      PROVE  disk'[c][p][i] = Zero \/ SentByte(disk[c][p][i], c, p)'
  BY <1>1, <1>2
<1>3. CASE disk'[c][p] = disk[c][p]
  <2>1. i \in 1 .. Len(disk[c][p])
    BY <1>3
  <2>2. disk'[c][p][i] = Zero \/ SentByte(disk'[c][p][i], c, p)
    BY <1>3, <2>1 DEF SentBytes
  <2> QED
    BY <1>2, <2>2
<1>4. ASSUME NEW u \in Uploads, CreateFile(u), disk'[c][p] # disk[c][p] PROVE FALSE
  <2>1. disk'[c][p] = <<>>
    <3>1. disk' = [disk EXCEPT ![req[u].client][req[u].path] = <<>>]
      BY <1>4 DEF CreateFile
    <3>2. req[u].client = c /\ req[u].path = p
      BY <1>4, <3>1 DEF TypeInv, TypeOK
    <3> QED
      BY <3>1, <3>2 DEF TypeInv, TypeOK
  <2> QED
    BY <2>1
<1>5. ASSUME NEW u \in Uploads, CopyChunk(u), disk'[c][p] # disk[c][p]
      PROVE  disk'[c][p][i] = Zero \/ SentByte(disk'[c][p][i], c, p)
  <2>1. c = req[u].client /\ p = req[u].path /\ Copied(u) \in Hashes
    BY <1>5, ChunkCopied DEF TypeInv
  <2>2. Sent(Copied(u), c, p)
    <3>1. pc[u] # "idle" /\ loc[u].copied + 1 \in 1 .. Len(loc[u].list)
      BY <1>5, SMTT(60) DEF CopyChunk, TypeInv, TypeOK, Locals
    <3> QED
      BY <2>1, <3>1 DEF Copied, SentInv, ListSent
  <2>3. \/ disk'[c][p][i] = Zero
        \/ i \in 1 .. Len(disk[c][p]) /\ disk'[c][p][i] = disk[c][p][i]
        \/ \E k \in 1 .. Len(Data[Copied(u)]) : Data[Copied(u)][k] = disk'[c][p][i]
    BY <1>5, <2>1, CopiedBytes
  <2>4. CASE i \in 1 .. Len(disk[c][p]) /\ disk'[c][p][i] = disk[c][p][i]
    BY <2>4 DEF SentBytes
  <2>5. CASE \E k \in 1 .. Len(Data[Copied(u)]) : Data[Copied(u)][k] = disk'[c][p][i]
    BY <2>1, <2>2, <2>5 DEF SentByte
  <2> QED
    BY <2>3, <2>4, <2>5
<1>6. UNCHANGED disk \/ \E u \in Uploads : CreateFile(u) \/ CopyChunk(u)
  BY DEF Next, UploadFile, vars, persistent, Begin, ReadMessage, StreamEnds,
         ChunkExists, OpenChunk, WritePart, WriteChunk, InsertChunk, ListRow, ListEnd,
         Listed, SizeChunk, StatFile, HashFile, CommitFile, Respond, DeleteFile,
         Crash, Tick
<1> QED
  BY <1>2, <1>3, <1>4, <1>5, <1>6

(* Whatever calls overlap, race for a chunk, fail or crash, a rebuilt file *)
(* holds only bytes of chunks sent for this client and this path, and      *)
(* zeros: finalizeFile lists the rows of its own path, each row names a    *)
(* chunk sent for it, and the chunk's file holds bytes of the chunk.       *)
THEOREM OwnBytesOnly ==
    ASSUME "corrupt" \notin Faults
    PROVE  Spec => []NoForeignBytes
<1>1. Init => ChunkBytesInPlace /\ SoleWriter /\ SentInv /\ SentBytes
  <2> SUFFICES ASSUME Init PROVE ChunkBytesInPlace /\ SoleWriter /\ SentInv /\ SentBytes
    OBVIOUS
  <2>1. ChunkBytesInPlace /\ SoleWriter
    BY DEF Init, ChunkBytesInPlace, SoleWriter
  <2>2. RowsSent
    BY DEF Init, RowsSent
  <2>3. ListSent
    BY DEF Init, ListSent, NoLocals
  <2>4. SentBytes
    BY DEF Init, SentBytes
  <2> QED
    BY <2>1, <2>2, <2>3, <2>4 DEF SentInv
<1>2. IndInv /\ ChunkBytesInPlace /\ SoleWriter /\ SentInv /\ SentBytes /\ [Next]_vars
         => (ChunkBytesInPlace /\ SoleWriter /\ SentInv /\ SentBytes)'
  BY PlaceStep, SoleWriterStep, RowsSentStep, ListSentStep, SentBytesStep DEF SentInv
<1>3. IndInv /\ SentBytes => NoForeignBytes
  <2> SUFFICES ASSUME IndInv, SentBytes, NEW c \in Clients, NEW p \in Paths,
                      NEW b \in ToSet(disk[c][p]), b # Zero
               PROVE  b \in BytesSentFor(c, p)
    BY DEF NoForeignBytes
  <2>1. PICK i \in 1 .. Len(disk[c][p]) : disk[c][p][i] = b
    <3>1. disk[c][p] \in Seq(Bytes)
      BY DEF IndInv, TypeInv, TypeOK
    <3> QED
      BY <3>1 DEF ToSet
  <2>2. SentByte(b, c, p)
    BY <2>1 DEF SentBytes
  <2> QED
    BY <2>2, SentByteIs DEF IndInv
<1> QED
  BY <1>1, <1>2, <1>3, IndInvariant, PTL DEF Spec
-----------------------------------------------------------------------------
(* The record of a file and the file.                                      *)

(* Two calls in progress upload different files.                           *)
FilesApart ==
    \A u, w \in Uploads : u # w /\ Active(u) /\ Active(w) =>
       req[u].client # req[w].client \/ req[u].path # req[w].path

(* A call begins only if no call in progress is for the same file.         *)
LEMMA FilesApartStep ==
    "overlap" \notin Faults /\ TypeInv /\ FilesApart /\ [Next]_vars => FilesApart'
<1> SUFFICES ASSUME "overlap" \notin Faults, TypeInv, FilesApart, [Next]_vars,
                    NEW u \in Uploads, NEW w \in Uploads, u # w,
                    Active(u)', Active(w)'
             PROVE  req'[u].client # req'[w].client \/ req'[u].path # req'[w].path
  BY DEF FilesApart
<1>1. ASSUME NEW x \in Uploads, NEW y \in Uploads, x # y, Begin(x), Active(y)'
      PROVE  req'[x].client # req'[y].client \/ req'[x].path # req'[y].path
  <2>1. UNCHANGED <<pc[y], req[y], loc[y]>>
    BY <1>1, OtherCalls
  <2>2. Active(y)
    BY <1>1, <2>1 DEF Active
  <2>3. PICK r \in Requests :
           /\ req[y].client # r.client \/ req[y].path # r.path
           /\ req' = [req EXCEPT ![x] = r]
    BY <1>1, <2>2 DEF Begin
  <2>4. req'[x] = r
    BY <2>3 DEF TypeInv, TypeOK
  <2> QED
    BY <2>1, <2>3, <2>4
<1>2. CASE Begin(u)
  BY <1>1, <1>2
<1>3. CASE Begin(w)
  BY <1>1, <1>3
<1>4. CASE ~ Begin(u) /\ ~ Begin(w)
  BY <1>4, ActiveBefore DEF FilesApart
<1> QED
  BY <1>2, <1>3, <1>4

(* Calls are numbered as they arrive, and a call in progress is the last   *)
(* of its file.                                                            *)
InOrder ==
    /\ \A v, w \in Uploads : v < w /\ pc[w] # "idle" => pc[v] # "idle"
    /\ \A u, w \in Uploads :
          /\ u # w /\ Active(u) /\ pc[w] # "idle"
          /\ req[w].client = req[u].client /\ req[w].path = req[u].path
          => w < u

(* A call that begins comes after all that have begun; none for its file   *)
(* begins before it is answered.                                           *)
LEMMA InOrderStep ==
    "overlap" \notin Faults /\ TypeInv /\ InOrder /\ [Next]_vars => InOrder'
<1> SUFFICES ASSUME "overlap" \notin Faults, TypeInv, InOrder, [Next]_vars
             PROVE  InOrder'
  OBVIOUS
<1>1. \A u \in Uploads : u \in Nat
  BY StorageAssumption
<1>2. ASSUME NEW u \in Uploads, pc'[u] # "idle" PROVE Begin(u) \/ pc[u] # "idle"
  BY <1>2, CallSteps, HandlerStep DEF Active
<1>3. ASSUME NEW v \in Uploads, NEW w \in Uploads, v < w, pc'[w] # "idle"
      PROVE  pc'[v] # "idle"
  <2>1. CASE Begin(w)
    <3>1. pc[v] # "idle"
      BY <1>3, <2>1 DEF Begin
    <3> QED
      BY <3>1, BegunStays
  <2>2. CASE pc[w] # "idle"
    BY <1>3, <2>2, BegunStays DEF InOrder
  <2> QED
    BY <1>2, <1>3, <2>1, <2>2
<1>4. ASSUME NEW u \in Uploads, NEW w \in Uploads, u # w, Active(u)', pc'[w] # "idle",
             req'[w].client = req'[u].client, req'[w].path = req'[u].path
      PROVE  w < u
  <2>1. CASE Begin(u)
    <3>1. UNCHANGED <<pc[w], req[w], loc[w]>>
      BY <1>4, <2>1, OtherCalls
    <3>2. pc[w] # "idle" /\ pc[u] = "idle"
      BY <1>4, <2>1, <3>1 DEF Begin
    <3>3. ~ (u < w)
      BY <3>2 DEF InOrder
    <3> QED
      BY <1>1, <1>4, <3>3
  <2>2. CASE Active(u) /\ req'[u] = req[u] /\ pc[w] # "idle"
    <3>1. req'[w] = req[w]
      BY <2>2, BegunStays
    <3> QED
      BY <1>4, <2>2, <3>1 DEF InOrder
  <2>3. CASE Active(u) /\ Begin(w)
    <3>1. UNCHANGED <<pc[u], req[u], loc[u]>>
      BY <1>4, <2>3, OtherCalls
    <3>2. PICK r \in Requests :
             /\ req[u].client # r.client \/ req[u].path # r.path
             /\ req' = [req EXCEPT ![w] = r]
      BY <2>3 DEF Begin
    <3>3. req'[w] = r
      BY <3>2 DEF TypeInv, TypeOK
    <3> QED
      BY <1>4, <3>1, <3>2, <3>3
  <2> QED
    BY <1>2, <1>4, <2>1, <2>2, <2>3, ActiveBefore
<1> QED
  BY <1>3, <1>4 DEF InOrder

(* finalizeFile rewrites the file in place from its open to its INSERT.    *)
Rewriting == {"copy", "fetch", "hash", "commit"}

(* Call u is rewriting the file or was stopped while it did, and no call   *)
(* that came after it has inserted the record.                             *)
Cut(u, c, p) ==
    /\ u \in CallsFor(c, p)
    /\ pc[u] \in Rewriting \cup {"lost", "finalize_failed"}
    /\ \A w \in CallsFor(c, p) : pc[w] \in {"respond", "ok"} => w < u

(* The record is that of the file on disk, or there is such a call.        *)
RecordOrCall ==
    \A c \in Clients, p \in Paths :
       \/ files[c][p] = NoRow
       \/ files[c][p].hash = sha256(disk[c][p])
       \/ \E u \in Uploads : Cut(u, c, p)

(* The record a call is about to insert is that of the file on disk.       *)
Hashed ==
    \A u \in Uploads : pc[u] = "commit" =>
       loc[u].rec.hash = sha256(disk[req[u].client][req[u].path])

(* Only finalizeFile changes a rebuilt file, and only that of its call.    *)
LEMMA DiskSteps ==
    ASSUME IndInv, [Next]_vars, NEW c \in Clients, NEW p \in Paths,
           disk'[c][p] # disk[c][p]
    PROVE  \E u \in Uploads : /\ req[u].client = c /\ req[u].path = p
                              /\ \/ CreateFile(u) /\ disk'[c][p] = <<>> /\ pc'[u] = "copy"
                                 \/ CopyChunk(u)
<1> USE DEF IndInv
<1>1. ASSUME NEW u \in Uploads, CreateFile(u)
      PROVE  /\ req[u].client = c /\ req[u].path = p
             /\ disk'[c][p] = <<>> /\ pc'[u] = "copy"
  <2>1. disk' = [disk EXCEPT ![req[u].client][req[u].path] = <<>>] /\ Goto(u, "copy")
    BY <1>1 DEF CreateFile
  <2>2. req[u].client = c /\ req[u].path = p
    BY <2>1 DEF TypeInv, TypeOK
  <2> QED
    BY <2>1, <2>2 DEF Goto, TypeInv, TypeOK
<1>2. ASSUME NEW u \in Uploads, CopyChunk(u) PROVE req[u].client = c /\ req[u].path = p
  BY <1>2, ChunkCopied
<1>3. \E u \in Uploads : CreateFile(u) \/ CopyChunk(u)
  BY DEF Next, UploadFile, vars, persistent, Begin, ReadMessage, StreamEnds,
         ChunkExists, OpenChunk, WritePart, WriteChunk, InsertChunk, ListRow, ListEnd,
         Listed, SizeChunk, StatFile, HashFile, CommitFile, Respond, DeleteFile,
         Crash, Tick
<1> QED
  BY <1>1, <1>2, <1>3

(* Only the INSERT of a call for the file changes what its record says of  *)
(* it; deleteFile sets the flag.                                           *)
LEMMA RecordSteps ==
    ASSUME TypeInv, [Next]_vars, NEW c \in Clients, NEW p \in Paths,
           files'[c][p] # files[c][p]
    PROVE  \/ \E u \in Uploads : /\ req[u].client = c /\ req[u].path = p
                                 /\ CommitFile(u) /\ files'[c][p] = loc[u].rec
                                 /\ pc'[u] = "respond"
           \/ /\ files[c][p] # NoRow /\ files'[c][p] = [files[c][p] EXCEPT !.deleted = TRUE]
              /\ DeleteFile(c, p)
<1>1. ASSUME NEW u \in Uploads, CommitFile(u)
      PROVE  /\ req[u].client = c /\ req[u].path = p
             /\ files'[c][p] = loc[u].rec /\ pc'[u] = "respond"
  <2>1. /\ files' = [files EXCEPT ![req[u].client] =
                       insertOrUpdateFile(@, req[u].path, loc[u].rec)]
        /\ Goto(u, "respond")
    BY <1>1 DEF CommitFile
  <2>2. req[u].client = c
    BY <2>1 DEF TypeInv, TypeOK
  <2>3. files'[c] = [files[c] EXCEPT ![req[u].path] = loc[u].rec]
    BY <2>1, <2>2 DEF TypeInv, TypeOK, insertOrUpdateFile
  <2>4. req[u].path = p
    BY <2>3 DEF TypeInv, TypeOK
  <2> QED
    BY <2>1, <2>2, <2>3, <2>4 DEF Goto, TypeInv, TypeOK
<1>2. ASSUME NEW d \in Clients, NEW q \in Paths, DeleteFile(d, q)
      PROVE  /\ d = c /\ q = p /\ files[c][p] # NoRow
             /\ files'[c][p] = [files[c][p] EXCEPT !.deleted = TRUE]
  <2>1. files' = [files EXCEPT ![d] = markDeleted(@, q)]
    BY <1>2 DEF DeleteFile
  <2>2. d = c
    BY <2>1 DEF TypeInv, TypeOK
  <2>3. files'[c] = markDeleted(files[c], q)
    BY <2>1, <2>2 DEF TypeInv, TypeOK
  <2>4. files[c][q] # NoRow /\ files'[c] = [files[c] EXCEPT ![q].deleted = TRUE]
    BY <2>3 DEF markDeleted
  <2>5. q = p
    BY <2>4 DEF TypeInv, TypeOK
  <2> QED
    BY <2>2, <2>4, <2>5 DEF TypeInv, TypeOK
<1>3. \/ \E u \in Uploads : CommitFile(u)
      \/ \E d \in Clients, q \in Paths : DeleteFile(d, q)
  BY ZenonT(60) DEF Next, UploadFile, vars, persistent, Begin, ReadMessage, StreamEnds,
         ChunkExists, OpenChunk, WritePart, WriteChunk, InsertChunk, ListRow, ListEnd,
         Listed, CreateFile, SizeChunk, CopyChunk, StatFile, HashFile, Respond,
         Crash, Tick
<1> QED
  BY <1>1, <1>2, <1>3

(* The file a call has hashed is not touched before the call inserts the   *)
(* record: nobody else is working on it.                                   *)
LEMMA HashedStep ==
    "read" \notin Faults /\ IndInv /\ FilesApart /\ Hashed /\ [Next]_vars => Hashed'
<1> SUFFICES ASSUME "read" \notin Faults, IndInv, FilesApart, Hashed, [Next]_vars,
                    NEW u \in Uploads, pc'[u] = "commit"
             PROVE  loc'[u].rec.hash = sha256(disk'[req'[u].client][req'[u].path])
  BY DEF Hashed
<1> DEFINE c == req[u].client
           p == req[u].path
<1> USE DEF IndInv
<1>1. CASE UNCHANGED <<pc[u], req[u], loc[u]>>
  <2>1. c \in Clients /\ p \in Paths /\ pc[u] = "commit"
    BY <1>1 DEF TypeInv, TypeOK, Requests
  <2>2. disk'[c][p] = disk[c][p]
    <3> SUFFICES ASSUME disk'[c][p] # disk[c][p] PROVE FALSE
      OBVIOUS
    <3>1. PICK w \in Uploads : /\ req[w].client = c /\ req[w].path = p
                               /\ CreateFile(w) \/ CopyChunk(w)
      BY <2>1, DiskSteps
    <3>2. pc[w] \in {"create", "fetch"}
      BY <3>1 DEF CreateFile, CopyChunk
    <3> QED
      BY <2>1, <3>1, <3>2 DEF FilesApart, Active, Answered
  <2> QED
    BY <1>1, <2>1, <2>2 DEF Hashed
<1>2. CASE HashFile(u)
  <2>1. PICK t \in Uninit :
           loc' = [loc EXCEPT ![u].rec =
                    [size |-> loc[u].size,
                     modified_time |-> loc[u].mtime,
                     hash |-> sha256(disk[c][p]),
                     version |-> 1,
                     deleted |-> FALSE,
                     last_sync_time |-> t]]
    BY <1>2 DEF HashFile
  <2>2. loc'[u].rec.hash = sha256(disk[c][p])
    BY <2>1 DEF TypeInv, TypeOK, Locals
  <2> QED
    BY <1>2, <2>2 DEF HashFile, persistent
<1>3. CASE UploadFile(u)
  <2>1. HashFile(u)
    BY <1>3 DEF UploadFile, ReadMessage, StreamEnds, ChunkExists, OpenChunk, WritePart,
           WriteChunk, InsertChunk, ListRow, ListEnd, Listed, CreateFile, SizeChunk,
           CopyChunk, StatFile, CommitFile, Respond, Goto, TypeInv, TypeOK
  <2> QED
    BY <1>2, <2>1
<1>4. ~ Begin(u)
  BY DEF Begin, Goto, TypeInv, TypeOK
<1> QED
  BY <1>1, <1>3, <1>4, CallSteps

(* Only an INSERT brings a call to the point where it is acknowledged.     *)
LEMMA InsertedBefore ==
    ASSUME TypeInv, [Next]_vars, NEW w \in Uploads, pc'[w] \in {"respond", "ok"}
    PROVE  \/ pc[w] \in {"respond", "ok"} /\ req'[w] = req[w]
           \/ CommitFile(w) /\ pc'[w] = "respond"
<1>1. CASE UploadFile(w)
  BY <1>1 DEF UploadFile, ReadMessage, StreamEnds, ChunkExists, OpenChunk,
         WritePart, WriteChunk, InsertChunk, ListRow, ListEnd, Listed, CreateFile,
         SizeChunk, CopyChunk, StatFile, HashFile, CommitFile, Respond, Goto,
         TypeInv, TypeOK
<1>2. ~ Begin(w)
  BY DEF Begin, Goto, TypeInv, TypeOK
<1> QED
  BY <1>1, <1>2, CallSteps

(* The record that is inserted is that of the file.                        *)
LEMMA Inserted ==
    ASSUME TypeInv, Hashed, NEW u \in Uploads, CommitFile(u), pc'[u] = "respond",
           NEW c \in Clients, NEW p \in Paths, req[u].client = c, req[u].path = p
    PROVE  files'[c][p].hash = sha256(disk'[c][p])
<1>1. /\ files' = [files EXCEPT ![c] = insertOrUpdateFile(@, p, loc[u].rec)]
      /\ UNCHANGED disk /\ pc[u] = "commit"
  BY DEF CommitFile, Goto, TypeInv, TypeOK
<1>2. files'[c][p] = loc[u].rec
  BY <1>1 DEF insertOrUpdateFile, TypeInv, TypeOK
<1> QED
  BY <1>1, <1>2 DEF Hashed

(* A call that was cut short stays the excuse until a record is inserted.  *)
LEMMA CutStays ==
    ASSUME TypeInv, Hashed, [Next]_vars, NEW c \in Clients, NEW p \in Paths,
           NEW u \in Uploads, Cut(u, c, p)
    PROVE  files'[c][p].hash = sha256(disk'[c][p]) \/ Cut(u, c, p)'
<1> SUFFICES ASSUME files'[c][p].hash # sha256(disk'[c][p])
             PROVE  Cut(u, c, p)'
  OBVIOUS
<1>1. /\ pc[u] # "idle" /\ req[u].client = c /\ req[u].path = p
      /\ pc[u] \in Rewriting \cup {"lost", "finalize_failed"}
  BY DEF Cut, CallsFor
<1>2. pc'[u] # "idle" /\ req'[u] = req[u]
  BY <1>1, BegunStays
<1>3. pc'[u] \in Rewriting \cup {"lost", "finalize_failed"}
  <2>1. CASE UploadFile(u)
    <3>1. ~ (CommitFile(u) /\ pc'[u] = "respond")
      BY <1>1, Inserted
    <3> QED
      BY <1>1, <2>1, <3>1 DEF UploadFile, ReadMessage, StreamEnds, ChunkExists, OpenChunk,
           WritePart, WriteChunk, InsertChunk, ListRow, ListEnd, Listed, CreateFile,
           SizeChunk, CopyChunk, StatFile, HashFile, CommitFile, Respond, Goto,
           TypeInv, TypeOK, Rewriting
  <2>2. ~ Begin(u)
    BY <1>1 DEF Begin
  <2> QED
    BY <1>1, <2>1, <2>2, CallSteps
<1>4. ASSUME NEW w \in CallsFor(c, p)', pc'[w] \in {"respond", "ok"} PROVE w < u
  <2>1. w \in Uploads /\ req'[w].client = c /\ req'[w].path = p
    BY <1>4 DEF CallsFor
  <2>2. CASE pc[w] \in {"respond", "ok"} /\ req'[w] = req[w]
    BY <2>1, <2>2 DEF Cut, CallsFor
  <2>3. CASE CommitFile(w) /\ pc'[w] = "respond"
    <3>1. req[w] = req'[w]
      BY <2>3 DEF CommitFile
    <3> QED
      BY <2>1, <2>3, <3>1, Inserted
  <2> QED
    BY <1>4, <2>1, <2>2, <2>3, InsertedBefore
<1> QED
  BY <1>1, <1>2, <1>3, <1>4 DEF Cut, CallsFor

(* A call that rewrites the file is the last of its file.                  *)
LEMMA RewritingCuts ==
    ASSUME InOrder, NEW c, NEW p, NEW u \in Uploads, pc[u] \in Rewriting,
           req[u].client = c, req[u].path = p
    PROVE  Cut(u, c, p)
<1>1. Active(u) /\ pc[u] # "idle" /\ pc[u] \notin {"respond", "ok"}
  BY DEF Active, Answered, Rewriting
<1>2. ASSUME NEW w \in CallsFor(c, p), pc[w] \in {"respond", "ok"} PROVE w < u
  BY <1>1, <1>2 DEF CallsFor, InOrder
<1> QED
  BY <1>1, <1>2 DEF Cut, CallsFor

(* finalizeFile truncates the file first and describes it last.            *)
LEMMA RecordOrCallStep ==
    IndInv /\ Hashed /\ InOrder /\ InOrder' /\ RecordOrCall /\ [Next]_vars => RecordOrCall'
<1> SUFFICES ASSUME IndInv, Hashed, InOrder, InOrder', RecordOrCall, [Next]_vars,
                    NEW c \in Clients, NEW p \in Paths
             PROVE  (\/ files[c][p] = NoRow
                     \/ files[c][p].hash = sha256(disk[c][p])
                     \/ \E u \in Uploads : Cut(u, c, p))'
  BY DEF RecordOrCall
<1> USE DEF IndInv
<1>1. ASSUME NEW u \in Uploads, Cut(u, c, p)
      PROVE  files'[c][p].hash = sha256(disk'[c][p]) \/ Cut(u, c, p)'
  BY <1>1, CutStays
<1>2. CASE ~ \E u \in Uploads : Cut(u, c, p)
  <2>1. files[c][p] = NoRow \/ files[c][p].hash = sha256(disk[c][p])
    BY <1>2 DEF RecordOrCall
  <2>2. CASE disk'[c][p] # disk[c][p]
    <3>1. PICK u \in Uploads : /\ req[u].client = c /\ req[u].path = p
                               /\ \/ CreateFile(u) /\ pc'[u] = "copy"
                                  \/ CopyChunk(u)
      BY <2>2, DiskSteps
    <3>2. ~ CopyChunk(u)
      BY <1>2, <3>1, RewritingCuts DEF CopyChunk, Rewriting
    <3>3. pc[u] # "idle"
      BY <3>1, <3>2 DEF CreateFile
    <3>4. req'[u] = req[u]
      BY <3>3, BegunStays
    <3>5. Active(u)' /\ pc'[u] \in Rewriting
      BY <3>1, <3>2 DEF Active, Answered, Rewriting
    <3>6. ASSUME NEW w \in CallsFor(c, p)', pc'[w] \in {"respond", "ok"} PROVE w < u
      <4>1. w \in Uploads /\ pc'[w] # "idle" /\ req'[w].client = c /\ req'[w].path = p
        BY <3>6 DEF CallsFor
      <4>2. w # u
        BY <3>5, <3>6 DEF Rewriting
      <4> QED
        BY <3>1, <3>4, <3>5, <4>1, <4>2 DEF InOrder
    <3>7. Cut(u, c, p)'
      BY <3>1, <3>4, <3>5, <3>6 DEF Cut, CallsFor, Rewriting
    <3> QED
      BY <3>7
  <2>3. CASE disk'[c][p] = disk[c][p] /\ files'[c][p] = files[c][p]
    BY <2>1, <2>3
  <2>4. CASE disk'[c][p] = disk[c][p] /\ files'[c][p] # files[c][p]
    <3>1. ASSUME NEW u \in Uploads, req[u].client = c, req[u].path = p, CommitFile(u)
          PROVE  FALSE
      BY <1>2, <3>1, RewritingCuts DEF CommitFile, Rewriting
    <3>2. files[c][p] # NoRow /\ files'[c][p] = [files[c][p] EXCEPT !.deleted = TRUE]
      BY <2>4, <3>1, RecordSteps
    <3>3. files[c][p] \in FileRecords
      BY <3>2 DEF TypeInv, TypeOK
    <3>4. files'[c][p].hash = files[c][p].hash
      BY <3>2, <3>3 DEF FileRecords
    <3> QED
      BY <2>1, <2>4, <3>2, <3>4
  <2> QED
    BY <2>2, <2>3, <2>4
<1> QED
  BY <1>1, <1>2

(* The record of a file is that of the file on disk, unless a call is      *)
(* rewriting the file or the last one to try failed in finalizeFile or was *)
(* lost in a crash; what such a call has left behind is repaired by the    *)
(* next call that is acknowledged.  Two things are excluded, and with      *)
(* either the record can be wrong: a client that starts an upload of a     *)
(* file before the last one is answered, and a rebuilt file that cannot be *)
(* opened when it is to be hashed.  Short writes, broken streams, calls    *)
(* racing for a chunk and wrong payloads are not, since the hash is        *)
(* computed from the file itself.                                          *)
THEOREM RecordsMatch ==
    ASSUME "overlap" \notin Faults, "read" \notin Faults
    PROVE  Spec => []RecordMatchesDisk
<1>1. Init => FilesApart /\ InOrder /\ Hashed /\ RecordOrCall
  BY DEF Init, FilesApart, InOrder, Hashed, RecordOrCall, Active
<1>2. IndInv /\ FilesApart /\ InOrder /\ Hashed /\ RecordOrCall /\ [Next]_vars
         => (FilesApart /\ InOrder /\ Hashed /\ RecordOrCall)'
  BY FilesApartStep, InOrderStep, HashedStep, RecordOrCallStep DEF IndInv
<1>3. RecordOrCall => RecordMatchesDisk
  <2>1. ASSUME NEW u \in Uploads, NEW c, NEW p, Cut(u, c, p)
        PROVE  /\ u \in CallsFor(c, p)
               /\ Active(u) \/ pc[u] \in {"lost", "finalize_failed"}
               /\ \A w \in CallsFor(c, p) : pc[w] = "ok" => w < u
    BY <2>1 DEF Cut, Active, Answered, Rewriting
  <2> QED
    BY <2>1 DEF RecordOrCall, RecordMatchesDisk
<1> QED
  BY <1>1, <1>2, <1>3, IndInvariant, PTL DEF Spec
-----------------------------------------------------------------------------
(* Why finalizeFile refuses a call.                                        *)

(* Two calls in progress have no chunk in common.                          *)
ChunksApart ==
    \A u, w \in Uploads : u # w /\ Active(u) /\ Active(w) =>
       ToSet(req[u].version) \cap ToSet(req[w].version) = {}

(* The labels of a call that stores chunks, and of one in finalizeFile.    *)
Storing == {"idle", "read", "store", "open", "write", "insert"}
Accepted == {"create"} \cup Rewriting
Finishing == {"list"} \cup Accepted

(* The rows a call in progress has inserted are those of its version.      *)
RowsOwn ==
    \A u \in Uploads : Active(u) => \A i \in 0 .. loc[u].recv - 1 :
       chunks[req[u].client][req[u].path][i] = req[u].version[i + 1]

(* Every row has an index within a version sent for its file.              *)
RowsWithin ==
    \A c \in Clients, p \in Paths, i \in Indexes : chunks[c][p][i] # NoRow =>
       \E w \in CallsFor(c, p) : i < Len(req[w].version)

(* A call has listed nothing before it lists; while it does, and after,    *)
(* the list begins with the chunks of its own version, and only when it is *)
(* longer than what the call received has the cursor passed those.         *)
ListFollows ==
    \A u \in Uploads :
       /\ pc[u] \in Storing => loc[u].list = <<>> /\ loc[u].cursor = -1
       /\ pc[u] \in Finishing =>
             /\ \A k \in 1 .. Len(loc[u].list) :
                   k <= loc[u].recv => loc[u].list[k] = req[u].version[k]
             /\ Len(loc[u].list) <= loc[u].recv => loc[u].cursor = Len(loc[u].list) - 1
             /\ Len(loc[u].list) > loc[u].recv => loc[u].cursor >= loc[u].recv

(* The cursor stands on a row.                                             *)
CursorOnRow ==
    \A u \in Uploads : pc[u] = "list" /\ loc[u].cursor # -1 =>
       chunks[req[u].client][req[u].path][loc[u].cursor] # NoRow

(* What a call has listed has a chunk file.                                *)
ListBacked ==
    \A u \in Uploads : \A k \in 1 .. Len(loc[u].list) : chunkFiles[loc[u].list[k]] # NoRow

(* A call that goes on has listed as many rows as it announced chunks.     *)
AllListed ==
    \A u \in Uploads : pc[u] \in Accepted => Len(loc[u].list) = Len(req[u].version)

ListInv == RowsOwn /\ RowsWithin /\ ListFollows /\ CursorOnRow /\ ListBacked /\ AllListed

(* A call begins only if no call in progress has a chunk of its version.   *)
LEMMA ChunksApartStep ==
    "same_chunk" \notin Faults /\ TypeInv /\ ChunksApart /\ [Next]_vars => ChunksApart'
<1> SUFFICES ASSUME "same_chunk" \notin Faults, TypeInv, ChunksApart, [Next]_vars,
                    NEW u \in Uploads, NEW w \in Uploads, u # w,
                    Active(u)', Active(w)'
             PROVE  ToSet(req'[u].version) \cap ToSet(req'[w].version) = {}
  BY DEF ChunksApart
<1>1. ASSUME NEW x \in Uploads, NEW y \in Uploads, x # y, Begin(x), Active(y)'
      PROVE  ToSet(req'[x].version) \cap ToSet(req'[y].version) = {}
  <2>1. UNCHANGED <<pc[y], req[y], loc[y]>>
    BY <1>1, OtherCalls
  <2>2. Active(y)
    BY <1>1, <2>1 DEF Active
  <2>3. PICK r \in Requests :
           /\ ToSet(req[y].version) \cap ToSet(r.version) = {}
           /\ req' = [req EXCEPT ![x] = r]
    BY <1>1, <2>2 DEF Begin
  <2>4. req'[x] = r
    BY <2>3 DEF TypeInv, TypeOK
  <2> QED
    BY <2>1, <2>3, <2>4
<1>2. CASE Begin(u)
  BY <1>1, <1>2
<1>3. CASE Begin(w)
  BY <1>1, <1>3
<1>4. CASE ~ Begin(u) /\ ~ Begin(w)
  BY <1>4, ActiveBefore DEF ChunksApart
<1> QED
  BY <1>2, <1>3, <1>4

(* Only insertChunk changes a row: that of the call's file, at the index   *)
(* of the message, to the chunk of the message.                            *)
LEMMA RowSteps ==
    ASSUME TypeInv, [Next]_vars, NEW c \in Clients, NEW p \in Paths, NEW i \in Indexes,
           chunks'[c][p][i] # chunks[c][p][i]
    PROVE  \E u \in Uploads :
              /\ InsertChunk(u) /\ req[u].client = c /\ req[u].path = p
              /\ i = loc[u].recv /\ chunks'[c][p][i] = Current(u)
              /\ Current(u) \in Hashes
<1>1. UNCHANGED chunks \/ \E u \in Uploads : InsertChunk(u)
  BY ZenonT(60) DEF Next, UploadFile, vars, persistent, Begin, ReadMessage, StreamEnds,
         ChunkExists, OpenChunk, WritePart, WriteChunk, ListRow, ListEnd,
         Listed, CreateFile, SizeChunk, CopyChunk, StatFile, HashFile,
         CommitFile, Respond, DeleteFile, Crash, Tick
<1>2. PICK u \in Uploads : InsertChunk(u)
  BY <1>1
<1>3. Current(u) \in Hashes
  BY <1>2, CurrentType DEF InsertChunk, TypeInv
<1>4. /\ c = req[u].client
      /\ chunks'[c] = insertChunk(chunks[c], req[u].path, loc[u].recv, Current(u))
  BY <1>2 DEF InsertChunk, TypeInv, TypeOK
<1>5. chunks[c] \in [Paths -> [Indexes -> Hashes \cup {NoRow}]]
  BY DEF TypeInv, TypeOK
<1>6. p = req[u].path /\ i = loc[u].recv /\ chunks'[c][p][i] = Current(u)
  BY <1>4, <1>5, SMTT(60) DEF insertChunk
<1> QED
  BY <1>2, <1>3, <1>4, <1>6

(* A row that exists may be replaced, it is never removed.                 *)
LEMMA RowStays ==
    ASSUME TypeInv, [Next]_vars, NEW c \in Clients, NEW p \in Paths, NEW i \in Indexes,
           chunks[c][p][i] # NoRow
    PROVE  chunks'[c][p][i] # NoRow
BY RowSteps, StorageAssumption

(* Storing the chunk of a message: the row is there, the message counted;  *)
(* or the statement fails and the call with it.                            *)
LEMMA RowInserted ==
    ASSUME TypeInv, NEW u \in Uploads, InsertChunk(u)
    PROVE  LET c == req[u].client
               p == req[u].path
           IN  /\ c \in Clients /\ p \in Paths /\ loc[u].recv \in Indexes
               /\ Current(u) \in Hashes /\ pc[u] = "insert"
               /\ \/ /\ chunks'[c][p][loc[u].recv] = Current(u)
                     /\ loc'[u].recv = loc[u].recv + 1 /\ pc'[u] = "read"
                  \/ /\ UNCHANGED <<chunks, loc>> /\ pc'[u] = "store_failed"
<1> DEFINE c == req[u].client
           p == req[u].path
<1>1. /\ Current(u) \in Hashes /\ loc[u].recv \in Indexes /\ pc[u] = "insert"
      /\ c \in Clients /\ p \in Paths
  BY CurrentType DEF InsertChunk, TypeInv, Requests
<1>2. CASE /\ chunks' = [chunks EXCEPT ![c] = insertChunk(@, p, loc[u].recv, Current(u))]
           /\ loc' = [loc EXCEPT ![u].recv = @ + 1]
           /\ Goto(u, "read")
  <2>1. chunks'[c] = insertChunk(chunks[c], p, loc[u].recv, Current(u))
    BY <1>1, <1>2 DEF TypeInv, TypeOK
  <2>2. chunks[c] \in [Paths -> [Indexes -> Hashes \cup {NoRow}]]
    BY <1>1 DEF TypeInv, TypeOK
  <2>3. chunks'[c][p][loc[u].recv] = Current(u)
    BY <1>1, <2>1, <2>2 DEF insertChunk
  <2>4. loc'[u].recv = loc[u].recv + 1 /\ pc'[u] = "read"
    BY <1>2 DEF Goto, TypeInv, TypeOK, Locals
  <2> QED
    BY <1>1, <2>3, <2>4
<1>3. CASE UNCHANGED <<chunks, loc>> /\ Goto(u, "store_failed")
  BY <1>1, <1>3 DEF Goto, TypeInv, TypeOK
<1> QED
  BY <1>2, <1>3 DEF InsertChunk

(* The order of the handler's phases.                                      *)
LEMMA HandlerPhases ==
    ASSUME TypeInv, NEW u \in Uploads, UploadFile(u)
    PROVE  /\ pc'[u] \in Storing => pc[u] \in Storing
           /\ pc'[u] \in Finishing => pc[u] \in Finishing \/ StreamEnds(u)
           /\ pc'[u] \in Accepted => pc[u] \in Accepted \/ ListEnd(u)
           /\ pc'[u] = "list" => ListRow(u) \/ StreamEnds(u)
BY ZenonT(60) DEF TypeInv, TypeOK, Goto, Storing, Finishing, Accepted, Rewriting, UploadFile,
       ReadMessage, StreamEnds, ChunkExists, OpenChunk, WritePart, WriteChunk,
       InsertChunk, ListRow, ListEnd, Listed, CreateFile, SizeChunk, CopyChunk,
       StatFile, HashFile, CommitFile, Respond

(* A row within a version stays within it.                                 *)
LEMMA RowsWithinStep == TypeInv /\ RowsWithin /\ [Next]_vars => RowsWithin'
<1> SUFFICES ASSUME TypeInv, RowsWithin, [Next]_vars,
                    NEW c \in Clients, NEW p \in Paths, NEW i \in Indexes,
                    chunks'[c][p][i] # NoRow
             PROVE  \E w \in CallsFor(c, p)' : i < Len(req'[w].version)
  BY DEF RowsWithin
<1>1. ASSUME NEW w \in CallsFor(c, p)
      PROVE  w \in CallsFor(c, p)' /\ req'[w] = req[w]
  BY BegunStays DEF CallsFor
<1>2. CASE chunks'[c][p][i] = chunks[c][p][i]
  BY <1>1, <1>2 DEF RowsWithin
<1>3. CASE chunks'[c][p][i] # chunks[c][p][i]
  <2>1. PICK u \in Uploads : /\ InsertChunk(u) /\ req[u].client = c /\ req[u].path = p
                             /\ i = loc[u].recv
    BY <1>3, RowSteps
  <2>2. u \in CallsFor(c, p) /\ i < Len(req[u].version)
    BY <2>1 DEF CallsFor, InsertChunk, TypeInv, TypeOK
  <2> QED
    BY <1>1, <2>2
<1> QED
  BY <1>2, <1>3

(* The rows of a call in progress are touched by nobody else.              *)
LEMMA RowsOwnStep == IndInv /\ FilesApart /\ RowsOwn /\ [Next]_vars => RowsOwn'
<1> SUFFICES ASSUME IndInv, TypeInv, FilesApart, RowsOwn, [Next]_vars, NEW u \in Uploads,
                    Active(u)', NEW i \in 0 .. loc'[u].recv - 1
             PROVE  chunks'[req'[u].client][req'[u].path][i] = req'[u].version[i + 1]
  BY DEF RowsOwn, IndInv
<1> DEFINE c == req[u].client
           p == req[u].path
<1>1. CASE Begin(u)
  BY <1>1 DEF Begin, TypeInv, Fresh
<1>2. CASE Active(u) /\ req'[u] = req[u]
  <2>1. /\ req[u] \in Requests /\ c \in Clients /\ p \in Paths
        /\ req[u].version \in Versions /\ req[u].version \in Seq(Hashes)
    BY <1>2, StorageAssumption DEF Active, TypeInv, TypeOK, Requests
  <2>2. /\ loc[u].recv \in Nat /\ loc'[u].recv \in Nat
        /\ loc[u].recv <= Len(req[u].version)
    <3>1. TypeOK'
      BY TypeStep DEF IndInv, TypeInv
    <3>2. loc[u].recv \in Nat /\ loc[u].recv <= Len(req[u].version)
      BY <2>1 DEF TypeInv, TypeOK, Locals
    <3>3. loc'[u].recv \in Nat
      BY <3>1 DEF TypeOK, Locals
    <3> QED
      BY <3>2, <3>3
  <2>3. CASE i \in 0 .. loc[u].recv - 1
    <3>1. i \in Indexes
      BY <2>1, <2>2, <2>3 DEF Indexes
    <3>2. chunks'[c][p][i] = chunks[c][p][i]
      <4> SUFFICES ASSUME chunks'[c][p][i] # chunks[c][p][i] PROVE FALSE
        OBVIOUS
      <4>1. PICK w \in Uploads : /\ InsertChunk(w) /\ req[w].client = c /\ req[w].path = p
                                 /\ i = loc[w].recv
        BY <2>1, <3>1, RowSteps
      <4>2. Active(w)
        BY <4>1 DEF InsertChunk, Active, Answered
      <4>3. w = u
        BY <1>2, <4>1, <4>2 DEF FilesApart
      <4> QED
        BY <2>2, <2>3, <4>1, <4>3
    <3> QED
      BY <1>2, <2>3, <3>2 DEF RowsOwn
  <2>4. CASE i \notin 0 .. loc[u].recv - 1
    <3>1. InsertChunk(u)
      <4>1. loc'[u].recv # loc[u].recv
        BY <1>2, <2>2, <2>4
      <4>2. loc'[u].recv # 0
        BY <1>2
      <4>3. loc'[u] # NoLocals /\ ~ Begin(u)
        BY <1>2, <4>2 DEF NoLocals, Active, Begin
      <4> QED
        BY <4>1, <4>3, HandlerLocals, CallSteps
    <3>2. /\ chunks'[c][p][loc[u].recv] = Current(u)
          /\ loc'[u].recv = loc[u].recv + 1
      BY <2>4, <3>1, RowInserted
    <3>3. i = loc[u].recv
      BY <2>2, <2>4, <3>2
    <3> QED
      BY <1>2, <3>2, <3>3 DEF Current
  <2> QED
    BY <2>3, <2>4
<1> QED
  BY <1>1, <1>2, ActiveBefore
(* A row that is listed has a chunk file, and keeps it.                    *)
LEMMA ListBackedStep == IndInv /\ ListBacked /\ [Next]_vars => ListBacked'
<1> SUFFICES ASSUME IndInv, ListBacked, [Next]_vars, NEW u \in Uploads,
                    NEW k \in 1 .. Len(loc'[u].list)
             PROVE  chunkFiles'[loc'[u].list[k]] # NoRow
  BY DEF ListBacked
<1> USE DEF IndInv
<1>1. loc[u].list \in Seq(Hashes)
  BY DEF TypeInv, TypeOK, Locals
<1>2. ASSUME NEW j \in 1 .. Len(loc[u].list) PROVE chunkFiles'[loc[u].list[j]] # NoRow
  <2>1. loc[u].list[j] \in Hashes /\ chunkFiles[loc[u].list[j]] # NoRow
    BY <1>1 DEF ListBacked
  <2> QED
    BY <2>1, ChunkFilesStay
<1>3. CASE loc'[u].list = loc[u].list
  BY <1>2, <1>3
<1>4. CASE ListRow(u)
  <2> DEFINE rows == chunks[req[u].client][req[u].path]
  <2>1. PICK i \in Indexes : /\ rows[i] \in Hashes
                             /\ loc'[u].list = Append(loc[u].list, rows[i])
                             /\ req[u] \in Requests
    BY <1>4, RowListed
  <2>2. chunkFiles[rows[i]] # NoRow
    BY <2>1, StorageAssumption DEF ChunkRowsBacked, Requests
  <2>3. chunkFiles'[rows[i]] # NoRow
    BY <2>1, <2>2, ChunkFilesStay
  <2> HIDE DEF rows
  <2>4. k \in 1 .. Len(loc[u].list) \/ k = Len(loc[u].list) + 1
    BY <1>1, <2>1
  <2>5. CASE k \in 1 .. Len(loc[u].list)
    BY <1>1, <1>2, <2>1, <2>5
  <2>6. CASE k = Len(loc[u].list) + 1
    BY <1>1, <2>1, <2>3, <2>6
  <2> QED
    BY <2>4, <2>5, <2>6
<1>5. CASE loc'[u] = NoLocals
  BY <1>5 DEF NoLocals
<1>6. ListRow(u) \/ loc'[u].list = loc[u].list \/ loc'[u] = NoLocals
  <2>1. CASE UploadFile(u)
    BY <2>1, HandlerLocals
  <2>2. CASE Begin(u)
    BY <2>2 DEF Begin
  <2> QED
    BY <2>1, <2>2, CallSteps
<1> QED
  BY <1>3, <1>4, <1>5, <1>6

(* The cursor moves from row to row.                                       *)
LEMMA CursorOnRowStep ==
    TypeInv /\ ListFollows /\ CursorOnRow /\ [Next]_vars => CursorOnRow'
<1> SUFFICES ASSUME TypeInv, ListFollows, CursorOnRow, [Next]_vars, NEW u \in Uploads,
                    pc'[u] = "list", loc'[u].cursor # -1
             PROVE  chunks'[req'[u].client][req'[u].path][loc'[u].cursor] # NoRow
  BY DEF CursorOnRow
<1>1. CASE UNCHANGED <<pc[u], req[u], loc[u]>>
  <2>1. req[u].client \in Clients /\ req[u].path \in Paths /\ loc[u].cursor \in Indexes
    BY <1>1 DEF TypeInv, TypeOK, Requests, Locals
  <2> QED
    BY <1>1, <2>1, RowStays DEF CursorOnRow
<1>2. CASE ListRow(u)
  <2>1. PICK i \in Indexes :
           /\ isNextRow(chunks[req[u].client][req[u].path], loc[u].cursor, i)
           /\ loc'[u].cursor = i /\ UNCHANGED <<req, chunks>>
    BY <1>2, RowListed
  <2> QED
    BY <2>1 DEF isNextRow, rowsAfter
<1>3. CASE StreamEnds(u)
  BY <1>3 DEF StreamEnds, ListFollows, Storing
<1>4. CASE UploadFile(u)
  BY <1>2, <1>3, <1>4, HandlerPhases
<1>5. ~ Begin(u)
  BY DEF Begin, Goto, TypeInv, TypeOK
<1> QED
  BY <1>1, <1>4, <1>5, CallSteps

(* The next row after the cursor is the next chunk of the call's version,  *)
(* as long as the call has inserted that row.                              *)
LEMMA ListFollowsStep ==
    TypeInv /\ RowsOwn /\ ListFollows /\ [Next]_vars => ListFollows'
<1> SUFFICES ASSUME TypeInv, RowsOwn, ListFollows, [Next]_vars, NEW u \in Uploads
             PROVE  (/\ pc[u] \in Storing => loc[u].list = <<>> /\ loc[u].cursor = -1
                     /\ pc[u] \in Finishing =>
                           /\ \A k \in 1 .. Len(loc[u].list) :
                                 k <= loc[u].recv => loc[u].list[k] = req[u].version[k]
                           /\ Len(loc[u].list) <= loc[u].recv =>
                                 loc[u].cursor = Len(loc[u].list) - 1
                           /\ Len(loc[u].list) > loc[u].recv =>
                                 loc[u].cursor >= loc[u].recv)'
  BY DEF ListFollows
<1>1. CASE UNCHANGED <<pc[u], req[u], loc[u]>>
  BY <1>1 DEF ListFollows
<1>2. CASE Begin(u)
  BY <1>2 DEF Begin, Goto, TypeInv, TypeOK, ListFollows, Storing, Finishing, Accepted,
              Rewriting
<1>3. CASE pc'[u] = "lost"
  BY <1>3 DEF Storing, Finishing, Accepted, Rewriting
<1>4. CASE StreamEnds(u)
  <2>1. /\ pc[u] \in Storing /\ pc'[u] \notin Storing /\ UNCHANGED loc
        /\ loc[u].list = <<>> /\ loc[u].cursor = -1 /\ loc[u].recv \in Nat
    BY <1>4 DEF StreamEnds, Goto, TypeInv, TypeOK, Locals, ListFollows, Storing
  <2> QED
    BY <2>1
<1>5. CASE ListRow(u)
  <2> DEFINE rows == chunks[req[u].client][req[u].path]
             n == Len(loc[u].list)
             m == loc[u].recv
  <2>1. PICK i \in Indexes :
           /\ isNextRow(rows, loc[u].cursor, i) /\ rows[i] \in Hashes
           /\ loc'[u].list = Append(loc[u].list, rows[i])
           /\ loc'[u].cursor = i /\ loc'[u].recv = loc[u].recv
           /\ req[u] \in Requests /\ pc[u] = "list" /\ pc'[u] = "list"
           /\ UNCHANGED <<req, chunks>>
    BY <1>5, RowListed
  <2>2. /\ loc[u].list \in Seq(Hashes) /\ n \in Nat /\ m \in Nat
        /\ loc[u].cursor \in Indexes \cup {-1}
    BY DEF TypeInv, TypeOK, Locals
  <2>3. Indexes \subseteq Nat
    BY StorageAssumption DEF Indexes
  <2>4. /\ \A k \in 1 .. n : k <= m => loc[u].list[k] = req[u].version[k]
        /\ n <= m => loc[u].cursor = n - 1
        /\ n > m => loc[u].cursor >= m
    BY <2>1 DEF ListFollows, Finishing
  <2>5. i > loc[u].cursor
    BY <2>1 DEF isNextRow, rowsAfter
  <2>6. n < m => i = n /\ rows[i] = req[u].version[n + 1]
    <3> SUFFICES ASSUME n < m PROVE i = n /\ rows[i] = req[u].version[n + 1]
      OBVIOUS
    <3>1. n \in 0 .. m - 1 /\ Active(u)
      BY <2>1, <2>2 DEF Active, Answered
    <3>2. rows[n] = req[u].version[n + 1]
      BY <3>1 DEF RowsOwn
    <3>3. /\ req[u].version \in Versions /\ req[u].version \in Seq(Hashes)
          /\ m <= Len(req[u].version)
      BY <2>1, StorageAssumption DEF TypeInv, TypeOK, Requests
    <3>4. n \in Indexes /\ rows[n] \in Hashes
      <4>1. n \in 0 .. Len(req[u].version) - 1 /\ n + 1 \in 1 .. Len(req[u].version)
        BY <2>2, <3>3, SMTT(60)
      <4> HIDE DEF n
      <4>2. n \in Indexes
        BY <3>3, <4>1 DEF Indexes
      <4>3. req[u].version[n + 1] \in Hashes
        BY <3>3, <4>1
      <4> QED
        BY <3>2, <4>2, <4>3
    <3>5. DOMAIN rows = Indexes
      BY <2>1 DEF TypeInv, TypeOK, Requests
    <3>6. n \in rowsAfter(rows, loc[u].cursor)
      BY <2>2, <2>4, <3>4, <3>5, StorageAssumption DEF rowsAfter
    <3>7. i <= n
      BY <2>1, <3>6 DEF isNextRow
    <3>8. i = n
      BY <2>2, <2>3, <2>4, <2>5, <3>7
    <3> QED
      BY <3>2, <3>8
  <2>7. Len(loc'[u].list) = n + 1 /\ loc'[u].list[n + 1] = rows[i]
    BY <2>1, <2>2
  <2>8. \A k \in 1 .. n : loc'[u].list[k] = loc[u].list[k]
    BY <2>1, <2>2
  <2> HIDE DEF rows, n, m
  <2>9. i \in Nat /\ (loc[u].cursor \in Nat \/ loc[u].cursor = -1)
    BY <2>2, <2>3
  <2>10. ASSUME NEW k \in 1 .. n + 1, k <= m
         PROVE  loc'[u].list[k] = req'[u].version[k]
    <3>1. CASE k \in 1 .. n
      BY <2>1, <2>4, <2>8, <2>10, <3>1
    <3>2. CASE k = n + 1
      BY <2>1, <2>2, <2>6, <2>7, <2>10, <3>2
    <3> QED
      BY <2>2, <3>1, <3>2
  <2>11. /\ n + 1 <= m => i = n + 1 - 1
         /\ n + 1 > m => i >= m
    BY <2>2, <2>4, <2>5, <2>6, <2>9
  <2>12. loc'[u].recv = m
    BY <2>1 DEF m
  <2>13. \A k \in 1 .. Len(loc'[u].list) :
            k <= loc'[u].recv => loc'[u].list[k] = req'[u].version[k]
    BY <2>7, <2>10, <2>12
  <2>14. /\ Len(loc'[u].list) <= loc'[u].recv => loc'[u].cursor = Len(loc'[u].list) - 1
         /\ Len(loc'[u].list) > loc'[u].recv => loc'[u].cursor >= loc'[u].recv
    <3>1. loc'[u].cursor = i
      BY <2>1
    <3> QED
      BY <2>2, <2>7, <2>9, <2>11, <2>12, <3>1
  <2>15. pc'[u] \notin Storing
    BY <2>1 DEF Storing
  <2> QED
    BY <2>13, <2>14, <2>15
<1>6. CASE UploadFile(u) /\ ~ ListRow(u) /\ ~ StreamEnds(u)
  <2>1. /\ loc'[u].list = loc[u].list /\ loc'[u].cursor = loc[u].cursor
        /\ pc'[u] \in Storing => pc[u] \in Storing
        /\ pc'[u] \in Finishing => pc[u] \in Finishing
    BY <1>6, HandlerLocals, HandlerPhases
  <2>2. pc'[u] \in Finishing => loc'[u].recv = loc[u].recv
    <3>1. InsertChunk(u) => pc'[u] \notin Finishing
      BY DEF InsertChunk, Goto, TypeInv, TypeOK, Finishing, Accepted, Rewriting
    <3> QED
      BY <1>6, <3>1, HandlerLocals
  <2>3. req'[u] = req[u]
    BY <1>6, HandlerStep
  <2> QED
    BY <2>1, <2>2, <2>3 DEF ListFollows
<1> QED
  BY <1>1, <1>2, <1>3, <1>4, <1>5, <1>6, CallSteps

(* Only a list of the announced length gets past ListEnd.                  *)
LEMMA AllListedStep == TypeInv /\ AllListed /\ [Next]_vars => AllListed'
<1> SUFFICES ASSUME TypeInv, AllListed, [Next]_vars, NEW u \in Uploads,
                    pc'[u] \in Accepted
             PROVE  Len(loc'[u].list) = Len(req'[u].version)
  BY DEF AllListed
<1>1. CASE UNCHANGED <<pc[u], req[u], loc[u]>>
  BY <1>1 DEF AllListed
<1>2. CASE ListEnd(u)
  BY <1>2 DEF ListEnd, Listed, Goto, Accepted, Rewriting, TypeInv, TypeOK
<1>3. CASE UploadFile(u) /\ pc[u] \in Accepted
  <2>1. ~ ListRow(u)
    BY <1>3 DEF ListRow, Accepted, Rewriting
  <2> QED
    BY <1>3, <2>1, HandlerStep, HandlerLocals DEF AllListed
<1>4. ~ Begin(u) /\ pc'[u] # "lost"
  BY DEF Begin, Goto, TypeInv, TypeOK, Accepted, Rewriting
<1> QED
  BY <1>1, <1>2, <1>3, <1>4, HandlerPhases, CallSteps

(* Calls that do not overlap keep the rows of a file and the lists of them *)
(* in order.                                                               *)
LEMMA ListInvStep == IndInv /\ FilesApart /\ ListInv /\ [Next]_vars => ListInv'
BY RowsOwnStep, RowsWithinStep, ListFollowsStep, CursorOnRowStep, ListBackedStep,
   AllListedStep DEF ListInv, IndInv

(* No call has listed anything at the start.                               *)
LEMMA InitListInv == Init => ListInv
<1> SUFFICES ASSUME Init PROVE ListInv
  OBVIOUS
<1>1. \A u \in Uploads : pc[u] = "idle" /\ loc[u].list = <<>> /\ loc[u].cursor = -1
  BY DEF Init, NoLocals
<1>2. RowsOwn /\ CursorOnRow /\ AllListed
  BY <1>1 DEF RowsOwn, CursorOnRow, AllListed, Active, Accepted, Rewriting
<1>3. ListFollows
  BY <1>1 DEF ListFollows, Finishing, Accepted, Rewriting
<1>4. ListBacked
  BY <1>1 DEF ListBacked
<1>5. RowsWithin
  BY DEF Init, RowsWithin
<1> QED
  BY <1>2, <1>3, <1>4, <1>5 DEF ListInv
(* An empty chunk file that no call has open or is about to open.          *)
Settled(h) ==
    /\ chunkFiles[h] = <<>>
    /\ \A w \in Uploads : pc[w] \in {"open", "write"} => Current(w) # h

(* Deduplication never repairs it: a later call finds the file and leaves  *)
(* it as it is.                                                            *)
LEMMA SettledStays ==
    ASSUME IndInv, [Next]_vars, NEW h \in Hashes, Settled(h)
    PROVE  Settled(h)'
<1> USE DEF IndInv
<1>1. chunkFiles'[h] = <<>>
  <2>1. ASSUME NEW w \in Uploads, OpenChunk(w) \/ WriteChunk(w) \/ WritePart(w)
        PROVE  chunkFiles'[h] = chunkFiles[h]
    <3>1. Current(w) # h
      BY <2>1 DEF OpenChunk, WriteChunk, WritePart, Settled
    <3> QED
      BY <2>1, <3>1 DEF OpenChunk, WriteChunk, WritePart, TypeInv, TypeOK
  <2>2. UNCHANGED chunkFiles \/ \E w \in Uploads : OpenChunk(w) \/ WriteChunk(w) \/ WritePart(w)
    BY ChunkFileSteps
  <2> QED
    BY <2>1, <2>2 DEF Settled
<1>2. ASSUME NEW w \in Uploads, pc'[w] \in {"open", "write"} PROVE Current(w)' # h
  <2>1. CASE UNCHANGED <<pc[w], req[w], loc[w]>>
    BY <1>2, <2>1 DEF Settled, Current
  <2>2. CASE ChunkExists(w)
    <3>1. chunkFiles[Current(w)] = NoRow /\ UNCHANGED <<req, loc>>
      BY <1>2, <2>2 DEF ChunkExists, Goto, TypeInv, TypeOK
    <3> QED
      BY <3>1, NoBytes DEF Settled, Current
  <2>3. CASE OpenChunk(w) \/ WritePart(w)
    BY <2>3 DEF OpenChunk, WritePart, Settled, Current
  <2>4. CASE UploadFile(w)
    <3>1. ChunkExists(w) \/ OpenChunk(w) \/ WritePart(w)
      BY <1>2, <2>4 DEF UploadFile, ReadMessage, StreamEnds, WriteChunk, InsertChunk,
             ListRow, ListEnd, Listed, CreateFile, SizeChunk, CopyChunk, StatFile,
             HashFile, CommitFile, Respond, Goto, TypeInv, TypeOK
    <3> QED
      BY <2>2, <2>3, <3>1
  <2>5. ~ Begin(w)
    BY <1>2 DEF Begin, Goto, TypeInv, TypeOK
  <2> QED
    BY <1>2, <2>1, <2>4, <2>5, CallSteps
<1> QED
  BY <1>1, <1>2 DEF Settled

(* The reasons for a refusal, the last in the form that persists.          *)
Reason(u) ==
    \/ req[u].version = <<>>
    \/ loc[u].recv < Len(req[u].version)
    \/ \E w \in CallsFor(req[u].client, req[u].path) :
          Len(req[w].version) > Len(req[u].version)
    \/ \E k \in 1 .. Len(req[u].version) : Settled(req[u].version[k])

Refusals == \A u \in Uploads : pc[u] = "finalize_failed" => Reason(u)

(* A reason stays one.                                                     *)
LEMMA ReasonStays ==
    ASSUME IndInv, [Next]_vars, NEW u \in Uploads, req[u] \in Requests, pc[u] # "idle",
           Reason(u), loc'[u].recv = loc[u].recv
    PROVE  Reason(u)'
<1> USE DEF IndInv
<1>1. req'[u] = req[u]
  BY BegunStays
<1>2. ASSUME NEW w \in CallsFor(req[u].client, req[u].path),
             Len(req[w].version) > Len(req[u].version)
      PROVE  Reason(u)'
  <2>1. w \in CallsFor(req[u].client, req[u].path)' /\ req'[w] = req[w]
    BY <1>1, BegunStays DEF CallsFor
  <2> QED
    BY <1>1, <1>2, <2>1 DEF Reason
<1>3. ASSUME NEW k \in 1 .. Len(req[u].version), Settled(req[u].version[k])
      PROVE  Reason(u)'
  <2>1. req[u].version[k] \in Hashes
    BY StorageAssumption DEF Requests
  <2>2. ASSUME NEW h \in Hashes, Settled(h) PROVE Settled(h)'
    BY <2>2, SettledStays
  <2>3. ASSUME NEW h \in Hashes, h = req[u].version[k] PROVE Settled(h)'
    BY <1>3, <2>2, <2>3
  <2> QED
    BY <1>1, <2>1, <2>3 DEF Reason
<1> QED
  BY <1>1, <1>2, <1>3 DEF Reason

(* A list of the wrong length: a row beyond the call's version was sent    *)
(* with a longer one.                                                      *)
LEMMA WrongLength ==
    ASSUME IndInv, ListInv, "db" \notin Faults, NEW u \in Uploads,
           ListEnd(u), Len(loc[u].list) # Len(req[u].version)
    PROVE  Reason(u)
<1> DEFINE c == req[u].client
           p == req[u].path
           rows == chunks[c][p]
           n == Len(req[u].version)
           m == Len(loc[u].list)
           last == loc[u].cursor
<1>1. /\ pc[u] = "list" /\ req[u] \in Requests /\ c \in Clients /\ p \in Paths
      /\ rowsAfter(rows, last) = {} /\ Active(u)
  BY DEF ListEnd, Listed, IndInv, TypeInv, TypeOK, Requests, Active, Answered
<1>2. /\ req[u].version \in Versions /\ req[u].version \in Seq(Hashes) /\ n \in Nat
      /\ loc[u].list \in Seq(Hashes) /\ m \in Nat /\ loc[u].recv \in Nat
      /\ last \in Indexes \cup {-1} /\ loc[u].recv <= n
  BY <1>1, StorageAssumption DEF IndInv, TypeInv, TypeOK, Requests, Locals
<1>3. Indexes \subseteq Nat /\ DOMAIN rows = Indexes
  <2>1. Indexes \subseteq Nat
    BY StorageAssumption DEF Indexes
  <2>2. DOMAIN rows = Indexes
    BY <1>1 DEF IndInv, TypeInv, TypeOK
  <2> QED
    BY <2>1, <2>2
<1>4. CASE loc[u].recv < n
  BY <1>4 DEF Reason
<1>5. CASE loc[u].recv = n
  <2>1. m <= n => last = m - 1
    BY <1>1, <1>5 DEF ListInv, ListFollows, Finishing
  <2>2. m > n => last >= n
    BY <1>1, <1>5 DEF ListInv, ListFollows, Finishing
  <2>3. ~ (m < n)
    <3> SUFFICES ASSUME m < n PROVE FALSE
      OBVIOUS
    <3>1. m \in 0 .. loc[u].recv - 1 /\ m \in 0 .. n - 1 /\ m + 1 \in 1 .. n
      BY <1>2, <1>5, SMTT(60)
    <3>2. rows[m] = req[u].version[m + 1]
      BY <1>1, <3>1 DEF ListInv, RowsOwn
    <3> HIDE DEF m
    <3>3. req[u].version[m + 1] \in Hashes /\ m \in Indexes
      BY <1>2, <3>1 DEF Indexes
    <3>4. m > last
      BY <1>2, <2>1
    <3>5. m \in rowsAfter(rows, last)
      BY <1>3, <3>2, <3>3, <3>4, StorageAssumption DEF rowsAfter
    <3> QED
      BY <1>1, <3>5
  <2>4. m > n
    BY <1>2, <2>3
  <2>5. last \in Indexes /\ last >= n /\ last \in Nat
    <3> HIDE DEF last, n, m
    <3>1. last >= n /\ n \in Nat /\ last \in Indexes \cup {-1}
      BY <1>2, <2>2, <2>4
    <3>2. last # -1
      BY <3>1
    <3> QED
      BY <1>3, <3>1, <3>2
  <2>6. rows[last] # NoRow
    BY <1>1, <2>5 DEF ListInv, CursorOnRow
  <2>7. PICK w \in CallsFor(c, p) : last < Len(req[w].version)
    BY <1>1, <2>5, <2>6 DEF ListInv, RowsWithin
  <2>8. Len(req[w].version) \in Nat
    <3>1. req[w] \in Requests
      BY DEF CallsFor, IndInv, TypeInv, TypeOK
    <3> QED
      BY <3>1, StorageAssumption DEF Requests
  <2>9. Len(req[w].version) > n
    BY <1>2, <2>5, <2>7, <2>8
  <2> QED
    BY <2>9 DEF Reason
<1> QED
  BY <1>2, <1>4, <1>5

(* A chunk without bytes: it is one of the call's version, and no other    *)
(* call is about to write it.                                              *)
LEMMA EmptyChunk ==
    ASSUME IndInv, ListInv, ChunksApart, NEW u \in Uploads, SizeChunk(u),
           chunkFiles[Copied(u)] \in {NoRow, <<>>}
    PROVE  Reason(u)
<1> DEFINE n == Len(req[u].version)
           k == loc[u].copied + 1
<1>1. /\ pc[u] = "copy" /\ req[u] \in Requests /\ loc[u].copied < Len(loc[u].list)
      /\ Active(u)
  BY DEF SizeChunk, IndInv, TypeInv, TypeOK, Active, Answered
<1>2. /\ req[u].version \in Seq(Hashes) /\ n \in Nat /\ loc[u].list \in Seq(Hashes)
      /\ loc[u].recv \in Nat /\ loc[u].copied \in Nat /\ loc[u].recv <= n
  BY <1>1, StorageAssumption DEF IndInv, TypeInv, TypeOK, Requests, Locals
<1>3. Len(loc[u].list) = n
  BY <1>1 DEF ListInv, AllListed, Accepted, Rewriting
<1>4. CASE loc[u].recv < n
  BY <1>4 DEF Reason
<1>5. CASE loc[u].recv = n
  <2>1. k \in 1 .. n /\ k \in 1 .. Len(loc[u].list)
    BY <1>1, <1>2, <1>3
  <2>2. Copied(u) = req[u].version[k]
    BY <1>1, <1>3, <1>5, <2>1 DEF Copied, ListInv, ListFollows, Finishing, Accepted, Rewriting
  <2>3. chunkFiles[Copied(u)] = <<>>
    BY <2>1 DEF Copied, ListInv, ListBacked
  <2>4. ASSUME NEW w \in Uploads, pc[w] \in {"open", "write"} PROVE Current(w) # Copied(u)
    <3>1. w # u /\ Active(w) /\ req[w] \in Requests
      BY <1>1, <2>4 DEF Active, Answered, IndInv, TypeInv, TypeOK
    <3>2. /\ req[w].version \in Seq(Hashes)
          /\ loc[w].recv + 1 \in 1 .. Len(req[w].version)
      <4>1. req[w].version \in Seq(Hashes)
        BY <3>1, StorageAssumption DEF Requests
      <4>2. loc[w].recv \in Nat /\ loc[w].recv < Len(req[w].version)
        BY <2>4 DEF IndInv, TypeInv, TypeOK, Locals
      <4> QED
        BY <4>1, <4>2
    <3>3. Current(w) \in ToSet(req[w].version)
      BY <3>2 DEF Current, ToSet
    <3>4. Copied(u) \in ToSet(req[u].version)
      BY <1>2, <2>1, <2>2 DEF ToSet
    <3> QED
      BY <1>1, <3>1, <3>3, <3>4 DEF ChunksApart
  <2>5. Settled(Copied(u))
    BY <2>3, <2>4 DEF Settled
  <2> QED
    BY <2>1, <2>2, <2>5 DEF Reason
<1> QED
  BY <1>2, <1>4, <1>5

(* Every way into a refusal has its reason.                                *)
LEMMA RefusalsStep ==
    Faults \cap {"open", "read", "db"} = {} /\ IndInv /\ ChunksApart /\ ListInv /\ Refusals
        /\ [Next]_vars => Refusals'
<1> SUFFICES ASSUME Faults \cap {"open", "read", "db"} = {}, IndInv, ChunksApart, ListInv,
                    Refusals, [Next]_vars, NEW u \in Uploads, pc'[u] = "finalize_failed"
             PROVE  Reason(u)'
  BY DEF Refusals
<1>1. CASE UNCHANGED <<pc[u], req[u], loc[u]>>
  <2>1. req[u] \in Requests /\ pc[u] # "idle"
    BY <1>1 DEF IndInv, TypeInv, TypeOK
  <2> QED
    BY <1>1, <2>1, ReasonStays DEF Refusals
<1>2. CASE UploadFile(u)
  <2>1. req[u] \in Requests /\ pc[u] # "idle"
    BY <1>2, HandlerStep DEF IndInv, TypeInv, TypeOK
  <2>2. CASE StreamEnds(u)
    <3>1. loc[u].recv = 0 /\ UNCHANGED loc
      BY <2>2 DEF StreamEnds, Goto, IndInv, TypeInv, TypeOK
    <3>2. req[u].version = <<>> \/ 0 < Len(req[u].version)
      BY <2>1, StorageAssumption DEF Requests
    <3>3. Reason(u)
      BY <3>1, <3>2 DEF Reason
    <3> QED
      BY <2>1, <3>1, <3>3, ReasonStays
  <2>3. CASE ListEnd(u)
    <3>1. Len(loc[u].list) # Len(req[u].version) /\ UNCHANGED loc
      BY <2>3 DEF ListEnd, Listed, Goto, IndInv, TypeInv, TypeOK
    <3>2. Reason(u)
      BY <2>3, <3>1, WrongLength
    <3> QED
      BY <2>1, <3>1, <3>2, ReasonStays
  <2>4. CASE SizeChunk(u)
    <3>1. chunkFiles[Copied(u)] \in {NoRow, <<>>} /\ UNCHANGED loc
      BY <2>4 DEF SizeChunk, Copied, Goto, IndInv, TypeInv, TypeOK
    <3>2. Reason(u)
      BY <2>4, <3>1, EmptyChunk
    <3> QED
      BY <2>1, <3>1, <3>2, ReasonStays
  <2>5. StreamEnds(u) \/ ListEnd(u) \/ SizeChunk(u)
    BY <1>2 DEF UploadFile, ReadMessage, ChunkExists, OpenChunk, WritePart, WriteChunk,
           InsertChunk, ListRow, CreateFile, CopyChunk, StatFile, HashFile, CommitFile,
           Respond, Goto, IndInv, TypeInv, TypeOK
  <2> QED
    BY <2>2, <2>3, <2>4, <2>5
<1>3. ~ Begin(u)
  BY DEF Begin, Goto, IndInv, TypeInv, TypeOK
<1> QED
  BY <1>1, <1>2, <1>3, CallSteps DEF IndInv

(* Where files can be opened, to write and to read, statements succeed and *)
(* calls in progress share neither a file nor a chunk, finalizeFile        *)
(* refuses a call only because the file is empty, a message is missing, a  *)
(* longer version was sent for the file before, or a chunk file was left   *)
(* empty; this holds whatever crashes, short writes, broken streams and    *)
(* wrong payloads come before.                                             *)
THEOREM RefusalsHaveReasons ==
    ASSUME Faults \cap {"open", "read", "db", "overlap", "same_chunk"} = {}
    PROVE  Spec => []RefusedWithReason
<1>1. Init => FilesApart /\ ChunksApart /\ ListInv /\ Refusals
  <2>1. Init => FilesApart /\ ChunksApart /\ Refusals
    BY DEF Init, FilesApart, ChunksApart, Refusals, Active
  <2> QED
    BY <2>1, InitListInv
<1>2. IndInv /\ FilesApart /\ ChunksApart /\ ListInv /\ Refusals /\ [Next]_vars
         => (FilesApart /\ ChunksApart /\ ListInv /\ Refusals)'
  <2>1. /\ "overlap" \notin Faults /\ "same_chunk" \notin Faults
        /\ Faults \cap {"open", "read", "db"} = {}
    OBVIOUS
  <2> QED
    BY <2>1, FilesApartStep, ChunksApartStep, ListInvStep, RefusalsStep DEF IndInv
<1>3. IndInv /\ Refusals => RefusedWithReason
  <2> SUFFICES ASSUME IndInv, Refusals, NEW u \in Uploads, pc[u] = "finalize_failed"
               PROVE  \/ req[u].version = <<>>
                      \/ loc[u].recv < Len(req[u].version)
                      \/ \E w \in CallsFor(req[u].client, req[u].path) :
                            Len(req[w].version) > Len(req[u].version)
                      \/ \E h \in ToSet(req[u].version) : chunkFiles[h] = <<>>
    BY DEF RefusedWithReason
  <2>1. Reason(u)
    BY DEF Refusals
  <2>2. ASSUME NEW k \in 1 .. Len(req[u].version), Settled(req[u].version[k])
        PROVE  \E h \in ToSet(req[u].version) : chunkFiles[h] = <<>>
    <3>1. req[u].version \in Seq(Hashes)
      BY StorageAssumption DEF IndInv, TypeInv, TypeOK, Requests
    <3>2. req[u].version[k] \in ToSet(req[u].version)
      BY <3>1 DEF ToSet
    <3> QED
      BY <2>2, <3>2 DEF Settled
  <2> QED
    BY <2>1, <2>2 DEF Reason
<1> QED
  BY <1>1, <1>2, <1>3, IndInvariant, PTL DEF Spec
-----------------------------------------------------------------------------
(* The bytes of a version, chunk after chunk.                              *)

(* A set of numbers that is not empty has a least one.                     *)
LEMMA LeastNumber ==
    ASSUME NEW T, T \subseteq Nat, T # {}
    PROVE  \E x \in T : \A y \in T : x <= y
<1>1. \E x \in T : \A y \in T : ~ (<<y, x>> \in OpToRel(<, Nat))
  BY NatLessThanWellFounded, WFMin
<1>2. PICK x \in T : \A y \in T : ~ (<<y, x>> \in {ss \in Nat \X Nat : ss[1] < ss[2]})
  BY <1>1 DEF OpToRel
<1>3. ASSUME NEW y \in T PROVE x <= y
  <2>1. y < x => <<y, x>> \in {ss \in Nat \X Nat : ss[1] < ss[2]}
    OBVIOUS
  <2>2. ~ (y < x)
    BY <1>2, <2>1
  <2> QED
    BY <2>2
<1> QED
  BY <1>3

(* A set that has 0, and with each number the next, has all numbers.       *)
LEMMA Induction ==
    ASSUME NEW T, 0 \in T, \A n \in Nat : n \in T => n + 1 \in T
    PROVE  \A n \in Nat : n \in T
<1> SUFFICES ASSUME Nat \ T # {} PROVE FALSE
  OBVIOUS
<1>1. PICK x \in Nat \ T : \A y \in Nat \ T : x <= y
  BY LeastNumber
<1>2. x # 0 /\ x - 1 \in Nat /\ x - 1 \notin Nat \ T
  BY <1>1
<1> QED
  BY <1>1, <1>2

(* The concatenations FlattenSeq goes through.                             *)
Flat(s) == CHOOSE f : f = [i \in 1 .. Len(s) |-> IF i = 1 THEN s[i] ELSE f[i - 1] \o s[i]]

(* FlattenSeq returns the last of them.                                    *)
LEMMA FlattenIs ==
    ASSUME NEW s, Len(s) # 0
    PROVE  FlattenSeq(s) = Flat(s)[Len(s)]
BY DEF FlattenSeq, Flat

(* Their recursive definition has a solution.                              *)
LEMMA FlatDef ==
    ASSUME NEW s, Len(s) \in Nat
    PROVE  Flat(s) = [i \in 1 .. Len(s) |->
                        IF i = 1 THEN s[i] ELSE Flat(s)[i - 1] \o s[i]]
<1> DEFINE Solves(f, k) ==
             f = [i \in 1 .. k |-> IF i = 1 THEN s[i] ELSE f[i - 1] \o s[i]]
           T == {k \in Nat : \E f : Solves(f, k)}
<1>1. 0 \in T
  <2> DEFINE f == [i \in 1 .. 0 |-> i]
  <2>1. Solves(f, 0)
    OBVIOUS
  <2> HIDE DEF Solves, f
  <2> QED
    BY <2>1
<1>2. ASSUME NEW k \in Nat, k \in T PROVE k + 1 \in T
  <2>1. PICK f : Solves(f, k)
    BY <1>2
  <2> DEFINE g == [i \in 1 .. k + 1 |->
                     IF i # k + 1 THEN f[i]
                     ELSE IF i = 1 THEN s[i] ELSE f[i - 1] \o s[i]]
  <2>2. ASSUME NEW i \in 1 .. k + 1
        PROVE  g[i] = IF i = 1 THEN s[i] ELSE g[i - 1] \o s[i]
    <3>1. i # 1 => i - 1 \in 1 .. k + 1 /\ i - 1 # k + 1
      OBVIOUS
    <3>2. i # 1 => g[i - 1] = f[i - 1]
      BY <3>1
    <3>3. CASE i = k + 1
      <4>1. g[i] = IF i = 1 THEN s[i] ELSE f[i - 1] \o s[i]
        BY <3>3
      <4> HIDE DEF g
      <4> QED
        BY <3>2, <4>1
    <3>4. CASE i # k + 1
      <4>1. i \in 1 .. k /\ g[i] = f[i]
        BY <3>4
      <4>2. f[i] = IF i = 1 THEN s[i] ELSE f[i - 1] \o s[i]
        BY <2>1, <4>1
      <4> HIDE DEF g
      <4> QED
        BY <3>2, <4>1, <4>2
    <3> QED
      BY <3>3, <3>4
  <2>3. Solves(g, k + 1)
    BY <2>2
  <2> HIDE DEF g, Solves
  <2> QED
    BY <2>3
<1>3. Len(s) \in T
  <2> HIDE DEF T
  <2> QED
    BY <1>1, <1>2, Induction
<1>4. PICK f : Solves(f, Len(s))
  BY <1>3
<1> QED
  BY <1>4 DEF Flat

Parts(v) == [i \in DOMAIN v |-> Data[v[i]]]

(* The bytes of the first k chunks of a version.                           *)
Upto(v, k) == IF k = 0 THEN <<>> ELSE Flat(Parts(v))[k]

(* One chunk more.                                                         *)
LEMMA UptoNext ==
    ASSUME NEW v \in Seq(Hashes), NEW k \in 0 .. Len(v) - 1, Upto(v, k) \in Seq(Bytes)
    PROVE  Upto(v, k + 1) = Upto(v, k) \o Data[v[k + 1]]
<1>1. /\ Len(Parts(v)) = Len(v) /\ k + 1 \in 1 .. Len(v) /\ k + 1 # 0
      /\ k + 1 - 1 = k /\ v[k + 1] \in Hashes /\ Len(v) \in Nat
  BY DEF Parts
<1>2. Parts(v)[k + 1] = Data[v[k + 1]]
  BY <1>1 DEF Parts
<1>3. Flat(Parts(v)) = [i \in 1 .. Len(v) |->
                          IF i = 1 THEN Parts(v)[i] ELSE Flat(Parts(v))[i - 1] \o Parts(v)[i]]
  BY <1>1, FlatDef
<1>4. \A i \in 1 .. Len(v) : Flat(Parts(v))[i] =
         IF i = 1 THEN Parts(v)[i] ELSE Flat(Parts(v))[i - 1] \o Parts(v)[i]
  BY <1>3, Zenon
<1>5. Flat(Parts(v))[k + 1] =
         IF k + 1 = 1 THEN Data[v[k + 1]] ELSE Flat(Parts(v))[k] \o Data[v[k + 1]]
  BY <1>1, <1>2, <1>4
<1>6. Upto(v, k + 1) = Flat(Parts(v))[k + 1]
  BY <1>1 DEF Upto
<1>7. CASE k = 0
  <2>1. Upto(v, k) = <<>> /\ Data[v[k + 1]] \in Seq(Bytes)
    BY <1>1, <1>7, DataType DEF Upto
  <2>2. <<>> \o Data[v[k + 1]] = Data[v[k + 1]]
    BY <2>1, ConcatEmptySeq
  <2> QED
    BY <1>5, <1>6, <1>7, <2>1, <2>2, SMTT(60)
<1>8. CASE k # 0
  <2>1. k + 1 # 1
    BY <1>8
  <2>2. Upto(v, k) = Flat(Parts(v))[k]
    BY <1>8 DEF Upto
  <2> QED
    BY <1>5, <1>6, <2>1, <2>2
<1> QED
  BY <1>7, <1>8

(* The first chunks of a version are bytes.                                *)
LEMMA UptoType ==
    ASSUME NEW v \in Seq(Hashes), NEW k \in 0 .. Len(v)
    PROVE  Upto(v, k) \in Seq(Bytes)
<1> DEFINE T == {n \in Nat : n <= Len(v) => Upto(v, n) \in Seq(Bytes)}
<1>1. 0 \in T
  BY NoBytes DEF Upto
<1>2. ASSUME NEW n \in Nat, n \in T PROVE n + 1 \in T
  <2> SUFFICES ASSUME n + 1 <= Len(v) PROVE Upto(v, n + 1) \in Seq(Bytes)
    OBVIOUS
  <2>1. n \in 0 .. Len(v) - 1 /\ Upto(v, n) \in Seq(Bytes) /\ v[n + 1] \in Hashes
    BY <1>2
  <2>2. Upto(v, n + 1) = Upto(v, n) \o Data[v[n + 1]]
    BY <2>1, UptoNext
  <2>3. Data[v[n + 1]] \in Seq(Bytes)
    BY <2>1, DataType
  <2> QED
    BY <2>1, <2>2, <2>3, ConcatProperties
<1>3. k \in T
  <2> HIDE DEF T
  <2> QED
    BY <1>1, <1>2, Induction
<1> QED
  BY <1>3

(* All chunks of a version are its content.                                *)
LEMMA UptoAll ==
    ASSUME NEW v \in Seq(Hashes)
    PROVE  Upto(v, Len(v)) = Content(v) /\ Content(v) \in Seq(Bytes)
<1>1. Len(Parts(v)) = Len(v) /\ Len(v) \in Nat
  BY DEF Parts
<1>2. Content(v) = FlattenSeq(Parts(v))
  BY DEF Content, Parts
<1>3. CASE Len(v) = 0
  <2>1. FlattenSeq(Parts(v)) = Parts(v)
    BY <1>1, <1>3 DEF FlattenSeq
  <2>2. Parts(v) = <<>>
    BY <1>3 DEF Parts
  <2> QED
    BY <1>2, <1>3, <2>1, <2>2, NoBytes DEF Upto
<1>4. CASE Len(v) # 0
  <2>1. Content(v) = Flat(Parts(v))[Len(v)]
    BY <1>1, <1>2, <1>4, FlattenIs
  <2>2. Upto(v, Len(v)) \in Seq(Bytes)
    BY <1>1, UptoType
  <2> QED
    BY <1>4, <2>1, <2>2 DEF Upto
<1> QED
  BY <1>3, <1>4
-----------------------------------------------------------------------------
(* Uploads are atomic.                                                     *)

(* A chunk file is empty or complete.                                      *)
WholeChunks == \A h \in Hashes : chunkFiles[h] \in {NoRow, <<>>, Data[h]}

(* The file call u rebuilds.                                               *)
File(u) == disk[req[u].client][req[u].path]

(* A call in finalizeFile has received every message; it starts to copy at *)
(* the first chunk, at the start of the file.                              *)
Complete ==
    \A u \in Uploads :
       /\ pc[u] \in Finishing => loc[u].recv = Len(req[u].version)
       /\ pc[u] \in Storing \cup {"list", "create"} =>
             loc[u].copied = 0 /\ loc[u].offset = 0
       /\ loc[u].good

(* While a call copies, the file holds the chunks copied so far, and its   *)
(* stream is at the end of it.                                             *)
Copying ==
    \A u \in Uploads : pc[u] \in {"copy", "fetch"} =>
       /\ File(u) = Upto(req[u].version, loc[u].copied)
       /\ loc[u].offset = Len(File(u))

(* The chunk a call has asked the size of is complete.                     *)
Fetching ==
    \A u \in Uploads : pc[u] = "fetch" =>
       /\ chunkFiles[Copied(u)] = Data[Copied(u)]
       /\ loc[u].chunk_size = Len(Data[Copied(u)])

(* After the last chunk the file is the version, and so is the record.     *)
Rebuilt ==
    \A u \in Uploads :
       /\ pc[u] \in {"hash", "commit"} =>
             /\ File(u) = Content(req[u].version)
             /\ loc[u].size = Len(Content(req[u].version))
       /\ pc[u] = "commit" =>
             /\ loc[u].rec # NoRow
             /\ loc[u].rec.hash = sha256(Content(req[u].version))
             /\ loc[u].rec.size = Len(Content(req[u].version))
             /\ loc[u].rec.deleted = FALSE

CopyInv == WholeChunks /\ Complete /\ Copying /\ Fetching /\ Rebuilt

(* What a step of the handler does to the locals of finalizeFile.          *)
LEMMA FinalizeLocals ==
    ASSUME TypeInv, NEW u \in Uploads, UploadFile(u)
    PROVE  /\ \/ CopyChunk(u)
              \/ /\ loc'[u].copied = loc[u].copied /\ loc'[u].offset = loc[u].offset
                 /\ loc'[u].good = loc[u].good
           /\ SizeChunk(u) \/ loc'[u].chunk_size = loc[u].chunk_size
           /\ StatFile(u) \/ loc'[u].size = loc[u].size
           /\ HashFile(u) \/ loc'[u].rec = loc[u].rec
<1>1. loc[u] \in Locals /\ DOMAIN loc = Uploads
  BY DEF TypeInv, TypeOK
<1>2. CASE InsertChunk(u)
  BY <1>1, <1>2 DEF InsertChunk, Locals
<1>3. CASE SizeChunk(u)
  BY <1>1, <1>3 DEF SizeChunk, Locals
<1>4. CASE CopyChunk(u)
  <2>1. /\ loc'[u].chunk_size = loc[u].chunk_size /\ loc'[u].size = loc[u].size
        /\ loc'[u].rec = loc[u].rec
    <3> DEFINE bytes == ReadOf(chunkFiles[loc[u].list[loc[u].copied + 1]], loc[u].chunk_size)
    <3>1. PICK out : loc' = [loc EXCEPT ![u].copied = @ + 1,
                                        ![u].offset = @ + Len(out),
                                        ![u].good = @ /\ out = bytes]
      BY <1>4 DEF CopyChunk
    <3> HIDE DEF bytes
    <3> QED
      BY <1>1, <3>1 DEF Locals
  <2> QED
    BY <1>4, <2>1
<1>5. CASE StatFile(u)
  BY <1>1, <1>5 DEF StatFile, Locals
<1>6. CASE HashFile(u)
  <2>1. PICK rec : loc' = [loc EXCEPT ![u].rec = rec]
    BY <1>6 DEF HashFile
  <2> QED
    BY <1>1, <1>6, <2>1 DEF Locals
<1>7. CASE ListRow(u)
  BY <1>1, <1>7 DEF ListRow, Locals
<1>8. CASE UNCHANGED loc
  BY <1>8
<1>9. \/ ListRow(u) \/ InsertChunk(u) \/ SizeChunk(u) \/ CopyChunk(u) \/ StatFile(u)
      \/ HashFile(u) \/ UNCHANGED loc
  BY DEF UploadFile, ReadMessage, StreamEnds, ChunkExists, OpenChunk, WritePart,
         WriteChunk, ListEnd, Listed, CreateFile, CommitFile, Respond
<1> QED
  BY <1>2, <1>3, <1>4, <1>5, <1>6, <1>7, <1>8, <1>9

(* Each step of finalizeFile has one way in.                               *)
LEMMA FinalizePhases ==
    ASSUME TypeInv, NEW u \in Uploads, UploadFile(u)
    PROVE  /\ pc'[u] = "copy" => CreateFile(u) \/ CopyChunk(u)
           /\ pc'[u] = "fetch" => SizeChunk(u) /\ chunkFiles[Copied(u)] \notin {NoRow, <<>>}
           /\ pc'[u] = "hash" => StatFile(u)
           /\ pc'[u] = "commit" => HashFile(u)
           /\ pc'[u] = "respond" => CommitFile(u)
           /\ pc'[u] = "ok" => Respond(u)
           /\ pc'[u] \in {"list", "create"} => pc[u] \in Storing \cup {"list", "create"}
BY ZenonT(60) DEF TypeInv, TypeOK, Goto, Storing, UploadFile, Copied,
       ReadMessage, StreamEnds, ChunkExists, OpenChunk, WritePart, WriteChunk,
       InsertChunk, ListRow, ListEnd, Listed, CreateFile, SizeChunk, CopyChunk,
       StatFile, HashFile, CommitFile, Respond

(* The file of a call in progress is changed by that call only.            *)
LEMMA FileStays ==
    ASSUME IndInv, FilesApart, [Next]_vars, NEW u \in Uploads, Active(u),
           ~ CreateFile(u), ~ CopyChunk(u)
    PROVE  File(u)' = File(u)
<1>1. req'[u] = req[u] /\ pc[u] # "idle"
  BY BegunStays DEF Active, IndInv
<1>2. req[u].client \in Clients /\ req[u].path \in Paths
  BY <1>1 DEF IndInv, TypeInv, TypeOK, Requests
<1>3. ASSUME disk'[req[u].client][req[u].path] # disk[req[u].client][req[u].path]
      PROVE  FALSE
  <2>1. PICK w \in Uploads : /\ req[w].client = req[u].client /\ req[w].path = req[u].path
                             /\ CreateFile(w) \/ CopyChunk(w)
    BY <1>2, <1>3, DiskSteps
  <2>2. Active(w)
    BY <2>1 DEF CreateFile, CopyChunk, Active, Answered
  <2> QED
    BY <2>1, <2>2 DEF FilesApart
<1> QED
  BY <1>1, <1>3 DEF File

(* A write of all bytes over an empty file, or over the same bytes.        *)
LEMMA WriteWhole ==
    ASSUME NEW d \in Seq(Bytes), NEW old \in {<<>>, d}
    PROVE  WriteAt(old, 0, d) = d
<1>1. old \in Seq(Bytes) /\ Len(old) <= Len(d)
  <2>1. CASE old = <<>>
    BY <2>1, NoBytes
  <2>2. CASE old = d
    BY <2>2
  <2> QED
    BY <2>1, <2>2
<1> DEFINE w == WriteAt(old, 0, d)
<1>2. w \in Seq(Bytes)
  BY <1>1, WriteAtType
<1>3. Len(w) = IF d # <<>> /\ 0 + Len(d) > Len(old) THEN 0 + Len(d) ELSE Len(old)
  BY <1>1, WriteAtBytes
<1>4. Len(w) = Len(d)
  BY <1>1, <1>3
<1>5. \A i \in 1 .. Len(w) : w[i] = IF i > 0 /\ i <= 0 + Len(d) THEN d[i - 0]
                                   ELSE IF i <= Len(old) THEN old[i] ELSE Zero
  BY <1>1, WriteAtBytes
<1> HIDE DEF w
<1>6. ASSUME NEW i \in 1 .. Len(d) PROVE w[i] = d[i]
  BY <1>4, <1>5
<1>7. w = d
  BY <1>2, <1>4, <1>6, SeqEqual
<1> QED
  BY <1>7 DEF w

(* A write at the end of a file appends.                                   *)
LEMMA WriteAppends ==
    ASSUME NEW old \in Seq(Bytes), NEW new \in Seq(Bytes)
    PROVE  WriteAt(old, Len(old), new) = old \o new
<1> DEFINE w == WriteAt(old, Len(old), new)
           at == Len(old)
<1>1. w \in Seq(Bytes) /\ at \in Nat
  BY WriteAtType
<1>2. Len(w) = IF at + Len(new) > Len(old) THEN at + Len(new) ELSE Len(old)
  BY WriteAtBytes
<1> HIDE DEF at
<1>3. \A i \in 1 .. Len(WriteAt(old, at, new)) : WriteAt(old, at, new)[i] =
         IF i > at /\ i <= at + Len(new) THEN new[i - at]
         ELSE IF i <= Len(old) THEN old[i] ELSE Zero
  BY <1>1, WriteAtBytes
<1>4. /\ old \o new \in Seq(Bytes) /\ Len(old \o new) = Len(old) + Len(new)
      /\ \A i \in 1 .. Len(old) + Len(new) :
            (old \o new)[i] = IF i <= Len(old) THEN old[i] ELSE new[i - Len(old)]
  BY ConcatProperties
<1>5. Len(w) = Len(old) + Len(new) /\ w = WriteAt(old, at, new)
  BY <1>1, <1>2 DEF at
<1> HIDE DEF w
<1>6. ASSUME NEW i \in 1 .. Len(old) + Len(new) PROVE w[i] = (old \o new)[i]
  BY <1>3, <1>4, <1>5 DEF at
<1>7. w = old \o new
  BY <1>1, <1>4, <1>5, <1>6, SeqEqual
<1> QED
  BY <1>7 DEF w

(* Reading a file of a known length gives the file.                        *)
LEMMA ReadWhole ==
    ASSUME NEW d \in Seq(Bytes)
    PROVE  ReadOf(d, Len(d)) = d
<1>1. ReadOf(d, Len(d)) \in Seq(Bytes) /\ Len(ReadOf(d, Len(d))) = Len(d)
  BY ReadOfType DEF ReadOf
<1>2. \A i \in 1 .. Len(d) : ReadOf(d, Len(d))[i] = d[i]
  BY DEF ReadOf
<1> QED
  BY <1>1, <1>2, SeqEqual
(* The chunk to copy next is that of the call's version.                   *)
LEMMA CopiedIs ==
    ASSUME IndInv, ListInv, Complete, NEW u \in Uploads, pc[u] \in {"copy", "fetch"},
           loc[u].copied < Len(loc[u].list)
    PROVE  /\ req[u].version \in Seq(Hashes)
           /\ loc[u].copied \in 0 .. Len(req[u].version) - 1
           /\ Copied(u) = req[u].version[loc[u].copied + 1]
           /\ Copied(u) \in Hashes /\ Copied(u) \in ToSet(req[u].version)
<1>1. req[u].version \in Seq(Hashes)
  BY StorageAssumption DEF IndInv, TypeInv, TypeOK, Requests
<1>2. loc[u].copied \in Nat /\ loc[u].list \in Seq(Hashes)
  BY DEF IndInv, TypeInv, TypeOK, Locals
<1>3. Len(loc[u].list) = Len(req[u].version) /\ loc[u].recv = Len(req[u].version)
  BY DEF ListInv, AllListed, Complete, Finishing, Accepted, Rewriting
<1>4. /\ loc[u].copied \in 0 .. Len(req[u].version) - 1
      /\ loc[u].copied + 1 \in 1 .. Len(req[u].version)
      /\ loc[u].copied + 1 \in 1 .. Len(loc[u].list)
  BY <1>1, <1>2, <1>3
<1>5. \A k \in 1 .. Len(loc[u].list) :
         k <= loc[u].recv => loc[u].list[k] = req[u].version[k]
  BY DEF ListInv, ListFollows, Finishing, Accepted, Rewriting
<1>6. Copied(u) = req[u].version[loc[u].copied + 1]
  BY <1>1, <1>3, <1>4, <1>5 DEF Copied
<1>7. req[u].version[loc[u].copied + 1] \in ToSet(req[u].version)
  BY <1>1, <1>4 DEF ToSet
<1>8. req[u].version[loc[u].copied + 1] \in Hashes
  BY <1>1, <1>4
<1> QED
  BY <1>1, <1>4, <1>6, <1>7, <1>8

(* Nobody writes the chunk a call copies.                                  *)
LEMMA CopiedAlone ==
    ASSUME IndInv, ListInv, Complete, ChunksApart, NEW u \in Uploads,
           pc[u] \in {"copy", "fetch"}, loc[u].copied < Len(loc[u].list),
           NEW w \in Uploads, pc[w] \in {"open", "write"}
    PROVE  Current(w) # Copied(u)
<1>1. w # u /\ Active(w) /\ Active(u) /\ req[w] \in Requests
  BY DEF Active, Answered, IndInv, TypeInv, TypeOK
<1>2. req[w].version \in Seq(Hashes)
  BY <1>1, StorageAssumption DEF Requests
<1>3. loc[w].recv \in Nat /\ loc[w].recv < Len(req[w].version)
  BY DEF IndInv, TypeInv, TypeOK, Locals
<1>4. Current(w) \in ToSet(req[w].version)
  BY <1>2, <1>3 DEF Current, ToSet
<1> QED
  BY <1>1, <1>4, CopiedIs, ZenonT(60) DEF ChunksApart

(* A write of all the bytes completes the file.                            *)
LEMMA WholeChunksStep ==
    Faults \cap {"short_write", "partial_write", "corrupt"} = {} /\ IndInv /\ WholeChunks
        /\ [Next]_vars => WholeChunks'
<1> SUFFICES ASSUME Faults \cap {"short_write", "partial_write", "corrupt"} = {}, IndInv,
                    WholeChunks, [Next]_vars, NEW h \in Hashes
             PROVE  chunkFiles'[h] \in {NoRow, <<>>, Data[h]}
  BY DEF WholeChunks
<1>1. ASSUME NEW u \in Uploads, OpenChunk(u) PROVE chunkFiles'[h] \in {NoRow, <<>>, Data[h]}
  BY <1>1 DEF OpenChunk, WholeChunks, IndInv, TypeInv, TypeOK
<1>2. ASSUME NEW u \in Uploads, WriteChunk(u) PROVE chunkFiles'[h] \in {NoRow, <<>>, Data[h]}
  <2>1. Current(u) \in Hashes /\ chunkFiles[Current(u)] # NoRow
    BY <1>2, CurrentType DEF WriteChunk, IndInv, TypeInv, Opened
  <2>2. chunkFiles' = [chunkFiles EXCEPT ![Current(u)] = WriteAt(@, 0, Data[Current(u)])]
    <3>1. stream[u].data = Data[Current(u)] /\ stream[u].pos = 0
      BY <1>2 DEF WriteChunk, IndInv, Streaming, Payloads
    <3>2. Rest(u) = Data[Current(u)]
      <4>1. Data[Current(u)] \in Seq(Bytes)
        BY <2>1, DataType
      <4>2. SubSeq(Data[Current(u)], 1, Len(Data[Current(u)])) = Data[Current(u)]
        BY <4>1
      <4> QED
        BY <3>1, <4>2 DEF Rest
    <3>3. Written(Rest(u)) = {Rest(u)}
      BY DEF Written
    <3> QED
      BY <1>2, <3>1, <3>2, <3>3 DEF WriteChunk
  <2>3. chunkFiles[Current(u)] \in {<<>>, Data[Current(u)]}
    BY <2>1 DEF WholeChunks
  <2>4. WriteAt(chunkFiles[Current(u)], 0, Data[Current(u)]) = Data[Current(u)]
    BY <2>1, <2>3, DataType, WriteWhole
  <2> QED
    BY <2>1, <2>2, <2>4 DEF WholeChunks, IndInv, TypeInv, TypeOK
<1>3. UNCHANGED chunkFiles \/ \E u \in Uploads : OpenChunk(u) \/ WriteChunk(u)
  BY DEF Next, UploadFile, vars, persistent, Begin, ReadMessage, StreamEnds,
         ChunkExists, InsertChunk, WritePart, ListRow, ListEnd, Listed, CreateFile,
         SizeChunk, CopyChunk, StatFile, HashFile, CommitFile, Respond,
         DeleteFile, Crash, Tick
<1> QED
  BY <1>1, <1>2, <1>3 DEF WholeChunks

(* The whole of what getChunk returned is written.                         *)
LEMMA CopiedWhole ==
    ASSUME "short_write" \notin Faults, IndInv, Complete, Fetching,
           NEW u \in Uploads, CopyChunk(u)
    PROVE  /\ File(u)' = WriteAt(File(u), loc[u].offset, Data[Copied(u)])
           /\ loc'[u].offset = loc[u].offset + Len(Data[Copied(u)])
           /\ loc'[u].good
<1> DEFINE bytes == ReadOf(chunkFiles[Copied(u)], loc[u].chunk_size)
<1>1. /\ pc[u] = "fetch" /\ Copied(u) \in Hashes /\ UNCHANGED req
      /\ \E out \in Seq(Bytes) :
            /\ out \in IF loc[u].good THEN Written(bytes) ELSE {<<>>}
            /\ disk'[req[u].client][req[u].path] =
                  WriteAt(disk[req[u].client][req[u].path], loc[u].offset, out)
            /\ loc'[u].offset = loc[u].offset + Len(out)
            /\ loc'[u].good = (loc[u].good /\ out = bytes)
  BY ChunkCopied DEF IndInv
<1>2. bytes = Data[Copied(u)]
  BY <1>1, DataType, ReadWhole DEF Fetching
<1>3. loc[u].good
  BY DEF Complete
<1>4. Written(bytes) = {bytes}
  BY DEF Written
<1> HIDE DEF bytes
<1> QED
  BY <1>1, <1>2, <1>3, <1>4 DEF File

(* finalizeFile starts after the last message, from the beginning.         *)
LEMMA CompleteStep ==
    Faults \cap {"broken_stream", "short_write"} = {} /\ IndInv /\ Complete /\ Fetching
        /\ [Next]_vars => Complete'
<1> SUFFICES ASSUME Faults \cap {"broken_stream", "short_write"} = {}, IndInv, Complete,
                    Fetching, [Next]_vars, NEW u \in Uploads
             PROVE  (/\ pc[u] \in Finishing => loc[u].recv = Len(req[u].version)
                     /\ pc[u] \in Storing \cup {"list", "create"} =>
                           loc[u].copied = 0 /\ loc[u].offset = 0
                     /\ loc[u].good)'
  BY DEF Complete
<1>1. CASE UNCHANGED <<pc[u], req[u], loc[u]>>
  BY <1>1 DEF Complete
<1>2. CASE Begin(u)
  BY <1>2 DEF Begin, Goto, IndInv, TypeInv, TypeOK, Complete, Storing, Finishing,
              Accepted, Rewriting
<1>3. CASE pc'[u] = "lost" /\ loc'[u] = NoLocals
  BY <1>3 DEF NoLocals, Storing, Finishing, Accepted, Rewriting
<1>4. CASE UploadFile(u)
  <2>1. TypeInv
    BY DEF IndInv
  <2>2. req'[u] = req[u]
    BY <1>4, <2>1, HandlerStep
  <2>3. pc'[u] \in Finishing => loc'[u].recv = Len(req[u].version)
    <3>1. CASE StreamEnds(u)
      BY <3>1 DEF StreamEnds
    <3>2. InsertChunk(u) => pc'[u] \notin Finishing
      BY DEF InsertChunk, Goto, IndInv, TypeInv, TypeOK, Finishing, Accepted, Rewriting
    <3> QED
      BY <1>4, <2>1, <3>1, <3>2, HandlerPhases, HandlerLocals DEF Complete
  <2>4. CASE CopyChunk(u)
    <3>1. loc'[u].good /\ pc'[u] = "copy"
      BY <2>1, <2>4, CopiedWhole, ChunkCopied DEF IndInv
    <3> QED
      BY <2>2, <2>3, <3>1 DEF Storing
  <2>5. CASE ~ CopyChunk(u)
    <3>1. /\ loc'[u].copied = loc[u].copied /\ loc'[u].offset = loc[u].offset
          /\ loc'[u].good = loc[u].good
      BY <1>4, <2>1, <2>5, FinalizeLocals
    <3>2. pc'[u] \in Storing \cup {"list", "create"} =>
             pc[u] \in Storing \cup {"list", "create"}
      BY <1>4, <2>1, FinalizePhases, HandlerPhases
    <3> QED
      BY <2>2, <2>3, <3>1, <3>2 DEF Complete
  <2> QED
    BY <2>4, <2>5
<1> QED
  BY <1>1, <1>2, <1>3, <1>4, CallSteps DEF IndInv

(* The file grows by one chunk of the version at a time.                   *)
LEMMA CopyingStep ==
    "short_write" \notin Faults /\ IndInv /\ FilesApart /\ ListInv /\ Complete /\ Fetching
        /\ Copying /\ [Next]_vars => Copying'
<1> SUFFICES ASSUME "short_write" \notin Faults, IndInv, FilesApart, ListInv, Complete,
                    Fetching, Copying, [Next]_vars, NEW u \in Uploads,
                    pc'[u] \in {"copy", "fetch"}
             PROVE  /\ File(u)' = Upto(req'[u].version, loc'[u].copied)
                    /\ loc'[u].offset = Len(File(u)')
  BY DEF Copying
<1>0. TypeInv
  BY DEF IndInv
<1>1. CASE UNCHANGED <<pc[u], req[u], loc[u]>>
  <2>1. Active(u) /\ ~ CreateFile(u) /\ ~ CopyChunk(u)
    BY <1>1 DEF Active, Answered, CreateFile, CopyChunk, Goto, IndInv, TypeInv, TypeOK
  <2> QED
    BY <1>1, <2>1, FileStays DEF Copying
<1>2. CASE CreateFile(u)
  <2>1. /\ disk' = [disk EXCEPT ![req[u].client][req[u].path] = <<>>]
        /\ UNCHANGED <<req, loc>> /\ pc[u] = "create"
    BY <1>2 DEF CreateFile, Goto, IndInv, TypeInv, TypeOK
  <2>2. req[u].client \in Clients /\ req[u].path \in Paths
    BY <2>1 DEF IndInv, TypeInv, TypeOK, Requests
  <2>3. File(u)' = <<>>
    BY <2>1, <2>2 DEF File, IndInv, TypeInv, TypeOK
  <2>4. loc[u].copied = 0 /\ loc[u].offset = 0
    BY <2>1 DEF Complete
  <2> QED
    BY <2>1, <2>3, <2>4 DEF Upto
<1>3. CASE CopyChunk(u)
  <2> DEFINE v == req[u].version
             k == loc[u].copied
             d == Data[Copied(u)]
  <2>1. /\ pc[u] = "fetch" /\ UNCHANGED req /\ loc'[u].copied = k + 1
        /\ k < Len(loc[u].list)
    BY <1>0, <1>3, ChunkCopied DEF IndInv
  <2>2. v \in Seq(Hashes) /\ k \in 0 .. Len(v) - 1 /\ Copied(u) = v[k + 1] /\ d \in Seq(Bytes)
    BY <2>1, CopiedIs, DataType
  <2>3. File(u) = Upto(v, k) /\ loc[u].offset = Len(File(u))
    BY <2>1 DEF Copying
  <2>4. Upto(v, k) \in Seq(Bytes)
    <3>1. k \in 0 .. Len(v)
      BY <2>2
    <3> QED
      BY <2>2, <3>1, UptoType
  <2>5. /\ File(u)' = WriteAt(File(u), loc[u].offset, d)
        /\ loc'[u].offset = loc[u].offset + Len(d)
    BY <1>3, CopiedWhole
  <2>6. File(u)' = Upto(v, k) \o d
    BY <2>2, <2>3, <2>4, <2>5, WriteAppends
  <2>7. Upto(v, k + 1) = Upto(v, k) \o d
    BY <2>2, <2>4, UptoNext
  <2>8. Len(Upto(v, k) \o d) = Len(Upto(v, k)) + Len(d)
    BY <2>2, <2>4, ConcatProperties
  <2> HIDE DEF v, k, d
  <2>9. req'[u].version = v
    BY <2>1 DEF v
  <2> QED
    BY <2>1, <2>3, <2>5, <2>6, <2>7, <2>8, <2>9
<1>4. CASE SizeChunk(u)
  <2>1. Active(u) /\ ~ CreateFile(u) /\ ~ CopyChunk(u) /\ pc[u] = "copy" /\ UNCHANGED req
    BY <1>4 DEF SizeChunk, Active, Answered, CreateFile, CopyChunk
  <2>2. File(u)' = File(u)
    BY <2>1, FileStays
  <2>3. loc'[u].copied = loc[u].copied /\ loc'[u].offset = loc[u].offset
    BY <1>0, <1>4, <2>1, FinalizeLocals DEF UploadFile
  <2> QED
    BY <2>1, <2>2, <2>3 DEF Copying
<1>5. CASE UploadFile(u)
  BY <1>0, <1>2, <1>3, <1>4, <1>5, FinalizePhases
<1>6. ~ Begin(u)
  BY <1>0 DEF Begin, Goto, TypeInv, TypeOK
<1> QED
  BY <1>0, <1>1, <1>5, <1>6, CallSteps
(* A chunk of some bytes is complete, and stays so while it is read.       *)
LEMMA FetchingStep ==
    IndInv /\ ListInv /\ ChunksApart /\ WholeChunks /\ Complete /\ Fetching /\ [Next]_vars
        => Fetching'
<1> SUFFICES ASSUME IndInv, ListInv, ChunksApart, WholeChunks, Complete, Fetching,
                    [Next]_vars, NEW u \in Uploads, pc'[u] = "fetch"
             PROVE  /\ chunkFiles'[Copied(u)'] = Data[Copied(u)']
                    /\ loc'[u].chunk_size = Len(Data[Copied(u)'])
  BY DEF Fetching
<1>0. TypeInv
  BY DEF IndInv
<1>1. CASE UNCHANGED <<pc[u], req[u], loc[u]>>
  <2>1. loc[u].copied < Len(loc[u].list) /\ Copied(u)' = Copied(u)
    BY <1>1 DEF IndInv, TypeInv, TypeOK, Copied
  <2>2. Copied(u) \in Hashes
    BY <1>1, <2>1, CopiedIs
  <2>3. ASSUME NEW w \in Uploads, OpenChunk(w) \/ WriteChunk(w) \/ WritePart(w)
        PROVE  chunkFiles'[Copied(u)] = chunkFiles[Copied(u)]
    <3>1. Current(w) # Copied(u)
      BY <1>1, <2>1, <2>3, CopiedAlone DEF OpenChunk, WriteChunk, WritePart
    <3> QED
      BY <2>2, <2>3, <3>1 DEF OpenChunk, WriteChunk, WritePart, TypeInv, IndInv, TypeOK
  <2>4. UNCHANGED chunkFiles \/ \E w \in Uploads : OpenChunk(w) \/ WriteChunk(w) \/ WritePart(w)
    BY ChunkFileSteps
  <2> QED
    BY <1>1, <2>1, <2>3, <2>4 DEF Fetching
<1>2. CASE SizeChunk(u) /\ pc'[u] = "fetch" /\ chunkFiles[Copied(u)] \notin {NoRow, <<>>}
  <2>1. /\ pc[u] = "copy" /\ loc[u].copied < Len(loc[u].list)
        /\ loc' = [loc EXCEPT ![u].chunk_size = Len(chunkFiles[Copied(u)])]
        /\ UNCHANGED chunkFiles
    BY <1>0, <1>2 DEF SizeChunk, Copied, persistent, Goto, TypeInv, TypeOK
  <2>2. Copied(u) \in Hashes
    BY <2>1, CopiedIs
  <2>3. chunkFiles[Copied(u)] = Data[Copied(u)]
    BY <1>2, <2>2 DEF WholeChunks
  <2>4. /\ loc'[u].chunk_size = Len(chunkFiles[Copied(u)])
        /\ loc'[u].copied = loc[u].copied /\ loc'[u].list = loc[u].list
    BY <2>1 DEF IndInv, TypeInv, TypeOK, Locals
  <2>5. Copied(u)' = Copied(u)
    BY <2>4 DEF Copied
  <2> QED
    BY <2>1, <2>3, <2>4, <2>5
<1>3. CASE UploadFile(u)
  BY <1>0, <1>2, <1>3, FinalizePhases
<1>4. ~ Begin(u)
  BY <1>0 DEF Begin, Goto, TypeInv, TypeOK
<1> QED
  BY <1>0, <1>1, <1>3, <1>4, CallSteps

(* With the last chunk the file is complete, and the record is made of it. *)
LEMMA RebuiltStep ==
    "read" \notin Faults /\ IndInv /\ FilesApart /\ ListInv /\ Copying /\ Rebuilt
        /\ [Next]_vars => Rebuilt'
<1> SUFFICES ASSUME "read" \notin Faults, IndInv, FilesApart, ListInv, Copying, Rebuilt, [Next]_vars,
                    NEW u \in Uploads
             PROVE  (/\ pc[u] \in {"hash", "commit"} =>
                           /\ File(u) = Content(req[u].version)
                           /\ loc[u].size = Len(Content(req[u].version))
                     /\ pc[u] = "commit" =>
                           /\ loc[u].rec # NoRow
                           /\ loc[u].rec.hash = sha256(Content(req[u].version))
                           /\ loc[u].rec.size = Len(Content(req[u].version))
                           /\ loc[u].rec.deleted = FALSE)'
  BY DEF Rebuilt
<1>0. TypeInv
  BY DEF IndInv
<1>1. CASE pc'[u] \notin {"hash", "commit"}
  BY <1>1
<1>2. CASE UNCHANGED <<pc[u], req[u], loc[u]>> /\ pc'[u] \in {"hash", "commit"}
  <2>1. Active(u) /\ ~ CreateFile(u) /\ ~ CopyChunk(u)
    BY <1>2 DEF Active, Answered, CreateFile, CopyChunk
  <2>2. File(u)' = File(u)
    BY <2>1, FileStays
  <2> QED
    BY <1>2, <2>2 DEF Rebuilt
<1>3. CASE StatFile(u)
  <2>1. /\ pc[u] = "copy" /\ loc[u].copied = Len(loc[u].list) /\ pc'[u] = "hash"
        /\ UNCHANGED <<req, disk>> /\ req[u] \in Requests
        /\ loc' = [loc EXCEPT ![u].size = Len(disk[req[u].client][req[u].path]),
                              ![u].mtime = clock]
    BY <1>3 DEF StatFile, Goto, persistent, IndInv, TypeInv, TypeOK
  <2>2. loc'[u].size = Len(File(u))
    BY <2>1 DEF File, IndInv, TypeInv, TypeOK, Locals
  <2>3. req[u].version \in Seq(Hashes)
    BY <2>1, StorageAssumption DEF Requests
  <2>4. loc[u].copied = Len(req[u].version)
    BY <2>1 DEF ListInv, AllListed, Accepted, Rewriting
  <2>5. File(u) = Content(req[u].version)
    BY <2>1, <2>3, <2>4, UptoAll DEF Copying
  <2>6. File(u)' = File(u)
    BY <2>1 DEF File
  <2> QED
    BY <2>1, <2>2, <2>5, <2>6
<1>4. CASE HashFile(u)
  <2>1. pc[u] = "hash" /\ UNCHANGED <<req, disk>> /\ File(u)' = File(u)
    BY <1>4 DEF HashFile, persistent, File
  <2>2. PICK t \in Uninit :
           loc' = [loc EXCEPT ![u].rec =
                    [size |-> loc[u].size,
                     modified_time |-> loc[u].mtime,
                     hash |-> sha256(File(u)),
                     version |-> 1,
                     deleted |-> FALSE,
                     last_sync_time |-> t]]
    BY <1>4 DEF HashFile, File
  <2>3. /\ loc'[u].size = loc[u].size /\ loc'[u].rec.size = loc[u].size
        /\ loc'[u].rec.hash = sha256(File(u)) /\ loc'[u].rec.deleted = FALSE
    BY <2>2 DEF IndInv, TypeInv, TypeOK, Locals
  <2>4. loc'[u].rec # NoRow
    <3> DEFINE rec == [size |-> loc[u].size,
                       modified_time |-> loc[u].mtime,
                       hash |-> sha256(File(u)),
                       version |-> 1,
                       deleted |-> FALSE,
                       last_sync_time |-> t]
    <3>1. File(u) \in Seq(Bytes) /\ loc[u].size \in Nat /\ loc[u].mtime \in 0 .. MaxTime
      BY <2>1 DEF File, IndInv, TypeInv, TypeOK, Requests, Locals
    <3>2. rec \in FileRecords
      BY <3>1 DEF FileRecords, Digests, sha256
    <3>3. loc'[u].rec = rec
      BY <2>2 DEF IndInv, TypeInv, TypeOK, Locals
    <3> HIDE DEF rec
    <3> QED
      BY <3>2, <3>3, RowAssumption
  <2> QED
    BY <2>1, <2>3, <2>4 DEF Rebuilt
<1>5. CASE UploadFile(u)
  BY <1>0, <1>1, <1>3, <1>4, <1>5, FinalizePhases
<1>6. CASE Begin(u) \/ pc'[u] = "lost"
  BY <1>0, <1>1, <1>6 DEF Begin, Goto, TypeInv, TypeOK
<1> QED
  BY <1>0, <1>1, <1>2, <1>5, <1>6, CallSteps
(* The refinement mapping.                                                 *)
MapStatus == [u \in Uploads |-> StatusOf(pc[u])]
MapStored == [c \in Clients |-> [p \in Paths |-> Shown(files[c][p])]]

(* What a record shows is never mistaken for no record.                    *)
LEMMA ShownType ==
    ASSUME NEW row \in FileRecords
    PROVE  /\ Shown(row) = [image |-> [hash |-> row.hash, size |-> row.size],
                            deleted |-> row.deleted]
           /\ Shown(row) # NoRow
<1>1. row # NoRow
  BY RowAssumption
<1>2. Shown(row) = [image |-> [hash |-> row.hash, size |-> row.size],
                    deleted |-> row.deleted]
  BY <1>1 DEF Shown
<1>3. row.hash \in Digests /\ row.size \in Nat /\ row.deleted \in BOOLEAN
  BY DEF FileRecords
<1>4. Shown(row) \in ShownFiles
  BY <1>2, <1>3 DEF ShownFiles
<1> QED
  BY <1>2, <1>4, RowAssumption

(* The store starts without files and without calls.                       *)
LEMMA InitStore == Init => Store!Init
<1> SUFFICES ASSUME Init PROVE Store!Init
  OBVIOUS
<1>1. MapStatus = [u \in Uploads |-> "idle"]
  BY DEF Init, MapStatus, StatusOf
<1>2. MapStored = [c \in Clients |-> [p \in Paths |-> NoRow]]
  BY DEF Init, MapStored, Shown
<1>3. req = [u \in Uploads |-> NoRow]
  BY DEF Init
<1> QED
  BY <1>1, <1>2, <1>3 DEF Store!Init, MapStatus, MapStored

(* A step that leaves what the store shows.                                *)
LEMMA SameStore ==
    ASSUME UNCHANGED files
    PROVE  MapStored' = MapStored
BY DEF MapStored

(* A step that moves one call to another label.                            *)
LEMMA StatusStep ==
    ASSUME TypeInv, NEW u \in Uploads, NEW label, pc' = [pc EXCEPT ![u] = label]
    PROVE  /\ MapStatus' = [MapStatus EXCEPT ![u] = StatusOf(label)]
           /\ MapStatus[u] = StatusOf(pc[u])
<1>1. \A w \in Uploads : pc'[w] = IF w = u THEN label ELSE pc[w]
  BY DEF TypeInv, TypeOK
<1>2. MapStatus' = [w \in Uploads |-> StatusOf(pc'[w])]
  BY DEF MapStatus
<1>3. [MapStatus EXCEPT ![u] = StatusOf(label)] =
         [w \in Uploads |-> IF w = u THEN StatusOf(label) ELSE StatusOf(pc[w])]
  BY DEF MapStatus
<1>4. \A w \in Uploads : StatusOf(pc'[w]) = IF w = u THEN StatusOf(label) ELSE StatusOf(pc[w])
  BY <1>1
<1>5. MapStatus' = [MapStatus EXCEPT ![u] = StatusOf(label)]
  BY <1>2, <1>3, <1>4, Zenon
<1>6. MapStatus[u] = StatusOf(pc[u])
  BY DEF MapStatus
<1> QED
  BY <1>5, <1>6

(* The statuses of the labels.                                             *)
LEMMA Statuses ==
    /\ StatusOf("idle") = "idle" /\ StatusOf("respond") = "committed"
    /\ StatusOf("ok") = "acknowledged" /\ StatusOf("lost") = "lost"
    /\ StatusOf("store_failed") = "rejected" /\ StatusOf("finalize_failed") = "rejected"
    /\ \A label \in {"read", "store", "open", "write", "insert", "list", "create",
                     "copy", "fetch", "hash", "commit"} : StatusOf(label) = "running"
BY DEF StatusOf
Running == {"read", "store", "open", "write", "insert", "list", "create", "copy",
            "fetch", "hash", "commit"}

(* Before its answer a call shows nothing but its INSERT.                  *)
LEMMA HandlerShows ==
    ASSUME TypeInv, NEW u \in Uploads, UploadFile(u)
    PROVE  /\ UNCHANGED req
           /\ \/ /\ pc[u] \in Running /\ UNCHANGED files
                 /\ \E label \in Running \cup {"store_failed", "finalize_failed"} :
                       pc' = [pc EXCEPT ![u] = label]
              \/ /\ CommitFile(u) /\ pc[u] = "commit"
                 /\ pc' = [pc EXCEPT ![u] = "respond"]
                 /\ files' = [files EXCEPT ![req[u].client] =
                                insertOrUpdateFile(@, req[u].path, loc[u].rec)]
              \/ /\ pc[u] = "respond" /\ UNCHANGED files
                 /\ pc' = [pc EXCEPT ![u] = "ok"]
<1>1. UNCHANGED req
  BY HandlerStep
<1>2. CASE WritePart(u) \/ ListRow(u)
  <2>1. pc[u] \in Running /\ UNCHANGED <<files, pc>>
    BY <1>2 DEF WritePart, ListRow, persistent, Running
  <2>2. pc' = [pc EXCEPT ![u] = pc[u]]
    BY <2>1 DEF TypeInv, TypeOK
  <2> QED
    BY <1>1, <2>1, <2>2
<1>3. CASE Respond(u)
  BY <1>1, <1>3 DEF Respond, Goto, persistent
<1>4. CASE CommitFile(u)
  BY <1>1, <1>4 DEF CommitFile, Goto, Running
<1>5. CASE \/ ReadMessage(u) \/ StreamEnds(u) \/ ChunkExists(u) \/ OpenChunk(u)
           \/ WriteChunk(u) \/ InsertChunk(u) \/ ListEnd(u) \/ CreateFile(u)
           \/ SizeChunk(u) \/ CopyChunk(u) \/ StatFile(u) \/ HashFile(u)
  <2>1. pc[u] \in Running /\ UNCHANGED files
    BY <1>5 DEF ReadMessage, StreamEnds, ChunkExists, OpenChunk, WriteChunk, InsertChunk,
           ListEnd, Listed, CreateFile, SizeChunk, CopyChunk, StatFile, HashFile,
           persistent, Running
  <2>2. \E label \in Running \cup {"store_failed", "finalize_failed"} :
           pc' = [pc EXCEPT ![u] = label]
    BY <1>5 DEF ReadMessage, StreamEnds, ChunkExists, OpenChunk, WriteChunk, InsertChunk,
           ListEnd, Listed, CreateFile, SizeChunk, CopyChunk, StatFile, HashFile,
           Goto, Running
  <2> QED
    BY <1>1, <2>1, <2>2
<1> QED
  BY <1>2, <1>3, <1>4, <1>5 DEF UploadFile

(* The INSERT of a call shows the version the call was sent.               *)
LEMMA CommitShows ==
    ASSUME IndInv, Rebuilt, NEW u \in Uploads, CommitFile(u), pc[u] = "commit",
           files' = [files EXCEPT ![req[u].client] =
                       insertOrUpdateFile(@, req[u].path, loc[u].rec)]
    PROVE  MapStored' = [MapStored EXCEPT ![req[u].client][req[u].path] =
                           [image |-> FileImage(req[u].version), deleted |-> FALSE]]
<1> DEFINE c == req[u].client
           p == req[u].path
           row == loc[u].rec
           new == [image |-> FileImage(req[u].version), deleted |-> FALSE]
<1>1. c \in Clients /\ p \in Paths
  BY DEF IndInv, TypeInv, TypeOK, Requests
<1>2. row \in FileRecords
  BY DEF IndInv, TypeInv, TypeOK, Locals, Rebuilt
<1>3. /\ row.hash = sha256(Content(req[u].version))
      /\ row.size = Len(Content(req[u].version)) /\ row.deleted = FALSE
  BY DEF Rebuilt
<1>4. Shown(row) = new
  BY <1>2, <1>3, ShownType DEF FileImage
<1>5. \A d \in Clients, q \in Paths : files'[d][q] = IF d = c /\ q = p THEN row ELSE files[d][q]
  BY <1>1 DEF insertOrUpdateFile, IndInv, TypeInv, TypeOK
<1> HIDE DEF c, p, row, new
<1>6. \A d \in Clients, q \in Paths :
         Shown(files'[d][q]) = IF d = c /\ q = p THEN new ELSE Shown(files[d][q])
  BY <1>4, <1>5
<1>7. MapStored' = [d \in Clients |-> [q \in Paths |->
                      IF d = c /\ q = p THEN new ELSE Shown(files[d][q])]]
  BY <1>6 DEF MapStored
<1>8. [MapStored EXCEPT ![c][p] = new] = [d \in Clients |-> [q \in Paths |->
                      IF d = c /\ q = p THEN new ELSE Shown(files[d][q])]]
  BY <1>1 DEF MapStored
<1> QED
  BY <1>7, <1>8 DEF c, p, new

(* Marking a row shows a deleted file.                                     *)
LEMMA DeleteShows ==
    ASSUME TypeInv, NEW c \in Clients, NEW p \in Paths, DeleteFile(c, p),
           files[c][p] # NoRow
    PROVE  /\ MapStored[c][p] # NoRow
           /\ MapStored' = [MapStored EXCEPT ![c][p].deleted = TRUE]
<1> DEFINE row == files[c][p]
           new == [row EXCEPT !.deleted = TRUE]
<1>1. row \in FileRecords
  BY DEF TypeInv, TypeOK
<1>2. new \in FileRecords /\ new.hash = row.hash /\ new.size = row.size /\ new.deleted = TRUE
  BY <1>1 DEF FileRecords
<1>3. \A d \in Clients, q \in Paths : files'[d][q] = IF d = c /\ q = p THEN new ELSE files[d][q]
  BY DEF DeleteFile, markDeleted, TypeInv, TypeOK
<1>4. MapStored[c][p] = Shown(row) /\ MapStored[c][p] # NoRow
  BY <1>1, ShownType DEF MapStored
<1> HIDE DEF row, new
<1>5. Shown(new) = [Shown(row) EXCEPT !.deleted = TRUE]
  BY <1>1, <1>2, ShownType
<1>6. \A d \in Clients, q \in Paths :
         Shown(files'[d][q]) = IF d = c /\ q = p THEN Shown(new) ELSE Shown(files[d][q])
  BY <1>3
<1>7. MapStored' = [d \in Clients |-> [q \in Paths |->
                      IF d = c /\ q = p THEN Shown(new) ELSE Shown(files[d][q])]]
  BY <1>6 DEF MapStored
<1>8. [MapStored EXCEPT ![c][p].deleted = TRUE] = [d \in Clients |-> [q \in Paths |->
                      IF d = c /\ q = p THEN Shown(new) ELSE Shown(files[d][q])]]
  BY <1>5 DEF MapStored, row
<1> QED
  BY <1>4, <1>7, <1>8
(* A call that begins, in the store.                                       *)
LEMMA StoreBegin ==
    ASSUME TypeInv, NEW u \in Uploads, Begin(u)
    PROVE  Store!Begin(u)
<1>1. /\ pc[u] = "idle" /\ pc' = [pc EXCEPT ![u] = "read"] /\ UNCHANGED files
      /\ \E r \in Requests : req' = [req EXCEPT ![u] = r]
  BY DEF Begin, Goto, persistent
<1>2. MapStatus[u] = "idle" /\ MapStatus' = [MapStatus EXCEPT ![u] = "running"]
  <2>1. MapStatus[u] = StatusOf(pc[u]) /\ MapStatus' = [MapStatus EXCEPT ![u] = StatusOf("read")]
    BY <1>1, StatusStep, Zenon
  <2>2. StatusOf(pc[u]) = "idle" /\ StatusOf("read") = "running"
    BY <1>1, Statuses
  <2> QED
    BY <2>1, <2>2
<1>3. MapStored' = MapStored
  BY <1>1, SameStore
<1> QED
  BY <1>1, <1>2, <1>3 DEF Store!Begin, MapStatus, MapStored, Requests

(* Each step of the handler is a step of the store or none.                *)
LEMMA StoreHandler ==
    ASSUME IndInv, Rebuilt, NEW u \in Uploads, UploadFile(u)
    PROVE  Store!Commit(u) \/ Store!Acknowledge(u) \/ Store!Reject(u) \/ UNCHANGED Store!vars
<1>0. TypeInv
  BY DEF IndInv
<1>1. ASSUME pc[u] \in Running, UNCHANGED <<files, req>>,
             NEW label \in Running, pc' = [pc EXCEPT ![u] = label]
      PROVE  UNCHANGED Store!vars
  <2>1. MapStatus[u] = "running" /\ MapStatus' = [MapStatus EXCEPT ![u] = "running"]
    <3>1. MapStatus[u] = StatusOf(pc[u]) /\ MapStatus' = [MapStatus EXCEPT ![u] = StatusOf(label)]
      BY <1>0, <1>1, StatusStep, Zenon
    <3>2. StatusOf(pc[u]) = "running" /\ StatusOf(label) = "running"
      BY <1>0, <1>1, Statuses DEF Running
    <3> QED
      BY <3>1, <3>2
  <2>2. MapStatus' = MapStatus
    BY <2>1 DEF MapStatus
  <2>3. MapStored' = MapStored
    BY <1>1, SameStore
  <2> QED
    BY <1>1, <2>2, <2>3 DEF Store!vars, MapStatus, MapStored
<1>2. ASSUME pc[u] \in Running, UNCHANGED <<files, req>>,
             NEW label \in {"store_failed", "finalize_failed"},
             pc' = [pc EXCEPT ![u] = label]
      PROVE  Store!Reject(u)
  <2>1. MapStatus[u] = "running" /\ MapStatus' = [MapStatus EXCEPT ![u] = "rejected"]
    <3>1. MapStatus[u] = StatusOf(pc[u]) /\ MapStatus' = [MapStatus EXCEPT ![u] = StatusOf(label)]
      BY <1>0, <1>2, StatusStep, Zenon
    <3>2. StatusOf(pc[u]) = "running" /\ StatusOf(label) = "rejected"
      BY <1>0, <1>2, Statuses DEF Running
    <3> QED
      BY <3>1, <3>2
  <2>2. MapStored' = MapStored
    BY <1>2, SameStore
  <2> QED
    BY <1>2, <2>1, <2>2 DEF Store!Reject, MapStatus, MapStored
<1>3. ASSUME CommitFile(u), pc[u] = "commit", UNCHANGED req,
             pc' = [pc EXCEPT ![u] = "respond"],
             files' = [files EXCEPT ![req[u].client] =
                         insertOrUpdateFile(@, req[u].path, loc[u].rec)]
      PROVE  Store!Commit(u)
  <2>1. MapStatus[u] = "running" /\ MapStatus' = [MapStatus EXCEPT ![u] = "committed"]
    <3>1. MapStatus[u] = StatusOf(pc[u]) /\ MapStatus' = [MapStatus EXCEPT ![u] = StatusOf("respond")]
      BY <1>0, <1>3, StatusStep, Zenon
    <3>2. StatusOf(pc[u]) = "running" /\ StatusOf("respond") = "committed"
      BY <1>0, <1>3, Statuses
    <3> QED
      BY <3>1, <3>2
  <2>2. MapStored' = [MapStored EXCEPT ![req[u].client][req[u].path] =
                        [image |-> FileImage(req[u].version), deleted |-> FALSE]]
    BY <1>3, CommitShows
  <2> QED
    BY <1>3, <2>1, <2>2 DEF Store!Commit, MapStatus, MapStored
<1>4. ASSUME pc[u] = "respond", UNCHANGED <<files, req>>, pc' = [pc EXCEPT ![u] = "ok"]
      PROVE  Store!Acknowledge(u)
  <2>1. MapStatus[u] = "committed" /\ MapStatus' = [MapStatus EXCEPT ![u] = "acknowledged"]
    <3>1. MapStatus[u] = StatusOf(pc[u]) /\ MapStatus' = [MapStatus EXCEPT ![u] = StatusOf("ok")]
      BY <1>0, <1>4, StatusStep, Zenon
    <3>2. StatusOf(pc[u]) = "committed" /\ StatusOf("ok") = "acknowledged"
      BY <1>0, <1>4, Statuses
    <3> QED
      BY <3>1, <3>2
  <2>2. MapStored' = MapStored
    BY <1>4, SameStore
  <2> QED
    BY <1>4, <2>1, <2>2 DEF Store!Acknowledge, MapStatus, MapStored
<1>5. UNCHANGED req
  BY <1>0, HandlerShows
<1>6. CASE /\ pc[u] \in Running /\ UNCHANGED files
           /\ \E label \in Running \cup {"store_failed", "finalize_failed"} :
                 pc' = [pc EXCEPT ![u] = label]
  BY <1>1, <1>2, <1>5, <1>6
<1>7. CASE /\ CommitFile(u) /\ pc[u] = "commit" /\ pc' = [pc EXCEPT ![u] = "respond"]
           /\ files' = [files EXCEPT ![req[u].client] =
                          insertOrUpdateFile(@, req[u].path, loc[u].rec)]
  BY <1>3, <1>5, <1>7
<1>8. CASE pc[u] = "respond" /\ UNCHANGED files /\ pc' = [pc EXCEPT ![u] = "ok"]
  BY <1>4, <1>5, <1>8
<1> QED
  BY <1>0, <1>6, <1>7, <1>8, HandlerShows

(* A crash takes the answers of the calls in progress, nothing else.       *)
LEMMA StoreCrash ==
    ASSUME TypeInv, Crash
    PROVE  Store!LoseAnswers
<1>1. UNCHANGED <<files, req>>
  BY DEF Crash, persistent
<1>2. ASSUME NEW u \in Uploads
      PROVE  StatusOf(pc'[u]) = IF MapStatus[u] \in {"running", "committed"}
                                THEN "lost" ELSE MapStatus[u]
  <2>1. pc[u] \in Labels /\ pc'[u] = IF Active(u) THEN "lost" ELSE pc[u]
    BY DEF Crash, TypeInv, TypeOK
  <2>2. MapStatus[u] = StatusOf(pc[u])
    BY DEF MapStatus
  <2>3. CASE Active(u)
    <3>1. pc[u] \in Running \cup {"respond"}
      BY <2>1, <2>3 DEF Active, Labels, Answered, Running
    <3>2. StatusOf(pc[u]) \in {"running", "committed"}
      BY <3>1, Statuses DEF Running
    <3> QED
      BY <2>1, <2>2, <2>3, <3>2, Statuses
  <2>4. CASE ~ Active(u)
    <3>1. pc[u] \in Answered \cup {"idle"}
      BY <2>4 DEF Active
    <3>2. StatusOf(pc[u]) \notin {"running", "committed"}
      BY <3>1, Statuses DEF Answered
    <3> QED
      BY <2>1, <2>2, <2>4, <3>2
  <2> QED
    BY <2>3, <2>4
<1>3. MapStatus' = [u \in Uploads |-> IF MapStatus[u] \in {"running", "committed"}
                                      THEN "lost" ELSE MapStatus[u]]
  BY <1>2 DEF MapStatus
<1>4. MapStored' = MapStored
  BY <1>1, SameStore
<1> QED
  BY <1>1, <1>3, <1>4 DEF Store!LoseAnswers, MapStatus, MapStored

(* Deleting a file that has a row; without one nothing happens.            *)
LEMMA StoreDelete ==
    ASSUME TypeInv, NEW c \in Clients, NEW p \in Paths, DeleteFile(c, p)
    PROVE  Store!Delete(c, p) \/ UNCHANGED Store!vars
<1>1. UNCHANGED <<pc, req>>
  BY DEF DeleteFile
<1>2. MapStatus' = MapStatus
  BY <1>1 DEF MapStatus
<1>3. CASE files[c][p] # NoRow
  <2>1. MapStored[c][p] # NoRow /\ MapStored' = [MapStored EXCEPT ![c][p].deleted = TRUE]
    BY <1>3, DeleteShows
  <2> QED
    BY <1>1, <1>2, <2>1 DEF Store!Delete, MapStatus, MapStored
<1>4. CASE files[c][p] = NoRow
  <2>1. UNCHANGED files
    BY <1>4 DEF DeleteFile, markDeleted, TypeInv, TypeOK
  <2>2. MapStored' = MapStored
    BY <2>1, SameStore
  <2> QED
    BY <1>1, <1>2, <2>2 DEF Store!vars, MapStatus, MapStored
<1> QED
  BY <1>3, <1>4

(* Every step of the server is a step of the store or none.                *)
LEMMA StoreStep == IndInv /\ Rebuilt /\ [Next]_vars => [Store!Next]_(Store!vars)
<1> SUFFICES ASSUME IndInv, Rebuilt, [Next]_vars PROVE Store!Next \/ UNCHANGED Store!vars
  OBVIOUS
<1>0. TypeInv
  BY DEF IndInv
<1>1. ASSUME NEW u \in Uploads, Begin(u) PROVE Store!Next
  BY <1>0, <1>1, StoreBegin DEF Store!Next
<1>2. ASSUME NEW u \in Uploads, UploadFile(u) PROVE Store!Next \/ UNCHANGED Store!vars
  BY <1>2, StoreHandler DEF Store!Next
<1>3. ASSUME NEW c \in Clients, NEW p \in Paths, DeleteFile(c, p)
      PROVE  Store!Next \/ UNCHANGED Store!vars
  BY <1>0, <1>3, StoreDelete DEF Store!Next
<1>4. CASE Crash
  BY <1>0, <1>4, StoreCrash DEF Store!Next
<1>5. CASE Tick \/ UNCHANGED vars
  <2>1. UNCHANGED <<files, req, pc>>
    BY <1>5 DEF Tick, vars, persistent
  <2>2. MapStored' = MapStored /\ MapStatus' = MapStatus
    BY <2>1, SameStore DEF MapStatus
  <2> QED
    BY <2>1, <2>2 DEF Store!vars, MapStatus, MapStored
<1> QED
  BY <1>1, <1>2, <1>3, <1>4, <1>5 DEF Next

(* As long as no file is half written, no stream breaks unnoticed, every   *)
(* message carries the bytes its hash names, and calls in progress share   *)
(* neither a file nor a chunk, the upload path implements the abstract     *)
(* store: an upload takes effect in the step of its INSERT, with exactly   *)
(* the version that was sent, or not at all.  Crashes at any step, files   *)
(* that cannot be opened for writing and failing statements are allowed.   *)
THEOREM UploadsAtomic ==
    ASSUME Faults \subseteq {"crash", "open", "db"}
    PROVE  Spec => AtomicUploads
<1> DEFINE Inv == FilesApart /\ ChunksApart /\ ListInv /\ CopyInv
<1>1. Init => Inv
  <2> SUFFICES ASSUME Init PROVE Inv
    OBVIOUS
  <2>1. \A u \in Uploads : pc[u] = "idle" /\ loc[u] = NoLocals
    BY DEF Init
  <2>2. FilesApart /\ ChunksApart
    BY <2>1 DEF FilesApart, ChunksApart, Active
  <2>3. WholeChunks
    BY DEF Init, WholeChunks
  <2>4. Complete
    BY <2>1 DEF Complete, NoLocals, Finishing, Accepted, Rewriting
  <2>5. Copying /\ Fetching /\ Rebuilt
    BY <2>1 DEF Copying, Fetching, Rebuilt
  <2> QED
    BY <2>2, <2>3, <2>4, <2>5, InitListInv DEF CopyInv
<1>2. IndInv /\ Inv /\ [Next]_vars => Inv'
  <2>1. /\ "overlap" \notin Faults /\ "same_chunk" \notin Faults
        /\ "short_write" \notin Faults /\ "read" \notin Faults
        /\ Faults \cap {"short_write", "partial_write", "corrupt"} = {}
        /\ Faults \cap {"broken_stream", "short_write"} = {}
    OBVIOUS
  <2>2. IndInv => TypeInv
    BY DEF IndInv
  <2> SUFFICES ASSUME IndInv, FilesApart, ChunksApart, ListInv, CopyInv, [Next]_vars
               PROVE  Inv'
    OBVIOUS
  <2>3. FilesApart' /\ ChunksApart' /\ ListInv'
    BY <2>1, <2>2, FilesApartStep, ChunksApartStep, ListInvStep
  <2>4. WholeChunks' /\ Complete' /\ Copying' /\ Fetching' /\ Rebuilt'
    BY <2>1, WholeChunksStep, CompleteStep, CopyingStep, FetchingStep, RebuiltStep
       DEF CopyInv
  <2> QED
    BY <2>3, <2>4 DEF CopyInv
<1>3. IndInv /\ Inv /\ [Next]_vars => [Store!Next]_(Store!vars)
  BY StoreStep DEF CopyInv
<1> HIDE DEF Inv
<1> QED
  BY <1>1, <1>2, <1>3, IndInvariant, InitStore, PTL DEF Spec, AtomicUploads, Store!Spec
=============================================================================
