----------------------------- MODULE MetadataDB -----------------------------
(***************************************************************************)
(* The statements MetadataDB (src/core/metadata_db.cpp) runs against one   *)
(* client's SQLite database, as operators on the two tables it keeps.      *)
(* SQLite serialises the statements of one connection, so each statement   *)
(* that writes is one step; a SELECT is fetched row by row through         *)
(* sqlite3_step, so other statements of the same connection may run        *)
(* between two rows.                                                       *)
(*                                                                         *)
(*   files   path -> row or NoRow       (PRIMARY KEY path)                 *)
(*   chunks  path -> index -> hash or NoRow                                *)
(*                                      (PRIMARY KEY file_path, index)     *)
(*                                                                         *)
(* The offset and size columns of chunks are left out: storeChunk always   *)
(* writes offset 0 and no statement reads either of them.  is_directory is *)
(* FALSE in every row the code writes.                                     *)
(***************************************************************************)
EXTENDS Integers

CONSTANT NoRow      \* a key without a row

(* Mutant: INSERT OR IGNORE, a row that exists is kept.                    *)
insertOnly(files, path, row) ==
    IF files[path] = NoRow THEN [files EXCEPT ![path] = row] ELSE files

(* INSERT OR REPLACE INTO files: the row replaces the one with its path.   *)
insertOrUpdateFile(files, path, row) == [files EXCEPT ![path] = row]

(* SELECT * FROM files WHERE path = ?: the row, deleted or not, or NoRow.  *)
getFile(files, path) == files[path]

(* SELECT * FROM files WHERE deleted = 0.                                  *)
getAllFiles(files) ==
    [p \in DOMAIN files |-> IF files[p] = NoRow THEN NoRow
                            ELSE IF files[p].deleted THEN NoRow ELSE files[p]]

(* UPDATE files SET deleted = 1 WHERE path = ?: no row is not an error.    *)
markDeleted(files, path) ==
    IF files[path] = NoRow THEN files ELSE [files EXCEPT ![path].deleted = TRUE]

(* INSERT OR REPLACE INTO chunks: the row replaces the one with its key.   *)
insertChunk(chunks, path, index, hash) == [chunks EXCEPT ![path][index] = hash]

(* Mutant: a row is fetched for every index, whether it exists or not.     *)
everyIndexAfter(rows, last) == {i \in DOMAIN rows : i > last}

(* SELECT hash FROM chunks WHERE file_path = ? ORDER BY chunk_index: the   *)
(* indexes of the rows a cursor that returned index `last` has yet to      *)
(* fetch; the next one is the smallest.                                    *)
rowsAfter(rows, last) == {i \in DOMAIN rows : i > last /\ rows[i] # NoRow}

isNextRow(rows, last, i) ==
    /\ i \in rowsAfter(rows, last)
    /\ \A j \in rowsAfter(rows, last) : i <= j
=============================================================================
