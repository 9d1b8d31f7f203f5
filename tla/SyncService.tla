---------------------------- MODULE SyncService ----------------------------
(***************************************************************************)
(* The Sync RPC (src/server/sync_service.cpp) on the database of one       *)
(* client id, while uploads under the same id are being finalized, files   *)
(* are deleted, and the process may die.                                   *)
(*                                                                         *)
(* A Sync call reads the files table, compares it with the list of files   *)
(* in the request, and only then takes the server_time the device will     *)
(* send as last_sync_time in its next request.  finalizeFile takes the     *)
(* modified_time of a record some time before it inserts the record.  Both *)
(* times are in whole seconds.                                             *)
(*                                                                         *)
(* getAllFiles fetches row by row in rowid order.  A row that is replaced  *)
(* meanwhile gets a new rowid, behind all others, so the scan ends with    *)
(* the latest row of every path: listing is one step, the last fetch.  A   *)
(* row deleted after it was fetched stays listed, as if it were deleted    *)
(* just after the listing.                                                 *)
(*                                                                         *)
(* The device is external: the repository has no client.  It is taken to   *)
(* fetch what Sync reports, which DownloadFile looks up with getFile (the  *)
(* stub sends no bytes yet), and to remember the server_time it was given. *)
(***************************************************************************)
EXTENDS MetadataDB

CONSTANTS
    Devices,      \* devices that call Sync with this client id
    Paths,
    Hashes,       \* contents of a file
    Uploads,      \* calls of finalizeFile; bounds how many a behaviour makes
    MaxTime       \* bound on the clock, in seconds

ASSUME SyncAssumption ==
    /\ NoRow \notin Hashes
    /\ NoRow \notin [hash : Hashes, modified_time : Nat, deleted : BOOLEAN]
    /\ MaxTime \in Nat \ {0}

VARIABLES
    files,           \* the files table of the client's database
    clock,
    upload,          \* upload[u]: the record u has made and not yet inserted
    uploaded,        \* uploads that are over
    local_files,     \* local_files[d][p]: hash of the device's copy, or NoRow
    last_sync_time,  \* last_sync_time[d]: of the device's last answered call
    pc,              \* pc[d]: "idle", "sync" or "listed"
    server_files,    \* server_files[d]: what listFiles returned to d's call
    close            \* history: paths with an upload during a Sync call, or
                     \* in the second such a call was answered

vars == <<files, clock, upload, uploaded, local_files, last_sync_time, pc, server_files,
          close>>

device == <<local_files, last_sync_time, pc, server_files>>

NoFiles == [p \in Paths |-> NoRow]

Init ==
    /\ files = NoFiles
    /\ clock = 1
    /\ upload = [u \in Uploads |-> NoRow]
    /\ uploaded = {}
    /\ local_files = [d \in Devices |-> NoFiles]
    /\ last_sync_time = [d \in Devices |-> 0]
    /\ pc = [d \in Devices |-> "idle"]
    /\ server_files = [d \in Devices |-> NoFiles]
    /\ close = {}

-----------------------------------------------------------------------------
(* Mutant: the time is taken in milliseconds.                              *)
StampMillis(u) ==
    /\ u \notin uploaded /\ upload[u] = NoRow
    /\ \E p \in Paths, h \in Hashes :
          /\ upload' = [upload EXCEPT ![u] =
                          [path |-> p, hash |-> h, modified_time |-> 1000 * clock]]
          /\ close' = IF \A d \in Devices : pc[d] = "idle" /\ last_sync_time[d] < clock
                      THEN close ELSE close \cup {p}
    /\ UNCHANGED <<files, clock, uploaded, device>>

(* finalizeFile takes the time: the record is complete.                    *)
StampRecord(u) ==
    /\ u \notin uploaded /\ upload[u] = NoRow
    /\ \E p \in Paths, h \in Hashes :
          /\ upload' = [upload EXCEPT ![u] =
                          [path |-> p, hash |-> h, modified_time |-> clock]]
          /\ close' = IF \A d \in Devices : pc[d] = "idle" /\ last_sync_time[d] < clock
                      THEN close ELSE close \cup {p}
    /\ UNCHANGED <<files, clock, uploaded, device>>

(* insertOrUpdateFile.                                                     *)
InsertRecord(u) ==
    /\ upload[u] # NoRow
    /\ files' = insertOrUpdateFile(files, upload[u].path,
                   [hash |-> upload[u].hash, modified_time |-> upload[u].modified_time,
                    deleted |-> FALSE])
    /\ upload' = [upload EXCEPT ![u] = NoRow]
    /\ uploaded' = uploaded \cup {u}
    /\ UNCHANGED <<clock, device, close>>

(* StorageManager::deleteFile.                                             *)
DeleteFile(p) ==
    /\ files' = markDeleted(files, p)
    /\ UNCHANGED <<clock, upload, uploaded, device, close>>

-----------------------------------------------------------------------------
(* The device calls Sync with its files and its last_sync_time.            *)
CallSync(d) ==
    /\ pc[d] = "idle"
    /\ pc' = [pc EXCEPT ![d] = "sync"]
    /\ close' = close \cup {upload[u].path : u \in {v \in Uploads : upload[v] # NoRow}}
    /\ UNCHANGED <<files, clock, upload, uploaded, local_files, last_sync_time,
                   server_files>>

(* computeChanges lists the files of the client.                           *)
ListFiles(d) ==
    /\ pc[d] = "sync"
    /\ server_files' = [server_files EXCEPT ![d] = getAllFiles(files)]
    /\ pc' = [pc EXCEPT ![d] = "listed"]
    /\ UNCHANGED <<files, clock, upload, uploaded, local_files, last_sync_time,
                   close>>

(* Mutant: a file of the second after the last call is left out.           *)
createdLater(server, local, last) ==
    {p \in Paths : /\ server[p] # NoRow /\ local[p] = NoRow
                   /\ server[p].modified_time > last + 1}

(* Files the device does not have, changed since its last call.            *)
created(server, local, last) ==
    {p \in Paths : /\ server[p] # NoRow /\ local[p] = NoRow
                   /\ server[p].modified_time > last}

(* Mutant: only files changed since the last call are compared.            *)
modifiedSince(server, local, last) ==
    {p \in Paths : /\ server[p] # NoRow /\ local[p] # NoRow
                   /\ server[p].hash # local[p]
                   /\ server[p].modified_time > last}

(* Files the device has with another content, whenever they changed.       *)
modified(server, local, last) ==
    {p \in Paths : /\ server[p] # NoRow /\ local[p] # NoRow
                   /\ server[p].hash # local[p]}

computeChanges(server, local, last) ==
    created(server, local, last) \cup modified(server, local, last)

(* The answer, with the time read now, reaches the device, which fetches   *)
(* the files it names.                                                     *)
Answer(d) ==
    /\ pc[d] = "listed"
    /\ LET changes == computeChanges(server_files[d], local_files[d], last_sync_time[d])
       IN  local_files' = [local_files EXCEPT ![d] =
              [p \in Paths |-> IF p \in changes THEN getFile(files, p).hash
                               ELSE local_files[d][p]]]
    /\ last_sync_time' = [last_sync_time EXCEPT ![d] = clock]
    /\ server_files' = [server_files EXCEPT ![d] = NoFiles]
    /\ pc' = [pc EXCEPT ![d] = "idle"]
    /\ UNCHANGED <<files, clock, upload, uploaded, close>>

(* The answer is lost: the device keeps its files and its time.            *)
LoseAnswer(d) ==
    /\ pc[d] = "listed"
    /\ server_files' = [server_files EXCEPT ![d] = NoFiles]
    /\ pc' = [pc EXCEPT ![d] = "idle"]
    /\ UNCHANGED <<files, clock, upload, uploaded, local_files, last_sync_time, close>>

(* The process dies: every call is gone with the records made and not yet  *)
(* inserted, which their clients may upload again.                         *)
Crash ==
    /\ upload' = [u \in Uploads |-> NoRow]
    /\ server_files' = [d \in Devices |-> NoFiles]
    /\ pc' = [d \in Devices |-> "idle"]
    /\ UNCHANGED <<files, clock, uploaded, local_files, last_sync_time, close>>

Tick ==
    /\ clock < MaxTime
    /\ clock' = clock + 1
    /\ UNCHANGED <<files, upload, uploaded, device, close>>

Next ==
    \/ \E u \in Uploads : StampRecord(u) \/ InsertRecord(u)
    \/ \E d \in Devices : CallSync(d) \/ ListFiles(d) \/ Answer(d) \/ LoseAnswer(d)
    \/ \E p \in Paths : DeleteFile(p)
    \/ Crash \/ Tick

Spec == Init /\ [][Next]_vars

-----------------------------------------------------------------------------
(* PROPERTIES                                                              *)

Rows == [hash : Hashes, modified_time : 1 .. MaxTime, deleted : BOOLEAN]

Tables == [Paths -> Rows \cup {NoRow}]

(* The types of the table, of the records being made and of the calls.     *)
TypeOK ==
    /\ files \in Tables
    /\ clock \in 1 .. MaxTime
    /\ upload \in [Uploads -> [path : Paths, hash : Hashes, modified_time : 1 .. MaxTime]
                              \cup {NoRow}]
    /\ uploaded \subseteq Uploads
    /\ local_files \in [Devices -> [Paths -> Hashes \cup {NoRow}]]
    /\ last_sync_time \in [Devices -> 0 .. MaxTime]
    /\ pc \in [Devices -> {"idle", "sync", "listed"}]
    /\ server_files \in [Devices -> Tables]
    /\ close \subseteq Paths

(* A file on the server that a device does not have is newer than the time *)
(* of the device's last answered Sync, so that the next call reports it    *)
(* (created, sync_service.cpp:163), however many answers were lost.        *)
WillReport(d, p) ==
    getAllFiles(files)[p] # NoRow /\ local_files[d][p] = NoRow =>
       files[p].modified_time > last_sync_time[d]

(* No file is missed whose uploads stayed clear of the Sync calls, whatever *)
(* the uploads of other files do at the same time.                         *)
NothingMissed ==
    \A d \in Devices, p \in Paths : p \notin close => WillReport(d, p)

(* No file is missed at all: Sync gets "all changes since last sync"       *)
(* (sync.proto:112).                                                       *)
AllChangesReported == \A d \in Devices, p \in Paths : WillReport(d, p)

Stale(d, p) == /\ getAllFiles(files)[p] # NoRow /\ local_files[d][p] # NoRow
               /\ files[p].hash # local_files[d][p]

=============================================================================
