---------------------------- MODULE ServerProofs ----------------------------
(***************************************************************************)
(* For any number of devices, files and uploads, and however many answers  *)
(* are lost and crashes happen, SyncService misses no file whose uploads   *)
(* kept apart from the calls.  The server, stopped, killed and restarted   *)
(* at any point, behaves as SyncService allows, so that this holds of the  *)
(* server; and no call outlives its process.                               *)
(***************************************************************************)
EXTENDS Server, TLAPS

Records == [path : Paths, hash : Hashes, modified_time : 1 .. MaxTime]

(* The file exists and is not deleted.                                     *)
Visible(table, p) == getAllFiles(table)[p] # NoRow

(* While a record of a path that is not close is made and not inserted, no *)
(* call is going on and the record is newer than every answered call.      *)
Apart ==
    \A u \in Uploads : upload[u] # NoRow /\ upload[u].path \notin close =>
       \A d \in Devices : /\ pc[d] = "idle"
                          /\ last_sync_time[d] < upload[u].modified_time

(* What a call has listed is still in the table, and unchanged but for     *)
(* close paths and deleted files; no call was answered in the future.      *)
Current ==
    /\ \A d \in Devices, p \in Paths : server_files[d][p] # NoRow => files[p] # NoRow
    /\ \A d \in Devices, p \in Paths :
          pc[d] = "listed" /\ p \notin close /\ Visible(files, p) =>
             server_files[d][p] = files[p]
    /\ \A d \in Devices : last_sync_time[d] <= clock

IndInv == TypeOK /\ Apart /\ Current /\ NothingMissed

-----------------------------------------------------------------------------
(* What getAllFiles returns of a row.                                      *)
LEMMA AllFiles ==
    ASSUME NEW table \in Tables, NEW p \in Paths
    PROVE  /\ getAllFiles(table) \in Tables
           /\ Visible(table, p) <=> table[p] # NoRow /\ table[p].deleted = FALSE
           /\ Visible(table, p) => getAllFiles(table)[p] = table[p]
<1>1. \A q \in Paths : table[q] # NoRow => table[q].deleted \in BOOLEAN
  BY DEF Tables, Rows
<1> QED
  BY <1>1 DEF Visible, getAllFiles, Tables

(* What WillReport says of the row itself.                                 *)
LEMMA WillReportRow ==
    ASSUME TypeOK, NEW d \in Devices, NEW p \in Paths
    PROVE  WillReport(d, p) <=>
             (Visible(files, p) /\ local_files[d][p] = NoRow =>
                files[p].modified_time > last_sync_time[d])
BY DEF WillReport, Visible

(* At the start there is no file to miss.                                  *)
LEMMA InitIndInv == Init => IndInv
<1> SUFFICES ASSUME Init PROVE IndInv
  OBVIOUS
<1>1. NoFiles \in Tables
  BY DEF NoFiles, Tables
<1>2. TypeOK
  BY <1>1, SyncAssumption DEF Init, NoFiles, TypeOK, Tables
<1>3. \A p \in Paths : ~Visible(files, p)
  BY <1>1, AllFiles DEF Init, NoFiles
<1>4. NothingMissed
  BY <1>2, <1>3, WillReportRow DEF NothingMissed
<1> QED
  BY <1>2, <1>3, <1>4 DEF Init, NoFiles, IndInv, TypeOK, Apart, Current

(* A record gets the current time, after every answered call.              *)
LEMMA StampStep ==
    ASSUME IndInv, NEW u \in Uploads, StampRecord(u)
    PROVE  IndInv'
<1>1. PICK p \in Paths, h \in Hashes :
         /\ upload' = [upload EXCEPT ![u] = [path |-> p, hash |-> h, modified_time |-> clock]]
         /\ close' = IF \A d \in Devices : pc[d] = "idle" /\ last_sync_time[d] < clock
                     THEN close ELSE close \cup {p}
  BY DEF StampRecord
<1>2. [path |-> p, hash |-> h, modified_time |-> clock] \in Records
  BY DEF Records, IndInv, TypeOK
<1>3. TypeOK'
  BY <1>1, <1>2 DEF StampRecord, device, IndInv, TypeOK, Records
<1>4. Apart'
  BY <1>1 DEF StampRecord, device, IndInv, TypeOK, Apart
<1>5. Current'
  BY <1>1 DEF StampRecord, device, IndInv, TypeOK, Current
<1>6. NothingMissed'
  BY <1>1 DEF StampRecord, device, IndInv, NothingMissed, WillReport, Visible
<1> QED
  BY <1>3, <1>4, <1>5, <1>6 DEF IndInv

(* The inserted row is newer than every answered call.                     *)
LEMMA InsertStep ==
    ASSUME IndInv, NEW u \in Uploads, InsertRecord(u)
    PROVE  IndInv'
<1> DEFINE p == upload[u].path
           row == [hash |-> upload[u].hash, modified_time |-> upload[u].modified_time,
                   deleted |-> FALSE]
<1>1. /\ upload[u] # NoRow /\ files' = [files EXCEPT ![p] = row]
      /\ upload' = [upload EXCEPT ![u] = NoRow]
      /\ uploaded' = uploaded \cup {u}
      /\ UNCHANGED <<clock, local_files, last_sync_time, pc, server_files, close>>
  BY DEF InsertRecord, insertOrUpdateFile, device
<1>2. p \in Paths /\ row \in Rows /\ row.modified_time = upload[u].modified_time
  BY <1>1 DEF IndInv, TypeOK, Rows
<1> HIDE DEF p, row
<1>3. TypeOK'
  BY <1>1, <1>2 DEF IndInv, TypeOK, Tables
<1>4. Apart'
  BY <1>1 DEF IndInv, TypeOK, Apart
<1>5. row # NoRow
  BY <1>2, SyncAssumption DEF Rows
<1>a. /\ files \in Tables /\ files' \in Tables
      /\ \A q \in Paths \ {p} : files'[q] = files[q]
  BY <1>1, <1>3 DEF IndInv, TypeOK, Tables
<1>b. ASSUME NEW q \in Paths, q # p PROVE Visible(files', q) <=> Visible(files, q)
  <2>1. Visible(files, q) <=> files[q] # NoRow /\ files[q].deleted = FALSE
    BY <1>a, AllFiles
  <2>2. Visible(files', q) <=> files'[q] # NoRow /\ files'[q].deleted = FALSE
    BY <1>a, AllFiles
  <2> QED
    BY <1>a, <1>b, <2>1, <2>2
<1>6. Current'
  <2>1. files'[p] = row
    BY <1>1, <1>2, <1>a DEF Tables
  <2>2. \A d \in Devices, q \in Paths : server_files[d][q] # NoRow => files'[q] # NoRow
    BY <1>a, <1>5, <2>1 DEF IndInv, Current
  <2>3. p \notin close => \A d \in Devices : pc[d] = "idle"
    BY <1>1 DEF IndInv, Apart, p
  <2>4. ASSUME NEW d \in Devices, NEW q \in Paths, pc[d] = "listed", q \notin close,
               Visible(files', q)
        PROVE  server_files[d][q] = files'[q]
    <3>1. q # p
      BY <2>3, <2>4
    <3> QED
      BY <1>a, <1>b, <2>4, <3>1 DEF IndInv, Current
  <2> QED
    BY <1>1, <2>2, <2>4 DEF IndInv, Current
<1>7. NothingMissed'
  <2> SUFFICES ASSUME NEW d \in Devices, NEW q \in Paths, q \notin close,
                      Visible(files', q), local_files[d][q] = NoRow
               PROVE  files'[q].modified_time > last_sync_time[d]
    BY <1>1 DEF NothingMissed, WillReport, Visible
  <2>1. CASE q = p
    <3>1. files'[q] = row
      BY <1>1, <1>2, <2>1 DEF IndInv, TypeOK, Tables
    <3>2. /\ last_sync_time[d] < upload[u].modified_time
          /\ last_sync_time[d] \in Int /\ upload[u].modified_time \in Int
      BY <1>1, <2>1 DEF IndInv, Apart, TypeOK, p
    <3> QED
      BY <1>2, <3>1, <3>2
  <2>2. CASE q # p
    BY <1>a, <1>b, <2>2, WillReportRow DEF IndInv, NothingMissed
  <2> QED
    BY <2>1, <2>2
<1> QED
  BY <1>3, <1>4, <1>6, <1>7 DEF IndInv

(* An answered call has reported every file the device did not have, but   *)
(* for those of close paths.                                               *)
LEMMA AnswerStep ==
    ASSUME IndInv, NEW d \in Devices, Answer(d)
    PROVE  IndInv'
<1> DEFINE changes == computeChanges(server_files[d], local_files[d], last_sync_time[d])
           copies == [p \in Paths |-> IF p \in changes THEN files[p].hash
                                      ELSE local_files[d][p]]
<1>1. /\ pc[d] = "listed"
      /\ local_files' = [local_files EXCEPT ![d] = copies]
      /\ last_sync_time' = [last_sync_time EXCEPT ![d] = clock]
      /\ server_files' = [server_files EXCEPT ![d] = NoFiles]
      /\ pc' = [pc EXCEPT ![d] = "idle"]
      /\ UNCHANGED <<files, clock, upload, uploaded, close>>
  BY DEF Answer, getFile
<1>2. \A p \in changes : p \in Paths /\ files[p] # NoRow
  BY DEF computeChanges, created, modified, IndInv, Current
<1>3. copies \in [Paths -> Hashes \cup {NoRow}]
  BY <1>2 DEF IndInv, TypeOK, Tables, Rows
<1>a. files \in Tables
  BY DEF IndInv, TypeOK
<1>4. ASSUME NEW p \in Paths, p \notin close, Visible(files, p) PROVE copies[p] # NoRow
  <2>1. files[p].hash \in Hashes
    BY <1>4, <1>a, AllFiles DEF Tables, Rows
  <2>2. CASE local_files[d][p] = NoRow
    <3>1. server_files[d][p] = files[p]
      BY <1>1, <1>4 DEF IndInv, Current
    <3>2. p \in changes
      BY <1>4, <1>a, <2>2, <3>1, AllFiles, WillReportRow
      DEF IndInv, NothingMissed, computeChanges, created
    <3> QED
      BY <2>1, <3>2, SyncAssumption
  <2>3. CASE local_files[d][p] # NoRow
    BY <2>1, <2>3, SyncAssumption
  <2> QED
    BY <2>2, <2>3
<1> HIDE DEF changes, copies
<1>5. TypeOK'
  BY <1>1, <1>3 DEF IndInv, TypeOK, Tables, NoFiles
<1>6. Apart'
  BY <1>1 DEF IndInv, TypeOK, Apart
<1>7. Current'
  BY <1>1 DEF IndInv, TypeOK, Current, NoFiles
<1>8. NothingMissed'
  <2> SUFFICES ASSUME NEW e \in Devices, NEW p \in Paths, p \notin close,
                      Visible(files, p), local_files'[e][p] = NoRow
               PROVE  e # d /\ files[p].modified_time > last_sync_time[e]
    BY <1>1 DEF NothingMissed, WillReport, Visible, IndInv, TypeOK
  <2>1. e # d
    BY <1>1, <1>4 DEF IndInv, TypeOK
  <2> QED
    BY <1>1, <2>1, WillReportRow DEF IndInv, TypeOK, NothingMissed
<1> QED
  BY <1>5, <1>6, <1>7, <1>8 DEF IndInv

(* A deletion hides a file and leaves the others.                          *)
LEMMA DeleteStep ==
    ASSUME IndInv, NEW q \in Paths, DeleteFile(q)
    PROVE  IndInv'
<1>1. /\ files' = IF files[q] = NoRow THEN files
                  ELSE [files EXCEPT ![q].deleted = TRUE]
      /\ UNCHANGED <<clock, upload, uploaded, local_files, last_sync_time, pc,
                     server_files, close>>
  BY DEF DeleteFile, markDeleted, device
<1>2. files \in Tables
  BY DEF IndInv, TypeOK
<1>3. files' \in Tables
  BY <1>1, <1>2 DEF Tables, Rows
<1>4. \A p \in Paths : /\ files'[p] = NoRow <=> files[p] = NoRow
                       /\ files'[p] # NoRow /\ files'[p].deleted = FALSE => files'[p] = files[p]
  <2>1. CASE files[q] = NoRow
    BY <1>1, <2>1
  <2>2. CASE files[q] # NoRow
    <3>1. /\ files'[q] = [files[q] EXCEPT !.deleted = TRUE]
          /\ \A p \in Paths : p # q => files'[p] = files[p]
      BY <1>1, <1>2, <2>2 DEF Tables
    <3>2. files'[q] \in Rows /\ files'[q].deleted = TRUE
      BY <1>2, <2>2, <3>1 DEF Tables, Rows
    <3>3. files'[q] # NoRow
      BY <3>2, SyncAssumption DEF Rows
    <3> QED
      BY <2>2, <3>1, <3>2, <3>3
  <2> QED
    BY <2>1, <2>2
<1>5. \A p \in Paths : Visible(files', p) => Visible(files, p) /\ files'[p] = files[p]
  BY <1>2, <1>3, <1>4, AllFiles, ZenonT(60)
<1>6. TypeOK'
  BY <1>1, <1>3 DEF IndInv, TypeOK
<1>7. Apart' /\ Current'
  BY <1>1, <1>4, <1>5 DEF IndInv, Apart, Current
<1>8. NothingMissed'
  <2> SUFFICES ASSUME NEW d \in Devices, NEW p \in Paths, p \notin close,
                      Visible(files', p), local_files[d][p] = NoRow
               PROVE  files'[p].modified_time > last_sync_time[d]
    BY <1>1 DEF NothingMissed, WillReport, Visible
  <2> QED
    BY <1>5, WillReportRow DEF IndInv, NothingMissed
<1> QED
  BY <1>6, <1>7, <1>8 DEF IndInv

(* The other steps change nothing NothingMissed speaks of.                 *)
LEMMA OtherStep ==
    ASSUME IndInv,
           \/ \E d \in Devices : CallSync(d) \/ ListFiles(d) \/ LoseAnswer(d)
           \/ Crash \/ Tick \/ UNCHANGED vars
    PROVE  IndInv'
<1> USE DEF IndInv
<1>1. ASSUME NEW d \in Devices, CallSync(d) PROVE IndInv'
  BY <1>1 DEF CallSync, TypeOK, Apart, Current, NothingMissed, WillReport, Visible
<1>2. ASSUME NEW d \in Devices, ListFiles(d) PROVE IndInv'
  <2>1. getAllFiles(files) \in Tables
    BY AllFiles DEF TypeOK, Tables, Rows, getAllFiles
  <2>2. /\ \A p \in Paths : getAllFiles(files)[p] # NoRow => files[p] # NoRow
        /\ \A p \in Paths : Visible(files, p) => getAllFiles(files)[p] = files[p]
    BY AllFiles DEF TypeOK, Visible
  <2> QED
    BY <1>2, <2>1, <2>2
    DEF ListFiles, TypeOK, Apart, Current, NothingMissed, WillReport, Visible
<1>3. ASSUME NEW d \in Devices, LoseAnswer(d) PROVE IndInv'
  BY <1>3 DEF LoseAnswer, NoFiles, Tables, TypeOK, Apart, Current, NothingMissed,
              WillReport, Visible
<1>4. CASE Tick
  BY <1>4, SyncAssumption
  DEF Tick, device, TypeOK, Apart, Current, NothingMissed, WillReport, Visible
<1>5. CASE Crash
  BY <1>5 DEF Crash, NoFiles, Tables, TypeOK, Apart, Current, NothingMissed,
              WillReport, Visible
<1>6. CASE UNCHANGED vars
  BY <1>6 DEF vars, TypeOK, Apart, Current, NothingMissed, WillReport, Visible
<1> QED
  BY <1>1, <1>2, <1>3, <1>4, <1>5, <1>6

(* The step of the proof that both theorems rest on.                       *)
LEMMA NextIndInv == IndInv /\ [Next]_vars => IndInv'
BY StampStep, InsertStep, DeleteStep, AnswerStep, OtherStep DEF Next

(* The tables, records and calls keep their types.                         *)
THEOREM TypeCorrect == Spec => []TypeOK
<1>1. IndInv => TypeOK
  BY DEF IndInv
<1> QED
  BY <1>1, InitIndInv, NextIndInv, PTL DEF Spec

(* Comparing modified_time with last_sync_time by > reports every new file *)
(* to every device, even after lost answers, when the uploads of the file  *)
(* stay clear of the Sync calls and of the second they are answered in.    *)
THEOREM SpacedUploadsReported == Spec => []NothingMissed
<1>1. IndInv => NothingMissed
  BY DEF IndInv
<1> QED
  BY <1>1, InitIndInv, NextIndInv, PTL DEF Spec

-----------------------------------------------------------------------------
(* Every step of the server is a step of SyncService or leaves its state   *)
(* unchanged.                                                              *)
LEMMA ServerStep == [ServerNext]_svars => [Next]_vars
<1> SUFFICES ASSUME [ServerNext]_svars PROVE [Next]_vars
  OBVIOUS
<1>1. CASE UNCHANGED svars
  BY <1>1 DEF svars
<1>2. CASE Start \/ InstallHandlers \/ Signal \/ Poll \/ Return
  BY <1>2 DEF Start, InstallHandlers, Signal, Poll, Return
<1>3. CASE Kill
  BY <1>3 DEF Kill, Next
<1>4. ASSUME NEW u \in Uploads, AcceptUpload(u) \/ UploadFails(u) PROVE [Next]_vars
  BY <1>4 DEF AcceptUpload, UploadFails
<1>5. ASSUME NEW u \in Uploads, UploadEnds(u) \/ Insert(u) PROVE [Next]_vars
  BY <1>5 DEF UploadEnds, Insert, Next
<1>6. ASSUME NEW s \in Streams, OpenStream(s) \/ StreamEnds(s) PROVE [Next]_vars
  BY <1>6 DEF OpenStream, StreamEnds
<1>7. ASSUME NEW d \in Devices, BeginSync(d) \/ List(d) \/ Reply(d) \/ LoseAnswer(d)
      PROVE  [Next]_vars
  BY <1>7 DEF BeginSync, List, Reply, Next
<1>8. ASSUME NEW p \in Paths, DeleteFile(p) PROVE [Next]_vars
  BY <1>8 DEF Next
<1>9. CASE Tick
  BY <1>9 DEF Next
<1> QED
  BY <1>1, <1>2, <1>3, <1>4, <1>5, <1>6, <1>7, <1>8, <1>9 DEF ServerNext

(* Refinement: the server implements SyncService.                          *)
THEOREM ServerImplements == ServerSpec => Spec
<1>1. ServerInit => Init
  BY DEF ServerInit
<1> QED
  BY <1>1, ServerStep, PTL DEF ServerSpec, Spec

(* Stopping, killing and restarting the server makes Sync miss no file     *)
(* whose uploads stay clear of the calls.                                  *)
THEOREM ServerMissesNothing == ServerSpec => []NothingMissed
BY ServerImplements, SpacedUploadsReported, PTL

-----------------------------------------------------------------------------
(* The types of the process, and no call without a process.                *)
ProcessOK == ServerTypeOK /\ IndInv

LEMMA ServerInitOK == ServerInit => ProcessOK
BY InitIndInv, ServerAssumption
   DEF ServerInit, Init, ProcessOK, ServerTypeOK, IndInv, CallsOver

LEMMA ServerNextOK == ProcessOK /\ [ServerNext]_svars => ProcessOK'
<1> SUFFICES ASSUME ProcessOK, [ServerNext]_svars PROVE ServerTypeOK'
  BY ServerStep, NextIndInv DEF ProcessOK
<1>1. IndInv' /\ TypeOK'
  BY ServerStep, NextIndInv DEF ProcessOK, IndInv
<1>2. upload \in [Uploads -> Records \cup {NoRow}]
  BY DEF ProcessOK, IndInv, TypeOK, Records
<1> USE DEF ProcessOK, ServerTypeOK
<1>3. CASE UNCHANGED svars
  BY <1>1, <1>3 DEF svars, vars, process, CallsOver
<1>4. CASE Start \/ InstallHandlers \/ Poll
  BY <1>1, <1>4 DEF Start, InstallHandlers, Poll, vars
<1>a. CASE Signal
  <2>1. /\ main' = main /\ main # "down" /\ running' = FALSE
        /\ UNCHANGED <<upload, uploaded, reading, streams>>
    BY <1>a DEF Signal, vars
  <2>2. stops' \in 0 .. MaxStops
    BY <1>a, ServerAssumption DEF Signal
  <2> QED
    BY <1>1, <2>1, <2>2
<1>b. CASE Return
  BY <1>1, <1>b DEF Return, vars, CallsOver
<1>5. CASE Kill
  BY <1>1, <1>5, ServerAssumption DEF Kill, Crash, CallsOver
<1>6. ASSUME NEW u \in Uploads, AcceptUpload(u) \/ UploadFails(u) PROVE ServerTypeOK'
  BY <1>1, <1>6 DEF AcceptUpload, UploadFails, accepts, vars, CallsOver
<1>7. ASSUME NEW u \in Uploads, UploadEnds(u) PROVE ServerTypeOK'
  BY <1>1, <1>7 DEF UploadEnds, StampRecord, CallsOver
<1>8. ASSUME NEW u \in Uploads, Insert(u) PROVE ServerTypeOK'
  BY <1>1, <1>8 DEF Insert, InsertRecord, process, CallsOver
<1>9. ASSUME NEW s \in Streams, OpenStream(s) \/ StreamEnds(s) PROVE ServerTypeOK'
  BY <1>1, <1>9 DEF OpenStream, StreamEnds, accepts, vars, CallsOver
<1>10. ASSUME NEW d \in Devices, BeginSync(d) PROVE ServerTypeOK'
  BY <1>1, <1>10 DEF BeginSync, accepts, CallSync, process, CallsOver
<1>11. ASSUME NEW d \in Devices, UNCHANGED process, ListFiles(d) \/ Answer(d) \/ LoseAnswer(d)
       PROVE  ServerTypeOK'
  BY <1>1, <1>11 DEF ListFiles, Answer, LoseAnswer, process, CallsOver
<1>12. ASSUME NEW p \in Paths, UNCHANGED process, DeleteFile(p) \/ Tick PROVE ServerTypeOK'
  BY <1>1, <1>12 DEF DeleteFile, Tick, process, device, CallsOver
<1>13. CASE Tick /\ UNCHANGED process
  BY <1>1, <1>13 DEF Tick, process, device, CallsOver
<1> QED
  BY <1>3, <1>4, <1>a, <1>b, <1>5, <1>6, <1>7, <1>8, <1>9, <1>10, <1>11, <1>12, <1>13
  DEF ServerNext, List, Reply

(* The server keeps its types, and while it is down no call is in          *)
(* progress: none is begun then and none survives a kill or a return.      *)
THEOREM ServerTypeCorrect == ServerSpec => []ServerTypeOK
<1>1. ProcessOK => ServerTypeOK
  BY DEF ProcessOK
<1> QED
  BY <1>1, ServerInitOK, ServerNextOK, PTL DEF ServerSpec
=============================================================================
