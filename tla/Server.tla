------------------------------- MODULE Server -------------------------------
(***************************************************************************)
(* The life of the server process (src/server/main.cpp) around the calls   *)
(* of SyncService: the service is built and accepts calls, the handlers of *)
(* SIGINT and SIGTERM are installed after that, a loop polls the flag they *)
(* clear, and Shutdown(), which has no deadline, accepts no more calls and *)
(* waits for those in progress.  A signal that comes before its handler,   *)
(* like a crash, kills the process with the calls in it; the databases     *)
(* stay, and the service opens them again when it is restarted.            *)
(*                                                                         *)
(* An UploadFile or StreamSync call reads until its client ends the        *)
(* stream.  DownloadFile, ResolveConflict and Heartbeat change no state    *)
(* and end by themselves, so they are left out.                            *)
(***************************************************************************)
EXTENDS SyncService

CONSTANTS
    Streams,      \* StreamSync calls
    MaxStops      \* bound on the signals and crashes of a behaviour

ASSUME ServerAssumption == MaxStops \in Nat

VARIABLES
    main,         \* "down", "started", "serving" or "draining"
    running,      \* the flag the signal handler clears
    reading,      \* uploads whose stream is being read
    streams,      \* StreamSync calls in progress
    stops         \* signals and crashes so far

process == <<main, running, reading, streams, stops>>

svars == <<vars, process>>

ServerInit ==
    /\ Init
    /\ main = "down" /\ running = TRUE /\ reading = {} /\ streams = {} /\ stops = 0

-----------------------------------------------------------------------------
(* MAIN                                                                    *)

(* The process starts: running is true, the storage root exists, and       *)
(* BuildAndStart returns with the server accepting calls.                  *)
Start ==
    /\ main = "down"
    /\ main' = "started"
    /\ running' = TRUE
    /\ UNCHANGED <<vars, reading, streams, stops>>

(* std::signal, for SIGINT and SIGTERM; the loop is entered.               *)
InstallHandlers ==
    /\ main = "started"
    /\ main' = "serving"
    /\ UNCHANGED <<vars, running, reading, streams, stops>>

(* signalHandler.  A second signal finds the flag cleared.                 *)
Signal ==
    /\ main \in {"serving", "draining"} /\ running /\ stops < MaxStops
    /\ running' = FALSE
    /\ stops' = stops + 1
    /\ UNCHANGED <<vars, main, reading, streams>>

(* The process is killed: a crash, or a signal that has no handler yet.    *)
Kill ==
    /\ main # "down" /\ stops < MaxStops
    /\ Crash
    /\ main' = "down" /\ reading' = {} /\ streams' = {}
    /\ stops' = stops + 1
    /\ UNCHANGED running

(* The loop wakes up, finds the flag cleared and calls Shutdown().         *)
Poll ==
    /\ main = "serving" /\ ~running
    /\ main' = "draining"
    /\ UNCHANGED <<vars, running, reading, streams, stops>>

(* No call is in progress.                                                 *)
CallsOver ==
    /\ reading = {} /\ streams = {}
    /\ \A u \in Uploads : upload[u] = NoRow
    /\ \A d \in Devices : pc[d] = "idle"

(* Shutdown() returns and main with it.                                    *)
Return ==
    /\ main = "draining" /\ CallsOver
    /\ main' = "down"
    /\ UNCHANGED <<vars, running, reading, streams, stops>>

-----------------------------------------------------------------------------
(* CALLS                                                                   *)

(* Mutant: calls are accepted until Shutdown() returns.                    *)
acceptsAlways == main # "down"

accepts == main \in {"started", "serving"}

AcceptUpload(u) ==
    /\ accepts
    /\ u \notin reading \cup uploaded /\ upload[u] = NoRow
    /\ reading' = reading \cup {u}
    /\ UNCHANGED <<vars, main, running, streams, stops>>

(* The stream ends and finalizeFile gets as far as the record.             *)
UploadEnds(u) ==
    /\ u \in reading
    /\ StampRecord(u)
    /\ reading' = reading \ {u}
    /\ UNCHANGED <<main, running, streams, stops>>

(* A chunk is not stored, or finalizeFile refuses: the client may retry.   *)
UploadFails(u) ==
    /\ u \in reading
    /\ reading' = reading \ {u}
    /\ UNCHANGED <<vars, main, running, streams, stops>>

OpenStream(s) ==
    /\ accepts /\ s \notin streams
    /\ streams' = streams \cup {s}
    /\ UNCHANGED <<vars, main, running, reading, stops>>

(* Read returns false: the client has ended the stream or is gone.         *)
StreamEnds(s) ==
    /\ s \in streams
    /\ streams' = streams \ {s}
    /\ UNCHANGED <<vars, main, running, reading, stops>>

Insert(u) == InsertRecord(u) /\ UNCHANGED process

(* A device calls Sync; without a server to accept it the call fails.      *)
BeginSync(d) == accepts /\ CallSync(d) /\ UNCHANGED process

List(d) == ListFiles(d) /\ UNCHANGED process

Reply(d) == Answer(d) /\ UNCHANGED process

ServerNext ==
    \/ Start \/ InstallHandlers \/ Signal \/ Kill \/ Poll \/ Return
    \/ \E u \in Uploads : AcceptUpload(u) \/ UploadEnds(u) \/ UploadFails(u) \/ Insert(u)
    \/ \E s \in Streams : OpenStream(s) \/ StreamEnds(s)
    \/ \E d \in Devices : BeginSync(d) \/ List(d) \/ Reply(d)
    \/ \E d \in Devices : LoseAnswer(d) /\ UNCHANGED process
    \/ \E p \in Paths : main # "down" /\ DeleteFile(p) /\ UNCHANGED process
    \/ Tick /\ UNCHANGED process

(* main and the handlers run, and the process is restarted when it is      *)
(* down.  A device keeps calling, and not all of its answers are lost.     *)
(* Nothing is assumed of the clients that upload or keep a stream.         *)
ServerFairness ==
    /\ WF_svars(Start) /\ WF_svars(InstallHandlers) /\ WF_svars(Poll) /\ WF_svars(Return)
    /\ \A u \in Uploads : WF_svars(Insert(u))
    /\ \A d \in Devices : /\ SF_svars(BeginSync(d)) /\ WF_svars(List(d))
                          /\ SF_svars(Reply(d))

ServerSpec == ServerInit /\ [][ServerNext]_svars

ServerFairSpec == ServerSpec /\ ServerFairness

-----------------------------------------------------------------------------
(* PROPERTIES                                                              *)

(* The tables, records and calls have their types and the process is in    *)
(* one of its states; when it is down no call is in progress.              *)
ServerTypeOK ==
    /\ TypeOK
    /\ main \in {"down", "started", "serving", "draining"}
    /\ running \in BOOLEAN
    /\ reading \subseteq {u \in Uploads \ uploaded : upload[u] = NoRow}
    /\ streams \subseteq Streams
    /\ stops \in 0 .. MaxStops
    /\ main = "down" => CallsOver

(* Every client ends its streams sooner or later.                          *)
ClientsHangUp == []<>(reading = {} /\ streams = {})

(* A signal that is handled brings the process to its end, unless a client *)
(* keeps an upload or a StreamSync call open for ever: Shutdown() has no   *)
(* deadline (main.cpp:60).                                                 *)
SignalStops == ClientsHangUp => (~running ~> main = "down")

(* A device's outdated copy of a file is brought up to date, whatever the  *)
(* times of the uploads, however they overlap the calls, and although the  *)
(* server is stopped, killed and started again meanwhile.                  *)
StaleCopiesRefreshed ==
    ClientsHangUp => \A d \in Devices, p \in Paths : Stale(d, p) ~> ~Stale(d, p)
=============================================================================
