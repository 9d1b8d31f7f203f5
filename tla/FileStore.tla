------------------------------ MODULE FileStore ------------------------------
(***************************************************************************)
(* What a client may rely on when it uploads files: an abstract store in   *)
(* which an upload takes effect in one step or not at all.                 *)
(*                                                                         *)
(*   - an acknowledged upload has replaced the stored file by exactly the  *)
(*     image of the version the client sent;                               *)
(*   - a rejected upload has changed nothing;                              *)
(*   - an upload whose answer was lost has done one or the other.          *)
(***************************************************************************)
CONSTANTS Uploads,      \* upload calls
          Clients,
          Paths,
          Versions,     \* the versions of a file a client may send
          Image(_),     \* what the store keeps of a version
          None          \* no file under this name

VARIABLES status,       \* status[u]: progress of upload u
          request,      \* request[u]: what u uploads, and where
          stored        \* stored[c][p]: the file the store shows

vars == <<status, request, stored>>

Init ==
    /\ status = [u \in Uploads |-> "idle"]
    /\ request = [u \in Uploads |-> None]
    /\ stored = [c \in Clients |-> [p \in Paths |-> None]]

Begin(u) ==
    /\ status[u] = "idle"
    /\ \E r \in [client : Clients, path : Paths, version : Versions] :
          request' = [request EXCEPT ![u] = r]
    /\ status' = [status EXCEPT ![u] = "running"]
    /\ UNCHANGED stored

Commit(u) ==
    /\ status[u] = "running"
    /\ status' = [status EXCEPT ![u] = "committed"]
    /\ stored' = [stored EXCEPT ![request[u].client][request[u].path] =
                     [image |-> Image(request[u].version), deleted |-> FALSE]]
    /\ UNCHANGED request

Acknowledge(u) ==
    /\ status[u] = "committed"
    /\ status' = [status EXCEPT ![u] = "acknowledged"]
    /\ UNCHANGED <<request, stored>>

Reject(u) ==
    /\ status[u] = "running"
    /\ status' = [status EXCEPT ![u] = "rejected"]
    /\ UNCHANGED <<request, stored>>

(* The server dies: every call in progress loses its answer.               *)
LoseAnswers ==
    /\ status' = [u \in Uploads |-> IF status[u] \in {"running", "committed"}
                                    THEN "lost" ELSE status[u]]
    /\ UNCHANGED <<request, stored>>

Delete(c, p) ==
    /\ stored[c][p] # None
    /\ stored' = [stored EXCEPT ![c][p].deleted = TRUE]
    /\ UNCHANGED <<status, request>>

Next ==
    \/ \E u \in Uploads : Begin(u) \/ Commit(u) \/ Acknowledge(u) \/ Reject(u)
    \/ LoseAnswers
    \/ \E c \in Clients, p \in Paths : Delete(c, p)

Spec == Init /\ [][Next]_vars
=============================================================================
