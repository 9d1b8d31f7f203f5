-------------------------- MODULE ConflictResolver --------------------------
(***************************************************************************)
(* ConflictResolver (src/core/conflict_resolver.cpp), called by threads of *)
(* a process that also log.  generateConflictName takes no lock and shares *)
(* the static tm of std::localtime with the Logger and with other calls.   *)
(*                                                                         *)
(* A path is its directory and stem, whether the dot of an extension       *)
(* follows, and what comes after the dot, which may be nothing; a name is  *)
(* its parts too.  A conflict is a file with the hashes, times and version *)
(* numbers of its local and remote version.  The caller is external: it    *)
(* resolves what hasConflict finds the way autoResolve says.               *)
(***************************************************************************)
EXTENDS Logger

CONSTANTS Paths,        \* records [stem, dot, ext]
          Hashes,       \* contents of a version
          Infos         \* the ConflictInfos that resolve is called with

ASSUME ConflictAssumption ==
    /\ Infos \subseteq [path : Paths, local_hash : Hashes, remote_hash : Hashes,
                        local_modified_time : Nat, remote_modified_time : Nat,
                        local_version : Nat, remote_version : Nat]
    /\ Paths \subseteq [stem : STRING, dot : BOOLEAN, ext : STRING]
    /\ \A p \in Paths : p.dot \/ p.ext = ""

VARIABLES conflict,     \* conflict[t]: the ConflictInfo t resolves, or Nobody
          resolved      \* the conflicts resolved, with the names given

cvars == <<logger, conflict, resolved>>

hasConflict(info) ==
    /\ info.local_hash # info.remote_hash
    /\ info.local_version > 0 /\ info.remote_version > 0

(* Mutant: the local version wins a tie.                                   *)
localWinsTies(info) ==
    IF info.local_modified_time >= info.remote_modified_time THEN "KEEP_LOCAL"
    ELSE "KEEP_REMOTE"

(* The last write wins, and on a tie both versions are kept.               *)
autoResolve(info) ==
    IF info.local_modified_time > info.remote_modified_time THEN "KEEP_LOCAL"
    ELSE IF info.remote_modified_time > info.local_modified_time THEN "KEEP_REMOTE"
    ELSE "KEEP_BOTH"

getBaseName(path) == path.stem

(* The extension without its dot; an extension that is just a dot is lost. *)
getFileExtension(path) == path.ext

(* Mutant: the extension is left out of the name.                          *)
nameWithoutExtension(path, time) == [stem |-> getBaseName(path), time |-> time, ext |-> ""]

conflictName(path, time) ==
    [stem |-> getBaseName(path), time |-> time, ext |-> getFileExtension(path)]

ConflictInit ==
    /\ LoggerInit
    /\ conflict = [t \in Threads |-> Nobody]
    /\ resolved = {}

(* What resolve(info, strategy) returned, and when and how it was found.   *)
Outcome(t, info, strategy, name) ==
    [info |-> info, strategy |-> strategy, name |-> name,
     at |-> now[t], raced |-> raced[t]]

(* resolve is called with a strategy that needs no new name: it returns    *)
(* the path.  (MANUAL returns nothing, and leaves all as it is.)           *)
ResolveInPlace(t, info) ==
    /\ pc[t] = "idle" /\ calls < MaxCalls
    /\ hasConflict(info)
    /\ autoResolve(info) # "KEEP_BOTH"
    /\ calls' = calls + 1
    /\ resolved' = resolved \cup {Outcome(t, info, autoResolve(info), info.path)}
    /\ UNCHANGED <<setting, mutex_, output, clock, tm, pc, now, text, raced, conflict>>

(* resolve is called with KEEP_BOTH: generateConflictName reads the time.  *)
ResolveBoth(t, info) ==
    /\ pc[t] = "idle" /\ calls < MaxCalls
    /\ hasConflict(info)
    /\ autoResolve(info) = "KEEP_BOTH"
    /\ calls' = calls + 1
    /\ conflict' = [conflict EXCEPT ![t] = info]
    /\ now' = [now EXCEPT ![t] = clock]
    /\ pc' = [pc EXCEPT ![t] = "name_localtime"]
    /\ UNCHANGED <<setting, mutex_, output, clock, tm, text, raced, resolved>>

NameLocalTime(t) ==
    /\ pc[t] = "name_localtime"
    /\ localtime(t, "name")
    /\ UNCHANGED <<setting, mutex_, output, clock, now, text, calls, conflict, resolved>>

(* The name is put together and returned.                                  *)
Name(t) ==
    /\ pc[t] = "name"
    /\ \E time \in put_time(t) :
          resolved' = resolved \cup
             {Outcome(t, conflict[t], "KEEP_BOTH", conflictName(conflict[t].path, time))}
    /\ conflict' = [conflict EXCEPT ![t] = Nobody]
    /\ Leave(t)
    /\ UNCHANGED <<setting, mutex_, output, clock, tm, text, calls>>

ConflictNext ==
    \/ LoggerNext /\ UNCHANGED <<conflict, resolved>>
    \/ \E t \in Threads, info \in Infos : ResolveInPlace(t, info) \/ ResolveBoth(t, info)
    \/ \E t \in Threads : NameLocalTime(t) \/ Name(t)

ConflictSpec == ConflictInit /\ [][ConflictNext]_cvars

-----------------------------------------------------------------------------
(* PROPERTIES                                                              *)

(* The paths of one file, or of two that differ in a final dot only.       *)
SameButForDot(p, q) == p = q \/ (p.stem = q.stem /\ p.ext = "" /\ q.ext = "")

(* Copies of different files have different names, whatever was in tm,     *)
(* unless the paths differ in a final dot only.  Copies of one file, or of *)
(* two such files, have the same name, and the second takes the place of   *)
(* the first, exactly when local time was the same: within one second, or  *)
(* when local time was set back between; or perhaps when tm was            *)
(* overwritten while one of them got its name (conflict_resolver.cpp:50).  *)
NamesClash ==
    \A x, y \in {r \in resolved : r.strategy = "KEEP_BOTH"} :
       /\ x.name = y.name => SameButForDot(x.info.path, y.info.path)
       /\ x.raced = {} /\ y.raced = {} /\ SameButForDot(x.info.path, y.info.path) =>
             (x.name = y.name <=> localTime(x.at) = localTime(y.at))

Mirror(info) ==
    [info EXCEPT !.local_hash = info.remote_hash, !.remote_hash = info.local_hash,
                 !.local_modified_time = info.remote_modified_time,
                 !.remote_modified_time = info.local_modified_time,
                 !.local_version = info.remote_version, !.remote_version = info.local_version]

(* The version left under the path: KEEP_BOTH keeps the remote one there.  *)
Kept(x) == IF x.strategy = "KEEP_LOCAL" THEN x.info.local_hash ELSE x.info.remote_hash

(* Two devices that let autoResolve (conflict_resolver.cpp:60) settle the  *)
(* same conflict, each from its side, keep the same version, unless the    *)
(* times tie; then neither version is given up on either device.           *)
SidesAgree ==
    \A x, y \in resolved :
       x.info = Mirror(y.info) =>
          Kept(x) = Kept(y) \/ (x.strategy = "KEEP_BOTH" /\ y.strategy = "KEEP_BOTH")
=============================================================================
