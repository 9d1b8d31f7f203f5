----------------------------- MODULE MCConflict -----------------------------
(* A small instance of ConflictResolver: "a", "a." and "a.t" are the files *)
(* of the conflicts.  Local time is set back by two seconds at time 2, and *)
(* shows 2, 3 and again 2.                                                 *)
EXTENDS ConflictResolver, TLC

CONSTANTS t1, t2, f1, f2, x1, x2

MCPaths == {[stem |-> "a", dot |-> FALSE, ext |-> ""],
            [stem |-> "a", dot |-> TRUE, ext |-> ""],
            [stem |-> "a", dot |-> TRUE, ext |-> "t"]}

(* Ties of the three files, conflicts of "a.t" that either side wins, and  *)
(* a file that is not in conflict, since only one side has a version.      *)
MCInfos ==
    {i \in [path : MCPaths, local_hash : Hashes, remote_hash : Hashes,
            local_modified_time : {1, 2}, remote_modified_time : {1, 2},
            local_version : {1}, remote_version : {0, 1}] :
        IF i.local_modified_time = i.remote_modified_time
        THEN i.local_modified_time = 1
        ELSE i.path.ext = "t" /\ i.remote_version = 1}

MCOffset == [c \in 0 .. 2 |-> IF c < 2 THEN 2 ELSE 0]

Symmetry ==
    Permutations(Threads) \cup Permutations(Files) \cup Permutations(Hashes)
=============================================================================
