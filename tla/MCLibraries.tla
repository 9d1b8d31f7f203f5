---------------------------- MODULE MCLibraries ----------------------------
(***************************************************************************)
(* Small instances of the parts of the library that share no state with    *)
(* any other: the rate limiter, the metrics registry and the transactions  *)
(* of a database connection.  Each behaviour exercises one of them while   *)
(* the other two stay as they were made.                                   *)
(***************************************************************************)
EXTENDS RateLimiter, Metrics, Transaction

CONSTANTS c1, c2, c3                                        \* calls
CONSTANTS t1, t2, m1, m2                                    \* threads, names
CONSTANTS x1, x2, x3, r1, r2                                \* transactions, rows

VARIABLES part                                              \* the part exercised

LibrariesInit ==
    /\ part \in {"limiter", "registry", "connection"}
    /\ Init
    /\ MetricsInit
    /\ TransactionInit

LibrariesNext ==
    \/ part = "limiter" /\ Next /\ UNCHANGED <<part, mvars, tvars>>
    \/ part = "registry" /\ MetricsNext /\ UNCHANGED <<part, vars, tvars>>
    \/ part = "connection" /\ TransactionNext /\ UNCHANGED <<part, vars, mvars>>

LibrariesSpec == LibrariesInit /\ [][LibrariesNext]_<<part, vars, mvars, tvars>>
=============================================================================
