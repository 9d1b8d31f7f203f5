----------------------------- MODULE Transaction -----------------------------
(***************************************************************************)
(* MetadataDB::Transaction (metadata_db.cpp:304-329): an object that opens *)
(* a transaction when it is made and rolls it back when it is destroyed    *)
(* uncommitted.  All objects made on one MetadataDB share its single       *)
(* SQLite connection, and SQLite has one transaction per connection: a     *)
(* second BEGIN fails, a COMMIT or ROLLBACK without one fails, and a       *)
(* statement outside a transaction commits by itself.  A statement that    *)
(* fails is undone alone, or, when the disk is full or broken, SQLite      *)
(* rolls the whole transaction back.                                       *)
(*                                                                         *)
(* The rows stand for what a transaction inserts into files and chunks.    *)
(***************************************************************************)
EXTENDS Integers

CONSTANTS Transactions,  \* Transaction objects made in a behaviour
          Rows,          \* rows each of them may write
          Shared,        \* may two of them live at once on the connection?
          Careless       \* may an owner write on after a call returned false?

VARIABLES rows,        \* rows in the database file, as <<transaction, row>>
          open,        \* the connection is inside a transaction
          work,        \* rows written inside it
          state,       \* transaction -> "none", "live" or "done"
          committed_,  \* transaction -> its member committed_
          answer,      \* transaction -> has a commit() of it returned true?
          wrote,       \* history: transaction -> rows whose insert succeeded
          failed       \* transaction -> has an insert or commit() returned false?

conn == <<rows, open, work>>
tvars == <<conn, state, committed_, answer, wrote, failed>>

TransactionInit ==
    /\ rows = {}
    /\ open = FALSE
    /\ work = {}
    /\ state = [t \in Transactions |-> "none"]
    /\ committed_ = [t \in Transactions |-> FALSE]
    /\ answer = [t \in Transactions |-> FALSE]
    /\ wrote = [t \in Transactions |-> {}]
    /\ failed = [t \in Transactions |-> FALSE]

\* ROLLBACK drops the work of the open transaction, whoever wrote it, and fails
\* without one.
rollback ==
    /\ open' = FALSE
    /\ work' = {}
    /\ UNCHANGED rows

\* COMMIT writes the work of the open transaction, whoever did it.
commit ==
    /\ rows' = rows \cup work
    /\ open' = FALSE
    /\ work' = {}

\* The constructor: the result of BEGIN is ignored, so inside an open transaction
\* it leaves the connection as it is.
Construct(t) ==
    /\ state[t] = "none"
    /\ Shared \/ \A u \in Transactions : state[u] # "live"
    /\ state' = [state EXCEPT ![t] = "live"]
    /\ open' = TRUE
    /\ UNCHANGED <<rows, work, committed_, answer, wrote, failed>>

\* The owner uses the connection as long as it has not ended the transaction; a
\* careful one writes no more when an insert or commit() has returned false.
Writing(t) ==
    /\ state[t] = "live"
    /\ ~committed_[t]
    /\ failed[t] => Careless

\* The owner writes a row through the connection.  Outside a transaction, also
\* one that SQLite has rolled back, the row is there at once.
Write(t, r) ==
    /\ Writing(t)
    /\ r \notin wrote[t]
    /\ wrote' = [wrote EXCEPT ![t] = @ \cup {r}]
    /\ IF open THEN work' = work \cup {<<t, r>>} /\ UNCHANGED rows
               ELSE rows' = rows \cup {<<t, r>>} /\ UNCHANGED work
    /\ UNCHANGED <<open, state, committed_, answer, failed>>

\* An INSERT or the COMMIT fails, and insertChunk or commit() returns false: the
\* statement is undone alone, or the whole transaction with it (SQLITE_FULL,
\* SQLITE_IOERR).
StatementFails(t) ==
    /\ state[t] = "live"
    /\ ~committed_[t]
    /\ failed' = [failed EXCEPT ![t] = TRUE]
    /\ UNCHANGED conn \/ rollback
    /\ UNCHANGED <<state, committed_, answer, wrote>>

\* commit() with a COMMIT that succeeds: it writes the work of the connection.
\* Its owner does not call it again on a transaction it has ended.
Commit(t) ==
    /\ state[t] = "live"
    /\ ~committed_[t]
    /\ open
    /\ commit
    /\ committed_' = [committed_ EXCEPT ![t] = TRUE]
    /\ answer' = [answer EXCEPT ![t] = TRUE]
    /\ UNCHANGED <<state, wrote, failed>>

\* rollback() ends the transaction, and keeps the destructor from doing it again.
Rollback(t) ==
    /\ state[t] = "live"
    /\ ~committed_[t]
    /\ rollback
    /\ committed_' = [committed_ EXCEPT ![t] = TRUE]
    /\ UNCHANGED <<state, answer, wrote, failed>>

\* Mutant: the destructor leaves the transaction open.
DestroyOnly(t) ==
    /\ state[t] = "live"
    /\ state' = [state EXCEPT ![t] = "done"]
    /\ UNCHANGED <<conn, committed_, answer, wrote, failed>>

\* The destructor, also after a commit() that failed.
Destroy(t) ==
    /\ state[t] = "live"
    /\ state' = [state EXCEPT ![t] = "done"]
    /\ IF committed_[t] THEN UNCHANGED conn ELSE rollback
    /\ UNCHANGED <<committed_, answer, wrote, failed>>

\* The process dies: SQLite rolls the open transaction back when the file is
\* opened again, and the objects are gone.
Crash ==
    /\ \E t \in Transactions : state[t] = "live"
    /\ rollback
    /\ state' = [t \in Transactions |-> IF state[t] = "live" THEN "done" ELSE state[t]]
    /\ UNCHANGED <<committed_, answer, wrote, failed>>

TransactionNext ==
    \/ \E t \in Transactions : Construct(t) \/ Commit(t) \/ Rollback(t) \/ Destroy(t)
    \/ \E t \in Transactions : StatementFails(t)
    \/ \E t \in Transactions, r \in Rows : Write(t, r)
    \/ Crash

TransactionSpec == TransactionInit /\ [][TransactionNext]_tvars
-----------------------------------------------------------------------------
\* Type invariant: the connection has work only inside a transaction, and an
\* object whose commit() returned true knows that it committed.
TypeOK ==
    /\ rows \subseteq Transactions \X Rows
    /\ open \in BOOLEAN
    /\ work \subseteq Transactions \X Rows
    /\ ~open => work = {}
    /\ state \in [Transactions -> {"none", "live", "done"}]
    /\ committed_ \in [Transactions -> BOOLEAN]
    /\ answer \in [Transactions -> BOOLEAN]
    /\ \A t \in Transactions : answer[t] => committed_[t]
    /\ wrote \in [Transactions -> SUBSET Rows]
    /\ failed \in [Transactions -> BOOLEAN]

\* A transaction is all or nothing (metadata_db.h:47, "Transaction support with
\* RAII"): the database holds every row it wrote if its commit() returned true,
\* and otherwise none, whether it was rolled back, by its owner or by SQLite in the
\* middle of it, destroyed or cut off by a crash.
AllOrNothing ==
    \A t \in Transactions :
        IF answer[t] THEN \A r \in wrote[t] : <<t, r>> \in rows
                     ELSE \A r \in Rows : <<t, r>> \notin rows
=============================================================================
