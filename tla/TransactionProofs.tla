-------------------------- MODULE TransactionProofs --------------------------
(***************************************************************************)
(* One Transaction object at a time makes a connection's transactions all  *)
(* or nothing, for any objects and rows, when no owner writes on after a   *)
(* statement of it has failed.                                             *)
(***************************************************************************)
EXTENDS Transaction, TLAPS

\* The object holds the connection's transaction.
Running(t) == state[t] = "live" /\ ~committed_[t]

\* No two objects live at once.
Alone == \A t, u \in Transactions : state[t] = "live" /\ state[u] = "live" => t = u

\* A running object has its rows in the work of the open transaction.  When the
\* transaction is gone under it, a statement of it has failed.
Holds ==
    \A t \in Transactions : Running(t) =>
        /\ open => \A r \in wrote[t] : <<t, r>> \in work
        /\ open \/ failed[t]

\* All the work is a running object's.
Owned == \A t \in Transactions, r \in Rows : <<t, r>> \in work => Running(t)

\* An object that was not made has written and answered nothing.
Unmade ==
    \A t \in Transactions :
        state[t] = "none" => wrote[t] = {} /\ ~answer[t] /\ ~committed_[t]

IndInv == TypeOK /\ Alone /\ Holds /\ Owned /\ Unmade /\ AllOrNothing

\* The connection starts empty.
LEMMA InitInv == TransactionInit => IndInv
  BY DEF TransactionInit, IndInv, TypeOK, Alone, Holds, Owned, Unmade, AllOrNothing, Running

\* Every step of a single object, and a crash, keeps the invariant.
LEMMA NextInv ==
  ASSUME ~Shared, ~Careless, IndInv, [TransactionNext]_tvars
  PROVE  IndInv'
<1> USE DEF IndInv, TypeOK, Alone, Holds, Owned, Unmade, AllOrNothing, Running
<1>1. CASE UNCHANGED tvars
  BY <1>1 DEF tvars, conn
<1>2. ASSUME NEW t \in Transactions, Construct(t) PROVE IndInv'
  BY <1>2 DEF Construct
<1>3. ASSUME NEW t \in Transactions, Commit(t) PROVE IndInv'
  <2>1. TypeOK' /\ Alone' /\ Holds' /\ Owned' /\ Unmade'
    BY <1>3 DEF Commit, commit
  <2>2. AllOrNothing'
    BY <1>3 DEF Commit, commit
  <2> QED
    BY <2>1, <2>2
<1>4. ASSUME NEW t \in Transactions, Rollback(t) PROVE IndInv'
  BY <1>4 DEF Rollback, rollback
<1>5. ASSUME NEW t \in Transactions, Destroy(t) PROVE IndInv'
  BY <1>5, ZenonT(60) DEF Destroy, rollback, conn
<1>6. ASSUME NEW t \in Transactions, NEW r \in Rows, Write(t, r) PROVE IndInv'
  BY <1>6 DEF Write, Writing
<1>7. ASSUME Crash PROVE IndInv'
  BY <1>7 DEF Crash, rollback
<1>8. ASSUME NEW t \in Transactions, StatementFails(t) PROVE IndInv'
  <2>1. CASE UNCHANGED conn
    BY <1>8, <2>1 DEF StatementFails, conn
  <2>2. CASE rollback
    BY <1>8, <2>2 DEF StatementFails, rollback
  <2> QED
    BY <1>8, <2>1, <2>2 DEF StatementFails
<1> QED
  BY <1>1, <1>2, <1>3, <1>4, <1>5, <1>6, <1>7, <1>8 DEF TransactionNext

\* When no two Transaction objects live at once on a connection, and an owner
\* writes no more after an insert or commit() returned false, a transaction is all
\* or nothing, through commits, rollbacks, failing statements, destructors and
\* crashes.
THEOREM SoleTransactionsAtomic ==
  ASSUME ~Shared, ~Careless
  PROVE  TransactionSpec => []AllOrNothing
<1>1. IndInv => AllOrNothing
  BY DEF IndInv
<1> QED
  BY <1>1, InitInv, NextInv, PTL DEF TransactionSpec
=============================================================================
