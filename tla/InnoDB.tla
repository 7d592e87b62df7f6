------------------------------- MODULE InnoDB -------------------------------
(***************************************************************************)
(* What the service relies on in MySQL's InnoDB engine, as far as the      *)
(* units of work of app/db/uow.py can tell: every row has one committed    *)
(* version and at most one newer version, written in place by the          *)
(* transaction that holds the row's exclusive lock; a locking statement    *)
(* reads and writes newest versions; COMMIT publishes a transaction's      *)
(* versions in one step and ROLLBACK forgets them, and both release its    *)
(* locks.                                                                  *)
(*                                                                         *)
(* A row that does not exist cannot be locked.  (The gap it would be in    *)
(* can: a gap lock only delays insertions, and the rows this project       *)
(* inserts under a gap have fresh UUIDs, so nothing else waits for them.)  *)
(* A statement takes its locks in one step.                                *)
(*                                                                         *)
(* The engine is not in the repository: it is modelled from the SQL that   *)
(* app/repositories sends to it.                                           *)
(***************************************************************************)
CONSTANTS Txn,    \* the transactions
          Row,    \* the primary keys of all tables
          NoRow,  \* the version of a row that does not exist
          Free    \* the holder of a row nobody has locked

VARIABLES db,     \* the committed version of each row
          work,   \* the newest version of each row
          lock    \* the transaction that holds each row's exclusive lock

\* The tables hold the rows of start, nobody has locked anything.
Opened(start) ==
    /\ db = start
    /\ work = start
    /\ lock = [x \in Row |-> Free]

Available(t, X) == \A x \in X : lock[x] \in {Free, t}

\* The transactions t has to wait for before it can lock the rows of X.
Holders(t, X) == {lock[x] : x \in X} \ {Free, t}

\* A locking read or a write: it locks the rows of X that exist before or after
\* it, and leaves the versions `new`, which differ from work in rows of X only.
Statement(t, X, new) ==
    /\ Available(t, X)
    /\ work' = new
    /\ lock' = [x \in Row |->
                  IF x \in X /\ ~(work[x] = NoRow /\ new[x] = NoRow) THEN t ELSE lock[x]]
    /\ UNCHANGED db

\* COMMIT.
CommitTxn(t) ==
    /\ db' = [x \in Row |-> IF lock[x] = t THEN work[x] ELSE db[x]]
    /\ lock' = [x \in Row |-> IF lock[x] = t THEN Free ELSE lock[x]]
    /\ UNCHANGED work

\* ROLLBACK of every transaction of T.
RollbackTxns(T) ==
    /\ work' = [x \in Row |-> IF lock[x] \in T THEN db[x] ELSE work[x]]
    /\ lock' = [x \in Row |-> IF lock[x] \in T THEN Free ELSE lock[x]]
    /\ UNCHANGED db
=============================================================================
