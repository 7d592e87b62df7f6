-------------------------------- MODULE MVCC --------------------------------
(***************************************************************************)
(* InnoDB with what statements that check foreign keys and statements that *)
(* only read bring in: shared locks, and the snapshots of REPEATABLE READ, *)
(* MySQL's default, which app/db/pool.py leaves alone.  A transaction's    *)
(* first plain SELECT fixes what its later ones see, except for the rows   *)
(* it has changed itself.                                                  *)
(*                                                                         *)
(* External, like InnoDB.                                                  *)
(***************************************************************************)
CONSTANTS Txn, Row, NoRow, Free,
          NoView  \* the view of a transaction that has not read

VARIABLES db, work, lock,
          shared,  \* the transactions that hold a shared lock on each row
          view     \* the tables as each transaction reads them

INSTANCE InnoDB

OpenedWithViews(start) ==
    /\ Opened(start)
    /\ shared = [x \in Row |-> {}]
    /\ view = [t \in Txn |-> NoView]

\* A statement that writes rows of X, and needs the rows of S to stay as they are.
Write(t, X, S, new) ==
    /\ \A x \in X : shared[x] \subseteq {t}
    /\ Available(t, S)
    /\ Statement(t, X, new)
    /\ shared' = [x \in Row |->
                    IF x \in S /\ work[x] # NoRow THEN shared[x] \cup {t} ELSE shared[x]]
    /\ UNCHANGED view

\* A plain SELECT.
Read(t) ==
    /\ view' = [view EXCEPT ![t] = IF @ = NoView THEN db ELSE @]
    /\ UNCHANGED <<db, work, lock, shared>>

\* What a plain SELECT of t finds for row x.  A row that an UPDATE matched and
\* left as it was has not been changed.
Seen(t, x) ==
    IF lock[x] = t /\ work[x] # db[x] THEN work[x]
    ELSE IF view[t] = NoView THEN db[x] ELSE view[t][x]

\* What a transaction leaves behind: no lock and no snapshot.
Released(t) ==
    /\ shared' = [x \in Row |-> shared[x] \ {t}]
    /\ view' = [view EXCEPT ![t] = NoView]

\* COMMIT, and ROLLBACK.
CommitWithViews(t) == CommitTxn(t) /\ Released(t)
RollbackWithViews(t) == RollbackTxns({t}) /\ Released(t)
=============================================================================
