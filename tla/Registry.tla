------------------------------ MODULE Registry ------------------------------
(***************************************************************************)
(* What the resource endpoints promise: rows that refer to each other, and *)
(* that are created, updated and deleted one at a time, without a dangling *)
(* reference or a duplicate of a unique value at any time.  Records.tla    *)
(* implements it.                                                          *)
(***************************************************************************)
CONSTANTS Record,   \* the rows of all tables
          TableOf,  \* the table of each
          Opening,  \* the rows there may be at first
          NoRow, Null

VARIABLE rows       \* record -> its version, or NoRow

\* Every row a version refers to is there, and nobody else has its unique value.
Fits(x, version) ==
    /\ \A p \in version.refs : rows[p] # NoRow
    /\ version.key # Null =>
         \A y \in Record \ {x} :
            TableOf[y] = TableOf[x] /\ rows[y] # NoRow => rows[y].key # version.key

Create(x, version) ==
    /\ rows[x] = NoRow
    /\ Fits(x, version)
    /\ rows' = [rows EXCEPT ![x] = version]

Update(x, version) ==
    /\ rows[x] # NoRow
    /\ Fits(x, version)
    /\ rows' = [rows EXCEPT ![x] = version]

\* A row that others refer to stays.
Delete(x) ==
    /\ rows[x] # NoRow
    /\ \A y \in Record : rows[y] # NoRow => x \notin rows[y].refs
    /\ rows' = [rows EXCEPT ![x] = NoRow]

Next == \E x \in Record :
          \/ Delete(x)
          \/ rows'[x] # NoRow /\ (Create(x, rows'[x]) \/ Update(x, rows'[x]))

Spec == rows \in Opening /\ [][Next]_rows
=============================================================================
