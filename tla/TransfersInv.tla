---------------------------- MODULE TransfersInv ----------------------------
(***************************************************************************)
(* The inductive invariant behind the safety of Transfers: what the locks  *)
(* a unit of work holds at each of its steps guarantee.                    *)
(***************************************************************************)
EXTENDS Transfers

\* A row nobody has locked has no uncommitted version.
UncommittedIsLocked == \A x \in Row : lock[x] = Free => work[x] = db[x]

\* Locks are held on leased connections, until the unit of work ends.
LocksAreHeld ==
    \A x \in Row : lock[x] # Free =>
       pc[lock[x]] \in Statements \cup {"commit", "rollback"} /\ lock[x] \in leased

\* A connection is leased from get_connection() to conn.close().
LeasedInside == \A r \in Request : r \in leased <=> pc[r] \in InUnitOfWork

\* Each request runs the statements of its kind, and passed the first checks.
TransferStatements == {"lock1", "lock2", "debit", "credit", "insert"}
StepsFitCalls ==
    \A r \in Request :
       /\ pc[r] \in TransferStatements => call[r].kind = "transfer"
       /\ pc[r] \in TransferStatements \cup {"connect", "commit"} => ~Malformed(call[r])
       /\ pc[r] \in {"setBalance", "close", "erase"} => pc[r] = call[r].kind

\* No request brings an account into being.
NoAccountAppears == \A a \in Account : db[a] = NoRow => work[a] = NoRow

\* A transfer has locked its first account, if there is one; from its debit to
\* its insert it has locked both, which exist, its actor may send from the first,
\* and its debit has been covered.
HasItsAccounts(r) ==
    /\ pc[r] = "lock2" => lock[First(r)] = r \/ db[First(r)] = NoRow
    /\ pc[r] \in {"debit", "credit", "insert"} =>
         /\ \A a \in {Sender(r), Receiver(r)} : lock[a] = r /\ work[a] # NoRow
         /\ Authorised(r)
    /\ pc[r] \in {"credit", "insert"} => Amount(r) <= MaxBalance
AccountsAreLocked == \A r \in Request : HasItsAccounts(r)

\* A ledger row, committed or not, is the one its transfer was authorised for.
EntriesAreAuthorised ==
    \A q \in Request : \A t \in {db, work} :
       t[q] # NoRow =>
          call[q].kind = "transfer" /\ t[q].from = Sender(q) /\ Authorised(q)

IInv ==
    /\ TypeOK
    /\ UncommittedIsLocked
    /\ NoAccountAppears
    /\ LocksAreHeld
    /\ LeasedInside
    /\ StepsFitCalls
    /\ AccountsAreLocked
    /\ EntriesAreAuthorised
    /\ OverdraftsDeclinedCleanly
-----------------------------------------------------------------------------
(* What else the refinement of Ledger rests on: what a unit of work has    *)
(* changed when it gets to its COMMIT, and what the rest cannot undo.      *)

\* Whoever is about to run a statement or COMMIT has raised and answered nothing.
NothingToldYet ==
    \A r \in Request :
       pc[r] \in Statements \cup {"idle", "connect", "commit"} => outcome[r] = "none"

\* A ledger row that its own transfer has locked is its new one; one that another
\* request, which is no transfer, has locked was committed before, and only its
\* erasure takes it away.
EntriesAreKept ==
    \A q \in Request : lock[q] # Free =>
       IF lock[q] = q
         THEN db[q] = NoRow /\ work[q] # NoRow /\ pc[q] \in {"commit", "rollback"}
         ELSE /\ db[q] # NoRow /\ call[lock[q]].kind # "transfer"
              /\ work[q] = NoRow => call[lock[q]].kind = "erase" /\ call[lock[q]].entry = q

\* The accounts of a ledger row are there; when one is about to be closed, the
\* row is locked by whoever closes it, and does not refer to it any more.
ReferencesAreFirm ==
    \A q \in Request, a \in Account :
       /\ Refers(work[q], a) => work[a] # NoRow
       /\ Refers(db[q], a) => db[a] # NoRow /\ (work[a] = NoRow => lock[q] = lock[a])

\* The balance of account a after the transfer of request r.
AfterTransfer(r, a) ==
    db[a] - (IF a = Sender(r) THEN Amount(r) ELSE 0) + (IF a = Receiver(r) THEN Amount(r) ELSE 0)

\* What the unit of work of r has done so far to the rows it has locked.
NothingLocked(r) == \A x \in Row : lock[x] # r
OnlyFirstLocked(r) == \A x \in Row : lock[x] = r => x = First(r)
NothingDone(r) == \A x \in Row : lock[x] = r => work[x] = db[x]
Debited(r) ==
    /\ db[Sender(r)] >= Amount(r)
    /\ \A a \in Account : lock[a] = r =>
          work[a] = IF a = Sender(r) THEN db[a] - Amount(r) ELSE db[a]
Transferred(r) ==
    /\ db[Sender(r)] >= Amount(r)
    /\ \A a \in Account : lock[a] = r =>
          work[a] = IF a \in {Sender(r), Receiver(r)} THEN AfterTransfer(r, a) ELSE db[a]
Recorded(r) ==
    /\ Transferred(r)
    /\ \A x \in {Sender(r), Receiver(r), r} : lock[x] = r
    /\ work[r] = [from |-> Sender(r), to |-> Receiver(r), amount |-> Amount(r)]
Overwritten(r) ==
    /\ lock[Target(r)] = r /\ work[Target(r)] # NoRow
    /\ \A x \in Row : lock[x] = r => x = Target(r)
Closed(r) ==
    /\ lock[Target(r)] = r /\ work[Target(r)] = NoRow
    /\ Target(r) \notin Carded
    /\ \A q \in Request : db[q] # NoRow => db[q].from # Target(r)
    /\ \A x \in Row \ {Target(r)} : lock[x] = r =>
          x \in Request /\ work[x] = [db[x] EXCEPT !.to = Null] /\ Refers(db[x], Target(r))
Erased(r) == \A x \in Row : lock[x] = r => x = call[r].entry /\ work[x] = NoRow

\* A unit of work does the one operation it was asked for, and does it whole before
\* its COMMIT.
DoesOneOperation(r) ==
    /\ pc[r] \in {"lock1", "setBalance", "close", "erase"} => NothingLocked(r)
    /\ pc[r] = "lock2" => OnlyFirstLocked(r)
    /\ pc[r] \in {"lock2", "debit"} => NothingDone(r)
    /\ pc[r] = "credit" => Debited(r)
    /\ pc[r] = "insert" => Transferred(r)
    /\ pc[r] = "commit" =>
         CASE call[r].kind = "transfer"   -> Recorded(r)
           [] call[r].kind = "setBalance" -> Overwritten(r)
           [] call[r].kind = "close"      -> Closed(r)
           [] call[r].kind = "erase"      -> Erased(r)
EachDoesOneOperation == \A r \in Request : DoesOneOperation(r)

\* No spelling of an account sorts between two spellings of another: so it is while
\* clients use the ids the service gave them, which are one spelling each.
SpelledApart ==
    \A i, j, k \in Id : i <= j /\ j <= k /\ RowOf[i] = RowOf[k] => RowOf[j] = RowOf[i]

\* No transfer that passes the checks of the service is from an account to itself:
\* they compare the ids (transaction_service.py:30), so it is while no client sends
\* two spellings of one.
PartiesDiffer ==
    \A c \in Call :
       c.kind = "transfer" /\ ~Malformed(c) => RowOf[c.sender] # RowOf[c.receiver]

LedgerInv ==
    /\ NothingToldYet
    /\ EntriesAreKept
    /\ ReferencesAreFirm
    /\ EachDoesOneOperation
    /\ AnswerMatchesLedger

\* Every unit of work is what its lines, run alone, would make it.
UnitsOfWorkAreSound == IInv /\ LedgerInv

\* A ledger row names the receiver of its transfer, or nobody once that account is
\* closed; a row that is about to lose its receiver is locked by whoever closes it.
KeepsItsParties(q) ==
    /\ \A t \in {db, work} : t[q] # NoRow => t[q].to \in {Receiver(q), Null}
    /\ db[q] # NoRow /\ db[q].to = Null => db[Receiver(q)] = NoRow
    /\ work[q] # NoRow /\ work[q].to = Null =>
         /\ work[Receiver(q)] = NoRow
         /\ db[Receiver(q)] # NoRow => lock[q] = lock[Receiver(q)]
PartiesAreKept == \A q \in Request : KeepsItsParties(q)
=============================================================================
