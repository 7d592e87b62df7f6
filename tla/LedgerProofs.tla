---------------------------- MODULE LedgerProofs ----------------------------
(***************************************************************************)
(* What clients of the ledger may rely on, proved of Transfers: answers    *)
(* match it, its rows refer to accounts that exist, and every unit of work *)
(* looks like one operation of Ledger.                                     *)
(***************************************************************************)
EXTENDS TransfersProofs, FiniteSetTheorems, WellFoundedInduction

USE DEF Row

\* The kinds of requests.
LEMMA Kinds ==
  ASSUME IInv, NEW r \in Request
  PROVE  call[r].kind \in {"transfer", "setBalance", "close", "erase"}
  BY CallAssumption DEF IInv, TypeOK, TransferCall, SetBalanceCall, CloseCall, EraseCall

\* A transfer that changes balances has locked its accounts.
LEMMA HasLocked ==
  ASSUME IInv, NEW r \in Request, pc[r] \in {"debit", "credit", "insert"}
  PROVE  /\ Sender(r) \in Account /\ lock[Sender(r)] = r
         /\ Receiver(r) \in Account /\ lock[Receiver(r)] = r
  BY TransferFacts

-----------------------------------------------------------------------------
(* What other requests leave alone.                                        *)

\* While the rows a request has locked stay as they are, what it has done stays
\* what it has done.
LEMMA OthersStay ==
  ASSUME IInv, LedgerInv, ReferencesAreFirm', NEW r \in Request,
         call' = call, pc'[r] = pc[r],
         \A x \in Row : lock'[x] = r <=> lock[x] = r,
         \A x \in Row : lock[x] = r => db'[x] = db[x] /\ work'[x] = work[x]
  PROVE  DoesOneOperation(r)'
<1> USE DEF LedgerInv, EachDoesOneOperation
<1>0. DoesOneOperation(r)
  OBVIOUS
<1>1. /\ Sender(r)' = Sender(r) /\ Receiver(r)' = Receiver(r) /\ Amount(r)' = Amount(r)
      /\ Target(r)' = Target(r)
  BY DEF Sender, Receiver, Amount, Target
<1>2. /\ NothingLocked(r) => NothingLocked(r)'
      /\ OnlyFirstLocked(r) => OnlyFirstLocked(r)'
      /\ NothingDone(r) => NothingDone(r)'
  BY DEF NothingLocked, OnlyFirstLocked, First, NothingDone
<1>3. ASSUME lock[Sender(r)] = r, Sender(r) \in Account
      PROVE  /\ Debited(r) => Debited(r)'
             /\ Transferred(r) => Transferred(r)'
  BY <1>1, <1>3 DEF Debited, Transferred, AfterTransfer
<1>4. ASSUME call[r].kind = "transfer", Recorded(r) PROVE Recorded(r)'
  <2>1. Sender(r) \in Account /\ Receiver(r) \in Account
    BY <1>4, CallFields DEF IInv
  <2> QED
    BY <1>1, <1>3, <1>4, <2>1 DEF Recorded
<1>5. ASSUME call[r].kind = "setBalance", Overwritten(r) PROVE Overwritten(r)'
  <2>1. Target(r) \in Account
    BY <1>5, CallFields DEF IInv
  <2> QED
    BY <1>1, <1>5, <2>1 DEF Overwritten
<1>6. ASSUME call[r].kind = "close", Closed(r) PROVE Closed(r)'
  <2> DEFINE a == Target(r)
  <2>1. a \in Account /\ a' = a /\ lock[a] = r /\ work[a] = NoRow
    BY <1>1, <1>6, CallFields DEF IInv, Closed
  <2>2. ASSUME NEW q \in Request, db'[q] # NoRow PROVE db'[q].from # a
    <3> SUFFICES ASSUME db'[q].from = a PROVE FALSE
      OBVIOUS
    <3>1. Refers(db'[q], a) /\ work'[a] = NoRow
      BY <2>1, <2>2 DEF Refers
    <3>2. lock'[q] = r
      BY <2>1, <3>1 DEF ReferencesAreFirm
    <3> QED
      BY <1>6, <2>1, <2>2, <3>2 DEF Closed
  <2> QED
    BY <1>6, <2>1, <2>2 DEF Closed, Refers
<1>7. ASSUME Erased(r) PROVE Erased(r)'
  BY <1>7 DEF Erased
<1> QED
  BY <1>0, <1>2, <1>3, <1>4, <1>5, <1>6, <1>7, HasLocked, Kinds DEF DoesOneOperation
-----------------------------------------------------------------------------
(* Statements.                                                             *)

\* A request that is at a statement has committed nothing, and its ledger row is
\* not written either.
LEMMA NotRecordedYet ==
  ASSUME IInv, LedgerInv, NEW r \in Request, pc[r] \in Statements
  PROVE  outcome[r] = "none" /\ db[r] = NoRow /\ work[r] = NoRow /\ lock[r] = Free
<1>1. outcome[r] = "none"
  BY DEF LedgerInv, NothingToldYet
<1>2. db[r] = NoRow
  BY <1>1 DEF LedgerInv, AnswerMatchesLedger
<1>3. lock[r] = Free
  BY <1>2 DEF LedgerInv, EntriesAreKept, Statements
<1> QED
  BY <1>1, <1>2, <1>3 DEF IInv, UncommittedIsLocked

\* Nor has it locked another ledger row.
LEMMA NoEntryLocked ==
  ASSUME IInv, LedgerInv, NEW r \in Request, pc[r] \in Statements, NEW q \in Request
  PROVE  lock[q] # r
<1>1. CASE call[r].kind = "transfer"
  BY <1>1, NotRecordedYet, RowAssumption DEF LedgerInv, EntriesAreKept
<1>2. CASE call[r].kind # "transfer"
  <2>1. pc[r] \in {"setBalance", "close", "erase"}
    BY <1>2 DEF IInv, StepsFitCalls, Statements, TransferStatements
  <2>2. NothingLocked(r)
    BY <2>1 DEF LedgerInv, EachDoesOneOperation, DoesOneOperation
  <2> QED
    BY <2>2 DEF NothingLocked
<1> QED
  BY <1>1, <1>2

\* A statement keeps the invariant if the ledger rows it locks, the references it
\* leaves and what its request has done are as they should be.
LEMMA LedgerStatement ==
  ASSUME IInv, LedgerInv,
         NEW r \in Request, pc[r] \in Statements, UNCHANGED call,
         NEW new, Statement(r, Wanted(r), new),
         \A x \in Row \ Wanted(r) : new[x] = work[x],
         NEW step \in Steps, pc' = [pc EXCEPT ![r] = step],
         \/ step \in Statements \cup {"commit"} /\ UNCHANGED outcome
         \/ /\ step = "rollback"
            /\ \E error \in Outcomes \ {"ok"} : outcome' = [outcome EXCEPT ![r] = error],
         \A q \in Request : lock'[q] = r =>
            IF q = r THEN new[r] # NoRow /\ step = "commit"
            ELSE /\ db[q] # NoRow /\ call[r].kind # "transfer"
                 /\ new[q] = NoRow => call[r].kind = "erase" /\ call[r].entry = q,
         ReferencesAreFirm',
         DoesOneOperation(r)'
  PROVE  LedgerInv'
<1> USE DEF IInv, TypeOK
<1>1. outcome[r] = "none" /\ db[r] = NoRow
  BY NotRecordedYet
<1>2. NothingToldYet'
  BY DEF LedgerInv, NothingToldYet, Statements
<1>3. /\ db' = db /\ work' = new
      /\ \A x \in Row : lock[x] # Free => lock'[x] = lock[x]
      /\ \A x \in Row : lock'[x] # lock[x] => lock'[x] = r
      /\ \A x \in Row : lock[x] \notin {Free, r} => new[x] = work[x]
  BY RowAssumption DEF Statement, Available
<1>4. EntriesAreKept'
  <2> SUFFICES ASSUME NEW q \in Request, lock'[q] # Free
               PROVE  IF lock'[q] = q
                        THEN db'[q] = NoRow /\ work'[q] # NoRow /\ pc'[q] \in {"commit", "rollback"}
                        ELSE /\ db'[q] # NoRow /\ call'[lock'[q]].kind # "transfer"
                             /\ work'[q] = NoRow => call'[lock'[q]].kind = "erase"
                                                    /\ call'[lock'[q]].entry = q
    BY DEF EntriesAreKept
  <2>1. CASE lock'[q] = r
    BY <1>1, <1>3, <2>1
  <2>2. CASE lock'[q] # r
    <3>1. lock'[q] = lock[q] /\ work'[q] = work[q] /\ db'[q] = db[q]
      BY <1>3, <2>2
    <3>2. lock'[q] = q => pc'[q] = pc[q]
      BY <2>2
    <3> QED
      BY <3>1, <3>2 DEF LedgerInv, EntriesAreKept
  <2> QED
    BY <2>1, <2>2
<1>5. \A q \in Request \ {r} : DoesOneOperation(q)'
  BY <1>3, RowAssumption, OthersStay
<1>6. AnswerMatchesLedger'
  <2>1. \A q \in Request : outcome'[q] = outcome[q] \/ (q = r /\ outcome'[r] # "ok")
    BY <1>1
  <2>2. \A e \in Request : outcome[e] # "none" => outcome'[e] = outcome[e]
    BY <1>1
  <2> QED
    BY <1>1, <1>3, <2>1, <2>2 DEF LedgerInv, AnswerMatchesLedger
<1> QED
  BY <1>2, <1>4, <1>5, <1>6 DEF LedgerInv, EachDoesOneOperation

\* A statement keeps the references if it takes no account away, and adds no
\* reference to one that is not there.
LEMMA FirmWhileKept ==
  ASSUME IInv, LedgerInv, NEW r \in Request, NEW new, Statement(r, Wanted(r), new),
         \A a \in Account : work[a] # NoRow => new[a] # NoRow,
         \A q \in Request, a \in Account :
            Refers(new[q], a) => Refers(work[q], a) \/ new[a] # NoRow
  PROVE  ReferencesAreFirm'
<1> SUFFICES ASSUME NEW q \in Request, NEW a \in Account
             PROVE  /\ Refers(work'[q], a) => work'[a] # NoRow
                    /\ Refers(db'[q], a) =>
                         db'[a] # NoRow /\ (work'[a] = NoRow => lock'[q] = lock'[a])
  BY DEF ReferencesAreFirm
<1>1. /\ db' = db /\ work' = new
      /\ \A x \in Row : lock[x] # Free => lock'[x] = lock[x]
  BY RowAssumption DEF Statement, Available
<1>2. /\ Refers(work[q], a) => work[a] # NoRow
      /\ Refers(db[q], a) => db[a] # NoRow /\ (work[a] = NoRow => lock[q] = lock[a])
  BY DEF LedgerInv, ReferencesAreFirm
<1>3. work[a] = NoRow /\ db[a] # NoRow => lock[a] # Free
  BY DEF IInv, UncommittedIsLocked
<1> QED
  BY <1>1, <1>2, <1>3 DEF Refers

\* A statement that raises has written nothing, and keeps the invariant.
LEMMA RefuseLedger ==
  ASSUME IInv, LedgerInv, NEW r \in Request, pc[r] \in Statements,
         Statement(r, Wanted(r), work), NEW error \in Outcomes \ {"ok"}, Raise(r, error),
         \A q \in Request : q \in Wanted(r) => call[r].kind # "transfer" \/ q = r
  PROVE  LedgerInv'
<1>1. ReferencesAreFirm'
  BY FirmWhileKept
<1>2. DoesOneOperation(r)'
  BY DEF Raise, DoesOneOperation, IInv, TypeOK
<1>3. ASSUME NEW q \in Request, lock'[q] = r
      PROVE  q # r /\ db[q] # NoRow /\ call[r].kind # "transfer" /\ work[q] # NoRow
  <2>1. lock[q] = Free /\ q \in Wanted(r) /\ work[q] # NoRow
    BY <1>3, NoEntryLocked, RowAssumption DEF Statement, Available
  <2> QED
    BY <2>1, NotRecordedYet DEF IInv, UncommittedIsLocked
<1> QED
  BY <1>1, <1>2, <1>3, LedgerStatement DEF Raise, Steps, InUnitOfWork
-----------------------------------------------------------------------------
(* The statements of a transfer.                                           *)

\* accounts.lock(conn, first) changes nothing.
LEMMA LockFirstLedger ==
  ASSUME IInv, LedgerInv, NEW r \in Request, LockFirst(r)
  PROVE  LedgerInv'
<1> USE DEF LockFirst, Execute, Goto
<1>1. First(r) \in Account /\ Wanted(r) = {First(r)}
  BY CallFields DEF IInv, StepsFitCalls, TransferStatements, Wanted
<1>2. ReferencesAreFirm'
  BY FirmWhileKept
<1>3. DoesOneOperation(r)'
  <2>1. \A x \in Row : lock'[x] = r => x = First(r) /\ lock[x] \in {Free, r}
    BY <1>1 DEF LedgerInv, EachDoesOneOperation, DoesOneOperation, NothingLocked, Statement, Available
  <2>2. \A x \in Row : lock[x] # r
    BY DEF LedgerInv, EachDoesOneOperation, DoesOneOperation, NothingLocked
  <2>3. NothingDone(r)' /\ OnlyFirstLocked(r)'
    BY <2>1, <2>2
       DEF NothingDone, OnlyFirstLocked, First, IInv, UncommittedIsLocked, Statement
  <2> QED
    BY <2>3 DEF DoesOneOperation, IInv, TypeOK
<1>4. \A q \in Request : lock'[q] # r
  BY <1>1, NoEntryLocked, RowAssumption DEF Statement, Statements
<1> QED
  BY <1>2, <1>3, <1>4, LedgerStatement DEF Statements, Steps, InUnitOfWork

\* Nor does accounts.lock(conn, second).
LEMMA LockSecondLedger ==
  ASSUME IInv, LedgerInv, NEW r \in Request, LockSecond(r)
  PROVE  LedgerInv'
<1> USE DEF LockSecond, Execute
<1>1. Second(r) \in Account /\ Wanted(r) = {Second(r)}
  BY CallFields DEF IInv, StepsFitCalls, TransferStatements, Wanted
<1>2. CASE Refusal(r) = "none"
  <2>1. ReferencesAreFirm'
    BY FirmWhileKept
  <2>2. NothingDone(r)'
    BY <1>1 DEF LedgerInv, EachDoesOneOperation, DoesOneOperation, NothingDone, IInv,
       UncommittedIsLocked, Statement, Available
  <2>3. DoesOneOperation(r)'
    BY <1>2, <2>2 DEF DoesOneOperation, IInv, TypeOK, Goto
  <2>4. \A q \in Request : lock'[q] # r
    BY <1>1, NoEntryLocked, RowAssumption DEF Statement, Statements
  <2> QED
    BY <1>2, <2>1, <2>3, <2>4, LedgerStatement DEF Goto, Statements, Steps, InUnitOfWork
<1>3. CASE Refusal(r) # "none"
  <2>1. Refusal(r) \in {"NotFound", "Forbidden"}
    BY <1>3 DEF Refusal
  <2> QED
    BY <1>1, <1>3, <2>1, RefuseLedger, RowAssumption DEF Statements, Outcomes, DomainErrors
<1> QED
  BY <1>2, <1>3

\* A balance that is stored is the only change, or there is none.
LEMMA StoreLedger ==
  ASSUME IInv, LedgerInv, NEW r \in Request, NEW a \in Account, NEW v \in Int,
         NEW statement \in Statements, NEW next \in {"credit", "insert", "commit"},
         pc[r] = statement, Wanted(r) = {a}, Store(r, statement, a, v, next),
         /\ db' = db /\ call' = call /\ pc'[r] = next
         /\ v # NoRow /\ work' = [work EXCEPT ![a] = v]
         /\ lock' = [lock EXCEPT ![a] = r]
         => DoesOneOperation(r)'
  PROVE  LedgerInv'
<1> DEFINE new == [work EXCEPT ![a] = v]
<1>1. CASE ColumnError(v) = "none"
  <2>1. Statement(r, Wanted(r), new) /\ Goto(r, next)
    BY <1>1 DEF Store, Execute
  <2>2. /\ new[a] = v /\ v # NoRow
        /\ \A x \in Row \ {a} : new[x] = work[x]
        /\ a \notin Request
    BY RowAssumption DEF IInv, TypeOK, IsTables
  <2>3. lock' = [lock EXCEPT ![a] = r]
    BY <2>1, <2>2 DEF Statement, IInv, TypeOK
  <2>4. DoesOneOperation(r)'
    BY <2>1, <2>2, <2>3 DEF Statement, Goto, IInv, TypeOK
  <2>5. \A q \in Request : lock'[q] # r
    BY <2>2, <2>3, NoEntryLocked DEF IInv, TypeOK
  <2> HIDE DEF new
  <2>6. ReferencesAreFirm'
    BY <2>1, <2>2, FirmWhileKept
  <2> QED
    BY <2>1, <2>2, <2>4, <2>5, <2>6, LedgerStatement DEF Goto, Statements, Steps, InUnitOfWork
<1>2. CASE ColumnError(v) # "none"
  <2>1. IntegrityGuard(ColumnError(v)) \in {"CheckViolated", "OutOfRange"}
    BY <1>2 DEF ColumnError, IntegrityGuard
  <2>2. Statement(r, Wanted(r), work) /\ Raise(r, IntegrityGuard(ColumnError(v)))
    BY <1>2 DEF Store, Execute
  <2> QED
    BY <2>1, <2>2, RefuseLedger, RowAssumption DEF Outcomes, DatabaseErrors
<1> QED
  BY <1>1, <1>2

\* The debit, of a sender that can afford it.
LEMMA DebitLedger == ASSUME IInv, LedgerInv, NEW r \in Request, Debit(r) PROVE LedgerInv'
<1> DEFINE s == Sender(r)
           rest == work[s] - Amount(r)
<1>1. /\ pc[r] = "debit" /\ Wanted(r) = {s} /\ s \in Account /\ lock[s] = r
      /\ work[s] \in Balance /\ Amount(r) \in Int
      /\ \A x \in Row : lock[x] = r => work[x] = db[x]
  BY TransferFacts
     DEF Debit, Wanted, LedgerInv, EachDoesOneOperation, DoesOneOperation, NothingDone
<1>2. CASE Affordable(work[s], Amount(r))
  <2>1. ASSUME db' = db, call' = call, pc'[r] = "credit", work' = [work EXCEPT ![s] = rest],
               lock' = [lock EXCEPT ![s] = r]
        PROVE  DoesOneOperation(r)'
    <3>1. Sender(r)' = s /\ Amount(r)' = Amount(r)
      BY <2>1 DEF Sender, Amount
    <3>2. \A x \in Row : lock'[x] = r => lock[x] = r /\ work'[x] = IF x = s THEN rest ELSE work[x]
      BY <1>1, <2>1 DEF IInv, TypeOK, IsTables
    <3>3. Debited(r)'
      BY <1>1, <1>2, <2>1, <3>1, <3>2 DEF Debited, Affordable
    <3> QED
      BY <2>1, <3>3 DEF DoesOneOperation
  <2>2. rest \in Int /\ Store(r, "debit", s, rest, "credit")
    BY <1>1, <1>2, OpeningAssumption DEF Debit, Balance
  <2> QED
    BY <1>1, <2>1, <2>2, StoreLedger DEF Statements
<1>3. CASE ~Affordable(work[s], Amount(r))
  BY <1>1, <1>3, RefuseLedger, RowAssumption
     DEF Debit, Execute, Statements, Outcomes, DomainErrors
<1> QED
  BY <1>2, <1>3

\* The credit, on top of what the row has, which may be the sender's.
LEMMA CreditLedger == ASSUME IInv, LedgerInv, NEW r \in Request, Credit(r) PROVE LedgerInv'
<1> DEFINE t == Receiver(r)
           sum == work[t] + Amount(r)
<1>1. /\ pc[r] = "credit" /\ Wanted(r) = {t} /\ Sender(r) \in Account /\ t \in Account
      /\ lock[Sender(r)] = r /\ lock[t] = r
      /\ work[Sender(r)] \in Balance /\ work[t] \in Balance /\ Amount(r) \in Int
      /\ Debited(r)
  BY TransferFacts DEF Credit, Wanted, LedgerInv, EachDoesOneOperation, DoesOneOperation
<1>2. db[Sender(r)] \in Int /\ db[t] \in Int
  BY <1>1, OpeningAssumption, RowAssumption DEF IInv, NoAccountAppears, TypeOK, IsTables, Balance
<1>3. ASSUME db' = db, call' = call, pc'[r] = "insert", work' = [work EXCEPT ![t] = sum],
             lock' = [lock EXCEPT ![t] = r]
      PROVE  DoesOneOperation(r)'
  <2>1. Sender(r)' = Sender(r) /\ Receiver(r)' = t /\ Amount(r)' = Amount(r)
    BY <1>3 DEF Sender, Receiver, Amount
  <2>2. \A x \in Row : lock'[x] = r => lock[x] = r /\ work'[x] = IF x = t THEN sum ELSE work[x]
    BY <1>1, <1>3 DEF IInv, TypeOK, IsTables
  <2>3. Transferred(r)'
    BY <1>1, <1>2, <1>3, <2>1, <2>2 DEF Transferred, Debited, AfterTransfer
  <2> QED
    BY <1>3, <2>3 DEF DoesOneOperation
<1>4. sum \in Int /\ Store(r, "credit", t, sum, "insert")
  BY <1>1, OpeningAssumption DEF Credit, Balance
<1> QED
  BY <1>1, <1>3, <1>4, StoreLedger DEF Statements

\* The ledger row: the transfer is whole, and refers to accounts it has locked.
LEMMA InsertLedger == ASSUME IInv, LedgerInv, NEW r \in Request, Insert(r) PROVE LedgerInv'
<1> DEFINE e == [from |-> Sender(r), to |-> Receiver(r), amount |-> Amount(r)]
           new == [work EXCEPT ![r] = e]
<1>1. /\ pc[r] = "insert" /\ Statement(r, Wanted(r), new) /\ Goto(r, "commit")
      /\ Wanted(r) = {r}
  BY DEF Insert, Execute, Wanted
<1>2. /\ Sender(r) \in Account /\ lock[Sender(r)] = r /\ work[Sender(r)] # NoRow
      /\ Receiver(r) \in Account /\ lock[Receiver(r)] = r /\ work[Receiver(r)] # NoRow
      /\ call[r].kind = "transfer"
  BY <1>1, TransferFacts, RowAssumption DEF Balance
<1>3. e # NoRow /\ Transferred(r)
  <2>1. e \in Entry /\ e # NoRow
    BY <1>1, TransferFacts, OpeningAssumption, RowAssumption DEF Entry
  <2> QED
    BY <1>1, <2>1 DEF LedgerInv, EachDoesOneOperation, DoesOneOperation
<1>4. /\ new[r] = e
      /\ \A x \in Row \ {r} : new[x] = work[x]
      /\ \A a \in Account : new[a] = work[a] /\ a # r
  BY RowAssumption DEF IInv, TypeOK, IsTables
<1>5. lock' = [lock EXCEPT ![r] = r] /\ db' = db /\ work' = new /\ call' = call
  BY <1>1, <1>3, <1>4 DEF Statement, IInv, TypeOK, Goto
<1>6. ReferencesAreFirm'
  <2>1. \A q \in Request, a \in Account :
          Refers(new[q], a) => Refers(work[q], a) \/ new[a] # NoRow
    BY <1>2, <1>4 DEF Refers
  <2> HIDE DEF new, e
  <2> QED
    BY <1>1, <1>4, <2>1, FirmWhileKept
<1>7. DoesOneOperation(r)'
  <2>1. /\ Sender(r)' = Sender(r) /\ Receiver(r)' = Receiver(r) /\ Amount(r)' = Amount(r)
        /\ \A a \in Account : AfterTransfer(r, a)' = AfterTransfer(r, a)
    BY <1>5 DEF Sender, Receiver, Amount, AfterTransfer
  <2>2. \A a \in Account : lock'[a] = lock[a] /\ work'[a] = work[a]
    BY <1>4, <1>5 DEF IInv, TypeOK
  <2>3. Transferred(r)'
    BY <1>2, <1>3, <1>5, <2>1, <2>2 DEF Transferred
  <2>4. Recorded(r)'
    BY <1>2, <1>4, <1>5, <2>1, <2>2, <2>3 DEF Recorded, IInv, TypeOK
  <2> QED
    BY <1>1, <1>2, <1>5, <2>4 DEF DoesOneOperation, Goto, IInv, TypeOK
<1>8. \A q \in Request : lock'[q] = r => q = r
  BY <1>1, <1>5, NoEntryLocked DEF Statements, IInv, TypeOK
<1> HIDE DEF new, e
<1> QED
  BY <1>1, <1>3, <1>4, <1>6, <1>7, <1>8, LedgerStatement
     DEF Goto, Statements, Steps, InUnitOfWork
-----------------------------------------------------------------------------
(* The administrator's statements.                                         *)

\* An overwrite is all its unit of work does.
LEMMA SetBalanceLedger ==
  ASSUME IInv, LedgerInv, NEW r \in Request, SetBalance(r)
  PROVE  LedgerInv'
<1> DEFINE a == Target(r)
           v == Quantize(call[r].balance)
<1>1. /\ pc[r] = "setBalance" /\ Wanted(r) = {a} /\ a \in Account /\ v \in Int
      /\ call[r].kind = "setBalance" /\ \A x \in Row : lock[x] # r
  BY CallFields DEF SetBalance, IInv, StepsFitCalls, Wanted, LedgerInv, EachDoesOneOperation,
                    DoesOneOperation, NothingLocked
<1>2. CASE Counted(work[a], v)
  <2>1. ASSUME call' = call, pc'[r] = "commit", v # NoRow, work' = [work EXCEPT ![a] = v],
               lock' = [lock EXCEPT ![a] = r]
        PROVE  DoesOneOperation(r)'
    <3>1. Target(r)' = a /\ work'[a] = v
      BY <1>1, <2>1 DEF Target, IInv, TypeOK, IsTables
    <3>2. Overwritten(r)'
      BY <1>1, <2>1, <3>1 DEF Overwritten, IInv, TypeOK
    <3> QED
      BY <1>1, <2>1, <3>2 DEF DoesOneOperation
  <2>2. Store(r, "setBalance", a, v, "commit")
    BY <1>2 DEF SetBalance
  <2> QED
    BY <1>1, <2>1, <2>2, StoreLedger DEF Statements
<1>3. CASE ~Counted(work[a], v)
  BY <1>1, <1>3, RefuseLedger, RowAssumption
     DEF SetBalance, Execute, Statements, Outcomes, DomainErrors
<1> QED
  BY <1>2, <1>3

\* An erasure locks one ledger row that was committed, if any.
LEMMA EraseLedger == ASSUME IInv, LedgerInv, NEW r \in Request, Erase(r) PROVE LedgerInv'
<1> DEFINE q == call[r].entry
           new == [work EXCEPT ![q] = NoRow]
<1>1. /\ pc[r] = "erase" /\ q \in Request /\ Wanted(r) = {q} /\ call[r].kind = "erase"
      /\ \A x \in Row : lock[x] # r
  BY CallFields DEF Erase, IInv, StepsFitCalls, Wanted, LedgerInv, EachDoesOneOperation,
                    DoesOneOperation, NothingLocked
<1>2. CASE work[q] # NoRow
  <2>1. Statement(r, Wanted(r), new) /\ Goto(r, "commit")
    BY <1>2 DEF Erase, Execute
  <2>2. /\ \A x \in Row \ {q} : new[x] = work[x]
        /\ new[q] = NoRow
        /\ \A b \in Account : new[b] = work[b]
    BY <1>1, RowAssumption DEF IInv, TypeOK, IsTables
  <2>3. /\ lock' = [lock EXCEPT ![q] = r] /\ lock[q] = Free /\ call' = call /\ work' = new
    BY <1>1, <1>2, <2>1 DEF Statement, Available, Goto, IInv, TypeOK
  <2>4. db[q] # NoRow /\ q # r
    BY <1>1, <1>2, <2>3, NotRecordedYet DEF IInv, UncommittedIsLocked, Statements
  <2>5. DoesOneOperation(r)'
    <3>1. Erased(r)'
      BY <1>1, <2>2, <2>3 DEF Erased, IInv, TypeOK
    <3> QED
      BY <1>1, <2>1, <2>3, <3>1 DEF DoesOneOperation, Goto, IInv, TypeOK
  <2>6. ReferencesAreFirm'
    <3>1. \A p \in Request, b \in Account :
             Refers(new[p], b) => Refers(work[p], b) \/ new[b] # NoRow
      BY <2>2 DEF Refers
    <3> HIDE DEF new
    <3> QED
      BY <2>1, <2>2, <3>1, FirmWhileKept
  <2>7. \A p \in Request : lock'[p] = r => p = q
    BY <1>1, <2>3 DEF IInv, TypeOK
  <2> HIDE DEF new
  <2> QED
    BY <1>1, <2>1, <2>2, <2>4, <2>5, <2>6, <2>7, LedgerStatement
       DEF Goto, Statements, Steps, InUnitOfWork
<1>3. CASE work[q] = NoRow
  BY <1>1, <1>3, RefuseLedger DEF Erase, Execute, Statements, Outcomes, DomainErrors
<1> QED
  BY <1>2, <1>3

\* A closure takes one account away that no ledger row was paid from, and out of
\* all ledger rows that were paid to it.
LEMMA CloseLedger == ASSUME IInv, LedgerInv, NEW r \in Request, Close(r) PROVE LedgerInv'
<1> DEFINE a == Target(r)
           new == WithoutAccount(a)
<1>1. /\ pc[r] = "close" /\ a \in Account /\ call[r].kind = "close"
      /\ Wanted(r) = {a} \cup Referring(a)
      /\ \A x \in Row : lock[x] # r
  BY CallFields DEF Close, IInv, StepsFitCalls, Wanted, LedgerInv, EachDoesOneOperation,
                    DoesOneOperation, NothingLocked
<1>2. CASE work[a] # NoRow /\ ~Restricted(a)
  <2>1. Statement(r, Wanted(r), new) /\ Goto(r, "commit")
    BY <1>1, <1>2 DEF Close, Execute
  <2>2. \A x \in {a} \cup Referring(a) : lock[x] = Free /\ work[x] = db[x]
    BY <1>1, <2>1 DEF Statement, Available, Referring, IInv, UncommittedIsLocked
  <2>3. ASSUME NEW q \in Referring(a)
        PROVE  /\ db[q] # NoRow /\ Refers(db[q], a) /\ db[q].from # a
               /\ new[q] = [db[q] EXCEPT !.to = Null] /\ new[q] \in Entry
    <3>1. q \in Request /\ work[q] = db[q] /\ Refers(db[q], a)
      BY <2>2 DEF Referring
    <3>2. db[q] # NoRow /\ db[q].from # a /\ db[q] \in Entry
      BY <1>2, <3>1 DEF Refers, Restricted, IInv, TypeOK, IsTables
    <3>3. new[q] = [db[q] EXCEPT !.to = Null]
      BY <1>1, <3>1, RowAssumption DEF WithoutAccount
    <3> QED
      BY <3>1, <3>2, <3>3 DEF Entry
  <2>4. /\ new[a] = NoRow
        /\ \A x \in Row \ Wanted(r) : new[x] = work[x]
        /\ \A b \in Account \ {a} : new[b] = work[b]
        /\ \A q \in Request : ~Refers(new[q], a)
        /\ \A q \in Request, b \in Account : Refers(new[q], b) => Refers(work[q], b)
    <3>1. new[a] = NoRow /\ \A b \in Account \ {a} : new[b] = work[b]
      BY <1>1, RowAssumption DEF WithoutAccount
    <3>2. ASSUME NEW q \in Request \ Referring(a)
          PROVE  new[q] = work[q] /\ ~Refers(work[q], a)
      BY <1>1, RowAssumption DEF WithoutAccount, Referring
    <3>3. ASSUME NEW q \in Referring(a), NEW b \in Account, Refers(new[q], b)
          PROVE  b # a /\ Refers(work[q], b)
      <4>1. new[q] = [db[q] EXCEPT !.to = Null] /\ db[q] # NoRow /\ db[q].from # a /\ work[q] = db[q]
        BY <2>2, <2>3
      <4>2. db[q] \in Entry
        BY <4>1, RowAssumption DEF Referring, IInv, TypeOK, IsTables
      <4> QED
        BY <3>3, <4>1, <4>2, RowAssumption DEF Refers, Entry
    <3> QED
      BY <1>1, <3>1, <3>2, <3>3
  <2> HIDE DEF new
  <2>5. /\ \A x \in Row : lock'[x] = r <=> x \in {a} \cup Referring(a)
        /\ \A x \in Row : lock'[x] # r => lock'[x] = lock[x]
        /\ db' = db /\ work' = new /\ call' = call
    BY <1>1, <1>2, <2>1, <2>2, <2>3 DEF Statement, Goto, Referring
  <2>6. DoesOneOperation(r)'
    <3>1. a' = a
      BY <2>5 DEF Target
    <3>2. \A q \in Request : db[q] # NoRow => db[q].from # a
      BY <2>3 DEF Referring, Refers
    <3>3. \A x \in Row \ {a} : lock'[x] = r =>
             x \in Request /\ work'[x] = [db'[x] EXCEPT !.to = Null] /\ Refers(db'[x], a)
      BY <2>3, <2>5 DEF Referring
    <3>4. Closed(r)'
      BY <1>1, <1>2, <2>4, <2>5, <3>1, <3>2, <3>3 DEF Closed, Restricted
    <3> QED
      BY <1>1, <2>1, <2>5, <3>4 DEF DoesOneOperation, Goto, IInv, TypeOK
  <2>7. ReferencesAreFirm'
    <3> SUFFICES ASSUME NEW q \in Request, NEW b \in Account
                 PROVE  /\ Refers(work'[q], b) => work'[b] # NoRow
                        /\ Refers(db'[q], b) =>
                             db'[b] # NoRow /\ (work'[b] = NoRow => lock'[q] = lock'[b])
      BY DEF ReferencesAreFirm
    <3>1. /\ Refers(work[q], b) => work[b] # NoRow
          /\ Refers(db[q], b) => db[b] # NoRow /\ (work[b] = NoRow => lock[q] = lock[b])
      BY DEF LedgerInv, ReferencesAreFirm
    <3>2. CASE b = a
      BY <2>4, <2>5, <3>1, <3>2 DEF Referring
    <3>3. CASE b # a
      <4>1. b \in Account \ {a} /\ work'[b] = work[b]
        BY <2>4, <2>5, <3>3
      <4>2. work[b] = NoRow /\ db[b] # NoRow => lock[b] # Free
        BY DEF IInv, UncommittedIsLocked
      <4>3. lock[b] # Free /\ lock[q] = lock[b] => lock'[q] = lock[q] /\ lock'[b] = lock[b]
        BY <2>2, <2>5 
      <4> QED
        BY <2>4, <2>5, <3>1, <4>1, <4>2, <4>3
    <3> QED
      BY <3>2, <3>3
  <2>8. \A q \in Request : lock'[q] = r => q # r /\ db[q] # NoRow /\ new[q] # NoRow
    <3>1. ASSUME NEW q \in Request, lock'[q] = r PROVE q \in Referring(a)
      BY <1>1, <2>5, <3>1, RowAssumption
    <3> QED
      BY <1>1, <2>3, <3>1, NotRecordedYet, RowAssumption DEF Statements
  <2>9. /\ pc[r] \in Statements /\ "commit" \in Steps
        /\ pc' = [pc EXCEPT ![r] = "commit"] /\ UNCHANGED <<call, outcome>>
    BY <1>1, <2>1 DEF Goto, Statements, Steps, InUnitOfWork
  <2>10. \A q \in Request : lock'[q] = r =>
           IF q = r THEN new[r] # NoRow /\ "commit" = "commit"
           ELSE /\ db[q] # NoRow /\ call[r].kind # "transfer"
                /\ new[q] = NoRow => call[r].kind = "erase" /\ call[r].entry = q
    BY <1>1, <2>8
  <2>11. \A x \in Row \ Wanted(r) : new[x] = work[x]
    BY <2>4
  <2> HIDE DEF a
  <2> QED
    BY <2>1, <2>6, <2>7, <2>9, <2>10, <2>11, LedgerStatement
<1>3. CASE work[a] # NoRow /\ Restricted(a)
  BY <1>1, <1>3, RefuseLedger DEF Close, Execute, IntegrityGuard, Statements, Outcomes, DomainErrors
<1>4. CASE work[a] = NoRow
  BY <1>1, <1>4, RefuseLedger DEF Close, Execute, Statements, Outcomes, DomainErrors
<1> QED
  BY <1>2, <1>3, <1>4
-----------------------------------------------------------------------------
(* The end of a transaction.                                               *)

\* A rollback leaves the references as they were committed.
LEMMA RollbackKeepsReferences ==
  ASSUME IInv, LedgerInv, NEW T \in SUBSET Request, RollbackTxns(T)
  PROVE  ReferencesAreFirm'
<1> SUFFICES ASSUME NEW q \in Request, NEW a \in Account
             PROVE  /\ Refers(work'[q], a) => work'[a] # NoRow
                    /\ Refers(db'[q], a) =>
                         db'[a] # NoRow /\ (work'[a] = NoRow => lock'[q] = lock'[a])
  BY DEF ReferencesAreFirm
<1>1. /\ db' = db
      /\ \A x \in {q, a} : /\ lock'[x] = IF lock[x] \in T THEN Free ELSE lock[x]
                           /\ work'[x] = IF lock[x] \in T THEN db[x] ELSE work[x]
  BY DEF RollbackTxns
<1>2. /\ Refers(work[q], a) => work[a] # NoRow
      /\ Refers(db[q], a) => db[a] # NoRow /\ (work[a] = NoRow => lock[q] = lock[a])
      /\ db[a] = NoRow => work[a] = NoRow
  BY DEF LedgerInv, ReferencesAreFirm, IInv, NoAccountAppears
<1> QED
  BY <1>1, <1>2

\* So does a commit: what it takes away nothing refers to any more.
LEMMA CommitKeepsReferences ==
  ASSUME IInv, LedgerInv, NEW r \in Request, CommitTxn(r)
  PROVE  ReferencesAreFirm'
<1> SUFFICES ASSUME NEW q \in Request, NEW a \in Account
             PROVE  /\ Refers(work'[q], a) => work'[a] # NoRow
                    /\ Refers(db'[q], a) =>
                         db'[a] # NoRow /\ (work'[a] = NoRow => lock'[q] = lock'[a])
  BY DEF ReferencesAreFirm
<1>1. /\ work' = work
      /\ \A x \in {q, a} : /\ lock'[x] = IF lock[x] = r THEN Free ELSE lock[x]
                           /\ db'[x] = IF lock[x] = r THEN work[x] ELSE db[x]
  BY DEF CommitTxn
<1>2. /\ Refers(work[q], a) => work[a] # NoRow
      /\ Refers(db[q], a) => db[a] # NoRow /\ (work[a] = NoRow => lock[q] = lock[a])
      /\ db[a] = NoRow => work[a] = NoRow
  BY DEF LedgerInv, ReferencesAreFirm, IInv, NoAccountAppears
<1> QED
  BY <1>1, <1>2

\* Requests that are rolled back have told nobody that they succeeded, and what
\* the others did stays done.
LEMMA RollbackLedger ==
  ASSUME IInv, LedgerInv, NEW T \in SUBSET Request, RollbackTxns(T), UNCHANGED call,
         \A q \in Request \ T : pc'[q] = pc[q] /\ outcome'[q] = outcome[q],
         \A q \in T : pc'[q] \in {"rollback", "disconnect", "done"},
         \A q \in T : \/ outcome'[q] \in {outcome[q], "NoReply"}
                      \/ outcome[q] = "none" /\ outcome'[q] # "ok" /\ db[q] = NoRow
  PROVE  LedgerInv'
<1>1. ReferencesAreFirm'
  BY RollbackKeepsReferences
<1>2. /\ db' = db
      /\ \A x \in Row : lock'[x] = IF lock[x] \in T THEN Free ELSE lock[x]
      /\ \A x \in Row : lock[x] \notin T => work'[x] = work[x]
  BY DEF RollbackTxns
<1>3. NothingToldYet'
  BY DEF LedgerInv, NothingToldYet, Statements
<1>4. EntriesAreKept'
  BY <1>2 DEF LedgerInv, EntriesAreKept
<1>5. \A q \in Request \ T : DoesOneOperation(q)'
  BY <1>1, <1>2, RowAssumption, OthersStay
<1>6. \A q \in T : DoesOneOperation(q)'
  BY DEF DoesOneOperation
<1>7. AnswerMatchesLedger'
  BY <1>2 DEF LedgerInv, AnswerMatchesLedger
<1> QED
  BY <1>1, <1>3, <1>4, <1>5, <1>6, <1>7 DEF LedgerInv, EachDoesOneOperation

\* A request that has committed has done what it answers, even when it does not
\* hear of it.
LEMMA CommitLedger ==
  ASSUME IInv, LedgerInv, NEW r \in Request, pc[r] = "commit", CommitTxn(r), UNCHANGED call,
         NEW step \in {"rollback", "disconnect"}, pc' = [pc EXCEPT ![r] = step],
         NEW result \in {"ok", "ConnectionLost"}, outcome' = [outcome EXCEPT ![r] = result]
  PROVE  LedgerInv'
<1> USE DEF IInv, TypeOK
<1>1. ReferencesAreFirm'
  BY CommitKeepsReferences
<1>2. /\ work' = work
      /\ \A x \in Row : lock'[x] = IF lock[x] = r THEN Free ELSE lock[x]
      /\ \A x \in Row : db'[x] = IF lock[x] = r THEN work[x] ELSE db[x]
  BY DEF CommitTxn
<1>3. NothingToldYet'
  BY DEF LedgerInv, NothingToldYet, Statements
<1>4. EntriesAreKept'
  BY <1>2 DEF LedgerInv, EntriesAreKept
<1>5. \A q \in Request \ {r} : DoesOneOperation(q)'
  BY <1>1, <1>2, RowAssumption, OthersStay
<1>6. DoesOneOperation(r)'
  BY DEF DoesOneOperation
<1>7. AnswerMatchesLedger'
  <2>1. outcome[r] = "none" /\ outcome'[r] = result
    BY DEF LedgerInv, NothingToldYet
  <2>2. call[r].kind = "transfer" => db'[r] # NoRow
    <3>1. call[r].kind = "transfer" => lock[r] = r
      BY DEF LedgerInv, EachDoesOneOperation, DoesOneOperation, Recorded
    <3> QED
      BY <1>2, <3>1, RowAssumption DEF LedgerInv, EntriesAreKept
  <2>3. ASSUME NEW q \in Request \ {r}, db'[q] # NoRow PROVE db[q] # NoRow
    BY <1>2, <2>3, RowAssumption DEF LedgerInv, EntriesAreKept
  <2>4. ASSUME NEW q \in Request \ {r}, db[q] # NoRow, db'[q] = NoRow
        PROVE  call[r].kind = "erase" /\ call[r].entry = q
    BY <1>2, <2>4, RowAssumption DEF LedgerInv, EntriesAreKept
  <2> QED
    BY <2>1, <2>2, <2>3, <2>4 DEF LedgerInv, AnswerMatchesLedger
<1> QED
  BY <1>1, <1>3, <1>4, <1>5, <1>6, <1>7 DEF LedgerInv, EachDoesOneOperation
-----------------------------------------------------------------------------
(* The steps that do not reach the tables.                                 *)

\* A request that moves on, or fails, without a change to the tables.
LEMMA QuietLedger ==
  ASSUME IInv, LedgerInv, NEW r \in Request, UNCHANGED <<db, work, lock, call>>,
         NEW step \in Steps, pc' = [pc EXCEPT ![r] = step],
         step \in {"rollback", "disconnect", "done"} \/ (outcome[r] = "none" /\ outcome' = outcome),
         step = "rollback" \/ lock[r] # r,
         NEW error \in Outcomes \ {"ok"},
         outcome' = outcome \/ outcome' = [outcome EXCEPT ![r] = error],
         outcome' = outcome \/ pc[r] \in Statements \cup {"idle", "connect", "commit"},
         DoesOneOperation(r)'
  PROVE  LedgerInv'
<1> USE DEF IInv, TypeOK
<1>1. outcome' = outcome \/ (outcome[r] = "none" /\ db[r] = NoRow)
  <2>1. outcome[r] = "none" => db[r] = NoRow
    BY DEF LedgerInv, AnswerMatchesLedger
  <2>2. outcome' = outcome \/ outcome[r] = "none"
    BY DEF LedgerInv, NothingToldYet
  <2> QED
    BY <2>1, <2>2
<1>2. NothingToldYet'
  BY DEF LedgerInv, NothingToldYet, Statements
<1>3. EntriesAreKept'
  BY DEF LedgerInv, EntriesAreKept
<1>4. ReferencesAreFirm'
  BY DEF LedgerInv, ReferencesAreFirm
<1>5. \A q \in Request \ {r} : DoesOneOperation(q)'
  BY <1>4, OthersStay
<1>6. AnswerMatchesLedger'
  BY <1>1 DEF LedgerInv, AnswerMatchesLedger
<1> QED
  BY <1>2, <1>3, <1>4, <1>5, <1>6 DEF LedgerInv, EachDoesOneOperation

\* Before its unit of work, and after it, a request has no lock.
LEMMA NoLockOutside ==
  ASSUME IInv, NEW r \in Request, pc[r] \in {"idle", "connect", "disconnect", "done"}
  PROVE  NothingLocked(r)
  BY RowAssumption DEF IInv, LocksAreHeld, NothingLocked, Statements

\* Accepting, refusing and beginning a request, and giving its connection back.
LEMMA OutsideLedger ==
  ASSUME IInv, LedgerInv, NEW r \in Request,
         Reject(r) \/ Accept(r) \/ Begin(r) \/ Unreachable(r) \/ Disconnect(r)
  PROVE  LedgerInv'
<1>1. NothingLocked(r) /\ lock[r] # r
  BY NoLockOutside DEF Reject, Accept, Begin, Unreachable, Disconnect, NothingLocked
<1>2. UNCHANGED <<db, work, lock, call>>
  BY DEF Reject, Accept, Begin, Unreachable, Disconnect, Answer, Goto
<1>3. CASE Reject(r) \/ Unreachable(r) \/ Disconnect(r)
  <2>1. pc' = [pc EXCEPT ![r] = "done"] /\ DoesOneOperation(r)'
    BY <1>3 DEF Reject, Unreachable, Disconnect, Answer, DoesOneOperation, IInv, TypeOK
  <2>2. PICK error \in Outcomes \ {"ok"} :
          \/ outcome' = outcome
          \/ /\ pc[r] \in {"idle", "connect"}
             /\ outcome' = [outcome EXCEPT ![r] = error]
    BY <1>3 DEF Reject, Unreachable, Disconnect, Answer, Outcomes, DomainErrors, DatabaseErrors
  <2> QED
    BY <1>1, <1>2, <2>1, <2>2, QuietLedger DEF Steps
<1>4. CASE Accept(r)
  <2>1. /\ pc' = [pc EXCEPT ![r] = "connect"] /\ outcome' = outcome /\ outcome[r] = "none"
        /\ DoesOneOperation(r)'
    BY <1>4 DEF Accept, Goto, DoesOneOperation, IInv, TypeOK, LedgerInv, NothingToldYet
  <2> QED
    BY <1>1, <1>2, <2>1, QuietLedger DEF Steps, Outcomes
<1>5. CASE Begin(r)
  <2> DEFINE step == FirstStatement[call[r].kind]
  <2>1. step \in {"lock1", "setBalance", "close", "erase"}
    BY Kinds DEF FirstStatement
  <2>2. pc' = [pc EXCEPT ![r] = step] /\ outcome' = outcome /\ outcome[r] = "none"
    BY <1>5 DEF Begin, LedgerInv, NothingToldYet
  <2> HIDE DEF step
  <2>3. DoesOneOperation(r)'
    BY <1>1, <1>2, <2>1, <2>2 DEF DoesOneOperation, NothingLocked, IInv, TypeOK
  <2> QED
    BY <1>1, <1>2, <2>1, <2>2, <2>3, QuietLedger
       DEF Steps, InUnitOfWork, Statements, Outcomes
<1> QED
  BY <1>3, <1>4, <1>5

\* A statement or a COMMIT that fails.
LEMMA FailLedger ==
  ASSUME IInv, LedgerInv, NEW r \in Request, LockTimeout(r) \/ ConnectionLost(r)
  PROVE  LedgerInv'
<1>1. PICK error \in Outcomes \ {"ok"} :
        /\ pc[r] \in Statements \cup {"commit"} /\ pc' = [pc EXCEPT ![r] = "rollback"]
        /\ UNCHANGED <<db, work, lock, call>>
        /\ outcome' = [outcome EXCEPT ![r] = error]
  BY DEF LockTimeout, ConnectionLost, Raise, Outcomes, DatabaseErrors
<1>2. DoesOneOperation(r)'
  BY <1>1 DEF DoesOneOperation, IInv, TypeOK
<1> QED
  BY <1>1, <1>2, QuietLedger DEF Steps, InUnitOfWork
-----------------------------------------------------------------------------
(* Induction.                                                              *)

\* Nothing is in the ledger before the first request.
LEMMA InitLedger == Init => LedgerInv
<1> SUFFICES ASSUME Init PROVE LedgerInv
  OBVIOUS
<1>1. /\ \A q \in Request : db[q] = NoRow /\ work[q] = NoRow /\ pc[q] = "idle" /\ outcome[q] = "none"
      /\ \A x \in Row : lock[x] = Free
  BY RowAssumption DEF Init, Opened
<1> QED
  BY <1>1 DEF LedgerInv, NothingToldYet, EntriesAreKept, ReferencesAreFirm, Refers,
              EachDoesOneOperation, DoesOneOperation, AnswerMatchesLedger

\* Every step keeps the second invariant, under the first.
LEMMA StepLedger == IInv /\ LedgerInv /\ [Next]_vars => LedgerInv'
<1> SUFFICES ASSUME IInv, LedgerInv, [Next]_vars PROVE LedgerInv'
  OBVIOUS
<1>1. ASSUME NEW r \in Request,
             Reject(r) \/ Accept(r) \/ Begin(r) \/ Unreachable(r) \/ Disconnect(r)
      PROVE  LedgerInv'
  BY <1>1, OutsideLedger
<1>2. ASSUME NEW r \in Request,
             LockFirst(r) \/ LockSecond(r) \/ Debit(r) \/ Credit(r) \/ Insert(r)
      PROVE  LedgerInv'
  BY <1>2, LockFirstLedger, LockSecondLedger, DebitLedger, CreditLedger, InsertLedger
<1>3. ASSUME NEW r \in Request, SetBalance(r) \/ Close(r) \/ Erase(r) PROVE LedgerInv'
  BY <1>3, SetBalanceLedger, CloseLedger, EraseLedger
<1>4. ASSUME NEW r \in Request, Commit(r) \/ CommitUnheard(r) PROVE LedgerInv'
  BY <1>4, CommitLedger DEF Commit, CommitUnheard, Raise
<1>5. ASSUME NEW r \in Request, Rollback(r) PROVE LedgerInv'
  <2>1. /\ \A q \in Request \ {r} : pc'[q] = pc[q] /\ outcome'[q] = outcome[q]
        /\ pc'[r] = "disconnect" /\ outcome'[r] = outcome[r]
        /\ RollbackTxns({r}) /\ UNCHANGED call
    BY <1>5 DEF Rollback, Goto, IInv, TypeOK
  <2> QED
    BY <2>1, RollbackLedger
<1>6. ASSUME NEW r \in Request, DeadlockVictim(r) PROVE LedgerInv'
  <2>1. pc[r] \in Statements
    BY <1>6 DEF DeadlockVictim, Deadlocked, WaitsFor, Holders, Wanted, Statements
  <2>2. /\ \A q \in Request \ {r} : pc'[q] = pc[q] /\ outcome'[q] = outcome[q]
        /\ pc'[r] = "rollback" /\ outcome'[r] = "Deadlock"
        /\ RollbackTxns({r}) /\ UNCHANGED call
    BY <1>6 DEF DeadlockVictim, Raise, IInv, TypeOK
  <2>3. outcome[r] = "none" /\ db[r] = NoRow
    BY <2>1, NotRecordedYet
  <2> QED
    BY <2>2, <2>3, RollbackLedger
<1>7. ASSUME NEW w \in Worker, Crash(w) PROVE LedgerInv'
  <2>1. Active(w) \in SUBSET Request
    BY DEF Active
  <2>2. /\ \A q \in Request \ Active(w) : pc'[q] = pc[q] /\ outcome'[q] = outcome[q]
        /\ \A q \in Active(w) : pc'[q] = "done" /\ outcome'[q] = "NoReply"
        /\ RollbackTxns(Active(w)) /\ UNCHANGED call
    BY <1>7, <2>1 DEF Crash
  <2> QED
    BY <2>1, <2>2, RollbackLedger
<1>8. CASE UNCHANGED vars
  <2>1. NothingToldYet' /\ EntriesAreKept' /\ ReferencesAreFirm' /\ AnswerMatchesLedger'
    BY <1>8 DEF vars, LedgerInv, NothingToldYet, EntriesAreKept, ReferencesAreFirm,
                AnswerMatchesLedger
  <2>2. EachDoesOneOperation'
    BY <1>8, <2>1, OthersStay DEF vars, EachDoesOneOperation
  <2> QED
    BY <2>1, <2>2 DEF LedgerInv
<1> QED
  BY <1>1, <1>2, <1>3, <1>4, <1>5, <1>6, <1>7, <1>8, FailLedger
     DEF Next, Serve, Fault, Terminated
-----------------------------------------------------------------------------
(* Refinement.                                                             *)

\* The tables open as the ledger does.
LEMMA InitRefines == Init => L!Init
<1> SUFFICES ASSUME Init PROVE L!Init
  OBVIOUS
<1>1. PICK start \in Opening :
        Opened([x \in Row |-> IF x \in Account THEN start[x] ELSE NoRow])
  BY DEF Init
<1>2. start \in [Account -> Balance \cup {NoRow}]
  BY OpeningAssumption
<1>3. [a \in Account |-> db[a]] = start
  BY <1>1, <1>2 DEF Opened
<1>4. [q \in Request |-> db[q]] = [q \in Request |-> NoRow]
  BY <1>1, RowAssumption DEF Opened
<1> QED
  BY <1>3, <1>4 DEF L!Init

\* What a COMMIT publishes.
LEMMA Published ==
  ASSUME NEW r \in Request, CommitTxn(r), NEW x \in Row
  PROVE  db'[x] = IF lock[x] = r THEN work[x] ELSE db[x]
  BY DEF CommitTxn

\* The COMMIT of a transfer moves its amount and records it.
LEMMA TransferRefines ==
  ASSUME PartiesDiffer, IInv, IInv', LedgerInv, NEW r \in Request, pc[r] = "commit",
         call[r].kind = "transfer", Recorded(r), CommitTxn(r)
  PROVE  L!Next
<1>0. PICK f, t, n : f = Sender(r) /\ t = Receiver(r) /\ n = Amount(r)
  OBVIOUS
<1> DEFINE balance == [a \in Account |-> db[a]]
           entry == [q \in Request |-> db[q]]
           e == [from |-> f, to |-> t, amount |-> n]
<1>1. /\ f \in Account /\ t \in Account /\ lock[f] = r /\ lock[t] = r /\ lock[r] = r
      /\ work[r] = e /\ db[f] >= n
      /\ \A a \in Account : lock[a] = r =>
           work[a] = IF a \in {f, t} THEN AfterTransfer(r, a) ELSE db[a]
  BY <1>0, CallFields DEF IInv, Recorded, Transferred
<1>2. db[r] = NoRow /\ \A q \in Request \ {r} : lock[q] # r
  BY <1>1, RowAssumption DEF LedgerInv, EntriesAreKept
<1>3. f # t
  <2>1. call[r] \in Call /\ ~Malformed(call[r])
    BY DEF IInv, TypeOK, StepsFitCalls
  <2> QED
    BY <1>0, <2>1 DEF PartiesDiffer, Sender, Receiver
<1>4. e \in Entry /\ e # NoRow /\ n \in 1..MaxBalance
  <2>1. e \in Entry \cup {NoRow} /\ e # NoRow
    BY <1>1, RowAssumption DEF IInv, TypeOK, IsTables, LedgerInv, EntriesAreKept
  <2>2. e \in Entry
    BY <2>1
  <2>3. e.amount = n
    OBVIOUS
  <2> HIDE DEF e
  <2> QED
    BY <2>1, <2>2, <2>3 DEF Entry
<1>5. work[f] # NoRow /\ work[t] # NoRow
  <2>1. Refers(work[r], f) /\ Refers(work[r], t)
    BY <1>1, <1>4 DEF Refers
  <2> QED
    BY <1>1, <2>1 DEF LedgerInv, ReferencesAreFirm
<1>6. db[f] \in Balance /\ db[t] \in Balance
  BY <1>1, <1>5 DEF IInv, NoAccountAppears, TypeOK, IsTables
<1>7. [a \in Account |-> db'[a]] = [[balance EXCEPT ![f] = @ - n] EXCEPT ![t] = @ + n]
  <2>1. ASSUME NEW a \in Account
        PROVE  db'[a] = IF a \in {f, t} THEN AfterTransfer(r, a) ELSE db[a]
    BY <1>1, Published
  <2>2. AfterTransfer(r, f) = db[f] - n /\ AfterTransfer(r, t) = db[t] + n
    BY <1>0, <1>4, <1>6, <1>3 DEF AfterTransfer, Balance
  <2>3. db'[f] = db[f] - n /\ db'[t] = db[t] + n
    BY <1>1, <2>1, <2>2
  <2> QED
    BY <1>1, <1>3, <2>1, <2>3
<1>8. [q \in Request |-> db'[q]] = [entry EXCEPT ![r] = e]
  <2>1. \A q \in Request : db'[q] = IF q = r THEN e ELSE db[q]
    BY <1>1, <1>2, Published
  <2> HIDE DEF e
  <2> QED
    BY <2>1
<1>9. db'[t] <= MaxBalance
  <2>1. db'[t] \in Balance \cup {NoRow} /\ db'[t] = work[t]
    BY <1>1, Published DEF IInv, TypeOK, IsTables
  <2> QED
    BY <1>5, <2>1, OpeningAssumption DEF Balance
<1>10. NoRow \notin {db[f], db[t]}
  BY <1>6, RowAssumption DEF Balance
<1>11. L!Transfer(r, f, t, n)
  BY <1>1, <1>2, <1>7, <1>8, <1>9, <1>10, <1>3 DEF L!Transfer
<1>12. db'[r] # db[r]
  BY <1>1, <1>2, <1>4, Published
<1>13. L!vars' # L!vars
  BY <1>12 DEF L!vars
<1> QED
  BY <1>1, <1>4, <1>11, <1>13 DEF L!Next, L!vars

\* The COMMIT of an overwrite overwrites one balance.
LEMMA OverwriteRefines ==
  ASSUME IInv, LedgerInv, NEW r \in Request, call[r].kind = "setBalance", Overwritten(r),
         CommitTxn(r)
  PROVE  L!Next \/ UNCHANGED L!vars
<1>0. PICK a, v : a = Target(r) /\ v = work[Target(r)]
  OBVIOUS
<1>1. /\ a \in Account /\ lock[a] = r /\ v = work[a] /\ v \in Balance
      /\ \A x \in Row : lock[x] = r => x = a
  BY <1>0, CallFields DEF IInv, Overwritten, TypeOK, IsTables
<1>2. db[a] # NoRow
  BY <1>1, RowAssumption DEF IInv, NoAccountAppears, Balance
<1>3. db'[a] = v /\ \A x \in Row \ {a} : db'[x] = db[x]
  BY <1>1, Published
<1>4. L!SetBalance(a, v)
  BY <1>1, <1>2, <1>3, RowAssumption DEF L!SetBalance
<1> QED
  BY <1>1, <1>4 DEF L!Next, L!vars, Balance

\* The COMMIT of a closure closes the account, and takes it out of the ledger.
LEMMA CloseRefines ==
  ASSUME IInv, LedgerInv, NEW r \in Request, call[r].kind = "close", Closed(r), CommitTxn(r)
  PROVE  L!Next \/ UNCHANGED L!vars
<1>0. PICK a : a = Target(r)
  OBVIOUS
<1>1. /\ a \in Account /\ lock[a] = r /\ work[a] = NoRow /\ a \notin Carded
      /\ \A q \in Request : db[q] # NoRow => db[q].from # a
      /\ \A x \in Row \ {a} : lock[x] = r =>
            x \in Request /\ work[x] = [db[x] EXCEPT !.to = Null] /\ Refers(db[x], a)
  BY <1>0, CallFields DEF IInv, Closed
<1>2. db'[a] = NoRow /\ \A b \in Account \ {a} : db'[b] = db[b]
  BY <1>1, Published, RowAssumption
<1>3. ASSUME NEW q \in Request
      PROVE  db'[q] = IF db[q] # NoRow /\ db[q].to = a THEN [db[q] EXCEPT !.to = Null] ELSE db[q]
  <2>1. CASE lock[q] = r
    BY <1>1, <2>1, Published, RowAssumption DEF Refers
  <2>2. CASE lock[q] # r
    <3>1. ~Refers(db[q], a)
      BY <1>1, <2>2 DEF LedgerInv, ReferencesAreFirm
    <3> QED
      BY <2>2, <3>1, Published DEF Refers
  <2> QED
    BY <2>1, <2>2
<1>4. CASE db[a] # NoRow
  <2>1. L!Close(a)
    BY <1>1, <1>2, <1>3, <1>4 DEF L!Close
  <2> QED
    BY <1>1, <2>1 DEF L!Next, L!vars
<1>5. CASE db[a] = NoRow
  <2>1. \A q \in Request : ~Refers(db[q], a)
    BY <1>1, <1>5 DEF LedgerInv, ReferencesAreFirm
  <2>2. \A x \in Row : db'[x] = db[x]
    BY <1>2, <1>3, <1>5, <2>1 DEF Refers
  <2> QED
    BY <2>2 DEF L!vars
<1> QED
  BY <1>4, <1>5

\* The COMMIT of an erasure erases one ledger row.
LEMMA EraseRefines ==
  ASSUME IInv, LedgerInv, NEW r \in Request, call[r].kind = "erase", Erased(r), CommitTxn(r)
  PROVE  L!Next \/ UNCHANGED L!vars
<1>0. PICK q : q = call[r].entry
  OBVIOUS
<1>1. q \in Request /\ \A x \in Row : lock[x] = r => x = q /\ work[x] = NoRow
  BY <1>0, CallFields DEF IInv, Erased
<1>2. \A x \in Row \ {q} : db'[x] = db[x]
  BY <1>1, Published
<1>3. CASE lock[q] = r
  <2>1. db[q] # NoRow /\ db'[q] = NoRow
    BY <1>1, <1>3, Published, RowAssumption DEF LedgerInv, EntriesAreKept
  <2>2. L!Erase(q)
    BY <1>1, <1>2, <2>1, RowAssumption DEF L!Erase
  <2> QED
    BY <1>1, <2>2 DEF L!Next, L!vars
<1>4. CASE lock[q] # r
  <2>1. \A x \in Row : db'[x] = db[x]
    BY <1>1, <1>2, <1>4, Published
  <2> QED
    BY <2>1 DEF L!vars
<1> QED
  BY <1>3, <1>4

\* A COMMIT is one operation of the ledger, if it changes anything.
LEMMA CommitRefines ==
  ASSUME PartiesDiffer, IInv, IInv', LedgerInv, NEW r \in Request, pc[r] = "commit",
         CommitTxn(r)
  PROVE  L!Next \/ UNCHANGED L!vars
<1>1. DoesOneOperation(r)
  BY DEF LedgerInv, EachDoesOneOperation
<1>2. CASE call[r].kind = "transfer"
  BY <1>1, <1>2, TransferRefines DEF DoesOneOperation
<1>3. CASE call[r].kind = "setBalance"
  BY <1>1, <1>3, OverwriteRefines DEF DoesOneOperation
<1>4. CASE call[r].kind = "close"
  BY <1>1, <1>4, CloseRefines DEF DoesOneOperation
<1>5. CASE call[r].kind = "erase"
  BY <1>1, <1>5, EraseRefines DEF DoesOneOperation
<1> QED
  BY <1>2, <1>3, <1>4, <1>5, Kinds

\* A step publishes what a request that commits has done, or nothing.
LEMMA OnlyCommitPublishes ==
  ASSUME [Next]_vars
  PROVE  /\ call' = call
         /\ db' = db \/ \E r \in Request : pc[r] = "commit" /\ CommitTxn(r)
<1>1. ASSUME NEW r \in Request, Commit(r) \/ CommitUnheard(r)
      PROVE  call' = call /\ pc[r] = "commit" /\ CommitTxn(r)
  BY <1>1 DEF Commit, CommitUnheard, Raise
<1>2. ASSUME NEW r \in Request, Reject(r) \/ Accept(r) \/ Fault(r), ~CommitUnheard(r)
      PROVE  call' = call /\ db' = db
  BY <1>2 DEF Reject, Accept, Fault, Answer, Unreachable, LockTimeout, DeadlockVictim,
              ConnectionLost, RollbackTxns, Goto, Raise
<1>3. ASSUME NEW r \in Request, Serve(r), ~Commit(r)
      PROVE  call' = call /\ db' = db
  <2>1. CASE Debit(r) \/ Credit(r) \/ SetBalance(r)
    BY <2>1 DEF Debit, Credit, SetBalance, Store, Execute, Statement, Goto, Raise
  <2>2. CASE LockFirst(r) \/ LockSecond(r) \/ Insert(r) \/ Close(r) \/ Erase(r)
    BY <2>2 DEF LockFirst, LockSecond, Insert, Close, Erase, Execute, Statement, Goto, Raise
  <2>3. CASE Begin(r) \/ Rollback(r) \/ Disconnect(r)
    BY <2>3 DEF Begin, Rollback, Disconnect, RollbackTxns, Goto
  <2> QED
    BY <1>3, <2>1, <2>2, <2>3 DEF Serve
<1>4. ASSUME NEW w \in Worker, Crash(w) PROVE call' = call /\ db' = db
  BY <1>4 DEF Crash, RollbackTxns
<1>5. CASE UNCHANGED vars
  BY <1>5 DEF vars
<1> QED
  BY <1>1, <1>2, <1>3, <1>4, <1>5 DEF Next, Serve, Fault, Terminated

\* Every other step leaves what is committed as it is.
LEMMA StepRefines ==
  ASSUME PartiesDiffer
  PROVE  IInv /\ IInv' /\ LedgerInv /\ [Next]_vars => [L!Next]_(L!vars)
<1> SUFFICES ASSUME IInv, IInv', LedgerInv, [Next]_vars PROVE L!Next \/ UNCHANGED L!vars
  OBVIOUS
<1>1. ASSUME NEW r \in Request, pc[r] = "commit", CommitTxn(r)
      PROVE  L!Next \/ UNCHANGED L!vars
  BY <1>1, CommitRefines
<1>2. ASSUME db' = db PROVE UNCHANGED L!vars
  BY <1>2 DEF L!vars
<1> QED
  BY <1>1, <1>2, OnlyCommitPublishes
-----------------------------------------------------------------------------
(* The parties of a ledger row.                                            *)

\* The two tables hold the rows of transfers only.
LEMMA EntryOfTransfer ==
  ASSUME IInv, NEW q \in Request, db[q] # NoRow \/ work[q] # NoRow
  PROVE  /\ call[q].kind = "transfer"
         /\ Sender(q) \in Account /\ Receiver(q) \in Account
         /\ db[q] # NoRow => db[q].from = Sender(q)
         /\ work[q] # NoRow => work[q].from = Sender(q)
  BY CallFields DEF IInv, EntriesAreAuthorised

\* A statement that writes a row for its own transfer, erases one, or takes the
\* receiver from one when it closes that account, keeps the parties of all.
LEMMA StatementKeepsParties ==
  ASSUME IInv, PartiesAreKept, NEW r \in Request, NEW new, Statement(r, Wanted(r), new),
         UNCHANGED call,
         \A a \in Account : work[a] = NoRow => new[a] = NoRow,
         \A q \in Request : \/ new[q] \in {NoRow, work[q]}
                            \/ new[q].to = Receiver(q) /\ Receiver(q) \in Account
                            \/ /\ new[q].to = Null /\ Receiver(q) \in Account
                               /\ new[Receiver(q)] = NoRow
                               /\ lock'[q] = r /\ lock'[Receiver(q)] = r
  PROVE  PartiesAreKept'
<1> SUFFICES ASSUME NEW q \in Request PROVE KeepsItsParties(q)'
  BY DEF PartiesAreKept
<1>1. /\ db' = db /\ work' = new /\ Receiver(q)' = Receiver(q)
      /\ \A x \in Row : lock'[x] = lock[x] \/ (lock'[x] = r /\ lock[x] = Free)
  BY WantedRows DEF Statement, Available, Receiver
<1>2. KeepsItsParties(q)
  BY DEF PartiesAreKept
<1>3. db[q] # NoRow \/ work[q] # NoRow => Receiver(q) \in Account
  BY EntryOfTransfer
<1>4. Null \notin Account
  BY RowAssumption
<1>5. CASE new[q] = NoRow
  BY <1>1, <1>2, <1>5 DEF KeepsItsParties
<1>6. CASE new[q] = work[q] /\ work[q] # NoRow
  <2>1. ASSUME work[q].to = Null
        PROVE  /\ new[Receiver(q)] = NoRow
               /\ db[Receiver(q)] # NoRow => lock'[q] = lock'[Receiver(q)]
    <3>1. work[Receiver(q)] = NoRow /\ (db[Receiver(q)] # NoRow => lock[q] = lock[Receiver(q)])
      BY <2>1, <1>2, <1>6 DEF KeepsItsParties
    <3>2. db[Receiver(q)] # NoRow => lock[Receiver(q)] # Free
      BY <3>1, <1>3, <1>6 DEF IInv, UncommittedIsLocked
    <3> QED
      BY <3>1, <3>2, <1>1, <1>3, <1>6
  <2> QED
    BY <1>1, <1>2, <1>6, <2>1 DEF KeepsItsParties
<1>7. CASE new[q].to = Receiver(q) /\ Receiver(q) \in Account
  BY <1>1, <1>2, <1>4, <1>7 DEF KeepsItsParties
<1>8. CASE /\ new[q].to = Null /\ Receiver(q) \in Account /\ new[Receiver(q)] = NoRow
           /\ lock'[q] = r /\ lock'[Receiver(q)] = r
  BY <1>1, <1>2, <1>4, <1>8 DEF KeepsItsParties
<1> QED
  BY <1>5, <1>6, <1>7, <1>8

LEMMA RefuseKeepsParties ==
  ASSUME IInv, PartiesAreKept, NEW r \in Request, Statement(r, Wanted(r), work), UNCHANGED call
  PROVE  PartiesAreKept'
<1>1. \A a \in Account : work[a] = NoRow => work[a] = NoRow
  OBVIOUS
<1>2. \A q \in Request : work[q] \in {NoRow, work[q]}
  OBVIOUS
<1> QED
  BY <1>1, <1>2, StatementKeepsParties

LEMMA StoreKeepsParties ==
  ASSUME IInv, PartiesAreKept, NEW r \in Request, NEW a \in Account, NEW v, work[a] # NoRow,
         Statement(r, Wanted(r), [work EXCEPT ![a] = v]), UNCHANGED call
  PROVE  PartiesAreKept'
<1> DEFINE new == [work EXCEPT ![a] = v]
<1>1. \A b \in Account : work[b] = NoRow => new[b] = NoRow
  BY DEF IInv, TypeOK, IsTables
<1>2. \A q \in Request : new[q] \in {NoRow, work[q]}
  BY RowAssumption DEF IInv, TypeOK, IsTables
<1>3. Statement(r, Wanted(r), new)
  OBVIOUS
<1> HIDE DEF new
<1> QED
  BY <1>1, <1>2, <1>3, StatementKeepsParties

LEMMA CloseKeepsParties ==
  ASSUME IInv, PartiesAreKept, NEW r \in Request, Close(r)
  PROVE  PartiesAreKept'
<1> DEFINE new == WithoutAccount(Target(r))
<1>1. pc[r] = "close" /\ call' = call /\ Wanted(r) = {Target(r)} \cup Referring(Target(r))
  BY DEF Close, Goto, Raise, Wanted
<1>2. Target(r) \in Account
  BY <1>1, CallFields DEF IInv, StepsFitCalls
<1>3. PICK a \in Account : a = Target(r)
  BY <1>2
<1>4. CASE Statement(r, Wanted(r), work)
  BY <1>1, <1>4, RefuseKeepsParties
<1>5. CASE /\ work[a] # NoRow /\ ~Restricted(a)
           /\ Statement(r, Wanted(r), WithoutAccount(a))
  <2>1. \A b \in Account : WithoutAccount(a)[b] \in {NoRow, work[b]}
                           /\ (work[b] = NoRow => WithoutAccount(a)[b] = NoRow)
    BY RowAssumption DEF WithoutAccount
  <2>2. ASSUME NEW q \in Request, ~ (WithoutAccount(a)[q] \in {NoRow, work[q]})
        PROVE  /\ WithoutAccount(a)[q].to = Null /\ Receiver(q) \in Account
               /\ WithoutAccount(a)[Receiver(q)] = NoRow
               /\ lock'[q] = r /\ lock'[Receiver(q)] = r
    <3>1. /\ WithoutAccount(a)[q] = [work[q] EXCEPT !.to = Null]
          /\ Refers(work[q], a)
      BY <2>2, RowAssumption DEF WithoutAccount
    <3>2. work[q] # NoRow /\ work[q] \in Entry
      BY <3>1 DEF Refers, IInv, TypeOK, IsTables
    <3>3. work[q].from # a /\ work[q].to = a
      BY <1>5, <3>1, <3>2 DEF Restricted, Refers
    <3>4. a = Receiver(q)
      BY <3>2, <3>3, RowAssumption DEF PartiesAreKept, KeepsItsParties
    <3>5. WithoutAccount(a)[q].to = Null
      BY <3>1, <3>2 DEF Entry
    <3>6. WithoutAccount(a)[a] = NoRow
      BY DEF WithoutAccount
    <3>7. WithoutAccount(a)[q] # NoRow
      BY <2>2
    <3>8. q \in Wanted(r) /\ a \in Wanted(r)
      BY <1>1, <1>3, <3>1 DEF Referring
    <3>9. lock'[q] = r /\ lock'[a] = r
      BY <1>5, <3>2, <3>8 DEF Statement
    <3> QED
      BY <3>4, <3>5, <3>6, <3>9
  <2> QED
    BY <1>1, <1>5, <2>1, <2>2, StatementKeepsParties
<1> QED
  BY <1>3, <1>4, <1>5 DEF Close, Execute

LEMMA OtherStatementsKeepParties ==
  ASSUME IInv, PartiesAreKept, NEW r \in Request,
         \/ LockFirst(r) \/ LockSecond(r) \/ Debit(r) \/ Credit(r) \/ Insert(r)
         \/ SetBalance(r) \/ Erase(r)
  PROVE  PartiesAreKept'
<1>0. call' = call
  BY DEF LockFirst, LockSecond, Debit, Credit, Insert, SetBalance, Erase, Store, Goto, Raise
<1>1. CASE Statement(r, Wanted(r), work)
  BY <1>0, <1>1, RefuseKeepsParties
<1>2. CASE LockFirst(r) \/ LockSecond(r)
  BY <1>1, <1>2 DEF LockFirst, LockSecond, Execute
<1>3. CASE Debit(r) \/ Credit(r)
  <2>1. PICK a \in Account : work[a] # NoRow /\ a \in {Sender(r), Receiver(r)}
             /\ \/ Statement(r, Wanted(r), work)
                \/ \E v : Statement(r, Wanted(r), [work EXCEPT ![a] = v])
    <3>1. /\ Sender(r) \in Account /\ Receiver(r) \in Account
          /\ work[Sender(r)] # NoRow /\ work[Receiver(r)] # NoRow
      BY <1>3, TransferFacts, RowAssumption DEF Debit, Credit, Balance
    <3> QED
      BY <1>3, <3>1 DEF Debit, Credit, Store, Execute
  <2> QED
    BY <1>0, <1>1, <2>1, StoreKeepsParties
<1>4. CASE Insert(r)
  <2> DEFINE e == [from |-> Sender(r), to |-> Receiver(r), amount |-> Amount(r)]
             new == [work EXCEPT ![r] = e]
  <2>1. Statement(r, Wanted(r), new) /\ Receiver(r) \in Account
    BY <1>4, TransferFacts DEF Insert, Execute
  <2>2. \A b \in Account : work[b] = NoRow => new[b] = NoRow
    BY RowAssumption DEF IInv, TypeOK, IsTables
  <2>3. \A q \in Request : \/ new[q] \in {NoRow, work[q]}
                           \/ new[q].to = Receiver(q) /\ Receiver(q) \in Account
    <3>1. e.to = Receiver(r)
      OBVIOUS
    <3>2. \A q \in Request : new[q] = work[q] \/ (q = r /\ new[q] = e)
      BY DEF IInv, TypeOK, IsTables
    <3> HIDE DEF new, e
    <3> QED
      BY <3>1, <3>2, <2>1
  <2> HIDE DEF new
  <2> QED
    BY <1>0, <2>1, <2>2, <2>3, StatementKeepsParties
<1>5. CASE SetBalance(r)
  <2>1. Target(r) \in Account
    BY <1>5, CallFields DEF IInv, StepsFitCalls, SetBalance
  <2>2. PICK a \in Account : a = Target(r)
    BY <2>1
  <2>3. \/ Statement(r, Wanted(r), work)
        \/ work[a] # NoRow /\ \E v : Statement(r, Wanted(r), [work EXCEPT ![a] = v])
    BY <1>5, <2>2 DEF SetBalance, Counted, Store, Execute
  <2> QED
    BY <1>0, <1>1, <2>3, StoreKeepsParties
<1>6. CASE Erase(r)
  <2>1. call[r].entry \in Request
    BY <1>6, CallFields DEF IInv, StepsFitCalls, Erase
  <2>2. PICK q \in Request : q = call[r].entry
    BY <2>1
  <2> DEFINE new == [work EXCEPT ![q] = NoRow]
  <2>3. CASE Statement(r, Wanted(r), new)
    <3>1. \A b \in Account : work[b] = NoRow => new[b] = NoRow
      BY RowAssumption DEF IInv, TypeOK, IsTables
    <3>2. \A p \in Request : new[p] \in {NoRow, work[p]}
      BY DEF IInv, TypeOK, IsTables
    <3> HIDE DEF new
    <3> QED
      BY <1>0, <2>3, <3>1, <3>2, StatementKeepsParties
  <2> QED
    BY <1>1, <1>6, <2>2, <2>3 DEF Erase, Execute
<1> QED
  BY <1>2, <1>3, <1>4, <1>5, <1>6

LEMMA RollbackKeepsParties ==
  ASSUME IInv, PartiesAreKept, NEW T \in SUBSET Request, RollbackTxns(T), UNCHANGED call
  PROVE  PartiesAreKept'
<1> SUFFICES ASSUME NEW q \in Request PROVE KeepsItsParties(q)'
  BY DEF PartiesAreKept
<1>1. KeepsItsParties(q) /\ Receiver(q)' = Receiver(q) /\ db' = db
  BY DEF PartiesAreKept, Receiver, RollbackTxns
<1>2. db[q] # NoRow \/ work[q] # NoRow => Receiver(q) \in Account
  BY EntryOfTransfer
<1>3. \A x \in Row : IF lock[x] \in T THEN work'[x] = db[x] /\ lock'[x] = Free
                     ELSE work'[x] = work[x] /\ lock'[x] = lock[x]
  BY DEF RollbackTxns
<1>4. CASE lock[q] \in T
  <2>1. work'[q] = db[q]
    BY <1>3, <1>4
  <2>2. db[q] # NoRow /\ db[q].to = Null => db[Receiver(q)] = NoRow /\ work[Receiver(q)] = NoRow
    BY <1>1, <1>2 DEF KeepsItsParties, IInv, NoAccountAppears
  <2>3. db[q] # NoRow /\ db[q].to = Null => work'[Receiver(q)] = NoRow
    BY <2>2, <1>2, <1>3
  <2> QED
    BY <1>1, <2>1, <2>2, <2>3 DEF KeepsItsParties
<1>5. CASE lock[q] \notin T
  <2>1. work'[q] = work[q] /\ lock'[q] = lock[q]
    BY <1>3, <1>5
  <2>2. ASSUME work[q] # NoRow, work[q].to = Null
        PROVE  /\ work'[Receiver(q)] = NoRow
               /\ db[Receiver(q)] # NoRow => lock'[q] = lock'[Receiver(q)]
    <3>1. work[Receiver(q)] = NoRow /\ (db[Receiver(q)] # NoRow => lock[q] = lock[Receiver(q)])
      BY <2>2, <1>1 DEF KeepsItsParties
    <3> QED
      BY <2>2, <3>1, <1>2, <1>3, <1>5
  <2> QED
    BY <1>1, <2>1, <2>2 DEF KeepsItsParties
<1> QED
  BY <1>4, <1>5

LEMMA CommitKeepsParties ==
  ASSUME IInv, PartiesAreKept, NEW r \in Request, CommitTxn(r), UNCHANGED call
  PROVE  PartiesAreKept'
<1> SUFFICES ASSUME NEW q \in Request PROVE KeepsItsParties(q)'
  BY DEF PartiesAreKept
<1>1. KeepsItsParties(q) /\ Receiver(q)' = Receiver(q) /\ work' = work
  BY DEF PartiesAreKept, Receiver, CommitTxn
<1>2. db[q] # NoRow \/ work[q] # NoRow => Receiver(q) \in Account
  BY EntryOfTransfer
<1>3. \A x \in Row : IF lock[x] = r THEN db'[x] = work[x] /\ lock'[x] = Free
                     ELSE db'[x] = db[x] /\ lock'[x] = lock[x]
  BY DEF CommitTxn
<1>4. ASSUME db[Receiver(q)] = NoRow, Receiver(q) \in Account PROVE db'[Receiver(q)] = NoRow
  BY <1>3, <1>4 DEF IInv, NoAccountAppears
<1>5. ASSUME work[q] # NoRow, work[q].to = Null
      PROVE  /\ work[Receiver(q)] = NoRow
             /\ db'[Receiver(q)] # NoRow => lock[q] # r /\ lock'[q] = lock'[Receiver(q)]
  <2>1. work[Receiver(q)] = NoRow /\ (db[Receiver(q)] # NoRow => lock[q] = lock[Receiver(q)])
    BY <1>1, <1>5 DEF KeepsItsParties
  <2> QED
    BY <1>2, <1>3, <1>4, <1>5, <2>1
<1>6. db'[q] = db[q] \/ (db'[q] = work[q] /\ lock[q] = r)
  BY <1>3
<1>7. ASSUME db'[q] # NoRow, db'[q].to = Null PROVE db'[Receiver(q)] = NoRow
  <2>1. CASE db'[q] = db[q]
    BY <1>1, <1>2, <1>4, <1>7, <2>1 DEF KeepsItsParties
  <2>2. CASE db'[q] = work[q] /\ lock[q] = r
    BY <1>5, <1>7, <2>2
  <2> QED
    BY <1>6, <2>1, <2>2
<1> QED
  BY <1>1, <1>5, <1>6, <1>7 DEF KeepsItsParties

LEMMA StepKeepsParties == IInv /\ PartiesAreKept /\ [Next]_vars => PartiesAreKept'
<1> SUFFICES ASSUME IInv, PartiesAreKept, [Next]_vars PROVE PartiesAreKept'
  OBVIOUS
<1>0. UNCHANGED <<db, work, lock, call>> => PartiesAreKept'
  BY DEF PartiesAreKept, KeepsItsParties, Receiver
<1>1. ASSUME NEW r \in Request, Serve(r) PROVE PartiesAreKept'
  <2>1. CASE Commit(r)
    BY <2>1, CommitKeepsParties DEF Commit
  <2>2. CASE Rollback(r)
    BY <2>2, RollbackKeepsParties DEF Rollback, Goto
  <2>3. CASE Begin(r) \/ Disconnect(r)
    BY <2>3, <1>0 DEF Begin, Disconnect
  <2> QED
    BY <1>1, <2>1, <2>2, <2>3, OtherStatementsKeepParties, CloseKeepsParties DEF Serve
<1>2. ASSUME NEW r \in Request, Reject(r) \/ Accept(r) \/ Unreachable(r) \/ LockTimeout(r) \/ ConnectionLost(r)
      PROVE  PartiesAreKept'
  BY <1>0, <1>2 DEF Reject, Accept, Unreachable, LockTimeout, ConnectionLost, Answer, Goto, Raise
<1>3. ASSUME NEW r \in Request, DeadlockVictim(r) PROVE PartiesAreKept'
  BY <1>3, RollbackKeepsParties DEF DeadlockVictim, Raise
<1>4. ASSUME NEW r \in Request, CommitUnheard(r) PROVE PartiesAreKept'
  BY <1>4, CommitKeepsParties DEF CommitUnheard, Raise
<1>5. ASSUME NEW w \in Worker, Crash(w) PROVE PartiesAreKept'
  BY <1>5, RollbackKeepsParties DEF Crash, Active
<1>6. CASE UNCHANGED vars
  BY <1>0, <1>6 DEF vars
<1> QED
  BY <1>1, <1>2, <1>3, <1>4, <1>5, <1>6 DEF Next, Fault, Terminated
-----------------------------------------------------------------------------
(* Sums over finite sets.                                                  *)

Choice(s) == CHOOSE x \in s : TRUE

\* g adds the values F up, over each subset of U.
IsTotal(g, F, U) ==
    g = [s \in SUBSET U |-> IF s = {} THEN 0 ELSE F[Choice(s)] + g[s \ {Choice(s)}]]

\* There is no infinite descent among the subsets of a finite set.
LEMMA LeastCounterexample ==
  ASSUME NEW R, IsFiniteSet(R), NEW T, T \subseteq SUBSET R, T # {}
  PROVE  \E U \in T : \A V \in T : V \subseteq U => V = U
<1>1. IsWellFoundedOn(StrictSubsetOrdering(R), SUBSET R)
  BY FS_StrictSubsetOrderingWellFounded, FS_FiniteSubsetsOfFinite
<1>2. PICK U \in T : \A V \in T : ~ (<<V, U>> \in StrictSubsetOrdering(R))
  BY <1>1, WFMin, Zenon
<1> QED
  BY <1>2 DEF StrictSubsetOrdering

LEMMA ChoiceIn == \A s : s # {} => Choice(s) \in s
  BY DEF Choice

\* Two totals agree where both are defined.
LEMMA TotalsAgree ==
  ASSUME NEW R, IsFiniteSet(R), NEW U \in SUBSET R, NEW V \in SUBSET R, NEW F, NEW G,
         NEW g, IsTotal(g, F, U), NEW h, IsTotal(h, G, V),
         \A x \in U \cap V : F[x] = G[x],
         NEW W \in SUBSET (U \cap V)
  PROVE  g[W] = h[W]
<1> DEFINE T == {X \in SUBSET (U \cap V) : g[X] # h[X]}
<1> SUFFICES ASSUME T # {} PROVE FALSE
  OBVIOUS
<1>1. PICK X \in T : \A Y \in T : Y \subseteq X => Y = X
  <2>1. T \subseteq SUBSET R
    OBVIOUS
  <2> HIDE DEF T
  <2> QED
    BY <2>1, LeastCounterexample
<1>2. X \in SUBSET U /\ X \in SUBSET V /\ X # {}
  BY DEF IsTotal
<1>3. Choice(X) \in X
  BY <1>2, ChoiceIn
<1>4. g[X] = F[Choice(X)] + g[X \ {Choice(X)}] /\ h[X] = G[Choice(X)] + h[X \ {Choice(X)}]
  BY <1>2 DEF IsTotal
<1>5. X \ {Choice(X)} \notin T
  BY <1>1, <1>3
<1>6. g[X \ {Choice(X)}] = h[X \ {Choice(X)}] /\ F[Choice(X)] = G[Choice(X)]
  BY <1>2, <1>3, <1>5
<1> QED
  BY <1>4, <1>6

\* A finite set has a total.
LEMMA TotalExists ==
  ASSUME NEW R, IsFiniteSet(R), NEW F
  PROVE  \E g : IsTotal(g, F, R)
<1> DEFINE T == {U \in SUBSET R : ~ \E g : IsTotal(g, F, U)}
<1> SUFFICES ASSUME T # {} PROVE FALSE
  OBVIOUS
<1>1. PICK U \in T : \A V \in T : V \subseteq U => V = U
  <2>1. T \subseteq SUBSET R
    OBVIOUS
  <2> HIDE DEF T
  <2> QED
    BY <2>1, LeastCounterexample
<1> DEFINE total(V) == CHOOSE g : IsTotal(g, F, V)
           e(s) == IF s = {} THEN 0 ELSE F[Choice(s)] + total(s \ {Choice(s)})[s \ {Choice(s)}]
           h == [s \in SUBSET U |-> e(s)]
<1>2. \A V \in SUBSET U : V # U => IsTotal(total(V), F, V)
  <2> SUFFICES ASSUME NEW V \in SUBSET U, V # U PROVE IsTotal(total(V), F, V)
    OBVIOUS
  <2>1. \E g : IsTotal(g, F, V)
    BY <1>1
  <2> QED
    BY <2>1
<1>3. ASSUME NEW s \in SUBSET U, s # {} PROVE h[s \ {Choice(s)}] = total(s \ {Choice(s)})[s \ {Choice(s)}]
  <2> DEFINE V == s \ {Choice(s)}
  <2>1. V \in SUBSET U /\ V # U
    BY <1>3, ChoiceIn
  <2>2. IsTotal(total(V), F, V)
    BY <1>2, <2>1
  <2>3. CASE V = {}
    BY <2>1, <2>2, <2>3 DEF IsTotal
  <2>4. CASE V # {}
    <3> DEFINE W == V \ {Choice(V)}
    <3>1. W \in SUBSET V /\ W # U /\ W \in SUBSET U /\ V \in SUBSET R /\ W \in SUBSET R
      BY <2>1, <2>4, ChoiceIn
    <3>2. IsTotal(total(W), F, W)
      BY <1>2, <3>1
    <3>3. total(W)[W] = total(V)[W]
      <4>1. W \in SUBSET (W \cap V)
        BY <3>1
      <4> HIDE DEF W, V, total
      <4> QED
        BY <3>1, <3>2, <2>2, <4>1, TotalsAgree
    <3>4. total(V)[V] = F[Choice(V)] + total(V)[W]
      <4> HIDE DEF V, total
      <4>1. V \in SUBSET V
        OBVIOUS
      <4> QED
        BY <2>2, <2>4, <4>1 DEF IsTotal
    <3>5. h[V] = F[Choice(V)] + total(W)[W]
      <4> HIDE DEF V, total
      <4> QED
        BY <2>1, <2>4
    <3> QED
      BY <3>3, <3>4, <3>5
  <2> QED
    BY <2>3, <2>4
<1>4. h = [s \in SUBSET U |-> IF s = {} THEN 0 ELSE F[Choice(s)] + h[s \ {Choice(s)}]]
  <2>1. ASSUME NEW s \in SUBSET U
        PROVE  e(s) = IF s = {} THEN 0 ELSE F[Choice(s)] + h[s \ {Choice(s)}]
    <3> HIDE DEF h, total
    <3> QED
      BY <1>3
  <2> HIDE DEF e
  <2> QED
    BY <2>1
<1>5. IsTotal(h, F, U)
  <2> HIDE DEF h
  <2> QED
    BY <1>4 DEF IsTotal
<1> HIDE DEF h
<1> QED
  BY <1>5

\* It does not matter in which order the values are added up.
LEMMA TotalOfRest ==
  ASSUME NEW R, IsFiniteSet(R), NEW F, \A x \in R : F[x] \in Int, NEW g, IsTotal(g, F, R)
  PROVE  \A s \in SUBSET R : g[s] \in Int /\ \A x \in s : g[s] = F[x] + g[s \ {x}]
<1> DEFINE T == {s \in SUBSET R : ~ (g[s] \in Int /\ \A x \in s : g[s] = F[x] + g[s \ {x}])}
<1> SUFFICES ASSUME T # {} PROVE FALSE
  OBVIOUS
<1>1. PICK s \in T : \A Y \in T : Y \subseteq s => Y = s
  <2>1. T \subseteq SUBSET R
    OBVIOUS
  <2> HIDE DEF T
  <2> QED
    BY <2>1, LeastCounterexample
<1>2. \A t \in SUBSET R : t \subseteq s /\ t # s => g[t] \in Int /\ \A x \in t : g[t] = F[x] + g[t \ {x}]
  BY <1>1
<1>3. CASE s = {}
  BY <1>1, <1>3 DEF IsTotal
<1>4. CASE s # {}
  <2>1. PICK c \in s : c = Choice(s)
    BY <1>4, ChoiceIn
  <2>2. g[s] = F[c] + g[s \ {c}]
    BY <1>1, <1>4, <2>1 DEF IsTotal
  <2>3. g[s \ {c}] \in Int /\ F[c] \in Int /\ s \subseteq R
    BY <1>1, <1>2, <2>1
  <2>4. ASSUME NEW x \in s PROVE g[s] = F[x] + g[s \ {x}]
    <3>1. CASE x = c
      BY <2>2, <3>1
    <3>2. CASE x # c
      <4>1. (s \ {c}) \ {x} = (s \ {x}) \ {c}
        OBVIOUS
      <4>2. g[s \ {c}] = F[x] + g[(s \ {c}) \ {x}] /\ g[(s \ {c}) \ {x}] \in Int
        BY <1>2, <2>3, <3>2
      <4>3. g[s \ {x}] = F[c] + g[(s \ {x}) \ {c}]
        BY <1>2, <2>3, <3>2
      <4>4. F[x] \in Int
        BY <2>3
      <4>5. PICK m : m = g[(s \ {c}) \ {x}] /\ m = g[(s \ {x}) \ {c}]
        BY <4>1
      <4>6. PICK i, j : i = g[s \ {c}] /\ j = g[s \ {x}]
        OBVIOUS
      <4> QED
        BY <2>2, <2>3, <4>2, <4>3, <4>4, <4>5, <4>6
    <3> QED
      BY <3>1, <3>2
  <2>5. g[s] \in Int
    BY <2>2, <2>3
  <2> QED
    BY <2>4, <2>5
<1> QED
  BY <1>3, <1>4

\* The amounts of the rows S of table t, as Received and Paid add them up.
AmountsOf(t) == [q \in Request |-> t[q].amount]
SumOf(t, S) == MapThenSumSet(LAMBDA q : t[q].amount, S)

LEMMA SumIsTotal ==
  ASSUME IsFiniteSet(Request), NEW t, NEW S \in SUBSET Request
  PROVE  \E g : IsTotal(g, AmountsOf(t), S) /\ SumOf(t, S) = g[S]
<1> DEFINE Adds(g) == g = [s \in SUBSET S |->
                             IF s = {} THEN 0
                             ELSE t[CHOOSE x \in s : TRUE].amount + g[s \ {CHOOSE x \in s : TRUE}]]
<1>1. ASSUME NEW g PROVE IsTotal(g, AmountsOf(t), S) <=> Adds(g)
  <2>1. [s \in SUBSET S |-> IF s = {} THEN 0 ELSE AmountsOf(t)[Choice(s)] + g[s \ {Choice(s)}]]
        = [s \in SUBSET S |->
             IF s = {} THEN 0
             ELSE t[CHOOSE x \in s : TRUE].amount + g[s \ {CHOOSE x \in s : TRUE}]]
    BY DEF Choice, AmountsOf
  <2> QED
    BY <2>1, Zenon DEF IsTotal
<1>2. SumOf(t, S) = (CHOOSE g : Adds(g))[S]
  BY Zenon DEF SumOf, MapThenSumSet, MapThenFoldSet
<1>3. \E g : Adds(g)
  <2>1. IsFiniteSet(S)
    BY FS_Subset
  <2> HIDE DEF Adds
  <2> QED
    BY <1>1, <2>1, TotalExists
<1> HIDE DEF Adds
<1> QED
  BY <1>1, <1>2, <1>3

\* Rows with the same amounts have the same sum.
LEMMA SameSum ==
  ASSUME IsFiniteSet(Request), NEW t, NEW u, NEW S \in SUBSET Request,
         \A q \in S : t[q].amount = u[q].amount
  PROVE  SumOf(t, S) = SumOf(u, S)
<1>1. PICK g : IsTotal(g, AmountsOf(t), S) /\ SumOf(t, S) = g[S]
  BY SumIsTotal
<1>2. PICK h : IsTotal(h, AmountsOf(u), S) /\ SumOf(u, S) = h[S]
  BY SumIsTotal
<1>3. \A q \in S \cap S : AmountsOf(t)[q] = AmountsOf(u)[q]
  BY DEF AmountsOf
<1>4. S \in SUBSET (S \cap S)
  OBVIOUS
<1>5. g[S] = h[S]
  BY <1>1, <1>2, <1>3, <1>4, TotalsAgree
<1> QED
  BY <1>1, <1>2, <1>5

\* Integers have an integer sum, to which one more row adds its amount.
LEMMA OneMore ==
  ASSUME IsFiniteSet(Request), NEW t, NEW S \in SUBSET Request, \A x \in S : t[x].amount \in Int
  PROVE  /\ SumOf(t, S) \in Int
         /\ \A q \in S : SumOf(t, S) = t[q].amount + SumOf(t, S \ {q})
<1>1. PICK g : IsTotal(g, AmountsOf(t), S) /\ SumOf(t, S) = g[S]
  BY SumIsTotal
<1>2. IsFiniteSet(S) /\ \A x \in S : AmountsOf(t)[x] = t[x].amount /\ AmountsOf(t)[x] \in Int
  BY FS_Subset DEF AmountsOf
<1>3. \A s \in SUBSET S : g[s] \in Int /\ \A x \in s : g[s] = AmountsOf(t)[x] + g[s \ {x}]
  <2>1. PICK F : F = AmountsOf(t)
    OBVIOUS
  <2>2. IsTotal(g, F, S) /\ \A x \in S : F[x] \in Int
    BY <1>1, <1>2, <2>1
  <2>3. \A s \in SUBSET S : g[s] \in Int /\ \A x \in s : g[s] = F[x] + g[s \ {x}]
    BY <1>2, <2>2, TotalOfRest
  <2> QED
    BY <2>1, <2>3
<1>4. S \in SUBSET S
  OBVIOUS
<1>5. ASSUME NEW q \in S PROVE g[S \ {q}] = SumOf(t, S \ {q})
  <2>1. PICK U \in SUBSET Request : U = S \ {q}
    OBVIOUS
  <2>2. PICK h : IsTotal(h, AmountsOf(t), U) /\ SumOf(t, U) = h[U]
    BY SumIsTotal
  <2>3. \A x \in S \cap U : AmountsOf(t)[x] = AmountsOf(t)[x]
    OBVIOUS
  <2>4. U \in SUBSET (S \cap U)
    BY <2>1
  <2>5. g[U] = h[U]
    BY <1>1, <2>2, <2>3, <2>4, TotalsAgree
  <2> QED
    BY <2>1, <2>2, <2>5
<1> QED
  BY <1>1, <1>2, <1>3, <1>4, <1>5
-----------------------------------------------------------------------------
(* The balances and the ledger.                                            *)
\* The ledger rows of table t by which account a has received, and paid.
In(t, a) == {q \in Request : t[q] # NoRow /\ t[q].to = a}
OutOf(t, a) == {q \in Request : t[q] # NoRow /\ t[q].from = a}

Reconciles(start, a) ==
    IF start[a] = NoRow THEN db[a] = NoRow ELSE db[a] = start[a] + Received(a) - Paid(a)

\* What the sums add up in the committed tables, and in the next ones.
LEMMA SumsOfTables ==
  ASSUME NEW a
  PROVE  /\ Received(a) = SumOf(db, In(db, a)) /\ Paid(a) = SumOf(db, OutOf(db, a))
         /\ Received(a)' = SumOf(db', In(db', a)) /\ Paid(a)' = SumOf(db', OutOf(db', a))
  BY Zenon DEF Received, Paid, SumOf, In, OutOf, MapThenSumSet, MapThenFoldSet

LEMMA AmountsAreInt ==
  ASSUME IInv, NEW q \in Request, db[q] # NoRow
  PROVE  db[q].amount \in Int
<1>1. db[q] \in Entry /\ MaxBalance \in Nat
  BY OpeningAssumption DEF IInv, TypeOK, IsTables
<1> QED
  BY <1>1 DEF Entry

\* A COMMIT that changes neither the account nor the rows it has paid or received by.
LEMMA UntouchedReconciles ==
  ASSUME IsFiniteSet(Request), NEW start, NEW a \in Account, Reconciles(start, a),
         db'[a] = db[a], In(db', a) = In(db, a), OutOf(db', a) = OutOf(db, a),
         \A q \in In(db, a) \cup OutOf(db, a) : db'[q].amount = db[q].amount
  PROVE  Reconciles(start, a)'
<1>1. PICK t : t = db
  OBVIOUS
<1>2. PICK u : u = db'
  OBVIOUS
<1>3. PICK S : S = In(db, a)
  OBVIOUS
<1>4. PICK P : P = OutOf(db, a)
  OBVIOUS
<1>5. S \in SUBSET Request /\ P \in SUBSET Request
  BY <1>3, <1>4 DEF In, OutOf
<1>6. SumOf(t, S) = SumOf(u, S)
  BY <1>1, <1>2, <1>3, <1>5, SameSum
<1>7. SumOf(t, P) = SumOf(u, P)
  BY <1>1, <1>2, <1>4, <1>5, SameSum
<1>8. Received(a)' = Received(a) /\ Paid(a)' = Paid(a)
  <2>1. Received(a) = SumOf(t, S) /\ Paid(a) = SumOf(t, P)
    BY <1>1, <1>3, <1>4, SumsOfTables
  <2>2. Received(a)' = SumOf(u, S) /\ Paid(a)' = SumOf(u, P)
    BY <1>2, <1>3, <1>4, SumsOfTables
  <2> QED
    BY <1>6, <1>7, <2>1, <2>2
<1> QED
  BY <1>8 DEF Reconciles

\* The rows of S have in table u the amounts they have in table t.
AmountsStay(t, u, S) == \A q \in S : u[q].amount = t[q].amount /\ t[q].amount \in Int

\* What the sums become when request r has written its row, if a row is one of those
\* that are added up.
LEMMA SumAfterInsert ==
  ASSUME IsFiniteSet(Request), NEW t, NEW u, NEW S \in SUBSET Request, NEW r \in Request, r \notin S,
         AmountsStay(t, u, S), u[r].amount \in Int,
         NEW T, NEW c \in BOOLEAN, T = IF c THEN S \cup {r} ELSE S
  PROVE  /\ SumOf(t, S) \in Int
         /\ SumOf(u, T) = SumOf(t, S) + (IF c THEN u[r].amount ELSE 0)
<1>1. SumOf(u, S) = SumOf(t, S)
  BY SameSum DEF AmountsStay
<1>2. SumOf(t, S) \in Int
  BY OneMore DEF AmountsStay
<1>3. CASE ~c
  BY <1>1, <1>2, <1>3
<1>4. CASE c
  <2>1. T \in SUBSET Request /\ r \in T /\ T \ {r} = S /\ \A x \in T : u[x].amount \in Int
    BY <1>4 DEF AmountsStay
  <2>2. SumOf(u, T) = u[r].amount + SumOf(u, T \ {r})
    BY <2>1, OneMore
  <2>3. SumOf(u, T \ {r}) = SumOf(u, S)
    BY <2>1
  <2> QED
    BY <1>1, <1>2, <1>4, <2>2, <2>3
<1> QED
  BY <1>2, <1>3, <1>4

\* The COMMIT of a transfer.
LEMMA TransferReconciles ==
  ASSUME IInv, LedgerInv, IsFiniteSet(Request), NEW r \in Request, call[r].kind = "transfer",
         Recorded(r), CommitTxn(r), NEW start, start \in Opening, NEW a \in Account, start[a] # NoRow,
         Reconciles(start, a)
  PROVE  Reconciles(start, a)'
<1>1. Sender(r) \in Account /\ Receiver(r) \in Account /\ Amount(r) \in Int
  BY CallFields DEF IInv
<1>2. PICK s \in Account, t \in Account, n \in Int : s = Sender(r) /\ t = Receiver(r) /\ n = Amount(r)
  BY <1>1
<1>3. \A x \in Row : db'[x] = IF lock[x] = r THEN work[x] ELSE db[x]
  BY Published
<1>4. db[r] = NoRow /\ db'[r] = [from |-> s, to |-> t, amount |-> n] /\ db'[r] # NoRow
  BY <1>2, <1>3, RowAssumption DEF Recorded, LedgerInv, EntriesAreKept
<1>5. \A q \in Request \ {r} : db'[q] = db[q]
  BY <1>3, RowAssumption DEF LedgerInv, EntriesAreKept
<1>6. db'[r].from = s /\ db'[r].to = t /\ db'[r].amount = n
  BY <1>4
<1>7. PICK u : u = db
  OBVIOUS
<1>8. PICK v : v = db'
  OBVIOUS
<1>9. PICK S \in SUBSET Request : S = In(db, a) /\ r \notin S
  <2>1. In(db, a) \in SUBSET Request /\ r \notin In(db, a)
    BY <1>4 DEF In
  <2> QED
    BY <2>1
<1>10. PICK P \in SUBSET Request : P = OutOf(db, a) /\ r \notin P
  <2>1. OutOf(db, a) \in SUBSET Request /\ r \notin OutOf(db, a)
    BY <1>4 DEF OutOf
  <2> QED
    BY <2>1
<1>11. In(db', a) = IF t = a THEN S \cup {r} ELSE S
  BY <1>4, <1>5, <1>6, <1>9 DEF In
<1>12. OutOf(db', a) = IF s = a THEN P \cup {r} ELSE P
  BY <1>4, <1>5, <1>6, <1>10 DEF OutOf
<1>13. AmountsStay(u, v, S) /\ AmountsStay(u, v, P) /\ v[r].amount = n
  BY <1>5, <1>6, <1>7, <1>8, <1>9, <1>10, AmountsAreInt DEF In, OutOf, AmountsStay
<1>14. PICK T : T = In(db', a)
  OBVIOUS
<1>15. PICK Q : Q = OutOf(db', a)
  OBVIOUS
<1>16. SumOf(u, S) \in Int /\ SumOf(v, T) = SumOf(u, S) + (IF t = a THEN n ELSE 0)
  <2>1. PICK c \in BOOLEAN : c = (t = a)
    OBVIOUS
  <2>2. T = IF c THEN S \cup {r} ELSE S
    BY <1>11, <1>14, <2>1
  <2>3. SumOf(u, S) \in Int /\ SumOf(v, T) = SumOf(u, S) + (IF c THEN v[r].amount ELSE 0)
    <3>1. /\ S \in SUBSET Request /\ r \notin S
          /\ AmountsStay(u, v, S) /\ v[r].amount \in Int
      BY <1>9, <1>2, <1>13
    <3> QED
      BY <3>1, <2>2, SumAfterInsert
  <2> QED
    BY <1>13, <2>1, <2>3
<1>17. SumOf(u, P) \in Int /\ SumOf(v, Q) = SumOf(u, P) + (IF s = a THEN n ELSE 0)
  <2>1. PICK c \in BOOLEAN : c = (s = a)
    OBVIOUS
  <2>2. Q = IF c THEN P \cup {r} ELSE P
    BY <1>12, <1>15, <2>1
  <2>3. SumOf(u, P) \in Int /\ SumOf(v, Q) = SumOf(u, P) + (IF c THEN v[r].amount ELSE 0)
    <3>1. /\ P \in SUBSET Request /\ r \notin P
          /\ AmountsStay(u, v, P) /\ v[r].amount \in Int
      BY <1>10, <1>2, <1>13
    <3> QED
      BY <3>1, <2>2, SumAfterInsert
  <2> QED
    BY <1>13, <2>1, <2>3
<1>18. /\ Received(a) = SumOf(u, S) /\ Paid(a) = SumOf(u, P)
       /\ Received(a)' = SumOf(v, T) /\ Paid(a)' = SumOf(v, Q)
  <2>1. Received(a) = SumOf(u, S) /\ Paid(a) = SumOf(u, P)
    BY <1>7, <1>9, <1>10, SumsOfTables
  <2>2. Received(a)' = SumOf(v, T) /\ Paid(a)' = SumOf(v, Q)
    BY <1>8, <1>14, <1>15, SumsOfTables
  <2> QED
    BY <2>1, <2>2
<1>19. start[a] \in Int /\ db[a] = start[a] + SumOf(u, S) - SumOf(u, P)
  BY <1>18, OpeningAssumption DEF Reconciles, Balance
<1>20. db'[a] = db[a] - (IF a = s THEN n ELSE 0) + (IF a = t THEN n ELSE 0)
  <2>1. db[a] \in Int
    BY <1>16, <1>17, <1>19
  <2>2. lock[s] = r /\ lock[t] = r
    BY <1>2 DEF Recorded
  <2>3. lock[a] = r => work[a] = IF a \in {s, t} THEN AfterTransfer(r, a) ELSE db[a]
    BY <1>2 DEF Recorded, Transferred
  <2>4. AfterTransfer(r, a) = db[a] - (IF a = s THEN n ELSE 0) + (IF a = t THEN n ELSE 0)
    BY <1>2 DEF AfterTransfer
  <2> QED
    BY <1>3, <2>1, <2>2, <2>3, <2>4
<1>21. db'[a] = start[a] + SumOf(v, T) - SumOf(v, Q)
  BY <1>16, <1>17, <1>19, <1>20
<1> QED
  BY <1>18, <1>21 DEF Reconciles

\* The COMMIT of an administrator's request that leaves the account alone.
LEMMA AdminReconciles ==
  ASSUME IInv, LedgerInv, PartiesAreKept, IsFiniteSet(Request),
         NEW r \in Request, pc[r] = "commit", CommitTxn(r), call[r].kind # "transfer",
         NEW start, NEW a \in Account, LeftAlone(a), Reconciles(start, a)
  PROVE  Reconciles(start, a)'
<1>1. \A x \in Row : db'[x] = IF lock[x] = r THEN work[x] ELSE db[x]
  BY Published
<1>2. DoesOneOperation(r)
  BY DEF LedgerInv, EachDoesOneOperation
<1>3. CASE call[r].kind = "setBalance"
  <2>1. Target(r) # a /\ \A x \in Row : lock[x] = r => x = Target(r)
    BY <1>2, <1>3 DEF LeftAlone, DoesOneOperation, Overwritten
  <2>2. Target(r) \in Account
    BY <1>3, CallFields DEF IInv
  <2>3. db'[a] = db[a] /\ \A q \in Request : db'[q] = db[q]
    BY <1>1, <2>1, <2>2, RowAssumption
  <2>4. In(db', a) = In(db, a) /\ OutOf(db', a) = OutOf(db, a)
    BY <2>3 DEF In, OutOf
  <2>5. \A q \in In(db, a) \cup OutOf(db, a) : db'[q].amount = db[q].amount
    BY <2>3 DEF In, OutOf
  <2> QED
    BY <2>3, <2>4, <2>5, UntouchedReconciles
<1>4. CASE call[r].kind = "close"
  <2>1. Target(r) \in Account
    BY <1>4, CallFields DEF IInv
  <2>2. PICK b \in Account : b = Target(r)
    BY <2>1
  <2>3. /\ \A q \in Request : db[q] # NoRow => db[q].from # b
        /\ \A x \in Row \ {b} : lock[x] = r =>
              x \in Request /\ work[x] = [db[x] EXCEPT !.to = Null] /\ Refers(db[x], b)
        /\ a # b
    BY <1>2, <1>4, <2>2 DEF LeftAlone, DoesOneOperation, Closed
  <2>4. db'[a] = db[a]
    BY <1>1, <2>3, RowAssumption
  <2>5. ASSUME NEW q \in Request, db'[q] # db[q]
        PROVE  /\ db[q] # NoRow /\ db'[q] # NoRow /\ db'[q].to # a /\ db[q].to # a
               /\ db'[q].from = db[q].from /\ db'[q].amount = db[q].amount
    <3>1. lock[q] = r /\ db'[q] = work[q] /\ q # b
      BY <1>1, <2>5, RowAssumption
    <3>2. db'[q] = [db[q] EXCEPT !.to = Null] /\ Refers(db[q], b)
      BY <2>3, <3>1
    <3>3. db[q] # NoRow /\ db[q].to = b /\ db[q] \in Entry
      BY <2>3, <3>2 DEF Refers, IInv, TypeOK, IsTables
    <3>4. PICK e \in Entry : e = db[q]
      BY <3>3
    <3>5. [e EXCEPT !.to = Null] \in Entry
      BY DEF Entry
    <3>6. [e EXCEPT !.to = Null].to = Null /\ [e EXCEPT !.to = Null].from = e.from
          /\ [e EXCEPT !.to = Null].amount = e.amount
      BY DEF Entry
    <3> QED
      BY <2>3, <3>2, <3>3, <3>4, <3>5, <3>6, RowAssumption
  <2>6. In(db', a) = In(db, a) /\ OutOf(db', a) = OutOf(db, a)
    BY <2>5 DEF In, OutOf
  <2>7. \A q \in In(db, a) \cup OutOf(db, a) : db'[q].amount = db[q].amount
    BY <2>5 DEF In, OutOf
  <2> QED
    BY <2>4, <2>6, <2>7, UntouchedReconciles
<1>5. CASE call[r].kind = "erase"
  <2>1. call[r].entry \in Request
    BY <1>5, CallFields DEF IInv
  <2>2. PICK e \in Request : e = call[r].entry
    BY <2>1
  <2>3. \A x \in Row : lock[x] = r => x = e /\ work[x] = NoRow
    BY <1>2, <1>5, <2>2 DEF DoesOneOperation, Erased
  <2>4. db'[a] = db[a] /\ (\A q \in Request \ {e} : db'[q] = db[q]) /\ db'[e] \in {db[e], NoRow}
    BY <1>1, <2>2, <2>3, RowAssumption
  <2>5. ASSUME db[e] # NoRow PROVE db[e].from # a /\ db[e].to # a
    <3>1. call[e].kind = "transfer" /\ db[e].from = Sender(e)
      BY <2>5, EntryOfTransfer
    <3>2. db[e].to \in {Receiver(e), Null}
      BY <2>5 DEF PartiesAreKept, KeepsItsParties
    <3>3. a \notin {Sender(e), Receiver(e)}
      BY <1>5, <2>2, <3>1 DEF LeftAlone
    <3> QED
      BY <3>1, <3>2, <3>3, RowAssumption
  <2>6. In(db', a) = In(db, a) /\ OutOf(db', a) = OutOf(db, a)
    BY <2>4, <2>5 DEF In, OutOf
  <2>7. \A q \in In(db, a) \cup OutOf(db, a) : db'[q].amount = db[q].amount
    BY <2>4, <2>5 DEF In, OutOf
  <2> QED
    BY <2>4, <2>6, <2>7, UntouchedReconciles
<1> QED
  BY <1>3, <1>4, <1>5, Kinds

LEMMA StepReconciles ==
  ASSUME IsFiniteSet(Request), IInv, LedgerInv, PartiesAreKept, BalancesReconcile, [Next]_vars
  PROVE  BalancesReconcile'
<1>1. PICK start \in Opening : \A a \in Account : LeftAlone(a) => Reconciles(start, a)
  BY DEF BalancesReconcile, Reconciles
<1>2. call' = call
  BY OnlyCommitPublishes
<1>3. ASSUME NEW a \in Account PROVE LeftAlone(a)' <=> LeftAlone(a)
  BY <1>2 DEF LeftAlone, Target, Sender, Receiver
<1>4. ASSUME NEW a \in Account, LeftAlone(a) PROVE Reconciles(start, a)'
  <2>0. Reconciles(start, a)
    BY <1>1, <1>4
  <2>1. CASE db' = db
    <3>1. /\ db'[a] = db[a] /\ In(db', a) = In(db, a) /\ OutOf(db', a) = OutOf(db, a)
          /\ \A q \in In(db, a) \cup OutOf(db, a) : db'[q].amount = db[q].amount
      BY <2>1
    <3> QED
      BY <2>0, <3>1, UntouchedReconciles
  <2>2. CASE \E r \in Request : pc[r] = "commit" /\ CommitTxn(r)
    <3>1. PICK r \in Request : pc[r] = "commit" /\ CommitTxn(r)
      BY <2>2
    <3>2. CASE start[a] = NoRow
      <4>1. db[a] = NoRow /\ work[a] = NoRow
        BY <2>0, <3>2 DEF Reconciles, IInv, NoAccountAppears
      <4>2. db'[a] = NoRow
        BY <3>1, <4>1, Published
      <4> QED
        BY <3>2, <4>2 DEF Reconciles
    <3>3. CASE start[a] # NoRow /\ call[r].kind = "transfer"
      <4>1. Recorded(r)
        BY <3>1, <3>3 DEF LedgerInv, EachDoesOneOperation, DoesOneOperation
      <4> QED
        BY <2>0, <3>1, <3>3, <4>1, TransferReconciles
    <3>4. CASE call[r].kind # "transfer"
      BY <1>4, <2>0, <3>1, <3>4, AdminReconciles
    <3> QED
      BY <3>2, <3>3, <3>4
  <2> QED
    BY <2>1, <2>2, OnlyCommitPublishes
<1> QED
  BY <1>1, <1>3, <1>4 DEF BalancesReconcile, Reconciles

LEMMA InitReconciles ==
  ASSUME IsFiniteSet(Request), Init
  PROVE  PartiesAreKept /\ BalancesReconcile
<1>1. PICK start \in Opening : db = [x \in Row |-> IF x \in Account THEN start[x] ELSE NoRow]
  BY DEF Init, Opened
<1>2. /\ \A a \in Account : db[a] = start[a]
      /\ \A q \in Request : db[q] = NoRow
      /\ work = db
  BY <1>1, RowAssumption DEF Init, Opened
<1>3. PartiesAreKept
  BY <1>2 DEF PartiesAreKept, KeepsItsParties
<1>4. ASSUME NEW a \in Account, start[a] # NoRow PROVE db[a] = start[a] + Received(a) - Paid(a)
  <2>1. PICK S \in SUBSET Request : S = {}
    OBVIOUS
  <2>2. In(db, a) = S /\ OutOf(db, a) = S
    BY <1>2, <2>1 DEF In, OutOf
  <2>3. PICK u : u = db
    OBVIOUS
  <2>4. PICK g : IsTotal(g, AmountsOf(u), S) /\ SumOf(u, S) = g[S]
    BY SumIsTotal
  <2>5. SumOf(u, S) = 0
    BY <2>1, <2>4 DEF IsTotal
  <2>6. Received(a) = 0 /\ Paid(a) = 0
    BY <2>2, <2>3, <2>5, SumsOfTables
  <2>7. start[a] \in Int
    BY <1>4, OpeningAssumption DEF Balance
  <2> QED
    BY <1>2, <2>6, <2>7
<1>5. \A a \in Account : IF start[a] = NoRow THEN db[a] = NoRow
                         ELSE db[a] = start[a] + Received(a) - Paid(a)
  BY <1>2, <1>4
<1> QED
  BY <1>3, <1>5 DEF BalancesReconcile
-----------------------------------------------------------------------------
(* Deadlocks.                                                              *)

Lowest(r) == LockOrder(call[r])[1]
Highest(r) == LockOrder(call[r])[2]

\* Only a transfer that has locked its first account and wants its second is both
\* waiting and waited for.
LEMMA OnlySecondLocksWait ==
  ASSUME IInv, LedgerInv, NEW p \in Request, NEW q \in Request,
         q \in WaitsFor(p), WaitsFor(q) # {}
  PROVE  /\ pc[q] = "lock2" /\ lock[First(q)] = q
         /\ \E x \in Wanted(p) : lock[x] = q /\ x = First(q)
<1>1. PICK x \in Wanted(p) : lock[x] = q
  BY DEF WaitsFor, Holders
<1>2. x \in Row
  BY WantedRows
<1>3. Wanted(q) # {}
  BY DEF WaitsFor, Holders
<1>4. pc[q] \in Statements
  BY <1>3 DEF Wanted, Statements
<1>5. DoesOneOperation(q)
  BY DEF LedgerInv, EachDoesOneOperation
<1>6. pc[q] \notin {"lock1", "setBalance", "close", "erase"}
  BY <1>1, <1>2, <1>5 DEF DoesOneOperation, NothingLocked
<1>7. pc[q] \notin {"debit", "credit", "insert"}
  <2>1. CASE pc[q] \in {"debit", "credit"}
    <3>1. Wanted(q) \subseteq {Sender(q), Receiver(q)}
      BY <2>1 DEF Wanted
    <3>2. lock[Sender(q)] = q /\ lock[Receiver(q)] = q
      BY <2>1, HasLocked
    <3> QED
      BY <3>1, <3>2 DEF WaitsFor, Holders
  <2>2. CASE pc[q] = "insert"
    <3>1. Wanted(q) = {q} /\ lock[q] = Free
      BY <1>4, <2>2, NotRecordedYet DEF Wanted
    <3> QED
      BY <3>1 DEF WaitsFor, Holders
  <2> QED
    BY <2>1, <2>2
<1>8. pc[q] = "lock2"
  BY <1>4, <1>6, <1>7 DEF Statements
<1>9. x = First(q)
  BY <1>1, <1>2, <1>5, <1>8 DEF DoesOneOperation, OnlyFirstLocked
<1> QED
  BY <1>1, <1>8, <1>9

\* Whoever waits and is waited for has locked a lower id than the one it waits for
\* has locked.
LEMMA WaitsUpwards ==
  ASSUME IInv, LedgerInv, SpelledApart,
         NEW o \in Request, NEW p \in Request, NEW q \in Request,
         p \in WaitsFor(o), q \in WaitsFor(p), WaitsFor(q) # {}
  PROVE  Lowest(p) \in Int /\ Lowest(q) \in Int /\ Lowest(p) < Lowest(q)
<1>1. pc[p] = "lock2" /\ lock[First(p)] = p
  BY OnlySecondLocksWait
<1>2. pc[q] = "lock2" /\ \E x \in Wanted(p) : lock[x] = q /\ x = First(q)
  BY OnlySecondLocksWait
<1>3. lock[Second(p)] = q /\ Second(p) = First(q) /\ p # q
  BY <1>1, <1>2 DEF Wanted, WaitsFor, Holders
<1>4. ASSUME NEW r \in {p, q}
      PROVE  /\ Lowest(r) \in Id /\ Highest(r) \in Id
             /\ Lowest(r) \in Int /\ Highest(r) \in Int /\ Lowest(r) < Highest(r)
  <2>1. call[r].kind = "transfer" /\ ~Malformed(call[r])
    BY <1>1, <1>2 DEF IInv, StepsFitCalls, TransferStatements
  <2>2. call[r].sender \in Id /\ call[r].receiver \in Id
    BY <2>1, CallAssumption
       DEF IInv, TypeOK, TransferCall, SetBalanceCall, CloseCall, EraseCall
  <2>3. call[r].sender \in Int /\ call[r].receiver \in Int
    BY <2>2, IdAssumption
  <2>4. call[r].sender # call[r].receiver
    BY <2>1 DEF Malformed
  <2>5. \/ /\ call[r].sender < call[r].receiver
           /\ Lowest(r) = call[r].sender /\ Highest(r) = call[r].receiver
        \/ /\ call[r].receiver < call[r].sender
           /\ Lowest(r) = call[r].receiver /\ Highest(r) = call[r].sender
    BY <2>3, <2>4 DEF Lowest, Highest, LockOrder
  <2> QED
    BY <2>2, <2>3, <2>5
<1>5. /\ First(p) = RowOf[Lowest(p)] /\ Second(p) = RowOf[Highest(p)]
      /\ First(q) = RowOf[Lowest(q)]
  BY DEF First, Second, Lowest, Highest
<1>6. RowOf[Lowest(p)] # RowOf[Highest(p)] /\ RowOf[Lowest(q)] = RowOf[Highest(p)]
  BY <1>1, <1>3, <1>5
<1>7. ~(Lowest(q) <= Lowest(p))
  <2>1. Lowest(p) <= Highest(p)
    BY <1>4
  <2> QED
    BY <1>4, <1>6, <2>1 DEF SpelledApart
<1> QED
  BY <1>4, <1>7

\* Among finitely many requests that all wait for one another, some would have
\* locked the highest id.
LEMMA NoCycle ==
  ASSUME IInv, LedgerInv, SpelledApart, IsFiniteSet(Request)
  PROVE  NoDeadlock
<1> SUFFICES ASSUME NEW r \in Request, Deadlocked(r) PROVE FALSE
  BY DEF NoDeadlock
<1>1. PICK S \in SUBSET Request :
        /\ r \in S
        /\ \A q \in S : WaitsFor(q) \cap S # {} /\ \E p \in S : q \in WaitsFor(p)
  BY DEF Deadlocked
<1>2. \A p \in S : \E q \in S : Lowest(p) \in Int /\ Lowest(q) \in Int /\ Lowest(p) < Lowest(q)
  <2> TAKE p \in S
  <2>1. PICK o \in S : p \in WaitsFor(o)
    BY <1>1
  <2>2. PICK q \in S : q \in WaitsFor(p)
    BY <1>1
  <2>3. WaitsFor(q) # {}
    BY <1>1
  <2> QED
    BY <2>1, <2>2, <2>3, WaitsUpwards
<1> DEFINE Above(p) == {q \in S : Lowest(q) > Lowest(p)}
           Aboves == {Above(p) : p \in S}
<1>3. IsFiniteSet(S) /\ \A p \in S : Above(p) \in FiniteSubsetsOf(S)
  BY FS_Subset DEF FiniteSubsetsOf
<1>4. PICK least \in Aboves : \A other \in Aboves : <<other, least>> \notin StrictSubsetOrdering(S)
  <2>1. Above(r) \in Aboves /\ Aboves \subseteq FiniteSubsetsOf(S)
    BY <1>1, <1>3
  <2>2. IsWellFoundedOn(StrictSubsetOrdering(S), FiniteSubsetsOf(S))
    BY FS_StrictSubsetOrderingWellFounded
  <2> HIDE DEF Aboves
  <2> QED
    BY <2>1, <2>2, WFMin
<1>5. PICK p \in S : least = Above(p)
  OBVIOUS
<1>6. PICK q \in S : Lowest(p) \in Int /\ Lowest(q) \in Int /\ Lowest(p) < Lowest(q)
  BY <1>2
<1>7. Above(q) \subseteq Above(p) /\ q \in Above(p) /\ q \notin Above(q)
  <2>1. \A s \in S : Lowest(s) \in Int
    BY <1>2
  <2> QED
    BY <1>6, <2>1
<1>8. <<Above(q), Above(p)>> \in StrictSubsetOrdering(S)
  BY <1>7 DEF StrictSubsetOrdering
<1> QED
  BY <1>4, <1>5, <1>8
-----------------------------------------------------------------------------
(* The theorems.                                                           *)

\* The two invariants hold together throughout.
LEMMA InvariantsHold == Spec => [](IInv /\ LedgerInv)
<1>1. Init => IInv /\ LedgerInv
  BY InitInv, InitLedger
<1>2. (IInv /\ LedgerInv) /\ [Next]_vars => (IInv /\ LedgerInv)'
  BY StepInv, StepLedger
<1> QED
  BY <1>1, <1>2, PTL DEF Spec

\* Whatever requests there are and whatever fails, what a unit of work
\* (uow.unit_of_work) has changed and locked at each of its steps is what its code
\* up to there says.
THEOREM LedgerInvariance == Spec => []UnitsOfWorkAreSound
<1>1. IInv /\ LedgerInv => UnitsOfWorkAreSound
  BY DEF UnitsOfWorkAreSound
<1> QED
  BY <1>1, InvariantsHold, PTL

\* A client is told that its transfer succeeded only when the ledger has it, and
\* that it failed only when the ledger has not, unless a connection or a worker
\* was lost.
THEOREM AnswersAreTrue == Spec => []AnswerMatchesLedger
<1>1. IInv /\ LedgerInv => AnswerMatchesLedger
  BY DEF LedgerInv
<1> QED
  BY <1>1, InvariantsHold, PTL

\* No ledger row, committed or not, refers to an account that is not there.
THEOREM ReferencesHold == Spec => []LedgerRefersToAccounts
<1>1. ASSUME IInv, LedgerInv PROVE LedgerRefersToAccounts
  <2> SUFFICES ASSUME NEW t \in {db, work}, NEW q \in Request, t[q] # NoRow
               PROVE  t[t[q].from] # NoRow /\ (t[q].to # Null => t[t[q].to] # NoRow)
    BY DEF LedgerRefersToAccounts
  <2>1. t[q].from \in Account /\ t[q].to \in Account \cup {Null}
    BY <1>1 DEF IInv, TypeOK, IsTables, Entry
  <2>2. \A a \in Account : Refers(t[q], a) => t[a] # NoRow
    BY <1>1 DEF LedgerInv, ReferencesAreFirm
  <2> QED
    BY <2>1, <2>2 DEF Refers
<1> QED
  BY <1>1, InvariantsHold, PTL

\* Requests that take their row locks one statement at a time, and fail anywhere,
\* do what Ledger does at once or not at all, as long as no client sends two
\* spellings of one account as the parties of a transfer (transaction_service.py:30).
THEOREM Refinement ==
  ASSUME PartiesDiffer
  PROVE  Spec => ImplementsLedger
<1>1. IInv /\ IInv' /\ LedgerInv /\ [Next]_vars => [L!Next]_(L!vars)
  BY StepRefines
<1>2. Init => L!Init
  BY InitRefines
<1> QED
  BY <1>1, <1>2, InvariantsHold, PTL DEF Spec, ImplementsLedger, L!Spec

\* However many transfers run, with whatever the administrator runs beside them,
\* no requests wait for each other in a circle: accounts are locked in the order
\* of their ids (transaction_service.py:8-9), as long as that is an order of rows.
THEOREM DeadlockFreedom ==
  ASSUME SpelledApart, IsFiniteSet(Request)
  PROVE  Spec => []NoDeadlock
<1>1. IInv /\ LedgerInv => NoDeadlock
  BY NoCycle
<1> QED
  BY <1>1, InvariantsHold, PTL

\* No step loses or makes money: whatever transfers, faults and administrators there are,
\* the balance of an account that administrators leave alone is what the ledger says
\* (transaction_service.transfer).
THEOREM Reconciliation ==
  ASSUME IsFiniteSet(Request)
  PROVE  Spec => []BalancesReconcile
<1>1. Init => PartiesAreKept /\ BalancesReconcile
  BY InitReconciles
<1>2. /\ IInv /\ LedgerInv /\ PartiesAreKept /\ BalancesReconcile /\ [Next]_vars
      => (PartiesAreKept /\ BalancesReconcile)'
  BY StepReconciles, StepKeepsParties
<1> QED
  BY <1>1, <1>2, InvariantsHold, PTL DEF Spec
=============================================================================
