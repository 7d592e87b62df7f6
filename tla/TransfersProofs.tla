-------------------------- MODULE TransfersProofs ---------------------------
EXTENDS TransfersInv, TLAPS

USE DEF Row

-----------------------------------------------------------------------------
(* What a request asks for.                                                *)

\* quantize rounds to whole cents, and an amount above nothing stays no less.
LEMMA QuantizeInt == ASSUME NEW x \in Int PROVE Quantize(x) \in Int
  BY DEF Quantize

\* The fields of each kind of request.
LEMMA CallFields ==
  ASSUME TypeOK, NEW r \in Request
  PROVE  /\ call[r].kind = "transfer" =>
              /\ Sender(r) \in Account /\ Receiver(r) \in Account
              /\ First(r) \in Account /\ Second(r) \in Account
              /\ {First(r), Second(r)} = {Sender(r), Receiver(r)}
              /\ Amount(r) \in Int
         /\ call[r].kind = "setBalance" =>
              Target(r) \in Account /\ Quantize(call[r].balance) \in Int
         /\ call[r].kind = "close" => Target(r) \in Account
         /\ call[r].kind = "erase" => call[r].entry \in Request
<1>1. call[r] \in TransferCall \cup SetBalanceCall \cup CloseCall \cup EraseCall
  BY CallAssumption DEF TypeOK
<1>2. ASSUME call[r].kind = "transfer"
      PROVE  /\ Sender(r) \in Account /\ Receiver(r) \in Account
             /\ First(r) \in Account /\ Second(r) \in Account
             /\ {First(r), Second(r)} = {Sender(r), Receiver(r)}
             /\ Amount(r) \in Int
  <2>1. call[r].sender \in Id /\ call[r].receiver \in Id /\ call[r].amount \in Int
    BY <1>1, <1>2 DEF TransferCall, SetBalanceCall, CloseCall, EraseCall
  <2>2. \/ First(r) = Sender(r) /\ Second(r) = Receiver(r)
        \/ First(r) = Receiver(r) /\ Second(r) = Sender(r)
    BY DEF LockOrder, First, Second, Sender, Receiver
  <2>3. Sender(r) \in Account /\ Receiver(r) \in Account /\ Amount(r) \in Int
    BY <2>1, IdAssumption, QuantizeInt DEF Sender, Receiver, Amount
  <2> QED
    BY <2>2, <2>3
<1>3. ASSUME call[r].kind = "setBalance"
      PROVE  Target(r) \in Account /\ Quantize(call[r].balance) \in Int
  BY <1>1, <1>3, IdAssumption, QuantizeInt
     DEF TransferCall, SetBalanceCall, CloseCall, EraseCall, Target
<1>4. ASSUME call[r].kind = "close" PROVE Target(r) \in Account
  BY <1>1, <1>4, IdAssumption DEF TransferCall, SetBalanceCall, CloseCall, EraseCall, Target
<1>5. ASSUME call[r].kind = "erase" PROVE call[r].entry \in Request
  BY <1>1, <1>5 DEF TransferCall, SetBalanceCall, CloseCall, EraseCall
<1> QED
  BY <1>2, <1>3, <1>4, <1>5

\* A statement locks rows of the tables.
LEMMA WantedRows ==
  ASSUME IInv, NEW r \in Request
  PROVE  Wanted(r) \subseteq Row
  BY CallFields DEF IInv, StepsFitCalls, TransferStatements, Wanted, Referring
-----------------------------------------------------------------------------
(* What the engine's steps keep.                                           *)

\* A statement touches no row that another request has locked, and has locked
\* whatever it changes, so it keeps the invariant if its own request is well off.
LEMMA StatementStep ==
  ASSUME IInv,
         NEW r \in Request, pc[r] \in Statements,
         NEW new, IsTables(new), \A x \in Row \ Wanted(r) : new[x] = work[x],
         \A q \in Request : new[q] \notin {NoRow, work[q]} =>
            call[q].kind = "transfer" /\ new[q].from = Sender(q) /\ Authorised(q),
         \A a \in Account : work[a] = NoRow => new[a] = NoRow,
         Statement(r, Wanted(r), new),
         NEW step \in {"lock2", "debit", "credit", "insert", "commit", "rollback"},
         pc' = [pc EXCEPT ![r] = step],
         step \in TransferStatements => pc[r] \in TransferStatements,
         UNCHANGED <<call, leased>>,
         outcome' \in [Request -> Outcomes], OverdraftsDeclinedCleanly',
         HasItsAccounts(r)'
  PROVE  IInv'
<1> USE DEF IInv, TypeOK
<1>1. lock' \in [Row -> Request \cup {Free}]
  BY DEF Statement
<1>2. \A x \in Row : lock'[x] # lock[x] => lock'[x] = r
  BY DEF Statement
<1>3. IsTables(db)' /\ IsTables(work)'
  BY DEF Statement, IsTables
<1>4. /\ call' \in [Request -> Call] /\ leased' \in SUBSET Request
      /\ pc' \in [Request -> Steps]
  BY DEF Steps, InUnitOfWork, Statements
<1>5. UncommittedIsLocked' /\ NoAccountAppears'
  BY RowAssumption DEF Statement, Available, UncommittedIsLocked, NoAccountAppears
<1>6. r \in leased
  BY DEF LeasedInside, InUnitOfWork
<1>7. LocksAreHeld'
  <2> SUFFICES ASSUME NEW x \in Row, lock'[x] # Free
               PROVE  pc'[lock'[x]] \in Statements \cup {"commit", "rollback"} /\ lock'[x] \in leased
    BY DEF LocksAreHeld
  <2>1. CASE lock'[x] = r
    BY <2>1, <1>6 DEF Statements
  <2>2. CASE lock'[x] # r
    BY <2>2, <1>1, <1>2 DEF LocksAreHeld
  <2> QED
    BY <2>1, <2>2
<1>8. LeasedInside' /\ StepsFitCalls'
  <2>1. ~Malformed(call[r])
    BY DEF StepsFitCalls, Statements, TransferStatements, Malformed
  <2> QED
    BY <2>1 DEF LeasedInside, StepsFitCalls, InUnitOfWork, Statements, TransferStatements
<1>9. ASSUME NEW q \in Request \ {r} PROVE HasItsAccounts(q)'
  <2>1. pc'[q] = pc[q] /\ call'[q] = call[q]
    OBVIOUS
  <2>2. ASSUME NEW x \in Row, lock[x] = q PROVE lock'[x] = q /\ work'[x] = work[x]
    BY <2>2, RowAssumption DEF Statement, Available
  <2>3. pc[q] \in {"lock2", "debit", "credit", "insert"} =>
          Sender(q) \in Row /\ Receiver(q) \in Row /\ First(q) \in Row
    BY CallFields DEF StepsFitCalls, TransferStatements
  <2>4. db' = db
    BY DEF Statement
  <2> QED
    BY <2>1, <2>2, <2>3, <2>4
       DEF AccountsAreLocked, HasItsAccounts, Sender, Receiver, First, Authorised, Amount
<1>10. EntriesAreAuthorised'
  BY DEF EntriesAreAuthorised, Statement, Sender, Authorised
<1> QED
  BY <1>1, <1>3, <1>4, <1>5, <1>7, <1>8, <1>9, <1>10 DEF AccountsAreLocked

\* COMMIT and ROLLBACK leave the rows of other requests alone, and no lock of
\* their own: they keep what is said of the tables.
LEMMA ReleaseStep ==
  ASSUME IInv, NEW T \in SUBSET Request,
         RollbackTxns(T) \/ \E r \in Request : T = {r} /\ CommitTxn(r),
         UNCHANGED call
  PROVE  /\ IsTables(db)' /\ IsTables(work)'
         /\ lock' \in [Row -> Request \cup {Free}]
         /\ UncommittedIsLocked' /\ NoAccountAppears' /\ EntriesAreAuthorised'
         /\ \A x \in Row : lock'[x] # Free => lock'[x] = lock[x] /\ lock[x] \notin T
         /\ \A q \in Request \ T : pc'[q] = pc[q] => HasItsAccounts(q)'
<1> USE RowAssumption DEF IInv, TypeOK
<1> DEFINE Released ==
      /\ lock' = [x \in Row |-> IF lock[x] \in T THEN Free ELSE lock[x]]
      /\ \A x \in Row : lock[x] \notin T => db'[x] = db[x] /\ work'[x] = work[x]
      /\ \A x \in Row : lock[x] \in T => work'[x] = db'[x] /\ work'[x] \in {db[x], work[x]}
      /\ db' = [x \in Row |-> db'[x]] /\ work' = [x \in Row |-> work'[x]]
<1>1. Released
  <2>1. CASE RollbackTxns(T)
    BY <2>1 DEF RollbackTxns, IsTables
  <2>2. ASSUME NEW r \in Request, T = {r}, CommitTxn(r)
        PROVE  Released
    <3>1. \A x \in Row : lock[x] \in T <=> lock[x] = r
      BY <2>2
    <3>2. /\ db' = [x \in Row |-> IF lock[x] \in T THEN work[x] ELSE db[x]]
          /\ lock' = [x \in Row |-> IF lock[x] \in T THEN Free ELSE lock[x]]
          /\ work' = work
      BY <2>2, <3>1 DEF CommitTxn
    <3> QED
      BY <3>2 DEF IsTables
  <2> QED
    BY <2>1, <2>2
<1>2. IsTables(db)' /\ IsTables(work)'
  BY <1>1 DEF IsTables
<1>3. lock' \in [Row -> Request \cup {Free}]
  BY <1>1
<1>4. UncommittedIsLocked' /\ NoAccountAppears' /\ EntriesAreAuthorised'
  BY <1>1 DEF UncommittedIsLocked, NoAccountAppears, EntriesAreAuthorised, Sender, Authorised
<1>5. \A x \in Row : lock'[x] # Free => lock'[x] = lock[x] /\ lock[x] \notin T
  BY <1>1
<1>6. ASSUME NEW q \in Request \ T, pc'[q] = pc[q] PROVE HasItsAccounts(q)'
  <2>1. pc[q] \in {"lock2", "debit", "credit", "insert"} =>
          Sender(q) \in Account /\ Receiver(q) \in Account /\ First(q) \in Account
    BY CallFields DEF StepsFitCalls, TransferStatements
  <2>2. \A a \in Account : db[a] = NoRow => db'[a] = NoRow
    BY <1>1 DEF NoAccountAppears
  <2> QED
    BY <1>1, <1>6, <2>1, <2>2
       DEF AccountsAreLocked, HasItsAccounts, Sender, Receiver, First, Authorised, Amount
<1> QED
  BY <1>2, <1>3, <1>4, <1>5, <1>6
-----------------------------------------------------------------------------
(* Induction.                                                              *)

\* No request has begun: nothing is locked, leased or written.
LEMMA InitInv == Init => IInv
<1> SUFFICES ASSUME Init PROVE IInv
  OBVIOUS
<1> USE RowAssumption, OpeningAssumption
<1>0. PICK start \in Opening :
        Opened([x \in Row |-> IF x \in Account THEN start[x] ELSE NoRow])
  BY DEF Init
<1>1. start \in [Account -> Balance \cup {NoRow}]
  OBVIOUS
<1>2. TypeOK
  <2>1. IsTables(db) /\ IsTables(work)
    BY <1>0, <1>1 DEF Opened, IsTables
  <2>2. lock \in [Row -> Request \cup {Free}]
    BY <1>0 DEF Opened
  <2> QED
    BY <2>1, <2>2 DEF Init, TypeOK, Steps, Outcomes
<1>3. UncommittedIsLocked /\ LocksAreHeld /\ NoAccountAppears
  BY <1>0 DEF Opened, UncommittedIsLocked, LocksAreHeld, NoAccountAppears
<1>4. LeasedInside /\ StepsFitCalls /\ AccountsAreLocked
  BY DEF Init, LeasedInside, StepsFitCalls, AccountsAreLocked, HasItsAccounts, InUnitOfWork, Statements,
         TransferStatements
<1>5. EntriesAreAuthorised
  BY <1>0, <1>1 DEF Opened, EntriesAreAuthorised
<1>6. OverdraftsDeclinedCleanly
  BY DEF Init, OverdraftsDeclinedCleanly
<1> QED
  BY <1>2, <1>3, <1>4, <1>5, <1>6 DEF IInv

\* accounts.lock(conn, first) gives the transfer its first account, if it is there.
LEMMA LockFirstInv == ASSUME IInv, NEW r \in Request, LockFirst(r) PROVE IInv'
<1> USE DEF LockFirst, Execute, Goto, IInv, TypeOK
<1>1. First(r) \in Row /\ Wanted(r) = {First(r)}
  BY CallFields DEF StepsFitCalls, TransferStatements, Wanted
<1>2. lock'[First(r)] = r \/ db[First(r)] = NoRow
  BY <1>1 DEF Statement, Available, UncommittedIsLocked
<1>3. HasItsAccounts(r)'
  BY <1>2 DEF HasItsAccounts, First, Statement
<1>4. OverdraftsDeclinedCleanly'
  BY DEF OverdraftsDeclinedCleanly
<1> QED
  BY <1>3, <1>4, StatementStep DEF Statements, TransferStatements

\* After accounts.lock(conn, second) a transfer that goes on has both its accounts.
LEMMA LockSecondInv == ASSUME IInv, NEW r \in Request, LockSecond(r) PROVE IInv'
<1> USE DEF LockSecond, Execute, IInv, TypeOK
<1>0. /\ Sender(r) \in Account /\ Receiver(r) \in Account
      /\ First(r) \in Account /\ Second(r) \in Account
      /\ {First(r), Second(r)} = {Sender(r), Receiver(r)}
      /\ Wanted(r) = {Second(r)}
  BY CallFields DEF StepsFitCalls, TransferStatements, Wanted
<1>1. CASE Refusal(r) = "none"
  <2>1. /\ work[Sender(r)] # NoRow /\ work[Receiver(r)] # NoRow
        /\ Authorised(r)
    BY <1>1 DEF Refusal
  <2>2. lock'[First(r)] = r /\ lock'[Second(r)] = r
    BY <1>0, <2>1 DEF Statement, AccountsAreLocked, HasItsAccounts, NoAccountAppears
  <2>3. HasItsAccounts(r)'
    BY <1>0, <1>1, <2>1, <2>2
       DEF HasItsAccounts, Goto, Sender, Receiver, Authorised, Statement
  <2> QED
    BY <1>1, <2>3, StatementStep
       DEF Goto, OverdraftsDeclinedCleanly, Statements, TransferStatements
<1>2. CASE Refusal(r) # "none"
  <2>1. Refusal(r) \in {"NotFound", "Forbidden"}
    BY <1>2 DEF Refusal
  <2> QED
    BY <1>2, <2>1, StatementStep
       DEF Raise, OverdraftsDeclinedCleanly, HasItsAccounts, Statements, TransferStatements,
           Outcomes, DomainErrors
<1> QED
  BY <1>1, <1>2

\* Raising an error in a statement that writes nothing.
LEMMA RefuseInv ==
  ASSUME IInv, NEW r \in Request, NEW statement \in Statements, NEW error \in Outcomes,
         Execute(r, statement, work), Raise(r, error),
         error = "CheckViolated" => call[r].kind # "transfer"
  PROVE  IInv'
<1> USE DEF Execute, IInv, TypeOK
<1>1. outcome' \in [Request -> Outcomes] /\ OverdraftsDeclinedCleanly'
  BY DEF Raise, OverdraftsDeclinedCleanly
<1>2. HasItsAccounts(r)'
  BY DEF Raise, HasItsAccounts
<1> QED
  BY <1>1, <1>2, StatementStep DEF Raise, Statements, TransferStatements

\* Storing a balance: in its column, or refused by it.
LEMMA StoreInv ==
  ASSUME IInv, NEW r \in Request, NEW a \in Account, NEW v \in Int,
         NEW statement \in Statements, NEW next \in {"credit", "insert", "commit"},
         pc[r] = statement, Wanted(r) = {a}, work[a] # NoRow,
         next \in {"credit", "insert"} =>
            pc[r] \in {"debit", "credit"} /\ (v \in Balance => Amount(r) <= MaxBalance),
         v < 0 => call[r].kind # "transfer",
         Store(r, statement, a, v, next)
  PROVE  IInv'
<1> DEFINE new == [work EXCEPT ![a] = v]
<1>1. CASE ColumnError(v) = "none"
  <2>1. v \in Balance
    BY <1>1, OpeningAssumption DEF ColumnError, Balance
  <2>2. Execute(r, statement, new) /\ Goto(r, next)
    BY <1>1 DEF Store
  <2>3. IsTables(new) /\ \A x \in Row \ {a} : new[x] = work[x]
    BY <2>1, RowAssumption DEF IsTables, IInv, TypeOK
  <2>4. new[a] = v /\ v # NoRow
    BY <2>1, RowAssumption DEF IInv, TypeOK, IsTables, Balance
  <2>5. a \notin Request
    BY RowAssumption
  <2>6. HasItsAccounts(r)'
    <3> HIDE DEF new
    <3>1. CASE next = "commit"
      BY <2>2, <3>1 DEF Goto, HasItsAccounts, IInv, TypeOK
    <3>2. CASE next \in {"credit", "insert"}
      <4>1. HasItsAccounts(r) /\ call' = call /\ pc'[r] = next
        BY <2>2 DEF IInv, AccountsAreLocked, Goto, TypeOK
      <4>2. Sender(r) \in Row /\ Receiver(r) \in Row
        BY <3>2, CallFields DEF IInv, StepsFitCalls, TransferStatements
      <4>3. \A x \in {Sender(r), Receiver(r)} : lock'[x] = r /\ work'[x] # NoRow
        BY <2>2, <2>3, <2>4, <3>2, <4>1, <4>2 DEF HasItsAccounts, Execute, Statement
      <4> QED
        BY <2>1, <3>2, <4>1, <4>3 DEF HasItsAccounts, Sender, Receiver, Authorised, Amount
    <3> QED
      BY <3>1, <3>2
  <2>7. outcome' \in [Request -> Outcomes] /\ OverdraftsDeclinedCleanly'
    BY <2>2 DEF Goto, OverdraftsDeclinedCleanly, IInv, TypeOK
  <2> HIDE DEF new
  <2> QED
    BY <2>2, <2>3, <2>4, <2>5, <2>6, <2>7, StatementStep
       DEF Execute, Goto, Statements, TransferStatements
<1>2. CASE ColumnError(v) # "none"
  <2>1. \/ ColumnError(v) = "CheckViolated" /\ call[r].kind # "transfer"
        \/ ColumnError(v) = "OutOfRange"
    BY <1>2 DEF ColumnError
  <2>2. IntegrityGuard(ColumnError(v)) = ColumnError(v)
    BY <2>1 DEF IntegrityGuard
  <2>3. Execute(r, statement, work) /\ Raise(r, ColumnError(v))
    BY <1>2, <2>2 DEF Store
  <2> QED
    BY <2>1, <2>3, RefuseInv DEF Outcomes, DatabaseErrors
<1> QED
  BY <1>1, <1>2

\* What a transfer has when it is about to debit or credit.
LEMMA TransferFacts ==
  ASSUME IInv, NEW r \in Request, pc[r] \in {"debit", "credit", "insert"}
  PROVE  /\ Sender(r) \in Account /\ Receiver(r) \in Account
         /\ Amount(r) \in Int /\ Amount(r) > 0
         /\ \A a \in {Sender(r), Receiver(r)} : lock[a] = r /\ work[a] \in Balance
         /\ Authorised(r)
         /\ pc[r] \in {"credit", "insert"} => Amount(r) <= MaxBalance
         /\ call[r].kind = "transfer"
<1>1. /\ Sender(r) \in Account /\ Receiver(r) \in Account
      /\ Amount(r) \in Int /\ Amount(r) > 0
      /\ call[r].kind = "transfer"
  BY CallFields DEF IInv, StepsFitCalls, TransferStatements, Malformed, Amount
<1>2. HasItsAccounts(r)
  BY DEF IInv, AccountsAreLocked
<1> QED
  BY <1>1, <1>2 DEF HasItsAccounts, IInv, TypeOK, IsTables

\* accounts.debit stores what its WHERE clause found enough for, or declines.
LEMMA DebitInv == ASSUME IInv, NEW r \in Request, Debit(r) PROVE IInv'
<1> DEFINE rest == work[Sender(r)] - Amount(r)
<1>1. /\ pc[r] = "debit" /\ Wanted(r) = {Sender(r)}
      /\ Sender(r) \in Account /\ work[Sender(r)] \in Balance
      /\ Amount(r) \in Int /\ Amount(r) > 0
  BY TransferFacts DEF Debit, Wanted
<1>2. CASE Affordable(work[Sender(r)], Amount(r))
  <2>1. rest \in Int /\ rest >= 0 /\ Amount(r) <= MaxBalance /\ work[Sender(r)] # NoRow
    BY <1>1, <1>2, OpeningAssumption, RowAssumption DEF Affordable, Balance
  <2>2. Store(r, "debit", Sender(r), rest, "credit")
    BY <1>2 DEF Debit
  <2> QED
    BY <1>1, <2>1, <2>2, StoreInv DEF Statements
<1>3. CASE ~Affordable(work[Sender(r)], Amount(r))
  BY <1>3, RefuseInv DEF Debit, Statements, Outcomes, DomainErrors
<1> QED
  BY <1>2, <1>3

\* accounts.credit stays in the column, or fails.
LEMMA CreditInv == ASSUME IInv, NEW r \in Request, Credit(r) PROVE IInv'
<1> DEFINE sum == work[Receiver(r)] + Amount(r)
<1>1. /\ pc[r] = "credit" /\ Wanted(r) = {Receiver(r)}
      /\ Receiver(r) \in Account /\ work[Receiver(r)] \in Balance
      /\ Amount(r) \in Int /\ Amount(r) > 0 /\ Amount(r) <= MaxBalance
  BY TransferFacts DEF Credit, Wanted
<1>2. sum \in Int /\ sum >= 0 /\ work[Receiver(r)] # NoRow
  BY <1>1, OpeningAssumption, RowAssumption DEF Balance
<1>3. Store(r, "credit", Receiver(r), sum, "insert")
  BY DEF Credit
<1> QED
  BY <1>1, <1>2, <1>3, StoreInv DEF Statements

\* accounts.set_balance stores what the column takes, or fails.
LEMMA SetBalanceInv == ASSUME IInv, NEW r \in Request, SetBalance(r) PROVE IInv'
<1> DEFINE v == Quantize(call[r].balance)
<1>1. /\ pc[r] = "setBalance" /\ Wanted(r) = {Target(r)} /\ Target(r) \in Account
      /\ v \in Int /\ call[r].kind = "setBalance"
  BY CallFields DEF SetBalance, IInv, StepsFitCalls, Wanted
<1>2. CASE Counted(work[Target(r)], v)
  <2>1. work[Target(r)] # NoRow /\ Store(r, "setBalance", Target(r), v, "commit")
    BY <1>2 DEF SetBalance, Counted
  <2> QED
    BY <1>1, <2>1, StoreInv DEF Statements
<1>3. CASE ~Counted(work[Target(r)], v)
  BY <1>3, RefuseInv DEF SetBalance, Statements, Outcomes, DomainErrors
<1> QED
  BY <1>2, <1>3

\* transactions.insert writes the row of a transfer that is authorised and covered.
LEMMA InsertInv == ASSUME IInv, NEW r \in Request, Insert(r) PROVE IInv'
<1> DEFINE e == [from |-> Sender(r), to |-> Receiver(r), amount |-> Amount(r)]
           new == [work EXCEPT ![r] = e]
<1>1. pc[r] = "insert" /\ Execute(r, "insert", new) /\ Goto(r, "commit") /\ Wanted(r) = {r}
  BY DEF Insert, Execute, Wanted
<1>2. e \in Entry /\ e # NoRow
  BY <1>1, TransferFacts, OpeningAssumption, RowAssumption DEF Entry
<1>3. /\ IsTables(new)
      /\ \A x \in Row \ {r} : new[x] = work[x]
      /\ new[r] = e
  BY <1>2, RowAssumption DEF IsTables, IInv, TypeOK
<1>4. call[r].kind = "transfer" /\ e.from = Sender(r) /\ Authorised(r)
  BY <1>1, TransferFacts
<1>5. outcome' \in [Request -> Outcomes] /\ OverdraftsDeclinedCleanly' /\ HasItsAccounts(r)'
  BY <1>1 DEF Goto, OverdraftsDeclinedCleanly, HasItsAccounts, IInv, TypeOK
<1>6. \A a \in Account : new[a] = work[a]
  BY <1>3, RowAssumption
<1> HIDE DEF new, e
<1> QED
  BY <1>1, <1>3, <1>4, <1>5, <1>6, StatementStep DEF Execute, Goto, Statements, TransferStatements

\* accounts.delete takes an account away that nobody else has locked, and the
\* receiver out of the ledger rows it has locked with it.
LEMMA CloseInv == ASSUME IInv, NEW r \in Request, Close(r) PROVE IInv'
<1> DEFINE a == Target(r)
           new == WithoutAccount(a)
<1>1. /\ pc[r] = "close" /\ a \in Account /\ call[r].kind = "close"
      /\ Wanted(r) = {a} \cup Referring(a)
  BY CallFields DEF Close, IInv, StepsFitCalls, Wanted
<1>2. CASE work[a] # NoRow /\ ~Restricted(a)
  <2>1. Execute(r, "close", new) /\ Goto(r, "commit")
    BY <1>1, <1>2 DEF Close
  <2>2. ASSUME NEW q \in Request
        PROVE  /\ new[q] \in Entry \cup {NoRow}
               /\ q \notin Referring(a) => new[q] = work[q]
               /\ new[q] # NoRow => work[q] # NoRow /\ new[q].from = work[q].from
    <3>1. q # a /\ work[q] \in Entry \cup {NoRow}
      BY <1>1, RowAssumption DEF IInv, TypeOK, IsTables
    <3>2. CASE Refers(work[q], a)
      <4>1. new[q] = [work[q] EXCEPT !.to = Null] /\ q \in Referring(a)
        BY <3>1, <3>2 DEF WithoutAccount, Referring
      <4>2. work[q] \in Entry /\ work[q] # NoRow
        BY <3>1, <3>2 DEF Refers
      <4> QED
        BY <4>1, <4>2, RowAssumption DEF Entry
    <3>3. CASE ~Refers(work[q], a)
      BY <3>1, <3>3 DEF WithoutAccount
    <3> QED
      BY <3>2, <3>3
  <2>3. ASSUME NEW b \in Account
        PROVE  new[b] = IF b = a THEN NoRow ELSE work[b]
    BY RowAssumption DEF WithoutAccount
  <2>4. IsTables(new)
    BY <2>2, <2>3 DEF IsTables, WithoutAccount, IInv, TypeOK
  <2>5. \A x \in Row \ Wanted(r) : new[x] = work[x]
    BY <1>1, <2>2, <2>3
  <2>6. \A q \in Request : new[q] \notin {NoRow, work[q]} =>
           call[q].kind = "transfer" /\ new[q].from = Sender(q) /\ Authorised(q)
    BY <2>2 DEF IInv, EntriesAreAuthorised
  <2>7. outcome' \in [Request -> Outcomes] /\ OverdraftsDeclinedCleanly' /\ HasItsAccounts(r)'
    BY <2>1 DEF Goto, OverdraftsDeclinedCleanly, HasItsAccounts, IInv, TypeOK
  <2> HIDE DEF new
  <2> QED
    BY <1>1, <2>1, <2>3, <2>4, <2>5, <2>6, <2>7, StatementStep
       DEF Execute, Goto, Statements, TransferStatements
<1>3. CASE work[a] # NoRow /\ Restricted(a)
  BY <1>1, <1>3, RefuseInv DEF Close, IntegrityGuard, Statements, Outcomes, DomainErrors
<1>4. CASE work[a] = NoRow
  BY <1>1, <1>4, RefuseInv DEF Close, Statements, Outcomes, DomainErrors
<1> QED
  BY <1>2, <1>3, <1>4

\* transactions.delete takes one locked ledger row away.
LEMMA EraseInv == ASSUME IInv, NEW r \in Request, Erase(r) PROVE IInv'
<1> DEFINE q == call[r].entry
           new == [work EXCEPT ![q] = NoRow]
<1>1. pc[r] = "erase" /\ q \in Request /\ Wanted(r) = {q}
  BY CallFields DEF Erase, IInv, StepsFitCalls, Wanted
<1>2. CASE work[q] # NoRow
  <2>1. Execute(r, "erase", new) /\ Goto(r, "commit")
    BY <1>2 DEF Erase
  <2>2. /\ IsTables(new)
        /\ \A x \in Row \ {q} : new[x] = work[x]
        /\ new[q] = NoRow
    BY <1>1, RowAssumption DEF IsTables, IInv, TypeOK
  <2>3. \A b \in Account : new[b] = work[b]
    BY <1>1, <2>2, RowAssumption
  <2>4. outcome' \in [Request -> Outcomes] /\ OverdraftsDeclinedCleanly' /\ HasItsAccounts(r)'
    BY <2>1 DEF Goto, OverdraftsDeclinedCleanly, HasItsAccounts, IInv, TypeOK
  <2> HIDE DEF new
  <2> QED
    BY <1>1, <2>1, <2>2, <2>3, <2>4, StatementStep
       DEF Execute, Goto, Statements, TransferStatements
<1>3. CASE work[q] = NoRow
  BY <1>3, RefuseInv DEF Erase, Statements, Outcomes, DomainErrors
<1> QED
  BY <1>2, <1>3
-----------------------------------------------------------------------------
(* The steps that leave the tables and the locks alone.                    *)

\* A step of one request outside its statements keeps the invariant when it
\* keeps what is said of that request.
LEMMA QuietStep ==
  ASSUME IInv, NEW r \in Request, UNCHANGED <<db, work, lock, call>>,
         NEW step \in Steps \ {"lock2", "debit", "credit", "insert", "commit"},
         pc' = [pc EXCEPT ![r] = step],
         leased' = IF step \in InUnitOfWork THEN leased \cup {r} ELSE leased \ {r},
         step \in Statements \cup {"commit", "rollback"}
            \/ pc[r] \notin Statements \cup {"commit", "rollback"},
         step \in {"lock1", "connect"} => ~Malformed(call[r]),
         step = "lock1" => call[r].kind = "transfer",
         step \in {"setBalance", "close", "erase"} => step = call[r].kind,
         outcome' \in [Request -> Outcomes], OverdraftsDeclinedCleanly'
  PROVE  IInv'
<1> USE DEF IInv, TypeOK
<1>1. TypeOK'
  BY DEF IsTables
<1>2. UncommittedIsLocked' /\ NoAccountAppears' /\ EntriesAreAuthorised'
  BY DEF UncommittedIsLocked, NoAccountAppears, EntriesAreAuthorised, Sender, Authorised
<1>3. LeasedInside'
  BY DEF LeasedInside
<1>4. LocksAreHeld'
  <2> SUFFICES ASSUME NEW x \in Row, lock[x] # Free
               PROVE  pc'[lock[x]] \in Statements \cup {"commit", "rollback"} /\ lock[x] \in leased'
    BY DEF LocksAreHeld
  <2>1. pc[lock[x]] \in Statements \cup {"commit", "rollback"} /\ lock[x] \in leased
    BY DEF LocksAreHeld
  <2> QED
    BY <2>1 DEF InUnitOfWork
<1>5. StepsFitCalls'
  BY DEF StepsFitCalls, TransferStatements
<1>6. ASSUME NEW q \in Request PROVE HasItsAccounts(q)'
  BY DEF AccountsAreLocked, HasItsAccounts, Sender, Receiver, First, Authorised, Amount
<1> QED
  BY <1>1, <1>2, <1>3, <1>4, <1>5, <1>6 DEF AccountsAreLocked

\* A malformed transfer is refused before it has a connection.
LEMMA RejectInv == ASSUME IInv, NEW r \in Request, Reject(r) PROVE IInv'
<1>1. outcome' \in [Request -> Outcomes] /\ OverdraftsDeclinedCleanly'
  BY DEF Reject, Answer, OverdraftsDeclinedCleanly, IInv, TypeOK, Outcomes, DomainErrors
<1>2. leased' = leased \ {r}
  BY DEF Reject, Answer, IInv, LeasedInside, InUnitOfWork, Statements
<1> QED
  BY <1>1, <1>2, QuietStep DEF Reject, Answer, Steps, InUnitOfWork, Statements

\* A transfer that is taken up has passed the first checks.
LEMMA AcceptInv == ASSUME IInv, NEW r \in Request, Accept(r) PROVE IInv'
<1>1. outcome' \in [Request -> Outcomes] /\ OverdraftsDeclinedCleanly'
  BY DEF Accept, Goto, OverdraftsDeclinedCleanly, IInv, TypeOK
<1>2. leased' = leased \ {r}
  BY DEF Accept, Goto, IInv, LeasedInside, InUnitOfWork, Statements
<1> QED
  BY <1>1, <1>2, QuietStep DEF Accept, Goto, Steps, InUnitOfWork, Statements

\* A unit of work starts with a connection and without locks.
LEMMA BeginInv == ASSUME IInv, NEW r \in Request, Begin(r) PROVE IInv'
<1> DEFINE step == FirstStatement[call[r].kind]
<1>1. call[r].kind \in {"transfer", "setBalance", "close", "erase"}
  BY CallAssumption DEF IInv, TypeOK, TransferCall, SetBalanceCall, CloseCall, EraseCall
<1>2. /\ step \in {"lock1", "setBalance", "close", "erase"}
      /\ step = "lock1" => call[r].kind = "transfer"
      /\ step # "lock1" => step = call[r].kind
  BY <1>1 DEF FirstStatement
<1>3. /\ pc[r] = "connect" /\ pc' = [pc EXCEPT ![r] = step] /\ leased' = leased \cup {r}
      /\ UNCHANGED <<db, work, lock, call, outcome>> /\ ~Malformed(call[r])
  BY DEF Begin, IInv, StepsFitCalls
<1>4. outcome' \in [Request -> Outcomes] /\ OverdraftsDeclinedCleanly'
  BY <1>3 DEF OverdraftsDeclinedCleanly, IInv, TypeOK
<1> HIDE DEF step
<1> QED
  BY <1>2, <1>3, <1>4, QuietStep DEF Steps, InUnitOfWork, Statements

\* Without a database there is no unit of work.
LEMMA UnreachableInv == ASSUME IInv, NEW r \in Request, Unreachable(r) PROVE IInv'
<1>1. outcome' \in [Request -> Outcomes] /\ OverdraftsDeclinedCleanly'
  BY DEF Unreachable, Answer, OverdraftsDeclinedCleanly, IInv, TypeOK, Outcomes, DatabaseErrors
<1>2. leased' = leased \ {r}
  BY DEF Unreachable, Answer, IInv, LeasedInside, InUnitOfWork, Statements
<1> QED
  BY <1>1, <1>2, QuietStep DEF Unreachable, Answer, Steps, InUnitOfWork, Statements

\* A connection that is given back has no locks: COMMIT or ROLLBACK came before.
LEMMA DisconnectInv == ASSUME IInv, NEW r \in Request, Disconnect(r) PROVE IInv'
<1>1. outcome' \in [Request -> Outcomes] /\ OverdraftsDeclinedCleanly'
  BY DEF Disconnect, OverdraftsDeclinedCleanly, IInv, TypeOK
<1> QED
  BY <1>1, QuietStep DEF Disconnect, Steps, InUnitOfWork, Statements

\* A statement or a COMMIT fails, and the tables are as before.
LEMMA FailInv ==
  ASSUME IInv, NEW r \in Request, pc[r] \in Statements \cup {"commit"},
         NEW error \in {"LockTimeout", "ConnectionLost"},
         Raise(r, error), UNCHANGED <<db, work, lock>>
  PROVE  IInv'
<1>1. outcome' \in [Request -> Outcomes] /\ OverdraftsDeclinedCleanly'
  BY DEF Raise, OverdraftsDeclinedCleanly, IInv, TypeOK, Outcomes, DatabaseErrors
<1>2. leased' = leased \cup {r}
  BY DEF Raise, IInv, LeasedInside, InUnitOfWork
<1> QED
  BY <1>1, <1>2, QuietStep DEF Raise, Steps, InUnitOfWork, Statements
-----------------------------------------------------------------------------
(* The steps that end transactions.                                        *)

\* When a set of requests end their transactions, by COMMIT or by ROLLBACK, the
\* others are as well off as before.
LEMMA EndStep ==
  ASSUME IInv, NEW T \in SUBSET Request,
         RollbackTxns(T) \/ \E r \in Request : T = {r} /\ CommitTxn(r),
         UNCHANGED call,
         pc' \in [Request -> Steps],
         \A q \in Request \ T : pc'[q] = pc[q],
         \A q \in T : pc'[q] \in {"rollback", "disconnect", "done"},
         leased' = {q \in leased : pc'[q] # "done"}, T \subseteq leased \cup {q \in T : pc'[q] = "done"},
         outcome' \in [Request -> Outcomes], OverdraftsDeclinedCleanly'
  PROVE  IInv'
<1>1. /\ IsTables(db)' /\ IsTables(work)'
      /\ lock' \in [Row -> Request \cup {Free}]
      /\ UncommittedIsLocked' /\ NoAccountAppears' /\ EntriesAreAuthorised'
      /\ \A x \in Row : lock'[x] # Free => lock'[x] = lock[x] /\ lock[x] \notin T
      /\ \A q \in Request \ T : HasItsAccounts(q)'
  BY ReleaseStep
<1>2. TypeOK'
  BY <1>1 DEF IInv, TypeOK
<1>3. LeasedInside'
  BY DEF IInv, TypeOK, LeasedInside, InUnitOfWork, Statements
<1>4. LocksAreHeld'
  BY <1>1 DEF IInv, TypeOK, LocksAreHeld, Statements
<1>5. StepsFitCalls'
  BY DEF IInv, StepsFitCalls, TransferStatements
<1>6. \A q \in T : HasItsAccounts(q)'
  BY DEF HasItsAccounts
<1> QED
  BY <1>1, <1>2, <1>3, <1>4, <1>5, <1>6 DEF IInv, AccountsAreLocked

\* One request ends its transaction, inside its unit of work.
LEMMA EndOneStep ==
  ASSUME IInv, NEW r \in Request, pc[r] \in Statements \cup {"commit", "rollback"},
         RollbackTxns({r}) \/ CommitTxn(r),
         NEW step \in {"rollback", "disconnect"}, pc' = [pc EXCEPT ![r] = step],
         NEW result \in Outcomes \ {"CheckViolated"},
         outcome' = [outcome EXCEPT ![r] = result] \/ outcome' = outcome,
         UNCHANGED <<call, leased>>
  PROVE  IInv'
<1>1. pc' \in [Request -> Steps]
  BY DEF IInv, TypeOK, Steps, InUnitOfWork
<1>2. outcome' \in [Request -> Outcomes] /\ OverdraftsDeclinedCleanly'
  BY DEF OverdraftsDeclinedCleanly, IInv, TypeOK
<1>3. leased' = {q \in leased : pc'[q] # "done"} /\ {r} \subseteq leased
  BY DEF IInv, TypeOK, LeasedInside, InUnitOfWork, Statements
<1> QED
  BY <1>1, <1>2, <1>3, EndStep DEF IInv, TypeOK

\* The death of a worker is the rollback of all its requests.
LEMMA CrashInv == ASSUME IInv, NEW w \in Worker, Crash(w) PROVE IInv'
<1> DEFINE T == Active(w)
<1>1. T \in SUBSET Request
  BY DEF Active
<1>2. pc' \in [Request -> Steps]
  BY DEF Crash, IInv, TypeOK, Steps
<1>3. /\ \A q \in Request \ T : pc'[q] = pc[q]
      /\ \A q \in T : pc'[q] = "done"
  BY DEF Crash, Active
<1>4. leased' = {q \in leased : pc'[q] # "done"}
  BY <1>1, <1>3 DEF Crash, IInv, TypeOK, LeasedInside, InUnitOfWork, Statements
<1>5. outcome' \in [Request -> Outcomes] /\ OverdraftsDeclinedCleanly'
  BY DEF Crash, OverdraftsDeclinedCleanly, IInv, TypeOK, Outcomes
<1>6. RollbackTxns(T) /\ UNCHANGED call
  BY DEF Crash
<1> HIDE DEF T
<1> QED
  BY <1>1, <1>2, <1>3, <1>4, <1>5, <1>6, EndStep
-----------------------------------------------------------------------------
(* Every step.                                                             *)

\* Every step of the system keeps the invariant.
LEMMA StepInv == IInv /\ [Next]_vars => IInv'
<1> SUFFICES ASSUME IInv, [Next]_vars PROVE IInv'
  OBVIOUS
<1>1. ASSUME NEW r \in Request, Reject(r) \/ Accept(r) \/ Begin(r) \/ Unreachable(r)
      PROVE  IInv'
  BY <1>1, RejectInv, AcceptInv, BeginInv, UnreachableInv
<1>2. ASSUME NEW r \in Request,
             LockFirst(r) \/ LockSecond(r) \/ Debit(r) \/ Credit(r) \/ Insert(r)
      PROVE  IInv'
  BY <1>2, LockFirstInv, LockSecondInv, DebitInv, CreditInv, InsertInv
<1>3. ASSUME NEW r \in Request, SetBalance(r) \/ Close(r) \/ Erase(r) PROVE IInv'
  BY <1>3, SetBalanceInv, CloseInv, EraseInv
<1>4. ASSUME NEW r \in Request, Commit(r) \/ Rollback(r) PROVE IInv'
  BY <1>4, EndOneStep DEF Commit, Rollback, Goto, Outcomes
<1>5. ASSUME NEW r \in Request, Disconnect(r) PROVE IInv'
  BY <1>5, DisconnectInv
<1>6. ASSUME NEW r \in Request, LockTimeout(r) \/ ConnectionLost(r) PROVE IInv'
  BY <1>6, FailInv DEF LockTimeout, ConnectionLost
<1>7. ASSUME NEW r \in Request, DeadlockVictim(r) PROVE IInv'
  <2>1. pc[r] \in Statements
    BY <1>7 DEF DeadlockVictim, Deadlocked, WaitsFor, Holders, Wanted, Statements
  <2> QED
    BY <1>7, <2>1, EndOneStep DEF DeadlockVictim, Raise, Outcomes, DatabaseErrors
<1>8. ASSUME NEW r \in Request, CommitUnheard(r) PROVE IInv'
  BY <1>8, EndOneStep DEF CommitUnheard, Raise, Outcomes, DatabaseErrors
<1>9. ASSUME NEW w \in Worker, Crash(w) PROVE IInv'
  BY <1>9, CrashInv
<1>10. CASE UNCHANGED vars
  <2>1. TypeOK' /\ OverdraftsDeclinedCleanly' /\ UncommittedIsLocked' /\ NoAccountAppears'
    BY <1>10 DEF vars, IInv, TypeOK, IsTables, OverdraftsDeclinedCleanly, UncommittedIsLocked,
                 NoAccountAppears
  <2>2. LocksAreHeld' /\ LeasedInside' /\ StepsFitCalls' /\ EntriesAreAuthorised'
    BY <1>10 DEF vars, IInv, LocksAreHeld, LeasedInside, StepsFitCalls, EntriesAreAuthorised,
                 Sender, Authorised
  <2>3. AccountsAreLocked'
    BY <1>10 DEF vars, IInv, AccountsAreLocked, HasItsAccounts, Sender, Receiver, First,
                 Authorised, Amount
  <2> QED
    BY <2>1, <2>2, <2>3 DEF IInv
<1> QED
  BY <1>1, <1>2, <1>3, <1>4, <1>5, <1>6, <1>7, <1>8, <1>9, <1>10
     DEF Next, Serve, Fault, Terminated
-----------------------------------------------------------------------------
(* The theorems.                                                           *)

\* The invariant holds throughout.
THEOREM Invariance == Spec => []IInv
  BY InitInv, StepInv, PTL DEF Spec

\* Balances stay within their column, ledger amounts positive, whatever requests
\* run, fail and interleave.
THEOREM TypeCorrect == Spec => []TypeOK
<1>1. IInv => TypeOK
  BY DEF IInv
<1> QED
  BY <1>1, Invariance, PTL

\* A transfer that cannot be afforded never reaches the CHECK constraint.
THEOREM NoOverdraft == Spec => []OverdraftsDeclinedCleanly
<1>1. IInv => OverdraftsDeclinedCleanly
  BY DEF IInv
<1> QED
  BY <1>1, Invariance, PTL

\* Money leaves an account only on its owner's or an administrator's order.
THEOREM Authority == Spec => []OnlyOwnersPay
<1>1. IInv => OnlyOwnersPay
  BY DEF IInv, EntriesAreAuthorised, OnlyOwnersPay, Authorised
<1> QED
  BY <1>1, Invariance, PTL

\* No connection goes back to its pool with a lock on it.
THEOREM CleanConnections == Spec => []LocksEndWithLeases
<1>1. IInv => LocksEndWithLeases
  BY DEF IInv, LocksAreHeld, LocksEndWithLeases
<1> QED
  BY <1>1, Invariance, PTL
=============================================================================
