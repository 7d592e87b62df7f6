----------------------------- MODULE Transfers ------------------------------
(***************************************************************************)
(* The requests that move, overwrite or erase money: a transfer            *)
(* (transaction_service.transfer), a balance overwrite                     *)
(* (account_service.set_balance), an account closure                       *)
(* (account_service.delete) and the erasure of a ledger row                *)
(* (transaction_service.delete), each one a thread of some gunicorn worker *)
(* that runs one unit of work on a pooled connection, SQL statement by SQL *)
(* statement, while the others run theirs.                                 *)
(*                                                                         *)
(* Account ids reach the service as free strings.  Python compares and     *)
(* sorts them by code point, MySQL matches them by the case-insensitive    *)
(* collation scripts/migrate.py gives the database: an Id is a spelling,   *)
(* ranked as Python sorts it, and RowOf is the row MySQL finds for it.     *)
(***************************************************************************)
EXTENDS Integers, FiniteSets, FiniteSetsExt

CONSTANTS
    Account,     \* the account rows
    Id,          \* the spellings of account ids, as ranks in Python's order
    RowOf,       \* the account row a spelling names in SQL
    Customer, Admin,
    Owner,       \* the customer each account belongs to
    Carded,      \* the accounts that cards refer to
    Request,     \* the requests; a transfer's ledger row is keyed by its request
    Call,        \* what a request may ask for
    Opening,     \* the balances the tables may start with
    MaxBalance,  \* the largest value of a DECIMAL(15, 2) column, in cents
    Worker,      \* the gunicorn worker processes
    WorkerOf,    \* the worker that serves a request
    PoolSize,    \* DB_POOL_SIZE: the connections of a worker
    NoRow, Null, Free

\* What a request may ask for.  Amounts and balances are in tenths of a cent.
TransferCall   == [kind : {"transfer"}, actor : Customer \cup {Admin},
                   sender : Id, receiver : Id, amount : Int]
SetBalanceCall == [kind : {"setBalance"}, account : Id, balance : Int]
CloseCall      == [kind : {"close"}, account : Id]
EraseCall      == [kind : {"erase"}, entry : Request]

\* A ledger row.
Entry == [from : Account, to : Account \cup {Null}, amount : 1..MaxBalance]

\* A version of an account row is its balance in cents.
Balance == 0..MaxBalance

ASSUME RowAssumption ==
    /\ Account \cap Request = {}
    /\ NoRow \notin Int \cup Entry
    /\ Null \notin Account
    /\ Free \notin Request
ASSUME IdAssumption == Id \subseteq Int /\ RowOf \in [Id -> Account]
ASSUME OwnerAssumption == Owner \in [Account -> Customer] /\ Admin \notin Customer
ASSUME CallAssumption ==
    Call \subseteq TransferCall \cup SetBalanceCall \cup CloseCall \cup EraseCall
ASSUME OpeningAssumption ==
    MaxBalance \in Nat /\ Opening \subseteq [Account -> Balance \cup {NoRow}]
ASSUME WorkerAssumption ==
    /\ WorkerOf \in [Request -> Worker]
    /\ PoolSize \in Nat \ {0}

VARIABLES
    db, work, lock,  \* the database, see InnoDB
    call,            \* what each request asks for
    pc,              \* the step each request is about to take
    outcome,         \* what the client of each request is told, or the error on its way
    leased           \* the requests that hold a connection of their worker's pool

vars == <<db, work, lock, call, pc, outcome, leased>>

Row == Account \cup Request

INSTANCE InnoDB WITH Txn <- Request
-----------------------------------------------------------------------------
(* Where a request stands.                                                 *)

\* The first statement of each kind of unit of work.
FirstStatement == [transfer |-> "lock1", setBalance |-> "setBalance",
                   close |-> "close", erase |-> "erase"]

Statements == {"lock1", "lock2", "debit", "credit", "insert", "setBalance", "close", "erase"}

\* Between get_connection() and conn.close().
InUnitOfWork == Statements \cup {"commit", "rollback", "disconnect"}

Steps == InUnitOfWork \cup {"idle", "connect", "done"}

\* The errors the service raises itself, with the status app/api/errors.py gives them.
DomainErrors == {"BusinessRule", "NotFound", "Forbidden", "Conflict"}

\* The errors of the driver that nothing translates: the client gets a 500.
DatabaseErrors == {"CheckViolated", "OutOfRange", "Deadlock", "LockTimeout",
                   "ConnectionLost", "Unreachable"}

\* NoReply: the worker died before it answered.
Outcomes == DomainErrors \cup DatabaseErrors \cup {"none", "ok", "NoReply"}

Goto(r, step) ==
    /\ pc' = [pc EXCEPT ![r] = step]
    /\ UNCHANGED <<call, outcome, leased>>

\* (Mutant: the except clause does not roll back.)
RaiseWithoutRollback(r, error) ==
    /\ pc' = [pc EXCEPT ![r] = "disconnect"]
    /\ outcome' = [outcome EXCEPT ![r] = error]
    /\ UNCHANGED <<call, leased>>

\* An exception leaves the with block of the unit of work: except Exception.
Raise(r, error) ==
    /\ pc' = [pc EXCEPT ![r] = "rollback"]
    /\ outcome' = [outcome EXCEPT ![r] = error]
    /\ UNCHANGED <<call, leased>>

\* A request that has no connection is answered.
Answer(r, error) ==
    /\ pc' = [pc EXCEPT ![r] = "done"]
    /\ outcome' = [outcome EXCEPT ![r] = error]
    /\ UNCHANGED <<db, work, lock, call, leased>>
-----------------------------------------------------------------------------
(* The data the requests compute.                                          *)

\* Decimal.quantize(Decimal("0.01")): tenths of a cent to cents, half to even.
Quantize(x) ==
    LET cents == x \div 10
        rest  == x % 10
    IN  IF rest > 5 \/ (rest = 5 /\ cents % 2 = 1) THEN cents + 1 ELSE cents

Sender(r)   == RowOf[call[r].sender]
Receiver(r) == RowOf[call[r].receiver]
Target(r)   == RowOf[call[r].account]
Amount(r)   == Quantize(call[r].amount)

\* (Mutant: the locks are not taken in the order of the ids.)
LockOrderAsGiven(c) == <<c.sender, c.receiver>>

\* The two accounts of a transfer in the order it locks them.
LockOrder(c) ==
    IF c.sender <= c.receiver THEN <<c.sender, c.receiver>> ELSE <<c.receiver, c.sender>>
First(r)  == RowOf[LockOrder(call[r])[1]]
Second(r) == RowOf[LockOrder(call[r])[2]]

\* (Mutant: any amount passes.)
MalformedUnchecked(c) == c.kind = "transfer" /\ c.sender = c.receiver

\* The checks before the unit of work of a transfer.
Malformed(c) == c.kind = "transfer" /\ (Quantize(c.amount) <= 0 \/ c.sender = c.receiver)

\* (Mutant: any customer may send from any account.)
AuthorisedAnyone(r) == TRUE

\* The checks under the locks of a transfer; "none" lets it through.
Authorised(r) == call[r].actor = Admin \/ call[r].actor = Owner[Sender(r)]
Refusal(r) ==
    IF work[Sender(r)] = NoRow \/ work[Receiver(r)] = NoRow THEN "NotFound"
    ELSE IF ~Authorised(r) THEN "Forbidden" ELSE "none"

\* (Mutant: the debit is not guarded.)
AffordableAlways(balance, amount) == TRUE

\* The WHERE clause of accounts.debit.
Affordable(balance, amount) == balance >= amount

\* The column check_balance_positive guards, and its width.
ColumnError(balance) ==
    IF balance < 0 THEN "CheckViolated" ELSE IF balance > MaxBalance THEN "OutOfRange" ELSE "none"

\* integrity_guard: the driver raises 1451 as an IntegrityError, which becomes a
\* domain error, but 3819, a CHECK constraint, as an OperationalError, which passes.
IntegrityGuard(error) == IF error = "Referenced" THEN "Conflict" ELSE error

\* The ledger rows that refer to account a, committed or not.
Refers(version, a) == version # NoRow /\ a \in {version.from, version.to}
Referring(a) == {q \in Request : Refers(db[q], a) \/ Refers(work[q], a)}

\* (Mutant: fk_transaction_from does not restrict.)
RestrictedByCards(a) == a \in Carded

\* fk_transaction_from and fk_card_account: ON DELETE RESTRICT.
Restricted(a) == a \in Carded \/ \E q \in Request : work[q] # NoRow /\ work[q].from = a

\* fk_transaction_to: ON DELETE SET NULL.
WithoutAccount(a) ==
    [x \in Row |->
       IF x = a THEN NoRow
       ELSE IF x \in Request /\ Refers(work[x], a) THEN [work[x] EXCEPT !.to = Null]
       ELSE work[x]]

\* The rows the next statement of a request locks.
Wanted(r) ==
    CASE pc[r] = "lock1"      -> {First(r)}
      [] pc[r] = "lock2"      -> {Second(r)}
      [] pc[r] = "debit"      -> {Sender(r)}
      [] pc[r] = "credit"     -> {Receiver(r)}
      [] pc[r] = "insert"     -> {r}
      [] pc[r] = "setBalance" -> {Target(r)}
      [] pc[r] = "close"      -> {Target(r)} \cup Referring(Target(r))
      [] pc[r] = "erase"      -> {call[r].entry}
      [] OTHER                -> {}

\* The requests a request waits for.
WaitsFor(r) == Holders(r, Wanted(r))

\* A request is deadlocked when it is on a cycle of requests that wait for each other.
Deadlocked(r) ==
    /\ WaitsFor(r) # {}
    /\ \E S \in SUBSET Request :
          /\ r \in S
          /\ \A q \in S : WaitsFor(q) \cap S # {} /\ \E p \in S : q \in WaitsFor(p)
-----------------------------------------------------------------------------
(* Before the unit of work.                                                *)

\* The service refuses a transfer before it borrows a connection.
Reject(r) ==
    /\ pc[r] = "idle"
    /\ Malformed(call[r])
    /\ Answer(r, "BusinessRule")

\* A thread of the worker takes the request up and asks the pool for a connection.
Accept(r) ==
    /\ pc[r] = "idle"
    /\ ~Malformed(call[r])
    /\ Goto(r, "connect")
    /\ UNCHANGED <<db, work, lock>>

\* The pool blocks while all its connections are out.
HasConnection(w) == Cardinality({q \in leased : WorkerOf[q] = w}) < PoolSize

\* get_connection() and conn.begin().
Begin(r) ==
    /\ pc[r] = "connect"
    /\ HasConnection(WorkerOf[r])
    /\ pc' = [pc EXCEPT ![r] = FirstStatement[call[r].kind]]
    /\ leased' = leased \cup {r}
    /\ UNCHANGED <<db, work, lock, call, outcome>>

\* get_connection() fails: the database cannot be reached.
Unreachable(r) ==
    /\ pc[r] = "connect"
    /\ HasConnection(WorkerOf[r])
    /\ Answer(r, "Unreachable")
-----------------------------------------------------------------------------
(* The statements of a transfer.                                           *)

Execute(r, statement, new) ==
    /\ pc[r] = statement
    /\ Statement(r, Wanted(r), new)

\* accounts.lock(conn, first): SELECT ... FOR UPDATE.
LockFirst(r) ==
    /\ Execute(r, "lock1", work)
    /\ Goto(r, "lock2")

\* accounts.lock(conn, second), and the checks of the two rows.  (What the first
\* lock found is still so: a locked row does not change, no account is created here.)
LockSecond(r) ==
    /\ Execute(r, "lock2", work)
    /\ IF Refusal(r) = "none" THEN Goto(r, "debit") ELSE Raise(r, Refusal(r))

\* UPDATE account SET balance = v WHERE account_id = a.
Store(r, statement, a, v, next) ==
    IF ColumnError(v) = "none"
      THEN Execute(r, statement, [work EXCEPT ![a] = v]) /\ Goto(r, next)
      ELSE Execute(r, statement, work) /\ Raise(r, IntegrityGuard(ColumnError(v)))

\* accounts.debit: no row matches when the balance does not cover the amount.
Debit(r) ==
    /\ pc[r] = "debit"
    /\ IF Affordable(work[Sender(r)], Amount(r))
         THEN Store(r, "debit", Sender(r), work[Sender(r)] - Amount(r), "credit")
         ELSE Execute(r, "debit", work) /\ Raise(r, "BusinessRule")

\* accounts.credit: the number of rows it changed is not looked at.
Credit(r) ==
    /\ pc[r] = "credit"
    /\ Store(r, "credit", Receiver(r), work[Receiver(r)] + Amount(r), "insert")

\* transactions.insert: the two accounts it refers to are locked, so they exist.
Insert(r) ==
    /\ Execute(r, "insert",
               [work EXCEPT ![r] = [from |-> Sender(r), to |-> Receiver(r), amount |-> Amount(r)]])
    /\ Goto(r, "commit")
-----------------------------------------------------------------------------
(* The statements of the administrator's requests.                         *)

\* The rows an UPDATE counts: PyMySQL does not ask the server for the rows it
\* found, so it reports the rows it changed.
Counted(old, new) == old # NoRow /\ old # new

\* accounts.set_balance, and the read of the row it then answers with.
SetBalance(r) ==
    LET a == Target(r)
        v == Quantize(call[r].balance)
    IN  /\ pc[r] = "setBalance"
        /\ IF Counted(work[a], v)
             THEN Store(r, "setBalance", a, v, "commit")
             ELSE Execute(r, "setBalance", work) /\ Raise(r, "NotFound")

\* accounts.delete.
Close(r) ==
    LET a == Target(r) IN
    /\ pc[r] = "close"
    /\ \/ /\ work[a] # NoRow /\ ~Restricted(a)
          /\ Execute(r, "close", WithoutAccount(a))
          /\ Goto(r, "commit")
       \/ /\ work[a] # NoRow /\ Restricted(a)
          /\ Execute(r, "close", work)
          /\ Raise(r, IntegrityGuard("Referenced"))
       \/ /\ work[a] = NoRow
          /\ Execute(r, "close", work)
          /\ Raise(r, "NotFound")

\* transactions.delete.
Erase(r) ==
    LET q == call[r].entry IN
    /\ pc[r] = "erase"
    /\ IF work[q] # NoRow
         THEN Execute(r, "erase", [work EXCEPT ![q] = NoRow]) /\ Goto(r, "commit")
         ELSE Execute(r, "erase", work) /\ Raise(r, "NotFound")
-----------------------------------------------------------------------------
(* The end of the unit of work.                                            *)

\* (Mutant: the unit of work ends without a commit, and the pool resets the connection.)
CommitForgotten(r) ==
    /\ pc[r] = "commit"
    /\ RollbackTxns({r})
    /\ pc' = [pc EXCEPT ![r] = "disconnect"]
    /\ outcome' = [outcome EXCEPT ![r] = "ok"]
    /\ UNCHANGED <<call, leased>>

\* conn.commit().
Commit(r) ==
    /\ pc[r] = "commit"
    /\ CommitTxn(r)
    /\ pc' = [pc EXCEPT ![r] = "disconnect"]
    /\ outcome' = [outcome EXCEPT ![r] = "ok"]
    /\ UNCHANGED <<call, leased>>

\* (Mutant: what was done before the exception is committed.)
RollbackCommits(r) ==
    /\ pc[r] = "rollback"
    /\ CommitTxn(r)
    /\ Goto(r, "disconnect")

\* conn.rollback(); the exception is raised again.
Rollback(r) ==
    /\ pc[r] = "rollback"
    /\ RollbackTxns({r})
    /\ Goto(r, "disconnect")

\* (Mutant: the connection is closed only when nothing was raised.)
DisconnectOnSuccess(r) ==
    /\ pc[r] = "disconnect"
    /\ pc' = [pc EXCEPT ![r] = "done"]
    /\ leased' = IF outcome[r] = "ok" THEN leased \ {r} ELSE leased
    /\ UNCHANGED <<db, work, lock, call, outcome>>

\* conn.close(), in the finally clause; then the client is answered.
Disconnect(r) ==
    /\ pc[r] = "disconnect"
    /\ pc' = [pc EXCEPT ![r] = "done"]
    /\ leased' = leased \ {r}
    /\ UNCHANGED <<db, work, lock, call, outcome>>
-----------------------------------------------------------------------------
(* What the server, the network and the workers do to a request.           *)

\* innodb_lock_wait_timeout ends a statement that waits; the transaction lives on.
LockTimeout(r) ==
    /\ pc[r] \in Statements
    /\ WaitsFor(r) # {}
    /\ Raise(r, "LockTimeout")
    /\ UNCHANGED <<db, work, lock>>

\* InnoDB rolls the whole transaction of a deadlock's victim back.
DeadlockVictim(r) ==
    /\ Deadlocked(r)
    /\ RollbackTxns({r})
    /\ Raise(r, "Deadlock")

\* The connection breaks before the server has the next statement, or COMMIT.
\* (The server ends the session, so its transaction, by the time the service
\* has given up on the connection.)
ConnectionLost(r) ==
    /\ pc[r] \in Statements \cup {"commit"}
    /\ Raise(r, "ConnectionLost")
    /\ UNCHANGED <<db, work, lock>>

\* The connection breaks after the server has committed, before the service hears of it.
CommitUnheard(r) ==
    /\ pc[r] = "commit"
    /\ CommitTxn(r)
    /\ Raise(r, "ConnectionLost")

\* A worker process dies with all its threads and connections.
Active(w) == {r \in Request : WorkerOf[r] = w /\ pc[r] \notin {"idle", "done"}}
Crash(w) ==
    /\ Active(w) # {}
    /\ RollbackTxns(Active(w))
    /\ pc' = [r \in Request |-> IF r \in Active(w) THEN "done" ELSE pc[r]]
    /\ outcome' = [r \in Request |-> IF r \in Active(w) THEN "NoReply" ELSE outcome[r]]
    /\ leased' = leased \ Active(w)
    /\ UNCHANGED call

Terminated ==
    /\ \A r \in Request : pc[r] = "done"
    /\ UNCHANGED vars
-----------------------------------------------------------------------------
Init ==
    /\ \E start \in Opening :
          Opened([x \in Row |-> IF x \in Account THEN start[x] ELSE NoRow])
    /\ call \in [Request -> Call]
    /\ pc = [r \in Request |-> "idle"]
    /\ outcome = [r \in Request |-> "none"]
    /\ leased = {}

\* What the thread that serves a request does.
Serve(r) ==
    \/ Begin(r)
    \/ LockFirst(r) \/ LockSecond(r) \/ Debit(r) \/ Credit(r) \/ Insert(r)
    \/ SetBalance(r) \/ Close(r) \/ Erase(r)
    \/ Commit(r) \/ Rollback(r) \/ Disconnect(r)

\* What goes wrong.
Fault(r) ==
    \/ Unreachable(r) \/ LockTimeout(r) \/ DeadlockVictim(r)
    \/ ConnectionLost(r) \/ CommitUnheard(r)

Next ==
    \/ \E r \in Request : Reject(r) \/ Accept(r) \/ Serve(r) \/ Fault(r)
    \/ \E w \in Worker : Crash(w)
    \/ Terminated

Spec == Init /\ [][Next]_vars

\* Every thread goes on as long as it can, and no statement waits for ever:
\* innodb_lock_wait_timeout has a default.  Nothing else is fair: clients need
\* not send requests and nothing needs to fail.
Fairness == \A r \in Request : WF_vars(Serve(r) \/ LockTimeout(r))

FairSpec == Spec /\ Fairness
-----------------------------------------------------------------------------
(* Safety.                                                                 *)

IsTables(t) ==
    /\ t = [x \in Row |-> t[x]]
    /\ \A a \in Account : t[a] \in Balance \cup {NoRow}
    /\ \A q \in Request : t[q] \in Entry \cup {NoRow}

\* Every variable has its type: no balance, committed or not, is ever negative
\* or wider than its column, and no ledger row has an amount that is not positive.
TypeOK ==
    /\ IsTables(db) /\ IsTables(work)
    /\ lock \in [Row -> Request \cup {Free}]
    /\ call \in [Request -> Call]
    /\ pc \in [Request -> Steps]
    /\ outcome \in [Request -> Outcomes]
    /\ leased \in SUBSET Request

\* A transfer its sender cannot afford is declined by the WHERE clause of the
\* debit; it never gets as far as the CHECK constraint, which is a 500.
OverdraftsDeclinedCleanly ==
    \A r \in Request : call[r].kind = "transfer" => outcome[r] # "CheckViolated"

\* The client of a transfer is told the truth: "ok" only when the ledger has the
\* row (or an administrator has erased it since), an error only when it has not,
\* unless the error says that the connection or the worker was lost.
AnswerMatchesLedger ==
    \A r \in Request :
       /\ call[r].kind = "transfer" /\ outcome[r] = "ok" =>
            \/ db[r] # NoRow
            \/ \E e \in Request : call[e].kind = "erase" /\ call[e].entry = r
                                  /\ outcome[e] \in {"ok", "ConnectionLost", "NoReply"}
       /\ db[r] # NoRow => outcome[r] \in {"ok", "ConnectionLost", "NoReply"}

\* Only the owner of an account, or an administrator, has money sent from it.
OnlyOwnersPay ==
    \A q \in Request :
       db[q] # NoRow => call[q].actor \in {Admin, Owner[db[q].from]}

\* Committed or not, a ledger row's sender exists, and so does its receiver
\* unless it was closed, whatever accounts are closed while transfers run.
LedgerRefersToAccounts ==
    \A t \in {db, work} : \A q \in Request :
       t[q] # NoRow => t[t[q].from] # NoRow /\ (t[q].to # Null => t[t[q].to] # NoRow)

\* The money the ledger says account a has received and paid.
Received(a) == MapThenSumSet(LAMBDA q : db[q].amount, {q \in Request : db[q] # NoRow /\ db[q].to = a})
Paid(a) == MapThenSumSet(LAMBDA q : db[q].amount, {q \in Request : db[q] # NoRow /\ db[q].from = a})

\* No administrator overwrites the balance of account a, closes it, or erases one of
\* its ledger rows.
LeftAlone(a) ==
    \A r \in Request :
       /\ call[r].kind \in {"setBalance", "close"} => Target(r) # a
       /\ call[r].kind = "erase" =>
            LET q == call[r].entry IN
            call[q].kind = "transfer" => a \notin {Sender(q), Receiver(q)}

\* As long as an account is left alone, its committed balance is its opening balance
\* and what the ledger says it received, less what the ledger says it paid.
BalancesReconcile ==
    \E start \in Opening : \A a \in Account : LeftAlone(a) =>
       IF start[a] = NoRow THEN db[a] = NoRow
       ELSE db[a] = start[a] + Received(a) - Paid(a)

\* A connection goes back to the pool without a transaction on it: whoever has
\* locked a row still holds its connection, so no later request inherits locks.
LocksEndWithLeases == \A x \in Row : lock[x] # Free => lock[x] \in leased

\* Opposing transfers cannot deadlock (transaction_service.py:8-9), and nothing
\* the administrator runs beside them makes them.
NoDeadlock == \A r \in Request : ~Deadlocked(r)
-----------------------------------------------------------------------------
(* Refinement and liveness.                                                *)

L == INSTANCE Ledger WITH balance <- [a \in Account |-> db[a]],
                          entry <- [q \in Request |-> db[q]]

\* The requests, interleaved statement by statement and failing anywhere, look
\* to whoever reads committed rows like the atomic operations of Ledger.
ImplementsLedger == L!Spec

\* Every request the service takes up is answered, even when the pool is
\* exhausted, rows are locked and workers die.
EveryRequestAnswered ==
    \A r \in Request : pc[r] = "connect" ~> pc[r] = "done"
=============================================================================
