# corebank-api in TLA+

A specification of `corebank-api`, a Flask service over MySQL that keeps a
bank's customers, accounts, cards, loans and tickets, and moves money between
accounts. Everything the service remembers is in MySQL; what can go wrong is in
the way its requests, several threads in several gunicorn workers, interleave
their SQL statements, wait for connections and for row locks, and fail half-way.

## 1. The system

| Part | State it keeps | Operations | Source |
|---|---|---|---|
| money transfer | ledger rows, balances | `transfer`, `delete`, reads | `app/services/transaction_service.py`, `app/repositories/transactions.py` |
| account lifecycle | account rows | `create`, `set_balance`, `delete`, reads | `app/services/account_service.py`, `app/repositories/accounts.py` |
| unit of work | one database transaction | `unit_of_work`, `read_only` | `app/db/uow.py` |
| connection pool | the pool of a process, its connections | `init_pool`, `get_pool`, `get_connection`, `reset_pool`, `ping` | `app/db/pool.py` |
| cards, tickets, customers, users, branches, employees, loans, payments, scores | one table each | create, update or set_status, delete, reads | `app/services/*_service.py`, `app/repositories/*.py` |
| error mapping | none | `integrity_guard`, error handlers | `app/services/_helpers.py`, `app/api/errors.py` |
| authentication | signed tokens held by clients | login, `admin_required`, ownership checks | `app/services/auth_service.py`, `app/security/auth.py` |
| migration runner | `schema_migrations`, the schema | `run_migrations`, `load_seeds` | `scripts/migrate.py`, `migrations/*.sql` |
| probes | none | `health`, `ready` | `app/api/health.py` |
| HTTP layer, configuration, logging | none after start | routing, validation, serialisation | `app/api/*.py`, `app/config.py`, ... |

How they interact. A request runs on a thread of a worker process. The HTTP
layer validates it and calls one service function. The service borrows a
connection from its process's bounded, blocking pool (`get_connection`), begins a
transaction, has repositories run single SQL statements on it, commits or, after
an exception, rolls back, and gives the connection back (`unit_of_work`). Nothing
is shared between requests but the pool and the rows of the database; rows are
shared between all workers, and MySQL serialises the statements by row locks.

What is hard: the interleaving of statements under locks; deadlocks, which
depend on the order locks are taken in; errors in the middle of a unit of work;
connections and workers that die, before or after COMMIT; a database that is
restarted under a pool that replaces dead sessions unseen; pool exhaustion; dates
and claims that are made up before the row they go with is locked, or after it
was read; closures that cascade over foreign keys while transfers run; row counts, error
numbers and id comparisons that Python and MySQL understand differently; reads
from old snapshots; a migration runner without transactions.

`PROJECT.json` lists every part under `components` and every hazard, at its
line, under `hazards`.

## 2. The modules

| Module | What it is |
|---|---|
| `InnoDB` | The tables: committed versions (`db`), versions under the locks (`work`), row locks (`lock`); what a locking statement, COMMIT and ROLLBACK do. External to the repository, modelled from how the repositories use it. |
| `Ledger` | What the money operations promise, each as one atomic step on committed rows. |
| `Transfers` | The money requests as the code runs them: one action per SQL statement or driver call. Instantiates `InnoDB`; `ImplementsLedger` instantiates `Ledger` under a refinement mapping. |
| `TransfersInv` | Its inductive invariants: `IInv`; `LedgerInv`, which rests on it; `PartiesAreKept`. Hypotheses on clients: `SpelledApart`, `PartiesDiffer`. |
| `TransfersProofs` | `IInv` proved, and what follows. |
| `LedgerProofs` | `LedgerInv` proved; the refinement of `Ledger`, the answers, the references, the balances and the absence of deadlocks. |
| `Schema` | What `migrations/*.sql` declare: tables, foreign keys, unique columns, indexes, the seeds' tables. |
| `Migrate` | Containers that start: the entrypoint, the migrations statement by statement, the seeds. |
| `MigrateProofs` | Its inductive invariant proved, and what follows. |
| `MVCC` | `InnoDB` with shared locks and the snapshots of REPEATABLE READ. External too. |
| `Registry` | What the resource endpoints promise: rows that fit together, changed one at a time. |
| `Records` | The endpoints of ten tables as the code runs them, over the foreign keys of `Schema`. Instantiates `MVCC`; `ImplementsRegistry` instantiates `Registry`. |
| `RecordsInv` | Its inductive invariants: `IInv`; `AnswerInv`, what requests know of their rows. |
| `RecordsProofs` | `IInv` proved, and the refinement of `Registry`. |
| `AnswersProofs` | `AnswerInv` proved, and what clients are told and shown. |
| `Pool` | One worker's pool and the blocks its threads run on it, while the database stops, comes back and cuts sessions. |
| `PoolProofs` | Its inductive invariant proved, and what follows. |
| `Listings` | `Transfers` with a clock, composed with those who read the ledger and with the readiness probe, which share its pools. |
| `ListingsInv` | Its inductive invariant: what a reader knows, and how stamps are ordered. |
| `ListingsProofs` | `ListingsInvariance`, and what readers are shown. |
| `Desk` | Logins, tokens and support tickets on one clock, with the report of the top resolvers. |
| `DeskProofs` | Its inductive invariant proved, and what follows. |
| `MCTransfers`, `MCMigrate`, `MCRecords`, `MCPool`, `MCListings`, `MCDesk` | The instances TLC checks. |

`Transfers` counts connections and lets them break; what the pool does to the
session of a connection is taken apart in `Pool`, and what rows the resource
requests may meet in `Records`. `Listings` reuses the actions of `Transfers` as they
are and adds to each what a reader or the clock asks of it (`Beside`, `Serving`).

### Transfers against the code

| In the model | In the code |
|---|---|
| `pc[r]` | the line the thread of request `r` is about to run; `"connect"` is the wait inside `get_connection()` |
| `leased` | connections between `get_connection()` and `conn.close()` |
| `outcome[r]` | the exception on its way, or the answer |
| `work`, `lock` | uncommitted row versions and record locks of the open transactions |
| `Reject`, `Accept` | the two checks before the `with` of `transfer` |
| `Begin` | `get_connection()` and `conn.begin()` |
| `LockFirst`, `LockSecond` | the two `SELECT ... FOR UPDATE`, in the order of `sorted()`; the checks of the locked rows belong to the second |
| `Debit`, `Credit`, `Insert` | the three writes of `transfer` |
| `SetBalance`, `Close`, `Erase` | `account_service.set_balance`, `account_service.delete`, `transaction_service.delete` |
| `Commit`, `Rollback`, `Disconnect` | the branches of `unit_of_work` |
| `LockTimeout`, `DeadlockVictim`, `ConnectionLost`, `CommitUnheard`, `Unreachable`, `Crash` | what MySQL, the network and the operating system do to a request |

Amounts are integers, tenths of a cent, so that `Quantize` can do the half-even
rounding of `Decimal.quantize`. Marshmallow already quantizes amounts and
refuses those that are not positive; the service does it again, and is modelled
for every amount. An `Id` is a spelling of an account id, a rank in Python's string
order; `RowOf` is the row MySQL finds for it under the case-insensitive
collation of the database (`scripts/migrate.py:51`, and the server's default
when `MYSQL_DATABASE` created it).

Abstractions. A statement takes all its locks in one step. Gap locks are left
out: no request of this module creates an account, and ledger keys are fresh
UUIDs. A lock request waits by not being enabled. A broken session's transaction
ends before the client of the request is answered (`Rollback` models its end).
The foreign-key check of `transactions.insert` always passes because both parents are
X-locked by the same transaction. The owner of an account and the accounts that have
cards do not change while the requests of the model run. The clock is left to
`Listings`.

`Ledger` transfers money between two accounts, as `docs/design.md:145` has it: one that
"records a transaction that nets zero" is to be refused. A transfer from an account to
itself under another spelling of its id passes the check of `transaction_service.py:30`,
which compares the strings; it locks one row twice, debits and credits it, and is
recorded. `self_transfer` shows this, and the refinement of `Ledger` is about clients that do
not send such a call (`PartiesDiffer`): `administration` has none, the theorem has the
hypothesis. Every other property of `Transfers` holds with such calls too.

A balance that an administrator overwrites with a negative one is stopped by the CHECK
constraint, which PyMySQL raises as an `OperationalError`: `integrity_guard` does not catch it,
and the answer is 500 and not the error `_helpers.py:54-55` means it to be.

### Migrate against the code

`Start` and `Ready` are `docker/entrypoint.sh` up to the migrations; `ReadApplied`
is `_applied`; `Execute` is one `cur.execute(stmt)` of the loop, which MySQL
commits at once, as DDL and because the connection is in autocommit; `Record` is
the `INSERT` into `schema_migrations`; `Load` is a statement of `load_seeds`;
`ExecuteFails` and `Fail` end the container, as `set -e` does. `Die` may happen to
a container anywhere; giving up on the database is one of its cases.
A DDL statement is atomic, as in MySQL 8, and so is one `INSERT IGNORE`.

### Records against the code

A row's version is the set of rows its foreign keys name, the value of its unique
column (one stands for several), and one value for the other columns. `Call` says
what requests may ask; `Endpoints`, one entry per file of `app/api`, says who is let
in. `Refuse` is what is answered before a connection is taken. `Insert`,
`Check`, `Update`, `Reread` and `Delete` are the statements of the services'
functions, in their order; `Commit` and `Raise` are the ends of `unit_of_work`; `Show`
is the second block of `card_service.create`. `Get` is a `read_only` block of one statement; for a
card it is the first of two, the look at the owner, and `FetchCard` the second, which reads
the snapshot of the first, or a new one if the session was replaced in between, as `Pool` lets it be. `WithConditions` is the branch
report: `Joined` are the pairs two LEFT JOINs give for a branch, `CountDistinct` what
`COUNT(DISTINCT ...)` makes of them. It asks for more employees than the one threshold
and for no fewer accounts than the other, as the statement does (`branches.py:57`); the docstrings
(`branches.py:41`, `app/api/branches.py:68`) say "above" of both. An exception, its
ROLLBACK and the answer are one step. `Fail` stands for deadlocks, lock timeouts,
lost connections and crashes at any statement, `CommitUnheard` for a COMMIT nobody hears
of. The pool is left to `Transfers` and `Pool`. `Write` takes shared locks on the parents a
statement names for the first time and on rows with its unique value, and waits
for uncommitted ones, as InnoDB does; gap locks are abstracted, a `DELETE` waits
for uncommitted children instead. In a plain read, `Seen` shows a transaction its
own changes over its snapshot; a row an `UPDATE` matched and left as it was is not its
change, which is what `CardUpdatesShown` is about.

### Pool against the code

A block is one `with unit_of_work()`, `with read_only()` or `ping()`; `pc[b]` is where
its thread is, `mine[b]` the connection it holds, `session[c]` the session of the
connection at the server. `Boot` is `init_pool` in `create_app`; `GetPool` and
`BuildPool` are the two looks of `get_pool`; `Acquire` is `get_connection()`; `Begin`,
`Execute`, `Commit`, `Rollback` and `Close` are the lines of `uow.py`, and a
statement of `ping`. The pool is DBUtils, which is not in the repository: `PooledDB` is
modelled as `_build_pool` configures it (`blocking=True`; `ping=1`, an idle connection is
checked when it is lent; `reset`, left at its default, rolls back what comes back), and `SteadyDB` below it
reopens a dead session and executes the statement again, unless `begin()` was called. The database
is up or down; one that neither answers nor breaks is left out, and so are the
timeouts of `pymysql`. A unit of work has two statements, which is what it takes to be
half done; the row locks are left to `Transfers`. `since`, `past`, `half` and `seen` are
history: what was committed when a block began, what has happened to the database since,
and what the block has committed and read.

### Listings against the code

`GetEntry`, `GetSender` and `GetReceiver` are the statements of `transaction_service.get`
and `_ensure_actor_sees_transaction`; `GetAccount` and `ListEntries` those of
`list_by_account`; `Ping` is the probe's. A reader's first SELECT takes the snapshot
the others read. `Stamp` is `utcnow()` in `transfer`, under both locks. A listing is sorted by these stamps
and by nothing else (`transactions.py:41`): rows of one second stand in it in any order, which may be
another the next time, so what holds is about the stamps (`StampsFollowCommits`) and not about
places in a listing. There is one clock for all workers, which
does not go back, in the seconds a `DATETIME` column keeps (MySQL rounds to them, which keeps
earlier times no later): workers are processes of one
container, and what several hosts with different clocks do to a history is not modelled.

### Desk against the code

`ReadUser` is the `read_only` block of `authenticate`, `Login` the check of the password
and the token, which come after the connection was given back; `ChangeUser` is what an
administrator does to the row, at any moment. `File` and `SetStatus` are the requests up to their
unit of work, where the dates are taken; `Insert`, `Update` and `Fails` are the unit of
work. `during` is history: the rows the user had while a client logged in. A token expires on the
clock that dates the tickets. The clock ticks at the resolution of a `DATETIME` column; that MySQL
rounds a date by up to half a second, forwards too, is left out. Signatures and password hashes are taken to be sound: a password is a
value, a token is what was signed.

## 3. What the runs check

`transfers`, `administration` and the last three are on `MCTransfers`. A balance is a few cents, so that a debit can fail by one
cent and a credit overflow the column; `a3` may be missing, so that lookups
fail.

| Run | Instance | Shows |
|---|---|---|
| `transfers` | 3 requests, ids 1..3, pool of 3, one worker, symmetric requests | `IInv` (with the types), `OverdraftsDeclinedCleanly`, `OnlyOwnersPay`, `NoDeadlock`, `BalancesReconcile` |
| `administration` | 3 requests: transfers, one in the wrong order of locks, overwrites, closures, erasures | `UnitsOfWorkAreSound` (`IInv`, with the types, and `LedgerInv`), `LedgerRefersToAccounts`, `AnswerMatchesLedger`, and that the system implements `Ledger` |
| `listings` | 2 requests on two workers with one connection each, and a reader or a probe beside one of them | `ListingsInvariant`, `PaidIsListed`, `PartiesSeeTheirEntry`, `StampsFollowCommits`; requests, readers and probes are answered (`EveryoneIsAnswered`) |
| `pool` | 3 blocks on 2 connections, among them two reads and a unit of work, or two units of work and a probe | `NothingHalfDone`, `ReadsAreFresh`, `OneSnapshotPerBlock`, `ProbeIsTrue`, `HealsAfterRestart`, `OnePool`, and that every block ends (`EveryBlockEnds`) |
| `desk` | 2 clients, a user who is now an administrator and now a customer, 2 tickets, 2 employees | `AuthorityWasGranted`, `ActsWithinItsRow`, `DatesFit`, `ReportsTheBest` |
| `migrations` | three containers, two at a time, that start together, die anywhere and restart, over the real schema, with and without demo data | `RecordedIsComplete`, `ServesWholeSchema`, `FindsItsTables`, `ServesWholeDemo`, and `IInv` behind them, which has `RecordedInOrder` in it; unless one is killed, the race may fail some, never all (`StartLeadsToService`) |
| `rerun_after_crash` | the same, dying | `002_indexes` cannot be run a second time, see `findings` |
| `registry` | 3 requests of 25 kinds, by the administrator, owners and strangers, over customers, a branch, accounts, cards, an employee, a login and a ticket | `EndpointsAreSound` (`IInv` and `AnswerInv`), `NoDanglingReference`, `UniqueValues`, `AnswersMatchRows`, `UpdatesShown`, `OnlyOwnersRead`, `OnlyOwnersWrite`, `BranchesAreCounted`, and that the endpoints implement `Registry` |
| `card_blocked` | 2 requests on one card | an answer from an old snapshot, see `findings` |
| `deadlock_by_spelling`, `overwrite_repeated`, `self_transfer` | smallest instances | three places where the code does not do what it says, see `findings` |

Bounds. Three requests are enough for every pair of conflicting transfers beside
a third party that holds a lock, a connection or a ledger row; cycles of locks need two. Three accounts
give pairs that overlap in one account. Faults are not bounded: any statement may
time out, break or crash in any state. Three containers are enough for one that
dies, one that races it and one that comes after. In `Records` each table has the
one or two rows whose references can break; three requests are a parent's deletion, a
child's creation and a third that waits for either. In `Pool` two connections and three blocks
make one block wait, and one connection be lent twice; the database may stop and come
back, and sessions be cut, as often as they like. In `Listings` the clock ticks once (`MaxTime`):
two instants are enough for two stamps in the wrong order; a reader may lose its session
once. In `Desk` a token lives for one instant of three, so that one expires while its client
is at work.

Fairness. `Fairness` is weak fairness of each request's next driver call or the
lock wait timeout, together. Threads are scheduled by the operating system, and a
statement that waits for a lock ends by `innodb_lock_wait_timeout` if not before.
Nothing else is fair: requests need not arrive, and faults need not happen. For
the pool weak fairness is enough in these instances because each request is
served once and the pool's waiters are finitely many. `Listings` adds weak fairness of
each reader's next step (`FairSpecAll`); the stamps and the requests are fair as in `Transfers`. In
`Pool` (`FairSpec`) it is that of each block's next step: a waiting thread is woken by whoever gives a
connection back, and the database need not come back, for a statement that fails ends too. In `Migrate` a runner that has
been started goes on: it waits for nothing but the database.

## 4. What is proved

`TransfersProofs` proves, for every set of requests, accounts, spellings,
workers, opening balances and pool sizes that satisfy the named assumptions of
`Transfers`:

| Theorem | Property |
|---|---|
| `Invariance` | `IInv` |
| `TypeCorrect` | `TypeOK`: no balance is ever negative or too wide, committed or not |
| `NoOverdraft` | `OverdraftsDeclinedCleanly` |
| `Authority` | `OnlyOwnersPay` |
| `CleanConnections` | `LocksEndWithLeases` |

The argument. `TypeOK` is not inductive: that a credit or a debit finds a
balance, and not a missing row, needs to know that the transfer has locked both
rows (`AccountsAreLocked`), that a locked row is changed by nobody else
(`UncommittedIsLocked`, `LocksAreHeld`), that no request creates accounts
(`NoAccountAppears`), and which statements a request of each kind gets to
(`StepsFitCalls`). Every statement is an instance of one lemma, `StatementStep`:
it leaves rows alone that others have locked, so what they rely on stays true.
Every end of transactions, by COMMIT, ROLLBACK, a deadlock's victim or the crash of a worker, is an
instance of `EndStep`, which relies on `ReleaseStep`; every step outside the
statements is an instance of `QuietStep`.

`LedgerProofs` goes on from there, under the same assumptions:

| Theorem | Property |
|---|---|
| `LedgerInvariance` | `UnitsOfWorkAreSound`: `LedgerInv`, together with `IInv` |
| `AnswersAreTrue` | `AnswerMatchesLedger` |
| `ReferencesHold` | `LedgerRefersToAccounts` |
| `Refinement` | `ImplementsLedger`: every step is one of `Ledger` or changes nothing it shows, if `PartiesDiffer` |
| `DeadlockFreedom` | `NoDeadlock`, if `SpelledApart` and there are finitely many requests |
| `Reconciliation` | `BalancesReconcile`, if there are finitely many requests |

The argument. A COMMIT makes many rows visible at once, so it can only be one step of `Ledger`
if what a unit of work has done, all of it and nothing else, is known when it gets there: that is
`EachDoesOneOperation`, from `Debited` to `Recorded`, and it needs the locks, for the balances a
transfer has read must be those it is computed from until the end. Closures are the hard case: the
cascade takes the receiver out of ledger rows nobody has locked before, so `ReferencesAreFirm` says that a row that
refers to an account about to be closed is locked by whoever closes it, and `EntriesAreKept` that nobody
but its transfer brings a row to the ledger, and nobody but its erasure takes it away.
`PartiesDiffer` is a hypothesis of `Refinement` alone: without it a COMMIT could be a step that no
operation of `Ledger` allows, which is what `self_transfer` shows.

`DeadlockFreedom`: whoever waits and holds something waits for its second account, and has locked
nothing but its first, which is lower (`OnlySecondLocksWait`, `WaitsUpwards`); a cycle of such
requests has none whose first lock is highest (`NoCycle`). Lower means lower in Python's order of ids.
That is an order of rows only if no spelling of one account stands between two of another
(`SpelledApart`). It is so for clients that use the ids they were given, and for others it
is not: `deadlock_by_spelling` is what happens then, and why the hypothesis is there.

`Reconciliation`: `BalancesReconcile` speaks of an account as long as no administrator overwrites or
closes it, or erases one of its ledger rows (`LeftAlone`), whatever is done to the other accounts. The
COMMIT of a transfer adds one row to one sum or to both, and the amount to the balance; a closure of another account
takes the receiver out of rows that are not among those added up (`PartiesAreKept`). The sums are
folds over sets of requests, on which there is no induction here: two functions that both satisfy the
recursion of a sum (`IsTotal`) and differ would differ on a smallest set (`LeastCounterexample`, from the well-foundedness of
strict inclusion on finite sets), where they cannot (`TotalsAgree`, `SumIsTotal`, `OneMore`). The hypothesis
that requests are finitely many costs nothing: a sum over infinitely many means nothing.

`MigrateProofs` proves, for any containers and any script of migrations in an order
that creates tables before it refers to them (`ScriptAssumption`,
`OrderAssumption`; `RunnerAssumption` and `SeedAssumption` name the containers
and the seeds):

| Theorem | Property |
|---|---|
| `Invariance` | `IInv` |
| `SkippingIsSafe` | `RecordedIsComplete` |
| `NoneSkipped` | `RecordedInOrder` |
| `WholeSchema` | `ServesWholeSchema` |
| `TablesFound` | `FindsItsTables` |
| `WholeDemo` | `ServesWholeDemo` |

The argument: what a runner has behind it (`HasBehindIt`) stays, because nothing is
ever dropped, so no step of one runner disturbs another; its next step relies on that alone.

`RecordsProofs` proves, for any rows, any requests and any calls the endpoints let
through (`RecordAssumption`, `CallAssumption`), from tables whose rows fit
together (`OpeningAssumption`):

| Theorem | Property |
|---|---|
| `Invariance` | `IInv` |
| `NoneDangles` | `NoDanglingReference` |
| `NoneDuplicated` | `UniqueValues` |
| `Implementation` | `ImplementsRegistry`: every step is one of `Registry` or changes no row |
| `ReportIsExact` | `BranchesAreCounted`, and for any thresholds (`ReportCountsOnce`) |

The argument: `NoDanglingReference` is not inductive, for a COMMIT makes a mixture of
the rows that were committed and those that were not, and a ROLLBACK another. `FirmReferences`
holds in any mixture: a row, committed or not, refers to rows that are there both
committed and not. An `INSERT` or `UPDATE` keeps it because it waits for the rows it refers
to (`NoErrorFits`), a `DELETE` because it waits for those that refer to its row, so that none
is left when it goes on (`ChildlessIsFree`); `NoDuplicates` says the same of unique values.
Every statement that writes is an instance of `WriteStep`, every end of a
transaction of `EndStep`, the rest of `QuietStep` or `ReadStep`.
`ReportIsExact` is about one state, any state: the report counts each
employee and each account of a branch once, since a column of all pairs of two
non-empty sets is the set again, and `NULL`, which fills an empty one, is not counted.

`AnswersProofs` goes on from there, under the same assumptions:

| Theorem | Property |
|---|---|
| `Knowledge` | `EndpointsAreSound`: `AnswerInv`, together with `IInv` |
| `AnswersMatch` | `AnswersMatchRows` |
| `UpdatesAreShown` | `UpdatesShown` |
| `OwnersRead` | `OnlyOwnersRead` |
| `OwnersWrite` | `OnlyOwnersWrite` |

The argument: ids are fresh, and a row refers to the same rows all its life, but for the logins and employees an
update may move (`RefsStay`). So an owner that was looked up on an old snapshot, or by another statement,
is still the owner of the row if the row is there, and what is not there was not taken over by somebody else.
(For a card that is `Belongs` twice: the card is that account's, and the account the actor's, in any
version, so a second read on another snapshot shows nobody another one's card.) A row is locked from the
statement that changes it, and how it changes is what the request was for (`LocksFitCalls`); what a
request has read is its own change over its snapshot. The update of a card is the
exception to `UpdatesShown`, see `card_blocked`.

`PoolProofs` proves, for any number of blocks, whatever mix they are, and any size of the
pool (`PoolAssumption`):

| Theorem | Property |
|---|---|
| `Invariance` | `IInv` |
| `WorkIsNeverHalfDone` | `NothingHalfDone` |
| `NoStaleReads` | `ReadsAreFresh` |
| `OneSnapshot` | `OneSnapshotPerBlock` |
| `ProbeTellsTheTruth` | `ProbeIsTrue` |
| `RestartsHeal` | `HealsAfterRestart` |
| `OnePoolOnly` | `OnePool` |

The argument: a connection is idle, and then its session is fresh or dead and has nothing left on it,
or lent to one block (`PoolIsSound`); so what a block knows of its session
(`WorkIsWhole`, `ReadIsFresh`, `FaultsAreNoted`) is changed by its own steps and by what breaks, and
by no other block (`OthersStay`, `OneBlock`). A unit of work's session has what it wrote in an open
transaction or is dead and begun, so that its next statement raises. The steps that use
a lent connection are instances of `OwnConnection`; an exception is always one of
`RaiseSound`, which asks for the fault that caused it.

`DeskProofs` proves, for any users, rows, clients, tickets, lifetimes and times (`DeskAssumption`):

| Theorem | Property |
|---|---|
| `Invariance` | `IInv` |
| `TokensWereGranted` | `AuthorityWasGranted` |
| `StaysWithinTheRow` | `ActsWithinItsRow` |
| `TicketsAreDated` | `DatesFit` |
| `TheBestAreReported` | `ReportsTheBest`, if there are finitely many tickets |

The argument: what a client carries from one step to the next is what it was made from
(`HasItsPapers`): the row it has read was the user's during the login, its token says what that row
said, its request what the token allows. A ticket that is being filed is nobody else's
and not there yet (`FilesAFreshTicket`), and a date that is being set is later than the creation of its
ticket, since the ticket was there when it was taken (`SetsALaterDate`). `TheBestAreReported` needs
that one of finitely many counts is the largest (`LargestExists`), or the maximum of the query might be nobody's.

`ListingsProofs` proves, under the assumptions of `Transfers` and for any readers, calls and length of time
(`ReaderAssumption`):

| Theorem | Property |
|---|---|
| `ListingsInvariance` | `ListingsInvariant`, together with `IInv` and `LedgerInv` |
| `PaidAreListed` | `PaidIsListed` |
| `PartiesSee` | `PartiesSeeTheirEntry` |
| `StampsInCommitOrder` | `StampsFollowCommits`, an action property |

The argument: a step of `Listings` is one of `Transfers`, to which `StepInv`, `StepLedger` and `StepKeepsParties`
apply, with the clock and a reader beside it. A transfer is stamped at its insert, the last statement
before COMMIT, with both accounts locked. So of two transfers that share an account the one that is still to
commit has not been stamped before the other was (`StampsAreOrdered`, `BeforeInsert`): a service that took the time on arrival,
or after giving up a lock, could not say this. "Not before" is all there is to
say: two transfers of one second have the same stamp. What a reader has found (`HasFound`) and what had been paid when it
asked (`HoldsThePaid`) are in its snapshot, and a row of the ledger names its parties or nobody
(`PartiesAreKept`).

What stays with TLC. Liveness under fairness is out of the prover's reach: `StartLeadsToService` in
`migrations`, `EveryBlockEnds` in `pool` and `EveryoneIsAnswered` in `listings` are checked on these instances only.
Every other property of a passing run is also a theorem. The runs that find a violation prove
nothing, they show one.

## 5. Not modelled, and the plan

What is left of the code, with the reason:

- The listings of whole tables, and the report of high transactions (a sum over a join): they
  change nothing, and read one statement each.
- `reset_pool`, which the tests call; a `BaseException` in a unit of work, which skips the
  rollback and is not told from the death of the worker.
- The wait for the database in the entrypoint: giving up is one of the deaths of a container.
- Routing, validation, serialisation, logging and configuration, which keep no state; what calls they let through is in
  the `Call` constants. The demonstration script, which pits an unlocked transfer against
  the service's on accounts of its own, and the container files.
- MySQL, DBUtils and PyMySQL beyond what `InnoDB`, `MVCC` and `Pool` say of them; gap locks.

The plan. What is left to say in general is liveness, for which the lemmas above are the safety half:
whoever waits for a lock waits upwards (`WaitsUpwards`), whoever holds a connection is inside a
unit of work (`LeasedInside`). Beyond it, `StampsAreOrdered` with a clock per worker, which would say how far apart two hosts' clocks may be
for stamps to follow commits still.
