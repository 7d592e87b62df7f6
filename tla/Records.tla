------------------------------ MODULE Records -------------------------------
(***************************************************************************)
(* The resource endpoints: app/api/<resource>.py, app/services/*_service.py *)
(* and app/repositories/<resource>.py for customers, users, branches,      *)
(* employees, accounts, loans, loan payments, cards, support tickets and   *)
(* credit scores.  Requests create, update, delete and fetch single rows,  *)
(* each in a unit of work (or a read_only block) of its own, statement by  *)
(* statement, beside the others.                                           *)
(*                                                                         *)
(* A version of a row is the rows its foreign keys name, the value of its  *)
(* unique column, and the value of its other columns.                      *)
(***************************************************************************)
EXTENDS Schema, Integers, FiniteSets

CONSTANTS
    Record,      \* the rows of all tables
    TableOf,     \* the table of each
    Key, Value,  \* unique values, and the other values
    Admin,
    Nobody,      \* a user without a customer
    Request,
    Call,        \* what the requests may ask for
    Opening,     \* the rows there may be at first
    NoRow, Null, Free, NoView

Of(table) == {x \in Record : TableOf[x] = table}
Customer == Of("customer")

Version == [refs : SUBSET Record, key : Key \cup {Null}, value : Value]

\* An update gives some of the columns.
Columns == {"refs", "key", "value"}

\* Rows of x's table may refer to these rows.
AreParents(x, refs) == refs \subseteq Record /\ \A p \in refs : TableOf[p] \in Parents(TableOf[x])

IsRow(x, version) == version \in Version /\ AreParents(x, version.refs)
IsTables(t) ==
    t = [x \in Record |-> t[x]] /\ \A x \in Record : t[x] = NoRow \/ IsRow(x, t[x])

ASSUME RecordAssumption ==
    /\ TableOf \in [Record -> TableNames]
    /\ NoRow \notin Version /\ Free \notin Request
    /\ Admin \notin Record /\ Nobody \notin Record /\ Null \notin Record
    /\ NoView \notin [Record -> Version \cup {NoRow}]
VARIABLES
    db, work, lock, shared, view,  \* the database, see MVCC
    call,                          \* what each request asks for
    pc,                            \* the step each request is about to take
    outcome,                       \* what its client is told
    reply                          \* the row its client is shown

engine == <<db, work, lock, shared, view>>
vars == <<db, work, lock, shared, view, call, pc, outcome, reply>>

INSTANCE MVCC WITH Txn <- Request, Row <- Record
-----------------------------------------------------------------------------
(* The endpoints, by whom they let in: an administrator, the owner of the  *)
(* row ("owner"), any user ("user"), or nobody ("none": no such endpoint). *)

Endpoint(create, update, delete, get) ==
    [create |-> create, update |-> update, delete |-> delete, get |-> get]

Customers == Endpoint("admin", "owner", "admin", "owner")
Users == Endpoint("admin", "admin", "admin", "admin")
Branches == Endpoint("admin", "admin", "admin", "admin")
Employees == Endpoint("admin", "admin", "admin", "admin")
Accounts == Endpoint("admin", "none", "admin", "owner")  \* PUT .../balance: see Transfers
Loans == Endpoint("admin", "admin", "admin", "owner")
LoanPayments == Endpoint("admin", "none", "admin", "admin")
Cards == Endpoint("admin", "owner", "admin", "owner")
SupportTickets == Endpoint("user", "admin", "admin", "owner")
CreditScores == Endpoint("admin", "admin", "admin", "owner")

Endpoints ==
    [t \in TableNames |->
       CASE t = "customer"         -> Customers
         [] t = "user"             -> Users
         [] t = "branch"           -> Branches
         [] t = "employee"         -> Employees
         [] t = "account"          -> Accounts
         [] t = "loan"             -> Loans
         [] t = "loan_payment"     -> LoanPayments
         [] t = "card"             -> Cards
         [] t = "customer_support" -> SupportTickets
         [] t = "credit_score"     -> CreditScores
         [] OTHER                  -> Endpoint("none", "none", "none", "none")]

Actor(r) == call[r].actor
Op(r) == call[r].op
Target(r) == call[r].row
Table(r) == TableOf[Target(r)]
Guard(r) == Endpoints[Table(r)][Op(r)]

\* The customer a version belongs to, in the tables t.  A card is its account's.
OwnerIn(t, x) ==
    IF TableOf[x] = "customer" THEN x
    ELSE LET refs == t[x].refs
             own  == IF TableOf[x] = "card" THEN UNION {t[a].refs : a \in refs} ELSE refs
         IN  IF own \cap Customer = {} THEN Nobody ELSE CHOOSE c \in own \cap Customer : TRUE

\* (Mutant: any user may.)
EnsureNothing(r, owner) == TRUE

\* ensure_owner_or_admin.
EnsureOwnerOrAdmin(r, owner) ==
    Actor(r) = Admin \/ (owner # Nobody /\ Actor(r) = owner)

\* The row a request inserts.  A customer files tickets for nobody else.
NewVersion(r) ==
    IF Table(r) = "customer_support" /\ Actor(r) # Admin
      THEN [call[r].new EXCEPT !.refs = (@ \ Customer) \cup {Actor(r)}]
      ELSE call[r].new

\* A row after an update: the columns that are not given stay.
Updated(version, given) ==
    LET column(c) == IF c \in DOMAIN given THEN given[c] ELSE version[c]
    IN  [refs |-> column("refs"), key |-> column("key"), value |-> column("value")]
-----------------------------------------------------------------------------
(* What the columns of a table demand of a row.                            *)

Clashes(t, x, key) ==
    {y \in Record :
       x # y /\ t[y] # NoRow /\ t[y].key = key /\ key # Null /\ TableOf[y] = TableOf[x]}

\* At first the rows fit together.
ASSUME OpeningAssumption ==
    \A start \in Opening :
       /\ IsTables(start)
       /\ \A x \in Record : start[x] # NoRow =>
            /\ \A p \in start[x].refs : start[p] # NoRow
            /\ Clashes(start, x, start[x].key) = {}

\* The rows whose foreign keys an update may give: a login's customer, an employee's branch.
Moving == {"user", "employee"}

\* What the endpoints let through: columns of the table, typed; ids that are created are new.
ASSUME CallAssumption ==
    \A c \in Call :
       /\ c.row \in Record /\ c.actor \in Customer \cup {Admin, Nobody}
       /\ c.op \in {"create", "update", "delete", "get"}
       /\ Endpoints[TableOf[c.row]][c.op] # "none"
       /\ c.op = "create" => IsRow(c.row, c.new) /\ \A start \in Opening : start[c.row] = NoRow
       /\ c.op = "update" =>
            /\ DOMAIN c.given \subseteq Columns
            /\ "refs" \in DOMAIN c.given =>
                 TableOf[c.row] \in Moving /\ AreParents(c.row, c.given["refs"])
            /\ "key" \in DOMAIN c.given => c.given["key"] \in Key \cup {Null}
            /\ "value" \in DOMAIN c.given => c.given["value"] \in Value

\* The foreign keys a statement sets when row x becomes version.
NewRefs(x, version) ==
    {p \in version.refs \ (IF work[x] = NoRow THEN {} ELSE work[x].refs) :
       TableOf[p] \in Parents(TableOf[x])}

\* The rows it looks at: the new parents, and the rows, committed or not, that have
\* its unique value.
LooksAt(x, version) ==
    NewRefs(x, version) \cup Clashes(db, x, version.key) \cup Clashes(work, x, version.key)

\* (Mutant: integrity errors are taken for success.)
IntegrityErrorIgnored(x, version) == "none"

\* 1062 becomes a Conflict, 1452 a BadRequest.
IntegrityError(x, version) ==
    IF Clashes(work, x, version.key) # {} THEN "Conflict"
    ELSE IF \E p \in NewRefs(x, version) : work[p] = NoRow THEN "BadRequest" ELSE "none"

\* The rows that refer to x and keep it from being deleted, in the tables t.
Children(t, x) ==
    {y \in Record :
       /\ t[y] # NoRow /\ x \in t[y].refs
       /\ \E fk \in ForeignKeys :
             fk.child = TableOf[y] /\ fk.parent = TableOf[x] /\ fk.onDelete = "RESTRICT"}
-----------------------------------------------------------------------------
Goto(r, step) == pc' = [pc EXCEPT ![r] = step]

\* The request is over.
Answer(r, result, version) ==
    /\ Goto(r, "done")
    /\ outcome' = [outcome EXCEPT ![r] = result]
    /\ reply' = [reply EXCEPT ![r] = version]
    /\ UNCHANGED call

\* (Mutant: the connection goes back without a ROLLBACK.)
RaiseWithoutRollback(r, error) ==
    /\ UNCHANGED engine
    /\ Answer(r, error, NoRow)

\* An exception leaves the unit of work: ROLLBACK, and the client gets its status.
\* (Nobody can tell when between the two the locks are released.)
Raise(r, error) ==
    /\ RollbackWithViews(r)
    /\ Answer(r, error, NoRow)

\* The unit of work goes on.
Continue(r, step, version) ==
    /\ Goto(r, step)
    /\ reply' = [reply EXCEPT ![r] = version]
    /\ UNCHANGED <<call, outcome>>

\* The endpoint refuses: no administrator, not the customer, nothing to update, no customer.
Refusal(r) ==
    IF Guard(r) = "admin" /\ Actor(r) # Admin THEN "Forbidden"
    ELSE IF Op(r) = "update" /\ DOMAIN call[r].given = {} THEN "BadRequest"
    ELSE IF Guard(r) = "user" /\ NewVersion(r).refs \cap Customer = {} THEN "BadRequest"
    ELSE IF Table(r) = "customer" /\ Guard(r) = "owner" /\ ~EnsureOwnerOrAdmin(r, Target(r))
      THEN "Forbidden" ELSE "none"

Refuse(r) ==
    /\ pc[r] = "idle"
    /\ Refusal(r) # "none"
    /\ Answer(r, Refusal(r), NoRow)
    /\ UNCHANGED engine

\* The first statement of a request: only card_service.set_status reads before it writes.
FirstStep(r) == IF Op(r) = "update" /\ Table(r) = "card" THEN "check" ELSE Op(r)

\* unit_of_work, or read_only, is entered.
Begin(r) ==
    /\ pc[r] = "idle"
    /\ Refusal(r) = "none"
    /\ Goto(r, FirstStep(r))
    /\ UNCHANGED <<db, work, lock, shared, view, call, outcome, reply>>

\* INSERT.
Insert(r) ==
    LET x == Target(r)
        v == NewVersion(r)
    IN  /\ pc[r] = "create"
        /\ Available(r, LooksAt(x, v))
        /\ IF IntegrityError(x, v) = "none"
             THEN /\ Write(r, {x}, LooksAt(x, v), [work EXCEPT ![x] = v])
                  /\ Continue(r, "commit", v)
             ELSE Raise(r, IntegrityError(x, v))

\* cards.get_with_account: found, and its owner's.
Check(r) ==
    LET x == Target(r) IN
    /\ pc[r] = "check"
    /\ \/ /\ Seen(r, x) = NoRow
          /\ Raise(r, "NotFound")
       \/ /\ Seen(r, x) # NoRow
          /\ ~EnsureOwnerOrAdmin(r, OwnerIn([y \in Record |-> Seen(r, y)], x))
          /\ Raise(r, "Forbidden")
       \/ /\ Seen(r, x) # NoRow
          /\ EnsureOwnerOrAdmin(r, OwnerIn([y \in Record |-> Seen(r, y)], x))
          /\ Read(r)
          /\ Continue(r, "update", NoRow)

\* (Mutant: no service looks at the row count.)
UpdateUncounted(r) ==
    LET x == Target(r) IN
    /\ pc[r] = "update"
    /\ Available(r, {x})
    /\ IF work[x] = NoRow \/ Updated(work[x], call[r].given) = work[x]
         THEN Write(r, {x}, {}, work) /\ Continue(r, "reread", NoRow)
         ELSE LET v == Updated(work[x], call[r].given) IN
              /\ IntegrityError(x, v) = "none"
              /\ Write(r, {x}, LooksAt(x, v), [work EXCEPT ![x] = v])
              /\ Continue(r, "reread", NoRow)

\* UPDATE.  The driver counts the rows that changed; card_service does not look at the count.
Update(r) ==
    LET x == Target(r) IN
    /\ pc[r] = "update"
    /\ Available(r, {x})
    /\ IF work[x] = NoRow \/ Updated(work[x], call[r].given) = work[x]
         THEN IF Table(r) = "card"
                THEN Write(r, {x}, {}, work) /\ Continue(r, "reread", NoRow)
                ELSE Raise(r, "NotFound")
         ELSE LET v == Updated(work[x], call[r].given) IN
              /\ Available(r, LooksAt(x, v))
              /\ IF IntegrityError(x, v) = "none"
                   THEN /\ Write(r, {x}, LooksAt(x, v), [work EXCEPT ![x] = v])
                        /\ Continue(r, "reread", NoRow)
                   ELSE Raise(r, IntegrityError(x, v))

\* The read of the row, inside the unit of work, that the update answers with.
Reread(r) ==
    /\ pc[r] = "reread"
    /\ Read(r)
    /\ Continue(r, "commit", Seen(r, Target(r)))

\* (Mutant: the row count is not looked at.)
DeleteUncounted(r) ==
    LET x == Target(r) IN
    /\ pc[r] = "delete"
    /\ Available(r, {x} \cup Children(db, x) \cup Children(work, x))
    /\ IF Children(work, x) # {} THEN Raise(r, "Conflict")
       ELSE /\ Write(r, {x}, {}, [work EXCEPT ![x] = NoRow])
            /\ Continue(r, "commit", NoRow)

\* DELETE: the row is there and no row, committed or not, refers to it.
Delete(r) ==
    LET x == Target(r) IN
    /\ pc[r] = "delete"
    /\ Available(r, {x} \cup Children(db, x) \cup Children(work, x))
    /\ \/ work[x] = NoRow /\ Raise(r, "NotFound")
       \/ work[x] # NoRow /\ Children(work, x) # {} /\ Raise(r, "Conflict")
       \/ /\ work[x] # NoRow /\ Children(work, x) = {}
          /\ Write(r, {x}, {}, [work EXCEPT ![x] = NoRow])
          /\ Continue(r, "commit", NoRow)

\* COMMIT.  card_service.create then reads the card it has created.
Commit(r) ==
    /\ pc[r] = "commit"
    /\ CommitWithViews(r)
    /\ IF Op(r) = "create" /\ Table(r) = "card"
         THEN Continue(r, "show", NoRow)
         ELSE Answer(r, "ok", reply[r])

Show(r) ==
    /\ pc[r] = "show"
    /\ Answer(r, "ok", db[Target(r)])
    /\ UNCHANGED engine

\* A fetch.  card_service.get looks at the card's owner first.
Get(r) ==
    LET x == Target(r) IN
    /\ pc[r] = "get"
    /\ \/ db[x] = NoRow /\ Answer(r, "NotFound", NoRow)
       \/ /\ db[x] # NoRow
          /\ Guard(r) = "owner" /\ ~EnsureOwnerOrAdmin(r, OwnerIn(db, x))
          /\ Answer(r, "Forbidden", NoRow)
       \/ /\ db[x] # NoRow
          /\ Guard(r) = "owner" => EnsureOwnerOrAdmin(r, OwnerIn(db, x))
          /\ IF Table(r) = "card" THEN Continue(r, "fetch", db[x]) ELSE Answer(r, "ok", db[x])
    /\ UNCHANGED engine

\* Its second SELECT: the card in the snapshot of the first; or, if the session has been
\* replaced in between (see Pool), as it is by now.
FetchCard(r) ==
    /\ pc[r] = "fetch"
    /\ \E version \in {reply[r], db[Target(r)]} : Answer(r, "ok", version)
    /\ UNCHANGED engine

\* A statement or COMMIT fails: a deadlock, a lock wait timeout, a lost connection, a crash.
InUnitOfWork == {"create", "check", "update", "reread", "delete", "commit"}
Fail(r) ==
    /\ pc[r] \in InUnitOfWork
    /\ Raise(r, "ServerError")

\* COMMIT succeeds and the service does not hear of it; or the answer is not shown.
CommitUnheard(r) ==
    /\ pc[r] = "commit"
    /\ CommitWithViews(r)
    /\ Answer(r, "ServerError", NoRow)

Terminated == (\A r \in Request : pc[r] = "done") /\ UNCHANGED vars
-----------------------------------------------------------------------------
Init ==
    /\ \E start \in Opening : OpenedWithViews(start)
    /\ call \in [Request -> Call]
    /\ \A q, r \in Request :  \* new_id()
          Op(q) = "create" /\ Op(r) = "create" /\ Target(q) = Target(r) => q = r
    /\ pc = [r \in Request |-> "idle"]
    /\ outcome = [r \in Request |-> "none"]
    /\ reply = [r \in Request |-> NoRow]

Serve(r) ==
    \/ Refuse(r) \/ Begin(r) \/ Insert(r) \/ Check(r) \/ Update(r) \/ Reread(r)
    \/ Delete(r) \/ Commit(r) \/ Show(r) \/ Get(r) \/ FetchCard(r)

Next == (\E r \in Request : Serve(r) \/ Fail(r) \/ CommitUnheard(r)) \/ Terminated

Spec == Init /\ [][Next]_vars
-----------------------------------------------------------------------------
(* The branch-conditions report (branches.with_conditions).                *)

Branch == Of("branch")
Employee == Of("employee")
Account == Of("account")

\* The rows of a table that refer to branch b.
RowsOf(table, b) == {x \in table : db[x] # NoRow /\ b \in db[x].refs}

\* A LEFT JOIN finds NULL where it finds no row; two of them give all the pairs.
OrNull(rows) == IF rows = {} THEN {Null} ELSE rows
Joined(b) == OrNull(RowsOf(Employee, b)) \X OrNull(RowsOf(Account, b))

\* (Mutant: COUNT without DISTINCT.)
CountPairs(pairs, column) == Cardinality({p \in pairs : p[column] # Null})

\* COUNT(DISTINCT ...), which does not count NULL.
CountDistinct(pairs, column) == Cardinality({p[column] : p \in pairs} \ {Null})

\* A row of the report, and the rows that are HAVING what was asked for.
Conditions(b, employees, accounts) ==
    [branch |-> b, employee_count |-> employees, account_count |-> accounts]
WithConditions(minEmployees, minAccounts) ==
    {c \in {Conditions(b, CountDistinct(Joined(b), 1), CountDistinct(Joined(b), 2)) :
              b \in {b \in Branch : db[b] # NoRow}} :
       c.employee_count > minEmployees /\ c.account_count >= minAccounts}
-----------------------------------------------------------------------------
Outcomes == {"none", "ok", "NotFound", "Forbidden", "Conflict", "BadRequest", "ServerError"}
Steps == InUnitOfWork \cup {"idle", "get", "fetch", "show", "done"}

\* Every variable has its type, rows change under locks only, and a request that is
\* not in its unit of work holds no lock and no snapshot.
TypeOK ==
    /\ IsTables(db) /\ IsTables(work)
    /\ lock \in [Record -> Request \cup {Free}]
    /\ shared \in [Record -> SUBSET Request]
    /\ view = [r \in Request |-> view[r]]
    /\ \A r \in Request : view[r] # NoView => IsTables(view[r])
    /\ call \in [Request -> Call]
    /\ pc \in [Request -> Steps]
    /\ outcome \in [Request -> Outcomes]
    /\ reply \in [Request -> Version \cup {NoRow}]
    /\ \A x \in Record : lock[x] = Free => work[x] = db[x]
    /\ \A r \in Request : pc[r] \notin InUnitOfWork =>
          view[r] = NoView /\ \A x \in Record : lock[x] # r /\ r \notin shared[x]

\* Customers, accounts and the others come and go while rows that refer to them
\* are created: no row, committed or not, refers to one that is not there.
NoDanglingReference ==
    \A t \in {db, work} : \A x \in Record :
       t[x] # NoRow => \A p \in t[x].refs : t[p] # NoRow

\* Two requests that use the same e-mail address, name or card number do not both succeed.
UniqueValues ==
    \A t \in {db, work} : \A x \in Record :
       t[x] # NoRow => Clashes(t, x, t[x].key) = {}

\* The client of a creation or a deletion is told what became of the row, unless
\* the server failed; of two deletions of one row, at most one succeeds.
Deletes(x) == {q \in Request : Op(q) = "delete" /\ Target(q) = x}
AnswersMatchRows ==
    \A r \in Request :
       LET x == Target(r) IN
       /\ Op(r) = "create" /\ outcome[r] = "ok" /\ db[x] = NoRow
             => \E q \in Deletes(x) : outcome[q] \in {"ok", "ServerError"}
       /\ Op(r) = "create" /\ db[x] # NoRow => outcome[r] \in {"none", "ok", "ServerError"}
       /\ Op(r) = "delete" /\ outcome[r] = "ok" =>
             db[x] = NoRow /\ \A q \in Deletes(x) \ {r} : outcome[q] # "ok"

\* The columns an update gives are in the row it answers with.
Shows(r) == reply[r] # NoRow /\ \A c \in DOMAIN call[r].given : reply[r][c] = call[r].given[c]
UpdatesShown ==
    \A r \in Request :
       Op(r) = "update" /\ outcome[r] = "ok" /\ Table(r) # "card" => Shows(r)

\* "assert ... blocked.get_json()["status"] == "BLOCKED"" (tests/integration/
\* test_resource_crud.py:90): so are those of a card's update.
CardUpdatesShown ==
    \A r \in Request :
       Op(r) = "update" /\ outcome[r] = "ok" /\ Table(r) = "card" => Shows(r)

\* Who may commit a change of the row a request is about: an administrator, the
\* customer a customer's row or a card belongs to, who files a ticket for himself.
MayWrite(r) ==
    \/ Actor(r) = Admin
    \/ Op(r) = "update" /\ Table(r) \in {"customer", "card"} /\ Actor(r) = OwnerIn(db, Target(r))
    \/ Op(r) = "create" /\ Table(r) = "customer_support" /\ Actor(r) = OwnerIn(work, Target(r))

\* Rows change by the COMMIT of a request that may write them, and of no other.
OnlyOwnersWrite ==
    [][\A x \in Record : db'[x] # db[x] =>
         \E r \in Request : pc[r] = "commit" /\ Target(r) = x /\ MayWrite(r)]_vars

\* Nobody but an administrator is shown a row of another customer, whatever was created,
\* changed and deleted while the request ran, also between the look at a card's owner
\* and the read of the card.
OnlyOwnersRead ==
    \A r \in Request :
       reply[r] # NoRow /\ pc[r] = "done" /\ Actor(r) # Admin =>
          \/ Actor(r) \in {Target(r)} \cup reply[r].refs
          \/ \E a \in reply[r].refs \cap Of("account") : db[a] = NoRow \/ Actor(r) \in db[a].refs

\* The report gives each branch the employees and the accounts it has, each counted once,
\* whoever is hired and dismissed, opened and closed; a branch that has none is not taken
\* to have one.  (For any other thresholds see ReportCountsOnce.)
Thresholds == 0..1
BranchesAreCounted ==
    \A minEmployees, minAccounts \in Thresholds :
       WithConditions(minEmployees, minAccounts) =
         {Conditions(b, Cardinality(RowsOf(Employee, b)), Cardinality(RowsOf(Account, b))) :
            b \in {b \in Branch : /\ db[b] # NoRow
                                 /\ Cardinality(RowsOf(Employee, b)) > minEmployees
                                 /\ Cardinality(RowsOf(Account, b)) >= minAccounts}}

R == INSTANCE Registry WITH rows <- db

\* Statement by statement and failing anywhere, the endpoints look like single
\* operations on rows that always fit together.
ImplementsRegistry == R!Spec
=============================================================================
