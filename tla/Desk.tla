-------------------------------- MODULE Desk --------------------------------
(***************************************************************************)
(* Logins, tokens and support tickets on one clock.  A client logs in      *)
(* (auth_service.authenticate) and holds a token that carries what the     *)
(* user's row said (api/auth.py); the ticket endpoints                     *)
(* (api/customer_support.py) go by the token alone (security/auth.py),     *)
(* while the row is changed or deleted.  Tickets are dated by the worker   *)
(* before it waits for a connection and for the row (support_service).     *)
(*                                                                         *)
(* A unit of work on one ticket is one step here: it holds the ticket's    *)
(* row from its first statement to its COMMIT.  Records takes it apart.    *)
(***************************************************************************)
EXTENDS Integers, FiniteSets, FiniteSetsExt

CONSTANTS
    User, Password, Customer, Employee, Ticket,
    UserRow,   \* the rows the user table may hold
    Client,
    Lifetime,  \* JWT_ACCESS_TOKEN_EXPIRES
    MaxTime,   \* bound: the last instant of the clock
    None

Roles == {"ADMIN", "USER"}
Statuses == {"OPEN", "IN_PROGRESS", "RESOLVED"}

\* The claims of a token, a row of customer_support, and what a request has made up
\* before its unit of work: the row it inserts, or the columns it sets.
TokenRow == [role : Roles, customer : Customer \cup {None}, expires : Nat]
TicketRow == [customer : Customer, employee : Employee, status : Statuses,
              created : Nat, resolved : Nat \cup {None}]
FilingJob == [ticket : Ticket, at : Nat, row : TicketRow]
SettingJob == [ticket : Ticket, at : Nat, status : Statuses, resolved : Nat \cup {None}]

ASSUME DeskAssumption ==
    /\ UserRow \subseteq [password : Password, role : Roles, customer : Customer \cup {None}]
    /\ Lifetime \in Nat \ {0} /\ MaxTime \in Nat
    /\ None \notin Nat \cup Customer \cup UserRow \cup TokenRow \cup TicketRow \cup FilingJob \cup SettingJob

VARIABLES
    now,      \* utcnow()
    users,    \* user -> its row, or None
    tickets,  \* ticket -> its row, or None
    client    \* the clients

vars == <<now, users, tickets, client>>

\* A client: where it is; whom it logs in as; the row that was read for it; the rows
\* the user had while it logged in; its token; the request it has in the service.
Outside == [pc |-> "out", user |-> None, password |-> None, read |-> None, during |-> {},
            token |-> None, job |-> None]

Become(c, new) == client' = [client EXCEPT ![c] = new]
-----------------------------------------------------------------------------
(* Users and logins.                                                       *)

Tick ==
    /\ now < MaxTime
    /\ now' = now + 1
    /\ UNCHANGED <<users, tickets, client>>

\* user_service.update and delete, by an administrator.
ChangeUser(u, row) ==
    /\ users[u] # None
    /\ users' = [users EXCEPT ![u] = row]
    /\ client' = [c \in Client |->
                    IF client[c].pc = "checking" /\ client[c].user = u
                      THEN [client[c] EXCEPT !.during = @ \cup {row}] ELSE client[c]]
    /\ UNCHANGED <<now, tickets>>

\* The read_only block of authenticate.
ReadUser(c, u, p) ==
    /\ client[c].pc \in {"out", "in"}
    /\ Become(c, [Outside EXCEPT !.pc = "checking", !.user = u, !.password = p,
                                 !.read = users[u], !.during = {users[u]}])
    /\ UNCHANGED <<now, users, tickets>>

\* What create_access_token signs.
Token(row) == [role |-> row.role, customer |-> row.customer, expires |-> now + Lifetime]

\* (Mutant: the claims are read again when the token is made.)
LoginRereading(c) ==
    LET row == client[c].read IN
    /\ client[c].pc = "checking"
    /\ IF row # None /\ row.password = client[c].password /\ users[client[c].user] # None
         THEN Become(c, [client[c] EXCEPT !.pc = "in", !.token = Token(users[client[c].user])])
         ELSE Become(c, Outside)
    /\ UNCHANGED <<now, users, tickets>>

\* check_password_hash, after the connection was given back, and Login.post.
Login(c) ==
    LET row == client[c].read IN
    /\ client[c].pc = "checking"
    /\ IF row # None /\ row.password = client[c].password
         THEN Become(c, [client[c] EXCEPT !.pc = "in", !.read = None, !.token = Token(row)])
         ELSE Become(c, Outside)
    /\ UNCHANGED <<now, users, tickets>>
-----------------------------------------------------------------------------
(* The ticket endpoints.                                                   *)

\* (Mutant: the expiry of a token is not looked at.)
VerifiedForEver(c) == client[c].pc = "in"

\* verify_jwt_in_request.
Verified(c) == client[c].pc = "in" /\ now < client[c].token.expires

\* admin_required.
IsAdmin(c) == Verified(c) /\ client[c].token.role = "ADMIN"

\* (Mutant: whoever files a ticket may name the customer.)
FiledForAnyone(c, named) == named

\* Tickets.post: customers file for themselves, administrators for whom they name.
FiledFor(c, named) == IF client[c].token.role = "ADMIN" THEN named ELSE client[c].token.customer

\* create, up to the unit of work.
File(c, t, e, named) ==
    /\ Verified(c)
    /\ FiledFor(c, named) # None
    /\ \A d \in Client : client[d].job # None => client[d].job.ticket # t  \* a fresh UUID
    /\ tickets[t] = None
    /\ Become(c, [client[c] EXCEPT !.pc = "filing",
                    !.job = [ticket |-> t, at |-> now,
                             row |-> [customer |-> FiledFor(c, named), employee |-> e,
                                      status |-> "OPEN", created |-> now, resolved |-> None]]])
    /\ UNCHANGED <<now, users, tickets>>

Done(c) == Become(c, [client[c] EXCEPT !.pc = "in", !.job = None])

Insert(c) ==
    LET job == client[c].job IN
    /\ client[c].pc = "filing"
    /\ tickets' = [tickets EXCEPT ![job.ticket] = job.row]
    /\ Done(c)
    /\ UNCHANGED <<now, users>>

\* set_status, up to the unit of work.  The id of a ticket is a UUID: a client has
\* it from an answer.
SetStatus(c, t, status) ==
    /\ IsAdmin(c)
    /\ tickets[t] # None
    /\ Become(c, [client[c] EXCEPT !.pc = "setting",
                    !.job = [ticket |-> t, at |-> now, status |-> status,
                             resolved |-> IF status = "RESOLVED" THEN now ELSE None]])
    /\ UNCHANGED <<now, users, tickets>>

\* (Mutant: the date is written only when there is one.)
StatusRowKeepingDate(row, job) ==
    [row EXCEPT !.status = job.status,
                !.resolved = IF job.resolved = None THEN @ ELSE job.resolved]

\* support_tickets.set_status: both columns are written.
StatusRow(row, job) == [row EXCEPT !.status = job.status, !.resolved = job.resolved]

\* The unit of work of set_status.  (A ticket that is no more is not found.)
Update(c) ==
    LET job == client[c].job IN
    /\ client[c].pc = "setting"
    /\ tickets' = IF tickets[job.ticket] = None THEN tickets
                  ELSE [tickets EXCEPT ![job.ticket] = StatusRow(@, job)]
    /\ Done(c)
    /\ UNCHANGED <<now, users>>

\* The unit of work fails: see Transfers.
Fails(c) ==
    /\ client[c].pc \in {"filing", "setting"}
    /\ Done(c)
    /\ UNCHANGED <<now, users, tickets>>

Delete(c, t) ==
    /\ IsAdmin(c)
    /\ tickets[t] # None
    /\ tickets' = [tickets EXCEPT ![t] = None]
    /\ UNCHANGED <<now, users, client>>
-----------------------------------------------------------------------------
(* The report.                                                             *)

\* (Mutant: tickets are counted whatever their status.)
ResolvedTicketsAll ==
    LET by(e) == {t \in Ticket : tickets[t] # None /\ tickets[t].employee = e}
    IN  [e \in {e \in Employee : by(e) # {}} |-> Cardinality(by(e))]

\* WITH ResolvedTickets: an employee without resolved tickets is not joined.
ResolvedTickets ==
    LET by(e) == {t \in Ticket : /\ tickets[t] # None /\ tickets[t].employee = e
                                 /\ tickets[t].status = "RESOLVED"}
    IN  [e \in {e \in Employee : by(e) # {}} |-> Cardinality(by(e))]

\* top_resolvers: the employees whose count is the largest.
TopResolvers ==
    LET counts == ResolvedTickets IN
    {e \in DOMAIN counts : counts[e] = Max({counts[f] : f \in DOMAIN counts})}
-----------------------------------------------------------------------------
Init ==
    /\ now = 0
    /\ users \in [User -> UserRow]
    /\ tickets = [t \in Ticket |-> None]
    /\ client = [c \in Client |-> Outside]

Next ==
    \/ Tick
    \/ \E u \in User, row \in UserRow \cup {None} : ChangeUser(u, row)
    \/ \E c \in Client :
          \/ \E u \in User, p \in Password : ReadUser(c, u, p)
          \/ Login(c)
          \/ \E t \in Ticket, e \in Employee, n \in Customer \cup {None} : File(c, t, e, n)
          \/ \E t \in Ticket, s \in Statuses : SetStatus(c, t, s)
          \/ Insert(c) \/ Update(c) \/ Fails(c)
          \/ \E t \in Ticket : Delete(c, t)

Spec == Init /\ [][Next]_vars
-----------------------------------------------------------------------------
\* A token says no more than the row of its user did at one moment of the login,
\* with the password that was given, however the row is changed meanwhile; and
\* nothing is let in by it after its time, so the change of a row is obeyed then.
AuthorityWasGranted ==
    \A c \in Client :
       LET token == client[c].token IN
       token # None =>
          /\ \E row \in client[c].during \ {None} :
                /\ row.password = client[c].password
                /\ <<row.role, row.customer>> = <<token.role, token.customer>>
          /\ client[c].job # None => client[c].job.at < token.expires

\* A ticket has a date of resolution exactly when it is resolved, which is neither
\* before its creation nor in the future, though the dates are taken by several
\* workers before they wait for the row.
DatesFit ==
    \A t \in Ticket : tickets[t] # None =>
       /\ (tickets[t].status = "RESOLVED") = (tickets[t].resolved # None)
       /\ tickets[t].created <= now
       /\ tickets[t].resolved # None => tickets[t].resolved \in tickets[t].created..now

\* What a request is about to do, the user's row allowed at one moment of the login:
\* customers file tickets for themselves only, and set no status.
ActsWithinItsRow ==
    \A c \in Client : client[c].job # None =>
       \E row \in client[c].during \ {None} :
          \/ row.role = "ADMIN"
          \/ client[c].pc = "filing" /\ row.customer = client[c].job.row.customer

\* The report names the employees tied for the most resolved tickets
\* (support_tickets.py:48): nobody has resolved more, and each has resolved one.
ReportsTheBest ==
    LET resolved(e) == {t \in Ticket : tickets[t] # None /\ tickets[t].resolved # None
                                       /\ tickets[t].employee = e}
    IN  TopResolvers = {e \in Employee :
                          /\ resolved(e) # {}
                          /\ \A f \in Employee :
                                Cardinality(resolved(f)) <= Cardinality(resolved(e))}
-----------------------------------------------------------------------------
(* The inductive invariant of DeskProofs.                                  *)

ClientState ==
    [pc : {"out", "checking", "in", "filing", "setting"}, user : User \cup {None},
     password : Password \cup {None}, read : UserRow \cup {None},
     during : SUBSET (UserRow \cup {None}), token : TokenRow \cup {None},
     job : FilingJob \cup SettingJob \cup {None}]

\* Every variable has its type.
TypeOK ==
    /\ now \in Nat
    /\ users \in [User -> UserRow \cup {None}]
    /\ tickets \in [Ticket -> TicketRow \cup {None}]
    /\ client \in [Client -> ClientState]

\* What a client has, by where it is.
HasItsPapers ==
    \A c \in Client :
       /\ (client[c].token = None) = (client[c].pc \in {"out", "checking"})
       /\ client[c].pc = "checking" => client[c].read \in client[c].during
       /\ (client[c].job # None) = (client[c].pc \in {"filing", "setting"})

\* A ticket that is being filed is nobody else's yet.
FilesAFreshTicket ==
    \A c \in Client : client[c].pc = "filing" =>
       LET job == client[c].job IN
       /\ job \in FilingJob /\ job.at <= now
       /\ job.row.created = job.at /\ job.row.status = "OPEN" /\ job.row.resolved = None
       /\ client[c].token.role = "ADMIN" \/ client[c].token.customer = job.row.customer
       /\ tickets[job.ticket] = None
       /\ \A d \in Client \ {c} : client[d].job # None => client[d].job.ticket # job.ticket

\* A ticket whose status is being set was there when the date was taken.
SetsALaterDate ==
    \A c \in Client : client[c].pc = "setting" =>
       LET job == client[c].job IN
       /\ job \in SettingJob /\ job.at <= now
       /\ job.resolved = IF job.status = "RESOLVED" THEN job.at ELSE None
       /\ client[c].token.role = "ADMIN"
       /\ tickets[job.ticket] # None => tickets[job.ticket].created <= job.at

IInv == TypeOK /\ HasItsPapers /\ FilesAFreshTicket /\ SetsALaterDate
        /\ AuthorityWasGranted /\ DatesFit
=============================================================================
