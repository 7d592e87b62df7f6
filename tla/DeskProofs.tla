----------------------------- MODULE DeskProofs -----------------------------
(***************************************************************************)
(* Whatever happens to the rows of users while they log in, and to tickets *)
(* while requests about them wait: tokens say what a row once said, their  *)
(* requests stay within it, and tickets are dated consistently.            *)
(***************************************************************************)
EXTENDS Desk, TLAPS, FiniteSetTheorems, WellFoundedInduction

LEMMA InitStep == Init => IInv
<1> SUFFICES ASSUME Init PROVE IInv
  OBVIOUS
<1>0. Outside \in ClientState /\ \A c \in Client : client[c] = Outside
  BY DEF Init, Outside, ClientState
<1>1. TypeOK
  BY <1>0 DEF Init, TypeOK, Outside
<1>2. HasItsPapers /\ FilesAFreshTicket /\ SetsALaterDate /\ AuthorityWasGranted
  BY <1>0 DEF HasItsPapers, FilesAFreshTicket, SetsALaterDate, AuthorityWasGranted, Outside
<1>3. DatesFit
  BY DEF Init, DatesFit
<1> QED
  BY <1>1, <1>2, <1>3 DEF IInv

LEMMA TickStep == IInv /\ Tick => IInv'
<1> SUFFICES ASSUME IInv, Tick PROVE IInv'
  OBVIOUS
<1>0. now \in Nat /\ now' = now + 1 /\ UNCHANGED <<users, tickets, client>>
  BY DEF IInv, TypeOK, Tick
<1>1. TypeOK'
  BY <1>0 DEF IInv, TypeOK
<1>2. HasItsPapers' /\ AuthorityWasGranted'
  BY <1>0 DEF IInv, HasItsPapers, AuthorityWasGranted
<1>3. FilesAFreshTicket' /\ SetsALaterDate'
  BY <1>0 DEF IInv, FilesAFreshTicket, SetsALaterDate, FilingJob, SettingJob
<1>4. DatesFit'
  <2>1. ASSUME NEW t \in Ticket, tickets[t] # None PROVE tickets[t] \in TicketRow
    BY <2>1 DEF IInv, TypeOK
  <2> QED
    BY <1>0, <2>1 DEF IInv, DatesFit, TicketRow
<1> QED
  BY <1>1, <1>2, <1>3, <1>4 DEF IInv

LEMMA ChangeUserStep ==
  ASSUME IInv, NEW u \in User, NEW row \in UserRow \cup {None}, ChangeUser(u, row)
  PROVE  IInv'
<1>0. UNCHANGED <<now, tickets>>
  BY DEF ChangeUser
<1>1. ASSUME NEW c \in Client
      PROVE  /\ client'[c] \in ClientState
             /\ client'[c].pc = client[c].pc /\ client'[c].token = client[c].token
             /\ client'[c].read = client[c].read /\ client'[c].job = client[c].job
             /\ client'[c].password = client[c].password
             /\ client[c].during \subseteq client'[c].during
  BY DEF IInv, TypeOK, ChangeUser, ClientState
<1>2. client' \in [Client -> ClientState]
  BY <1>1 DEF ChangeUser
<1>3. TypeOK'
  BY <1>0, <1>2 DEF IInv, TypeOK, ChangeUser
<1>4. HasItsPapers'
  BY <1>1 DEF IInv, HasItsPapers
<1>5. FilesAFreshTicket' /\ SetsALaterDate'
  BY <1>0, <1>1 DEF IInv, FilesAFreshTicket, SetsALaterDate
<1>6. AuthorityWasGranted'
  BY <1>1 DEF IInv, AuthorityWasGranted
<1>7. DatesFit'
  BY <1>0 DEF IInv, DatesFit
<1> QED
  BY <1>3, <1>4, <1>5, <1>6, <1>7 DEF IInv

\* The client a step is about changes as it says, and no other does.
LEMMA OneClient ==
  ASSUME IInv, NEW c \in Client, NEW new \in ClientState, Become(c, new)
  PROVE  /\ client' \in [Client -> ClientState]
         /\ client'[c] = new
         /\ \A d \in Client \ {c} : client'[d] = client[d]
BY DEF IInv, TypeOK, Become

LEMMA ReadUserStep ==
  ASSUME IInv, NEW c \in Client, NEW u \in User, NEW p \in Password, ReadUser(c, u, p)
  PROVE  IInv'
<1> DEFINE new == [Outside EXCEPT !.pc = "checking", !.user = u, !.password = p,
                                  !.read = users[u], !.during = {users[u]}]
<1>0. users[u] \in UserRow \cup {None} /\ UNCHANGED <<now, users, tickets>>
  BY DEF IInv, TypeOK, ReadUser
<1>1. /\ new \in ClientState /\ new.pc = "checking" /\ new.token = None /\ new.job = None
      /\ new.read \in new.during
  BY <1>0 DEF Outside, ClientState
<1>2. /\ client' \in [Client -> ClientState] /\ client'[c] = new
      /\ \A d \in Client \ {c} : client'[d] = client[d]
  BY <1>1, OneClient DEF ReadUser
<1> HIDE DEF new
<1>3. TypeOK'
  BY <1>0, <1>2 DEF IInv, TypeOK
<1>4. HasItsPapers' /\ AuthorityWasGranted'
  BY <1>1, <1>2 DEF IInv, HasItsPapers, AuthorityWasGranted
<1>5. FilesAFreshTicket' /\ SetsALaterDate'
  BY <1>0, <1>1, <1>2 DEF IInv, FilesAFreshTicket, SetsALaterDate
<1>6. DatesFit'
  BY <1>0 DEF IInv, DatesFit
<1> QED
  BY <1>3, <1>4, <1>5, <1>6 DEF IInv

\* A login that is refused, and one that is not.
LEMMA LoginStep == ASSUME IInv, NEW c \in Client, Login(c) PROVE IInv'
<1> DEFINE row == client[c].read
           new == IF row # None /\ row.password = client[c].password
                    THEN [client[c] EXCEPT !.pc = "in", !.read = None, !.token = Token(row)]
                    ELSE Outside
<1>0. UNCHANGED <<now, users, tickets>> /\ now \in Nat /\ client[c] \in ClientState
  BY DEF IInv, TypeOK, Login
<1>1. client[c].pc = "checking" /\ row \in client[c].during /\ client[c].job = None
  BY <1>0 DEF IInv, HasItsPapers, Login
<1>2. ASSUME row # None PROVE Token(row) \in TokenRow /\ Token(row) # None
  <2>1. row \in UserRow
    BY <1>0, <1>2 DEF ClientState
  <2> QED
    BY <1>0, <2>1, DeskAssumption DEF Token, TokenRow
<1>3. /\ new \in ClientState /\ new.pc \in {"in", "out"} /\ new.job = None
      /\ (new.token = None) = (new.pc = "out")
  <2>1. CASE row # None /\ row.password = client[c].password
    BY <1>0, <1>1, <1>2, <2>1 DEF ClientState
  <2>2. CASE ~(row # None /\ row.password = client[c].password)
    BY <2>2 DEF ClientState, Outside
  <2> QED
    BY <2>1, <2>2
<1>4. new.token # None =>
        \E r \in new.during \ {None} : /\ r.password = new.password
                                       /\ <<r.role, r.customer>> = <<new.token.role, new.token.customer>>
  <2>1. CASE row # None /\ row.password = client[c].password
    BY <1>0, <1>1, <2>1 DEF ClientState, Token
  <2>2. CASE ~(row # None /\ row.password = client[c].password)
    BY <2>2 DEF Outside
  <2> QED
    BY <2>1, <2>2
<1>5. Become(c, new)
  BY DEF Login
<1> HIDE DEF new, row
<1>6. /\ client' \in [Client -> ClientState] /\ client'[c] = new
      /\ \A d \in Client \ {c} : client'[d] = client[d]
  BY <1>3, <1>5, OneClient
<1>7. TypeOK'
  BY <1>0, <1>6 DEF IInv, TypeOK
<1>8. HasItsPapers' /\ AuthorityWasGranted'
  BY <1>3, <1>4, <1>6 DEF IInv, HasItsPapers, AuthorityWasGranted
<1>9. FilesAFreshTicket' /\ SetsALaterDate' /\ DatesFit'
  BY <1>0, <1>3, <1>6 DEF IInv, FilesAFreshTicket, SetsALaterDate, DatesFit
<1> QED
  BY <1>7, <1>8, <1>9 DEF IInv

LEMMA FileStep ==
  ASSUME IInv, NEW c \in Client, NEW t \in Ticket, NEW e \in Employee,
         NEW named \in Customer \cup {None}, File(c, t, e, named)
  PROVE  IInv'
<1> DEFINE token == client[c].token
           filed == FiledFor(c, named)
           row == [customer |-> filed, employee |-> e, status |-> "OPEN",
                   created |-> now, resolved |-> None]
           job == [ticket |-> t, at |-> now, row |-> row]
           new == [client[c] EXCEPT !.pc = "filing", !.job = job]
<1>0. /\ UNCHANGED <<now, users, tickets>> /\ now \in Nat /\ client[c] \in ClientState
      /\ client[c].pc = "in" /\ now < token.expires
  BY DEF IInv, TypeOK, File, Verified
<1>1. token \in TokenRow /\ token # None
  BY <1>0, DeskAssumption DEF IInv, HasItsPapers, ClientState
<1>2. filed \in Customer /\ (token.role = "ADMIN" \/ token.customer = filed)
  BY <1>1 DEF File, FiledFor, TokenRow
<1>3. row \in TicketRow /\ job \in FilingJob /\ job # None
  <2>1. row \in TicketRow
    BY <1>0, <1>2 DEF TicketRow, Statuses
  <2> QED
    BY <1>0, <2>1, DeskAssumption DEF FilingJob
<1>4. /\ new \in ClientState /\ new.pc = "filing" /\ new.job = job /\ new.token = token
      /\ new.during = client[c].during /\ new.password = client[c].password
  BY <1>0, <1>3 DEF ClientState
<1>5. Become(c, new) /\ tickets[t] = None
      /\ \A d \in Client : client[d].job # None => client[d].job.ticket # t
  BY DEF File
<1>6. /\ job.ticket = t /\ job.at = now /\ job.row = row
      /\ row.customer = filed /\ row.status = "OPEN" /\ row.created = now /\ row.resolved = None
  OBVIOUS
<1> HIDE DEF new, job, row, filed
<1>7. /\ client' \in [Client -> ClientState] /\ client'[c] = new
      /\ \A d \in Client \ {c} : client'[d] = client[d]
  BY <1>4, <1>5, OneClient
<1>8. TypeOK'
  BY <1>0, <1>7 DEF IInv, TypeOK
<1>9. HasItsPapers' /\ AuthorityWasGranted'
  BY <1>0, <1>1, <1>3, <1>4, <1>6, <1>7 DEF IInv, HasItsPapers, AuthorityWasGranted
<1>10. FilesAFreshTicket'
  BY <1>0, <1>2, <1>3, <1>4, <1>5, <1>6, <1>7 DEF IInv, FilesAFreshTicket, HasItsPapers
<1>11. SetsALaterDate' /\ DatesFit'
  BY <1>0, <1>4, <1>7 DEF IInv, SetsALaterDate, DatesFit
<1> QED
  BY <1>8, <1>9, <1>10, <1>11 DEF IInv

LEMMA SetStatusStep ==
  ASSUME IInv, NEW c \in Client, NEW t \in Ticket, NEW status \in Statuses,
         SetStatus(c, t, status)
  PROVE  IInv'
<1> DEFINE job == [ticket |-> t, at |-> now, status |-> status,
                   resolved |-> IF status = "RESOLVED" THEN now ELSE None]
           new == [client[c] EXCEPT !.pc = "setting", !.job = job]
<1>0. /\ UNCHANGED <<now, users, tickets>> /\ now \in Nat /\ client[c] \in ClientState
      /\ client[c].pc = "in" /\ now < client[c].token.expires /\ client[c].token.role = "ADMIN"
      /\ tickets[t] # None
  BY DEF IInv, TypeOK, SetStatus, IsAdmin, Verified
<1>1. client[c].token # None /\ tickets[t].created <= now
  BY <1>0 DEF IInv, HasItsPapers, DatesFit
<1>2. job \in SettingJob /\ job # None
  BY <1>0, DeskAssumption DEF SettingJob
<1>3. /\ new \in ClientState /\ new.pc = "setting" /\ new.job = job
      /\ new.token = client[c].token /\ new.during = client[c].during
      /\ new.password = client[c].password
  BY <1>0, <1>2 DEF ClientState
<1>4. Become(c, new)
  BY DEF SetStatus
<1>5. /\ job.ticket = t /\ job.at = now /\ job.status = status
      /\ job.resolved = IF status = "RESOLVED" THEN now ELSE None
  OBVIOUS
<1> HIDE DEF new, job
<1>6. /\ client' \in [Client -> ClientState] /\ client'[c] = new
      /\ \A d \in Client \ {c} : client'[d] = client[d]
  BY <1>3, <1>4, OneClient
<1>7. TypeOK'
  BY <1>0, <1>6 DEF IInv, TypeOK
<1>8. HasItsPapers' /\ AuthorityWasGranted'
  BY <1>0, <1>1, <1>2, <1>3, <1>5, <1>6 DEF IInv, HasItsPapers, AuthorityWasGranted
<1>9. FilesAFreshTicket'
  BY <1>0, <1>3, <1>5, <1>6 DEF IInv, FilesAFreshTicket
<1>10. SetsALaterDate'
  BY <1>0, <1>1, <1>2, <1>3, <1>5, <1>6 DEF IInv, SetsALaterDate
<1>11. DatesFit'
  BY <1>0 DEF IInv, DatesFit
<1> QED
  BY <1>7, <1>8, <1>9, <1>10, <1>11 DEF IInv

\* A request is over: what the client is, no date of another request's has changed.
LEMMA DoneStep ==
  ASSUME IInv, NEW c \in Client, client[c].pc \in {"filing", "setting"}, Done(c),
         UNCHANGED <<now, users>>, tickets' \in [Ticket -> TicketRow \cup {None}], DatesFit',
         \A d \in Client \ {c} : client[d].job # None =>
            LET t == client[d].job.ticket IN
            \/ tickets'[t] = tickets[t]
            \/ client[d].pc = "setting" /\ tickets[t] # None
               /\ (tickets'[t] # None => tickets'[t].created = tickets[t].created)
  PROVE  IInv'
<1> DEFINE new == [client[c] EXCEPT !.pc = "in", !.job = None]
<1>0. client[c] \in ClientState /\ Become(c, new)
  BY DEF IInv, TypeOK, Done
<1>1. /\ new \in ClientState /\ new.pc = "in" /\ new.job = None /\ new.token = client[c].token
      /\ new.during = client[c].during /\ new.password = client[c].password
  BY <1>0 DEF ClientState
<1> HIDE DEF new
<1>2. /\ client' \in [Client -> ClientState] /\ client'[c] = new
      /\ \A d \in Client \ {c} : client'[d] = client[d]
  BY <1>0, <1>1, OneClient
<1>3. TypeOK'
  BY <1>2 DEF IInv, TypeOK
<1>4. HasItsPapers' /\ AuthorityWasGranted'
  BY <1>1, <1>2 DEF IInv, HasItsPapers, AuthorityWasGranted
<1>5. ASSUME NEW d \in Client, client'[d].pc \in {"filing", "setting"}
      PROVE  /\ d # c /\ client'[d] = client[d] /\ client[d].job # None
  BY <1>1, <1>2, <1>5 DEF IInv, HasItsPapers
<1>6. FilesAFreshTicket'
  BY <1>1, <1>2, <1>5 DEF IInv, FilesAFreshTicket
<1>7. SetsALaterDate'
  BY <1>2, <1>5 DEF IInv, SetsALaterDate
<1> QED
  BY <1>3, <1>4, <1>6, <1>7 DEF IInv

LEMMA InsertStep == ASSUME IInv, NEW c \in Client, Insert(c) PROVE IInv'
<1> DEFINE job == client[c].job
<1>0. /\ client[c].pc = "filing" /\ Done(c) /\ UNCHANGED <<now, users>>
      /\ tickets' = [tickets EXCEPT ![job.ticket] = job.row]
      /\ tickets \in [Ticket -> TicketRow \cup {None}] /\ now \in Nat
  BY DEF IInv, TypeOK, Insert
<1>1. /\ job \in FilingJob /\ job.at <= now /\ job.row.created = job.at
      /\ job.row.status = "OPEN" /\ job.row.resolved = None /\ tickets[job.ticket] = None
      /\ \A d \in Client \ {c} : client[d].job # None => client[d].job.ticket # job.ticket
  BY <1>0 DEF IInv, FilesAFreshTicket
<1>2. job.ticket \in Ticket /\ job.row \in TicketRow
  BY <1>1 DEF FilingJob
<1> HIDE DEF job
<1>3. /\ tickets' \in [Ticket -> TicketRow \cup {None}] /\ tickets'[job.ticket] = job.row
      /\ \A t \in Ticket \ {job.ticket} : tickets'[t] = tickets[t]
  BY <1>0, <1>2
<1>4. DatesFit'
  BY <1>0, <1>1, <1>2, <1>3 DEF IInv, DatesFit
<1>5. ASSUME NEW d \in Client \ {c}, client[d].job # None
      PROVE  tickets'[client[d].job.ticket] = tickets[client[d].job.ticket]
  BY <1>0, <1>1, <1>5, <1>2
<1> QED
  BY <1>0, <1>3, <1>4, <1>5, DoneStep

LEMMA UpdateStep == ASSUME IInv, NEW c \in Client, Update(c) PROVE IInv'
<1> DEFINE job == client[c].job
           x == job.ticket
<1>0. /\ client[c].pc = "setting" /\ Done(c) /\ UNCHANGED <<now, users>>
      /\ tickets \in [Ticket -> TicketRow \cup {None}] /\ now \in Nat
      /\ tickets' = IF tickets[x] = None THEN tickets
                    ELSE [tickets EXCEPT ![x] = StatusRow(tickets[x], job)]
  BY DEF IInv, TypeOK, Update
<1>1. /\ job \in SettingJob /\ job.at <= now
      /\ job.resolved = IF job.status = "RESOLVED" THEN job.at ELSE None
      /\ tickets[x] # None => tickets[x].created <= job.at
  BY <1>0 DEF IInv, SetsALaterDate
<1>2. x \in Ticket /\ job.at \in Nat /\ job.status \in Statuses /\ job.resolved \in Nat \cup {None}
  BY <1>1 DEF SettingJob
<1>3. ASSUME tickets[x] # None
      PROVE  LET row == StatusRow(tickets[x], job) IN
             /\ row \in TicketRow /\ row.created = tickets[x].created
             /\ row.status = job.status /\ row.resolved = job.resolved
  <2>1. tickets[x] \in TicketRow
    BY <1>0, <1>2, <1>3
  <2> QED
    BY <1>2, <2>1 DEF StatusRow, TicketRow
<1> HIDE DEF job
<1>4. /\ tickets' \in [Ticket -> TicketRow \cup {None}]
      /\ \A t \in Ticket : tickets'[t] # None => tickets[t] # None
      /\ \A t \in Ticket : tickets'[t] # tickets[t] =>
            /\ t = x /\ tickets[t] # None /\ tickets'[t].created = tickets[t].created
            /\ tickets'[t].status = job.status /\ tickets'[t].resolved = job.resolved
  BY <1>0, <1>2, <1>3
<1>5. DatesFit'
  <2> SUFFICES ASSUME NEW t \in Ticket, tickets'[t] # None
               PROVE  /\ (tickets'[t].status = "RESOLVED") = (tickets'[t].resolved # None)
                      /\ tickets'[t].created <= now
                      /\ tickets'[t].resolved # None => tickets'[t].resolved \in tickets'[t].created..now
    BY <1>0 DEF DatesFit
  <2>1. CASE tickets'[t] = tickets[t]
    BY <2>1 DEF IInv, DatesFit
  <2>2. CASE tickets'[t] # tickets[t]
    <3>1. tickets'[t] \in TicketRow
      BY <1>4
    <3> QED
      BY <1>0, <1>1, <1>2, <1>4, <2>2, <3>1, DeskAssumption DEF TicketRow, IInv, DatesFit
  <2> QED
    BY <2>1, <2>2
<1>6. ASSUME NEW d \in Client \ {c}, client[d].job # None
      PROVE  LET t == client[d].job.ticket IN
             \/ tickets'[t] = tickets[t]
             \/ client[d].pc = "setting" /\ tickets[t] # None
                /\ (tickets'[t] # None => tickets'[t].created = tickets[t].created)
  <2>1. client[d].pc \in {"filing", "setting"} /\ client[d].job.ticket \in Ticket
    BY <1>6 DEF IInv, TypeOK, HasItsPapers, ClientState, FilingJob, SettingJob
  <2>2. client[d].pc = "filing" => tickets[client[d].job.ticket] = None
    BY DEF IInv, FilesAFreshTicket
  <2> QED
    BY <1>4, <2>1, <2>2
<1> QED
  BY <1>0, <1>4, <1>5, <1>6, DoneStep

LEMMA FailsStep == ASSUME IInv, NEW c \in Client, Fails(c) PROVE IInv'
<1>1. /\ client[c].pc \in {"filing", "setting"} /\ Done(c) /\ UNCHANGED <<now, users, tickets>>
      /\ tickets \in [Ticket -> TicketRow \cup {None}]
  BY DEF IInv, TypeOK, Fails
<1>2. DatesFit'
  BY <1>1 DEF IInv, DatesFit
<1> QED
  BY <1>1, <1>2, DoneStep

LEMMA DeleteStep == ASSUME IInv, NEW c \in Client, NEW t \in Ticket, Delete(c, t) PROVE IInv'
<1>0. UNCHANGED <<now, users, client>> /\ tickets' = [tickets EXCEPT ![t] = None]
  BY DEF Delete
<1>1. TypeOK'
  BY <1>0 DEF IInv, TypeOK
<1>2. \A u \in Ticket : tickets'[u] = None \/ tickets'[u] = tickets[u]
  BY <1>0 DEF IInv, TypeOK
<1>3. HasItsPapers' /\ AuthorityWasGranted'
  BY <1>0 DEF IInv, HasItsPapers, AuthorityWasGranted
<1>4. FilesAFreshTicket'
  <2>1. ASSUME NEW d \in Client, client[d].pc = "filing"
        PROVE  client[d].job.ticket \in Ticket
    BY <2>1 DEF IInv, FilesAFreshTicket, FilingJob
  <2> QED
    BY <1>0, <1>2, <2>1 DEF IInv, FilesAFreshTicket
<1>5. SetsALaterDate'
  <2>1. ASSUME NEW d \in Client, client[d].pc = "setting"
        PROVE  client[d].job.ticket \in Ticket
    BY <2>1 DEF IInv, SetsALaterDate, SettingJob
  <2> QED
    BY <1>0, <1>2, <2>1 DEF IInv, SetsALaterDate
<1>6. DatesFit'
  BY <1>0, <1>2 DEF IInv, DatesFit
<1> QED
  BY <1>1, <1>3, <1>4, <1>5, <1>6 DEF IInv

LEMMA NextStep == IInv /\ [Next]_vars => IInv'
<1> SUFFICES ASSUME IInv, [Next]_vars PROVE IInv'
  OBVIOUS
<1>1. CASE Tick
  BY <1>1, TickStep
<1>2. CASE \E u \in User, row \in UserRow \cup {None} : ChangeUser(u, row)
  BY <1>2, ChangeUserStep
<1>3. ASSUME NEW c \in Client, \E u \in User, p \in Password : ReadUser(c, u, p) PROVE IInv'
  BY <1>3, ReadUserStep
<1>4. ASSUME NEW c \in Client,
             \E t \in Ticket, e \in Employee, n \in Customer \cup {None} : File(c, t, e, n)
      PROVE  IInv'
  BY <1>4, FileStep
<1>5. ASSUME NEW c \in Client, \E t \in Ticket, s \in Statuses : SetStatus(c, t, s) PROVE IInv'
  BY <1>5, SetStatusStep
<1>6. ASSUME NEW c \in Client, Login(c) \/ Insert(c) \/ Update(c) \/ Fails(c) PROVE IInv'
  BY <1>6, LoginStep, InsertStep, UpdateStep, FailsStep
<1>7. ASSUME NEW c \in Client, \E t \in Ticket : Delete(c, t) PROVE IInv'
  BY <1>7, DeleteStep
<1>8. CASE UNCHANGED vars
  BY <1>8 DEF vars, IInv, TypeOK, HasItsPapers, FilesAFreshTicket, SetsALaterDate,
              AuthorityWasGranted, DatesFit
<1> QED
  BY <1>1, <1>2, <1>3, <1>4, <1>5, <1>6, <1>7, <1>8 DEF Next

\* Whatever clients, users and tickets there are, and however long tokens live, the
\* invariant of the desk (support_service, auth_service) is inductive.
THEOREM Invariance == Spec => []IInv
<1>1. Init => IInv
  BY InitStep
<1>2. IInv /\ [Next]_vars => IInv'
  BY NextStep
<1> QED
  BY <1>1, <1>2, PTL DEF Spec

\* A token never says what its user's row did not say, with the password that was given, at
\* one moment of the login, and no request is let in by it after its time (api/auth.py,
\* security/auth.py).
THEOREM TokensWereGranted == Spec => []AuthorityWasGranted
<1>1. IInv => AuthorityWasGranted
  BY DEF IInv
<1> QED
  BY <1>1, Invariance, PTL

\* No request files for another customer, or sets a status, unless the row of its
\* user allowed it during the login (api/customer_support.py).
THEOREM StaysWithinTheRow == Spec => []ActsWithinItsRow
<1>1. IInv => ActsWithinItsRow
  <2> SUFFICES ASSUME IInv, NEW c \in Client, client[c].job # None
               PROVE  \E row \in client[c].during \ {None} :
                         \/ row.role = "ADMIN"
                         \/ client[c].pc = "filing" /\ row.customer = client[c].job.row.customer
    BY DEF ActsWithinItsRow
  <2>1. client[c].pc \in {"filing", "setting"} /\ client[c].token # None
    BY DEF IInv, HasItsPapers
  <2>2. PICK row \in client[c].during \ {None} :
           <<row.role, row.customer>> = <<client[c].token.role, client[c].token.customer>>
    BY <2>1 DEF IInv, AuthorityWasGranted
  <2>3. \/ client[c].token.role = "ADMIN"
        \/ client[c].pc = "filing" /\ client[c].token.customer = client[c].job.row.customer
    BY <2>1 DEF IInv, FilesAFreshTicket, SetsALaterDate
  <2> QED
    BY <2>2, <2>3
<1> QED
  BY <1>1, Invariance, PTL

\* A ticket is dated as its status says, and never resolved before it was created
\* or in the future (support_service.set_status).
THEOREM TicketsAreDated == Spec => []DatesFit
<1>1. IInv => DatesFit
  BY DEF IInv
<1> QED
  BY <1>1, Invariance, PTL
-----------------------------------------------------------------------------
(* The report of the best resolvers.                                       *)

\* Natural numbers that do not exceed some bound have a largest one.
LEMMA LargestExists ==
  ASSUME NEW S \in SUBSET Nat, S # {}, NEW n \in Nat, \A x \in S : x <= n
  PROVE  Max(S) \in S /\ \A x \in S : x <= Max(S)
<1> DEFINE D == {n - x : x \in S}
<1>1. D \subseteq Nat /\ D # {}
  OBVIOUS
<1>2. PICK d \in D : \A e \in D : ~ (<<e, d>> \in OpToRel(<, Nat))
  BY <1>1, NatLessThanWellFounded, WFMin, Zenon
<1>3. \A e \in D : ~ (e < d)
  BY <1>1, <1>2 DEF OpToRel
<1>4. PICK x \in S : d = n - x
  OBVIOUS
<1>5. \A y \in S : x >= y
  <2> SUFFICES ASSUME NEW y \in S PROVE x >= y
    OBVIOUS
  <2>1. n - y \in D
    OBVIOUS
  <2> HIDE DEF D
  <2> QED
    BY <2>1, <1>3, <1>4
<1>6. \E z \in S : \A y \in S : z >= y
  BY <1>5
<1> QED
  BY <1>6 DEF Max

\* The tickets that employee e has resolved.
ResolvedBy(e) == {t \in Ticket : /\ tickets[t] # None /\ tickets[t].employee = e
                                 /\ tickets[t].status = "RESOLVED"}

\* However many employees have resolved however many tickets, the report
\* (support_tickets.top_resolvers) names all those, and only those, who have resolved
\* one and whom nobody surpasses.
THEOREM TheBestAreReported ==
  ASSUME IsFiniteSet(Ticket)
  PROVE  Spec => []ReportsTheBest
<1>1. DatesFit => ReportsTheBest
  <2> SUFFICES ASSUME DatesFit PROVE ReportsTheBest
    OBVIOUS
  <2> DEFINE D == {e \in Employee : ResolvedBy(e) # {}}
             C(e) == Cardinality(ResolvedBy(e))
             N == {C(e) : e \in D}
             Dated(e) == {t \in Ticket : tickets[t] # None /\ tickets[t].resolved # None
                                         /\ tickets[t].employee = e}
  <2>1. \A e : Dated(e) = ResolvedBy(e)
    BY DEF DatesFit, ResolvedBy
  <2>2. ASSUME NEW e PROVE C(e) \in 0..Cardinality(Ticket) /\ (C(e) = 0 <=> ResolvedBy(e) = {})
    <3>1. ResolvedBy(e) \in SUBSET Ticket
      BY DEF ResolvedBy
    <3>2. IsFiniteSet(ResolvedBy(e)) /\ C(e) <= Cardinality(Ticket)
      BY <3>1, FS_Subset
    <3>3. C(e) \in Nat /\ Cardinality(Ticket) \in Nat /\ (C(e) = 0 <=> ResolvedBy(e) = {})
      BY <3>2, FS_CardinalityType, FS_EmptySet
    <3> QED
      BY <3>2, <3>3
  <2>3. ResolvedTickets = [e \in D |-> C(e)]
    BY DEF ResolvedTickets, ResolvedBy
  <2>4. TopResolvers = {e \in D : C(e) = Max(N)}
    <3>1. DOMAIN ResolvedTickets = D /\ \A e \in D : ResolvedTickets[e] = C(e)
      BY <2>3
    <3>2. {ResolvedTickets[f] : f \in DOMAIN ResolvedTickets} = N
      BY <3>1
    <3> HIDE DEF N, D
    <3> QED
      BY <3>1, <3>2 DEF TopResolvers
  <2>5. ASSUME NEW e \in D PROVE (C(e) = Max(N)) <=> (\A f \in Employee : C(f) <= C(e))
    <3>1. C(e) \in N /\ N \in SUBSET Nat /\ \A x \in N : x <= Cardinality(Ticket)
      BY <2>2
    <3>2. Cardinality(Ticket) \in Nat
      BY FS_CardinalityType
    <3>3. Max(N) \in N /\ \A x \in N : x <= Max(N)
      <4> HIDE DEF N
      <4> QED
        BY <3>1, <3>2, LargestExists
    <3>4. PICK b \in D : Max(N) = C(b)
      BY <3>3
    <3>5. ASSUME C(e) = Max(N), NEW f \in Employee PROVE C(f) <= C(e)
      <4>1. CASE f \in D
        <5>1. C(f) \in N
          BY <4>1
        <5> HIDE DEF N, C, D
        <5> QED
          BY <5>1, <3>3, <3>5
      <4>2. CASE f \notin D
        <5>1. C(f) = 0
          BY <4>2, <2>2
        <5>2. C(e) \in Nat
          BY <2>2
        <5> QED
          BY <5>1, <5>2
      <4> QED
        BY <4>1, <4>2
    <3>6. ASSUME \A f \in Employee : C(f) <= C(e) PROVE C(e) = Max(N)
      <4>1. C(b) <= C(e) /\ C(b) \in Nat /\ C(e) \in Nat
        BY <3>6, <2>2
      <4>2. C(e) <= C(b)
        <5> HIDE DEF N, C
        <5> QED
          BY <3>1, <3>3, <3>4
      <4> HIDE DEF N, C, D
      <4> QED
        BY <4>1, <4>2, <3>4
    <3> QED
      BY <3>5, <3>6
  <2>6. TopResolvers = {e \in Employee : Dated(e) # {}
                          /\ \A f \in Employee : Cardinality(Dated(f)) <= Cardinality(Dated(e))}
    <3>1. ASSUME NEW e \in Employee
          PROVE  e \in TopResolvers <=>
                   (ResolvedBy(e) # {} /\ \A f \in Employee : C(f) <= C(e))
      <4> HIDE DEF N, C
      <4> QED
        BY <2>4, <2>5
    <3>2. TopResolvers \subseteq Employee
      BY <2>4
    <3>3. ASSUME NEW e \in Employee
          PROVE  e \in TopResolvers <=>
                   (Dated(e) # {} /\ \A f \in Employee : Cardinality(Dated(f)) <= Cardinality(Dated(e)))
      BY <3>1, <2>1
    <3> HIDE DEF Dated
    <3> QED
      BY <3>2, <3>3
  <2> QED
    BY <2>6 DEF ReportsTheBest
<1> QED
  BY <1>1, TicketsAreDated, PTL
=============================================================================
