----------------------------- MODULE RecordsInv -----------------------------
(***************************************************************************)
(* The inductive invariants behind the safety of Records: why rows fit     *)
(* together, and what a request knows of the rows it answers about.        *)
(***************************************************************************)
EXTENDS Records

\* A request changes no row but its target.
ChangesItsTarget == \A x \in Record : \A r \in Request : lock[x] = r => x = Target(r)

\* Rows refer, committed or not, to rows that are there committed and not: so they
\* do whichever of the transactions end, and however.
FirmReferences ==
    \A t \in {db, work} : \A x \in Record :
       t[x] # NoRow => \A p \in t[x].refs : db[p] # NoRow /\ work[p] # NoRow

\* No value is used by two rows, if one committed and the other not.
NoDuplicates ==
    \A x \in Record : \A version \in {db[x], work[x]} :
       version # NoRow /\ version.key # Null =>
          Clashes(db, x, version.key) = {} /\ Clashes(work, x, version.key) = {}

\* The statements are those of the operation.
StepsFitCalls ==
    \A r \in Request :
       /\ pc[r] = "create" => Op(r) = "create" /\ Refusal(r) = "none"
       /\ pc[r] \in {"check", "update"} => Op(r) = "update"

\* The inductive invariant of RecordsProofs.
IInv == TypeOK /\ ChangesItsTarget /\ FirmReferences /\ NoDuplicates /\ StepsFitCalls
-----------------------------------------------------------------------------
(* What the answers rest on: how a row came to be, whose it is, and what    *)
(* the request that has locked it is about to do to it.                    *)

Creates(x) == {q \in Request : Op(q) = "create" /\ Target(q) = x}
Past(x) == \A q \in Creates(x) : pc[q] \notin {"idle", "create"}

\* The versions of row x that a request may come to see.
Versions(x) ==
    ({db[x], work[x]} \cup {view[q][x] : q \in {p \in Request : view[p] # NoView}}) \ {NoRow}

\* Ids are new: a row that there is in any version has been created, by one request.
CreatedOnce ==
    \A x \in Record :
       /\ \A q, r \in Creates(x) : q = r
       /\ Versions(x) # {} => Past(x)

\* A row refers to the same rows all its life.
RefsStay ==
    \A x \in Record : TableOf[x] \notin Moving =>
       \A u, w \in Versions(x) : u.refs = w.refs

\* A row is locked from the statement that changes it, and how it changes is what
\* the request was for.
LocksFitCalls ==
    \A x \in Record : lock[x] # Free =>
       /\ pc[lock[x]] \in {"reread", "commit"}
       /\ db[x] = NoRow <=> Op(lock[x]) = "create"
       /\ work[x] = NoRow <=> Op(lock[x]) = "delete"

\* Whoever is at work was let in, and has raised and answered nothing.
LetIn ==
    \A r \in Request :
       /\ pc[r] \notin {"idle", "done"} => Refusal(r) = "none"
       /\ pc[r] # "done" => outcome[r] = "none"
       /\ pc[r] \notin {"commit", "fetch", "done"} => reply[r] = NoRow

\* What a request has done when it gets to a step of its unit of work.
HasGiven(r, version) == \A c \in DOMAIN call[r].given : version[c] = call[r].given[c]
DoneSoFar(r) ==
    LET x == Target(r) IN
    /\ pc[r] = "check" => Table(r) = "card" /\ view[r] = NoView
    /\ pc[r] = "delete" => Op(r) = "delete"
    /\ pc[r] = "get" => Op(r) = "get"
    /\ pc[r] = "fetch" => Op(r) = "get" /\ Table(r) = "card"
    /\ pc[r] = "show" => Op(r) = "create" /\ Table(r) = "card"
    /\ pc[r] = "reread" =>
         /\ Op(r) = "update"
         /\ Table(r) # "card" => lock[x] = r /\ work[x] # db[x] /\ HasGiven(r, work[x])
    /\ pc[r] = "commit" =>
         /\ Op(r) \in {"create", "update", "delete"}
         /\ Op(r) \in {"create", "delete"} => lock[x] = r
         /\ Op(r) = "create" => work[x] = NewVersion(r) /\ reply[r] = NewVersion(r)
         /\ Op(r) = "delete" => reply[r] = NoRow
    /\ Op(r) = "update" /\ Table(r) # "card" /\ (pc[r] = "commit" \/ outcome[r] = "ok") => Shows(r)

\* A card that is being updated was seen with its account, and the account's owner
\* was let through.
OwnerChecked(r) ==
    Table(r) = "card" /\ Op(r) = "update" /\ pc[r] \in {"update", "reread", "commit"} =>
       /\ view[r] # NoView /\ view[r][Target(r)] # NoRow
       /\ \A a \in view[r][Target(r)].refs : view[r][a] # NoRow
       /\ EnsureOwnerOrAdmin(r, OwnerIn(view[r], Target(r)))

\* Account a is customer c's (or card a is account c's), was, and will not be another one's.
Belongs(a, c) == Past(a) /\ \A u \in Versions(a) : c \in u.refs

\* What a request is shown is its actor's, and stays so; and so is the card it will fetch.
ShownOwn(r) ==
    /\ reply[r] # NoRow /\ Actor(r) # Admin =>
         \/ Actor(r) \in {Target(r)} \cup reply[r].refs
         \/ \E a \in reply[r].refs \cap Of("account") : Belongs(a, Actor(r))
    /\ pc[r] = "fetch" /\ Actor(r) # Admin =>
         \E a \in Of("account") : Belongs(Target(r), a) /\ Belongs(a, Actor(r))

\* What a request has been told of the row it created or deleted.
ToldTruth(r) ==
    LET x == Target(r) IN
    /\ Op(r) = "create" /\ (pc[r] = "show" \/ outcome[r] = "ok") /\ db[x] = NoRow
          => \E q \in Deletes(x) : outcome[q] \in {"ok", "ServerError"}
    /\ Op(r) = "create" /\ db[x] # NoRow =>
          pc[r] \in {"show", "done"} /\ outcome[r] \in {"none", "ok", "ServerError"}
    /\ Op(r) = "delete" /\ outcome[r] = "ok" =>
          /\ db[x] = NoRow /\ work[x] = NoRow /\ Past(x)
          /\ \A q \in Deletes(x) \ {r} : outcome[q] # "ok"

AnswerInv ==
    /\ CreatedOnce /\ RefsStay /\ LocksFitCalls /\ LetIn
    /\ \A r \in Request : DoneSoFar(r) /\ OwnerChecked(r) /\ ShownOwn(r) /\ ToldTruth(r)

\* Rows fit together, and every request knows what it answers from.
EndpointsAreSound == IInv /\ AnswerInv
=============================================================================
