--------------------------- MODULE RecordsProofs ----------------------------
(***************************************************************************)
(* What Records keeps, for all tables, rows, requests and calls: rows fit  *)
(* together at any time, and the endpoints implement Registry.  The reason *)
(* is FirmReferences: a statement waits for the rows it refers to, or that *)
(* refer to it, so no end of another transaction can pull them away.       *)
(***************************************************************************)
EXTENDS RecordsInv, TLAPS

-----------------------------------------------------------------------------
(* The schema.                                                             *)

\* No table refers to itself.
LEMMA NoSelfParent == ASSUME NEW table \in TableNames PROVE table \notin Parents(table)
<1>1. \A child, parent, null : child # parent =>
        Restrict(child, parent, null).child # Restrict(child, parent, null).parent
  BY DEF Restrict
<1>2. \A child, parent : child # parent =>
        SetNull(child, parent).child # SetNull(child, parent).parent
  BY DEF SetNull
<1>3. \A fk \in ForeignKeys : fk.child # fk.parent
  BY <1>1, <1>2, Zenon DEF ForeignKeys
<1> QED
  BY <1>3 DEF Parents

\* Wherever a table refers to another, some foreign key keeps the parent from being deleted.
LEMMA ParentsAreRestricted ==
  ASSUME NEW child \in TableNames, NEW parent \in Parents(child)
  PROVE  \E fk \in ForeignKeys :
            fk.child = child /\ fk.parent = parent /\ fk.onDelete = "RESTRICT"
<1>1. PICK k \in ForeignKeys : k.child = child /\ k.parent = parent
  BY DEF Parents
<1>2. CASE k = SetNull("transaction", "account")
  <2>1. Restrict("transaction", "account", FALSE) \in ForeignKeys
    BY DEF ForeignKeys
  <2> QED
    BY <1>1, <1>2, <2>1 DEF SetNull, Restrict
<1>3. CASE k # SetNull("transaction", "account")
  <2>1. k.onDelete = "RESTRICT"
    BY <1>3 DEF ForeignKeys, Restrict
  <2> QED
    BY <1>1, <2>1
<1> QED
  BY <1>2, <1>3

\* A row that refers to another keeps it from being deleted.
LEMMA RefersIsChild ==
  ASSUME NEW t, IsTables(t), NEW x \in Record, NEW y \in Record, t[y] # NoRow, x \in t[y].refs
  PROVE  y \in Children(t, x)
<1>1. TableOf[y] \in TableNames /\ TableOf[x] \in Parents(TableOf[y])
  BY RecordAssumption DEF IsTables, IsRow, AreParents
<1> QED
  BY <1>1, ParentsAreRestricted DEF Children

\* No row refers to itself.
LEMMA NoSelfReference ==
  ASSUME NEW x \in Record, NEW refs, AreParents(x, refs)
  PROVE  x \notin refs
  BY NoSelfParent, RecordAssumption DEF AreParents
-----------------------------------------------------------------------------
(* What requests ask for.                                                  *)

\* The target of a request is a row of some table.
LEMMA TargetIsRecord == ASSUME TypeOK, NEW r \in Request PROVE Target(r) \in Record
  BY CallAssumption DEF TypeOK, Target

\* A row that is inserted belongs in its table: a ticket that is not refused has a customer.
LEMMA NewVersionIsRow ==
  ASSUME TypeOK, NEW r \in Request, Op(r) = "create", Refusal(r) = "none"
  PROVE  IsRow(Target(r), NewVersion(r))
<1>1. /\ call[r] \in Call /\ IsRow(Target(r), call[r].new)
      /\ Actor(r) \in Customer \cup {Admin, Nobody}
  BY CallAssumption DEF TypeOK, Target, Op, Actor
<1>2. CASE ~(Table(r) = "customer_support" /\ Actor(r) # Admin)
  BY <1>1, <1>2 DEF NewVersion
<1>3. CASE Table(r) = "customer_support" /\ Actor(r) # Admin
  <2> DEFINE new == call[r].new
  <2>1. NewVersion(r) = [new EXCEPT !.refs = (@ \ Customer) \cup {Actor(r)}]
    BY <1>3 DEF NewVersion
  <2>2. new \in Version /\ AreParents(Target(r), new.refs)
    BY <1>1 DEF IsRow
  <2>3. NewVersion(r).refs = (new.refs \ Customer) \cup {Actor(r)}
    BY <2>1, <2>2 DEF Version
  <2>4. Guard(r) = "user"
    BY <1>3 DEF Guard, Endpoints, Endpoint, SupportTickets, Op, TableNames, Tables
  <2>5. NewVersion(r).refs \cap Customer # {}
    BY <2>4 DEF Refusal
  <2>6. Actor(r) \in Customer
    BY <2>3, <2>5
  <2>7. Actor(r) \in Record /\ TableOf[Actor(r)] = "customer"
    BY <2>6 DEF Customer, Of
  <2>8. "customer" \in Parents(Table(r))
    <3>1. Restrict("customer_support", "customer", FALSE) \in ForeignKeys
      BY DEF ForeignKeys
    <3> QED
      BY <1>3, <3>1 DEF Parents, Restrict
  <2>9. AreParents(Target(r), NewVersion(r).refs)
    BY <2>2, <2>3, <2>7, <2>8 DEF AreParents, Table
  <2>10. NewVersion(r) \in Version
    BY <2>1, <2>2, <2>7 DEF Version, AreParents
  <2> QED
    BY <2>9, <2>10 DEF IsRow
<1> QED
  BY <1>2, <1>3

\* A row that is updated still belongs in its table.
LEMMA UpdatedIsRow ==
  ASSUME TypeOK, NEW r \in Request, Op(r) = "update",
         NEW version, IsRow(Target(r), version)
  PROVE  IsRow(Target(r), Updated(version, call[r].given))
<1> DEFINE given == call[r].given
           new == Updated(version, given)
<1>1. /\ "refs" \in DOMAIN given => AreParents(Target(r), given["refs"])
      /\ "key" \in DOMAIN given => given["key"] \in Key \cup {Null}
      /\ "value" \in DOMAIN given => given["value"] \in Value
  BY CallAssumption DEF TypeOK, Target, Op
<1>2. version \in Version /\ AreParents(Target(r), version.refs)
  BY DEF IsRow
<1>3. /\ new.refs = IF "refs" \in DOMAIN given THEN given["refs"] ELSE version["refs"]
      /\ new.key = IF "key" \in DOMAIN given THEN given["key"] ELSE version["key"]
      /\ new.value = IF "value" \in DOMAIN given THEN given["value"] ELSE version["value"]
      /\ new = [refs |-> new.refs, key |-> new.key, value |-> new.value]
  BY DEF Updated
<1>4. AreParents(Target(r), new.refs) /\ new.key \in Key \cup {Null} /\ new.value \in Value
  BY <1>1, <1>2, <1>3 DEF Version
<1>5. new \in Version
  BY <1>3, <1>4 DEF Version, AreParents
<1> QED
  BY <1>4, <1>5 DEF IsRow
-----------------------------------------------------------------------------
(* What the engine's steps keep.                                           *)

\* Locks, the steps and what is kept about calls, when a request goes from one
\* step of its unit of work to the next.
LEMMA OnwardStep ==
  ASSUME IInv, NEW r \in Request, pc[r] \in InUnitOfWork,
         NEW step \in InUnitOfWork, NEW version \in Version \cup {NoRow},
         Continue(r, step, version), step # "create",
         step \in {"check", "update"} => Op(r) = "update"
  PROVE  /\ call' \in [Request -> Call] /\ pc' \in [Request -> Steps]
         /\ outcome' \in [Request -> Outcomes] /\ reply' \in [Request -> Version \cup {NoRow}]
         /\ \A q \in Request : pc'[q] \notin InUnitOfWork => q # r /\ pc'[q] = pc[q]
         /\ StepsFitCalls'
<1>1. pc' = [pc EXCEPT ![r] = step] /\ reply' = [reply EXCEPT ![r] = version]
      /\ call' = call /\ outcome' = outcome
  BY DEF Continue, Goto
<1>2. /\ pc \in [Request -> Steps] /\ reply \in [Request -> Version \cup {NoRow}]
      /\ InUnitOfWork \subseteq Steps /\ call \in [Request -> Call]
      /\ outcome \in [Request -> Outcomes]
  BY DEF IInv, TypeOK, Steps
<1>3. \A q \in Request : pc'[q] = IF q = r THEN step ELSE pc[q]
  BY <1>1, <1>2
<1>4. StepsFitCalls'
  BY <1>1, <1>3 DEF IInv, StepsFitCalls, Op, Refusal, Guard, Actor, Table, Target,
                    NewVersion, EnsureOwnerOrAdmin
<1> QED
  BY <1>1, <1>2, <1>3, <1>4

\* A write of its target that fits the others keeps everything fitting.
LEMMA WriteStep ==
  ASSUME IInv, NEW r \in Request, pc[r] \in InUnitOfWork,
         NEW S, NEW v, v = NoRow \/ IsRow(Target(r), v),
         Write(r, {Target(r)}, S, [work EXCEPT ![Target(r)] = v]),
         v # NoRow => \A p \in v.refs : db[p] # NoRow /\ work[p] # NoRow,
         v # NoRow /\ v.key # Null =>
            Clashes(db, Target(r), v.key) = {} /\ Clashes(work, Target(r), v.key) = {},
         v = NoRow => \A t \in {db, work} : \A y \in Record :
            t[y] # NoRow => Target(r) \notin t[y].refs,
         NEW step \in InUnitOfWork, NEW version \in Version \cup {NoRow},
         Continue(r, step, version), step # "create",
         step \in {"check", "update"} => Op(r) = "update"
  PROVE  IInv'
<1> DEFINE x == Target(r)
<1>1. x \in Record /\ x' = x
  BY TargetIsRecord DEF IInv, Target, Continue
<1>2. /\ work = [y \in Record |-> work[y]] /\ db = [y \in Record |-> db[y]]
      /\ \A y \in Record : work[y] = NoRow \/ IsRow(y, work[y])
      /\ \A y \in Record : db[y] = NoRow \/ IsRow(y, db[y])
  BY DEF IInv, TypeOK, IsTables
<1>3. /\ \A y \in Record : work'[y] = IF y = x THEN v ELSE work[y]
      /\ work' = [y \in Record |-> work'[y]]
      /\ db' = db /\ view' = view
  BY <1>1, <1>2 DEF Write, Statement
<1>4. /\ lock[x] \in {Free, r}
      /\ \A y \in Record : lock'[y] =
            IF y = x /\ ~(work[x] = NoRow /\ v = NoRow) THEN r ELSE lock[y]
      /\ lock' \in [Record -> Request \cup {Free}]
  BY <1>1, <1>2 DEF Write, Statement, Available, IInv, TypeOK
<1>5. /\ shared' \in [Record -> SUBSET Request]
      /\ \A y \in Record : \A q \in Request \ {r} : q \in shared'[y] => q \in shared[y]
  BY DEF Write, IInv, TypeOK
<1>6. /\ call' \in [Request -> Call] /\ pc' \in [Request -> Steps]
      /\ outcome' \in [Request -> Outcomes] /\ reply' \in [Request -> Version \cup {NoRow}]
      /\ \A q \in Request : pc'[q] \notin InUnitOfWork => q # r /\ pc'[q] = pc[q]
      /\ StepsFitCalls'
  BY OnwardStep
<1>7. TypeOK'
  <2>1. IsTables(db)' /\ IsTables(work)'
    BY <1>1, <1>2, <1>3 DEF IsTables
  <2>2. \A y \in Record : lock'[y] = Free => work'[y] = db'[y]
    BY <1>1, <1>3, <1>4, RecordAssumption DEF IInv, TypeOK
  <2>3. \A q \in Request : pc'[q] \notin InUnitOfWork =>
          view'[q] = NoView /\ \A y \in Record : lock'[y] # q /\ q \notin shared'[y]
    BY <1>3, <1>4, <1>5, <1>6 DEF IInv, TypeOK
  <2>4. view' = [q \in Request |-> view'[q]] /\ \A q \in Request : view'[q] # NoView => IsTables(view'[q])
    BY <1>3 DEF IInv, TypeOK
  <2> QED
    BY <1>4, <1>5, <1>6, <2>1, <2>2, <2>3, <2>4 DEF TypeOK
<1>8. ChangesItsTarget'
  BY <1>1, <1>4 DEF IInv, ChangesItsTarget, Continue, Target
<1>9. FirmReferences'
  <2> SUFFICES ASSUME NEW t \in {db', work'}, NEW y \in Record, t[y] # NoRow, NEW p \in t[y].refs
               PROVE  db'[p] # NoRow /\ work'[p] # NoRow
    BY DEF FirmReferences
  <2>1. p \in Record
    BY <1>1, <1>2, <1>3 DEF IsRow, AreParents
  <2>2. db[p] # NoRow /\ work[p] # NoRow
    BY <1>1, <1>3 DEF IInv, FirmReferences
  <2>3. p = x => v # NoRow
    BY <1>1, <1>3
  <2> QED
    BY <1>3, <2>1, <2>2, <2>3
<1>10. NoDuplicates'
  <2> SUFFICES ASSUME NEW y \in Record, NEW u \in {db'[y], work'[y]}, u # NoRow, u.key # Null,
                      NEW t \in {db', work'}, NEW z \in Record, z # y,
                      TableOf[z] = TableOf[y], t[z] # NoRow, t[z].key = u.key
               PROVE  FALSE
    BY DEF NoDuplicates, Clashes
  <2>1. CASE y = x /\ u = v
    BY <1>3, <2>1 DEF Clashes
  <2>2. CASE z = x /\ t[z] = v
    <3>1. y \in Clashes(db, x, v.key) \/ y \in Clashes(work, x, v.key)
      BY <1>3, <2>2 DEF Clashes
    <3> QED
      BY <2>2, <3>1
  <2>3. CASE ~(y = x /\ u = v) /\ ~(z = x /\ t[z] = v)
    <3>1. u \in {db[y], work[y]} /\ t[z] \in {db[z], work[z]}
      BY <1>3, <2>3
    <3> QED
      BY <3>1 DEF IInv, NoDuplicates, Clashes
  <2> QED
    BY <2>1, <2>2, <2>3
<1> QED
  BY <1>6, <1>7, <1>8, <1>9, <1>10 DEF IInv

\* A request leaves its unit of work, or was in none, for a step outside it.
LEMMA LeavingStep ==
  ASSUME IInv, NEW r \in Request, NEW step \in {"get", "fetch", "show", "done"},
         NEW result \in Outcomes, NEW version \in Version \cup {NoRow},
         pc' = [pc EXCEPT ![r] = step], reply' = [reply EXCEPT ![r] = version],
         outcome' \in {outcome, [outcome EXCEPT ![r] = result]}, call' = call
  PROVE  /\ call' \in [Request -> Call] /\ pc' \in [Request -> Steps]
         /\ outcome' \in [Request -> Outcomes] /\ reply' \in [Request -> Version \cup {NoRow}]
         /\ \A q \in Request : pc'[q] \notin InUnitOfWork => q = r \/ pc'[q] = pc[q]
         /\ StepsFitCalls'
<1>1. /\ pc \in [Request -> Steps] /\ reply \in [Request -> Version \cup {NoRow}]
      /\ step \in Steps /\ call \in [Request -> Call] /\ outcome \in [Request -> Outcomes]
  BY DEF IInv, TypeOK, Steps
<1>2. \A q \in Request : pc'[q] = IF q = r THEN step ELSE pc[q]
  BY <1>1
<1>3. StepsFitCalls'
  BY <1>2 DEF IInv, StepsFitCalls, Op, Refusal, Guard, Actor, Table, Target,
              NewVersion, EnsureOwnerOrAdmin
<1> QED
  BY <1>1, <1>2, <1>3

\* COMMIT and ROLLBACK mix versions that fit in every mixture.
LEMMA EndStep ==
  ASSUME IInv, NEW r \in Request, CommitWithViews(r) \/ RollbackWithViews(r),
         NEW step \in {"show", "done"},
         NEW result \in Outcomes, NEW version \in Version \cup {NoRow},
         pc' = [pc EXCEPT ![r] = step], reply' = [reply EXCEPT ![r] = version],
         outcome' \in {outcome, [outcome EXCEPT ![r] = result]}, call' = call
  PROVE  IInv'
<1>1. /\ db' = [y \in Record |-> db'[y]] /\ work' = [y \in Record |-> work'[y]]
      /\ \A y \in Record : db'[y] \in {db[y], work[y]} /\ work'[y] \in {db[y], work[y]}
      /\ \A y \in Record : lock[y] = r => db'[y] = work'[y]
      /\ \A y \in Record : lock[y] # r => db'[y] = db[y] /\ work'[y] = work[y]
      /\ lock' = [y \in Record |-> IF lock[y] = r THEN Free ELSE lock[y]]
  BY DEF CommitWithViews, RollbackWithViews, CommitTxn, RollbackTxns, IInv, TypeOK, IsTables
<1>2. /\ shared' = [y \in Record |-> shared[y] \ {r}]
      /\ view' = [view EXCEPT ![r] = NoView]
  BY DEF CommitWithViews, RollbackWithViews, Released
<1>3. /\ call' \in [Request -> Call] /\ pc' \in [Request -> Steps]
      /\ outcome' \in [Request -> Outcomes] /\ reply' \in [Request -> Version \cup {NoRow}]
      /\ \A q \in Request : pc'[q] \notin InUnitOfWork => q = r \/ pc'[q] = pc[q]
      /\ StepsFitCalls'
  BY LeavingStep
<1>4. TypeOK'
  <2>1. IsTables(db)' /\ IsTables(work)'
    BY <1>1 DEF IInv, TypeOK, IsTables
  <2>2. lock' \in [Record -> Request \cup {Free}] /\ shared' \in [Record -> SUBSET Request]
    BY <1>1, <1>2 DEF IInv, TypeOK
  <2>3. /\ view' = [q \in Request |-> view'[q]]
        /\ \A q \in Request : view'[q] = IF q = r THEN NoView ELSE view[q]
    BY <1>2 DEF IInv, TypeOK
  <2>4. \A q \in Request : view'[q] # NoView => IsTables(view'[q])
    BY <2>3 DEF IInv, TypeOK
  <2>5. \A y \in Record : lock'[y] = Free => work'[y] = db'[y]
    BY <1>1 DEF IInv, TypeOK
  <2>6. \A q \in Request : pc'[q] \notin InUnitOfWork =>
          view'[q] = NoView /\ \A y \in Record : lock'[y] # q /\ q \notin shared'[y]
    BY <1>1, <1>2, <1>3, <2>3, RecordAssumption DEF IInv, TypeOK
  <2> QED
    BY <1>3, <2>1, <2>2, <2>3, <2>4, <2>5, <2>6 DEF TypeOK
<1>5. ChangesItsTarget'
  BY <1>1, RecordAssumption DEF IInv, ChangesItsTarget, Target
<1>6. FirmReferences'
  <2> SUFFICES ASSUME NEW t \in {db', work'}, NEW y \in Record, t[y] # NoRow, NEW p \in t[y].refs
               PROVE  db'[p] # NoRow /\ work'[p] # NoRow
    BY DEF FirmReferences
  <2>1. t[y] \in {db[y], work[y]}
    BY <1>1
  <2>2. p \in Record
    BY <2>1 DEF IInv, TypeOK, IsTables, IsRow, AreParents
  <2>3. db[p] # NoRow /\ work[p] # NoRow
    BY <2>1 DEF IInv, FirmReferences
  <2> QED
    BY <1>1, <2>2, <2>3
<1>7. NoDuplicates'
  <2> SUFFICES ASSUME NEW y \in Record, NEW u \in {db'[y], work'[y]}, u # NoRow, u.key # Null,
                      NEW t \in {db', work'}, NEW z \in Record, z # y,
                      TableOf[z] = TableOf[y], t[z] # NoRow, t[z].key = u.key
               PROVE  FALSE
    BY DEF NoDuplicates, Clashes
  <2>1. u \in {db[y], work[y]} /\ t[z] \in {db[z], work[z]}
    BY <1>1
  <2> QED
    BY <2>1 DEF IInv, NoDuplicates, Clashes
<1> QED
  BY <1>3, <1>4, <1>5, <1>6, <1>7 DEF IInv

\* A step that leaves the engine alone.
LEMMA QuietStep ==
  ASSUME IInv, UNCHANGED engine, call' = call,
         pc' \in [Request -> Steps], outcome' \in [Request -> Outcomes],
         reply' \in [Request -> Version \cup {NoRow}],
         \A q \in Request : pc'[q] \notin InUnitOfWork => pc[q] \notin InUnitOfWork,
         StepsFitCalls'
  PROVE  IInv'
<1>1. db' = db /\ work' = work /\ lock' = lock /\ shared' = shared /\ view' = view
  BY DEF engine
<1>2. TypeOK'
  BY <1>1 DEF IInv, TypeOK
<1>3. ChangesItsTarget' /\ FirmReferences' /\ NoDuplicates'
  BY <1>1 DEF IInv, ChangesItsTarget, FirmReferences, NoDuplicates, Target
<1> QED
  BY <1>2, <1>3 DEF IInv

\* A plain SELECT, inside a unit of work.
LEMMA ReadStep ==
  ASSUME IInv, NEW r \in Request, pc[r] \in InUnitOfWork, Read(r),
         NEW step \in InUnitOfWork, NEW version \in Version \cup {NoRow},
         Continue(r, step, version), step # "create",
         step \in {"check", "update"} => Op(r) = "update"
  PROVE  IInv'
<1>1. db' = db /\ work' = work /\ lock' = lock /\ shared' = shared /\ call' = call
  BY DEF Read, Continue
<1>2. /\ view' = [q \in Request |-> view'[q]]
      /\ \A q \in Request : view'[q] \in {view[q], IF q = r THEN db ELSE NoView}
      /\ \A q \in Request \ {r} : view'[q] = view[q]
  BY DEF Read, IInv, TypeOK
<1>3. /\ call' \in [Request -> Call] /\ pc' \in [Request -> Steps]
      /\ outcome' \in [Request -> Outcomes] /\ reply' \in [Request -> Version \cup {NoRow}]
      /\ \A q \in Request : pc'[q] \notin InUnitOfWork => q # r /\ pc'[q] = pc[q]
      /\ StepsFitCalls'
  BY OnwardStep
<1>4. \A q \in Request : view'[q] # NoView => IsTables(view'[q])
  BY <1>2 DEF IInv, TypeOK
<1>5. \A q \in Request : pc'[q] \notin InUnitOfWork =>
          view'[q] = NoView /\ \A y \in Record : lock'[y] # q /\ q \notin shared'[y]
  BY <1>1, <1>2, <1>3 DEF IInv, TypeOK
<1>6. TypeOK'
  BY <1>1, <1>2, <1>3, <1>4, <1>5 DEF IInv, TypeOK
<1>7. ChangesItsTarget' /\ FirmReferences' /\ NoDuplicates'
  BY <1>1 DEF IInv, ChangesItsTarget, FirmReferences, NoDuplicates, Target
<1> QED
  BY <1>3, <1>6, <1>7 DEF IInv
-----------------------------------------------------------------------------
(* What the statements find.                                               *)

\* A version that raises no integrity error, once nobody else has locked the rows
\* it looks at, fits the others.
LEMMA NoErrorFits ==
  ASSUME IInv, NEW r \in Request, NEW v, IsRow(Target(r), v),
         Available(r, LooksAt(Target(r), v)), IntegrityError(Target(r), v) = "none"
  PROVE  /\ \A p \in v.refs : db[p] # NoRow /\ work[p] # NoRow
         /\ Clashes(db, Target(r), v.key) = {} /\ Clashes(work, Target(r), v.key) = {}
<1> DEFINE x == Target(r)
<1>1. x \in Record
  BY TargetIsRecord DEF IInv
<1>2. Clashes(work, x, v.key) = {} /\ \A p \in NewRefs(x, v) : work[p] # NoRow
  BY DEF IntegrityError
<1>3. \A y \in Record \ {x} : lock[y] \in {Free, r} => work[y] = db[y]
  BY DEF IInv, TypeOK, ChangesItsTarget
<1>4. ASSUME NEW p \in v.refs PROVE db[p] # NoRow /\ work[p] # NoRow
  <2>1. p \in Record /\ TableOf[p] \in Parents(TableOf[x]) /\ p # x
    BY <1>1, NoSelfReference DEF IsRow, AreParents
  <2>2. CASE p \in NewRefs(x, v)
    <3>1. lock[p] \in {Free, r}
      BY <2>2 DEF Available, LooksAt
    <3> QED
      BY <1>2, <1>3, <2>1, <2>2, <3>1
  <2>3. CASE p \notin NewRefs(x, v)
    <3>1. work[x] # NoRow /\ p \in work[x].refs
      BY <2>1, <2>3 DEF NewRefs
    <3> QED
      BY <1>1, <3>1 DEF IInv, FirmReferences
  <2> QED
    BY <2>2, <2>3
<1>5. ASSUME NEW y \in Clashes(db, x, v.key) PROVE FALSE
  <2>1. lock[y] \in {Free, r} /\ y \in Record \ {x}
    BY DEF Available, LooksAt, Clashes
  <2>2. y \in Clashes(work, x, v.key)
    BY <1>3, <2>1 DEF Clashes
  <2> QED
    BY <1>2, <2>2
<1> QED
  BY <1>2, <1>4, <1>5

\* A row that has no children, once nobody else has locked them, is referred to by none.
LEMMA ChildlessIsFree ==
  ASSUME IInv, NEW r \in Request, Children(work, Target(r)) = {},
         Available(r, {Target(r)} \cup Children(db, Target(r)) \cup Children(work, Target(r))),
         NEW t \in {db, work}, NEW y \in Record, t[y] # NoRow
  PROVE  Target(r) \notin t[y].refs
<1> SUFFICES ASSUME Target(r) \in t[y].refs PROVE FALSE
  OBVIOUS
<1>1. Target(r) \in Record /\ IsTables(t)
  BY TargetIsRecord DEF IInv, TypeOK
<1>2. y # Target(r)
  BY <1>1, NoSelfReference DEF IsTables, IsRow
<1>3. y \in Children(t, Target(r))
  BY <1>1, RefersIsChild
<1>4. lock[y] \in {Free, r}
  BY <1>3 DEF Available
<1>5. work[y] = db[y]
  BY <1>2, <1>4 DEF IInv, TypeOK, ChangesItsTarget
<1>6. work[y] = t[y] /\ IsTables(work)
  BY <1>5 DEF IInv, TypeOK
<1>7. y \in Children(work, Target(r))
  BY <1>1, <1>6, RefersIsChild
<1> QED
  BY <1>7
-----------------------------------------------------------------------------
(* The steps.                                                              *)

\* What a plain read finds is a row or none.
LEMMA SeenIsRow ==
  ASSUME IInv, NEW r \in Request, NEW x \in Record
  PROVE  Seen(r, x) \in Version \cup {NoRow}
  BY DEF IInv, TypeOK, IsTables, IsRow, Seen

\* An exception: ROLLBACK, then the answer.
LEMMA RaiseInv ==
  ASSUME IInv, NEW r \in Request, NEW error \in Outcomes, Raise(r, error)
  PROVE  IInv'
  BY EndStep DEF Raise, Answer, Goto

\* INSERT, whether the row fits or an integrity error is raised.
LEMMA InsertInv == ASSUME IInv, NEW r \in Request, Insert(r) PROVE IInv'
<1> DEFINE x == Target(r)
           v == NewVersion(r)
<1>1. pc[r] = "create" /\ Available(r, LooksAt(x, v))
  BY DEF Insert
<1>2. IsRow(x, v)
  BY <1>1, NewVersionIsRow DEF IInv, StepsFitCalls
<1>3. CASE IntegrityError(x, v) = "none"
  <2>1. Write(r, {x}, LooksAt(x, v), [work EXCEPT ![x] = v]) /\ Continue(r, "commit", v)
    BY <1>3 DEF Insert
  <2>2. v # NoRow /\ v \in Version
    BY <1>2, RecordAssumption DEF IsRow
  <2> QED
    BY <1>1, <1>2, <1>3, <2>1, <2>2, NoErrorFits, WriteStep DEF InUnitOfWork
<1>4. CASE IntegrityError(x, v) # "none"
  <2>1. IntegrityError(x, v) \in Outcomes /\ Raise(r, IntegrityError(x, v))
    BY <1>4 DEF Insert, IntegrityError, Outcomes
  <2> QED
    BY <2>1, RaiseInv
<1> QED
  BY <1>3, <1>4

\* The look at a card and its owner before its status is set.
LEMMA CheckInv == ASSUME IInv, NEW r \in Request, Check(r) PROVE IInv'
<1>1. CASE Raise(r, "NotFound") \/ Raise(r, "Forbidden")
  BY <1>1, RaiseInv DEF Outcomes
<1>2. CASE Read(r) /\ Continue(r, "update", NoRow)
  <2>1. pc[r] = "check" /\ Op(r) = "update"
    BY DEF Check, IInv, StepsFitCalls
  <2> QED
    BY <1>2, <2>1, ReadStep DEF InUnitOfWork
<1> QED
  BY <1>1, <1>2 DEF Check

\* UPDATE: no row, nothing to change, an integrity error or a new version.
LEMMA UpdateInv == ASSUME IInv, NEW r \in Request, Update(r) PROVE IInv'
<1> DEFINE x == Target(r)
           v == Updated(work[x], call[r].given)
<1>1. pc[r] = "update" /\ Op(r) = "update" /\ x \in Record
  BY TargetIsRecord DEF Update, IInv, StepsFitCalls
<1>2. CASE work[x] = NoRow \/ v = work[x]
  <2>1. CASE Raise(r, "NotFound")
    BY <2>1, RaiseInv DEF Outcomes
  <2>2. CASE Write(r, {x}, {}, work) /\ Continue(r, "reread", NoRow)
    <3>1. work = [work EXCEPT ![x] = work[x]] /\ (work[x] = NoRow \/ IsRow(x, work[x]))
      BY <1>1 DEF IInv, TypeOK, IsTables
    <3>2. work[x] # NoRow => \A p \in work[x].refs : db[p] # NoRow /\ work[p] # NoRow
      BY <1>1 DEF IInv, FirmReferences
    <3>3. work[x] # NoRow /\ work[x].key # Null =>
             Clashes(db, x, work[x].key) = {} /\ Clashes(work, x, work[x].key) = {}
      BY <1>1 DEF IInv, NoDuplicates
    <3>4. work[x] = NoRow => \A t \in {db, work} : \A y \in Record :
             t[y] # NoRow => x \notin t[y].refs
      BY DEF IInv, FirmReferences
    <3>5. Write(r, {x}, {}, [work EXCEPT ![x] = work[x]])
      BY <2>2, <3>1
    <3> QED
      BY <1>1, <2>2, <3>1, <3>2, <3>3, <3>4, <3>5, WriteStep DEF InUnitOfWork
  <2> QED
    BY <1>2, <2>1, <2>2 DEF Update
<1>3. CASE ~(work[x] = NoRow \/ v = work[x])
  <2>1. Available(r, LooksAt(x, v))
    BY <1>3 DEF Update
  <2>2. IsRow(x, v)
    BY <1>1, <1>3, UpdatedIsRow DEF IInv, TypeOK, IsTables
  <2>3. CASE IntegrityError(x, v) = "none"
    <3>1. Write(r, {x}, LooksAt(x, v), [work EXCEPT ![x] = v]) /\ Continue(r, "reread", NoRow)
      BY <1>3, <2>3 DEF Update
    <3>2. v # NoRow
      BY <2>2, RecordAssumption DEF IsRow
    <3> QED
      BY <1>1, <2>1, <2>2, <2>3, <3>1, <3>2, NoErrorFits, WriteStep DEF InUnitOfWork
  <2>4. CASE IntegrityError(x, v) # "none"
    <3>1. IntegrityError(x, v) \in Outcomes /\ Raise(r, IntegrityError(x, v))
      BY <1>3, <2>4 DEF Update, IntegrityError, Outcomes
    <3> QED
      BY <3>1, RaiseInv
  <2> QED
    BY <2>3, <2>4
<1> QED
  BY <1>2, <1>3

\* The read an update answers with.
LEMMA RereadInv == ASSUME IInv, NEW r \in Request, Reread(r) PROVE IInv'
<1>1. pc[r] = "reread" /\ Read(r) /\ Continue(r, "commit", Seen(r, Target(r)))
  BY DEF Reread
<1>2. Seen(r, Target(r)) \in Version \cup {NoRow}
  BY TargetIsRecord, SeenIsRow DEF IInv
<1> QED
  BY <1>1, <1>2, ReadStep DEF InUnitOfWork

\* DELETE: no row, rows that refer to it, or none.
LEMMA DeleteInv == ASSUME IInv, NEW r \in Request, Delete(r) PROVE IInv'
<1> DEFINE x == Target(r)
<1>1. CASE Raise(r, "NotFound") \/ Raise(r, "Conflict")
  BY <1>1, RaiseInv DEF Outcomes
<1>2. CASE /\ work[x] # NoRow /\ Children(work, x) = {}
           /\ Write(r, {x}, {}, [work EXCEPT ![x] = NoRow])
           /\ Continue(r, "commit", NoRow)
  <2>1. pc[r] = "delete" /\ Available(r, {x} \cup Children(db, x) \cup Children(work, x))
    BY DEF Delete
  <2>2. \A t \in {db, work} : \A y \in Record : t[y] # NoRow => x \notin t[y].refs
    BY <1>2, <2>1, ChildlessIsFree
  <2> QED
    BY <1>2, <2>1, <2>2, WriteStep DEF InUnitOfWork
<1> QED
  BY <1>1, <1>2 DEF Delete

\* COMMIT, whether or not the service hears of it.
LEMMA CommitInv == ASSUME IInv, NEW r \in Request, Commit(r) \/ CommitUnheard(r) PROVE IInv'
<1>1. CommitWithViews(r) /\ reply[r] \in Version \cup {NoRow}
  BY DEF Commit, CommitUnheard, IInv, TypeOK
<1>2. \/ Continue(r, "show", NoRow) \/ Answer(r, "ok", reply[r]) \/ Answer(r, "ServerError", NoRow)
  BY DEF Commit, CommitUnheard
<1>3. CASE Continue(r, "show", NoRow)
  BY <1>1, <1>3, EndStep DEF Continue, Goto, Outcomes
<1>4. CASE Answer(r, "ok", reply[r])
  BY <1>1, <1>4, EndStep DEF Answer, Goto, Outcomes
<1>5. CASE Answer(r, "ServerError", NoRow)
  BY <1>1, <1>5, EndStep DEF Answer, Goto, Outcomes
<1> QED
  BY <1>2, <1>3, <1>4, <1>5

\* A statement or COMMIT that fails.
LEMMA FailInv == ASSUME IInv, NEW r \in Request, Fail(r) PROVE IInv'
  BY RaiseInv DEF Fail, Outcomes

\* The start of a unit of work: no locks, no snapshot yet.
LEMMA BeginInv == ASSUME IInv, NEW r \in Request, Begin(r) PROVE IInv'
<1>1. /\ UNCHANGED engine /\ call' = call /\ outcome' = outcome /\ reply' = reply
      /\ pc[r] = "idle" /\ Refusal(r) = "none" /\ pc' = [pc EXCEPT ![r] = FirstStep(r)]
  BY DEF Begin, Goto, engine
<1>2. Op(r) \in {"create", "update", "delete", "get"}
  BY CallAssumption DEF IInv, TypeOK, Op
<1>3. /\ FirstStep(r) \in Steps
      /\ FirstStep(r) \in {"check", "update"} => Op(r) = "update"
      /\ FirstStep(r) = "create" => Op(r) = "create"
  BY <1>2 DEF FirstStep, Steps, InUnitOfWork
<1>4. /\ \A q \in Request : pc'[q] = IF q = r THEN FirstStep(r) ELSE pc[q]
      /\ pc' \in [Request -> Steps]
  BY <1>1, <1>3 DEF IInv, TypeOK
<1>5. StepsFitCalls'
  BY <1>1, <1>3, <1>4 DEF IInv, StepsFitCalls, Op, Refusal, Guard, Actor, Table, Target,
                          NewVersion, EnsureOwnerOrAdmin
<1>6. \A q \in Request : pc'[q] \notin InUnitOfWork => pc[q] \notin InUnitOfWork
  BY <1>1, <1>4 DEF InUnitOfWork
<1>7. outcome' \in [Request -> Outcomes] /\ reply' \in [Request -> Version \cup {NoRow}]
  BY <1>1 DEF IInv, TypeOK
<1> QED
  BY <1>1, <1>4, <1>5, <1>6, <1>7, QuietStep

\* An answer outside a unit of work, or the way to the second read of a fetch.
LEMMA AnswerStep ==
  ASSUME IInv, NEW r \in Request, pc[r] \notin InUnitOfWork, UNCHANGED engine,
         NEW result \in Outcomes, NEW version \in Version \cup {NoRow},
         Answer(r, result, version) \/ Continue(r, "fetch", version)
  PROVE  IInv'
<1>1. /\ call' \in [Request -> Call] /\ pc' \in [Request -> Steps]
      /\ outcome' \in [Request -> Outcomes] /\ reply' \in [Request -> Version \cup {NoRow}]
      /\ \A q \in Request : pc'[q] \notin InUnitOfWork => q = r \/ pc'[q] = pc[q]
      /\ StepsFitCalls' /\ call' = call
  <2>1. PICK step \in {"fetch", "done"} :
           /\ pc' = [pc EXCEPT ![r] = step] /\ reply' = [reply EXCEPT ![r] = version]
           /\ outcome' \in {outcome, [outcome EXCEPT ![r] = result]} /\ call' = call
    BY DEF Answer, Continue, Goto
  <2> QED
    BY <2>1, LeavingStep
<1> QED
  BY <1>1, QuietStep

\* An answer before any connection is taken.
LEMMA RefuseInv == ASSUME IInv, NEW r \in Request, Refuse(r) PROVE IInv'
<1>1. Refusal(r) \in Outcomes /\ pc[r] \notin InUnitOfWork
  BY DEF Refuse, Refusal, Outcomes, InUnitOfWork
<1> QED
  BY <1>1, AnswerStep DEF Refuse

\* The reads that have a block of their own.
LEMMA ShowInv ==
  ASSUME IInv, NEW r \in Request, Show(r) \/ Get(r) \/ FetchCard(r)
  PROVE  IInv'
<1>1. pc[r] \notin InUnitOfWork /\ UNCHANGED engine
  BY DEF Show, Get, FetchCard, InUnitOfWork
<1>2. {NoRow, reply[r], db[Target(r)]} \subseteq Version \cup {NoRow}
  BY TargetIsRecord DEF IInv, TypeOK, IsTables, IsRow
<1>3. PICK result \in {"ok", "NotFound", "Forbidden"} :
         \E version \in {NoRow, reply[r], db[Target(r)]} :
            Answer(r, result, version) \/ Continue(r, "fetch", version)
  BY DEF Show, Get, FetchCard
<1> QED
  BY <1>1, <1>2, <1>3, AnswerStep DEF Outcomes

\* Every step keeps the invariant.
LEMMA StepInv == IInv /\ [Next]_vars => IInv'
<1> SUFFICES ASSUME IInv, [Next]_vars PROVE IInv'
  OBVIOUS
<1>1. ASSUME NEW r \in Request, Serve(r) \/ Fail(r) \/ CommitUnheard(r) PROVE IInv'
  BY <1>1, RefuseInv, BeginInv, InsertInv, CheckInv, UpdateInv, RereadInv, DeleteInv, CommitInv,
     ShowInv, FailInv DEF Serve
<1>2. CASE UNCHANGED vars
  <2>1. /\ UNCHANGED engine /\ call' = call /\ pc' = pc /\ outcome' = outcome /\ reply' = reply
    BY <1>2 DEF vars, engine
  <2>2. StepsFitCalls'
    BY <2>1 DEF IInv, StepsFitCalls, Op, Refusal, Guard, Actor, Table, Target,
                NewVersion, EnsureOwnerOrAdmin
  <2> QED
    BY <2>1, <2>2, QuietStep DEF IInv, TypeOK
<1> QED
  BY <1>1, <1>2 DEF Next, Terminated

\* At first rows fit together and nobody holds anything.
LEMMA InitInv == Init => IInv
<1> SUFFICES ASSUME Init PROVE IInv
  OBVIOUS
<1>1. PICK start \in Opening : OpenedWithViews(start)
  BY DEF Init
<1>2. /\ db = start /\ work = start /\ lock = [y \in Record |-> Free]
      /\ shared = [y \in Record |-> {}] /\ view = [q \in Request |-> NoView]
  BY <1>1 DEF OpenedWithViews, Opened
<1>3. TypeOK
  BY <1>2, OpeningAssumption, RecordAssumption DEF Init, TypeOK, Steps, InUnitOfWork, Outcomes
<1>4. FirmReferences /\ NoDuplicates
  BY <1>2, OpeningAssumption DEF FirmReferences, NoDuplicates
<1>5. ChangesItsTarget /\ StepsFitCalls
  BY <1>2, RecordAssumption DEF ChangesItsTarget, StepsFitCalls, Init
<1> QED
  BY <1>3, <1>4, <1>5 DEF IInv

\* Whatever requests there are and whatever fails, rows fit together and stay so.
THEOREM Invariance == Spec => []IInv
  BY InitInv, StepInv, PTL DEF Spec

\* Customers, accounts and the others come and go while rows that refer to them
\* are created: no row refers to one that is not there.
THEOREM NoneDangles == Spec => []NoDanglingReference
<1>1. IInv => NoDanglingReference
  BY DEF IInv, FirmReferences, NoDanglingReference
<1> QED
  BY <1>1, Invariance, PTL

\* No two rows of a table have the same unique value, committed or not.
THEOREM NoneDuplicated == Spec => []UniqueValues
<1>1. IInv => UniqueValues
  BY DEF IInv, NoDuplicates, UniqueValues, Clashes
<1> QED
  BY <1>1, Invariance, PTL
-----------------------------------------------------------------------------
(* The endpoints implement Registry.                                       *)

\* COMMIT makes the one operation of its request.
LEMMA CommitRefines ==
  ASSUME IInv, NEW r \in Request, CommitWithViews(r), db' # db
  PROVE  R!Next
<1>1. /\ db' = [y \in Record |-> IF lock[y] = r THEN work[y] ELSE db[y]]
      /\ db = [y \in Record |-> db[y]]
  BY DEF CommitWithViews, CommitTxn, IInv, TypeOK, IsTables
<1>2. PICK x \in Record : db'[x] # db[x]
  BY <1>1
<1>3. lock[x] = r /\ db'[x] = work[x] /\ \A y \in Record \ {x} : lock[y] # r
  BY <1>1, <1>2 DEF IInv, ChangesItsTarget
<1>4. db' = [db EXCEPT ![x] = work[x]]
  BY <1>1, <1>3
<1>5. CASE work[x] = NoRow
  <2>1. db[x] # NoRow /\ \A y \in Record : db[y] # NoRow => x \notin db[y].refs
    BY <1>2, <1>3, <1>5 DEF IInv, FirmReferences
  <2>2. R!Delete(x)
    BY <1>4, <1>5, <2>1 DEF R!Delete
  <2> QED
    BY <2>2 DEF R!Next
<1>6. CASE work[x] # NoRow
  <2>1. \A p \in work[x].refs : db[p] # NoRow
    BY <1>6 DEF IInv, FirmReferences
  <2>2. work[x].key # Null => Clashes(db, x, work[x].key) = {}
    BY <1>6 DEF IInv, NoDuplicates
  <2>3. R!Fits(x, work[x])
    BY <2>1, <2>2 DEF R!Fits, Clashes
  <2>4. R!Create(x, work[x]) \/ R!Update(x, work[x])
    BY <1>4, <2>3 DEF R!Create, R!Update
  <2> QED
    BY <1>3, <1>6, <2>4 DEF R!Next
<1> QED
  BY <1>5, <1>6

\* Every other step leaves the committed rows alone.
LEMMA StepRefines == IInv /\ [Next]_vars => [R!Next]_db
<1> SUFFICES ASSUME IInv, [Next]_vars, db' # db PROVE R!Next
  OBVIOUS
<1>1. PICK r \in Request : Serve(r) \/ Fail(r) \/ CommitUnheard(r)
  BY DEF Next, Terminated, vars
<1>2. CASE Commit(r) \/ CommitUnheard(r)
  BY <1>2, CommitRefines DEF Commit, CommitUnheard
<1>3. \A error : Raise(r, error) => db' = db
  BY DEF Raise, RollbackWithViews, RollbackTxns
<1>4. \A X, S, new : Write(r, X, S, new) => db' = db
  BY DEF Write, Statement
<1>5. Refuse(r) \/ Begin(r) \/ Show(r) \/ Get(r) \/ FetchCard(r) => db' = db
  BY DEF Refuse, Begin, Show, Get, FetchCard, engine
<1>6. Insert(r) \/ Fail(r) \/ Delete(r) \/ Update(r) => db' = db
  BY <1>3, <1>4 DEF Insert, Fail, Delete, Update
<1>7. Check(r) \/ Reread(r) => db' = db
  BY <1>3 DEF Check, Reread, Read
<1> QED
  BY <1>1, <1>2, <1>5, <1>6, <1>7 DEF Serve

\* Statement by statement and failing anywhere, the endpoints look like single
\* operations on rows that always fit together.
THEOREM Implementation == Spec => ImplementsRegistry
<1>1. Init => db \in Opening
  BY DEF Init, OpenedWithViews, Opened
<1> QED
  BY <1>1, Invariance, StepRefines, PTL DEF Spec, ImplementsRegistry, R!Spec

\* COUNT(DISTINCT ...) undoes what the joins fan out.
LEMMA JoinCountsOnce ==
  ASSUME NEW b
  PROVE  /\ CountDistinct(Joined(b), 1) = Cardinality(RowsOf(Employee, b))
         /\ CountDistinct(Joined(b), 2) = Cardinality(RowsOf(Account, b))
<1> DEFINE E == RowsOf(Employee, b)
           A == RowsOf(Account, b)
           EN == OrNull(E)
           AN == OrNull(A)
<1>1. EN # {} /\ AN # {} /\ EN \ {Null} = E /\ AN \ {Null} = A
  BY RecordAssumption DEF OrNull, RowsOf, Of, Employee, Account
<1>2. Joined(b) = EN \X AN
  BY DEF Joined
<1> HIDE DEF E, A, EN, AN
<1>3. {p[1] : p \in EN \X AN} = EN /\ {p[2] : p \in EN \X AN} = AN
  <2> PICK e \in EN, a \in AN : TRUE
    BY <1>1
  <2>1. \A x \in EN : <<x, a>> \in EN \X AN /\ <<x, a>>[1] = x
    OBVIOUS
  <2>2. \A y \in AN : <<e, y>> \in EN \X AN /\ <<e, y>>[2] = y
    OBVIOUS
  <2> QED
    BY <2>1, <2>2
<1>4. {p[1] : p \in Joined(b)} \ {Null} = E /\ {p[2] : p \in Joined(b)} \ {Null} = A
  BY <1>1, <1>2, <1>3
<1>5. CountDistinct(Joined(b), 1) = Cardinality(E) /\ CountDistinct(Joined(b), 2) = Cardinality(A)
  BY <1>4, Zenon DEF CountDistinct
<1> QED
  BY <1>5 DEF E, A

\* So the report is what it should be for any thresholds.
LEMMA ReportCountsOnce ==
  ASSUME NEW minEmployees, NEW minAccounts
  PROVE  WithConditions(minEmployees, minAccounts) =
           {Conditions(b, Cardinality(RowsOf(Employee, b)), Cardinality(RowsOf(Account, b))) :
              b \in {b \in Branch : /\ db[b] # NoRow
                                   /\ Cardinality(RowsOf(Employee, b)) > minEmployees
                                   /\ Cardinality(RowsOf(Account, b)) >= minAccounts}}
<1>1. \A b : /\ CountDistinct(Joined(b), 1) = Cardinality(RowsOf(Employee, b))
             /\ CountDistinct(Joined(b), 2) = Cardinality(RowsOf(Account, b))
  BY JoinCountsOnce
<1>2. \A b, e, a : /\ Conditions(b, e, a).employee_count = e
                   /\ Conditions(b, e, a).account_count = a
  BY DEF Conditions
<1> QED
  BY <1>1, <1>2 DEF WithConditions

\* The branch-conditions report (branches.py:40-59) counts every employee and every account
\* of a branch once, also when it has none, although its joins repeat each for each.
THEOREM ReportIsExact == Spec => []BranchesAreCounted
<1>1. BranchesAreCounted
  BY ReportCountsOnce DEF BranchesAreCounted
<1> QED
  BY <1>1, PTL
=============================================================================
