--------------------------- MODULE AnswersProofs ----------------------------
(***************************************************************************)
(* What requests are told about rows, for all tables, rows and calls: the  *)
(* answers are true of the rows, and nobody but an administrator sees or   *)
(* changes what is another customer's.  The reason is that ids are new and *)
(* rows that decide who owns what never move, so what a request has once   *)
(* seen of a row's owner, in whatever snapshot, holds as long as the row.  *)
(***************************************************************************)
EXTENDS RecordsProofs

-----------------------------------------------------------------------------
(* Steps.                                                                  *)

\* Request r takes a step: no other request does.
Takes(r, step, result, version) ==
    /\ call' = call
    /\ \A q \in Request :
         /\ pc'[q] = (IF q = r THEN step ELSE pc[q])
         /\ outcome'[q] = (IF q = r THEN result ELSE outcome[q])
         /\ reply'[q] = (IF q = r THEN version ELSE reply[q])

\* The rows that others have locked, and their snapshots, stay as they are.
Respects(r) ==
    \A q \in Request \ {r} :
       /\ view'[q] = view[q]
       /\ \A y \in Record :
            /\ lock'[y] = q <=> lock[y] = q
            /\ lock[y] = q => db'[y] = db[y] /\ work'[y] = work[y]

\* The versions of a row are those there were, or later ones of them, or the first.
Descends(y) ==
    \A u \in Versions(y)' :
       \/ \E w \in Versions(y) : TableOf[y] \notin Moving => u.refs = w.refs
       \/ ~Past(y) /\ Past(y)' /\ Versions(y)' = {u}

\* What requests ask for does not change.
LEMMA CallsStay ==
  ASSUME call' = call
  PROVE  /\ \A r : /\ Op(r)' = Op(r) /\ Target(r)' = Target(r) /\ Actor(r)' = Actor(r)
                   /\ Table(r)' = Table(r) /\ Guard(r)' = Guard(r)
         /\ \A r : Refusal(r)' = Refusal(r) /\ NewVersion(r)' = NewVersion(r)
         /\ \A x : Creates(x)' = Creates(x) /\ Deletes(x)' = Deletes(x)
  BY DEF Op, Target, Actor, Table, Guard, Refusal, NewVersion, EnsureOwnerOrAdmin, Creates, Deletes

\* The versions of a row, one by one.
LEMMA VersionIs ==
  ASSUME NEW x, NEW u
  PROVE  u \in Versions(x) <=>
           /\ u # NoRow
           /\ u \in {db[x], work[x]} \/ \E q \in Request : view[q] # NoView /\ u = view[q][x]
  BY DEF Versions

LEMMA VersionIsNext ==
  ASSUME NEW x, NEW u
  PROVE  u \in Versions(x)' <=>
           /\ u # NoRow
           /\ u \in {db'[x], work'[x]} \/ \E q \in Request : view'[q] # NoView /\ u = view'[q][x]
  BY DEF Versions

\* A row whose creation is past stays so: nobody goes back to the beginning.
LEMMA PastStays ==
  ASSUME NEW r \in Request, NEW step, NEW result, NEW version,
         Takes(r, step, result, version),
         step # "idle", step = "create" => pc[r] = "idle",
         NEW x, Past(x)
  PROVE  Past(x)'
<1>1. Creates(x)' = Creates(x) /\ Creates(x) \subseteq Request
  BY CallsStay DEF Takes, Creates
<1> QED
  BY <1>1 DEF Past, Takes

\* Ids stay new and rows refer to the same rows, if versions descend from versions.
LEMMA DescentKeeps ==
  ASSUME AnswerInv, NEW r \in Request, NEW step, NEW result, NEW version,
         Takes(r, step, result, version),
         step # "idle", step = "create" => pc[r] = "idle",
         \A y \in Record : Descends(y)
  PROVE  /\ CreatedOnce' /\ RefsStay'
         /\ \A a \in Of("account") \cup Of("card") : \A c : Belongs(a, c) => Belongs(a, c)'
<1>1. \A y \in Record : Past(y) => Past(y)'
  BY PastStays
<1>2. CreatedOnce'
  <2>1. ASSUME NEW y \in Record PROVE \A p, q \in Creates(y)' : p = q
    BY CallsStay DEF AnswerInv, CreatedOnce, Takes
  <2>2. ASSUME NEW y \in Record, Versions(y)' # {} PROVE Past(y)'
    <3>1. PICK u \in Versions(y)' : TRUE
      BY <2>2
    <3> QED
      BY <1>1, <3>1 DEF Descends, AnswerInv, CreatedOnce
  <2> QED
    BY <2>1, <2>2 DEF CreatedOnce
<1>3. RefsStay'
  <2> SUFFICES ASSUME NEW y \in Record, TableOf[y] \notin Moving,
                      NEW u \in Versions(y)', NEW w \in Versions(y)'
               PROVE  u.refs = w.refs
    BY DEF RefsStay
  <2> QED
    BY DEF Descends, AnswerInv, RefsStay
<1>4. ASSUME NEW a \in Of("account") \cup Of("card"), NEW c, Belongs(a, c) PROVE Belongs(a, c)'
  <2>1. a \in Record /\ TableOf[a] \notin Moving
    BY DEF Of, Moving
  <2> QED
    BY <1>1, <1>4, <2>1 DEF Descends, Belongs
<1> QED
  BY <1>2, <1>3, <1>4

\* What a step of one request leaves true of the others.
LEMMA OthersKeep ==
  ASSUME IInv, AnswerInv, NEW r \in Request, NEW step, NEW result, NEW version,
         Takes(r, step, result, version), Respects(r),
         \A a \in Of("account") \cup Of("card") : \A c : Belongs(a, c) => Belongs(a, c)',
         NEW q \in Request \ {r}
  PROVE  DoneSoFar(q)' /\ OwnerChecked(q)' /\ ShownOwn(q)'
<1>1. /\ call' = call /\ pc'[q] = pc[q] /\ outcome'[q] = outcome[q] /\ reply'[q] = reply[q]
      /\ view'[q] = view[q] /\ Op(q)' = Op(q) /\ Target(q)' = Target(q) /\ Actor(q)' = Actor(q)
      /\ Table(q)' = Table(q) /\ NewVersion(q)' = NewVersion(q) /\ Target(q) \in Record
  BY CallsStay, TargetIsRecord DEF Takes, Respects, IInv
<1>2. lock[Target(q)] = q =>
         /\ lock'[Target(q)] = q
         /\ db'[Target(q)] = db[Target(q)] /\ work'[Target(q)] = work[Target(q)]
  BY <1>1 DEF Respects
<1>3. DoneSoFar(q)'
  BY <1>1, <1>2 DEF AnswerInv, DoneSoFar, HasGiven, Shows
<1>4. OwnerChecked(q)'
  <2>1. OwnerIn(view[q], Target(q))' = OwnerIn(view[q], Target(q))
    BY <1>1
  <2> QED
    BY <1>1, <2>1 DEF AnswerInv, OwnerChecked, EnsureOwnerOrAdmin
<1>5. ShownOwn(q)'
  <2>1. pc[q] = "fetch" => Target(q) \in Of("card")
    BY <1>1 DEF AnswerInv, DoneSoFar, Table, Of
  <2> QED
    BY <1>1, <2>1 DEF AnswerInv, ShownOwn, Of
<1> QED
  BY <1>3, <1>4, <1>5

\* A request that is let in takes a step that keeps what is known, if it makes true
\* what is to be known of itself.
LEMMA StepKeeps ==
  ASSUME IInv, IInv', AnswerInv, NEW r \in Request, NEW step, NEW result, NEW version,
         Takes(r, step, result, version), Respects(r), pc[r] # "done",
         step # "idle", step = "create" => pc[r] = "idle",
         \A y \in Record : Descends(y),
         step # "done" => Refusal(r) = "none" /\ result = "none",
         step \notin {"commit", "fetch", "done"} => version = NoRow,
         \A y \in Record : lock'[y] = r =>
            /\ step \in {"reread", "commit"}
            /\ db'[y] = NoRow <=> Op(r) = "create"
            /\ work'[y] = NoRow <=> Op(r) = "delete",
         DoneSoFar(r)', OwnerChecked(r)', ShownOwn(r)', \A q \in Request : ToldTruth(q)'
  PROVE  AnswerInv'
<1>1. /\ CreatedOnce' /\ RefsStay'
      /\ \A a \in Of("account") \cup Of("card") : \A c : Belongs(a, c) => Belongs(a, c)'
  BY DescentKeeps
<1>2. \A q \in Request : DoneSoFar(q)' /\ OwnerChecked(q)' /\ ShownOwn(q)'
  BY <1>1, OthersKeep
<1>3. \A q : Op(q)' = Op(q) /\ Refusal(q)' = Refusal(q)
  BY CallsStay DEF Takes
<1>4. LocksFitCalls'
  <2>1. ASSUME NEW y \in Record, NEW q \in Request, lock'[y] = q
        PROVE  /\ pc'[q] \in {"reread", "commit"}
               /\ db'[y] = NoRow <=> call'[q].op = "create"
               /\ work'[y] = NoRow <=> call'[q].op = "delete"
    <3>1. lock[y] = q => /\ pc[q] \in {"reread", "commit"}
                         /\ db[y] = NoRow <=> Op(q) = "create"
                         /\ work[y] = NoRow <=> Op(q) = "delete"
      BY RecordAssumption DEF AnswerInv, LocksFitCalls, Op
    <3> QED
      BY <2>1, <3>1 DEF Takes, Respects, Op
  <2>2. \A y \in Record : lock'[y] # Free => lock'[y] \in Request
    BY DEF IInv, TypeOK
  <2> QED
    BY <2>1, <2>2 DEF LocksFitCalls, Op
<1>5. LetIn'
  BY <1>3 DEF AnswerInv, LetIn, Takes
<1> QED
  BY <1>1, <1>2, <1>4, <1>5 DEF AnswerInv
-----------------------------------------------------------------------------
(* The engine.                                                             *)

\* Nobody has locked anything before its first write.
LEMMA NoLockYet ==
  ASSUME AnswerInv, NEW r \in Request, pc[r] \notin {"reread", "commit"}, NEW y \in Record
  PROVE  lock[y] # r
  BY RecordAssumption DEF AnswerInv, LocksFitCalls

\* A step outside the engine.
LEMMA QuietEngine ==
  ASSUME UNCHANGED engine, NEW r \in Request
  PROVE  Respects(r) /\ \A y \in Record : Descends(y)
<1>1. db' = db /\ work' = work /\ lock' = lock /\ view' = view
  BY DEF engine
<1> QED
  BY <1>1 DEF Respects, Descends, Versions

\* A plain SELECT takes its snapshot of committed rows.
LEMMA ReadEngine ==
  ASSUME IInv, NEW r \in Request, Read(r)
  PROVE  /\ Respects(r) /\ \A y \in Record : Descends(y)
         /\ db' = db /\ work' = work /\ lock' = lock
         /\ view'[r] = (IF view[r] = NoView THEN db ELSE view[r])
<1>1. /\ db' = db /\ work' = work /\ lock' = lock
      /\ \A q \in Request : view'[q] = IF q = r /\ view[q] = NoView THEN db ELSE view[q]
  BY DEF Read, IInv, TypeOK
<1>2. ASSUME NEW y \in Record, NEW u \in Versions(y)' PROVE u \in Versions(y)
  <2>1. u # NoRow /\ (u \in {db[y], work[y]} \/ \E q \in Request : view'[q] # NoView /\ u = view'[q][y])
    BY <1>1, VersionIsNext
  <2> QED
    BY <1>1, <2>1, VersionIs
<1> QED
  BY <1>1, <1>2 DEF Respects, Descends

\* COMMIT and ROLLBACK leave no lock and no snapshot, and bring no new versions.
LEMMA EndEngine ==
  ASSUME IInv, NEW r \in Request, CommitWithViews(r) \/ RollbackWithViews(r)
  PROVE  /\ Respects(r) /\ \A y \in Record : Descends(y) /\ lock'[y] # r
         /\ \A y \in Record : work'[y] \in {db[y], work[y]}
         /\ CommitWithViews(r) => \A y \in Record :
               db'[y] = (IF lock[y] = r THEN work[y] ELSE db[y]) /\ work'[y] = work[y]
         /\ RollbackWithViews(r) => db' = db
<1>1. /\ \A y \in Record : db'[y] \in {db[y], work[y]} /\ work'[y] \in {db[y], work[y]}
      /\ \A y \in Record : lock[y] # r => db'[y] = db[y] /\ work'[y] = work[y]
      /\ lock' = [y \in Record |-> IF lock[y] = r THEN Free ELSE lock[y]]
      /\ \A q \in Request : view'[q] = IF q = r THEN NoView ELSE view[q]
  BY DEF CommitWithViews, RollbackWithViews, CommitTxn, RollbackTxns, Released, IInv, TypeOK, IsTables
<1>2. /\ CommitWithViews(r) => \A y \in Record :
               db'[y] = (IF lock[y] = r THEN work[y] ELSE db[y]) /\ work'[y] = work[y]
      /\ RollbackWithViews(r) => db' = db
  BY DEF CommitWithViews, RollbackWithViews, CommitTxn, RollbackTxns, IInv, TypeOK, IsTables
<1>3. ASSUME NEW y \in Record, NEW u \in Versions(y)' PROVE u \in Versions(y)
  <2>1. u # NoRow /\ (u \in {db'[y], work'[y]} \/ \E q \in Request : view'[q] # NoView /\ u = view'[q][y])
    BY VersionIsNext
  <2>2. CASE u \in {db'[y], work'[y]}
    BY <1>1, <2>1, <2>2, VersionIs
  <2>3. ASSUME NEW q \in Request, view'[q] # NoView, u = view'[q][y] PROVE u \in Versions(y)
    BY <1>1, <2>1, <2>3, VersionIs
  <2> QED
    BY <2>1, <2>2, <2>3
<1>4. Respects(r)
  BY <1>1, RecordAssumption DEF Respects
<1> QED
  BY <1>1, <1>2, <1>3, <1>4, RecordAssumption DEF Descends

\* Request r has locked row x, which was as committed, and given it the version v.
Wrote(r, x, v) ==
    /\ db' = db /\ view' = view /\ work[x] = db[x]
    /\ \A y \in Record : work'[y] = IF y = x THEN v ELSE work[y]
    /\ \A y \in Record : lock'[y] = r <=> y = x /\ ~(work[x] = NoRow /\ v = NoRow)

\* A statement that gives the target of r, which nobody else has locked, the version v.
LEMMA WriteEngine ==
  ASSUME IInv, AnswerInv, NEW r \in Request, pc[r] \notin {"reread", "commit"},
         NEW x \in Record, x = Target(r),
         NEW S, NEW v, Write(r, {x}, S, [work EXCEPT ![x] = v]),
         \/ v = NoRow
         \/ work[x] # NoRow /\ (Table(r) \notin Moving => v.refs = work[x].refs)
         \/ ~Past(x) /\ Past(x)'
  PROVE  Respects(r) /\ Wrote(r, x, v) /\ \A y \in Record : Descends(y)
<1>1. /\ db' = db /\ view' = view /\ Available(r, {x})
      /\ \A y \in Record : work'[y] = IF y = x THEN v ELSE work[y]
  BY DEF Write, Statement, IInv, TypeOK, IsTables
<1>2. \A y \in Record : lock[y] # r
  BY NoLockYet
<1>3. lock[x] = Free /\ work[x] = db[x]
  BY <1>1, <1>2 DEF Available, IInv, TypeOK
<1>4. \A y \in Record : lock'[y] = IF y = x /\ ~(work[x] = NoRow /\ v = NoRow) THEN r ELSE lock[y]
  BY <1>1 DEF Write, Statement, IInv, TypeOK, IsTables
<1>5. Respects(r)
  BY <1>1, <1>3, <1>4, RecordAssumption DEF Respects
<1>6. ASSUME NEW y \in Record, NEW u \in Versions(y)', ~(y = x /\ u = v) PROVE u \in Versions(y)
  <2>1. u # NoRow /\ (u \in {db'[y], work'[y]} \/ \E q \in Request : view'[q] # NoView /\ u = view'[q][y])
    BY VersionIsNext
  <2> QED
    BY <1>1, <1>6, <2>1, VersionIs
<1>7. Descends(x)
  <2>1. CASE v = NoRow
    BY <1>6, <2>1, VersionIsNext DEF Descends
  <2>2. CASE work[x] # NoRow /\ (Table(r) \notin Moving => v.refs = work[x].refs)
    <3>1. work[x] \in Versions(x)
      BY <2>2, VersionIs
    <3> QED
      BY <1>6, <2>2, <3>1 DEF Descends, Table
  <2>3. CASE ~Past(x) /\ Past(x)'
    <3>1. Versions(x) = {}
      BY <2>3 DEF AnswerInv, CreatedOnce
    <3> QED
      BY <1>6, <2>3, <3>1 DEF Descends
  <2> QED
    BY <2>1, <2>2, <2>3
<1> QED
  BY <1>1, <1>2, <1>3, <1>4, <1>5, <1>6, <1>7 DEF Descends, Wrote
-----------------------------------------------------------------------------
(* What requests are told.                                                 *)

\* Nobody is told anything before he is done.
LEMMA ToldLast ==
  ASSUME AnswerInv, NEW q \in Request, outcome[q] # "none"
  PROVE  pc[q] = "done"
  BY DEF AnswerInv, LetIn

\* A step that commits nothing leaves true what requests have been told.
LEMMA TruthStays ==
  ASSUME IInv, AnswerInv, NEW r \in Request, NEW step, NEW result, NEW version,
         Takes(r, step, result, version), pc[r] # "done",
         step \notin {"idle", "show"}, step = "create" => pc[r] = "idle",
         db' = db,
         \A y \in Record : db[y] = NoRow /\ work[y] = NoRow /\ Past(y) => work'[y] = NoRow,
         result = "ok" => pc[r] \in {"get", "fetch", "show"},
         pc[r] = "show" => step = "done" /\ result = "ok",
         NEW q \in Request
  PROVE  ToldTruth(q)'
<1> DEFINE x == Target(q)
<1>1. /\ \A p \in Request \ {r} : pc'[p] = pc[p] /\ outcome'[p] = outcome[p]
      /\ pc'[r] = step /\ outcome'[r] = result /\ x' = x /\ Op(q)' = Op(q)
      /\ Deletes(x)' = Deletes(x) /\ Deletes(x) \subseteq Request /\ x \in Record
  BY CallsStay, TargetIsRecord DEF Takes, Deletes, IInv
<1>2. Past(x) => Past(x)'
  BY <1>1, PastStays DEF Past, Creates, Takes, Op, Target
<1>3. \A p \in Request : outcome[p] # "none" => p # r
  BY ToldLast
<1>4. ToldTruth(q) /\ (pc[r] \in {"get", "fetch"} => Op(r) = "get") /\ (pc[r] = "show" => Op(r) = "create")
  BY DEF AnswerInv, DoneSoFar
<1>5. ASSUME Op(q) = "create", pc'[q] = "show" \/ outcome'[q] = "ok", db[x] = NoRow
      PROVE  \E p \in Deletes(x) : outcome'[p] \in {"ok", "ServerError"}
  <2>1. pc[q] = "show" \/ outcome[q] = "ok"
    BY <1>1, <1>4, <1>5
  <2>2. PICK p \in Deletes(x) : outcome[p] \in {"ok", "ServerError"}
    BY <1>4, <1>5, <2>1 DEF ToldTruth
  <2> QED
    BY <1>1, <1>3, <2>2
<1>6. ASSUME Op(q) = "create", db[x] # NoRow
      PROVE  pc'[q] \in {"show", "done"} /\ outcome'[q] \in {"none", "ok", "ServerError"}
  <2>1. pc[q] \in {"show", "done"} /\ outcome[q] \in {"none", "ok", "ServerError"}
    BY <1>4, <1>6 DEF ToldTruth
  <2> QED
    BY <1>1, <2>1
<1>7. ASSUME NEW p \in Request, Op(p) = "delete", outcome'[p] = "ok"
      PROVE  outcome[p] = "ok"
  BY <1>1, <1>4, <1>7
<1>8. ASSUME Op(q) = "delete", outcome'[q] = "ok"
      PROVE  /\ db'[x] = NoRow /\ work'[x] = NoRow /\ Past(x)'
             /\ \A p \in Deletes(x) \ {q} : outcome'[p] # "ok"
  <2>1. /\ db[x] = NoRow /\ work[x] = NoRow /\ Past(x)
        /\ \A p \in Deletes(x) \ {q} : outcome[p] # "ok"
    BY <1>4, <1>7, <1>8 DEF ToldTruth
  <2>2. \A p \in Deletes(x) : Op(p) = "delete" /\ p \in Request
    BY DEF Deletes
  <2> QED
    BY <1>1, <1>2, <1>7, <2>1, <2>2
<1> QED
  BY <1>1, <1>5, <1>6, <1>8 DEF ToldTruth

\* A COMMIT makes true what its request will be told.
LEMMA TruthCommitted ==
  ASSUME IInv, AnswerInv, NEW r \in Request, NEW step, NEW result, NEW version,
         Takes(r, step, result, version), pc[r] = "commit", CommitWithViews(r),
         step \in {"show", "done"}, result \in {"none", "ok", "ServerError"},
         step = "show" => Op(r) = "create", Op(r) = "delete" => result # "none",
         NEW q \in Request
  PROVE  ToldTruth(q)'
<1> DEFINE x == Target(q)
<1>1. /\ \A p \in Request \ {r} : pc'[p] = pc[p] /\ outcome'[p] = outcome[p]
      /\ pc'[r] = step /\ outcome'[r] = result /\ x' = x /\ Op(q)' = Op(q)
      /\ Deletes(x)' = Deletes(x) /\ Deletes(x) \subseteq Request /\ x \in Record
  BY CallsStay, TargetIsRecord DEF Takes, Deletes, IInv
<1>2. Past(x) => Past(x)'
  BY <1>1, PastStays DEF Past, Creates, Takes, Op, Target
<1>3. \A p \in Request : outcome[p] # "none" => p # r
  BY ToldLast
<1>4. db'[x] = (IF lock[x] = r THEN work[x] ELSE db[x]) /\ work'[x] = work[x]
  BY <1>1, EndEngine
<1>5. lock[x] = r =>
         /\ x = Target(r)
         /\ db[x] = NoRow <=> Op(r) = "create"
         /\ work[x] = NoRow <=> Op(r) = "delete"
  BY <1>1, RecordAssumption DEF IInv, ChangesItsTarget, AnswerInv, LocksFitCalls
<1>6. Op(r) \in {"create", "delete"} => lock[Target(r)] = r
  BY DEF AnswerInv, DoneSoFar
<1>7. ToldTruth(q)
  BY DEF AnswerInv
<1>8. ASSUME Op(q) = "create", pc'[q] = "show" \/ outcome'[q] = "ok", db'[x] = NoRow
      PROVE  \E p \in Deletes(x) : outcome'[p] \in {"ok", "ServerError"}
  <2>1. q # r /\ (pc[q] = "show" \/ outcome[q] = "ok")
    BY <1>1, <1>4, <1>5, <1>6, <1>8
  <2>2. CASE db[x] = NoRow
    <3>1. PICK p \in Deletes(x) : outcome[p] \in {"ok", "ServerError"}
      BY <1>7, <1>8, <2>1, <2>2 DEF ToldTruth
    <3> QED
      BY <1>1, <1>3, <3>1
  <2>3. CASE db[x] # NoRow
    <3>1. r \in Deletes(x)
      BY <1>4, <1>5, <1>8, <2>3 DEF Deletes
    <3> QED
      BY <1>1, <3>1 DEF Deletes
  <2> QED
    BY <2>2, <2>3
<1>9. ASSUME Op(q) = "create", db'[x] # NoRow
      PROVE  pc'[q] \in {"show", "done"} /\ outcome'[q] \in {"none", "ok", "ServerError"}
  <2>1. CASE db[x] # NoRow
    BY <1>1, <1>7, <1>9, <2>1 DEF ToldTruth
  <2>2. CASE db[x] = NoRow
    <3>1. r \in Creates(x) /\ q \in Creates(x)
      BY <1>4, <1>5, <1>9, <2>2 DEF Creates
    <3>2. q = r
      BY <1>1, <3>1 DEF AnswerInv, CreatedOnce
    <3> QED
      BY <1>1, <3>2
  <2> QED
    BY <2>1, <2>2
<1>10. ASSUME Op(q) = "delete", outcome'[q] = "ok"
       PROVE  /\ db'[x] = NoRow /\ work'[x] = NoRow /\ Past(x)'
              /\ \A p \in Deletes(x) \ {q} : outcome'[p] # "ok"
  <2>1. CASE q = r
    <3>1. lock[x] = r /\ work[x] = NoRow /\ db[x] # NoRow
      BY <1>5, <1>6, <1>10, <2>1
    <3>2. Past(x)
      BY <1>1, <3>1, VersionIs DEF AnswerInv, CreatedOnce
    <3>3. ASSUME NEW p \in Deletes(x) \ {r} PROVE outcome'[p] # "ok"
      <4>1. p \in Request /\ Op(p) = "delete" /\ Target(p) = x /\ ToldTruth(p)
        BY DEF Deletes, AnswerInv
      <4> QED
        BY <1>1, <3>1, <4>1 DEF ToldTruth
    <3> QED
      BY <1>2, <1>4, <2>1, <3>1, <3>2, <3>3
  <2>2. CASE q # r
    <3>1. /\ db[x] = NoRow /\ work[x] = NoRow /\ Past(x)
          /\ \A p \in Deletes(x) \ {q} : outcome[p] # "ok"
      BY <1>1, <1>7, <1>10, <2>2 DEF ToldTruth
    <3>2. r \notin Deletes(x)
      BY <1>5, <1>6, <3>1 DEF Deletes
    <3> QED
      BY <1>1, <1>2, <1>4, <3>1, <3>2
  <2> QED
    BY <2>1, <2>2
<1> QED
  BY <1>1, <1>8, <1>9, <1>10 DEF ToldTruth
-----------------------------------------------------------------------------
(* Who is let in, and whose a row is.                                      *)

\* A card refers to accounts only.
LEMMA CardParents == Parents("card") = {"account"}
<1>1. Restrict("card", "account", FALSE) \in ForeignKeys
  BY DEF ForeignKeys
<1>2. /\ Restrict("card", "account", FALSE).child = "card"
      /\ Restrict("card", "account", FALSE).parent = "account"
  BY DEF Restrict
<1>3. \A k \in ForeignKeys : k.child = "card" => k.parent = "account"
  <2>1. \A child, parent, null : child # "card" => Restrict(child, parent, null).child # "card"
    BY DEF Restrict
  <2>2. \A child, parent : child # "card" => SetNull(child, parent).child # "card"
    BY DEF SetNull
  <2>3. \A k \in ForeignKeys : k.child # "card" \/ k = Restrict("card", "account", FALSE)
    BY <2>1, <2>2, ZenonT(60) DEF ForeignKeys
  <2> QED
    BY <1>2, <2>3
<1>4. \A p : p \in Parents("card") <=> \E k \in ForeignKeys : k.child = "card" /\ k.parent = p
  BY Zenon DEF Parents
<1>5. \A p : p \in Parents("card") <=> p = "account"
  BY <1>1, <1>2, <1>3, <1>4
<1> QED
  BY <1>5

\* A user who is no administrator files tickets, changes his own row and his cards,
\* and fetches what he owns.
LEMMA UsersMay ==
  ASSUME TypeOK, NEW r \in Request, Actor(r) # Admin, Refusal(r) = "none"
  PROVE  /\ Op(r) \in {"create", "update", "get"}
         /\ Op(r) = "create" => Table(r) = "customer_support" /\ Guard(r) = "user"
         /\ Op(r) = "update" => Table(r) \in {"customer", "card"}
         /\ Op(r) # "create" => Guard(r) = "owner"
         /\ Table(r) = "customer" => Actor(r) = Target(r)
<1>1. /\ Op(r) \in {"create", "update", "delete", "get"} /\ Guard(r) # "none"
      /\ Table(r) \in TableNames
  BY TargetIsRecord, CallAssumption, RecordAssumption DEF TypeOK, Op, Guard, Table, Target
<1>2. Guard(r) # "admin"
  BY DEF Refusal
<1>3. Table(r) \in {"customer", "user", "branch", "account", "loan", "loan_payment",
                    "employee", "card", "transaction", "customer_support", "credit_score"}
  BY <1>1 DEF TableNames, Tables
<1>4. /\ Op(r) # "delete"
      /\ Op(r) = "create" => Table(r) = "customer_support" /\ Guard(r) = "user"
      /\ Op(r) = "update" => Table(r) \in {"customer", "card"}
      /\ Op(r) # "create" => Guard(r) = "owner"
  BY <1>1, <1>2, <1>3 DEF Guard, Endpoints, Endpoint, Customers, Users, Branches, Employees,
     Accounts, Loans, LoanPayments, Cards, SupportTickets, CreditScores
<1>5. Table(r) = "customer" => Actor(r) = Target(r)
  BY <1>4 DEF Refusal, EnsureOwnerOrAdmin
<1> QED
  BY <1>1, <1>4, <1>5

\* A ticket that a user files is his own and nobody else's.
LEMMA TicketsAreOwn ==
  ASSUME TypeOK, NEW r \in Request, Op(r) = "create", Actor(r) # Admin, Refusal(r) = "none"
  PROVE  NewVersion(r).refs \cap Customer = {Actor(r)}
<1> DEFINE new == call[r].new
<1>1. Table(r) = "customer_support" /\ Guard(r) = "user"
  BY UsersMay
<1>2. NewVersion(r) = [new EXCEPT !.refs = (@ \ Customer) \cup {Actor(r)}]
  BY <1>1 DEF NewVersion
<1>3. new \in Version
  BY CallAssumption DEF TypeOK, Op, IsRow
<1>4. NewVersion(r).refs = (new.refs \ Customer) \cup {Actor(r)}
  BY <1>2, <1>3 DEF Version
<1>5. NewVersion(r).refs \cap Customer # {}
  BY <1>1 DEF Refusal
<1> QED
  BY <1>4, <1>5

\* Every version of a row is a row of its table.
LEMMA VersionIsRow ==
  ASSUME IInv, NEW x \in Record, NEW u \in Versions(x)
  PROVE  IsRow(x, u)
<1>1. u # NoRow /\ (u \in {db[x], work[x]} \/ \E q \in Request : view[q] # NoView /\ u = view[q][x])
  BY VersionIs
<1> QED
  BY <1>1 DEF IInv, TypeOK, IsTables

\* The owner of a card owns one of its accounts, and goes on owning it.
LEMMA CardsBelong ==
  ASSUME IInv, AnswerInv, NEW t, NEW x \in Record, TableOf[x] = "card",
         t[x] \in Versions(x), \A a \in t[x].refs : t[a] \in Versions(a),
         OwnerIn(t, x) # Nobody
  PROVE  \E a \in t[x].refs \cap Of("account") : Belongs(a, OwnerIn(t, x))
<1> DEFINE refs == t[x].refs
           own == UNION {t[a].refs : a \in refs}
<1>1. \A a \in refs : a \in Record /\ TableOf[a] = "account"
  BY VersionIsRow, CardParents DEF IsRow, AreParents
<1>2. OwnerIn(t, x) = IF own \cap Customer = {} THEN Nobody ELSE CHOOSE c \in own \cap Customer : TRUE
  BY DEF OwnerIn
<1>3. OwnerIn(t, x) \in own
  BY <1>2
<1>4. PICK a \in refs : OwnerIn(t, x) \in t[a].refs
  BY <1>3
<1>5. Past(a) /\ \A u \in Versions(a) : OwnerIn(t, x) \in u.refs
  BY <1>1, <1>4 DEF AnswerInv, CreatedOnce, RefsStay, Moving
<1> QED
  BY <1>1, <1>4, <1>5 DEF Belongs, Of

\* The owner of another row is one it refers to.
LEMMA OwnersAreReferredTo ==
  ASSUME NEW t, NEW x, TableOf[x] \notin {"customer", "card"}, OwnerIn(t, x) # Nobody
  PROVE  OwnerIn(t, x) \in t[x].refs
<1>1. OwnerIn(t, x) = IF t[x].refs \cap Customer = {} THEN Nobody
                      ELSE CHOOSE c \in t[x].refs \cap Customer : TRUE
  BY DEF OwnerIn
<1> QED
  BY <1>1
-----------------------------------------------------------------------------
(* The steps.                                                              *)

\* The unit of work goes on, or the request is over.
LEMMA ContinueTakes ==
  ASSUME IInv, AnswerInv, NEW r \in Request, pc[r] # "done", NEW step, NEW version,
         Continue(r, step, version)
  PROVE  Takes(r, step, "none", version)
  BY DEF Continue, Goto, Takes, IInv, TypeOK, AnswerInv, LetIn

LEMMA AnswerTakes ==
  ASSUME IInv, NEW r \in Request, NEW result, NEW version, Answer(r, result, version)
  PROVE  Takes(r, "done", result, version)
  BY DEF Answer, Goto, Takes, IInv, TypeOK

\* An exception: nothing is committed, and nothing shown.
LEMMA RaiseKnows ==
  ASSUME IInv, IInv', AnswerInv, NEW r \in Request, pc[r] \in InUnitOfWork,
         NEW error \in Outcomes \ {"none", "ok"}, Raise(r, error)
  PROVE  AnswerInv'
<1>1. Takes(r, "done", error, NoRow) /\ RollbackWithViews(r)
  BY AnswerTakes DEF Raise
<1>2. pc[r] \notin {"done", "show", "get"}
  BY DEF InUnitOfWork
<1>3. /\ Respects(r) /\ \A y \in Record : Descends(y) /\ lock'[y] # r
      /\ \A y \in Record : work'[y] \in {db[y], work[y]}
      /\ db' = db
  BY <1>1, EndEngine
<1>4. pc'[r] = "done" /\ outcome'[r] = error /\ reply'[r] = NoRow
  BY <1>1 DEF Takes
<1>5. DoneSoFar(r)' /\ OwnerChecked(r)' /\ ShownOwn(r)'
  BY <1>4 DEF DoneSoFar, OwnerChecked, ShownOwn
<1>6. \A q \in Request : ToldTruth(q)'
  BY <1>1, <1>2, <1>3, TruthStays
<1> QED
  BY <1>1, <1>2, <1>3, <1>5, <1>6, StepKeeps

\* A statement or COMMIT that fails.
LEMMA FailKnows ==
  ASSUME IInv, IInv', AnswerInv, NEW r \in Request, Fail(r)
  PROVE  AnswerInv'
  BY RaiseKnows DEF Fail, Outcomes

\* An answer before any connection is taken.
LEMMA RefuseKnows ==
  ASSUME IInv, IInv', AnswerInv, NEW r \in Request, Refuse(r)
  PROVE  AnswerInv'
<1>1. /\ Takes(r, "done", Refusal(r), NoRow) /\ UNCHANGED engine
      /\ pc[r] = "idle" /\ Refusal(r) # "none"
  BY AnswerTakes DEF Refuse
<1> DEFINE error == Refusal(r)
<1>2. error # "ok"
  BY DEF Refusal
<1>3. PICK e : e = error
  OBVIOUS
<1>4. Takes(r, "done", e, NoRow) /\ e # "ok"
  BY <1>1, <1>2, <1>3
<1>5. pc'[r] = "done" /\ outcome'[r] # "ok" /\ reply'[r] = NoRow
  BY <1>4 DEF Takes
<1>6. DoneSoFar(r)' /\ OwnerChecked(r)' /\ ShownOwn(r)'
  BY <1>5 DEF DoneSoFar, OwnerChecked, ShownOwn
<1>7. /\ Respects(r) /\ \A y \in Record : Descends(y)
      /\ db' = db /\ work' = work /\ \A y \in Record : lock'[y] # r
  BY <1>1, QuietEngine, NoLockYet DEF engine
<1>8. \A q \in Request : ToldTruth(q)'
  BY <1>1, <1>4, <1>7, TruthStays
<1> QED
  BY <1>1, <1>4, <1>6, <1>7, <1>8, StepKeeps

\* The start: whoever gets here was let in.
LEMMA BeginKnows ==
  ASSUME IInv, IInv', AnswerInv, NEW r \in Request, Begin(r)
  PROVE  AnswerInv'
<1>1. /\ UNCHANGED engine /\ call' = call /\ outcome' = outcome /\ reply' = reply
      /\ pc[r] = "idle" /\ Refusal(r) = "none" /\ pc' = [pc EXCEPT ![r] = FirstStep(r)]
      /\ outcome[r] = "none" /\ reply[r] = NoRow
  BY DEF Begin, Goto, engine, AnswerInv, LetIn
<1>2. /\ Op(r) \in {"create", "update", "delete", "get"}
      /\ FirstStep(r) \in {"create", "check", "update", "delete", "get"}
      /\ FirstStep(r) = "check" <=> Op(r) = "update" /\ Table(r) = "card"
      /\ FirstStep(r) = "check" \/ FirstStep(r) = Op(r)
  BY CallAssumption DEF IInv, TypeOK, Op, FirstStep
<1>3. PICK step : step = FirstStep(r)
  OBVIOUS
<1>4. Takes(r, step, "none", NoRow)
  BY <1>1, <1>3 DEF Takes, IInv, TypeOK
<1>5. /\ Respects(r) /\ \A y \in Record : Descends(y)
      /\ db' = db /\ work' = work /\ view' = view /\ \A y \in Record : lock'[y] # r
  BY <1>1, QuietEngine, NoLockYet DEF engine
<1>6. view[r] = NoView
  BY <1>1 DEF IInv, TypeOK, InUnitOfWork
<1>7. /\ Op(r)' = Op(r) /\ Table(r)' = Table(r) /\ pc'[r] = step
      /\ outcome'[r] = "none" /\ reply'[r] = NoRow
  BY <1>4, CallsStay DEF Takes
<1>8. DoneSoFar(r)' /\ OwnerChecked(r)' /\ ShownOwn(r)'
  BY <1>2, <1>3, <1>5, <1>6, <1>7 DEF DoneSoFar, OwnerChecked, ShownOwn
<1>9. \A q \in Request : ToldTruth(q)'
  BY <1>1, <1>2, <1>3, <1>4, <1>5, TruthStays
<1> QED
  BY <1>1, <1>2, <1>3, <1>4, <1>5, <1>8, <1>9, StepKeeps

\* INSERT: the first version of the row, by the only request that creates it.
LEMMA InsertKnows ==
  ASSUME IInv, IInv', AnswerInv, NEW r \in Request, Insert(r)
  PROVE  AnswerInv'
<1>1. PICK x, v : x = Target(r) /\ v = NewVersion(r)
  OBVIOUS
<1>2. /\ pc[r] = "create" /\ Op(r) = "create" /\ Refusal(r) = "none" /\ x \in Record
      /\ pc[r] \in InUnitOfWork
  BY <1>1, TargetIsRecord DEF Insert, IInv, StepsFitCalls, InUnitOfWork
<1>3. v \in Version /\ v # NoRow
  BY <1>1, <1>2, NewVersionIsRow, RecordAssumption DEF IInv, IsRow
<1>4. CASE IntegrityError(x, v) # "none"
  <2>1. IntegrityError(x, v) \in Outcomes \ {"none", "ok"} /\ Raise(r, IntegrityError(x, v))
    BY <1>1, <1>4 DEF Insert, IntegrityError, Outcomes
  <2> QED
    BY <1>2, <2>1, RaiseKnows
<1>5. CASE IntegrityError(x, v) = "none"
  <2>1. Write(r, {x}, LooksAt(x, v), [work EXCEPT ![x] = v]) /\ Continue(r, "commit", v)
    BY <1>1, <1>5 DEF Insert
  <2>2. Takes(r, "commit", "none", v)
    BY <1>2, <2>1, ContinueTakes
  <2>3. r \in Creates(x) /\ \A q \in Creates(x) : q = r
    BY <1>1, <1>2 DEF Creates, AnswerInv, CreatedOnce
  <2>4. ~Past(x) /\ Past(x)'
    BY <1>2, <2>2, <2>3, CallsStay DEF Past, Takes
  <2>5. work[x] = NoRow
    BY <1>2, <2>4, VersionIs DEF AnswerInv, CreatedOnce
  <2>6. /\ Respects(r) /\ \A y \in Record : Descends(y)
        /\ db' = db /\ work[x] = db[x]
        /\ \A y \in Record : work'[y] = IF y = x THEN v ELSE work[y]
        /\ \A y \in Record : lock'[y] = r <=> y = x
    <3>1. Respects(r) /\ Wrote(r, x, v) /\ \A y \in Record : Descends(y)
      BY <1>1, <1>2, <2>1, <2>4, WriteEngine
    <3> QED
      BY <1>3, <3>1 DEF Wrote
  <2>7. /\ Op(r)' = "create" /\ Target(r)' = x /\ NewVersion(r)' = v /\ Actor(r)' = Actor(r)
        /\ pc'[r] = "commit" /\ outcome'[r] = "none" /\ reply'[r] = v
    BY <1>1, <1>2, <2>2, CallsStay DEF Takes
  <2>8. DoneSoFar(r)'
    BY <1>2, <2>6, <2>7 DEF DoneSoFar
  <2>9. ShownOwn(r)'
    BY <1>1, <1>2, <2>7, TicketsAreOwn DEF ShownOwn, IInv
  <2>10. OwnerChecked(r)'
    BY <2>7 DEF OwnerChecked
  <2>11. \A q \in Request : ToldTruth(q)'
    BY <1>2, <2>2, <2>4, <2>6, TruthStays
  <2> QED
    BY <1>2, <1>3, <2>2, <2>5, <2>6, <2>8, <2>9, <2>10, <2>11, StepKeeps
<1> QED
  BY <1>4, <1>5

\* The look at a card: its account is there, and its owner is let through.
LEMMA CheckKnows ==
  ASSUME IInv, IInv', AnswerInv, NEW r \in Request, Check(r)
  PROVE  AnswerInv'
<1>1. PICK x : x = Target(r)
  OBVIOUS
<1>2. /\ pc[r] = "check" /\ Op(r) = "update" /\ x \in Record /\ pc[r] \in InUnitOfWork
      /\ Table(r) = "card" /\ view[r] = NoView /\ Refusal(r) = "none"
  BY <1>1, TargetIsRecord
     DEF Check, IInv, StepsFitCalls, InUnitOfWork, AnswerInv, DoneSoFar, LetIn
<1>3. CASE Raise(r, "NotFound") \/ Raise(r, "Forbidden")
  BY <1>2, <1>3, RaiseKnows DEF Outcomes
<1>4. CASE /\ Seen(r, x) # NoRow
           /\ EnsureOwnerOrAdmin(r, OwnerIn([y \in Record |-> Seen(r, y)], x))
           /\ Read(r) /\ Continue(r, "update", NoRow)
  <2>1. \A y \in Record : lock[y] # r
    BY <1>2, NoLockYet
  <2>2. [y \in Record |-> Seen(r, y)] = db
    BY <1>2, <2>1 DEF Seen, IInv, TypeOK, IsTables
  <2>3. db[x] # NoRow /\ EnsureOwnerOrAdmin(r, OwnerIn(db, x))
    BY <1>2, <1>4, <2>1, <2>2 DEF Seen
  <2>4. Takes(r, "update", "none", NoRow)
    BY <1>2, <1>4, ContinueTakes
  <2>5. /\ Respects(r) /\ \A y \in Record : Descends(y)
        /\ db' = db /\ work' = work /\ lock' = lock /\ view'[r] = db
    BY <1>2, <1>4, ReadEngine
  <2>6. /\ Op(r)' = "update" /\ Target(r)' = x /\ Table(r)' = "card" /\ Actor(r)' = Actor(r)
        /\ pc'[r] = "update" /\ outcome'[r] = "none" /\ reply'[r] = NoRow
    BY <1>1, <1>2, <2>4, CallsStay DEF Takes
  <2>7. \A a \in db[x].refs : db[a] # NoRow
    BY <1>2, <2>3 DEF IInv, FirmReferences
  <2>8. db # NoView
    BY RecordAssumption DEF IInv, TypeOK, IsTables, IsRow
  <2>9. OwnerChecked(r)'
    BY <2>3, <2>5, <2>6, <2>7, <2>8 DEF OwnerChecked, EnsureOwnerOrAdmin
  <2>10. DoneSoFar(r)' /\ ShownOwn(r)'
    BY <2>6 DEF DoneSoFar, ShownOwn
  <2>11. \A q \in Request : ToldTruth(q)'
    BY <1>2, <2>4, <2>5, TruthStays
  <2> QED
    BY <1>2, <2>1, <2>4, <2>5, <2>9, <2>10, <2>11, StepKeeps
<1> QED
  BY <1>1, <1>3, <1>4 DEF Check

\* An update gives its columns, and moves no row whose references may not change.
LEMMA UpdateGives ==
  ASSUME TypeOK, NEW r \in Request, Op(r) = "update", NEW version
  PROVE  /\ HasGiven(r, Updated(version, call[r].given))
         /\ Table(r) \notin Moving => Updated(version, call[r].given).refs = version.refs
<1> DEFINE given == call[r].given
           new == Updated(version, given)
<1>1. DOMAIN given \subseteq Columns /\ ("refs" \in DOMAIN given => Table(r) \in Moving)
  BY CallAssumption DEF TypeOK, Target, Op, Table
<1>2. /\ new.refs = IF "refs" \in DOMAIN given THEN given["refs"] ELSE version["refs"]
      /\ new.key = IF "key" \in DOMAIN given THEN given["key"] ELSE version["key"]
      /\ new.value = IF "value" \in DOMAIN given THEN given["value"] ELSE version["value"]
  BY DEF Updated
<1>3. ASSUME NEW c \in DOMAIN given PROVE new[c] = given[c]
  <2>1. c \in {"refs", "key", "value"}
    BY <1>1 DEF Columns
  <2> QED
    BY <1>2, <2>1
<1> QED
  BY <1>1, <1>2, <1>3 DEF HasGiven

\* UPDATE: the columns are given, or the row was not there or did not change.
LEMMA UpdateKnows ==
  ASSUME IInv, IInv', AnswerInv, NEW r \in Request, Update(r)
  PROVE  AnswerInv'
<1>1. PICK x, given : x = Target(r) /\ given = call[r].given
  OBVIOUS
<1>2. /\ pc[r] = "update" /\ Op(r) = "update" /\ Refusal(r) = "none" /\ x \in Record
      /\ pc[r] \in InUnitOfWork
  BY <1>1, TargetIsRecord DEF Update, IInv, StepsFitCalls, InUnitOfWork, AnswerInv, LetIn
<1>3. ASSUME NEW S, NEW v, Write(r, {x}, S, [work EXCEPT ![x] = v]), Continue(r, "reread", NoRow),
             work[x] = NoRow <=> v = NoRow,
             work[x] # NoRow /\ Table(r) \notin Moving => v.refs = work[x].refs,
             Table(r) # "card" => v # work[x] /\ HasGiven(r, v)
      PROVE  AnswerInv'
  <2>1. Takes(r, "reread", "none", NoRow)
    BY <1>2, <1>3, ContinueTakes
  <2>2. Respects(r) /\ Wrote(r, x, v) /\ \A y \in Record : Descends(y)
    BY <1>1, <1>2, <1>3, WriteEngine
  <2>3. /\ db' = db /\ view' = view /\ work[x] = db[x]
        /\ \A y \in Record : work'[y] = IF y = x THEN v ELSE work[y]
        /\ \A y \in Record : lock'[y] = r <=> y = x /\ work[x] # NoRow
    BY <1>3, <2>2 DEF Wrote
  <2>4. /\ Op(r)' = "update" /\ Target(r)' = x /\ Table(r)' = Table(r) /\ Actor(r)' = Actor(r)
        /\ pc'[r] = "reread" /\ outcome'[r] = "none" /\ reply'[r] = NoRow /\ call' = call
    BY <1>1, <1>2, <2>1, CallsStay DEF Takes
  <2>5. DoneSoFar(r)'
    BY <1>2, <1>3, <2>3, <2>4 DEF DoneSoFar, HasGiven
  <2>6. OwnerChecked(r)'
    <3>1. OwnerIn(view[r], Target(r))' = OwnerIn(view[r], Target(r))
      BY <1>1, <2>3, <2>4
    <3> QED
      BY <1>1, <1>2, <2>3, <2>4, <3>1 DEF AnswerInv, OwnerChecked, EnsureOwnerOrAdmin
  <2>7. ShownOwn(r)'
    BY <2>4 DEF ShownOwn
  <2>8. \A q \in Request : ToldTruth(q)'
    BY <1>2, <1>3, <2>1, <2>3, TruthStays
  <2> QED
    BY <1>2, <1>3, <2>1, <2>2, <2>3, <2>5, <2>6, <2>7, <2>8, StepKeeps
<1>4. CASE work[x] = NoRow \/ Updated(work[x], given) = work[x]
  <2>1. CASE Raise(r, "NotFound")
    BY <1>2, <2>1, RaiseKnows DEF Outcomes
  <2>2. CASE Table(r) = "card" /\ Write(r, {x}, {}, work) /\ Continue(r, "reread", NoRow)
    <3>1. PICK v : v = work[x]
      OBVIOUS
    <3>2. work = [work EXCEPT ![x] = v]
      BY <1>2, <3>1 DEF IInv, TypeOK, IsTables
    <3>3. Write(r, {x}, {}, [work EXCEPT ![x] = v])
      BY <2>2, <3>2
    <3> QED
      BY <1>3, <2>2, <3>1, <3>3
  <2> QED
    BY <1>1, <1>4, <2>1, <2>2 DEF Update
<1>5. CASE ~(work[x] = NoRow \/ Updated(work[x], given) = work[x])
  <2>1. PICK v : v = Updated(work[x], given)
    OBVIOUS
  <2>2. CASE IntegrityError(x, v) = "none"
    <3>1. Write(r, {x}, LooksAt(x, v), [work EXCEPT ![x] = v]) /\ Continue(r, "reread", NoRow)
      BY <1>1, <1>5, <2>1, <2>2 DEF Update
    <3>2. v # NoRow
      BY <1>1, <1>2, <1>5, <2>1, UpdatedIsRow, RecordAssumption DEF IInv, TypeOK, IsTables, IsRow
    <3>3. HasGiven(r, v) /\ (Table(r) \notin Moving => v.refs = work[x].refs)
      BY <1>1, <1>2, <2>1, UpdateGives DEF IInv
    <3> QED
      BY <1>3, <1>5, <2>1, <3>1, <3>2, <3>3
  <2>3. CASE IntegrityError(x, v) # "none"
    <3>1. IntegrityError(x, v) \in Outcomes \ {"none", "ok"} /\ Raise(r, IntegrityError(x, v))
      BY <1>1, <1>5, <2>1, <2>3 DEF Update, IntegrityError, Outcomes
    <3> QED
      BY <1>2, <3>1, RaiseKnows
  <2> QED
    BY <2>2, <2>3
<1> QED
  BY <1>4, <1>5

\* DELETE: the row was there, and is the request's now.
LEMMA DeleteKnows ==
  ASSUME IInv, IInv', AnswerInv, NEW r \in Request, Delete(r)
  PROVE  AnswerInv'
<1>1. PICK x : x = Target(r)
  OBVIOUS
<1>2. /\ pc[r] = "delete" /\ Op(r) = "delete" /\ Refusal(r) = "none" /\ x \in Record
      /\ pc[r] \in InUnitOfWork
  BY <1>1, TargetIsRecord DEF Delete, IInv, InUnitOfWork, AnswerInv, LetIn, DoneSoFar
<1>3. CASE Raise(r, "NotFound") \/ Raise(r, "Conflict")
  BY <1>2, <1>3, RaiseKnows DEF Outcomes
<1>4. CASE /\ work[x] # NoRow /\ Write(r, {x}, {}, [work EXCEPT ![x] = NoRow])
           /\ Continue(r, "commit", NoRow)
  <2>1. Takes(r, "commit", "none", NoRow)
    BY <1>2, <1>4, ContinueTakes
  <2>2. Respects(r) /\ Wrote(r, x, NoRow) /\ \A y \in Record : Descends(y)
    BY <1>1, <1>2, <1>4, WriteEngine
  <2>3. /\ db' = db /\ work[x] = db[x]
        /\ \A y \in Record : work'[y] = IF y = x THEN NoRow ELSE work[y]
        /\ \A y \in Record : lock'[y] = r <=> y = x
    BY <1>4, <2>2 DEF Wrote
  <2>4. /\ Op(r)' = "delete" /\ Target(r)' = x
        /\ pc'[r] = "commit" /\ outcome'[r] = "none" /\ reply'[r] = NoRow
    BY <1>1, <1>2, <2>1, CallsStay DEF Takes
  <2>5. DoneSoFar(r)' /\ OwnerChecked(r)' /\ ShownOwn(r)'
    BY <1>2, <2>3, <2>4 DEF DoneSoFar, OwnerChecked, ShownOwn
  <2>6. \A q \in Request : ToldTruth(q)'
    BY <1>2, <2>1, <2>3, TruthStays
  <2> QED
    BY <1>2, <1>4, <2>1, <2>2, <2>3, <2>5, <2>6, StepKeeps
<1> QED
  BY <1>1, <1>3, <1>4 DEF Delete

\* The read an update answers with: what it has given, and a row of its actor's.
LEMMA RereadKnows ==
  ASSUME IInv, IInv', AnswerInv, NEW r \in Request, Reread(r)
  PROVE  AnswerInv'
<1>1. PICK x, v : x = Target(r) /\ v = Seen(r, x)
  OBVIOUS
<1>2. /\ pc[r] = "reread" /\ Op(r) = "update" /\ Refusal(r) = "none" /\ x \in Record
      /\ Read(r) /\ Continue(r, "commit", v) /\ DoneSoFar(r)
  BY <1>1, TargetIsRecord DEF Reread, IInv, AnswerInv, LetIn, DoneSoFar
<1>3. Takes(r, "commit", "none", v)
  BY <1>2, ContinueTakes
<1>4. /\ Respects(r) /\ \A y \in Record : Descends(y)
      /\ db' = db /\ work' = work /\ lock' = lock
      /\ view'[r] = (IF view[r] = NoView THEN db ELSE view[r])
  BY <1>2, ReadEngine
<1>5. /\ Op(r)' = "update" /\ Target(r)' = x /\ Table(r)' = Table(r) /\ Actor(r)' = Actor(r)
      /\ pc'[r] = "commit" /\ outcome'[r] = "none" /\ reply'[r] = v /\ call' = call
  BY <1>1, <1>2, <1>3, CallsStay DEF Takes
<1>6. \A y \in Record : lock[y] = r =>
         y = x /\ db[y] # NoRow /\ work[y] # NoRow
  BY <1>1, <1>2, RecordAssumption DEF IInv, ChangesItsTarget, AnswerInv, LocksFitCalls
<1>7. DoneSoFar(r)'
  <2>1. ASSUME Table(r) # "card" PROVE v # NoRow /\ HasGiven(r, v)
    <3>1. lock[x] = r /\ work[x] # db[x] /\ HasGiven(r, work[x])
      BY <1>1, <1>2, <2>1 DEF DoneSoFar
    <3> QED
      BY <1>1, <1>2, <1>6, <3>1 DEF Seen
  <2> QED
    BY <1>5, <2>1 DEF DoneSoFar, Shows, HasGiven
<1>8. OwnerChecked(r)'
  <2> SUFFICES ASSUME Table(r) = "card" PROVE OwnerChecked(r)'
    BY <1>5 DEF OwnerChecked
  <2>1. view'[r] = view[r]
    BY <1>2, <1>4 DEF AnswerInv, OwnerChecked
  <2>2. OwnerIn(view[r], Target(r))' = OwnerIn(view[r], Target(r))
    BY <1>1, <1>5, <2>1
  <2> QED
    BY <1>1, <1>2, <1>5, <2>1, <2>2 DEF AnswerInv, OwnerChecked, EnsureOwnerOrAdmin
<1>9. ShownOwn(r)'
  <2> SUFFICES ASSUME v # NoRow, Actor(r) # Admin
               PROVE  \/ Actor(r) = x
                      \/ \E a \in v.refs \cap Of("account") : Belongs(a, Actor(r))'
    BY <1>5 DEF ShownOwn
  <2>1. Table(r) \in {"customer", "card"} /\ (Table(r) = "customer" => Actor(r) = x)
    BY <1>1, <1>2, UsersMay DEF IInv
  <2>2. CASE Table(r) = "card"
    <3>1. PICK t : t = view[r]
      OBVIOUS
    <3>2. /\ t # NoView /\ t[x] # NoRow /\ \A a \in t[x].refs : t[a] # NoRow
          /\ OwnerIn(t, x) # Nobody /\ OwnerIn(t, x) = Actor(r)
      BY <1>1, <1>2, <2>2, <3>1 DEF AnswerInv, OwnerChecked, EnsureOwnerOrAdmin
    <3>3. t[x] \in Versions(x) /\ \A a \in t[x].refs : t[a] \in Versions(a)
      BY <3>1, <3>2, VersionIs
    <3>4. TableOf[x] = "card"
      BY <1>1, <2>2 DEF Table
    <3>5. PICK a \in t[x].refs \cap Of("account") : Belongs(a, Actor(r))
      BY <1>2, <3>2, <3>3, <3>4, CardsBelong
    <3>6. v \in Versions(x)
      BY <1>1, <3>1, <3>2, VersionIs DEF Seen
    <3>7. v.refs = t[x].refs
      BY <1>2, <3>3, <3>4, <3>6 DEF AnswerInv, RefsStay, Moving
    <3>8. Belongs(a, Actor(r))'
      <4>1. PICK c : c = Actor(r)
        OBVIOUS
      <4>2. Belongs(a, c)'
        BY <1>3, <1>4, <3>5, <4>1, DescentKeeps
      <4> QED
        BY <1>5, <4>1, <4>2 DEF Belongs
    <3> QED
      BY <1>5, <3>5, <3>7, <3>8
  <2> QED
    BY <2>1, <2>2
<1>10. \A q \in Request : ToldTruth(q)'
  BY <1>2, <1>3, <1>4, TruthStays
<1> QED
  BY <1>2, <1>3, <1>4, <1>6, <1>7, <1>8, <1>9, <1>10, StepKeeps

\* COMMIT, whether or not the service hears of it.
LEMMA CommitKnows ==
  ASSUME IInv, IInv', AnswerInv, NEW r \in Request, Commit(r) \/ CommitUnheard(r)
  PROVE  AnswerInv'
<1>1. /\ pc[r] = "commit" /\ CommitWithViews(r) /\ Refusal(r) = "none"
      /\ DoneSoFar(r) /\ ShownOwn(r) /\ outcome[r] = "none"
  BY DEF Commit, CommitUnheard, AnswerInv, LetIn
<1>2. PICK step, result, version :
         /\ Takes(r, step, result, version)
         /\ \/ /\ step = "show" /\ result = "none" /\ version = NoRow
               /\ Op(r) = "create" /\ Table(r) = "card"
            \/ step = "done" /\ result = "ok" /\ version = reply[r]
            \/ step = "done" /\ result = "ServerError" /\ version = NoRow
  <2>1. CASE Continue(r, "show", NoRow) /\ Op(r) = "create" /\ Table(r) = "card"
    BY <1>1, <2>1, ContinueTakes
  <2>2. CASE Answer(r, "ok", reply[r])
    <3>1. PICK version : version = reply[r]
      OBVIOUS
    <3> QED
      BY <2>2, <3>1, AnswerTakes
  <2>3. CASE Answer(r, "ServerError", NoRow)
    BY <2>3, AnswerTakes
  <2> QED
    BY <2>1, <2>2, <2>3 DEF Commit, CommitUnheard
<1>3. Respects(r) /\ \A y \in Record : Descends(y) /\ lock'[y] # r
  BY <1>1, EndEngine
<1>4. /\ Op(r)' = Op(r) /\ Target(r)' = Target(r) /\ Table(r)' = Table(r) /\ Actor(r)' = Actor(r)
      /\ pc'[r] = step /\ outcome'[r] = result /\ reply'[r] = version /\ call' = call
  BY <1>2, CallsStay DEF Takes
<1>5. DoneSoFar(r)' /\ OwnerChecked(r)'
  BY <1>1, <1>2, <1>4 DEF DoneSoFar, Shows, OwnerChecked
<1>6. ShownOwn(r)'
  <2> SUFFICES ASSUME version # NoRow, Actor(r) # Admin
               PROVE  \/ Actor(r) \in {Target(r)} \cup version.refs
                      \/ \E a \in version.refs \cap Of("account") : Belongs(a, Actor(r))'
    BY <1>2, <1>4 DEF ShownOwn
  <2>1. PICK c : c = Actor(r)
    OBVIOUS
  <2>2. version = reply[r]
    BY <1>2
  <2>3. \A a \in Of("account") : Belongs(a, c) => Belongs(a, c)'
    BY <1>1, <1>2, <1>3, DescentKeeps
  <2>4. \A a \in Of("account") : Belongs(a, Actor(r)) => Belongs(a, Actor(r))'
    BY <1>4, <2>1, <2>3 DEF Belongs
  <2> QED
    BY <1>1, <2>2, <2>4 DEF ShownOwn
<1>7. \A q \in Request : ToldTruth(q)'
  BY <1>1, <1>2, TruthCommitted
<1> QED
  BY <1>1, <1>2, <1>3, <1>5, <1>6, <1>7, StepKeeps

\* The read of a card that has been created: an administrator's.
LEMMA ShowKnows ==
  ASSUME IInv, IInv', AnswerInv, NEW r \in Request, Show(r)
  PROVE  AnswerInv'
<1>1. PICK v : v = db[Target(r)]
  OBVIOUS
<1>2. /\ pc[r] = "show" /\ UNCHANGED engine /\ Takes(r, "done", "ok", v)
      /\ Op(r) = "create" /\ Table(r) = "card" /\ Refusal(r) = "none"
  BY <1>1, AnswerTakes DEF Show, AnswerInv, DoneSoFar, LetIn
<1>3. Actor(r) = Admin
  BY <1>2, UsersMay DEF IInv
<1>4. /\ Respects(r) /\ \A y \in Record : Descends(y)
      /\ db' = db /\ work' = work /\ \A y \in Record : lock'[y] # r
  BY <1>2, QuietEngine, NoLockYet DEF engine
<1>5. /\ Op(r)' = "create" /\ Actor(r)' = Admin
      /\ pc'[r] = "done" /\ outcome'[r] = "ok" /\ reply'[r] = v
  BY <1>2, <1>3, CallsStay DEF Takes
<1>6. DoneSoFar(r)' /\ OwnerChecked(r)' /\ ShownOwn(r)'
  BY <1>5 DEF DoneSoFar, OwnerChecked, ShownOwn
<1>7. \A q \in Request : ToldTruth(q)'
  BY <1>2, <1>4, TruthStays
<1> QED
  BY <1>2, <1>4, <1>6, <1>7, StepKeeps

\* A fetch: whoever is shown a row is an administrator or its owner, and whoever is
\* to read a card goes on owning its account, which stays its account.
LEMMA GetKnows ==
  ASSUME IInv, IInv', AnswerInv, NEW r \in Request, Get(r)
  PROVE  AnswerInv'
<1>1. PICK x : x = Target(r)
  OBVIOUS
<1>2. /\ pc[r] = "get" /\ UNCHANGED engine /\ Op(r) = "get" /\ Refusal(r) = "none" /\ x \in Record
  BY <1>1, TargetIsRecord DEF Get, IInv, AnswerInv, DoneSoFar, LetIn
<1>3. PICK step, result, version :
         /\ Takes(r, step, result, version)
         /\ \/ step = "done" /\ result \in {"NotFound", "Forbidden"} /\ version = NoRow
            \/ /\ IF Table(r) = "card" THEN step = "fetch" /\ result = "none"
                                       ELSE step = "done" /\ result = "ok"
               /\ db[x] # NoRow /\ version = db[x]
               /\ Guard(r) = "owner" => EnsureOwnerOrAdmin(r, OwnerIn(db, x))
  <2>1. CASE Answer(r, "NotFound", NoRow) \/ Answer(r, "Forbidden", NoRow)
    BY <2>1, AnswerTakes
  <2>2. CASE /\ IF Table(r) = "card" THEN Continue(r, "fetch", db[x]) ELSE Answer(r, "ok", db[x])
             /\ db[x] # NoRow
             /\ Guard(r) = "owner" => EnsureOwnerOrAdmin(r, OwnerIn(db, x))
    <3>1. PICK version : version = db[x]
      OBVIOUS
    <3>2. Table(r) = "card" => Takes(r, "fetch", "none", version)
      BY <1>2, <2>2, <3>1, ContinueTakes
    <3>3. Table(r) # "card" => Takes(r, "done", "ok", version)
      BY <2>2, <3>1, AnswerTakes
    <3> QED
      BY <2>2, <3>1, <3>2, <3>3
  <2> QED
    BY <1>1, <2>1, <2>2 DEF Get
<1>4. /\ Respects(r) /\ \A y \in Record : Descends(y)
      /\ db' = db /\ work' = work /\ view' = view /\ \A y \in Record : lock'[y] # r
  BY <1>2, QuietEngine, NoLockYet DEF engine
<1>5. /\ Op(r)' = "get" /\ Target(r)' = x /\ Actor(r)' = Actor(r) /\ Table(r)' = Table(r)
      /\ pc'[r] = step /\ outcome'[r] = result /\ reply'[r] = version
  BY <1>1, <1>2, <1>3, CallsStay DEF Takes
<1>6. DoneSoFar(r)' /\ OwnerChecked(r)'
  BY <1>3, <1>5 DEF DoneSoFar, OwnerChecked
<1>7. ShownOwn(r)'
  <2> SUFFICES ASSUME version # NoRow, Actor(r) # Admin
               PROVE  /\ \/ Actor(r) \in {x} \cup version.refs
                         \/ \E a \in version.refs \cap Of("account") : Belongs(a, Actor(r))'
                      /\ step = "fetch" =>
                           \E a \in Of("account") : Belongs(x, a)' /\ Belongs(a, Actor(r))'
    BY <1>2, <1>3, <1>5, RecordAssumption DEF ShownOwn
  <2>1. /\ Guard(r) = "owner" /\ (Table(r) = "customer" => Actor(r) = x)
        /\ version = db[x] /\ db[x] # NoRow
    BY <1>1, <1>2, <1>3, UsersMay DEF IInv
  <2>2. OwnerIn(db, x) # Nobody /\ OwnerIn(db, x) = Actor(r)
    BY <1>3, <2>1 DEF EnsureOwnerOrAdmin
  <2>3. CASE Table(r) = "card"
    <3>1. TableOf[x] = "card"
      BY <1>1, <2>3 DEF Table
    <3>2. db[x] \in Versions(x) /\ \A a \in db[x].refs : db[a] \in Versions(a)
      BY <1>2, <2>1, VersionIs DEF IInv, FirmReferences
    <3>3. PICK a \in db[x].refs \cap Of("account") : Belongs(a, Actor(r))
      BY <1>2, <2>2, <3>1, <3>2, CardsBelong
    <3>4. PICK c : c = Actor(r)
      OBVIOUS
    <3>5. Belongs(a, c)'
      BY <1>2, <1>3, <1>4, <3>3, <3>4, DescentKeeps
    <3>6. Belongs(a, Actor(r))'
      BY <1>5, <3>4, <3>5 DEF Belongs
    <3>7. Belongs(x, a)
      BY <1>2, <3>1, <3>2, <3>3 DEF Belongs, AnswerInv, CreatedOnce, RefsStay, Moving
    <3>8. Belongs(x, a)'
      BY <1>2, <1>3, <1>4, <3>1, <3>7, DescentKeeps DEF Of
    <3> QED
      BY <1>5, <2>1, <3>3, <3>6, <3>8
  <2>4. CASE Table(r) \notin {"customer", "card"}
    <3>1. OwnerIn(db, x) \in db[x].refs
      BY <1>1, <2>2, <2>4, OwnersAreReferredTo DEF Table
    <3> QED
      BY <1>3, <2>1, <2>2, <2>4, <3>1
  <2>5. CASE Table(r) = "customer"
    BY <1>3, <2>1, <2>5
  <2> QED
    BY <2>3, <2>4, <2>5
<1>8. \A q \in Request : ToldTruth(q)'
  BY <1>2, <1>3, <1>4, TruthStays
<1> QED
  BY <1>2, <1>3, <1>4, <1>6, <1>7, <1>8, StepKeeps

\* The second read of a card: of whichever snapshot, it is a version of the card that was
\* looked at, so its account is still the actor's.
LEMMA FetchKnows ==
  ASSUME IInv, IInv', AnswerInv, NEW r \in Request, FetchCard(r)
  PROVE  AnswerInv'
<1>1. PICK x, c : x = Target(r) /\ c = Actor(r)
  OBVIOUS
<1>2. /\ pc[r] = "fetch" /\ UNCHANGED engine /\ Op(r) = "get" /\ Refusal(r) = "none"
      /\ ShownOwn(r)
  BY DEF FetchCard, AnswerInv, DoneSoFar, LetIn
<1>3. PICK version \in {reply[r], db[x]} : Takes(r, "done", "ok", version)
  <2>1. PICK version \in {reply[r], db[x]} : Answer(r, "ok", version)
    BY <1>1 DEF FetchCard
  <2> QED
    BY <2>1, AnswerTakes
<1>4. /\ Respects(r) /\ \A y \in Record : Descends(y)
      /\ db' = db /\ work' = work /\ \A y \in Record : lock'[y] # r
  BY <1>2, QuietEngine, NoLockYet DEF engine
<1>5. /\ Op(r)' = "get" /\ Target(r)' = x /\ Actor(r)' = c
      /\ pc'[r] = "done" /\ outcome'[r] = "ok" /\ reply'[r] = version
  BY <1>1, <1>2, <1>3, CallsStay DEF Takes
<1>6. DoneSoFar(r)' /\ OwnerChecked(r)'
  BY <1>5 DEF DoneSoFar, OwnerChecked
<1>7. ShownOwn(r)'
  <2> SUFFICES ASSUME version # NoRow, c # Admin
               PROVE  \/ c \in {x} \cup version.refs
                      \/ \E a \in version.refs \cap Of("account") : Belongs(a, c)'
    BY <1>5 DEF ShownOwn, Belongs
  <2>1. \A a \in Of("account") : Belongs(a, c) => Belongs(a, c)'
    BY <1>2, <1>3, <1>4, DescentKeeps
  <2>2. CASE version = reply[r]
    BY <1>1, <1>2, <2>1, <2>2 DEF ShownOwn
  <2>3. CASE version = db[x]
    <3>1. PICK a \in Of("account") : Belongs(x, a) /\ Belongs(a, c)
      BY <1>1, <1>2 DEF ShownOwn
    <3>2. version \in Versions(x)
      BY <2>3, VersionIs
    <3>3. a \in version.refs
      BY <3>1, <3>2 DEF Belongs
    <3> QED
      BY <2>1, <3>1, <3>3
  <2> QED
    BY <1>3, <2>2, <2>3
<1>8. \A q \in Request : ToldTruth(q)'
  BY <1>2, <1>3, <1>4, TruthStays
<1> QED
  BY <1>2, <1>3, <1>4, <1>6, <1>7, <1>8, StepKeeps

\* Every step keeps what is known.
LEMMA StepKnows == IInv /\ AnswerInv /\ [Next]_vars => AnswerInv'
<1> SUFFICES ASSUME IInv, AnswerInv, [Next]_vars PROVE AnswerInv'
  OBVIOUS
<1>1. IInv'
  BY StepInv
<1>2. ASSUME NEW r \in Request, Serve(r) \/ Fail(r) \/ CommitUnheard(r) PROVE AnswerInv'
  BY <1>1, <1>2, RefuseKnows, BeginKnows, InsertKnows, CheckKnows, UpdateKnows, RereadKnows,
     DeleteKnows, CommitKnows, ShowKnows, GetKnows, FetchKnows, FailKnows DEF Serve
<1>3. CASE UNCHANGED vars
  <2>1. /\ db' = db /\ work' = work /\ lock' = lock /\ view' = view
        /\ call' = call /\ pc' = pc /\ outcome' = outcome /\ reply' = reply
    BY <1>3 DEF vars
  <2>2. /\ \A r : /\ Op(r)' = Op(r) /\ Target(r)' = Target(r) /\ Actor(r)' = Actor(r)
                  /\ Table(r)' = Table(r) /\ Refusal(r)' = Refusal(r)
                  /\ NewVersion(r)' = NewVersion(r)
        /\ \A x : /\ Creates(x)' = Creates(x) /\ Deletes(x)' = Deletes(x)
                  /\ Versions(x)' = Versions(x) /\ Past(x)' = Past(x)
    BY <2>1, CallsStay DEF Versions, Past, Creates
  <2>3. CreatedOnce' /\ RefsStay' /\ LocksFitCalls' /\ LetIn'
    BY <2>1, <2>2 DEF AnswerInv, CreatedOnce, RefsStay, LocksFitCalls, LetIn, Op
  <2>4. ASSUME NEW r \in Request PROVE DoneSoFar(r)' /\ OwnerChecked(r)' /\ ShownOwn(r)' /\ ToldTruth(r)'
    <3>1. OwnerIn(view[r], Target(r))' = OwnerIn(view[r], Target(r))
      BY <2>1, <2>2
    <3>2. DoneSoFar(r)' /\ OwnerChecked(r)'
      BY <2>1, <2>2, <3>1
      DEF AnswerInv, DoneSoFar, HasGiven, Shows, OwnerChecked, EnsureOwnerOrAdmin
    <3>3. ShownOwn(r)' /\ ToldTruth(r)'
      BY <2>1, <2>2 DEF AnswerInv, ShownOwn, Belongs, ToldTruth
    <3> QED
      BY <3>2, <3>3
  <2> QED
    BY <2>3, <2>4 DEF AnswerInv
<1> QED
  BY <1>2, <1>3 DEF Next, Terminated

\* At first nothing is known: what will be created is not there.
LEMMA InitKnows == Init => AnswerInv
<1> SUFFICES ASSUME Init PROVE AnswerInv
  OBVIOUS
<1>1. PICK start \in Opening : OpenedWithViews(start)
  BY DEF Init
<1>2. /\ db = start /\ work = start /\ \A y \in Record : lock[y] = Free
      /\ \A q \in Request : view[q] = NoView
  BY <1>1 DEF OpenedWithViews, Opened
<1>3. \A q \in Request : pc[q] = "idle" /\ outcome[q] = "none" /\ reply[q] = NoRow /\ call[q] \in Call
  BY DEF Init
<1>4. CreatedOnce
  <2>1. \A x : \A q, r \in Creates(x) : q = r
    BY DEF Init, Creates
  <2>2. ASSUME NEW x \in Record, NEW q \in Creates(x) PROVE Versions(x) = {}
    <3>1. start[x] = NoRow
      BY <1>3, CallAssumption DEF Creates, Op, Target
    <3> QED
      BY <1>2, <3>1 DEF Versions
  <2> QED
    BY <2>1, <2>2 DEF CreatedOnce, Past
<1>5. RefsStay
  BY <1>2 DEF RefsStay, Versions
<1>6. LocksFitCalls /\ LetIn
  BY <1>2, <1>3 DEF LocksFitCalls, LetIn
<1>7. ASSUME NEW r \in Request PROVE DoneSoFar(r) /\ OwnerChecked(r) /\ ShownOwn(r) /\ ToldTruth(r)
  <2>1. DoneSoFar(r) /\ OwnerChecked(r) /\ ShownOwn(r)
    BY <1>3 DEF DoneSoFar, OwnerChecked, ShownOwn
  <2>2. Op(r) = "create" => db[Target(r)] = NoRow
    BY <1>2, <1>3, CallAssumption DEF Op, Target
  <2>3. ToldTruth(r)
    BY <1>3, <2>2 DEF ToldTruth
  <2> QED
    BY <2>1, <2>3
<1> QED
  BY <1>4, <1>5, <1>6, <1>7 DEF AnswerInv
-----------------------------------------------------------------------------
(* What follows for the clients.                                           *)

LEMMA InvariantsHold == Spec => [](IInv /\ AnswerInv)
  BY InitInv, InitKnows, StepInv, StepKnows, PTL DEF Spec

\* Whatever requests there are and whatever fails, a request knows what its answer says.
THEOREM Knowledge == Spec => []EndpointsAreSound
<1>1. IInv /\ AnswerInv => EndpointsAreSound
  BY DEF EndpointsAreSound
<1> QED
  BY <1>1, InvariantsHold, PTL

\* The client of a creation or a deletion is told what became of the row, unless
\* the server failed; of two deletions of one row, at most one succeeds.
THEOREM AnswersMatch == Spec => []AnswersMatchRows
<1>1. AnswerInv => AnswersMatchRows
  BY DEF AnswerInv, ToldTruth, AnswersMatchRows
<1> QED
  BY <1>1, InvariantsHold, PTL

\* An update answers with the columns it was given.
THEOREM UpdatesAreShown == Spec => []UpdatesShown
<1>1. AnswerInv => UpdatesShown
  BY DEF AnswerInv, DoneSoFar, UpdatesShown
<1> QED
  BY <1>1, InvariantsHold, PTL

\* Nobody but an administrator is shown a row of another customer, whatever was
\* created, changed and deleted while the request ran.
THEOREM OwnersRead == Spec => []OnlyOwnersRead
<1>1. ASSUME AnswerInv PROVE OnlyOwnersRead
  <2> SUFFICES ASSUME NEW r \in Request, reply[r] # NoRow, Actor(r) # Admin,
                      Actor(r) \notin {Target(r)} \cup reply[r].refs
               PROVE  \E a \in reply[r].refs \cap Of("account") :
                         db[a] = NoRow \/ Actor(r) \in db[a].refs
    BY DEF OnlyOwnersRead
  <2>1. PICK a \in reply[r].refs \cap Of("account") : Belongs(a, Actor(r))
    BY <1>1 DEF AnswerInv, ShownOwn
  <2>2. db[a] = NoRow \/ db[a] \in Versions(a)
    BY VersionIs
  <2> QED
    BY <2>1, <2>2 DEF Belongs
<1> QED
  BY <1>1, InvariantsHold, PTL

\* Two sets of tables in which a card and its accounts refer to the same rows agree
\* on its owner.
LEMMA SameOwner ==
  ASSUME NEW t, NEW u, NEW x, TableOf[x] = "card",
         t[x].refs = u[x].refs, \A a \in t[x].refs : t[a].refs = u[a].refs
  PROVE  OwnerIn(t, x) = OwnerIn(u, x)
<1> DEFINE owners(w) == UNION {w[a].refs : a \in w[x].refs}
<1>1. \A w : OwnerIn(w, x) = IF owners(w) \cap Customer = {} THEN Nobody
                            ELSE CHOOSE c \in owners(w) \cap Customer : TRUE
  BY DEF OwnerIn
<1>2. owners(t) = owners(u)
  OBVIOUS
<1> HIDE DEF owners
<1> QED
  BY <1>1, <1>2

\* Who commits a change may make it.
LEMMA CommitMayWrite ==
  ASSUME IInv, AnswerInv, NEW r \in Request, pc[r] = "commit",
         NEW x \in Record, lock[x] = r
  PROVE  Target(r) = x /\ MayWrite(r)
<1>1. /\ Target(r) = x /\ Refusal(r) = "none" /\ DoneSoFar(r)
      /\ Op(r) \in {"create", "update", "delete"}
      /\ db[x] = NoRow <=> Op(r) = "create"
  BY RecordAssumption
  DEF IInv, ChangesItsTarget, AnswerInv, LetIn, LocksFitCalls, DoneSoFar
<1>2. CASE Actor(r) # Admin /\ Op(r) = "create"
  <2>1. Table(r) = "customer_support" /\ work[x] = NewVersion(r)
    BY <1>1, <1>2, UsersMay DEF IInv, DoneSoFar
  <2>2. work[x].refs \cap Customer = {Actor(r)}
    BY <1>1, <1>2, <2>1, TicketsAreOwn DEF IInv
  <2>3. OwnerIn(work, x) = CHOOSE c \in {Actor(r)} : TRUE
    BY <1>1, <2>1, <2>2 DEF OwnerIn, Table
  <2> QED
    BY <1>1, <1>2, <2>1, <2>3 DEF MayWrite
<1>3. CASE Actor(r) # Admin /\ Op(r) = "update"
  <2>1. Table(r) \in {"customer", "card"} /\ (Table(r) = "customer" => Actor(r) = x)
    BY <1>1, <1>3, UsersMay DEF IInv
  <2>2. CASE Table(r) = "customer"
    BY <1>1, <1>3, <2>1, <2>2 DEF MayWrite, OwnerIn, Table
  <2>3. CASE Table(r) = "card"
    <3>1. PICK t : t = view[r]
      OBVIOUS
    <3>2. /\ t # NoView /\ t[x] # NoRow /\ \A a \in t[x].refs : t[a] # NoRow
          /\ OwnerIn(t, x) = Actor(r)
      BY <1>1, <1>3, <2>3, <3>1 DEF AnswerInv, OwnerChecked, EnsureOwnerOrAdmin
    <3>3. TableOf[x] = "card" /\ db[x] # NoRow
      BY <1>1, <1>3, <2>3 DEF Table
    <3>4. t[x] \in Versions(x) /\ db[x] \in Versions(x)
      BY <3>1, <3>2, <3>3, VersionIs
    <3>5. t[x].refs = db[x].refs
      BY <3>3, <3>4 DEF AnswerInv, RefsStay, Moving
    <3>6. ASSUME NEW a \in t[x].refs PROVE t[a].refs = db[a].refs
      <4>1. a \in Record /\ TableOf[a] = "account"
        BY <3>3, <3>4, VersionIsRow, CardParents DEF IsRow, AreParents
      <4>2. db[a] # NoRow
        BY <3>3, <3>5 DEF IInv, FirmReferences
      <4>3. t[a] \in Versions(a) /\ db[a] \in Versions(a)
        BY <3>1, <3>2, <4>2, VersionIs
      <4> QED
        BY <4>1, <4>3 DEF AnswerInv, RefsStay, Moving
    <3>7. OwnerIn(db, x) = Actor(r)
      BY <3>2, <3>3, <3>5, <3>6, SameOwner
    <3> QED
      BY <1>1, <1>3, <2>3, <3>7 DEF MayWrite
  <2> QED
    BY <2>1, <2>2, <2>3
<1>4. CASE Actor(r) # Admin /\ Op(r) = "delete"
  BY <1>1, <1>4, UsersMay DEF IInv
<1> QED
  BY <1>1, <1>2, <1>3, <1>4 DEF MayWrite

\* Rows change by the COMMIT of a request that may write them, and of no other.
THEOREM OwnersWrite == Spec => OnlyOwnersWrite
<1>1. ASSUME IInv, AnswerInv, [Next]_vars, NEW x \in Record, db'[x] # db[x]
      PROVE  \E r \in Request : pc[r] = "commit" /\ Target(r) = x /\ MayWrite(r)
  <2>1. PICK r \in Request : Serve(r) \/ Fail(r) \/ CommitUnheard(r)
    BY <1>1 DEF Next, Terminated, vars
  <2>2. CASE Commit(r) \/ CommitUnheard(r)
    <3>1. pc[r] = "commit" /\ CommitWithViews(r)
      BY <2>2 DEF Commit, CommitUnheard
    <3>2. lock[x] = r
      BY <1>1, <3>1, EndEngine
    <3> QED
      BY <1>1, <3>1, <3>2, CommitMayWrite
  <2>3. \A error : Raise(r, error) => db' = db
    BY DEF Raise, RollbackWithViews, RollbackTxns
  <2>4. \A X, S, new : Write(r, X, S, new) => db' = db
    BY DEF Write, Statement
  <2>5. Refuse(r) \/ Begin(r) \/ Show(r) \/ Get(r) \/ FetchCard(r) => db' = db
    BY DEF Refuse, Begin, Show, Get, FetchCard, engine
  <2>6. Insert(r) \/ Fail(r) \/ Delete(r) \/ Update(r) => db' = db
    BY <2>3, <2>4 DEF Insert, Fail, Delete, Update
  <2>7. Check(r) \/ Reread(r) => db' = db
    BY <2>3 DEF Check, Reread, Read
  <2> QED
    BY <1>1, <2>1, <2>2, <2>5, <2>6, <2>7 DEF Serve
<1>2. IInv /\ AnswerInv /\ [Next]_vars =>
         [\A x \in Record : db'[x] # db[x] =>
            \E r \in Request : pc[r] = "commit" /\ Target(r) = x /\ MayWrite(r)]_vars
  BY <1>1
<1> QED
  BY <1>2, InvariantsHold, PTL DEF Spec, OnlyOwnersWrite
=============================================================================
