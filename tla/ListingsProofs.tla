--------------------------- MODULE ListingsProofs ---------------------------
(***************************************************************************)
(* Whatever accounts, requests, readers and workers there are: the ledger  *)
(* rows of an account are dated in the order of their commits, whoever has *)
(* been paid finds it listed, and a row is shown to its parties only.      *)
(***************************************************************************)
EXTENDS ListingsInv, LedgerProofs

USE DEF Row

-----------------------------------------------------------------------------
(* What the steps of the requests do, as far as readers can tell.          *)

\* A step of Listings is a step of Transfers, or leaves the requests alone.
LEMMA StepOfTransfers == [NextAll]_all => [Next]_vars
  BY DEF NextAll, all, Tick, Stamp, Serving, Suffering, Ask, Read, Borrow, GetEntry, GetSender,
         GetReceiver, GetAccount, ListEntries, Ping, Return, Replaced, ReadFails, Select, Step,
         Dies, Next

\* What is committed is committed by a COMMIT; a request that is done stays so; and
\* a transfer writes its ledger row, then commits it, after everything else.
Effects ==
    /\ call' = call
    /\ \A q \in Request :
         /\ pc[q] = "done" => pc'[q] = "done" /\ outcome'[q] = outcome[q]
         /\ pc'[q] \in BeforeInsert => pc[q] \in BeforeInsert
         /\ pc'[q] = "insert" => pc[q] \in {"credit", "insert"}
         /\ call[q].kind = "transfer" /\ pc'[q] = "commit" => pc[q] \in {"insert", "commit"}
    /\ \/ db' = db
       \/ \E r \in Request :
            /\ pc[r] = "commit" /\ CommitTxn(r)
            /\ pc'[r] \in {"rollback", "disconnect"}
            /\ \A q \in Request \ {r} : pc'[q] = pc[q]

\* The pc of a request that takes a step.
LEMMA OneSteps ==
  ASSUME IInv, NEW r \in Request, NEW step, pc' = [pc EXCEPT ![r] = step]
  PROVE  pc'[r] = step /\ \A q \in Request \ {r} : pc'[q] = pc[q]
  BY DEF IInv, TypeOK

LEMMA StatementEffects ==
  ASSUME IInv, NEW r \in Request,
         \/ LockFirst(r) \/ LockSecond(r) \/ Debit(r) \/ Credit(r) \/ Insert(r)
         \/ SetBalance(r) \/ Close(r) \/ Erase(r)
  PROVE  Effects
<1>1. /\ db' = db /\ call' = call
      /\ \/ UNCHANGED outcome
         \/ \E error : outcome' = [outcome EXCEPT ![r] = error]
      /\ \E step : /\ pc' = [pc EXCEPT ![r] = step]
                   /\ \/ pc[r] = "lock1" /\ step = "lock2"
                      \/ pc[r] = "lock2" /\ step \in {"debit", "rollback"}
                      \/ pc[r] = "debit" /\ step \in {"credit", "rollback"}
                      \/ pc[r] = "credit" /\ step \in {"insert", "rollback"}
                      \/ pc[r] = "insert" /\ step = "commit"
                      \/ pc[r] \in {"setBalance", "close", "erase"} /\ step \in {"commit", "rollback"}
  BY DEF LockFirst, LockSecond, Debit, Credit, Insert, SetBalance, Close, Erase, Store, Execute,
         Statement, Goto, Raise
<1>2. PICK step : /\ pc' = [pc EXCEPT ![r] = step]
                  /\ \/ pc[r] = "lock1" /\ step = "lock2"
                     \/ pc[r] = "lock2" /\ step \in {"debit", "rollback"}
                     \/ pc[r] = "debit" /\ step \in {"credit", "rollback"}
                     \/ pc[r] = "credit" /\ step \in {"insert", "rollback"}
                     \/ pc[r] = "insert" /\ step = "commit"
                     \/ pc[r] \in {"setBalance", "close", "erase"} /\ step \in {"commit", "rollback"}
  BY <1>1
<1>3. pc'[r] = step /\ \A q \in Request \ {r} : pc'[q] = pc[q]
  BY <1>2, OneSteps
<1>4. pc[r] \in {"setBalance", "close", "erase"} => call[r].kind # "transfer"
  BY DEF IInv, StepsFitCalls
<1>5. \A q \in Request \ {r} : outcome'[q] = outcome[q]
  BY <1>1 DEF IInv, TypeOK
<1> QED
  BY <1>1, <1>2, <1>3, <1>4, <1>5 DEF Effects, BeforeInsert

LEMMA OtherEffects ==
  ASSUME IInv, NEW r \in Request,
         \/ Reject(r) \/ Accept(r) \/ Begin(r) \/ Rollback(r) \/ Disconnect(r)
         \/ Unreachable(r) \/ LockTimeout(r) \/ DeadlockVictim(r) \/ ConnectionLost(r)
  PROVE  Effects
<1>1. /\ db' = db /\ call' = call
      /\ \/ UNCHANGED outcome
         \/ \E error : outcome' = [outcome EXCEPT ![r] = error]
      /\ \E step : /\ pc' = [pc EXCEPT ![r] = step]
                   /\ \/ pc[r] \in {"idle", "connect"} /\ step = "done"
                      \/ pc[r] = "idle" /\ step = "connect"
                      \/ pc[r] = "connect" /\ step \in {"lock1", "setBalance", "close", "erase"}
                      \/ pc[r] = "rollback" /\ step = "disconnect"
                      \/ pc[r] = "disconnect" /\ step = "done"
                      \/ pc[r] # "done" /\ step = "rollback"
  <2>1. CASE Reject(r) \/ Accept(r) \/ Unreachable(r)
    BY <2>1 DEF Reject, Accept, Unreachable, Answer, Goto
  <2>2. CASE Begin(r)
    <3>1. FirstStatement[call[r].kind] \in {"lock1", "setBalance", "close", "erase"}
      BY Kinds DEF FirstStatement
    <3>2. PICK step \in {"lock1", "setBalance", "close", "erase"} : step = FirstStatement[call[r].kind]
      BY <3>1
    <3> QED
      BY <2>2, <3>2 DEF Begin
  <2>3. CASE Rollback(r) \/ Disconnect(r)
    BY <2>3 DEF Rollback, Disconnect, Goto, RollbackTxns
  <2>4. CASE LockTimeout(r) \/ ConnectionLost(r)
    BY <2>4 DEF LockTimeout, ConnectionLost, Raise, Statements
  <2>5. CASE DeadlockVictim(r)
    <3>1. pc[r] # "done"
      BY <2>5 DEF DeadlockVictim, Deadlocked, WaitsFor, Holders, Wanted
    <3> QED
      BY <2>5, <3>1 DEF DeadlockVictim, Raise, RollbackTxns
  <2> QED
    BY <2>1, <2>2, <2>3, <2>4, <2>5
<1>2. PICK step : /\ pc' = [pc EXCEPT ![r] = step]
                  /\ \/ pc[r] \in {"idle", "connect"} /\ step = "done"
                     \/ pc[r] = "idle" /\ step = "connect"
                     \/ pc[r] = "connect" /\ step \in {"lock1", "setBalance", "close", "erase"}
                     \/ pc[r] = "rollback" /\ step = "disconnect"
                     \/ pc[r] = "disconnect" /\ step = "done"
                     \/ pc[r] # "done" /\ step = "rollback"
  BY <1>1
<1>3. pc'[r] = step /\ \A q \in Request \ {r} : pc'[q] = pc[q]
  BY <1>2, OneSteps
<1>5. \A q \in Request \ {r} : outcome'[q] = outcome[q]
  BY <1>1 DEF IInv, TypeOK
<1> QED
  BY <1>1, <1>2, <1>3, <1>5 DEF Effects, BeforeInsert

LEMMA StepEffects == IInv /\ [Next]_vars => Effects
<1> SUFFICES ASSUME IInv, [Next]_vars PROVE Effects
  OBVIOUS
<1>1. ASSUME NEW r \in Request, Commit(r) \/ CommitUnheard(r) PROVE Effects
  <2>1. PICK step \in {"rollback", "disconnect"} : pc' = [pc EXCEPT ![r] = step]
    BY <1>1 DEF Commit, CommitUnheard, Raise
  <2>2. pc'[r] = step /\ \A q \in Request \ {r} : pc'[q] = pc[q]
    BY <2>1, OneSteps
  <2>3. /\ call' = call /\ pc[r] = "commit" /\ CommitTxn(r)
        /\ \E result : outcome' = [outcome EXCEPT ![r] = result]
    BY <1>1 DEF Commit, CommitUnheard, Raise
  <2>4. \A q \in Request \ {r} : outcome'[q] = outcome[q]
    BY <2>3 DEF IInv, TypeOK
  <2> QED
    BY <2>2, <2>3, <2>4 DEF Effects, BeforeInsert
<1>2. ASSUME NEW w \in Worker, Crash(w) PROVE Effects
  BY <1>2 DEF Crash, Active, RollbackTxns, Effects, BeforeInsert
<1>3. CASE UNCHANGED vars
  BY <1>3 DEF vars, Effects, BeforeInsert
<1> QED
  BY <1>1, <1>2, <1>3, StatementEffects, OtherEffects DEF Next, Serve, Fault, Terminated
-----------------------------------------------------------------------------
(* The time of a ledger row.                                               *)

\* From its insert to its COMMIT a transfer holds both its accounts.
LEMMA HoldsItsAccounts ==
  ASSUME IInv, LedgerInv, NEW q \in Request, call[q].kind = "transfer", pc[q] \in {"insert", "commit"}
  PROVE  lock[Sender(q)] = q /\ lock[Receiver(q)] = q
<1>1. CASE pc[q] = "insert"
  BY <1>1, HasLocked
<1>2. CASE pc[q] = "commit"
  BY <1>2 DEF LedgerInv, EachDoesOneOperation, DoesOneOperation, Recorded
<1> QED
  BY <1>1, <1>2

\* A ledger row appears by the COMMIT of its own transfer, which names both accounts.
LEMMA OwnCommit ==
  ASSUME IInv, LedgerInv, Effects, NEW q \in Request, db[q] = NoRow, db'[q] # NoRow
  PROVE  /\ call[q].kind = "transfer" /\ pc[q] = "commit" /\ pc'[q] \in {"rollback", "disconnect"}
         /\ db'[q].from = Sender(q) /\ db'[q].to = Receiver(q)
         /\ Sender(q) \in Account /\ Receiver(q) \in Account
<1>1. PICK r \in Request : pc[r] = "commit" /\ CommitTxn(r) /\ pc'[r] \in {"rollback", "disconnect"}
  BY DEF Effects
<1>2. lock[q] = r /\ db'[q] = work[q]
  BY <1>1, Published
<1>3. r = q
  BY <1>2, RowAssumption DEF LedgerInv, EntriesAreKept
<1>4. call[q].kind = "transfer" /\ Sender(q) \in Account /\ Receiver(q) \in Account
  BY <1>2, EntryOfTransfer
<1>5. work[q] = [from |-> Sender(q), to |-> Receiver(q), amount |-> Amount(q)]
  BY <1>1, <1>3, <1>4 DEF LedgerInv, EachDoesOneOperation, DoesOneOperation, Recorded
<1> QED
  BY <1>1, <1>2, <1>3, <1>4, <1>5

\* A step of the requests, by which no transfer writes its row without a time, keeps
\* the times in order.
LEMMA RequestsKeepOrder ==
  ASSUME IInv, LedgerInv, StampsAreOrdered, Effects, UNCHANGED <<now, stamp>>,
         \A q \in Request : pc[q] = "insert" /\ pc'[q] = "commit" => stamp[q] # None
  PROVE  StampsAreOrdered'
<1>1. ASSUME NEW q \in Request, db'[q] # NoRow PROVE stamp[q] # None
  BY <1>1, OwnCommit DEF StampsAreOrdered
<1>2. ASSUME NEW q \in Request, pc'[q] \in BeforeInsert PROVE stamp[q] = None
  BY <1>2 DEF StampsAreOrdered, Effects
<1>3. ASSUME NEW q \in Request, call[q].kind = "transfer", pc'[q] = "commit" PROVE stamp[q] # None
  BY <1>3 DEF StampsAreOrdered, Effects
<1>4. ASSUME NEW q \in Request, call[q].kind = "transfer", pc'[q] \in {"insert", "commit"},
             stamp[q] # None,
             NEW p \in Request, db'[p] # NoRow, Share(p, q)
      PROVE  stamp[p] <= stamp[q]
  <2>1. pc[q] \in {"insert", "commit"}
    BY <1>4 DEF Effects, StampsAreOrdered, BeforeInsert
  <2>2. db[p] # NoRow
    <3> SUFFICES ASSUME db[p] = NoRow PROVE FALSE
      OBVIOUS
    <3>1. call[p].kind = "transfer" /\ pc[p] = "commit" /\ p # q
      BY <1>4, OwnCommit
    <3>2. /\ lock[Sender(p)] = p /\ lock[Receiver(p)] = p
          /\ lock[Sender(q)] = q /\ lock[Receiver(q)] = q
      BY <1>4, <2>1, <3>1, HoldsItsAccounts
    <3> QED
      BY <1>4, <3>1, <3>2 DEF Share
  <2> QED
    BY <1>4, <2>1, <2>2 DEF StampsAreOrdered, IsLast
<1>5. \A p, q \in Request : Share(p, q)' = Share(p, q)
  BY DEF Share, Sender, Receiver, Effects
<1> QED
  BY <1>1, <1>2, <1>3, <1>4, <1>5 DEF StampsAreOrdered, IsLast, Effects

\* A transfer that takes its time takes the last one.
LEMMA StampKeepsOrder ==
  ASSUME IInv, StampsAreOrdered, NEW r \in Request, Stamp(r)
  PROVE  StampsAreOrdered'
<1>1. /\ UNCHANGED <<db, work, lock, call, pc, now>> /\ pc[r] = "insert" /\ stamp[r] = None
      /\ stamp' = [stamp EXCEPT ![r] = now]
      /\ now \in Nat /\ stamp \in [Request -> (0..now) \cup {None}] /\ None \notin Nat
  BY ReaderAssumption DEF Stamp, vars, StampsAreOrdered
<1>2. /\ stamp' \in [Request -> (0..now) \cup {None}]
      /\ stamp'[r] = now /\ \A q \in Request \ {r} : stamp'[q] = stamp[q]
  BY <1>1
<1>3. \A p, q \in Request : Share(p, q)' = Share(p, q)
  BY <1>1 DEF Share, Sender, Receiver
<1>4. db[r] = NoRow \/ stamp[r] # None
  BY DEF StampsAreOrdered
<1>5. ASSUME NEW q \in Request, NEW p \in Request,
             call[q].kind = "transfer", pc[q] \in {"insert", "commit"}, stamp'[q] # None,
             db[p] # NoRow, Share(p, q)
      PROVE  stamp'[p] <= stamp'[q]
  <2>1. stamp[p] \in 0..now /\ p # r /\ stamp'[p] = stamp[p]
    BY <1>1, <1>2, <1>5 DEF StampsAreOrdered
  <2>2. CASE q = r
    BY <1>1, <1>2, <2>1, <2>2
  <2>3. CASE q # r
    <3>1. stamp'[q] = stamp[q] /\ stamp[p] <= stamp[q]
      BY <1>2, <1>5, <2>3 DEF StampsAreOrdered, IsLast
    <3> QED
      BY <2>1, <3>1
  <2> QED
    BY <2>2, <2>3
<1>6. \A q \in Request : /\ pc[q] \in BeforeInsert => stamp'[q] = None
                         /\ call[q].kind = "transfer" /\ pc[q] = "commit" => stamp'[q] # None
                         /\ db[q] # NoRow => stamp'[q] # None
  BY <1>1, <1>2, <1>4 DEF StampsAreOrdered, BeforeInsert
<1> QED
  BY <1>1, <1>2, <1>3, <1>5, <1>6 DEF StampsAreOrdered, IsLast

\* Who writes a ledger row has its time.
LEMMA InsertsWithTime ==
  ASSUME IInv, NextAll, NEW q \in Request, pc[q] = "insert", pc'[q] = "commit"
  PROVE  stamp[q] # None /\ UNCHANGED <<now, stamp>>
<1>1. ASSUME NEW r \in Request, Serving(r) PROVE stamp[q] # None /\ UNCHANGED <<now, stamp>>
  <2>1. \E step : pc' = [pc EXCEPT ![r] = step]
    BY <1>1 DEF Serving, Serve, Begin, LockFirst, LockSecond, Debit, Credit, Insert, SetBalance,
                Close, Erase, Store, Commit, Rollback, Disconnect, Goto, Raise
  <2>2. q = r
    BY <2>1 DEF IInv, TypeOK
  <2> QED
    BY <1>1, <2>2 DEF Serving, readers
<1>2. ASSUME NEW r \in Request, Suffering(r) PROVE FALSE
  <2>1. \E step \in {"done", "connect", "rollback"} : pc' = [pc EXCEPT ![r] = step]
    BY <1>2 DEF Suffering, Reject, Accept, Fault, Unreachable, LockTimeout, DeadlockVictim,
                ConnectionLost, CommitUnheard, Answer, Goto, Raise
  <2> QED
    BY <2>1 DEF IInv, TypeOK
<1>3. ASSUME NEW w \in Worker, Dies(w) PROVE FALSE
  BY <1>3 DEF Dies, Crash
<1>4. ASSUME UNCHANGED vars PROVE FALSE
  BY <1>4 DEF vars
<1> QED
  BY <1>1, <1>2, <1>3, <1>4
     DEF NextAll, Tick, Stamp, Ask, Read, Borrow, GetEntry, GetSender, GetReceiver, GetAccount,
         ListEntries, Ping, Return, Replaced, ReadFails, Select, Step, Terminated

LEMMA StepKeepsOrder ==
  ASSUME IInv, LedgerInv, StampsAreOrdered, [NextAll]_all
  PROVE  StampsAreOrdered'
<1>1. Effects
  BY StepOfTransfers, StepEffects
<1>2. CASE UNCHANGED <<now, stamp>>
  <2>1. ASSUME NEW q \in Request, pc[q] = "insert", pc'[q] = "commit" PROVE stamp[q] # None
    <3>1. NextAll
      BY <2>1 DEF all, vars
    <3> QED
      BY <2>1, <3>1, InsertsWithTime
  <2> QED
    BY <1>1, <1>2, <2>1, RequestsKeepOrder
<1>3. CASE Tick
  <2>1. UNCHANGED <<db, call, pc, stamp>> /\ now \in Nat /\ now' = now + 1
    BY <1>3 DEF Tick, vars, StampsAreOrdered
  <2>2. stamp' \in [Request -> (0..now') \cup {None}]
    BY <2>1 DEF StampsAreOrdered
  <2>3. \A p, q \in Request : Share(p, q)' = Share(p, q)
    BY <2>1 DEF Share, Sender, Receiver
  <2> QED
    BY <2>1, <2>2, <2>3 DEF StampsAreOrdered, IsLast
<1>4. CASE \E r \in Request : Stamp(r)
  BY <1>4, StampKeepsOrder
<1> QED
  BY <1>2, <1>3, <1>4
     DEF NextAll, all, readers, Serving, Suffering, Ask, Read, Borrow, GetEntry, GetSender,
         GetReceiver, GetAccount, ListEntries, Ping, Return, Replaced, ReadFails, Select, Step,
         Dies, Terminated
-----------------------------------------------------------------------------
(* What a reader has found and is told.                                    *)

\* PaidIsListed and PartiesSeeTheirEntry, of one reader.
ToldPaid(k) ==
    k.call.kind = "history" /\ k.answer = "ok" /\ k.whole =>
       \A q \in k.paid :
          RowOf[k.call.account] \in {Sender(q), Receiver(q)} => q \in k.shown \/ ToBeErased(q)
ToldParties(k) ==
    k.call.kind = "entry" =>
       /\ k.answer = "ok" =>
            k.call.actor \in {Admin, Owner[Sender(k.call.entry)], Owner[Receiver(k.call.entry)]}
       /\ k.answer = "Forbidden" /\ k.whole =>
            /\ k.call.actor # Owner[k.found.from]
            /\ k.found.to # Null => k.call.actor # Owner[k.found.to]

Fits(k) ==
    /\ IsReader(k) /\ ReadsInOrder(k) /\ HasFound(k) /\ HoldsThePaid(k)
    /\ ToldPaid(k) /\ ToldParties(k)
AllFit == reader = [x \in Reader |-> reader[x]] /\ \A x \in Reader : Fits(reader[x])

LEMMA AllFitMeans == (ReadersFit /\ PaidIsListed /\ PartiesSeeTheirEntry) <=> AllFit
<1>1. \A x \in Reader : ToldParties(reader[x]) <=>
         LET c == reader[x].call
             q == reader[x].found
         IN  c.kind = "entry" =>
               /\ reader[x].answer = "ok" =>
                    c.actor \in {Admin, Owner[Sender(c.entry)], Owner[Receiver(c.entry)]}
               /\ reader[x].answer = "Forbidden" /\ reader[x].whole =>
                    c.actor # Owner[q.from] /\ (q.to # Null => c.actor # Owner[q.to])
  BY DEF ToldParties
<1>2. PartiesSeeTheirEntry <=> \A x \in Reader : ToldParties(reader[x])
  BY <1>1 DEF PartiesSeeTheirEntry
<1>3. PaidIsListed <=> \A x \in Reader : ToldPaid(reader[x])
  BY DEF PaidIsListed, ToldPaid, ToBeErased
<1> QED
  BY <1>2, <1>3 DEF ReadersFit, AllFit, Fits

\* What the requests do leaves a reader with what it has.
LEMMA FitsStays ==
  ASSUME Effects, NEW k, Fits(k)
  PROVE  Fits(k)'
<1>1. call' = call /\ AnsweredPaid \subseteq AnsweredPaid'
  BY DEF Effects, AnsweredPaid
<1>2. /\ \A q : Sender(q)' = Sender(q) /\ Receiver(q)' = Receiver(q)
      /\ \A q : ToBeErased(q)' <=> ToBeErased(q)
  BY <1>1 DEF Sender, Receiver, ToBeErased
<1>3. IsReader(k)' /\ ReadsInOrder(k)'
  BY <1>1 DEF Fits, IsReader, ReadsInOrder
<1>4. HasFound(k)'
  BY <1>1, <1>2 DEF Fits, HasFound
<1>5. HoldsThePaid(k)'
  BY <1>1, <1>2 DEF Fits, HoldsThePaid, Recounts
<1>6. ToldPaid(k)' /\ ToldParties(k)'
  BY <1>1, <1>2 DEF Fits, ToldPaid, ToldParties
<1> QED
  BY <1>3, <1>4, <1>5, <1>6 DEF Fits

\* A step of one reader.
LEMMA ReaderStep ==
  ASSUME AllFit, NEW x \in Reader, NEW next, Step(x, next), Fits(next)
  PROVE  AllFit'
<1>1. UNCHANGED vars
  BY DEF Step
<1>2. Effects
  BY <1>1 DEF vars, Effects
<1>3. Fits(next)'
  BY <1>2, FitsStays
<1>4. \A k : Fits(k) => Fits(k)'
  BY <1>2, FitsStays
<1>5. /\ reader' = [y \in Reader |-> reader'[y]]
      /\ reader'[x] = next /\ \A y \in Reader \ {x} : reader'[y] = reader[y]
  BY DEF Step, AllFit
<1>6. ASSUME NEW y \in Reader PROVE Fits(reader[y])'
  <2>1. PICK k : k = reader'[y]
    OBVIOUS
  <2>2. Fits(k)
    <3>1. CASE y = x
      BY <2>1, <3>1, <1>5
    <3>2. CASE y # x
      BY <2>1, <3>2, <1>5 DEF AllFit
    <3> QED
      BY <3>1, <3>2
  <2>3. Fits(k)'
    BY <2>2, <1>4
  <2>4. Fits(k)' => Fits(reader[y])'
    BY <2>1 DEF Fits, IsReader, ReadsInOrder, HasFound, HoldsThePaid, ToldPaid, ToldParties
  <2> QED
    BY <2>3, <2>4
<1> QED
  BY <1>5, <1>6 DEF AllFit

\* What a reader may ask for.
LEMMA ReadCalls ==
  ASSUME NEW k, IsReader(k)
  PROVE  /\ k.call.kind = "entry" => k.call.entry \in Request
         /\ k.call.kind = "history" => k.call.account \in Id /\ RowOf[k.call.account] \in Account
  BY ReaderAssumption, IdAssumption DEF IsReader, EntryCall, HistoryCall, ProbeCall

\* A reader after a SELECT.
Selected(k, view, found, shown, to) ==
    [k EXCEPT !.view = view, !.found = found, !.shown = shown,
              !.pc = IF to \in Reading THEN to ELSE "close",
              !.answer = IF to \in Reading THEN @ ELSE to]

LEMMA AfterSelect ==
  ASSUME NEW k, IsReader(k), NEW view, NEW found, NEW shown, NEW to,
         NEW next, next = Selected(k, view, found, shown, to)
  PROVE  /\ IsReader(next) /\ next.call = k.call /\ next.paid = k.paid /\ next.whole = k.whole
         /\ next.view = view /\ next.found = found /\ next.shown = shown
         /\ to \in Reading => next.pc = to /\ next.answer = k.answer
         /\ to \notin Reading => next.pc = "close" /\ next.answer = to
<1>1. next = [call |-> k.call, pc |-> IF to \in Reading THEN to ELSE "close", view |-> view,
              found |-> found, shown |-> shown, answer |-> IF to \in Reading THEN k.answer ELSE to,
              paid |-> k.paid, whole |-> k.whole]
  BY DEF IsReader, Selected
<1> QED
  BY <1>1 DEF IsReader

\* A reader whose SELECT was the last one needs no snapshot any more.
LEMMA FitsAtTheEnd ==
  ASSUME NEW k, IsReader(k), k.pc \in {"close", "done"}, ToldPaid(k), ToldParties(k)
  PROVE  Fits(k)
  BY DEF Fits, ReadsInOrder, HasFound, HoldsThePaid, Reading

\* What the committed tables say of a ledger row, and of what was paid.
LEMMA CommittedRow ==
  ASSUME IInv, LedgerInv, PartiesAreKept, NEW q \in Request, db[q] # NoRow
  PROVE  /\ Recounts(db, q) /\ call[q].kind = "transfer"
         /\ db[db[q].from] # NoRow /\ (db[q].to # Null => db[db[q].to] # NoRow)
<1>1. call[q].kind = "transfer" /\ Sender(q) \in Account /\ Receiver(q) \in Account
      /\ db[q].from = Sender(q)
  BY EntryOfTransfer
<1>2. db[q].to \in {Receiver(q), Null} /\ (db[q].to = Null => db[Receiver(q)] = NoRow)
  BY DEF PartiesAreKept, KeepsItsParties
<1>3. \A a \in Account : a \in {db[q].from, db[q].to} => db[a] # NoRow
  BY DEF LedgerInv, ReferencesAreFirm, Refers
<1> QED
  BY <1>1, <1>2, <1>3 DEF Recounts

LEMMA PaidRow ==
  ASSUME IInv, LedgerInv, PartiesAreKept, NEW q \in AnsweredPaid
  PROVE  Recounts(db, q) \/ ToBeErased(q)
  BY CommittedRow DEF LedgerInv, AnswerMatchesLedger, AnsweredPaid, ToBeErased

LEMMA TablesAreThere == IInv => db # None
  BY ReaderAssumption DEF IInv, TypeOK, IsTables

\* transactions.get finds the row as it is committed, with its accounts.
LEMMA GetEntryFits ==
  ASSUME IInv, LedgerInv, PartiesAreKept, AllFit, NEW x \in Reader, GetEntry(x)
  PROVE  AllFit'
<1>1. PICK k : k = reader[x]
  OBVIOUS
<1>2. Fits(k) /\ k.pc = "first" /\ k.call.kind = "entry" /\ k.view = None
  BY <1>1 DEF AllFit, GetEntry, Select, Fits, ReadsInOrder
<1>3. PICK q : q = db[k.call.entry]
  OBVIOUS
<1>4. PICK to : to = IF q = NoRow THEN "NotFound" ELSE IF k.call.actor = Admin THEN "ok" ELSE "second"
  OBVIOUS
<1>5. PICK next : next = Selected(k, db, q, {}, to)
  OBVIOUS
<1>6. Step(x, next)
  BY <1>1, <1>2, <1>3, <1>4, <1>5 DEF GetEntry, Select, Tables, Selected
<1>7. IsReader(k) /\ k.call.entry \in Request /\ k.answer = "none"
  BY <1>2, ReadCalls DEF Fits, ReadsInOrder, Reading
<1>8. /\ IsReader(next) /\ next.call = k.call /\ next.paid = k.paid /\ next.whole = k.whole
      /\ next.view = db /\ next.found = q
      /\ to \in Reading => next.pc = to /\ next.answer = "none"
      /\ to \notin Reading => next.pc = "close" /\ next.answer = to
  BY <1>5, <1>7, AfterSelect
<1>9. CASE q = NoRow
  <2>1. next.pc = "close" /\ next.answer = "NotFound"
    BY <1>4, <1>8, <1>9 DEF Reading
  <2> QED
    BY <1>2, <1>6, <1>8, <2>1, FitsAtTheEnd, ReaderStep DEF ToldPaid, ToldParties
<1>10. CASE q # NoRow /\ k.call.actor = Admin
  <2>1. next.pc = "close" /\ next.answer = "ok"
    BY <1>4, <1>8, <1>10 DEF Reading
  <2> QED
    BY <1>2, <1>6, <1>8, <1>10, <2>1, FitsAtTheEnd, ReaderStep DEF ToldPaid, ToldParties
<1>11. CASE q # NoRow /\ k.call.actor # Admin
  <2>1. next.pc = "second" /\ next.answer = "none"
    BY <1>4, <1>8, <1>11 DEF Reading
  <2>2. /\ call[k.call.entry].kind = "transfer" /\ q.from = Sender(k.call.entry)
        /\ q.to \in {Receiver(k.call.entry), Null}
        /\ db[q.from] # NoRow /\ (q.to # Null => db[q.to] # NoRow)
    BY <1>3, <1>7, <1>11, CommittedRow DEF Recounts
  <2>3. HasFound(next)
    BY <1>8, <2>1, <2>2, TablesAreThere DEF HasFound
  <2>4. ReadsInOrder(next) /\ HoldsThePaid(next) /\ ToldPaid(next) /\ ToldParties(next)
    BY <1>2, <1>8, <2>1 DEF ReadsInOrder, HoldsThePaid, ToldPaid, ToldParties
  <2> QED
    BY <1>6, <1>8, <2>3, <2>4, ReaderStep DEF Fits
<1> QED
  BY <1>9, <1>10, <1>11

\* The accounts are looked at in the snapshot the row was found in, unless it is lost.
LEMMA GetSenderFits ==
  ASSUME IInv, LedgerInv, PartiesAreKept, AllFit, NEW x \in Reader, GetSender(x)
  PROVE  AllFit'
<1>1. PICK k : k = reader[x]
  OBVIOUS
<1>2. Fits(k) /\ k.pc = "second" /\ k.call.kind = "entry"
  BY <1>1 DEF AllFit, GetSender, Select
<1>3. PICK t : t = Tables(x)
  OBVIOUS
<1>4. PICK to : to = IF t[k.found.from] # NoRow /\ Owner[k.found.from] = k.call.actor THEN "ok"
                     ELSE IF k.found.to = Null THEN "Forbidden" ELSE "third"
  OBVIOUS
<1>5. PICK next : next = Selected(k, t, k.found, {}, to)
  OBVIOUS
<1>6. Step(x, next)
  BY <1>1, <1>3, <1>4, <1>5 DEF GetSender, Select, Owns, NextParty, Selected
<1>7. IsReader(k) /\ k.answer = "none" /\ HasFound(k) /\ (k.whole => t = k.view)
  BY <1>1, <1>2, <1>3 DEF Fits, ReadsInOrder, Reading, HasFound, Tables
<1>8. /\ IsReader(next) /\ next.call = k.call /\ next.paid = k.paid /\ next.whole = k.whole
      /\ next.view = t /\ next.found = k.found
      /\ to \in Reading => next.pc = to /\ next.answer = "none"
      /\ to \notin Reading => next.pc = "close" /\ next.answer = to
  BY <1>5, <1>7, AfterSelect
<1>9. CASE to = "ok"
  <2>1. next.pc = "close" /\ next.answer = "ok"
    BY <1>8, <1>9 DEF Reading
  <2>2. k.call.actor = Owner[Sender(k.call.entry)]
    BY <1>2, <1>4, <1>7, <1>9 DEF HasFound
  <2>3. ToldPaid(next) /\ ToldParties(next)
    BY <1>2, <1>8, <2>1, <2>2 DEF ToldPaid, ToldParties
  <2> QED
    BY <1>6, <1>8, <2>1, <2>3, FitsAtTheEnd, ReaderStep
<1>10. CASE to = "Forbidden"
  <2>1. next.pc = "close" /\ next.answer = "Forbidden"
    BY <1>8, <1>10 DEF Reading
  <2>2. k.found.to = Null /\ (k.whole => k.call.actor # Owner[k.found.from])
    BY <1>2, <1>4, <1>7, <1>10 DEF HasFound
  <2>3. ToldPaid(next) /\ ToldParties(next)
    BY <1>2, <1>8, <2>1, <2>2 DEF ToldPaid, ToldParties
  <2> QED
    BY <1>6, <1>8, <2>1, <2>3, FitsAtTheEnd, ReaderStep
<1>11. CASE to = "third"
  <2>1. next.pc = "third" /\ next.answer = "none"
    BY <1>8, <1>11 DEF Reading
  <2>2. k.found.to # Null /\ (k.whole => k.call.actor # Owner[k.found.from])
    BY <1>2, <1>4, <1>7, <1>11 DEF HasFound
  <2>3. HasFound(next)
    BY <1>2, <1>7, <1>8, <2>1, <2>2 DEF HasFound
  <2>4. ReadsInOrder(next) /\ HoldsThePaid(next) /\ ToldPaid(next) /\ ToldParties(next)
    BY <1>2, <1>8, <2>1 DEF ReadsInOrder, HoldsThePaid, ToldPaid, ToldParties
  <2> QED
    BY <1>6, <1>8, <2>3, <2>4, ReaderStep DEF Fits
<1> QED
  BY <1>4, <1>9, <1>10, <1>11

LEMMA GetReceiverFits ==
  ASSUME IInv, LedgerInv, PartiesAreKept, AllFit, NEW x \in Reader, GetReceiver(x)
  PROVE  AllFit'
<1>1. PICK k : k = reader[x]
  OBVIOUS
<1>2. Fits(k) /\ k.pc = "third" /\ k.call.kind = "entry"
  BY <1>1 DEF AllFit, GetReceiver, Select
<1>3. PICK t : t = Tables(x)
  OBVIOUS
<1>4. PICK to : to = IF t[k.found.to] # NoRow /\ Owner[k.found.to] = k.call.actor THEN "ok"
                     ELSE "Forbidden"
  OBVIOUS
<1>5. PICK next : next = Selected(k, t, k.found, {}, to)
  OBVIOUS
<1>6. Step(x, next)
  BY <1>1, <1>3, <1>4, <1>5 DEF GetReceiver, Select, Owns, Selected
<1>7. IsReader(k) /\ k.answer = "none" /\ HasFound(k) /\ (k.whole => t = k.view)
  BY <1>1, <1>2, <1>3 DEF Fits, ReadsInOrder, Reading, HasFound, Tables
<1>8. /\ IsReader(next) /\ next.call = k.call /\ next.paid = k.paid /\ next.whole = k.whole
      /\ next.found = k.found /\ next.pc = "close" /\ next.answer = to
  BY <1>4, <1>5, <1>7, AfterSelect DEF Reading
<1>9. ToldPaid(next) /\ ToldParties(next)
  BY <1>2, <1>4, <1>7, <1>8 DEF ToldPaid, ToldParties, HasFound
<1> QED
  BY <1>6, <1>8, <1>9, FitsAtTheEnd, ReaderStep

\* list_by_account begins its snapshot with the account.
LEMMA GetAccountFits ==
  ASSUME IInv, LedgerInv, PartiesAreKept, AllFit, NEW x \in Reader, GetAccount(x)
  PROVE  AllFit'
<1>1. PICK k : k = reader[x]
  OBVIOUS
<1>2. Fits(k) /\ k.pc = "first" /\ k.call.kind = "history" /\ k.view = None
  BY <1>1 DEF AllFit, GetAccount, Select, Fits, ReadsInOrder
<1>3. PICK a : a = RowOf[k.call.account]
  OBVIOUS
<1>4. PICK to : to = IF db[a] = NoRow THEN "NotFound"
                     ELSE IF k.call.actor = Admin \/ Owns(x, a) THEN "second" ELSE "Forbidden"
  OBVIOUS
<1>5. PICK next : next = Selected(k, db, NoRow, {}, to)
  OBVIOUS
<1>6. Step(x, next)
  BY <1>1, <1>2, <1>3, <1>4, <1>5 DEF GetAccount, Select, Tables, Selected
<1>7. IsReader(k) /\ k.answer = "none" /\ k.paid \subseteq AnsweredPaid
  BY <1>2 DEF Fits, ReadsInOrder, Reading
<1>8. /\ IsReader(next) /\ next.call = k.call /\ next.paid = k.paid /\ next.whole = k.whole
      /\ next.view = db
      /\ to \in Reading => next.pc = to /\ next.answer = "none"
      /\ to \notin Reading => next.pc = "close" /\ next.answer = to
  BY <1>5, <1>7, AfterSelect
<1>9. CASE to \in {"NotFound", "Forbidden"}
  <2>1. next.pc = "close" /\ next.answer # "ok"
    BY <1>8, <1>9 DEF Reading
  <2> QED
    BY <1>2, <1>6, <1>8, <2>1, FitsAtTheEnd, ReaderStep DEF ToldPaid, ToldParties
<1>10. CASE to = "second"
  <2>1. next.pc = "second" /\ next.answer = "none" /\ db[a] # NoRow
    BY <1>4, <1>8, <1>10 DEF Reading
  <2>2. \A q \in k.paid : Recounts(db, q) \/ ToBeErased(q)
    BY <1>7, PaidRow
  <2>3. HoldsThePaid(next)
    BY <1>3, <1>8, <2>1, <2>2, TablesAreThere DEF HoldsThePaid
  <2>4. ReadsInOrder(next) /\ HasFound(next) /\ ToldPaid(next) /\ ToldParties(next)
    BY <1>2, <1>8, <2>1 DEF ReadsInOrder, HasFound, ToldPaid, ToldParties
  <2> QED
    BY <1>6, <1>8, <2>3, <2>4, ReaderStep DEF Fits
<1> QED
  BY <1>4, <1>9, <1>10

\* The listing shows every row of the account in that snapshot, so all that was paid.
LEMMA ListEntriesFits ==
  ASSUME IInv, LedgerInv, PartiesAreKept, AllFit, NEW x \in Reader, ListEntries(x)
  PROVE  AllFit'
<1>1. PICK k : k = reader[x]
  OBVIOUS
<1>2. Fits(k) /\ k.pc = "second" /\ k.call.kind = "history"
  BY <1>1 DEF AllFit, ListEntries, Select
<1>3. PICK t : t = Tables(x)
  OBVIOUS
<1>4. PICK a : a = RowOf[k.call.account]
  OBVIOUS
<1>5. PICK shown : shown = {q \in Request : Refers(t[q], a)}
  OBVIOUS
<1>6. PICK next : next = Selected(k, t, NoRow, shown, "ok")
  OBVIOUS
<1>7. Step(x, next)
  BY <1>1, <1>3, <1>4, <1>5, <1>6 DEF ListEntries, Select, Selected
<1>8. IsReader(k) /\ (k.whole => t = k.view) /\ HoldsThePaid(k)
  BY <1>1, <1>2, <1>3 DEF Fits, HoldsThePaid, Tables
<1>9. /\ IsReader(next) /\ next.call = k.call /\ next.paid = k.paid /\ next.whole = k.whole
      /\ next.shown = shown /\ next.pc = "close" /\ next.answer = "ok"
  BY <1>6, <1>8, AfterSelect DEF Reading
<1>10. ASSUME k.whole, NEW q \in k.paid, a \in {Sender(q), Receiver(q)}
       PROVE  q \in shown \/ ToBeErased(q)
  <2>1. t[a] # NoRow /\ (Recounts(t, q) \/ ToBeErased(q)) /\ q \in Request
    BY <1>2, <1>4, <1>8, <1>10 DEF HoldsThePaid, IsReader
  <2>2. ASSUME Recounts(t, q) PROVE Refers(t[q], a)
    BY <1>10, <2>1, <2>2 DEF Recounts, Refers
  <2> QED
    BY <1>5, <2>1, <2>2
<1>11. ToldPaid(next) /\ ToldParties(next)
  BY <1>2, <1>4, <1>9, <1>10 DEF ToldPaid, ToldParties
<1> QED
  BY <1>7, <1>9, <1>11, FitsAtTheEnd, ReaderStep

\* A reader that is about to ask, or that is done with or without an answer.
LEMMA OtherReadsFit ==
  ASSUME AllFit, NEW x \in Reader,
         Ask(x) \/ Borrow(x) \/ Ping(x) \/ Return(x) \/ Replaced(x) \/ ReadFails(x)
  PROVE  AllFit'
<1>1. PICK k : k = reader[x]
  OBVIOUS
<1>2. Fits(k) /\ IsReader(k)
  BY <1>1 DEF AllFit, Fits
<1> USE DEF Reading
<1>3. CASE Ask(x)
  <2>1. PICK next : next = [k EXCEPT !.pc = "connect", !.paid = AnsweredPaid]
    OBVIOUS
  <2>2. Step(x, next) /\ k.pc = "idle"
    BY <1>1, <1>3, <2>1 DEF Ask
  <2>3. next = [call |-> k.call, pc |-> "connect", view |-> k.view, found |-> k.found,
                shown |-> k.shown, answer |-> k.answer, paid |-> AnsweredPaid, whole |-> k.whole]
    BY <1>2, <2>1 DEF IsReader
  <2>4. IsReader(next) /\ ReadsInOrder(next)
    BY <1>2, <2>2, <2>3 DEF Fits, IsReader, ReadsInOrder, AnsweredPaid
  <2>5. HasFound(next) /\ HoldsThePaid(next) /\ ToldPaid(next) /\ ToldParties(next)
    BY <2>3, <2>4 DEF ReadsInOrder, HasFound, HoldsThePaid, ToldPaid, ToldParties
  <2> QED
    BY <2>2, <2>4, <2>5, ReaderStep DEF Fits
<1>4. CASE Borrow(x)
  <2>1. PICK next : next = [k EXCEPT !.pc = "first"]
    OBVIOUS
  <2>2. Step(x, next) /\ k.pc = "connect"
    BY <1>1, <1>4, <2>1 DEF Borrow
  <2>3. next = [call |-> k.call, pc |-> "first", view |-> k.view, found |-> k.found,
                shown |-> k.shown, answer |-> k.answer, paid |-> k.paid, whole |-> k.whole]
    BY <1>2, <2>1 DEF IsReader
  <2>4. IsReader(next) /\ ReadsInOrder(next)
    BY <1>2, <2>2, <2>3 DEF Fits, IsReader, ReadsInOrder
  <2>5. HasFound(next) /\ HoldsThePaid(next) /\ ToldPaid(next) /\ ToldParties(next)
    BY <2>3, <2>4 DEF ReadsInOrder, HasFound, HoldsThePaid, ToldPaid, ToldParties
  <2> QED
    BY <2>2, <2>4, <2>5, ReaderStep DEF Fits
<1>5. CASE Ping(x)
  <2>1. PICK next : next = [k EXCEPT !.pc = "close", !.answer = "ok"]
    OBVIOUS
  <2>2. Step(x, next) /\ k.call.kind = "probe"
    BY <1>1, <1>5, <2>1 DEF Ping
  <2>3. next = [call |-> k.call, pc |-> "close", view |-> k.view, found |-> k.found,
                shown |-> k.shown, answer |-> "ok", paid |-> k.paid, whole |-> k.whole]
    BY <1>2, <2>1 DEF IsReader
  <2> QED
    BY <1>2, <2>2, <2>3, ReaderStep, FitsAtTheEnd DEF IsReader, ToldPaid, ToldParties
<1>6. CASE Return(x)
  <2>1. PICK next : next = [k EXCEPT !.pc = "done", !.view = None]
    OBVIOUS
  <2>2. Step(x, next)
    BY <1>1, <1>6, <2>1 DEF Return
  <2>3. next = [call |-> k.call, pc |-> "done", view |-> None, found |-> k.found,
                shown |-> k.shown, answer |-> k.answer, paid |-> k.paid, whole |-> k.whole]
    BY <1>2, <2>1 DEF IsReader
  <2> QED
    BY <1>2, <2>2, <2>3, ReaderStep, FitsAtTheEnd DEF Fits, IsReader, ToldPaid, ToldParties
<1>7. CASE Replaced(x)
  <2>1. PICK next : next = [k EXCEPT !.view = None, !.whole = FALSE]
    OBVIOUS
  <2>2. Step(x, next)
    BY <1>1, <1>7, <2>1 DEF Replaced
  <2>3. next = [call |-> k.call, pc |-> k.pc, view |-> None, found |-> k.found,
                shown |-> k.shown, answer |-> k.answer, paid |-> k.paid, whole |-> FALSE]
    BY <1>2, <2>1 DEF IsReader
  <2>4. IsReader(next) /\ ReadsInOrder(next) /\ HasFound(next) /\ HoldsThePaid(next)
    BY <1>2, <2>3 DEF Fits, IsReader, ReadsInOrder, HasFound, HoldsThePaid
  <2>5. ToldPaid(next) /\ ToldParties(next)
    BY <1>2, <2>3 DEF Fits, ToldPaid, ToldParties
  <2> QED
    BY <2>2, <2>4, <2>5, ReaderStep DEF Fits
<1>8. CASE ReadFails(x)
  <2>1. PICK next : next = [k EXCEPT !.pc = "close", !.answer = "ConnectionLost"]
    OBVIOUS
  <2>2. Step(x, next)
    BY <1>1, <1>8, <2>1 DEF ReadFails
  <2>3. next = [call |-> k.call, pc |-> "close", view |-> k.view, found |-> k.found,
                shown |-> k.shown, answer |-> "ConnectionLost", paid |-> k.paid, whole |-> k.whole]
    BY <1>2, <2>1 DEF IsReader
  <2> QED
    BY <1>2, <2>2, <2>3, ReaderStep, FitsAtTheEnd DEF IsReader, ToldPaid, ToldParties
<1> QED
  BY <1>3, <1>4, <1>5, <1>6, <1>7, <1>8

\* The death of a worker ends its readers without an answer.
LEMMA DiesFits ==
  ASSUME IInv, AllFit, NEW w \in Worker, Dies(w)
  PROVE  AllFit'
<1>1. Effects
  BY StepEffects DEF Dies, Next
<1>2. reader' = [y \in Reader |-> reader'[y]]
  BY DEF Dies
<1>3. ASSUME NEW x \in Reader PROVE Fits(reader[x])'
  <2>1. PICK k : k = reader[x]
    OBVIOUS
  <2>2. PICK next : next = reader'[x]
    OBVIOUS
  <2>3. Fits(k) /\ IsReader(k)
    BY <2>1 DEF AllFit, Fits
  <2>4. next = k \/ next = [k EXCEPT !.pc = "done", !.view = None, !.answer = "NoReply"]
    BY <2>1, <2>2 DEF Dies
  <2>5. ASSUME next = [k EXCEPT !.pc = "done", !.view = None, !.answer = "NoReply"]
        PROVE  Fits(next)
    <3>1. next = [call |-> k.call, pc |-> "done", view |-> None, found |-> k.found,
                  shown |-> k.shown, answer |-> "NoReply", paid |-> k.paid, whole |-> k.whole]
      BY <2>3, <2>5 DEF IsReader
    <3>2. IsReader(next) /\ ToldPaid(next) /\ ToldParties(next)
      BY <2>3, <3>1 DEF IsReader, ToldPaid, ToldParties
    <3> QED
      BY <3>1, <3>2, FitsAtTheEnd
  <2>7. Fits(next)
    BY <2>3, <2>4, <2>5
  <2>8. Fits(next)'
    BY <1>1, <2>7, FitsStays
  <2>9. Fits(next)' => Fits(reader[x])'
    BY <2>2 DEF Fits, IsReader, ReadsInOrder, HasFound, HoldsThePaid, ToldPaid, ToldParties
  <2> QED
    BY <2>8, <2>9
<1> QED
  BY <1>2, <1>3 DEF AllFit

\* The requests and the clock leave the readers as they are.
LEMMA RequestsFit ==
  ASSUME IInv, AllFit, [Next]_vars, reader' = reader
  PROVE  AllFit'
<1>1. Effects
  BY StepEffects
<1>2. ASSUME NEW x \in Reader PROVE Fits(reader[x])'
  <2>1. PICK k : k = reader[x] /\ k = reader'[x]
    OBVIOUS
  <2>2. Fits(k)'
    BY <1>1, <2>1, FitsStays DEF AllFit
  <2>3. Fits(k)' => Fits(reader[x])'
    BY <2>1 DEF Fits, IsReader, ReadsInOrder, HasFound, HoldsThePaid, ToldPaid, ToldParties
  <2> QED
    BY <2>2, <2>3
<1> QED
  BY <1>2 DEF AllFit

LEMMA StepFits ==
  ASSUME IInv, LedgerInv, PartiesAreKept, AllFit, [NextAll]_all
  PROVE  AllFit'
<1>1. [Next]_vars
  BY StepOfTransfers
<1>2. CASE reader' = reader
  BY <1>1, <1>2, RequestsFit
<1>3. ASSUME NEW x \in Reader, Ask(x) \/ Read(x) \/ Replaced(x) \/ ReadFails(x) PROVE AllFit'
  BY <1>3, OtherReadsFit, GetEntryFits, GetSenderFits, GetReceiverFits, GetAccountFits,
     ListEntriesFits DEF Read
<1> QED
  BY <1>2, <1>3, DiesFits
     DEF NextAll, all, readers, Tick, Stamp, Serving, Suffering, Terminated

LEMMA InitListings == InitAll => IInv /\ LedgerInv /\ ListingsInvariant
<1> SUFFICES ASSUME InitAll PROVE IInv /\ LedgerInv /\ ListingsInvariant
  OBVIOUS
<1>1. IInv /\ LedgerInv
  BY InitInv, InitLedger DEF InitAll
<1>2. \A q \in Request : db[q] = NoRow /\ work[q] = NoRow /\ pc[q] = "idle"
  BY RowAssumption DEF InitAll, Init, Opened
<1>3. PartiesAreKept
  BY <1>2 DEF PartiesAreKept, KeepsItsParties
<1>4. StampsAreOrdered
  BY <1>2 DEF InitAll, StampsAreOrdered, IsLast
<1>5. AllFit
  <2>1. PICK c \in [Reader -> ReadCall] : reader = [x \in Reader |-> NewReader(c[x])]
    BY DEF InitAll
  <2>2. ASSUME NEW x \in Reader PROVE Fits(NewReader(c[x]))
    <3>1. PICK k : k = NewReader(c[x])
      OBVIOUS
    <3>2. k = [call |-> c[x], pc |-> "idle", view |-> None, found |-> NoRow, shown |-> {},
               answer |-> "none", paid |-> {}, whole |-> TRUE]
      BY <3>1 DEF NewReader
    <3>3. IsReader(k) /\ ReadsInOrder(k)
      BY <3>2 DEF IsReader, ReadsInOrder
    <3>4. HasFound(k) /\ HoldsThePaid(k) /\ ToldPaid(k) /\ ToldParties(k)
      BY <3>2 DEF HasFound, HoldsThePaid, ToldPaid, ToldParties
    <3> QED
      BY <3>1, <3>3, <3>4 DEF Fits
  <2> QED
    BY <2>1, <2>2 DEF AllFit
<1> QED
  BY <1>1, <1>3, <1>4, <1>5, AllFitMeans DEF ListingsInvariant

LEMMA StepListings ==
  IInv /\ LedgerInv /\ ListingsInvariant /\ [NextAll]_all => (IInv /\ LedgerInv /\ ListingsInvariant)'
<1> SUFFICES ASSUME IInv, LedgerInv, ListingsInvariant, [NextAll]_all
             PROVE  (IInv /\ LedgerInv /\ ListingsInvariant)'
  OBVIOUS
<1>1. [Next]_vars
  BY StepOfTransfers
<1>2. IInv' /\ LedgerInv'
  BY <1>1, StepInv, StepLedger
<1>3. PartiesAreKept' /\ StampsAreOrdered'
  BY <1>1, StepKeepsParties, StepKeepsOrder DEF ListingsInvariant
<1>4. AllFit'
  BY AllFitMeans, StepFits DEF ListingsInvariant
<1>5. (ReadersFit /\ PaidIsListed /\ PartiesSeeTheirEntry)'
  <2>1. ((ReadersFit /\ PaidIsListed /\ PartiesSeeTheirEntry) <=> AllFit)'
    BY AllFitMeans, PTL
  <2> QED
    BY <1>4, <2>1
<1> QED
  BY <1>2, <1>3, <1>5 DEF ListingsInvariant
-----------------------------------------------------------------------------
\* Whatever requests and readers there are, the invariant of the listings is inductive,
\* on top of those of the transfers (transaction_service.get, list_by_account).
THEOREM ListingsInvariance == SpecAll => [](IInv /\ LedgerInv /\ ListingsInvariant)
  BY InitListings, StepListings, PTL DEF SpecAll

\* Whoever has been answered that a transfer went through finds it in the listing of its
\* account, whatever is transferred, closed and lost meanwhile
\* (transaction_service.list_by_account).
THEOREM PaidAreListed == SpecAll => []PaidIsListed
<1>1. ListingsInvariant => PaidIsListed
  BY DEF ListingsInvariant
<1> QED
  BY <1>1, ListingsInvariance, PTL

\* A ledger row is shown to those who paid and received it and to nobody else, though the
\* accounts are looked at one after the other (_ensure_actor_sees_transaction).
THEOREM PartiesSee == SpecAll => []PartiesSeeTheirEntry
<1>1. ListingsInvariant => PartiesSeeTheirEntry
  BY DEF ListingsInvariant
<1> QED
  BY <1>1, ListingsInvariance, PTL

\* No row of an account is stamped earlier than one that was committed before it, although
\* utcnow() is taken before the insert, because both accounts stay locked from there to
\* the COMMIT (transaction_service.transfer).  Stamps may be equal.
THEOREM StampsInCommitOrder == SpecAll => StampsFollowCommits
<1> DEFINE A == \A p, q \in Request :
                   /\ db[p] # NoRow /\ db[q] = NoRow /\ db'[q] # NoRow
                   /\ {db[p].from, db[p].to} \cap {db'[q].from, db'[q].to} # {}
                   => stamp[p] <= stamp[q]
<1>1. IInv /\ LedgerInv /\ ListingsInvariant /\ [NextAll]_all => A
  <2> SUFFICES ASSUME IInv, LedgerInv, ListingsInvariant, [NextAll]_all,
                      NEW p \in Request, NEW q \in Request,
                      db[p] # NoRow, db[q] = NoRow, db'[q] # NoRow,
                      {db[p].from, db[p].to} \cap {db'[q].from, db'[q].to} # {}
               PROVE  stamp[p] <= stamp[q]
    OBVIOUS
  <2>1. Effects
    BY StepOfTransfers, StepEffects
  <2>2. /\ call[q].kind = "transfer" /\ pc[q] = "commit"
        /\ db'[q].from = Sender(q) /\ db'[q].to = Receiver(q)
        /\ Sender(q) \in Account /\ Receiver(q) \in Account
    BY <2>1, OwnCommit
  <2>3. db[p].from = Sender(p) /\ db[p].to \in {Receiver(p), Null}
    BY EntryOfTransfer DEF ListingsInvariant, PartiesAreKept, KeepsItsParties
  <2>4. Share(p, q)
    BY <2>2, <2>3, RowAssumption DEF Share
  <2> QED
    BY <2>2, <2>4 DEF ListingsInvariant, StampsAreOrdered, IsLast
<1>2. SpecAll => [][A]_all
  BY <1>1, ListingsInvariance, PTL DEF SpecAll
<1> QED
  BY <1>2 DEF StampsFollowCommits
=============================================================================
