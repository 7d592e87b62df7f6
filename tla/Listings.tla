------------------------------ MODULE Listings ------------------------------
(***************************************************************************)
(* Transfers beside those who read the ledger, and with a clock: the time  *)
(* each ledger row is stamped with, the two endpoints that read the ledger *)
(* for customers (transaction_service.get and list_by_account), and the    *)
(* readiness probe.  Readers borrow connections from the same pools, read  *)
(* statement by statement from the snapshot their first SELECT takes, and  *)
(* are cut off like everybody else.                                        *)
(*                                                                         *)
(* The actions of Transfers are taken as they are; what this module adds   *)
(* to them is said in Beside and Serving.                                  *)
(***************************************************************************)
EXTENDS Transfers

CONSTANTS
    Scenario,  \* what the requests may ask for together
    Reader,    \* the requests that only read
    ReadCall,  \* what they may ask for
    ReaderOf,  \* the worker that serves a reader
    MaxTime,   \* bound: the last second of the clock
    None

EntryCall   == [kind : {"entry"}, actor : Customer \cup {Admin}, entry : Request]
HistoryCall == [kind : {"history"}, actor : Customer \cup {Admin}, account : Id]
ProbeCall   == [kind : {"probe"}]

ASSUME ReaderAssumption ==
    /\ Scenario \subseteq [Request -> Call]
    /\ ReadCall \subseteq EntryCall \cup HistoryCall \cup ProbeCall
    /\ ReaderOf \in [Reader -> Worker]
    /\ MaxTime \in Nat
    /\ None \notin Nat \cup [Row -> Balance \cup Entry \cup {NoRow}]

VARIABLES
    now,     \* the clock of the workers, in the seconds a DATETIME column keeps
    stamp,   \* the transaction_timestamp of each transfer
    reader   \* the readers

readers == <<now, stamp, reader>>
all == <<vars, readers>>

\* A reader: what it asks for, where it is, the snapshot it reads, the ledger row or
\* rows it has found, its answer; and what its client knew when it asked: the
\* transfers that had been answered "ok".  whole: its session has not been replaced.
NewReader(c) == [call |-> c, pc |-> "idle", view |-> None, found |-> NoRow, shown |-> {},
                 answer |-> "none", paid |-> {}, whole |-> TRUE]

Reading == {"first", "second", "third"}
Borrowed == {x \in Reader : reader[x].pc \in Reading \cup {"close"}}

\* The connections of worker w that are out.
Out(w) == Cardinality({q \in leased : WorkerOf[q] = w})
        + Cardinality({x \in Borrowed : ReaderOf[x] = w})

\* A request takes a connection only if the readers have left one.
Beside(r) == r \in leased' \ leased => Out(WorkerOf[r]) < PoolSize
-----------------------------------------------------------------------------
(* The clock and the requests of Transfers.                                *)

Tick ==
    /\ now < MaxTime
    /\ now' = now + 1
    /\ UNCHANGED <<vars, stamp, reader>>

\* (Mutant: the time is taken before the unit of work.)
StampOnArrival(r) ==
    /\ pc[r] = "connect" /\ call[r].kind = "transfer" /\ stamp[r] = None
    /\ stamp' = [stamp EXCEPT ![r] = now]
    /\ UNCHANGED <<vars, now, reader>>

\* utcnow(), when both rows are locked and changed.
Stamp(r) ==
    /\ pc[r] = "insert" /\ stamp[r] = None
    /\ stamp' = [stamp EXCEPT ![r] = now]
    /\ UNCHANGED <<vars, now, reader>>

Serving(r) ==
    /\ Serve(r) /\ Beside(r)
    /\ pc[r] = "insert" => stamp[r] # None
    /\ UNCHANGED readers

Suffering(r) ==
    /\ Reject(r) \/ Accept(r) \/ Fault(r)
    /\ pc[r] = "connect" => Out(WorkerOf[r]) < PoolSize
    /\ UNCHANGED readers
-----------------------------------------------------------------------------
(* The readers.                                                            *)

Step(x, next) == /\ reader' = [reader EXCEPT ![x] = next]
                 /\ UNCHANGED <<vars, now, stamp>>

\* The tables as the next SELECT of x finds them.
Tables(x) == IF reader[x].view = None THEN db ELSE reader[x].view

\* A statement of x that leads to step `to`, or to the end with answer `to`.
Select(x, from, to, found, shown) ==
    /\ reader[x].pc = from
    /\ Step(x, [reader[x] EXCEPT !.view = Tables(x), !.found = found, !.shown = shown,
                  !.pc = IF to \in Reading THEN to ELSE "close",
                  !.answer = IF to \in Reading THEN @ ELSE to])

AnsweredPaid == {q \in Request : call[q].kind = "transfer" /\ pc[q] = "done" /\ outcome[q] = "ok"}

Ask(x) ==
    /\ reader[x].pc = "idle"
    /\ Step(x, [reader[x] EXCEPT !.pc = "connect", !.paid = AnsweredPaid])

\* get_connection(); no transaction is begun.
Borrow(x) ==
    /\ reader[x].pc = "connect"
    /\ Out(ReaderOf[x]) < PoolSize
    /\ Step(x, [reader[x] EXCEPT !.pc = "first"])

\* Whether the account row a is there and is the actor's.
Owns(x, a) == Tables(x)[a] # NoRow /\ Owner[a] = reader[x].call.actor

\* transactions.get.
GetEntry(x) ==
    LET q == Tables(x)[reader[x].call.entry] IN
    /\ reader[x].call.kind = "entry"
    /\ Select(x, "first", IF q = NoRow THEN "NotFound"
                          ELSE IF reader[x].call.actor = Admin THEN "ok" ELSE "second", q, {})

\* (Mutant: only the sender of a transfer is looked up.)
NextPartySender(q) == "Forbidden"

\* The account that is looked up when the sender's is not the actor's.
NextParty(q) == IF q.to = Null THEN "Forbidden" ELSE "third"

\* _ensure_actor_sees_transaction: one account after the other.
GetSender(x) ==
    LET q == reader[x].found IN
    /\ reader[x].call.kind = "entry"
    /\ Select(x, "second", IF Owns(x, q.from) THEN "ok" ELSE NextParty(q), q, {})
GetReceiver(x) ==
    LET q == reader[x].found IN
    /\ reader[x].call.kind = "entry"
    /\ Select(x, "third", IF Owns(x, q.to) THEN "ok" ELSE "Forbidden", q, {})

\* list_by_account: the account, then its ledger rows.
GetAccount(x) ==
    LET a == RowOf[reader[x].call.account] IN
    /\ reader[x].call.kind = "history"
    /\ Select(x, "first", IF Tables(x)[a] = NoRow THEN "NotFound"
                          ELSE IF reader[x].call.actor = Admin \/ Owns(x, a) THEN "second"
                          ELSE "Forbidden", NoRow, {})
ListEntries(x) ==
    LET a == RowOf[reader[x].call.account] IN
    /\ reader[x].call.kind = "history"
    /\ Select(x, "second", "ok", NoRow, {q \in Request : Refers(Tables(x)[q], a)})

\* ping.
Ping(x) ==
    /\ reader[x].call.kind = "probe"
    /\ reader[x].pc = "first"
    /\ Step(x, [reader[x] EXCEPT !.pc = "close", !.answer = "ok"])

\* conn.close(), which ends the snapshot.
Return(x) ==
    /\ reader[x].pc = "close"
    /\ Step(x, [reader[x] EXCEPT !.pc = "done", !.view = None])

\* The session dies, and the pool puts another in its place: the next statement of
\* the block takes a new snapshot.  See Pool.
Replaced(x) ==
    /\ reader[x].pc \in Reading /\ reader[x].whole
    /\ Step(x, [reader[x] EXCEPT !.view = None, !.whole = FALSE])

\* The database cannot be reached: get_connection() or a statement raises.
ReadFails(x) ==
    /\ reader[x].pc \in Reading
    /\ Step(x, [reader[x] EXCEPT !.pc = "close", !.answer = "ConnectionLost"])

\* A worker dies, with the readers it serves.
Dies(w) ==
    /\ Crash(w)
    /\ reader' = [x \in Reader |->
                    IF ReaderOf[x] = w /\ reader[x].pc \notin {"idle", "done"}
                      THEN [reader[x] EXCEPT !.pc = "done", !.view = None, !.answer = "NoReply"]
                      ELSE reader[x]]
    /\ UNCHANGED <<now, stamp>>
-----------------------------------------------------------------------------
InitAll ==
    /\ Init
    /\ call \in Scenario
    /\ now = 0
    /\ stamp = [r \in Request |-> None]
    /\ \E c \in [Reader -> ReadCall] : reader = [x \in Reader |-> NewReader(c[x])]

\* What the thread that serves a reader does.
Read(x) ==
    \/ Borrow(x)
    \/ GetEntry(x) \/ GetSender(x) \/ GetReceiver(x)
    \/ GetAccount(x) \/ ListEntries(x)
    \/ Ping(x)
    \/ Return(x)

NextAll ==
    \/ Tick
    \/ \E r \in Request : Stamp(r) \/ Serving(r) \/ Suffering(r)
    \/ \E x \in Reader : Ask(x) \/ Read(x) \/ Replaced(x) \/ ReadFails(x)
    \/ \E w \in Worker : Dies(w)
    \/ Terminated /\ UNCHANGED readers

SpecAll == InitAll /\ [][NextAll]_all

\* As in Transfers, and the readers' threads are scheduled too.
FairSpecAll ==
    /\ SpecAll
    /\ \A r \in Request :
          WF_all(Stamp(r) \/ Serving(r) \/ (LockTimeout(r) /\ UNCHANGED readers))
    /\ \A x \in Reader : WF_all(Read(x))
-----------------------------------------------------------------------------
(* What is promised to those who read.                                     *)

\* A ledger row of an account is never stamped earlier than one that was committed
\* on that account before, though the time is taken before COMMIT: in a listing, which
\* is sorted by the stamps, a new row never stands below a row of an earlier second.
\* That is all: a stamp is a second, transactions.py:41 sorts by nothing else, and rows
\* of the same second may be listed in any order, a new one between two old ones.
StampsFollowCommits ==
    [][\A p, q \in Request :
          /\ db[p] # NoRow /\ db[q] = NoRow /\ db'[q] # NoRow
          /\ {db[p].from, db[p].to} \cap {db'[q].from, db'[q].to} # {}
          => stamp[p] <= stamp[q]]_all

\* Whoever has been told that a transfer went through finds it in the account's
\* listing (unless an administrator has erased it).
PaidIsListed ==
    \A x \in Reader :
       LET c == reader[x].call IN
       c.kind = "history" /\ reader[x].answer = "ok" /\ reader[x].whole =>
          \A q \in reader[x].paid :
             RowOf[c.account] \in {Sender(q), Receiver(q)} =>
                \/ q \in reader[x].shown
                \/ \E e \in Request : call[e].kind = "erase" /\ call[e].entry = q

\* A ledger row is shown to the customers who paid and received it, whatever is
\* closed meanwhile, and to no other.
PartiesSeeTheirEntry ==
    \A x \in Reader :
       LET c == reader[x].call
           q == reader[x].found
       IN  c.kind = "entry" =>
             /\ reader[x].answer = "ok" =>
                  c.actor \in {Admin, Owner[Sender(c.entry)], Owner[Receiver(c.entry)]}
             /\ reader[x].answer = "Forbidden" /\ reader[x].whole =>
                  c.actor # Owner[q.from] /\ (q.to # Null => c.actor # Owner[q.to])

\* Requests, readers and the probe are answered, even while the pool is exhausted by
\* requests that wait for locks of another worker's: every connection comes back.
EveryoneIsAnswered ==
    /\ EveryRequestAnswered
    /\ \A x \in Reader : reader[x].pc = "connect" ~> reader[x].pc = "done"
=============================================================================
