-------------------------------- MODULE Pool --------------------------------
(***************************************************************************)
(* One gunicorn worker: its pool of connections (app/db/pool.py) and the   *)
(* blocks its threads run on them, each one a unit of work or a read_only  *)
(* block of two statements (app/db/uow.py) or a readiness probe            *)
(* (app/api/health.py), while the database is restarted and single         *)
(* sessions are cut.                                                       *)
(*                                                                         *)
(* The pool is a PooledDB of DBUtils over PyMySQL, not in the repository:  *)
(* it is modelled as _build_pool configures it.  It lends a connection to  *)
(* one block at a time, blocks while PoolSize are out, pings an idle       *)
(* connection before it lends it (ping=1), and rolls back a connection     *)
(* that is closed (reset).  A connection that finds its session dead opens *)
(* a new one and executes the statement again, unless begin() was called.  *)
(*                                                                         *)
(* The tables are the number of units of work committed so far.  The       *)
(* blocks' row locks are left to Transfers.                                *)
(***************************************************************************)
EXTENDS Integers, FiniteSets

CONSTANTS
    Block,      \* the blocks, each run once
    PoolSize,   \* DB_POOL_SIZE
    Mix,        \* what the blocks may be
    None

Kinds == {"work", "read", "probe"}

ASSUME PoolAssumption ==
    /\ PoolSize \in Nat \ {0}
    /\ Mix \subseteq [Block -> Kinds]
    /\ None \notin Nat

VARIABLES
    up, version,    \* the database server runs; the units of work it has committed
    serving,        \* the worker has started
    built,          \* how many pools the worker has created
    idle, session,  \* the connections in the pool, and all connections' sessions
    pc, kind, mine, \* where each block is, what it is, the connection it holds
    answer,         \* how it ended
    half,           \* the statements of a unit of work that are committed
    seen,           \* the versions of the tables a read_only block has read
    since,          \* the version of the tables when it began
    past            \* what has happened to the database, or to the block's session, since

vars == <<up, version, serving, built, idle, session, pc, kind, mine,
          answer, half, seen, since, past>>
database == <<up, version, serving>>
history  == <<half, seen, since, past>>

Conn == 1..PoolSize
Halves == {"first", "second"}
Steps == Halves \cup {"new", "build", "acquire", "waiting", "begin", "commit",
                      "rollback", "close", "done"}

\* tx: begin() was called; view: the version its snapshot shows; wrote: the
\* statements of the open transaction.
Session == [alive : BOOLEAN, tx : BOOLEAN, view : Nat \cup {None}, wrote : SUBSET Halves]
Blank(alive, tx) == [alive |-> alive, tx |-> tx, view |-> None, wrote |-> {}]
Fresh == Blank(TRUE, FALSE)
Broken(s) == Blank(FALSE, s.tx)

\* A new session, if the database can be reached.
Reopened == Blank(up, FALSE)

\* What ROLLBACK leaves.
Clean(s) == IF s.alive THEN Fresh ELSE Reopened

Lent == {mine[b] : b \in Block} \ {None}

\* (Mutant: the unit of work relies on autocommit=False to open the transaction.)
FirstStepNoBegin == [work |-> "first", read |-> "first", probe |-> "second"]

\* (Mutant: the probe only borrows a connection.)
FirstStepNoQuery == [work |-> "begin", read |-> "first", probe |-> "close"]

\* The step after get_connection(): a unit of work begins, a probe has one statement.
FirstStep == [work |-> "begin", read |-> "first", probe |-> "second"]

\* Whether the database was up matters to the probe only, and so do cut sessions
\* to the others, see Cut.
Watched(b) == IF kind[b] = "probe" THEN {"up", "broke"} ELSE {"broke"}
Happens(event, B) ==
    past' = [b \in Block |-> IF b \in B THEN past[b] \cup ({event} \cap Watched(b)) ELSE past[b]]

Goto(b, step) == pc' = [pc EXCEPT ![b] = step]

\* (Mutant: a read_only block closes its connection only when nothing is raised.)
RaiseWithoutClose(b) ==
    /\ answer' = [answer EXCEPT ![b] = "error"]
    /\ Goto(b, IF kind[b] = "work" THEN "rollback" ELSE "done")

\* An exception in the block.
Raise(b) ==
    /\ answer' = [answer EXCEPT ![b] = "error"]
    /\ Goto(b, IF kind[b] = "work" THEN "rollback" ELSE "close")
-----------------------------------------------------------------------------
(* The creation of the pool.                                               *)

\* create_app: init_pool, which connects (mincached=1), or the worker does not start.
Boot ==
    /\ ~serving /\ up
    /\ serving' = TRUE
    /\ built' = 1
    /\ idle' = {1}
    /\ session' = [session EXCEPT ![1] = Fresh]
    /\ UNCHANGED <<up, version, pc, kind, mine, answer, history>>

\* A thread gets to a block.  get_pool: the first look, without the lock.
GetPool(b) ==
    /\ pc[b] = "new"
    /\ serving
    /\ Goto(b, IF built > 0 THEN "acquire" ELSE "build")
    /\ since' = [since EXCEPT ![b] = IF kind[b] = "read" THEN version ELSE 0]
    /\ past' = [past EXCEPT ![b] = IF ~up THEN {"broke"} ELSE Watched(b) \cap {"up"}]
    /\ UNCHANGED <<database, built, idle, session, kind, mine, answer, half, seen>>

\* _build_pool, under the lock.
Build(b) ==
    IF up
      THEN /\ built' = built + 1
           /\ idle' = {1}
           /\ session' = [session EXCEPT ![1] = Fresh]
           /\ Goto(b, "acquire")
           /\ UNCHANGED answer
      ELSE /\ Goto(b, "done")
           /\ answer' = [answer EXCEPT ![b] = "error"]
           /\ UNCHANGED <<built, idle, session>>

\* (Mutant: no second look.)
BuildPoolUnchecked(b) ==
    /\ pc[b] = "build"
    /\ Build(b)
    /\ UNCHANGED <<database, kind, mine, history>>

\* get_pool: the second look.
BuildPool(b) ==
    /\ pc[b] = "build"
    /\ IF built > 0
         THEN Goto(b, "acquire") /\ UNCHANGED <<built, idle, session, answer>>
         ELSE Build(b)
    /\ UNCHANGED <<database, kind, mine, history>>
-----------------------------------------------------------------------------
(* The block.                                                              *)

Lend(b, c, s) ==
    /\ mine' = [mine EXCEPT ![b] = c]
    /\ idle' = idle \ {c}
    /\ session' = [session EXCEPT ![c] = s]
    /\ Goto(b, FirstStep[kind[b]])
    /\ UNCHANGED answer

\* (Mutant: ping=0.)
LendUnchecked(b, c) == Lend(b, c, session[c])

\* An idle connection is lent; one whose session is dead is reopened, if possible.
LendIdle(b, c) == Lend(b, c, IF session[c].alive THEN session[c] ELSE Reopened)

\* get_connection(), under the lock of the pool.
Acquire(b) ==
    /\ pc[b] = "acquire"
    /\ \/ /\ Cardinality(Lent) >= PoolSize
          /\ Goto(b, "waiting")
          /\ UNCHANGED <<idle, session, mine, answer>>
       \/ /\ Cardinality(Lent) < PoolSize
          /\ \E c \in idle : LendIdle(b, c)
       \/ /\ Cardinality(Lent) < PoolSize /\ idle = {} /\ up
          /\ \E c \in Conn \ Lent : Lend(b, c, Fresh)
       \/ /\ Cardinality(Lent) < PoolSize /\ idle = {} /\ ~up
          /\ Goto(b, "done")
          /\ answer' = [answer EXCEPT ![b] = "error"]
          /\ UNCHANGED <<idle, session, mine>>
    /\ UNCHANGED <<database, built, kind, history>>

\* conn.begin().
Begin(b) ==
    LET s == session[mine[b]] IN
    /\ pc[b] = "begin"
    /\ session' = [session EXCEPT ![mine[b]].tx = TRUE]
    /\ IF s.alive THEN Goto(b, "first") /\ UNCHANGED answer ELSE Raise(b)
    /\ UNCHANGED <<database, built, idle, kind, mine, history>>

\* (Mutant: autocommit=True, every SELECT reads a snapshot of its own.)
AfterInAutocommit(b, s) ==
    CASE kind[b] = "work"  -> [s EXCEPT !.wrote = @ \cup {pc[b]}]
      [] OTHER             -> s

\* What the next statement makes of session s.  SELECT 1 reads no table.
Shown(s) == IF s.view = None THEN version ELSE s.view
After(b, s) ==
    CASE kind[b] = "work"  -> [s EXCEPT !.wrote = @ \cup {pc[b]}]
      [] kind[b] = "read"  -> [s EXCEPT !.view = Shown(s)]
      [] kind[b] = "probe" -> s

\* The statement is executed in session s.
Executes(b, s) ==
    /\ session' = [session EXCEPT ![mine[b]] = After(b, s)]
    /\ seen' = [seen EXCEPT ![b] = IF kind[b] = "read" THEN @ \cup {Shown(s)} ELSE @]
    /\ Goto(b, IF pc[b] = "first" THEN "second"
               ELSE IF kind[b] = "work" THEN "commit" ELSE "close")
    /\ UNCHANGED answer

\* cur.execute(...): in a dead session it is executed again in a new one, unless
\* a transaction was begun or there is none to be had; then it raises.
Execute(b) ==
    LET s == session[mine[b]] IN
    /\ pc[b] \in Halves
    /\ \/ s.alive /\ Executes(b, s)
       \/ ~s.alive /\ ~s.tx /\ up /\ Executes(b, Fresh)
       \/ /\ ~s.alive /\ (s.tx \/ ~up)
          /\ session' = [session EXCEPT ![mine[b]] = Reopened]
          /\ Raise(b)
          /\ UNCHANGED seen
    /\ UNCHANGED <<database, built, idle, kind, mine, half, since, past>>

\* The server commits what the session of b has written.
Committed(b) ==
    /\ version' = version + 1
    /\ half' = [half EXCEPT ![b] = session[mine[b]].wrote]

\* conn.commit().
Commit(b) ==
    LET s == session[mine[b]] IN
    /\ pc[b] = "commit"
    /\ session' = [session EXCEPT ![mine[b]] = Clean(s)]
    /\ IF s.alive
         THEN Committed(b) /\ Goto(b, "close") /\ UNCHANGED answer
         ELSE Raise(b) /\ UNCHANGED <<version, half>>
    /\ UNCHANGED <<up, serving, built, idle, kind, mine, seen, since, past>>

\* conn.rollback().  In a dead session it raises another error, to the same end.
Rollback(b) ==
    /\ pc[b] = "rollback"
    /\ session' = [session EXCEPT ![mine[b]] = Clean(@)]
    /\ Goto(b, "close")
    /\ UNCHANGED <<database, built, idle, kind, mine, answer, history>>

\* The connection goes back, and a thread that waits for one is notified.
Return(b, s) ==
    /\ pc[b] = "close"
    /\ idle' = idle \cup {mine[b]}
    /\ session' = [session EXCEPT ![mine[b]] = s]
    /\ mine' = [mine EXCEPT ![b] = None]
    /\ answer' = [answer EXCEPT ![b] = IF @ = "none" THEN "ok" ELSE @]
    /\ \/ /\ \A w \in Block : pc[w] # "waiting"
          /\ Goto(b, "done")
       \/ \E w \in Block :
             /\ pc[w] = "waiting"
             /\ pc' = [pc EXCEPT ![b] = "done", ![w] = "acquire"]
    /\ UNCHANGED <<database, built, kind, history>>

\* (Mutant: reset=False.)
CloseWithoutReset(b) == Return(b, session[mine[b]])

\* conn.close(): the pool rolls the connection back before it takes it.
Close(b) == Return(b, Clean(session[mine[b]]))
-----------------------------------------------------------------------------
(* What breaks.                                                            *)

Running(b) == pc[b] \notin {"new", "done"}

\* The database stops; every session is gone.
Down ==
    /\ up
    /\ up' = FALSE
    /\ session' = [c \in Conn |-> Broken(session[c])]
    /\ Happens("broke", {b \in Block : Running(b)})
    /\ UNCHANGED <<version, serving, built, idle, pc, kind, mine, answer, half, seen, since>>

Up ==
    /\ ~up
    /\ up' = TRUE
    /\ Happens("up", {b \in Block : Running(b)})
    /\ UNCHANGED <<version, serving, built, idle, session, pc, kind, mine, answer, half, seen, since>>

\* One session ends: the network, wait_timeout, KILL.
Cut(c) ==
    /\ session[c].alive
    /\ session' = [session EXCEPT ![c] = Broken(@)]
    /\ Happens("broke", {b \in Block : mine[b] = c /\ kind[b] # "probe"})
    /\ UNCHANGED <<up, version, serving, built, idle, pc, kind, mine, answer, half, seen, since>>

\* The server commits, and the session ends before the block hears of it.
CommitUnheard(b) ==
    /\ pc[b] = "commit" /\ session[mine[b]].alive
    /\ session' = [session EXCEPT ![mine[b]] = Reopened]
    /\ Committed(b)
    /\ Raise(b)
    /\ Happens("broke", {b})
    /\ UNCHANGED <<up, serving, built, idle, kind, mine, seen, since>>
-----------------------------------------------------------------------------
Init ==
    /\ up \in BOOLEAN
    /\ serving \in BOOLEAN  \* TRUE: TESTING, the pool is created by whoever needs it first
    /\ version = 0 /\ built = 0 /\ idle = {}
    /\ session = [c \in Conn |-> Broken(Fresh)]
    /\ kind \in Mix
    /\ pc = [b \in Block |-> "new"]
    /\ mine = [b \in Block |-> None]
    /\ answer = [b \in Block |-> "none"]
    /\ half = [b \in Block |-> {}]
    /\ seen = [b \in Block |-> {}]
    /\ since = [b \in Block |-> 0]
    /\ past = [b \in Block |-> {}]

\* What the thread that runs block b does.
Run(b) ==
    \/ BuildPool(b) \/ Acquire(b)
    \/ Begin(b) \/ Execute(b) \/ Commit(b) \/ Rollback(b) \/ Close(b)

Next ==
    \/ Boot
    \/ \E b \in Block : GetPool(b) \/ Run(b) \/ CommitUnheard(b)
    \/ Down \/ Up \/ \E c \in Conn : Cut(c)

Spec == Init /\ [][Next]_vars

\* Threads are scheduled, and whoever waits for the pool is woken by whoever
\* gives a connection back.  The database need not come back.
FairSpec == Spec /\ \A b \in Block : WF_vars(Run(b))
-----------------------------------------------------------------------------
(* What the blocks rely on.                                                *)

Ended(b, k) == pc[b] = "done" /\ kind[b] = k

\* A unit of work is committed as a whole or not at all (uow.py:3-6), though the
\* pool replaces dead sessions behind its back; and it is committed when it says so.
NothingHalfDone ==
    \A b \in Block :
       /\ half[b] \in {{}, Halves}
       /\ Ended(b, "work") /\ answer[b] = "ok" => half[b] = Halves

\* A read_only block sees everything that was committed when it began, although
\* its connection has a past.
ReadsAreFresh == \A b \in Block : \A v \in seen[b] : v >= since[b]

\* The statements of a read_only block see one state of the tables, as long as
\* its session lives.
OneSnapshotPerBlock ==
    \A b \in Block : \A v, w \in seen[b] : v = w \/ "broke" \in past[b]

\* The readiness probe says "reachable" only if the database was up while it ran,
\* and "unreachable" only if it was down.
ProbeIsTrue ==
    \A b \in Block : Ended(b, "probe") =>
       /\ answer[b] = "ok" => "up" \in past[b]
       /\ answer[b] = "error" => "broke" \in past[b]

\* Once the database is back, no request pays for the sessions that died before it
\* came: a block fails only if something broke while it ran.
HealsAfterRestart ==
    \A b \in Block : answer[b] = "error" => "broke" \in past[b]

\* Threads that meet an absent pool at once create one, not two.
OnePool == built <= 1

\* Every block ends, whatever breaks: no connection is lost to the pool, and no
\* thread that waits for one is forgotten.  So a readiness probe is answered.
EveryBlockEnds == \A b \in Block : pc[b] # "new" ~> pc[b] = "done"
-----------------------------------------------------------------------------
(* The inductive invariant of PoolProofs.                                  *)

TypeOK ==
    /\ up \in BOOLEAN /\ serving \in BOOLEAN
    /\ version \in Nat /\ built \in Nat
    /\ idle \subseteq Conn
    /\ session \in [Conn -> Session]
    /\ pc \in [Block -> Steps]
    /\ kind \in [Block -> Kinds]
    /\ mine \in [Block -> Conn \cup {None}]
    /\ answer \in [Block -> {"none", "ok", "error"}]
    /\ half \in [Block -> SUBSET Halves]
    /\ seen \in [Block -> SUBSET Nat]
    /\ since \in [Block -> Nat]
    /\ past \in [Block -> SUBSET {"up", "broke"}]

\* The pool is created once.  A connection is idle or lent, to one block; an idle
\* one has nothing left on it; a live session has a server.
PoolIsSound ==
    /\ built <= 1
    /\ ~serving => built = 0 /\ \A b \in Block : pc[b] = "new"
    /\ built = 0 => \A b \in Block : mine[b] = None /\ pc[b] \in {"new", "build", "done"}
    /\ \A c \in idle : session[c] \in {Fresh, Broken(Fresh)}
    /\ \A c \in Conn : session[c].alive => up
    /\ \A b \in Block : mine[b] \notin idle
    /\ \A b, d \in Block : b # d /\ mine[b] # None => mine[b] # mine[d]

\* A block holds a connection from get_connection() to close(), takes the steps of
\* its kind, and has an answer at the end.
StepsFit(b) ==
    /\ (mine[b] # None) = (pc[b] \in {"begin", "first", "second", "commit", "rollback", "close"})
    /\ pc[b] \in {"begin", "commit", "rollback"} => kind[b] = "work"
    /\ pc[b] = "first" => kind[b] # "probe"
    /\ pc[b] \notin {"rollback", "close", "done"} => answer[b] = "none"
    /\ pc[b] = "rollback" => answer[b] = "error"
    /\ pc[b] = "close" => answer[b] # "ok"

\* What a unit of work has written is in its open transaction, or lost with it.
WorkIsWhole(b) ==
    /\ half[b] \in {{}, Halves}
    /\ pc[b] \notin {"rollback", "close", "done"} => half[b] = {}
    /\ kind[b] = "work" =>
         /\ pc[b] = "close" /\ answer[b] = "none" => half[b] = Halves
         /\ pc[b] = "done" /\ answer[b] = "ok" => half[b] = Halves
         /\ pc[b] = "begin" => session[mine[b]].wrote = {}
         /\ pc[b] \in {"first", "second", "commit"} =>
              /\ session[mine[b]].tx
              /\ session[mine[b]].alive =>
                   session[mine[b]].wrote = CASE pc[b] = "first" -> {}
                                              [] pc[b] = "second" -> {"first"}
                                              [] pc[b] = "commit" -> Halves

\* The snapshot of a read is no older than the read, and what it has seen.
ReadIsFresh(b) ==
    /\ since[b] <= version
    /\ \A v \in seen[b] : v >= since[b]
    /\ \A v, w \in seen[b] : v = w \/ "broke" \in past[b]
    /\ pc[b] \notin {"second", "close", "done"} => seen[b] = {}
    /\ kind[b] # "read" => seen[b] = {}
    /\ kind[b] = "read" /\ pc[b] \in {"first", "second"} =>
         /\ session[mine[b]].view # None => session[mine[b]].view >= since[b]
         /\ pc[b] = "second" => seen[b] = {session[mine[b]].view} \/ "broke" \in past[b]

\* What happens to a block is known of it.
FaultsAreNoted(b) ==
    /\ Running(b) /\ ~up => "broke" \in past[b]
    /\ Running(b) /\ up /\ kind[b] = "probe" => "up" \in past[b]
    /\ kind[b] = "probe" /\ pc[b] = "second" => ~session[mine[b]].tx
    /\ mine[b] # None /\ kind[b] # "probe" /\ ~session[mine[b]].alive => "broke" \in past[b]
    /\ answer[b] = "error" => "broke" \in past[b]
    /\ kind[b] = "probe" /\ pc[b] = "close" /\ answer[b] = "none" => "up" \in past[b]
    /\ kind[b] = "probe" /\ pc[b] = "done" /\ answer[b] = "ok" => "up" \in past[b]

BlockIsSound(b) == StepsFit(b) /\ WorkIsWhole(b) /\ ReadIsFresh(b) /\ FaultsAreNoted(b)

IInv == TypeOK /\ PoolIsSound /\ \A b \in Block : BlockIsSound(b)
=============================================================================
