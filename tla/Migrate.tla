------------------------------ MODULE Migrate -------------------------------
(***************************************************************************)
(* Containers of the service starting up (docker/entrypoint.sh): each one  *)
(* waits for the database, runs scripts/migrate.py over it, loads the demo *)
(* data if it is told to, and only then serves.  The runner's connection   *)
(* autocommits, so every statement of a migration takes effect by itself.  *)
(* Containers die anywhere, and several may start together.                *)
(***************************************************************************)
EXTENDS Integers, Sequences, FiniteSets

CONSTANTS
    Runner,       \* the starts of containers
    MaxRunning,   \* how many containers run at a time
    Seeding,      \* the starts with SEED_DEMO_DATA set
    Files,        \* how many migrations there are, ranked as sorted() ranks their paths
    Object,       \* the tables and indexes the statements create
    Script,       \* the object each statement of each migration creates
    IfNotExists,  \* the objects created by CREATE ... IF NOT EXISTS
    Needs,        \* the objects that must be there when an object is created
    Batch,        \* the rows one INSERT IGNORE of the demo data loads
    Seeds,        \* the batches in their order
    Refers        \* the batches each batch has foreign keys to

Version == 1..Files

\* The objects a migration creates.
Makes(v) == {Script[v][k] : k \in DOMAIN Script[v]}

ASSUME RunnerAssumption ==
    Seeding \subseteq Runner /\ MaxRunning \in Nat
ASSUME ScriptAssumption ==
    /\ Files \in Nat
    /\ Script \in [Version -> Seq(Object)]
    /\ \A v \in Version : Script[v] # <<>>
    /\ IfNotExists \subseteq Object
    /\ Needs \in [Object -> SUBSET Object]
ASSUME SeedAssumption ==
    Seeds \in Seq(Batch) /\ Seeds # <<>> /\ Refers \in [Batch -> SUBSET Batch]

\* Each statement, and each batch, comes after those it refers to.
ASSUME OrderAssumption ==
    /\ \A v \in Version : \A k \in DOMAIN Script[v] : \A o \in Needs[Script[v][k]] :
          \/ \E u \in 1..(v - 1) : o \in Makes(u)
          \/ \E j \in 1..(k - 1) : o = Script[v][j]
    /\ \A k \in DOMAIN Seeds : \A b \in Refers[Seeds[k]] :
          \E j \in 1..(k - 1) : b = Seeds[j]

VARIABLES
    objects,   \* the tables and indexes there are
    recorded,  \* the rows of schema_migrations
    rows,      \* the batches of demo data that are there
    pc,        \* the step each start is about to take
    done,      \* what each runner read from schema_migrations
    file,      \* the migration it applies
    line       \* the statement of the migration, or of the demo data, it executes

vars == <<objects, recorded, rows, pc, done, file, line>>

Running == {"wait", "read", "statement", "record", "seed", "serve"}
Steps == Running \cup {"off", "failed", "dead"}

Goto(r, step) == pc' = [pc EXCEPT ![r] = step]
-----------------------------------------------------------------------------
\* A container is started.
Start(r) ==
    /\ pc[r] = "off"
    /\ Cardinality({q \in Runner : pc[q] \in Running}) < MaxRunning
    /\ Goto(r, "wait")
    /\ UNCHANGED <<objects, recorded, rows, done, file, line>>

\* The database answers; ensure_database and _ensure_migrations_table create
\* what is not there.
Ready(r) ==
    /\ pc[r] = "wait"
    /\ Goto(r, "read")
    /\ UNCHANGED <<objects, recorded, rows, done, file, line>>

\* The migrations from v on that the runner has not found applied.
Pending(applied, v) == {u \in Version : u >= v /\ u \notin applied}

\* (Mutant: the migrations come in any order.)
IsNextUnsorted(u, pending) == u \in pending

\* They come in the order of their paths.
IsNext(u, pending) == u \in pending /\ \A w \in pending : u <= w

\* (Mutant: the demo data is not loaded.)
ProceedUnseeded(r, applied, v) ==
    /\ \/ \E u \in Version :
             /\ IsNext(u, Pending(applied, v))
             /\ Goto(r, "statement")
             /\ file' = [file EXCEPT ![r] = u]
       \/ Pending(applied, v) = {} /\ Goto(r, "serve") /\ UNCHANGED file
    /\ line' = [line EXCEPT ![r] = 1]

\* The head of the loop over the migrations, from v on; after it, the entrypoint goes on.
Proceed(r, applied, v) ==
    /\ \/ \E u \in Version :
             /\ IsNext(u, Pending(applied, v))
             /\ Goto(r, "statement")
             /\ file' = [file EXCEPT ![r] = u]
       \/ /\ Pending(applied, v) = {}
          /\ Goto(r, IF r \in Seeding THEN "seed" ELSE "serve")
          /\ UNCHANGED file
    /\ line' = [line EXCEPT ![r] = 1]

\* (Mutant: what was applied before is not looked at.)
ReadNothing(r) ==
    /\ pc[r] = "read"
    /\ done' = [done EXCEPT ![r] = {}]
    /\ Proceed(r, {}, 1)
    /\ UNCHANGED <<objects, recorded, rows>>

\* _applied.
ReadApplied(r) ==
    /\ pc[r] = "read"
    /\ done' = [done EXCEPT ![r] = recorded]
    /\ Proceed(r, recorded, 1)
    /\ UNCHANGED <<objects, recorded, rows>>

Current(r) == Script[file[r]][line[r]]

\* (Mutant: the last statement of a file is dropped.)
LastLineShort(r) == line[r] >= Len(Script[file[r]]) - 1

\* (Mutant: one statement too many.)
LastLineMissed(r) == line[r] > Len(Script[file[r]])

LastLine(r) == line[r] = Len(Script[file[r]])

\* cur.execute(stmt): the table it refers to is there, the object is not, or it says IF NOT EXISTS.
Execute(r) ==
    /\ pc[r] = "statement"
    /\ Needs[Current(r)] \subseteq objects
    /\ Current(r) \in IfNotExists \/ Current(r) \notin objects
    /\ objects' = objects \cup {Current(r)}
    /\ IF LastLine(r) THEN Goto(r, "record") /\ UNCHANGED line
       ELSE line' = [line EXCEPT ![r] = @ + 1] /\ UNCHANGED pc
    /\ UNCHANGED <<recorded, rows, done, file>>

\* (Mutant: the entrypoint goes on when the migrations have failed: no set -e.)
FailAndServe(r) == Goto(r, "serve")

\* The runner fails, and the entrypoint with it (set -e).
Fail(r) == Goto(r, "failed")

\* The statement fails.
ExecuteFails(r) ==
    /\ pc[r] = "statement"
    /\ \/ ~(Needs[Current(r)] \subseteq objects)
       \/ Current(r) \notin IfNotExists /\ Current(r) \in objects
    /\ Fail(r)
    /\ UNCHANGED <<objects, recorded, rows, done, file, line>>

\* INSERT INTO schema_migrations; the version is its primary key.
Record(r) ==
    /\ pc[r] = "record"
    /\ IF file[r] \in recorded
         THEN Fail(r) /\ UNCHANGED <<recorded, file, line>>
         ELSE /\ recorded' = recorded \cup {file[r]}
              /\ Proceed(r, done[r], file[r] + 1)
    /\ UNCHANGED <<objects, rows, done>>

\* load_seeds: INSERT IGNORE leaves out rows that are there, and rows whose
\* parents are not.
Load(r) ==
    LET b == Seeds[line[r]] IN
    /\ pc[r] = "seed"
    /\ rows' = IF Refers[b] \subseteq rows THEN rows \cup {b} ELSE rows
    /\ IF line[r] = Len(Seeds) THEN Goto(r, "serve") /\ UNCHANGED line
       ELSE line' = [line EXCEPT ![r] = @ + 1] /\ UNCHANGED pc
    /\ UNCHANGED <<objects, recorded, done, file>>

\* The database does not answer for two minutes, a connection breaks, the container is killed.
Die(r) ==
    /\ pc[r] \in Running \ {"serve"}
    /\ Goto(r, "dead")
    /\ UNCHANGED <<objects, recorded, rows, done, file, line>>

\* A container that serves is stopped; it may be started again.
Stop(r) ==
    /\ pc[r] = "serve"
    /\ Goto(r, "off")
    /\ UNCHANGED <<objects, recorded, rows, done, file, line>>

Terminated ==
    /\ \A r \in Runner : pc[r] \in {"failed", "dead"}
    /\ UNCHANGED vars
-----------------------------------------------------------------------------
Init ==
    /\ objects = {} /\ recorded = {} /\ rows = {}
    /\ pc = [r \in Runner |-> "off"]
    /\ done = [r \in Runner |-> {}]
    /\ file = [r \in Runner |-> 1]
    /\ line = [r \in Runner |-> 1]

Run(r) ==
    Ready(r) \/ ReadApplied(r) \/ Execute(r) \/ ExecuteFails(r) \/ Record(r) \/ Load(r)

Next == (\E r \in Runner : Start(r) \/ Run(r) \/ Die(r) \/ Stop(r)) \/ Terminated

Spec == Init /\ [][Next]_vars

\* A process that has been started goes on.
Fairness == \A r \in Runner : WF_vars(Run(r))

FairSpec == Spec /\ Fairness
-----------------------------------------------------------------------------
\* Every variable has its type, and a runner does not run past the end of a file.
TypeOK ==
    /\ objects \subseteq Object /\ recorded \subseteq Version /\ rows \subseteq Batch
    /\ pc \in [Runner -> Steps]
    /\ done \in [Runner -> SUBSET Version]
    /\ file \in [Runner -> Version \cup {1}]
    /\ line \in [Runner -> Nat \ {0}]
    /\ \A r \in Runner :
          /\ pc[r] \in {"statement", "record"} => line[r] \in DOMAIN Script[file[r]]
          /\ pc[r] = "seed" => line[r] \in DOMAIN Seeds

\* A version is in schema_migrations only when all its tables and indexes are
\* there, whoever died over it: a later runner may skip it.
RecordedIsComplete == \A v \in recorded : Makes(v) \subseteq objects

\* The versions in schema_migrations are a prefix of the migrations: none is
\* recorded before one it builds on, although runners race.
RecordedInOrder == \A v \in recorded : 1..v \subseteq recorded

\* No container serves on a schema that lacks a table or an index.
ServesWholeSchema ==
    \A r \in Runner : pc[r] = "serve" =>
       recorded = Version /\ \A v \in Version : Makes(v) \subseteq objects

\* A statement finds the tables it refers to, however many runners are at it
\* and however often they died.
FindsItsTables ==
    \A r \in Runner : pc[r] = "statement" => Needs[Current(r)] \subseteq objects

\* When a container with demo data serves, all of it is there.
ServesWholeDemo ==
    \A r \in Seeding : pc[r] = "serve" => rows = {Seeds[k] : k \in DOMAIN Seeds}

\* Unless one is killed, every start leads to a container that serves:
\* runners that race fail, but never all of them.
StartLeadsToService ==
    \A r \in Runner : pc[r] = "wait" ~> \E q \in Runner : pc[q] \in {"serve", "dead"}

\* "Re-running is safe and idempotent" (migrate.py:7-8): while containers run one
\* at a time, no runner fails over what an earlier one has left.
RerunIsSafe == \A r \in Runner : pc[r] # "failed"
-----------------------------------------------------------------------------
\* What a runner has behind it: the migrations before its own are recorded, the
\* statements before its own executed, the batches before its own loaded.
HasBehindIt(r) ==
    /\ done[r] \subseteq recorded
    /\ pc[r] \in {"statement", "record"} =>
         /\ file[r] \in Version
         /\ 1..(file[r] - 1) \subseteq recorded
         /\ \A k \in 1..(line[r] - 1) : Script[file[r]][k] \in objects
    /\ pc[r] = "record" => Makes(file[r]) \subseteq objects
    /\ pc[r] \in {"seed", "serve"} => recorded = Version
    /\ pc[r] = "seed" => \A k \in 1..(line[r] - 1) : Seeds[k] \in rows
    /\ pc[r] = "serve" /\ r \in Seeding => \A k \in DOMAIN Seeds : Seeds[k] \in rows

\* The inductive invariant of MigrateProofs.
IInv ==
    /\ TypeOK
    /\ RecordedIsComplete
    /\ RecordedInOrder
    /\ rows \subseteq {Seeds[k] : k \in DOMAIN Seeds}
    /\ \A r \in Runner : HasBehindIt(r)
=============================================================================
