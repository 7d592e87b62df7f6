--------------------------- MODULE MigrateProofs ----------------------------
(***************************************************************************)
(* Whatever containers start, race and die: a recorded version is          *)
(* complete, and who serves, serves the whole schema.                      *)
(***************************************************************************)
EXTENDS Migrate, TLAPS

\* The tables, the records and the demo data only grow, so a runner keeps what
\* it has behind it while others run.
LEMMA OthersKeep ==
  ASSUME IInv, NEW q \in Runner, HasBehindIt(q),
         objects \subseteq objects', recorded \subseteq recorded', recorded' \subseteq Version,
         rows \subseteq rows',
         pc'[q] = pc[q], done'[q] = done[q], file'[q] = file[q], line'[q] = line[q]
  PROVE  HasBehindIt(q)'
  BY DEF IInv, TypeOK, HasBehindIt, Makes

\* Where the loop over the migrations goes on from v, when all before v are recorded.
LEMMA ProceedStep ==
  ASSUME IInv, NEW r \in Runner, NEW applied, NEW v \in Nat \ {0},
         Proceed(r, applied, v), applied \subseteq recorded',
         1..(v - 1) \subseteq recorded', recorded' \subseteq Version, done'[r] \subseteq recorded'
  PROVE  /\ pc' = [pc EXCEPT ![r] = pc'[r]] /\ pc'[r] \in {"statement", "seed", "serve"}
         /\ file' = [file EXCEPT ![r] = file'[r]]
         /\ line' = [line EXCEPT ![r] = 1]
         /\ file'[r] \in Version \cup {1}
         /\ pc'[r] = "statement" => file'[r] \in Version /\ 1 \in DOMAIN Script[file'[r]]
         /\ pc'[r] = "seed" => 1 \in DOMAIN Seeds
         /\ pc'[r] = "serve" => r \notin Seeding
         /\ HasBehindIt(r)'
<1>0. pc \in [Runner -> Steps] /\ file \in [Runner -> Version \cup {1}] /\ line \in [Runner -> Nat \ {0}]
  BY DEF IInv, TypeOK
<1>1. line' = [line EXCEPT ![r] = 1] /\ line'[r] = 1
  BY <1>0 DEF Proceed
<1>2. ASSUME NEW u \in Version, IsNext(u, Pending(applied, v)),
             Goto(r, "statement"), file' = [file EXCEPT ![r] = u]
      PROVE  /\ pc'[r] = "statement" /\ file'[r] = u
             /\ 1 \in DOMAIN Script[u] /\ 1..(u - 1) \subseteq recorded'
  <2>1. u >= v /\ \A w \in Version : w >= v /\ w \notin applied => u <= w
    BY <1>2 DEF IsNext, Pending
  <2>2. 1..(u - 1) \subseteq recorded'
    BY <2>1, ScriptAssumption DEF Version
  <2>3. 1 \in DOMAIN Script[u]
    BY ScriptAssumption
  <2> QED
    BY <1>0, <1>2, <2>2, <2>3 DEF Goto
<1>3. ASSUME Pending(applied, v) = {}
      PROVE  recorded' = Version
  <2>1. ASSUME NEW u \in Version PROVE u \in recorded'
    <3>1. CASE u >= v
      BY <1>3, <3>1 DEF Pending
    <3>2. CASE u < v
      BY <3>2, ScriptAssumption DEF Version
    <3> QED
      BY <3>1, <3>2, ScriptAssumption DEF Version
  <2> QED
    BY <2>1
<1>4. CASE \E u \in Version : /\ IsNext(u, Pending(applied, v))
                              /\ Goto(r, "statement")
                              /\ file' = [file EXCEPT ![r] = u]
  <2>1. PICK u \in Version : /\ IsNext(u, Pending(applied, v))
                             /\ Goto(r, "statement")
                             /\ file' = [file EXCEPT ![r] = u]
    BY <1>4
  <2>2. /\ pc'[r] = "statement" /\ file'[r] = u
        /\ 1 \in DOMAIN Script[u] /\ 1..(u - 1) \subseteq recorded'
    BY <1>2, <2>1
  <2>3. pc' = [pc EXCEPT ![r] = pc'[r]] /\ file' = [file EXCEPT ![r] = file'[r]]
    BY <2>1, <2>2 DEF Goto
  <2>4. 1..(line'[r] - 1) = {}
    BY <1>1
  <2>5. HasBehindIt(r)'
    BY <2>2, <2>4 DEF HasBehindIt
  <2> QED
    BY <1>1, <2>2, <2>3, <2>5
<1>5. CASE /\ Pending(applied, v) = {}
           /\ Goto(r, IF r \in Seeding THEN "seed" ELSE "serve")
           /\ UNCHANGED file
  <2>1. pc'[r] = IF r \in Seeding THEN "seed" ELSE "serve"
    BY <1>0, <1>5 DEF Goto
  <2>2. 1 \in DOMAIN Seeds
    BY SeedAssumption
  <2>3. pc' = [pc EXCEPT ![r] = pc'[r]] /\ file' = [file EXCEPT ![r] = file'[r]]
    BY <1>0, <1>5, <2>1 DEF Goto
  <2>4. 1..(line'[r] - 1) = {}
    BY <1>1
  <2>5. HasBehindIt(r)'
    BY <1>3, <1>5, <2>1, <2>4 DEF HasBehindIt
  <2> QED
    BY <1>0, <1>1, <1>5, <2>1, <2>2, <2>3, <2>5
<1> QED
  BY <1>4, <1>5 DEF Proceed
-----------------------------------------------------------------------------
\* Before the first start nothing is there.
LEMMA InitInv == Init => IInv
<1> SUFFICES ASSUME Init PROVE IInv
  OBVIOUS
<1>1. TypeOK
  BY DEF Init, TypeOK, Steps, Running
<1>2. \A r \in Runner : HasBehindIt(r)
  BY DEF Init, HasBehindIt
<1> QED
  BY <1>1, <1>2 DEF Init, IInv, RecordedIsComplete, RecordedInOrder

\* A step of one runner keeps the invariant when it keeps the types and the
\* records right and the runner has behind it what its next step needs.
LEMMA RunnerStep ==
  ASSUME IInv, NEW r \in Runner, TypeOK', RecordedIsComplete', RecordedInOrder',
         rows' \subseteq {Seeds[k] : k \in DOMAIN Seeds},
         objects \subseteq objects', recorded \subseteq recorded', rows \subseteq rows',
         \A q \in Runner \ {r} :
            pc'[q] = pc[q] /\ done'[q] = done[q] /\ file'[q] = file[q] /\ line'[q] = line[q],
         HasBehindIt(r)'
  PROVE  IInv'
<1>1. recorded' \subseteq Version
  BY DEF TypeOK
<1>2. ASSUME NEW q \in Runner \ {r} PROVE HasBehindIt(q)'
  BY <1>1, <1>2, OthersKeep DEF IInv
<1>3. \A q \in Runner : HasBehindIt(q)'
  BY <1>2
<1> QED
  BY <1>3 DEF IInv

\* Starting, stopping and dying change nothing but where a container stands.
LEMMA QuietStep ==
  ASSUME IInv, NEW r \in Runner, UNCHANGED <<objects, recorded, rows, done, file, line>>,
         NEW step \in {"off", "wait", "read", "failed", "dead"}, Goto(r, step)
  PROVE  IInv'
<1>1. TypeOK'
  BY DEF IInv, TypeOK, Goto, Steps, Running
<1>2. HasBehindIt(r)'
  BY DEF IInv, TypeOK, HasBehindIt, Goto
<1>3. RecordedIsComplete' /\ RecordedInOrder' /\ rows' \subseteq {Seeds[k] : k \in DOMAIN Seeds}
  BY DEF IInv, RecordedIsComplete, RecordedInOrder
<1>4. \A q \in Runner \ {r} : pc'[q] = pc[q]
  BY DEF IInv, TypeOK, Goto
<1> QED
  BY <1>1, <1>2, <1>3, <1>4, RunnerStep

\* _applied: everything recorded so far may be skipped.
LEMMA ReadAppliedInv == ASSUME IInv, NEW r \in Runner, ReadApplied(r) PROVE IInv'
<1>1. recorded \subseteq Version /\ done'[r] = recorded /\ 1..(1 - 1) \subseteq recorded'
  BY DEF IInv, TypeOK, ReadApplied
<1>2. Proceed(r, recorded, 1) /\ recorded' = recorded /\ objects' = objects /\ rows' = rows
  BY DEF ReadApplied
<1>3. /\ pc' = [pc EXCEPT ![r] = pc'[r]] /\ pc'[r] \in {"statement", "seed", "serve"}
      /\ file' = [file EXCEPT ![r] = file'[r]]
      /\ line' = [line EXCEPT ![r] = 1]
      /\ file'[r] \in Version \cup {1}
      /\ pc'[r] = "statement" => file'[r] \in Version /\ 1 \in DOMAIN Script[file'[r]]
      /\ pc'[r] = "seed" => 1 \in DOMAIN Seeds
      /\ HasBehindIt(r)'
  BY <1>1, <1>2, ProceedStep
<1>4. TypeOK'
  BY <1>1, <1>2, <1>3 DEF IInv, TypeOK, ReadApplied, Steps, Running
<1>5. RecordedIsComplete' /\ RecordedInOrder' /\ rows' \subseteq {Seeds[k] : k \in DOMAIN Seeds}
  BY <1>2 DEF IInv, RecordedIsComplete, RecordedInOrder
<1>6. \A q \in Runner \ {r} :
        pc'[q] = pc[q] /\ done'[q] = done[q] /\ file'[q] = file[q] /\ line'[q] = line[q]
  BY <1>3 DEF IInv, TypeOK, ReadApplied
<1> QED
  BY <1>2, <1>3, <1>4, <1>5, <1>6, RunnerStep

\* The statements of a file: a statement's object is there when the next one is executed.
LEMMA ExecuteInv == ASSUME IInv, NEW r \in Runner, Execute(r) PROVE IInv'
<1> DEFINE f == file[r]
           l == line[r]
<1>1. /\ f \in Version /\ l \in 1..Len(Script[f]) /\ Script[f] \in Seq(Object)
      /\ pc[r] = "statement"
  BY ScriptAssumption DEF IInv, TypeOK, Execute, HasBehindIt
<1>2. /\ objects' = objects \cup {Script[f][l]} /\ Script[f][l] \in Object
      /\ UNCHANGED <<recorded, rows, done, file>>
  BY <1>1 DEF Execute, Current
<1>3. RecordedIsComplete' /\ RecordedInOrder' /\ rows' \subseteq {Seeds[k] : k \in DOMAIN Seeds}
  BY <1>2 DEF IInv, RecordedIsComplete, RecordedInOrder
<1>4. CASE LastLine(r)
  <2>1. pc' = [pc EXCEPT ![r] = "record"] /\ line' = line /\ l = Len(Script[f])
    BY <1>4 DEF Execute, LastLine, Goto
  <2>2. TypeOK'
    BY <1>1, <1>2, <2>1 DEF IInv, TypeOK, Steps, Running
  <2>3. Makes(f) \subseteq objects'
    BY <1>1, <1>2, <2>1 DEF IInv, HasBehindIt, Makes
  <2>4. HasBehindIt(r)'
    BY <1>1, <1>2, <2>1, <2>3 DEF IInv, TypeOK, HasBehindIt
  <2>5. \A q \in Runner \ {r} :
          pc'[q] = pc[q] /\ done'[q] = done[q] /\ file'[q] = file[q] /\ line'[q] = line[q]
    BY <1>2, <2>1 DEF IInv, TypeOK
  <2> QED
    BY <1>2, <1>3, <2>2, <2>4, <2>5, RunnerStep
<1>5. CASE ~LastLine(r)
  <2>1. pc' = pc /\ line' = [line EXCEPT ![r] = l + 1] /\ l + 1 \in 1..Len(Script[f])
    BY <1>1, <1>5 DEF Execute, LastLine
  <2>2. TypeOK'
    BY <1>1, <1>2, <2>1 DEF IInv, TypeOK
  <2>3. HasBehindIt(r)'
    BY <1>1, <1>2, <2>1 DEF IInv, TypeOK, HasBehindIt
  <2>4. \A q \in Runner \ {r} :
          pc'[q] = pc[q] /\ done'[q] = done[q] /\ file'[q] = file[q] /\ line'[q] = line[q]
    BY <1>2, <2>1 DEF IInv, TypeOK
  <2> QED
    BY <1>2, <1>3, <2>2, <2>3, <2>4, RunnerStep
<1> QED
  BY <1>4, <1>5

\* INSERT INTO schema_migrations: the file is executed, the ones before it recorded.
LEMMA RecordInv == ASSUME IInv, NEW r \in Runner, Record(r) PROVE IInv'
<1> DEFINE f == file[r]
<1>1. CASE f \in recorded
  BY <1>1, QuietStep DEF Record, Fail
<1>2. CASE f \notin recorded
  <2>1. f \in Version /\ 1..(f - 1) \subseteq recorded /\ Makes(f) \subseteq objects
    BY DEF IInv, Record, HasBehindIt
  <2>2. /\ recorded' = recorded \cup {f} /\ Proceed(r, done[r], f + 1)
        /\ UNCHANGED <<objects, rows, done>>
    BY <1>2 DEF Record
  <2>3. f \in Nat \ {0} /\ 1..(f + 1 - 1) \subseteq recorded'
    BY <2>1, <2>2, ScriptAssumption DEF Version
  <2>4. recorded' \subseteq Version /\ done'[r] \subseteq recorded' /\ done[r] \subseteq recorded'
    BY <2>1, <2>2 DEF IInv, TypeOK, HasBehindIt
  <2>5. /\ pc' = [pc EXCEPT ![r] = pc'[r]] /\ pc'[r] \in {"statement", "seed", "serve"}
        /\ file' = [file EXCEPT ![r] = file'[r]]
        /\ line' = [line EXCEPT ![r] = 1]
        /\ file'[r] \in Version \cup {1}
        /\ pc'[r] = "statement" => file'[r] \in Version /\ 1 \in DOMAIN Script[file'[r]]
        /\ pc'[r] = "seed" => 1 \in DOMAIN Seeds
        /\ HasBehindIt(r)'
    BY <2>2, <2>3, <2>4, ProceedStep
  <2>6. TypeOK'
    BY <2>2, <2>4, <2>5 DEF IInv, TypeOK, Steps, Running
  <2>7. RecordedIsComplete'
    BY <2>1, <2>2 DEF IInv, RecordedIsComplete, Makes
  <2>8. RecordedInOrder'
    BY <2>2, <2>3 DEF IInv, RecordedInOrder
  <2>9. \A q \in Runner \ {r} :
          pc'[q] = pc[q] /\ done'[q] = done[q] /\ file'[q] = file[q] /\ line'[q] = line[q]
    BY <2>2, <2>5 DEF IInv, TypeOK
  <2> QED
    BY <2>2, <2>5, <2>6, <2>7, <2>8, <2>9, RunnerStep DEF IInv
<1> QED
  BY <1>1, <1>2

\* load_seeds: the batches a batch refers to were loaded before it.
LEMMA LoadInv == ASSUME IInv, NEW r \in Runner, Load(r) PROVE IInv'
<1> DEFINE l == line[r]
<1>1. l \in 1..Len(Seeds) /\ Seeds \in Seq(Batch) /\ pc[r] = "seed" /\ recorded = Version
  BY SeedAssumption DEF IInv, TypeOK, Load, HasBehindIt
<1>2. \A k \in 1..(l - 1) : Seeds[k] \in rows
  BY <1>1 DEF IInv, HasBehindIt
<1>3. Refers[Seeds[l]] \subseteq rows
  BY <1>1, <1>2, OrderAssumption, SeedAssumption
<1>4. rows' = rows \cup {Seeds[l]} /\ UNCHANGED <<objects, recorded, done, file>>
  BY <1>3 DEF Load
<1>5. RecordedIsComplete' /\ RecordedInOrder' /\ rows' \subseteq {Seeds[k] : k \in DOMAIN Seeds}
  BY <1>1, <1>4 DEF IInv, RecordedIsComplete, RecordedInOrder
<1>6. CASE l = Len(Seeds)
  <2>1. pc' = [pc EXCEPT ![r] = "serve"] /\ line' = line
    BY <1>6 DEF Load, Goto
  <2>2. TypeOK'
    BY <1>1, <1>4, <2>1 DEF IInv, TypeOK, Steps, Running
  <2>3. HasBehindIt(r)'
    BY <1>1, <1>2, <1>4, <1>6, <2>1 DEF IInv, TypeOK, HasBehindIt
  <2>4. \A q \in Runner \ {r} :
          pc'[q] = pc[q] /\ done'[q] = done[q] /\ file'[q] = file[q] /\ line'[q] = line[q]
    BY <1>4, <2>1 DEF IInv, TypeOK
  <2> QED
    BY <1>4, <1>5, <2>2, <2>3, <2>4, RunnerStep
<1>7. CASE l # Len(Seeds)
  <2>1. pc' = pc /\ line' = [line EXCEPT ![r] = l + 1] /\ l + 1 \in 1..Len(Seeds)
    BY <1>1, <1>7 DEF Load
  <2>2. TypeOK'
    BY <1>1, <1>4, <2>1 DEF IInv, TypeOK
  <2>3. HasBehindIt(r)'
    BY <1>1, <1>2, <1>4, <2>1 DEF IInv, TypeOK, HasBehindIt
  <2>4. \A q \in Runner \ {r} :
          pc'[q] = pc[q] /\ done'[q] = done[q] /\ file'[q] = file[q] /\ line'[q] = line[q]
    BY <1>4, <2>1 DEF IInv, TypeOK
  <2> QED
    BY <1>4, <1>5, <2>2, <2>3, <2>4, RunnerStep
<1> QED
  BY <1>6, <1>7

\* Every step of every container keeps the invariant.
LEMMA StepInv == IInv /\ [Next]_vars => IInv'
<1> SUFFICES ASSUME IInv, [Next]_vars PROVE IInv'
  OBVIOUS
<1>1. ASSUME NEW r \in Runner, Start(r) \/ Ready(r) \/ ExecuteFails(r) \/ Die(r) \/ Stop(r)
      PROVE  IInv'
  BY <1>1, QuietStep DEF Start, Ready, ExecuteFails, Fail, Die, Stop
<1>2. ASSUME NEW r \in Runner, ReadApplied(r) \/ Execute(r) \/ Record(r) \/ Load(r)
      PROVE  IInv'
  BY <1>2, ReadAppliedInv, ExecuteInv, RecordInv, LoadInv
<1>3. CASE UNCHANGED vars
  <2>1. TypeOK' /\ RecordedIsComplete' /\ RecordedInOrder'
    BY <1>3 DEF vars, IInv, TypeOK, RecordedIsComplete, RecordedInOrder
  <2>2. \A r \in Runner : HasBehindIt(r)'
    BY <1>3 DEF vars, IInv, HasBehindIt
  <2> QED
    BY <1>3, <2>1, <2>2 DEF vars, IInv
<1> QED
  BY <1>1, <1>2, <1>3 DEF Next, Run, Terminated
-----------------------------------------------------------------------------
\* The invariant holds whatever containers start, race and die.
THEOREM Invariance == Spec => []IInv
  BY InitInv, StepInv, PTL DEF Spec

\* The versions in schema_migrations are complete: a later runner may skip them.
THEOREM SkippingIsSafe == Spec => []RecordedIsComplete
<1>1. IInv => RecordedIsComplete
  BY DEF IInv
<1> QED
  BY <1>1, Invariance, PTL

\* They are a prefix of the migrations.
THEOREM NoneSkipped == Spec => []RecordedInOrder
<1>1. IInv => RecordedInOrder
  BY DEF IInv
<1> QED
  BY <1>1, Invariance, PTL

\* No container serves before the whole schema is there.
THEOREM WholeSchema == Spec => []ServesWholeSchema
<1>1. IInv => ServesWholeSchema
  BY DEF IInv, HasBehindIt, RecordedIsComplete, ServesWholeSchema
<1> QED
  BY <1>1, Invariance, PTL

\* A statement of a migration finds the tables it refers to.
THEOREM TablesFound == Spec => []FindsItsTables
<1>1. IInv => FindsItsTables
  <2> SUFFICES ASSUME IInv, NEW r \in Runner, pc[r] = "statement", NEW o \in Needs[Current(r)]
               PROVE  o \in objects
    BY DEF FindsItsTables
  <2>1. /\ file[r] \in Version /\ line[r] \in DOMAIN Script[file[r]]
        /\ 1..(file[r] - 1) \subseteq recorded
        /\ \A k \in 1..(line[r] - 1) : Script[file[r]][k] \in objects
    BY DEF IInv, TypeOK, HasBehindIt
  <2>2. CASE \E u \in 1..(file[r] - 1) : o \in Makes(u)
    BY <2>1, <2>2 DEF IInv, RecordedIsComplete
  <2>3. CASE \E j \in 1..(line[r] - 1) : o = Script[file[r]][j]
    BY <2>1, <2>3
  <2> QED
    BY <2>1, <2>2, <2>3, OrderAssumption DEF Current
<1> QED
  BY <1>1, Invariance, PTL

\* A container that loads the demo data serves all of it.
THEOREM WholeDemo == Spec => []ServesWholeDemo
<1>1. IInv => ServesWholeDemo
  BY RunnerAssumption DEF IInv, HasBehindIt, ServesWholeDemo
<1> QED
  BY <1>1, Invariance, PTL
=============================================================================
