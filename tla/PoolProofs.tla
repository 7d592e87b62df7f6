----------------------------- MODULE PoolProofs -----------------------------
(***************************************************************************)
(* Whatever breaks, for any blocks and any size of the pool: units of work *)
(* are whole, reads are fresh, the probe is true, dead sessions are healed *)
(* and one pool is created.                                                *)
(***************************************************************************)
EXTENDS Pool, TLAPS

\* The sessions the pool makes.
LEMMA CleanSessions ==
  ASSUME TypeOK
  PROVE  /\ Fresh \in Session /\ Broken(Fresh) \in Session
         /\ Reopened \in {Fresh, Broken(Fresh)} /\ Reopened.alive = up
         /\ Fresh.alive /\ ~Broken(Fresh).alive
         /\ \A s \in {Fresh, Broken(Fresh)} : s.view = None /\ s.wrote = {} /\ ~s.tx
         /\ \A s \in Session :
              /\ Broken(s) \in Session /\ ~Broken(s).alive /\ Broken(s).tx = s.tx
              /\ Broken(s).view = None /\ Broken(s).wrote = {}
              /\ Clean(s) \in {Fresh, Broken(Fresh)}
              /\ (s.alive => up) => (Clean(s).alive = up)
<1>0. up \in BOOLEAN
  BY DEF TypeOK
<1>1. Fresh = [alive |-> TRUE, tx |-> FALSE, view |-> None, wrote |-> {}]
  BY DEF Fresh, Blank
<1>2. \A s : Broken(s) = [alive |-> FALSE, tx |-> s.tx, view |-> None, wrote |-> {}]
  BY DEF Broken, Blank
<1>3. Reopened = [alive |-> up, tx |-> FALSE, view |-> None, wrote |-> {}]
  BY DEF Reopened, Blank
<1>6. Reopened \in {Fresh, Broken(Fresh)}
  BY <1>0, <1>1, <1>2, <1>3
<1>4. ASSUME NEW s \in Session
      PROVE  /\ Broken(s) \in Session /\ ~Broken(s).alive /\ Broken(s).tx = s.tx
             /\ Broken(s).view = None /\ Broken(s).wrote = {}
             /\ Clean(s) \in {Fresh, Broken(Fresh)}
             /\ (s.alive => up) => (Clean(s).alive = up)
  <2>1. Broken(s) = [alive |-> FALSE, tx |-> s.tx, view |-> None, wrote |-> {}]
    BY <1>2
  <2>2. Clean(s) = IF s.alive THEN Fresh ELSE Reopened
    BY DEF Clean
  <2>3. Clean(s) \in {Fresh, Broken(Fresh)}
    BY <1>6, <2>2
  <2>4. (s.alive => up) => (Clean(s).alive = up)
    <3>1. CASE s.alive
      <4>1. Clean(s).alive = TRUE
        BY <1>1, <2>2, <3>1
      <4> QED
        BY <1>0, <3>1, <4>1
    <3>2. CASE ~s.alive
      BY <1>3, <2>2, <3>2
    <3> QED
      BY <3>1, <3>2
  <2> QED
    BY <2>1, <2>3, <2>4 DEF Session
<1>5. Fresh \in Session /\ Broken(Fresh) \in Session
  BY <1>1, <1>2 DEF Session
<1>7. Fresh.alive /\ ~Broken(Fresh).alive /\ Reopened.alive = up
  BY <1>1, <1>2, <1>3
<1>8. \A s \in {Fresh, Broken(Fresh)} : s.view = None /\ s.wrote = {} /\ ~s.tx
  BY <1>1, <1>2
<1> QED
  BY <1>4, <1>5, <1>6, <1>7, <1>8

LEMMA BrokenIdle == \A s \in {Fresh, Broken(Fresh)} : Broken(s) = Broken(Fresh)
<1>1. Fresh.tx = FALSE /\ Broken(Fresh).tx = FALSE
  BY DEF Fresh, Broken, Blank
<1> QED
  BY <1>1 DEF Broken

\* A block that does nothing stays sound while others do.
LEMMA OthersStay ==
  ASSUME IInv, NEW d \in Block,
         pc'[d] = pc[d], kind' = kind, mine'[d] = mine[d], answer'[d] = answer[d],
         half'[d] = half[d], seen'[d] = seen[d], since'[d] = since[d], past'[d] = past[d],
         up' = up, version' \in Nat, version' >= version,
         mine[d] # None => session'[mine[d]] = session[mine[d]]
  PROVE  BlockIsSound(d)'
<1>0. BlockIsSound(d) /\ version \in Nat /\ since[d] \in Nat
  BY DEF IInv, TypeOK
<1>1. StepsFit(d)'
  BY <1>0 DEF BlockIsSound, StepsFit
<1>2. WorkIsWhole(d)'
  BY <1>0 DEF BlockIsSound, WorkIsWhole, StepsFit
<1>3. ReadIsFresh(d)'
  BY <1>0 DEF BlockIsSound, ReadIsFresh, StepsFit
<1>4. FaultsAreNoted(d)'
  BY <1>0 DEF BlockIsSound, StepsFit, FaultsAreNoted, Running
<1> QED
  BY <1>1, <1>2, <1>3, <1>4 DEF BlockIsSound

LEMMA InitStep == Init => IInv
<1> SUFFICES ASSUME Init PROVE IInv
  OBVIOUS
<1>0. Broken(Fresh) = [alive |-> FALSE, tx |-> FALSE, view |-> None, wrote |-> {}]
  BY DEF Broken, Fresh, Blank
<1>4. \A c \in Conn : session[c].alive = FALSE
  BY <1>0 DEF Init
<1>1. TypeOK
  BY <1>0, PoolAssumption DEF Init, TypeOK, Session, Steps, Halves
<1>2. PoolIsSound
  BY <1>4 DEF Init, PoolIsSound
<1>3. ASSUME NEW b \in Block PROVE BlockIsSound(b)
  BY <1>1 DEF Init, BlockIsSound, StepsFit, WorkIsWhole, ReadIsFresh, FaultsAreNoted, Running, TypeOK
<1> QED
  BY <1>1, <1>2, <1>3 DEF IInv

LEMMA BootStep == IInv /\ Boot => IInv'
<1> SUFFICES ASSUME IInv, Boot PROVE IInv'
  OBVIOUS
<1>0. /\ up /\ serving' = TRUE /\ built' = 1 /\ idle' = {1} /\ session' = [session EXCEPT ![1] = Fresh]
      /\ UNCHANGED <<up, version, pc, kind, mine, answer, half, seen, since, past>>
      /\ 1 \in Conn /\ Fresh \in Session
  BY CleanSessions, PoolAssumption DEF Boot, history, IInv, Conn
<1>1. TypeOK'
  BY <1>0 DEF IInv, TypeOK
<1>2. \A b \in Block : pc[b] = "new" /\ mine[b] = None
  BY DEF Boot, IInv, PoolIsSound, BlockIsSound, StepsFit
<1>3. PoolIsSound'
  <2>1. \A c \in idle' : session'[c] = Fresh
    BY <1>0 DEF IInv, TypeOK
  <2> QED
    BY <1>0, <1>2, <2>1, PoolAssumption DEF IInv, PoolIsSound, TypeOK, Conn
<1>4. ASSUME NEW b \in Block PROVE BlockIsSound(b)'
  BY <1>0, <1>2, OthersStay DEF IInv, TypeOK
<1> QED
  BY <1>1, <1>3, <1>4 DEF IInv

\* The other blocks, when one changes no connection but its own and none of an idle one.
LEMMA OneBlock ==
  ASSUME IInv, NEW b \in Block,
         \A d \in Block \ {b} :
            /\ pc'[d] = pc[d] /\ mine'[d] = mine[d] /\ answer'[d] = answer[d]
            /\ half'[d] = half[d] /\ seen'[d] = seen[d]
            /\ since'[d] = since[d] /\ past'[d] = past[d]
            /\ mine[d] # None => session'[mine[d]] = session[mine[d]],
         kind' = kind, up' = up, version' \in Nat, version' >= version,
         BlockIsSound(b)'
  PROVE  \A d \in Block : BlockIsSound(d)'
<1>1. ASSUME NEW d \in Block \ {b} PROVE BlockIsSound(d)'
  BY OthersStay
<1> QED
  BY <1>1

LEMMA GetPoolStep == ASSUME IInv, NEW b \in Block, GetPool(b) PROVE IInv'
<1>0. /\ pc[b] = "new" /\ serving
      /\ pc' = [pc EXCEPT ![b] = IF built > 0 THEN "acquire" ELSE "build"]
      /\ since' = [since EXCEPT ![b] = IF kind[b] = "read" THEN version ELSE 0]
      /\ past' = [past EXCEPT ![b] = IF ~up THEN {"broke"} ELSE Watched(b) \cap {"up"}]
      /\ UNCHANGED <<up, version, serving, built, idle, session, kind, mine, answer, half, seen>>
  BY DEF GetPool, Goto, database
<1>1. TypeOK'
  BY <1>0 DEF IInv, TypeOK, Steps
<1>2. PoolIsSound'
  <2>1. built = 0 => pc' = [pc EXCEPT ![b] = "build"]
    BY <1>0
  <2>2. built = 0 => \A d \in Block : pc'[d] \in {"new", "build", "done"}
    BY <2>1 DEF IInv, TypeOK, PoolIsSound
  <2> QED
    BY <1>0, <2>2 DEF IInv, PoolIsSound
<1>3. /\ pc'[b] \in {"acquire", "build"}
      /\ since'[b] \in {0, version}
      /\ past'[b] = IF ~up THEN {"broke"} ELSE Watched(b) \cap {"up"}
  BY <1>0 DEF IInv, TypeOK
<1>4. BlockIsSound(b)
  BY DEF IInv
<1>5. mine[b] = None /\ seen[b] = {} /\ half[b] = {} /\ answer[b] = "none"
  BY <1>0, <1>4 DEF BlockIsSound, StepsFit, WorkIsWhole, ReadIsFresh
<1>6. StepsFit(b)' /\ WorkIsWhole(b)'
  BY <1>0, <1>3, <1>5 DEF StepsFit, WorkIsWhole
<1>7. ReadIsFresh(b)'
  BY <1>0, <1>3, <1>5 DEF ReadIsFresh, IInv, TypeOK
<1>8. FaultsAreNoted(b)'
  BY <1>0, <1>3, <1>5 DEF FaultsAreNoted, Running, Watched
<1>9. \A d \in Block : BlockIsSound(d)'
  BY <1>0, <1>6, <1>7, <1>8, OneBlock DEF BlockIsSound, IInv, TypeOK
<1> QED
  BY <1>1, <1>2, <1>9 DEF IInv

\* A block that ends without a connection, or is about to look for one.
LEMMA Outside ==
  ASSUME IInv, NEW b \in Block, pc[b] \in {"build", "acquire", "waiting"},
         \/ pc'[b] \in {"acquire", "waiting"} /\ answer'[b] = answer[b]
         \/ pc'[b] = "done" /\ answer'[b] = "error" /\ ~up,
         kind' = kind, mine'[b] = mine[b], half' = half, seen' = seen, since' = since,
         past' = past, up' = up, version' = version
  PROVE  BlockIsSound(b)'
<1>0. BlockIsSound(b)
  BY DEF IInv
<1>1. mine[b] = None /\ seen[b] = {} /\ half[b] = {} /\ answer[b] = "none"
  BY <1>0 DEF BlockIsSound, StepsFit, WorkIsWhole, ReadIsFresh
<1>2. StepsFit(b)' /\ WorkIsWhole(b)'
  BY <1>1 DEF StepsFit, WorkIsWhole
<1>3. ReadIsFresh(b)'
  BY <1>0, <1>1 DEF BlockIsSound, ReadIsFresh
<1>4. FaultsAreNoted(b)'
  BY <1>0, <1>1 DEF BlockIsSound, FaultsAreNoted, Running
<1> QED
  BY <1>2, <1>3, <1>4 DEF BlockIsSound

LEMMA BuildPoolStep == ASSUME IInv, NEW b \in Block, BuildPool(b) PROVE IInv'
<1>0. /\ pc[b] = "build"
      /\ UNCHANGED <<up, version, serving, kind, mine, half, seen, since, past>>
      /\ 1 \in Conn /\ Fresh \in Session /\ version \in Nat
  BY CleanSessions, PoolAssumption DEF BuildPool, database, history, IInv, TypeOK, Conn
<1>1. serving
  BY <1>0 DEF IInv, PoolIsSound
<1>2. CASE built = 0 /\ up
  <2>1. /\ built' = 1 /\ idle' = {1} /\ session' = [session EXCEPT ![1] = Fresh]
        /\ pc' = [pc EXCEPT ![b] = "acquire"] /\ UNCHANGED answer
    BY <1>2 DEF BuildPool, Build, Goto
  <2>2. \A d \in Block : mine[d] = None
    BY <1>2 DEF IInv, PoolIsSound
  <2>3. TypeOK'
    BY <1>0, <2>1 DEF IInv, TypeOK, Steps
  <2>4. PoolIsSound'
    <3>1. session'[1] = Fresh
      BY <1>0, <2>1 DEF IInv, TypeOK
    <3>2. \A d \in Block : mine'[d] = None /\ None \notin idle'
      BY <1>0, <2>1, <2>2, PoolAssumption
    <3> QED
      BY <1>0, <1>1, <1>2, <2>1, <3>1, <3>2 DEF IInv, PoolIsSound, TypeOK
  <2>7. pc'[b] = "acquire" /\ answer'[b] = answer[b]
    BY <2>1 DEF IInv, TypeOK
  <2>5. BlockIsSound(b)'
    BY <1>0, <2>7, Outside
  <2>6. \A d \in Block : BlockIsSound(d)'
    BY <1>0, <2>1, <2>2, <2>5, OneBlock DEF IInv, TypeOK
  <2> QED
    BY <2>3, <2>4, <2>6 DEF IInv
<1>3. CASE built > 0 \/ ~up
  <2>1. /\ UNCHANGED <<built, idle, session>>
        /\ \/ pc' = [pc EXCEPT ![b] = "acquire"] /\ UNCHANGED answer
           \/ pc' = [pc EXCEPT ![b] = "done"] /\ answer' = [answer EXCEPT ![b] = "error"] /\ ~up
    BY <1>3 DEF BuildPool, Build, Goto
  <2>2. TypeOK'
    BY <1>0, <2>1 DEF IInv, TypeOK, Steps
  <2>3. PoolIsSound'
    <3>1. built = 0 => \A d \in Block : pc'[d] \in {"new", "build", "done"}
      BY <1>3, <2>1 DEF IInv, TypeOK, PoolIsSound, BuildPool, Build, Goto
    <3> QED
      BY <1>0, <1>1, <2>1, <3>1 DEF IInv, PoolIsSound
  <2>6. \/ pc'[b] = "acquire" /\ answer'[b] = answer[b]
        \/ pc'[b] = "done" /\ answer'[b] = "error" /\ ~up
    BY <2>1 DEF IInv, TypeOK
  <2>4. BlockIsSound(b)'
    BY <1>0, <2>6, Outside
  <2>5. \A d \in Block : BlockIsSound(d)'
    BY <1>0, <2>1, <2>4, OneBlock DEF IInv, TypeOK
  <2> QED
    BY <2>2, <2>3, <2>5 DEF IInv
<1> QED
  BY <1>2, <1>3 DEF IInv, TypeOK

\* A connection that nobody holds is lent.
LEMMA LendStep ==
  ASSUME IInv, NEW b \in Block, NEW c \in Conn, NEW s \in {Fresh, Broken(Fresh)},
         pc[b] = "acquire", \A d \in Block : mine[d] # c, s.alive = up, Lend(b, c, s),
         UNCHANGED <<database, built, kind, history>>
  PROVE  IInv'
<1>0. /\ mine' = [mine EXCEPT ![b] = c] /\ idle' = idle \ {c}
      /\ session' = [session EXCEPT ![c] = s]
      /\ pc' = [pc EXCEPT ![b] = FirstStep[kind[b]]]
      /\ UNCHANGED <<answer, up, version, serving, built, kind, half, seen, since, past>>
  BY DEF Lend, Goto, database, history
<1>1. /\ s \in Session /\ s.view = None /\ s.wrote = {} /\ ~s.tx /\ up \in BOOLEAN
      /\ c # None /\ kind[b] \in Kinds
  BY CleanSessions, PoolAssumption DEF IInv, TypeOK, Conn
<1>2. \/ kind[b] = "work" /\ FirstStep[kind[b]] = "begin"
      \/ kind[b] = "read" /\ FirstStep[kind[b]] = "first"
      \/ kind[b] = "probe" /\ FirstStep[kind[b]] = "second"
  BY <1>1 DEF FirstStep, Kinds
<1>3. mine'[b] = c /\ pc'[b] = FirstStep[kind[b]] /\ session'[c] = s
  BY <1>0 DEF IInv, TypeOK
<1>4. TypeOK'
  BY <1>0, <1>1, <1>2 DEF IInv, TypeOK, Steps, Halves
<1>5. PoolIsSound'
  BY <1>0, <1>1 DEF IInv, TypeOK, PoolIsSound
<1>6. BlockIsSound(b)
  BY DEF IInv
<1>7. mine[b] = None /\ seen[b] = {} /\ half[b] = {} /\ answer[b] = "none"
  BY <1>6 DEF BlockIsSound, StepsFit, WorkIsWhole, ReadIsFresh
<1>8. StepsFit(b)'
  BY <1>0, <1>1, <1>2, <1>3, <1>7 DEF StepsFit
<1>9. WorkIsWhole(b)'
  BY <1>0, <1>1, <1>2, <1>3, <1>7 DEF WorkIsWhole
<1>10. ReadIsFresh(b)'
  BY <1>0, <1>1, <1>2, <1>3, <1>6, <1>7 DEF BlockIsSound, ReadIsFresh
<1>11. FaultsAreNoted(b)'
  BY <1>0, <1>1, <1>2, <1>3, <1>6, <1>7 DEF BlockIsSound, FaultsAreNoted, Running
<1>12. \A d \in Block \ {b} : mine[d] # None => session'[mine[d]] = session[mine[d]]
  BY <1>0 DEF IInv, TypeOK
<1>13. \A d \in Block : BlockIsSound(d)'
  BY <1>0, <1>8, <1>9, <1>10, <1>11, <1>12, OneBlock DEF BlockIsSound, IInv, TypeOK
<1> QED
  BY <1>4, <1>5, <1>13 DEF IInv

LEMMA AcquireStep == ASSUME IInv, NEW b \in Block, Acquire(b) PROVE IInv'
<1>0. /\ pc[b] = "acquire"
      /\ UNCHANGED <<database, built, kind, history>>
      /\ UNCHANGED <<up, version, serving, built, kind, half, seen, since, past>>
      /\ idle \subseteq Conn /\ version \in Nat
  BY DEF Acquire, database, history, IInv, TypeOK
<1>1. CASE \E c \in idle : LendIdle(b, c)
  <2> PICK c \in idle : LendIdle(b, c)
    BY <1>1
  <2> DEFINE s == IF session[c].alive THEN session[c] ELSE Reopened
  <2>1. /\ s \in {Fresh, Broken(Fresh)} /\ s.alive = up
        /\ \A d \in Block : mine[d] # c
    BY CleanSessions, <1>0 DEF IInv, TypeOK, PoolIsSound
  <2>2. Lend(b, c, s)
    BY DEF LendIdle
  <2> HIDE DEF s
  <2> QED
    BY <1>0, <2>1, <2>2, LendStep
<1>2. CASE up /\ \E c \in Conn \ Lent : Lend(b, c, Fresh)
  <2> PICK c \in Conn \ Lent : Lend(b, c, Fresh)
    BY <1>2
  <2>1. \A d \in Block : mine[d] # c
    BY PoolAssumption DEF Lent, Conn
  <2>2. Fresh.alive = up
    BY <1>2, CleanSessions DEF IInv, TypeOK, Fresh, Blank
  <2> QED
    BY <1>0, <2>1, <2>2, LendStep
<1>3. CASE /\ UNCHANGED <<idle, session, mine>>
           /\ \/ Goto(b, "waiting") /\ UNCHANGED answer
              \/ ~up /\ Goto(b, "done") /\ answer' = [answer EXCEPT ![b] = "error"]
  <2>1. \/ pc' = [pc EXCEPT ![b] = "waiting"] /\ UNCHANGED answer
        \/ pc' = [pc EXCEPT ![b] = "done"] /\ answer' = [answer EXCEPT ![b] = "error"] /\ ~up
    BY <1>3 DEF Goto
  <2>2. TypeOK'
    BY <1>0, <1>3, <2>1 DEF IInv, TypeOK, Steps
  <2>3. PoolIsSound'
    BY <1>0, <1>3, <2>1 DEF IInv, PoolIsSound, TypeOK
  <2>4. \/ pc'[b] \in {"acquire", "waiting"} /\ answer'[b] = answer[b]
        \/ pc'[b] = "done" /\ answer'[b] = "error" /\ ~up
    BY <2>1 DEF IInv, TypeOK
  <2>5. BlockIsSound(b)'
    BY <1>0, <1>3, <2>4, Outside
  <2>6. \A d \in Block : BlockIsSound(d)'
    BY <1>0, <1>3, <2>1, <2>5, OneBlock DEF IInv, TypeOK
  <2> QED
    BY <2>2, <2>3, <2>6 DEF IInv
<1> QED
  BY <1>1, <1>2, <1>3 DEF Acquire

\* A block uses the connection it holds.
LEMMA OwnConnection ==
  ASSUME IInv, NEW b \in Block, mine[b] # None,
         session' \in [Conn -> Session], session'[mine[b]].alive => up,
         \A c \in Conn \ {mine[b]} : session'[c] = session[c],
         up' = up, serving' = serving, built' = built, idle' = idle, kind' = kind, mine' = mine,
         since' = since, version' \in Nat, version' >= version,
         pc' \in [Block -> Steps], answer' \in [Block -> {"none", "ok", "error"}],
         half' \in [Block -> SUBSET Halves], seen' \in [Block -> SUBSET Nat],
         past' \in [Block -> SUBSET {"up", "broke"}],
         \A d \in Block \ {b} : pc'[d] = pc[d] /\ answer'[d] = answer[d],
         \A d \in Block \ {b} : half'[d] = half[d] /\ seen'[d] = seen[d],
         \A d \in Block \ {b} : past'[d] = past[d],
         BlockIsSound(b)'
  PROVE  IInv'
<1>1. mine[b] \in Conn /\ built # 0 /\ serving
  BY DEF IInv, TypeOK, PoolIsSound
<1>2. TypeOK'
  BY <1>1 DEF IInv, TypeOK
<1>4. PoolIsSound'
  BY <1>1 DEF IInv, TypeOK, PoolIsSound
<1>5. \A d \in Block \ {b} : mine[d] # None => session'[mine[d]] = session[mine[d]]
  BY <1>1 DEF IInv, TypeOK, PoolIsSound
<1>6. \A d \in Block : BlockIsSound(d)'
  BY <1>5, OneBlock DEF IInv, TypeOK
<1> QED
  BY <1>2, <1>4, <1>6 DEF IInv

\* A block in which something is raised after something broke.
LEMMA RaiseSound ==
  ASSUME IInv, NEW b \in Block, mine[b] # None, Raise(b),
         kind' = kind, mine' = mine, up' = up, since' = since,
         seen' = seen, half'[b] \in {{}, Halves}, past[b] \subseteq past'[b], "broke" \in past'[b],
         version' \in Nat, version' >= version
  PROVE  BlockIsSound(b)'
<1>0. BlockIsSound(b) /\ since[b] \in Nat /\ version \in Nat
  BY DEF IInv, TypeOK
<1>1. answer'[b] = "error" /\ pc'[b] = IF kind[b] = "work" THEN "rollback" ELSE "close"
  BY DEF Raise, Goto, IInv, TypeOK
<1>2. StepsFit(b)' /\ WorkIsWhole(b)'
  BY <1>0, <1>1 DEF BlockIsSound, StepsFit, WorkIsWhole
<1>3. ReadIsFresh(b)'
  BY <1>0, <1>1 DEF BlockIsSound, ReadIsFresh
<1>4. FaultsAreNoted(b)'
  <2>1. Running(b)
    BY <1>0 DEF BlockIsSound, StepsFit, Running
  <2> QED
    BY <1>0, <1>1, <2>1 DEF BlockIsSound, FaultsAreNoted, Running
<1> QED
  BY <1>2, <1>3, <1>4 DEF BlockIsSound

LEMMA BeginStep == ASSUME IInv, NEW b \in Block, Begin(b) PROVE IInv'
<1>0. /\ pc[b] = "begin" /\ kind[b] = "work" /\ mine[b] # None /\ mine[b] \in Conn
      /\ UNCHANGED <<up, version, serving, built, idle, kind, mine, half, seen, since, past>>
      /\ BlockIsSound(b) /\ version \in Nat
  BY DEF Begin, database, history, IInv, TypeOK, BlockIsSound, StepsFit
<1> DEFINE s == [session[mine[b]] EXCEPT !.tx = TRUE]
<1>1. /\ session' = [session EXCEPT ![mine[b]] = s]
      /\ s \in Session /\ s.alive = session[mine[b]].alive /\ s.tx
      /\ s.wrote = session[mine[b]].wrote /\ (s.alive => up)
      /\ session'[mine[b]] = s /\ session' \in [Conn -> Session]
      /\ \A c \in Conn \ {mine[b]} : session'[c] = session[c]
  BY <1>0 DEF Begin, IInv, TypeOK, PoolIsSound, Session
<1>2. CASE s.alive
  <2>1. pc' = [pc EXCEPT ![b] = "first"] /\ UNCHANGED answer
    BY <1>1, <1>2 DEF Begin, Goto
  <2>2. pc'[b] = "first" /\ answer'[b] = answer[b]
    BY <2>1 DEF IInv, TypeOK
  <2> HIDE DEF s
  <2>3. StepsFit(b)' /\ WorkIsWhole(b)'
    BY <1>0, <1>1, <2>2 DEF BlockIsSound, StepsFit, WorkIsWhole
  <2>4. ReadIsFresh(b)' /\ FaultsAreNoted(b)'
    BY <1>0, <1>1, <1>2, <2>2 DEF BlockIsSound, ReadIsFresh, FaultsAreNoted, Running
  <2>5. BlockIsSound(b)'
    BY <2>3, <2>4 DEF BlockIsSound
  <2>6. pc' \in [Block -> Steps] /\ \A d \in Block \ {b} : pc'[d] = pc[d]
    BY <2>1 DEF IInv, TypeOK, Steps, Halves
  <2> QED
    BY <1>0, <1>1, <2>1, <2>5, <2>6, OwnConnection DEF IInv, TypeOK
<1>3. CASE ~s.alive
  <2>1. Raise(b)
    BY <1>1, <1>3 DEF Begin
  <2>2. "broke" \in past[b] /\ half[b] \in {{}, Halves}
    BY <1>0, <1>1, <1>3 DEF BlockIsSound, FaultsAreNoted, WorkIsWhole
  <2> HIDE DEF s
  <2>3. BlockIsSound(b)'
    BY <1>0, <2>1, <2>2, RaiseSound
  <2>4. /\ pc' \in [Block -> Steps] /\ answer' \in [Block -> {"none", "ok", "error"}]
        /\ \A d \in Block \ {b} : pc'[d] = pc[d] /\ answer'[d] = answer[d]
    BY <2>1 DEF Raise, Goto, IInv, TypeOK, Steps
  <2> QED
    BY <1>0, <1>1, <2>3, <2>4, OwnConnection DEF IInv, TypeOK
<1> QED
  BY <1>2, <1>3

\* A statement is executed in session s: the one the block holds, or a new one if that
\* is dead and it is not a unit of work's.
LEMMA ExecutesStep ==
  ASSUME IInv, NEW b \in Block, pc[b] \in Halves, NEW s \in Session, s.alive, up,
         \/ s = session[mine[b]]
         \/ s = Fresh /\ kind[b] # "work" /\ ~session[mine[b]].alive,
         Executes(b, s),
         UNCHANGED <<database, built, idle, kind, mine, half, since, past>>
  PROVE  IInv'
<1>0. /\ mine[b] # None /\ mine[b] \in Conn /\ pc[b] \in {"first", "second"}
      /\ UNCHANGED <<up, version, serving, built, idle, kind, mine, half, since, past, answer>>
      /\ BlockIsSound(b) /\ version \in Nat /\ None \notin Nat /\ s.view \in Nat \cup {None}
      /\ kind[b] \in Kinds /\ since[b] \in Nat /\ seen[b] \subseteq Nat
  BY PoolAssumption DEF Executes, database, IInv, TypeOK, BlockIsSound, StepsFit, Halves, Session
<1> DEFINE t == After(b, s)
<1>1. /\ t \in Session /\ t.alive /\ t.tx = s.tx
      /\ kind[b] = "work" => t.wrote = s.wrote \cup {pc[b]}
      /\ kind[b] = "read" => t.view = Shown(s)
      /\ Shown(s) \in Nat
  BY <1>0 DEF After, Shown, Session, Kinds, Halves
<1>2. /\ session' \in [Conn -> Session] /\ session'[mine[b]] = t
      /\ \A c \in Conn \ {mine[b]} : session'[c] = session[c]
      /\ seen'[b] = IF kind[b] = "read" THEN seen[b] \cup {Shown(s)} ELSE seen[b]
      /\ pc'[b] = IF pc[b] = "first" THEN "second" ELSE IF kind[b] = "work" THEN "commit" ELSE "close"
      /\ answer'[b] = answer[b]
      /\ seen' \in [Block -> SUBSET Nat] /\ pc' \in [Block -> Steps]
      /\ \A d \in Block \ {b} : pc'[d] = pc[d] /\ seen'[d] = seen[d]
  BY <1>0, <1>1 DEF Executes, Goto, IInv, TypeOK, Steps, Halves
<1> HIDE DEF t
<1>3. StepsFit(b)'
  BY <1>0, <1>2 DEF BlockIsSound, StepsFit
<1>4. WorkIsWhole(b)'
  <2>1. CASE kind[b] = "work"
    <3>1. /\ s = session[mine[b]] /\ s.tx /\ half[b] = {}
          /\ s.wrote = IF pc[b] = "first" THEN {} ELSE {"first"}
      BY <1>0, <2>1 DEF BlockIsSound, WorkIsWhole
    <3>2. /\ t.tx /\ pc'[b] = IF pc[b] = "first" THEN "second" ELSE "commit"
          /\ t.wrote = IF pc[b] = "first" THEN {"first"} ELSE Halves
      <4>1. {} \cup {"first"} = {"first"} /\ {"first"} \cup {"second"} = Halves
        BY DEF Halves
      <4> QED
        BY <1>0, <1>1, <1>2, <2>1, <3>1, <4>1
    <3> QED
      BY <1>0, <1>2, <2>1, <3>1, <3>2 DEF WorkIsWhole
  <2>2. CASE kind[b] # "work"
    BY <1>0, <1>2, <2>2 DEF BlockIsSound, WorkIsWhole
  <2> QED
    BY <2>1, <2>2
<1>5. ReadIsFresh(b)'
  <2>1. CASE kind[b] # "read"
    BY <1>0, <1>2, <2>1 DEF BlockIsSound, ReadIsFresh
  <2>2. CASE kind[b] = "read"
    <3>1. Shown(s) >= since[b]
      BY <1>0, <2>2 DEF BlockIsSound, ReadIsFresh, Shown, Fresh, Blank
    <3>2. "broke" \in past[b] \/ s = session[mine[b]]
      BY <1>0, <2>2 DEF BlockIsSound, FaultsAreNoted
    <3>3. pc[b] = "first" => seen[b] = {}
      BY <1>0 DEF BlockIsSound, ReadIsFresh
    <3>4. pc[b] = "second" => seen[b] = {Shown(s)} \/ "broke" \in past[b]
      BY <1>0, <2>2, <3>2 DEF BlockIsSound, ReadIsFresh, Shown
    <3> QED
      BY <1>0, <1>1, <1>2, <2>2, <3>1, <3>3, <3>4 DEF BlockIsSound, ReadIsFresh
  <2> QED
    BY <2>1, <2>2
<1>6. FaultsAreNoted(b)'
  BY <1>0, <1>1, <1>2 DEF BlockIsSound, StepsFit, FaultsAreNoted, Running
<1>7. BlockIsSound(b)'
  BY <1>3, <1>4, <1>5, <1>6 DEF BlockIsSound
<1> QED
  BY <1>0, <1>1, <1>2, <1>7, OwnConnection DEF IInv, TypeOK

LEMMA ExecuteStep == ASSUME IInv, NEW b \in Block, Execute(b) PROVE IInv'
<1>0. /\ pc[b] \in {"first", "second"} /\ pc[b] \in Halves
      /\ UNCHANGED <<database, up, version, serving, built, idle, kind, mine, half, since, past>>
      /\ BlockIsSound(b) /\ mine[b] # None /\ mine[b] \in Conn
      /\ session[mine[b]] \in Session /\ kind[b] \in Kinds /\ version \in Nat
      /\ (session[mine[b]].alive => up) /\ up \in BOOLEAN
  BY DEF Execute, database, Halves, IInv, TypeOK, BlockIsSound, StepsFit, PoolIsSound
<1> DEFINE s == session[mine[b]]
<1>1. CASE s.alive /\ Executes(b, s)
  BY <1>0, <1>1, ExecutesStep
<1>2. CASE ~s.alive /\ ~s.tx /\ up /\ Executes(b, Fresh)
  <2>1. kind[b] # "work"
    BY <1>0, <1>2 DEF BlockIsSound, WorkIsWhole
  <2>2. Fresh \in Session /\ Fresh.alive
    BY CleanSessions DEF IInv
  <2> QED
    BY <1>0, <1>2, <2>1, <2>2, ExecutesStep
<1>3. CASE /\ ~s.alive /\ (s.tx \/ ~up)
           /\ session' = [session EXCEPT ![mine[b]] = Reopened]
           /\ Raise(b)
           /\ UNCHANGED seen
  <2>1. /\ session' \in [Conn -> Session] /\ session'[mine[b]].alive = up
        /\ \A c \in Conn \ {mine[b]} : session'[c] = session[c]
    BY <1>0, <1>3, CleanSessions DEF IInv, TypeOK
  <2>2. "broke" \in past[b] /\ half[b] \in {{}, Halves}
    BY <1>0, <1>3 DEF BlockIsSound, StepsFit, FaultsAreNoted, WorkIsWhole, Running
  <2>3. BlockIsSound(b)'
    BY <1>0, <1>3, <2>2, RaiseSound
  <2>4. /\ pc' \in [Block -> Steps] /\ answer' \in [Block -> {"none", "ok", "error"}]
        /\ \A d \in Block \ {b} : pc'[d] = pc[d] /\ answer'[d] = answer[d]
    BY <1>3 DEF Raise, Goto, IInv, TypeOK, Steps
  <2> QED
    BY <1>0, <1>3, <2>1, <2>3, <2>4, OwnConnection DEF IInv, TypeOK
<1> QED
  BY <1>1, <1>2, <1>3 DEF Execute

LEMMA CommitStep == ASSUME IInv, NEW b \in Block, Commit(b) PROVE IInv'
<1> DEFINE s == session[mine[b]]
<1>0. /\ pc[b] = "commit" /\ kind[b] = "work" /\ mine[b] # None /\ mine[b] \in Conn
      /\ UNCHANGED <<up, serving, built, idle, kind, mine, seen, since, past>>
      /\ session' = [session EXCEPT ![mine[b]] = Clean(s)]
      /\ BlockIsSound(b) /\ version \in Nat /\ s \in Session /\ (s.alive => up)
      /\ since[b] \in Nat
  BY DEF Commit, IInv, TypeOK, PoolIsSound, BlockIsSound, StepsFit
<1>1. /\ Clean(s) \in Session /\ Clean(s).alive = up
  BY <1>0, CleanSessions DEF IInv
<1>2. /\ session' \in [Conn -> Session] /\ session'[mine[b]].alive = up
      /\ \A c \in Conn \ {mine[b]} : session'[c] = session[c]
  BY <1>0, <1>1 DEF IInv, TypeOK
<1>3. CASE s.alive
  <2>1. /\ version' = version + 1 /\ half' = [half EXCEPT ![b] = s.wrote]
        /\ pc' = [pc EXCEPT ![b] = "close"] /\ UNCHANGED answer
    BY <1>3 DEF Commit, Committed, Goto
  <2>2. s.wrote = Halves
    BY <1>0, <1>3 DEF BlockIsSound, WorkIsWhole
  <2>3. /\ pc'[b] = "close" /\ half'[b] = Halves /\ answer'[b] = answer[b]
        /\ pc' \in [Block -> Steps] /\ half' \in [Block -> SUBSET Halves]
        /\ \A d \in Block \ {b} : pc'[d] = pc[d] /\ half'[d] = half[d]
    BY <2>1, <2>2 DEF IInv, TypeOK, Steps
  <2>4. StepsFit(b)' /\ WorkIsWhole(b)'
    BY <1>0, <2>3 DEF BlockIsSound, StepsFit, WorkIsWhole
  <2>5. ReadIsFresh(b)'
    BY <1>0, <2>1, <2>3 DEF BlockIsSound, ReadIsFresh
  <2>6. FaultsAreNoted(b)'
    BY <1>0, <1>2, <2>3 DEF BlockIsSound, FaultsAreNoted, Running
  <2>7. BlockIsSound(b)'
    BY <2>4, <2>5, <2>6 DEF BlockIsSound
  <2> QED
    BY <1>0, <1>2, <2>1, <2>3, <2>7, OwnConnection DEF IInv, TypeOK
<1>4. CASE ~s.alive
  <2>1. Raise(b) /\ UNCHANGED <<version, half>>
    BY <1>4 DEF Commit
  <2>2. "broke" \in past[b] /\ half[b] \in {{}, Halves}
    BY <1>0, <1>4 DEF BlockIsSound, FaultsAreNoted, WorkIsWhole
  <2>3. BlockIsSound(b)'
    BY <1>0, <2>1, <2>2, RaiseSound
  <2>4. /\ pc' \in [Block -> Steps] /\ answer' \in [Block -> {"none", "ok", "error"}]
        /\ \A d \in Block \ {b} : pc'[d] = pc[d] /\ answer'[d] = answer[d]
    BY <2>1 DEF Raise, Goto, IInv, TypeOK, Steps
  <2> QED
    BY <1>0, <1>2, <2>1, <2>3, <2>4, OwnConnection DEF IInv, TypeOK
<1> QED
  BY <1>3, <1>4

LEMMA CommitUnheardStep == ASSUME IInv, NEW b \in Block, CommitUnheard(b) PROVE IInv'
<1> DEFINE s == session[mine[b]]
<1>0. /\ pc[b] = "commit" /\ kind[b] = "work" /\ mine[b] # None /\ mine[b] \in Conn
      /\ s.alive /\ Raise(b)
      /\ UNCHANGED <<up, serving, built, idle, kind, mine, seen, since>>
      /\ session' = [session EXCEPT ![mine[b]] = Reopened]
      /\ version' = version + 1 /\ half' = [half EXCEPT ![b] = s.wrote]
      /\ BlockIsSound(b) /\ version \in Nat
  BY DEF CommitUnheard, Committed, IInv, TypeOK, PoolIsSound, BlockIsSound, StepsFit
<1>1. /\ session' \in [Conn -> Session] /\ session'[mine[b]].alive = up
      /\ \A c \in Conn \ {mine[b]} : session'[c] = session[c]
  BY <1>0, CleanSessions DEF IInv, TypeOK
<1>2. s.wrote = Halves
  BY <1>0 DEF BlockIsSound, WorkIsWhole
<1>3. /\ past'[b] = past[b] \cup {"broke"} /\ past' \in [Block -> SUBSET {"up", "broke"}]
      /\ \A d \in Block \ {b} : past'[d] = past[d]
  BY DEF CommitUnheard, Happens, Watched, IInv, TypeOK
<1>4. /\ half'[b] = Halves /\ half' \in [Block -> SUBSET Halves]
      /\ \A d \in Block \ {b} : half'[d] = half[d]
  BY <1>0, <1>2 DEF IInv, TypeOK
<1>5. /\ pc' \in [Block -> Steps] /\ answer' \in [Block -> {"none", "ok", "error"}]
      /\ \A d \in Block \ {b} : pc'[d] = pc[d] /\ answer'[d] = answer[d]
  BY <1>0 DEF Raise, Goto, IInv, TypeOK, Steps
<1>6. BlockIsSound(b)'
  BY <1>0, <1>3, <1>4, RaiseSound
<1> QED
  BY <1>0, <1>1, <1>3, <1>4, <1>5, <1>6, OwnConnection DEF IInv, TypeOK

LEMMA RollbackStep == ASSUME IInv, NEW b \in Block, Rollback(b) PROVE IInv'
<1> DEFINE s == session[mine[b]]
<1>0. /\ pc[b] = "rollback" /\ kind[b] = "work" /\ mine[b] # None /\ mine[b] \in Conn
      /\ UNCHANGED <<up, version, serving, built, idle, kind, mine, answer, half, seen, since, past>>
      /\ session' = [session EXCEPT ![mine[b]] = Clean(s)]
      /\ pc' = [pc EXCEPT ![b] = "close"]
      /\ BlockIsSound(b) /\ version \in Nat /\ s \in Session /\ (s.alive => up)
  BY DEF Rollback, Goto, database, history, IInv, TypeOK, PoolIsSound, BlockIsSound, StepsFit
<1>1. /\ Clean(s) \in Session /\ Clean(s).alive = up
  BY <1>0, CleanSessions DEF IInv
<1>2. /\ session' \in [Conn -> Session] /\ session'[mine[b]].alive = up
      /\ \A c \in Conn \ {mine[b]} : session'[c] = session[c]
      /\ pc'[b] = "close" /\ pc' \in [Block -> Steps]
      /\ \A d \in Block \ {b} : pc'[d] = pc[d]
  BY <1>0, <1>1 DEF IInv, TypeOK, Steps
<1>3. StepsFit(b)' /\ WorkIsWhole(b)' /\ ReadIsFresh(b)'
  BY <1>0, <1>2 DEF BlockIsSound, StepsFit, WorkIsWhole, ReadIsFresh
<1>4. FaultsAreNoted(b)'
  BY <1>0, <1>2 DEF BlockIsSound, StepsFit, FaultsAreNoted, Running
<1>5. BlockIsSound(b)'
  BY <1>3, <1>4 DEF BlockIsSound
<1> QED
  BY <1>0, <1>2, <1>5, OwnConnection DEF IInv, TypeOK

\* The connection goes back clean; at most one waiting block is woken.
LEMMA CloseStep == ASSUME IInv, NEW b \in Block, Close(b) PROVE IInv'
<1> DEFINE s == session[mine[b]]
<1>0. /\ pc[b] = "close" /\ mine[b] # None /\ mine[b] \in Conn
      /\ UNCHANGED <<up, version, serving, built, kind, half, seen, since, past>>
      /\ idle' = idle \cup {mine[b]} /\ session' = [session EXCEPT ![mine[b]] = Clean(s)]
      /\ mine' = [mine EXCEPT ![b] = None]
      /\ answer' = [answer EXCEPT ![b] = IF answer[b] = "none" THEN "ok" ELSE answer[b]]
      /\ BlockIsSound(b) /\ version \in Nat /\ s \in Session /\ (s.alive => up)
  BY DEF Close, Return, database, history, IInv, TypeOK, PoolIsSound, BlockIsSound, StepsFit
<1>1. /\ Clean(s) \in {Fresh, Broken(Fresh)} /\ Clean(s) \in Session /\ Clean(s).alive = up
  BY <1>0, CleanSessions DEF IInv
<1>2. /\ session' \in [Conn -> Session] /\ session'[mine[b]] = Clean(s)
      /\ \A c \in Conn \ {mine[b]} : session'[c] = session[c]
      /\ mine' \in [Block -> Conn \cup {None}] /\ mine'[b] = None
      /\ \A d \in Block \ {b} : mine'[d] = mine[d] /\ answer'[d] = answer[d]
      /\ answer'[b] = IF answer[b] = "none" THEN "ok" ELSE answer[b]
      /\ answer' \in [Block -> {"none", "ok", "error"}]
  BY <1>0, <1>1 DEF IInv, TypeOK
<1>3. /\ pc' \in [Block -> Steps] /\ pc'[b] = "done"
      /\ \A d \in Block \ {b} : pc'[d] = pc[d] \/ (pc[d] = "waiting" /\ pc'[d] = "acquire")
  <2>1. CASE pc' = [pc EXCEPT ![b] = "done"]
    BY <2>1 DEF IInv, TypeOK, Steps
  <2>2. CASE \E w \in Block : pc[w] = "waiting" /\ pc' = [pc EXCEPT ![b] = "done", ![w] = "acquire"]
    BY <1>0, <2>2 DEF IInv, TypeOK, Steps
  <2> QED
    BY <2>1, <2>2 DEF Close, Return, Goto
<1>4. TypeOK'
  BY <1>0, <1>2, <1>3 DEF IInv, TypeOK
<1>5. PoolIsSound'
  <2>1. built # 0 /\ serving /\ None \notin Conn
    BY <1>0, PoolAssumption DEF IInv, PoolIsSound, Conn
  <2>2. \A c \in idle' : session'[c] \in {Fresh, Broken(Fresh)}
    <3>1. \A c \in idle \ {mine[b]} : session'[c] \in {Fresh, Broken(Fresh)}
      BY <1>2 DEF IInv, TypeOK, PoolIsSound
    <3> QED
      BY <1>0, <1>1, <1>2, <3>1
  <2>3. \A c \in Conn : session'[c].alive => up
    <3>1. \A c \in Conn \ {mine[b]} : session'[c].alive => up
      BY <1>2 DEF IInv, PoolIsSound
    <3>2. session'[mine[b]].alive => up
      BY <1>1, <1>2
    <3> QED
      BY <3>1, <3>2
  <2>4. \A d \in Block : mine'[d] \notin idle'
    BY <1>0, <1>2, <2>1 DEF IInv, TypeOK, PoolIsSound
  <2>5. \A d, e \in Block : d # e /\ mine'[d] # None => mine'[d] # mine'[e]
    BY <1>2 DEF IInv, PoolIsSound
  <2> QED
    BY <1>0, <2>1, <2>2, <2>3, <2>4, <2>5 DEF IInv, PoolIsSound
<1>6. BlockIsSound(b)'
  <2>1. StepsFit(b)' /\ WorkIsWhole(b)' /\ ReadIsFresh(b)'
    BY <1>0, <1>2, <1>3 DEF BlockIsSound, StepsFit, WorkIsWhole, ReadIsFresh
  <2>2. FaultsAreNoted(b)'
    BY <1>0, <1>2, <1>3 DEF BlockIsSound, StepsFit, FaultsAreNoted, Running
  <2> QED
    BY <2>1, <2>2 DEF BlockIsSound
<1>7. ASSUME NEW d \in Block \ {b} PROVE BlockIsSound(d)'
  <2>1. CASE pc'[d] = pc[d]
    <3>1. mine[d] # None => session'[mine[d]] = session[mine[d]]
      BY <1>0, <1>2 DEF IInv, TypeOK, PoolIsSound
    <3> QED
      BY <1>0, <1>2, <2>1, <3>1, OthersStay
  <2>2. CASE pc[d] = "waiting" /\ pc'[d] = "acquire"
    BY <1>0, <1>2, <2>2, Outside
  <2> QED
    BY <1>3, <2>1, <2>2
<1> QED
  BY <1>4, <1>5, <1>6, <1>7 DEF IInv

LEMMA DownStep == IInv /\ Down => IInv'
<1> SUFFICES ASSUME IInv, Down PROVE IInv'
  OBVIOUS
<1>0. /\ up /\ up' = FALSE /\ session' = [c \in Conn |-> Broken(session[c])]
      /\ UNCHANGED <<version, serving, built, idle, pc, kind, mine, answer, half, seen, since>>
      /\ past' = [b \in Block |-> IF Running(b) THEN past[b] \cup {"broke"} ELSE past[b]]
  BY DEF Down, Happens, Watched
<1>1. \A c \in Conn :
         /\ session'[c] \in Session /\ ~session'[c].alive /\ session'[c].tx = session[c].tx
         /\ session'[c].view = None /\ session'[c].wrote = {}
  BY <1>0, CleanSessions DEF IInv, TypeOK
<1>2. TypeOK'
  BY <1>0, <1>1 DEF IInv, TypeOK
<1>3. \A c \in idle : session'[c] = Broken(Fresh)
  BY <1>0, BrokenIdle DEF IInv, TypeOK, PoolIsSound
<1>4. PoolIsSound'
  BY <1>0, <1>1, <1>3 DEF IInv, PoolIsSound
<1>5. ASSUME NEW b \in Block PROVE BlockIsSound(b)'
  <2>1. BlockIsSound(b) /\ mine[b] \in Conn \cup {None}
    BY DEF IInv, TypeOK
  <2>2. past'[b] = IF Running(b) THEN past[b] \cup {"broke"} ELSE past[b]
    BY <1>0
  <2>3. StepsFit(b)' /\ WorkIsWhole(b)'
    BY <1>0, <1>1, <2>1 DEF BlockIsSound, StepsFit, WorkIsWhole
  <2>4. ReadIsFresh(b)'
    BY <1>0, <1>1, <2>1, <2>2 DEF BlockIsSound, StepsFit, ReadIsFresh, Running
  <2>5. FaultsAreNoted(b)'
    BY <1>0, <1>1, <2>1, <2>2 DEF BlockIsSound, StepsFit, FaultsAreNoted, Running
  <2> QED
    BY <2>3, <2>4, <2>5 DEF BlockIsSound
<1> QED
  BY <1>2, <1>4, <1>5 DEF IInv

LEMMA UpStep == IInv /\ Up => IInv'
<1> SUFFICES ASSUME IInv, Up PROVE IInv'
  OBVIOUS
<1>0. /\ ~up /\ up' = TRUE
      /\ UNCHANGED <<version, serving, built, idle, session, pc, kind, mine, answer, half, seen, since>>
      /\ past' = [b \in Block |-> IF Running(b) THEN past[b] \cup ({"up"} \cap Watched(b)) ELSE past[b]]
  BY DEF Up, Happens
<1>1. TypeOK'
  BY <1>0 DEF IInv, TypeOK
<1>2. PoolIsSound'
  BY <1>0 DEF IInv, PoolIsSound, Fresh, Blank, Broken
<1>3. ASSUME NEW b \in Block PROVE BlockIsSound(b)'
  <2>1. BlockIsSound(b)
    BY DEF IInv
  <2>2. past'[b] = IF Running(b) THEN past[b] \cup ({"up"} \cap Watched(b)) ELSE past[b]
    BY <1>0
  <2>3. StepsFit(b)' /\ WorkIsWhole(b)'
    BY <1>0, <2>1 DEF BlockIsSound, StepsFit, WorkIsWhole
  <2>4. ReadIsFresh(b)'
    BY <1>0, <2>1, <2>2 DEF BlockIsSound, ReadIsFresh
  <2>5. FaultsAreNoted(b)'
    BY <1>0, <2>1, <2>2 DEF BlockIsSound, StepsFit, FaultsAreNoted, Running, Watched
  <2> QED
    BY <2>3, <2>4, <2>5 DEF BlockIsSound
<1> QED
  BY <1>1, <1>2, <1>3 DEF IInv

LEMMA CutStep == ASSUME IInv, NEW c \in Conn, Cut(c) PROVE IInv'
<1>0. /\ session[c].alive /\ session' = [session EXCEPT ![c] = Broken(session[c])]
      /\ UNCHANGED <<up, version, serving, built, idle, pc, kind, mine, answer, half, seen, since>>
      /\ past' = [b \in Block |-> IF mine[b] = c /\ kind[b] # "probe"
                                     THEN past[b] \cup {"broke"} ELSE past[b]]
      /\ session[c] \in Session /\ c # None
  BY PoolAssumption DEF Cut, Happens, Watched, IInv, TypeOK, Conn
<1>1. /\ session'[c] \in Session /\ ~session'[c].alive /\ session'[c].tx = session[c].tx
      /\ session'[c].view = None /\ session'[c].wrote = {}
      /\ \A d \in Conn \ {c} : session'[d] = session[d]
  BY <1>0, CleanSessions DEF IInv, TypeOK
<1>2. TypeOK'
  BY <1>0, <1>1 DEF IInv, TypeOK
<1>3. c \in idle => session'[c] = Broken(Fresh)
  BY <1>0, BrokenIdle DEF IInv, TypeOK, PoolIsSound
<1>4. PoolIsSound'
  BY <1>0, <1>1, <1>3 DEF IInv, TypeOK, PoolIsSound
<1>5. ASSUME NEW b \in Block PROVE BlockIsSound(b)'
  <2>1. BlockIsSound(b) /\ mine[b] \in Conn \cup {None}
    BY DEF IInv, TypeOK
  <2>2. past'[b] = IF mine[b] = c /\ kind[b] # "probe" THEN past[b] \cup {"broke"} ELSE past[b]
    BY <1>0
  <2>3. CASE mine[b] # c
    <3>1. mine[b] # None => session'[mine[b]] = session[mine[b]]
      BY <1>1, <2>1, <2>3
    <3> QED
      BY <1>0, <2>2, <2>3, <3>1, OthersStay DEF IInv, TypeOK
  <2>4. CASE mine[b] = c
    <3>1. StepsFit(b)' /\ WorkIsWhole(b)'
      BY <1>0, <1>1, <2>1, <2>4 DEF BlockIsSound, StepsFit, WorkIsWhole
    <3>2. ReadIsFresh(b)'
      BY <1>0, <1>1, <2>1, <2>2, <2>4 DEF BlockIsSound, StepsFit, ReadIsFresh
    <3>3. FaultsAreNoted(b)'
      BY <1>0, <1>1, <2>1, <2>2, <2>4 DEF BlockIsSound, StepsFit, FaultsAreNoted, Running
    <3> QED
      BY <3>1, <3>2, <3>3 DEF BlockIsSound
  <2> QED
    BY <2>3, <2>4
<1> QED
  BY <1>2, <1>4, <1>5 DEF IInv

LEMMA NextStep == IInv /\ [Next]_vars => IInv'
<1> SUFFICES ASSUME IInv, [Next]_vars PROVE IInv'
  OBVIOUS
<1>1. ASSUME NEW b \in Block, Run(b) PROVE IInv'
  BY <1>1, BuildPoolStep, AcquireStep, BeginStep, ExecuteStep, CommitStep, RollbackStep, CloseStep
     DEF Run
<1>2. CASE UNCHANGED vars
  <2>1. UNCHANGED <<up, version, serving, built, idle, session, pc, kind, mine, answer, half, seen,
                    since, past>>
    BY <1>2 DEF vars
  <2>2. TypeOK' /\ PoolIsSound'
    BY <2>1 DEF IInv, TypeOK, PoolIsSound
  <2>3. \A b \in Block : BlockIsSound(b)'
    BY <2>1, OthersStay DEF IInv, TypeOK
  <2> QED
    BY <2>2, <2>3 DEF IInv
<1> QED
  BY <1>1, <1>2, BootStep, GetPoolStep, CommitUnheardStep, DownStep, UpStep, CutStep DEF Next

\* What is kept at every step: types, sound connections, and blocks that know what they
\* have seen, written and suffered.
THEOREM Invariance == Spec => []IInv
<1>1. Init => IInv
  BY InitStep
<1>2. IInv /\ [Next]_vars => IInv'
  BY NextStep
<1> QED
  BY <1>1, <1>2, PTL DEF Spec

\* A unit of work is committed as a whole or not at all, and it is when it says so
\* (uow.py:29-36): a dead session that was begun is never silently replaced.
THEOREM WorkIsNeverHalfDone == Spec => []NothingHalfDone
<1>1. IInv => NothingHalfDone
  BY DEF IInv, BlockIsSound, WorkIsWhole, NothingHalfDone, Ended
<1> QED
  BY <1>1, Invariance, PTL

\* A read_only block sees what was committed when it began (uow.py:39-52): no snapshot
\* survives the return of its connection.
THEOREM NoStaleReads == Spec => []ReadsAreFresh
<1>1. IInv => ReadsAreFresh
  BY DEF IInv, BlockIsSound, ReadIsFresh, ReadsAreFresh
<1> QED
  BY <1>1, Invariance, PTL

\* Its statements see one state of the tables, unless its session was replaced.
THEOREM OneSnapshot == Spec => []OneSnapshotPerBlock
<1>1. IInv => OneSnapshotPerBlock
  BY DEF IInv, BlockIsSound, ReadIsFresh, OneSnapshotPerBlock
<1> QED
  BY <1>1, Invariance, PTL

\* The readiness probe (health.py:27-34) never says "reachable" of a database that was
\* down throughout, nor "unreachable" of one that was up throughout.
THEOREM ProbeTellsTheTruth == Spec => []ProbeIsTrue
<1>1. IInv => ProbeIsTrue
  BY DEF IInv, BlockIsSound, FaultsAreNoted, ProbeIsTrue, Ended
<1> QED
  BY <1>1, Invariance, PTL

\* No block fails for what broke before it came (pool.py:33, ping=1): a restart heals.
THEOREM RestartsHeal == Spec => []HealsAfterRestart
<1>1. IInv => HealsAfterRestart
  BY DEF IInv, BlockIsSound, FaultsAreNoted, HealsAfterRestart
<1> QED
  BY <1>1, Invariance, PTL

\* The double-checked creation (pool.py:45-52) makes one pool.
THEOREM OnePoolOnly == Spec => []OnePool
<1>1. IInv => OnePool
  BY DEF IInv, PoolIsSound, OnePool
<1> QED
  BY <1>1, Invariance, PTL
=============================================================================
