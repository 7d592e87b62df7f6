---------------------------- MODULE MCTransfers -----------------------------
(***************************************************************************)
(* Small instances of Transfers: three accounts, ids that are their        *)
(* accounts' ranks, balances of a few cents.                               *)
(***************************************************************************)
EXTENDS TransfersInv, TLC

CONSTANTS a1, a2, a3, ann, bob, w1, w2

MCRowOf == (1 :> a1) @@ (2 :> a2) @@ (3 :> a3)
MCOwner == (a1 :> ann) @@ (a2 :> bob) @@ (a3 :> bob)
MCOpening == {(a1 :> 2) @@ (a2 :> 1) @@ (a3 :> NoRow)}

\* 4 tenths of a cent are nothing; 11 are one cent, 15 two and 21 two.
TransferCalls ==
    [kind : {"transfer"}, actor : {ann}, sender : {1, 2}, receiver : {1, 2, 3}, amount : {11, 15}]
    \cup [kind : {"transfer"}, actor : {Admin}, sender : {2}, receiver : {1}, amount : {4, 11}]

\* Beside transfers, one of them in the wrong order of locks, everything an
\* administrator may ask for.  -11 becomes -1, 5 becomes 0, 20 is what a1 holds at
\* first.  (PartiesDiffer: no transfer is from an account to itself.)
AdminCalls ==
    [kind : {"transfer"}, actor : {ann}, sender : {1}, receiver : {2}, amount : {10}]
    \cup {[kind |-> "transfer", actor |-> Admin, sender |-> s[1], receiver |-> s[2], amount |-> 10] :
             s \in {<<2, 3>>, <<2, 4>>}}
    \cup [kind : {"setBalance"}, account : {1}, balance : {-11, 5, 20}]
    \cup [kind : {"close"}, account : {2, 3}]
    \cup [kind : {"erase"}, entry : Request]

\* a3 is open, with a card, or does not exist.
AdminOpening == MCOpening \cup {(a1 :> 2) @@ (a2 :> 1) @@ (a3 :> 0)}

\* A second spelling beside three accounts: 1 and 4 name a1.
AdminRowOf == (1 :> a1) @@ (2 :> a2) @@ (3 :> a3) @@ (4 :> a1)

\* Two spellings of two accounts: 1 and 3 name a1.
TwoSpellings == (1 :> a1) @@ (2 :> a2) @@ (3 :> a1) @@ (4 :> a2)
SpellingCalls ==
    {[kind |-> "transfer", actor |-> Admin, sender |-> s[1], receiver |-> s[2], amount |-> 10] :
       s \in {<<1, 2>>, <<2, 3>>, <<1, 3>>}}

\* Overwrites of a1 with one cent.
OverwriteCalls == [kind : {"setBalance"}, account : {1}, balance : {10}]

OneWorker == [r \in Request |-> CHOOSE w \in Worker : TRUE]

Symmetry == Permutations(Request)
-----------------------------------------------------------------------------
(* What the documents say and the program does not do.                     *)

\* "Account not found" (account_service.py:51) is said of an account that is not there.
FoundWhenThere ==
    \A r \in Request :
       call[r].kind = "setBalance" /\ outcome[r] = "NotFound" /\ pc[r] = "rollback"
          => work[Target(r)] = NoRow

\* A transfer from an account to itself, which "nets zero", is rejected (design.md:145):
\* the ledger has no row of one.
NoSelfTransfer == \A q \in Request : db[q] # NoRow => db[q].from # db[q].to
=============================================================================
