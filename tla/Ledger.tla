------------------------------- MODULE Ledger -------------------------------
(***************************************************************************)
(* What a client may rely on: accounts with balances and a ledger of       *)
(* transfers, in which every operation of the account and transaction      *)
(* endpoints happens at once or not at all.  "Either everything commits or *)
(* everything rolls back" (app/db/uow.py:3-6).  Transfers.tla, which takes *)
(* row locks statement by statement and may fail between any two of them,  *)
(* implements it.                                                          *)
(***************************************************************************)
EXTENDS Integers

CONSTANTS Account, Request, Carded, MaxBalance, NoRow, Null, Opening

VARIABLES balance,  \* account -> its balance, or NoRow
          entry     \* request -> the ledger row its transfer wrote, or NoRow

vars == <<balance, entry>>

Init == balance \in Opening /\ entry = [q \in Request |-> NoRow]

\* A transfer moves n cents from f to t, which differ (design.md:145), and records
\* it, if f can afford it.
Transfer(q, f, t, n) ==
    /\ entry[q] = NoRow
    /\ f # t
    /\ NoRow \notin {balance[f], balance[t]}
    /\ balance[f] >= n
    /\ balance' = [[balance EXCEPT ![f] = @ - n] EXCEPT ![t] = @ + n]
    /\ balance'[t] <= MaxBalance
    /\ entry' = [entry EXCEPT ![q] = [from |-> f, to |-> t, amount |-> n]]

\* An administrator overwrites a balance.
SetBalance(a, v) ==
    /\ balance[a] # NoRow
    /\ balance' = [balance EXCEPT ![a] = v]
    /\ UNCHANGED entry

\* An account that has cards or has paid for a transfer cannot be closed; the
\* transfers it received lose their receiver.
Close(a) ==
    /\ balance[a] # NoRow
    /\ a \notin Carded
    /\ \A q \in Request : entry[q] # NoRow => entry[q].from # a
    /\ balance' = [balance EXCEPT ![a] = NoRow]
    /\ entry' = [q \in Request |->
                   IF entry[q] # NoRow /\ entry[q].to = a
                     THEN [entry[q] EXCEPT !.to = Null] ELSE entry[q]]

\* An administrator erases a ledger row.
Erase(q) ==
    /\ entry[q] # NoRow
    /\ entry' = [entry EXCEPT ![q] = NoRow]
    /\ UNCHANGED balance

\* One operation, which changes something.
Next ==
    /\ vars' # vars
    /\ \/ \E q \in Request, f, t \in Account, n \in 1..MaxBalance : Transfer(q, f, t, n)
       \/ \E a \in Account, v \in 0..MaxBalance : SetBalance(a, v)
       \/ \E a \in Account : Close(a)
       \/ \E q \in Request : Erase(q)

Spec == Init /\ [][Next]_vars
=============================================================================
