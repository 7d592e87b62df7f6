----------------------------- MODULE MCRecords ------------------------------
(***************************************************************************)
(* Small instances of Records: two customers, a branch, an account with a  *)
(* card, and what the requests create.                                     *)
(***************************************************************************)
EXTENDS RecordsInv, TLC

CONSTANTS c1, c2, c3, b1, a1, a2, k1, k2, t1, e1, u1, r1, r2, r3, m1, m2, v1, v2

MCTableOf ==
    (c1 :> "customer") @@ (c2 :> "customer") @@ (c3 :> "customer") @@ (b1 :> "branch")
    @@ (a1 :> "account") @@ (a2 :> "account") @@ (k1 :> "card") @@ (k2 :> "card")
    @@ (t1 :> "customer_support") @@ (e1 :> "employee") @@ (u1 :> "user")
MCRecord == DOMAIN MCTableOf

V(refs, key, value) == [refs |-> refs, key |-> key, value |-> value]
There ==
    (c1 :> V({}, m1, v1)) @@ (c2 :> V({}, m2, v1)) @@ (b1 :> V({}, m1, v1))
    @@ (a1 :> V({c1, b1}, Null, v1)) @@ (k1 :> V({a1}, m1, v1)) @@ (e1 :> V({b1}, m1, v1))
    @@ (u1 :> V({}, m1, v1))
MCOpening == {[x \in Record |-> IF x \in DOMAIN There THEN There[x] ELSE NoRow]}

Create(actor, x, new) == [op |-> "create", actor |-> actor, row |-> x, new |-> new]
Change(actor, x, given) == [op |-> "update", actor |-> actor, row |-> x, given |-> given]
Remove(actor, x) == [op |-> "delete", actor |-> actor, row |-> x]
Fetch(actor, x) == [op |-> "get", actor |-> actor, row |-> x]

\* Accounts and tickets are created while their parents are deleted; customers
\* while others take their e-mail address; a login is linked to a customer who is
\* being deleted.
GraphCalls ==
    {Create(Admin, a2, V({c2, b1}, Null, v1)), Create(Admin, c3, V({}, m2, v1)),
     Create(c2, t1, V({c1, e1}, Null, v1)), Create(Nobody, t1, V({e1}, Null, v1)),
     Change(c2, c2, [key |-> m1]), Change(c2, c2, ("value" :> v2)), Change(c1, c2, ("value" :> v2)),
     Change(Admin, c2, [key |-> m2]), Change(Admin, b1, <<>>),
     Change(Admin, u1, [refs |-> {c2}])}
    \cup {Remove(Admin, x) : x \in {c2, e1, a2}} \cup {Fetch(c1, a2)}

\* Cards are blocked, deleted and issued.
CardCalls ==
    {Create(Admin, k2, V({a1}, m2, v1)), Create(Admin, k2, V({a1}, m1, v1))}
    \cup {Change(actor, k1, ("value" :> v2)) : actor \in {c1, c2, Admin}}
    \cup {Remove(Admin, x) : x \in {k1, k2, a1}}
    \cup {Fetch(c1, k1), Fetch(c2, k1), Fetch(c1, k2)}

MCCalls == GraphCalls \cup CardCalls
Symmetry == Permutations(Request)
=============================================================================
