----------------------------- MODULE MCListings -----------------------------
(***************************************************************************)
(* Small instances of Listings: two requests on two workers with one       *)
(* connection each, and a reader beside one of them.                       *)
(***************************************************************************)
EXTENDS ListingsInv, TLC

CONSTANTS a1, a2, ann, bob, cid, r1, r2, w1, w2

MCRowOf == (1 :> a1) @@ (2 :> a2)
MCOwner == (a1 :> ann) @@ (a2 :> bob)
MCOpening == {(a1 :> 2) @@ (a2 :> 1)}

Pay(who, s, t) == [kind |-> "transfer", actor |-> who, sender |-> s, receiver |-> t, amount |-> 10]
MCCall == {Pay(ann, 1, 2), Pay(bob, 2, 1), [kind |-> "close", account |-> 2]}

\* Opposing transfers, and a transfer whose receiver is closed.
MCScenario == {(r1 :> Pay(ann, 1, 2)) @@ (r2 :> c) : c \in MCCall}

MCReadCall ==
    [kind : {"entry"}, actor : {ann, bob, cid}, entry : {r1}]
    \cup [kind : {"history"}, actor : {bob}, account : {1, 2}]
    \cup {[kind |-> "probe"]}

MCWorkerOf == (r1 :> w1) @@ (r2 :> w2)
MCReaderOf == [x \in Reader |-> w1]
=============================================================================
