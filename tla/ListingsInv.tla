---------------------------- MODULE ListingsInv -----------------------------
(***************************************************************************)
(* The inductive invariant behind what Listings promises to those who read *)
(* the ledger: what the locks of a transfer say of its time, and what a    *)
(* reader's snapshot says of the transfers it shows.  It rests on the      *)
(* invariants of TransfersInv.                                             *)
(***************************************************************************)
EXTENDS Listings, TransfersInv

\* A transfer has its time when it writes its ledger row, with its accounts locked
\* until its COMMIT: no earlier than the times of the committed rows of these accounts.
BeforeInsert == {"idle", "connect", "lock1", "lock2", "debit", "credit"}
Share(p, q) == {Sender(p), Receiver(p)} \cap {Sender(q), Receiver(q)} # {}
IsLast(q) == \A p \in Request : db[p] # NoRow /\ Share(p, q) => stamp[p] <= stamp[q]
StampsAreOrdered ==
    /\ now \in Nat
    /\ stamp \in [Request -> (0..now) \cup {None}]
    /\ \A q \in Request :
         /\ pc[q] \in BeforeInsert => stamp[q] = None
         /\ call[q].kind = "transfer" /\ pc[q] = "commit" => stamp[q] # None
         /\ db[q] # NoRow => stamp[q] # None
         /\ call[q].kind = "transfer" /\ pc[q] \in {"insert", "commit"} /\ stamp[q] # None
              => IsLast(q)

\* Whether an administrator has asked for ledger row q to be erased.
ToBeErased(q) == \E e \in Request : call[e].kind = "erase" /\ call[e].entry = q

\* What tables t say of the transfer q: the row, with its sender, and its receiver
\* unless that account is gone.
Recounts(t, q) ==
    /\ t[q] # NoRow /\ t[q].from = Sender(q)
    /\ t[q].to \in {Receiver(q), Null}
    /\ t[q].to = Null => t[Receiver(q)] = NoRow

IsReader(k) ==
    /\ k = [call |-> k.call, pc |-> k.pc, view |-> k.view, found |-> k.found,
            shown |-> k.shown, answer |-> k.answer, paid |-> k.paid, whole |-> k.whole]
    /\ k.call \in ReadCall /\ k.paid \subseteq Request /\ k.whole \in BOOLEAN

\* A reader has no answer before it is done, no snapshot before its first SELECT, and
\* what had been paid when it asked stays paid.
ReadsInOrder(k) ==
    /\ k.pc \in Reading \cup {"idle", "connect"} => k.answer = "none"
    /\ k.pc \in {"idle", "connect", "first"} => k.view = None
    /\ k.pc \in {"idle", "connect", "first"} => k.paid \subseteq AnsweredPaid

\* A reader of one row has found a row of its transfer; while it reads one snapshot,
\* the accounts the row names are in it.
HasFound(k) ==
    k.call.kind = "entry" /\ k.pc \in {"second", "third"} =>
       /\ call[k.call.entry].kind = "transfer"
       /\ k.found.from = Sender(k.call.entry)
       /\ k.found.to \in {Receiver(k.call.entry), Null}
       /\ k.pc = "third" => k.found.to # Null
       /\ k.whole => /\ k.view # None
                     /\ k.view[k.found.from] # NoRow
                     /\ k.found.to # Null => k.view[k.found.to] # NoRow
                     /\ k.pc = "third" => k.call.actor # Owner[k.found.from]

\* The snapshot of a reader of a listing holds the account, and what had been paid.
HoldsThePaid(k) ==
    k.call.kind = "history" /\ k.pc = "second" /\ k.whole =>
       /\ k.view # None /\ k.view[RowOf[k.call.account]] # NoRow
       /\ \A q \in k.paid : Recounts(k.view, q) \/ ToBeErased(q)

ReadersFit ==
    /\ reader = [x \in Reader |-> reader[x]]
    /\ \A x \in Reader : /\ IsReader(reader[x]) /\ ReadsInOrder(reader[x])
                         /\ HasFound(reader[x]) /\ HoldsThePaid(reader[x])

ListingsInvariant ==
    /\ PartiesAreKept
    /\ StampsAreOrdered
    /\ ReadersFit
    /\ PaidIsListed
    /\ PartiesSeeTheirEntry
=============================================================================
