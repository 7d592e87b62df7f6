------------------------------- MODULE MCDesk -------------------------------
(***************************************************************************)
(* A small instance of Desk: one user, who is now an administrator and now *)
(* a customer.                                                             *)
(***************************************************************************)
EXTENDS Desk, TLC

CONSTANTS p1, p2, ann, bob

U(password, role, customer) == [password |-> password, role |-> role, customer |-> customer]
MCUserRow == {U(p1, "ADMIN", None), U(p2, "USER", ann)}
Symmetry == Permutations(Client) \cup Permutations(Ticket) \cup Permutations(Employee)
=============================================================================
