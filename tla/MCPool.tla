------------------------------- MODULE MCPool -------------------------------
(***************************************************************************)
(* Small instances of Pool: three blocks on two connections.               *)
(***************************************************************************)
EXTENDS Pool, TLC

CONSTANTS b1, b2, b3

Blocks(x, y, z) == (b1 :> x) @@ (b2 :> y) @@ (b3 :> z)

\* What a read leaves behind and what it finds, and a probe beside units of work.
MCMix == {Blocks("read", "work", "read"), Blocks("work", "work", "probe")}
=============================================================================
