---------------------------- MODULE MCFactoryCli ----------------------------
(* Two clones of one project, and one worker.                               *)
EXTENDS FactoryCli, TLC

CONSTANTS c1, c2, n1, w1
MCCheckouts == {c1, c2}
MCNameOf == (c1 :> n1) @@ (c2 :> n1)
MCWorkers == {w1}
=============================================================================
