----------------------------- MODULE MCServing -----------------------------
(* Serving on a small instance. *)
EXTENDS Serving, TLC

CONSTANTS a, b

OneName == (a :> 1) @@ (b :> 0)
OnlyOne == {OneName}

KeySymmetry == Permutations(Keys)
=============================================================================
