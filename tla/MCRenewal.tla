----------------------------- MODULE MCRenewal -----------------------------
(* Renewal on small instances: values for the lists of domains. *)
EXTENDS Renewal, TLC

CONSTANTS a, b

OneName == (a :> 1) @@ (b :> 0)
TwoNames == (a :> 1) @@ (b :> 1)

PlainLists == {OneName, TwoNames}

KeySymmetry == Permutations(Keys)
=============================================================================
