------------------------------ MODULE MCCerter ------------------------------
(* Certer on a small instance. *)
EXTENDS Certer, TLC

CONSTANTS a, b

OneName == (a :> 1) @@ (b :> 0)
OneList == {OneName}
CertKinds == {"PostCert", "DelCert"}
NoCerts == <<>>
Root == [admin |-> TRUE, teams |-> {}, certs |-> {}]
RootOnly == {Root}
KeySymmetry == Permutations(Keys)
=============================================================================
