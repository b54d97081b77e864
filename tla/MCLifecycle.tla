---------------------------- MODULE MCLifecycle ----------------------------
(* Lifecycle on a small instance: a certificate and a key, one static      *)
(* certificate, intervals below, within and above what a ticker takes.     *)
EXTENDS Lifecycle, TLC

CONSTANT s1

SomeConfigs == {[static |-> {s1}, email |-> TRUE, interval |-> 1],
                [static |-> {s1, None}, email |-> TRUE, interval |-> 1],
                [static |-> {s1}, email |-> FALSE, interval |-> -1]}
SomeEnvs == {[email |-> FALSE, interval |-> None],
             [email |-> TRUE, interval |-> None],
             [email |-> TRUE, interval |-> 0]}

IdSymmetry == Permutations(Ids)
=============================================================================
