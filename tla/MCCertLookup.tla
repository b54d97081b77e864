---------------------------- MODULE MCCertLookup ----------------------------
(* CertLookup on a small instance: every list of at most three             *)
(* certificates out of eighteen, whose ids, one of them that of a static   *)
(* certificate named like its domain, come in every order.                 *)
EXTENDS CertLookup, FiniteSets, SequencesExt

old == <<"0196">>
new == <<"0197">>
ex == <<"ex">>
a_ex == <<"a", "ex">>
b_a_ex == <<"b", "a", "ex">>
any_ex == <<"*", "ex">>

AllLabels == {"0196", "0197", "a", "b", "ex", "*"}
InOrder == <<any_ex, old, new, a_ex, b_a_ex, ex>>
SomeNames == ToSet(InOrder)
Position == [name \in SomeNames |-> CHOOSE r \in 1..6 : InOrder[r] = name]

Domains == {[primary |-> a_ex, sans |-> {}],
            [primary |-> ex, sans |-> {a_ex}],
            [primary |-> ex, sans |-> {b_a_ex, any_ex}]}
SomeCerts == {[id |-> i, primary |-> d.primary, sans |-> d.sans, team |-> t] :
                i \in {old, new, a_ex}, d \in Domains, t \in Teams}
SomeLists == SeqOf(SomeCerts, 3)

SomeKeys == {[admin |-> TRUE, teams |-> {}, certs |-> {}],
             [admin |-> FALSE, teams |-> {"t1"}, certs |-> {}],
             [admin |-> FALSE, teams |-> Teams, certs |-> {old, a_ex}]}
=============================================================================
