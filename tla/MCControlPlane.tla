-------------------------- MODULE MCControlPlane --------------------------
(* ControlPlane on small instances: a root key of config.json, and the     *)
(* bodies that POST and PUT may carry.                                     *)
EXTENDS ControlPlane, TLC

CONSTANTS c1, t1

AllKinds == {"PostCert", "PutCert", "DelCert", "PostKey", "PutKey", "DelKey",
             "PostTeam", "PutTeam", "DelTeam"}
KeyKinds == {"PostCert", "DelCert", "PostKey", "PutKey", "DelKey"}

NoCerts == <<>>

Root == [admin |-> TRUE, teams |-> {}, certs |-> {}]
Admin(teams) == [admin |-> TRUE, teams |-> teams, certs |-> {}]
Fetch(teams, certs) == [admin |-> FALSE, teams |-> teams, certs |-> certs]

RootOnly == {Root}

TeamBodies == {Admin({t1}), Fetch({System, t1}, {c1})}
CertBodies == {Fetch({System}, {c1})}
ClientSymmetry == Permutations(Clients)
=============================================================================
