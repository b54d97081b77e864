------------------------------ MODULE MCAudit ------------------------------
(* Audit on a small instance: an admin of two teams, the auditor has its   *)
(* key or one that the admin has made.                                     *)
EXTENDS Audit, TLC

CONSTANTS s1, s2, sc, k1

Kinds6 == {"PostCert", "PutCert", "DelCert", "PostKey", "PutKey", "DelKey"}
ClientSymmetry == Permutations(Clients)

StaticCert == (sc :> System)
Root == [admin |-> TRUE, teams |-> {}, certs |-> {}]
Admin(teams) == [admin |-> TRUE, teams |-> teams, certs |-> {}]
FetchKey(teams, certs) == [admin |-> FALSE, teams |-> teams, certs |-> certs]

TwoTeams == {Admin({s1, s2})}
SomeBodies == {Root, Admin({s1}), FetchKey({s1}, {}), FetchKey({System}, {})}
=============================================================================
