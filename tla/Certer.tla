------------------------------- MODULE Certer -------------------------------
(***************************************************************************)
(* One process: the configuration API and the certificate scheduler with   *)
(* all their steps side by side, as cmd/server/main.go puts them together. *)
(* They meet where a request reloads the scheduler under the lock of the   *)
(* API, and where the process ends and starts again.                       *)
(*                                                                         *)
(* ControlPlane leaves the domains of a certificate out, so a reload hands *)
(* over the ids that the API has, each with any list of domains.           *)
(***************************************************************************)
EXTENDS ControlPlane

CONSTANTS
  DomainLists, Keys, Loop, Reloads, Absent, \* see Renewal
  Mishaps                                   \* the Faults of Renewal

VARIABLES
  certificates, configured, crt, key, expiring, \* see Renewal, whose used and
  stage, left, cur, held, linked, listing,      \* pc are configured and stage
  frayed, outrun

Scheduler == INSTANCE Renewal
               WITH Ids <- AnyCert, Faults <- Mishaps, used <- configured,
                    pc <- stage

scheduler == <<certificates, configured, crt, key, expiring, stage, left, cur,
               held, linked, listing, frayed, outrun>>
certerVars == <<vars, scheduler>>

(* A process that was given an e-mail address has a scheduler. *)
ASSUME EmailAssumption == "email" \notin Faults

(* The assumptions of Renewal. *)
ASSUME PassesAssumption == Loop \notin Reloads
ASSUME FilesAssumption ==
  /\ None \notin AnyCert \cup DomainLists \cup Scheduler!Contents \cup {Torn}
  /\ Absent \notin Keys \cup Scheduler!Contents \cup {Torn}
  /\ Torn \notin Keys \cup Scheduler!Contents

(* AllCertificates of what the scheduler was last given. *)
Handed == Listed \cup DOMAIN StaticCerts

CerterInit ==
  /\ Init
  /\ Scheduler!Init
  /\ Scheduler!Configured = Handed

(* What a request does short of its reload. *)
APIStep ==
  /\ \E r \in Clients :
       \/ Arrive(r) \/ Check(r) \/ Commit(r)
       \/ OpenFile(r) \/ WriteFile(r) \/ SaveFails(r)
  /\ UNCHANGED scheduler

(* saveAndReloadLocked calls ReloadConfig with AllCertificates. *)
HandOver ==
  /\ \E r \in Clients, p \in Reloads : Reload(r) /\ Scheduler!TakeList(p)
  /\ Scheduler!Configured' = Handed'

(* The passes and the clock. *)
Pass ==
  /\ \/ Scheduler!Tick
     \/ \E p \in Scheduler!Passes : Scheduler!PassStep(p) \/ Scheduler!Failure(p)
     \/ Scheduler!Age
  /\ UNCHANGED vars

(* The process ends, with its requests and its passes, and starts again.   *)
ProcessRestart ==
  /\ Restart /\ Scheduler!Restart
  /\ Scheduler!Configured' = Handed'

CerterNext == APIStep \/ HandOver \/ Pass \/ ProcessRestart

CerterSpec == CerterInit /\ [][CerterNext]_certerVars

-----------------------------------------------------------------------------
(* Properties *)

(* The files of a certificate that the API lists stay: no cleanup, however *)
(* old its listing of the directory, removes them, over failed saves whose *)
(* changes the scheduler has not seen, and over restarts.                  *)
FilesFollowAPI ==
  [][\A c \in AnyCert : AllCertificates(state)[c] # None
       => /\ crt[c] # Absent => crt'[c] # Absent
          /\ key[c] # Absent => key'[c] # Absent]_certerVars

(* Beside this API the scheduler behaves as Renewal says, which takes the  *)
(* contract of CertificateList for granted.                                *)
SchedulerAsModelled == Scheduler!Spec
=============================================================================
