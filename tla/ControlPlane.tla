---------------------------- MODULE ControlPlane ----------------------------
(***************************************************************************)
(* The configuration API: the handlers that change certificates, API keys  *)
(* and teams (internal/app/api), the state they share under Server.mu, the *)
(* state file of internal/app/config and the scheduler's list.             *)
(*                                                                         *)
(* A request validates its payload in read-locked sections of their own,   *)
(* then takes the write lock, looks the resource up, changes the state,    *)
(* saves it and reloads the scheduler, and releases the lock.  A           *)
(* read-locked section is one step, possible when no writer holds the      *)
(* lock; os.WriteFile is two steps, the file is truncated, then filled.    *)
(*                                                                         *)
(* Names, descriptions, domains and tokens are left out: a certificate is  *)
(* its id and team, a key its id, admin flag and scopes, a team its id.    *)
(***************************************************************************)

CONSTANTS
  CertIds, KeyIds, TeamIds, \* ids of dynamic resources, each given out once
  System,                   \* the team of AllTeams that always exists
  StaticCerts,              \* static certificates: function from id to team
  StaticKeys,               \* static API keys
  StaticTeams,              \* ids of static teams
  Bodies,                   \* keys as POST and PUT bodies describe them
  Kinds,                    \* the handlers that requests may call
  Clients,                  \* requests that may be under way at once
  Faults,                   \* out of {"save", "restart", "email"}
  None, Torn

Teams == {System} \cup StaticTeams \cup TeamIds
AnyCert == CertIds \cup DOMAIN StaticCerts
KeyType == [admin : BOOLEAN, teams : SUBSET Teams, certs : SUBSET AnyCert]
StateType == [certs : [CertIds -> Teams \cup {None}],
              keys  : [KeyIds -> KeyType \cup {None}],
              teams : SUBSET TeamIds]
Request ==
       [kind : {"PostCert"}, team : Teams]
  \cup [kind : {"PutCert"}, id : CertIds, team : Teams]
  \cup [kind : {"DelCert"}, id : CertIds]
  \cup [kind : {"PostKey"}, key : Bodies]
  \cup [kind : {"PutKey"}, id : KeyIds, key : Bodies]
  \cup [kind : {"DelKey"}, id : KeyIds]
  \cup [kind : {"PostTeam"}]
  \cup [kind : {"PutTeam", "DelTeam"}, id : TeamIds]

ASSUME StaticAssumption ==
  /\ StaticCerts \in [DOMAIN StaticCerts -> Teams]
  /\ DOMAIN StaticCerts \cap CertIds = {}
  /\ StaticKeys \cup Bodies \subseteq KeyType
  /\ ({System} \cup StaticTeams) \cap TeamIds = {}
  /\ CertIds \cap KeyIds = {} /\ (CertIds \cup KeyIds) \cap TeamIds = {}
ASSUME NoneAssumption ==
  /\ None \notin Teams \cup KeyType \cup Clients \cup Request
  /\ None \notin [CertIds -> Teams \cup {None}]
  /\ Torn \notin StateType

VARIABLES
  state,   \* Config.State
  disk,    \* the state file
  sched,   \* Scheduler.certificates, its dynamic part; None without scheduler
  lock,    \* the writer that holds Server.mu
  pc, req, \* where each request is, and what it asks
  scope,   \* allowed teams of the key it authenticated with; {} is root
  used,    \* every id ever generated
  behind,  \* history: the last save failed
  raced    \* history: teams deleted while a request that names them, and
           \* had found them, was under way

vars == <<state, disk, sched, lock, pc, req, scope, used, behind, raced>>

NoState == [certs |-> [c \in CertIds |-> None], keys |-> [k \in KeyIds |-> None],
            teams |-> {}]

Present(s) == {c \in CertIds : s.certs[c] # None}
         \cup {k \in KeyIds : s.keys[k] # None} \cup s.teams

PcValues == {"idle", "authenticate", "teams", "certs", "commit", "open", "write",
             "reload"}

TypeOK ==
  /\ state \in StateType /\ Present(state) \subseteq used
  /\ disk \in StateType \cup {Torn}
  /\ sched \in [CertIds -> Teams \cup {None}] \cup {None}
  /\ lock \in Clients \cup {None}
  /\ pc \in [Clients -> PcValues]
  /\ req \in [Clients -> Request \cup {None}]
  /\ scope \in [Clients -> SUBSET Teams]
  /\ used \subseteq CertIds \cup KeyIds \cup TeamIds
  /\ behind \in BOOLEAN
  /\ raced \subseteq TeamIds

(* main starts a scheduler with the list of certificates, unless           *)
(* ACME_EMAIL is not configured.                                           *)
StartedWith(certs) == {certs} \cup (IF "email" \in Faults THEN {None} ELSE {})

Init ==
  /\ state = NoState /\ disk = NoState
  /\ sched \in StartedWith(NoState.certs)
  /\ lock = None
  /\ pc = [r \in Clients |-> "idle"]
  /\ req = [r \in Clients |-> None]
  /\ scope = [r \in Clients |-> {}]
  /\ used = {}
  /\ behind = FALSE
  /\ raced = {}

-----------------------------------------------------------------------------
(* Static and dynamic resources together, and the rules on scopes. *)

AllTeams(s) == {System} \cup StaticTeams \cup s.teams

AllCertificates(s) ==
  [c \in AnyCert |-> IF c \in CertIds THEN s.certs[c] ELSE StaticCerts[c]]

AllAPIKeys(s) == StaticKeys \cup {s.keys[k] : k \in {k \in KeyIds : s.keys[k] # None}}

(* Mutant: a scoped admin may hand out any scope but root's. *)
canManageUnscoped(teams, key) == teams = {} \/ ~(key.admin /\ key.teams = {})

canManageKey(teams, key) ==
  \/ teams = {}
  \/ ~(key.admin /\ key.teams = {}) /\ key.teams \subseteq teams

inScope(teams, team) == teams = {} \/ team \in teams

areCertificatesValidForTeams(s, key) ==
  \A c \in key.certs :
    /\ AllCertificates(s)[c] # None
    /\ key.teams = {} \/ AllCertificates(s)[c] \in key.teams

(* Mutant: the check before a deletion forgets the keys. *)
InUseByCertificates(s, t) == \E c \in AnyCert : AllCertificates(s)[c] = t

InUse(s, t) ==
  \/ \E c \in AnyCert : AllCertificates(s)[c] = t
  \/ \E key \in AllAPIKeys(s) : t \in key.teams

(* The checks a handler makes before it takes any lock. *)
Admitted(q, teams) ==
  /\ q.kind = "PostCert" => inScope(teams, q.team)
  /\ q.kind = "PostKey" => canManageKey(teams, q.key)
  /\ q.kind \in {"PostTeam", "PutTeam", "DelTeam"} => teams = {}

-----------------------------------------------------------------------------
(* Before the write lock. *)

Go(r, where) == pc' = [pc EXCEPT ![r] = where]

(* The request is answered and forgotten. *)
Answer(r) ==
  /\ Go(r, "idle")
  /\ req' = [req EXCEPT ![r] = None]
  /\ scope' = [scope EXCEPT ![r] = {}]

(* Requests that name a static resource are turned away by checkStatic and *)
(* change nothing, so they are left out.                                   *)
Arrive(r) ==
  /\ pc[r] = "idle"
  /\ \E q \in Request : q.kind \in Kinds /\ req' = [req EXCEPT ![r] = q]
  /\ Go(r, "authenticate")
  /\ UNCHANGED <<state, disk, sched, lock, scope, used, behind, raced>>

(* Authenticate: an admin key that exists now, and its teams from here on. *)
Authenticate(r) ==
  /\ pc[r] = "authenticate" /\ lock = None
  /\ \E key \in AllAPIKeys(state) :
       /\ key.admin /\ Admitted(req[r], key.teams)
       /\ scope' = [scope EXCEPT ![r] = key.teams]
  /\ Go(r, IF req[r].kind \in {"PostCert", "PutCert", "PostKey", "PutKey"}
           THEN "teams" ELSE "commit")
  /\ UNCHANGED <<state, disk, sched, lock, req, used, behind, raced>>

(* A missing, unknown or fetch token, or a scope that does not fit. *)
Deny(r) ==
  /\ pc[r] = "authenticate" /\ lock = None
  /\ Answer(r)
  /\ UNCHANGED <<state, disk, sched, lock, used, behind, raced>>

TeamsNamed(q) ==
  CASE q.kind \in {"PostKey", "PutKey"} -> q.key.teams
    [] q.kind \in {"PostCert", "PutCert"} -> {q.team}
    [] OTHER -> {}

(* isValidTeam and areTeamsValid under the read lock. *)
CheckTeams(r) ==
  /\ pc[r] = "teams" /\ lock = None
  /\ IF TeamsNamed(req[r]) \subseteq AllTeams(state)
       THEN /\ Go(r, IF req[r].kind \in {"PostKey", "PutKey"}
                     THEN "certs" ELSE "commit")
            /\ UNCHANGED <<req, scope>>
       ELSE Answer(r)
  /\ UNCHANGED <<state, disk, sched, lock, used, behind, raced>>

(* areCertificatesValidForTeams, in a read-locked section of its own. *)
CheckCerts(r) ==
  /\ pc[r] = "certs" /\ lock = None
  /\ IF areCertificatesValidForTeams(state, req[r].key)
       THEN Go(r, "commit") /\ UNCHANGED <<req, scope>>
       ELSE Answer(r)
  /\ UNCHANGED <<state, disk, sched, lock, used, behind, raced>>

-----------------------------------------------------------------------------
(* Under the write lock: look up, authorise, change. *)

(* Mutant: PUT creates the certificate it does not find. *)
UpsertFound(q) ==
  IF q.kind \in {"PostCert", "PutCert", "PostKey", "PostTeam"} THEN TRUE
  ELSE q.id \in Present(state)

Found(q) ==
  CASE q.kind \in {"PutCert", "DelCert"} -> state.certs[q.id] # None
    [] q.kind \in {"PutKey", "DelKey"} -> state.keys[q.id] # None
    [] q.kind \in {"PutTeam", "DelTeam"} -> q.id \in state.teams
    [] OTHER -> TRUE

(* Mutant: PUT looks at the team a certificate gets, not at the one it has.*)
AuthorisedForNew(q, teams) ==
  /\ q.kind = "DelCert" => inScope(teams, state.certs[q.id])
  /\ q.kind = "PutCert" => inScope(teams, q.team)
  /\ q.kind \in {"PutKey", "DelKey"} => canManageKey(teams, state.keys[q.id])
  /\ q.kind = "PutKey" => canManageKey(teams, q.key)
  /\ q.kind = "DelTeam" => ~InUse(state, q.id)

(* authCheck and preDeleteCheck. *)
Authorised(q, teams) ==
  /\ q.kind \in {"PutCert", "DelCert"} => inScope(teams, state.certs[q.id])
  /\ q.kind = "PutCert" => inScope(teams, q.team)
  /\ q.kind \in {"PutKey", "DelKey"} => canManageKey(teams, state.keys[q.id])
  /\ q.kind = "PutKey" => canManageKey(teams, q.key)
  /\ q.kind = "DelTeam" => ~InUse(state, q.id)

Accepted(q, teams) == Found(q) /\ Authorised(q, teams)

Commits(r, kind) ==
  /\ pc[r] = "commit" /\ lock = None
  /\ req[r].kind = kind
  /\ Accepted(req[r], scope[r])

(* The teams a change takes away from under requests that had found them. *)
Overtaken(s) ==
  {t \in state.teams \ s.teams :
     \E q \in Clients : pc[q] \in {"certs", "commit"} /\ t \in TeamsNamed(req[q])}

(* The resource changes in memory and the lock is kept for the save. *)
Change(r, s) ==
  /\ state' = s
  /\ raced' = raced \cup Overtaken(s)
  /\ lock' = r
  /\ Go(r, "open")
  /\ UNCHANGED <<disk, sched, req, scope, behind>>

(* Mutant: the id is unique among the resources that exist, not for ever. *)
UnusedNow(ids) == ids \ Present(state)

(* GenerateUUIDv7 *)
Fresh(ids) == ids \ used

PostCert(r) ==
  /\ Commits(r, "PostCert")
  /\ \E c \in Fresh(CertIds) :
       /\ Change(r, [state EXCEPT !.certs[c] = req[r].team])
       /\ used' = used \cup {c}

PutCert(r) ==
  /\ Commits(r, "PutCert")
  /\ Change(r, [state EXCEPT !.certs[req[r].id] = req[r].team])
  /\ UNCHANGED used

DelCert(r) ==
  /\ Commits(r, "DelCert")
  /\ Change(r, [state EXCEPT !.certs[req[r].id] = None])
  /\ UNCHANGED used

PostKey(r) ==
  /\ Commits(r, "PostKey")
  /\ \E k \in Fresh(KeyIds) :
       /\ Change(r, [state EXCEPT !.keys[k] = req[r].key])
       /\ used' = used \cup {k}

PutKey(r) ==
  /\ Commits(r, "PutKey")
  /\ Change(r, [state EXCEPT !.keys[req[r].id] = req[r].key])
  /\ UNCHANGED used

DelKey(r) ==
  /\ Commits(r, "DelKey")
  /\ Change(r, [state EXCEPT !.keys[req[r].id] = None])
  /\ UNCHANGED used

PostTeam(r) ==
  /\ Commits(r, "PostTeam")
  /\ \E t \in Fresh(TeamIds) :
       /\ Change(r, [state EXCEPT !.teams = @ \cup {t}])
       /\ used' = used \cup {t}

(* Only the name and the description change. *)
PutTeam(r) ==
  /\ Commits(r, "PutTeam")
  /\ Change(r, state)
  /\ UNCHANGED used

DelTeam(r) ==
  /\ Commits(r, "DelTeam")
  /\ Change(r, [state EXCEPT !.teams = @ \ {req[r].id}])
  /\ UNCHANGED used

(* Not found, or not allowed; or no id can be generated. *)
Refuse(r) ==
  /\ pc[r] = "commit" /\ lock = None
  /\ \/ ~Accepted(req[r], scope[r])
     \/ req[r].kind \in {"PostCert", "PostKey", "PostTeam"}
  /\ Answer(r)
  /\ UNCHANGED <<state, disk, sched, lock, used, behind, raced>>

-----------------------------------------------------------------------------
(* saveAndReloadLocked *)

OpenFile(r) ==
  /\ pc[r] = "open"
  /\ disk' = Torn
  /\ Go(r, "write")
  /\ UNCHANGED <<state, sched, lock, req, scope, used, behind, raced>>

(* Mutant: the lock is released before the scheduler is reloaded. *)
LockAfterSave(r) == None

LockWhileReloading(r) == r

WriteFile(r) ==
  /\ pc[r] = "write"
  /\ disk' = state
  /\ behind' = FALSE
  /\ lock' = LockWhileReloading(r)
  /\ Go(r, "reload")
  /\ UNCHANGED <<state, sched, req, scope, used, raced>>

(* Mutant: the error path keeps the lock. *)
LockKept(r) == lock

LockAfterError(r) == None

(* The file cannot be opened or filled: the change stays in memory, the    *)
(* scheduler keeps its list and the answer is an error.                    *)
SaveFails(r) ==
  /\ "save" \in Faults
  /\ pc[r] \in {"open", "write"}
  /\ behind' = TRUE
  /\ lock' = LockAfterError(r)
  /\ Answer(r)
  /\ UNCHANGED <<state, disk, sched, used, raced>>

Reload(r) ==
  /\ pc[r] = "reload" /\ sched # None
  /\ sched' = state.certs
  /\ lock' = None
  /\ Answer(r)
  /\ UNCHANGED <<state, disk, used, behind, raced>>

(* Without ACME_EMAIL main passes a nil *cert.Scheduler, which is not a    *)
(* nil ConfigReloader: the call panics, the server of net/http recovers,   *)
(* and nobody unlocks.                                                     *)
ReloadPanics(r) ==
  /\ pc[r] = "reload" /\ sched = None
  /\ Answer(r)
  /\ UNCHANGED <<state, disk, sched, lock, used, behind, raced>>

(* The process ends anywhere and Load reads the file; what does not parse  *)
(* is an empty state.                                                      *)
Loaded == IF disk = Torn THEN NoState ELSE disk

Restart ==
  /\ "restart" \in Faults
  /\ state' = Loaded
  /\ sched' \in StartedWith(Loaded.certs)
  /\ lock' = None
  /\ pc' = [r \in Clients |-> "idle"]
  /\ req' = [r \in Clients |-> None]
  /\ scope' = [r \in Clients |-> {}]
  /\ behind' = (disk = Torn)
  /\ UNCHANGED <<disk, used, raced>>

-----------------------------------------------------------------------------
Commit(r) ==
  \/ PostCert(r) \/ PutCert(r) \/ DelCert(r)
  \/ PostKey(r) \/ PutKey(r) \/ DelKey(r)
  \/ PostTeam(r) \/ PutTeam(r) \/ DelTeam(r)
  \/ Refuse(r)

Check(r) == Authenticate(r) \/ Deny(r) \/ CheckTeams(r) \/ CheckCerts(r)

Save(r) ==
  OpenFile(r) \/ WriteFile(r) \/ SaveFails(r) \/ Reload(r) \/ ReloadPanics(r)

Next ==
  \/ \E r \in Clients : Arrive(r) \/ Check(r) \/ Commit(r) \/ Save(r)
  \/ Restart

Spec == Init /\ [][Next]_vars

(* Server.mu is a sync.RWMutex, which lets every waiting reader and writer *)
(* in when the lock is released again and again; a writer keeps going.     *)
Fairness ==
  \A r \in Clients : /\ SF_vars(Check(r))
                     /\ SF_vars(Commit(r))
                     /\ WF_vars(Save(r))

FairSpec == Spec /\ Fairness

-----------------------------------------------------------------------------
(* Properties *)

(* "Fails if the team is still referenced by any certificates or API       *)
(* keys": every team that a certificate or a key names exists.             *)
NamesOnly(s, teams) ==
  /\ \A c \in CertIds : s.certs[c] \in teams \cup {None}
  /\ \A k \in KeyIds : s.keys[k] # None => s.keys[k].teams \subseteq teams

TeamsExist == NamesOnly(state, AllTeams(state))

(* What is left of that promise: a reference dangles only if the team was  *)
(* deleted while a request that names it was between its validation and    *)
(* its change.  No other order of requests, failed save or restart leaves  *)
(* a certificate or a key with a team that is gone.                        *)
DanglesOnlyIfRaced == NamesOnly(state, AllTeams(state) \cup raced)

(* Whenever the lock is free the state file, the state in memory and the   *)
(* list of the scheduler, if there is one, agree, unless the last save     *)
(* failed; so reloads reach the scheduler in the order of the changes.     *)
InSync ==
  (lock = None /\ ~behind) => disk = state /\ sched \in {state.certs, None}

(* saveAndReloadLocked releases the lock by hand on each of its paths: it  *)
(* is held exactly by the request that saves or reloads, and left behind   *)
(* only where the process has no scheduler.                                *)
Writing == {"open", "write", "reload"}

LockFollowed ==
  /\ \A r \in Clients : pc[r] \in Writing => lock = r
  /\ lock # None => pc[lock] \in Writing \/ sched = None

(* With static admin keys that are all confined to teams, no sequence of   *)
(* requests makes a key whose scope goes beyond those teams, or a          *)
(* certificate or a team outside them.                                     *)
Delegated == UNION {key.teams : key \in {key \in StaticKeys : key.admin}}

Within(s) ==
  /\ \A k \in KeyIds : s.keys[k] # None
       => /\ s.keys[k].teams \subseteq Delegated
          /\ s.keys[k].admin => s.keys[k].teams # {}
  /\ \A c \in CertIds : s.certs[c] \in Delegated \cup {None}
  /\ s.teams = {}

NoStaticRoot == \A key \in StaticKeys : key.admin => key.teams # {}

Confined == NoStaticRoot => Within(state)

(* Whoever's key is confined to teams changes nothing beyond them, also    *)
(* where other keys are not: not a certificate that another request has    *)
(* moved to another team since, nor a key that reaches further, nor teams. *)
Fits(key, teams) == key.teams \subseteq teams /\ (key.admin => key.teams # {})

ChangesWithin(teams) ==
  /\ \A c \in CertIds : state'.certs[c] # state.certs[c]
       => {state.certs[c], state'.certs[c]} \subseteq teams \cup {None}
  /\ \A k \in KeyIds : state'.keys[k] # state.keys[k]
       => \A key \in {state.keys[k], state'.keys[k]} \ {None} : Fits(key, teams)
  /\ state'.teams = state.teams

StaysInScope ==
  [][\A r \in Clients :
       (lock # r /\ lock' = r /\ scope[r] # {}) => ChangesWithin(scope[r])]_vars

(* A deleted certificate that a key still allows never comes back under    *)
(* that id: what dangles goes on dangling, as long as the process lives.   *)
NoRevival ==
  [][Restart \/ \A k \in KeyIds : state.keys[k] # None /\ state'.keys[k] = state.keys[k]
       => \A c \in state.keys[k].certs \cap CertIds :
            state.certs[c] = None => state'.certs[c] = None]_vars

(* The list of the scheduler keeps the contract of CertificateList: an id  *)
(* it has dropped never comes back, over failed saves, whose changes reach *)
(* the scheduler with a later one, and over restarts.  An id is spent when *)
(* the scheduler lists it or when it was given out and is gone.            *)
Listed == IF sched = None THEN {} ELSE {c \in CertIds : sched[c] # None}
Spent == Listed \cup ((used \cap CertIds) \ Present(state))

Contract == INSTANCE CertificateList
              WITH Ids <- CertIds, listed <- Listed, spent <- Spent

KeepsContract == Contract!Spec

(* Every request is answered, whatever the others do, provided that saves  *)
(* end.                                                                    *)
Answered == \A r \in Clients : pc[r] # "idle" ~> pc[r] = "idle"
=============================================================================
