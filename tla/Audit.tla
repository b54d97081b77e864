------------------------------- MODULE Audit -------------------------------
(***************************************************************************)
(* The audit tool (cmd/audit) at work on the API: it fetches four lists    *)
(* with four requests, one after the other, and joins them into a report.  *)
(* Nothing holds the state still in between.  A request is two read-locked *)
(* sections, the authentication and the handler's; the handlers are those  *)
(* that list teams, certificates, keys and statuses (internal/app/api).    *)
(*                                                                         *)
(* What a status says is a matter of the files, see Serving; here it is    *)
(* there or not.  Formatting is left out.                                  *)
(***************************************************************************)
EXTENDS ControlPlane

CONSTANT Tokens \* of the auditors: static keys, and ids of dynamic ones

Lists == {"teams", "certs", "keys", "statuses"}

ASSUME TokensAssumption ==
  /\ Tokens \subseteq StaticKeys \cup KeyIds /\ StaticKeys \cap KeyIds = {}

VARIABLES
  token,   \* the token of this audit
  list,    \* the list being fetched, "idle" or "report"
  caller,  \* the key the request under way has authenticated with
  data,    \* AuditData
  changed  \* history: ids that have changed since the audit began

audit == <<token, list, caller, data, changed>>
auditVars == <<vars, audit>>

NoData == [teams |-> {}, certs |-> [c \in AnyCert |-> None], keys |-> {},
           statuses |-> {}]

AuditTypeOK ==
  /\ token \in StaticKeys \cup KeyIds \cup {None}
  /\ list \in Lists \cup {"idle", "report"}
  /\ caller \in KeyType \cup {None}
  /\ data \in [teams : SUBSET Teams, certs : [AnyCert -> Teams \cup {None}],
               keys : SUBSET KeyType, statuses : SUBSET AnyCert]
  /\ changed \subseteq CertIds \cup KeyIds \cup TeamIds
  /\ caller # None => list \in Lists

AuditInit ==
  /\ Init
  /\ token = None /\ list = "idle" /\ caller = None /\ data = NoData
  /\ changed = {}

-----------------------------------------------------------------------------
(* runAudit *)

Begin ==
  /\ list = "idle"
  /\ token' \in Tokens
  /\ list' = "teams"
  /\ UNCHANGED <<caller, data, changed>>

KeyOf(t) == IF t \in KeyIds THEN state.keys[t] ELSE t

(* resolveToken and Authenticate: the configuration is for admins only. *)
LogIn ==
  /\ list \in Lists /\ caller = None /\ lock = None
  /\ KeyOf(token) # None
  /\ list = "statuses" \/ KeyOf(token).admin
  /\ caller' = KeyOf(token)
  /\ UNCHANGED <<token, list, data, changed>>

-----------------------------------------------------------------------------
(* What the handlers let a caller see. *)

VisibleTeams(k) ==
  {t \in AllTeams(state) : t = System \/ inScope(k.teams, t)}

(* Mutant: the list of certificates is not filtered. *)
AllListed(k) == AllCertificates(state)

ListedCerts(k) ==
  [c \in AnyCert |-> LET team == AllCertificates(state)[c] IN
                     IF team # None /\ inScope(k.teams, team) THEN team ELSE None]

ListedKeys(k) == {key \in AllAPIKeys(state) : canManageKey(k.teams, key)}

(* Mutant: admins get statuses by the certificates of their key as well. *)
AccessByCerts(k, c, team) ==
  /\ c \in k.certs
  /\ k.teams = {} \/ team \in k.teams

checkCertAccess(k, c, team) ==
  /\ k.admin => inScope(k.teams, team)
  /\ ~k.admin => (k.certs = {} \/ c \in k.certs) /\ team \in k.teams

(* Mutant: there is a status for every dynamic resource. *)
EveryStatus(k) == Present(state)

VisibleStatuses(k) ==
  {c \in AnyCert : /\ AllCertificates(state)[c] # None
                   /\ checkCertAccess(k, c, AllCertificates(state)[c])}

-----------------------------------------------------------------------------
(* fetchAuditData *)

Fetch(from, to) ==
  /\ list = from /\ caller # None /\ lock = None
  /\ list' = to
  /\ caller' = None
  /\ UNCHANGED <<token, changed>>

FetchTeams ==
  Fetch("teams", "certs") /\ data' = [data EXCEPT !.teams = VisibleTeams(caller)]

FetchCerts ==
  Fetch("certs", "keys") /\ data' = [data EXCEPT !.certs = ListedCerts(caller)]

FetchKeys ==
  Fetch("keys", "statuses") /\ data' = [data EXCEPT !.keys = ListedKeys(caller)]

FetchStatuses ==
  /\ Fetch("statuses", "report")
  /\ data' = [data EXCEPT !.statuses = VisibleStatuses(caller)]

(* The report is written; or an answer is not 200, does not come within    *)
(* the 15 seconds for all four, or cannot be read, and there is none.      *)
Exit ==
  /\ list # "idle"
  /\ token' = None /\ list' = "idle" /\ caller' = None /\ data' = NoData
  /\ changed' = {}

Auditor ==
  /\ Begin \/ LogIn \/ FetchTeams \/ FetchCerts \/ FetchKeys \/ FetchStatuses \/ Exit
  /\ UNCHANGED vars

(* The API goes on, and may be restarted, meanwhile. *)
Differing(s, t) ==
       {c \in CertIds : s.certs[c] # t.certs[c]}
  \cup {k \in KeyIds : s.keys[k] # t.keys[k]}
  \cup (s.teams \ t.teams) \cup (t.teams \ s.teams)

Meanwhile ==
  /\ Next
  /\ changed' = IF list = "idle" THEN {} ELSE changed \cup Differing(state, state')
  /\ UNCHANGED <<token, list, caller, data>>

AuditNext == Auditor \/ Meanwhile

AuditSpec == AuditInit /\ [][AuditNext]_auditVars

-----------------------------------------------------------------------------
(* buildHTMLReportView: a row for every certificate of the list, with the  *)
(* status of the same id.                                                  *)

Rows == {c \in AnyCert : data.certs[c] # None}
Unavailable == Rows \ data.statuses

-----------------------------------------------------------------------------
(* Properties *)

(* A row says "status unavailable" only if the certificate was changed or  *)
(* deleted while the audit was under way, or the key of the auditor was;   *)
(* four requests at four moments are else as good as one.                  *)
UnavailableMeansChanged ==
  (list = "report" /\ token \notin changed) => Unavailable \subseteq changed

(* Where all static admins are confined to teams, no audit with any key,   *)
(* even one that is changed between two requests, shows a certificate, a   *)
(* status, a key or a team beyond those teams.                             *)
ReportConfined ==
  NoStaticRoot =>
    /\ data.teams \subseteq Delegated \cup {System}
    /\ \A c \in AnyCert : data.certs[c] \in Delegated \cup {None}
    /\ \A k \in data.keys : /\ k.teams \subseteq Delegated
                            /\ k.admin => k.teams # {}
    /\ \A c \in data.statuses \ CertIds : StaticCerts[c] \in Delegated
=============================================================================
