----------------------------- MODULE AuditProof -----------------------------
(* Theorems about Audit: what the report of an auditor may show, and what  *)
(* its four requests agree on, for any API traffic in between.             *)
EXTENDS Audit, ControlPlaneProof

(* The key a request runs with: the auditor's, as it was when the request  *)
(* began; an admin's but for the last list.                                *)
CallerOK ==
  caller # None =>
    /\ caller \in KeyType /\ token \in StaticKeys \cup KeyIds
    /\ token \in StaticKeys => caller = token
    /\ list # "statuses" => caller.admin
    /\ token \notin changed => caller = KeyOf(token)
    /\ NoStaticRoot /\ token \in KeyIds
         => /\ caller.teams \subseteq Delegated
            /\ caller.admin => caller.teams # {}

(* Who has got past the first list is an admin, if its key is as it was.   *)
Promoted ==
  list \in {"certs", "keys", "statuses", "report"} =>
    /\ token \in StaticKeys => token.admin
    /\ token \notin changed => KeyOf(token) \in KeyType /\ KeyOf(token).admin

(* A row still agrees with the state, as far as nothing has changed.       *)
RowsHold ==
  list \in {"keys", "statuses", "report"} /\ token \notin changed =>
    \A c \in Rows \ changed :
      /\ AllCertificates(state)[c] = data.certs[c]
      /\ inScope(KeyOf(token).teams, data.certs[c])

AuditInv ==
  /\ AuditTypeOK /\ CallerOK /\ Promoted /\ RowsHold
  /\ UnavailableMeansChanged /\ ReportConfined

-----------------------------------------------------------------------------
LEMMA NoDataFacts ==
  /\ NoData \in [teams : SUBSET Teams, certs : [AnyCert -> Teams \cup {None}],
                 keys : SUBSET KeyType, statuses : SUBSET AnyCert]
  /\ NoData.teams = {} /\ NoData.keys = {} /\ NoData.statuses = {}
  /\ \A c \in AnyCert : NoData.certs[c] = None
BY DEF NoData

(* Without an audit under way there is nothing to hold.                    *)
LEMMA IdleHolds ==
  ASSUME token = None, list = "idle", caller = None, data = NoData, changed = {}
  PROVE  AuditInv
<1>1. AuditTypeOK
  BY NoDataFacts DEF AuditTypeOK
<1>2. CallerOK /\ Promoted /\ RowsHold /\ UnavailableMeansChanged
  BY DEF CallerOK, Promoted, RowsHold, UnavailableMeansChanged
<1>3. ReportConfined
  BY NoDataFacts DEF ReportConfined
<1> QED
  BY <1>1, <1>2, <1>3 DEF AuditInv

LEMMA CertificatesTyped ==
  ASSUME Typed
  PROVE  /\ AllCertificates(state) \in [AnyCert -> Teams \cup {None}]
         /\ AllTeams(state) \subseteq Teams
         /\ AllAPIKeys(state) \subseteq KeyType
<1> USE StaticAssumption DEF Typed, TypeOK, StateType
<1>1. AllCertificates(state) \in [AnyCert -> Teams \cup {None}]
  BY DEF AllCertificates, AnyCert
<1>2. AllTeams(state) \subseteq Teams
  BY DEF AllTeams, Teams
<1>3. AllAPIKeys(state) \subseteq KeyType
  BY DEF AllAPIKeys
<1> QED
  BY <1>1, <1>2, <1>3

LEMMA BeginStep == ASSUME AuditInv, Begin PROVE AuditInv'
<1> USE DEF Begin, AuditInv
<1>1. /\ token' \in StaticKeys \cup KeyIds /\ list' = "teams" /\ caller = None
      /\ UNCHANGED <<caller, data, changed>>
  BY TokensAssumption DEF AuditTypeOK, Lists
<1>2. AuditTypeOK'
  BY <1>1 DEF AuditTypeOK, Lists
<1>3. (CallerOK /\ Promoted /\ RowsHold /\ UnavailableMeansChanged /\ ReportConfined)'
  BY <1>1 DEF CallerOK, Promoted, RowsHold, UnavailableMeansChanged, ReportConfined
<1> QED
  BY <1>2, <1>3

(* The key that resolveToken finds is one of those that exist.             *)
LEMMA LogInStep ==
  ASSUME Typed, Fenced, AuditInv, LogIn, UNCHANGED vars PROVE AuditInv'
<1> USE DEF AuditInv
<1>1. /\ list \in Lists /\ KeyOf(token) # None /\ caller' = KeyOf(token)
      /\ list = "statuses" \/ KeyOf(token).admin
      /\ UNCHANGED <<token, list, data, changed, state>>
  BY DEF LogIn, vars
<1>2. /\ caller' \in KeyType /\ token \in StaticKeys \cup KeyIds
      /\ token \in StaticKeys => caller' = token
  <2>1. CASE token \in KeyIds
    BY <1>1, <2>1, TokensAssumption DEF KeyOf, Typed, TypeOK, StateType
  <2>2. CASE token \in StaticKeys
    BY <1>1, <2>2, TokensAssumption, StaticAssumption DEF KeyOf
  <2>3. CASE token \notin StaticKeys \cup KeyIds
    BY <1>1, <2>3, NoneAssumption DEF KeyOf, AuditTypeOK
  <2> QED
    BY <2>1, <2>2, <2>3
<1>3. AuditTypeOK'
  BY <1>1, <1>2 DEF AuditTypeOK
<1>4. ASSUME NoStaticRoot, token \in KeyIds
      PROVE  /\ caller'.teams \subseteq Delegated
             /\ caller'.admin => caller'.teams # {}
  BY <1>1, <1>4 DEF KeyOf, Fenced, Within
<1>5. CallerOK'
  BY <1>1, <1>2, <1>4 DEF CallerOK, KeyOf, NoStaticRoot, Delegated
<1>6. (Promoted /\ RowsHold /\ UnavailableMeansChanged /\ ReportConfined)'
  BY <1>1 DEF Promoted, RowsHold, UnavailableMeansChanged, ReportConfined, KeyOf,
     Rows, Unavailable, AllCertificates, NoStaticRoot, Delegated
<1> QED
  BY <1>3, <1>5, <1>6

(* What a fetch leaves to the next one.                                    *)
LEMMA AnyFetch ==
  ASSUME AuditInv, NEW from \in Lists, NEW to \in Lists \cup {"report"},
         Fetch(from, to), UNCHANGED vars, from # "teams" \/ to = "certs",
         from # "statuses" \/ to = "report"
  PROVE  /\ CallerOK' /\ Promoted'
         /\ token' = token /\ changed' = changed /\ state' = state
         /\ list = from /\ list' = to /\ caller' = None
         /\ caller \in KeyType
         /\ token \notin changed => caller = KeyOf(token)
         /\ from # "statuses" => caller.admin
         /\ NoStaticRoot
              => /\ caller.teams \subseteq Delegated
                 /\ caller.admin => caller.teams # {}
<1> USE DEF AuditInv
<1>1. /\ token' = token /\ changed' = changed /\ state' = state
      /\ list = from /\ list' = to /\ caller # None /\ caller' = None
  BY DEF Fetch, vars
<1>2. /\ caller \in KeyType
      /\ token \in StaticKeys => caller = token
      /\ list # "statuses" => caller.admin
      /\ token \notin changed => caller = KeyOf(token)
  BY <1>1 DEF CallerOK
<1>3. CallerOK'
  BY <1>1 DEF CallerOK
<1>4. Promoted'
  BY <1>1, <1>2 DEF Promoted, Lists, KeyOf
<1>5. ASSUME NoStaticRoot, token \in StaticKeys
      PROVE  caller.teams \subseteq Delegated /\ caller.teams # {}
  <2>1. token.admin
    BY <1>1, <1>2, <1>5 DEF Promoted, Lists
  <2> QED
    BY <1>2, <1>5, <2>1 DEF NoStaticRoot, Delegated
<1>6. ASSUME NoStaticRoot, token \in KeyIds
      PROVE  /\ caller.teams \subseteq Delegated
             /\ caller.admin => caller.teams # {}
  BY <1>1, <1>6 DEF CallerOK
<1>7. token \in StaticKeys \cup KeyIds
  BY <1>1 DEF CallerOK
<1> QED
  BY <1>1, <1>2, <1>3, <1>4, <1>5, <1>6, <1>7

LEMMA FetchTeamsStep ==
  ASSUME Typed, AuditInv, FetchTeams, UNCHANGED vars PROVE AuditInv'
<1> USE DEF AuditInv
<1>1. Fetch("teams", "certs") /\ data' = [data EXCEPT !.teams = VisibleTeams(caller)]
  BY DEF FetchTeams
<1>2. /\ CallerOK' /\ Promoted' /\ caller \in KeyType /\ caller.admin
      /\ token' = token /\ changed' = changed /\ list' = "certs" /\ caller' = None
      /\ NoStaticRoot => caller.teams \subseteq Delegated /\ caller.teams # {}
  BY <1>1, AnyFetch DEF Lists
<1>3. VisibleTeams(caller) \subseteq Teams
  BY CertificatesTyped DEF VisibleTeams
<1>4. AuditTypeOK'
  BY <1>1, <1>2, <1>3 DEF AuditTypeOK, Lists
<1>5. RowsHold' /\ UnavailableMeansChanged'
  BY <1>2 DEF RowsHold, UnavailableMeansChanged
<1>6. ReportConfined'
  <2>1. NoStaticRoot => VisibleTeams(caller) \subseteq Delegated \cup {System}
    BY <1>2 DEF VisibleTeams, inScope
  <2> QED
    BY <1>1, <2>1 DEF ReportConfined, AuditTypeOK, NoStaticRoot, Delegated
<1> QED
  BY <1>2, <1>4, <1>5, <1>6

LEMMA FetchCertsStep ==
  ASSUME Typed, AuditInv, FetchCerts, UNCHANGED vars PROVE AuditInv'
<1> USE DEF AuditInv
<1>1. Fetch("certs", "keys") /\ data' = [data EXCEPT !.certs = ListedCerts(caller)]
  BY DEF FetchCerts
<1>2. /\ CallerOK' /\ Promoted' /\ caller \in KeyType /\ caller.admin
      /\ token' = token /\ changed' = changed /\ state' = state
      /\ list' = "keys" /\ caller' = None
      /\ token \notin changed => caller = KeyOf(token)
      /\ NoStaticRoot => caller.teams \subseteq Delegated /\ caller.teams # {}
  BY <1>1, AnyFetch DEF Lists
<1>3. /\ ListedCerts(caller) \in [AnyCert -> Teams \cup {None}]
      /\ \A c \in AnyCert : ListedCerts(caller)[c] # None
           => /\ ListedCerts(caller)[c] = AllCertificates(state)[c]
              /\ inScope(caller.teams, ListedCerts(caller)[c])
  BY CertificatesTyped DEF ListedCerts
<1>4. data'.certs = ListedCerts(caller)
  BY <1>1 DEF AuditTypeOK
<1>5. AuditTypeOK'
  BY <1>1, <1>2, <1>3 DEF AuditTypeOK, Lists
<1>6. RowsHold'
  <2> SUFFICES ASSUME token \notin changed, NEW c \in AnyCert,
                      ListedCerts(caller)[c] # None
               PROVE  /\ AllCertificates(state)[c] = ListedCerts(caller)[c]
                      /\ inScope(KeyOf(token).teams, ListedCerts(caller)[c])
    BY <1>2, <1>4 DEF RowsHold, Rows, KeyOf, AllCertificates
  <2> QED
    BY <1>2, <1>3
<1>7. UnavailableMeansChanged'
  BY <1>2 DEF UnavailableMeansChanged
<1>8. ReportConfined'
  <2>1. NoStaticRoot => \A c \in AnyCert : ListedCerts(caller)[c] \in Delegated \cup {None}
    BY <1>2, <1>3 DEF inScope
  <2> QED
    BY <1>1, <2>1 DEF ReportConfined, AuditTypeOK, NoStaticRoot, Delegated
<1> QED
  BY <1>2, <1>5, <1>6, <1>7, <1>8

LEMMA FetchKeysStep ==
  ASSUME Typed, AuditInv, FetchKeys, UNCHANGED vars PROVE AuditInv'
<1> USE DEF AuditInv
<1>1. Fetch("keys", "statuses") /\ data' = [data EXCEPT !.keys = ListedKeys(caller)]
  BY DEF FetchKeys
<1>2. /\ CallerOK' /\ Promoted' /\ caller \in KeyType /\ caller.admin
      /\ token' = token /\ changed' = changed /\ state' = state
      /\ list = "keys" /\ list' = "statuses" /\ caller' = None
      /\ NoStaticRoot => caller.teams \subseteq Delegated /\ caller.teams # {}
  BY <1>1, AnyFetch DEF Lists
<1>3. ListedKeys(caller) \subseteq KeyType
  BY CertificatesTyped DEF ListedKeys
<1>4. AuditTypeOK'
  BY <1>1, <1>2, <1>3 DEF AuditTypeOK, Lists
<1>5. data'.certs = data.certs
  BY <1>1 DEF AuditTypeOK
<1>6. RowsHold' /\ UnavailableMeansChanged'
  BY <1>2, <1>5 DEF RowsHold, UnavailableMeansChanged, Rows, KeyOf, AllCertificates
<1>7. ReportConfined'
  <2>1. NoStaticRoot => \A k \in ListedKeys(caller) :
          k.teams \subseteq Delegated /\ (k.admin => k.teams # {})
    BY <1>2 DEF ListedKeys, canManageKey
  <2> QED
    BY <1>1, <2>1 DEF ReportConfined, AuditTypeOK, NoStaticRoot, Delegated
<1> QED
  BY <1>2, <1>4, <1>6, <1>7

(* The last list has everything of the rows that is still there and still  *)
(* the caller's to see.                                                    *)
LEMMA FetchStatusesStep ==
  ASSUME Typed, AuditInv, FetchStatuses, UNCHANGED vars PROVE AuditInv'
<1> USE DEF AuditInv
<1>1. /\ Fetch("statuses", "report")
      /\ data' = [data EXCEPT !.statuses = VisibleStatuses(caller)]
  BY DEF FetchStatuses
<1>2. /\ CallerOK' /\ Promoted' /\ caller \in KeyType
      /\ token' = token /\ changed' = changed /\ state' = state
      /\ list = "statuses" /\ list' = "report" /\ caller' = None
      /\ token \notin changed => caller = KeyOf(token)
      /\ NoStaticRoot => /\ caller.teams \subseteq Delegated
                         /\ caller.admin => caller.teams # {}
  BY <1>1, AnyFetch DEF Lists
<1>3. VisibleStatuses(caller) \subseteq AnyCert
  BY DEF VisibleStatuses
<1>4. AuditTypeOK'
  BY <1>1, <1>2, <1>3 DEF AuditTypeOK, Lists
<1>5. data'.certs = data.certs /\ data'.statuses = VisibleStatuses(caller)
  BY <1>1 DEF AuditTypeOK
<1>6. RowsHold'
  BY <1>2, <1>5 DEF RowsHold, Rows, KeyOf, AllCertificates
<1>7. UnavailableMeansChanged'
  <2> SUFFICES ASSUME token \notin changed, NEW c \in Rows \ changed
               PROVE  c \in VisibleStatuses(caller)
    BY <1>2, <1>5 DEF UnavailableMeansChanged, Unavailable, Rows
  <2>1. caller.admin /\ caller = KeyOf(token)
    BY <1>2 DEF Promoted
  <2>2. /\ AllCertificates(state)[c] = data.certs[c]
        /\ inScope(caller.teams, data.certs[c])
    BY <1>2, <2>1 DEF RowsHold
  <2>3. c \in AnyCert /\ data.certs[c] # None
    BY DEF Rows
  <2> QED
    BY <2>1, <2>2, <2>3 DEF VisibleStatuses, checkCertAccess
<1>8. ReportConfined'
  <2>1. ASSUME NoStaticRoot, NEW c \in VisibleStatuses(caller) \ CertIds
        PROVE  StaticCerts[c] \in Delegated
    <3>1. c \in AnyCert /\ AllCertificates(state)[c] = StaticCerts[c]
      BY DEF VisibleStatuses, AllCertificates
    <3> QED
      BY <1>2, <2>1, <3>1 DEF VisibleStatuses, checkCertAccess, inScope
  <2> QED
    BY <1>1, <1>5, <2>1 DEF ReportConfined, AuditTypeOK, NoStaticRoot, Delegated
<1> QED
  BY <1>2, <1>4, <1>6, <1>7, <1>8

LEMMA ExitStep == ASSUME AuditInv, Exit PROVE AuditInv'
<1>1. /\ token' = None /\ list' = "idle" /\ caller' = None /\ data' = NoData
      /\ changed' = {}
  BY DEF Exit
<1>2. AuditTypeOK'
  BY <1>1, NoDataFacts DEF AuditTypeOK
<1>3. (CallerOK /\ Promoted /\ RowsHold /\ UnavailableMeansChanged)'
  BY <1>1 DEF CallerOK, Promoted, RowsHold, UnavailableMeansChanged
<1>4. ReportConfined'
  BY <1>1, NoDataFacts DEF ReportConfined
<1> QED
  BY <1>2, <1>3, <1>4 DEF AuditInv

(* Whatever the API does is either seen in changed or leaves the auditor's *)
(* key and the certificates of its rows alone.                             *)
LEMMA MeanwhileStep ==
  ASSUME Typed, Typed', AuditInv, Meanwhile PROVE AuditInv'
<1> USE DEF AuditInv
<1>1. /\ UNCHANGED <<token, list, caller, data>>
      /\ changed' = IF list = "idle" THEN {} ELSE changed \cup Differing(state, state')
  BY DEF Meanwhile
<1>2. Differing(state, state') \subseteq CertIds \cup KeyIds \cup TeamIds
  BY DEF Differing, Typed, TypeOK, StateType
<1>3. AuditTypeOK'
  BY <1>1, <1>2 DEF AuditTypeOK
<1>4. list = "idle" \/ changed \subseteq changed'
  BY <1>1
<1>5. ASSUME list # "idle", token \notin changed'
      PROVE  KeyOf(token)' = KeyOf(token) /\ token \notin changed
  BY <1>1, <1>4, <1>5 DEF KeyOf, Differing
<1>6. ASSUME list # "idle", NEW c \in AnyCert, c \notin changed'
      PROVE  AllCertificates(state')[c] = AllCertificates(state)[c]
  BY <1>1, <1>6 DEF AllCertificates, Differing
<1>7. CallerOK'
  <2> SUFFICES ASSUME caller # None PROVE CallerOK'
    BY <1>1 DEF CallerOK
  <2>1. list # "idle"
    BY DEF AuditTypeOK, Lists
  <2> QED
    BY <1>1, <1>5, <2>1 DEF CallerOK, NoStaticRoot, Delegated
<1>8. Promoted'
  BY <1>1, <1>5 DEF Promoted
<1>9. RowsHold'
  <2> SUFFICES ASSUME list \in {"keys", "statuses", "report"}, token \notin changed',
                      NEW c \in Rows, c \notin changed'
               PROVE  /\ AllCertificates(state')[c] = data.certs[c]
                      /\ inScope(KeyOf(token)'.teams, data.certs[c])
    BY <1>1 DEF RowsHold, Rows
  <2>1. c \in Rows \ changed /\ c \in AnyCert /\ list # "idle"
    BY <1>4 DEF Rows
  <2>2. KeyOf(token)' = KeyOf(token) /\ token \notin changed
    BY <1>5, <2>1
  <2>3. /\ AllCertificates(state)[c] = data.certs[c]
        /\ inScope(KeyOf(token).teams, data.certs[c])
    BY <2>1, <2>2 DEF RowsHold
  <2> QED
    BY <1>6, <2>1, <2>2, <2>3
<1>10. UnavailableMeansChanged'
  BY <1>1, <1>4 DEF UnavailableMeansChanged, Unavailable, Rows
<1>11. ReportConfined'
  BY <1>1 DEF ReportConfined, NoStaticRoot, Delegated
<1> QED
  BY <1>3, <1>7, <1>8, <1>9, <1>10, <1>11

LEMMA AuditStep ==
  Typed /\ Typed' /\ Fenced /\ AuditInv /\ [AuditNext]_auditVars => AuditInv'
<1> SUFFICES ASSUME Typed, Typed', Fenced, AuditInv, [AuditNext]_auditVars
             PROVE  AuditInv'
  OBVIOUS
<1>1. CASE Auditor
  BY <1>1, BeginStep, LogInStep, FetchTeamsStep, FetchCertsStep, FetchKeysStep,
     FetchStatusesStep, ExitStep DEF Auditor
<1>2. CASE Meanwhile
  BY <1>2, MeanwhileStep
<1>3. CASE UNCHANGED auditVars
  BY <1>3 DEF auditVars, audit, vars, AuditInv, AuditTypeOK, CallerOK, Promoted,
     RowsHold, UnavailableMeansChanged, ReportConfined, KeyOf, Rows, Unavailable,
     AllCertificates, NoStaticRoot, Delegated
<1> QED
  BY <1>1, <1>2, <1>3 DEF AuditNext

(* To the API, a step of the auditor is a stutter. *)
LEMMA StepOfAPI == [AuditNext]_auditVars => [Next]_vars
BY DEF AuditNext, Auditor, Meanwhile, auditVars

(* An auditor only reads: what is proved of ControlPlane holds beside it.  *)
THEOREM AuditorsOnlyRead == AuditSpec => Spec
<1>1. AuditInit => Init
  BY DEF AuditInit
<1> QED
  BY <1>1, StepOfAPI, PTL DEF AuditSpec, Spec

(* The auditor's invariant, on top of the two of the API that it rests on. *)
THEOREM AuditInvariant == AuditSpec => []AuditInv
<1>1. AuditInit => Init /\ AuditInv
  <2>1. AuditInit => AuditInv
    BY IdleHolds DEF AuditInit
  <2> QED
    BY <2>1 DEF AuditInit
<1> QED
  BY <1>1, StepOfAPI, TypedInit, TypedStep, FencedInit, FencedStep, AuditStep, PTL
     DEF AuditSpec

-----------------------------------------------------------------------------
(* What an audit holds in memory keeps its type.                           *)
THEOREM AuditTypeCorrect == AuditSpec => []AuditTypeOK
<1>1. AuditInv => AuditTypeOK
  BY DEF AuditInv
<1> QED
  BY <1>1, AuditInvariant, PTL

(* A status is missing from the report only where something has changed.   *)
THEOREM StatusesComplete == AuditSpec => []UnavailableMeansChanged
<1>1. AuditInv => UnavailableMeansChanged
  BY DEF AuditInv
<1> QED
  BY <1>1, AuditInvariant, PTL

(* The report of a confined admin stays inside the delegated teams.        *)
THEOREM ReportsConfined == AuditSpec => []ReportConfined
<1>1. AuditInv => ReportConfined
  BY DEF AuditInv
<1> QED
  BY <1>1, AuditInvariant, PTL
=============================================================================
