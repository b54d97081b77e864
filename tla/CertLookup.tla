----------------------------- MODULE CertLookup -----------------------------
(***************************************************************************)
(* Which certificate a retrieval or status request is answered with:       *)
(* accessibleCertificates filters a copy of the list by the caller's key,  *)
(* findCertificateByIdentifier then makes one pass over what is left       *)
(* (internal/app/api/certs_handler.go).  An identifier may be an id, a     *)
(* primary domain, or a name that a SAN covers, wildcards included.        *)
(*                                                                         *)
(* Ids and domains are compared with each other, so both are names: a      *)
(* name is the sequence of its labels, what stands between the dots.       *)
(***************************************************************************)
EXTENDS Naturals, Sequences

CONSTANTS
  Labels,
  Star,         \* the label "*"
  Names,        \* ids, domains, patterns and identifiers
  Rank,         \* the byte order of names: function to Nat
  Teams,
  Lists,        \* what AllCertificates may return
  Keys,         \* keys a caller may have: admin flag and scopes
  None

CertConfig == [id : Names, primary : Names, sans : SUBSET Names, team : Teams]
KeyType == [admin : BOOLEAN, teams : SUBSET Teams, certs : SUBSET Names]

ASSUME NamesAssumption ==
  /\ Star \in Labels /\ Names \subseteq Seq(Labels)
  /\ Rank \in [Names -> Nat]
  /\ \A a, b \in Names : Rank[a] = Rank[b] => a = b
ASSUME ListsAssumption == Lists \subseteq Seq(CertConfig)
ASSUME KeysAssumption == Keys \subseteq KeyType
ASSUME NoneAssumption == None \notin Keys /\ None \notin Names

VARIABLES
  pc,
  key, identifier,   \* the request
  certs,             \* the copy of the list, taken under the read lock
  n,                 \* the element the loop is at
  filtered,          \* what the caller may access
  bestMatch,         \* index in filtered, 0 for nil
  bestMatchIsPrimary

vars == <<pc, key, identifier, certs, n, filtered, bestMatch, bestMatchIsPrimary>>
request == <<key, identifier, certs>>
match == <<bestMatch, bestMatchIsPrimary>>

Elements(list) == {list[j] : j \in 1..Len(list)}

TypeOK ==
  /\ pc \in {"idle", "filter", "find", "answered"}
  /\ key \in Keys \cup {None}
  /\ identifier \in Names \cup {None}
  /\ certs \in Seq(CertConfig)
  /\ filtered \in Seq(CertConfig)
  /\ n \in 1..Len(IF pc = "filter" THEN certs ELSE filtered) + 1
  /\ bestMatch \in 0..Len(filtered)
  /\ bestMatchIsPrimary \in BOOLEAN
  /\ pc # "idle" => key # None /\ identifier # None

Init ==
  /\ pc = "idle" /\ key = None /\ identifier = None
  /\ certs = <<>> /\ filtered = <<>>
  /\ n = 1 /\ bestMatch = 0 /\ bestMatchIsPrimary = FALSE

Receive ==
  /\ pc = "idle"
  /\ key' \in Keys /\ identifier' \in Names /\ certs' \in Lists
  /\ pc' = "filter"
  /\ UNCHANGED <<n, filtered, match>>

-----------------------------------------------------------------------------
(* accessibleCertificates *)

checkCertAccess(k, cc) ==
  /\ k.admin => (k.teams = {} \/ cc.team \in k.teams)
  /\ ~k.admin => (k.certs = {} \/ cc.id \in k.certs) /\ cc.team \in k.teams

Filter ==
  /\ pc = "filter"
  /\ n <= Len(certs)
  /\ filtered' = IF checkCertAccess(key, certs[n]) THEN Append(filtered, certs[n])
                                                   ELSE filtered
  /\ n' = n + 1
  /\ UNCHANGED <<pc, request, match>>

(* Mutant: the second loop goes on where the first one ended. *)
NotReset == n

FirstIndex == 1

EndFilter ==
  /\ pc = "filter"
  /\ n > Len(certs)
  /\ pc' = "find"
  /\ n' = FirstIndex
  /\ UNCHANGED <<request, filtered, match>>

-----------------------------------------------------------------------------
(* findCertificateByIdentifier *)

(* The pattern without its star is a suffix, and the numbers of dots are   *)
(* the same: the star stands for one label, whatever it is.                *)
matchesWildcard(pattern, domain) ==
  /\ Len(pattern) > 1 /\ Head(pattern) = Star
  /\ Len(domain) = Len(pattern)
  /\ Tail(domain) = Tail(pattern)

Covers(cc, name) == \E san \in cc.sans : san = name \/ matchesWildcard(san, name)

(* The tie-breaker: UUIDv7 ids grow with time. *)
Newer(cc) == Rank[cc.id] > Rank[filtered[bestMatch].id]

(* Mutant: a primary domain does not take precedence over a SAN. *)
SupersedesByAge(cc) == bestMatch = 0 \/ Newer(cc)

Supersedes(cc) == bestMatch = 0 \/ ~bestMatchIsPrimary \/ Newer(cc)

Scanning == pc = "find" /\ n <= Len(filtered)

ExactMatch ==
  /\ Scanning
  /\ filtered[n].id = identifier
  /\ bestMatch' = n
  /\ pc' = "answered"
  /\ UNCHANGED <<request, n, filtered, bestMatchIsPrimary>>

PrimaryMatch ==
  /\ Scanning
  /\ filtered[n].id # identifier
  /\ filtered[n].primary = identifier
  /\ IF Supersedes(filtered[n])
       THEN bestMatch' = n /\ bestMatchIsPrimary' = TRUE
       ELSE UNCHANGED match
  /\ n' = n + 1
  /\ UNCHANGED <<pc, request, filtered>>

SanMatch ==
  /\ Scanning
  /\ filtered[n].id # identifier
  /\ filtered[n].primary # identifier
  /\ bestMatch' = IF /\ ~bestMatchIsPrimary
                     /\ Covers(filtered[n], identifier)
                     /\ bestMatch = 0 \/ Newer(filtered[n])
                  THEN n ELSE bestMatch
  /\ n' = n + 1
  /\ UNCHANGED <<pc, request, filtered, bestMatchIsPrimary>>

EndFind ==
  /\ pc = "find"
  /\ n > Len(filtered)
  /\ pc' = "answered"
  /\ UNCHANGED <<request, n, filtered, match>>

Answer ==
  /\ pc = "answered"
  /\ pc' = "idle" /\ key' = None /\ identifier' = None
  /\ certs' = <<>> /\ filtered' = <<>>
  /\ n' = 1 /\ bestMatch' = 0 /\ bestMatchIsPrimary' = FALSE

Next ==
  \/ Receive \/ Filter \/ EndFilter
  \/ ExactMatch \/ PrimaryMatch \/ SanMatch \/ EndFind
  \/ Answer

Spec == Init /\ [][Next]_vars

-----------------------------------------------------------------------------
(* Properties *)

(* What an identifier denotes, without any order of the list: the          *)
(* certificate with that id; else the newest with that primary domain;     *)
(* else the newest one of which a SAN covers it.  Only what the key may    *)
(* access counts.                                                          *)
Accessible == {cc \in Elements(certs) : checkCertAccess(key, cc)}
ById == {cc \in Accessible : cc.id = identifier}
ByPrimary == {cc \in Accessible : cc.primary = identifier}
BySan == {cc \in Accessible : Covers(cc, identifier)}
Newest(S) == {cc \in S : \A other \in S : Rank[other.id] <= Rank[cc.id]}

Denoted == IF ById # {} THEN ById
           ELSE IF ByPrimary # {} THEN Newest(ByPrimary)
           ELSE Newest(BySan)

(* The one pass of findCertificateByIdentifier finds what the identifier   *)
(* denotes, or that it denotes nothing.  When the ids of the list differ   *)
(* there is one such certificate, so that neither the order of the list    *)
(* nor certificates the caller may not see have a say.                     *)
DistinctIds == \A a, b \in Elements(certs) : a.id = b.id => a = b

RightCertificate ==
  pc = "answered" =>
    IF bestMatch = 0
      THEN Denoted = {}
      ELSE /\ filtered[bestMatch] \in Denoted
           /\ DistinctIds => Denoted = {filtered[bestMatch]}
=============================================================================
