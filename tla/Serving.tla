------------------------------- MODULE Serving -------------------------------
(***************************************************************************)
(* Those who read the PEM files while the scheduler writes them: the       *)
(* retrieval and status handlers of internal/app/api/certs_handler.go and  *)
(* the GetCertificate callback of cmd/server/tls.go.                       *)
(*                                                                         *)
(* Nothing keeps a reader away from a save or from the cleanup, and each   *)
(* of them looks at the two files with system calls of their own.  The     *)
(* module follows one question from its arrival to its answer; readers     *)
(* change nothing, so they do not see each other.                          *)
(***************************************************************************)
EXTENDS Renewal

CONSTANT Questions \* which readers may come, out of QuestionKinds

(* "list" is GET /certificates, "raw" a client that fetches the key and    *)
(* then the certificate, "status" GET .../status, "handshake" a TLS        *)
(* handshake on the HTTPS port.                                            *)
QuestionKinds == {"list", "raw", "status", "handshake"}

ASSUME QuestionsAssumption == Questions \subseteq QuestionKinds
ASSUME UnseenAssumption == None \notin Keys \cup {Absent} \cup QuestionKinds

VARIABLES
  question,  \* what is asked, and about which id
  about,
  stage,     \* the system call the reader is about to make
  seen,      \* what it found in the two files; None where it has not looked
  disturbed  \* history: a save of the id was under way, or a file changed

reader == <<question, about, stage, seen, disturbed>>
allVars == <<vars, reader>>

Stages == {"idle", "statCrt", "statKey", "readCrt", "readKey", "answered"}
Blank == [crt |-> None, key |-> None]

ServingTypeOK ==
  /\ question \in Questions \cup {None}
  /\ about \in Ids \cup {None}
  /\ stage \in Stages
  /\ seen \in [crt : Contents \cup {Absent, Torn, None},
               key : Keys \cup {Absent, Torn, None}]
  /\ disturbed \in BOOLEAN
  /\ stage # "idle" => question # None /\ about # None

ServingInit ==
  /\ Init
  /\ question = None /\ about = None /\ stage = "idle" /\ seen = Blank
  /\ disturbed = FALSE

-----------------------------------------------------------------------------
(* The identifier of a request denotes some id of the API's list, which    *)
(* may be ahead of the scheduler's; ssl_cert_id is not checked at all.     *)
Ask ==
  /\ stage = "idle"
  /\ \E q \in Questions, i \in Ids :
       /\ question' = q
       /\ about' = i
       /\ stage' = CASE q = "handshake" -> "statCrt"
                     [] q = "raw" -> "readKey"
                     [] OTHER -> "readCrt"
       /\ disturbed' = (SavingId(i) # {})
  /\ UNCHANGED seen

(* The calls each reader makes, in their order. *)
After(q, s) ==
  CASE s = "statCrt" -> "statKey"
    [] s = "statKey" /\ q = "handshake" -> "readCrt"
    [] s = "readCrt" /\ q = "status" -> "statKey"
    [] s = "readCrt" /\ q \in {"list", "handshake"} -> "readKey"
    [] s = "readKey" /\ q = "raw" -> "readCrt"
    [] OTHER -> "answered"

(* The status and the handshake answer at once when a file is missing. *)
GivesUp(file) == file = Absent /\ question \in {"status", "handshake"}

(* Mutant: the certificate is read from the path of the key. *)
FoundInKey(file) == {key[about]}

(* A file that is being written has part of its content, or nothing yet.   *)
(* Without bytes there is no certificate in it.                            *)
Found(file) == IF file = Torn THEN {Torn, Absent} ELSE {file}

LookAtCrt ==
  /\ stage \in {"statCrt", "readCrt"}
  /\ \E f \in IF stage = "readCrt" THEN Found(crt[about]) ELSE {crt[about]} :
       /\ seen' = [seen EXCEPT !.crt = f]
       /\ stage' = IF GivesUp(f) THEN "answered" ELSE After(question, stage)
  /\ UNCHANGED <<question, about, disturbed>>

(* An empty key file is a key file all the same. *)
LookAtKey ==
  /\ stage \in {"statKey", "readKey"}
  /\ seen' = [seen EXCEPT !.key = key[about]]
  /\ stage' = IF GivesUp(key[about]) THEN "answered" ELSE After(question, stage)
  /\ UNCHANGED <<question, about, disturbed>>

Forget ==
  /\ question' = None /\ about' = None /\ stage' = "idle" /\ seen' = Blank
  /\ disturbed' = FALSE

Leave == stage = "answered" /\ Forget

Read == (Ask \/ LookAtCrt \/ LookAtKey \/ Leave) /\ UNCHANGED vars

(* The scheduler goes on while the reader reads. *)
Touched ==
  \/ SavingId(about)' # {}
  \/ crt'[about] # crt[about]
  \/ key'[about] # key[about]

Meanwhile ==
  /\ Run
  /\ UNCHANGED <<question, about, stage, seen>>
  /\ disturbed' = (stage # "idle" /\ (disturbed \/ Touched))

ServingNext == Read \/ Meanwhile \/ (Restart /\ Forget)

ServingSpec == ServingInit /\ [][ServingNext]_allVars

-----------------------------------------------------------------------------
(* What the reader is told, by what was seen. *)

(* Mutants: the answer does not look at both files; a pair is loaded with  *)
(* its files swapped.                                                      *)
IssuedByKey(s) == s.key \notin {None, Absent}
ValidByCrt(s) == s.crt \in Contents
SwappedPair(s) == s.crt \in Keys /\ s.key \in Contents

(* handleGetCertificates, and a client that got both raw files. *)
Issued(s) == s.crt # Absent /\ s.key \notin {None, Absent}

(* buildCertificateStatus: "ok", or "warning" near the end. *)
Healthy(s) == s.crt \in Contents /\ s.key \notin {None, Absent}

(* tls.LoadX509KeyPair; anything else leaves the fallback certificate. *)
Presented(s) == s.crt \in Contents /\ s.key \in Keys /\ s.key = s.crt.pair

-----------------------------------------------------------------------------
(* Properties *)

Settled == stage = "answered" /\ ~disturbed /\ about \notin frayed

(* An answer of the retrieval handlers that says "issued", or both raw     *)
(* answers together, carries a certificate and its own key, complete,      *)
(* unless a save or the cleanup touched the files during the read, or the  *)
(* last save was overlapped or interrupted.                                *)
IssuedIsAPair ==
  (Settled /\ question \in {"list", "raw"} /\ Issued(seen)) => Presented(seen)

(* Under the same conditions the status is good exactly when a server      *)
(* could load the files as they are at that moment, although               *)
(* buildCertificateStatus never opens the key.                             *)
StatusIsRight ==
  (Settled /\ question = "status")
     => (Healthy(seen) <=> Presented([crt |-> crt[about], key |-> key[about]]))

(* Under the same conditions a TLS handshake falls back to the self-signed *)
(* certificate only when a file is missing.                                *)
HandshakeServes ==
  (Settled /\ question = "handshake" /\ crt[about] # Absent /\ key[about] # Absent)
     => Presented(seen)
=============================================================================
