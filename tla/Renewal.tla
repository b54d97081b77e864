------------------------------ MODULE Renewal ------------------------------
(***************************************************************************)
(* The certificate scheduler, the issuer it calls and the storage          *)
(* directory both work on: internal/app/cert/scheduler.go and issuer.go.   *)
(*                                                                         *)
(* A pass is one run of CheckAndRenew.  The goroutine of Start runs one    *)
(* pass after another (Loop); every ReloadConfig starts one more in a      *)
(* goroutine of its own (Reloads), and nothing keeps the passes apart:     *)
(* the mutex of the scheduler only guards the list of certificates.  Each  *)
(* file system call is a step, and os.WriteFile is two: the file is        *)
(* truncated, then filled.                                                 *)
(***************************************************************************)
EXTENDS Naturals, FiniteSets

CONSTANTS
  Ids,          \* configuration ids; a deleted one never comes back (UUIDs)
  DomainLists,  \* lists of domains, as multisets: functions to Nat
  Keys,         \* private keys the issuer can generate
  Loop,         \* the passes of Start
  Reloads,      \* the passes of ReloadConfig that may be alive at once
  Faults,       \* which failures may happen, out of FaultKinds
  None, Absent, Torn

Passes == {Loop} \cup Reloads
FaultKinds == {"issue", "write", "directory", "restart"}

ASSUME FaultsAssumption == Faults \subseteq FaultKinds
ASSUME LoopAssumption == Loop \notin Reloads

VARIABLES
  certificates, \* Scheduler.certificates: id -> domains, None if not configured
  used,         \* every id ever configured
  crt, key,     \* the two files of each id: Absent, Torn or their content
  expiring,     \* keys whose certificate is within the renewal threshold
  pc,           \* where each pass is
  left,         \* what a pass has still to check of the list it copied
  cur,          \* the id a pass is working on
  held,         \* the certificate a pass has read, or obtained
  linked,       \* passes whose open file still has its name
  listing,      \* directory entries a pass has still to examine
  frayed,       \* history: ids whose last save was overlapped or interrupted
  outrun        \* history: passes that were deciding on an id when another
                \* pass wrote one of its files

vars == <<certificates, used, crt, key, expiring, pc, left, cur, held,
          linked, listing, frayed, outrun>>
list == <<certificates, used>>
files == <<crt, key>>
work == <<left, cur, held>>
history == <<frayed, outrun>>

Entries == Ids \X {"crt", "key"}
Lists == [Ids -> DomainLists \cup {None}]
Granted(d) == [x \in DOMAIN d |-> IF d[x] > 0 THEN 1 ELSE 0]
Contents == [pair : Keys, names : {Granted(d) : d \in DomainLists}]

ASSUME SentinelAssumption ==
  /\ None \notin Ids \cup DomainLists \cup Contents \cup {Torn}
  /\ Absent \notin Keys \cup Contents \cup {Torn}
  /\ Torn \notin Keys \cup Contents

Configured == {i \in Ids : certificates[i] # None}

Saving == {"writeCrt", "openKey", "writeKey"}
PcValues == {"idle", "snapshot", "choose", "stat", "issue", "openCrt",
             "configured", "remove"} \cup Saving

TypeOK ==
  /\ certificates \in Lists
  /\ used \subseteq Ids
  /\ crt \in [Ids -> Contents \cup {Absent, Torn}]
  /\ key \in [Ids -> Keys \cup {Absent, Torn}]
  /\ expiring \subseteq Keys
  /\ pc \in [Passes -> PcValues]
  /\ left \in [Passes -> Lists]
  /\ cur \in [Passes -> Ids \cup {None}]
  /\ held \in [Passes -> Contents \cup {None, Torn}]
  /\ linked \subseteq Passes
  /\ listing \in [Passes -> SUBSET Entries]
  /\ frayed \subseteq Ids
  /\ outrun \subseteq Passes

NoList == [i \in Ids |-> None]

(* The process starts with the certificates of config.json and state.json  *)
(* and Start begins its first pass at once.                                *)
Init ==
  /\ certificates \in Lists
  /\ used = Configured
  /\ crt = [i \in Ids |-> Absent]
  /\ key = [i \in Ids |-> Absent]
  /\ expiring = {}
  /\ pc = [p \in Passes |-> IF p = Loop THEN "snapshot" ELSE "idle"]
  /\ left = [p \in Passes |-> NoList]
  /\ cur = [p \in Passes |-> None]
  /\ held = [p \in Passes |-> None]
  /\ linked = {}
  /\ listing = [p \in Passes |-> {}]
  /\ frayed = {}
  /\ outrun = {}

-----------------------------------------------------------------------------
(* The start of a pass. *)

(* The ticker of Start. *)
Tick ==
  /\ pc[Loop] = "idle"
  /\ pc' = [pc EXCEPT ![Loop] = "snapshot"]
  /\ UNCHANGED <<list, files, expiring, work, linked, listing, history>>

(* ReloadConfig replaces the list and starts a pass in a goroutine.        *)
TakeList(p) ==
  /\ pc[p] = "idle"
  /\ certificates' \in Lists
  /\ used' = used \cup Configured'
  /\ pc' = [pc EXCEPT ![p] = "snapshot"]
  /\ UNCHANGED <<files, expiring, work, linked, listing, history>>

(* It is given what the API's contract allows; Certer has the API in its   *)
(* place.  The change may also be of keys and teams only.                  *)
Contract == INSTANCE CertificateList WITH listed <- Configured, spent <- used

ReloadConfig(p) == TakeList(p) /\ Contract!Change

(* The copy of the list CheckAndRenew takes under the read lock. *)
TakeSnapshot(p) ==
  /\ pc[p] = "snapshot"
  /\ left' = [left EXCEPT ![p] = certificates]
  /\ pc' = [pc EXCEPT ![p] = "choose"]
  /\ UNCHANGED <<list, files, expiring, cur, held, linked, listing, history>>

-----------------------------------------------------------------------------
(* needsRenewal: the certificate file is read, then the key file is only   *)
(* looked up.                                                              *)

(* A pass has dealt with its current id, for better or worse. *)
Continue(p) ==
  /\ pc' = [pc EXCEPT ![p] = "choose"]
  /\ left' = [left EXCEPT ![p][cur[p]] = None]
  /\ cur' = [cur EXCEPT ![p] = None]
  /\ held' = [held EXCEPT ![p] = None]
  /\ outrun' = outrun \ {p}

ReadCrt(p) ==
  /\ pc[p] = "choose"
  /\ \E i \in Ids :
       /\ left[p][i] # None
       /\ cur' = [cur EXCEPT ![p] = i]
       /\ \/ /\ crt[i] = Absent
             /\ pc' = [pc EXCEPT ![p] = "issue"]
             /\ UNCHANGED held
          \/ /\ crt[i] # Absent
             /\ pc' = [pc EXCEPT ![p] = "stat"]
             /\ held' = [held EXCEPT ![p] = crt[i]]
  /\ UNCHANGED <<list, files, expiring, left, linked, listing, history>>

(* Mutant: an issued certificate may cover more than the list asks for. *)
domainsCovered(a, b) == \A x \in DOMAIN b : a[x] >= b[x]

domainsMatch(a, b) == a = b

(* Mutant: the comparison with the threshold is turned round. *)
AcceptableWhenExpiring(c, k, d) ==
  k # Absent /\ c # Torn /\ c.pair \in expiring /\ domainsMatch(c.names, d)

Acceptable(c, k, d) ==
  /\ k # Absent
  /\ c # Torn
  /\ c.pair \notin expiring
  /\ domainsMatch(c.names, d)

KeepCrt(p) ==
  /\ pc[p] = "stat"
  /\ Acceptable(held[p], key[cur[p]], left[p][cur[p]])
  /\ Continue(p)
  /\ UNCHANGED <<list, files, expiring, linked, listing, frayed>>

RejectCrt(p) ==
  /\ pc[p] = "stat"
  /\ ~Acceptable(held[p], key[cur[p]], left[p][cur[p]])
  /\ pc' = [pc EXCEPT ![p] = "issue"]
  /\ held' = [held EXCEPT ![p] = None]
  /\ UNCHANGED <<list, files, expiring, left, cur, linked, listing, history>>

-----------------------------------------------------------------------------
(* Issue and saveCertificates. *)

KeysInUse ==
  {k \in Keys : \/ \E i \in Ids : key[i] = k
                \/ \E i \in Ids : crt[i] \in Contents /\ crt[i].pair = k
                \/ \E p \in Passes : held[p] \in Contents /\ held[p].pair = k}

(* The CA issues for a new key and drops repeated names. *)
Issue(p) ==
  /\ pc[p] = "issue"
  /\ \E k \in Keys \ KeysInUse :
       /\ held' = [held EXCEPT
                     ![p] = [pair |-> k, names |-> Granted(left[p][cur[p]])]]
       /\ expiring' = expiring \ {k}
  /\ pc' = [pc EXCEPT ![p] = "openCrt"]
  /\ outrun' = outrun \ {p}
  /\ UNCHANGED <<list, files, left, cur, linked, listing, frayed>>

(* Registration, challenge set-up or the order fails. *)
IssueFails(p) ==
  /\ "issue" \in Faults
  /\ pc[p] = "issue"
  /\ Continue(p)
  /\ UNCHANGED <<list, files, expiring, linked, listing, frayed>>

SavingId(i) == {q \in Passes : pc[q] \in Saving /\ cur[q] = i}
Deciding(i) == {q \in Passes : pc[q] \in {"stat", "issue"} /\ cur[q] = i}

(* A save that starts while another one of the same id is under way frays  *)
(* it, one that starts alone clears it.                                    *)
OpenCrt(p) ==
  /\ pc[p] = "openCrt"
  /\ crt' = [crt EXCEPT ![cur[p]] = Torn]
  /\ linked' = linked \cup {p}
  /\ frayed' = IF SavingId(cur[p]) = {} THEN frayed \ {cur[p]}
                                        ELSE frayed \cup {cur[p]}
  /\ pc' = [pc EXCEPT ![p] = "writeCrt"]
  /\ UNCHANGED <<list, key, expiring, work, listing, outrun>>

WriteCrt(p) ==
  /\ pc[p] = "writeCrt"
  /\ crt' = IF p \in linked THEN [crt EXCEPT ![cur[p]] = held[p]] ELSE crt
  /\ linked' = linked \ {p}
  /\ pc' = [pc EXCEPT ![p] = "openKey"]
  /\ outrun' = outrun \cup Deciding(cur[p])
  /\ UNCHANGED <<list, key, expiring, work, listing, frayed>>

OpenKey(p) ==
  /\ pc[p] = "openKey"
  /\ key' = [key EXCEPT ![cur[p]] = Torn]
  /\ linked' = linked \cup {p}
  /\ pc' = [pc EXCEPT ![p] = "writeKey"]
  /\ outrun' = outrun \cup Deciding(cur[p])
  /\ UNCHANGED <<list, crt, expiring, work, listing, frayed>>

(* Mutants: the bytes of the certificate, or of the account's key, go into *)
(* the key file.                                                           *)
CertificateBytes(c) == c
AccountKey(c) == CHOOSE k \in Keys : TRUE

PrivateKey(c) == c.pair

WriteKey(p) ==
  /\ pc[p] = "writeKey"
  /\ key' = IF p \in linked THEN [key EXCEPT ![cur[p]] = PrivateKey(held[p])] ELSE key
  /\ linked' = linked \ {p}
  /\ Continue(p)
  /\ UNCHANGED <<list, crt, expiring, listing, frayed>>

(* Making the directory, opening a file or filling it fails: the error is  *)
(* logged and the files stay as they are.                                  *)
SaveFails(p) ==
  /\ "write" \in Faults
  /\ pc[p] \in {"openCrt"} \cup Saving
  /\ frayed' = IF pc[p] \in Saving THEN frayed \cup {cur[p]} ELSE frayed
  /\ linked' = linked \ {p}
  /\ Continue(p)
  /\ UNCHANGED <<list, files, expiring, listing>>

-----------------------------------------------------------------------------
(* cleanupUnusedCertificates: the directory is listed before the list of   *)
(* certificates is read again.                                             *)

(* Mutant: only the .crt files are considered. *)
CrtFilesPresent == {e \in Entries : e[2] = "crt" /\ crt[e[1]] # Absent}

FilesPresent == {e \in Entries : IF e[2] = "crt" THEN crt[e[1]] # Absent
                                                 ELSE key[e[1]] # Absent}

ListDir(p) ==
  /\ pc[p] = "choose"
  /\ left[p] = NoList
  /\ listing' = [listing EXCEPT ![p] = FilesPresent]
  /\ pc' = [pc EXCEPT ![p] = "configured"]
  /\ UNCHANGED <<list, files, expiring, work, linked, history>>

ListDirFails(p) ==
  /\ "directory" \in Faults
  /\ pc[p] = "choose"
  /\ left[p] = NoList
  /\ pc' = [pc EXCEPT ![p] = "idle"]
  /\ UNCHANGED <<list, files, expiring, work, linked, listing, history>>

(* Mutant: the ids are read first and the directory is listed after them. *)
UnusedWhatever(entries) == {e \in Entries : e[1] \notin Configured}

Unused(entries) == {e \in entries : e[1] \notin Configured}

ReadConfigured(p) ==
  /\ pc[p] = "configured"
  /\ listing' = [listing EXCEPT ![p] = Unused(listing[p])]
  /\ pc' = [pc EXCEPT ![p] = "remove"]
  /\ UNCHANGED <<list, files, expiring, work, linked, history>>

(* Removing a file another pass has open leaves that pass writing to a     *)
(* file without a name.  Removing a file that is gone does nothing.        *)
Opened(e) == {q \in Passes : /\ cur[q] = e[1]
                             /\ pc[q] = IF e[2] = "crt" THEN "writeCrt"
                                                        ELSE "writeKey"}

RemoveFile(p) ==
  /\ pc[p] = "remove"
  /\ \E e \in listing[p] :
       /\ listing' = [listing EXCEPT ![p] = @ \ {e}]
       /\ crt' = IF e[2] = "crt" THEN [crt EXCEPT ![e[1]] = Absent] ELSE crt
       /\ key' = IF e[2] = "key" THEN [key EXCEPT ![e[1]] = Absent] ELSE key
       /\ linked' = linked \ Opened(e)
  /\ UNCHANGED <<list, expiring, pc, work, history>>

RemoveFails(p) ==
  /\ "directory" \in Faults
  /\ pc[p] = "remove"
  /\ \E e \in listing[p] : listing' = [listing EXCEPT ![p] = @ \ {e}]
  /\ UNCHANGED <<list, files, expiring, pc, work, linked, history>>

EndPass(p) ==
  /\ pc[p] = "remove"
  /\ listing[p] = {}
  /\ pc' = [pc EXCEPT ![p] = "idle"]
  /\ UNCHANGED <<list, files, expiring, work, linked, listing, history>>

-----------------------------------------------------------------------------
(* Time and the end of the process. *)

(* A certificate on disk or in a pass's hands comes within the threshold. *)
Age ==
  /\ \E k \in KeysInUse \ expiring : expiring' = expiring \cup {k}
  /\ UNCHANGED <<list, files, pc, work, linked, listing, history>>

(* The process ends wherever its passes are, main waits for none of them,  *)
(* and starts again, with whatever list its files then hold: an older one  *)
(* after a failed save, an edited one, or none when the state is lost.     *)
Restart ==
  /\ "restart" \in Faults
  /\ certificates' \in Lists
  /\ used' = used \cup Configured'
  /\ pc' = [p \in Passes |-> IF p = Loop THEN "snapshot" ELSE "idle"]
  /\ left' = [p \in Passes |-> NoList]
  /\ cur' = [p \in Passes |-> None]
  /\ held' = [p \in Passes |-> None]
  /\ linked' = {}
  /\ listing' = [p \in Passes |-> {}]
  /\ frayed' = frayed \cup {i \in Ids : SavingId(i) # {}}
  /\ outrun' = {}
  /\ UNCHANGED <<files, expiring>>

-----------------------------------------------------------------------------
PassStep(p) ==
  \/ TakeSnapshot(p) \/ ReadCrt(p) \/ KeepCrt(p) \/ RejectCrt(p)
  \/ Issue(p) \/ OpenCrt(p) \/ WriteCrt(p) \/ OpenKey(p) \/ WriteKey(p)
  \/ ListDir(p) \/ ReadConfigured(p) \/ RemoveFile(p) \/ EndPass(p)

Failure(p) ==
  IssueFails(p) \/ SaveFails(p) \/ ListDirFails(p) \/ RemoveFails(p)

Run ==
  \/ Tick
  \/ \E p \in Reloads : ReloadConfig(p)
  \/ \E p \in Passes : PassStep(p) \/ Failure(p)
  \/ Age

Next == Run \/ Restart

Spec == Init /\ [][Next]_vars

(* The ticker fires, and a pass that can go on does, by success or by      *)
(* failure.                                                                *)
Fairness ==
  /\ WF_vars(Tick)
  /\ \A p \in Passes : WF_vars(PassStep(p) \/ Failure(p))

FairSpec == Spec /\ Fairness

-----------------------------------------------------------------------------
(* Properties *)

Readable(c) == c \in Contents

(* At rest, no file is half written, and a certificate and a key that are  *)
(* both on disk belong together, unless the last save of that id was       *)
(* overlapped by another pass or interrupted.  Configuration changes,      *)
(* ageing, stale passes and the cleanup that removes files under a save    *)
(* cannot break a pair.                                                    *)
Intact(i) ==
  /\ crt[i] # Torn /\ key[i] # Torn
  /\ (crt[i] # Absent /\ key[i] # Absent) => key[i] = crt[i].pair

PairsIntact == \A i \in Ids \ frayed : SavingId(i) = {} => Intact(i)

(* cleanupUnusedCertificates never removes a file of an id that is         *)
(* configured at that moment, however many passes and reloads are under    *)
(* way: its listing is older than the list of ids it is compared with.     *)
CleanupSparesConfigured ==
  [][\A i \in Configured : /\ crt[i] # Absent => crt'[i] # Absent
                           /\ key[i] # Absent => key'[i] # Absent]_vars

Current(i) ==
  /\ Readable(crt[i]) /\ key[i] # Absent
  /\ crt[i].pair \notin expiring
  /\ crt[i].names = certificates[i]

(* CheckAndRenew orders a certificate only when the files on disk do not   *)
(* satisfy the present configuration, or when it was overtaken: by a new   *)
(* list, or by another pass that wrote the files after it had read them.   *)
OrdersNeeded ==
  [][\A p \in Passes :
       Issue(p) /\ Current(cur[p])
         => p \in outrun \/ left[p][cur[p]] # certificates[cur[p]]]_vars

(* Everything is as the configuration asks, on disk and in the passes.     *)
AtRest ==
  /\ \A i \in Configured : Current(i)
  /\ \A i \in Ids \ Configured : crt[i] = Absent /\ key[i] = Absent
  /\ \A p \in Passes :
       /\ pc[p] \notin {"issue", "openCrt"} \cup Saving
       /\ \A i \in Ids : left[p][i] \in {None, certificates[i]}
       /\ pc[p] = "stat" => held[p] = crt[cur[p]]

(* Then no pass of any number changes a thing, orders or removes, until    *)
(* the list changes, a certificate ages or the process ends.               *)
RestLasts ==
  [][(AtRest /\ ~Restart /\ ~Age /\ \A p \in Reloads : ~ReloadConfig(p))
       => AtRest' /\ UNCHANGED files]_vars

(* "Certificate is valid and configuration matches. No action required.":  *)
(* when a pass is about to say so the key file is the certificate's key,   *)
(* provided no pass is writing the two files.                              *)
NoActionMeansUsable ==
  \A p \in Passes :
    LET i == cur[p] IN
    (/\ pc[p] = "stat" /\ Acceptable(held[p], key[i], left[p][i])
     /\ SavingId(i) = {} /\ crt[i] = held[p])
       => key[i] = held[p].pair

(* From some moment on the configuration is left alone, nothing fails, no  *)
(* certificate ages and the process lives.                                 *)
Quiet ==
  <>[][/\ ~Restart /\ ~Age
       /\ \A p \in Reloads : ~ReloadConfig(p)
       /\ \A p \in Passes : ~Failure(p)]_vars

(* Once things are quiet, rest is reached again and again.                 *)
Settles == Quiet => []<>AtRest

(* Once things are quiet, every configured certificate becomes and stays   *)
(* what its configuration asks for, whatever stale passes were under way.  *)
Converges == Quiet => <>[](\A i \in Configured : Current(i))

(* Once things are quiet, the files of deleted configurations go and stay  *)
(* away, also those a stale pass wrote after the deletion.                 *)
UnusedFilesGo ==
  Quiet => <>[](\A i \in Ids \ Configured : crt[i] = Absent /\ key[i] = Absent)
=============================================================================
