---------------------------- MODULE CerterProof ----------------------------
(* Theorems about Certer, the whole process: both of its parts behave as   *)
(* their own modules say, and what the scheduler removes are never files   *)
(* of a certificate that the API lists.                                    *)
EXTENDS Certer, ControlPlaneProof

(* Whatever happens in the process is a step of the API, or none. *)
LEMMA StepOfAPI == [CerterNext]_certerVars => [Next]_vars
<1>1. ASSUME NEW r \in Clients,
             OpenFile(r) \/ WriteFile(r) \/ SaveFails(r) \/ Reload(r)
      PROVE  Save(r)
  BY <1>1 DEF Save
<1>2. APIStep => Next
  BY <1>1 DEF APIStep, Next
<1>3. HandOver => Next
  BY <1>1 DEF HandOver, Next
<1>4. ProcessRestart => Next
  BY DEF ProcessRestart, Next
<1> QED
  BY <1>2, <1>3, <1>4 DEF CerterNext, Pass, certerVars

(* Beside the passes of the scheduler, with their files and failures, the  *)
(* API behaves as ControlPlane says, and has all that is proved of it.     *)
THEOREM APIIsAsModelled == CerterSpec => Spec
<1>1. CerterInit => Init
  BY DEF CerterInit
<1> QED
  BY <1>1, StepOfAPI, PTL DEF CerterSpec, Spec

-----------------------------------------------------------------------------
(* The scheduler has the list it was handed, and every id it was ever      *)
(* given is a static one, or is listed, or gone for good.                  *)
APIInv == Typed /\ Synced /\ ListFollowsDisk

ListHanded ==
  /\ Scheduler!Configured = Handed
  /\ configured \subseteq Spent \cup DOMAIN StaticCerts

LEMMA APIInvInit == Init => APIInv
BY EmailAssumption, TypedInit, SyncedInit, FollowsInit DEF APIInv

LEMMA APIInvStep == APIInv /\ [CerterNext]_certerVars => APIInv'
BY EmailAssumption, StepOfAPI, TypedStep, SyncedStep, FollowsStep DEF APIInv

LEMMA HandedInit == CerterInit => ListHanded
BY DEF CerterInit, ListHanded, Scheduler!Init, Handed, Spent

(* No step of the process takes an id out of Spent or brings one back.     *)
LEMMA SpentGrows ==
  ASSUME APIInv, [CerterNext]_certerVars
  PROVE  /\ Spent \subseteq Spent'
         /\ Listed' \subseteq Spent'
         /\ (Listed' \ Listed) \cap Spent = {}
         /\ Listed \cup Listed' \cup Spent \cup Spent' \subseteq CertIds
<1>1. Contract!Change \/ UNCHANGED <<Listed, Spent>>
  BY EmailAssumption, StepOfAPI, StepKeepsContract, APIInvStep DEF APIInv
<1> QED
  BY <1>1 DEF Contract!Change, Listed, Spent

(* A new list is one that Renewal lets ReloadConfig take. *)
LEMMA TakesContract ==
  ASSUME APIInv, ListHanded, [CerterNext]_certerVars,
         configured' = configured \cup Scheduler!Configured',
         Scheduler!Configured' = Handed'
  PROVE  Scheduler!Contract!Change /\ ListHanded'
<1>1. /\ Handed' = Listed' \cup DOMAIN StaticCerts
      /\ Handed = Listed \cup DOMAIN StaticCerts
  BY DEF Handed
<1>2. DOMAIN StaticCerts \cap CertIds = {}
  BY StaticAssumption
<1>3. configured' \subseteq Spent' \cup DOMAIN StaticCerts
  BY <1>1, SpentGrows DEF ListHanded
<1>4. (Handed' \ Handed) \cap configured = {}
  BY <1>1, <1>2, SpentGrows DEF ListHanded
<1>5. configured' \subseteq AnyCert
  BY <1>3, SpentGrows DEF AnyCert
<1> QED
  BY <1>1, <1>3, <1>4, <1>5 DEF Scheduler!Contract!Change, ListHanded

(* Whatever happens in the process is a step of the scheduler, or none.    *)
LEMMA StepOfScheduler ==
  ASSUME APIInv, ListHanded, [CerterNext]_certerVars
  PROVE  [Scheduler!Next]_Scheduler!vars /\ ListHanded'
<1>1. ASSUME UNCHANGED scheduler PROVE UNCHANGED Scheduler!vars
  BY <1>1 DEF scheduler, Scheduler!vars
<1>2. ASSUME UNCHANGED <<certificates, configured>>, UNCHANGED sched
      PROVE  ListHanded'
  <2>1. Handed' = Handed /\ Scheduler!Configured' = Scheduler!Configured
    BY <1>2 DEF Handed, Listed, Scheduler!Configured
  <2> QED
    BY <1>2, <2>1, SpentGrows DEF ListHanded
<1>3. CASE APIStep
  <2>1. ASSUME NEW r \in Clients,
               \/ Arrive(r) \/ Check(r) \/ Commit(r)
               \/ OpenFile(r) \/ WriteFile(r) \/ SaveFails(r)
        PROVE  sched' = sched
    BY <2>1, CommitShape DEF Arrive, Check, Authenticate, Deny, CheckTeams,
       CheckCerts, OpenFile, WriteFile, SaveFails
  <2> QED
    BY <1>1, <1>2, <1>3, <2>1 DEF APIStep, scheduler
<1>4. CASE HandOver
  <2>1. PICK p \in Reloads : Scheduler!TakeList(p)
    BY <1>4 DEF HandOver
  <2>2. Scheduler!Contract!Change /\ ListHanded'
    BY <1>4, <2>1, TakesContract DEF HandOver, Scheduler!TakeList
  <2>3. Scheduler!ReloadConfig(p)
    BY <2>1, <2>2 DEF Scheduler!ReloadConfig
  <2> QED
    BY <2>2, <2>3 DEF Scheduler!Next, Scheduler!Run
<1>5. CASE Pass
  <2>1. Scheduler!Next
    BY <1>5 DEF Pass, Scheduler!Next, Scheduler!Run
  <2>2. UNCHANGED <<certificates, configured>>
    BY <1>5 DEF Pass, Scheduler!Tick, Scheduler!Age, Scheduler!PassStep,
       Scheduler!Failure, Scheduler!TakeSnapshot, Scheduler!ReadCrt,
       Scheduler!KeepCrt, Scheduler!RejectCrt, Scheduler!Issue,
       Scheduler!OpenCrt, Scheduler!WriteCrt, Scheduler!OpenKey,
       Scheduler!WriteKey, Scheduler!ListDir, Scheduler!ReadConfigured,
       Scheduler!RemoveFile, Scheduler!EndPass, Scheduler!IssueFails,
       Scheduler!SaveFails, Scheduler!ListDirFails, Scheduler!RemoveFails,
       Scheduler!list
  <2> QED
    BY <1>2, <1>5, <2>1, <2>2 DEF Pass, vars
<1>6. CASE ProcessRestart
  <2>1. ListHanded'
    BY <1>6, TakesContract DEF ProcessRestart, Scheduler!Restart
  <2> QED
    BY <1>6, <2>1 DEF ProcessRestart, Scheduler!Next
<1>7. CASE UNCHANGED certerVars
  BY <1>1, <1>2, <1>7 DEF certerVars, scheduler, vars
<1> QED
  BY <1>3, <1>4, <1>5, <1>6, <1>7 DEF CerterNext

(* With this API the scheduler behaves as Renewal says: what Renewal takes *)
(* for granted of ReloadConfig holds, over failed saves and restarts.      *)
THEOREM SchedulerIsAsModelled == CerterSpec => SchedulerAsModelled
<1> DEFINE Inv == APIInv /\ ListHanded
<1>1. CerterInit => Inv /\ Scheduler!Init
  BY APIInvInit, HandedInit DEF CerterInit
<1>2. Inv /\ [CerterNext]_certerVars => Inv' /\ [Scheduler!Next]_Scheduler!vars
  BY APIInvStep, StepOfScheduler
<1> QED
  BY <1>1, <1>2, PTL DEF CerterSpec, SchedulerAsModelled, Scheduler!Spec

-----------------------------------------------------------------------------
(* The files and the passes, as Typed of RenewalProof has them: a pass     *)
(* that works on an id knows its domains, and has a certificate to save.   *)
Working == {"stat", "issue", "openCrt"} \cup Scheduler!Saving

WorkTyped ==
  \A p \in Scheduler!Passes :
    /\ stage[p] \in Working
         => cur[p] \in AnyCert /\ left[p][cur[p]] \in DomainLists
    /\ stage[p] = "stat" => held[p] \in Scheduler!Contents \cup {Torn}
    /\ stage[p] \in {"openCrt"} \cup Scheduler!Saving
         => held[p] \in Scheduler!Contents

PassesTyped == Scheduler!TypeOK /\ WorkTyped

LEMMA PassesTypedInit == Scheduler!Init => PassesTyped
BY PassesAssumption
   DEF Scheduler!Init, PassesTyped, Scheduler!TypeOK, WorkTyped, Working,
       Scheduler!Saving, Scheduler!PcValues, Scheduler!NoList, Scheduler!Lists,
       Scheduler!Entries, Scheduler!Passes, Scheduler!Configured

LEMMA PassesTypedStep ==
  PassesTyped /\ [Scheduler!Next]_Scheduler!vars => PassesTyped'
<1> SUFFICES ASSUME PassesTyped, [Scheduler!Next]_Scheduler!vars
             PROVE  PassesTyped'
  OBVIOUS
<1> USE DEF PassesTyped, Scheduler!TypeOK, WorkTyped, Working, Scheduler!Saving,
        Scheduler!PcValues, Scheduler!Lists, Scheduler!list, Scheduler!files,
        Scheduler!work, Scheduler!history
<1>1. CASE Scheduler!Tick \/ \E p \in Reloads : Scheduler!ReloadConfig(p)
  <2>1. CASE Scheduler!Tick
    BY <2>1 DEF Scheduler!Tick, Scheduler!Passes
  <2>2. ASSUME NEW p \in Reloads, Scheduler!ReloadConfig(p) PROVE PassesTyped'
    BY <2>2 DEF Scheduler!ReloadConfig, Scheduler!TakeList, Scheduler!Passes,
       Scheduler!Configured
  <2> QED
    BY <1>1, <2>1, <2>2
<1>2. ASSUME NEW p \in Scheduler!Passes, Scheduler!ReadCrt(p) PROVE PassesTyped'
  <2>1. PICK i \in AnyCert :
          /\ left[p][i] # None
          /\ cur' = [cur EXCEPT ![p] = i]
          /\ \/ stage' = [stage EXCEPT ![p] = "issue"] /\ UNCHANGED held
             \/ /\ crt[i] # Absent
                /\ stage' = [stage EXCEPT ![p] = "stat"]
                /\ held' = [held EXCEPT ![p] = crt[i]]
    BY <1>2 DEF Scheduler!ReadCrt
  <2>2. left' = left /\ left[p][i] \in DomainLists
    BY <1>2, <2>1 DEF Scheduler!ReadCrt
  <2>3. crt[i] # Absent => crt[i] \in Scheduler!Contents \cup {Torn}
    OBVIOUS
  <2>4. /\ cur' \in [Scheduler!Passes -> AnyCert \cup {None}]
        /\ stage' \in [Scheduler!Passes -> Scheduler!PcValues]
        /\ held' \in [Scheduler!Passes -> Scheduler!Contents \cup {None, Torn}]
    BY <2>1, <2>3
  <2>5. Scheduler!TypeOK'
    BY <1>2, <2>4 DEF Scheduler!ReadCrt
  <2> QED
    BY <2>1, <2>2, <2>3, <2>5
<1>3. ASSUME NEW p \in Scheduler!Passes, Scheduler!TakeSnapshot(p) PROVE PassesTyped'
  BY <1>3 DEF Scheduler!TakeSnapshot
<1>4. ASSUME NEW p \in Scheduler!Passes, Scheduler!KeepCrt(p) PROVE PassesTyped'
  BY <1>4 DEF Scheduler!KeepCrt, Scheduler!Continue
<1>5. ASSUME NEW p \in Scheduler!Passes, Scheduler!RejectCrt(p) PROVE PassesTyped'
  BY <1>5 DEF Scheduler!RejectCrt
<1>6. ASSUME NEW p \in Scheduler!Passes, Scheduler!Issue(p) PROVE PassesTyped'
  BY <1>6 DEF Scheduler!Issue, Scheduler!Contents
<1>7. ASSUME NEW p \in Scheduler!Passes, Scheduler!IssueFails(p) PROVE PassesTyped'
  BY <1>7 DEF Scheduler!IssueFails, Scheduler!Continue
<1>8. ASSUME NEW p \in Scheduler!Passes, Scheduler!OpenCrt(p) PROVE PassesTyped'
  BY <1>8 DEF Scheduler!OpenCrt
<1>9. ASSUME NEW p \in Scheduler!Passes, Scheduler!WriteCrt(p) PROVE PassesTyped'
  BY <1>9 DEF Scheduler!WriteCrt, Scheduler!Deciding
<1>10. ASSUME NEW p \in Scheduler!Passes, Scheduler!OpenKey(p) PROVE PassesTyped'
  BY <1>10 DEF Scheduler!OpenKey, Scheduler!Deciding
<1>11. ASSUME NEW p \in Scheduler!Passes, Scheduler!WriteKey(p) PROVE PassesTyped'
  <2>1. Scheduler!PrivateKey(held[p]) \in Keys
    BY <1>11 DEF Scheduler!WriteKey, Scheduler!PrivateKey, Scheduler!Contents
  <2> QED
    BY <1>11, <2>1 DEF Scheduler!WriteKey, Scheduler!Continue
<1>12. ASSUME NEW p \in Scheduler!Passes, Scheduler!SaveFails(p) PROVE PassesTyped'
  BY <1>12 DEF Scheduler!SaveFails, Scheduler!Continue
<1>13. ASSUME NEW p \in Scheduler!Passes, Scheduler!ListDir(p) PROVE PassesTyped'
  BY <1>13 DEF Scheduler!ListDir, Scheduler!FilesPresent
<1>14. ASSUME NEW p \in Scheduler!Passes, Scheduler!ListDirFails(p) PROVE PassesTyped'
  BY <1>14 DEF Scheduler!ListDirFails
<1>15. ASSUME NEW p \in Scheduler!Passes, Scheduler!ReadConfigured(p) PROVE PassesTyped'
  BY <1>15 DEF Scheduler!ReadConfigured, Scheduler!Unused
<1>16. ASSUME NEW p \in Scheduler!Passes, Scheduler!RemoveFile(p) PROVE PassesTyped'
  BY <1>16 DEF Scheduler!RemoveFile, Scheduler!Entries
<1>17. ASSUME NEW p \in Scheduler!Passes, Scheduler!RemoveFails(p) PROVE PassesTyped'
  BY <1>17 DEF Scheduler!RemoveFails
<1>18. ASSUME NEW p \in Scheduler!Passes, Scheduler!EndPass(p) PROVE PassesTyped'
  BY <1>18 DEF Scheduler!EndPass
<1>19. CASE Scheduler!Age \/ UNCHANGED Scheduler!vars
  BY <1>19 DEF Scheduler!Age, Scheduler!KeysInUse, Scheduler!vars
<1>20. CASE Scheduler!Restart
  BY <1>20, PassesAssumption DEF Scheduler!Restart, Scheduler!NoList,
     Scheduler!Passes, Scheduler!SavingId, Scheduler!Configured
<1> QED
  BY <1>1, <1>2, <1>3, <1>4, <1>5, <1>6, <1>7, <1>8, <1>9, <1>10, <1>11, <1>12,
     <1>13, <1>14, <1>15, <1>16, <1>17, <1>18, <1>19, <1>20
     DEF Scheduler!Next, Scheduler!Run, Scheduler!PassStep, Scheduler!Failure

(* Once of RenewalProof: what names an id, the list, a file or a pass,     *)
(* names one the scheduler was given; a pass removes files of dropped ids. *)
FilesGiven ==
  \A i \in AnyCert : (crt[i] # Absent \/ key[i] # Absent) => i \in configured

PassesGiven ==
  \A p \in Scheduler!Passes :
    /\ stage[p] \in Working => cur[p] \in configured
    /\ \A i \in AnyCert : left[p][i] # None => i \in configured

ListingsGiven ==
  \A p \in Scheduler!Passes :
    /\ stage[p] = "configured" => \A e \in listing[p] : e[1] \in configured
    /\ stage[p] = "remove"
         => \A e \in listing[p] : e[1] \in configured \ Scheduler!Configured

Given ==
  /\ Scheduler!Configured \subseteq configured
  /\ FilesGiven /\ PassesGiven /\ ListingsGiven

LEMMA GivenInit == Scheduler!Init => Given
BY PassesAssumption
   DEF Scheduler!Init, Given, FilesGiven, PassesGiven, ListingsGiven,
       Scheduler!NoList, Scheduler!Passes, Working, Scheduler!Saving

LEMMA GivenStep ==
  PassesTyped /\ Given /\ [Scheduler!Next]_Scheduler!vars => Given'
<1> SUFFICES ASSUME PassesTyped, Given, [Scheduler!Next]_Scheduler!vars
             PROVE  Given'
  OBVIOUS
<1> USE DEF PassesTyped, Scheduler!TypeOK, WorkTyped, Working, Scheduler!Saving,
        Given, FilesGiven, PassesGiven, ListingsGiven, Scheduler!Lists,
        Scheduler!Configured, Scheduler!list, Scheduler!files, Scheduler!work,
        Scheduler!history
<1>1. CASE Scheduler!Tick \/ Scheduler!Age \/ UNCHANGED Scheduler!vars
  BY <1>1 DEF Scheduler!Tick, Scheduler!Passes, Scheduler!Age, Scheduler!vars
<1>2. ASSUME NEW p \in Reloads, Scheduler!ReloadConfig(p) PROVE Given'
  <2> USE DEF Scheduler!ReloadConfig, Scheduler!TakeList, Scheduler!Passes
  <2>1. \A j \in configured :
          j \notin Scheduler!Configured => j \notin Scheduler!Configured'
    BY <1>2 DEF Scheduler!Contract!Change
  <2>2. configured \subseteq configured' /\ Scheduler!Configured' \subseteq configured'
    BY <1>2
  <2>3. FilesGiven' /\ PassesGiven'
    BY <1>2, <2>2
  <2>4. /\ listing' = listing
        /\ \A q \in Scheduler!Passes :
             stage'[q] \in {"configured", "remove"} => stage[q] = stage'[q]
    BY <1>2
  <2>5. ListingsGiven'
    BY <2>1, <2>2, <2>4
  <2> QED
    BY <2>2, <2>3, <2>5
<1>3. ASSUME NEW p \in Scheduler!Passes, Scheduler!ReadCrt(p) PROVE Given'
  <2>1. /\ UNCHANGED <<Scheduler!list, Scheduler!files, left, listing>>
        /\ \E i \in AnyCert : left[p][i] # None /\ cur' = [cur EXCEPT ![p] = i]
        /\ \E v \in {"issue", "stat"} : stage' = [stage EXCEPT ![p] = v]
    BY <1>3 DEF Scheduler!ReadCrt
  <2> QED
    BY <2>1
<1>4. ASSUME NEW p \in Scheduler!Passes, Scheduler!TakeSnapshot(p) PROVE Given'
  BY <1>4 DEF Scheduler!TakeSnapshot
<1>5. ASSUME NEW p \in Scheduler!Passes, Scheduler!KeepCrt(p) PROVE Given'
  BY <1>5 DEF Scheduler!KeepCrt, Scheduler!Continue
<1>6. ASSUME NEW p \in Scheduler!Passes, Scheduler!RejectCrt(p) PROVE Given'
  BY <1>6 DEF Scheduler!RejectCrt
<1>7. ASSUME NEW p \in Scheduler!Passes, Scheduler!Issue(p) PROVE Given'
  BY <1>7 DEF Scheduler!Issue
<1>8. ASSUME NEW p \in Scheduler!Passes, Scheduler!IssueFails(p) PROVE Given'
  BY <1>8 DEF Scheduler!IssueFails, Scheduler!Continue
<1>9. ASSUME NEW p \in Scheduler!Passes, Scheduler!OpenCrt(p) PROVE Given'
  BY <1>9 DEF Scheduler!OpenCrt
<1>10. ASSUME NEW p \in Scheduler!Passes, Scheduler!WriteCrt(p) PROVE Given'
  BY <1>10 DEF Scheduler!WriteCrt
<1>11. ASSUME NEW p \in Scheduler!Passes, Scheduler!OpenKey(p) PROVE Given'
  BY <1>11 DEF Scheduler!OpenKey
<1>12. ASSUME NEW p \in Scheduler!Passes, Scheduler!WriteKey(p) PROVE Given'
  BY <1>12 DEF Scheduler!WriteKey, Scheduler!Continue
<1>13. ASSUME NEW p \in Scheduler!Passes, Scheduler!SaveFails(p) PROVE Given'
  BY <1>13 DEF Scheduler!SaveFails, Scheduler!Continue
<1>14. ASSUME NEW p \in Scheduler!Passes, Scheduler!ListDir(p) PROVE Given'
  <2>1. \A e \in Scheduler!FilesPresent : e[1] \in configured
    BY DEF Scheduler!FilesPresent, Scheduler!Entries
  <2> QED
    BY <1>14, <2>1 DEF Scheduler!ListDir
<1>15. ASSUME NEW p \in Scheduler!Passes, Scheduler!ListDirFails(p) PROVE Given'
  BY <1>15 DEF Scheduler!ListDirFails
<1>16. ASSUME NEW p \in Scheduler!Passes, Scheduler!ReadConfigured(p) PROVE Given'
  BY <1>16 DEF Scheduler!ReadConfigured, Scheduler!Unused
<1>17. ASSUME NEW p \in Scheduler!Passes, Scheduler!RemoveFile(p) PROVE Given'
  BY <1>17 DEF Scheduler!RemoveFile
<1>18. ASSUME NEW p \in Scheduler!Passes, Scheduler!RemoveFails(p) PROVE Given'
  BY <1>18 DEF Scheduler!RemoveFails
<1>19. ASSUME NEW p \in Scheduler!Passes, Scheduler!EndPass(p) PROVE Given'
  BY <1>19 DEF Scheduler!EndPass
<1>20. CASE Scheduler!Restart
  BY <1>20, PassesAssumption DEF Scheduler!Restart, Scheduler!NoList,
     Scheduler!Passes
<1> QED
  BY <1>1, <1>2, <1>3, <1>4, <1>5, <1>6, <1>7, <1>8, <1>9, <1>10, <1>11, <1>12,
     <1>13, <1>14, <1>15, <1>16, <1>17, <1>18, <1>19, <1>20
     DEF Scheduler!Next, Scheduler!Run, Scheduler!PassStep, Scheduler!Failure

(* A file goes only where a pass removes it, of an id that the scheduler   *)
(* was given and has been told to drop.                                    *)
LEMMA OnlyDroppedGo ==
  ASSUME PassesTyped, Given, [Scheduler!Next]_Scheduler!vars, NEW i \in AnyCert,
         \/ crt[i] # Absent /\ crt'[i] = Absent
         \/ key[i] # Absent /\ key'[i] = Absent
  PROVE  i \in configured \ Scheduler!Configured
<1> USE DEF PassesTyped, Scheduler!TypeOK, Scheduler!files
<1>1. ASSUME NEW p \in Scheduler!Passes, Scheduler!RemoveFile(p)
      PROVE  i \in configured \ Scheduler!Configured
  <2>1. PICK e \in listing[p] :
          /\ crt' = IF e[2] = "crt" THEN [crt EXCEPT ![e[1]] = Absent] ELSE crt
          /\ key' = IF e[2] = "key" THEN [key EXCEPT ![e[1]] = Absent] ELSE key
    BY <1>1 DEF Scheduler!RemoveFile
  <2>2. e[1] \in configured \ Scheduler!Configured
    BY <1>1 DEF Scheduler!RemoveFile, Given, ListingsGiven
  <2>3. e[1] = i
    BY <2>1
  <2> QED
    BY <2>2, <2>3
<1>2. ASSUME NEW p \in Scheduler!Passes,
             Scheduler!OpenCrt(p) \/ Scheduler!OpenKey(p)
      PROVE  FALSE
  BY <1>2, FilesAssumption DEF Scheduler!OpenCrt, Scheduler!OpenKey
<1>3. ASSUME NEW p \in Scheduler!Passes, Scheduler!WriteCrt(p) PROVE FALSE
  <2>1. held[p] # Absent
    BY <1>3, FilesAssumption DEF Scheduler!WriteCrt, WorkTyped, Scheduler!Saving
  <2> QED
    BY <1>3, <2>1 DEF Scheduler!WriteCrt
<1>4. ASSUME NEW p \in Scheduler!Passes, Scheduler!WriteKey(p) PROVE FALSE
  <2>1. Scheduler!PrivateKey(held[p]) \in Keys
    BY <1>4 DEF Scheduler!WriteKey, Scheduler!PrivateKey, Scheduler!Contents,
       WorkTyped, Scheduler!Saving
  <2> QED
    BY <1>4, <2>1, FilesAssumption DEF Scheduler!WriteKey
<1>5. ASSUME UNCHANGED Scheduler!files PROVE FALSE
  BY <1>5
<1>6. \/ UNCHANGED Scheduler!files
      \/ \E p \in Scheduler!Passes :
           \/ Scheduler!OpenCrt(p) \/ Scheduler!WriteCrt(p)
           \/ Scheduler!OpenKey(p) \/ Scheduler!WriteKey(p)
           \/ Scheduler!RemoveFile(p)
  <2> HIDE DEF PassesTyped, Scheduler!TypeOK
  <2>1. ASSUME NEW p \in Scheduler!Passes, Scheduler!Failure(p)
        PROVE  UNCHANGED Scheduler!files
    BY <2>1 DEF Scheduler!Failure, Scheduler!IssueFails, Scheduler!SaveFails,
       Scheduler!ListDirFails, Scheduler!RemoveFails
  <2>2. ASSUME NEW p \in Scheduler!Passes,
               \/ Scheduler!TakeSnapshot(p) \/ Scheduler!ReadCrt(p)
               \/ Scheduler!KeepCrt(p) \/ Scheduler!RejectCrt(p)
               \/ Scheduler!Issue(p) \/ Scheduler!ListDir(p)
               \/ Scheduler!ReadConfigured(p) \/ Scheduler!EndPass(p)
        PROVE  UNCHANGED Scheduler!files
    BY <2>2 DEF Scheduler!TakeSnapshot, Scheduler!ReadCrt, Scheduler!KeepCrt,
       Scheduler!RejectCrt, Scheduler!Issue, Scheduler!ListDir,
       Scheduler!ReadConfigured, Scheduler!EndPass
  <2>3. ASSUME NEW p \in Reloads, Scheduler!ReloadConfig(p)
        PROVE  UNCHANGED Scheduler!files
    BY <2>3 DEF Scheduler!ReloadConfig, Scheduler!TakeList
  <2>4. CASE Scheduler!Tick \/ Scheduler!Age \/ Scheduler!Restart
             \/ UNCHANGED Scheduler!vars
    BY <2>4 DEF Scheduler!Tick, Scheduler!Age, Scheduler!Restart, Scheduler!vars
  <2> QED
    BY <2>1, <2>2, <2>3, <2>4 DEF Scheduler!Next, Scheduler!Run, Scheduler!PassStep
<1> QED
  BY <1>1, <1>2, <1>3, <1>4, <1>5, <1>6

(* Such an id is not one that the API lists: it is not static, and what    *)
(* the API has given out and the scheduler has dropped is deleted.         *)
LEMMA DroppedNotListed ==
  ASSUME APIInv, ListHanded, NEW c \in configured \ Scheduler!Configured,
         c \in AnyCert
  PROVE  AllCertificates(state)[c] = None
<1>1. c \in Spent \ Listed /\ c \notin DOMAIN StaticCerts
  BY DEF ListHanded, Handed
<1>2. c \in CertIds /\ c \notin Present(state)
  BY <1>1 DEF Spent
<1> QED
  BY <1>2 DEF AllCertificates, Present

(* The files of a certificate that the API lists are never removed, for    *)
(* any number of requests and passes in flight, failed saves and restarts. *)
THEOREM FilesStay == CerterSpec => FilesFollowAPI
<1> DEFINE Inv == APIInv /\ ListHanded /\ PassesTyped /\ Given
           Kept == \A c \in AnyCert : AllCertificates(state)[c] # None
                     => /\ crt[c] # Absent => crt'[c] # Absent
                        /\ key[c] # Absent => key'[c] # Absent
<1>1. CerterInit => Inv
  BY APIInvInit, HandedInit, PassesTypedInit, GivenInit DEF CerterInit
<1>2. Inv /\ [CerterNext]_certerVars => Inv'
  BY APIInvStep, StepOfScheduler, PassesTypedStep, GivenStep
<1>3. Inv /\ [CerterNext]_certerVars => [Kept]_certerVars
  BY StepOfScheduler, OnlyDroppedGo, DroppedNotListed
<1> QED
  BY <1>1, <1>2, <1>3, PTL DEF CerterSpec, FilesFollowAPI
=============================================================================
