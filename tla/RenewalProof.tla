--------------------------- MODULE RenewalProof ---------------------------
(* Theorems about Renewal, for every set of ids, lists of domains, keys    *)
(* and passes, and for every choice of faults.                             *)
EXTENDS Renewal, TLAPS

Working == {"stat", "issue", "openCrt"} \cup Saving

(* A pass that works on an id knows its domains, and holds a certificate   *)
(* from the moment it has obtained one.                                    *)
WorkOK ==
  \A p \in Passes :
    /\ pc[p] \in Working => cur[p] \in Ids /\ left[p][cur[p]] \in DomainLists
    /\ pc[p] = "stat" => held[p] \in Contents \cup {Torn}
    /\ pc[p] \in {"openCrt"} \cup Saving => held[p] \in Contents

Typed == TypeOK /\ WorkOK

LEMMA TypedInit == Init => Typed
BY LoopAssumption DEF Init, Typed, TypeOK, WorkOK, Working, Saving, PcValues,
   NoList, Lists, Entries, Passes, Configured

LEMMA TypedStep == Typed /\ [Next]_vars => Typed'
<1> SUFFICES ASSUME Typed, [Next]_vars PROVE Typed'
  OBVIOUS
<1> USE DEF Typed, TypeOK, WorkOK, Working, Saving, PcValues, Lists, list,
        files, work, history
<1>1. CASE Tick
  BY <1>1 DEF Tick, Passes
<1>2. ASSUME NEW p \in Reloads, ReloadConfig(p) PROVE Typed'
  BY <1>2 DEF ReloadConfig, TakeList, Passes, Configured
<1>3. ASSUME NEW p \in Passes, TakeSnapshot(p) PROVE Typed'
  BY <1>3 DEF TakeSnapshot
<1>4. ASSUME NEW p \in Passes, ReadCrt(p) PROVE Typed'
  <2>1. PICK i \in Ids :
          /\ left[p][i] # None
          /\ cur' = [cur EXCEPT ![p] = i]
          /\ \/ /\ crt[i] = Absent
                /\ pc' = [pc EXCEPT ![p] = "issue"]
                /\ UNCHANGED held
             \/ /\ crt[i] # Absent
                /\ pc' = [pc EXCEPT ![p] = "stat"]
                /\ held' = [held EXCEPT ![p] = crt[i]]
    BY <1>4 DEF ReadCrt
  <2>2. left' = left /\ left[p][i] \in DomainLists
    BY <1>4, <2>1 DEF ReadCrt
  <2>3. crt[i] # Absent => crt[i] \in Contents \cup {Torn}
    OBVIOUS
  <2>4. /\ cur' \in [Passes -> Ids \cup {None}]
        /\ pc' \in [Passes -> PcValues]
        /\ held' \in [Passes -> Contents \cup {None, Torn}]
    BY <2>1, <2>3
  <2>5. TypeOK'
    BY <1>4, <2>4 DEF ReadCrt
  <2>6. WorkOK'
    BY <2>1, <2>2, <2>3
  <2> QED
    BY <2>5, <2>6
<1>5. ASSUME NEW p \in Passes, KeepCrt(p) PROVE Typed'
  BY <1>5 DEF KeepCrt, Continue
<1>6. ASSUME NEW p \in Passes, RejectCrt(p) PROVE Typed'
  BY <1>6 DEF RejectCrt
<1>7. ASSUME NEW p \in Passes, Issue(p) PROVE Typed'
  BY <1>7 DEF Issue, Contents
<1>8. ASSUME NEW p \in Passes, IssueFails(p) PROVE Typed'
  BY <1>8 DEF IssueFails, Continue
<1>9. ASSUME NEW p \in Passes, OpenCrt(p) PROVE Typed'
  BY <1>9 DEF OpenCrt
<1>10. ASSUME NEW p \in Passes, WriteCrt(p) PROVE Typed'
  BY <1>10 DEF WriteCrt, Deciding
<1>11. ASSUME NEW p \in Passes, OpenKey(p) PROVE Typed'
  BY <1>11 DEF OpenKey, Deciding
<1>12. ASSUME NEW p \in Passes, WriteKey(p) PROVE Typed'
  <2>1. PrivateKey(held[p]) \in Keys
    BY <1>12 DEF WriteKey, PrivateKey, Contents
  <2> QED
    BY <1>12, <2>1 DEF WriteKey, Continue
<1>13. ASSUME NEW p \in Passes, SaveFails(p) PROVE Typed'
  BY <1>13 DEF SaveFails, Continue
<1>14. ASSUME NEW p \in Passes, ListDir(p) PROVE Typed'
  BY <1>14 DEF ListDir, FilesPresent
<1>15. ASSUME NEW p \in Passes, ListDirFails(p) PROVE Typed'
  BY <1>15 DEF ListDirFails
<1>16. ASSUME NEW p \in Passes, ReadConfigured(p) PROVE Typed'
  BY <1>16 DEF ReadConfigured, Unused
<1>17. ASSUME NEW p \in Passes, RemoveFile(p) PROVE Typed'
  BY <1>17 DEF RemoveFile, Entries
<1>18. ASSUME NEW p \in Passes, RemoveFails(p) PROVE Typed'
  BY <1>18 DEF RemoveFails
<1>19. ASSUME NEW p \in Passes, EndPass(p) PROVE Typed'
  BY <1>19 DEF EndPass
<1>20. CASE Age
  BY <1>20 DEF Age, KeysInUse
<1>21. CASE Restart
  BY <1>21, LoopAssumption DEF Restart, NoList, Passes, SavingId, Configured
<1>22. CASE UNCHANGED vars
  BY <1>22 DEF vars
<1> QED
  BY <1>1, <1>2, <1>3, <1>4, <1>5, <1>6, <1>7, <1>8, <1>9, <1>10, <1>11, <1>12,
     <1>13, <1>14, <1>15, <1>16, <1>17, <1>18, <1>19, <1>20, <1>21, <1>22
     DEF Next, Run, PassStep, Failure

(* Every value the scheduler, the passes and the files can take has its    *)
(* type: in particular no pass saves without an id and a certificate.      *)
THEOREM TypeCorrect == Spec => []TypeOK
<1>1. Typed => TypeOK
  BY DEF Typed
<1> QED
  BY <1>1, TypedInit, TypedStep, PTL DEF Spec

-----------------------------------------------------------------------------
(* Whatever names an id, the list, a file or a pass, names one that was    *)
(* configured once; and a pass that removes has only entries of ids that   *)
(* were dropped, which ReloadConfig can never bring back.                  *)
ConfiguredOnce == Configured \subseteq used

FilesOnce == \A i \in Ids : (crt[i] # Absent \/ key[i] # Absent) => i \in used

PassesOnce ==
  \A p \in Passes : /\ pc[p] \in Working => cur[p] \in used
                    /\ \A i \in Ids : left[p][i] # None => i \in used

ListingsOnce ==
  \A p \in Passes :
    /\ pc[p] = "configured" => \A e \in listing[p] : e[1] \in used
    /\ pc[p] = "remove" => \A e \in listing[p] : e[1] \in used \ Configured

Once == ConfiguredOnce /\ FilesOnce /\ PassesOnce /\ ListingsOnce

LEMMA OnceInit == Init => Once
BY LoopAssumption
   DEF Init, Once, ConfiguredOnce, FilesOnce, PassesOnce, ListingsOnce, NoList,
       Passes, Working, Saving

LEMMA OnceStep == Typed /\ Once /\ [Next]_vars => Once'
<1> SUFFICES ASSUME Typed, Once, [Next]_vars PROVE Once'
  OBVIOUS
<1> USE DEF Typed, TypeOK, WorkOK, Working, Saving, Once, ConfiguredOnce,
        FilesOnce, PassesOnce, ListingsOnce, Lists, Configured, list, files, work,
        history
<1>1. CASE Tick
  BY <1>1 DEF Tick, Passes
<1>2. ASSUME NEW p \in Reloads, ReloadConfig(p) PROVE Once'
  <2>2. \A j \in used : j \notin Configured => j \notin Configured'
    BY <1>2 DEF ReloadConfig, TakeList, Contract!Change
  <2>3. used \subseteq used' /\ Configured' \subseteq used'
    BY <1>2 DEF ReloadConfig, TakeList
  <2>4. FilesOnce'
    BY <1>2, <2>3 DEF ReloadConfig, TakeList
  <2>5. PassesOnce'
    BY <1>2, <2>3 DEF ReloadConfig, TakeList, Passes
  <2>6. ListingsOnce'
    <3>1. \A q \in Passes : pc'[q] \in {"configured", "remove"} => pc[q] = pc'[q]
      BY <1>2 DEF ReloadConfig, TakeList, Passes
    <3>2. listing' = listing
      BY <1>2 DEF ReloadConfig, TakeList
    <3> QED
      BY <3>1, <3>2, <2>2, <2>3
  <2> QED
    BY <2>3, <2>4, <2>5, <2>6
<1>3. ASSUME NEW p \in Passes, TakeSnapshot(p) PROVE Once'
  BY <1>3 DEF TakeSnapshot
<1>4. ASSUME NEW p \in Passes, ReadCrt(p) PROVE Once'
  <2>1. /\ UNCHANGED <<list, files, left, listing>>
        /\ \E i \in Ids : left[p][i] # None /\ cur' = [cur EXCEPT ![p] = i]
        /\ \E v \in {"issue", "stat"} : pc' = [pc EXCEPT ![p] = v]
    BY <1>4 DEF ReadCrt
  <2> QED
    BY <2>1
<1>5. ASSUME NEW p \in Passes, KeepCrt(p) PROVE Once'
  BY <1>5 DEF KeepCrt, Continue
<1>6. ASSUME NEW p \in Passes, RejectCrt(p) PROVE Once'
  BY <1>6 DEF RejectCrt
<1>7. ASSUME NEW p \in Passes, Issue(p) PROVE Once'
  BY <1>7 DEF Issue
<1>8. ASSUME NEW p \in Passes, IssueFails(p) PROVE Once'
  BY <1>8 DEF IssueFails, Continue
<1>9. ASSUME NEW p \in Passes, OpenCrt(p) PROVE Once'
  BY <1>9 DEF OpenCrt
<1>10. ASSUME NEW p \in Passes, WriteCrt(p) PROVE Once'
  BY <1>10 DEF WriteCrt
<1>11. ASSUME NEW p \in Passes, OpenKey(p) PROVE Once'
  BY <1>11 DEF OpenKey
<1>12. ASSUME NEW p \in Passes, WriteKey(p) PROVE Once'
  BY <1>12 DEF WriteKey, Continue
<1>13. ASSUME NEW p \in Passes, SaveFails(p) PROVE Once'
  BY <1>13 DEF SaveFails, Continue
<1>14. ASSUME NEW p \in Passes, ListDir(p) PROVE Once'
  <2>1. \A e \in FilesPresent : e[1] \in used
    BY DEF FilesPresent, Entries
  <2> QED
    BY <1>14, <2>1 DEF ListDir
<1>15. ASSUME NEW p \in Passes, ListDirFails(p) PROVE Once'
  BY <1>15 DEF ListDirFails
<1>16. ASSUME NEW p \in Passes, ReadConfigured(p) PROVE Once'
  BY <1>16 DEF ReadConfigured, Unused
<1>17. ASSUME NEW p \in Passes, RemoveFile(p) PROVE Once'
  BY <1>17 DEF RemoveFile
<1>18. ASSUME NEW p \in Passes, RemoveFails(p) PROVE Once'
  BY <1>18 DEF RemoveFails
<1>19. ASSUME NEW p \in Passes, EndPass(p) PROVE Once'
  BY <1>19 DEF EndPass
<1>20. CASE Age
  BY <1>20 DEF Age
<1>21. CASE Restart
  BY <1>21, LoopAssumption DEF Restart, NoList, Passes
<1>22. CASE UNCHANGED vars
  BY <1>22 DEF vars
<1> QED
  BY <1>1, <1>2, <1>3, <1>4, <1>5, <1>6, <1>7, <1>8, <1>9, <1>10, <1>11, <1>12,
     <1>13, <1>14, <1>15, <1>16, <1>17, <1>18, <1>19, <1>20, <1>21, <1>22
     DEF Next, Run, PassStep, Failure

(* Only RemoveFile takes a file away, and what it takes is not configured. *)
LEMMA StepSpares ==
  Typed /\ Once /\ [Next]_vars
    => \A i \in Configured : /\ crt[i] # Absent => crt'[i] # Absent
                             /\ key[i] # Absent => key'[i] # Absent
<1> SUFFICES ASSUME Typed, Once, [Next]_vars, NEW i \in Configured
             PROVE  /\ crt[i] # Absent => crt'[i] # Absent
                    /\ key[i] # Absent => key'[i] # Absent
  OBVIOUS
<1> USE DEF Typed, TypeOK, files
<1>1. ASSUME NEW p \in Passes, OpenCrt(p) PROVE crt'[i] = crt[i] \/ crt'[i] = Torn
  BY <1>1 DEF OpenCrt
<1>2. ASSUME NEW p \in Passes, WriteCrt(p)
      PROVE  crt'[i] = crt[i] \/ crt'[i] \in Contents
  BY <1>2 DEF WriteCrt, WorkOK, Saving
<1>3. ASSUME NEW p \in Passes, OpenKey(p) PROVE key'[i] = key[i] \/ key'[i] = Torn
  BY <1>3 DEF OpenKey
<1>4. ASSUME NEW p \in Passes, WriteKey(p)
      PROVE  key'[i] = key[i] \/ key'[i] \in Keys
  <2>1. PrivateKey(held[p]) \in Keys
    BY <1>4 DEF WriteKey, PrivateKey, Contents, WorkOK, Saving
  <2> QED
    BY <1>4, <2>1 DEF WriteKey
<1>5. ASSUME NEW p \in Passes, RemoveFile(p)
      PROVE  crt'[i] = crt[i] /\ key'[i] = key[i]
  <2>1. PICK e \in listing[p] :
          /\ crt' = IF e[2] = "crt" THEN [crt EXCEPT ![e[1]] = Absent] ELSE crt
          /\ key' = IF e[2] = "key" THEN [key EXCEPT ![e[1]] = Absent] ELSE key
    BY <1>5 DEF RemoveFile
  <2>2. e[1] # i
    BY <1>5 DEF RemoveFile, Once, ListingsOnce
  <2> QED
    BY <2>1, <2>2 DEF Configured
<1> HIDE DEF Typed, TypeOK
<1>6. \/ UNCHANGED files
      \/ \E p \in Passes : \/ OpenCrt(p) /\ key' = key
                           \/ WriteCrt(p) /\ key' = key
                           \/ OpenKey(p) /\ crt' = crt
                           \/ WriteKey(p) /\ crt' = crt
                           \/ RemoveFile(p)
  <2>1. ASSUME NEW p \in Reloads, ReloadConfig(p) PROVE UNCHANGED files
    BY <2>1 DEF ReloadConfig, TakeList
  <2>2. ASSUME NEW p \in Passes, Failure(p) PROVE UNCHANGED files
    BY <2>2 DEF Failure, IssueFails, SaveFails, ListDirFails, RemoveFails
  <2>3. ASSUME NEW p \in Passes,
               \/ TakeSnapshot(p) \/ ReadCrt(p) \/ KeepCrt(p) \/ RejectCrt(p)
               \/ Issue(p) \/ ListDir(p) \/ ReadConfigured(p) \/ EndPass(p)
        PROVE  UNCHANGED files
    BY <2>3 DEF TakeSnapshot, ReadCrt, KeepCrt, RejectCrt, Issue, ListDir,
       ReadConfigured, EndPass
  <2>4. ASSUME NEW p \in Passes
        PROVE  /\ OpenCrt(p) \/ WriteCrt(p) => key' = key
               /\ OpenKey(p) \/ WriteKey(p) => crt' = crt
    BY DEF OpenCrt, WriteCrt, OpenKey, WriteKey
  <2>5. CASE Tick \/ Age \/ Restart \/ UNCHANGED vars
    BY <2>5 DEF Tick, Age, Restart, vars
  <2> QED
    BY <2>1, <2>2, <2>3, <2>4, <2>5 DEF Next, Run, PassStep
<1>7. CASE \E p \in Passes : RemoveFile(p)
  BY <1>5, <1>7
<1>8. CASE \E p \in Passes : (OpenCrt(p) \/ WriteCrt(p)) /\ key' = key
  BY <1>1, <1>2, <1>8, SentinelAssumption
<1>9. CASE \E p \in Passes : (OpenKey(p) \/ WriteKey(p)) /\ crt' = crt
  BY <1>3, <1>4, <1>9, SentinelAssumption
<1>10. CASE UNCHANGED files
  BY <1>10
<1> QED
  BY <1>6, <1>7, <1>8, <1>9, <1>10

(* The cleanup never takes a file of a configured id, for any number of    *)
(* passes and reloads in flight, failures and restarts.                    *)
THEOREM CleanupSafe == Spec => CleanupSparesConfigured
<1> DEFINE Inv == Typed /\ Once
<1>1. Init => Inv
  BY TypedInit, OnceInit
<1>2. Inv /\ [Next]_vars => Inv'
  BY TypedStep, OnceStep
<1>3. Inv /\ [Next]_vars
        => [\A i \in Configured : /\ crt[i] # Absent => crt'[i] # Absent
                                  /\ key[i] # Absent => key'[i] # Absent]_vars
  BY StepSpares
<1> QED
  BY <1>1, <1>2, <1>3, PTL DEF Spec, CleanupSparesConfigured

-----------------------------------------------------------------------------
(* Two saves of one id at once fray it; and a save that nothing has        *)
(* overlapped leaves its own certificate, or none, beside the key it is    *)
(* about to write.                                                         *)
SavesApart ==
  \A p, q \in Passes :
    (p # q /\ pc[p] \in Saving /\ pc[q] \in Saving /\ cur[p] = cur[q])
       => cur[p] \in frayed

HalfSaved(p, i) ==
  /\ pc[p] = "writeCrt" /\ p \notin linked => crt[i] = Absent
  /\ pc[p] \in {"openKey", "writeKey"} => crt[i] \in {Absent, held[p]}
  /\ pc[p] = "writeKey" /\ p \notin linked => key[i] = Absent

SavesInOrder ==
  \A p \in Passes :
    (pc[p] \in Saving /\ cur[p] \notin frayed) => HalfSaved(p, cur[p])

Paired == PairsIntact /\ SavesApart /\ SavesInOrder

LEMMA PairedInit == Init => Paired
BY SentinelAssumption
   DEF Init, Paired, PairsIntact, Intact, SavesApart, SavesInOrder, Saving

(* A step that touches no file and leaves every save where it is. *)
AsideStep ==
  /\ UNCHANGED <<files, linked, frayed>>
  /\ \A q \in Passes :
       (pc[q] \in Saving \/ pc'[q] \in Saving)
          => pc'[q] = pc[q] /\ cur'[q] = cur[q] /\ held'[q] = held[q]

LEMMA PairedAside == Paired /\ AsideStep => Paired'
<1> SUFFICES ASSUME Paired, AsideStep PROVE Paired'
  OBVIOUS
<1> USE DEF Paired, AsideStep, files
<1>1. \A i \in Ids : SavingId(i)' = {} => SavingId(i) = {}
  BY DEF SavingId
<1>2. PairsIntact'
  BY <1>1 DEF PairsIntact, Intact
<1>3. SavesApart'
  BY DEF SavesApart
<1>4. SavesInOrder'
  BY DEF SavesInOrder, HalfSaved
<1> QED
  BY <1>2, <1>3, <1>4

LEMMA AsideActions ==
  ASSUME Typed, [Next]_vars
  PROVE  \/ AsideStep
         \/ Restart
         \/ \E p \in Passes : \/ OpenCrt(p) \/ WriteCrt(p) \/ OpenKey(p)
                              \/ WriteKey(p) \/ SaveFails(p) \/ RemoveFile(p)
<1> USE DEF Typed, TypeOK, AsideStep, Saving, files, work, history
<1>1. CASE Tick
  BY <1>1 DEF Tick, Passes
<1>2. ASSUME NEW p \in Reloads, ReloadConfig(p) PROVE AsideStep
  BY <1>2 DEF ReloadConfig, TakeList, Passes
<1>3. ASSUME NEW p \in Passes, TakeSnapshot(p) PROVE AsideStep
  BY <1>3 DEF TakeSnapshot
<1>4. ASSUME NEW p \in Passes, ReadCrt(p) PROVE AsideStep
  <2>1. /\ pc[p] = "choose"
        /\ UNCHANGED <<files, linked, frayed>>
        /\ \E i \in Ids : cur' = [cur EXCEPT ![p] = i]
        /\ \E v \in {"issue", "stat"} : pc' = [pc EXCEPT ![p] = v]
        /\ \E h : held' = [held EXCEPT ![p] = h] \/ held' = held
    BY <1>4 DEF ReadCrt
  <2> QED
    BY <2>1
<1>5. ASSUME NEW p \in Passes, KeepCrt(p) PROVE AsideStep
  BY <1>5 DEF KeepCrt, Continue
<1>6. ASSUME NEW p \in Passes, RejectCrt(p) PROVE AsideStep
  BY <1>6 DEF RejectCrt
<1>7. ASSUME NEW p \in Passes, Issue(p) PROVE AsideStep
  BY <1>7 DEF Issue
<1>8. ASSUME NEW p \in Passes, IssueFails(p) PROVE AsideStep
  BY <1>8 DEF IssueFails, Continue
<1>9. ASSUME NEW p \in Passes, ListDir(p) \/ ListDirFails(p) PROVE AsideStep
  BY <1>9 DEF ListDir, ListDirFails
<1>10. ASSUME NEW p \in Passes, ReadConfigured(p) PROVE AsideStep
  BY <1>10 DEF ReadConfigured
<1>11. ASSUME NEW p \in Passes, RemoveFails(p) \/ EndPass(p) PROVE AsideStep
  BY <1>11 DEF RemoveFails, EndPass
<1>12. CASE Age \/ UNCHANGED vars
  BY <1>12 DEF Age, vars
<1> QED
  BY <1>1, <1>2, <1>3, <1>4, <1>5, <1>6, <1>7, <1>8, <1>9, <1>10, <1>11, <1>12
     DEF Next, Run, PassStep, Failure

LEMMA OpenStep ==
  ASSUME Typed, Paired, NEW p \in Passes, OpenCrt(p) PROVE Paired'
<1> USE DEF Typed, TypeOK, WorkOK, Working, Saving, work
<1> DEFINE i == cur[p]
<1>1. /\ pc' = [pc EXCEPT ![p] = "writeCrt"]
      /\ cur' = cur /\ held' = held /\ key' = key
      /\ linked' = linked \cup {p} /\ p \notin SavingId(i)
      /\ crt' = [crt EXCEPT ![i] = Torn]
      /\ \A j \in Ids : j # i => (j \in frayed' <=> j \in frayed)
      /\ i \in frayed' <=> SavingId(i) # {}
  BY DEF OpenCrt, SavingId
<1>2. \A j \in Ids : SavingId(j)' = IF j = i THEN SavingId(j) \cup {p}
                                             ELSE SavingId(j)
  BY <1>1 DEF SavingId, OpenCrt
<1>3. PairsIntact'
  <2> SUFFICES ASSUME NEW j \in Ids \ frayed', SavingId(j)' = {}
               PROVE  Intact(j)'
    BY DEF PairsIntact
  <2>1. j # i
    BY <1>2
  <2>2. crt'[j] = crt[j] /\ key'[j] = key[j] /\ j \notin frayed
    BY <1>1, <2>1
  <2>3. SavingId(j) = {}
    BY <1>2, <2>1
  <2> QED
    BY <2>2, <2>3 DEF Paired, PairsIntact, Intact
<1>4. SavesApart'
  <2> SUFFICES ASSUME NEW q \in Passes, NEW r \in Passes, q # r,
                      pc'[q] \in Saving, pc'[r] \in Saving, cur[q] = cur[r]
               PROVE  cur[q] \in frayed'
    BY <1>1 DEF SavesApart
  <2>1. CASE cur[q] = i
    BY <1>1, <2>1 DEF SavingId
  <2>2. CASE cur[q] # i
    BY <1>1, <2>2 DEF Paired, SavesApart
  <2> QED
    BY <2>1, <2>2
<1>5. SavesInOrder'
  <2> SUFFICES ASSUME NEW q \in Passes, pc'[q] \in Saving, cur[q] \notin frayed'
               PROVE  HalfSaved(q, cur[q])'
    BY <1>1 DEF SavesInOrder
  <2>1. CASE q = p
    BY <1>1, <2>1 DEF HalfSaved
  <2>2. CASE q # p
    <3>1. pc[q] \in Saving /\ cur[q] # i
      BY <1>1, <2>2 DEF SavingId
    <3> QED
      BY <1>1, <2>2, <3>1 DEF HalfSaved, Paired, SavesInOrder
  <2> QED
    BY <2>1, <2>2
<1> QED
  BY <1>3, <1>4, <1>5 DEF Paired

(* WriteCrt and OpenKey go on with a save of p. *)
LEMMA MiddleStep ==
  ASSUME Typed, Paired, NEW p \in Passes, WriteCrt(p) \/ OpenKey(p)
  PROVE  Paired'
<1> USE DEF Typed, TypeOK, WorkOK, Working, Saving, work
<1> DEFINE i == cur[p]
<1>1. /\ pc[p] \in Saving /\ i \in Ids
      /\ \E v \in Saving : pc' = [pc EXCEPT ![p] = v]
      /\ cur' = cur /\ held' = held /\ frayed' = frayed
      /\ \A q \in Passes \ {p} : q \in linked' <=> q \in linked
      /\ \A j \in Ids : j # i => crt'[j] = crt[j] /\ key'[j] = key[j]
  BY DEF WriteCrt, OpenKey
<1>2. \A j \in Ids : SavingId(j)' = SavingId(j)
  BY <1>1 DEF SavingId
<1>3. PairsIntact'
  <2> SUFFICES ASSUME NEW j \in Ids \ frayed', SavingId(j)' = {}
               PROVE  Intact(j)'
    BY DEF PairsIntact
  <2>1. j # i
    BY <1>1, <1>2 DEF SavingId
  <2> QED
    BY <1>1, <1>2, <2>1 DEF Paired, PairsIntact, Intact
<1>4. SavesApart'
  BY <1>1 DEF Paired, SavesApart
<1>5. SavesInOrder'
  <2> SUFFICES ASSUME NEW q \in Passes, pc'[q] \in Saving, cur[q] \notin frayed
               PROVE  HalfSaved(q, cur[q])'
    BY <1>1 DEF SavesInOrder
  <2>0. HalfSaved(q, cur[q]) /\ pc[q] \in Saving
    BY <1>1 DEF Paired, SavesInOrder
  <2>1. CASE q = p /\ WriteCrt(p)
    BY <2>0, <2>1 DEF HalfSaved, WriteCrt
  <2>2. CASE q = p /\ OpenKey(p)
    BY <2>0, <2>2 DEF HalfSaved, OpenKey
  <2>3. CASE q # p
    <3>1. cur[q] # i
      BY <1>1, <2>0, <2>3 DEF Paired, SavesApart
    <3> QED
      BY <1>1, <2>0, <2>3, <3>1 DEF HalfSaved
  <2> QED
    BY <2>1, <2>2, <2>3
<1> QED
  BY <1>3, <1>4, <1>5 DEF Paired

(* WriteKey ends a save with the pair complete; SaveFails ends it frayed. *)
LEMMA EndSaveStep ==
  ASSUME Typed, Paired, NEW p \in Passes, WriteKey(p) \/ SaveFails(p)
  PROVE  Paired'
<1> USE DEF Typed, TypeOK, WorkOK, Working, Saving, work
<1> DEFINE i == cur[p]
<1>1. /\ pc[p] \in Working /\ i \in Ids
      /\ pc' = [pc EXCEPT ![p] = "choose"]
      /\ \A q \in Passes \ {p} : /\ cur'[q] = cur[q] /\ held'[q] = held[q]
                                 /\ q \in linked' <=> q \in linked
      /\ crt' = crt
      /\ \A j \in Ids : j # i => key'[j] = key[j]
      /\ frayed \subseteq frayed'
  BY DEF WriteKey, SaveFails, Continue, files
<1>2. \A j \in Ids : SavingId(j)' = SavingId(j) \ {p}
  BY <1>1 DEF SavingId
<1>3. PairsIntact'
  <2> SUFFICES ASSUME NEW j \in Ids \ frayed', SavingId(j)' = {}
               PROVE  Intact(j)'
    BY DEF PairsIntact
  <2>1. CASE SavingId(j) = {}
    <3>1. key'[j] = key[j]
      BY <1>1, <2>1 DEF SavingId, WriteKey, SaveFails, files
    <3> QED
      BY <1>1, <2>1, <3>1 DEF Paired, PairsIntact, Intact
  <2>2. CASE SavingId(j) # {}
    <3>1. p \in SavingId(j) /\ j = i /\ pc[p] \in Saving
      BY <1>2, <2>2 DEF SavingId
    <3>2. WriteKey(p)
      BY <3>1 DEF SaveFails
    <3>3. HalfSaved(p, i)
      BY <1>1, <3>1 DEF Paired, SavesInOrder
    <3>4. crt[i] \in {Absent, held[p]}
      BY <1>1, <3>1, <3>2, <3>3 DEF HalfSaved, WriteKey
    <3>5. key'[i] \in {Absent, held[p].pair}
      BY <1>1, <3>1, <3>2, <3>3 DEF HalfSaved, WriteKey, PrivateKey
    <3>6. held[p] \in Contents /\ held[p].pair \in Keys
      BY <3>1 DEF Contents
    <3> QED
      BY <1>1, <3>1, <3>4, <3>5, <3>6, SentinelAssumption DEF Intact
  <2> QED
    BY <2>1, <2>2
<1>4. SavesApart'
  BY <1>1 DEF Paired, SavesApart
<1>5. SavesInOrder'
  <2> SUFFICES ASSUME NEW q \in Passes, q # p, pc[q] \in Saving,
                      cur[q] \notin frayed'
               PROVE  HalfSaved(q, cur[q])'
    BY <1>1 DEF SavesInOrder
  <2>1. HalfSaved(q, cur[q]) /\ cur[q] \in Ids
    BY <1>1 DEF Paired, SavesInOrder
  <2>2. key'[cur[q]] = key[cur[q]]
    <3>1. CASE SaveFails(p)
      BY <3>1 DEF SaveFails, files
    <3>2. CASE WriteKey(p)
      BY <1>1, <2>1, <3>2 DEF WriteKey, Paired, SavesApart
    <3> QED
      BY <3>1, <3>2
  <2> QED
    BY <1>1, <2>1, <2>2 DEF HalfSaved
<1> QED
  BY <1>3, <1>4, <1>5 DEF Paired

(* A removal under a save leaves the save without its file, for good. *)
LEMMA RemoveStep ==
  ASSUME Typed, Paired, NEW p \in Passes, RemoveFile(p) PROVE Paired'
<1> USE DEF Typed, TypeOK, WorkOK, Working, Saving, work
<1>1. PICK e \in listing[p] :
        /\ crt' = IF e[2] = "crt" THEN [crt EXCEPT ![e[1]] = Absent] ELSE crt
        /\ key' = IF e[2] = "key" THEN [key EXCEPT ![e[1]] = Absent] ELSE key
        /\ linked' = linked \ Opened(e)
  BY DEF RemoveFile
<1>2. pc' = pc /\ cur' = cur /\ held' = held /\ frayed' = frayed
  BY DEF RemoveFile, work, history
<1>3. e \in Entries /\ e[1] \in Ids /\ e[2] \in {"crt", "key"}
  BY DEF Entries
<1>4. \A j \in Ids : /\ crt'[j] \in {crt[j], Absent}
                     /\ key'[j] \in {key[j], Absent}
  BY <1>1, <1>3
<1>5. \A j \in Ids : SavingId(j)' = SavingId(j)
  BY <1>2 DEF SavingId
<1>6. PairsIntact'
  BY <1>2, <1>4, <1>5, SentinelAssumption DEF Paired, PairsIntact, Intact
<1>7. SavesApart'
  BY <1>2 DEF Paired, SavesApart
<1>8. SavesInOrder'
  <2> SUFFICES ASSUME NEW q \in Passes, pc[q] \in Saving, cur[q] \notin frayed
               PROVE  HalfSaved(q, cur[q])'
    BY <1>2 DEF SavesInOrder
  <2>1. HalfSaved(q, cur[q]) /\ cur[q] \in Ids
    BY DEF Paired, SavesInOrder
  <2>2. pc[q] = "writeCrt" /\ q \notin linked' => crt'[cur[q]] = Absent
    BY <1>1, <1>3, <1>4, <2>1 DEF HalfSaved, Opened
  <2>3. pc[q] = "writeKey" /\ q \notin linked' => key'[cur[q]] = Absent
    BY <1>1, <1>3, <1>4, <2>1 DEF HalfSaved, Opened
  <2> QED
    BY <1>2, <1>4, <2>1, <2>2, <2>3 DEF HalfSaved
<1> QED
  BY <1>6, <1>7, <1>8 DEF Paired

LEMMA RestartStep ==
  ASSUME Typed, Paired, Restart PROVE Paired'
<1> USE DEF Typed, TypeOK, Saving, files
<1>1. /\ \A q \in Passes : pc'[q] \notin Saving
      /\ crt' = crt /\ key' = key
      /\ frayed' = frayed \cup {i \in Ids : SavingId(i) # {}}
  BY DEF Restart
<1>2. PairsIntact'
  BY <1>1 DEF Paired, PairsIntact, Intact
<1> QED
  BY <1>1, <1>2 DEF Paired, SavesApart, SavesInOrder

LEMMA PairedStep == Typed /\ Paired /\ [Next]_vars => Paired'
BY AsideActions, PairedAside, OpenStep, MiddleStep, EndSaveStep, RemoveStep,
   RestartStep

(* A certificate and a key at rest belong together unless their save was   *)
(* overlapped or interrupted, whatever else happens in between.            *)
THEOREM PairsStayIntact == Spec => []PairsIntact
<1>1. Paired => PairsIntact
  BY DEF Paired
<1> QED
  BY <1>1, TypedInit, TypedStep, PairedInit, PairedStep, PTL DEF Spec
-----------------------------------------------------------------------------
(* Once at rest a pass reads what it expects and keeps it, so it comes to  *)
(* no order; the cleanup has only entries of ids without files.            *)
Undisturbed == ~Restart /\ ~Age /\ \A p \in Reloads : ~ReloadConfig(p)

LEMMA KeepsAtRest ==
  ASSUME Typed, AtRest, NEW p \in Passes, pc[p] = "stat"
  PROVE  Acceptable(held[p], key[cur[p]], left[p][cur[p]])
<1> DEFINE i == cur[p]
<1>1. i \in Ids /\ left[p][i] \in DomainLists /\ held[p] = crt[i]
  BY DEF Typed, WorkOK, Working, AtRest
<1>2. left[p][i] = certificates[i] /\ certificates[i] # None
  BY <1>1, SentinelAssumption DEF AtRest
<1>3. Current(i)
  BY <1>1, <1>2 DEF AtRest, Configured
<1>4. crt[i] # Torn
  BY <1>3, SentinelAssumption DEF Current, Readable
<1> QED
  BY <1>1, <1>2, <1>3, <1>4 DEF Acceptable, Current, domainsMatch

LEMMA RestStep ==
  ASSUME Typed, Once, AtRest, Undisturbed, [Next]_vars
  PROVE  AtRest' /\ UNCHANGED files
<1> USE DEF Typed, TypeOK, Lists, Saving, list, files, work, history
<1> DEFINE Work(q) == /\ pc[q] \notin {"issue", "openCrt"} \cup Saving
                      /\ \A i \in Ids : left[q][i] \in {None, certificates[i]}
                      /\ pc[q] = "stat" => held[q] = crt[cur[q]]
<1>1. ASSUME UNCHANGED <<list, files, expiring>>, \A q \in Passes : Work(q)'
      PROVE  AtRest' /\ UNCHANGED files
  BY <1>1 DEF AtRest, Configured, Current, Readable
<1>2. \A q \in Passes : Work(q)
  BY DEF AtRest
<1>3. CASE Tick
  BY <1>1, <1>2, <1>3 DEF Tick
<1>4. ASSUME NEW p \in Passes, TakeSnapshot(p) PROVE AtRest' /\ UNCHANGED files
  BY <1>1, <1>2, <1>4 DEF TakeSnapshot
<1>5. ASSUME NEW p \in Passes, ReadCrt(p) PROVE AtRest' /\ UNCHANGED files
  <2>1. PICK i \in Ids :
          /\ left[p][i] # None
          /\ cur' = [cur EXCEPT ![p] = i]
          /\ crt[i] # Absent => /\ pc' = [pc EXCEPT ![p] = "stat"]
                               /\ held' = [held EXCEPT ![p] = crt[i]]
    BY <1>5 DEF ReadCrt
  <2>2. crt[i] # Absent
    <3>1. i \in Configured
      BY <2>1 DEF AtRest, Configured
    <3> QED
      BY <3>1, SentinelAssumption DEF AtRest, Current, Readable
  <2> QED
    BY <1>1, <1>2, <1>5, <2>1, <2>2 DEF ReadCrt
<1>6. ASSUME NEW p \in Passes, KeepCrt(p) PROVE AtRest' /\ UNCHANGED files
  BY <1>1, <1>2, <1>6 DEF KeepCrt, Continue
<1>7. ASSUME NEW p \in Passes, RejectCrt(p) PROVE FALSE
  BY <1>7, KeepsAtRest DEF RejectCrt
<1>8. ASSUME NEW p \in Passes,
             \/ Issue(p) \/ IssueFails(p) \/ OpenCrt(p) \/ WriteCrt(p)
             \/ OpenKey(p) \/ WriteKey(p) \/ SaveFails(p)
      PROVE  FALSE
  BY <1>2, <1>8 DEF Issue, IssueFails, OpenCrt, WriteCrt, OpenKey, WriteKey, SaveFails
<1>9. ASSUME NEW p \in Passes, ListDir(p) \/ ListDirFails(p) \/ ReadConfigured(p)
      PROVE  AtRest' /\ UNCHANGED files
  BY <1>1, <1>2, <1>9 DEF ListDir, ListDirFails, ReadConfigured
<1>10. ASSUME NEW p \in Passes, RemoveFile(p) PROVE AtRest' /\ UNCHANGED files
  <2>1. PICK e \in listing[p] :
          /\ crt' = IF e[2] = "crt" THEN [crt EXCEPT ![e[1]] = Absent] ELSE crt
          /\ key' = IF e[2] = "key" THEN [key EXCEPT ![e[1]] = Absent] ELSE key
    BY <1>10 DEF RemoveFile
  <2>2. e[1] \in Ids \ Configured
    BY <1>10 DEF RemoveFile, Once, ListingsOnce, Entries
  <2>3. crt' = crt /\ key' = key
    BY <2>1, <2>2 DEF AtRest
  <2> QED
    BY <1>1, <1>2, <1>10, <2>3 DEF RemoveFile
<1>11. ASSUME NEW p \in Passes, RemoveFails(p) \/ EndPass(p)
       PROVE  AtRest' /\ UNCHANGED files
  BY <1>1, <1>2, <1>11 DEF RemoveFails, EndPass
<1>12. CASE UNCHANGED vars
  BY <1>1, <1>2, <1>12 DEF vars
<1> QED
  BY <1>3, <1>4, <1>5, <1>6, <1>7, <1>8, <1>9, <1>10, <1>11, <1>12
     DEF Next, Run, PassStep, Failure, Undisturbed

(* A system at rest stays at rest, for any number of passes that are still *)
(* under way: nothing is ordered, written or removed, until the list       *)
(* changes, a certificate ages or the process ends.                        *)
THEOREM RestIsLasting == Spec => RestLasts
<1> DEFINE Inv == Typed /\ Once
<1>1. Init => Inv
  BY TypedInit, OnceInit
<1>2. Inv /\ [Next]_vars => Inv'
  BY TypedStep, OnceStep
<1>3. Inv /\ [Next]_vars
        => [(AtRest /\ ~Restart /\ ~Age /\ \A p \in Reloads : ~ReloadConfig(p))
              => AtRest' /\ UNCHANGED files]_vars
  BY RestStep DEF Undisturbed
<1> QED
  BY <1>1, <1>2, <1>3, PTL DEF Spec, RestLasts

(* What is left to TLC of both liveness properties is that the system      *)
(* comes to rest: once it has, in quiet times, it has converged for good.  *)
THEOREM RestSuffices == Spec /\ Settles => Converges /\ UnusedFilesGo
<1> DEFINE Good == \A i \in Configured : Current(i)
           Gone == \A i \in Ids \ Configured : crt[i] = Absent /\ key[i] = Absent
           Still == /\ ~Restart /\ ~Age
                    /\ \A p \in Reloads : ~ReloadConfig(p)
                    /\ \A p \in Passes : ~Failure(p)
           Lasting == AtRest /\ Undisturbed => AtRest' /\ UNCHANGED files
<1>1. AtRest => Good /\ Gone
  BY DEF AtRest
<1>2. [Lasting]_vars /\ [Still]_vars /\ AtRest => AtRest'
  <2>1. ASSUME UNCHANGED vars, AtRest PROVE AtRest'
    BY <2>1 DEF vars, AtRest, Configured, Current, Readable, Saving
  <2> QED
    BY <2>1 DEF Undisturbed
<1>3. Spec => [][Lasting]_vars
  BY RestIsLasting, PTL DEF RestLasts, Undisturbed
<1> QED
  BY <1>1, <1>2, <1>3, PTL DEF Quiet, Settles, Converges, UnusedFilesGo

-----------------------------------------------------------------------------
(* A pass that nobody has overtaken knows what is wrong with the files.    *)
Good(i, d) ==
  /\ Readable(crt[i]) /\ key[i] # Absent
  /\ crt[i].pair \notin expiring
  /\ crt[i].names = d

Justified(p) ==
  (p \notin outrun /\ Good(cur[p], left[p][cur[p]]))
    => /\ pc[p] # "issue"
       /\ pc[p] = "stat" => held[p] = crt[cur[p]]

(* A key file that is open under its name is there. *)
OpenKeysExist ==
  \A p \in Passes : pc[p] = "writeKey" /\ p \in linked => key[cur[p]] # Absent

Judged == OpenKeysExist /\ \A p \in Passes : Justified(p)

LEMMA JudgedInit == Init => Judged
BY SentinelAssumption DEF Init, Judged, Justified, OpenKeysExist, Good, Readable

LEMMA OpenKeysStep == Typed /\ OpenKeysExist /\ [Next]_vars => OpenKeysExist'
<1> SUFFICES ASSUME Typed, OpenKeysExist, [Next]_vars PROVE OpenKeysExist'
  OBVIOUS
<1> USE DEF Typed, TypeOK, WorkOK, Working, Saving, OpenKeysExist, files, work
<1>1. CASE AsideStep
  BY <1>1 DEF AsideStep
<1>2. CASE Restart
  BY <1>2 DEF Restart
<1>3. ASSUME NEW p \in Passes, OpenCrt(p) \/ WriteCrt(p) PROVE OpenKeysExist'
  BY <1>3 DEF OpenCrt, WriteCrt
<1>4. ASSUME NEW p \in Passes, OpenKey(p) PROVE OpenKeysExist'
  BY <1>4, SentinelAssumption DEF OpenKey
<1>5. ASSUME NEW p \in Passes, WriteKey(p) PROVE OpenKeysExist'
  <2>1. PrivateKey(held[p]) \in Keys
    BY <1>5 DEF WriteKey, PrivateKey, Contents
  <2> QED
    BY <1>5, <2>1, SentinelAssumption DEF WriteKey, Continue
<1>6. ASSUME NEW p \in Passes, SaveFails(p) PROVE OpenKeysExist'
  BY <1>6 DEF SaveFails, Continue
<1>7. ASSUME NEW p \in Passes, RemoveFile(p) PROVE OpenKeysExist'
  BY <1>7 DEF RemoveFile, Opened, Entries
<1> QED
  BY <1>1, <1>2, <1>3, <1>4, <1>5, <1>6, <1>7, AsideActions

(* What the steps of others may do to a decision of p. *)
LEMMA OthersJustify ==
  ASSUME Typed, OpenKeysExist, NEW p \in Passes, NEW q \in Passes, p # q,
         Justified(p), PassStep(q) \/ Failure(q)
  PROVE  Justified(p)'
<1> USE DEF Typed, TypeOK, WorkOK, Working, Saving, files, work, history
<1>1. /\ pc'[p] = pc[p] /\ cur'[p] = cur[p] /\ left'[p] = left[p]
      /\ held'[p] = held[p] /\ (p \in outrun => p \in outrun')
  BY DEF PassStep, Failure, TakeSnapshot, ReadCrt, KeepCrt, RejectCrt, Issue,
     IssueFails, OpenCrt, WriteCrt, OpenKey, WriteKey, SaveFails, ListDir,
     ListDirFails, ReadConfigured, RemoveFile, RemoveFails, EndPass, Continue
<1> SUFFICES ASSUME pc[p] \in {"stat", "issue"}, p \notin outrun',
                    Good(cur[p], left[p][cur[p]])'
             PROVE  Good(cur[p], left[p][cur[p]]) /\ crt'[cur[p]] = crt[cur[p]]
  BY <1>1 DEF Justified
<1> DEFINE i == cur[p]
<1>2. i \in Ids
  OBVIOUS
<1>3. CASE UNCHANGED <<files, expiring>>
  BY <1>1, <1>3 DEF Good, Readable
<1>4. CASE Issue(q)
  <2>1. PICK k \in Keys \ KeysInUse : expiring' = expiring \ {k}
    BY <1>4 DEF Issue
  <2>2. crt' = crt /\ key' = key /\ Readable(crt[i])
    BY <1>1, <1>4 DEF Issue, Good, Readable
  <2>3. crt[i].pair # k
    BY <1>2, <2>2 DEF KeysInUse, Readable
  <2> QED
    BY <1>1, <2>1, <2>2, <2>3 DEF Good
<1>5. CASE OpenCrt(q)
  <2>1. cur[q] # i
    BY <1>1, <1>5, SentinelAssumption DEF OpenCrt, Good, Readable
  <2> QED
    BY <1>1, <1>5, <2>1 DEF OpenCrt, Good, Readable
<1>6. CASE WriteCrt(q) \/ OpenKey(q)
  <2>1. cur[q] # i
    BY <1>6 DEF WriteCrt, OpenKey, Deciding
  <2> QED
    BY <1>1, <1>6, <2>1 DEF WriteCrt, OpenKey, Good, Readable
<1>7. CASE WriteKey(q)
  <2>1. crt' = crt /\ expiring' = expiring
    BY <1>7 DEF WriteKey
  <2>2. key[i] = Absent => key'[i] = Absent
    BY <1>2, <1>7 DEF WriteKey, OpenKeysExist
  <2> QED
    BY <1>1, <2>1, <2>2 DEF Good, Readable
<1>8. CASE RemoveFile(q)
  <2>1. crt'[i] \in {crt[i], Absent} /\ key'[i] \in {key[i], Absent}
    BY <1>8 DEF RemoveFile, Entries
  <2>2. expiring' = expiring
    BY <1>8 DEF RemoveFile
  <2> QED
    BY <1>1, <2>1, <2>2, SentinelAssumption DEF Good, Readable
<1> QED
  BY <1>3, <1>4, <1>5, <1>6, <1>7, <1>8
     DEF PassStep, Failure, TakeSnapshot, ReadCrt, KeepCrt, RejectCrt, IssueFails,
         SaveFails, ListDir, ListDirFails, ReadConfigured, RemoveFails, EndPass

(* What a pass does to its own: it reads the certificate, and rejects it   *)
(* only if it has looked at what is there.                                 *)
LEMMA OwnJustify ==
  ASSUME Typed, NEW p \in Passes, Justified(p), PassStep(p) \/ Failure(p)
  PROVE  Justified(p)'
<1> USE DEF Typed, TypeOK, WorkOK, Working, Saving, files, work, history
<1>1. CASE pc'[p] \notin {"stat", "issue"}
  BY <1>1 DEF Justified
<1>2. CASE ReadCrt(p)
  <2>1. PICK i \in Ids :
          /\ cur' = [cur EXCEPT ![p] = i]
          /\ \/ crt[i] = Absent
             \/ /\ pc' = [pc EXCEPT ![p] = "stat"]
                /\ held' = [held EXCEPT ![p] = crt[i]]
    BY <1>2 DEF ReadCrt
  <2>2. crt' = crt
    BY <1>2 DEF ReadCrt
  <2> QED
    BY <2>1, <2>2, SentinelAssumption DEF Justified, Good, Readable
<1>3. CASE RejectCrt(p)
  <2>1. /\ pc[p] = "stat" /\ cur' = cur /\ left' = left /\ outrun' = outrun
        /\ crt' = crt /\ key' = key /\ expiring' = expiring
        /\ ~Acceptable(held[p], key[cur[p]], left[p][cur[p]])
    BY <1>3 DEF RejectCrt
  <2>2. ~(p \notin outrun /\ Good(cur[p], left[p][cur[p]]))
    BY <2>1, SentinelAssumption
       DEF Justified, Good, Readable, Acceptable, domainsMatch
  <2> QED
    BY <2>1, <2>2 DEF Justified, Good, Readable
<1>4. CASE pc' = pc
  BY <1>4 DEF PassStep, Failure, TakeSnapshot, ReadCrt, KeepCrt, RejectCrt, Issue,
     IssueFails, OpenCrt, WriteCrt, OpenKey, WriteKey, SaveFails, ListDir,
     ListDirFails, ReadConfigured, RemoveFile, RemoveFails, EndPass, Continue,
     Justified
<1>5. CASE ~ReadCrt(p) /\ ~RejectCrt(p) /\ pc' # pc
  <2>1. pc'[p] \notin {"stat", "issue"}
    BY <1>5 DEF PassStep, Failure, TakeSnapshot, KeepCrt, Issue,
       IssueFails, OpenCrt, WriteCrt, OpenKey, WriteKey, SaveFails, ListDir,
       ListDirFails, ReadConfigured, RemoveFile, RemoveFails, EndPass, Continue
  <2> QED
    BY <1>1, <2>1
<1> QED
  BY <1>2, <1>3, <1>4, <1>5

LEMMA JudgedStep == Typed /\ Judged /\ [Next]_vars => Judged'
<1> SUFFICES ASSUME Typed, Judged, [Next]_vars, NEW p \in Passes
             PROVE  Justified(p)'
  BY OpenKeysStep DEF Judged
<1>1. Justified(p) /\ OpenKeysExist
  BY DEF Judged
<1>2. ASSUME NEW q \in Passes, PassStep(q) \/ Failure(q) PROVE Justified(p)'
  BY <1>1, <1>2, OwnJustify, OthersJustify
<1> USE DEF Typed, TypeOK, files, work, history, Justified, Good, Readable
<1>3. CASE Tick
  BY <1>1, <1>3 DEF Tick
<1>4. ASSUME NEW q \in Reloads, ReloadConfig(q) PROVE Justified(p)'
  BY <1>1, <1>4 DEF ReloadConfig, TakeList
<1>5. CASE Age
  <2>1. expiring \subseteq expiring'
    BY <1>5 DEF Age
  <2> QED
    BY <1>1, <1>5, <2>1 DEF Age
<1>6. CASE Restart
  BY <1>6 DEF Restart
<1>7. CASE UNCHANGED vars
  BY <1>1, <1>7 DEF vars
<1> QED
  BY <1>2, <1>3, <1>4, <1>5, <1>6, <1>7 DEF Next, Run

(* No certificate is ordered that is not needed, unless the pass was       *)
(* overtaken by a change of the list or by another pass.                   *)
THEOREM OnlyNeededOrders == Spec => OrdersNeeded
<1> DEFINE Inv == Typed /\ Judged
<1>1. Init => Inv
  BY TypedInit, JudgedInit
<1>2. Inv /\ [Next]_vars => Inv'
  BY TypedStep, JudgedStep
<1>3. Inv => \A p \in Passes :
        Issue(p) /\ Current(cur[p])
          => p \in outrun \/ left[p][cur[p]] # certificates[cur[p]]
  BY DEF Judged, Justified, Good, Current, Issue
<1> QED
  BY <1>1, <1>2, <1>3, PTL DEF Spec, OrdersNeeded

(* Without overlap there are no exceptions: where nothing reloads the      *)
(* list, a pass never orders for an id whose files are as they should be.  *)
Alone == outrun = {} /\ \A i \in Ids : left[Loop][i] \in {None, certificates[i]}

LEMMA AloneStep ==
  ASSUME Reloads = {}, Typed, Alone, [Next]_vars PROVE Alone'
<1> USE DEF Typed, TypeOK, Lists, Alone, Passes, list, files, work, history
<1>1. ASSUME PassStep(Loop) PROVE Alone'
  BY <1>1 DEF PassStep, TakeSnapshot, ReadCrt, KeepCrt, RejectCrt, Issue, OpenCrt,
     WriteCrt, OpenKey, WriteKey, ListDir, ReadConfigured, RemoveFile, EndPass,
     Continue, Deciding, Saving
<1>2. ASSUME Failure(Loop) PROVE Alone'
  BY <1>2 DEF Failure, IssueFails, SaveFails, ListDirFails, RemoveFails, Continue
<1>3. CASE Tick \/ Age \/ UNCHANGED vars
  BY <1>3 DEF Tick, Age, vars
<1>4. CASE Restart
  BY <1>4 DEF Restart, NoList
<1> QED
  BY <1>1, <1>2, <1>3, <1>4 DEF Next, Run

THEOREM LoneOrdersNeeded ==
  Reloads = {} =>
    (Spec => [][\A p \in Passes : Issue(p) => ~Current(cur[p])]_vars)
<1> SUFFICES ASSUME Reloads = {}
             PROVE  Spec => [][\A p \in Passes : Issue(p) => ~Current(cur[p])]_vars
  OBVIOUS
<1> DEFINE Inv == Typed /\ Judged /\ Alone
<1>1. Init => Inv
  BY TypedInit, JudgedInit DEF Init, Alone, NoList, Passes
<1>2. Inv /\ [Next]_vars => Inv'
  BY TypedStep, JudgedStep, AloneStep
<1>3. Inv => \A p \in Passes : Issue(p) => ~Current(cur[p])
  BY SentinelAssumption
     DEF Judged, Justified, Good, Current, Issue, Alone, Passes, Typed, WorkOK,
         Working
<1> QED
  BY <1>1, <1>2, <1>3, PTL DEF Spec
=============================================================================
