--------------------------- MODULE LifecycleProof ---------------------------
(* Theorems about Lifecycle, for every set of resources, every state file, *)
(* every configuration and environment, and every choice of faults.        *)
EXTENDS Lifecycle, TLAPS

(* What main is doing, what SaveState is doing and which request is under  *)
(* way go together.                                                        *)
PhasesOK ==
  /\ main \in {"down", "read", "ids"} => save = "none" /\ request = None
  /\ main = "save" => save # "none" /\ request = None
  /\ main \in Up /\ save # "none" => request # None
  /\ main = "drainTLS" => request # "http"

(* The file is torn, or is what was last written as a whole; and no id is  *)
(* ever given out twice.                                                   *)
IdsOK ==
  /\ file # Torn => saved = Content(file)
  /\ IdsOf(saved) \subseteq used /\ IdsOf(state) \subseteq used
  /\ deleted \subseteq used \cup {None}
  /\ OwnIds(saved) /\ OwnIds(state)

Filled ==
  main \in {"save"} \cup Up =>
    \A e \in Present(state) : /\ state[e].id # None
                              /\ e \in CertEntries => state[e].team # None

(* Between saves the file has the state, unless behind says otherwise; and *)
(* a start that could not read the file has nothing to save.               *)
Synced ==
  /\ main \in {"ids"} \cup Up /\ save = "none" /\ ~behind => Content(file) = state
  /\ main = "ids" /\ behind => state = NoState
  /\ main = "save" => ~behind

(* A resource of the last saved state has kept its id or was deleted.      *)
Kept(e) ==
  \/ saved[e].id \in {None} \cup deleted
  \/ state[e] # None /\ state[e].id = saved[e].id

AllKept ==
  main \in {"ids", "save"} \cup Up /\ ~lost => \A e \in Present(saved) : Kept(e)

SchedulerKnows ==
  main \in Up /\ ~lost => CertIdsOf(saved) \subseteq sched \cup deleted

(* What Load has let through. *)
SettingsOK ==
  main # "down" => /\ None \notin settings.static
                   /\ env.interval = None => settings.interval > 0

LifeInv ==
  /\ TypeOK /\ PhasesOK /\ IdsOK /\ Filled /\ Synced /\ AllKept
  /\ SchedulerKnows /\ SettingsOK

-----------------------------------------------------------------------------
LEMMA NoStateFacts ==
  /\ NoState \in StateType /\ Present(NoState) = {}
  /\ IdsOf(NoState) = {} /\ CertIdsOf(NoState) = {} /\ OwnIds(NoState)
BY DEF NoState, StateType, Present, IdsOf, CertIdsOf, OwnIds

LEMMA LifeInit == Init => LifeInv
<1> SUFFICES ASSUME Init PROVE LifeInv
  OBVIOUS
<1> USE DEF Init
<1>1. Content(file) \in StateType /\ OwnIds(Content(file))
  BY NoStateFacts, NoneAssumption DEF Content
<1>2. IdsOf(Content(file)) \subseteq Ids
  BY <1>1 DEF IdsOf, Present, StateType, Resource
<1>3. TypeOK
  BY <1>1, <1>2, NoStateFacts, ConfigAssumption DEF TypeOK
<1>4. IdsOK
  BY <1>1, NoStateFacts DEF IdsOK
<1>5. PhasesOK /\ Filled /\ Synced /\ AllKept /\ SchedulerKnows /\ SettingsOK
  BY DEF PhasesOK, Filled, Synced, AllKept, SchedulerKnows, SettingsOK, Up
<1> QED
  BY <1>3, <1>4, <1>5 DEF LifeInv

(* The end of a life forgets the memory and nothing else.                  *)
LEMMA EndStep ==
  ASSUME LifeInv, End, UNCHANGED <<file, stored, config, history>>
  PROVE  LifeInv'
<1> USE DEF LifeInv, End, config, history
<1>1. TypeOK'
  BY NoStateFacts DEF TypeOK
<1>2. IdsOK'
  BY NoStateFacts DEF IdsOK
<1>3. (PhasesOK /\ Filled /\ Synced /\ AllKept /\ SchedulerKnows /\ SettingsOK)'
  BY DEF PhasesOK, Filled, Synced, AllKept, SchedulerKnows, SettingsOK, Up
<1> QED
  BY <1>1, <1>2, <1>3

(* A step that is about neither the state nor the file.                    *)
LEMMA AsideStep ==
  ASSUME LifeInv, TypeOK', PhasesOK',
         main' = main \/ (main \in Up /\ main' \in Up),
         UNCHANGED <<file, config, state, save, sched, history>>
  PROVE  LifeInv'
<1> USE DEF LifeInv, config, history
<1>0. main \in Up <=> main' \in Up
  OBVIOUS
<1>1. IdsOK'
  BY DEF IdsOK
<1>2. Filled' /\ Synced' /\ SchedulerKnows' /\ SettingsOK'
  BY <1>0 DEF Filled, Synced, SchedulerKnows, SettingsOK, Up
<1>3. AllKept'
  BY <1>0 DEF AllKept, Kept, Up
<1> QED
  BY <1>1, <1>2, <1>3

LEMMA BootStep == LifeInv /\ Boot => LifeInv'
<1> SUFFICES ASSUME LifeInv, Boot PROVE LifeInv'
  OBVIOUS
<1> USE DEF LifeInv
<1>1. /\ main = "down" /\ main' = "read" /\ env' \in EnvType
      /\ UNCHANGED <<file, stored, state, save, request, locked, sched, used,
                     saved, deleted, behind, lost>>
  BY ConfigAssumption DEF Boot, history
<1>2. /\ settings' \in ConfigType /\ None \notin settings'.static
      /\ env'.interval = None => settings'.interval > 0
  <2>1. PICK json \in Configs \cup {Defaults} :
          settings' = applyEnvOverrides(mergeFromJSON(json), env')
    BY DEF Boot
  <2>2. json \in ConfigType
    <3>1. Defaults \in ConfigType
      <4>1. {} \in SUBSET (StaticIds \cup {None}) /\ FALSE \in BOOLEAN /\ 0 \in Int
        OBVIOUS
      <4> QED
        BY <4>1 DEF Defaults, ConfigType
    <3> QED
      BY <3>1, ConfigAssumption
  <2>3. mergeInt(DefaultInterval, json.interval) \in Int
        /\ mergeInt(DefaultInterval, json.interval) > 0
    BY <2>2, ConfigAssumption DEF mergeInt, ConfigType
  <2>4. mergeFromJSON(json) \in ConfigType /\ mergeFromJSON(json).interval > 0
    BY <2>2, <2>3 DEF mergeFromJSON, ConfigType
  <2>5. settings' \in ConfigType /\ (env'.interval = None => settings'.interval > 0)
    BY <1>1, <2>1, <2>4 DEF applyEnvOverrides, overrideInt, ConfigType, EnvType
  <2> QED
    BY <2>5 DEF Boot, validateStaticIDs
<1>3. TypeOK'
  BY <1>1, <1>2 DEF TypeOK, Loading
<1>4. IdsOK' /\ SettingsOK'
  BY <1>1, <1>2 DEF IdsOK, SettingsOK
<1>5. (PhasesOK /\ Filled /\ Synced /\ AllKept /\ SchedulerKnows)'
  BY <1>1 DEF PhasesOK, Filled, Synced, AllKept, SchedulerKnows, Up
<1> QED
  BY <1>3, <1>4, <1>5

LEMMA ReadStateStep == LifeInv /\ ReadState => LifeInv'
<1> SUFFICES ASSUME LifeInv, ReadState PROVE LifeInv'
  OBVIOUS
<1> USE DEF LifeInv
<1>1. PICK f \in {file, Torn} :
        state' = Content(f) /\ behind' = (f = Torn) /\ lost' = (f = Torn)
  BY DEF ReadState
<1>2. /\ main = "read" /\ main' = "ids"
      /\ UNCHANGED <<file, stored, settings, env, save, request, locked, sched,
                     used, saved, deleted>>
  BY DEF ReadState, config
<1>3. state' = NoState \/ (file # Torn /\ state' = saved /\ f = file)
  BY <1>1 DEF IdsOK, Content
<1>4. state' \in StateType /\ IdsOf(state') \subseteq used /\ OwnIds(state')
  BY <1>3, NoStateFacts DEF TypeOK, IdsOK
<1>5. TypeOK'
  BY <1>1, <1>2, <1>4 DEF TypeOK, Loading
<1>6. IdsOK'
  BY <1>2, <1>4 DEF IdsOK
<1>7. Synced'
  BY <1>1, <1>2 DEF Synced, Content, Up
<1>8. AllKept'
  <2> SUFFICES ASSUME ~lost', NEW e \in Present(saved) PROVE Kept(e)'
    BY <1>2 DEF AllKept
  <2>1. state' = saved
    BY <1>1 DEF IdsOK
  <2> QED
    BY <1>2, <2>1 DEF Kept, Present
<1>9. (PhasesOK /\ Filled /\ SchedulerKnows /\ SettingsOK)'
  BY <1>2 DEF PhasesOK, Filled, SchedulerKnows, SettingsOK, Up
<1> QED
  BY <1>5, <1>6, <1>7, <1>8, <1>9

(* The ids filled in are new, the others stay.                             *)
LEMMA CompleteStateStep == LifeInv /\ CompleteState => LifeInv'
<1> SUFFICES ASSUME LifeInv, CompleteState PROVE LifeInv'
  OBVIOUS
<1> USE DEF LifeInv
<1>1. PICK new \in [Lacking -> Ids \ used] :
        /\ \A e, f \in Lacking : new[e] = new[f] => e = f
        /\ state' = [e \in Entries |->
                       IF state[e] = None THEN None
                       ELSE [id |-> IF e \in Lacking THEN new[e] ELSE state[e].id,
                             team |-> TeamOf(e)]]
        /\ used' = used \cup {new[e] : e \in Lacking}
  BY DEF CompleteState
<1>2. /\ main = "ids" /\ save = "none"
      /\ \/ /\ state' = state /\ main' = "serve" /\ save' = "none"
            /\ sched' = CertIdsOf(state)
         \/ /\ state' # state /\ main' = "save" /\ save' = "open"
            /\ sched' = sched
      /\ UNCHANGED <<file, stored, settings, env, request, locked, saved, deleted,
                     behind, lost>>
  BY DEF CompleteState, Serve, Clean, config, PhasesOK
<1>3. \A e \in Present(state) :
        /\ state[e] \in Resource
        /\ TeamOf(e) \in Teams \cup {None}
        /\ e \in CertEntries => TeamOf(e) # None
  BY ConfigAssumption, NoneAssumption
     DEF TypeOK, Present, StateType, Resource, TeamOf
<1>4. \A e \in Present(state) :
        /\ state'[e] \in Resource /\ state'[e].id # None
        /\ e \in CertEntries => state'[e].team # None
        /\ e \in Lacking => state'[e].id = new[e] /\ new[e] \in Ids \ used
        /\ e \notin Lacking => /\ state'[e].id = state[e].id
                               /\ state[e].id \in IdsOf(state)
  BY <1>1, <1>3, NoneAssumption DEF Lacking, Present, Resource, IdsOf
<1>5. state' \in StateType /\ Present(state') = Present(state)
  <2>1. \A e \in Entries : state'[e] = None <=> state[e] = None
    BY <1>1, <1>4, NoneAssumption DEF Present
  <2> QED
    BY <1>1, <1>4, <2>1 DEF StateType, Present
<1>6. used' \subseteq Ids /\ used \subseteq used'
  BY <1>1 DEF TypeOK
<1>7. OwnIds(state)'
  <2> SUFFICES ASSUME NEW e \in Present(state), NEW f \in Present(state),
                      state'[e].id = state'[f].id
               PROVE  e = f
    BY <1>5 DEF OwnIds, Present
  <2>1. e \in Lacking <=> f \in Lacking
    BY <1>4 DEF IdsOK
  <2>2. CASE e \in Lacking
    <3>1. f \in Lacking /\ new[e] = new[f]
      BY <1>4, <2>1, <2>2
    <3> QED
      BY <1>1, <2>2, <3>1
  <2>3. CASE e \notin Lacking
    <3>1. state[e].id = state[f].id /\ state[e].id # None
      BY <1>4, <2>1, <2>3 DEF Lacking
    <3> QED
      BY <3>1 DEF IdsOK, OwnIds
  <2> QED
    BY <2>2, <2>3
<1>8. IdsOf(state') \subseteq used'
  <2> SUFFICES ASSUME NEW e \in Present(state) PROVE state'[e].id \in used'
    BY <1>5 DEF IdsOf
  <2>1. CASE e \in Lacking
    <3>1. state'[e].id \in {new[d] : d \in Lacking}
      BY <1>4, <2>1
    <3>2. used' = used \cup {new[d] : d \in Lacking}
      BY <1>1
    <3> QED
      BY <3>1, <3>2
  <2>2. CASE e \notin Lacking
    BY <1>4, <1>6, <2>2 DEF IdsOK
  <2> QED
    BY <2>1, <2>2
<1>9. TypeOK'
  <2>1. CertIdsOf(state) \subseteq Ids
    BY <1>3 DEF CertIdsOf, Resource
  <2> QED
    BY <1>2, <1>5, <1>6, <2>1 DEF TypeOK, Loading, Up
<1>10. IdsOK'
  BY <1>2, <1>6, <1>7, <1>8 DEF IdsOK
<1>11. PhasesOK' /\ SettingsOK'
  BY <1>2 DEF PhasesOK, SettingsOK, Up
<1>12. Filled'
  BY <1>4, <1>5 DEF Filled, Present
<1>13. Synced'
  <2>1. CASE behind
    <3>1. state = NoState
      BY <1>2, <2>1 DEF Synced
    <3>2. state' = state
      BY <1>1, <3>1 DEF NoState
    <3> QED
      BY <1>2, <2>1, <3>2 DEF Synced
  <2>2. CASE ~behind
    BY <1>2, <2>2 DEF Synced
  <2> QED
    BY <2>1, <2>2
<1>14. ASSUME ~lost, NEW e \in Present(saved)
       PROVE  Kept(e) /\ Kept(e)'
  <2>1. Kept(e)
    BY <1>2, <1>14 DEF AllKept
  <2>2. CASE saved[e].id \in {None} \cup deleted
    BY <1>2, <2>2 DEF Kept
  <2>3. CASE saved[e].id \notin {None} \cup deleted
    <3>1. e \in Present(state) /\ state[e].id = saved[e].id /\ e \notin Lacking
      BY <2>1, <2>3 DEF Kept, Present, Lacking
    <3>2. e \in Present(state') /\ state'[e].id = saved[e].id
      BY <1>4, <1>5, <3>1
    <3> QED
      BY <1>2, <2>1, <3>2 DEF Kept, Present
  <2> QED
    BY <2>2, <2>3
<1>15. AllKept'
  BY <1>2, <1>14 DEF AllKept
<1>16. SchedulerKnows'
  <2> SUFFICES ASSUME ~lost, main' \in Up, NEW i \in CertIdsOf(saved)
               PROVE  i \in sched' \cup deleted
    BY <1>2 DEF SchedulerKnows
  <2>1. PICK e \in Present(saved) \cap CertEntries : i = saved[e].id /\ i # None
    BY DEF CertIdsOf
  <2>2. sched' = CertIdsOf(state)
    BY <1>2 DEF Up
  <2>3. e \in Entries
    BY DEF Present
  <2> QED
    BY <1>14, <2>1, <2>2, <2>3 DEF Kept, CertIdsOf, Present
<1> QED
  BY <1>9, <1>10, <1>11, <1>12, <1>13, <1>15, <1>16

LEMMA OpenStateStep == LifeInv /\ OpenState => LifeInv'
<1> SUFFICES ASSUME LifeInv, OpenState PROVE LifeInv'
  OBVIOUS
<1> USE DEF LifeInv
<1>1. /\ save = "open" /\ save' = "write" /\ file' = Torn
      /\ UNCHANGED <<stored, main, settings, env, state, request, locked, sched,
                     used, saved, deleted, behind, lost>>
  BY DEF OpenState, config, history
<1>2. TypeOK' /\ IdsOK'
  BY <1>1 DEF TypeOK, IdsOK
<1>3. (PhasesOK /\ Filled /\ Synced /\ SchedulerKnows /\ SettingsOK)'
  BY <1>1 DEF PhasesOK, Filled, Synced, SchedulerKnows, SettingsOK
<1>4. AllKept'
  BY <1>1 DEF AllKept, Kept
<1> QED
  BY <1>2, <1>3, <1>4

LEMMA WriteStateStep == LifeInv /\ WriteState => LifeInv'
<1> SUFFICES ASSUME LifeInv, WriteState PROVE LifeInv'
  OBVIOUS
<1> USE DEF LifeInv
<1>1. /\ save = "write" /\ save' = "none" /\ file' = state /\ saved' = state
      /\ behind' = FALSE /\ sched' = CertIdsOf(state)
      /\ UNCHANGED <<stored, settings, env, state, used, deleted, lost>>
      /\ \/ main = "save" /\ main' = "serve" /\ UNCHANGED <<request, locked>>
         \/ /\ main # "save" /\ main' = main /\ request' = None
            /\ locked' = ~settings.email
  BY DEF WriteState, Serve, config
<1>2. main \in {"save"} \cup Up /\ main' \in Up
  BY <1>1 DEF PhasesOK, TypeOK, Loading, Up
<1>3. CertIdsOf(state) \subseteq Ids
  BY DEF TypeOK, StateType, Resource, CertIdsOf, Present
<1>4. settings.email \in BOOLEAN
  BY DEF TypeOK, ConfigType
<1>5. TypeOK'
  BY <1>1, <1>2, <1>3, <1>4 DEF TypeOK
<1>6. Content(file)' = state
  BY <1>1, NoneAssumption DEF Content, TypeOK
<1>7. IdsOK'
  BY <1>1, <1>6 DEF IdsOK
<1>8. PhasesOK' /\ SettingsOK'
  <2>1. None # "http" /\ request' = None
    BY <1>1, NoneAssumption DEF PhasesOK, Servers
  <2>2. PhasesOK'
    BY <1>1, <1>2, <2>1 DEF PhasesOK, Up
  <2> QED
    BY <1>1, <1>2, <2>2 DEF SettingsOK, Up
<1>9. Filled' /\ Synced' /\ SchedulerKnows'
  BY <1>1, <1>2, <1>6 DEF Filled, Synced, SchedulerKnows, Up
<1>10. AllKept'
  BY <1>1 DEF AllKept, Kept, Present
<1> QED
  BY <1>5, <1>7, <1>8, <1>9, <1>10

LEMMA SaveFailsStep == LifeInv /\ SaveFails => LifeInv'
<1> SUFFICES ASSUME LifeInv, SaveFails PROVE LifeInv'
  OBVIOUS
<1> USE DEF LifeInv
<1>1. /\ save \in {"open", "write"} /\ save' = "none" /\ behind' = TRUE
      /\ UNCHANGED <<file, stored, settings, env, state, locked, used, saved,
                     deleted, lost>>
      /\ \/ /\ main = "save" /\ main' = "serve" /\ request' = request
            /\ sched' = CertIdsOf(state)
         \/ /\ main # "save" /\ main' = main /\ request' = None
            /\ sched' = sched
  BY DEF SaveFails, Serve, config
<1>2. main \in {"save"} \cup Up /\ main' \in Up
  BY <1>1 DEF PhasesOK, TypeOK, Loading, Up
<1>3. CertIdsOf(state) \subseteq Ids
  BY DEF TypeOK, StateType, Resource, CertIdsOf, Present
<1>4. TypeOK' /\ IdsOK'
  BY <1>1, <1>2, <1>3 DEF TypeOK, IdsOK
<1>5. PhasesOK' /\ SettingsOK'
  <2>1. None # "http" /\ request' = None
    BY <1>1, NoneAssumption DEF PhasesOK, Servers
  <2>2. PhasesOK'
    BY <1>1, <1>2, <2>1 DEF PhasesOK, Up
  <2> QED
    BY <1>1, <1>2, <2>2 DEF SettingsOK, Up
<1>6. Filled' /\ Synced'
  BY <1>1, <1>2 DEF Filled, Synced, Up
<1>7. \A e \in Present(saved) : ~lost => Kept(e)
  BY <1>2 DEF AllKept
<1>8. AllKept'
  BY <1>1, <1>7 DEF AllKept, Kept
<1>9. SchedulerKnows'
  <2>1. CASE main = "save"
    <3> SUFFICES ASSUME ~lost, NEW i \in CertIdsOf(saved)
                 PROVE  i \in CertIdsOf(state) \cup deleted
      BY <1>1, <2>1 DEF SchedulerKnows
    <3>1. PICK e \in Present(saved) \cap CertEntries : i = saved[e].id /\ i # None
      BY DEF CertIdsOf
    <3> QED
      BY <1>7, <3>1 DEF Kept, CertIdsOf, Present
  <2>2. CASE main # "save"
    BY <1>1, <1>2, <2>2 DEF SchedulerKnows
  <2> QED
    BY <2>1, <2>2
<1> QED
  BY <1>4, <1>5, <1>6, <1>8, <1>9

(* The resource added is new, although one of the same content may have    *)
(* been there before: that one was deleted.                                *)
LEMMA AddStep == ASSUME LifeInv, NEW e \in Entries, Add(e) PROVE LifeInv'
<1> USE DEF LifeInv
<1>1. PICK i \in Ids \ used, t \in Teams :
        /\ state' = [state EXCEPT ![e] = [id |-> i, team |-> t]]
        /\ used' = used \cup {i}
  BY DEF Add
<1>2. /\ request # None /\ save = "none" /\ save' = "open" /\ state[e] = None
      /\ UNCHANGED <<file, stored, main, settings, env, request, locked, sched,
                     saved, deleted, behind, lost>>
  BY DEF Add, Commit, config
<1>3. main \in Up
  BY <1>2 DEF PhasesOK, TypeOK, Loading
<1>4. /\ [id |-> i, team |-> t] \in Resource /\ [id |-> i, team |-> t] # None
      /\ i # None /\ t # None
  BY NoneAssumption DEF Resource
<1>5. /\ state' \in StateType /\ Present(state') = Present(state) \cup {e}
      /\ state'[e].id = i /\ state'[e].team = t
      /\ \A f \in Entries \ {e} : state'[f] = state[f]
  BY <1>1, <1>4 DEF TypeOK, StateType, Present
<1>6. e \notin Present(state) /\ i \notin IdsOf(state)
  BY <1>2 DEF Present, IdsOK
<1>7. IdsOf(state') \subseteq used' /\ OwnIds(state')
  <2>1. \A f \in Present(state) : f # e /\ state[f].id \in IdsOf(state) \cup {None}
    BY <1>6 DEF IdsOf
  <2>2. IdsOf(state') \subseteq IdsOf(state) \cup {i}
    BY <1>5 DEF IdsOf, Present
  <2>3. OwnIds(state')
    BY <1>4, <1>5, <1>6, <2>1 DEF OwnIds, IdsOK, Present
  <2> QED
    BY <1>1, <2>2, <2>3 DEF IdsOK
<1>8. TypeOK'
  BY <1>1, <1>2, <1>5 DEF TypeOK
<1>9. IdsOK'
  BY <1>1, <1>2, <1>7 DEF IdsOK
<1>10. (PhasesOK /\ SchedulerKnows /\ SettingsOK /\ Synced)'
  BY <1>2, <1>3 DEF PhasesOK, SchedulerKnows, SettingsOK, Synced, Up
<1>11. Filled'
  BY <1>3, <1>4, <1>5, <1>2 DEF Filled, Present
<1>12. AllKept'
  BY <1>2, <1>3, <1>5 DEF AllKept, Kept, Present
<1> QED
  BY <1>8, <1>9, <1>10, <1>11, <1>12

LEMMA DeleteStep == ASSUME LifeInv, NEW e \in Entries, Delete(e) PROVE LifeInv'
<1> USE DEF LifeInv
<1>1. /\ request # None /\ save = "none" /\ save' = "open" /\ state[e] # None
      /\ state' = [state EXCEPT ![e] = None]
      /\ deleted' = deleted \cup {state[e].id}
      /\ UNCHANGED <<file, stored, main, settings, env, request, locked, sched,
                     used, saved, behind, lost>>
  BY DEF Delete, Commit, config
<1>2. main \in Up
  BY <1>1 DEF PhasesOK, TypeOK, Loading
<1>3. /\ state' \in StateType /\ Present(state') = Present(state) \ {e}
      /\ \A f \in Entries \ {e} : state'[f] = state[f]
      /\ state'[e] = None
  BY <1>1 DEF TypeOK, StateType, Present
<1>4. e \in Present(state) /\ state[e].id # None /\ state[e].id \in used
  BY <1>1, <1>2 DEF Present, Filled, IdsOK, IdsOf
<1>5. IdsOf(state') \subseteq used /\ OwnIds(state')
  BY <1>3 DEF IdsOf, OwnIds, IdsOK, Present
<1>6. TypeOK' /\ IdsOK'
  BY <1>1, <1>3, <1>4, <1>5 DEF TypeOK, IdsOK
<1>7. (PhasesOK /\ SchedulerKnows /\ SettingsOK /\ Synced)'
  BY <1>1, <1>2 DEF PhasesOK, SchedulerKnows, SettingsOK, Synced, Up
<1>8. Filled'
  BY <1>1, <1>2, <1>3 DEF Filled, Present
<1>9. AllKept'
  BY <1>1, <1>2, <1>3 DEF AllKept, Kept, Present
<1> QED
  BY <1>6, <1>7, <1>8, <1>9

LEMMA LifeStep == LifeInv /\ [Next]_vars => LifeInv'
<1> SUFFICES ASSUME LifeInv, [Next]_vars PROVE LifeInv'
  OBVIOUS
<1>1. ASSUME NEW server \in Servers, Accept(server) PROVE LifeInv'
  <2>1. TypeOK' /\ PhasesOK'
    BY <1>1, NoneAssumption DEF Accept, LifeInv, TypeOK, PhasesOK, config, history, Up
  <2> QED
    BY <1>1, <2>1, AsideStep DEF Accept
<1>2. CASE Refuse
  <2>1. TypeOK' /\ PhasesOK'
    BY <1>2, NoneAssumption
       DEF Refuse, Commit, LifeInv, TypeOK, PhasesOK, config, history, Servers
  <2> QED
    BY <1>2, <2>1, AsideStep DEF Refuse
<1>3. CASE Issue \/ CleanUp
  <2>1. UNCHANGED <<file, main, config, state, save, request, locked, sched,
                    history>>
    BY <1>3 DEF Issue, CleanUp
  <2>2. settings.static \subseteq StaticIds \cup {None}
        /\ None \notin settings.static
    BY <1>3 DEF Issue, CleanUp, Works, Up, LifeInv, TypeOK, ConfigType, SettingsOK
  <2>3. Known \subseteq Ids \cup StaticIds
    BY <2>2 DEF Known, LifeInv, TypeOK
  <2>4. stored' \subseteq Ids \cup StaticIds
    BY <1>3, <2>3 DEF Issue, CleanUp, LifeInv, TypeOK
  <2>5. TypeOK' /\ PhasesOK'
    BY <2>1, <2>4 DEF LifeInv, TypeOK, PhasesOK, config, history
  <2> QED
    BY <2>1, <2>5, AsideStep
<1>4. CASE Signal \/ HTTPDrained
  <2>1. TypeOK' /\ PhasesOK'
    BY <1>4 DEF Signal, HTTPDrained, Drained, LifeInv, TypeOK, PhasesOK, config,
       history, Up
  <2> QED
    BY <1>4, <2>1, AsideStep DEF Signal, HTTPDrained, Up
<1>5. CASE UNCHANGED vars
  <2>1. TypeOK' /\ PhasesOK'
    BY <1>5 DEF vars, config, history, LifeInv, TypeOK, PhasesOK
  <2> QED
    BY <1>5, <2>1, AsideStep DEF vars, config, history
<1>6. CASE TickerPanics \/ CleanStop \/ Timeout \/ Crash
  BY <1>6, EndStep DEF TickerPanics, CleanStop, Timeout, Crash
<1> QED
  BY <1>1, <1>2, <1>3, <1>4, <1>5, <1>6, BootStep, ReadStateStep,
     CompleteStateStep, OpenStateStep, WriteStateStep, SaveFailsStep, AddStep,
     DeleteStep
     DEF Next, Load, SaveState, Change, Scheduler, Shutdown

THEOREM LifeInvariant == Spec => []LifeInv
BY LifeInit, LifeStep, PTL DEF Spec

-----------------------------------------------------------------------------
(* Every variable of the life of a process keeps its type.                 *)
THEOREM TypeCorrect == Spec => []TypeOK
<1>1. LifeInv => TypeOK
  BY DEF LifeInv
<1> QED
  BY <1>1, LifeInvariant, PTL

(* Whatever the file lacked is filled in before the servers open.          *)
THEOREM StartsComplete == Spec => []Complete
<1>1. LifeInv => Complete
  BY DEF LifeInv, Complete, Filled, IdsOK
<1> QED
  BY <1>1, LifeInvariant, PTL

(* A saved id stays with its resource, over starts, failures and crashes.  *)
THEOREM SavedIdsStick == Spec => []IdsStick
<1>1. LifeInv => IdsStick
  BY DEF LifeInv, IdsStick, AllKept, Kept
<1> QED
  BY <1>1, LifeInvariant, PTL

(* The cleanup removes nothing that a readable file still lists.           *)
THEOREM NothingRemovedByChance == Spec => RemovedForAReason
<1> DEFINE Reason ==
      \A i \in stored \ stored' :
        lost \/ i \in deleted \/ i \notin CertIdsOf(saved) \cup settings.static
<1>1. LifeInv /\ [Next]_vars => [Reason]_vars
  <2> SUFFICES ASSUME LifeInv, Next, NEW i \in stored \ stored'
               PROVE  lost \/ i \in deleted
                        \/ i \notin CertIdsOf(saved) \cup settings.static
    OBVIOUS
  <2>1. CleanUp
    BY DEF Next, Load, Boot, ReadState, CompleteState, SaveState, OpenState,
       WriteState, SaveFails, Accept, Change, Add, Delete, Refuse, Scheduler,
       Issue, TickerPanics, Shutdown, Signal, HTTPDrained, CleanStop, Timeout,
       Crash, config, history
  <2> QED
    BY <2>1 DEF CleanUp, Known, Works, LifeInv, SchedulerKnows
<1> QED
  BY <1>1, LifeInvariant, PTL DEF Spec, RemovedForAReason

(* A start never writes over a state file it could not read.               *)
THEOREM UnreadStaysUntouched == Spec => UnreadUntouched
<1>1. LifeInv /\ [Next]_vars
        => [behind /\ main \in Loading => file' = file]_vars
  <2> SUFFICES ASSUME LifeInv, Next, behind, main \in Loading
               PROVE  file' = file
    OBVIOUS
  <2>1. save = "none"
    BY DEF LifeInv, Synced, PhasesOK, Loading
  <2> QED
    BY <2>1 DEF Next, Load, Boot, ReadState, CompleteState, SaveState, OpenState,
       WriteState, SaveFails, Accept, Change, Add, Delete, Refuse, Scheduler,
       Issue, CleanUp, TickerPanics, Shutdown, Signal, HTTPDrained, CleanStop,
       Timeout, Crash, config, history
<1> QED
  BY <1>1, LifeInvariant, PTL DEF Spec, UnreadUntouched

(* A shutdown that ends within its time has waited for the save.           *)
THEOREM CleanStopKeeps == Spec => StopKeeps
<1>1. LifeInv /\ [Next]_vars => [CleanStop => behind \/ Content(file) = state]_vars
  <2> SUFFICES ASSUME LifeInv, CleanStop, ~behind PROVE Content(file) = state
    OBVIOUS
  <2>1. main = "drainTLS" /\ request = None
    BY DEF CleanStop, Drained, LifeInv, TypeOK, PhasesOK, Servers
  <2> QED
    BY <2>1 DEF LifeInv, PhasesOK, Synced, Up
<1> QED
  BY <1>1, LifeInvariant, PTL DEF Spec, StopKeeps

(* No interval that config.json can hold, short of an overflow, makes the  *)
(* ticker panic.                                                           *)
THEOREM PanicsOnlyFromEnv == Spec => PanicIsFromEnv
<1>1. LifeInv /\ [Next]_vars
        => [TickerPanics => env.interval # None \/ settings.interval > MaxHours]_vars
  <2> SUFFICES ASSUME LifeInv, TickerPanics, env.interval = None
               PROVE  settings.interval > MaxHours
    OBVIOUS
  <2>1. settings.interval \in Int /\ settings.interval > 0
    BY DEF TickerPanics, Works, Up, LifeInv, SettingsOK, TypeOK, ConfigType
  <2> QED
    BY <2>1, ConfigAssumption DEF TickerPanics
<1> QED
  BY <1>1, LifeInvariant, PTL DEF Spec, PanicIsFromEnv
=============================================================================
