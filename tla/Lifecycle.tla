------------------------------ MODULE Lifecycle ------------------------------
(***************************************************************************)
(* One process life after another: config.Load, main, shutdown             *)
(* (internal/app/config/config.go, cmd/server/main.go).  The configuration *)
(* of the operator and the state file are read at the start, missing ids   *)
(* are filled in and saved, then the servers accept requests and the       *)
(* scheduler works until a signal, a panic or a crash ends the process.    *)
(*                                                                         *)
(* Requests and passes are seen from outside: ControlPlane and Renewal     *)
(* have their steps.  A resource is its id and team; what else it is, a    *)
(* domain or a token, makes it one of Entries.                             *)
(***************************************************************************)
EXTENDS Integers

CONSTANTS
  Entries, CertEntries, \* dynamic resources, and those that are certificates
  Ids,                  \* ids of dynamic resources, each given out once
  StaticIds,            \* ids of static certificates
  Teams, System,
  Configs, Envs,        \* what config.json and the environment may hold
  DefaultInterval,
  MaxHours,             \* the longest interval a time.Duration can hold
  Faults,               \* out of {"read", "save", "crash"}
  None, Missing, Torn

Servers == {"http", "https"}
Resource == [id : Ids \cup {None}, team : Teams \cup {None}]
StateType == [Entries -> Resource \cup {None}]

(* An interval of 0 in config.json is one that is not there. *)
ConfigType == [static : SUBSET (StaticIds \cup {None}), email : BOOLEAN,
               interval : Int]
EnvType == [email : BOOLEAN, interval : Int \cup {None}]

ASSUME ConfigAssumption ==
  /\ CertEntries \subseteq Entries /\ System \in Teams
  /\ Ids \cap StaticIds = {}
  /\ Configs \subseteq ConfigType /\ Envs \subseteq EnvType
  /\ DefaultInterval \in 1..MaxHours /\ MaxHours \in Nat
ASSUME NoneAssumption ==
  /\ None \notin Ids \cup StaticIds /\ None \notin Teams /\ None \notin Resource
  /\ None \notin Int /\ None \notin Servers
  /\ Missing # Torn /\ {Missing, Torn} \cap StateType = {}

VARIABLES
  file,       \* the state file
  stored,     \* ids whose certificate and key are in the storage directory
  main,       \* where main is
  settings,   \* the static part of Config
  env,        \* the environment of this life
  state,      \* Config.State
  save,       \* where SaveState is
  request,    \* the server with a request under way that changes the state
  locked,     \* a panic has left Server.mu locked
  sched,      \* ids of the dynamic certificates the scheduler knows
  used,       \* every id ever generated
  saved,      \* history: the last state written as a whole
  deleted,    \* history: ids that requests have deleted
  behind,     \* history: memory is ahead of the file, or the file of memory
  lost        \* history: this life could not read the state it should go on from

vars == <<file, stored, main, settings, env, state, save, request, locked, sched,
          used, saved, deleted, behind, lost>>
config == <<settings, env>>
history == <<used, saved, deleted, behind, lost>>

NoState == [e \in Entries |-> None]
Content(f) == IF f \in {Missing, Torn} THEN NoState ELSE f
Present(s) == {e \in Entries : s[e] # None}
IdsOf(s) == {s[e].id : e \in Present(s)} \ {None}
CertIdsOf(s) == {s[e].id : e \in Present(s) \cap CertEntries} \ {None}

Loading == {"read", "ids", "save"}
Up == {"serve", "drain", "drainTLS"}

TypeOK ==
  /\ file \in StateType \cup {Missing, Torn}
  /\ stored \subseteq Ids \cup StaticIds
  /\ main \in {"down"} \cup Loading \cup Up
  /\ settings \in ConfigType /\ env \in EnvType
  /\ state \in StateType
  /\ save \in {"none", "open", "write"}
  /\ request \in Servers \cup {None}
  /\ locked \in BOOLEAN
  /\ sched \subseteq Ids
  /\ used \subseteq Ids
  /\ saved \in StateType
  /\ deleted \subseteq Ids
  /\ behind \in BOOLEAN /\ lost \in BOOLEAN

OwnIds(s) ==
  \A e, f \in Present(s) : s[e].id = s[f].id /\ s[e].id # None => e = f

(* A state file may come from an older version or from an operator, with   *)
(* ids and teams missing; what ids it has differ.                          *)
Init ==
  /\ file \in {s \in StateType : OwnIds(s)} \cup {Missing, Torn}
  /\ stored = {}
  /\ main = "down"
  /\ settings \in Configs /\ env \in Envs
  /\ state = NoState
  /\ save = "none" /\ request = None /\ locked = FALSE
  /\ sched = {}
  /\ used = IdsOf(Content(file))
  /\ saved = Content(file)
  /\ deleted = {} /\ behind = FALSE /\ lost = FALSE

-----------------------------------------------------------------------------
(* The end of a life, whatever brings it about. *)
End ==
  /\ main' = "down"
  /\ state' = NoState
  /\ save' = "none" /\ request' = None /\ locked' = FALSE
  /\ sched' = {}

(* A crash, or os.Exit because a port is taken. *)
Crash ==
  /\ "crash" \in Faults
  /\ main # "down"
  /\ End
  /\ UNCHANGED <<file, stored, config, history>>

-----------------------------------------------------------------------------
(* Load *)

(* Mutant: zero and negative numbers of config.json are taken over. *)
mergeAnyInt(dst, src) == src

mergeInt(dst, src) == IF src > 0 THEN src ELSE dst

(* Mutant: an environment variable that is not set counts as well. *)
OverrideAlways(dst, src) == src

(* strconv.Atoi: any number, and nothing where there is none. *)
overrideInt(dst, src) == IF src # None THEN src ELSE dst

(* A config.json that is missing or does not parse leaves the defaults. *)
Defaults == [static |-> {}, email |-> FALSE, interval |-> 0]

mergeFromJSON(json) ==
  [json EXCEPT !.interval = mergeInt(DefaultInterval, json.interval)]

applyEnvOverrides(cfg, e) ==
  [cfg EXCEPT !.email = @ \/ e.email, !.interval = overrideInt(@, e.interval)]

validateStaticIDs(cfg) == None \notin cfg.static

(* A static resource without id makes Load fail and the process exit, so   *)
(* that nothing happens.                                                   *)
Boot ==
  /\ main = "down"
  /\ env' \in Envs
  /\ \E json \in Configs \cup {Defaults} :
       settings' = applyEnvOverrides(mergeFromJSON(json), env')
  /\ validateStaticIDs(settings')
  /\ main' = "read"
  /\ UNCHANGED <<file, stored, state, save, request, locked, sched, history>>

(* What does not parse, or cannot be read, is taken for an empty state. *)
ReadState ==
  /\ main = "read"
  /\ \E f \in {file} \cup (IF "read" \in Faults THEN {Torn} ELSE {}) :
       /\ state' = Content(f)
       /\ behind' = (f = Torn)
       /\ lost' = (f = Torn)
  /\ main' = "ids"
  /\ UNCHANGED <<file, stored, config, save, request, locked, sched, used, saved,
                 deleted>>

(* Mutant: the scheduler starts with the static certificates only. *)
ServeStatic(s) == main' = "serve" /\ sched' = {}

(* main starts the scheduler with what Load returns. *)
Serve(s) == main' = "serve" /\ sched' = CertIdsOf(s)

(* Mutant: every start gives every resource a new id. *)
AllPresent == Present(state)

Lacking == {e \in Present(state) : state[e].id = None}

(* Mutant: teams are filled in for static certificates only. *)
TeamAsRead(e) == state[e].team

TeamOf(e) == IF e \in CertEntries /\ state[e].team = None THEN System
                                                          ELSE state[e].team

(* Mutant: the state is saved at every start. *)
NeverClean(s) == FALSE

Clean(s) == s = state

(* ensureDynamicIDs and the coercion of teams; what has changed is saved. *)
CompleteState ==
  /\ main = "ids"
  /\ \E new \in [Lacking -> Ids \ used] :
       /\ \A e, f \in Lacking : new[e] = new[f] => e = f
       /\ state' = [e \in Entries |->
                      IF state[e] = None THEN None
                      ELSE [id |-> IF e \in Lacking THEN new[e] ELSE state[e].id,
                            team |-> TeamOf(e)]]
       /\ used' = used \cup {new[e] : e \in Lacking}
  /\ IF Clean(state')
       THEN Serve(state) /\ UNCHANGED save
       ELSE main' = "save" /\ save' = "open" /\ UNCHANGED sched
  /\ UNCHANGED <<file, stored, config, request, locked, saved, deleted, behind,
                 lost>>

-----------------------------------------------------------------------------
(* SaveState, called by Load or by a request. *)

OpenState ==
  /\ save = "open"
  /\ file' = Torn
  /\ save' = "write"
  /\ UNCHANGED <<stored, main, config, state, request, locked, sched, history>>

(* A request then reloads the scheduler; where there is none the call      *)
(* panics and the lock stays.                                              *)
WriteState ==
  /\ save = "write"
  /\ file' = state /\ saved' = state /\ behind' = FALSE
  /\ save' = "none"
  /\ IF main = "save"
       THEN Serve(state) /\ UNCHANGED <<request, locked>>
       ELSE /\ request' = None
            /\ locked' = ~settings.email
            /\ sched' = CertIdsOf(state)
            /\ UNCHANGED main
  /\ UNCHANGED <<stored, config, state, used, deleted, lost>>

(* Load goes on with the state it has, a request answers with an error. *)
SaveFails ==
  /\ "save" \in Faults
  /\ save \in {"open", "write"}
  /\ behind' = TRUE
  /\ save' = "none"
  /\ IF main = "save" THEN Serve(state) /\ UNCHANGED request
                      ELSE request' = None /\ UNCHANGED <<main, sched>>
  /\ UNCHANGED <<file, stored, config, state, locked, used, saved, deleted, lost>>

-----------------------------------------------------------------------------
(* Requests that change the state; Server.mu lets one at a time in.        *)

(* A server accepts requests until its own shutdown begins. *)
Accept(server) ==
  /\ main = "serve" \/ (main = "drain" /\ server = "https")
  /\ request = None
  /\ request' = server
  /\ UNCHANGED <<file, stored, main, config, state, save, locked, sched, history>>

Commit == request # None /\ save = "none" /\ ~locked

Add(e) ==
  /\ Commit
  /\ state[e] = None
  /\ \E i \in Ids \ used, t \in Teams :
       /\ state' = [state EXCEPT ![e] = [id |-> i, team |-> t]]
       /\ used' = used \cup {i}
  /\ save' = "open"
  /\ UNCHANGED <<file, stored, main, config, request, locked, sched, saved,
                 deleted, behind, lost>>

Delete(e) ==
  /\ Commit
  /\ state[e] # None
  /\ state' = [state EXCEPT ![e] = None]
  /\ deleted' = deleted \cup {state[e].id}
  /\ save' = "open"
  /\ UNCHANGED <<file, stored, main, config, request, locked, sched, used, saved,
                 behind, lost>>

(* The request is turned down. *)
Refuse ==
  /\ Commit
  /\ request' = None
  /\ UNCHANGED <<file, stored, main, config, state, save, locked, sched, history>>

-----------------------------------------------------------------------------
(* The scheduler, if there is one. *)

Works == main \in Up /\ settings.email

Known == sched \cup settings.static

Issue ==
  /\ Works
  /\ \E i \in Known : stored' = stored \cup {i}
  /\ UNCHANGED <<file, main, config, state, save, request, locked, sched, history>>

CleanUp ==
  /\ Works
  /\ stored' = stored \cap Known
  /\ UNCHANGED <<file, main, config, state, save, request, locked, sched, history>>

(* time.NewTicker panics unless the interval is positive, and that ends    *)
(* the process; the product of hours and nanoseconds may wrap round.       *)
TickerPanics ==
  /\ Works
  /\ settings.interval \notin 1..MaxHours
  /\ End
  /\ UNCHANGED <<file, stored, config, history>>

-----------------------------------------------------------------------------
(* Shutdown: the two servers are drained one after the other, against one  *)
(* clock of 30 seconds.                                                    *)

Signal ==
  /\ main = "serve"
  /\ main' = "drain"
  /\ UNCHANGED <<file, stored, config, state, save, request, locked, sched, history>>

(* Mutant: the shutdown does not wait for what is under way. *)
NotAwaited(server) == TRUE

Drained(server) == request # server

HTTPDrained ==
  /\ main = "drain"
  /\ Drained("http")
  /\ main' = "drainTLS"
  /\ UNCHANGED <<file, stored, config, state, save, request, locked, sched, history>>

CleanStop ==
  /\ main = "drainTLS"
  /\ Drained("https")
  /\ End
  /\ UNCHANGED <<file, stored, config, history>>

Timeout ==
  /\ main \in {"drain", "drainTLS"}
  /\ End
  /\ UNCHANGED <<file, stored, config, history>>

-----------------------------------------------------------------------------
Load == Boot \/ ReadState \/ CompleteState
SaveState == OpenState \/ WriteState \/ SaveFails
Change == \E e \in Entries : Add(e) \/ Delete(e)
Scheduler == Issue \/ CleanUp \/ TickerPanics
Shutdown == Signal \/ HTTPDrained \/ CleanStop \/ Timeout

Next ==
  \/ Load \/ SaveState
  \/ \E server \in Servers : Accept(server)
  \/ Change \/ Refuse
  \/ Scheduler \/ Shutdown \/ Crash

Spec == Init /\ [][Next]_vars

-----------------------------------------------------------------------------
(* Properties *)

(* Whatever the file lacked, a process that serves has given every         *)
(* resource an id of its own and every certificate a team.                 *)
Complete ==
  main \in Up =>
    /\ OwnIds(state)
    /\ \A e \in Present(state) : /\ state[e].id # None
                                 /\ e \in CertEntries => state[e].team # None

(* An id that has once been saved stays with its resource: later starts    *)
(* find it again, and failed saves, crashes and changes to other resources *)
(* do not lose it, unless the start could not read the state.              *)
IdsStick ==
  (main \in Up /\ ~lost) =>
    \A e \in Present(state) \cap Present(saved) :
      saved[e].id \in {state[e].id, None} \cup deleted

(* The cleanup takes away the files of a certificate only for a reason: a  *)
(* request has deleted it, it was never saved, the start has not read it   *)
(* in config.json, or it could not read the state.                         *)
RemovedForAReason ==
  [][\A i \in stored \ stored' :
       lost \/ i \in deleted \/ i \notin CertIdsOf(saved) \cup settings.static]_vars

(* A start leaves a state file that it could not read, or that does not    *)
(* parse, as it is, so that it can still be repaired.                      *)
UnreadUntouched == [][behind /\ main \in Loading => file' = file]_vars

(* After a shutdown within its time the file has the state, unless the     *)
(* last save had failed or the state had not been read from it.            *)
StopKeeps == [][CleanStop => behind \/ Content(file) = state]_vars

(* The ticker panics only on an interval that the environment sets to zero *)
(* or less, or on one that is out of all proportion.                       *)
PanicIsFromEnv ==
  [][TickerPanics => env.interval # None \/ settings.interval > MaxHours]_vars
=============================================================================
