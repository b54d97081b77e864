------------------------- MODULE ControlPlaneProof -------------------------
(* Theorems about ControlPlane, for every set of clients, resources,       *)
(* bodies and static configuration, and for every choice of faults.        *)
EXTENDS ControlPlane, TLAPS

DiskTyped == disk \in StateType \cup {Torn} /\ (disk # Torn => Present(disk) \subseteq used)

(* A request that is being handled is known. *)
Known == \A r \in Clients : pc[r] # "idle" => req[r] \in Request

Typed == TypeOK /\ DiskTyped /\ Known

LEMMA NoStateType == NoState \in StateType /\ Present(NoState) = {}
BY DEF NoState, StateType, Present

LEMMA TypedInit == Init => Typed
<1> SUFFICES ASSUME Init PROVE Typed
  OBVIOUS
<1>1. Present(state) = {} /\ Present(disk) = {}
  BY NoStateType DEF Init
<1> QED
  BY <1>1, NoStateType
     DEF Init, StartedWith, Typed, TypeOK, DiskTyped, Known, PcValues, NoState

(* What the nine handlers may do to the state. *)
LEMMA CommitTyped ==
  ASSUME Typed, NEW r \in Clients, Commit(r)
  PROVE  /\ state' \in StateType
         /\ Present(state') \subseteq used'
         /\ used \subseteq used' /\ used' \subseteq CertIds \cup KeyIds \cup TeamIds
         /\ raced \subseteq raced' /\ raced' \subseteq TeamIds
<1> USE DEF Typed, TypeOK, Known, Change, Overtaken, Commits, StateType, Present
<1>1. CASE PostCert(r)
  <2>1. req[r].team \in Teams
    BY <1>1 DEF PostCert, Request
  <2> QED
    BY <1>1, <2>1 DEF PostCert, Fresh
<1>2. CASE PutCert(r)
  <2>1. req[r].team \in Teams /\ req[r].id \in CertIds
    BY <1>2 DEF PutCert, Request
  <2>2. state.certs[req[r].id] # None
    BY <1>2 DEF PutCert, Accepted, Found
  <2> QED
    BY <1>2, <2>1, <2>2 DEF PutCert
<1>3. CASE DelCert(r)
  BY <1>3 DEF DelCert, Request
<1>4. CASE PostKey(r)
  <2>1. req[r].key \in KeyType
    BY <1>4, StaticAssumption DEF PostKey, Request
  <2> QED
    BY <1>4, <2>1 DEF PostKey, Fresh
<1>5. CASE PutKey(r)
  <2>1. req[r].key \in KeyType /\ req[r].id \in KeyIds
    BY <1>5, StaticAssumption DEF PutKey, Request
  <2>2. state.keys[req[r].id] # None
    BY <1>5 DEF PutKey, Accepted, Found
  <2> QED
    BY <1>5, <2>1, <2>2 DEF PutKey
<1>6. CASE DelKey(r)
  BY <1>6 DEF DelKey, Request
<1>7. CASE PostTeam(r)
  BY <1>7 DEF PostTeam, Fresh
<1>8. CASE PutTeam(r)
  BY <1>8 DEF PutTeam
<1>9. CASE DelTeam(r)
  BY <1>9 DEF DelTeam
<1>10. CASE Refuse(r)
  BY <1>10 DEF Refuse
<1> QED
  BY <1>1, <1>2, <1>3, <1>4, <1>5, <1>6, <1>7, <1>8, <1>9, <1>10 DEF Commit

(* A commit either takes the lock for a save or answers the request.       *)
LEMMA CommitShape ==
  ASSUME NEW r \in Clients, Commit(r)
  PROVE  /\ pc[r] = "commit" /\ lock = None
         /\ UNCHANGED <<disk, sched, behind>>
         /\ \/ /\ lock' = r /\ Go(r, "open")
               /\ UNCHANGED <<req, scope>>
            \/ Answer(r) /\ UNCHANGED <<state, lock, used, raced>>
BY DEF Commit, PostCert, PutCert, DelCert, PostKey, PutKey, DelKey, PostTeam,
       PutTeam, DelTeam, Refuse, Commits, Change

LEMMA TypedStep == Typed /\ [Next]_vars => Typed'
<1> SUFFICES ASSUME Typed, [Next]_vars PROVE Typed'
  OBVIOUS
<1> USE DEF Typed, TypeOK, DiskTyped, Known, PcValues, Go, Answer
<1>1. ASSUME NEW r \in Clients, Arrive(r) PROVE Typed'
  BY <1>1 DEF Arrive
<1>2. ASSUME NEW r \in Clients, Authenticate(r) PROVE Typed'
  <2>1. AllAPIKeys(state) \subseteq KeyType
    BY StaticAssumption DEF AllAPIKeys, StateType, KeyType, Teams, AnyCert
  <2>2. \E t \in SUBSET Teams : scope' = [scope EXCEPT ![r] = t]
    BY <1>2, <2>1 DEF Authenticate, KeyType
  <2>3. \E v \in {"teams", "commit"} : pc' = [pc EXCEPT ![r] = v]
    BY <1>2 DEF Authenticate
  <2> QED
    BY <1>2, <2>2, <2>3 DEF Authenticate
<1>3. ASSUME NEW r \in Clients, Deny(r) PROVE Typed'
  BY <1>3 DEF Deny
<1>4. ASSUME NEW r \in Clients, CheckTeams(r) PROVE Typed'
  BY <1>4 DEF CheckTeams
<1>5. ASSUME NEW r \in Clients, CheckCerts(r) PROVE Typed'
  BY <1>5 DEF CheckCerts
<1>6. ASSUME NEW r \in Clients, Commit(r) PROVE Typed'
  BY <1>6, CommitTyped, CommitShape
<1>7. ASSUME NEW r \in Clients, OpenFile(r) PROVE Typed'
  BY <1>7 DEF OpenFile
<1>8. ASSUME NEW r \in Clients, WriteFile(r) PROVE Typed'
  BY <1>8 DEF WriteFile, LockWhileReloading
<1>9. ASSUME NEW r \in Clients, SaveFails(r) PROVE Typed'
  BY <1>9 DEF SaveFails, LockAfterError
<1>10. ASSUME NEW r \in Clients, Reload(r) PROVE Typed'
  BY <1>10 DEF Reload, StateType
<1>11. ASSUME NEW r \in Clients, ReloadPanics(r) PROVE Typed'
  BY <1>11 DEF ReloadPanics
<1>12. CASE Restart
  <2>1. Loaded \in StateType /\ Present(Loaded) \subseteq used
    BY NoStateType DEF Loaded
  <2>2. Loaded.certs \in [CertIds -> Teams \cup {None}]
    BY <2>1 DEF StateType
  <2> QED
    BY <1>12, <2>1, <2>2 DEF Restart, StartedWith
<1>13. CASE UNCHANGED vars
  BY <1>13 DEF vars
<1> QED
  BY <1>1, <1>2, <1>3, <1>4, <1>5, <1>6, <1>7, <1>8, <1>9, <1>10, <1>11, <1>12,
     <1>13 DEF Next, Check, Save

(* Every variable keeps its type; no handler, PUT in particular, brings    *)
(* in a resource whose id the server has not generated.                    *)
THEOREM TypeCorrect == Spec => []TypeOK
<1>1. Typed => TypeOK
  BY DEF Typed
<1> QED
  BY <1>1, TypedInit, TypedStep, PTL DEF Spec

-----------------------------------------------------------------------------
(* Who saves holds the lock, and who has saved has put the state on disk.  *)
SavedBeforeReload ==
  \A r \in Clients : pc[r] = "reload" => disk = state /\ ~behind

Synced == InSync /\ LockFollowed /\ SavedBeforeReload

LEMMA SyncedInit == Init => Synced
BY DEF Init, StartedWith, Synced, InSync, LockFollowed, Writing, SavedBeforeReload

LEMMA SyncedStep == Typed /\ Synced /\ [Next]_vars => Synced'
<1> SUFFICES ASSUME Typed, Synced, [Next]_vars PROVE Synced'
  OBVIOUS
<1> USE NoneAssumption DEF Typed, TypeOK, Synced, InSync, LockFollowed,
        Writing, SavedBeforeReload, Go, Answer
<1>1. ASSUME NEW r \in Clients, Arrive(r) PROVE Synced'
  BY <1>1 DEF Arrive
<1>2. ASSUME NEW r \in Clients, Check(r) PROVE Synced'
  <2>1. /\ UNCHANGED <<state, disk, sched, lock, behind>> /\ lock = None
        /\ \E v \in {"idle", "teams", "certs", "commit"} :
             pc' = [pc EXCEPT ![r] = v]
    BY <1>2 DEF Check, Authenticate, Deny, CheckTeams, CheckCerts
  <2> QED
    BY <2>1
<1>3. ASSUME NEW r \in Clients, Commit(r) PROVE Synced'
  BY <1>3, CommitShape
<1>4. ASSUME NEW r \in Clients, OpenFile(r) PROVE Synced'
  BY <1>4 DEF OpenFile
<1>5. ASSUME NEW r \in Clients, WriteFile(r) PROVE Synced'
  BY <1>5 DEF WriteFile, LockWhileReloading
<1>6. ASSUME NEW r \in Clients, SaveFails(r) PROVE Synced'
  BY <1>6 DEF SaveFails, LockAfterError
<1>7. ASSUME NEW r \in Clients, Reload(r) PROVE Synced'
  BY <1>7 DEF Reload
<1>8. ASSUME NEW r \in Clients, ReloadPanics(r) PROVE Synced'
  BY <1>8 DEF ReloadPanics
<1>9. CASE Restart
  BY <1>9 DEF Restart, Loaded, StartedWith
<1>10. CASE UNCHANGED vars
  BY <1>10 DEF vars
<1> QED
  BY <1>1, <1>2, <1>3, <1>4, <1>5, <1>6, <1>7, <1>8, <1>9, <1>10 DEF Next, Save

(* Memory, state file and scheduler agree whenever the lock is free and    *)
(* the last save did not fail, for any number of concurrent requests.      *)
THEOREM StaysInSync == Spec => []InSync
<1>1. Synced => InSync
  BY DEF Synced
<1> QED
  BY <1>1, TypedInit, TypedStep, SyncedInit, SyncedStep, PTL DEF Spec

(* The lock belongs to the one request that is saving or reloading, on     *)
(* every path; where there is a scheduler nobody keeps it.                 *)
THEOREM LockIsFollowed == Spec => []LockFollowed
<1>1. Synced => LockFollowed
  BY DEF Synced
<1> QED
  BY <1>1, TypedInit, TypedStep, SyncedInit, SyncedStep, PTL DEF Spec

-----------------------------------------------------------------------------
(* A request that has passed authentication carries a scope of its own,    *)
(* inside the delegated teams, that its key or the key's maker was given.  *)
InHand == {"teams", "certs", "commit", "open", "write", "reload"}

ScopedRequests ==
  \A r \in Clients : pc[r] \in InHand
    => /\ scope[r] # {} /\ scope[r] \subseteq Delegated
       /\ Admitted(req[r], scope[r])

Fenced ==
  NoStaticRoot => /\ Within(state)
                  /\ disk # Torn => Within(disk)
                  /\ ScopedRequests

LEMMA FencedInit == Init => Fenced
BY NoneAssumption
   DEF Init, Fenced, Within, ScopedRequests, InHand, NoState

LEMMA CommitFenced ==
  ASSUME Typed, NoStaticRoot, Within(state), ScopedRequests,
         NEW r \in Clients, Commit(r)
  PROVE  Within(state')
<1> USE DEF Typed, TypeOK, Known, Change, Commits, StateType, Within
<1>1. /\ pc[r] = "commit" /\ req[r] \in Request
      /\ scope[r] # {} /\ scope[r] \subseteq Delegated
      /\ Admitted(req[r], scope[r])
  BY CommitShape DEF ScopedRequests, InHand
<1>2. CASE PostCert(r)
  <2>1. req[r].team \in Delegated
    BY <1>1, <1>2 DEF PostCert, Admitted, inScope
  <2> QED
    BY <1>2, <2>1 DEF PostCert
<1>3. CASE PutCert(r)
  <2>1. req[r].team \in Delegated
    BY <1>1, <1>3 DEF PutCert, Accepted, Authorised, inScope
  <2> QED
    BY <1>3, <2>1 DEF PutCert
<1>4. CASE DelCert(r)
  BY <1>4 DEF DelCert
<1>5. CASE PostKey(r)
  <2>1. /\ req[r].key.teams \subseteq Delegated
        /\ req[r].key.admin => req[r].key.teams # {}
    BY <1>1, <1>5 DEF PostKey, Admitted, canManageKey
  <2> QED
    BY <1>5, <2>1 DEF PostKey
<1>6. CASE PutKey(r)
  <2>1. /\ req[r].key.teams \subseteq Delegated
        /\ req[r].key.admin => req[r].key.teams # {}
    BY <1>1, <1>6 DEF PutKey, Accepted, Authorised, canManageKey
  <2> QED
    BY <1>6, <2>1 DEF PutKey
<1>7. CASE DelKey(r)
  BY <1>7 DEF DelKey
<1>8. CASE PostTeam(r)
  BY <1>1, <1>8 DEF PostTeam, Admitted
<1>9. CASE PutTeam(r)
  BY <1>9 DEF PutTeam
<1>10. CASE DelTeam(r)
  BY <1>10 DEF DelTeam
<1>11. CASE Refuse(r)
  BY <1>11 DEF Refuse
<1> QED
  BY <1>2, <1>3, <1>4, <1>5, <1>6, <1>7, <1>8, <1>9, <1>10, <1>11 DEF Commit

LEMMA FencedStep == Typed /\ Fenced /\ [Next]_vars => Fenced'
<1> SUFFICES ASSUME Typed, NoStaticRoot, [Next]_vars,
                    Within(state), disk # Torn => Within(disk), ScopedRequests
             PROVE  /\ Within(state')
                    /\ disk' # Torn => Within(disk')
                    /\ ScopedRequests'
  BY DEF Fenced, Within, NoStaticRoot, Delegated
<1> USE DEF Typed, TypeOK, Known, ScopedRequests, InHand, Go, Answer
<1> DEFINE Kept == Within(state') /\ (disk' # Torn => Within(disk')) /\ ScopedRequests'
<1>1. ASSUME NEW r \in Clients, Arrive(r) PROVE Kept
  BY <1>1 DEF Arrive
<1>2. ASSUME NEW r \in Clients, Authenticate(r) PROVE Kept
  <2>1. PICK key \in AllAPIKeys(state) :
          /\ key.admin /\ Admitted(req[r], key.teams)
          /\ scope' = [scope EXCEPT ![r] = key.teams]
    BY <1>2 DEF Authenticate
  <2>2. key.teams # {} /\ key.teams \subseteq Delegated
    <3>1. CASE key \in StaticKeys
      BY <2>1, <3>1 DEF NoStaticRoot, Delegated
    <3>2. CASE key \notin StaticKeys
      BY <2>1, <3>2 DEF AllAPIKeys, Within
    <3> QED
      BY <3>1, <3>2
  <2>3. /\ UNCHANGED <<state, disk, req>>
        /\ \E v \in {"teams", "commit"} : pc' = [pc EXCEPT ![r] = v]
    BY <1>2 DEF Authenticate
  <2> QED
    BY <2>1, <2>2, <2>3
<1>3. ASSUME NEW r \in Clients, Deny(r) PROVE Kept
  BY <1>3 DEF Deny
<1>4. ASSUME NEW r \in Clients, CheckTeams(r) PROVE Kept
  BY <1>4 DEF CheckTeams
<1>5. ASSUME NEW r \in Clients, CheckCerts(r) PROVE Kept
  BY <1>5 DEF CheckCerts
<1>6. ASSUME NEW r \in Clients, Commit(r) PROVE Kept
  BY <1>6, CommitShape, CommitFenced
<1>7. ASSUME NEW r \in Clients, OpenFile(r) PROVE Kept
  BY <1>7 DEF OpenFile
<1>8. ASSUME NEW r \in Clients, WriteFile(r) PROVE Kept
  BY <1>8 DEF WriteFile
<1>9. ASSUME NEW r \in Clients, SaveFails(r) PROVE Kept
  BY <1>9 DEF SaveFails
<1>10. ASSUME NEW r \in Clients, Reload(r) PROVE Kept
  BY <1>10 DEF Reload
<1>11. ASSUME NEW r \in Clients, ReloadPanics(r) PROVE Kept
  BY <1>11 DEF ReloadPanics
<1>12. CASE Restart
  <2>1. Within(NoState)
    BY DEF Within, NoState
  <2> QED
    BY <1>12, <2>1 DEF Restart, Loaded
<1>13. CASE UNCHANGED vars
  BY <1>13 DEF vars
<1> QED
  BY <1>1, <1>2, <1>3, <1>4, <1>5, <1>6, <1>7, <1>8, <1>9, <1>10, <1>11, <1>12,
     <1>13 DEF Next, Check, Save

(* Administrators confined to teams stay confined: with no static root     *)
(* key, no interleaving of requests, failures and restarts leads outside   *)
(* the teams the static admin keys were given.                             *)
THEOREM StaysConfined == Spec => []Confined
<1>1. Fenced => Confined
  BY DEF Fenced, Confined
<1> QED
  BY <1>1, TypedInit, TypedStep, FencedInit, FencedStep, PTL DEF Spec

-----------------------------------------------------------------------------
(* What holds of a request beside other administrators, root included: it  *)
(* was admitted with the scope it carries.                                 *)
Carried == \A r \in Clients : pc[r] \in InHand => Admitted(req[r], scope[r])

LEMMA CarriedInit == Init => Carried
BY DEF Init, Carried, InHand

LEMMA CarriedStep == Typed /\ Carried /\ [Next]_vars => Carried'
<1> SUFFICES ASSUME Typed, Carried, [Next]_vars PROVE Carried'
  OBVIOUS
<1> USE DEF Typed, TypeOK, Carried, InHand, Go, Answer
<1>1. ASSUME NEW r \in Clients, Arrive(r) PROVE Carried'
  BY <1>1 DEF Arrive
<1>2. ASSUME NEW r \in Clients, Authenticate(r) PROVE Carried'
  BY <1>2 DEF Authenticate
<1>3. ASSUME NEW r \in Clients, Deny(r) \/ CheckTeams(r) \/ CheckCerts(r)
      PROVE  Carried'
  BY <1>3 DEF Deny, CheckTeams, CheckCerts
<1>4. ASSUME NEW r \in Clients, Commit(r) PROVE Carried'
  BY <1>4, CommitShape
<1>5. ASSUME NEW r \in Clients, Save(r) PROVE Carried'
  BY <1>5 DEF Save, OpenFile, WriteFile, SaveFails, Reload, ReloadPanics
<1>6. CASE Restart
  BY <1>6 DEF Restart
<1>7. CASE UNCHANGED vars
  BY <1>7 DEF vars
<1> QED
  BY <1>1, <1>2, <1>3, <1>4, <1>5, <1>6, <1>7 DEF Next, Check

(* Only a commit takes the lock. *)
LEMMA TakesLock ==
  ASSUME Typed, Synced, [Next]_vars, NEW r \in Clients, lock # r, lock' = r
  PROVE  Commit(r)
<1> USE NoneAssumption DEF Typed, TypeOK, Synced, LockFollowed, Writing
<1>1. ASSUME NEW q \in Clients, Commit(q) PROVE q = r
  BY <1>1, CommitShape DEF Answer
<1>2. ASSUME NEW q \in Clients, Arrive(q) \/ Check(q) PROVE FALSE
  BY <1>2 DEF Arrive, Check, Authenticate, Deny, CheckTeams, CheckCerts
<1>3. ASSUME NEW q \in Clients, Save(q) PROVE FALSE
  BY <1>3 DEF Save, OpenFile, WriteFile, LockWhileReloading, SaveFails,
     LockAfterError, Reload, ReloadPanics
<1> QED
  BY <1>1, <1>2, <1>3 DEF Next, Restart, vars

LEMMA ManagedFits ==
  ASSUME NEW teams, NEW key, teams # {}, canManageKey(teams, key)
  PROVE  Fits(key, teams)
BY DEF canManageKey, Fits

LEMMA CommitInScope ==
  ASSUME Typed, Carried, NEW r \in Clients, Commit(r), scope[r] # {}
  PROVE  ChangesWithin(scope[r])
<1> USE DEF Typed, TypeOK, Known, Change, Commits, StateType, ChangesWithin
<1>1. pc[r] = "commit" /\ req[r] \in Request /\ Admitted(req[r], scope[r])
  BY CommitShape DEF Carried, InHand
<1>2. CASE PostCert(r)
  <2>1. PICK c \in CertIds \ used : state' = [state EXCEPT !.certs[c] = req[r].team]
    BY <1>2 DEF PostCert, Fresh
  <2>2. state.certs[c] = None /\ req[r].team \in scope[r]
    BY <1>1, <1>2, <2>1 DEF PostCert, Admitted, inScope, Present
  <2> QED
    BY <2>1, <2>2
<1>3. CASE PutCert(r)
  <2>1. {state.certs[req[r].id], req[r].team} \subseteq scope[r]
    BY <1>3 DEF PutCert, Accepted, Authorised, inScope
  <2> QED
    BY <1>3, <2>1 DEF PutCert
<1>4. CASE DelCert(r)
  <2>1. state.certs[req[r].id] \in scope[r]
    BY <1>4 DEF DelCert, Accepted, Authorised, inScope
  <2> QED
    BY <1>4, <2>1 DEF DelCert
<1>5. CASE PostKey(r)
  <2>1. PICK k \in KeyIds \ used : state' = [state EXCEPT !.keys[k] = req[r].key]
    BY <1>5 DEF PostKey, Fresh
  <2>2. state.keys[k] = None /\ Fits(req[r].key, scope[r])
    BY <1>1, <1>5, <2>1, ManagedFits DEF PostKey, Admitted, Present
  <2> QED
    BY <2>1, <2>2
<1>6. CASE PutKey(r)
  <2>1. Fits(state.keys[req[r].id], scope[r]) /\ Fits(req[r].key, scope[r])
    BY <1>6, ManagedFits DEF PutKey, Accepted, Authorised
  <2> QED
    BY <1>6, <2>1 DEF PutKey
<1>7. CASE DelKey(r)
  <2>1. Fits(state.keys[req[r].id], scope[r])
    BY <1>7, ManagedFits DEF DelKey, Accepted, Authorised
  <2> QED
    BY <1>7, <2>1 DEF DelKey
<1>8. CASE PostTeam(r) \/ PutTeam(r) \/ DelTeam(r)
  BY <1>1, <1>8 DEF PostTeam, PutTeam, DelTeam, Admitted
<1>9. CASE Refuse(r)
  BY <1>9 DEF Refuse
<1> QED
  BY <1>2, <1>3, <1>4, <1>5, <1>6, <1>7, <1>8, <1>9 DEF Commit

(* A request changes nothing beyond the scope of its key, whatever others, *)
(* with other scopes, have changed since it was authenticated.             *)
THEOREM ChangesStayInScope == Spec => StaysInScope
<1> DEFINE Inv == Typed /\ Synced /\ Carried
           Kept == \A r \in Clients :
             (lock # r /\ lock' = r /\ scope[r] # {}) => ChangesWithin(scope[r])
<1>1. Init => Inv
  BY TypedInit, SyncedInit, CarriedInit
<1>2. Inv /\ [Next]_vars => Inv'
  BY TypedStep, SyncedStep, CarriedStep
<1>3. Inv /\ [Next]_vars => [Kept]_vars
  BY TakesLock, CommitInScope
<1> QED
  BY <1>1, <1>2, <1>3, PTL DEF Spec, StaysInScope

-----------------------------------------------------------------------------
(* The references of the state on disk hold as well, and a request that    *)
(* has passed isValidTeam or areTeamsValid names teams that are there, or  *)
(* were deleted under it.                                                  *)
ChecksHold ==
  \A r \in Clients : pc[r] \in {"certs", "commit"}
    => TeamsNamed(req[r]) \subseteq AllTeams(state) \cup raced

Referenced ==
  /\ DanglesOnlyIfRaced
  /\ disk # Torn => NamesOnly(disk, AllTeams(disk) \cup raced)
  /\ ChecksHold

LEMMA ReferencedInit == Init => Referenced
BY NoneAssumption
   DEF Init, Referenced, DanglesOnlyIfRaced, ChecksHold, NamesOnly, NoState

LEMMA CommitReferenced ==
  ASSUME Typed, Referenced, NEW r \in Clients, Commit(r)
  PROVE  DanglesOnlyIfRaced' /\ ChecksHold'
<1> DEFINE Known1 == AllTeams(state) \cup raced
           Known2 == AllTeams(state') \cup raced'
<1>1. raced \subseteq raced'
  BY CommitTyped
<1>2. /\ pc[r] = "commit" /\ req[r] \in Request
      /\ TeamsNamed(req[r]) \subseteq Known1
      /\ NamesOnly(state, Known1)
  BY CommitShape DEF Typed, TypeOK, Known, Referenced, ChecksHold, DanglesOnlyIfRaced
<1>3. ASSUME \A q \in Clients : pc[q] \in {"certs", "commit"}
                => TeamsNamed(req[q]) \subseteq Known2
      PROVE  ChecksHold'
  <2>1. \A q \in Clients : pc'[q] \in {"certs", "commit"}
           => pc[q] = pc'[q] /\ req'[q] = req[q]
    BY CommitShape DEF Typed, TypeOK, Go, Answer
  <2> QED
    BY <1>3, <2>1 DEF ChecksHold
<1>4. ASSUME Known1 \subseteq Known2 PROVE ChecksHold'
  BY <1>3, <1>4 DEF Referenced, ChecksHold
<1> USE DEF Typed, TypeOK, StateType, NamesOnly, DanglesOnlyIfRaced
<1>5. CASE PostCert(r)
  <2>1. PICK c \in CertIds : state' = [state EXCEPT !.certs[c] = req[r].team]
    BY <1>5 DEF PostCert, Change, Fresh
  <2>2. Known1 \subseteq Known2
    BY <1>1, <2>1 DEF AllTeams
  <2>3. req[r].team \in Known2
    BY <1>2, <1>5, <2>2 DEF PostCert, Commits, TeamsNamed
  <2> QED
    BY <1>2, <1>4, <2>1, <2>2, <2>3
<1>6. CASE PutCert(r)
  <2>1. state' = [state EXCEPT !.certs[req[r].id] = req[r].team]
    BY <1>6 DEF PutCert, Change
  <2>2. Known1 \subseteq Known2
    BY <1>1, <2>1 DEF AllTeams
  <2>3. req[r].team \in Known2
    BY <1>2, <1>6, <2>2 DEF PutCert, Commits, TeamsNamed
  <2> QED
    BY <1>2, <1>4, <2>1, <2>2, <2>3
<1>7. CASE DelCert(r)
  <2>1. state' = [state EXCEPT !.certs[req[r].id] = None]
    BY <1>7 DEF DelCert, Change
  <2>2. Known1 \subseteq Known2
    BY <1>1, <2>1 DEF AllTeams
  <2> QED
    BY <1>2, <1>4, <2>1, <2>2
<1>8. CASE PostKey(r)
  <2>1. PICK k \in KeyIds : state' = [state EXCEPT !.keys[k] = req[r].key]
    BY <1>8 DEF PostKey, Change, Fresh
  <2>2. Known1 \subseteq Known2
    BY <1>1, <2>1 DEF AllTeams
  <2>3. req[r].key.teams \subseteq Known2
    BY <1>2, <1>8, <2>2 DEF PostKey, Commits, TeamsNamed
  <2> QED
    BY <1>2, <1>4, <2>1, <2>2, <2>3
<1>9. CASE PutKey(r)
  <2>1. state' = [state EXCEPT !.keys[req[r].id] = req[r].key]
    BY <1>9 DEF PutKey, Change
  <2>2. Known1 \subseteq Known2
    BY <1>1, <2>1 DEF AllTeams
  <2>3. req[r].key.teams \subseteq Known2
    BY <1>2, <1>9, <2>2 DEF PutKey, Commits, TeamsNamed
  <2> QED
    BY <1>2, <1>4, <2>1, <2>2, <2>3
<1>10. CASE DelKey(r)
  <2>1. state' = [state EXCEPT !.keys[req[r].id] = None]
    BY <1>10 DEF DelKey, Change
  <2>2. Known1 \subseteq Known2
    BY <1>1, <2>1 DEF AllTeams
  <2> QED
    BY <1>2, <1>4, <2>1, <2>2
<1>11. CASE PostTeam(r)
  <2>1. PICK t \in TeamIds : state' = [state EXCEPT !.teams = @ \cup {t}]
    BY <1>11 DEF PostTeam, Change, Fresh
  <2>2. Known1 \subseteq Known2
    BY <1>1, <2>1 DEF AllTeams
  <2> QED
    BY <1>2, <1>4, <2>1, <2>2
<1>12. CASE PutTeam(r)
  <2>1. state' = state
    BY <1>12 DEF PutTeam, Change
  <2> QED
    BY <1>1, <1>2, <1>4, <2>1
<1>13. CASE DelTeam(r)
  <2> DEFINE t == req[r].id
  <2>1. /\ state' = [state EXCEPT !.teams = @ \ {t}]
        /\ raced' = raced \cup Overtaken(state')
        /\ t \in state.teams /\ ~InUse(state, t)
    BY <1>13 DEF DelTeam, Commits, Change, Accepted, Found, Authorised
  <2>2. Known1 \ {t} \subseteq Known2
    BY <1>1, <2>1 DEF AllTeams
  <2>3. DanglesOnlyIfRaced'
    <3>1. \A c \in CertIds : state.certs[c] # t
      BY <2>1 DEF InUse, AllCertificates, AnyCert
    <3>2. \A k \in KeyIds : state.keys[k] # None => t \notin state.keys[k].teams
      BY <2>1 DEF InUse, AllAPIKeys
    <3>3. state'.certs = state.certs /\ state'.keys = state.keys
      BY <2>1
    <3>4. \A c \in CertIds : state.certs[c] \in Known2 \cup {None}
      BY <1>2, <2>2, <3>1
    <3>5. \A k \in KeyIds : state.keys[k] # None
            => state.keys[k].teams \subseteq Known2
      BY <1>2, <2>2, <3>2
    <3> QED
      BY <3>3, <3>4, <3>5
  <2>4. ChecksHold'
    <3> SUFFICES ASSUME NEW q \in Clients, pc[q] \in {"certs", "commit"},
                        NEW u \in TeamsNamed(req[q])
                 PROVE  u \in Known2
      BY <1>3
    <3>1. CASE u = t
      BY <2>1, <3>1 DEF Overtaken
    <3>2. CASE u # t
      BY <2>2, <3>2 DEF Referenced, ChecksHold
    <3> QED
      BY <3>1, <3>2
  <2> QED
    BY <2>3, <2>4
<1>14. CASE Refuse(r)
  BY <1>1, <1>2, <1>4, <1>14 DEF Refuse
<1> QED
  BY <1>5, <1>6, <1>7, <1>8, <1>9, <1>10, <1>11, <1>12, <1>13, <1>14 DEF Commit

LEMMA ReferencedStep == Typed /\ Referenced /\ [Next]_vars => Referenced'
<1> SUFFICES ASSUME Typed, Referenced, [Next]_vars PROVE Referenced'
  OBVIOUS
<1> USE DEF Typed, TypeOK, Known, Referenced, DanglesOnlyIfRaced, ChecksHold, Go,
        Answer
<1>1. ASSUME NEW r \in Clients, Arrive(r) PROVE Referenced'
  BY <1>1 DEF Arrive
<1>2. ASSUME NEW r \in Clients, Authenticate(r) PROVE Referenced'
  BY <1>2 DEF Authenticate, TeamsNamed
<1>3. ASSUME NEW r \in Clients, Deny(r) PROVE Referenced'
  BY <1>3 DEF Deny
<1>4. ASSUME NEW r \in Clients, CheckTeams(r) PROVE Referenced'
  BY <1>4 DEF CheckTeams
<1>5. ASSUME NEW r \in Clients, CheckCerts(r) PROVE Referenced'
  BY <1>5 DEF CheckCerts
<1>6. ASSUME NEW r \in Clients, Commit(r) PROVE Referenced'
  <2>1. disk' = disk /\ raced \subseteq raced'
    BY <1>6, CommitShape, CommitTyped
  <2> QED
    BY <1>6, <2>1, CommitReferenced DEF NamesOnly
<1>7. ASSUME NEW r \in Clients, OpenFile(r) PROVE Referenced'
  BY <1>7 DEF OpenFile
<1>8. ASSUME NEW r \in Clients, WriteFile(r) PROVE Referenced'
  BY <1>8 DEF WriteFile
<1>9. ASSUME NEW r \in Clients, SaveFails(r) PROVE Referenced'
  BY <1>9 DEF SaveFails
<1>10. ASSUME NEW r \in Clients, Reload(r) PROVE Referenced'
  BY <1>10 DEF Reload
<1>11. ASSUME NEW r \in Clients, ReloadPanics(r) PROVE Referenced'
  BY <1>11 DEF ReloadPanics
<1>12. CASE Restart
  <2>1. NamesOnly(NoState, AllTeams(NoState) \cup raced)
    BY NoneAssumption DEF NamesOnly, NoState
  <2> QED
    BY <1>12, <2>1 DEF Restart, Loaded
<1>13. CASE UNCHANGED vars
  BY <1>13 DEF vars
<1> QED
  BY <1>1, <1>2, <1>3, <1>4, <1>5, <1>6, <1>7, <1>8, <1>9, <1>10, <1>11, <1>12,
     <1>13 DEF Next, Check, Save

(* A reference to a team dangles only through the race between a deletion  *)
(* and a request that had found the team, for any number of requests,      *)
(* failed saves and restarts.                                              *)
THEOREM ReferencesHold == Spec => []DanglesOnlyIfRaced
<1>1. Referenced => DanglesOnlyIfRaced
  BY DEF Referenced
<1> QED
  BY <1>1, TypedInit, TypedStep, ReferencedInit, ReferencedStep, PTL DEF Spec

-----------------------------------------------------------------------------
(* The certificates a key allows were given out once, and so were those of *)
(* a key that has passed areCertificatesValidForTeams.                     *)
AllowsUsed(key) == key.certs \cap CertIds \subseteq used

KeysAllowUsed(s) == \A k \in KeyIds : s.keys[k] # None => AllowsUsed(s.keys[k])

Allowed ==
  /\ KeysAllowUsed(state)
  /\ disk # Torn => KeysAllowUsed(disk)
  /\ \A r \in Clients : pc[r] = "commit" /\ req[r].kind \in {"PostKey", "PutKey"}
       => AllowsUsed(req[r].key)

LEMMA AllowedInit == Init => Allowed
BY DEF Init, Allowed, KeysAllowUsed, NoState

LEMMA CommitKeys ==
  ASSUME Typed, NEW r \in Clients, Commit(r), NEW k \in KeyIds,
         state'.keys[k] # None
  PROVE  \/ state'.keys[k] = state.keys[k]
         \/ state'.keys[k] = req[r].key /\ req[r].kind \in {"PostKey", "PutKey"}
<1> USE DEF Typed, TypeOK, StateType, Change, Commits
<1>1. CASE PostKey(r)
  BY <1>1 DEF PostKey
<1>2. CASE PutKey(r)
  BY <1>2 DEF PutKey
<1>3. CASE DelKey(r)
  BY <1>3 DEF DelKey
<1>4. CASE ~(PostKey(r) \/ PutKey(r) \/ DelKey(r))
  <2>1. state'.keys = state.keys
    BY <1>4 DEF Commit, PostCert, PutCert, DelCert, PostTeam, PutTeam, DelTeam,
       Refuse
  <2> QED
    BY <2>1
<1> QED
  BY <1>1, <1>2, <1>3, <1>4

LEMMA AllowedStep == Typed /\ Allowed /\ [Next]_vars => Allowed'
<1> SUFFICES ASSUME Typed, Allowed, [Next]_vars PROVE Allowed'
  OBVIOUS
<1> USE DEF Typed, TypeOK, Known, Allowed, KeysAllowUsed, AllowsUsed, Go, Answer
<1>1. ASSUME NEW r \in Clients, Arrive(r) PROVE Allowed'
  BY <1>1 DEF Arrive
<1>2. ASSUME NEW r \in Clients, Authenticate(r) PROVE Allowed'
  BY <1>2 DEF Authenticate
<1>3. ASSUME NEW r \in Clients, Deny(r) PROVE Allowed'
  BY <1>3 DEF Deny
<1>4. ASSUME NEW r \in Clients, CheckTeams(r) PROVE Allowed'
  BY <1>4 DEF CheckTeams
<1>5. ASSUME NEW r \in Clients, CheckCerts(r) PROVE Allowed'
  <2>1. ASSUME areCertificatesValidForTeams(state, req[r].key)
        PROVE  AllowsUsed(req[r].key)
    BY <2>1 DEF areCertificatesValidForTeams, AllCertificates, AnyCert, Present
  <2> QED
    BY <1>5, <2>1 DEF CheckCerts
<1>6. ASSUME NEW r \in Clients, Commit(r) PROVE Allowed'
  <2>1. used \subseteq used' /\ disk' = disk
    BY <1>6, CommitTyped, CommitShape
  <2>2. \A q \in Clients : pc'[q] = "commit" => pc[q] = "commit" /\ req'[q] = req[q]
    BY <1>6, CommitShape
  <2>3. \A k \in KeyIds : state'.keys[k] # None
          => \/ state'.keys[k] = state.keys[k]
             \/ state'.keys[k] = req[r].key /\ req[r].kind \in {"PostKey", "PutKey"}
    BY <1>6, CommitKeys
  <2>4. pc[r] = "commit"
    BY <1>6, CommitShape
  <2>5. KeysAllowUsed(state)'
    BY <2>1, <2>3, <2>4
  <2> QED
    BY <2>1, <2>2, <2>5
<1>7. ASSUME NEW r \in Clients, OpenFile(r) PROVE Allowed'
  BY <1>7 DEF OpenFile
<1>8. ASSUME NEW r \in Clients, WriteFile(r) PROVE Allowed'
  BY <1>8 DEF WriteFile
<1>9. ASSUME NEW r \in Clients, SaveFails(r) PROVE Allowed'
  BY <1>9 DEF SaveFails
<1>10. ASSUME NEW r \in Clients, Reload(r) PROVE Allowed'
  BY <1>10 DEF Reload
<1>11. ASSUME NEW r \in Clients, ReloadPanics(r) PROVE Allowed'
  BY <1>11 DEF ReloadPanics
<1>12. CASE Restart
  BY <1>12 DEF Restart, Loaded, NoState
<1>13. CASE UNCHANGED vars
  BY <1>13 DEF vars
<1> QED
  BY <1>1, <1>2, <1>3, <1>4, <1>5, <1>6, <1>7, <1>8, <1>9, <1>10, <1>11, <1>12,
     <1>13 DEF Next, Check, Save

(* The id of a certificate that is gone is not given to another one. *)
LEMMA CommitLeavesGone ==
  ASSUME Typed, NEW r \in Clients, Commit(r), NEW c \in CertIds \cap used,
         state.certs[c] = None
  PROVE  state'.certs[c] = None
<1> USE DEF Typed, TypeOK, StateType
<1>1. CASE PostCert(r)
  BY <1>1 DEF PostCert, Change, Fresh
<1>2. CASE PutCert(r)
  BY <1>2 DEF PutCert, Change, Commits, Accepted, Found
<1>3. CASE DelCert(r)
  BY <1>3 DEF DelCert, Change
<1>4. CASE ~(PostCert(r) \/ PutCert(r) \/ DelCert(r))
  BY <1>4 DEF Commit, PostKey, PutKey, DelKey, PostTeam, PutTeam, DelTeam, Refuse,
     Change
<1> QED
  BY <1>1, <1>2, <1>3, <1>4

LEMMA OthersKeepState ==
  ASSUME NEW r \in Clients, Arrive(r) \/ Check(r) \/ Save(r)
  PROVE  state' = state /\ used' = used
BY DEF Arrive, Check, Authenticate, Deny, CheckTeams, CheckCerts, Save, OpenFile,
       WriteFile, SaveFails, Reload, ReloadPanics

(* A certificate that a key allows and that is deleted never comes back as *)
(* another certificate under the same id.                                  *)
THEOREM NeverRevived == Spec => NoRevival
<1> DEFINE Inv == Typed /\ Allowed
           Kept == Restart \/ \A k \in KeyIds :
                     state.keys[k] # None /\ state'.keys[k] = state.keys[k]
                       => \A c \in state.keys[k].certs \cap CertIds :
                            state.certs[c] = None => state'.certs[c] = None
<1>1. Init => Inv
  BY TypedInit, AllowedInit
<1>2. Inv /\ [Next]_vars => Inv'
  BY TypedStep, AllowedStep
<1>3. Inv /\ [Next]_vars => [Kept]_vars
  BY CommitLeavesGone, OthersKeepState
     DEF Next, vars, Allowed, KeysAllowUsed, AllowsUsed
<1> QED
  BY <1>1, <1>2, <1>3, PTL DEF Spec, NoRevival

-----------------------------------------------------------------------------
(* With a scheduler, its list is the one on disk, except between a write   *)
(* and the reload that follows it under the same lock.                     *)
ListFollowsDisk ==
  /\ sched # None /\ Listed \subseteq used
  /\ (disk # Torn /\ \A r \in Clients : pc[r] # "reload") => sched = disk.certs

LEMMA FollowsInit ==
  ASSUME "email" \notin Faults, Init PROVE ListFollowsDisk
BY NoneAssumption, NoStateType
   DEF Init, StartedWith, ListFollowsDisk, Listed, NoState

LEMMA FollowsStep ==
  ASSUME "email" \notin Faults, Typed, Synced, ListFollowsDisk, [Next]_vars
  PROVE  ListFollowsDisk'
<1> USE NoneAssumption DEF Typed, TypeOK, ListFollowsDisk, Listed, Go, Answer
<1>1. ASSUME NEW r \in Clients, Arrive(r) \/ Check(r) PROVE ListFollowsDisk'
  <2>1. /\ UNCHANGED <<disk, sched, used>>
        /\ pc[r] # "reload"
        /\ \E v \in {"authenticate", "idle", "teams", "certs", "commit"} :
             pc' = [pc EXCEPT ![r] = v]
    BY <1>1 DEF Arrive, Check, Authenticate, Deny, CheckTeams, CheckCerts
  <2> QED
    BY <2>1
<1>2. ASSUME NEW r \in Clients, Commit(r) PROVE ListFollowsDisk'
  BY <1>2, CommitShape, CommitTyped
<1>3. ASSUME NEW r \in Clients, OpenFile(r) PROVE ListFollowsDisk'
  BY <1>3 DEF OpenFile
<1>4. ASSUME NEW r \in Clients, WriteFile(r) PROVE ListFollowsDisk'
  BY <1>4 DEF WriteFile, PcValues
<1>5. ASSUME NEW r \in Clients, SaveFails(r) PROVE ListFollowsDisk'
  BY <1>5 DEF SaveFails
<1>6. ASSUME NEW r \in Clients, Reload(r) PROVE ListFollowsDisk'
  <2>1. /\ sched' = state.certs /\ disk' = state /\ used' = used
        /\ sched' \in [CertIds -> Teams \cup {None}]
    BY <1>6 DEF Reload, Synced, SavedBeforeReload, StateType
  <2>2. Listed' \subseteq used
    BY <2>1 DEF Present
  <2> QED
    BY <2>1, <2>2
<1>7. ASSUME NEW r \in Clients, ReloadPanics(r) PROVE ListFollowsDisk'
  BY <1>7 DEF ReloadPanics
<1>8. CASE Restart
  <2>1. /\ sched' = Loaded.certs /\ used' = used /\ disk' = disk
        /\ Loaded \in StateType /\ Present(Loaded) \subseteq used
    BY <1>8, NoStateType DEF Restart, StartedWith, Loaded, DiskTyped
  <2>2. sched' # None /\ Listed' \subseteq used
    BY <2>1 DEF Present, StateType
  <2> QED
    BY <2>1, <2>2 DEF Loaded
<1>9. CASE UNCHANGED vars
  BY <1>9 DEF vars
<1> QED
  BY <1>1, <1>2, <1>3, <1>4, <1>5, <1>6, <1>7, <1>8, <1>9 DEF Next, Save

(* Every step of the API is a change the contract allows. *)
LEMMA StepKeepsContract ==
  ASSUME "email" \notin Faults, Typed, Typed', Synced, ListFollowsDisk,
         ListFollowsDisk', [Next]_vars
  PROVE  Contract!Change \/ UNCHANGED <<Listed, Spent>>
<1> USE DEF Typed, TypeOK, ListFollowsDisk
<1> DEFINE Dead == (used \cap CertIds) \ Present(state)
<1>0. /\ \A c \in CertIds : c \in Present(state) <=> state.certs[c] # None
      /\ \A c \in CertIds : c \in Present(state)' <=> state'.certs[c] # None
      /\ Listed \subseteq CertIds /\ Listed' \subseteq CertIds
  BY StaticAssumption DEF Present, Listed, StateType
<1>1. ASSUME sched' = sched, used \subseteq used', Dead \subseteq Dead'
      PROVE  Contract!Change
  BY <1>0, <1>1 DEF Contract!Change, Spent, Listed
<1>2. ASSUME NEW r \in Clients, Commit(r) PROVE Contract!Change
  <2>1. sched' = sched /\ used \subseteq used'
    BY <1>2, CommitShape, CommitTyped
  <2>2. Dead \subseteq Dead'
    BY <1>0, <1>2, <2>1, CommitLeavesGone
  <2> QED
    BY <1>1, <2>1, <2>2
<1>3. ASSUME NEW r \in Clients, Arrive(r) \/ Check(r) \/ Save(r), ~Reload(r)
      PROVE  Contract!Change
  <2>1. sched' = sched
    BY <1>3 DEF Arrive, Check, Authenticate, Deny, CheckTeams, CheckCerts, Save,
       OpenFile, WriteFile, SaveFails, ReloadPanics
  <2> QED
    BY <1>1, <1>3, <2>1, OthersKeepState
<1>4. ASSUME sched' = state'.certs, used' = used, state' = state
      PROVE  Contract!Change
  <2>1. \A c \in CertIds : c \in Listed' <=> state.certs[c] # None
    BY <1>4 DEF Listed
  <2>2. Listed \subseteq Spent' /\ Dead' = Dead
    BY <1>0, <1>4, <2>1 DEF Spent
  <2> QED
    BY <1>0, <1>4, <2>1, <2>2 DEF Contract!Change, Spent
<1>5. ASSUME NEW r \in Clients, Reload(r) PROVE Contract!Change
  BY <1>4, <1>5 DEF Reload
<1>6. CASE Restart
  <2>1. /\ sched' = state'.certs /\ state' = Loaded /\ used' = used
    BY <1>6 DEF Restart, StartedWith
  <2>2. \A c \in CertIds : c \in Listed' <=> state'.certs[c] # None
    BY <2>1 DEF Listed
  <2>3. \A c \in CertIds \cap used : c \in Spent'
    BY <1>0, <2>1, <2>2 DEF Spent
  <2>4. Spent \cup Listed' \subseteq Spent' /\ Spent' \subseteq CertIds
    BY <1>0, <2>3 DEF Spent
  <2>5. CASE disk = Torn
    BY <1>0, <2>1, <2>2, <2>4, <2>5 DEF Contract!Change, Loaded, NoState
  <2>6. CASE disk # Torn /\ \A r \in Clients : pc[r] # "reload"
    <3>1. Listed' = Listed
      BY <2>1, <2>6 DEF Listed, Loaded
    <3> QED
      BY <1>0, <2>4, <3>1 DEF Contract!Change
  <2>7. CASE \E r \in Clients : pc[r] = "reload"
    <3>1. disk = state /\ state' = state
      BY <2>1, <2>7, NoneAssumption DEF Synced, SavedBeforeReload, Loaded
    <3> QED
      BY <1>4, <2>1, <3>1
  <2> QED
    BY <2>5, <2>6, <2>7
<1>7. CASE UNCHANGED vars
  BY <1>7 DEF vars, Listed, Spent, Present
<1> QED
  BY <1>2, <1>3, <1>5, <1>6, <1>7 DEF Next

(* With a scheduler, the API implements CertificateList: what it hands to  *)
(* ReloadConfig never brings back an id that the scheduler has dropped,    *)
(* over failed saves, later saves that publish them, and restarts.         *)
THEOREM ContractKept == "email" \notin Faults => (Spec => KeepsContract)
<1> SUFFICES ASSUME "email" \notin Faults PROVE Spec => KeepsContract
  OBVIOUS
<1> DEFINE Inv == Typed /\ Synced /\ ListFollowsDisk
<1>1. Init => Inv
  BY TypedInit, SyncedInit, FollowsInit
<1>2. Inv /\ [Next]_vars => Inv'
  BY TypedStep, SyncedStep, FollowsStep
<1>3. Init => Contract!Init
  BY FollowsInit DEF Contract!Init, ListFollowsDisk, Init, Spent, Listed
<1>4. Inv /\ Inv' /\ [Next]_vars => [Contract!Change]_<<Listed, Spent>>
  BY StepKeepsContract
<1> QED
  BY <1>1, <1>2, <1>3, <1>4, PTL DEF Spec, KeepsContract, Contract!Spec
=============================================================================
