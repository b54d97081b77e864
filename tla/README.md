# Certer in TLA+

Certer orders X.509 certificates from an ACME authority, renews them in the
background, keeps them as PEM files and serves them, with a configuration API
for certificates, API keys and teams. This directory holds TLA+ models of the
parts whose correctness depends on the order of events, the TLC runs that check
them on small instances, and theorems about them that TLAPS proves for every
instance. Paths below are relative to `src/`.

## 1. Inventory

| Component | State | Operations | Works with |
|---|---|---|---|
| Scheduler, `internal/app/cert/scheduler.go` | the list of certificates (under its own mutex); per pass: a copy of the list, a directory listing | `Start`, `CheckAndRenew`, `needsRenewal`, `cleanupUnusedCertificates`, `ReloadConfig` | calls the issuer; shares the PEM files with every other pass and with all readers; is called by the API |
| Issuer, `issuer.go`, `user.go` | none of its own; writes `<id>.crt`, `<id>.key` | `Issue`, `saveCertificates` | lego and the ACME authority; the storage directory |
| Configuration API, `internal/app/api/*_handler.go`, `helpers.go` | `Config.State` under `Server.mu` | POST, PUT, DELETE of certificates, keys, teams; lists of them | the state file, the scheduler |
| Authentication, `server.go`, `auth.go` | none (reads the keys) | `Authenticate`, `resolveToken` | hands a copy of the key's scope to the handler |
| Configuration, `internal/app/config/config.go` | static configuration, dynamic state, the state file | `Load`, `SaveState`, `Save` | start-up; every change made by the API |
| Retrieval and status, `certs_handler.go` | none (reads files) | certificates with keys, raw files, status | the PEM files, while passes write them |
| HTTPS certificate, `cmd/server/tls.go` | the self-signed fallback | `GetCertificate` at each handshake | the PEM files |
| Process, `cmd/server/main.go` | servers, context, signals | start, shutdown with a time limit | all of the above |
| Audit tool, `cmd/audit` | none | four GET requests, a report | the API, as a client |
| Key generator, `cmd/keygen`; `fetch-certs.sh` | none | print a token and its hash; download files | the API, as a client |

What makes each of them correct:

- Scheduler: what it finds valid is usable; it orders only when needed; every
  configured certificate ends up as configured; files of deleted
  configurations go, files of configured ones stay.
- Issuer: the two files of an id belong together.
- Configuration API: references between resources hold; memory, state file and
  scheduler agree; a confined admin stays confined; every request is answered.
- Configuration: what was saved is there after a restart.
- Readers (retrieval, HTTPS): an identifier denotes the right certificate; what
  is served is a pair that was issued, or a refusal.
- Process: a start fills in what is missing and loses nothing it could read; a
  stop keeps what was changed.
- Audit tool: four lists fetched one after the other give one picture.

What is hard about them, and hard to test: passes overlap without any
exclusion; the two PEM files are written one after the other, each truncated
before it is filled; a pass works on a copy of the list that may be out of
date; requests validate in one critical section and commit in another; a save
may fail after the change was made in memory; the process may end between any
two file system calls, and a normal shutdown does not wait for passes. The full
list, with the line where each one bites and the properties that cover it, is
under `hazards` in `PROJECT.json`.

## 2. Modules

| Module | Contents |
|---|---|
| `CertificateList` | abstract: what the scheduler may rely on in the lists it is handed |
| `Renewal`, `RenewalProof` | scheduler, issuer and storage directory |
| `ControlPlane`, `ControlPlaneProof` | configuration API, lock, state file, restart |
| `Serving`, `ServingProof` | those who read the PEM files, composed with `Renewal` |
| `CertLookup`, `CertLookupProof` | which certificate an identifier denotes |
| `Lifecycle`, `LifecycleProof` | start, configuration and state file, shutdown, one life after another |
| `Audit`, `AuditProof` | the audit tool, composed with `ControlPlane` |
| `Certer`, `CerterProof` | the whole process: `ControlPlane` and `Renewal` side by side |
| `MCRenewal`, `MCControlPlane`, `MCServing`, `MCCertLookup`, `MCLifecycle`, `MCAudit`, `MCCerter` | the small instances for TLC |

How they hang together. `CertificateList` is the interface between API and
scheduler: an id that has left the list never comes back. `ControlPlane`
implements it (`KeepsContract`, a refinement mapping), `ReloadConfig` of
`Renewal` takes any step it allows, and the safety of the cleanup rests on it.
`Certer` puts the two concrete modules together in place of that argument: the
reload of a request hands its list to the scheduler under the lock, and both
lose their locals at a restart; that each then behaves as its own module says
is a theorem. `Serving` and `Audit` extend `Renewal` and `ControlPlane` with an observer: the
steps of the extended module are steps of the composed one, and the observer
changes none of its variables, so its theorems carry over. `Lifecycle` sees
requests and passes from outside and composes the start of the process with
both: what Load returns decides what the first cleanup removes.

Definitions whose comment begins with "Mutant" are deliberate mistakes, one or
two lines each. Replacing the definition that follows one by it must break the
property it is listed with in `PROJECT.json`. They are used nowhere else.

### Renewal

A *pass* is one run of `CheckAndRenew`. The passes of `Start` are one process
(`Loop`), each pass that `ReloadConfig` starts is another (`Reloads`).

| Variable | Code |
|---|---|
| `certificates` | `Scheduler.certificates`, as a function from id to its domains |
| `crt`, `key` | the files `<id>.crt` and `<id>.key`: `Absent`, `Torn` (truncated or partly written) or their content |
| `expiring` | the certificates for which `timeToExpiry < threshold` |
| `pc`, `left`, `cur`, `held`, `listing` | the locals of a pass: the rest of its copy `certs`, the current `cc`, the certificate read or obtained, `files` |
| `linked` | whether the file `os.WriteFile` has open still has its name |
| `used` | ids ever configured; an id is a UUID and is given out once |
| `frayed`, `outrun` | history, for the statements of properties only: ids whose last save was overlapped or interrupted; passes that were deciding on an id when another pass wrote one of its files |

Every system call on a file is an action, and `os.WriteFile` is two (`OpenCrt`
and `WriteCrt`, `OpenKey` and `WriteKey`). `ReadCrt`, then `KeepCrt` or
`RejectCrt`, are `needsRenewal`; `Issue` or `IssueFails` the order; `ListDir`,
`ReadConfigured`, `RemoveFile`, `EndPass` the cleanup. `Tick` is the ticker,
`ReloadConfig` the call from the API with a changed list (`TakeList` is the code
of the function, `Contract` what its caller keeps to), `Age` the time that
passes, `Restart` the end of the process at any moment and its next start.

A list of domains is a multiset, a function to `Nat`: `domainsMatch` sorts both
lists and compares them, which is equality of multisets. `Granted` is what the
authority does with an order: each name once.

`OrdersNeeded` says when an order is superfluous: the files already satisfy the
configuration of this moment. It has two exceptions. The pass works
through a copy of the list and the copy has gone stale (`left`); or another pass
wrote the files after this one had read them (`outrun`): two passes find the
same certificate missing and both order it. `AtRest` is the state in which all
files and all passes agree with the configuration; `RestLasts` says that the
passes then change nothing any more, and `Settles` that they get there.

### ControlPlane

| Variable | Code |
|---|---|
| `state` | `Config.State`: certificates (team), keys (admin, teams, certificates), teams |
| `disk` | the state file, `Torn` when it does not parse |
| `sched` | the dynamic part of the list the scheduler was given last; `None` in a process without `ACME_EMAIL`, which has no scheduler |
| `lock` | the writer that holds `Server.mu` |
| `pc`, `req`, `scope` | each request: how far it is, what it asks, the allowed teams it was authenticated with |
| `used` | ids ever generated |
| `behind`, `raced` | history: the last save failed; teams deleted while a request that names them, and had found them, was under way |

A request goes through `Arrive`, `Authenticate` (or `Deny`), `CheckTeams`,
`CheckCerts`, its own handler action (`PostCert` ... `DelTeam`, or `Refuse`),
`OpenFile`, `WriteFile` (or `SaveFails`) and `Reload`. A section of the code
under the read lock is one step that needs `lock = None`. The handler actions
take the lock; `Reload`, or the error path, gives it back. `Restart` ends the
process and loads the file.

`ReloadPanics` is `Reload` in a process without `ACME_EMAIL`: `main` passes a
nil `*cert.Scheduler` as a `ConfigReloader`, the interface is not nil, the call
panics under the lock and `net/http` recovers the panic.

`LockFollowed` ties the lock to the control state of the requests: the code
unlocks by hand on each path. `StaysInScope` compares the state before and
after a commit with the scope of the request that commits, whatever has been
moved to another team since the request was authenticated; `Confined` is about
what all requests together can lead to, when no static key is root's.

### Certer

`Certer` extends `ControlPlane` and instantiates `Renewal` with `stage` for its
`pc`, `configured` for its `used` and `Mishaps` for its `Faults`. `APIStep` is
any step of a request short of its reload, `HandOver` the reload
(`saveAndReloadLocked` calls `ReloadConfig` with `AllCertificates`), `Pass` any
step of a pass or the clock, `ProcessRestart` the end of both and the next
start. Certificates of `ControlPlane` have no domains, so a reload hands over
the ids the API has, static and dynamic, each with any list of domains.
The process has an e-mail address; one that has none has no passes.

`FilesFollowAPI` speaks of the list of the *API*, not of the scheduler's: in
between lie requests that are not saved yet, failed saves that the scheduler
never hears of, and restarts that bring an older list back.

### Serving

| Variable | Code |
|---|---|
| `question`, `about` | which reader, and the id it reads |
| `stage` | the system call it is about to make |
| `seen` | what it found in the two files, `None` where it has not looked |
| `disturbed` | history: a save of the id was under way, or a file changed, since the question |

Four readers: `list` (`handleGetCertificates`), `raw` (a client that fetches the
key and then the certificate, `handleGetRawFile` twice), `status`
(`buildCertificateStatus`) and `handshake` (`GetCertificate` in `tls.go`). Each
call is a step, and the steps of `Renewal` come in between. `Issued`, `Healthy`
and `Presented` are what the three answers say as functions of what was seen.
The properties speak of reads that nothing has disturbed, on files that are not
`frayed`: there they are exact, and what they exclude is what the code cannot
promise without a lock or a rename.

### CertLookup

| Variable | Code |
|---|---|
| `key`, `identifier` | the key of the caller, the path value |
| `certs`, `filtered` | the copy of `AllCertificates`, and the slice `accessibleCertificates` makes of it |
| `n`, `pc` | the loop variable, and which of the two loops it is in |
| `bestMatch`, `bestMatchIsPrimary` | the two locals of `findCertificateByIdentifier` |

A name is the sequence of its labels, so `matchesWildcard`, which compares
suffixes and counts dots, becomes: same length, same tail. Ids are names too,
because an identifier may be either, and `Rank` is the byte order in which
`cc.ID > bestMatch.ID` compares them. `Denoted` is the reference: by id, else
the newest by primary domain, else the newest by SAN.

### Lifecycle

| Variable | Code |
|---|---|
| `file` | the state file: `Missing`, `Torn` (does not parse) or a state |
| `settings`, `env` | what `Load` made of `config.json` and the environment; the environment itself |
| `state`, `save` | `Config.State`; how far `SaveState` is |
| `main` | where `main` is: reading, filling in ids, saving, serving, draining one server, then the other |
| `request`, `locked` | the server with a change under way; whether a panic has left `Server.mu` locked |
| `sched`, `stored` | ids of dynamic certificates the scheduler knows; ids with files in the storage directory |
| `used` | ids ever generated |
| `saved`, `deleted`, `behind`, `lost` | history, see the module |

`Boot` is `mergeFromJSON`, `applyEnvOverrides` and `validateStaticIDs`,
`ReadState` and `CompleteState` the rest of `Load`. A resource is its id and its
team; which resource it is (a domain, a token) is its entry. `Accept`, `Add`,
`Delete`, `Refuse` stand for the handlers, `Issue` and `CleanUp` for a pass,
`Signal` ... `Timeout` for the goroutine that shuts down.

### Audit

| Variable | Code |
|---|---|
| `token` | the token of the auditor |
| `list` | which of the four lists is being fetched |
| `caller` | the key the request under way has authenticated with |
| `data` | `AuditData` |
| `changed` | history: ids that differ from what they were when the audit began |

`LogIn` is `Authenticate` for one request, `FetchTeams` ... `FetchStatuses` the
read-locked section of its handler and the answer, `Exit` the end of `runAudit`
with or without a report. `Rows` and `Unavailable` are the join by id in
`render_html.go`.

## 3. Runs

| Run | Checks | Instance |
|---|---|---|
| `Overlap` | `TypeOK`, `PairsIntact`, `CleanupSparesConfigured`, `OrdersNeeded`, `RestLasts` | one id, two lists of domains, the loop and one reload pass, all faults |
| `Settling` | `Settles`, `Converges`, `UnusedFilesGo` under `FairSpec` | one id, two lists, the loop and one reload pass, no faults |
| `References` | `TypeOK`, `DanglesOnlyIfRaced`, `LockFollowed` | two requests, all nine handlers, one certificate, key and team, failed saves, restarts with and without `ACME_EMAIL` |
| `Concurrent` | `InSync`, `NoRevival`, `KeepsContract`, `Answered` under `FairSpec` | two requests that create and delete certificates and create, change and delete keys; two certificates and a key, failed saves and restarts |
| `Audit` | `AuditTypeOK`, `Confined`, `ReportConfined`, `UnavailableMeansChanged`, `StaysInScope` | two requests and an auditor; a static admin of two teams, bodies that reach for more, a static and a dynamic certificate; the auditor's key is the dynamic one, which others change and delete |
| `Serving` | `ServingTypeOK`, `IssuedIsAPair`, `StatusIsRight`, `HandshakeServes` | one id, the loop and one reload pass, restarts, all four readers |
| `Lookup` | `TypeOK`, `RightCertificate` | all lists of up to three out of eighteen certificates: three ids, one of which is also a domain, three sets of domains with a wildcard, two teams; three keys, six identifiers |
| `Lifecycle` | `TypeOK`, `Complete`, `IdsStick`, `RemovedForAReason`, `UnreadUntouched`, `StopKeeps`, `PanicIsFromEnv` | a certificate and a key, three ids, one static certificate; three files `config.json`, one without an id, and three environments; all faults |
| `Whole` | `FilesFollowAPI`, `SchedulerAsModelled` (a refinement: `Renewal!Spec`) | API and scheduler in one process; one request at a time that creates or deletes the one certificate, failed saves, restarts; the loop and one reload pass with all their faults |

Bounds. One id is enough for the races of `Overlap`, `Settling` and `Serving`,
which are all about two passes, a reader and one pair of files; entries of
different ids meet only in the lists a pass copies and in the directory listing,
and the theorems hold for any set of ids and passes. Two lists of domains
give every kind of edit: widening, narrowing, and back. `Keys` holds enough that
`Issue` always finds a fresh one: at most two are on disk for an id and one is
in the hands of each pass; in `Serving` and `Whole`, with three, an order waits in the few
states where all are in use. `Serving` leaves failures out because an
interrupted save, which a restart gives too, leaves the same files. A fresh id
can be created once per id in the constants, so a run creates as many resources
as it has ids, and edits and deletes them without limit. `Whole` needs
one certificate that comes, goes and comes back after a failed save or a
restart, and a pass with a listing from before; a reload waits until the one
reload pass has ended, which leaves the loop to be the stale one. In
`ControlPlane` two requests give every race between a check and a commit. `Lifecycle` needs an id
for each of two entries and one for the case that an id is generated twice
because the save of the first failed; intervals are negative, zero, or positive
and not too long. Three certificates are what the loop of `CertLookup` needs:
one to be the best match, one to supersede it, one to come between. `Keys` of
`Renewal`, `Clients` and `Ids` of `Lifecycle` are symmetry sets in safety runs
where none of them is named; runs with liveness properties use no symmetry.

Fairness. `Renewal`: the ticker fires, and a pass that can take a step takes
one, whether it succeeds or fails; passes are goroutines and wait for nothing
but the file system and the authority, whose calls end. The liveness properties
say what happens once things are `Quiet`: no more changes, failures, ageing or
restarts. `ControlPlane`: a request that holds the lock goes on (weak fairness),
and one that waits for the lock gets it if the lock is released again and again
(strong fairness), which `sync.RWMutex` ensures: a waiting writer keeps new
readers out, and readers that waited go first when it unlocks. No run switches
off the check for deadlock except `NoScheduler`, where the deadlock is what the
run is about.

Runs that must fail, each one a place where the code does not do what a text in
the repository says:

| Run | Refutes | What happens |
|---|---|---|
| `OverlapPair` | scheduler.go:98 "Certificate is valid and configuration matches. No action required." | two passes interleave the four writes of one pair; the mismatched pair is kept |
| `DanglingTeam` | openapi.json:1080 "Fails if the team is still referenced ..." | a team is deleted between the check and the commit of a new certificate; `DanglesOnlyIfRaced` shows that this is the only way |
| `NoScheduler` | server.go:212 "Reload scheduler (if present)" | the first change leaves the lock held for ever |

Weaknesses the models show without a run of their own, because no text in the
repository promises otherwise or the same property already has a run:

- A list that repeats a name, which no handler refuses, is renewed on every
  pass: `Granted` has the name once, so `domainsMatch` never holds. With such a
  list in `DomainLists` `Converges` fails, against README.md:90 "triggering
  renewals only when needed".
- Without the exception for `outrun`, `OrdersNeeded` fails with a reload pass:
  two passes find the same certificate missing and both order it.
- With `"restart"` and no reload pass `NoActionMeansUsable` fails as well: the
  process ends between the certificate and its key, and the next process keeps
  the pair.
- Without the exception for `disturbed` and `frayed`, the three properties of
  `Serving` fail: an answer may say issued with an empty key, a status may be
  good for a pair that no server can load.
- A crash while the state file is truncated starts with an empty state: every
  dynamic certificate, key and team is gone (`lost`), and the first cleanup
  removes their files. `UnreadUntouched` is what saves a file that merely could
  not be read, until the first change through the API overwrites it.
- An id that was generated at the start and could not be saved is another one
  after the next start; what was stored under the first is then removed.
- `README.md:487` says that the PEM files of a deleted configuration are kept;
  `UnusedFilesGo` shows that the cleanup removes them, as `openapi.json:768`
  announces.

## 4. Theorems

The proofs assume what the modules assume: the sentinels (`None`, `Absent`,
`Torn`) differ from proper values, `Loop` is not one of `Reloads`, static
resources and bodies have the right form, and dynamic ids of one kind are not
ids of another or of static resources. Nothing is assumed of the number of ids,
passes, keys or requests, or of which faults happen, except where a theorem says
so.

Liveness aside, every property of a passing run is a theorem.

`RenewalProof`

- `TypeCorrect`: `TypeOK`, with `WorkOK`: a pass that works on an id has its
  domains, and one that saves holds a certificate. `WorkOK` is what makes the
  types inductive: the content of a file is what a pass holds.
- `CleanupSafe`: `CleanupSparesConfigured`. A pass about to remove has only
  entries of ids that are not configured (`ListingsOnce`). That survives
  changes of the list because such an id has been configured before and is
  never given out again; so the invariant (`Once`) says that every id named by
  a file, a pass or a listing is in `used`. The order of the two reads in the
  cleanup is what establishes it.
- `PairsStayIntact`: `PairsIntact`, with `SavesApart` (two saves of one id at
  once fray it) and `SavesInOrder` (a save that nothing has overlapped has its
  own certificate, or none, on disk when it comes to the key; a file removed
  under it stays absent).
- `OnlyNeededOrders`: `OrdersNeeded`. `Justified` says of each pass that has not
  been overtaken: if the files satisfy the list it works on, then it has not
  decided to order, and the certificate in its hands is the one on disk. What
  can spoil the decision of a pass from outside is a write, which `outrun`
  records, or the key file coming back, which `OpenKeysExist` excludes: a key
  file that a pass has open under its name is there already.
- `LoneOrdersNeeded`: where no reload pass runs the exceptions are empty
  (`Alone`), and no certificate is ever ordered for an id that is in order.
- `RestIsLasting`: `RestLasts`; every action that a pass at rest can take leaves
  it at rest. `RestSuffices`: hence `Converges` and `UnusedFilesGo` follow from
  `Settles`, and all of both that is only model-checked is that rest is reached.

`ControlPlaneProof`

- `TypeCorrect`: `TypeOK`, which includes that every resource has an id the
  server generated; the state file must satisfy the same (`DiskTyped`), since a
  restart brings it back.
- `StaysInSync`: `InSync`, and `LockIsFollowed`: `LockFollowed`; together with
  `SavedBeforeReload` they are inductive (`Synced`).
- `ChangesStayInScope`: `StaysInScope`. Only a commit takes the lock
  (`TakesLock`), and a request that commits was admitted with the scope it
  carries (`Carried`); what the commit looks up under the lock does the rest
  (`CommitInScope`, one case for each handler).
- `StaysConfined`: `Confined`. The invariant `Fenced` says that the state and
  the state file are inside the delegated teams and that every request under
  way carries a non-empty scope inside them and has been admitted with it. It
  does not ask that its key still exist: that is why the copy of the scope
  taken at authentication does no harm.
- `ReferencesHold`: `DanglesOnlyIfRaced`. The references must hold in the state
  file as well, for a restart, and a request past its checks names only teams
  that are there or are already counted as raced (`ChecksHold`).
- `NeverRevived`: `NoRevival`. Every certificate id that a key allows has been
  given out (`Allowed`), in memory, on disk and in requests past their checks;
  a new certificate takes an id that has not.
- `ContractKept`: `Spec => Contract!Spec`, the refinement, for processes that
  have a scheduler (`"email" \notin Faults`). The list of the scheduler follows
  the file (`ListFollowsDisk`), and every step of `ControlPlane` is a step or a
  stutter of `CertificateList`. Processes with and without a scheduler in turn
  are not covered: the API of one without does not get past its first change.

`CerterProof` builds on `ControlPlaneProof`. Every step of `Certer` is a step or
a stutter of `ControlPlane` (`APIIsAsModelled`), so `Synced` and
`ListFollowsDisk` hold in it. `ListHanded` says that the scheduler has the ids
it was handed and that every id it was ever given is static, or listed, or gone
for good (`Spent`); since the API implements `CertificateList`, a new list is
one that `ReloadConfig` may take (`TakesContract`), and every step is a step or
a stutter of `Renewal` (`SchedulerIsAsModelled`). `FilesStay` is
`FilesFollowAPI`: a file goes only where a pass removes it, of an id the
scheduler was given and has dropped (`OnlyDroppedGo`), and with `ListHanded`
such an id is not one the API lists (`DroppedNotListed`). The invariants on
files and passes are those of `RenewalProof`, proved again for the instance
because theorems of an instantiated module cannot be cited here. The theorems
are for processes that have a scheduler (`EmailAssumption`).

`ServingProof` builds on `RenewalProof`, which `ReadersDoNotDisturb`
(`ServingSpec => Spec`) carries over to it. `SeenIsThere`: while nothing has
disturbed the read, what was seen is what is there; with `PairsStayIntact` this
gives `AnswersArePairs`, `StatusTellsTheTruth` and `HandshakesServe`;
`ReaderTypeCorrect` is the type invariant.

`CertLookupProof`: `LookupIsRight`, for lists of every length. The invariant of
the second loop (`BestOf`) says of the elements passed that none has the
identifier as id, and that the best match is the newest by primary domain, or
else by SAN, or that there is none; the first loop leaves exactly what the
caller may access (`FilteredOK`). `TypeCorrect` keeps both indices in range.

`LifecycleProof`: one inductive invariant, `LifeInv`. `IdsOK`: the file is torn
or what was last saved, and no id is given out twice. `Synced`: file and state
agree between saves unless `behind`. `AllKept`: every resource of the last saved
state has kept its id or was deleted. `SchedulerKnows`: the scheduler knows every
saved certificate that was not deleted. From it `StartsComplete`,
`SavedIdsStick`, `NothingRemovedByChance`, `UnreadStaysUntouched`,
`CleanStopKeeps`, `PanicsOnlyFromEnv` and `TypeCorrect`.

`AuditProof` builds on `ControlPlaneProof` (`Fenced`), carried over by
`AuditorsOnlyRead` (`AuditSpec => Spec`). `CallerOK` relates the
copy of the key a request runs with to the key of the token, `Promoted` says
that an audit past its first list belongs to an admin, `RowsHold` that a row
agrees with the state as far as nothing has changed. From these
`StatusesComplete` and `ReportsConfined`; `AuditTypeCorrect` is the type
invariant.

Only model-checked: the liveness properties (`Settles`, `Converges`,
`UnusedFilesGo`, `Answered`), whose fairness is out of the prover's reach; of
`Converges` and `UnusedFilesGo` all but `Settles` is proved.

## 5. Abstractions

- A torn file never parses. A certificate file cut behind its first PEM block
  would parse and be kept; the model does not produce it. A state file that is
  valid JSON of the wrong shape would be taken over in part; in the model it
  does not parse.
- A PEM file that cannot be read counts as absent, as in `needsRenewal`.
- ACME accounts, challenges, DNS providers and their serialisation are inside
  `Issue` and `IssueFails`. Two passes that need the HTTP-01 port at once is one
  of the reasons for `IssueFails`.
- `Restart` of `Renewal` begins with any list; which one it may be is the
  subject of `Lifecycle`.
- In `Serving` a certificate does not expire altogether: "warning" and "ok" are
  one answer. In `Audit` a status is there or not; what it says is `Serving`.
- In `Lifecycle` requests that only read are left out, also for the shutdown,
  which waits for them as well; `Server.mu` lets one change at a time proceed,
  and the next is accepted when the last one is answered.
- Of the static settings `Lifecycle` keeps the certificates, the e-mail address
  and the interval. Paths, ports, addresses, resolvers and EAB credentials are
  passed on unchanged.
- Names, descriptions, tokens, hashing, logging and the wording of answers are
  left out. Requests that name static resources are turned away by
  `checkStatic` and leave no trace; they are left out too.
- `cert_storage_dir` is never empty: it has a default, and an empty value does
  not replace it.
- Static and dynamic ids differ, although `Load` does not compare them.

## 6. Not modelled

- `cmd/keygen` and `fetch-certs.sh`: one-shot programs without state.
- Options, addresses, sample data and the three output formats of the audit
  tool: input and output of a sequential program, which its tests cover.
- Argon2id in `auth.go`, ACME accounts in `user.go`, the construction of lego
  clients and DNS providers in `issuer.go`, the fallback certificate in
  `tls.go`: calls of libraries whose outcome the models have as success or
  failure.
- `handleHealth`, `handleHello`, `defaultACMEURL`: constants.
- A renewal threshold beyond the lifetime of a certificate: see the hazards.

## 7. What could come next

1. Time: the threshold and the interval as numbers, with a certificate that may
   expire while orders fail.
2. The readers of `Serving` in `Certer`, and lives of a process without a
   scheduler between lives with one.
3. The serialisation of environment variables by `syncProvider` in the issuer.
4. A proof of `TeamsExist` for requests that do not overlap.
