# Verification of linuxcncsetup

TLA+ models, TLC runs and TLAPS proofs for the programs of this repository.
Paths are relative to the repository (`src/` here), line numbers are those of
the commit beside this directory. `PROJECT.json` holds the index: which
definition models which lines, which run checks which property, which mutant
breaks it, which hazard it is for.

## 1. The system

The repository holds three programs and the scripts that came before them.

**remoteterminal** is a Go daemon that serves terminals and editors to a
browser.

| component | state | operations | interacts with |
|---|---|---|---|
| code-server manager (`internal/codeservers/manager.go`) | record per instance (`instances`: phase, transition channel, last verification), cached reverse proxies, shutdown flags; two locks `mu`, `commandMu` | Create, Delete, List, Proxy, Shutdown, Initialize | private tmux server (commands that fail, sessions that exit by themselves), runtime directories, profiles on disk |
| reverse proxy of an instance (`internal/codeservers/proxy.go`) | transport per instance | header and cookie rewriting | code-server's Unix socket |
| session manager (`internal/sessions/manager.go`) | ttyd child per session, shutdown flag, one mutex | List, Create, Delete, Connect, Proxy, TakeLatestSelection, DiscardSelections, Shutdown, the `waitProcess` goroutine of each child | tmux server, ttyd children, sockets, tmux paste buffers |
| authentication (`internal/auth`) | login sessions, failure counters | Login, Authenticate, Logout | PAM |
| HTTP server and connections (`internal/httpapi`) | tracked websocket connections per session | routes, close-on-logout, drain | the managers |
| configuration, `cmd/remoteterminal` | none / start and stop order | load; Initialize, serve, shut down | everything above |

**websetupmanager** is a Go daemon with a SQLite catalogue of machine setups
and a managed directory of files.

| component | state | operations | interacts with |
|---|---|---|---|
| catalogue (`internal/service/catalog.go`) | folder, setup and file rows with revisions; the operation journal | create, rename, move, delete of folders, setups and files, upload of file contents | storage, database, idempotency claims |
| crash recovery (`internal/service/catalog_recovery.go`, `recovery.go`) | the journal | replays or undoes unfinished operations at start | storage, database |
| idempotency claims (`internal/service/idempotency.go`) | claim per key: in progress, completed, failed | claim, replay, finish, expire | every mutation |
| jobs and upload jobs (`jobs.go`, `upload_jobs.go`) | job rows, running goroutines, cancel signals | submit, run, cancel, finish, close | artifacts, imports |
| artifacts and garbage collection (`artifacts.go`, `reconcile.go`) | content-addressed objects with reference counts | import, release, collect, reconcile | storage |
| legacy setups, imports, duplicates, validation (`setups.go`, `state.go`, `imports.go`, `duplicate.go`, `validation.go`) | setup versions, activation state | the operations of the older API | jobs, artifacts |
| storage (`internal/storage`) | directory trees, quarantine and preparation areas | publish, move, quarantine, recover | file system |
| database (`internal/database`) | schema version, file lock, backups | open, migrate, back up, recover | SQLite |
| domain (`internal/domain`) | none | names, revisions, G-code parsing | |
| HTTP API, authentication, configuration, `cmd/websetupmanager` | login sessions, request state | routes, limits, start and stop order | the service |
| web clients (`websetupmanager/web`, `remoteterminal/web`) | view, CSRF token, journal of unfinished logins shared by the tabs; workspace, G-code cache | load, login, work, logout in every tab | the HTTP APIs |

**tui** is a Bubble Tea terminal program (`tui/internal/ui`): menus, probes of
interrupts and mounts, an Ansible runner; embedded playbooks. `setup.py`, the
shell scripts, `old/` and `totest/` predate it.

Hard behaviours. In remoteterminal: request goroutines interleave around two
locks and around external processes that appear, fail and disappear on their
own; a stop is carried out with no lock held; a shutdown begins while launches
are under way; the daemon dies and leaves sessions behind. In websetupmanager:
a mutation touches a directory tree and a database that cannot commit
together, a crash may come between any two steps, a client retries with the
same key, jobs are cancelled while they finish, an object is collected while
somebody is about to reference it.

What makes each component correct, and is stated where it is modelled:
no process runs untracked, the limits hold, nobody waits for ever, a shutdown
is final (managers); catalogue and directory agree after every completed or
recovered operation, a retried key takes effect once (catalogue, recovery,
claims); a terminal job never changes again (jobs); a referenced object is
never removed (garbage collection).


## 2. Plan

The most important behaviour first: processes and files that must not be lost.

| order | modules | about | state |
|---|---|---|---|
| 1 | `CodeServers`; proofs in `CodeServersProofs` | editor instances: transitions, limit, shutdown, restart | modelled, checked, safety proved |
| 2 | `Sessions`; proofs in `SessionsProofs` | terminals, sockets, selections | modelled, checked, safety proved |
| 3 | `CatalogFiles`, abstract `CatalogAtomic`; proofs in `CatalogFilesProofs` | files of the catalogue: journal, crash recovery, idempotency | modelled, checked, safety and refinement proved |
| 4 | `CatalogTree` | folders and setups: creation, moves, deletions with their journal rows; readers of the tree | modelled, checked |
| 5 | `Jobs`; proofs in `JobsProofs` | jobs and upload jobs: states, cancellation, replay, closing | modelled, checked, safety proved |
| 6 | `ObjectStore`, `Artifacts`, `Imports`, composed in `Library`; proofs in `LibraryProofs` | content-addressed objects and everything that refers to them | modelled, checked, safety proved |
| 7 | `Setups`; proofs in `SetupsProofs` | status and revision of setups, what names them, changes of their files from outside | modelled, checked, safety proved |
| 8 | `Logins`; proofs in `LoginsProofs` | sessions and tracked connections of remoteterminal, persistence | modelled, checked, safety proved |
| 9 | `BrowserLogins`; proofs in `BrowserLoginsProofs` | sessions of websetupmanager with two tabs of one browser | modelled, checked, safety proved |

Proofs done: the safety of `CodeServers`, `Sessions`, `Jobs`, `Setups`,
`Library`, `Logins`, `BrowserLogins` and `CatalogFiles`, and the refinement of
`CatalogAtomic`. Next: `CatalogTree`, which declares no RECURSIVE operator.
Liveness stays with TLC.

Left to model: the copy of a legacy directory into the catalogue at the first
start (`catalog_legacy.go`), the expiry of a claim after 24 hours, and the
composition of `CatalogTree` with `CatalogFiles` (they share the directory, the
journal and the lock; each is checked with the other's rows absent).

Runs stay below a few minutes. Where a module has many operations, a constant
`Plans` names the situations of the run: which requests come together, on which
data, and how many failures, ends of the process or changes from outside happen.
A plan is a bound; every interleaving of what it names is explored.
## 3. The code-server manager

`CodeServers.tla` models `remoteterminal/internal/codeservers/manager.go`.

**State.** `instances` is `m.instances`; a `managedInstance` is a heap object
that outlives its place in the map, because a goroutine that waits or works on
it keeps the pointer. So `rec[i][g]` holds the successive objects `g` of an id
`i`, and `instances[i]` says which of them the map holds (0: none). In a record,
`open` and `epoch` stand for `transition`: open is "non-nil and not closed",
the epoch distinguishes the channel of one transition from the channel of the
next; `fresh` is "verified less than `proxyVerifyInterval` ago". `pc` and the
six functions `folder`, `target`, `held`, `channel`, `seen`, `ownErr` are the
position and the locals of each request goroutine. Outside the daemon there are
the tmux sessions (`live`, and `tagged`: those that a list shows), and the
runtime directories (`dirs`). `folderOf`, `acked`, `faults`, `crashes` are
history and bounds.

**Atomicity.** A section under `mu` contains no call that blocks, so it is one
action together with the code around it up to the next lock, channel or
command. `commandMu` is held over several tmux commands, so it is a variable,
and every command under it is an action of its own. `Delete` runs `stopSession`
with no lock at all (`StopSession`), as the code does.

**Faults.** Each tmux command, and each disk step whose failure is handled, may
fail while `faults < MaxFaults`. A failing kill may or may not have killed; a
failing `new-session` may or may not have created the session, and the probe
that follows may fail as well. Sessions exit by themselves at any time. `Crash`
drops the memory and keeps sessions and directories; `Initialize` is the next
start.

**Bounds and their meaning.** `MaxServers` is the configuration value.
`MaxFaults` and `MaxCrashes` bound the failures of a run. `Gens` bounds the
record objects of one id: the runs have two, one that is replaced and the one a
reconciliation makes. `Ids` bounds the launches: an id is a random 128-bit
number in the code and is never used twice here. `OneMishap` lets one thing go
wrong, a crash or a fault, and a fault only while there is one instance: what a
fault can do, a session without its record or its directory, shows with one, and
the limit counts the records. One fault is what the code claims to survive. Two are too many for it: when the
new-session client fails after the server accepted it and has-session then
fails as well, its error is dropped (manager.go:721), nothing is killed, and an
untagged session runs that no record knows (with `MaxFaults = 2`, TLC finds
`LiveKept` violated).

| run | instance | states | what it shows |
|---|---|---|---|
| CodeServers | 2 goroutines, 2 ids, 2 folders, limit 1, one fault or one crash | 0.95M | `LiveKept`, `LimitKept`, `ShutdownIsFinal` |
| CodeServersLive | 2 goroutines, 1 id, 1 fault, fair | 0.1M | `TypeOK`, `ProxiesOnlyActive`, `TransitionsOwned`, `RequestsEnd` |
| CodeServersAckLive | 2 goroutines, 1 id, no fault | violation | `AckedDeleteStopped` |

`LiveKept`: a running editor keeps its record, which counts it against the
limit and lets Delete find it, and its runtime directory, whatever fails or is
cleaned up meanwhile.
`TransitionsOwned`: every launching or stopping record has an open channel and
exactly one goroutine that will close it. Two goroutines give every pair of
operations in every order, and each may make any number of requests one after
another. What the proofs cover below holds for any number of them. Deadlock is not checked: after a completed shutdown the daemon exits and
nothing is left to do.

**Fairness.** Each goroutine has strong fairness on its own steps: the Go
scheduler runs it, a `sync.Mutex` hands itself to a waiter that starves, and
every wait for tmux or for the health probe is bounded by a timer in the code.
No fairness is assumed of clients (calls, cancellations) or of editors that
might exit. `RequestsEnd` includes
the goroutines that wait for a transition of another: it ends because
`TransitionsOwned` gives it an owner.

**Findings.** (1) `CodeServersAckLive`: a Delete that waited for a launch may
return nil though the session runs: `Create` activates the record and closes the
channel, and a second Delete takes the record into `phaseStopping` before the
waiter reads it (manager.go:1330-1340 takes any phase but active without an
error for "stopped"). (2) Seen while modelling, not a run: a List or Create whose list
predates a Delete records the deleted instance again as active, until the next
list.

**Left out.** The text of tmux commands and their output, profile contents and
migration, HTTP rewriting, the health probe's protocol. A removal of a runtime
directory by Delete or by a failed launch is taken to succeed (its error is
returned to the caller and changes no state). A cancelled context inside a
command appears as that command's failure.

### Proofs

The theorems of `CodeServersProofs` hold for any number
of goroutines, ids, folders, record objects, faults and crashes; they
assume only what `CodeServers` assumes of its constants, and one theorem
(`LiveStaysKept`) that at most one command fails.

`TypeOK` is not inductive: an action writes `rec[target[w]][held[w]]`, so it
must be known that a goroutine at such a position holds an id and a record.
`LocalsMatchPc` says so, and `TypeInv` is the conjunction. `CommandsSerialized`
is inductive with `TypeInv`.

`OwnerInv` strengthens the properties about transitions. A goroutine at a
position of `LaunchPositions` or `StopPositions` owns the record it holds.
`OwnersWork`: the record of an owner is in the owner's kind of transition and
its channel is open. `OwnersDistinct`: no two goroutines own one record.
`OpenOwned`: every open record has an owner. With `AllocatedOnly` (only
allocated ids are in use, so a new id hits no old record or proxy) these are
inductive, and `ProxiesOnlyActive` and `TransitionsOwned` (the conjunction of
`TransitionMatchesPhase` and `OneWorkerPerTransition`) follow. The argument goes by three lemmas:
`BeginsTransition`, `EndsTransition` and `KeepsOwners`, and every action is one
of these.

`ShutdownInv`: the flag is up whenever a shutdown is under way or over, one
goroutine carries out an attempt, the kill precedes the clearing, and when an
attempt is done the manager is `Cleared`: nothing is left, and no goroutine is
at a position from which it could still add something. The last conjunct is
what makes `ShutdownIsFinal` inductive, and it holds at the clearing because
the shutdown holds `commandMu` and all those positions need it
(`CommandsSerialized`).

`KeptInv` says what each goroutine relies on between two of its steps: an id to
be launched has no session yet and was never tagged, its record and directory
are there; whoever is about to take a record or a directory away has seen the
session absent; a list that was taken still shows every visible session. The
last needs `commandMu`, the others that an id being launched is fresh, so nobody
who works without a lock is working on it (`LaunchedApart`, from
`AllocatedOnly`). Every action fits one frame (`Moves`): what it adds, what it
may drop, and under which lock. `VisibleKept` follows for any number of faults.

`LimitInv` counts ahead: between the decision and the reservation there is room
for one more, and the records together with a list that is not yet applied stay
within `MaxServers`, because the list was a part of the records when it was
taken (`VisibleKept`) and only the holder of `commandMu` adds to them.

`LiveInv` covers the sessions that no listing shows because they carry no tags
yet: each has the goroutine that launches it, which tags it or kills it. With
one fault in all that is inductive, as the cleanup after the fault cannot fail.
With two it is false: `new-session` fails after it made the session, `has-session`
fails too, and the launch gives up a running, untagged session. Hence the
assumption `MaxFaults <= 1` of `LiveStaysKept`, which is the bound of the run.

Only model-checked: `RequestsEnd`, which is liveness.

## 4. The terminal-session manager

`Sessions.tla` models `remoteterminal/internal/sessions/manager.go`.

**State.** Every request holds `m.mu` from its first line to its last, tmux
commands and waits included, so `op` is the one request under way: its kind,
its arguments, what `listLocked` returned (`seen`), the processes it is
stopping and the buffers it is deleting. `managed` is `m.processes`; `ttyd[p]`
is a child process together with its watcher goroutine (`waitProcess`), which
outlives its place in the map; `file[i]` is the process whose socket lies at
`ttydSocket(i)`. `session[i]` is the tmux session of an id: its name when it
has both options, `bare` and `tagged` while Create has not set them, and
`unused`, `ended`, `orphan` (alive behind a removed socket). `buffers` is the set
of paste buffers; `n` says which is older, the order in which the code sorts
them. `shuttingDown` and `leaving` are the flag and the
local list of `Shutdown`, which waits without the mutex.

**Atomicity.** One action per tmux command, per wait and per system call that
can interleave with what the mutex does not protect: sessions that end, users
who select text, processes that bind or exit, and the watchers. The fifteen
configuration commands of Connect change nothing that is modelled, so they are
one action (`Configure`) that may fail. `stopProcessLocked` is `StopSignal`
(out of the map, SIGTERM) and `Stopped` (the process ended, or the timer and
SIGKILL; the socket is removed), for Delete, for Connect and for each process
the reconciliation of a list stops.

**Environment.** ttyd may unlink its socket when it exits or leave it. A tmux
client that fails may have acted or not. The server dies with its last session
and takes the buffers along. The service unit kills the whole control group, so
`Restart` finds no ttyd of the previous daemon; sessions may have survived.

| run | instance | states | what it shows |
|---|---|---|---|
| Sessions | 3 ids, 3 names, limit 2, 1 process, 2 selections, 1 fault | 0.8M | `SessionsListed`, `SelectionsGuarded` |
| SessionsTerminals | 1 session, 2 processes, 1 fault, shutdown, 1 crash, fair | 51k | `TerminalsTracked`, `ChildrenReaped` |

`SessionsListed`: the limit and unique names hold, also when commands of a
Create fail after they took effect, and between requests a list shows every live
session. `SelectionsGuarded`: a selection is taken once, none from before a
barrier appears after it, and none survives its session. `TerminalsTracked` is
the type invariant with `TtydTracked` (a running child is in the map or being
stopped by somebody who will see its end), `SocketOfManaged` and
`ShutdownStopsAll`. `ChildrenReaped`: a child that exited is waited for, a request
lets go of the mutex, a shutdown ends.

A process is started by one Connect only, so two for one session are "a process
and its successor". The processes of different sessions share only the mutex
and the map, whose entries the code never mixes; three ids are one more than the
limit. Two selections are one that is taken and one made before or meanwhile; a
second session keeps the server and its buffers alive when the first is deleted. One fault is what the cleanup in
Create is written for; with two (set-option fails and so does the cleanup's
kill-session, whose error manager.go:609 drops) a session stays that no list,
Delete or limit knows of.

**Fairness.** Requests go on (`WF` on `RequestStep`): commands return, and every
wait has a timer. A watcher has `SF` on its section under the mutex, which Go's
starvation mode of `sync.Mutex` gives, and `WF` elsewhere. `ShutdownExpire` is
fair because main gives Shutdown a deadline. Nothing is assumed of ttyd: it need
neither bind nor exit.

**Met while modelling** (the model has these behaviours; no run is about them).
The watcher of an exited ttyd removes the socket path after it released the
mutex (`manager.go:942`), possibly that of the ttyd a Connect has just started,
which the text at `manager.go:685` rules out; so `SocketOfManaged` speaks of
paths that lead to the wrong process, not of managed processes without a path.
A list takes a client's failure to connect for a dead server and removes the
socket (`manager.go:515`); if the server still runs, its sessions are out of
reach (`orphan`), and `SessionsListed` no longer counts them.

**Proved** (`SessionsProofs`), for any number of ids, names, processes,
selections, failing commands and crashes, from the module's assumptions that the
bounds are naturals, that names differ from the marks of unnamed sessions, and
that `None` is no process, id or name:

- `TerminalsAreTracked` (`TerminalsTracked`) and `SelectionsAreGuarded`
  (`SelectionsGuarded`), with no restriction.
- `LimitAndNamesHold`: the first two parts of `SessionsListed`, with no restriction.
- `SessionsAreListed`: all of `SessionsListed` while at most one command has failed
  and the daemon has not died. The third part is false beyond that, in the model
  as in the code: a second failure hits the cleanup, and a crash in the middle of
  a Create leaves a session without its options.

They follow from `SessionsInvariant`. None of the properties is inductive by itself;
what the invariant adds is, for each:

- `TermsInv`: the process a request waits for is out of the map (`VictimOut`);
  Connect reaches `start`, and Delete its buffers, only with no process in the map
  (`NoneManaged`); a process in the map is there under its own session
  (`ProcessesOk`); after Shutdown's section only lists and proxies are under way
  (`ShutdownOwns`). Without `NoneManaged` a Connect could overwrite a map entry
  whose process runs; with `VictimOut`, a process that binds late finds its
  session's entry its own or empty, which gives `SocketOfManaged`.
- `ListedInv`: from its list to its last set-option a Create holds a superset of
  the named sessions (`CreateKnows`), so the limit it checked still holds when it
  names its own; a session without its options belongs to the Create under way,
  or two commands have failed (`HiddenOwned`).
- `SelectInv`: a buffer on the server is neither returned, nor barred, nor of a
  deleted session (`BuffersFresh`); a selection that a request listed leaves the
  server before the request records it (`ListedFresh`); Delete's session has no
  buffer left when it is killed (`DeleteClears`). The last one needs `NoneManaged`:
  with its ttyd stopped nobody can select there in between.

TLC checked the invariant, on one session with two processes and on three with
one, before it was proved. `ChildrenReaped` is liveness and stays with TLC.

## 5. Catalogue files

`CatalogFiles.tla` models uploads, replacements and deletions of the files of
catalogue setups: `PutCatalogFile` and `DeleteCatalogFile`
(`websetupmanager/internal/service/catalog.go`), the storage steps under them
(`internal/storage/catalog_linux.go`), the idempotency claim, and the start-up
recovery. `CatalogAtomic.tla` is what a client is promised.

**State.** `at` is the program directory: the file at each catalogued path and
under the three hidden names of an operation (`.wsm-upload-`, `.wsm-trash-`,
`.wsm-gc-`). A file is an inode with one link, named after the journal row that
made it. The service identifies a file by a version that hashes inode, size,
mtime, ctime and digest; a rename changes the ctime, so a version here is the
inode and a count of its renames (`stamp`). `row` and `revision` are
`catalog_files` and `catalog_setups`, `journal` is `catalog_operations`, `claim`
and `request` are `idempotency_requests`. All mutations hold the "catalog-tree"
lock, so `op` is the one request, or the recovery, under way; others have
claimed a key and wait (`waiting`).

**Steps.** One action per database statement and per directory change that a
crash or an error can separate. A publication: `Lock` (preconditions and the
intent row), `InsertDelete` (the second row when the file gets another name),
`Prepare` (the inode of the unnamed file is journaled), `Link`, `Expose` (rename
or exchange), `Verify`, `ApplyStorage`, `Quarantine` and `MarkDelete` (the old
file of a renamed replacement), `Commit` (the transaction), `Clean`, `Complete`,
`Discard`, `CompleteDelete`. A deletion starts at `Quarantine`. Files are
removed in two steps, `MoveAside` and `Unlink`. `Restore`, `RereadRestored`,
`FailDelete`, `Unpublish`, `RereadReplaced` and `Finish` undo. `Crash` and
`Start` are the process; `Recover`, `RecoverPublication`, `RecoverQuarantine`,
`Settle`, `Close` handle one open row after the other, `Refuse` is the start
that gives up.

**Faults.** A failing call stands for I/O errors and, more often, for the
request's context: the handlers pass `r.Context()`, so a client that
disconnects makes every later call with it fail. Errors of calls the code
ignores are ignored. In recovery an error ends the process, as `Crash` does.

| run | instance | states | what it shows |
|---|---|---|---|
| Catalog | 2 setups, 2 paths, 3 keys, 5 attempts, two mishaps (faults and crashes together) | 0.5M | `RecoveryRestores`, `RetryAccepted`, `FilesKept`, `ImplementsAtomic` |

`RecoveryRestores`: a start never gives up on the journal it finds, and the
directory is then what the rows say, whatever crashes interrupted (`Undisturbed`:
no call has failed, and one setup has had requests; see the first remark below).
`RetryAccepted`: a repeated request is not turned away for a version that only
the undoing of its own first attempt has changed. `FilesKept`: with the type
invariant, a catalogued file is never lost, and its path is empty only on account
of a journaled delete. Three requests give a creation, a mutation of each kind,
and the next one on what it left. Two mishaps are a failure that starts an unwinding and one inside it, a
crash in a recovery from a crash, or a crash after a failed call. Deadlock is
not checked: requests may end.

**Refinement.** `ImplementsAtomic` maps the rows to the abstract files and the
claim of a key to its outcome. Every step is then `Ask`, one `Apply` on the
revision the request was made for, `Fail`, `Forget`, `GiveUp`, or nothing: no
sequence of failing calls, crashes and retries applies a request twice, on a
later revision, or after its client was told it failed. The run shows it on the
instance, the proof below for all.

**Fairness.** None is assumed and no liveness is checked: with failing calls a
claim may stay in progress until the next start, since the update of the claim
can fail too.

**Met while modelling** (in the model; no run is about them). (1) A publication that fails after `Prepare`
leaves its row in intent (catalog.go:1453). A name that another setup of the
folder has is enough, since the target is looked at afterwards. The next start
finds at that path a file the row does not know, `RecoverPublication` answers
`ErrObjectChanged` (catalog_linux.go:996), and the service does not start, this
time or any later one. Rows left in storage_applied by a rollback, or in
db_applied by a failed last update, have the same effect once another request
has changed the path. `RecoveryRestores` is therefore restricted to
`Undisturbed` runs. (2) A client that disconnects while the exposed file is
verified leaves the new file at the path although its request failed
(catalog_linux.go:732; PRODUCT_REQUIREMENTS.ru.md:173 promises the previous
one). (3) With `SameBytes = TRUE` and two crashes `RecoveryRestores` fails:
equal bytes are told apart by version, and the exchange of an interrupted
recovery has changed the versions (catalog_linux.go:967).

**Left out.** Power loss (the code syncs directories before it goes on), edits
of the directory by other programs, expiry of claims, provenance of migrated
files; folders and moves are in `CatalogTree`.

**Proved** (`CatalogFilesProofs.tla`), for any number of setups, paths, keys,
journal rows, waiting requests, failing calls and deaths of the daemon:
`Spec => []FilesKept` and `Spec => ImplementsAtomic`. The assumptions are the
module's three: the bounds are naturals, `None` is no name and no number, and
`None` is no record. Neither property is inductive: whether unlinking a hidden
file is harmless depends on what the journal says of it, and that on who holds
the lock. `FilesInv` says all of it, in parts named for what they are about:

- `RequestInv`, `JournalInv`, `RowsInv`: what a row of the journal may say. A row
  in db_applied or completed belongs to a completed claim, the old file it names
  is a committed publication of the same path and is no longer any row's file; a
  row of catalog_files names a committed publication of its path, and no two
  rows share a path.
- `OneLink`, `PublicInv`, `TempInv`, `TrashInv`, `GuardInv`: a file has one name; a
  catalogued path has the file of a row or one of an open publication of that
  path; an upload name has the new file of an open publication or the old file
  of it, a trash name the old file of a delete, and what is still in use only
  while the row is open; a file moved aside is in no row.
- `HomesInv`: the file of a row is at its path, or in the trash of an open delete,
  or under the upload name of an open publication that is at the path instead.
  From it `FilesKept` follows at once.
- `CapacityInv`: every waiting request has the journal rows it may need, so
  `Fresh` is a row nobody uses.
- `OpInv` in nine parts: per step of the holder or of the recovery, which rows it
  is about and what it has done to the directory. `RemovalInv` is the heart of
  it: a file is moved aside only when it is the new file of an open publication,
  or the old file of a committed one, or the file of a committed delete;
  `UndoneInv` says that recovery closes a row as failed only when nothing of it
  is left.

TLC checked `FilesInv` on the instance of the run first. The proof has one lemma
per action, and under it one step per part the action can disturb; what a rename,
an exchange or a removal does to the directory is proved once for each kind
(`LinkStore` to `UnlinkStore`, `StateStore`, `CommitStore`). For the refinement the
same invariant gives what `CatalogAtomic` asks of `Commit`: the new file is in no
row because its own row is still open, and the request has a claim in progress.
`SettleForgets` uses that the transaction completes rows and claim together, so
recovery never turns a committed request into a repeatable one.

**Proved** (second part of `CatalogFilesProofs.tla`), for any number of paths, keys, journal rows
and deaths of the daemon, and any step they interrupt, of a request or of an
earlier recovery: `~SameBytes` gives `Spec => []RecoveryRestores`. The theorem
excludes what the property and the remarks above do: a failing call and a second
setup (remark 1; both are in `Undisturbed`), and a replacement by equal bytes
(remark 3, a hypothesis). The property is not inductive, and `FilesInv` is too
weak for it, since it allows what failed calls leave behind. `RecoveryInv` adds
to it, for undisturbed runs:

- `SoleRows`, `OpenRows`, `Leftovers`, `Prepared`: at most one publication and one
  delete are open, they commit together, the rows of the catalogue say of their
  paths what was so when they were written, and a hidden name belongs to an open
  row. With no row open nothing is hidden.
- `Versions`: a row has the version of its file, or an open row of the journal
  will put that file back and then reread it. This is the part to get right: each
  rename changes a version, and a death may come between the rename and the row.
- `ServingCalm`, `ForwardCalm`: the holder of the lock has every open row in hand,
  never undoes, and until the old file moves its version is the one the request
  saw.
- `RecoveryCalm`: what recovery has removed so far for its row, and that it closes
  the row only with the hidden names empty.
- `NotRefused`: no state leads to `refuse`. `RecoverPublication` classifies the row
  by what is at the path and under the upload name; `Classified` shows that every
  state a death can leave is one of the cases the code knows.

TLC checked `RecoveryInv` first, on an instance of one setup, three keys, no
failing call and three crashes (1.5M states). Again there is one lemma per
action; `MovedTables` and `TablesKept` do once what a rename, and a change of the
journal alone, does to the tables.

`RetryAccepted` is proved for the same runs (`RetriesAreAccepted`), from the two
invariants above and `RetryInv`, which follows one file's version between the
catalogue, the journal and the claims:

- `OpenVersions`: until the old file of an open row is put back and reread, that
  row expects the version which the catalogue states.
- `ReadVersions`: the version that a request was sent with is the version of a
  row of the catalogue, or some row of the journal, open or failed, expects it.
  A failed row keeps it for the retry: that row is the one which
  `allowRecoveredCatalogFilePrecondition` looks up.

TLC checked `RetryInv` first (530,000 states). `RetryInvariant` needs to know of a
step only what it does to the journal, the rows and the requests, so most actions
share `JournalKeeps`, `KeepsJournal` and `NewRows`. With requests of several setups
`RetryAccepted` is only what TLC checks.

## 6. Jobs

`Jobs.tla` models the background jobs of websetupmanager
(`internal/service/jobs.go`, `upload_jobs.go`, the job halves of
`validation.go`, `duplicate.go` and `state.go`).

**State.** The rows of `jobs`, `validation_runs` and the upload's claim (`job`,
`run`, `claim`), what a job's domain transaction committed (`published`,
`digest`); the workers (`pc` and the error each carries): one per row, which
bears the row's name, and one per repetition of a request for a duplicate
(`Repeats`, `JobOf`); `registered` (the map `s.jobs`: per row, whose context a
cancellation finds), `counted` (the wait group), `signalled` (cancelled
contexts), the heavy slots and the setup's lock; a DELETE under way (`canceller`), the client's
upload request of each key, and the life of the service.

**Steps.** A job is inserted (`ValidateSetup`, `DuplicateSetup`, `RestoreSetup`,
`Prepare`), launched under `jobsMu` unless the service closes, waits for a slot,
is marked running, takes the setup's lock and commits, conflicts or stops;
`Finish` writes the row it ended in. A cancellation is three updates and a
signal, each a step (`Unqueue`, `Drop`, `RequestCancel`, `Late`, `Signal`).
`RepeatDuplicate` is `DuplicateSetup` with the key of a request that was served:
it inserts nothing and launches another worker for the row that is there. An
upload runs inside its client's request, so `Disconnect` cancels it. `Close`,
`SignalAll` and `Wait` are the shutdown of `main.go:225-231`; `Die` is any end of
the process and `Restart` is `RecoverInterrupted`.

| run | instance | states | what it shows |
|---|---|---|---|
| Jobs | 1 setup, 2 rows in 3 mixes of kinds, 1 repeated duplicate, 1 slot (2 with the repeat), 2 keys, 2 bodies, 1 cancellation, 1 edit, 2 sends, 1 death, fair | 0.33M | `RowsAgree`, `WorkersKept`, `TerminalStable`, `ReplaySameBytes`, `JobsEnd` |

`RowsAgree`: a published result and the state of its row never contradict each
other. `WorkersKept`: no row waits for a worker that is gone (`Attended`), a row
that left the queue has an entry in `s.jobs` until it ends, so that a
cancellation finds a context (`Reachable`), and no worker is left once Wait has
returned; all three with a second worker of the same row, which replaces the
entry of the first and deletes it when it leaves. `TerminalStable`: a terminal row never changes
again, by a late cancellation, its own worker or a restart. `ReplaySameBytes`: a
repeated upload is told of a success only for the bytes that were published.
`JobsEnd`: a started job ends, unless the process dies first.

**Fairness.** Every goroutine goes on (`WF`); a Go mutex and a channel starve
nobody, so taking the slot and the lock has `SF`.

**Met while modelling.** A repeated key of `DuplicateSetup` takes the current job
(duplicate.go:62) and calls `launchJob` again (95-98), without the `created`
guard of validation.go:113 and state.go:710. The second worker replaces the entry
in `s.jobs`, so a cancellation signals it and no longer the first; when the first
has marked the row running, the second cannot, ends the row as failed or
cancelled and deletes the entry, while the first still works; its commit then
finds the row ended and is rolled back. The row still ends once, its result
agrees with it, and nobody waits for ever, which is what the properties
above say; that a repetition leaves the job alone is not true of this code
and no property claims it. The run of a cancelled validation may stay queued in
`validation_runs` until the next start. A request that wins the race for another
key's upload may be answered succeeded without the comparison of
`verifyUploadReplay`; `ReplaySameBytes` leaves the writer itself out.

**Proofs.** `JobsProofs` proves `RowsAgree`, `WorkersKept`, `TerminalStable` and
`ReplaySameBytes` for any number of rows, setups, keys, uploads, cancellations,
edits and deaths. None of them is inductive. `JobsInv` adds what a worker knows
at each step and that every row has somebody who will end it: whatever names a
job finds its row (`JobsRooted`, `ClientsRooted`), what a worker has written
agrees with where it is, a result and a claim belong to the row that wrote them,
an unfinished row has its own worker, whatever workers a repetition has added
(`Owned`), the entry in `s.jobs` is there from the launch of any worker to the end
of its row, though not always that worker's (`Registered`, `Reachable`), and after
`Wait` the barrier holds: nobody is counted and nobody can register. The actions are taken one variable
at a time: a lemma per variable names the actions that write it, and everything
else follows from its being unchanged. `JobsEnd` is liveness and stays with TLC.

## 7. Setups

`Setups.tla` models status and revision of the older API's setups and
everything that refers to one: the selected setup, the recent list, the clients'
state, archive and restore, delete confirmations, duplicates, validation and the
inspection of managed content (`internal/service/setups.go`, `state.go`,
`revision.go`, `validation.go`, `duplicate.go`, `reconcile.go`, and the rules of
`internal/domain`).

**State.** `setup` and `artifacts` are the rows; an artifact is an object and
the file version that its row remembers. `disk` is the managed file of each
object: its content is the one recorded, another, or gone, and every change
gives it a version never seen before. `worker` is the work under a setup's lock
(validation, restore, duplicate, identity pass, full pass) and `reader` a
request that has found content changed and has not yet recorded it, which takes
no lock. `passed` is history: what a validation has found sound.

**Steps.** A transaction is one step; work over several files is one step per
file, so that files change, readers report and the work is stopped in between.

| run | instance | states | what it shows |
|---|---|---|---|
| Setups | 2 setups, 2 objects, 1 client, revisions to 3, 2 changes from outside, 1 confirmation, 1 stop, in 5 plans, fair | 0.17M | `SelectionsKept`, `ConfirmationsHold`, `StatusByEvidence`, `ChangesNoticed` |

The five plans are one setup of two files that is validated, read and
reconciled; one of one file that is also selected and archived; and two that
share a file while they are archived, deleted, duplicated or listed.
`StatusByEvidence`: a setup is ready only as a validation passed it at this
revision, becomes ready only on sound content, and leaves attention only for
sound content. `ConfirmationsHold`: a permanent deletion removes the objects its
confirmation named. `SelectionsKept`: what is selected, listed or shown exists.
`ChangesNoticed`: once nobody touches the files any more, no setup stays ready
without them.

**Fairness.** Work under a lock goes on (`WF`); the maintenance ticker inspects
every setup again and again, and its wait for the lock ends (`SF` on `Inspect`).

**Met while modelling.** A pass over an archived setup that finds equal bytes
under a new identity records them (reconcile.go:125), and the restore makes the
setup ready without a validation, which the comment at 105-108 is against; with
a fresh identity and equal bytes the properties above still hold. A duplication
whose job is cancelled while it reads a file puts its source in attention
(duplicate.go:168; functional-requirements.ru.md:237 says a cancellation changes
nothing). A pass that is stopped after recording an identity leaves the status
as it was (reconcile.go:132-178). A validation that ends after a reader's mark
overwrites it.

**Proved** (`SetupsProofs.tla`), for any number of setups, objects, clients,
revisions, changes from outside, confirmations and interrupted work:
`SelectionsStay` (`SelectionsKept`), `StatusRestsOnEvidence` (`StatusByEvidence`)
and `ConfirmationsStay` (`ConfirmationsHold`). They rest on `SetupsInv`, of which
none of the three properties is strong enough by itself to be inductive:

- `RowsInv`: the CHECKs of a row hold (it is archived exactly if it remembers a
  status to return to; ready means the ready revision is its own), a deleted
  setup has no artifacts, and a ready one is what a validation passed.
- `VersionsInv`: a recorded version is never ahead of the file's, and while the
  two are equal the bytes are the recorded ones. So content found with the
  recorded identity was never changed.
- `WorkersInv`: while work holds a setup's lock nobody else moves its revision,
  archives it or changes its artifacts; what is still to be looked at and is
  intact now was intact when the work began; and if nothing was found changed,
  everything looked at was so too. At the end nothing is left to look at, hence
  `SoundAtStart`, although files change between any two looks and a reader's
  mark needs no lock.
- `CurrentInv`, `RecentInv`, `UIInv`, `TokensInv`: what each of the rows that
  name a setup says of it. That the recent list has one row per setup and stays
  within `RecentLimit` is proved from the library's facts about sequences.
- `BoundsInv`: types of the counters.

TLC checked the parts of `SetupsInv` first (216k states). The proof has a lemma
per operation; `RowChanges` and `OneRow` say what each part needs when one row
changes, `Mutated` what an edit of the artifacts does to everything that names
them. `Evidence` is the action property of one setup, shown with each operation.
The assumptions are that the bounds are numbers, that there is room for the first
revision (`MaxRevision` is not 0, as a setup starts at 1), and that `None` is not
a setup, object, number, record or status. `ChangesNoticed` is liveness and stays
with TLC.

**Left out.** ListSetups with its search and pages; the text of names.

## 8. The managed library

Managed files are named by their content and shared by everything that refers
to it. `ObjectStore.tla` is the store: stage, reserve, publish, mark stored, undo,
collect, the recovery at start, and files that somebody replaces from outside
(`internal/storage/store_linux.go`, and of `internal/service` `artifacts.go`,
`reconcile.go`, `recovery.go`). `Artifacts.tla` is what a setup's composition
asks of it (add, replace, rename, delete, primary, setup sheet) and
`Imports.tla` the import session (`imports.go`). Both extend the store and share
its tables, locks and files; `Library.tla` composes them: initial state, next
step, fairness, properties.

**State.** `files` and `born` are the files and their identities; `objects`,
`arts`, `journal`, `session`, `items`, `claims` are tables; `locks` the keyed locks
of contents, setups and the import, `heavy` the slots, `writer` an open
transaction that has already unlinked a file. `pc`, `seen`, `got`, `todo`,
`fate` are the position and the locals of each request of the plan.

**Steps.** The order the module is about: a file is staged; its row and a
reservation are written in one transaction; it is renamed into place; the
reservation is marked; the transaction that refers to it comes much later, after
other locks. A collection unlinks inside a transaction that commits afterwards.
The process may end between any two, a step may fail, a file may be replaced.

| run | instance | states | what it shows |
|---|---|---|---|
| Library | 2 setups, 2 contents, 2 names, import limit 2, 1 heavy slot; 16 plans of up to 3 requests, with 1 fault, 1 end of the process, 1 change from outside | 0.32M | `ObjectsKept`, `ImportsWhole`, `SolePrimary`, `AllEnds` |

The plans are in `MCLibrary.tla`: two setups that publish, replace and drop the
same content beside a collection; the composition of one setup; an import
filled, excluded, committed, cancelled, expired; and requests repeated, refused
or too late (`Calm` plans, without mishaps, for those whose interest is in the
order of requests). `ObjectsKept`: what is referenced is there as it was
written, every file has its row, and a prepared file survives until the
transaction that refers to it. `ImportsWhole`: an import holds what it counts,
within its limit, and becomes one setup or none. `SolePrimary`: a setup is left
with one program that is not primary only when its primary was deleted.
`AllEnds`: every operation ends and gives back its locks, slot and staged file,
and what nobody refers to is collected.

**Fairness.** Request goroutines and the maintenance goroutine go on (`WF` on
`Serving`, `Maintaining`); the service unit restarts the process
(`Restart=on-failure`, `WF` on `Recover`). No order among the waiters of a lock
is assumed.

**Proved** (`LibraryProofs.tla`), for any setups, contents, names, sizes, limits,
requests, faults, ends of the process and changes from outside: `ObjectsKept`,
`ImportsWhole`, `SolePrimary`. `Ops == 1..3` is written in the model, so at most
three requests come together. Assumed of the constants: a request uploads
one or two files, or names one, or none, as its kind says; the artifacts of a
plan come from earlier requests; `None` and the locks' names are no other
values. None of the properties is inductive. `LibraryInv`, which TLC checked on
the run's instance first, adds:

- `PreparedOk`: per position of an operation, what of its files is reserved,
  published and stored, and that its content's lock is its own while it
  publishes. A reservation is a reference (`Referenced`), so a prepared file is
  kept exactly as an artifact's file is.
- `LocksInv`: the lock of a content is held by its publisher or by the collection
  whose open transaction has unlinked it (`Collecting`), and then nothing refers
  to it. A reservation and a removal each take the lock and look at the
  tables in one transaction, so the collection sees the reservation, or the
  file is published again after its removal.
- `ArtsInv`: an operation's own artifacts exist only after its transaction, so
  its new rows have new identities.
- `ImportInv`: only staged items hold an object, a staging session has neither a
  setup nor a published item, and a commit (`Committing`) holds the session's
  lock, so that the program it was confirmed with is still one.

Each action has its lemma; `OperationStep` and its kin reduce it to what the
action does to its own operation, while `OthersOk` shows what it leaves to the
others. `Recasts` and `Matched` say of an alteration that artifacts keep identity,
setup and role, which is what `SolePrimary` turns on; the deletion that leaves
two programs minus one needs `PromotesLast`.

Proving changed the model in three places. `StagedBytes` counts the bytes of
the items as a set (`Bytes`) instead of summing by a fold, which no prover
unfolds. What a plan and a request may be is stated in full. And `ImportEndsOnce`
asked for a program among the artifacts of a succeeded import: a later
deletion may take it away, which no plan of the run lets happen. It now speaks
of the session's own items, which stay `published`.

**Met while modelling.** An upload for a name that was excluded while it was
staged stores its bytes in the reservation of the next upload of that name
(imports.go:206-211 and 907; FR-IMPORT-004). An upload whose claim is replayed
or refused leaves its reservation `uploading` (imports.go:171-186).

**Left out.** The expiry of claims; a second import session (they share nothing
but contents); setups archived meanwhile (that is `Setups`). The I/O error of
one removal in a collection appears as a candidate that is skipped.

## 9. Catalogue folders and setups

`CatalogTree.tla` models the six requests that create, move and delete folders
and setups, and GetCatalogTree (`internal/service/catalog.go`), the directory
under them (`internal/storage/catalog_linux.go`) and the recovery at start
(`catalog_recovery.go`).

**State.** `disk` maps paths to inodes and `stamp` gives the version of each
inode, which a rename advances for the inode and the directories concerned
(their ctime). The tables are `folders`, `setups`, `rows` (of files) and
`generation`; `journal` has one row per file or folder moved; `work` is what the
holder of the "catalog-tree" lock is doing, `rec` where recovery is, `reader` a
GetCatalogTree in its separate queries. `Fold` is the case folding under which
the database compares names.

**Steps.** For each item: `Insert` the intent, then rename (`Relocate`, or
`Mkdir`, `Prepare`, `Expose` for a creation) and `Record` it; then one `Commit`
for all rows. A failure goes back item by item (`Undo`, `MovedBack`, `Undone`),
and where going back fails too the row stays open (`Stuck`). `RecoverFolderCreate`,
`RecoverMove`, `RecoverQuarantine` and `Settle` are the start after a crash.

| run | instance | states | what it shows |
|---|---|---|---|
| CatalogTree | 3 folder ids, 2 setups, 4 names (two equal under folding); 11 plans of one or two requests with up to 2 failing calls and 2 ends of the process | 0.16M | `PlacesAgree`, `TreeLabel`, `FailedChangesNothing`, `StartsEnd` |

The plans (`MCCatalogTree.tla`) are moves across each other and into their own
subtree, deletions of what is being filled, creations under a taken name and
under one that differs in case only, and a reader beside two of them.
`PlacesAgree`: the tables agree on where everything is, and the directory agrees
with them but for what open journal rows explain. `TreeLabel`: a tree read in
several queries that carries the current generation is the current tree.
`FailedChangesNothing`: a request that fails and whose rows are closed has left
directory and tables as they were. `StartsEnd`: a start refuses only after a
failure or an end of the process at one of the points below (`tainted`), and no
claim stays in progress.

**Fairness.** The holder of the lock and the recovery go on (`WF`).

**Met while modelling** (the history variable `tainted` marks them).
CreateCatalogFolder journals before it looks whether the name is taken; it then
leaves its row open and the next start refuses (catalog.go:433-453,
catalog_linux.go:1244-1249; catalog_recovery.go:18-19 promises an automatic
recovery). The same after a crash between mkdirat and the update of the row
(catalog_linux.go:1214-1249), and after a move that was undone while its row is
still open. A move that its client did not wait for leaves a stale version in
the row (catalog_linux.go:248, catalog.go:1084-1089).

**Left out.** The `.wsm-gc-` step of a removal (`CatalogFiles` has it), the
reserved name ngcgui_lib, provenance of migrated files. Recovery takes rows by
`created_at, id`; here in the order of insertion.

## 10. Logins and connections of remoteterminal

`Logins.tla` models the session store with its file of remembered sessions
and the throttle (`remoteterminal/internal/auth/auth.go`), the connection tracker
(`internal/httpapi/connections.go`) and the requests that use both (login,
logout, any authenticated request, websocket upgrade, shutdown:
`internal/httpapi/server.go`).

**State.** `sessions`, `file`, `attempts`, `tracked`, `closed` are the
variables of the two packages; `conns` holds token, socket and timer of every
connection, `callbacks` the timer functions that have fired and not ended,
`handlers` the requests being served. `now` is a small clock; what a step reads
from it is any value since its request or callback came to the step (`since`,
`Readings`), because `Get`, `DeadlineFor`, `create`, `Allow` and `Failure` read the
clock before they take the mutex (auth.go 183/184, 223/224, 135/146, 510/511,
518/519). `promised`, `goneFor`, `loggedOut`, `refused` and `latest` (the latest
deadline each session ever had) are history.

**Steps.** A critical section of a mutex is one step. The interesting places
are between them: a connection is upgraded, tracked and only then validated; a
timer fires, finds its session extended or gone, and takes the tracker's mutex
again; a login passes the throttle and counts its failure later. A failing save
of the file may or may not have renamed it. PAM answers yes or no and is never
forced to answer.

| run | instance | states | what it shows |
|---|---|---|---|
| Logins | 2 handlers, 3 tokens, 2 connections, 2 names, clock to 3, in 9 plans, fair | 0.33M | `ConnectionsFollow`, `PromisesKept`, `FailuresBounded`, `EndedCloses` |

`ConnectionsFollow`: an open connection whose session was logged out or has passed
its latest deadline is about to be closed in every order of upgrade, extension,
expiry and logout; no timer is later than the latest deadline its session had, nor
than the end of the session. `PromisesKept`: a logout is final and a
remembered session stays, across failed saves and restarts.
`FailuresBounded`: parallel failures exceed the limit only by the logins under
way. `EndedCloses`: a connection whose session was logged out or has passed its
latest deadline is closed, unless a request that had read the clock before that
moment extends the session once more.

**Fairness.** `WF` on the steps of the daemon itself (`Internal`): handlers and
timers go on, not the users.

**Proofs.** `LoginsProofs` proves the three invariants for any number of
requests, tokens, connections and names and for any limits and lifetimes. The
inductive `LoginsInv` says, for each of them, who carries the obligation between
two critical sections.

- Connections: somebody holds every open one, the tracker or whoever is about
  to close its socket (`HeldInv`); a deadline on its way to a timer, in a request
  or a callback, and every timer is within the latest deadline the session ever
  had and the session's end, which never moves (`DeadlineInv`, `TimersWithin`,
  `LatestInv`); and once a logout has removed the session, no connection is
  tracked under its token or a request that will look again or close them has the
  token (`GoneInv`). The last one is why `Track` looks the session up again after
  it tracked the connection. `ReadingsInv` keeps an old reading from moving the
  deadline of a remembered session: it is no older than the session.
- Promises: what a start would restore is in the map with the same date, or it
  is a token that a failed save left in the file and that nobody was given
  (`FileFollows`); a date that was promised is in both until the logout
  (`PromiseInv`); a logout past its deletion has the token in neither
  (`LogoutInv`).
- Failures: those of the window and the requests that were let through and may
  still count one are bounded together (`FailureInv`). It needs that pruning by an
  older reading leaves nothing more in the window of today (`PrunedInWindow`) and
  that time only takes failures out of it; the list need not be in order. `First`
  is a CHOOSE, so its existence is proved by the least element of a set of numbers.

**Met while modelling.** A session's deadline does not only grow: of two parallel
`Get`s the one that read the clock first may take the mutex last and set
`IdleExpiresAt` back (auth.go 183/184). The timers of its connections may keep the
later deadline, since the two `Refresh` calls are outside the store's mutex too, so
a connection can outlive the map's record of its session by that lag. It never
outlives the latest deadline nor the session's end, which is what
`ConnectionsFollow` says. Likewise a `Get` with a reading from before the deadline
extends a session whose deadline has just passed, if nobody has removed it.

Assumed are `LimitsAssumption`, `UsersAssumption`, `BoundsAssumption` (requests
and tokens are finite) and `NoneAssumption`, which TLC evaluates on the run.
`EndedCloses` is liveness and stays with TLC.

## 11. Logins of websetupmanager and its tabs

`BrowserLogins.tla` models websetupmanager's store with its rows in SQLite
(`internal/auth/auth.go`), the requests that use it
(`internal/httpapi/authentication.go`, `server.go`) and the tabs of one browser
(`web/src/App.tsx`, `api.ts`). A login is provisional: the tab notes its
fingerprint in a journal that outlives the tab, has the session activated, and
removes the note when its continuation has ended well; a page load that finds a
note revokes the session.

**State.** `sessions`, `rows`, `server` on one side; `jar` (the cookie),
`journal`, per tab its view and CSRF token, per tab and role the asynchronous
function under way (`thread`) and its exchange (`wire`) on the other.
`sealed`, `accepted`, `confirmed`, `ended` are history. What a tab does between
two awaits is one step; answers come in any order or are lost.

| run | instance | states | what it shows |
|---|---|---|---|
| BrowserLogins | 2 tabs, 3 tokens, capacity 2, in 9 plans, fair | 0.11M | `SessionsMirrored`, `LoginsGuarded`, `AdoptsFinished`, `LoadingEnds` |

`LoginsGuarded`: no session is usable before its note was stored, and the
cookie's session is in the journal until its login is finished.
`AdoptsFinished`: a page load shows the workspace for the session of the cookie
only if its login was finished, or it is gone by then.
`SessionsMirrored`: memory and rows agree, and a confirmed remembered session
survives restarts. `LoadingEnds`: no tab stays loading.

**Fairness.** `WF` on the steps of server and tabs, none on users, expiry,
faults, restarts.

**Met while modelling.** The retry after a CSRF refusal (api.ts 603-616) adopts
the token of whatever session the cookie names, also one that is still
journaled (D-035 is against it). A 401 that arrives during Accept leaves a
cancelled session active without a note. The clearing cookie of a late answer
may erase the cookie of a newer login. Two concurrent logins leave one session
that nobody can reach until it expires.

**Met while proving.** `AdoptsFinished` once spoke of the session whose answer
the load holds, whatever the cookie. That is false (with three loads, two
logins and a closed tab; the plans of the run are smaller): one tab's load has
the answer of session t, a login of another tab, sent before the cookie of t
was set, replaces the cookie, and its Accept removes the note of t as
superseded. The load then finds no note and shows the workspace, although the
login of t was never finished; its next request goes out with the new cookie.
The property now says what the code can keep.

**Left out.** The scope of the G-code cache, the bound on notes, a storage
refusal other than at Seal, the throttle (the twin of the one in `Logins`).

**Proofs.** `BrowserLoginsProofs` proves the three safety properties for any
number of tabs and tokens and any plan. None is inductive; `LoginsInv` adds who
knows a token and what each request under way may still do with it.

- `FreshInv`: a token that was never made is named nowhere, and a new one is
  known to its login's answer alone. So a new login never meets old notes.
- `StoreInv`: a row is a remembered session with the same activation as in memory
  (or the server is down), whatever is activated was noted, and a confirmed
  session has an active row until it expires or is ended.
- `GuardInv`: notes are of sealed sessions, and the cookie's session, once sealed
  and not gone, is noted or its login is finished. `Gone` is stable, since no
  token is made twice.
- `WireInv`: what an exchange carries at each of its stages; above all, a
  revocation that was answered well leaves its token gone, or the cookie had moved
  on. This is why the journal may drop the note.
- `ThreadsInv`: what a function of a tab knows at its await. The notes that a
  login will remove as superseded are never the cookie's, other than its own; a
  load that asks for the capabilities has found no note.
- `ShutdownInv`: the mutations under way are among those that were collected.

`AdoptsFinished` follows from it, since only the answer to the capabilities shows
the workspace to a tab that loads. Assumed are `PlansAssumption`,
`CapacityAssumption`, `NoneAssumption` and `ValuesAssumption` (None is no session
and no exchange), which TLC evaluates on the run. `LoadingEnds` is liveness and
stays with TLC.

## 12. What is proved, what is only checked, what is not modelled

Proved for every value of the constants: the safety properties of `CodeServers`,
`Sessions`, `Jobs`, `Setups`, `Library`, `Logins` and `BrowserLogins`, and for
`CatalogFiles` that no catalogued file is lost, that it implements
`CatalogAtomic`, that a start recovers from any death of the daemon, and that a
retry of what was undone is admitted (the sections of these modules say how, and
under which hypotheses a property holds). Only model-checked, on the instances
above: `CatalogTree`, whose invariants need a theory of renames over trees of
paths that is not written yet, and every liveness property, since TLAPS has no
ENABLED and so no proof of progress under fairness.

Not modelled, and why:

- Legacy migration (`catalog_legacy.go`): a one-time copy through PutCatalogFile
  at the first start, before the listener is open and resumed by its manifest.
- Configuration, flags, opening of roots, schema migrations, backups and the
  database's file lock: run once, in sequence, before anything else.
- HTTP decoding, routing, limits, static files, header and cookie rewriting:
  functions of one request.
- G-code parsing, spelling of names, formats of commands: functions over text.
- The workspace, viewer and G-code cache of the web clients.
- The terminal user interface, the playbooks and the scripts: sequential.
- Power loss: the code syncs files and directories before it goes on, and the
  models let the process end, not the machine.

Hazards without a property are listed with their reason in `PROJECT.json`.
