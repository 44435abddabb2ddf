---------------------------- MODULE CatalogFiles ----------------------------
(***************************************************************************)
(* The file half of websetupmanager's catalogue: PutCatalogFile and        *)
(* DeleteCatalogFile (internal/service/catalog.go), the storage steps they *)
(* take (internal/storage/catalog_linux.go), and the recovery of their     *)
(* journal at start (internal/service/catalog_recovery.go).                *)
(*                                                                         *)
(* A mutation changes a program directory and a SQLite database that       *)
(* cannot commit together. It journals an intent, changes the directory so *)
(* that the old file is kept under a hidden name, commits the rows, and    *)
(* cleans up. On an error it undoes its steps; after a crash the next      *)
(* start goes forward from rows in db_applied and back from the others.    *)
(*                                                                         *)
(* Files are inodes with one link, named after the journal row of the      *)
(* publication that made them. A version is an inode and its ctime, here a *)
(* count of the renames it went through.                                   *)
(***************************************************************************)
EXTENDS Naturals, FiniteSets

CONSTANTS
    Setups,       \* catalogue setups, each with one file role
    Paths,        \* relative paths under the program root
    Keys,         \* idempotency keys
    MaxOps,       \* bound: journal rows
    MaxWaiting,   \* bound: requests that have claimed a key and wait for the lock
    SameBytes,    \* bound: whether a replacement may upload the bytes it replaces
    MaxFaults,    \* bound: calls to the database or the file system that fail
    MaxCrashes,   \* bound: deaths of the daemon
    None

ASSUME BoundsAssumption ==
    /\ MaxOps \in Nat /\ MaxWaiting \in Nat /\ MaxFaults \in Nat /\ MaxCrashes \in Nat
    /\ SameBytes \in BOOLEAN
ASSUME NoneAssumption ==
    None \notin Nat /\ None \notin Setups /\ None \notin Paths /\ None \notin Keys

VARIABLES
    at,              \* the directory: the file at each place
    stamp,           \* per file, its renames
    row, revision,   \* catalog_files and catalog_setups.revision
    journal,         \* catalog_operations
    claim, request,  \* idempotency_requests: state, and what the hash stands for
    waiting,         \* keys whose request waits for the catalog-tree lock
    op,              \* what the holder of the lock is doing
    mode,            \* the daemon
    faults, crashes

disk   == <<at, stamp>>
rows   == <<row, revision>>
claims == <<claim, request, waiting>>
bounds == <<faults, crashes>>
vars   == <<disk, rows, journal, claims, op, mode, bounds>>

-----------------------------------------------------------------------------

Ops   == 1..MaxOps
Files == Ops

\* A catalogued path, .wsm-upload-<op>, .wsm-trash-<op>-a and .wsm-gc-<op>.
Public(p) == <<"public", p>>
Temp(o)   == <<"temp", o>>
Trash(o)  == <<"trash", o>>
Guard(o)  == <<"guard", o>>
Places    == ({"public"} \X Paths) \cup ({"temp", "trash", "guard"} \X Ops)

Version    == [file : Files, stamp : Nat]
Current(f) == [file |-> f, stamp |-> stamp[f]]

\* What a client asks for, with the revision and the version it has read.
Request == [kind : {"put", "delete"}, setup : Setups, path : Paths \cup {None}, same : BOOLEAN,
            revision : Nat, version : Version \cup {None}]

\* expected: the version a publication replaces or a delete removes.
\* prepared: the inode of the new file is in details_json.
JournalRow == [kind : {"publish", "delete"}, key : Keys, path : Paths, same : BOOLEAN,
               expected : Version \cup {None}, prepared : BOOLEAN, result : Version \cup {None},
               state : {"intent", "storage_applied", "db_applied", "completed", "failed"}]

Unused     == {o \in Ops : journal[o] = None}
Unfinished == {o \in Ops \ Unused : journal[o].state \in {"intent", "storage_applied", "db_applied"}}
Fresh      == CHOOSE o \in Unused : \A q \in Unused : o <= q

OldFile(o) == IF journal[o].expected = None THEN None ELSE journal[o].expected.file
Target(o)  == Public(journal[o].path)
SetupOf(o) == request[journal[o].key].setup

\* pc: the next step. put: the row of the publication. del: the row of the
\* delete, or of the old file of a replacement under another name. reread:
\* whether refreshCatalogFileIdentity follows the rollback of the publication.
\* gc: what is being removed, and where a success and a failure go on.
Pcs == {"idle", "insertDelete", "prepare", "link", "expose", "verify", "apply", "quarantine", "markDelete",
        "commit", "clean", "complete", "discard", "completeDelete", "remove", "unlink", "restore", "restored",
        "failDelete", "unpublish", "unpublished", "finish", "recover", "classify", "settle", "close", "refuse"}
Removal == [from : Places, of : Ops, then : Pcs, failed : Pcs]
Op == [key : Keys \cup {None}, put : Ops \cup {None}, del : Ops \cup {None}, pc : Pcs, reread : BOOLEAN,
       gc : Removal \cup {None}]
Idle == [key |-> None, put |-> None, del |-> None, pc |-> "idle", reread |-> FALSE, gc |-> None]

\* None stands for no record.
ASSUME RecordAssumption ==
    /\ None \notin Request \cup Version \cup JournalRow \cup Removal \cup [path : Paths, version : Version]
    /\ None \notin [path : Paths, file : Files]
    /\ None \notin [kind : {"put", "delete"}, setup : Setups, path : Paths \cup {None}, revision : Nat]

Init ==
    /\ at = [place \in Places |-> None]
    /\ stamp = [f \in Files |-> 0]
    /\ row = [s \in Setups |-> None]
    /\ revision = [s \in Setups |-> 1]
    /\ journal = [o \in Ops |-> None]
    /\ claim = [k \in Keys |-> "none"]
    /\ request = [k \in Keys |-> None]
    /\ waiting = {}
    /\ op = Idle
    /\ mode = "serving"
    /\ faults = 0 /\ crashes = 0

-----------------------------------------------------------------------------

Works == UNCHANGED bounds
Fault == mode = "serving" /\ faults < MaxFaults /\ faults' = faults + 1 /\ UNCHANGED crashes

At(pc)   == op.pc = pc /\ UNCHANGED <<mode, request, waiting>>
Goto(pc) == op' = IF pc = "idle" THEN Idle ELSE [op EXCEPT !.pc = pc, !.gc = None]

\* renameat2: a plain rename to a free name, and an exchange.
Rename(from, to) ==
    /\ at' = [at EXCEPT ![from] = None, ![to] = at[from]]
    /\ stamp' = [stamp EXCEPT ![at[from]] = @ + 1]
Exchange(a, b) ==
    /\ at' = [at EXCEPT ![a] = at[b], ![b] = at[a]]
    /\ stamp' = [stamp EXCEPT ![at[a]] = @ + 1, ![at[b]] = @ + 1]

\* removeRegularExpected.
Remove(from, of, then, failed) ==
    op' = [op EXCEPT !.pc = "remove", !.gc = [from |-> from, of |-> of, then |-> then, failed |-> failed]]

SetState(o, state) == journal' = [journal EXCEPT ![o].state = state]
SetClaim(k, state) == claim' = [claim EXCEPT ![k] = state]

\* refreshCatalogFileIdentity.
Reread(s, p) ==
    row' = IF row[s] # None /\ row[s].path = p
           THEN [row EXCEPT ![s].version = Current(at[Public(p)])] ELSE row

\* The request of the lock's holder, the file its setup has, and the next
\* step of an error.
R        == request[op.key]
Existing == row[R.setup]
UnwindPut == IF op.put = None THEN "finish" ELSE "unpublish"
Unwind    == IF op.del = None THEN "unpublish" ELSE "restore"

-----------------------------------------------------------------------------
\* Claiming a key and taking the lock.

Wanted(s) ==
    {r \in [kind : {"put", "delete"}, setup : {s}, path : Paths \cup {None}, same : BOOLEAN,
            revision : {revision[s]}, version : {IF row[s] = None THEN None ELSE row[s].version}] :
       /\ r.kind = "put" <=> r.path # None
       /\ r.kind = "delete" => r.version # None
       /\ r.same => SameBytes /\ r.kind = "put" /\ r.version # None}

\* claimIdempotency. A client repeats only a request it got no outcome for.
Claim(k) ==
    /\ mode = "serving" /\ claim[k] = "none"
    /\ Cardinality(waiting) < MaxWaiting
    /\ Cardinality(Unused) >= 2 * (Cardinality(waiting) + 1) + (IF op = Idle THEN 0 ELSE 1)
    /\ SetClaim(k, "in_progress")
    /\ waiting' = waiting \cup {k}
    /\ IF request[k] # None THEN UNCHANGED request
       ELSE \E s \in Setups : \E r \in Wanted(s) : request' = [request EXCEPT ![k] = r]
    /\ UNCHANGED <<disk, rows, journal, op, mode, bounds>>

\* Mutant: the alias is looked up by the version the file has now.
AliasOfCurrent(k, s) ==
    \E o \in Ops \ Unused :
        journal[o].state = "failed" /\ journal[o].key = k /\ journal[o].expected = row[s].version

\* allowRecoveredCatalogFilePrecondition.
Alias(k, s) ==
    /\ at[Public(row[s].path)] # None
    /\ Current(at[Public(row[s].path)]) = row[s].version
    /\ \E o \in Ops \ Unused :
         /\ journal[o].state = "failed" /\ journal[o].key = k
         /\ journal[o].expected = request[k].version
         /\ OldFile(o) = row[s].version.file

Accepted(k) ==
    LET r == request[k] s == request[k].setup IN
    /\ r.revision = revision[s]
    /\ row[s] = None <=> r.version = None
    /\ row[s] # None => r.version = row[s].version \/ Alias(k, s)

\* insertCatalogOperation.
Intent(kind, k, p, same, expected) ==
    journal' = [journal EXCEPT ![Fresh] =
        [kind |-> kind, key |-> k, path |-> p, same |-> same, expected |-> expected, prepared |-> FALSE,
         result |-> None, state |-> "intent"]]

BeginPut(k) ==
    LET s == request[k].setup
        renamed == row[s] # None /\ row[s].path # request[k].path IN
    /\ request[k].kind = "put"
    /\ Intent("publish", k, request[k].path, request[k].same /\ ~renamed,
              IF row[s] = None \/ renamed THEN None ELSE row[s].version)
    /\ op' = [Idle EXCEPT !.key = k, !.put = Fresh, !.pc = IF renamed THEN "insertDelete" ELSE "prepare"]

BeginDelete(k) ==
    LET s == request[k].setup IN
    /\ request[k].kind = "delete"
    /\ Intent("delete", k, row[s].path, FALSE, row[s].version)
    /\ op' = [Idle EXCEPT !.key = k, !.del = Fresh, !.pc = "quarantine"]

Lock(k) ==
    /\ mode = "serving" /\ op = Idle /\ k \in waiting
    /\ waiting' = waiting \ {k}
    /\ \/ Accepted(k) /\ Works /\ (BeginPut(k) \/ BeginDelete(k))
       \/ /\ (~Accepted(k) /\ Works) \/ (Accepted(k) /\ Fault)
          /\ op' = [Idle EXCEPT !.key = k, !.pc = "finish"]
          /\ UNCHANGED journal
    /\ UNCHANGED <<disk, rows, claim, request, mode>>

-----------------------------------------------------------------------------
\* PutCatalogFile.

InsertDelete ==
    /\ At("insertDelete")
    /\ \/ /\ Works /\ Intent("delete", op.key, Existing.path, FALSE, Existing.version)
          /\ op' = [op EXCEPT !.del = Fresh, !.pc = "prepare"]
       \/ Fault /\ Goto("finish") /\ UNCHANGED journal
    /\ UNCHANGED <<disk, rows, claim>>

\* Mutant: the inode is not journaled.
PrepareUnjournaled ==
    /\ At("prepare") /\ Works /\ Goto("link")
    /\ UNCHANGED <<disk, rows, journal, claim>>

\* The inode of the unnamed file is journaled before it gets a name.
Prepare ==
    /\ At("prepare")
    /\ \/ Works /\ Goto("link") /\ journal' = [journal EXCEPT ![op.put].prepared = TRUE]
       \/ Fault /\ Goto("finish") /\ SetState(op.put, "failed")
    /\ UNCHANGED <<disk, rows, claim>>

Linked ==
    /\ at' = [at EXCEPT ![Temp(op.put)] = op.put]
    /\ stamp' = [stamp EXCEPT ![op.put] = @ + 1]

Link ==
    /\ At("link")
    /\ \/ Works /\ Linked /\ Goto("expose")
       \/ Fault /\ UNCHANGED disk /\ Goto("finish")
       \/ Fault /\ Linked /\ (Goto("finish") \/ Remove(Temp(op.put), op.put, "finish", "finish"))
    /\ UNCHANGED <<rows, journal, claim>>

\* The target is what the journal says it is.
Matches(o) ==
    IF journal[o].expected = None THEN at[Target(o)] = None
    ELSE at[Target(o)] # None /\ Current(at[Target(o)]) = journal[o].expected

Expose ==
    /\ At("expose")
    /\ \/ /\ Works /\ Matches(op.put) /\ Goto("verify")
          /\ IF journal[op.put].expected = None THEN Rename(Temp(op.put), Target(op.put))
             ELSE Exchange(Temp(op.put), Target(op.put))
       \/ /\ (~Matches(op.put) /\ Works) \/ (Matches(op.put) /\ Fault)
          /\ Remove(Temp(op.put), op.put, "finish", "finish") /\ UNCHANGED disk
    /\ UNCHANGED <<rows, journal, claim>>

\* Up to publish's return an error is undone only if both stats are known,
\* and the row is not reread.
Verify ==
    /\ At("verify")
    /\ \/ Works /\ Goto("apply")
       \/ Fault /\ (Goto("finish") \/ Goto("unpublish"))
    /\ UNCHANGED <<disk, rows, journal, claim>>

ApplyStorage ==
    /\ At("apply")
    /\ \/ /\ Works
          /\ journal' = [journal EXCEPT ![op.put].state = "storage_applied", ![op.put].result = Current(op.put)]
          /\ op' = [op EXCEPT !.pc = IF op.del = None THEN "commit" ELSE "quarantine", !.reread = TRUE]
       \/ Fault /\ UNCHANGED journal /\ op' = [op EXCEPT !.pc = "unpublish", !.reread = TRUE]
    /\ UNCHANGED <<disk, rows, claim>>

\* Quarantine; a replacement does not restore what a failed one left hidden.
Quarantine ==
    /\ At("quarantine")
    /\ \/ Works /\ Matches(op.del) /\ Rename(Target(op.del), Trash(op.del)) /\ Goto("markDelete")
       \/ ((~Matches(op.del) /\ Works) \/ (Matches(op.del) /\ Fault)) /\ UNCHANGED disk /\ Goto(UnwindPut)
       \/ /\ Fault /\ Matches(op.del) /\ Goto(UnwindPut)
          /\ stamp' = [stamp EXCEPT ![at[Target(op.del)]] = @ + 2] /\ UNCHANGED at
       \/ /\ Fault /\ Matches(op.del) /\ Rename(Target(op.del), Trash(op.del))
          /\ Goto(IF op.put = None THEN "restore" ELSE "unpublish")
    /\ UNCHANGED <<rows, journal, claim>>

MarkDelete ==
    /\ At("markDelete")
    /\ \/ Works /\ SetState(op.del, "storage_applied") /\ Goto("commit")
       \/ Fault /\ UNCHANGED journal /\ Goto("restore")
    /\ UNCHANGED <<disk, rows, claim>>

Taken == \E s \in Setups \ {R.setup} : row[s] # None /\ row[s].path = R.path

\* The transaction.
Commit ==
    /\ At("commit") /\ Works
    /\ op.put # None => ~Taken
    /\ R.revision = revision[R.setup]
    /\ row' = [row EXCEPT ![R.setup] =
                  IF op.put = None THEN None ELSE [path |-> R.path, version |-> journal[op.put].result]]
    /\ revision' = [revision EXCEPT ![R.setup] = @ + 1]
    /\ journal' = [o \in Ops |-> IF o \in {op.put, op.del} /\ journal[o].state = "storage_applied"
                                 THEN [journal[o] EXCEPT !.state = "db_applied"] ELSE journal[o]]
    /\ SetClaim(op.key, "completed")
    /\ Goto(IF op.put = None THEN "discard" ELSE "clean")
    /\ UNCHANGED disk

Abort ==
    /\ At("commit")
    /\ IF op.put # None /\ Taken THEN Works ELSE Fault
    /\ Goto(Unwind)
    /\ UNCHANGED <<disk, rows, journal, claim>>

\* CatalogPublication.Commit.
Clean ==
    /\ At("clean")
    /\ \/ /\ Works
          /\ IF journal[op.put].expected = None THEN Goto("complete")
             ELSE Remove(Temp(op.put), op.put, "complete", "idle")
       \/ Fault /\ Goto("idle")
    /\ UNCHANGED <<disk, rows, journal, claim>>

\* An error here is ignored.
Complete ==
    /\ At("complete")
    /\ (Works /\ SetState(op.put, "completed")) \/ (Fault /\ UNCHANGED journal)
    /\ Goto(IF op.del = None THEN "idle" ELSE "discard")
    /\ UNCHANGED <<disk, rows, claim>>

Discard ==
    /\ At("discard")
    /\ \/ Works /\ Remove(Trash(op.del), op.del, "completeDelete", "idle")
       \/ Fault /\ Goto("idle")
    /\ UNCHANGED <<disk, rows, journal, claim>>

CompleteDelete ==
    /\ At("completeDelete")
    /\ (Works /\ SetState(op.del, "completed")) \/ (Fault /\ UNCHANGED journal)
    /\ Goto("idle")
    /\ UNCHANGED <<disk, rows, claim>>

\* removeRegularExpected moves the file aside, then unlinks it.
MoveAside ==
    /\ At("remove")
    /\ \/ /\ Works /\ Rename(op.gc.from, Guard(op.gc.of))
          /\ op' = [op EXCEPT !.pc = "unlink"]
       \/ Fault /\ (UNCHANGED disk \/ Rename(op.gc.from, Guard(op.gc.of))) /\ Goto(op.gc.failed)
    /\ UNCHANGED <<rows, journal, claim>>

Unlinked == at' = [at EXCEPT ![Guard(op.gc.of)] = None]

Unlink ==
    /\ At("unlink")
    /\ \/ Works /\ Unlinked /\ Goto(op.gc.then)
       \/ Fault /\ (UNCHANGED at \/ Unlinked) /\ Goto(op.gc.failed)
    /\ UNCHANGED <<stamp, rows, journal, claim>>

-----------------------------------------------------------------------------
\* Undoing, in a request or in recovery.

\* CatalogQuarantine.Restore.
Restore ==
    /\ At("restore")
    /\ \/ Works /\ at[Target(op.del)] = None /\ Rename(Trash(op.del), Target(op.del)) /\ Goto("restored")
       \/ ((at[Target(op.del)] # None /\ Works) \/ Fault) /\ UNCHANGED disk /\ Goto(UnwindPut)
       \/ /\ Fault /\ at[Target(op.del)] = None /\ Rename(Trash(op.del), Target(op.del))
          /\ Goto(UnwindPut)
    /\ UNCHANGED <<rows, journal, claim>>

RereadRestored ==
    /\ At("restored")
    /\ (Works /\ Reread(SetupOf(op.del), journal[op.del].path)) \/ (Fault /\ UNCHANGED row)
    /\ Goto(IF mode = "serving" THEN "failDelete" ELSE "settle")
    /\ UNCHANGED <<disk, revision, journal, claim>>

FailDelete ==
    /\ At("failDelete")
    /\ (Works /\ SetState(op.del, "failed")) \/ (Fault /\ UNCHANGED journal)
    /\ Goto(UnwindPut)
    /\ UNCHANGED <<disk, rows, claim>>

\* Mutant: the rollback removes the hidden file without exchanging it.
UndoExposureNever(o) == UNCHANGED disk

\* CatalogPublication.Rollback.
UndoExposure(o) == IF journal[o].expected = None THEN UNCHANGED disk ELSE Exchange(Temp(o), Target(o))
UndoRemoval(o, then, failed) ==
    Remove(IF journal[o].expected = None THEN Target(o) ELSE Temp(o), o, then, failed)

Unpublish ==
    /\ At("unpublish")
    /\ \/ /\ Works /\ UndoExposure(op.put)
          /\ UndoRemoval(op.put, IF op.reread /\ journal[op.put].expected # None THEN "unpublished" ELSE "finish",
                         "finish")
       \/ Fault /\ (UNCHANGED disk \/ UndoExposure(op.put)) /\ Goto("finish")
    /\ UNCHANGED <<rows, journal, claim>>

RereadReplaced ==
    /\ At("unpublished")
    /\ (Works /\ Reread(SetupOf(op.put), journal[op.put].path)) \/ (Fault /\ UNCHANGED row)
    /\ Goto(IF mode = "serving" THEN "finish" ELSE "settle")
    /\ UNCHANGED <<disk, revision, journal, claim>>

\* finishCatalogClaim. The journal row of the publication keeps its state.
Finish ==
    /\ At("finish")
    /\ (Works /\ SetClaim(op.key, "failed")) \/ (Fault /\ UNCHANGED claim)
    /\ Goto("idle")
    /\ UNCHANGED <<disk, rows, journal>>

-----------------------------------------------------------------------------
\* Death, start and recovery. An error of a call in recovery ends the start,
\* which Crash covers.

Crash ==
    /\ mode \in {"serving", "recovering"} /\ crashes < MaxCrashes
    /\ mode' = "down" /\ crashes' = crashes + 1
    /\ op' = Idle /\ waiting' = {}
    /\ UNCHANGED <<disk, rows, journal, claim, request, faults>>

\* database recovery: claims with nothing to recover become conflicts.
Start ==
    /\ mode = "down"
    /\ mode' = "recovering"
    /\ claim' = [k \in Keys |-> IF claim[k] = "in_progress" /\ \A o \in Unfinished : journal[o].key # k
                                THEN "conflict" ELSE claim[k]]
    /\ op' = [Idle EXCEPT !.pc = "recover"]
    /\ UNCHANGED <<disk, rows, journal, request, waiting, bounds>>

\* ORDER BY created_at, id: the two rows of one request may share a time.
Due(o) ==
    /\ o \in Unfinished
    /\ \A q \in Unfinished :
         \/ q >= o
         \/ q = o - 1 /\ journal[q].key = journal[o].key /\ journal[q].kind # journal[o].kind

Committed(o) == journal[o].state = "db_applied"
Discards(o)  == IF journal[o].kind = "publish" /\ ~Committed(o) THEN o ELSE OldFile(o)

\* A guard file is unlinked if it is what this direction discards.
Recover(o) ==
    /\ At("recover") /\ Due(o)
    /\ op' = [op EXCEPT !.pc = IF \/ at[Guard(o)] = None
                                  \/ at[Guard(o)] = Discards(o) /\ (journal[o].kind = "delete" => Committed(o))
                               THEN "classify" ELSE "refuse",
                        !.put = IF journal[o].kind = "publish" THEN o ELSE None,
                        !.del = IF journal[o].kind = "delete" THEN o ELSE None]
    /\ at' = [at EXCEPT ![Guard(o)] = IF op'.pc = "classify" THEN None ELSE @]
    /\ UNCHANGED <<stamp, rows, journal, claim, bounds>>

\* Equal contents are told apart by version.
TargetOld(o) ==
    /\ at[Target(o)] # None /\ OldFile(o) # None
    /\ IF journal[o].same THEN Current(at[Target(o)]) = journal[o].expected ELSE at[Target(o)] = OldFile(o)
TargetNew(o) ==
    /\ at[Target(o)] = o /\ journal[o].prepared
    /\ journal[o].same => journal[o].result \in {None, Current(o)}

Recognised(o) ==
    /\ at[Target(o)] = None \/ TargetOld(o) \/ TargetNew(o)
    /\ at[Temp(o)] \in {None, OldFile(o)} \/ (at[Temp(o)] = o /\ journal[o].prepared)
    /\ Committed(o) => TargetNew(o) /\ at[Temp(o)] # o
    /\ at[Temp(o)] = o => ~TargetNew(o)
    /\ at[Temp(o)] # None /\ at[Temp(o)] = OldFile(o) => TargetNew(o)
    /\ ~Committed(o) /\ TargetNew(o) /\ OldFile(o) # None => at[Temp(o)] = OldFile(o)

RecoverPublication ==
    LET o == op.put IN
    /\ At("classify") /\ o # None
    /\ \/ ~Recognised(o) /\ Goto("refuse") /\ UNCHANGED disk
       \/ /\ Recognised(o) /\ Committed(o) /\ UNCHANGED disk
          /\ IF at[Temp(o)] = None THEN Goto("unpublished")
             ELSE Remove(Temp(o), o, "unpublished", "refuse")
       \/ /\ Recognised(o) /\ ~Committed(o) /\ TargetOld(o) /\ UNCHANGED disk
          /\ IF at[Temp(o)] = None THEN Goto("unpublished")
             ELSE Remove(Temp(o), o, "unpublished", "refuse")
       \/ /\ Recognised(o) /\ ~Committed(o) /\ TargetNew(o) /\ UndoExposure(o)
          /\ UndoRemoval(o, IF OldFile(o) = None THEN "settle" ELSE "unpublished", "refuse")
       \/ /\ Recognised(o) /\ ~Committed(o) /\ at[Target(o)] = None /\ UNCHANGED disk
          /\ IF at[Temp(o)] = None THEN Goto("settle") ELSE Remove(Temp(o), o, "settle", "refuse")
    /\ UNCHANGED <<rows, journal, claim, bounds>>

\* Where the removed file is: at its path, hidden, or nowhere.
InPlace(d) == at[Target(d)] = OldFile(d) /\ at[Trash(d)] = None
Hidden(d)  == at[Target(d)] = None /\ at[Trash(d)] = OldFile(d)
Gone(d)    == at[Target(d)] = None /\ at[Trash(d)] = None

RecoverQuarantine ==
    LET d == op.del IN
    /\ At("classify") /\ d # None
    /\ \/ Hidden(d) /\ Committed(d) /\ Remove(Trash(d), d, "settle", "refuse") /\ UNCHANGED disk
       \/ Hidden(d) /\ ~Committed(d) /\ Goto("restored") /\ Rename(Trash(d), Target(d))
       \/ InPlace(d) /\ ~Committed(d) /\ Goto("restored") /\ UNCHANGED disk
       \/ Gone(d) /\ Committed(d) /\ Goto("settle") /\ UNCHANGED disk
       \/ /\ ~Hidden(d) /\ ~(InPlace(d) /\ ~Committed(d)) /\ ~(Gone(d) /\ Committed(d))
          /\ Goto("refuse") /\ UNCHANGED disk
    /\ UNCHANGED <<rows, journal, claim, bounds>>

Recovered == IF op.put = None THEN op.del ELSE op.put

\* Mutant: a claim that already has an outcome is released.
SettleAnyClaim ==
    /\ At("settle")
    /\ SetClaim(journal[Recovered].key, IF Committed(Recovered) THEN "completed" ELSE "none")
    /\ Goto("close")
    /\ UNCHANGED <<disk, rows, journal, bounds>>

\* finishRecoveredCatalogClaim.
Settle ==
    /\ At("settle")
    /\ LET k == journal[Recovered].key IN
       IF claim[k] # "in_progress" THEN UNCHANGED claim
       ELSE SetClaim(k, IF Committed(Recovered) THEN "completed" ELSE "none")
    /\ Goto("close")
    /\ UNCHANGED <<disk, rows, journal, bounds>>

Close ==
    /\ At("close")
    /\ SetState(Recovered, IF Committed(Recovered) THEN "completed" ELSE "failed")
    /\ op' = [Idle EXCEPT !.pc = "recover"]
    /\ UNCHANGED <<disk, rows, claim, bounds>>

Ready ==
    /\ mode = "recovering" /\ op.pc = "recover" /\ Unfinished = {}
    /\ mode' = "serving" /\ op' = Idle
    /\ UNCHANGED <<disk, rows, journal, claims, bounds>>

\* The start fails, and every later one on the same row.
Refuse ==
    /\ mode = "recovering" /\ op.pc = "refuse"
    /\ mode' = "refused" /\ op' = Idle
    /\ UNCHANGED <<disk, rows, journal, claims, bounds>>

-----------------------------------------------------------------------------

Step ==
    \/ InsertDelete \/ Prepare \/ Link \/ Expose \/ Verify \/ ApplyStorage \/ Quarantine \/ MarkDelete
    \/ Commit \/ Abort \/ Clean \/ Complete \/ Discard \/ CompleteDelete \/ MoveAside \/ Unlink
    \/ Restore \/ RereadRestored \/ FailDelete \/ Unpublish \/ RereadReplaced \/ Finish
    \/ (\E o \in Ops : Recover(o)) \/ RecoverPublication \/ RecoverQuarantine \/ Settle \/ Close
    \/ Ready \/ Refuse

Next == Step \/ Start \/ Crash \/ \E k \in Keys : Claim(k) \/ Lock(k)

Spec == Init /\ [][Next]_vars

-----------------------------------------------------------------------------
\* Properties.

\* TYPE: names, files and states stay in their domains.
TypeOK ==
    /\ at \in [Places -> Files \cup {None}] /\ stamp \in [Files -> Nat]
    /\ row \in [Setups -> [path : Paths, version : Version] \cup {None}] /\ revision \in [Setups -> Nat]
    /\ journal \in [Ops -> JournalRow \cup {None}]
    /\ claim \in [Keys -> {"none", "in_progress", "completed", "failed", "conflict"}]
    /\ request \in [Keys -> Request \cup {None}] /\ waiting \subseteq Keys
    /\ op \in Op /\ mode \in {"serving", "down", "recovering", "refused"}
    /\ faults \in 0..MaxFaults /\ crashes \in 0..MaxCrashes

\* FilesKept: the variables keep their types, and the file a row of catalog_files names exists, at its path or
\* under a name that is not about to be unlinked; and the path is empty only
\* while the journal holds a delete of that file: a replacement under the
\* same name never takes the program away from the machine, nor does the
\* recovery of one.
FilesKept ==
    /\ TypeOK
    /\ \A s \in Setups : row[s] # None =>
          /\ \E place \in Places : place[1] # "guard" /\ at[place] = row[s].version.file
          /\ at[Public(row[s].path)] = None =>
                \E o \in Unfinished : journal[o].kind = "delete" /\ OldFile(o) = row[s].version.file

RowAt(p) == {s \in Setups : row[s] # None /\ row[s].path = p}

\* No call has failed, and only one setup has had requests: a name that
\* another setup uses is an error as well.
Undisturbed ==
    /\ faults = 0
    /\ \A k, l \in Keys : request[k] = None \/ request[l] = None \/ request[k].setup = request[l].setup

\* The directory holds exactly the catalogued files, in the catalogued
\* versions, nothing is hidden and the journal is closed.
Agrees ==
    /\ \A p \in Paths :
         IF at[Public(p)] = None THEN RowAt(p) = {}
         ELSE \E s \in Setups : RowAt(p) = {s} /\ row[s].version = Current(at[Public(p)])
    /\ \A place \in Places : place[1] # "public" => at[place] = None
    /\ Unfinished = {}

\* RecoveryRestores: whatever steps crashes interrupted, of requests or of
\* recovery itself, a start never gives up on the journal it finds, and when
\* no request is under way the directory agrees with the rows. It holds as
\* long as nothing else went wrong: a row that an error left in intent makes
\* a later start refuse.
RecoveryRestores ==
    Undisturbed =>
        /\ mode # "refused"
        /\ mode = "serving" /\ op = Idle => Agrees

\* RetryAccepted: a repeated request is not turned away for a version that
\* only the undoing of its own first attempt has changed.
RetryAccepted ==
    \A k \in waiting :
        LET r == request[k] s == request[k].setup IN
        /\ faults = 0 /\ op = Idle
        /\ r.revision = revision[s] /\ r.version # None
        /\ \A o \in Ops \ Unused :
             journal[o].state = "failed" /\ OldFile(o) = r.version.file => journal[o].key = k
        => Accepted(k)

\* Atomic: CatalogFiles implements CatalogAtomic.
Atomic == INSTANCE CatalogAtomic WITH
    files <- [s \in Setups |-> IF row[s] = None THEN None
                               ELSE [path |-> row[s].path, file |-> row[s].version.file]],
    asked <- [k \in Keys |-> IF request[k] = None THEN None
                             ELSE [kind |-> request[k].kind, setup |-> request[k].setup,
                                   path |-> request[k].path, revision |-> request[k].revision]],
    outcome <- [k \in Keys |-> CASE claim[k] = "in_progress" -> "pending"
                                 [] claim[k] = "completed" -> "done"
                                 [] claim[k] \in {"failed", "conflict"} -> "failed"
                                 [] OTHER -> "none"]
ImplementsAtomic == Atomic!Spec

=============================================================================
