------------------------------ MODULE ObjectStore ------------------------------
(***************************************************************************)
(* The managed objects of websetupmanager's older API: immutable files     *)
(* named by their content, the rows that describe them, and the journal    *)
(* that reserves them (storage/store_linux.go, and in service/ the parts   *)
(* of artifacts.go, reconcile.go and recovery.go that publish, collect     *)
(* and recover objects).                                                   *)
(*                                                                         *)
(* A file is staged, its row and a reservation are written, the file is    *)
(* renamed into place, the reservation is marked, and the reference is     *)
(* written much later; what is not referenced is unlinked inside a         *)
(* transaction that commits afterwards.  The process may stop between any  *)
(* two of those steps.  Artifacts and Imports are the operations that      *)
(* publish and refer; they extend this module and share its tables.        *)
(***************************************************************************)
EXTENDS Naturals, Sequences, FiniteSets

CONSTANTS
    Setups, Keys, Names,
    Requests,       \* bound: what the clients may ask
    Plans,          \* bound: which requests come together, and the artifacts there are at first
    Size,           \* the size of each content
    MaxHeavy,       \* the configured number of parallel heavy jobs
    ImportLimit,    \* the configured limit of an import session
    MaxFaults, MaxStops, MaxOutside,    \* bounds
    None

Roles == {"program", "sheet"}
Kinds == {"add", "replace", "sheet", "rename", "delete", "primary", "collect",
          "start", "upload", "exclude", "commit", "cancel"}

\* Ops are the positions of a plan's requests.
Ops == 1..3

\* The rows of setup_artifacts, import_sessions and import_artifacts.  An artifact's id names the request that made it.
Art == [id : Nat \X (Nat \cup Names), setup : Setups, role : Roles, name : Names, key : Keys, version : Nat \ {0}, primary : BOOLEAN]
Session == [state : {"staging", "draft_saved", "succeeded", "cancelled"}, bytes : Nat, setup : Ops \cup {None},
            job : {"running", "failed", "succeeded", "cancelled"}, expired : BOOLEAN]
ItemRow == [state : {"uploading", "staged", "excluded", "published", "failed"}, role : Roles, key : Keys \cup {None}, version : Nat]

\* A request uploads one or two files, names one, or names none.
ASSUME RequestsAssumption ==
    \A r \in Requests :
        /\ r.kind \in Kinds /\ r.setup \in Setups /\ r.role \in Roles
        /\ r.files \in Seq([name : Names, key : Keys])
        /\ Len(r.files) \in CASE r.kind = "add" -> {1, 2}
                               [] r.kind \in {"replace", "sheet", "rename", "upload", "exclude"} -> {1}
                               [] OTHER -> {0}
        /\ (r.kind = "add" => r.role = "program") /\ (r.kind = "sheet" => r.role = "sheet")
\* The artifacts of a plan are rows of requests that came before.
ASSUME PlansAssumption ==
    \A p \in Plans :
        /\ \A o \in DOMAIN p.asks : o \in Ops /\ p.asks[o] \in Requests
        /\ p.arts \subseteq Art /\ IsFiniteSet(p.arts)
        /\ \A a \in p.arts : a.id[1] = 0 /\ a.version = 1
        /\ \A a, b \in p.arts : a.id = b.id => a = b
ASSUME SizeAssumption == Size \in [Keys -> Nat]
ASSUME LimitsAssumption == MaxHeavy \in Nat \ {0} /\ ImportLimit \in Nat
ASSUME BoundsAssumption == MaxFaults \in Nat /\ MaxStops \in Nat /\ MaxOutside \in Nat
ASSUME NoneAssumption ==
    /\ None \notin Setups \cup Keys \cup Names /\ None \notin Roles /\ None \notin Ops
    /\ None \notin Session /\ None \notin ItemRow /\ None \notin Nat \X (Nat \cup Names)
\* The locks of contents, setups and the import are different ones.
ASSUME LocksAssumption == Keys \cap Setups = {} /\ "import" \notin Keys \cup Setups

VARIABLES
    files,      \* objects/: the identity of each content's file, 0 when there is none
    born,       \* how many identities each content's files have had
    staging,    \* the operations with a file in the upload staging directory
    objects,    \* storage_objects: the media type of each content's row, or None
    arts,       \* setup_artifacts
    revision, attention,    \* setups
    journal,    \* operation_journal: the reservation of each operation's each file
    session,    \* import_sessions: the one import, or None
    items,      \* import_artifacts: by name, or None
    claims,     \* idempotency_requests, by key
    locks,      \* the keyed locks of the process: of contents, setups and the import
    heavy,      \* the operations that hold a heavy-work slot
    writer,     \* the operation whose open transaction has unlinked a file, or None
    pc, seen, got, todo, fate,   \* of each operation: where it stands, what it has read, prepared and still to collect, its end
    mode,       \* the process: up, down, or recovering
    plan, faults, stops, outside, touched    \* bounds; the contents whose file somebody outside replaced

tables == <<objects, arts, revision, attention, journal, session, items, claims>>
disk   == <<files, born, staging>>
sync   == <<locks, heavy, writer>>
local  == <<pc, seen, got, todo, fate>>
bounds == <<plan, faults, stops, outside, touched>>
vars   == <<tables, disk, sync, local, mode, bounds>>

-----------------------------------------------------------------------------

Asked == DOMAIN plan.asks
Ask(o) == plan.asks[o]
Key(o) == Ask(o).files[Len(got[o]) + 1].key        \* of the file being prepared
Prepared(o) == {Ask(o).files[i].key : i \in 1..Len(got[o])}
ImportLock == "import"
Here(o) == mode = "up" /\ o \in Asked

\* A keyed lock is taken when nobody has it, a write transaction begins when none is open.
Unlocked(l) == locks[l] = None
Writable == writer = None
Release(o, ls) == [l \in DOMAIN locks |-> IF l \in ls /\ locks[l] = o THEN None ELSE locks[l]]
Goto(o, p) == pc' = [pc EXCEPT ![o] = p]

\* One of the steps of an operation fails: an I/O error, a full disk, a closed connection.
Fault == faults < MaxFaults /\ faults' = faults + 1

\* The operation ends in failure: its setup's lock is released and what it prepared is undone.
GiveUp(o) ==
    /\ fate' = [fate EXCEPT ![o] = "failed"]
    /\ locks' = Release(o, {Ask(o).setup})
    /\ Goto(o, "undo")

Active == {"intent", "stored"}

(* What refers to a content: the artifacts (ref_count, which triggers keep), the items of the import and the active reservations. *)
CountedRefs(k) == \E a \in arts : a.key = k
StagedForgotten(k) == FALSE   \* mutant
ImportRefs(k) == \E n \in Names : items[n] # None /\ items[n].state = "staged" /\ items[n].key = k
ReservedBy(o, i, k) == journal[o][i] \in Active /\ Ask(o).files[i].key = k
Reserved(k) == \E o \in Asked : \E i \in DOMAIN Ask(o).files : ReservedBy(o, i, k)
Referenced(k) == CountedRefs(k) \/ ImportRefs(k) \/ Reserved(k)

-----------------------------------------------------------------------------
(* Preparing a file: prepareArtifact and persistPreparedObject. *)

\* The readers of an import's upload: the session must still be staging, and the file fit.
Readable(o) ==
    Ask(o).kind = "upload" => session.state = "staging" /\ Size[Key(o)] <= seen[o].room

\* Stage writes the file in the staging directory, in a heavy-work slot, and its content is checked.
Stage(o) ==
    /\ Here(o) /\ pc[o] = "stage" /\ Cardinality(heavy) < MaxHeavy /\ Readable(o)
    /\ heavy' = heavy \cup {o}
    /\ staging' = staging \cup {o}
    /\ Goto(o, "reserve")
    /\ UNCHANGED <<tables, files, born, locks, writer, seen, got, todo, fate, mode, bounds>>

\* Stage discards what it wrote; the file is refused or could not be read.
StageFails(o) ==
    /\ Here(o) /\ pc[o] = "stage"
    /\ IF Readable(o) THEN Fault ELSE UNCHANGED faults
    /\ GiveUp(o)
    /\ UNCHANGED <<tables, disk, heavy, writer, seen, got, todo, mode, plan, stops, outside, touched>>

\* reservePreparedObjectTx: the row is there with the same media type, or is inserted.
RowAllows(k, media) == objects[k] \in {None, media}
RowEnsured(k, media) == objects' = [objects EXCEPT ![k] = media]

\* reservePreparedPublication, under the content's lock: the row and the reservation, in one transaction.
Reserve(o) ==
    LET k == Key(o)
        media == Ask(o).role
    IN /\ Here(o) /\ pc[o] = "reserve" /\ Unlocked(k) /\ Writable
       /\ \/ /\ RowAllows(k, media)
             /\ locks' = [locks EXCEPT ![k] = o]
             /\ RowEnsured(k, media)
             /\ journal' = [journal EXCEPT ![o][Len(got[o]) + 1] = "intent"]
             /\ Goto(o, "publish")
             /\ UNCHANGED faults
          \/ /\ RowAllows(k, media) => Fault
             /\ ~RowAllows(k, media) => UNCHANGED faults
             /\ Goto(o, "abandon")
             /\ UNCHANGED <<objects, journal, locks>>
       /\ UNCHANGED <<disk, arts, revision, attention, session, items, claims, heavy, writer,
                      seen, got, todo, fate, mode, plan, stops, outside, touched>>

\* Publish adopts the file that is there or renames the staged one into place.
Publish(o) ==
    LET k == Key(o)
        version == IF files[k] # 0 THEN files[k] ELSE born[k] + 1
    IN /\ Here(o) /\ pc[o] = "publish"
       /\ files' = [files EXCEPT ![k] = version]
       /\ born' = [born EXCEPT ![k] = IF files[k] # 0 THEN @ ELSE @ + 1]
       /\ staging' = staging \ {o}
       /\ seen' = [seen EXCEPT ![o].published = version]
       /\ Goto(o, "mark")
       /\ UNCHANGED <<tables, sync, got, todo, fate, mode, bounds>>

\* Publish fails, before the rename or after it.
PublishFails(o) ==
    LET k == Key(o) IN
    /\ Here(o) /\ pc[o] = "publish" /\ Fault
    /\ \/ UNCHANGED <<files, born>>
       \/ /\ files[k] = 0
          /\ files' = [files EXCEPT ![k] = born[k] + 1]
          /\ born' = [born EXCEPT ![k] = @ + 1]
    /\ locks' = Release(o, {k})
    /\ Goto(o, "abandon")
    /\ UNCHANGED <<tables, staging, heavy, writer, seen, got, todo, fate, mode, plan, stops, outside, touched>>

\* markPublicationStored; the lock and the slot are given back.  persistPreparedObject finds the row again.
MarkStored(o) ==
    /\ Here(o) /\ pc[o] = "mark" /\ Writable
    /\ \/ /\ journal[o][Len(got[o]) + 1] = "intent"
          /\ journal' = [journal EXCEPT ![o][Len(got[o]) + 1] = "stored"]
          /\ got' = [got EXCEPT ![o] = Append(@, seen[o].published)]
          /\ heavy' = heavy \ {o}
          /\ Goto(o, IF Len(got[o]) + 1 < Len(Ask(o).files) THEN "stage" ELSE "claim")
          /\ UNCHANGED faults
       \/ /\ Fault
          /\ Goto(o, "abandon")
          /\ UNCHANGED <<journal, got, heavy>>
    /\ locks' = Release(o, {Key(o)})
    /\ UNCHANGED <<disk, objects, arts, revision, attention, session, items, claims, writer,
                   seen, todo, fate, mode, plan, stops, outside, touched>>

\* abandonPreparedReservations, after the lock is released; its errors are not looked at.
Abandoned(o, is) == [journal EXCEPT ![o] = [i \in DOMAIN @ |-> IF i \in is /\ @[i] \in Active THEN "failed" ELSE @[i]]]

AbandonPrepare(o) ==
    /\ Here(o) /\ pc[o] = "abandon" /\ Writable
    /\ \/ journal' = Abandoned(o, {Len(got[o]) + 1}) /\ UNCHANGED faults
       \/ Fault /\ UNCHANGED journal
    /\ todo' = [todo EXCEPT ![o] = {Key(o)}]
    /\ Goto(o, "cleanFailed")
    /\ UNCHANGED <<disk, objects, arts, revision, attention, session, items, claims, sync,
                   seen, got, fate, mode, plan, stops, outside, touched>>

\* cleanupPreparedObjects: whatever has not been adopted is given up.
Undo(o) ==
    /\ Here(o) /\ pc[o] = "undo" /\ Writable
    /\ \/ journal' = Abandoned(o, 1..Len(got[o])) /\ UNCHANGED faults
       \/ Fault /\ UNCHANGED journal
    /\ todo' = [todo EXCEPT ![o] = @ \cup Prepared(o)]
    /\ Goto(o, "cleanPrepared")
    /\ UNCHANGED <<disk, objects, arts, revision, attention, session, items, claims, sync,
                   seen, got, fate, mode, plan, stops, outside, touched>>

-----------------------------------------------------------------------------
(* Collecting: cleanupStorageCandidates after an operation, GarbageCollect for the maintenance. *)

Cleaning == {"cleanFailed", "cleanOld", "cleanPrepared"}
Candidate(o, k) == Here(o) /\ pc[o] \in Cleaning /\ k \in todo[o]

\* What is left of a pass after a failure: the maintenance ends it, the others go on.
AfterFailure(o, k) == IF Ask(o).kind = "collect" THEN {} ELSE todo[o] \ {k}

\* The candidate is gone or still referred to, or the transaction cannot begin.
Spare(o, k) ==
    /\ Candidate(o, k) /\ Unlocked(k) /\ Writable
    /\ \/ /\ objects[k] = None \/ Referenced(k)
          /\ todo' = [todo EXCEPT ![o] = @ \ {k}] /\ UNCHANGED faults
       \/ Fault /\ todo' = [todo EXCEPT ![o] = AfterFailure(o, k)]
    /\ UNCHANGED <<tables, disk, sync, pc, seen, got, fate, mode, plan, stops, outside, touched>>

\* Under the content's lock, inside the transaction that read no reference: the file is unlinked.
Unlink(o, k) ==
    /\ Candidate(o, k) /\ Unlocked(k) /\ Writable
    /\ objects[k] # None /\ ~Referenced(k)
    /\ files' = [files EXCEPT ![k] = 0]
    /\ locks' = [locks EXCEPT ![k] = o]
    /\ writer' = o
    /\ UNCHANGED <<tables, born, staging, heavy, local, mode, bounds>>

\* The transaction deletes the row and commits, or is rolled back with the file gone.
EndUnlink(o, k) ==
    /\ Candidate(o, k) /\ locks[k] = o /\ writer = o
    /\ \/ /\ objects' = [objects EXCEPT ![k] = None]
          /\ todo' = [todo EXCEPT ![o] = @ \ {k}]
          /\ UNCHANGED faults
       \/ /\ Fault
          /\ todo' = [todo EXCEPT ![o] = AfterFailure(o, k)]
          /\ UNCHANGED objects
    /\ locks' = Release(o, {k})
    /\ writer' = None
    /\ UNCHANGED <<disk, arts, revision, attention, journal, session, items, claims, heavy,
                   pc, seen, got, fate, mode, plan, stops, outside, touched>>

\* GarbageCollect reads the rows that no artifact refers to; the maintenance comes back to it.
Collect(o) ==
    /\ Here(o) /\ pc[o] = "idle" /\ Ask(o).kind = "collect"
    /\ \E k \in Keys : objects[k] # None /\ ~CountedRefs(k)
    /\ todo' = [todo EXCEPT ![o] = {k \in Keys : objects[k] # None /\ ~CountedRefs(k)}]
    /\ Goto(o, "cleanPrepared")
    /\ UNCHANGED <<tables, disk, sync, seen, got, fate, mode, bounds>>

\* After a failed preparation the staged file is discarded and the slot given back; after a replacement, the setup's lock.
AfterFailed(o) ==
    /\ Here(o) /\ pc[o] = "cleanFailed" /\ todo[o] = {}
    /\ staging' = staging \ {o}
    /\ heavy' = heavy \ {o}
    /\ GiveUp(o)
    /\ UNCHANGED <<tables, files, born, writer, seen, got, todo, mode, bounds>>

\* mutant: the setup's lock is kept
AfterOldHolding(o) ==
    /\ Here(o) /\ pc[o] = "cleanOld" /\ todo[o] = {}
    /\ Goto(o, IF Ask(o).kind = "replace" THEN "undo" ELSE "done")
    /\ UNCHANGED <<tables, disk, sync, seen, got, todo, fate, mode, bounds>>

AfterOld(o) ==
    /\ Here(o) /\ pc[o] = "cleanOld" /\ todo[o] = {}
    /\ locks' = Release(o, {Ask(o).setup})
    /\ Goto(o, IF Ask(o).kind = "replace" THEN "undo" ELSE "done")
    /\ UNCHANGED <<tables, disk, heavy, writer, seen, got, todo, fate, mode, bounds>>

\* Which upload of an import records its failure, and which claim is left to finish.
ClaimedBy(o) == /\ claims[Ask(o).idem] # None
                /\ claims[Ask(o).idem].by = o
                /\ claims[Ask(o).idem].state = "in_progress"

AfterPrepared(o) ==
    /\ Here(o) /\ pc[o] = "cleanPrepared" /\ todo[o] = {}
    /\ Goto(o, CASE Ask(o).kind = "collect" -> "idle"
                 [] Ask(o).kind = "upload" /\ fate[o] = "failed" -> "record"
                 [] OTHER -> "finish")
    /\ UNCHANGED <<tables, disk, sync, seen, got, todo, fate, mode, bounds>>

-----------------------------------------------------------------------------
(* Claims of idempotency keys, in a transaction of their own. *)

SameAsked(o, p) == Ask(o) = Ask(p) /\ seen[o].expects = seen[p].expects
Replays(o) == LET c == claims[Ask(o).idem] IN
              c # None /\ c.state \in {"completed", "failed"} /\ SameAsked(o, c.by)
Fresh(o) == claims[Ask(o).idem] = None
Claimed(o, state) == [claims EXCEPT ![Ask(o).idem] = [by |-> o, state |-> state]]

\* claimIdempotency: a new claim, the stored answer, or a refusal.
Claim(o) ==
    /\ Here(o) /\ pc[o] = "claim" /\ Writable
    /\ IF Fresh(o)
       THEN /\ claims' = Claimed(o, "in_progress")
            /\ Goto(o, "change")
            /\ UNCHANGED <<locks, fate>>
       ELSE /\ fate' = [fate EXCEPT ![o] = IF Replays(o) THEN "replayed" ELSE "refused"]
            /\ locks' = Release(o, {Ask(o).setup})
            /\ Goto(o, "undo")
            /\ UNCHANGED claims
    /\ UNCHANGED <<objects, arts, revision, attention, journal, session, items, disk, heavy, writer,
                   seen, got, todo, mode, bounds>>

\* finishIdempotency of a failure, last of all.
Finish(o) ==
    /\ Here(o) /\ pc[o] = "finish" /\ Writable
    /\ claims' = IF ClaimedBy(o) THEN Claimed(o, "failed") ELSE claims
    /\ Goto(o, "done")
    /\ UNCHANGED <<objects, arts, revision, attention, journal, session, items, disk, sync,
                   seen, got, todo, fate, mode, bounds>>

-----------------------------------------------------------------------------
(* The end of the process, and what it does before it listens again. *)

Stop ==
    /\ mode # "down" /\ stops < MaxStops
    /\ stops' = stops + 1
    /\ mode' = "down"
    /\ pc' = [o \in Ops |-> IF o \in Asked /\ (pc[o] = "idle" \/ Ask(o).kind = "collect") THEN "idle" ELSE "done"]
    /\ locks' = [l \in DOMAIN locks |-> None]
    /\ heavy' = {}
    /\ writer' = None
    /\ todo' = [o \in Ops |-> {}]
    /\ UNCHANGED <<tables, disk, seen, got, fate, plan, faults, outside, touched>>

\* Open recovers the jobs and claims, and CleanupStaging empties the staging directory.
Start ==
    /\ mode = "down"
    /\ mode' = "operations"
    /\ staging' = {}
    /\ claims' = [i \in DOMAIN claims |->
                     IF claims[i] # None /\ claims[i].state = "in_progress"
                     THEN [claims[i] EXCEPT !.state = "conflict"] ELSE claims[i]]
    /\ session' = IF session = None THEN None
                  ELSE [session EXCEPT !.job = IF @ = "running" THEN "failed" ELSE @]
    /\ UNCHANGED <<files, born, objects, arts, revision, attention, journal, items, sync, local, bounds>>

\* recoverOperation: the object is as its references say, and something refers to it.
Versions(k) == {a.version : a \in {b \in arts : b.key = k}}
               \cup {items[n].version : n \in {m \in Names : ImportRefs(k) /\ items[m] # None
                                                            /\ items[m].state = "staged" /\ items[m].key = k}}
Adopted(k) == /\ CountedRefs(k) \/ ImportRefs(k)
              /\ files[k] # 0
              /\ Versions(k) = {files[k]}

\* RecoverOperations resolves one active reservation.
RecoverOperation(o, i) ==
    /\ mode = "operations" /\ o \in Asked /\ i \in DOMAIN Ask(o).files
    /\ journal[o][i] \in Active
    /\ journal' = [journal EXCEPT ![o][i] = IF Adopted(Ask(o).files[i].key) THEN "completed" ELSE "conflict"]
    /\ UNCHANGED <<disk, objects, arts, revision, attention, session, items, claims, sync, local, mode, bounds>>

OperationsRecovered ==
    /\ mode = "operations"
    /\ \A o \in Asked : \A i \in DOMAIN Ask(o).files : journal[o][i] \notin Active
    /\ mode' = "imports"
    /\ UNCHANGED <<tables, disk, sync, local, bounds>>

\* Somebody outside replaces or removes a managed file.
Touch(k) ==
    /\ files[k] # 0 /\ outside < MaxOutside
    /\ \/ files' = [files EXCEPT ![k] = 0] /\ UNCHANGED born
       \/ files' = [files EXCEPT ![k] = born[k] + 1] /\ born' = [born EXCEPT ![k] = @ + 1]
    /\ outside' = outside + 1
    /\ touched' = touched \cup {k}
    /\ UNCHANGED <<tables, staging, sync, local, mode, plan, faults, stops>>

StoreNext ==
    \/ \E o \in Asked : \/ Stage(o) \/ StageFails(o) \/ Reserve(o) \/ Publish(o) \/ PublishFails(o)
                        \/ MarkStored(o) \/ AbandonPrepare(o) \/ Undo(o)
                        \/ Collect(o) \/ AfterFailed(o) \/ AfterOld(o) \/ AfterPrepared(o)
                        \/ Claim(o) \/ Finish(o)
    \/ \E o \in Asked, k \in Keys : Spare(o, k) \/ Unlink(o, k) \/ EndUnlink(o, k)
    \/ Stop \/ Start \/ OperationsRecovered
    \/ \E o \in Asked, i \in 1..2 : RecoverOperation(o, i)
    \/ \E k \in Keys : Touch(k)

===============================================================================
