-------------------------------- MODULE Imports --------------------------------
(***************************************************************************)
(* The import of a setup (service/imports.go): a session collects uploaded *)
(* files one by one, each may be excluded again, and one transaction makes *)
(* a setup of what the operator has confirmed; or the session is cancelled *)
(* or expires, and nothing of it is kept.                                  *)
(*                                                                         *)
(* Reserving, storing and excluding an upload and the commit hold the      *)
(* session's lock; a cancellation does not, nor does the record of an      *)
(* upload's failure.  An upload is prepared between its reservation and    *)
(* its end, without the lock.  There is one session.                       *)
(***************************************************************************)
EXTENDS ObjectStore

ItemsIn(states) == {n \in Names : items[n] # None /\ items[n].state \in states}
Name(o) == Ask(o).files[1].name
Staging == session # None /\ session.state = "staging"
\* What the items hold: each byte by its item and its place in the file.
Bytes == UNION {{n} \X (1..Size[items[n].key]) : n \in ItemsIn({"staged", "published"})}
StagedBytes == Cardinality(Bytes)

Item(state, role) == [state |-> state, role |-> role, key |-> None, version |-> 0]
Emptied(n, state) == [items[n] EXCEPT !.state = state, !.key = None, !.version = 0]

\* The end of an operation whose claim is part of its transaction.
Answers(o, outcome) ==
    /\ claims' = IF outcome = "ok" THEN Claimed(o, "completed")
                 ELSE IF outcome = "failed" THEN Claimed(o, "failed") ELSE claims
    /\ fate' = [fate EXCEPT ![o] = outcome]
Stored(o) == /\ ~Fresh(o)
             /\ Answers(o, IF Replays(o) THEN "replayed" ELSE "refused")
             /\ Goto(o, "done")
             /\ UNCHANGED <<session, items, todo>>
Asks(o, kind) == Here(o) /\ pc[o] = "idle" /\ Ask(o).kind = kind

\* StartImport: the session and its job; a key makes one session only.
StartImport(o) ==
    /\ Asks(o, "start") /\ Writable
    /\ \/ Stored(o)
       \/ /\ Fresh(o) /\ session = None
          /\ session' = [state |-> "staging", bytes |-> 0, setup |-> None, job |-> "running", expired |-> FALSE]
          /\ Answers(o, "ok")
          /\ Goto(o, "done")
          /\ UNCHANGED <<items, todo>>
    /\ UNCHANGED <<disk, objects, arts, revision, attention, journal, sync, seen, got, mode, bounds>>

-----------------------------------------------------------------------------
(* Uploads. *)

\* Only one setup sheet that is not excluded: a unique index.
SheetFree(o) == Ask(o).role = "sheet" => \A n \in Names \ {Name(o)} :
                    items[n] # None /\ items[n].role = "sheet" => items[n].state = "excluded"
Existing(o) == Name(o) \in ItemsIn({"staged", "published"})
Reservable(o) == Staging /\ ~session.expired /\ (Existing(o) \/ (Name(o) \notin ItemsIn({"uploading"}) /\ SheetFree(o)))

\* ensureImportJobTx: the session's job, or a new one.
WithJob == [session EXCEPT !.job = "running"]

\* reserveImportUpload: the item is this upload's from here on; a size declared beyond the room is refused.
ReserveUpload(o) ==
    /\ Asks(o, "upload") /\ session # None /\ Unlocked(ImportLock) /\ Writable
    /\ IF Reservable(o)
       THEN /\ session' = WithJob
            /\ items' = IF Existing(o) THEN items
                        ELSE [items EXCEPT ![Name(o)] = Item("uploading", Ask(o).role)]
            /\ seen' = [seen EXCEPT ![o].room = ImportLimit - session.bytes, ![o].existing = Existing(o)]
            /\ Goto(o, "stage")
            /\ UNCHANGED fate
       ELSE /\ fate' = [fate EXCEPT ![o] = "failed"]
            /\ Goto(o, "done")
            /\ UNCHANGED <<session, items, seen>>
    /\ UNCHANGED <<disk, objects, arts, revision, attention, journal, claims, sync, got, todo, mode, bounds>>

Uploaded(o) == [items EXCEPT ![Name(o)].state = "staged", ![Name(o)].key = Ask(o).files[1].key,
                             ![Name(o)].version = got[o][1]]
Storable(o) == /\ Staging /\ ~seen[o].existing
               /\ Name(o) \in ItemsIn({"uploading"})
               /\ Size[Ask(o).files[1].key] <= ImportLimit - StagedBytes
               /\ RowAllows(Ask(o).files[1].key, Ask(o).role) /\ journal[o][1] = "stored"
Storing(o) == Here(o) /\ pc[o] = "change" /\ Ask(o).kind = "upload" /\ Unlocked(ImportLock) /\ Writable

\* The transaction that ends an upload: the reservation of the object, the item, the session's and the job's bytes, the claim.
StoreUpload(o) ==
    /\ Storing(o) /\ Storable(o)
    /\ RowEnsured(Ask(o).files[1].key, Ask(o).role)
    /\ journal' = [journal EXCEPT ![o][1] = "completed"]
    /\ items' = Uploaded(o)
    /\ session' = [session EXCEPT !.bytes = StagedBytes + Size[Ask(o).files[1].key]]
    /\ Answers(o, "ok")
    /\ Goto(o, "done")
    /\ UNCHANGED <<disk, arts, revision, attention, sync, seen, got, todo, mode, bounds>>

RefuseUpload(o) ==
    /\ Storing(o)
    /\ IF Storable(o) THEN Fault ELSE UNCHANGED faults
    /\ GiveUp(o)
    /\ UNCHANGED <<tables, disk, heavy, writer, seen, got, todo, mode, plan, stops, outside, touched>>

\* recordImportUploadFailure: without the session's lock, and not for a name that was there already.
RecordFailure(o) ==
    /\ Here(o) /\ pc[o] = "record" /\ Writable
    /\ items' = IF ~seen[o].existing /\ Name(o) \in ItemsIn({"uploading"})
                THEN [items EXCEPT ![Name(o)].state = "failed"] ELSE items
    /\ Goto(o, "finish")
    /\ UNCHANGED <<disk, objects, arts, revision, attention, journal, session, claims, sync, seen, got, todo, fate, mode, bounds>>

\* ExcludeImportArtifact; what it held is collected after the lock is released.
Exclude(o) ==
    /\ Asks(o, "exclude") /\ session # None /\ Unlocked(ImportLock) /\ Writable
    /\ \/ Stored(o)
       \/ /\ Fresh(o) /\ Staging /\ items[Name(o)] # None
          /\ items' = [items EXCEPT ![Name(o)] = Emptied(Name(o), "excluded")]
          /\ session' = [session EXCEPT !.bytes = StagedBytes - (IF Existing(o) THEN Size[items[Name(o)].key] ELSE 0)]
          /\ todo' = [todo EXCEPT ![o] = {items[Name(o)].key} \ {None}]
          /\ Answers(o, "ok")
          /\ Goto(o, "cleanPrepared")
       \/ /\ Fresh(o) /\ ~(Staging /\ items[Name(o)] # None)
          /\ Answers(o, "failed")
          /\ Goto(o, "done")
          /\ UNCHANGED <<session, items, todo>>
    /\ UNCHANGED <<disk, objects, arts, revision, attention, journal, sync, seen, got, mode, bounds>>

-----------------------------------------------------------------------------
(* The commit. *)

\* The operator confirms a set of items, one of them primary perhaps, and whether a part will do.
Confirm(o) ==
    /\ Asks(o, "commit") /\ session # None
    /\ \E primary \in ItemsIn({"staged"}) \cup {None}, partial \in BOOLEAN :
          seen' = [seen EXCEPT ![o].expects = [items |-> ItemsIn({"staged"}), primary |-> primary, partial |-> partial]]
    /\ Goto(o, "claim")
    /\ UNCHANGED <<tables, disk, sync, got, todo, fate, mode, bounds>>

Confirmed(o) == seen[o].expects.items
ProgramItems(ns) == {n \in ns : items[n].role = "program"}
Complete(o) == ItemsIn({"uploading", "failed"}) = {}

\* CommitImport, under the session's lock, reads the items in three places; a cancellation may come between.
Committable(o) ==
    LET e == seen[o].expects IN
    /\ Staging /\ ItemsIn({"staged"}) = e.items
    /\ e.partial \/ (Complete(o) /\ ProgramItems(e.items) # {})
    /\ e.primary \in ProgramItems(e.items) \cup {None}
Snapshot == [n \in ItemsIn({"staged"}) |-> <<items[n].key, items[n].version>>]

BeginCommit(o) ==
    /\ Here(o) /\ pc[o] = "change" /\ Ask(o).kind = "commit" /\ Unlocked(ImportLock)
    /\ IF Committable(o)
       THEN /\ locks' = [locks EXCEPT ![ImportLock] = o]
            /\ seen' = [seen EXCEPT ![o].snapshot = Snapshot]
            /\ Goto(o, "verify")
            /\ UNCHANGED fate
       ELSE /\ fate' = [fate EXCEPT ![o] = "failed"]
            /\ Goto(o, "finish")
            /\ UNCHANGED <<locks, seen>>
    /\ UNCHANGED <<tables, disk, heavy, writer, got, todo, mode, bounds>>

\* withImportVerificationSlot hashes every confirmed object; the monitor of the session stops it.
Verified(o) == \A n \in DOMAIN seen[o].snapshot : files[seen[o].snapshot[n][1]] = seen[o].snapshot[n][2]
Verify(o) ==
    /\ Here(o) /\ pc[o] = "verify" /\ Cardinality(heavy) < MaxHeavy
    /\ \/ Verified(o) /\ Goto(o, "publishSetup") /\ UNCHANGED <<locks, fate>>
       \/ /\ ~(Verified(o) /\ Staging)
          /\ fate' = [fate EXCEPT ![o] = "failed"]
          /\ locks' = Release(o, {ImportLock})
          /\ Goto(o, "finish")
    /\ UNCHANGED <<tables, disk, heavy, writer, seen, got, todo, mode, bounds>>

Published(o, n) ==
    [id |-> <<o, n>>, setup |-> Ask(o).setup, role |-> items[n].role, name |-> n, key |-> items[n].key,
     version |-> items[n].version,
     primary |-> items[n].role = "program" /\ (n = seen[o].expects.primary \/ ProgramItems(Confirmed(o)) = {n})]

\* The setup, its artifacts, the items without their objects, the session, its job and the claim: one transaction.
PublishSetup(o) ==
    /\ Here(o) /\ pc[o] = "publishSetup" /\ Writable
    /\ IF Staging /\ Snapshot = seen[o].snapshot
       THEN /\ arts' = arts \cup {Published(o, n) : n \in Confirmed(o)}
            /\ items' = [n \in Names |-> IF n \in Confirmed(o) THEN Emptied(n, "published") ELSE items[n]]
            /\ session' = [session EXCEPT !.state = IF seen[o].expects.partial THEN "draft_saved" ELSE "succeeded",
                                          !.setup = o, !.job = "succeeded"]
            /\ revision' = [revision EXCEPT ![Ask(o).setup] = 1]
            /\ Answers(o, "ok")
            /\ Goto(o, "done")
       ELSE /\ fate' = [fate EXCEPT ![o] = "failed"]
            /\ Goto(o, "finish")
            /\ UNCHANGED <<arts, items, session, revision, claims>>
    /\ locks' = Release(o, {ImportLock})
    /\ UNCHANGED <<objects, attention, journal, disk, heavy, writer, seen, got, todo, mode, bounds>>

-----------------------------------------------------------------------------
(* The end of a session without a setup. *)

\* cancelImport: one transaction, without the session's lock.
\* mutant: the items keep their objects
DiscardedKeeping == [n \in Names |-> IF items[n] # None THEN [items[n] EXCEPT !.state = "excluded"] ELSE None]
Discarded == [n \in Names |-> IF items[n] # None THEN Emptied(n, "excluded") ELSE None]
HeldKeys == {items[n].key : n \in {m \in Names : items[m] # None}} \ {None}
Cancelled == [session EXCEPT !.state = "cancelled", !.bytes = 0, !.job = "cancelled"]

Cancel(o) ==
    /\ Asks(o, "cancel") /\ session # None /\ Writable
    /\ \/ Stored(o)
       \/ /\ Fresh(o) /\ Staging
          /\ items' = Discarded
          /\ session' = Cancelled
          /\ todo' = [todo EXCEPT ![o] = HeldKeys]
          /\ Answers(o, "ok")
          /\ Goto(o, "cleanPrepared")
       \/ /\ Fresh(o) /\ ~Staging
          /\ Answers(o, IF session.state = "cancelled" THEN "ok" ELSE "failed")
          /\ Goto(o, "done")
          /\ UNCHANGED <<session, items, todo>>
    /\ UNCHANGED <<disk, objects, arts, revision, attention, journal, sync, seen, got, mode, bounds>>

\* The session's time is over.
Lapse ==
    /\ mode = "up" /\ Staging /\ ~session.expired /\ \E o \in Asked : Ask(o).kind = "collect"
    /\ session' = [session EXCEPT !.expired = TRUE]
    /\ UNCHANGED <<objects, arts, revision, attention, journal, items, claims, disk, sync, local, mode, bounds>>

\* CleanupExpiredImports, before GarbageCollect in the same pass; what it held is left to that.
Expire(o) ==
    /\ Asks(o, "collect") /\ Staging /\ session.expired /\ Writable
    /\ items' = Discarded
    /\ session' = Cancelled
    /\ todo' = [todo EXCEPT ![o] = HeldKeys]
    /\ Goto(o, "cleanPrepared")
    /\ UNCHANGED <<disk, objects, arts, revision, attention, journal, claims, sync, seen, got, fate, mode, bounds>>

\* RecoverImports, before the process listens: uploads have no writer any more.
RecoverImports ==
    /\ mode = "imports"
    /\ items' = [n \in Names |-> IF n \in ItemsIn({"uploading"}) /\ Staging /\ session.job # "running"
                                 THEN [items[n] EXCEPT !.state = "failed"] ELSE items[n]]
    /\ mode' = "up"
    /\ UNCHANGED <<disk, objects, arts, revision, attention, journal, session, claims, sync, local, bounds>>

ImportsNext ==
    \/ \E o \in Asked : \/ StartImport(o) \/ ReserveUpload(o) \/ StoreUpload(o) \/ RefuseUpload(o) \/ RecordFailure(o)
                        \/ Exclude(o) \/ Confirm(o) \/ BeginCommit(o) \/ Verify(o) \/ PublishSetup(o)
                        \/ Cancel(o) \/ Expire(o)
    \/ Lapse \/ RecoverImports

===============================================================================
