-------------------------------- MODULE Library --------------------------------
(***************************************************************************)
(* The managed library as a whole: the object store, the mutations of      *)
(* setups and the import, with their shared tables, locks and files.       *)
(***************************************************************************)
EXTENDS Artifacts, Imports

Locks == Keys \cup Setups \cup {ImportLock}
NoSight == [expects |-> None, published |-> 0, room |-> 0, existing |-> FALSE, snapshot |-> <<>>]

\* Every artifact there is at first has its file and its row.
Init ==
    /\ plan \in Plans
    /\ arts = plan.arts
    /\ files = [k \in Keys |-> IF CountedRefs(k) THEN 1 ELSE 0]
    /\ born = files
    /\ staging = {}
    /\ objects = [k \in Keys |-> IF CountedRefs(k) THEN (CHOOSE a \in arts : a.key = k).role ELSE None]
    /\ revision = [s \in Setups |-> 1]
    /\ attention = {}
    /\ journal = [o \in Ops |-> [i \in 1..2 |-> "none"]]
    /\ session = IF plan.import
                 THEN [state |-> "staging", bytes |-> 0, setup |-> None, job |-> "running", expired |-> FALSE]
                 ELSE None
    /\ items = [n \in Names |-> None]
    /\ claims = [i \in Ops |-> None]
    /\ locks = [l \in Locks |-> None]
    /\ heavy = {} /\ writer = None
    /\ pc = [o \in Ops |-> IF o \in Asked THEN "idle" ELSE "done"]
    /\ seen = [o \in Ops |-> NoSight]
    /\ got = [o \in Ops |-> <<>>]
    /\ todo = [o \in Ops |-> {}]
    /\ fate = [o \in Ops |-> None]
    /\ mode = "up"
    /\ faults = IF plan.calm THEN MaxFaults ELSE 0
    /\ stops = IF plan.calm THEN MaxStops ELSE 0
    /\ outside = IF plan.calm THEN MaxOutside ELSE 0
    /\ touched = {}

Next == StoreNext \/ ArtifactsNext \/ ImportsNext
Spec == Init /\ [][Next]_vars

\* What an operation does without being asked again.
Work(o) ==
    \/ Stage(o) \/ StageFails(o) \/ Reserve(o) \/ Publish(o) \/ MarkStored(o) \/ AbandonPrepare(o) \/ Undo(o)
    \/ AfterFailed(o) \/ AfterOld(o) \/ AfterPrepared(o) \/ Claim(o) \/ Finish(o)
    \/ \E k \in Keys : Spare(o, k) \/ Unlink(o, k) \/ EndUnlink(o, k)
    \/ Enter(o) \/ Commit(o) \/ Refuse(o) \/ Alter(o) \/ KeepPrimary(o) \/ Replay(o) \/ Decline(o)
    \/ StoreUpload(o) \/ RefuseUpload(o) \/ RecordFailure(o) \/ BeginCommit(o) \/ Verify(o) \/ PublishSetup(o)
Recover == Start \/ OperationsRecovered \/ RecoverImports \/ \E o \in Asked, i \in 1..2 : RecoverOperation(o, i)

\* The goroutines of the requests run and the maintenance comes round; the service manager starts the process
\* again.  Nothing is assumed of the order in which the requests get a lock.
Serving == \E o \in Asked : Ask(o).kind # "collect" /\ Work(o)
Maintaining == \E o \in Asked : Ask(o).kind = "collect" /\ (Work(o) \/ Collect(o) \/ Expire(o))
FairSpec == Spec /\ WF_vars(Serving) /\ WF_vars(Maintaining) /\ WF_vars(Recover)

-----------------------------------------------------------------------------

\* Every table holds what its column allows.
TypeOK ==
    /\ \A k \in Keys : files[k] \in 0..born[k] /\ objects[k] \in Roles \cup {None}
    /\ staging \subseteq Asked /\ heavy \subseteq Asked /\ Cardinality(heavy) <= MaxHeavy
    /\ \A a \in arts : a.setup \in Setups /\ a.role \in Roles /\ a.name \in Names /\ a.key \in Keys /\ a.primary \in BOOLEAN
    /\ \A o \in Ops, i \in 1..2 : journal[o][i] \in Active \cup {"none", "completed", "failed", "conflict"}
    /\ \A n \in Names : items[n] # None =>
          items[n].state \in {"uploading", "staged", "excluded", "published", "failed"} /\ items[n].key \in Keys \cup {None}
    /\ mode \in {"up", "down", "operations", "imports"} /\ writer \in Asked \cup {None}

\* What an artifact or a staged item of the import refers to is there, as it was written: no collection, failed
\* operation or end of the process takes it away (the order of reservation, publication, reference and unlink).
Kept(key, version) == key \in touched \/ (files[key] = version /\ objects[key] # None)
ReferencedKept ==
    /\ \A a \in arts : Kept(a.key, a.version)
    /\ \A n \in ItemsIn({"staged"}) : Kept(items[n].key, items[n].version)

\* Every managed file has its row, whatever has failed or stopped between the two: there is no file that no
\* collection will ever find (the row is written before the file is published and deleted after it is unlinked).
FilesHaveRows == \A k \in Keys : files[k] # 0 => objects[k] # None

\* Between its publication and the transaction that refers to it a prepared file is neither collected nor given up,
\* so that the transaction finds the reservation it completes (ensurePreparedObjectTx's "no longer active" is unreachable).
PreparedKept ==
    \A o \in Asked : pc[o] \in {"claim", "change"} => \A i \in 1..Len(got[o]) :
        journal[o][i] = "stored" /\ Kept(Ask(o).files[i].key, got[o][i])

\* A setup is left with one program that is not primary only by a deletion of its primary program, where the client
\* has said so (deleteArtifact's "single-program primary invariant").
Lone(s) == Cardinality(Programs(s)) = 1 /\ ~\E a \in Programs(s) : a.primary
SolePrimary ==
    [][\A s \in Setups : Lone(s)' /\ ~Lone(s) => \E a \in Programs(s) : a.primary /\ a \notin Programs(s)']_vars

\* What the import counts is what it holds, and never more than its limit, however its uploads overlap.
ImportWithinLimit == Staging => session.bytes = StagedBytes /\ StagedBytes <= ImportLimit

\* An import becomes one setup or none: the imported artifacts are those of one commit, a cancelled or expired
\* session has none and keeps no object (FR-IMPORT-008, FR-IMPORT-013).
Imported == {a \in arts : a.id[1] \in Asked /\ Ask(a.id[1]).kind = "commit"}
ImportEndsOnce ==
    session # None =>
        /\ \A a \in Imported : a.id[1] = session.setup
        /\ session.state = "cancelled" => session.setup = None /\ \A n \in Names : items[n] = None \/ items[n].key = None
        /\ session.state = "succeeded" => \E n \in ItemsIn({"published"}) : items[n].role = "program"

\* What nothing refers to is collected in the end, also after a failed collection or a restart.
Orphan(k) == (files[k] # 0 \/ objects[k] # None) /\ ~Referenced(k)
Maintained == \E o \in Asked : Ask(o).kind = "collect"
OrphansCollected == []<>(Maintained => \A k \in Keys : ~Orphan(k))

\* Every operation ends, and gives back its locks, its slot and its staged file: the order in which the setup's
\* lock, the slot, the content's lock and the transaction are taken leaves nobody waiting for ever.
Ended(o) == pc[o] \in {"idle", "done"} /\ o \notin heavy \cup staging /\ \A l \in Locks : locks[l] # o
OperationsEnd == []<>(\A o \in Asked : Ended(o))

\* Variables keep their types, and no file, row or reservation of an object is lost or left without the others.
ObjectsKept == TypeOK /\ ReferencedKept /\ FilesHaveRows /\ PreparedKept

\* An import holds what it counts, within its limit, and ends as one setup or none.
ImportsWhole == ImportWithinLimit /\ ImportEndsOnce

\* Every operation ends, and what none of them refers to any more is collected.
AllEnds == OrphansCollected /\ OperationsEnd

===============================================================================
