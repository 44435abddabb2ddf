------------------------------- MODULE Artifacts -------------------------------
(***************************************************************************)
(* The mutations of a setup's composition (service/artifacts.go): programs *)
(* and the setup sheet are added, replaced, renamed, deleted, and one      *)
(* program is made primary.                                                *)
(*                                                                         *)
(* A request carries the revision and the version its client has read.    *)
(* Additions and replacements hold the setup's lock while they prepare     *)
(* their files, a setup sheet is prepared without it; the change itself is *)
(* one transaction.  The setups of this module are never archived: what    *)
(* archiving, validation and deletion do is in Setups.                     *)
(***************************************************************************)
EXTENDS ObjectStore

Of(s, role) == {a \in arts : a.setup = s /\ a.role = role}
Programs(s) == Of(s, "program")

\* The artifact a request is about: the one it names, or the setup's sheet.
Target(o) == {a \in arts : a.setup = Ask(o).setup
                           /\ IF Ask(o).kind = "sheet" THEN a.role = "sheet" ELSE a.id = Ask(o).target}
VersionOf(a) == <<a.key, a.version>>
VersionSeen(o) == IF Target(o) = {} THEN None ELSE VersionOf(CHOOSE a \in Target(o) : TRUE)

\* The client sends its request with what it has read; a repetition is the same request.
Submit(o) ==
    /\ Here(o) /\ pc[o] = "idle" /\ Ask(o).kind \in {"add", "replace", "sheet", "rename", "delete", "primary"}
    /\ LET repeated == {p \in Asked \ {o} : Ask(p) = Ask(o) /\ pc[p] # "idle"}
           expects == IF repeated # {} THEN seen[CHOOSE p \in repeated : TRUE].expects
                      ELSE [revision |-> revision[Ask(o).setup], version |-> VersionSeen(o)]
       IN seen' = [seen EXCEPT ![o].expects = expects]
    /\ Goto(o, IF Ask(o).kind = "sheet" THEN "stage" ELSE "enter")
    /\ UNCHANGED <<tables, disk, sync, got, todo, fate, mode, bounds>>

\* AddProgramsStream and replaceArtifact take the setup's lock and load what is there.
Enter(o) ==
    /\ Here(o) /\ pc[o] = "enter" /\ Ask(o).kind \in {"add", "replace"} /\ Unlocked(Ask(o).setup)
    /\ IF Ask(o).kind = "replace" /\ Target(o) = {}
       THEN /\ fate' = [fate EXCEPT ![o] = "failed"]
            /\ Goto(o, "done")
            /\ UNCHANGED locks
       ELSE /\ locks' = [locks EXCEPT ![Ask(o).setup] = o]
            /\ Goto(o, "stage")
            /\ UNCHANGED fate
    /\ UNCHANGED <<tables, disk, heavy, writer, seen, got, todo, mode, bounds>>

-----------------------------------------------------------------------------
(* The transactions. *)

\* NextMutation and updateSetupForMutation: the revision is the one the client has read.
Current(o) == revision[Ask(o).setup] = seen[o].expects.revision
Advanced(s) == revision' = [revision EXCEPT ![s] = @ + 1]

\* ensurePreparedObjectTx, for every prepared file: the row is there and the reservation becomes completed.
Adoptable(o) == \A i \in 1..Len(got[o]) : /\ RowAllows(Ask(o).files[i].key, Ask(o).role)
                                          /\ journal[o][i] = "stored"
Adopt(o) == /\ objects' = [k \in Keys |-> IF k \in Prepared(o) THEN Ask(o).role ELSE objects[k]]
            /\ journal' = [journal EXCEPT ![o] = [i \in DOMAIN @ |-> IF i <= Len(got[o]) THEN "completed" ELSE @[i]]]

\* inspectArtifactForMutation: the file is the one the artifact was written with.
Intact(a) == files[a.key] = a.version
NameFree(s, name, id) == \A a \in arts : a.setup = s /\ a.name = name => a.id = id
AsSeen(o, a) == VersionOf(a) = seen[o].expects.version

Row(o, i, primary) ==
    [id |-> <<o, i>>, setup |-> Ask(o).setup, role |-> Ask(o).role, name |-> Ask(o).files[i].name,
     key |-> Ask(o).files[i].key, version |-> got[o][i], primary |-> primary]
Refilled(o, a) == [a EXCEPT !.name = Ask(o).files[1].name, !.key = Ask(o).files[1].key, !.version = got[o][1]]

\* A single program added to a setup that had none is its primary.
Added(o) == {Row(o, i, Ask(o).role = "program" /\ Programs(Ask(o).setup) = {} /\ Len(got[o]) = 1) : i \in 1..Len(got[o])}
AddFits(o) == \A r \in Added(o) : NameFree(r.setup, r.name, None)
RefillFits(o, a) == /\ AsSeen(o, a) /\ Intact(a) /\ a.role = Ask(o).role
                    /\ NameFree(a.setup, Ask(o).files[1].name, a.id)
NewSheet(o) == Ask(o).kind = "sheet" /\ Target(o) = {}
Fits(o) == /\ Current(o) /\ Adoptable(o)
           /\ IF Ask(o).kind = "add" THEN AddFits(o)
              ELSE IF NewSheet(o) THEN seen[o].expects.version = None /\ AddFits(o)
              ELSE \E a \in Target(o) : RefillFits(o, a)

\* PutSetupSheet takes the setup's lock for its transaction only.
Writing(o) == /\ Here(o) /\ pc[o] = "change" /\ Writable /\ Ask(o).kind \in {"add", "replace", "sheet"}
              /\ Ask(o).kind = "sheet" => Unlocked(Ask(o).setup)

Insert(o) ==
    /\ Ask(o).kind = "add" \/ NewSheet(o)
    /\ arts' = arts \cup Added(o)
    /\ locks' = Release(o, {Ask(o).setup})
    /\ Goto(o, "undo")
    /\ UNCHANGED todo

\* The old content becomes a candidate after the commit: of a replacement under the setup's lock, of a sheet without.
Refill(o) ==
    /\ Ask(o).kind # "add"
    /\ \E a \in Target(o) : /\ arts' = (arts \ {a}) \cup {Refilled(o, a)}
                            /\ todo' = [todo EXCEPT ![o] = {a.key}]
    /\ Goto(o, IF Ask(o).kind = "sheet" THEN "undo" ELSE "cleanOld")
    /\ UNCHANGED locks

\* The whole transaction: the reservations, the rows, the revision and the claim.
Commit(o) ==
    /\ Writing(o) /\ Fits(o)
    /\ Insert(o) \/ Refill(o)
    /\ Adopt(o)
    /\ Advanced(Ask(o).setup)
    /\ claims' = Claimed(o, "completed")
    /\ fate' = [fate EXCEPT ![o] = "ok"]
    /\ UNCHANGED <<disk, attention, session, items, heavy, writer, seen, got, mode, bounds>>

\* It fails; that the artifact it would replace is damaged is recorded, by commitArtifactAttentionTx, and nothing else.
Marked(o) == IF Current(o) /\ \E a \in Target(o) : AsSeen(o, a) /\ ~Intact(a)
             THEN attention \cup {Ask(o).setup} ELSE attention
Refuse(o) ==
    /\ Writing(o)
    /\ IF Fits(o) THEN Fault ELSE UNCHANGED faults
    /\ attention' = Marked(o)
    /\ GiveUp(o)
    /\ UNCHANGED <<disk, objects, arts, revision, journal, session, items, claims, heavy, writer,
                   seen, got, todo, mode, plan, stops, outside, touched>>

-----------------------------------------------------------------------------
(* The changes of one transaction, the claim included, under the setup's lock. *)

\* DeleteArtifact, with what the client chose about the primary program.
NeverPromotes(a) == FALSE   \* mutant
PromotesLast(a) == a.role = "program" /\ ~a.primary /\ Cardinality(Programs(a.setup)) = 2
                   /\ ~\E b \in Programs(a.setup) : b.primary
Deleted(a, heir) ==
    {[b EXCEPT !.primary = @ \/ b.id = heir \/ (PromotesLast(a) /\ b \in Programs(a.setup))] : b \in
        {b \in arts : b.setup = a.setup} \ {a}} \cup {b \in arts : b.setup # a.setup}

ChoiceFits(a, heir, leave) ==
    IF a.role = "program" /\ a.primary
    THEN (heir = None) = leave /\ (heir # None => \E b \in Programs(a.setup) \ {a} : b.id = heir)
    ELSE heir = None /\ ~leave

Delete(o, a) ==
    \E heir \in {b.id : b \in arts} \cup {None}, leave, confirmed \in BOOLEAN :
        /\ a.role = "program" /\ Programs(a.setup) = {a} => confirmed
        /\ ChoiceFits(a, heir, leave)
        /\ arts' = Deleted(a, heir)
        /\ todo' = [todo EXCEPT ![o] = {a.key}]
        /\ locks' = [locks EXCEPT ![a.setup] = o]
        /\ Goto(o, "cleanOld")

Rename(o, a) ==
    /\ NameFree(a.setup, Ask(o).files[1].name, a.id)
    /\ arts' = (arts \ {a}) \cup {[a EXCEPT !.name = Ask(o).files[1].name]}
    /\ Goto(o, "done")
    /\ UNCHANGED <<todo, locks>>

SetPrimary(o, a) ==
    /\ a.role = "program" /\ ~a.primary
    /\ arts' = (arts \ Programs(a.setup)) \cup {[b EXCEPT !.primary = b = a] : b \in Programs(a.setup)}
    /\ Goto(o, "done")
    /\ UNCHANGED <<todo, locks>>

Ready(o) == /\ Here(o) /\ pc[o] = "enter" /\ Ask(o).kind \in {"rename", "delete", "primary"}
            /\ Unlocked(Ask(o).setup) /\ Writable
Possible(o, a) == /\ AsSeen(o, a) /\ Intact(a)
                  /\ Ask(o).kind = "rename" => NameFree(a.setup, Ask(o).files[1].name, a.id)
                  /\ Ask(o).kind = "primary" => a.role = "program"

Alter(o) ==
    /\ Ready(o) /\ Fresh(o) /\ Current(o)
    /\ \E a \in Target(o) : /\ Possible(o, a)
                            /\ \/ Ask(o).kind = "delete" /\ Delete(o, a)
                               \/ Ask(o).kind = "rename" /\ Rename(o, a)
                               \/ Ask(o).kind = "primary" /\ SetPrimary(o, a)
    /\ Advanced(Ask(o).setup)
    /\ claims' = Claimed(o, "completed")
    /\ fate' = [fate EXCEPT ![o] = "ok"]
    /\ UNCHANGED <<disk, objects, attention, journal, session, items, heavy, writer, seen, got, mode, bounds>>

\* The program is primary already: the answer is stored and the revision stays.
KeepPrimary(o) ==
    /\ Ready(o) /\ Fresh(o) /\ Current(o) /\ Ask(o).kind = "primary"
    /\ \E a \in Target(o) : Possible(o, a) /\ a.primary
    /\ claims' = Claimed(o, "completed")
    /\ fate' = [fate EXCEPT ![o] = "ok"]
    /\ Goto(o, "done")
    /\ UNCHANGED <<disk, objects, arts, revision, attention, journal, session, items, sync, seen, got, todo, mode, bounds>>

\* The answer of the first request again, or the refusal of a key that is taken.
Replay(o) ==
    /\ Ready(o) /\ ~Fresh(o)
    /\ fate' = [fate EXCEPT ![o] = IF Replays(o) THEN "replayed" ELSE "refused"]
    /\ Goto(o, "done")
    /\ UNCHANGED <<tables, disk, sync, seen, got, todo, mode, bounds>>

\* finishLifecycleFailure keeps the claim and the failure; finishArtifactMutationAttention marks the setup as well.
\* A deletion is also declined when the client's choice about the primary program does not fit.
Decline(o) ==
    /\ Ready(o) /\ Fresh(o)
    /\ Ask(o).kind = "delete" \/ ~(Current(o) /\ \E a \in Target(o) : Possible(o, a))
    /\ claims' = Claimed(o, "failed")
    /\ attention' = Marked(o)
    /\ fate' = [fate EXCEPT ![o] = "failed"]
    /\ Goto(o, "done")
    /\ UNCHANGED <<disk, objects, arts, revision, journal, session, items, sync, seen, got, todo, mode, bounds>>

ArtifactsNext ==
    \E o \in Asked : \/ Submit(o) \/ Enter(o) \/ Commit(o) \/ Refuse(o)
                     \/ Alter(o) \/ KeepPrimary(o) \/ Replay(o) \/ Decline(o)

===============================================================================
