-------------------------------- MODULE Setups --------------------------------
(***************************************************************************)
(* The aggregates of websetupmanager's older API: a setup's status and     *)
(* revision, the artifacts it consists of, and what refers to it, the      *)
(* current selection, the recent list, the clients' UI state and the       *)
(* delete confirmations (internal/service/state.go, setups.go, content.go, *)
(* reconcile.go, and the work of validation.go and duplicate.go).          *)
(*                                                                         *)
(* Validation, restore, duplication and reconciliation read the managed    *)
(* files under the setup's lock, in many steps, and commit afterwards;     *)
(* somebody outside changes the files at any time, readers notice it       *)
(* without the lock, and the process may stop between two statements.      *)
(* A transaction is one step.  How a job is queued, cancelled and ended is *)
(* in Jobs; how the files come to be is in Library.                        *)
(***************************************************************************)
EXTENDS Naturals, Sequences, FiniteSets, SequencesExt

CONSTANTS
    SetupIds, Objects, Clients,
    Plans,          \* bound: the mixes of operations that are used together, on which setups and objects
    RecentLimit,    \* the configured length of the recent list
    MaxRevision, MaxTouches, MaxTokens, MaxStops,   \* bounds
    None

Operations == {"edit", "validate", "select", "read", "archive", "delete", "duplicate", "reconcile", "lists", "touch"}

ASSUME PlansAssumption == Plans \subseteq [ops : SUBSET Operations, setups : SUBSET SetupIds, objects : SUBSET Objects]
ASSUME LimitAssumption == RecentLimit \in Nat \ {0}
ASSUME BoundsAssumption == MaxRevision \in Nat \ {0} /\ MaxTouches \in Nat /\ MaxTokens \in Nat /\ MaxStops \in Nat
ASSUME NoneAssumption == None \notin SetupIds /\ None \notin Objects /\ None \notin Nat

VARIABLES
    setup,       \* setups: status, revision, ready_revision, archived_from_status, attention_reason
    artifacts,   \* setup_artifacts: per setup, the version recorded for each object it refers to
    disk,        \* the managed files: identity, and the bytes there
    current,     \* current_setup
    recent,      \* recent_setups, newest first
    ui,          \* ui_state, per client
    tokens,      \* delete_confirmations that have not expired
    worker,      \* per setup, the holder of its lock and where it stands
    reader,      \* a request that has found content changed, not yet recorded
    passed,      \* history: per setup, what the last successful validation saw
    plan, touches, issued, stops

vars == <<setup, artifacts, disk, current, recent, ui, tokens, worker, reader, passed, plan, touches, issued, stops>>
links  == <<current, recent, ui>>
bounds == <<plan, touches, issued, stops>>

-----------------------------------------------------------------------------

Statuses == {"draft", "ready", "attention", "archived"}
Kinds    == {"validate", "restore", "duplicate", "reconcile", "inspect"}

Setup == [status : Statuses, revision : 1..MaxRevision, ready : 1..MaxRevision \cup {None},
          from : {"draft", "ready", "attention", None}, reason : BOOLEAN]

Recent == [setup : SetupIds, artifact : Objects \cup {None}]

Selection == [setup : SetupIds, revision : 1..MaxRevision]

\* A validation that has passed.
Pass == [revision : 1..MaxRevision, parts : SUBSET Objects]

Work == [kind : Kinds, base : 1..MaxRevision, todo : SUBSET Objects, changed : BOOLEAN,
         atStart : SUBSET Objects, target : SetupIds \cup {None}]

\* None stands for no record, and no setup was archived from it.
ASSUME RecordAssumption == None \notin Setup \cup Selection \cup Pass \cup Work \cup Statuses

Planned(op) == op \in plan.ops
Free(s)    == s \in plan.setups /\ setup[s] = None
Exists(s)  == setup[s] # None
Archived(s) == Exists(s) /\ setup[s].status = "archived"
Parts(s)   == {o \in Objects : artifacts[s][o] # None}
Owners(o)  == {s \in SetupIds : artifacts[s][o] # None}
NoParts    == [o \in Objects |-> None]
Unlocked(s) == worker[s] = None

\* VerifyObject with the recorded version, and InspectObject without one.
Intact(s, o) == disk[o].content = "same" /\ disk[o].version = artifacts[s][o]
Present(o)   == disk[o].content # "gone"

Fresh(rev) == [status |-> "draft", revision |-> rev, ready |-> None, from |-> None, reason |-> FALSE]

Init ==
    /\ plan \in Plans
    /\ setup = [s \in SetupIds |-> None] /\ artifacts = [s \in SetupIds |-> NoParts]
    /\ disk = [o \in Objects |-> [content |-> "same", version |-> 0]]
    /\ current = None /\ recent = <<>>
    /\ ui = [c \in Clients |-> [setup |-> None, artifact |-> None]]
    /\ tokens = {} /\ worker = [s \in SetupIds |-> None] /\ reader = None
    /\ passed = [s \in SetupIds |-> None]
    /\ touches = 0 /\ issued = 0 /\ stops = 0

-----------------------------------------------------------------------------
\* Mutations of a setup.

\* CreateSetup.
CreateSetup(s) ==
    /\ Free(s)
    /\ setup' = [setup EXCEPT ![s] = Fresh(1)]
    /\ UNCHANGED <<artifacts, disk, links, tokens, worker, reader, passed, bounds>>

\* domain.NextMutation, and the columns the mutations set.
NextMutation(s) ==
    [setup[s] EXCEPT !.status = IF @ = "attention" THEN "attention" ELSE "draft",
                     !.revision = @ + 1, !.ready = None,
                     !.reason = @ /\ setup[s].status = "attention"]

Mutate(s, parts) ==
    /\ Planned("edit") /\ Exists(s) /\ Unlocked(s) /\ ~Archived(s) /\ setup[s].revision < MaxRevision
    /\ setup' = [setup EXCEPT ![s] = NextMutation(s)]
    /\ artifacts' = [artifacts EXCEPT ![s] = parts]
    /\ UNCHANGED <<disk, tokens, worker, reader, passed, bounds>>

\* The recent list has at most one row of a setup.
PositionOf(s) == {i \in DOMAIN recent : recent[i].setup = s}
Others(s) == IF PositionOf(s) = {} THEN recent ELSE RemoveAt(recent, CHOOSE i \in PositionOf(s) : TRUE)

\* ON DELETE SET NULL and CASCADE of what referred to an artifact or a setup.
ForgetArtifacts(s, gone) ==
    /\ recent' = [i \in DOMAIN recent |->
                     IF recent[i].setup = s /\ recent[i].artifact \in gone THEN [recent[i] EXCEPT !.artifact = None]
                     ELSE recent[i]]
    /\ ui' = [c \in Clients |-> IF ui[c].setup = s /\ ui[c].artifact \in gone THEN [ui[c] EXCEPT !.artifact = None] ELSE ui[c]]
ForgetSetup(s) ==
    /\ recent' = Others(s)
    /\ ui' = [c \in Clients |-> IF ui[c].setup = s THEN [setup |-> None, artifact |-> None] ELSE ui[c]]

UpdateSetup(s) == Mutate(s, artifacts[s]) /\ UNCHANGED links

\* The transactions that add, replace and remove an artifact.
AddProgram(s, o) ==
    /\ o \in plan.objects /\ artifacts[s][o] = None /\ disk[o].content = "same"
    /\ Mutate(s, [artifacts[s] EXCEPT ![o] = disk[o].version]) /\ UNCHANGED links
DeleteArtifact(s, o) ==
    /\ artifacts[s][o] # None
    /\ Mutate(s, [artifacts[s] EXCEPT ![o] = None]) /\ ForgetArtifacts(s, {o}) /\ UNCHANGED current

-----------------------------------------------------------------------------
\* The current setup.

\* Mutant: a draft can be selected.
Selectable(s) == setup[s].status \in {"draft", "ready"}

\* SetCurrentSetup, of the revision and the previous selection the client saw.
MaySelect(s) == setup[s].status = "ready"
SetCurrent(s) ==
    /\ Planned("select") /\ Exists(s) /\ Unlocked(s) /\ MaySelect(s)
    /\ current' = [setup |-> s, revision |-> setup[s].revision]
    /\ UNCHANGED <<setup, artifacts, disk, recent, ui, tokens, worker, reader, passed, bounds>>

ClearCurrent ==
    /\ current # None /\ current' = None
    /\ UNCHANGED <<setup, artifacts, disk, recent, ui, tokens, worker, reader, passed, bounds>>

-----------------------------------------------------------------------------
\* Recent setups and UI state.

Pruned(list) == SubSeq(list, 1, IF Len(list) < RecentLimit THEN Len(list) ELSE RecentLimit)

\* TouchRecentSetup: without an artifact the previous one stays.
TouchRecent(s, artifact) ==
    /\ Planned("lists") /\ Exists(s) /\ (artifact # None => artifact \in Parts(s))
    /\ LET kept == {recent[i].artifact : i \in PositionOf(s)}
           last == IF artifact = None /\ kept # {} THEN CHOOSE a \in kept : TRUE ELSE artifact
       IN recent' = Pruned(<<[setup |-> s, artifact |-> last]>> \o Others(s))
    /\ UNCHANGED <<setup, artifacts, disk, current, ui, tokens, worker, reader, passed, bounds>>

MutateRecent(list) ==
    /\ Planned("lists") /\ recent # <<>> /\ recent' = list
    /\ UNCHANGED <<setup, artifacts, disk, current, ui, tokens, worker, reader, passed, bounds>>
DeleteRecent(s) == MutateRecent(Others(s))
ClearRecent     == MutateRecent(<<>>)

PutUIState(c, s, artifact) ==
    /\ Planned("lists")
    /\ IF s = None THEN artifact = None ELSE Exists(s) /\ (artifact # None => artifact \in Parts(s))
    /\ ui' = [ui EXCEPT ![c] = [setup |-> s, artifact |-> artifact]]
    /\ UNCHANGED <<setup, artifacts, disk, current, recent, tokens, worker, reader, passed, bounds>>

-----------------------------------------------------------------------------
\* Archive and permanent deletion.

\* Mutant: confirmations outlive a change of the archive state.
KeepTokens(s) == tokens' = tokens

DropTokens(s) == tokens' = {t \in tokens : t.setup # s}

\* changeArchiveState, archiving: the revision stays.
Archive(s) ==
    /\ Planned("archive") /\ Exists(s) /\ Unlocked(s) /\ ~Archived(s)
    /\ current # None => current.setup # s
    /\ setup' = [setup EXCEPT ![s].status = "archived", ![s].from = setup[s].status]
    /\ DropTokens(s)
    /\ UNCHANGED <<artifacts, disk, links, worker, reader, passed, bounds>>

\* deletePlanFacts: how many programs, and the objects nobody else refers to.
Facts(s) == [programs |-> Cardinality(Parts(s)), unique |-> {o \in Parts(s) : Owners(o) = {s}}]

\* CreateDeletePlan takes no lock.
CreateDeletePlan(s) ==
    /\ Planned("delete") /\ issued < MaxTokens /\ issued' = issued + 1
    /\ Archived(s)
    /\ tokens' = tokens \cup {[setup |-> s, revision |-> setup[s].revision, facts |-> Facts(s)]}
    /\ UNCHANGED <<setup, artifacts, disk, links, worker, reader, passed, plan, touches, stops>>

ExpireToken(t) ==
    /\ tokens' = tokens \ {t}
    /\ UNCHANGED <<setup, artifacts, disk, links, worker, reader, passed, bounds>>

Confirmed(t) == setup[t.setup].revision = t.revision /\ Facts(t.setup) = t.facts

\* PermanentDeleteSetup, and the rows that go with a setup.
PermanentDelete(t) ==
    LET s == t.setup IN
    /\ Exists(s) /\ Unlocked(s) /\ Archived(s) /\ Confirmed(t)
    /\ setup' = [setup EXCEPT ![s] = None] /\ artifacts' = [artifacts EXCEPT ![s] = NoParts]
    /\ passed' = [passed EXCEPT ![s] = None]
    /\ DropTokens(s) /\ ForgetSetup(s)
    /\ UNCHANGED <<disk, current, worker, reader, bounds>>

-----------------------------------------------------------------------------
\* The managed files from outside, and the requests that read them.

\* Somebody rewrites, replaces or removes a file; its identity never returns.
Change(o, content) ==
    /\ Planned("touch") /\ o \in plan.objects /\ touches < MaxTouches /\ touches' = touches + 1
    /\ disk' = [disk EXCEPT ![o] = [content |-> content, version |-> @.version + 1]]
    /\ UNCHANGED <<setup, artifacts, links, tokens, worker, reader, passed, plan, issued, stops>>

\* markContentAttention: neither lock nor revision; ready_revision stays.
Attention(s) ==
    IF Exists(s) /\ ~Archived(s)
    THEN setup' = [setup EXCEPT ![s].status = "attention", ![s].reason = TRUE]
    ELSE UNCHANGED setup

\* InspectArtifactContent and ReadArtifactRange that do not find what the row says.
ReadChanged(s, o) ==
    /\ Planned("read") /\ reader = None
    /\ Exists(s) /\ o \in Parts(s) /\ ~Intact(s, o)
    /\ reader' = s
    /\ UNCHANGED <<setup, artifacts, disk, links, tokens, worker, passed, bounds>>
MarkContentAttention ==
    /\ reader # None /\ reader' = None /\ Attention(reader)
    /\ UNCHANGED <<artifacts, disk, links, tokens, worker, passed, bounds>>

-----------------------------------------------------------------------------
\* The work under the setup's lock.

Take(s, kind, target) ==
    /\ Exists(s) /\ Unlocked(s)
    /\ worker' = [worker EXCEPT ![s] =
          [kind |-> kind, base |-> setup[s].revision, todo |-> Parts(s), changed |-> FALSE,
           atStart |-> {o \in Parts(s) : Intact(s, o)}, target |-> target]]
    /\ UNCHANGED <<setup, artifacts, disk, links, tokens, reader, passed, bounds>>

\* executeValidation, changeArchiveState, executeDuplicate, reconcile.
Validate(s)     == Planned("validate") /\ ~Archived(s) /\ Take(s, "validate", None)
Restore(s)      == Planned("archive") /\ Archived(s) /\ Take(s, "restore", None)
Duplicate(s, t) == Planned("duplicate") /\ Free(t) /\ Take(s, "duplicate", t)
Reconcile(s)    == Planned("reconcile") /\ Take(s, "reconcile", None)
Inspect(s)      == Planned("reconcile") /\ Take(s, "inspect", None)

Doing(s, kind) == worker[s] # None /\ worker[s].kind = kind
Look(s, kind, o) == Doing(s, kind) /\ o \in worker[s].todo
Seen(s, o, changed) == worker' = [worker EXCEPT ![s].todo = @ \ {o}, ![s].changed = @ \/ changed]

\* validateArtifacts goes on after a change.
ValidateOne(s, o) ==
    /\ Look(s, "validate", o) /\ Seen(s, o, ~Intact(s, o))
    /\ UNCHANGED <<setup, artifacts, disk, links, tokens, reader, passed, bounds>>

\* Mutant: a restore that finds content changed goes on as if it had not.
RestoreBlind(s, o) ==
    /\ Look(s, "restore", o) /\ Seen(s, o, FALSE)
    /\ UNCHANGED <<setup, artifacts, disk, links, tokens, reader, passed, bounds>>

\* A restore stops at the first change.
RestoreOne(s, o) ==
    /\ Look(s, "restore", o)
    /\ IF Intact(s, o) THEN Seen(s, o, FALSE)
       ELSE worker' = [worker EXCEPT ![s].todo = {}, ![s].changed = TRUE]
    /\ UNCHANGED <<setup, artifacts, disk, links, tokens, reader, passed, bounds>>

\* A duplication marks its source and fails.
DuplicateOne(s, o) ==
    /\ Look(s, "duplicate", o)
    /\ IF Intact(s, o) THEN Seen(s, o, FALSE) /\ UNCHANGED setup
       ELSE Attention(s) /\ worker' = [worker EXCEPT ![s] = None]
    /\ UNCHANGED <<artifacts, disk, links, tokens, reader, passed, bounds>>

\* The reading of a file also fails when the job's context is cancelled.
DuplicateCancelled(s, o) ==
    /\ Look(s, "duplicate", o) /\ stops < MaxStops /\ stops' = stops + 1
    /\ Attention(s) /\ worker' = [worker EXCEPT ![s] = None]
    /\ UNCHANGED <<artifacts, disk, links, tokens, reader, passed, plan, touches, issued>>

\* The identity pass compares identities, the full one also bytes: those it
\* finds under a new identity it records, in a statement of its own.
InspectOne(s, o) ==
    /\ Look(s, "inspect", o) /\ Seen(s, o, ~Present(o) \/ disk[o].version # artifacts[s][o])
    /\ UNCHANGED <<setup, artifacts, disk, links, tokens, reader, passed, bounds>>
ReconcileOne(s, o) ==
    /\ Look(s, "reconcile", o) /\ Seen(s, o, ~Intact(s, o))
    /\ artifacts' = IF disk[o].content = "same" THEN [artifacts EXCEPT ![s][o] = disk[o].version] ELSE artifacts
    /\ UNCHANGED <<setup, disk, links, tokens, reader, passed, bounds>>

Ending(s, kind) ==
    /\ Doing(s, kind) /\ worker[s].todo = {} /\ worker' = [worker EXCEPT ![s] = None]

\* commitValidationResult: the revision once more, and not archived; what a
\* reader has recorded meanwhile is overwritten.
Verdict(s) == IF worker[s].changed THEN "attention" ELSE IF Parts(s) = {} THEN "draft" ELSE "ready"
CommitValidation(s) ==
    /\ Ending(s, "validate")
    /\ IF setup[s].revision = worker[s].base /\ ~Archived(s)
       THEN /\ setup' = [setup EXCEPT ![s].status = Verdict(s), ![s].reason = Verdict(s) = "attention",
                                      ![s].ready = IF Verdict(s) = "ready" THEN worker[s].base ELSE None]
            /\ passed' = IF Verdict(s) = "ready"
                         THEN [passed EXCEPT ![s] = [revision |-> worker[s].base, parts |-> Parts(s)]] ELSE passed
       ELSE UNCHANGED <<setup, passed>>
    /\ UNCHANGED <<artifacts, disk, links, tokens, reader, bounds>>

\* domain.RestoreStatus, and the columns of a restore.
RestoreStatus(s, changed) == IF changed THEN "attention" ELSE setup[s].from
CommitRestore(s) ==
    /\ Ending(s, "restore")
    /\ LET status == RestoreStatus(s, worker[s].changed) IN
       setup' = [setup EXCEPT ![s].status = status, ![s].from = None,
                              ![s].ready = IF status = "ready" THEN setup[s].revision ELSE None,
                              ![s].reason = worker[s].changed \/ (status = "attention" /\ @)]
    /\ DropTokens(s)
    /\ UNCHANGED <<artifacts, disk, links, reader, passed, bounds>>

\* commitDuplicate: a draft of the same objects.
CommitDuplicate(s) ==
    /\ Ending(s, "duplicate")
    /\ LET t == worker[s].target IN
       IF setup[s].revision = worker[s].base /\ setup[t] = None
       THEN setup' = [setup EXCEPT ![t] = Fresh(1)] /\ artifacts' = [artifacts EXCEPT ![t] = artifacts[s]]
       ELSE UNCHANGED <<setup, artifacts>>
    /\ UNCHANGED <<disk, links, tokens, reader, passed, bounds>>

\* Mutant: the identity pass does not act on what it has found.
InspectOnly(s) ==
    /\ Ending(s, "inspect") /\ UNCHANGED <<setup, artifacts, disk, links, tokens, reader, passed, bounds>>

\* The update that ends a pass over a setup, by the status read at its start,
\* which only a reader's mark can have changed.
Noticed(s) ==
    IF Archived(s) THEN [setup[s] EXCEPT !.reason = TRUE]
    ELSE [setup[s] EXCEPT !.status = "attention", !.ready = None, !.reason = TRUE]
EndInspect(s) ==
    /\ Ending(s, "inspect")
    /\ setup' = IF worker[s].changed THEN [setup EXCEPT ![s] = Noticed(s)] ELSE setup
    /\ UNCHANGED <<artifacts, disk, links, tokens, reader, passed, bounds>>

\* A full pass without a change ends an attention, also one kept by an archive.
Recovered(s) ==
    IF worker[s].changed THEN Noticed(s)
    ELSE IF setup[s].status = "attention" THEN [setup[s] EXCEPT !.status = "draft", !.ready = None, !.reason = FALSE]
    ELSE IF Archived(s) /\ setup[s].from = "attention" THEN [setup[s] EXCEPT !.from = "draft", !.reason = FALSE]
    ELSE setup[s]
EndReconcile(s) ==
    /\ Ending(s, "reconcile") /\ setup' = [setup EXCEPT ![s] = Recovered(s)]
    /\ UNCHANGED <<artifacts, disk, links, tokens, reader, passed, bounds>>

\* A cancelled context, an error or the end of the process: the lock is free
\* and what was committed stays.
Stop(s) ==
    /\ stops < MaxStops /\ stops' = stops + 1
    /\ worker[s] # None /\ worker' = [worker EXCEPT ![s] = None]
    /\ UNCHANGED <<setup, artifacts, disk, links, tokens, reader, passed, plan, touches, issued>>

-----------------------------------------------------------------------------

LookOne(s) == \E o \in Objects :
    ValidateOne(s, o) \/ RestoreOne(s, o) \/ DuplicateOne(s, o) \/ InspectOne(s, o) \/ ReconcileOne(s, o)
End(s)   == CommitValidation(s) \/ CommitRestore(s) \/ CommitDuplicate(s) \/ EndInspect(s) \/ EndReconcile(s)
Begin(s) == Validate(s) \/ Restore(s) \/ Reconcile(s) \/ Inspect(s) \/ \E t \in SetupIds \ {s} : Duplicate(s, t)
Edit(s)  == CreateSetup(s) \/ UpdateSetup(s) \/ \E o \in Objects : AddProgram(s, o) \/ DeleteArtifact(s, o)
Lists(s) == \/ \E a \in Objects \cup {None} : TouchRecent(s, a) \/ \E c \in Clients : PutUIState(c, s, a)
            \/ DeleteRecent(s) \/ ClearRecent \/ \E c \in Clients : PutUIState(c, None, None)
Outside  == (\E o \in Objects, content \in {"same", "altered", "gone"} : Change(o, content))
            \/ (\E s \in SetupIds, o \in Objects : ReadChanged(s, o)) \/ MarkContentAttention

Next ==
    \/ \E s \in SetupIds : Edit(s) \/ SetCurrent(s) \/ Lists(s) \/ Archive(s) \/ CreateDeletePlan(s)
                           \/ Begin(s) \/ LookOne(s) \/ End(s) \/ Stop(s)
                           \/ \E o \in Objects : DuplicateCancelled(s, o)
    \/ ClearCurrent \/ Outside
    \/ \E t \in tokens : ExpireToken(t) \/ PermanentDelete(t)

Spec == Init /\ [][Next]_vars

\* Work goes on, and the maintenance ticker inspects every setup again; a Go
\* mutex lets nobody wait for ever.
FairSpec == Spec /\ \A s \in SetupIds : WF_vars(LookOne(s) \/ End(s)) /\ SF_vars(Inspect(s))

-----------------------------------------------------------------------------
\* Properties.

\* TYPE: the rows satisfy the CHECKs and foreign keys of the schema.
TypeOK ==
    /\ setup \in [SetupIds -> Setup \cup {None}]
    /\ \A s \in SetupIds : Exists(s) =>
          /\ Archived(s) <=> setup[s].from # None
          /\ setup[s].status = "ready" => setup[s].ready = setup[s].revision
    /\ artifacts \in [SetupIds -> [Objects -> 0..MaxTouches \cup {None}]]
    /\ \A s \in SetupIds : ~Exists(s) => Parts(s) = {}
    /\ disk \in [Objects -> [content : {"same", "altered", "gone"}, version : 0..MaxTouches]]
    /\ current \in Selection \cup {None}
    /\ \A i \in DOMAIN recent : recent[i] \in Recent
    /\ ui \in [Clients -> [setup : SetupIds \cup {None}, artifact : Objects \cup {None}]]
    /\ worker \in [SetupIds -> Work \cup {None}] /\ reader \in SetupIds \cup {None}
    /\ plan \in Plans /\ touches \in 0..MaxTouches /\ issued \in 0..MaxTokens /\ stops \in 0..MaxStops

\* ReadyAsValidated: a setup that is ready, or that a restore will make ready,
\* consists of exactly what a validation passed at this revision.
ReadyAsValidated ==
    \A s \in SetupIds :
        Exists(s) /\ (setup[s].status = "ready" \/ setup[s].from = "ready")
        => passed[s] = [revision |-> setup[s].revision, parts |-> Parts(s)]

\* CurrentKept: the selection names a setup that exists and is not archived,
\* and a revision that was ready, although an edit, a validation or a reader's
\* mark may have moved the setup on since.
CurrentKept ==
    current # None =>
        /\ Exists(current.setup) /\ ~Archived(current.setup)
        /\ current.revision <= setup[current.setup].revision
        /\ passed[current.setup] # None /\ passed[current.setup].revision >= current.revision

\* ListsKept: the recent list is short, names each setup once, and neither it
\* nor a client's state names what has been deleted or belongs to another setup.
ListsKept ==
    /\ Len(recent) <= RecentLimit
    /\ \A i \in DOMAIN recent : PositionOf(recent[i].setup) = {i} /\ Exists(recent[i].setup)
                                /\ (recent[i].artifact # None => recent[i].artifact \in Parts(recent[i].setup))
    /\ \A c \in Clients : /\ ui[c].setup # None => Exists(ui[c].setup)
                          /\ ui[c].artifact # None => ui[c].artifact \in Parts(ui[c].setup)

\* TokensOfArchived: a confirmation that can still be used belongs to a setup
\* that has been archived ever since it was given, at the same revision and
\* with the same artifacts; archiving and restoring do not move the revision.
TokensOfArchived ==
    \A t \in tokens : Archived(t.setup) /\ t.revision = setup[t.setup].revision
                      /\ t.facts.programs = Cardinality(Parts(t.setup))

\* DeletesAsTold: the objects that nothing refers to after a permanent
\* deletion are those its confirmation named, although duplicates of the setup
\* come and go in between.
DeletesAsTold ==
    \A s \in SetupIds : Exists(s) /\ setup'[s] = None =>
          \E t \in tokens : t.setup = s /\ t.facts.unique = {o \in Parts(s) : Owners(o)' = {}}

\* The content was as recorded when the worker of this step took its lock.
SoundAtStart(s) == worker[s] # None /\ worker[s].atStart = Parts(s)

\* ReadyIsFresh: a setup becomes ready only after a worker has found every
\* artifact as recorded, so a change from before the work never ends as ready.
Ready(s) == Exists(s) /\ setup[s].status = "ready"
ReadyIsFresh == [][\A s \in SetupIds : ~Ready(s) /\ Ready(s)' => SoundAtStart(s)]_vars

\* AttentionEnds: attention is left for draft or ready only by a worker that
\* has found every artifact as recorded; edits and archives keep it.
Trouble(s) == Exists(s) /\ (setup[s].status = "attention" \/ setup[s].from = "attention")
AttentionEnds ==
    [][\A s \in SetupIds : Trouble(s) /\ Exists(s)' /\ ~Trouble(s)' => SoundAtStart(s)]_vars

\* ChangesNoticed: once nobody touches the files any more, a setup that stays
\* ready has its files: the periodic inspection finds the change.
ChangesNoticed ==
    Planned("reconcile") => <>[](\A s \in SetupIds : Ready(s) => \A o \in Parts(s) : Present(o) /\ disk[o].version = artifacts[s][o])

\* SelectionsKept: the variables keep their types, and what is selected, listed
\* or shown exists, whatever edits, archives, moves and deletions come between.
SelectionsKept == TypeOK /\ CurrentKept /\ ListsKept

\* ConfirmationsHold: a permanent deletion does what its confirmation said,
\* and a confirmation is gone as soon as it would say something else.
ConfirmationsHold == [][TokensOfArchived' /\ DeletesAsTold]_vars

\* StatusByEvidence: a setup is ready only as it was validated, becomes ready
\* only on sound content, and leaves attention only for sound content.
StatusByEvidence == []ReadyAsValidated /\ ReadyIsFresh /\ AttentionEnds

=============================================================================
