----------------------------- MODULE SetupsProofs -----------------------------
(***************************************************************************)
(* Proofs about the setups of the older API, for any number of setups,     *)
(* objects, clients, revisions, changes of the files from outside and      *)
(* interrupted work: what is selected, listed or confirmed agrees with the *)
(* rows, and a setup's status rests on content that was looked at.         *)
(***************************************************************************)
EXTENDS Setups, SequenceTheorems, TLAPS

-----------------------------------------------------------------------------
(* The invariant. *)

(* The CHECKs of a row of setups. *)
RowOk(r) == (r.status = "archived" <=> r.from # None) /\ (r.status = "ready" => r.ready = r.revision)

RowsInv ==
    /\ setup \in [SetupIds -> Setup \cup {None}] /\ passed \in [SetupIds -> Pass \cup {None}]
    /\ artifacts \in [SetupIds -> [Objects -> 0..MaxTouches \cup {None}]]
    /\ \A s \in SetupIds : IF Exists(s) THEN RowOk(setup[s]) ELSE Parts(s) = {}
    /\ ReadyAsValidated

(* A recorded version is never ahead of the file, and while it is the       *)
(* file's own the bytes are those that were recorded.                      *)
VersionsInv ==
    /\ disk \in [Objects -> [content : {"same", "altered", "gone"}, version : 0..MaxTouches]]
    /\ \A o \in Objects : disk[o].version <= touches
    /\ \A s \in SetupIds : \A o \in Parts(s) :
          artifacts[s][o] <= disk[o].version /\ (artifacts[s][o] = disk[o].version => disk[o].content = "same")

(* The work under the lock of s: nobody else has changed its rows, and what *)
(* it has not found changed was as recorded when it began.                 *)
WorkOk(s) ==
    LET w == worker[s]
    IN  /\ Exists(s) /\ w.base = setup[s].revision
        /\ w.kind = "validate" => ~Archived(s)
        /\ w.kind = "restore" => Archived(s)
        /\ w.kind = "duplicate" => w.target \in SetupIds
        /\ w.todo \subseteq Parts(s) /\ w.atStart \subseteq Parts(s)
        /\ \A o \in w.todo : Intact(s, o) => o \in w.atStart
        /\ ~w.changed => Parts(s) \ w.todo \subseteq w.atStart

WorkersInv ==
    /\ worker \in [SetupIds -> Work \cup {None}]
    /\ \A s \in SetupIds : worker[s] # None => WorkOk(s)

CurrentInv == current \in Selection \cup {None} /\ CurrentKept

(* The setups and artifacts of a list or a client exist. *)
Names(s, artifact) == Exists(s) /\ (artifact # None => artifact \in Parts(s))

RecentInv ==
    /\ recent \in Seq(Recent) /\ Len(recent) <= RecentLimit
    /\ \A i, j \in DOMAIN recent : recent[i].setup = recent[j].setup => i = j
    /\ \A i \in DOMAIN recent : Names(recent[i].setup, recent[i].artifact)

UIInv ==
    /\ ui \in [Clients -> [setup : SetupIds \cup {None}, artifact : Objects \cup {None}]]
    /\ \A c \in Clients : IF ui[c].setup = None THEN ui[c].artifact = None ELSE Names(ui[c].setup, ui[c].artifact)

TokensInv == (\A t \in tokens : t.setup \in SetupIds) /\ TokensOfArchived

BoundsInv ==
    /\ reader \in SetupIds \cup {None} /\ plan \in Plans
    /\ touches \in 0..MaxTouches /\ issued \in 0..MaxTokens /\ stops \in 0..MaxStops

SetupsInv ==
    RowsInv /\ VersionsInv /\ WorkersInv /\ CurrentInv /\ RecentInv /\ UIInv /\ TokensInv /\ BoundsInv

-----------------------------------------------------------------------------
(* What a step leaves of each part, from what it leaves of the rows it is   *)
(* about.                                                                  *)

LEMMA RowsAsBefore ==
    ASSUME RowsInv, UNCHANGED <<setup, artifacts, passed>>
    PROVE  RowsInv'
BY DEF RowsInv, ReadyAsValidated, Exists, Parts

LEMMA VersionsAsBefore ==
    ASSUME VersionsInv, UNCHANGED <<artifacts, disk, touches>>
    PROVE  VersionsInv'
BY DEF VersionsInv, Parts

(* The rows of s that its worker goes by. *)
SameFor(s) ==
    /\ Exists(s)' /\ setup'[s].revision = setup[s].revision /\ (Archived(s)' <=> Archived(s))
    /\ artifacts'[s] = artifacts[s]

LEMMA WorkersFollow ==
    ASSUME WorkersInv, disk' = disk, worker' \in [SetupIds -> Work \cup {None}],
           \A s \in SetupIds : worker'[s] # None => worker'[s] = worker[s] /\ SameFor(s)
    PROVE  WorkersInv'
<1> SUFFICES ASSUME NEW s \in SetupIds, worker'[s] # None PROVE WorkOk(s)'
  BY DEF WorkersInv
<1>1. WorkOk(s) /\ worker'[s] = worker[s] /\ SameFor(s)
  BY DEF WorkersInv
<1>2. Parts(s)' = Parts(s) /\ \A o \in Objects : Intact(s, o)' <=> Intact(s, o)
  BY <1>1 DEF SameFor, Parts, Intact
<1>3. worker[s].todo \subseteq Objects
  BY <1>1 DEF WorkOk, Parts
<1> QED BY <1>1, <1>2, <1>3 DEF WorkOk, SameFor

LEMMA WorkersAsBefore ==
    ASSUME WorkersInv, UNCHANGED <<setup, artifacts, disk, worker>>
    PROVE  WorkersInv'
<1>1. \A s \in SetupIds : worker[s] # None => SameFor(s)
  BY DEF WorkersInv, WorkOk, SameFor, Exists, Archived
<1> QED BY <1>1, WorkersFollow DEF WorkersInv

(* Work ends, and nothing it goes by is changed for the others. *)
LEMMA WorkersBut ==
    ASSUME WorkersInv, NEW s \in SetupIds, disk' = disk,
           worker' = [worker EXCEPT ![s] = None] \/ (worker' = worker /\ worker[s] = None),
           \A q \in SetupIds \ {s} : worker[q] # None => setup'[q] = setup[q] /\ artifacts'[q] = artifacts[q]
    PROVE  WorkersInv'
<1>1. worker' \in [SetupIds -> Work \cup {None}] /\ worker'[s] = None
      /\ \A q \in SetupIds \ {s} : worker'[q] = worker[q]
  BY DEF WorkersInv
<1>2. \A q \in SetupIds : worker'[q] # None => worker'[q] = worker[q] /\ SameFor(q)
  BY <1>1 DEF WorkersInv, WorkOk, SameFor, Exists, Archived
<1> QED BY <1>1, <1>2, WorkersFollow

LEMMA CurrentFollows ==
    ASSUME CurrentInv, current' = current,
           current # None => LET s == current.setup IN
              /\ Exists(s)' /\ ~Archived(s)' /\ setup[s].revision <= setup'[s].revision
              /\ setup[s].revision \in Nat /\ setup'[s].revision \in Nat
              /\ passed'[s] = passed[s] \/ (passed'[s] # None /\ passed'[s].revision = setup[s].revision)
    PROVE  CurrentInv'
<1> SUFFICES ASSUME current # None PROVE CurrentKept'
  BY DEF CurrentInv, CurrentKept
<1>1. current.revision \in Nat
  BY DEF CurrentInv, Selection
<1> QED BY <1>1 DEF CurrentInv, CurrentKept

LEMMA CurrentAsBefore ==
    ASSUME CurrentInv, UNCHANGED <<current, setup, passed>>
    PROVE  CurrentInv'
BY DEF CurrentInv, CurrentKept, Exists, Archived

(* What a list may name. *)
NamesStay == \A s \in SetupIds : Exists(s) => Exists(s)' /\ Parts(s) \subseteq Parts(s)'

LEMMA ListsFollow ==
    ASSUME RecentInv, UIInv, NamesStay, recent' = recent, ui' = ui
    PROVE  RecentInv' /\ UIInv'
<1>1. \A i \in DOMAIN recent : recent[i] \in Recent
  BY DEF RecentInv
<1>2. \A s \in SetupIds, a \in Objects \cup {None} : Names(s, a) => Names(s, a)'
  BY DEF NamesStay, Names, Exists, Parts
<1>3. RecentInv'
  BY <1>1, <1>2 DEF RecentInv, Recent
<1>4. UIInv'
  BY <1>2 DEF UIInv
<1> QED BY <1>3, <1>4

LEMMA ListsAsBefore ==
    ASSUME RecentInv, UIInv, UNCHANGED <<setup, artifacts, recent, ui>>
    PROVE  RecentInv' /\ UIInv'
<1>1. NamesStay
  BY DEF NamesStay, Exists, Parts
<1> QED BY <1>1, ListsFollow

LEMMA TokensFollow ==
    ASSUME TokensInv, tokens' \subseteq tokens,
           \A t \in tokens' : LET s == t.setup IN
              Archived(s)' /\ setup'[s].revision = setup[s].revision /\ Parts(s)' = Parts(s)
    PROVE  TokensInv'
BY DEF TokensInv, TokensOfArchived

LEMMA TokensAsBefore ==
    ASSUME TokensInv, UNCHANGED <<setup, artifacts, tokens>>
    PROVE  TokensInv'
<1>1. \A s : (Archived(s)' <=> Archived(s)) /\ Parts(s)' = Parts(s)
  BY DEF Archived, Exists, Parts
<1> QED BY <1>1, TokensFollow DEF TokensInv, TokensOfArchived

LEMMA BoundsAsBefore ==
    ASSUME BoundsInv, UNCHANGED <<reader, bounds>>
    PROVE  BoundsInv'
BY DEF BoundsInv, bounds

-----------------------------------------------------------------------------
(* What a row may become. *)

(* One row of setups changes, or is made. *)
LEMMA RowChanges ==
    ASSUME RowsInv, NEW s \in SetupIds, NEW r \in Setup, RowOk(r),
           setup' = [setup EXCEPT ![s] = r], artifacts' = artifacts,
           passed' = passed \/ \E p \in Pass : passed' = [passed EXCEPT ![s] = p],
           r.status = "ready" \/ r.from = "ready" => passed'[s] = [revision |-> r.revision, parts |-> Parts(s)]
    PROVE  RowsInv'
<1>1. setup' \in [SetupIds -> Setup \cup {None}] /\ passed' \in [SetupIds -> Pass \cup {None}]
  BY DEF RowsInv
<1>2. \A q \in SetupIds : /\ Parts(q)' = Parts(q) /\ (q # s => setup'[q] = setup[q] /\ passed'[q] = passed[q])
  BY DEF RowsInv, Parts
<1>3. setup'[s] = r /\ r # None
  BY RecordAssumption DEF RowsInv
<1> QED BY <1>1, <1>2, <1>3 DEF RowsInv, ReadyAsValidated, Exists

(* The type of a row and of what it was, for the steps below. *)
LEMMA RowType ==
    ASSUME RowsInv, NEW s \in SetupIds, Exists(s)
    PROVE  /\ setup[s] \in Setup /\ RowOk(setup[s]) /\ setup[s] # None
           /\ setup[s].revision \in 1..MaxRevision /\ setup[s].status \in Statuses
           /\ setup[s].from \in {"draft", "ready", "attention", None}
           /\ (Archived(s) <=> setup[s].status = "archived")
           /\ None \notin Statuses
BY RecordAssumption DEF RowsInv, Exists, Archived, Setup

-----------------------------------------------------------------------------
(* Steps that change one row of setups and leave its revision.             *)

(* The step of a row from setup[s] to r. *)
RowStep(s, r) ==
    /\ r \in Setup /\ RowOk(r) /\ r.revision = setup[s].revision
    /\ setup' = [setup EXCEPT ![s] = r]
    /\ UNCHANGED <<artifacts, disk, links, touches>>
    /\ passed' = passed \/ passed' = [passed EXCEPT ![s] = [revision |-> r.revision, parts |-> Parts(s)]]
    /\ r.status = "ready" \/ r.from = "ready" => passed'[s] = [revision |-> r.revision, parts |-> Parts(s)]
    /\ current # None => current.setup # s \/ r.status # "archived"
    /\ tokens' \subseteq tokens /\ \A t \in tokens' : t.setup = s => r.status = "archived"
    /\ \/ worker' = [worker EXCEPT ![s] = None]
       \/ worker' = worker /\ (worker[s] = None \/ (r.status = "archived" <=> setup[s].status = "archived"))

LEMMA OneRow ==
    ASSUME SetupsInv, NEW s \in SetupIds, Exists(s), NEW r, RowStep(s, r)
    PROVE  RowsInv' /\ VersionsInv' /\ WorkersInv' /\ CurrentInv' /\ RecentInv' /\ UIInv' /\ TokensInv'
<1>1. /\ setup[s] \in Setup /\ setup[s].revision \in 1..MaxRevision /\ r # None /\ Parts(s) \subseteq Objects
      /\ (Archived(s) <=> setup[s].status = "archived")
  BY RowType, RecordAssumption DEF SetupsInv, RowStep, Parts
<1>2. /\ setup'[s] = r /\ (\A q \in SetupIds \ {s} : setup'[q] = setup[q])
      /\ (\A q \in SetupIds : Parts(q)' = Parts(q) /\ (Exists(q)' <=> Exists(q)))
  BY <1>1 DEF SetupsInv, RowsInv, RowStep, Exists, Parts
<1>3. RowsInv'
  <2>1. [revision |-> r.revision, parts |-> Parts(s)] \in Pass
    BY <1>1 DEF RowStep, Pass
  <2>2. passed' = passed \/ \E p \in Pass : passed' = [passed EXCEPT ![s] = p]
    BY <2>1 DEF RowStep
  <2> QED BY <2>2, RowChanges DEF SetupsInv, RowStep
<1>4. VersionsInv'
  BY VersionsAsBefore DEF SetupsInv, RowStep
<1>5. WorkersInv'
  <2>1. CASE worker' = [worker EXCEPT ![s] = None] \/ (worker' = worker /\ worker[s] = None)
    BY <1>2, <2>1, WorkersBut DEF SetupsInv, RowStep
  <2>2. CASE worker' = worker /\ worker[s] # None /\ (r.status = "archived" <=> setup[s].status = "archived")
    <3>1. SameFor(s)
      BY <1>1, <1>2, <2>2 DEF SameFor, RowStep, Exists, Archived
    <3>2. ASSUME NEW q \in SetupIds \ {s}, worker[q] # None PROVE SameFor(q)
      BY <1>2, <3>2 DEF SetupsInv, WorkersInv, WorkOk, SameFor, RowStep, Exists, Archived
    <3> QED BY <2>2, <3>1, <3>2, WorkersFollow DEF SetupsInv, WorkersInv, RowStep
  <2> QED BY <2>1, <2>2 DEF RowStep
<1>6. CurrentInv'
  <2>1. passed'[s] = passed[s] \/ (passed'[s] # None /\ passed'[s].revision = setup[s].revision)
    BY <1>1, RecordAssumption DEF SetupsInv, RowsInv, RowStep, Pass
  <2>2. \A q \in SetupIds \ {s} : passed'[q] = passed[q]
    BY DEF SetupsInv, RowsInv, RowStep
  <2> SUFFICES ASSUME NEW q \in SetupIds, current # None, current.setup = q
      PROVE  /\ Exists(q)' /\ ~Archived(q)' /\ setup[q].revision <= setup'[q].revision
             /\ setup[q].revision \in Nat /\ setup'[q].revision \in Nat
             /\ passed'[q] = passed[q] \/ (passed'[q] # None /\ passed'[q].revision = setup[q].revision)
    BY CurrentFollows DEF SetupsInv, CurrentInv, Selection, RowStep, links
  <2>3. Exists(q) /\ ~Archived(q)
    BY DEF SetupsInv, CurrentInv, CurrentKept
  <2>4. setup[q].revision \in Nat
    BY <2>3, RowType DEF SetupsInv
  <2> QED BY <1>1, <1>2, <2>1, <2>2, <2>3, <2>4 DEF Exists, Archived, RowStep
<1>7. RecentInv' /\ UIInv'
  <2>1. NamesStay
    BY <1>2 DEF NamesStay
  <2> QED BY <2>1, ListsFollow DEF SetupsInv, RowStep, links
<1>8. TokensInv'
  <2> SUFFICES ASSUME NEW t \in tokens'
      PROVE  /\ Archived(t.setup)' /\ setup'[t.setup].revision = setup[t.setup].revision
             /\ Parts(t.setup)' = Parts(t.setup)
    BY TokensFollow DEF SetupsInv, RowStep
  <2>1. t.setup \in SetupIds /\ Archived(t.setup)
    BY DEF SetupsInv, TokensInv, TokensOfArchived, RowStep
  <2> QED BY <1>1, <1>2, <2>1 DEF Archived, Exists, RowStep
<1> QED BY <1>3, <1>4, <1>5, <1>6, <1>7, <1>8

(* What a step may do to a setup: keep it, and make it ready or take it out *)
(* of attention only on evidence.                                          *)
Evidence(s) ==
    /\ Exists(s) => Exists(s)'
    /\ ~Ready(s) /\ Ready(s)' => SoundAtStart(s)
    /\ Trouble(s) /\ Exists(s)' /\ ~Trouble(s)' => SoundAtStart(s)

InTrouble(r) == r.status = "attention" \/ r.from = "attention"

LEMMA OneRowEvidence ==
    ASSUME SetupsInv, NEW s \in SetupIds, NEW r \in Setup, setup' = [setup EXCEPT ![s] = r],
           r.status = "ready" => Ready(s) \/ SoundAtStart(s),
           Exists(s) /\ InTrouble(setup[s]) /\ ~InTrouble(r) => SoundAtStart(s)
    PROVE  \A q \in SetupIds : Evidence(q)
<1>1. setup'[s] = r /\ r # None /\ \A q \in SetupIds \ {s} : setup'[q] = setup[q]
  BY RecordAssumption DEF SetupsInv, RowsInv
<1>2. Evidence(s)
  BY <1>1 DEF Evidence, Exists, Ready, Trouble, InTrouble
<1>3. \A q \in SetupIds \ {s} : Evidence(q)
  BY <1>1 DEF Evidence, Exists, Ready, Trouble
<1> QED BY <1>2, <1>3

LEMMA QuietEvidence ==
    ASSUME setup' = setup
    PROVE  \A q \in SetupIds : Evidence(q)
BY DEF Evidence, Exists, Ready, Trouble

(* Work that has found nothing changed is evidence. *)
LEMMA SoundWork ==
    ASSUME NEW s \in SetupIds, worker[s] # None, WorkOk(s), worker[s].todo = {}, ~worker[s].changed
    PROVE  SoundAtStart(s)
BY DEF WorkOk, SoundAtStart

(* Archive: the row keeps its status for the restore. *)
LEMMA ArchiveInv ==
    ASSUME SetupsInv, NEW s \in SetupIds, Archive(s)
    PROVE  SetupsInv' /\ \A q \in SetupIds : Evidence(q)
<1>1. Exists(s) /\ setup[s] \in Setup /\ RowOk(setup[s]) /\ ~Archived(s) /\ worker[s] = None
  BY RowType DEF SetupsInv, Archive, Unlocked
<1> DEFINE r == [setup[s] EXCEPT !.status = "archived", !.from = setup[s].status]
<1>2. /\ r \in Setup /\ r.status = "archived" /\ r.from = setup[s].status /\ r.revision = setup[s].revision
      /\ setup' = [setup EXCEPT ![s] = r] /\ r.from # None
  BY <1>1, RowType DEF SetupsInv, RowsInv, Archive, Setup, Statuses, Archived
<1>3. r.from = "ready" => passed[s] = [revision |-> r.revision, parts |-> Parts(s)]
  BY <1>1, <1>2 DEF SetupsInv, RowsInv, ReadyAsValidated
<1>4. RowStep(s, r)
  <2> HIDE DEF r
  <2> QED BY <1>1, <1>2, <1>3 DEF RowStep, RowOk, Archive, DropTokens, bounds
<1> HIDE DEF r
<1>5. InTrouble(setup[s]) => InTrouble(r)
  BY <1>1, <1>2, RowType DEF SetupsInv, InTrouble, RowOk, Archived, Statuses
<1>6. \A q \in SetupIds : Evidence(q)
  BY <1>2, <1>5, OneRowEvidence
<1> QED BY <1>1, <1>4, <1>6, OneRow, BoundsAsBefore DEF SetupsInv, Archive

(* markContentAttention: whoever found content changed. *)
LEMMA AttentionInv ==
    ASSUME SetupsInv, NEW s \in SetupIds, Attention(s),
           UNCHANGED <<artifacts, disk, links, touches, passed, tokens>>,
           worker' = worker \/ (worker' = [worker EXCEPT ![s] = None])
    PROVE  /\ RowsInv' /\ VersionsInv' /\ WorkersInv' /\ CurrentInv' /\ RecentInv' /\ UIInv' /\ TokensInv'
           /\ \A q \in SetupIds : Evidence(q)
<1>1. CASE Exists(s) /\ ~Archived(s)
  <2>1. setup[s] \in Setup /\ RowOk(setup[s])
    BY <1>1, RowType DEF SetupsInv
  <2> DEFINE r == [setup[s] EXCEPT !.status = "attention", !.reason = TRUE]
  <2>2. /\ r \in Setup /\ r.status = "attention" /\ r.from = None /\ r.revision = setup[s].revision
        /\ setup' = [setup EXCEPT ![s] = r] /\ r.from # "ready" /\ setup[s].status # "archived"
    BY <1>1, <2>1, RowType, RecordAssumption DEF SetupsInv, RowsInv, Attention, Setup, Statuses, Archived, RowOk
  <2> HIDE DEF r
  <2>3. \A t \in tokens : t.setup # s
    BY <1>1 DEF SetupsInv, TokensInv, TokensOfArchived
  <2>4. RowStep(s, r)
    BY <2>1, <2>2, <2>3 DEF RowStep, RowOk
  <2>5. \A q \in SetupIds : Evidence(q)
    BY <2>2, OneRowEvidence DEF InTrouble
  <2> QED BY <1>1, <2>4, <2>5, OneRow
<1>2. CASE ~(Exists(s) /\ ~Archived(s))
  <2>1. setup' = setup
    BY <1>2 DEF Attention
  <2>2. WorkersInv'
    BY <2>1, WorkersBut, WorkersAsBefore DEF SetupsInv
  <2> QED BY <2>1, <2>2, QuietEvidence, RowsAsBefore, VersionsAsBefore, CurrentAsBefore, ListsAsBefore, TokensAsBefore
          DEF SetupsInv, links
<1> QED BY <1>1, <1>2

LEMMA MarkInv ==
    ASSUME SetupsInv, MarkContentAttention
    PROVE  SetupsInv' /\ \A q \in SetupIds : Evidence(q)
<1>1. reader \in SetupIds /\ Attention(reader) /\ reader' = None
  BY DEF SetupsInv, BoundsInv, MarkContentAttention
<1>2. PICK s \in SetupIds : s = reader
  BY <1>1
<1>3. UNCHANGED <<artifacts, disk, links, touches, passed, tokens, worker, plan, issued, stops>>
  BY DEF MarkContentAttention, bounds
<1>4. BoundsInv'
  BY <1>1, <1>3 DEF SetupsInv, BoundsInv
<1> QED BY <1>1, <1>2, <1>3, <1>4, AttentionInv DEF SetupsInv

-----------------------------------------------------------------------------
(* The work under the lock of a setup.                                     *)

(* The rest of the state while only work goes on. *)
Working == UNCHANGED <<setup, artifacts, disk, links, tokens, reader, passed, bounds>>

LEMMA WorkingInv ==
    ASSUME SetupsInv, Working, WorkersInv'
    PROVE  SetupsInv'
BY RowsAsBefore, VersionsAsBefore, CurrentAsBefore, ListsAsBefore, TokensAsBefore, BoundsAsBefore
   DEF SetupsInv, Working, links, bounds

(* The work of s goes from worker[s] to w. *)
LEMMA WorkGoesOn ==
    ASSUME SetupsInv, NEW s \in SetupIds, NEW w \in Work, worker' = [worker EXCEPT ![s] = w],
           UNCHANGED <<setup, artifacts, disk>>, WorkOk(s)'
    PROVE  WorkersInv'
<1>1. worker' \in [SetupIds -> Work \cup {None}]
  BY DEF SetupsInv, WorkersInv
<1>2. ASSUME NEW q \in SetupIds \ {s}, worker'[q] # None PROVE WorkOk(q)'
  <2>1. worker'[q] = worker[q] /\ WorkOk(q)
    BY <1>2 DEF SetupsInv, WorkersInv
  <2>2. Parts(q)' = Parts(q) /\ \A o : Intact(q, o)' <=> Intact(q, o)
    BY DEF Parts, Intact
  <2> QED BY <2>1, <2>2 DEF WorkOk, Exists, Archived
<1> QED BY <1>1, <1>2 DEF WorkersInv

(* Take: the lock of a setup, with the state of its files as they are. *)
LEMMA TakeInv ==
    ASSUME SetupsInv, NEW s \in SetupIds, NEW kind \in Kinds, NEW target \in SetupIds \cup {None},
           Take(s, kind, target), kind = "validate" => ~Archived(s), kind = "restore" => Archived(s),
           kind = "duplicate" => target \in SetupIds
    PROVE  SetupsInv'
<1> DEFINE w == [kind |-> kind, base |-> setup[s].revision, todo |-> Parts(s), changed |-> FALSE,
                 atStart |-> {o \in Parts(s) : Intact(s, o)}, target |-> target]
<1>1. worker' = [worker EXCEPT ![s] = w] /\ Exists(s) /\ Working
  BY DEF Take, Working
<1>2. w \in Work /\ w # None
  <2>1. setup[s].revision \in 1..MaxRevision /\ Parts(s) \subseteq Objects
    BY <1>1, RowType DEF SetupsInv, Parts
  <2>2. w \in Work
    BY <2>1 DEF Work
  <2> QED BY <2>2, RecordAssumption
<1>3. WorkOk(s)'
  <2>1. worker'[s] = w
    BY <1>1 DEF SetupsInv, WorkersInv
  <2>2. Parts(s)' = Parts(s) /\ (Exists(s)' <=> Exists(s)) /\ (Archived(s)' <=> Archived(s)) /\ setup' = setup
        /\ \A o : Intact(s, o)' <=> Intact(s, o)
    BY <1>1 DEF Working, Parts, Exists, Archived, Intact
  <2> QED BY <1>1, <2>1, <2>2 DEF WorkOk
<1>4. WorkersInv'
  BY <1>1, <1>2, <1>3, WorkGoesOn DEF Working
<1> QED BY <1>1, <1>4, WorkingInv

LEMMA BeginInv ==
    ASSUME SetupsInv, NEW s \in SetupIds, Begin(s)
    PROVE  SetupsInv'
<1>1. CASE Validate(s)
  BY <1>1, TakeInv DEF Validate, Kinds
<1>2. CASE Restore(s)
  BY <1>2, TakeInv DEF Restore, Kinds
<1>3. CASE Reconcile(s)
  BY <1>3, TakeInv DEF Reconcile, Kinds
<1>4. CASE Inspect(s)
  BY <1>4, TakeInv DEF Inspect, Kinds
<1>5. CASE \E t \in SetupIds \ {s} : Duplicate(s, t)
  BY <1>5, TakeInv DEF Duplicate, Kinds
<1> QED BY <1>1, <1>2, <1>3, <1>4, <1>5 DEF Begin

(* What is known of the work at an object. *)
LEMMA LookFacts ==
    ASSUME SetupsInv, NEW s \in SetupIds, NEW kind, NEW o \in Objects, Look(s, kind, o)
    PROVE  /\ worker[s] \in Work /\ worker[s] # None /\ WorkOk(s) /\ worker[s].kind = kind
           /\ o \in worker[s].todo /\ o \in Parts(s) /\ setup[s] \in Setup /\ Exists(s)
<1>1. worker[s] \in Work /\ worker[s] # None /\ WorkOk(s) /\ worker[s].kind = kind /\ o \in worker[s].todo
  BY DEF SetupsInv, WorkersInv, Look, Doing
<1>2. o \in Parts(s) /\ Exists(s)
  BY <1>1 DEF WorkOk
<1> QED BY <1>1, <1>2, RowType DEF SetupsInv

(* An object was looked at, and found as recorded or not. *)
LEMMA SeenInv ==
    ASSUME SetupsInv, NEW s \in SetupIds, NEW kind, NEW o \in Objects, Look(s, kind, o),
           NEW changed \in BOOLEAN, Seen(s, o, changed), ~changed => Intact(s, o), Working
    PROVE  SetupsInv'
<1>1. /\ worker[s] \in Work /\ worker[s] # None /\ WorkOk(s) /\ o \in worker[s].todo /\ o \in Parts(s)
  BY LookFacts
<1> DEFINE w == [worker[s] EXCEPT !.todo = @ \ {o}, !.changed = @ \/ changed]
<1>2. worker' = [worker EXCEPT ![s] = w] /\ w \in Work /\ w # None
  <2>1. worker' = [worker EXCEPT ![s] = w]
    BY DEF Seen
  <2>2. w \in Work
    BY <1>1 DEF Work
  <2> QED BY <2>1, <2>2, RecordAssumption
<1>3. w.todo = worker[s].todo \ {o} /\ w.changed = (worker[s].changed \/ changed)
      /\ w.kind = worker[s].kind /\ w.base = worker[s].base /\ w.target = worker[s].target
      /\ w.atStart = worker[s].atStart /\ worker'[s] = w
  BY <1>1, <1>2 DEF SetupsInv, WorkersInv, Work
<1> HIDE DEF w
<1>4. Parts(s)' = Parts(s) /\ (Exists(s)' <=> Exists(s)) /\ (Archived(s)' <=> Archived(s)) /\ setup' = setup
      /\ \A p : Intact(s, p)' <=> Intact(s, p)
  BY DEF Working, Parts, Exists, Archived, Intact
<1>5. WorkOk(s)'
  BY <1>1, <1>3, <1>4 DEF WorkOk
<1>6. WorkersInv'
  BY <1>2, <1>5, WorkGoesOn DEF Working
<1> QED BY <1>6, WorkingInv

LEMMA ValidateOneInv ==
    ASSUME SetupsInv, NEW s \in SetupIds, NEW o \in Objects, ValidateOne(s, o)
    PROVE  SetupsInv'
<1>1. Working
  BY DEF ValidateOne, Working
<1> QED BY <1>1, SeenInv DEF ValidateOne

LEMMA RestoreOneInv ==
    ASSUME SetupsInv, NEW s \in SetupIds, NEW o \in Objects, RestoreOne(s, o)
    PROVE  SetupsInv'
<1>1. Working
  BY DEF RestoreOne, Working
<1>2. CASE Intact(s, o)
  BY <1>1, <1>2, SeenInv DEF RestoreOne
<1>3. CASE ~Intact(s, o)
  <2>1. worker[s] \in Work /\ worker[s] # None /\ WorkOk(s)
    BY LookFacts DEF RestoreOne
  <2> DEFINE w == [worker[s] EXCEPT !.todo = {}, !.changed = TRUE]
  <2>2. worker' = [worker EXCEPT ![s] = w] /\ w \in Work /\ w # None
    BY <1>3, <2>1, RecordAssumption DEF RestoreOne, Work
  <2>3. w.todo = {} /\ w.changed /\ w.kind = worker[s].kind /\ w.base = worker[s].base /\ w.target = worker[s].target
        /\ w.atStart = worker[s].atStart /\ worker'[s] = w
    BY <2>1, <2>2 DEF SetupsInv, WorkersInv, Work
  <2> HIDE DEF w
  <2>4. Parts(s)' = Parts(s) /\ (Exists(s)' <=> Exists(s)) /\ (Archived(s)' <=> Archived(s)) /\ setup' = setup
    BY <1>1 DEF Working, Parts, Exists, Archived
  <2>5. WorkOk(s)'
    BY <2>1, <2>3, <2>4 DEF WorkOk
  <2>6. WorkersInv'
    BY <1>1, <2>2, <2>5, WorkGoesOn DEF Working
  <2> QED BY <1>1, <2>6, WorkingInv
<1> QED BY <1>2, <1>3

(* A duplication marks its source and ends, or goes on. *)
LEMMA DuplicateOneInv ==
    ASSUME SetupsInv, NEW s \in SetupIds, NEW o \in Objects, DuplicateOne(s, o) \/ DuplicateCancelled(s, o)
    PROVE  SetupsInv' /\ \A q \in SetupIds : Evidence(q)
<1>1. CASE DuplicateOne(s, o) /\ Intact(s, o)
  <2>1. Working
    BY <1>1 DEF DuplicateOne, Working
  <2> QED BY <1>1, <2>1, SeenInv, QuietEvidence DEF DuplicateOne
<1>2. CASE DuplicateOne(s, o) /\ ~Intact(s, o)
  BY <1>2, AttentionInv, BoundsAsBefore DEF SetupsInv, DuplicateOne, bounds
<1>3. CASE DuplicateCancelled(s, o)
  <2>1. BoundsInv'
    BY <1>3, BoundsAssumption DEF SetupsInv, BoundsInv, DuplicateCancelled
  <2> QED BY <1>3, <2>1, AttentionInv DEF SetupsInv, DuplicateCancelled
<1> QED BY <1>1, <1>2, <1>3

(* The identity pass: equal identities have the recorded bytes. *)
LEMMA InspectOneInv ==
    ASSUME SetupsInv, NEW s \in SetupIds, NEW o \in Objects, InspectOne(s, o)
    PROVE  SetupsInv'
<1>1. Working
  BY DEF InspectOne, Working
<1> DEFINE changed == ~Present(o) \/ disk[o].version # artifacts[s][o]
<1>2. o \in Parts(s) /\ Look(s, "inspect", o) /\ Seen(s, o, changed)
  BY LookFacts DEF InspectOne
<1>3. ~changed => Intact(s, o)
  BY <1>2 DEF SetupsInv, VersionsInv, Intact, Parts
<1>4. changed \in BOOLEAN
  OBVIOUS
<1> HIDE DEF changed
<1> QED BY <1>1, <1>2, <1>3, <1>4, SeenInv

(* The full pass records a new identity of the same bytes. *)
LEMMA ReconcileOneInv ==
    ASSUME SetupsInv, NEW s \in SetupIds, NEW o \in Objects, ReconcileOne(s, o)
    PROVE  SetupsInv'
<1>1. /\ worker[s] \in Work /\ worker[s] # None /\ WorkOk(s) /\ o \in worker[s].todo /\ o \in Parts(s)
  BY LookFacts DEF ReconcileOne
<1>2. disk[o].version \in 0..MaxTouches /\ disk[o].version # None
  BY NoneAssumption DEF SetupsInv, VersionsInv
<1>3. /\ artifacts' \in [SetupIds -> [Objects -> 0..MaxTouches \cup {None}]]
      /\ \A q \in SetupIds, p \in Objects : q # s \/ p # o => artifacts'[q][p] = artifacts[q][p]
      /\ artifacts'[s][o] = IF disk[o].content = "same" THEN disk[o].version ELSE artifacts[s][o]
  BY <1>2 DEF SetupsInv, RowsInv, ReconcileOne
<1>4. \A q \in SetupIds : Parts(q)' = Parts(q) /\ (Exists(q)' <=> Exists(q)) /\ (Archived(q)' <=> Archived(q))
  BY <1>1, <1>2, <1>3 DEF Parts, ReconcileOne, Exists, Archived
<1>5. RowsInv'
  BY <1>3, <1>4 DEF SetupsInv, RowsInv, ReadyAsValidated, ReconcileOne
<1>6. VersionsInv'
  <2>1. disk' = disk /\ touches' = touches
    BY DEF ReconcileOne, bounds
  <2>2. ASSUME NEW q \in SetupIds, NEW p \in Parts(q)
        PROVE  artifacts'[q][p] <= disk[p].version /\ (artifacts'[q][p] = disk[p].version => disk[p].content = "same")
    BY <1>2, <1>3 DEF SetupsInv, VersionsInv, Parts
  <2> QED BY <1>4, <2>1, <2>2 DEF SetupsInv, VersionsInv
<1>7. WorkersInv'
  <2> DEFINE w == [worker[s] EXCEPT !.todo = @ \ {o}, !.changed = @ \/ ~Intact(s, o)]
  <2>1. worker' = [worker EXCEPT ![s] = w]
    BY DEF ReconcileOne, Seen
  <2>2. w \in Work
    BY <1>1 DEF Work
  <2>3. w.todo = worker[s].todo \ {o} /\ w.changed = (worker[s].changed \/ ~Intact(s, o))
        /\ w.kind = worker[s].kind /\ w.base = worker[s].base /\ w.target = worker[s].target
        /\ w.atStart = worker[s].atStart /\ worker'[s] = w
    BY <1>1, <2>1 DEF SetupsInv, WorkersInv, Work
  <2> HIDE DEF w
  <2>4. worker' \in [SetupIds -> Work \cup {None}]
    BY <2>1, <2>2 DEF SetupsInv, WorkersInv
  <2>5. WorkOk(s)'
    <3>1. \A p \in w.todo : p \in Objects /\ (Intact(s, p)' <=> Intact(s, p))
      BY <1>1, <1>3, <2>3 DEF Intact, ReconcileOne, WorkOk, Parts
    <3>2. setup' = setup
      BY DEF ReconcileOne
    <3> QED BY <1>1, <1>4, <2>3, <3>1, <3>2 DEF WorkOk
  <2>6. ASSUME NEW q \in SetupIds \ {s}, worker'[q] # None PROVE WorkOk(q)'
    <3>1. worker'[q] = worker[q] /\ WorkOk(q) /\ setup' = setup
      BY <2>1, <2>6 DEF SetupsInv, WorkersInv, ReconcileOne
    <3>2. \A p \in Objects : Intact(q, p)' <=> Intact(q, p)
      BY <1>3 DEF Intact, ReconcileOne
    <3> QED BY <1>4, <3>1, <3>2 DEF WorkOk, Parts
  <2> QED BY <2>4, <2>5, <2>6 DEF WorkersInv
<1>8. CurrentInv'
  BY CurrentAsBefore DEF SetupsInv, ReconcileOne, links
<1>9. RecentInv' /\ UIInv'
  BY <1>4, ListsFollow DEF SetupsInv, NamesStay, ReconcileOne, links
<1>10. TokensInv'
  BY <1>4, TokensFollow DEF SetupsInv, TokensInv, TokensOfArchived, ReconcileOne
<1>11. BoundsInv'
  BY BoundsAsBefore DEF SetupsInv, ReconcileOne
<1> QED BY <1>5, <1>6, <1>7, <1>8, <1>9, <1>10, <1>11 DEF SetupsInv

-----------------------------------------------------------------------------
(* The work ends.                                                          *)

LEMMA EndingFacts ==
    ASSUME SetupsInv, NEW s \in SetupIds, NEW kind, Ending(s, kind)
    PROVE  /\ worker[s] \in Work /\ worker[s] # None /\ WorkOk(s) /\ worker[s].kind = kind
           /\ worker[s].todo = {} /\ worker' = [worker EXCEPT ![s] = None]
           /\ Exists(s) /\ setup[s] \in Setup /\ RowOk(setup[s])
<1>1. worker[s] \in Work /\ worker[s] # None /\ WorkOk(s) /\ worker[s].kind = kind
  BY DEF SetupsInv, WorkersInv, Ending, Doing
<1>2. Exists(s)
  BY <1>1 DEF WorkOk
<1> QED BY <1>1, <1>2, RowType DEF SetupsInv, Ending

(* The lock is given back and nothing else is done. *)
LEMMA ReleasedInv ==
    ASSUME SetupsInv, NEW s \in SetupIds, worker' = [worker EXCEPT ![s] = None],
           UNCHANGED <<setup, artifacts, disk, links, tokens, reader, passed, plan, touches, issued>>,
           stops' \in 0..MaxStops
    PROVE  SetupsInv'
<1>1. WorkersInv'
  BY WorkersBut DEF SetupsInv
<1>2. BoundsInv'
  BY DEF SetupsInv, BoundsInv
<1> QED BY <1>1, <1>2, RowsAsBefore, VersionsAsBefore, CurrentAsBefore, ListsAsBefore, TokensAsBefore
        DEF SetupsInv, links

LEMMA StopInv ==
    ASSUME SetupsInv, NEW s \in SetupIds, Stop(s)
    PROVE  SetupsInv'
<1>1. stops' \in 0..MaxStops
  BY BoundsAssumption DEF SetupsInv, BoundsInv, Stop
<1> QED BY <1>1, ReleasedInv DEF Stop

(* Validation: nobody else has moved the row but a reader's mark. *)
LEMMA CommitValidationInv ==
    ASSUME SetupsInv, NEW s \in SetupIds, CommitValidation(s)
    PROVE  SetupsInv' /\ \A q \in SetupIds : Evidence(q)
<1>1. /\ worker[s] \in Work /\ WorkOk(s) /\ worker[s].kind = "validate" /\ worker[s].todo = {}
      /\ worker' = [worker EXCEPT ![s] = None] /\ Exists(s) /\ setup[s] \in Setup /\ RowOk(setup[s])
  BY EndingFacts DEF CommitValidation
<1>2. setup[s].revision = worker[s].base /\ ~Archived(s)
  BY <1>1 DEF WorkOk
<1> DEFINE v == Verdict(s)
           r == [setup[s] EXCEPT !.status = v, !.reason = v = "attention",
                                 !.ready = IF v = "ready" THEN worker[s].base ELSE None]
<1>3. v \in {"draft", "ready", "attention"}
  BY DEF Verdict
<1>4. /\ r \in Setup /\ r.status = v /\ r.from = setup[s].from /\ r.revision = setup[s].revision
      /\ (v = "ready" => r.ready = r.revision) /\ setup[s].from = None /\ setup[s].status # "archived"
  <2>1. setup[s].from = None /\ setup[s].status # "archived"
    BY <1>1, <1>2 DEF RowOk, Archived
  <2> QED BY <1>1, <1>2, <1>3, <2>1 DEF Setup, Statuses
<1>5. setup' = [setup EXCEPT ![s] = r]
      /\ passed' = IF v = "ready" THEN [passed EXCEPT ![s] = [revision |-> worker[s].base, parts |-> Parts(s)]] ELSE passed
  <2>1. setup' = [setup EXCEPT ![s].status = v, ![s].reason = v = "attention",
                               ![s].ready = IF v = "ready" THEN worker[s].base ELSE None]
    BY <1>2 DEF CommitValidation
  <2> QED BY <1>1, <1>2, <2>1 DEF CommitValidation, SetupsInv, RowsInv
<1>6. \A t \in tokens : t.setup # s
  BY <1>2 DEF SetupsInv, TokensInv, TokensOfArchived
<1>7. v = "ready" => passed'[s] = [revision |-> r.revision, parts |-> Parts(s)]
  BY <1>2, <1>4, <1>5 DEF SetupsInv, RowsInv
<1>8. UNCHANGED <<artifacts, disk, links, tokens, reader, bounds>>
  BY DEF CommitValidation
<1>10. v # "attention" => SoundAtStart(s)
  <2>1. v # "attention" => ~worker[s].changed
    BY DEF Verdict
  <2>2. worker[s] # None
    BY EndingFacts DEF CommitValidation
  <2> QED BY <1>1, <2>1, <2>2, SoundWork
<1> HIDE DEF r, v
<1>9. RowStep(s, r)
  BY <1>1, <1>2, <1>3, <1>4, <1>5, <1>6, <1>7, <1>8, NoneAssumption, RecordAssumption DEF RowStep, RowOk, bounds, Statuses
<1>11. \A q \in SetupIds : Evidence(q)
  BY <1>3, <1>4, <1>5, <1>10, OneRowEvidence DEF InTrouble
<1> QED BY <1>1, <1>8, <1>9, <1>11, OneRow, BoundsAsBefore DEF SetupsInv

(* Restore: the row is what it was, or in attention. *)
LEMMA CommitRestoreInv ==
    ASSUME SetupsInv, NEW s \in SetupIds, CommitRestore(s)
    PROVE  SetupsInv' /\ \A q \in SetupIds : Evidence(q)
<1>1. /\ worker[s] \in Work /\ WorkOk(s) /\ worker[s].kind = "restore"
      /\ worker' = [worker EXCEPT ![s] = None] /\ Exists(s) /\ setup[s] \in Setup /\ RowOk(setup[s])
  BY EndingFacts DEF CommitRestore
<1>2. Archived(s) /\ setup[s].from \in {"draft", "ready", "attention"}
  BY <1>1, RowType DEF SetupsInv, WorkOk, RowOk, Archived
<1> DEFINE status == RestoreStatus(s, worker[s].changed)
           r == [setup[s] EXCEPT !.status = status, !.from = None,
                                 !.ready = IF status = "ready" THEN setup[s].revision ELSE None,
                                 !.reason = worker[s].changed \/ (status = "attention" /\ @)]
<1>3. status \in {"draft", "ready", "attention"} /\ (status = "ready" => setup[s].from = "ready")
  BY <1>2 DEF RestoreStatus
<1>4. /\ r \in Setup /\ r.status = status /\ r.from = None /\ r.revision = setup[s].revision
      /\ (status = "ready" => r.ready = r.revision)
  BY <1>1, <1>3 DEF Setup, Statuses, Work
<1>5. setup' = [setup EXCEPT ![s] = r]
  BY <1>1, Zenon DEF CommitRestore
<1>6. status = "ready" => passed[s] = [revision |-> setup[s].revision, parts |-> Parts(s)]
  BY <1>1, <1>3 DEF SetupsInv, RowsInv, ReadyAsValidated
<1>7. /\ UNCHANGED <<artifacts, disk, links, reader, passed, bounds>>
      /\ tokens' = {t \in tokens : t.setup # s}
  BY DEF CommitRestore, DropTokens
<1>8. current # None => current.setup # s
  BY <1>2 DEF SetupsInv, CurrentInv, CurrentKept
<1>10. status = "ready" => SoundAtStart(s)
  BY <1>1, EndingFacts, SoundWork DEF CommitRestore, RestoreStatus
<1>11. InTrouble(setup[s]) => status = "attention"
  BY <1>1, <1>2, RowType DEF SetupsInv, InTrouble, RestoreStatus, Archived
<1> HIDE DEF r, status
<1>9. RowStep(s, r)
  BY <1>1, <1>3, <1>4, <1>5, <1>6, <1>7, <1>8, RecordAssumption DEF RowStep, RowOk, bounds, Statuses
<1>12. \A q \in SetupIds : Evidence(q)
  BY <1>4, <1>5, <1>10, <1>11, OneRowEvidence DEF InTrouble
<1> QED BY <1>1, <1>7, <1>9, <1>12, OneRow, BoundsAsBefore DEF SetupsInv

(* The row after a pass: in attention, recovered, or as it was. *)
LEMMA PassEnds ==
    ASSUME SetupsInv, NEW s \in SetupIds, NEW kind, Ending(s, kind),
           NEW r \in {setup[s], Noticed(s), Recovered(s)}, setup' = [setup EXCEPT ![s] = r],
           UNCHANGED <<artifacts, disk, links, tokens, reader, passed, bounds>>
    PROVE  SetupsInv' /\ \A q \in SetupIds : Evidence(q)
<1>1. /\ worker' = [worker EXCEPT ![s] = None] /\ Exists(s) /\ setup[s] \in Setup /\ RowOk(setup[s])
  BY EndingFacts
<1>2. /\ None \notin Statuses /\ setup[s].from \in {"draft", "ready", "attention", None}
      /\ (Archived(s) <=> setup[s].status = "archived")
  BY <1>1, RowType DEF SetupsInv
<1>3. r \in {setup[s], [setup[s] EXCEPT !.reason = TRUE], [setup[s] EXCEPT !.from = "draft", !.reason = FALSE],
             [setup[s] EXCEPT !.status = "attention", !.ready = None, !.reason = TRUE],
             [setup[s] EXCEPT !.status = "draft", !.ready = None, !.reason = FALSE]}
      /\ (r # setup[s] => Archived(s) \/ r.status # "archived")
  BY <1>1, <1>2 DEF Noticed, Recovered, Setup
<1>4. /\ r \in Setup /\ r.revision = setup[s].revision /\ RowOk(r)
      /\ (r.status = "archived" <=> setup[s].status = "archived")
      /\ r.status = "ready" \/ r.from = "ready" => setup[s].status = "ready" \/ setup[s].from = "ready"
  <2>1. CASE Archived(s)
    <3>1. r \in {setup[s], [setup[s] EXCEPT !.reason = TRUE], [setup[s] EXCEPT !.from = "draft", !.reason = FALSE]}
      BY <1>1, <1>2, <2>1 DEF Noticed, Recovered, Setup
    <3> QED BY <1>1, <1>2, <2>1, <3>1 DEF Setup, RowOk, Statuses
  <2>2. CASE ~Archived(s)
    <3>1. r \in {setup[s], [setup[s] EXCEPT !.status = "attention", !.ready = None, !.reason = TRUE],
                 [setup[s] EXCEPT !.status = "draft", !.ready = None, !.reason = FALSE]}
      BY <1>1, <1>2, <2>2 DEF Noticed, Recovered, Setup
    <3> QED BY <1>1, <1>2, <2>2, <3>1 DEF Setup, RowOk, Statuses
  <2> QED BY <2>1, <2>2
<1>5. \A t \in tokens : t.setup = s => Archived(s)
  BY DEF SetupsInv, TokensInv, TokensOfArchived
<1>6. current # None /\ current.setup = s => ~Archived(s)
  BY DEF SetupsInv, CurrentInv, CurrentKept
<1>7. r.status = "ready" \/ r.from = "ready" => passed[s] = [revision |-> r.revision, parts |-> Parts(s)]
  BY <1>1, <1>4 DEF SetupsInv, RowsInv, ReadyAsValidated
<1>8. RowStep(s, r)
  BY <1>1, <1>2, <1>4, <1>5, <1>6, <1>7 DEF RowStep, bounds
<1>9. worker[s].changed \/ r = setup[s] \/ r = Noticed(s) \/ SoundAtStart(s)
  BY <1>1, EndingFacts, SoundWork
<1>10. InTrouble(setup[s]) /\ ~InTrouble(r) => SoundAtStart(s)
  <2>1. CASE r = setup[s] \/ r = Noticed(s) \/ worker[s].changed
    <3>1. r = setup[s] \/ r = Noticed(s)
      BY <2>1 DEF Recovered
    <3> QED BY <1>1, <1>2, <3>1 DEF Noticed, InTrouble, Setup
  <2> QED BY <1>9, <2>1
<1>11. r.status = "ready" => Ready(s)
  <2>1. r.status = "ready" => r.from # "ready" /\ setup[s].status # "archived"
    BY <1>4, RecordAssumption DEF RowOk, Statuses
  <2>2. r.status = "ready" => setup[s].from = None
    BY <1>1, <2>1 DEF RowOk
  <2>3. r.status = "ready" => setup[s].status = "ready"
    BY <1>2, <1>4, <2>2 DEF Statuses
  <2> QED BY <1>1, <2>3 DEF Ready
<1>12. \A q \in SetupIds : Evidence(q)
  BY <1>4, <1>10, <1>11, OneRowEvidence
<1> QED BY <1>1, <1>8, <1>12, OneRow, BoundsAsBefore DEF SetupsInv

LEMMA EndPassInv ==
    ASSUME SetupsInv, NEW s \in SetupIds, EndInspect(s) \/ EndReconcile(s)
    PROVE  SetupsInv' /\ \A q \in SetupIds : Evidence(q)
<1>1. setup = [setup EXCEPT ![s] = setup[s]]
  BY DEF SetupsInv, RowsInv
<1>2. CASE EndInspect(s)
  BY <1>1, <1>2, PassEnds DEF EndInspect
<1>3. CASE EndReconcile(s)
  BY <1>3, PassEnds DEF EndReconcile
<1> QED BY <1>2, <1>3

-----------------------------------------------------------------------------
(* A setup is made.                                                        *)

(* A new draft of s, of no artifacts or of those of another setup. *)
LEMMA MadeSetup ==
    ASSUME SetupsInv, NEW s \in SetupIds, setup[s] = None, NEW parts,
           setup' = [setup EXCEPT ![s] = Fresh(1)], artifacts' = [artifacts EXCEPT ![s] = parts],
           \E q \in SetupIds : parts = artifacts[q],
           UNCHANGED <<disk, links, tokens, reader, passed, bounds>>
    PROVE  /\ RowsInv' /\ VersionsInv' /\ CurrentInv' /\ RecentInv' /\ UIInv' /\ TokensInv'
           /\ \A q \in SetupIds : Evidence(q)
<1>1. /\ Fresh(1) \in Setup /\ RowOk(Fresh(1)) /\ Fresh(1).status = "draft" /\ Fresh(1).from = None /\ Fresh(1) # None
  <2>1. Fresh(1) \in Setup
    BY BoundsAssumption DEF Fresh, Setup, Statuses
  <2>2. Fresh(1).status = "draft" /\ Fresh(1).from = None
    BY DEF Fresh
  <2> QED BY <2>1, <2>2, RecordAssumption DEF RowOk
<1>2. /\ parts \in [Objects -> 0..MaxTouches \cup {None}]
      /\ setup' \in [SetupIds -> Setup \cup {None}] /\ artifacts' \in [SetupIds -> [Objects -> 0..MaxTouches \cup {None}]]
      /\ setup'[s] = Fresh(1) /\ artifacts'[s] = parts
      /\ \A q \in SetupIds \ {s} : setup'[q] = setup[q] /\ artifacts'[q] = artifacts[q]
  BY <1>1 DEF SetupsInv, RowsInv
<1>3. ~Exists(s) /\ Parts(s) = {} /\ Exists(s)' /\ ~Archived(s) /\ ~Archived(s)'
  BY <1>1, <1>2 DEF SetupsInv, RowsInv, Exists, Archived
<1>4. \A q \in SetupIds \ {s} : /\ Parts(q)' = Parts(q) /\ (Exists(q)' <=> Exists(q)) /\ (Archived(q)' <=> Archived(q))
  BY <1>2 DEF Parts, Exists, Archived
<1>5. RowsInv'
  <2>1. RowOk(setup[s])' /\ ~(setup'[s].status = "ready" \/ setup'[s].from = "ready")
    BY <1>1, <1>2, RecordAssumption DEF RowOk, Statuses
  <2> QED BY <1>2, <1>3, <1>4, <2>1 DEF SetupsInv, RowsInv, ReadyAsValidated
<1>6. VersionsInv'
  <2>1. disk' = disk /\ touches' = touches
    BY DEF bounds
  <2>2. \A q \in SetupIds : \E p \in SetupIds : artifacts'[q] = artifacts[p]
    BY <1>2
  <2> QED BY <2>1, <2>2 DEF SetupsInv, VersionsInv, Parts
<1>7. CurrentInv'
  <2> SUFFICES ASSUME NEW q \in SetupIds, current # None, current.setup = q
      PROVE  /\ Exists(q)' /\ ~Archived(q)' /\ setup[q].revision <= setup'[q].revision
             /\ setup[q].revision \in Nat /\ setup'[q].revision \in Nat
             /\ passed'[q] = passed[q] \/ (passed'[q] # None /\ passed'[q].revision = setup[q].revision)
    BY CurrentFollows DEF SetupsInv, CurrentInv, Selection, links
  <2>1. Exists(q) /\ ~Archived(q) /\ q # s
    BY <1>3 DEF SetupsInv, CurrentInv, CurrentKept
  <2>2. setup[q].revision \in Nat
    BY <2>1, RowType DEF SetupsInv
  <2> QED BY <1>2, <1>4, <2>1, <2>2
<1>8. RecentInv' /\ UIInv'
  BY <1>3, <1>4, ListsFollow DEF SetupsInv, NamesStay, links
<1>9. TokensInv'
  BY <1>2, <1>3, <1>4, TokensFollow DEF SetupsInv, TokensInv, TokensOfArchived
<1>10. \A q \in SetupIds : Evidence(q)
  BY <1>1, <1>3, OneRowEvidence
<1> QED BY <1>5, <1>6, <1>7, <1>8, <1>9, <1>10

LEMMA CreateSetupInv ==
    ASSUME SetupsInv, NEW s \in SetupIds, CreateSetup(s)
    PROVE  SetupsInv' /\ \A q \in SetupIds : Evidence(q)
<1>1. setup[s] = None /\ worker[s] = None /\ artifacts' = [artifacts EXCEPT ![s] = artifacts[s]]
  BY DEF SetupsInv, RowsInv, WorkersInv, WorkOk, Exists, CreateSetup, Free
<1>2. WorkersInv'
  BY <1>1, WorkersBut DEF SetupsInv, RowsInv, CreateSetup
<1>3. BoundsInv'
  BY BoundsAsBefore DEF SetupsInv, CreateSetup
<1> QED BY <1>1, <1>2, <1>3, MadeSetup DEF SetupsInv, CreateSetup

LEMMA CommitDuplicateInv ==
    ASSUME SetupsInv, NEW s \in SetupIds, CommitDuplicate(s)
    PROVE  SetupsInv' /\ \A q \in SetupIds : Evidence(q)
<1>1. /\ worker' = [worker EXCEPT ![s] = None] /\ worker[s].target \in SetupIds /\ Exists(s)
      /\ UNCHANGED <<disk, links, tokens, reader, passed, bounds>>
  BY EndingFacts DEF CommitDuplicate, WorkOk
<1>2. PICK t \in SetupIds : t = worker[s].target
  BY <1>1
<1>3. CASE setup[s].revision = worker[s].base /\ setup[t] = None
  <2>1. setup' = [setup EXCEPT ![t] = Fresh(1)] /\ artifacts' = [artifacts EXCEPT ![t] = artifacts[s]]
    BY <1>2, <1>3 DEF CommitDuplicate
  <2>2. \A q \in SetupIds : worker[q] # None => q # t
    BY <1>3 DEF SetupsInv, WorkersInv, WorkOk, Exists
  <2>3. WorkersInv'
    BY <1>1, <2>1, <2>2, WorkersBut DEF SetupsInv, RowsInv
  <2>4. BoundsInv'
    BY <1>1, BoundsAsBefore DEF SetupsInv
  <2> QED BY <1>1, <1>3, <2>1, <2>3, <2>4, MadeSetup DEF SetupsInv
<1>4. CASE ~(setup[s].revision = worker[s].base /\ setup[t] = None)
  <2>1. setup' = setup /\ artifacts' = artifacts
    BY <1>2, <1>4 DEF CommitDuplicate
  <2>2. stops' \in 0..MaxStops
    BY <1>1 DEF SetupsInv, BoundsInv, bounds
  <2> QED BY <1>1, <2>1, <2>2, ReleasedInv, QuietEvidence DEF bounds
<1> QED BY <1>3, <1>4

LEMMA EndInv ==
    ASSUME SetupsInv, NEW s \in SetupIds, End(s)
    PROVE  SetupsInv'
BY CommitValidationInv, CommitRestoreInv, CommitDuplicateInv, EndPassInv DEF End

LEMMA LookOneInv ==
    ASSUME SetupsInv, NEW s \in SetupIds, LookOne(s)
    PROVE  SetupsInv'
BY ValidateOneInv, RestoreOneInv, DuplicateOneInv, InspectOneInv, ReconcileOneInv DEF LookOne

-----------------------------------------------------------------------------
(* Edits and deletions.                                                    *)

(* A mutation of a setup moves its revision on, and leaves the others. *)
LEMMA Mutated ==
    ASSUME SetupsInv, NEW s \in SetupIds, NEW parts \in [Objects -> 0..MaxTouches \cup {None}], Mutate(s, parts),
           \A o \in Objects : parts[o] # None =>
              parts[o] <= disk[o].version /\ (parts[o] = disk[o].version => disk[o].content = "same"),
           current' = current
    PROVE  /\ RowsInv' /\ VersionsInv' /\ WorkersInv' /\ CurrentInv' /\ TokensInv' /\ BoundsInv'
           /\ \A q \in SetupIds : (Exists(q)' <=> Exists(q)) /\ (q # s => Parts(q)' = Parts(q))
           /\ Parts(s)' = {o \in Objects : parts[o] # None}
           /\ \A q \in SetupIds : Evidence(q)
<1> DEFINE r == NextMutation(s)
<1>1. /\ Exists(s) /\ worker[s] = None /\ ~Archived(s) /\ setup[s].revision < MaxRevision
      /\ setup' = [setup EXCEPT ![s] = r] /\ artifacts' = [artifacts EXCEPT ![s] = parts]
      /\ UNCHANGED <<disk, tokens, worker, reader, passed, bounds>>
  BY DEF Mutate, Unlocked
<1>2. /\ setup[s] \in Setup /\ RowOk(setup[s]) /\ setup[s].revision \in 1..MaxRevision /\ setup[s].from = None
  BY <1>1, RowType DEF SetupsInv, RowOk
<1>3. /\ r \in Setup /\ r.status \in {"attention", "draft"} /\ r.from = None /\ r.revision = setup[s].revision + 1
  <2>1. setup[s].revision + 1 \in 1..MaxRevision
    BY <1>1, <1>2, BoundsAssumption
  <2> QED BY <1>2, <2>1 DEF NextMutation, Setup, Statuses
<1>4. r # None /\ RowOk(r) /\ r.status # "archived"
  BY <1>3, RecordAssumption DEF RowOk
<1>14. InTrouble(setup[s]) => InTrouble(r)
  BY <1>2, RecordAssumption DEF InTrouble, NextMutation, Setup, Statuses
<1> HIDE DEF r
<1>15. \A q \in SetupIds : Evidence(q)
  BY <1>1, <1>3, <1>14, OneRowEvidence
<1>5. /\ setup' \in [SetupIds -> Setup \cup {None}] /\ artifacts' \in [SetupIds -> [Objects -> 0..MaxTouches \cup {None}]]
      /\ setup'[s] = r /\ artifacts'[s] = parts
      /\ \A q \in SetupIds \ {s} : setup'[q] = setup[q] /\ artifacts'[q] = artifacts[q]
  BY <1>1, <1>3 DEF SetupsInv, RowsInv
<1>6. Exists(s)' /\ ~Archived(s)' /\ Parts(s)' = {o \in Objects : parts[o] # None}
  BY <1>4, <1>5 DEF Exists, Archived, Parts
<1>7. \A q \in SetupIds \ {s} : /\ Parts(q)' = Parts(q) /\ (Exists(q)' <=> Exists(q)) /\ (Archived(q)' <=> Archived(q))
  BY <1>5 DEF Parts, Exists, Archived
<1>8. RowsInv'
  <2>1. RowOk(setup[s])' /\ ~(setup'[s].status = "ready" \/ setup'[s].from = "ready")
    BY <1>3, <1>4, <1>5, RecordAssumption DEF RowOk, Statuses
  <2> QED BY <1>1, <1>5, <1>6, <1>7, <2>1 DEF SetupsInv, RowsInv, ReadyAsValidated
<1>9. VersionsInv'
  <2>1. disk' = disk /\ touches' = touches
    BY <1>1 DEF bounds
  <2>2. ASSUME NEW q \in SetupIds \ {s}, NEW o \in Parts(q)'
        PROVE  artifacts'[q][o] <= disk[o].version /\ (artifacts'[q][o] = disk[o].version => disk[o].content = "same")
    BY <1>5, <1>7 DEF SetupsInv, VersionsInv
  <2> QED BY <1>5, <1>6, <2>1, <2>2 DEF SetupsInv, VersionsInv
<1>10. WorkersInv'
  BY <1>1, <1>5, WorkersBut DEF SetupsInv
<1>11. CurrentInv'
  <2> SUFFICES ASSUME NEW q \in SetupIds, current # None, current.setup = q
      PROVE  /\ Exists(q)' /\ ~Archived(q)' /\ setup[q].revision <= setup'[q].revision
             /\ setup[q].revision \in Nat /\ setup'[q].revision \in Nat
             /\ passed'[q] = passed[q] \/ (passed'[q] # None /\ passed'[q].revision = setup[q].revision)
    BY CurrentFollows DEF SetupsInv, CurrentInv, Selection
  <2>1. Exists(q) /\ ~Archived(q)
    BY DEF SetupsInv, CurrentInv, CurrentKept
  <2>2. setup[q].revision \in Nat
    BY <2>1, RowType DEF SetupsInv
  <2> QED BY <1>1, <1>3, <1>5, <1>6, <1>7, <2>1, <2>2
<1>12. TokensInv'
  <2>1. \A t \in tokens : t.setup \in SetupIds \ {s} /\ Archived(t.setup)
    BY <1>1 DEF SetupsInv, TokensInv, TokensOfArchived
  <2> QED BY <1>1, <1>5, <1>7, <2>1, TokensFollow DEF SetupsInv
<1>13. BoundsInv'
  BY <1>1, BoundsAsBefore DEF SetupsInv
<1> QED BY <1>1, <1>6, <1>7, <1>8, <1>9, <1>10, <1>11, <1>12, <1>13, <1>15

LEMMA PartsOf ==
    ASSUME SetupsInv, NEW s \in SetupIds
    PROVE  /\ artifacts[s] \in [Objects -> 0..MaxTouches \cup {None}]
           /\ \A o \in Objects : artifacts[s][o] # None =>
                 artifacts[s][o] <= disk[o].version /\ (artifacts[s][o] = disk[o].version => disk[o].content = "same")
BY DEF SetupsInv, RowsInv, VersionsInv, Parts

LEMMA UpdateSetupInv ==
    ASSUME SetupsInv, NEW s \in SetupIds, UpdateSetup(s)
    PROVE  SetupsInv'
<1>1. Mutate(s, artifacts[s]) /\ UNCHANGED links
  BY DEF UpdateSetup
<1>2. NamesStay
  BY <1>1, PartsOf, Mutated DEF NamesStay, Parts, links
<1> QED BY <1>1, <1>2, PartsOf, Mutated, ListsFollow DEF SetupsInv, links

LEMMA AddProgramInv ==
    ASSUME SetupsInv, NEW s \in SetupIds, NEW o \in Objects, AddProgram(s, o)
    PROVE  SetupsInv'
<1> DEFINE parts == [artifacts[s] EXCEPT ![o] = disk[o].version]
<1>1. Mutate(s, parts) /\ disk[o].content = "same" /\ UNCHANGED links
  BY DEF AddProgram
<1>2. disk[o].version \in 0..MaxTouches /\ disk[o].version # None
  BY NoneAssumption DEF SetupsInv, VersionsInv
<1>3. /\ parts \in [Objects -> 0..MaxTouches \cup {None}] /\ Parts(s) \subseteq {p \in Objects : parts[p] # None}
      /\ \A p \in Objects : parts[p] # None =>
            parts[p] <= disk[p].version /\ (parts[p] = disk[p].version => disk[p].content = "same")
  BY <1>1, <1>2, PartsOf DEF Parts
<1> HIDE DEF parts
<1>4. NamesStay
  BY <1>1, <1>3, Mutated DEF NamesStay, links
<1> QED BY <1>1, <1>3, <1>4, Mutated, ListsFollow DEF SetupsInv, links

LEMMA DeleteArtifactInv ==
    ASSUME SetupsInv, NEW s \in SetupIds, NEW o \in Objects, DeleteArtifact(s, o)
    PROVE  SetupsInv'
<1> DEFINE parts == [artifacts[s] EXCEPT ![o] = None]
<1>1. Mutate(s, parts) /\ ForgetArtifacts(s, {o}) /\ current' = current
  BY DEF DeleteArtifact
<1>2. /\ parts \in [Objects -> 0..MaxTouches \cup {None}] /\ {p \in Objects : parts[p] # None} = Parts(s) \ {o}
      /\ \A p \in Objects : parts[p] # None =>
            parts[p] <= disk[p].version /\ (parts[p] = disk[p].version => disk[p].content = "same")
  BY <1>1, PartsOf DEF Parts
<1> HIDE DEF parts
<1>3. /\ \A q \in SetupIds : (Exists(q)' <=> Exists(q)) /\ (q # s => Parts(q)' = Parts(q))
      /\ Parts(s)' = Parts(s) \ {o}
  BY <1>1, <1>2, Mutated
<1>4. \A q \in SetupIds, a \in Objects \cup {None} : Names(q, a) => Names(q, IF q = s /\ a = o THEN None ELSE a)'
  BY <1>3 DEF Names
<1>5. RecentInv'
  <2>1. recent \in Seq(Recent) /\ Len(recent) \in Nat /\ (\A i \in DOMAIN recent : recent[i] \in Recent)
        /\ DOMAIN recent = 1..Len(recent)
    BY DEF SetupsInv, RecentInv
  <2> DEFINE new(r) == IF r.setup = s /\ r.artifact \in {o} THEN [r EXCEPT !.artifact = None] ELSE r
  <2>2. recent' = [i \in DOMAIN recent |-> new(recent[i])]
    BY <1>1 DEF ForgetArtifacts
  <2>3. \A r \in Recent : new(r) \in Recent /\ new(r).setup = r.setup
           /\ new(r).artifact = IF r.setup = s /\ r.artifact = o THEN None ELSE r.artifact
    BY DEF Recent
  <2> HIDE DEF new
  <2>4. recent' \in Seq(Recent) /\ Len(recent') = Len(recent) /\ DOMAIN recent' = DOMAIN recent
    BY <2>1, <2>2, <2>3
  <2>5. \A i \in DOMAIN recent : Names(recent[i].setup, recent[i].artifact)
           /\ recent[i].setup \in SetupIds /\ recent[i].artifact \in Objects \cup {None}
    BY <2>1 DEF SetupsInv, RecentInv, Recent
  <2>6. \A i \in DOMAIN recent' : Names(recent[i].setup, recent[i].artifact)'
    BY <1>4, <2>1, <2>2, <2>3, <2>4, <2>5
  <2> QED BY <2>1, <2>2, <2>3, <2>4, <2>6 DEF SetupsInv, RecentInv
<1>6. UIInv'
  <2>1. \A c \in Clients : /\ ui[c] \in [setup : SetupIds \cup {None}, artifact : Objects \cup {None}]
                           /\ ui'[c] = IF ui[c].setup = s /\ ui[c].artifact \in {o} THEN [ui[c] EXCEPT !.artifact = None] ELSE ui[c]
    BY <1>1 DEF ForgetArtifacts, SetupsInv, UIInv
  <2>2. ui' \in [Clients -> [setup : SetupIds \cup {None}, artifact : Objects \cup {None}]]
    BY <1>1, <2>1 DEF ForgetArtifacts
  <2>3. ASSUME NEW c \in Clients
        PROVE  IF ui'[c].setup = None THEN ui'[c].artifact = None ELSE Names(ui[c].setup, ui[c].artifact)'
    <3>1. /\ ui'[c].setup = ui[c].setup
          /\ ui'[c].artifact = IF ui[c].setup = s /\ ui[c].artifact = o THEN None ELSE ui[c].artifact
      BY <2>1
    <3>2. IF ui[c].setup = None THEN ui[c].artifact = None ELSE Names(ui[c].setup, ui[c].artifact)
      BY DEF SetupsInv, UIInv
    <3> QED BY <1>4, <2>1, <3>1, <3>2
  <2> QED BY <2>2, <2>3 DEF UIInv
<1> QED BY <1>1, <1>2, <1>5, <1>6, Mutated DEF SetupsInv

LEMMA EditInv ==
    ASSUME SetupsInv, NEW s \in SetupIds, Edit(s)
    PROVE  SetupsInv'
BY CreateSetupInv, UpdateSetupInv, AddProgramInv, DeleteArtifactInv DEF Edit

-----------------------------------------------------------------------------
(* The recent list and the clients' state.                                 *)

(* A list without repetitions. *)
ListOk(list) ==
    list \in Seq(Recent) /\ \A i, j \in DOMAIN list : list[i].setup = list[j].setup => i = j

(* Others(s) is the list without the row of s. *)
LEMMA OthersOf ==
    ASSUME RecentInv, NEW s \in SetupIds
    PROVE  /\ ListOk(Others(s)) /\ Len(Others(s)) <= Len(recent)
           /\ \A i \in DOMAIN Others(s) : /\ Others(s)[i].setup # s
                                          /\ \E j \in DOMAIN recent : Others(s)[i] = recent[j]
<1>1. /\ recent \in Seq(Recent) /\ Len(recent) \in Nat /\ DOMAIN recent = 1..Len(recent)
      /\ (\A i \in DOMAIN recent : recent[i] \in Recent)
      /\ \A i, j \in DOMAIN recent : recent[i].setup = recent[j].setup => i = j
  BY DEF RecentInv
<1>2. CASE PositionOf(s) = {}
  BY <1>1, <1>2 DEF Others, PositionOf, ListOk
<1>3. CASE PositionOf(s) # {}
  <2>1. PICK p \in PositionOf(s) : p = CHOOSE i \in PositionOf(s) : TRUE
    BY <1>3
  <2>2. p \in 1..Len(recent) /\ recent[p].setup = s /\ Others(s) = SubSeq(recent, 1, p - 1) \o SubSeq(recent, p + 1, Len(recent))
    BY <1>1, <1>3, <2>1 DEF PositionOf, Others, RemoveAt
  <2> DEFINE m == Len(recent)
             front == SubSeq(recent, 1, p - 1)
             back  == SubSeq(recent, p + 1, m)
  <2>3. /\ front \in Seq(Recent) /\ Len(front) = p - 1 /\ \A i \in 1..(p - 1) : front[i] = recent[i]
    <3>1. p - 1 \in Int /\ 1 \in Int /\ \A i \in 1..(p - 1) : recent[i] \in Recent
      BY <1>1, <2>2
    <3>2. /\ front \in Seq(Recent) /\ Len(front) = IF 1 <= p - 1 THEN p - 1 - 1 + 1 ELSE 0
          /\ \A i \in 1..(p - 1 - 1 + 1) : front[i] = recent[1 + i - 1]
      BY <3>1, SubSeqProperties
    <3> QED BY <2>2, <3>2
  <2>4. /\ back \in Seq(Recent) /\ Len(back) = m - p /\ \A i \in 1..(m - p) : back[i] = recent[p + i]
    <3>1. p + 1 \in Int /\ m \in Int /\ \A i \in (p + 1)..m : recent[i] \in Recent
      BY <1>1, <2>2
    <3>2. /\ back \in Seq(Recent) /\ Len(back) = IF p + 1 <= m THEN m - (p + 1) + 1 ELSE 0
          /\ \A i \in 1..(m - (p + 1) + 1) : back[i] = recent[p + 1 + i - 1]
      BY <3>1, SubSeqProperties
    <3>3. m - (p + 1) + 1 = m - p /\ (~(p + 1 <= m) => m - p = 0) /\ \A i \in 1..(m - p) : p + 1 + i - 1 = p + i
      <4>1. m \in Nat /\ p \in 1..m
        BY <1>1, <2>2
      <4> HIDE DEF m
      <4>2. ASSUME NEW i \in 1..(m - p) PROVE p + 1 + i - 1 = p + i
        BY <4>1
      <4>3. m - (p + 1) + 1 = m - p /\ (~(p + 1 <= m) => m - p = 0)
        BY <4>1
      <4> QED BY <4>2, <4>3
    <3> QED BY <3>2, <3>3
  <2> HIDE DEF front, back
  <2>5. /\ Others(s) \in Seq(Recent) /\ Len(Others(s)) = m - 1
        /\ \A i \in 1..(m - 1) : Others(s)[i] = IF i < p THEN recent[i] ELSE recent[i + 1]
    <3>1. /\ front \o back \in Seq(Recent) /\ Len(front \o back) = Len(front) + Len(back)
          /\ \A i \in 1..(Len(front) + Len(back)) :
                (front \o back)[i] = IF i <= Len(front) THEN front[i] ELSE back[i - Len(front)]
      BY <2>3, <2>4, ConcatProperties
    <3>2. Others(s) = front \o back
      BY <2>2 DEF front, back
    <3>3. Len(front) + Len(back) = m - 1
      BY <1>1, <2>2, <2>3, <2>4
    <3>4. ASSUME NEW i \in 1..(m - 1) PROVE (front \o back)[i] = IF i < p THEN recent[i] ELSE recent[i + 1]
      <4>1. (front \o back)[i] = IF i <= p - 1 THEN front[i] ELSE back[i - (p - 1)]
        BY <2>3, <3>1, <3>3
      <4>2. CASE i < p
        BY <2>2, <2>3, <4>1, <4>2
      <4>3. CASE i >= p
        <5>1. i - (p - 1) \in 1..(m - p) /\ p + (i - (p - 1)) = i + 1
          BY <1>1, <2>2, <4>3
        <5>2. PICK k \in 1..(m - p) : k = i - (p - 1) /\ p + k = i + 1
          BY <5>1
        <5>3. back[k] = recent[i + 1]
          BY <2>4, <5>2
        <5>4. ~(i <= p - 1) /\ ~(i < p)
          BY <1>1, <2>2, <4>3
        <5> QED BY <4>1, <5>2, <5>3, <5>4
      <4>4. i < p \/ i >= p
        BY <1>1, <2>2
      <4> QED BY <4>2, <4>3, <4>4
    <3> QED BY <3>1, <3>2, <3>3, <3>4
  <2> DEFINE old(i) == IF i < p THEN i ELSE i + 1
  <2>6. /\ DOMAIN Others(s) = 1..(m - 1)
        /\ \A i \in 1..(m - 1) : Others(s)[i] = recent[old(i)] /\ old(i) \in 1..m /\ old(i) # p
        /\ \A i, j \in 1..(m - 1) : old(i) = old(j) => i = j
    <3>1. m \in Nat /\ p \in 1..m /\ recent[p].setup = s
      BY <1>1, <2>2
    <3> HIDE DEF m
    <3>2. \A i \in 1..(m - 1) : old(i) \in 1..m /\ old(i) # p
      BY <3>1
    <3>3. \A i, j \in 1..(m - 1) : old(i) = old(j) => i = j
      BY <3>1
    <3>4. \A i \in 1..(m - 1) : Others(s)[i] = recent[old(i)]
      BY <2>5
    <3>5. DOMAIN Others(s) = 1..(m - 1)
      BY <2>5, LenProperties
    <3> QED BY <3>2, <3>3, <3>4, <3>5
  <2> HIDE DEF old, m
  <2>7. \A i, j \in DOMAIN Others(s) : Others(s)[i].setup = Others(s)[j].setup => i = j
    BY <1>1, <2>6 DEF m
  <2>8. \A i \in DOMAIN Others(s) : Others(s)[i].setup # s /\ \E j \in DOMAIN recent : Others(s)[i] = recent[j]
    <3> SUFFICES ASSUME NEW i \in 1..m, i # p PROVE recent[i].setup # s
      BY <1>1, <2>6 DEF m
    <3> QED BY <1>1, <2>2 DEF m
  <2> QED BY <1>1, <2>5, <2>7, <2>8 DEF ListOk, m
<1> QED BY <1>2, <1>3

(* The rest of the state while a list or a client's state changes. *)
Listing == UNCHANGED <<setup, artifacts, disk, current, tokens, worker, reader, passed, bounds>>

LEMMA ListingInv ==
    ASSUME SetupsInv, Listing, RecentInv', UIInv'
    PROVE  SetupsInv'
BY RowsAsBefore, VersionsAsBefore, WorkersAsBefore, CurrentAsBefore, TokensAsBefore, BoundsAsBefore
   DEF SetupsInv, Listing, bounds

(* The names of the old list stay good. *)
LEMMA RecentFrom ==
    ASSUME RecentInv, NEW list, ListOk(list), Len(list) <= RecentLimit, recent' = list,
           \A i \in DOMAIN list : Names(list[i].setup, list[i].artifact),
           setup' = setup, artifacts' = artifacts
    PROVE  RecentInv'
<1>1. \A q \in SetupIds : \A a : Names(q, a)' <=> Names(q, a)
  BY DEF Names, Exists, Parts
<1>2. \A i \in DOMAIN list : list[i].setup \in SetupIds
  <2>1. \A i \in DOMAIN list : list[i] \in Recent
    BY DEF ListOk
  <2> QED BY <2>1 DEF Recent
<1>3. \A i \in DOMAIN recent' : Names(recent[i].setup, recent[i].artifact)'
  BY <1>1, <1>2
<1> QED BY <1>3 DEF RecentInv, ListOk

LEMMA TouchRecentInv ==
    ASSUME SetupsInv, NEW s \in SetupIds, NEW artifact \in Objects \cup {None}, TouchRecent(s, artifact)
    PROVE  SetupsInv'
<1>1. /\ Exists(s) /\ (artifact # None => artifact \in Parts(s)) /\ Listing /\ ui' = ui
  BY DEF TouchRecent, Listing
<1> DEFINE kept == {recent[i].artifact : i \in PositionOf(s)}
           last == IF artifact = None /\ kept # {} THEN CHOOSE a \in kept : TRUE ELSE artifact
           new  == [setup |-> s, artifact |-> last]
           list == <<new>> \o Others(s)
<1>2. recent' = Pruned(list)
  BY DEF TouchRecent
<1>3. last \in Objects \cup {None} /\ Names(s, last)
  <2>1. \A i \in DOMAIN recent : recent[i] \in Recent /\ Names(recent[i].setup, recent[i].artifact)
    BY DEF SetupsInv, RecentInv
  <2>2. \A a \in kept : a \in Objects \cup {None} /\ Names(s, a)
    BY <2>1 DEF PositionOf, Recent
  <2> QED BY <1>1, <2>2 DEF Names
<1>4. new \in Recent /\ new.setup = s /\ new.artifact = last
  BY <1>3 DEF Recent
<1>5. /\ Others(s) \in Seq(Recent) /\ Len(Others(s)) \in Nat /\ DOMAIN Others(s) = 1..Len(Others(s))
      /\ \A i, j \in DOMAIN Others(s) : Others(s)[i].setup = Others(s)[j].setup => i = j
      /\ \A i \in DOMAIN Others(s) : Others(s)[i].setup # s /\ Names(Others(s)[i].setup, Others(s)[i].artifact)
  BY OthersOf DEF SetupsInv, RecentInv, ListOk
<1> HIDE DEF new, last, kept
<1>6. /\ list \in Seq(Recent) /\ Len(list) = Len(Others(s)) + 1 /\ DOMAIN list = 1..(Len(Others(s)) + 1)
      /\ list[1] = new /\ \A i \in 2..(Len(Others(s)) + 1) : list[i] = Others(s)[i - 1]
  BY <1>4, <1>5
<1> HIDE DEF list
<1>7. \A i, j \in DOMAIN list : list[i].setup = list[j].setup => i = j
  <2> SUFFICES ASSUME NEW i \in DOMAIN list, NEW j \in DOMAIN list, list[i].setup = list[j].setup PROVE i = j
    OBVIOUS
  <2>1. CASE i = 1 /\ j = 1
    BY <2>1
  <2>2. CASE i = 1 /\ j # 1
    <3>1. j - 1 \in DOMAIN Others(s) /\ list[j] = Others(s)[j - 1] /\ list[i].setup = s
      BY <1>4, <1>5, <1>6, <2>2
    <3> QED BY <1>5, <3>1
  <2>3. CASE i # 1 /\ j = 1
    <3>1. i - 1 \in DOMAIN Others(s) /\ list[i] = Others(s)[i - 1] /\ list[j].setup = s
      BY <1>4, <1>5, <1>6, <2>3
    <3> QED BY <1>5, <3>1
  <2>4. CASE i # 1 /\ j # 1
    <3>1. /\ i - 1 \in DOMAIN Others(s) /\ list[i] = Others(s)[i - 1]
          /\ j - 1 \in DOMAIN Others(s) /\ list[j] = Others(s)[j - 1]
      BY <1>5, <1>6, <2>4
    <3>2. i - 1 = j - 1
      BY <1>5, <3>1
    <3> QED BY <1>6, <3>2
  <2> QED BY <2>1, <2>2, <2>3, <2>4
<1>8. \A i \in DOMAIN list : Names(list[i].setup, list[i].artifact)
  <2> SUFFICES ASSUME NEW i \in DOMAIN list PROVE Names(list[i].setup, list[i].artifact)
    OBVIOUS
  <2>1. CASE i = 1
    BY <1>3, <1>4, <1>6, <2>1
  <2>2. CASE i # 1
    <3>1. i - 1 \in DOMAIN Others(s) /\ list[i] = Others(s)[i - 1]
      BY <1>5, <1>6, <2>2
    <3> QED BY <1>5, <3>1
  <2> QED BY <2>1, <2>2
<1>9. /\ ListOk(recent') /\ Len(recent') <= RecentLimit
      /\ \A i \in DOMAIN recent' : Names(recent'[i].setup, recent'[i].artifact)
  <2> DEFINE n == IF Len(list) < RecentLimit THEN Len(list) ELSE RecentLimit
  <2>1. n \in Nat /\ n <= Len(list) /\ n <= RecentLimit /\ Len(list) \in Nat /\ DOMAIN list = 1..Len(list)
    BY <1>5, <1>6, LimitAssumption
  <2>2. recent' = SubSeq(list, 1, n)
    BY <1>2 DEF Pruned
  <2> HIDE DEF n
  <2>3. recent' \in Seq(Recent) /\ Len(recent') = n /\ DOMAIN recent' = 1..n /\ \A i \in 1..n : recent'[i] = list[i]
    BY <1>6, <2>1, <2>2
  <2> QED BY <1>7, <1>8, <2>1, <2>3 DEF ListOk
<1>10. RecentInv'
  BY <1>1, <1>9, RecentFrom DEF SetupsInv, Listing
<1>11. UIInv'
  BY <1>1 DEF SetupsInv, UIInv, Names, Exists, Parts, Listing
<1> QED BY <1>1, <1>10, <1>11, ListingInv

LEMMA DeleteRecentInv ==
    ASSUME SetupsInv, NEW s \in SetupIds, DeleteRecent(s) \/ ClearRecent
    PROVE  SetupsInv'
<1>1. Listing /\ ui' = ui /\ (recent' = Others(s) \/ recent' = <<>>)
  BY DEF DeleteRecent, ClearRecent, MutateRecent, Listing
<1>2. /\ ListOk(recent') /\ Len(recent') <= RecentLimit
      /\ \A i \in DOMAIN recent' : Names(recent'[i].setup, recent'[i].artifact)
  <2>1. CASE recent' = Others(s)
    BY <2>1, OthersOf, LimitAssumption DEF SetupsInv, RecentInv, ListOk
  <2>2. CASE recent' = <<>>
    BY <2>2, LimitAssumption DEF ListOk
  <2> QED BY <1>1, <2>1, <2>2
<1>3. RecentInv'
  BY <1>1, <1>2, RecentFrom DEF SetupsInv, Listing
<1>4. UIInv'
  BY <1>1 DEF SetupsInv, UIInv, Names, Exists, Parts, Listing
<1> QED BY <1>1, <1>3, <1>4, ListingInv

LEMMA PutUIStateInv ==
    ASSUME SetupsInv, NEW c \in Clients, NEW s \in SetupIds \cup {None}, NEW artifact \in Objects \cup {None},
           PutUIState(c, s, artifact)
    PROVE  SetupsInv'
<1>1. /\ Listing /\ recent' = recent /\ ui' = [ui EXCEPT ![c] = [setup |-> s, artifact |-> artifact]]
      /\ IF s = None THEN artifact = None ELSE Names(s, artifact)
  BY DEF PutUIState, Listing, Names
<1>2. RecentInv'
  BY <1>1 DEF SetupsInv, RecentInv, Names, Exists, Parts, Listing
<1>3. \A q, a : Names(q, a)' <=> Names(q, a)
  BY <1>1 DEF Names, Exists, Parts, Listing
<1>4. UIInv'
  <2>1. ui' \in [Clients -> [setup : SetupIds \cup {None}, artifact : Objects \cup {None}]]
    BY <1>1 DEF SetupsInv, UIInv
  <2> SUFFICES ASSUME NEW d \in Clients
      PROVE  IF ui'[d].setup = None THEN ui'[d].artifact = None ELSE Names(ui[d].setup, ui[d].artifact)'
    BY <2>1 DEF UIInv
  <2>2. CASE d = c
    BY <1>1, <1>3, <2>2 DEF SetupsInv, UIInv
  <2>3. CASE d # c
    BY <1>1, <1>3, <2>3 DEF SetupsInv, UIInv
  <2> QED BY <2>2, <2>3
<1> QED BY <1>1, <1>2, <1>4, ListingInv

LEMMA ListsInv ==
    ASSUME SetupsInv, NEW s \in SetupIds, Lists(s)
    PROVE  SetupsInv'
BY TouchRecentInv, DeleteRecentInv, PutUIStateInv DEF Lists

-----------------------------------------------------------------------------
(* The selection, confirmations and what happens outside.                  *)

(* Only a ready setup is selected. *)
LEMMA SelectInv ==
    ASSUME SetupsInv, NEW s \in SetupIds, SetCurrent(s) \/ ClearCurrent
    PROVE  SetupsInv'
<1>1. CurrentInv'
  <2>1. CASE SetCurrent(s)
    <3>1. /\ Exists(s) /\ setup[s].status = "ready" /\ current' = [setup |-> s, revision |-> setup[s].revision]
          /\ setup' = setup /\ passed' = passed
      BY <2>1 DEF SetCurrent, MaySelect
    <3>2. setup[s].revision \in 1..MaxRevision /\ ~Archived(s)
      BY <3>1, RowType DEF SetupsInv
    <3>3. passed[s] = [revision |-> setup[s].revision, parts |-> Parts(s)] /\ passed[s] # None
      <4>1. passed[s] = [revision |-> setup[s].revision, parts |-> Parts(s)]
        BY <3>1 DEF SetupsInv, RowsInv, ReadyAsValidated
      <4>2. [revision |-> setup[s].revision, parts |-> Parts(s)] \in Pass
        BY <3>2 DEF Pass, Parts
      <4> QED BY <4>1, <4>2, RecordAssumption
    <3>4. current' \in Selection /\ current'.setup = s /\ current'.revision = setup[s].revision
      BY <3>1, <3>2 DEF Selection
    <3>5. (Exists(s)' <=> Exists(s)) /\ (Archived(s)' <=> Archived(s))
      BY <3>1 DEF Exists, Archived
    <3>6. passed[s].revision >= setup[s].revision /\ setup[s].revision <= setup[s].revision
      BY <3>2, <3>3
    <3> QED BY <3>1, <3>2, <3>3, <3>4, <3>5, <3>6 DEF CurrentInv, CurrentKept
  <2>2. CASE ClearCurrent
    BY <2>2 DEF ClearCurrent, CurrentInv, CurrentKept
  <2> QED BY <2>1, <2>2
<1>2. UNCHANGED <<setup, artifacts, disk, recent, ui, tokens, worker, reader, passed, bounds>>
  BY DEF SetCurrent, ClearCurrent
<1> QED BY <1>1, <1>2, RowsAsBefore, VersionsAsBefore, WorkersAsBefore, ListsAsBefore, TokensAsBefore, BoundsAsBefore
        DEF SetupsInv, bounds

(* Confirmations are given for archived setups, and expire. *)
LEMMA ConfirmationInv ==
    ASSUME SetupsInv, (\E s \in SetupIds : CreateDeletePlan(s)) \/ (\E t \in tokens : ExpireToken(t))
    PROVE  SetupsInv'
<1>1. TokensInv' /\ issued' \in 0..MaxTokens
  <2>1. ASSUME NEW s \in SetupIds, CreateDeletePlan(s) PROVE TokensInv' /\ issued' \in 0..MaxTokens
    <3> DEFINE new == [setup |-> s, revision |-> setup[s].revision, facts |-> Facts(s)]
    <3>1. Archived(s) /\ tokens' = tokens \cup {new} /\ setup' = setup /\ artifacts' = artifacts
          /\ issued < MaxTokens /\ issued' = issued + 1
      BY <2>1 DEF CreateDeletePlan
    <3>2. \A q : (Archived(q)' <=> Archived(q)) /\ Parts(q)' = Parts(q)
      BY <3>1 DEF Archived, Exists, Parts
    <3>3. ASSUME NEW t \in tokens'
          PROVE  /\ t.setup \in SetupIds /\ Archived(t.setup) /\ t.revision = setup[t.setup].revision
                 /\ t.facts.programs = Cardinality(Parts(t.setup))
      <4>1. CASE t \in tokens
        BY <4>1 DEF SetupsInv, TokensInv, TokensOfArchived
      <4>2. CASE t = new
        BY <3>1, <4>2 DEF Facts
      <4> QED BY <3>1, <4>1, <4>2
    <3>4. TokensInv'
      BY <3>1, <3>2, <3>3 DEF TokensInv, TokensOfArchived
    <3>5. issued' \in 0..MaxTokens
      BY <3>1, BoundsAssumption DEF SetupsInv, BoundsInv
    <3> QED BY <3>4, <3>5
  <2>2. ASSUME NEW t \in tokens, ExpireToken(t) PROVE TokensInv' /\ issued' \in 0..MaxTokens
    <3>1. tokens' \subseteq tokens /\ setup' = setup /\ artifacts' = artifacts /\ issued' = issued
      BY <2>2 DEF ExpireToken, bounds
    <3>2. \A q : (Archived(q)' <=> Archived(q)) /\ Parts(q)' = Parts(q)
      BY <3>1 DEF Archived, Exists, Parts
    <3>3. TokensInv'
      BY <3>1, <3>2, TokensFollow DEF SetupsInv, TokensInv, TokensOfArchived
    <3> QED BY <3>1, <3>3 DEF SetupsInv, BoundsInv
  <2> QED BY <2>1, <2>2
<1>2. UNCHANGED <<setup, artifacts, disk, links, worker, reader, passed, plan, touches, stops>>
  BY DEF CreateDeletePlan, ExpireToken, bounds
<1>3. BoundsInv'
  BY <1>1, <1>2 DEF SetupsInv, BoundsInv
<1> QED BY <1>1, <1>2, <1>3, RowsAsBefore, VersionsAsBefore, WorkersAsBefore, CurrentAsBefore, ListsAsBefore
        DEF SetupsInv, links

LEMMA PermanentDeleteInv ==
    ASSUME SetupsInv, NEW t \in tokens, PermanentDelete(t)
    PROVE  SetupsInv'
<1>1. PICK s \in SetupIds : s = t.setup
  BY DEF SetupsInv, TokensInv
<1>2. /\ Exists(s) /\ worker[s] = None /\ Archived(s)
      /\ setup' = [setup EXCEPT ![s] = None] /\ artifacts' = [artifacts EXCEPT ![s] = NoParts]
      /\ passed' = [passed EXCEPT ![s] = None] /\ tokens' = {u \in tokens : u.setup # s}
      /\ recent' = Others(s)
      /\ ui' = [c \in Clients |-> IF ui[c].setup = s THEN [setup |-> None, artifact |-> None] ELSE ui[c]]
      /\ UNCHANGED <<disk, current, worker, reader, bounds>>
  BY <1>1 DEF PermanentDelete, DropTokens, ForgetSetup, Unlocked
<1>3. /\ setup' \in [SetupIds -> Setup \cup {None}] /\ artifacts' \in [SetupIds -> [Objects -> 0..MaxTouches \cup {None}]]
      /\ passed' \in [SetupIds -> Pass \cup {None}] /\ setup'[s] = None /\ artifacts'[s] = NoParts
      /\ \A q \in SetupIds \ {s} : setup'[q] = setup[q] /\ artifacts'[q] = artifacts[q] /\ passed'[q] = passed[q]
  BY <1>2 DEF SetupsInv, RowsInv, NoParts
<1>4. ~Exists(s)' /\ Parts(s)' = {}
  BY <1>3 DEF Exists, Parts, NoParts
<1>5. \A q \in SetupIds \ {s} : /\ Parts(q)' = Parts(q) /\ (Exists(q)' <=> Exists(q)) /\ (Archived(q)' <=> Archived(q))
  BY <1>3 DEF Parts, Exists, Archived
<1>6. RowsInv'
  BY <1>3, <1>4, <1>5 DEF SetupsInv, RowsInv, ReadyAsValidated
<1>7. VersionsInv'
  <2>1. disk' = disk /\ touches' = touches
    BY <1>2 DEF bounds
  <2>2. \A q \in SetupIds : Parts(q)' = {} \/ (Parts(q)' = Parts(q) /\ artifacts'[q] = artifacts[q])
    BY <1>3, <1>4, <1>5
  <2> QED BY <2>1, <2>2 DEF SetupsInv, VersionsInv
<1>8. WorkersInv'
  BY <1>2, <1>3, WorkersBut DEF SetupsInv
<1>9. CurrentInv'
  <2> SUFFICES ASSUME NEW q \in SetupIds, current # None, current.setup = q
      PROVE  /\ Exists(q)' /\ ~Archived(q)' /\ setup[q].revision <= setup'[q].revision
             /\ setup[q].revision \in Nat /\ setup'[q].revision \in Nat
             /\ passed'[q] = passed[q] \/ (passed'[q] # None /\ passed'[q].revision = setup[q].revision)
    BY <1>2, CurrentFollows DEF SetupsInv, CurrentInv, Selection
  <2>1. Exists(q) /\ ~Archived(q) /\ q # s
    BY <1>2 DEF SetupsInv, CurrentInv, CurrentKept
  <2>2. setup[q].revision \in Nat
    BY <2>1, RowType DEF SetupsInv
  <2> QED BY <1>3, <1>5, <2>1, <2>2
<1>10. \A q \in SetupIds \ {s} : \A a : Names(q, a)' <=> Names(q, a)
  BY <1>5 DEF Names
<1>11. RecentInv'
  <2>1. /\ ListOk(recent') /\ Len(recent') <= Len(recent) /\ Len(recent') \in Nat /\ Len(recent) \in Nat
        /\ \A i \in DOMAIN recent' : recent'[i].setup # s /\ \E j \in DOMAIN recent : recent'[i] = recent[j]
    BY <1>2, OthersOf DEF SetupsInv, RecentInv, ListOk
  <2>2. ASSUME NEW i \in DOMAIN recent' PROVE Names(recent[i].setup, recent[i].artifact)'
    <3>1. PICK j \in DOMAIN recent : recent'[i] = recent[j]
      BY <2>1
    <3>2. recent[j] \in Recent /\ Names(recent[j].setup, recent[j].artifact) /\ recent[j].setup # s
      BY <2>1, <3>1 DEF SetupsInv, RecentInv
    <3>3. recent[j].setup \in SetupIds \ {s}
      BY <3>2 DEF Recent
    <3> QED BY <1>10, <3>1, <3>2, <3>3
  <2> QED BY <2>1, <2>2, LimitAssumption DEF SetupsInv, RecentInv, ListOk
<1>12. UIInv'
  <2>1. ui' \in [Clients -> [setup : SetupIds \cup {None}, artifact : Objects \cup {None}]]
    BY <1>2 DEF SetupsInv, UIInv
  <2> SUFFICES ASSUME NEW c \in Clients
      PROVE  IF ui'[c].setup = None THEN ui'[c].artifact = None ELSE Names(ui[c].setup, ui[c].artifact)'
    BY <2>1 DEF UIInv
  <2>2. CASE ui[c].setup = s
    BY <1>2, <2>2
  <2>3. CASE ui[c].setup # s
    BY <1>2, <1>10, <2>3 DEF SetupsInv, UIInv
  <2> QED BY <2>2, <2>3
<1>13. TokensInv'
  <2>1. \A u \in tokens' : u \in tokens /\ u.setup \in SetupIds \ {s}
    BY <1>2 DEF SetupsInv, TokensInv
  <2> QED BY <1>3, <1>5, <2>1, TokensFollow DEF SetupsInv, TokensInv, TokensOfArchived
<1>14. BoundsInv'
  BY <1>2, BoundsAsBefore DEF SetupsInv
<1> QED BY <1>6, <1>7, <1>8, <1>9, <1>11, <1>12, <1>13, <1>14 DEF SetupsInv

(* A change from outside gives a file a version that no row has recorded. *)
LEMMA ChangeInv ==
    ASSUME SetupsInv, NEW o \in Objects, NEW content \in {"same", "altered", "gone"}, Change(o, content)
    PROVE  SetupsInv'
<1>1. /\ touches < MaxTouches /\ touches' = touches + 1 /\ touches \in Nat /\ touches' \in 0..MaxTouches
      /\ disk[o].version \in Nat /\ disk[o].version <= touches
      /\ disk' = [disk EXCEPT ![o] = [content |-> content, version |-> disk[o].version + 1]]
      /\ UNCHANGED <<setup, artifacts, links, tokens, worker, reader, passed, plan, issued, stops>>
  BY BoundsAssumption DEF SetupsInv, BoundsInv, VersionsInv, Change
<1>2. /\ disk' \in [Objects -> [content : {"same", "altered", "gone"}, version : 0..MaxTouches]]
      /\ disk'[o].version = disk[o].version + 1 /\ \A p \in Objects \ {o} : disk'[p] = disk[p]
  <2>1. disk[o].version + 1 \in 0..MaxTouches
    BY <1>1, BoundsAssumption
  <2> QED BY <1>1, <2>1 DEF SetupsInv, VersionsInv
<1>3. \A s \in SetupIds : Parts(s)' = Parts(s) /\ Parts(s) \subseteq Objects
      /\ (Exists(s)' <=> Exists(s)) /\ (Archived(s)' <=> Archived(s))
  BY <1>1 DEF Parts, Exists, Archived
<1>4. \A s \in SetupIds : \A p \in Parts(s) : artifacts[s][p] \in Nat /\ artifacts[s][p] <= disk[p].version
  BY DEF SetupsInv, RowsInv, VersionsInv, Parts
<1>5. VersionsInv'
  <2>1. ASSUME NEW p \in Objects PROVE disk'[p].version <= touches'
    <3>1. disk[p].version \in Nat /\ disk[p].version <= touches
      BY DEF SetupsInv, VersionsInv
    <3> QED BY <1>1, <1>2, <3>1
  <2>2. ASSUME NEW s \in SetupIds, NEW p \in Parts(s)
        PROVE  artifacts[s][p] <= disk'[p].version /\ (artifacts[s][p] = disk'[p].version => disk'[p].content = "same")
    <3>1. CASE p = o
      BY <1>1, <1>2, <1>4, <3>1
    <3>2. CASE p # o
      BY <1>2, <1>3, <3>2 DEF SetupsInv, VersionsInv
    <3> QED BY <3>1, <3>2
  <2> QED BY <1>1, <1>2, <1>3, <2>1, <2>2 DEF VersionsInv
<1>6. WorkersInv'
  <2> SUFFICES ASSUME NEW s \in SetupIds, worker[s] # None PROVE WorkOk(s)'
    BY <1>1 DEF SetupsInv, WorkersInv
  <2>1. WorkOk(s)
    BY DEF SetupsInv, WorkersInv
  <2>2. ASSUME NEW p \in worker[s].todo, Intact(s, p)' PROVE p \in worker[s].atStart
    <3>1. p \in Parts(s)
      BY <2>1 DEF WorkOk
    <3>2. p # o
      BY <1>1, <1>2, <1>4, <2>2, <3>1 DEF Intact
    <3>3. Intact(s, p)
      BY <1>1, <1>2, <1>3, <2>2, <3>1, <3>2 DEF Intact
    <3> QED BY <2>1, <3>3 DEF WorkOk
  <2> QED BY <1>1, <1>3, <2>1, <2>2 DEF WorkOk
<1>7. BoundsInv'
  BY <1>1 DEF SetupsInv, BoundsInv
<1> QED BY <1>1, <1>5, <1>6, <1>7, RowsAsBefore, CurrentAsBefore, ListsAsBefore, TokensAsBefore DEF SetupsInv, links

LEMMA OutsideInv ==
    ASSUME SetupsInv, Outside
    PROVE  SetupsInv'
<1>1. ASSUME NEW s \in SetupIds, NEW o \in Objects, ReadChanged(s, o) PROVE SetupsInv'
  <2>1. BoundsInv' /\ UNCHANGED <<setup, artifacts, disk, links, tokens, worker, passed, bounds>>
    BY <1>1 DEF SetupsInv, BoundsInv, ReadChanged, bounds
  <2> QED BY <2>1, RowsAsBefore, VersionsAsBefore, WorkersAsBefore, CurrentAsBefore, ListsAsBefore, TokensAsBefore
          DEF SetupsInv, links, bounds
<1> QED BY <1>1, ChangeInv, MarkInv DEF Outside

-----------------------------------------------------------------------------
(* The invariant of the specification.                                     *)

LEMMA AtFirst == Init => SetupsInv
<1> SUFFICES ASSUME Init PROVE SetupsInv
  OBVIOUS
<1>1. /\ \A s \in SetupIds : setup[s] = None /\ passed[s] = None /\ worker[s] = None /\ artifacts[s] = NoParts
      /\ \A s \in SetupIds : Parts(s) = {} /\ ~Exists(s)
  BY DEF Init, Parts, NoParts, Exists
<1>2. RowsInv
  BY <1>1 DEF Init, RowsInv, ReadyAsValidated, NoParts
<1>3. VersionsInv
  BY <1>1, BoundsAssumption DEF Init, VersionsInv
<1>4. WorkersInv
  BY <1>1 DEF Init, WorkersInv
<1>5. CurrentInv
  BY DEF Init, CurrentInv, CurrentKept
<1>6. RecentInv
  BY LimitAssumption, EmptySeq DEF Init, RecentInv
<1>7. UIInv
  BY DEF Init, UIInv
<1>8. TokensInv
  BY DEF Init, TokensInv, TokensOfArchived
<1>9. BoundsInv
  BY BoundsAssumption DEF Init, BoundsInv
<1> QED BY <1>2, <1>3, <1>4, <1>5, <1>6, <1>7, <1>8, <1>9 DEF SetupsInv

LEMMA InvStep == SetupsInv /\ [Next]_vars => SetupsInv'
<1> SUFFICES ASSUME SetupsInv, [Next]_vars PROVE SetupsInv'
  OBVIOUS
<1>1. ASSUME NEW s \in SetupIds,
             Edit(s) \/ SetCurrent(s) \/ Lists(s) \/ Archive(s) \/ CreateDeletePlan(s) \/ Begin(s) \/ LookOne(s) \/ End(s)
             \/ Stop(s) \/ \E o \in Objects : DuplicateCancelled(s, o)
      PROVE  SetupsInv'
  BY <1>1, EditInv, SelectInv, ListsInv, ArchiveInv, ConfirmationInv, BeginInv, LookOneInv, EndInv, StopInv,
     DuplicateOneInv, Zenon
<1>2. CASE ClearCurrent
  <2>1. ASSUME NEW s \in SetupIds PROVE SetupsInv'
    BY <1>2, SelectInv
  <2>2. CASE SetupIds = {}
    BY <1>2, <2>2 DEF ClearCurrent, SetupsInv, CurrentInv, Selection
  <2> QED BY <2>1, <2>2
<1>3. CASE Outside
  BY <1>3, OutsideInv
<1>4. CASE \E t \in tokens : ExpireToken(t) \/ PermanentDelete(t)
  BY <1>4, ConfirmationInv, PermanentDeleteInv
<1>5. CASE UNCHANGED vars
  BY <1>5, RowsAsBefore, VersionsAsBefore, WorkersAsBefore, CurrentAsBefore, ListsAsBefore, TokensAsBefore,
     BoundsAsBefore DEF SetupsInv, vars, links, bounds
<1> QED BY <1>1, <1>2, <1>3, <1>4, <1>5 DEF Next

(* SetupsInv holds: rows, versions, work, selection, lists and confirmations agree. *)
THEOREM SetupsInvariant == Spec => []SetupsInv
<1> QED BY AtFirst, InvStep, PTL DEF Spec

(* Whatever edits, validations, archives, restores, deletions, duplications  *)
(* and changes of the files come between: what is selected exists, is not    *)
(* archived and was ready at the selected revision, and the recent list and  *)
(* the clients' states name only what exists.                              *)
THEOREM SelectionsStay == Spec => []SelectionsKept
<1>1. SetupsInv => SelectionsKept
  <2> SUFFICES ASSUME SetupsInv PROVE SelectionsKept
    OBVIOUS
  <2>1. /\ recent \in Seq(Recent) /\ Len(recent) \in Nat /\ DOMAIN recent = 1..Len(recent)
        /\ \A i \in DOMAIN recent : recent[i] \in Recent /\ Names(recent[i].setup, recent[i].artifact)
    BY DEF SetupsInv, RecentInv
  <2>2. TypeOK
    <3>1. \A s \in SetupIds : Exists(s) =>
             /\ Archived(s) <=> setup[s].from # None
             /\ setup[s].status = "ready" => setup[s].ready = setup[s].revision
      BY DEF SetupsInv, RowsInv, RowOk, Archived
    <3>2. \A s \in SetupIds : ~Exists(s) => Parts(s) = {}
      BY DEF SetupsInv, RowsInv
    <3> QED BY <2>1, <3>1, <3>2 DEF TypeOK, SetupsInv, RowsInv, VersionsInv, CurrentInv, UIInv, WorkersInv, BoundsInv
  <2>3. CurrentKept
    BY DEF SetupsInv, CurrentInv
  <2>4. ListsKept
    <3>1. \A i \in DOMAIN recent : PositionOf(recent[i].setup) = {i}
      BY DEF SetupsInv, RecentInv, PositionOf
    <3>2. ASSUME NEW c \in Clients
          PROVE  /\ ui[c].setup # None => Exists(ui[c].setup)
                 /\ ui[c].artifact # None => ui[c].artifact \in Parts(ui[c].setup)
      BY DEF SetupsInv, UIInv, Names
    <3> QED BY <2>1, <3>1, <3>2 DEF ListsKept, SetupsInv, RecentInv, Names
  <2> QED BY <2>2, <2>3, <2>4 DEF SelectionsKept
<1> QED BY <1>1, SetupsInvariant, PTL

-----------------------------------------------------------------------------
(* What a step may do to a setup.                                          *)

LEMMA StepEvidence ==
    ASSUME SetupsInv, [Next]_vars, ~\E t \in tokens : PermanentDelete(t)
    PROVE  \A q \in SetupIds : Evidence(q)
<1>1. ASSUME NEW s \in SetupIds, Edit(s) PROVE \A q \in SetupIds : Evidence(q)
  <2>1. CASE UpdateSetup(s)
    BY <2>1, PartsOf, Mutated DEF UpdateSetup, links
  <2>2. ASSUME NEW o \in Objects, AddProgram(s, o) \/ DeleteArtifact(s, o) PROVE \A q \in SetupIds : Evidence(q)
    <3>1. PICK parts : Mutate(s, parts) /\ current' = current
                       /\ parts \in {[artifacts[s] EXCEPT ![o] = disk[o].version], [artifacts[s] EXCEPT ![o] = None]}
                       /\ (parts[o] # None => parts = [artifacts[s] EXCEPT ![o] = disk[o].version] /\ disk[o].content = "same")
      BY <2>2, PartsOf DEF AddProgram, DeleteArtifact, links
    <3>2. /\ parts \in [Objects -> 0..MaxTouches \cup {None}]
          /\ \A p \in Objects : parts[p] # None =>
                parts[p] <= disk[p].version /\ (parts[p] = disk[p].version => disk[p].content = "same")
      BY <3>1, PartsOf DEF SetupsInv, VersionsInv
    <3> QED BY <3>1, <3>2, Mutated
  <2> QED BY <1>1, <2>1, <2>2, CreateSetupInv DEF Edit
<1>2. ASSUME NEW s \in SetupIds, SetCurrent(s) \/ Lists(s) \/ CreateDeletePlan(s) \/ Begin(s) \/ Stop(s) \/ ClearCurrent
      PROVE  setup' = setup
  BY <1>2 DEF SetCurrent, Lists, CreateDeletePlan, Begin, Stop, ClearCurrent, TouchRecent, PutUIState, DeleteRecent,
              ClearRecent, MutateRecent, Validate, Restore, Reconcile, Inspect, Duplicate, Take
<1>3. ASSUME NEW s \in SetupIds, LookOne(s) \/ \E o \in Objects : DuplicateCancelled(s, o)
      PROVE  \A q \in SetupIds : Evidence(q)
  <2>1. ASSUME NEW o \in Objects, ValidateOne(s, o) \/ RestoreOne(s, o) \/ InspectOne(s, o) \/ ReconcileOne(s, o)
        PROVE  setup' = setup
    BY <2>1 DEF ValidateOne, RestoreOne, InspectOne, ReconcileOne
  <2> QED BY <1>3, <2>1, QuietEvidence, DuplicateOneInv DEF LookOne
<1>4. ASSUME NEW s \in SetupIds, End(s) PROVE \A q \in SetupIds : Evidence(q)
  BY <1>4, CommitValidationInv, CommitRestoreInv, CommitDuplicateInv, EndPassInv DEF End
<1>5. CASE Outside
  <2>1. ASSUME NEW s \in SetupIds, NEW o \in Objects, ReadChanged(s, o) PROVE setup' = setup
    BY <2>1 DEF ReadChanged
  <2>2. ASSUME NEW o \in Objects, NEW content, Change(o, content) PROVE setup' = setup
    BY <2>2 DEF Change
  <2> QED BY <1>5, <2>1, <2>2, QuietEvidence, MarkInv DEF Outside
<1>6. CASE (\E t \in tokens : ExpireToken(t)) \/ ClearCurrent \/ UNCHANGED vars
  BY <1>6, QuietEvidence DEF ExpireToken, ClearCurrent, vars
<1> QED BY <1>1, <1>2, <1>3, <1>4, <1>5, <1>6, ArchiveInv, QuietEvidence DEF Next

(* A permanent deletion removes one setup. *)
LEMMA DeletionEvidence ==
    ASSUME SetupsInv, NEW t \in tokens, PermanentDelete(t)
    PROVE  /\ t.setup \in SetupIds
           /\ \A q \in SetupIds : /\ q # t.setup => Evidence(q)
                                  /\ ~Ready(q) => ~Ready(q)'
                                  /\ Trouble(q) /\ Exists(q)' => Trouble(q)'
<1>1. PICK s \in SetupIds : s = t.setup
  BY DEF SetupsInv, TokensInv
<1>2. setup' = [setup EXCEPT ![s] = None]
  BY <1>1 DEF PermanentDelete
<1>3. setup'[s] = None /\ \A q \in SetupIds \ {s} : setup'[q] = setup[q]
  BY <1>2 DEF SetupsInv, RowsInv
<1> QED BY <1>1, <1>3 DEF Evidence, Exists, Ready, Trouble

(* A setup is ready only as a validation passed it at this revision, becomes  *)
(* ready only by work that found every artifact as recorded when it took the  *)
(* lock, and leaves attention only so: readers' marks, edits, archives and     *)
(* stopped work never make it ready.                                          *)
THEOREM StatusRestsOnEvidence == Spec => StatusByEvidence
<1>1. SetupsInv /\ [Next]_vars =>
         /\ [\A s \in SetupIds : ~Ready(s) /\ Ready(s)' => SoundAtStart(s)]_vars
         /\ [\A s \in SetupIds : Trouble(s) /\ Exists(s)' /\ ~Trouble(s)' => SoundAtStart(s)]_vars
  <2> SUFFICES ASSUME SetupsInv, [Next]_vars
      PROVE  \A s \in SetupIds : /\ ~Ready(s) /\ Ready(s)' => SoundAtStart(s)
                                 /\ Trouble(s) /\ Exists(s)' /\ ~Trouble(s)' => SoundAtStart(s)
    OBVIOUS
  <2>1. CASE \E t \in tokens : PermanentDelete(t)
    BY <2>1, DeletionEvidence
  <2>2. CASE ~\E t \in tokens : PermanentDelete(t)
    BY <2>2, StepEvidence DEF Evidence
  <2> QED BY <2>1, <2>2
<1>2. SetupsInv => ReadyAsValidated
  BY DEF SetupsInv, RowsInv
<1> QED BY <1>1, <1>2, SetupsInvariant, PTL DEF Spec, StatusByEvidence, ReadyIsFresh, AttentionEnds

(* A permanent deletion leaves without a reference exactly the objects that    *)
(* its confirmation named, and a confirmation is gone as soon as its setup is   *)
(* restored or deleted.                                                        *)
THEOREM ConfirmationsStay == Spec => ConfirmationsHold
<1>1. SetupsInv /\ SetupsInv' /\ [Next]_vars => [TokensOfArchived' /\ DeletesAsTold]_vars
  <2> SUFFICES ASSUME SetupsInv, SetupsInv', [Next]_vars, NEW s \in SetupIds, Exists(s), setup'[s] = None
      PROVE  \E t \in tokens : t.setup = s /\ t.facts.unique = {o \in Parts(s) : Owners(o)' = {}}
    BY DEF SetupsInv, TokensInv, DeletesAsTold
  <2>1. PICK t \in tokens : PermanentDelete(t)
    BY StepEvidence DEF Evidence, Exists
  <2>2. t.setup = s
    BY <2>1, DeletionEvidence DEF Evidence, Exists
  <2>3. t.facts.unique = {o \in Parts(s) : Owners(o) = {s}} /\ artifacts' = [artifacts EXCEPT ![s] = NoParts]
    BY <2>1, <2>2 DEF PermanentDelete, Confirmed, Facts
  <2>4. ASSUME NEW o \in Parts(s) PROVE Owners(o)' = {} <=> Owners(o) = {s}
    <3>1. artifacts'[s][o] = None /\ \A q \in SetupIds \ {s} : artifacts'[q] = artifacts[q]
      BY <2>3 DEF SetupsInv, RowsInv, NoParts, Parts
    <3>2. artifacts[s][o] # None
      BY DEF Parts
    <3> QED BY <3>1, <3>2 DEF Owners
  <2> QED BY <2>2, <2>3, <2>4
<1> QED BY <1>1, InvStep, SetupsInvariant, PTL DEF Spec, ConfirmationsHold

=============================================================================
