----------------------------- MODULE LibraryProofs -----------------------------
(***************************************************************************)
(* Proofs about the managed library, for any number of setups, contents    *)
(* and names and any requests, faults, ends of the process and changes     *)
(* from outside: no file that something refers to is collected, no file is *)
(* without its row, an import holds what it counts and ends once, and a    *)
(* setup keeps its primary program.                                        *)
(***************************************************************************)
EXTENDS Library, Integers, FiniteSetTheorems, SequenceTheorems, TLAPS

-----------------------------------------------------------------------------
(* The invariant: types. *)

Positions == {"idle", "enter", "stage", "reserve", "publish", "mark", "abandon", "cleanFailed", "claim", "change", "undo",
              "cleanOld", "cleanPrepared", "record", "finish", "verify", "publishSetup", "done"}
JournalState == Active \cup {"none", "completed", "failed", "conflict"}

TablesType ==
    /\ plan \in Plans
    /\ files \in [Keys -> Nat] /\ born \in [Keys -> Nat] /\ \A k \in Keys : files[k] <= born[k]
    /\ objects \in [Keys -> Roles \cup {None}]
    /\ arts \subseteq Art /\ IsFiniteSet(arts)
    /\ journal \in [Ops -> [1..2 -> JournalState]]
    /\ session \in Session \cup {None}
    /\ items \in [Names -> ItemRow \cup {None}]

(* What an operation has read: the revision or the items its client asked   *)
(* for, the file it published, the room in the import, the items it commits.*)
SeenType ==
    \E E, S : seen \in [Ops -> [expects : E, published : Nat, room : Int, existing : BOOLEAN, snapshot : S]]

LocalType ==
    /\ staging \subseteq Asked /\ heavy \subseteq Asked /\ Cardinality(heavy) <= MaxHeavy
    /\ locks \in [Locks -> Ops \cup {None}] /\ writer \in Asked \cup {None}
    /\ pc \in [Ops -> Positions] /\ got \in [Ops -> Seq(Nat \ {0})] /\ todo \in [Ops -> SUBSET Keys]
    /\ mode \in {"up", "down", "operations", "imports"}
    /\ SeenType

(* The invariant: an operation. What it has prepared is where its position  *)
(* says, and its reservations keep it.                                     *)
Preparing == {"stage", "reserve", "publish", "mark", "abandon"}
Holds(o)  == pc[o] \in {"stage", "reserve", "publish", "mark", "claim", "change"}

(* A commit holds the import's lock, so that what it has confirmed keeps its roles while the session is staging. *)
Committing(o) ==
    /\ locks[ImportLock] = o /\ session # None
    /\ Staging /\ ~seen[o].expects.partial => \E n \in Names \cap Confirmed(o) : items[n] # None /\ items[n].role = "program"

LocalOk(o) ==
    /\ mode # "up" => pc[o] \in {"idle", "done"}
    /\ pc[o] \in {"idle", "enter"} => got[o] = <<>>
    /\ Len(got[o]) <= Len(Ask(o).files)
    /\ pc[o] \in Preparing => Len(got[o]) < Len(Ask(o).files)
    /\ pc[o] \in {"claim", "change"} => Len(got[o]) = Len(Ask(o).files)
    /\ pc[o] \in {"verify", "publishSetup"} => Ask(o).kind = "commit" /\ DOMAIN seen[o].snapshot = Confirmed(o) /\ Committing(o)

PreparedOk(o) ==
    /\ Holds(o) => \A i \in 1..Len(got[o]) : journal[o][i] = "stored" /\ Kept(Ask(o).files[i].key, got[o][i])
    /\ pc[o] \in {"publish", "mark"} =>
          locks[Key(o)] = o /\ objects[Key(o)] # None /\ journal[o][Len(got[o]) + 1] = "intent"
    /\ pc[o] = "mark" => Kept(Key(o), seen[o].published) /\ seen[o].published # 0

OperationsInv == \A o \in Asked : LocalOk(o) /\ PreparedOk(o)

(* The lock of a content is held by its publisher, or by a collection whose *)
(* open transaction has unlinked the file that nothing referred to; nobody *)
(* holds two.                                                              *)
Collecting(o, k) == writer = o /\ pc[o] \in Cleaning /\ k \in todo[o] /\ files[k] = 0 /\ ~Referenced(k)
LockOk(k) ==
    locks[k] # None =>
        /\ locks[k] \in Asked
        /\ (pc[locks[k]] \in {"publish", "mark"} /\ Key(locks[k]) = k) \/ Collecting(locks[k], k)
LocksInv ==
    /\ \A k \in Keys : LockOk(k)
    /\ \A j, k \in Keys : locks[j] # None /\ locks[j] = locks[k] => j = k

(* The artifacts: an operation has made its own only when it is over with   *)
(* its transaction.                                                        *)
Past == {"undo", "cleanOld", "cleanPrepared", "record", "finish", "done"}
ArtsInv ==
    /\ \A a, b \in arts : a.id = b.id => a = b
    /\ \A a \in arts : a.id[1] \in Asked => pc[a.id[1]] \in Past /\ Ask(a.id[1]).kind \in {"add", "sheet", "commit"}

(* The import: only staged items hold an object, and there is no setup of   *)
(* it before its commit.                                                   *)
Listed == {n \in Names : items[n] # None}
ImportInv ==
    /\ IsFiniteSet(Listed)
    /\ session = None => \A n \in Names : items[n] = None
    /\ \A n \in Names : items[n] # None => (items[n].key # None <=> items[n].state = "staged") /\ (items[n].state = "staged" => items[n].version # 0)
    /\ Staging => ItemsIn({"published"}) = {} /\ IsFiniteSet(Bytes) /\ session.setup = None
    /\ Imported # {} => session # None
    /\ session # None /\ session.state = "cancelled" => \A n \in Names : items[n] # None => items[n].state = "excluded"
    /\ ImportsWhole

LibraryInv ==
    /\ TablesType /\ LocalType /\ OperationsInv /\ LocksInv /\ ArtsInv /\ ImportInv
    /\ ReferencedKept /\ FilesHaveRows

-----------------------------------------------------------------------------
(* Facts about the requests and the references.                            *)

LEMMA AskFacts ==
    ASSUME TablesType, NEW o \in Asked
    PROVE  /\ o \in Ops /\ o # None /\ Ask(o) \in Requests
           /\ Ask(o).kind \in Kinds /\ Ask(o).setup \in Setups /\ Ask(o).role \in Roles
           /\ Ask(o).files \in Seq([name : Names, key : Keys]) /\ Len(Ask(o).files) \in 0..2
           /\ DOMAIN Ask(o).files = 1..Len(Ask(o).files)
           /\ \A i \in 1..Len(Ask(o).files) : Ask(o).files[i].name \in Names /\ Ask(o).files[i].key \in Keys
<1>1. o \in Ops /\ Ask(o) \in Requests
  BY PlansAssumption DEF TablesType, Asked, Ask
<1>2. /\ Ask(o).kind \in Kinds /\ Ask(o).setup \in Setups /\ Ask(o).role \in Roles
      /\ Ask(o).files \in Seq([name : Names, key : Keys])
      /\ Len(Ask(o).files) \in {0, 1, 2}
  BY <1>1, RequestsAssumption
<1>3. \A i \in 1..Len(Ask(o).files) : Ask(o).files[i] \in [name : Names, key : Keys]
  BY <1>2, ElementOfSeq
<1>4. DOMAIN Ask(o).files = 1..Len(Ask(o).files)
  BY <1>2, LenProperties
<1> QED BY <1>1, <1>2, <1>3, <1>4, NoneAssumption

LEMMA AskLengths ==
    ASSUME TablesType, NEW o \in Asked
    PROVE  /\ Ask(o).kind = "add" => Len(Ask(o).files) \in {1, 2}
           /\ Ask(o).kind \in {"replace", "sheet", "rename", "upload", "exclude"} => Len(Ask(o).files) = 1
           /\ Ask(o).kind \in {"delete", "primary", "collect", "start", "commit", "cancel"} => Len(Ask(o).files) = 0
           /\ Ask(o).kind = "sheet" => Ask(o).role = "sheet"
<1>1. Ask(o) \in Requests
  BY AskFacts
<1>2. Ask(o).kind = "add" => Len(Ask(o).files) \in {1, 2}
  BY <1>1, RequestsAssumption
<1>3. Ask(o).kind \in {"replace", "sheet", "rename", "upload", "exclude"} => Len(Ask(o).files) \in {1}
  BY <1>1, RequestsAssumption
<1>4. Ask(o).kind \in {"delete", "primary", "collect", "start", "commit", "cancel"} => Len(Ask(o).files) \in {0}
  BY <1>1, RequestsAssumption
<1>5. Ask(o).kind = "sheet" => Ask(o).role = "sheet"
  BY <1>1, RequestsAssumption
<1> QED BY <1>2, <1>3, <1>4, <1>5

LEMMA Places ==
    ASSUME NEW m \in Nat, NEW n \in 0..2, m <= n
    PROVE  /\ \A i \in 1..m : i \in 1..2 /\ i \in 1..n
           /\ m < n => m + 1 \in 1..2 /\ m + 1 \in 1..n
OBVIOUS

LEMMA GotFacts ==
    ASSUME TablesType, LocalType, OperationsInv, NEW o \in Asked
    PROVE  /\ got[o] \in Seq(Nat \ {0}) /\ Len(got[o]) \in Nat /\ Len(got[o]) <= Len(Ask(o).files)
           /\ \A i \in 1..Len(got[o]) : got[o][i] \in Nat \ {0} /\ i \in 1..2 /\ i \in 1..Len(Ask(o).files)
                                        /\ Ask(o).files[i].key \in Keys /\ Ask(o).files[i].name \in Names
           /\ pc[o] \in Preparing => Key(o) \in Keys /\ Len(got[o]) + 1 \in 1..2 /\ Len(got[o]) + 1 \in 1..Len(Ask(o).files)
<1>1. got[o] \in Seq(Nat \ {0}) /\ LocalOk(o)
  BY AskFacts DEF LocalType, OperationsInv
<1>2. Len(got[o]) \in Nat /\ \A i \in 1..Len(got[o]) : got[o][i] \in Nat \ {0}
  BY <1>1, LenProperties, ElementOfSeq
<1>3. /\ Len(got[o]) <= Len(Ask(o).files) /\ Len(Ask(o).files) \in 0..2
      /\ pc[o] \in Preparing => Len(got[o]) < Len(Ask(o).files)
  BY <1>1, AskFacts DEF LocalOk
<1>4. /\ \A i \in 1..Len(got[o]) : i \in 1..2 /\ i \in 1..Len(Ask(o).files)
      /\ Len(got[o]) < Len(Ask(o).files) => Len(got[o]) + 1 \in 1..2 /\ Len(got[o]) + 1 \in 1..Len(Ask(o).files)
  BY <1>2, <1>3, Places
<1>5. pc[o] \in Preparing => Len(got[o]) + 1 \in 1..2 /\ Len(got[o]) + 1 \in 1..Len(Ask(o).files)
  BY <1>3, <1>4
<1>6. \A i \in 1..Len(Ask(o).files) : Ask(o).files[i].name \in Names /\ Ask(o).files[i].key \in Keys
  BY AskFacts
<1> QED BY <1>1, <1>2, <1>3, <1>4, <1>5, <1>6 DEF Key

LEMMA ReservationKeeps ==
    ASSUME TablesType, NEW o \in Asked, NEW i \in 1..Len(Ask(o).files), journal[o][i] \in Active
    PROVE  Referenced(Ask(o).files[i].key)
BY AskFacts DEF Referenced, Reserved, ReservedBy

LEMMA ArtKeeps ==
    ASSUME NEW a \in arts
    PROVE  Referenced(a.key)
BY DEF Referenced, CountedRefs

LEMMA StagedKeeps ==
    ASSUME NEW n \in ItemsIn({"staged"})
    PROVE  Referenced(items[n].key)
BY DEF Referenced, ImportRefs, ItemsIn

LEMMA StagedFacts ==
    ASSUME TablesType, ImportInv, NEW n \in ItemsIn({"staged"})
    PROVE  n \in Names /\ items[n] \in ItemRow /\ items[n].key \in Keys /\ items[n].version \in Nat \ {0} /\ items[n].role \in Roles
BY DEF TablesType, ImportInv, ItemsIn, ItemRow

LEMMA SameReferences ==
    ASSUME UNCHANGED <<plan, arts, items, journal>>
    PROVE  \A k : Referenced(k)' <=> Referenced(k)
BY DEF Referenced, CountedRefs, ImportRefs, Reserved, ReservedBy, Asked, Ask

LEMMA SameKept ==
    ASSUME UNCHANGED <<files, objects, touched>>
    PROVE  \A k, v : Kept(k, v)' <=> Kept(k, v)
BY DEF Kept

(* A content's lock is not held elsewhere than where it is said to be. *)
LEMMA NoContentLock ==
    ASSUME LibraryInv, NEW o \in Asked, pc[o] \notin {"publish", "mark"}, writer # o \/ todo[o] = {} \/ pc[o] \notin Cleaning
    PROVE  \A k \in Keys : locks[k] # o
<1> SUFFICES ASSUME NEW k \in Keys, locks[k] = o PROVE FALSE
  OBVIOUS
<1>1. LockOk(k) /\ o # None
  BY AskFacts DEF LibraryInv, LocksInv
<1> QED BY <1>1 DEF LockOk, Collecting

LEMMA LockNames ==
    /\ Locks = Keys \cup Setups \cup {ImportLock} /\ ImportLock \notin Keys
    /\ \A s \in Setups : s \notin Keys /\ s # ImportLock
BY LocksAssumption DEF Locks, ImportLock

LEMMA AsksSame ==
    ASSUME plan' = plan
    PROVE  Asked' = Asked /\ \A o : Ask(o)' = Ask(o)
BY DEF Asked, Ask

-----------------------------------------------------------------------------
(* What a step of one operation may do to the others.                      *)

OthersSame(o) ==
    \A q \in Ops \ {o} : pc'[q] = pc[q] /\ got'[q] = got[q] /\ seen'[q] = seen[q] /\ todo'[q] = todo[q] /\ journal'[q] = journal[q]
LocksKept(o) ==
    \A l \in Locks : locks'[l] = locks[l] \/ (locks[l] = None /\ locks'[l] = o) \/ (locks[l] = o /\ locks'[l] = None)
ReferencesKept ==
    \A k \in Keys : Referenced(k) => /\ objects[k] # None => objects'[k] # None
                                     /\ \A v : v # 0 /\ Kept(k, v) => Kept(k, v)'
TransactionKept(o) == writer \notin {None, o} => writer' = writer /\ UNCHANGED <<arts, items, journal>>
FilesKept(o) == \A k \in Keys : files[k] = 0 /\ files'[k] # 0 => locks[k] = o
RolesKept ==
    locks[ImportLock] # None /\ session # None =>
        /\ session' # None
        /\ Staging' => Staging /\ \A n \in Names : items[n] # None => items'[n] # None /\ items'[n].role = items[n].role
Respects(o) ==
    /\ plan' = plan /\ mode = "up" /\ mode' = "up"
    /\ OthersSame(o) /\ LocksKept(o) /\ ReferencesKept /\ TransactionKept(o) /\ FilesKept(o) /\ RolesKept

LEMMA SameRoles ==
    ASSUME UNCHANGED <<items, session>>
    PROVE  RolesKept
BY DEF RolesKept, Staging

LEMMA OthersOk ==
    ASSUME LibraryInv, NEW o \in Asked, Respects(o), NEW q \in Asked, q # o
    PROVE  LocalOk(q)' /\ PreparedOk(q)'
<1>1. /\ q \in Ops /\ Ask(q)' = Ask(q) /\ pc'[q] = pc[q] /\ got'[q] = got[q] /\ seen'[q] = seen[q] /\ journal'[q] = journal[q]
      /\ mode' = "up" /\ Key(q)' = Key(q)
  BY AskFacts, AsksSame DEF LibraryInv, Respects, OthersSame, Key
<1>2. LocalOk(q) /\ PreparedOk(q)
  BY DEF LibraryInv, OperationsInv
<1>3. LocalOk(q)'
  <2>1. ASSUME Committing(q) PROVE Committing(q)'
    <3>1. ImportLock \in Locks /\ q # None
      BY LockNames, AskFacts DEF LibraryInv
    <3>2. locks'[ImportLock] = q
      BY <2>1, <3>1 DEF Committing, Respects, LocksKept
    <3>3. session' # None /\ (Staging' => Staging /\ \A n \in Names : items[n] # None => items'[n] # None /\ items'[n].role = items[n].role)
      BY <2>1, <3>1 DEF Committing, Respects, RolesKept
    <3>4. Staging' /\ ~seen[q].expects.partial =>
            \E n \in Names \cap Confirmed(q) : items'[n] # None /\ items'[n].role = "program"
      BY <2>1, <3>3 DEF Committing
    <3> QED BY <1>1, <3>2, <3>3, <3>4 DEF Committing, Confirmed
  <2> QED BY <1>1, <1>2, <2>1 DEF LocalOk, Confirmed
<1>4. PreparedOk(q)'
  <2>1. ASSUME Holds(q), NEW i \in 1..Len(got[q]) PROVE Kept(Ask(q).files[i].key, got[q][i])'
    <3>1. Ask(q).files[i].key \in Keys /\ Referenced(Ask(q).files[i].key) /\ Kept(Ask(q).files[i].key, got[q][i]) /\ got[q][i] # 0
      BY <1>2, <2>1, GotFacts, ReservationKeeps DEF LibraryInv, PreparedOk, Active
    <3> QED BY <1>1, <3>1, ZenonT(60) DEF Respects, ReferencesKept, Kept
  <2>2. ASSUME pc[q] \in {"publish", "mark"} PROVE locks'[Key(q)] = q /\ objects'[Key(q)] # None /\ Referenced(Key(q))
    <3>1. /\ Key(q) \in Keys /\ Referenced(Key(q)) /\ locks[Key(q)] = q /\ objects[Key(q)] # None
      BY <1>2, <2>2, GotFacts, ReservationKeeps DEF LibraryInv, PreparedOk, Active, Preparing, Key
    <3>2. Key(q) \in Locks /\ q # None
      BY <3>1, LockNames, AskFacts DEF LibraryInv
    <3> QED BY <3>1, <3>2 DEF Respects, ReferencesKept, LocksKept
  <2>3. ASSUME pc[q] = "mark" PROVE Kept(Key(q), seen[q].published)' /\ seen'[q].published # 0
    <3>1. Key(q) \in Keys /\ Referenced(Key(q)) /\ Kept(Key(q), seen[q].published) /\ seen[q].published # 0
      BY <1>2, <2>2, <2>3, GotFacts DEF LibraryInv, PreparedOk, Preparing
    <3> QED BY <1>1, <3>1 DEF Respects, ReferencesKept, Kept
  <2> QED BY <1>1, <1>2, <2>1, <2>2, <2>3 DEF PreparedOk, Holds, Kept
<1> QED BY <1>3, <1>4

LEMMA OthersLocks ==
    ASSUME LibraryInv, NEW o \in Asked, Respects(o), NEW k \in Keys, locks'[k] # o
    PROVE  LockOk(k)'
<1> SUFFICES ASSUME locks'[k] # None PROVE LockOk(k)'
  BY DEF LockOk
<1>1. locks'[k] = locks[k] /\ locks[k] # None /\ locks[k] # o
  BY LockNames DEF Respects, LocksKept
<1>2. PICK q \in Asked : q = locks[k] /\ ((pc[q] \in {"publish", "mark"} /\ Key(q) = k) \/ Collecting(q, k))
  BY <1>1 DEF LibraryInv, LocksInv, LockOk
<1>3. pc'[q] = pc[q] /\ todo'[q] = todo[q] /\ Key(q)' = Key(q) /\ q \in Asked'
  BY <1>1, <1>2, AskFacts, AsksSame DEF LibraryInv, Respects, OthersSame, Key
<1>4. Collecting(q, k) => Collecting(q, k)'
  <2>1. Collecting(q, k) => writer' = q /\ files'[k] = 0 /\ UNCHANGED <<plan, arts, items, journal>>
    BY <1>1, <1>2, AskFacts DEF LibraryInv, Collecting, Respects, TransactionKept, FilesKept
  <2> QED BY <1>3, <2>1, SameReferences DEF Collecting
<1> QED BY <1>1, <1>2, <1>3, <1>4 DEF LockOk

LEMMA OperationStep ==
    ASSUME LibraryInv, NEW o \in Asked, Respects(o), TablesType', LocalType', LocalOk(o)', PreparedOk(o)',
           \A k \in Keys : locks'[k] = o => LockOk(k)', \A j, k \in Keys : locks'[j] = o /\ locks'[k] = o => j = k,
           ArtsInv', ImportInv', ReferencedKept', FilesHaveRows'
    PROVE  LibraryInv'
<1>1. OperationsInv'
  BY OthersOk, AsksSame DEF OperationsInv, Respects
<1>2. LocksInv'
  <2>1. \A k \in Keys : LockOk(k)'
    BY OthersLocks
  <2>2. \A k \in Keys : locks'[k] \in {None, o, locks[k]}
    BY LockNames DEF Respects, LocksKept
  <2> QED BY <2>1, <2>2 DEF LocksInv, LibraryInv
<1> QED BY <1>1, <1>2 DEF LibraryInv

(* A step that leaves the files and the tables of their references alone.  *)
References == <<plan, files, born, objects, arts, journal, items, session, touched>>

LEMMA SameTables ==
    ASSUME LibraryInv, UNCHANGED References
    PROVE  TablesType' /\ ReferencedKept' /\ FilesHaveRows' /\ ImportInv'
<1> USE DEF References
<1>1. TablesType'
  BY DEF LibraryInv, TablesType
<1>2. ReferencedKept' /\ FilesHaveRows'
  BY SameKept DEF LibraryInv, ReferencedKept, FilesHaveRows, ItemsIn
<1>3. ImportInv'
  BY DEF LibraryInv, ImportInv, ImportsWhole, ImportWithinLimit, ImportEndsOnce, Staging, StagedBytes, Bytes, ItemsIn, Listed, Imported,
         Asked, Ask
<1> QED BY <1>1, <1>2, <1>3

LEMMA LocalStep ==
    ASSUME LibraryInv, NEW o \in Asked, UNCHANGED References, UNCHANGED <<writer, got>>, mode = "up", mode' = "up",
           LocksKept(o), \A k \in Keys : locks'[k] # o,
           \A q \in Ops \ {o} : pc'[q] = pc[q] /\ seen'[q] = seen[q] /\ todo'[q] = todo[q],
           LocalType', LocalOk(o)', pc'[o] \notin {"publish", "mark"}, Holds(o)' => Holds(o) \/ got[o] = <<>>,
           pc[o] \in Past /\ Ask(o).kind \in {"add", "sheet", "commit"} => pc'[o] \in Past
    PROVE  LibraryInv'
<1>1. Respects(o)
  <2>1. ReferencesKept
    BY SameKept DEF ReferencesKept, References
  <2>2. RolesKept
    BY SameRoles DEF References
  <2> QED BY <2>1, <2>2 DEF Respects, References, OthersSame, TransactionKept, FilesKept
<1>2. PreparedOk(o)'
  <2>1. PreparedOk(o) /\ Ask(o)' = Ask(o) /\ o \in Ops
    BY AskFacts, AsksSame DEF LibraryInv, OperationsInv, References
  <2>2. \A k, v : Kept(k, v)' <=> Kept(k, v)
    BY SameKept DEF References
  <2> QED BY <2>1, <2>2 DEF PreparedOk, References
<1>3. ArtsInv'
  BY AskFacts, AsksSame DEF LibraryInv, ArtsInv, References
<1> QED BY <1>1, <1>2, <1>3, SameTables, OperationStep


-----------------------------------------------------------------------------
(* What the parts of an operation's state are after a step.                *)

LEMMA Moves ==
    ASSUME LocalType, NEW o \in Ops, NEW p \in Positions, Goto(o, p)
    PROVE  pc' \in [Ops -> Positions] /\ pc'[o] = p /\ \A q \in Ops \ {o} : pc'[q] = pc[q]
BY DEF LocalType, Goto

LEMMA Releases ==
    ASSUME LocalType, NEW o \in Ops, o # None, NEW ls, locks' = Release(o, ls)
    PROVE  /\ locks' \in [Locks -> Ops \cup {None}] /\ LocksKept(o)
           /\ \A l \in Locks : locks'[l] = IF l \in ls /\ locks[l] = o THEN None ELSE locks[l]
<1>1. DOMAIN locks = Locks
  BY DEF LocalType
<1>2. \A l \in Locks : locks'[l] = IF l \in ls /\ locks[l] = o THEN None ELSE locks[l]
  BY <1>1 DEF Release
<1>3. locks' \in [Locks -> Ops \cup {None}]
  BY <1>1 DEF Release, LocalType
<1> QED BY <1>2, <1>3 DEF LocksKept

LEMMA Locking ==
    ASSUME LocalType, NEW o \in Ops, NEW l \in Locks, Unlocked(l), locks' = [locks EXCEPT ![l] = o]
    PROVE  /\ locks' \in [Locks -> Ops \cup {None}] /\ LocksKept(o)
           /\ locks'[l] = o /\ \A m \in Locks \ {l} : locks'[m] = locks[m]
BY DEF LocalType, Unlocked, LocksKept

LEMMA LocksSame ==
    ASSUME LocalType, NEW o, UNCHANGED locks
    PROVE  locks' \in [Locks -> Ops \cup {None}] /\ LocksKept(o)
BY DEF LocalType, LocksKept

LEMMA SeenStays ==
    ASSUME SeenType, seen' = seen
    PROVE  SeenType'
BY DEF SeenType

LEMMA Published1 ==
    ASSUME SeenType, NEW o \in Ops, NEW v \in Nat, seen' = [seen EXCEPT ![o].published = v]
    PROVE  SeenType' /\ seen'[o].published = v /\ seen'[o].snapshot = seen[o].snapshot /\ seen'[o].expects = seen[o].expects
           /\ \A q \in Ops \ {o} : seen'[q] = seen[q]
BY DEF SeenType

LEMMA Expected1 ==
    ASSUME SeenType, NEW o \in Ops, NEW v, seen' = [seen EXCEPT ![o].expects = v]
    PROVE  SeenType' /\ seen'[o].expects = v /\ seen'[o].snapshot = seen[o].snapshot /\ seen'[o].published = seen[o].published
           /\ \A q \in Ops \ {o} : seen'[q] = seen[q]
<1>1. PICK E, S : seen \in [Ops -> [expects : E, published : Nat, room : Int, existing : BOOLEAN, snapshot : S]]
  BY DEF SeenType
<1>2. seen' \in [Ops -> [expects : E \cup {v}, published : Nat, room : Int, existing : BOOLEAN, snapshot : S]]
  BY <1>1
<1>3. SeenType'
  BY <1>2 DEF SeenType
<1> QED BY <1>1, <1>3

LEMMA Snapshot1 ==
    ASSUME SeenType, NEW o \in Ops, NEW v, seen' = [seen EXCEPT ![o].snapshot = v]
    PROVE  SeenType' /\ seen'[o].snapshot = v /\ seen'[o].expects = seen[o].expects /\ seen'[o].published = seen[o].published
           /\ \A q \in Ops \ {o} : seen'[q] = seen[q]
<1>1. PICK E, S : seen \in [Ops -> [expects : E, published : Nat, room : Int, existing : BOOLEAN, snapshot : S]]
  BY DEF SeenType
<1>2. seen' \in [Ops -> [expects : E, published : Nat, room : Int, existing : BOOLEAN, snapshot : S \cup {v}]]
  BY <1>1
<1>3. SeenType'
  BY <1>2 DEF SeenType
<1> QED BY <1>1, <1>3

LEMMA Room1 ==
    ASSUME SeenType, NEW o \in Ops, NEW r \in Int, NEW b \in BOOLEAN,
           seen' = [seen EXCEPT ![o].room = r, ![o].existing = b]
    PROVE  SeenType' /\ seen'[o].expects = seen[o].expects /\ \A q \in Ops \ {o} : seen'[q] = seen[q]
<1>1. PICK E, S : seen \in [Ops -> [expects : E, published : Nat, room : Int, existing : BOOLEAN, snapshot : S]]
  BY DEF SeenType
<1>2. seen' \in [Ops -> [expects : E, published : Nat, room : Int, existing : BOOLEAN, snapshot : S]]
  BY <1>1
<1>3. SeenType'
  BY <1>2 DEF SeenType
<1> QED BY <1>1, <1>3

LEMMA HeavyFacts ==
    ASSUME TablesType, LocalType, NEW o \in Asked
    PROVE  /\ Cardinality(heavy \ {o}) <= MaxHeavy
           /\ Cardinality(heavy) < MaxHeavy => Cardinality(heavy \cup {o}) <= MaxHeavy
<1>1. IsFiniteSet(Ops)
  <2>1. \A i, j \in Int : IsFiniteSet(i..j)
    BY FS_Interval
  <2>2. PICK i, j \in Int : i = 1 /\ j = 3
    OBVIOUS
  <2>3. IsFiniteSet(i..j)
    BY <2>1
  <2> QED BY <2>2, <2>3 DEF Ops
<1>2. Asked \subseteq Ops
  BY PlansAssumption DEF TablesType, Asked
<1>3. heavy \subseteq Ops
  BY <1>2 DEF LocalType
<1>4. IsFiniteSet(heavy)
  BY <1>1, <1>3, FS_Subset
<1>5. Cardinality(heavy) \in Nat /\ Cardinality(heavy) <= MaxHeavy /\ MaxHeavy \in Nat
  BY <1>4, FS_CardinalityType, LimitsAssumption DEF LocalType
<1>6. Cardinality(heavy \cup {o}) \in {Cardinality(heavy), Cardinality(heavy) + 1}
  BY <1>4, FS_AddElement
<1>7. Cardinality(heavy \ {o}) \in {Cardinality(heavy), Cardinality(heavy) - 1}
  BY <1>4, FS_RemoveElement
<1> QED BY <1>5, <1>6, <1>7

-----------------------------------------------------------------------------
(* Steps that touch neither files nor references.                          *)

LEMMA PlainStep ==
    ASSUME LibraryInv, NEW o \in Asked, NEW p \in Positions, Goto(o, p), UNCHANGED References,
           UNCHANGED <<writer, got, mode>>, mode = "up",
           \/ UNCHANGED locks
           \/ \E ls : locks' = Release(o, ls)
           \/ \E l \in Locks \ Keys : Unlocked(l) /\ locks' = [locks EXCEPT ![l] = o],
           SeenType', \A q \in Ops \ {o} : seen'[q] = seen[q],
           todo' \in [Ops -> SUBSET Keys], \A q \in Ops \ {o} : todo'[q] = todo[q],
           staging' \subseteq Asked, heavy' \subseteq Asked, Cardinality(heavy') <= MaxHeavy,
           pc[o] \notin {"publish", "mark"}, writer # o \/ todo[o] = {} \/ pc[o] \notin Cleaning,
           p \notin {"publish", "mark"}, LocalOk(o)', p \in {"stage", "reserve", "claim", "change"} => Holds(o) \/ got[o] = <<>>,
           pc[o] \in Past /\ Ask(o).kind \in {"add", "sheet", "commit"} => p \in Past
    PROVE  LibraryInv'
<1>1. o \in Ops /\ o # None /\ LocalType /\ TablesType /\ Asked' = Asked
  BY AskFacts, AsksSame DEF LibraryInv, References
<1>2. pc' \in [Ops -> Positions] /\ pc'[o] = p /\ \A q \in Ops \ {o} : pc'[q] = pc[q]
  BY <1>1, Moves
<1>3. /\ locks' \in [Locks -> Ops \cup {None}] /\ LocksKept(o)
      /\ \A k \in Keys : locks'[k] = locks[k] \/ locks'[k] = None
  <2>1. CASE \E l \in Locks \ Keys : Unlocked(l) /\ locks' = [locks EXCEPT ![l] = o]
    BY <1>1, <2>1, Locking, LockNames, ZenonT(60)
  <2>2. CASE UNCHANGED locks \/ \E ls : locks' = Release(o, ls)
    BY <1>1, <2>2, Releases, LocksSame, LockNames
  <2> QED BY <2>1, <2>2
<1>4. \A k \in Keys : locks'[k] # o
  BY <1>1, <1>3, NoContentLock, LockNames
<1>5. LocalType'
  BY <1>1, <1>2, <1>3 DEF LocalType, References
<1>6. Holds(o)' => Holds(o) \/ got[o] = <<>>
  BY <1>2 DEF Holds
<1> QED BY <1>1, <1>2, <1>3, <1>4, <1>5, <1>6, LocalStep

(* An operation's transaction is over, or there will be none. *)
LEMMA EndStep ==
    ASSUME LibraryInv, NEW o \in Asked, NEW p \in Past, Goto(o, p), UNCHANGED References,
           UNCHANGED <<writer, got, mode, seen>>, mode = "up",
           UNCHANGED locks \/ \E ls : locks' = Release(o, ls),
           todo' \in [Ops -> SUBSET Keys], \A q \in Ops \ {o} : todo'[q] = todo[q],
           staging' \subseteq Asked, heavy' \subseteq Asked, Cardinality(heavy') <= MaxHeavy,
           pc[o] \notin {"publish", "mark"}, writer # o \/ todo[o] = {} \/ pc[o] \notin Cleaning
    PROVE  LibraryInv'
<1>1. o \in Ops /\ LocalType /\ TablesType /\ Ask(o)' = Ask(o) /\ LocalOk(o)
  BY AskFacts, AsksSame DEF LibraryInv, References, OperationsInv
<1>2. p \in Positions /\ p \notin {"publish", "mark"} /\ p \notin {"stage", "reserve", "claim", "change"}
      /\ p \notin {"idle", "enter", "verify", "publishSetup"} /\ p \notin Preparing
  BY DEF Past, Positions, Preparing
<1>3. pc'[o] = p
  BY <1>1, <1>2, Moves
<1>4. LocalOk(o)'
  BY <1>1, <1>2, <1>3 DEF LocalOk
<1>5. SeenType' /\ \A q \in Ops \ {o} : seen'[q] = seen[q]
  BY <1>1, SeenStays DEF LocalType
<1> QED BY <1>1, <1>2, <1>4, <1>5, PlainStep

LEMMA HereFacts ==
    ASSUME LibraryInv, NEW o \in Ops, Here(o)
    PROVE  /\ o \in Asked /\ o # None /\ mode = "up" /\ TablesType /\ LocalType /\ LocalOk(o) /\ PreparedOk(o)
           /\ staging \subseteq Asked /\ heavy \subseteq Asked /\ Cardinality(heavy) <= MaxHeavy /\ Cardinality(heavy \ {o}) <= MaxHeavy
           /\ todo \in [Ops -> SUBSET Keys] /\ SeenType
BY AskFacts, HeavyFacts DEF LibraryInv, OperationsInv, Here, LocalType

LEMMA StageFailsOk ==
    ASSUME LibraryInv, NEW o \in Asked, StageFails(o)
    PROVE  LibraryInv'
BY HereFacts, AskFacts, EndStep DEF LibraryInv, StageFails, GiveUp, tables, disk, References, Cleaning, Past

LEMMA AfterFailedOk ==
    ASSUME LibraryInv, NEW o \in Asked, AfterFailed(o)
    PROVE  LibraryInv'
BY HereFacts, AskFacts, EndStep DEF LibraryInv, AfterFailed, GiveUp, tables, bounds, References, Cleaning, Past

LEMMA AfterOldOk ==
    ASSUME LibraryInv, NEW o \in Asked, AfterOld(o)
    PROVE  LibraryInv'
BY HereFacts, AskFacts, EndStep DEF LibraryInv, AfterOld, tables, disk, bounds, References, Cleaning, Past

LEMMA FinishOk ==
    ASSUME LibraryInv, NEW o \in Asked, Finish(o)
    PROVE  LibraryInv'
BY HereFacts, AskFacts, EndStep DEF LibraryInv, Finish, disk, sync, bounds, References, Cleaning, Past

LEMMA RefuseOk ==
    ASSUME LibraryInv, NEW o \in Asked, Refuse(o)
    PROVE  LibraryInv'
BY HereFacts, AskFacts, EndStep DEF LibraryInv, Refuse, Writing, GiveUp, disk, References, Cleaning, Past

LEMMA KeepPrimaryOk ==
    ASSUME LibraryInv, NEW o \in Asked, KeepPrimary(o)
    PROVE  LibraryInv'
BY HereFacts, AskFacts, EndStep DEF LibraryInv, KeepPrimary, Ready, disk, sync, bounds, References, Cleaning, Past

LEMMA ReplayOk ==
    ASSUME LibraryInv, NEW o \in Asked, Replay(o)
    PROVE  LibraryInv'
BY HereFacts, AskFacts, EndStep DEF LibraryInv, Replay, Ready, tables, disk, sync, bounds, References, Cleaning, Past

LEMMA DeclineOk ==
    ASSUME LibraryInv, NEW o \in Asked, Decline(o)
    PROVE  LibraryInv'
BY HereFacts, AskFacts, EndStep DEF LibraryInv, Decline, Ready, disk, sync, References, bounds, Cleaning, Past

LEMMA RefuseUploadOk ==
    ASSUME LibraryInv, NEW o \in Asked, RefuseUpload(o)
    PROVE  LibraryInv'
BY HereFacts, AskFacts, EndStep DEF LibraryInv, RefuseUpload, Storing, GiveUp, tables, disk, References, Cleaning, Past

LEMMA StageOk ==
    ASSUME LibraryInv, NEW o \in Asked, Stage(o)
    PROVE  LibraryInv'
<1> USE DEF Stage
<1>1. o \in Ops /\ Here(o) /\ pc[o] = "stage"
  BY AskFacts DEF LibraryInv
<1>2. LocalType /\ TablesType /\ LocalOk(o) /\ SeenType /\ o \in Asked /\ mode = "up"
  BY <1>1, HereFacts
<1>3. pc'[o] = "reserve" /\ Ask(o)' = Ask(o)
  BY <1>1, <1>2, Moves, AsksSame DEF Positions, bounds
<1>4. LocalOk(o)'
  BY <1>1, <1>2, <1>3 DEF LocalOk, Preparing
<1>5. staging' \subseteq Asked /\ heavy' \subseteq Asked /\ Cardinality(heavy') <= MaxHeavy
  BY <1>1, HereFacts, HeavyFacts
<1>6. todo \in [Ops -> SUBSET Keys] /\ SeenType'
  BY <1>2, SeenStays DEF LocalType
<1> QED BY <1>1, <1>2, <1>4, <1>5, <1>6, PlainStep DEF tables, bounds, References, Positions, Holds, Cleaning, Past

LEMMA CollectOk ==
    ASSUME LibraryInv, NEW o \in Asked, Collect(o)
    PROVE  LibraryInv'
<1> USE DEF Collect
<1>1. o \in Ops /\ Here(o) /\ pc[o] = "idle"
  BY AskFacts DEF LibraryInv
<1>2. todo' \in [Ops -> SUBSET Keys] /\ \A q \in Ops \ {o} : todo'[q] = todo[q]
  BY <1>1, HereFacts
<1> QED BY <1>1, <1>2, HereFacts, EndStep DEF tables, disk, sync, bounds, References, Cleaning, Past

LEMMA GotNothing ==
    ASSUME LibraryInv, NEW o \in Asked, Len(Ask(o).files) = 0
    PROVE  got[o] = <<>>
<1>1. got[o] \in Seq(Nat \ {0}) /\ Len(got[o]) \in Nat /\ Len(got[o]) <= 0
  BY GotFacts DEF LibraryInv
<1>2. Len(got[o]) = 0
  BY <1>1
<1> QED BY <1>1, <1>2, EmptySeq

LEMMA AfterPreparedOk ==
    ASSUME LibraryInv, NEW o \in Asked, AfterPrepared(o)
    PROVE  LibraryInv'
<1> USE DEF AfterPrepared
<1>1. o \in Ops /\ Here(o) /\ pc[o] = "cleanPrepared"
  BY AskFacts DEF LibraryInv
<1>2. LocalType /\ TablesType /\ LocalOk(o) /\ SeenType /\ o \in Asked /\ mode = "up"
  BY <1>1, HereFacts
<1>3. CASE Ask(o).kind = "collect"
  <2>1. Goto(o, "idle")
    BY <1>3
  <2>2. pc'[o] = "idle" /\ Ask(o)' = Ask(o) /\ Ask(o).files \in Seq([name : Names, key : Keys]) /\ Len(Ask(o).files) = 0
    BY <2>1, <1>1, <1>2, <1>3, Moves, AsksSame, AskLengths, AskFacts DEF Positions, bounds
  <2>3. got[o] = <<>> /\ got' = got
    BY <2>2, GotNothing DEF bounds
  <2>4. LocalOk(o)'
    BY <1>2, <2>2, <2>3 DEF LocalOk, Preparing
  <2>5. todo \in [Ops -> SUBSET Keys] /\ SeenType'
    BY <1>2, SeenStays DEF LocalType
  <2>6. "idle" \in Positions
    BY DEF Positions
  <2> QED BY <1>1, <1>2, <1>3, <2>1, <2>4, <2>5, <2>6, HereFacts, PlainStep DEF tables, disk, sync, bounds, References, Holds, Cleaning, Past
<1>4. CASE Ask(o).kind # "collect"
  BY <1>1, <1>4, HereFacts, EndStep DEF tables, disk, sync, bounds, References, Cleaning, Past
<1> QED BY <1>3, <1>4

LEMMA ClaimOk ==
    ASSUME LibraryInv, NEW o \in Asked, Claim(o)
    PROVE  LibraryInv'
<1> USE DEF Claim
<1>1. o \in Ops /\ Here(o) /\ pc[o] = "claim"
  BY AskFacts DEF LibraryInv
<1>2. LocalType /\ TablesType /\ LocalOk(o) /\ SeenType /\ o \in Asked /\ mode = "up"
  BY <1>1, HereFacts
<1>3. CASE Fresh(o)
  <2>1. Goto(o, "change")
    BY <1>3
  <2>2. pc'[o] = "change" /\ Ask(o)' = Ask(o) /\ "change" \in Positions
    BY <2>1, <1>1, <1>2, Moves, AsksSame DEF Positions, bounds
  <2>3. LocalOk(o)'
    BY <1>1, <1>2, <2>2 DEF LocalOk, Preparing
  <2>4. todo \in [Ops -> SUBSET Keys] /\ SeenType'
    BY <1>2, SeenStays DEF LocalType
  <2> QED BY <1>1, <1>2, <1>3, <2>1, <2>2, <2>3, <2>4, HereFacts, PlainStep DEF disk, bounds, References, Holds, Cleaning, Past
<1>4. CASE ~Fresh(o)
  BY <1>1, <1>4, HereFacts, EndStep DEF disk, bounds, References, Cleaning, Past
<1> QED BY <1>3, <1>4

LEMMA SubmitOk ==
    ASSUME LibraryInv, NEW o \in Asked, Submit(o)
    PROVE  LibraryInv'
<1>1. o \in Ops /\ Here(o) /\ pc[o] = "idle" /\ Goto(o, IF Ask(o).kind = "sheet" THEN "stage" ELSE "enter")
      /\ UNCHANGED <<tables, disk, sync, got, todo, fate, mode, bounds>>
  BY AskFacts DEF LibraryInv, Submit
<1>2. LocalType /\ TablesType /\ LocalOk(o) /\ SeenType /\ o \in Asked /\ mode = "up" /\ todo \in [Ops -> SUBSET Keys]
  BY <1>1, HereFacts
<1>3. PICK v : seen' = [seen EXCEPT ![o].expects = v]
  BY DEF Submit
<1>4. SeenType' /\ \A q \in Ops \ {o} : seen'[q] = seen[q]
  BY <1>1, <1>2, <1>3, Expected1
<1>5. PICK p \in {"stage", "enter"} : p = IF Ask(o).kind = "sheet" THEN "stage" ELSE "enter"
  OBVIOUS
<1>6. p \in Positions /\ Goto(o, p)
  BY <1>1, <1>5 DEF Positions
<1>7. pc'[o] = p /\ Ask(o)' = Ask(o) /\ got' = got /\ got[o] = <<>>
  BY <1>1, <1>2, <1>6, Moves, AsksSame DEF bounds, LocalOk
<1>8. LocalOk(o)'
  <2>1. p = "stage" => Len(Ask(o).files) = 1
    BY <1>2, <1>5, AskLengths
  <2>2. Len(<<>>) = 0 /\ Len(Ask(o).files) \in 0..2
    BY <1>2, AskFacts
  <2>3. pc'[o] \in {"stage", "enter"} /\ got'[o] = <<>> /\ Len(got'[o]) = 0 /\ mode' = "up" /\ (pc'[o] = "stage" => Len(Ask(o).files) = 1)
    BY <1>1, <1>2, <1>7, <2>1, <2>2
  <2>4. PICK n \in 0..2 : n = Len(Ask(o).files)
    BY <2>2
  <2>5. Len(Ask(o).files)' = n /\ (pc'[o] = "stage" => n = 1)
    BY <1>7, <2>3, <2>4
  <2> QED BY <2>3, <2>5 DEF LocalOk, Preparing
<1> QED BY <1>1, <1>2, <1>4, <1>6, <1>7, <1>8, HereFacts, PlainStep DEF tables, disk, sync, bounds, References, Holds, Cleaning, Past

LEMMA EnterOk ==
    ASSUME LibraryInv, NEW o \in Asked, Enter(o)
    PROVE  LibraryInv'
<1> USE DEF Enter
<1>1. o \in Ops /\ Here(o) /\ pc[o] = "enter"
  BY AskFacts DEF LibraryInv
<1>2. LocalType /\ TablesType /\ LocalOk(o) /\ SeenType /\ o \in Asked /\ mode = "up" /\ todo \in [Ops -> SUBSET Keys]
  BY <1>1, HereFacts
<1>3. CASE Ask(o).kind = "replace" /\ Target(o) = {}
  BY <1>1, <1>3, HereFacts, EndStep DEF tables, disk, bounds, References, Cleaning, Past
<1>4. CASE ~(Ask(o).kind = "replace" /\ Target(o) = {})
  <2>1. Goto(o, "stage") /\ Unlocked(Ask(o).setup) /\ locks' = [locks EXCEPT ![Ask(o).setup] = o] /\ got' = got
    BY <1>4
  <2>2. pc'[o] = "stage" /\ Ask(o)' = Ask(o) /\ "stage" \in Positions /\ got[o] = <<>>
    BY <2>1, <1>1, <1>2, Moves, AsksSame DEF Positions, bounds, LocalOk
  <2>3. Len(Ask(o).files) \in {1, 2} /\ Len(<<>>) = 0 /\ Ask(o).setup \in Locks \ Keys
    BY <1>2, AskLengths, AskFacts, LockNames
  <2>4. LocalOk(o)'
    <3>1. pc'[o] = "stage" /\ got'[o] = <<>> /\ Len(got'[o]) = 0 /\ mode' = "up"
      BY <1>1, <1>2, <2>1, <2>2, <2>3
    <3>2. PICK n \in {1, 2} : n = Len(Ask(o).files)
      BY <2>3
    <3>3. Len(Ask(o).files)' = n
      BY <2>2, <3>2
    <3> QED BY <3>1, <3>3 DEF LocalOk, Preparing
  <2>5. SeenType'
    BY <1>2, SeenStays
  <2> QED BY <1>1, <1>2, <1>4, <2>1, <2>2, <2>3, <2>4, <2>5, HereFacts, PlainStep DEF tables, disk, bounds, References, Holds, Cleaning, Past
<1> QED BY <1>3, <1>4

LEMMA ConfirmOk ==
    ASSUME LibraryInv, NEW o \in Asked, Confirm(o)
    PROVE  LibraryInv'
<1>1. o \in Ops /\ Here(o) /\ pc[o] = "idle" /\ Ask(o).kind = "commit" /\ Goto(o, "claim")
      /\ UNCHANGED <<tables, disk, sync, got, todo, fate, mode, bounds>>
  BY AskFacts DEF LibraryInv, Confirm, Asks
<1>2. LocalType /\ TablesType /\ LocalOk(o) /\ SeenType /\ o \in Asked /\ mode = "up" /\ todo \in [Ops -> SUBSET Keys]
  BY <1>1, HereFacts
<1>3. PICK v : seen' = [seen EXCEPT ![o].expects = v]
  BY DEF Confirm
<1>4. SeenType' /\ \A q \in Ops \ {o} : seen'[q] = seen[q]
  BY <1>1, <1>2, <1>3, Expected1
<1>5. pc'[o] = "claim" /\ Ask(o)' = Ask(o) /\ got' = got /\ got[o] = <<>> /\ "claim" \in Positions
  BY <1>1, <1>2, Moves, AsksSame DEF bounds, LocalOk, Positions
<1>6. Len(Ask(o).files) = 0 /\ Len(<<>>) = 0
  BY <1>1, <1>2, AskLengths
<1>7. LocalOk(o)'
  BY <1>1, <1>2, <1>5, <1>6 DEF LocalOk, Preparing
<1> QED BY <1>1, <1>2, <1>4, <1>5, <1>7, HereFacts, PlainStep DEF tables, disk, sync, bounds, References, Holds, Cleaning, Past

LEMMA BeginCommitOk ==
    ASSUME LibraryInv, NEW o \in Asked, BeginCommit(o)
    PROVE  LibraryInv'
<1> USE DEF BeginCommit
<1>1. o \in Ops /\ Here(o) /\ pc[o] = "change" /\ Ask(o).kind = "commit"
  BY AskFacts DEF LibraryInv
<1>2. LocalType /\ TablesType /\ LocalOk(o) /\ SeenType /\ o \in Asked /\ mode = "up" /\ todo \in [Ops -> SUBSET Keys]
  BY <1>1, HereFacts
<1>3. CASE Committable(o)
  <2>1. Goto(o, "verify") /\ Unlocked(ImportLock) /\ locks' = [locks EXCEPT ![ImportLock] = o] /\ seen' = [seen EXCEPT ![o].snapshot = Snapshot]
    BY <1>3
  <2>2. SeenType' /\ seen'[o].snapshot = Snapshot /\ seen'[o].expects = seen[o].expects /\ \A q \in Ops \ {o} : seen'[q] = seen[q]
    BY <1>1, <1>2, <2>1, Snapshot1
  <2>3. pc'[o] = "verify" /\ Ask(o)' = Ask(o) /\ "verify" \in Positions
    BY <2>1, <1>1, <1>2, Moves, AsksSame DEF Positions, bounds
  <2>4. DOMAIN Snapshot = seen[o].expects.items
    BY <1>3 DEF Committable, Snapshot
  <2>5. ImportLock \in Locks \ Keys
    BY LockNames
  <2>6. Committing(o)'
    <3>1. /\ Staging /\ ItemsIn({"staged"}) = Confirmed(o) /\ UNCHANGED <<items, session>>
          /\ ~seen[o].expects.partial => ProgramItems(Confirmed(o)) # {}
      BY <1>3 DEF Committable, Confirmed, tables
    <3>2. locks'[ImportLock] = o
      BY <1>1, <1>2, <2>1, <2>5, Locking
    <3>3. ~seen[o].expects.partial => \E n \in Names \cap Confirmed(o) : items[n] # None /\ items[n].role = "program"
      BY <3>1 DEF ProgramItems, ItemsIn
    <3> QED BY <2>2, <3>1, <3>2, <3>3 DEF Committing, Confirmed, Staging
  <2>7. LocalOk(o)'
    BY <1>1, <1>2, <2>2, <2>3, <2>4, <2>6 DEF LocalOk, Preparing, Confirmed
  <2> QED BY <1>1, <1>2, <2>1, <2>2, <2>3, <2>7, <2>5, HereFacts, PlainStep DEF tables, disk, bounds, References, Holds, Cleaning, Past
<1>4. CASE ~Committable(o)
  BY <1>1, <1>4, HereFacts, EndStep DEF tables, disk, bounds, References, Cleaning, Past
<1> QED BY <1>3, <1>4

LEMMA VerifyOk ==
    ASSUME LibraryInv, NEW o \in Asked, Verify(o)
    PROVE  LibraryInv'
<1> USE DEF Verify
<1>1. o \in Ops /\ Here(o) /\ pc[o] = "verify"
  BY AskFacts DEF LibraryInv
<1>2. LocalType /\ TablesType /\ LocalOk(o) /\ SeenType /\ o \in Asked /\ mode = "up" /\ todo \in [Ops -> SUBSET Keys]
  BY <1>1, HereFacts
<1>3. CASE Goto(o, "publishSetup") /\ UNCHANGED locks
  <2>1. pc'[o] = "publishSetup" /\ Ask(o)' = Ask(o) /\ "publishSetup" \in Positions
    BY <1>3, <1>1, <1>2, Moves, AsksSame DEF Positions, bounds
  <2>2. Committing(o)'
    BY <1>1, <1>2, <1>3 DEF LocalOk, Committing, Confirmed, Staging, tables
  <2>3. LocalOk(o)'
    BY <1>1, <1>2, <2>1, <2>2 DEF LocalOk, Preparing, Confirmed
  <2>4. SeenType'
    BY <1>2, SeenStays
  <2> QED BY <1>1, <1>2, <1>3, <2>1, <2>3, <2>4, HereFacts, PlainStep DEF tables, disk, bounds, References, Holds, Cleaning, Past
<1>4. CASE Goto(o, "finish") /\ locks' = Release(o, {ImportLock})
  BY <1>1, <1>4, HereFacts, EndStep DEF tables, disk, bounds, References, Cleaning, Past
<1> QED BY <1>3, <1>4

LEMMA SpareOk ==
    ASSUME LibraryInv, NEW o \in Asked, NEW k \in Keys, Spare(o, k)
    PROVE  LibraryInv'
<1> USE DEF Spare, AfterFailure
<1>1. o \in Ops /\ Here(o) /\ pc[o] \in Cleaning /\ writer = None
  BY AskFacts DEF LibraryInv, Candidate, Writable
<1>2. LocalType /\ TablesType /\ LocalOk(o) /\ SeenType /\ o \in Asked /\ mode = "up" /\ todo \in [Ops -> SUBSET Keys] /\ o # None
  BY <1>1, HereFacts
<1>3. todo' \in [Ops -> SUBSET Keys] /\ \A q \in Ops \ {o} : todo'[q] = todo[q]
  BY <1>1, <1>2
<1>4. Goto(o, pc[o]) /\ pc[o] \in Positions /\ pc'[o] = pc[o] /\ Ask(o)' = Ask(o)
  BY <1>1, <1>2, AsksSame DEF LocalType, Goto
<1>5. pc[o] \notin {"publish", "mark"} /\ pc[o] \notin {"stage", "reserve", "claim", "change"}
  BY <1>1 DEF Cleaning
<1>6. LocalOk(o)'
  BY <1>1, <1>2, <1>4 DEF LocalOk, Preparing, Cleaning
<1>7. SeenType'
  BY <1>2, SeenStays
<1> QED BY <1>1, <1>2, <1>3, <1>4, <1>5, <1>6, <1>7, HereFacts, PlainStep DEF tables, disk, sync, References

-----------------------------------------------------------------------------
(* Steps that change files, rows or reservations.                          *)

LEMMA SameImport ==
    ASSUME ImportInv, UNCHANGED <<plan, arts, items, session>>
    PROVE  ImportInv'
BY DEF ImportInv, ImportsWhole, ImportWithinLimit, ImportEndsOnce, Staging, StagedBytes, Bytes, ItemsIn, Listed, Imported, Asked, Ask

LEMMA ReferencesStay ==
    ASSUME LibraryInv, ReferencesKept, UNCHANGED <<arts, items>>
    PROVE  ReferencedKept'
<1>1. ASSUME NEW a \in arts PROVE Kept(a.key, a.version)'
  <2>1. a.key \in Keys /\ a.version # 0 /\ Referenced(a.key) /\ Kept(a.key, a.version)
    BY ArtKeeps DEF LibraryInv, TablesType, Art, ReferencedKept
  <2> QED BY <2>1 DEF ReferencesKept
<1>2. ASSUME NEW n \in ItemsIn({"staged"}) PROVE Kept(items[n].key, items[n].version)'
  <2>1. items[n].key \in Keys /\ items[n].version # 0 /\ Referenced(items[n].key) /\ Kept(items[n].key, items[n].version)
    BY StagedKeeps, StagedFacts DEF LibraryInv, ReferencedKept
  <2>2. \A k \in Keys : \A v : v # 0 /\ Referenced(k) /\ Kept(k, v) => Kept(k, v)'
    BY DEF ReferencesKept
  <2>3. PICK k, v : k = items[n].key /\ v = items[n].version
    OBVIOUS
  <2>4. Kept(k, v)'
    BY <2>1, <2>2, <2>3
  <2> QED BY <2>3, <2>4 DEF Kept
<1> QED BY <1>1, <1>2 DEF ReferencedKept, ItemsIn

LEMMA ArtsStay ==
    ASSUME LibraryInv, NEW o \in Asked, plan' = plan, arts' = arts, \A q \in Ops \ {o} : pc'[q] = pc[q],
           pc[o] \in Past /\ Ask(o).kind \in {"add", "sheet", "commit"} => pc'[o] \in Past
    PROVE  ArtsInv'
BY AskFacts, AsksSame DEF LibraryInv, ArtsInv

(* An operation that holds the content it publishes holds no other; one that does not, holds none. *)
LEMMA OwnLocks ==
    ASSUME LibraryInv, NEW o \in Asked, pc[o] \in {"publish", "mark"}, NEW k \in Keys, locks[k] = o
    PROVE  k = Key(o)
BY AskFacts DEF LibraryInv, LocksInv, LockOk, Collecting, Cleaning

LEMMA JournalWritten ==
    ASSUME TablesType, NEW o \in Ops, NEW i \in 1..2, NEW v \in JournalState, journal' = [journal EXCEPT ![o][i] = v]
    PROVE  /\ journal' \in [Ops -> [1..2 -> JournalState]] /\ journal'[o][i] = v
           /\ \A j \in 1..2 \ {i} : journal'[o][j] = journal[o][j]
           /\ \A q \in Ops \ {o} : journal'[q] = journal[q]
BY DEF TablesType

LEMMA JournalAbandoned ==
    ASSUME TablesType, NEW o \in Ops, NEW is, journal' = Abandoned(o, is)
    PROVE  /\ journal' \in [Ops -> [1..2 -> JournalState]]
           /\ \A q \in Ops \ {o} : journal'[q] = journal[q]
<1>1. journal[o] \in [1..2 -> JournalState] /\ DOMAIN journal[o] = 1..2
  BY DEF TablesType
<1>2. [i \in DOMAIN journal[o] |-> IF i \in is /\ journal[o][i] \in Active THEN "failed" ELSE journal[o][i]] \in [1..2 -> JournalState]
  BY <1>1 DEF JournalState
<1> QED BY <1>2 DEF TablesType, Abandoned

(* Reservations are given up. *)
LEMMA AbandonStep ==
    ASSUME LibraryInv, NEW o \in Asked, NEW is, NEW p \in {"cleanFailed", "cleanPrepared"}, Goto(o, p),
           UNCHANGED journal \/ journal' = Abandoned(o, is), pc[o] \in {"abandon", "undo"}, p = "cleanPrepared" <=> pc[o] = "undo",
           UNCHANGED <<plan, files, born, objects, arts, items, session, touched, mode, locks, writer, got, seen, staging, heavy>>,
           todo' \in [Ops -> SUBSET Keys], \A q \in Ops \ {o} : todo'[q] = todo[q], mode = "up", writer = None
    PROVE  LibraryInv'
<1>1. /\ o \in Ops /\ o # None /\ TablesType /\ LocalType /\ LocalOk(o) /\ Ask(o)' = Ask(o) /\ Asked' = Asked /\ p \in Positions
      /\ OperationsInv /\ ImportInv /\ FilesHaveRows
  BY AskFacts, AsksSame DEF LibraryInv, OperationsInv, Positions
<1>2. pc' \in [Ops -> Positions] /\ pc'[o] = p /\ \A q \in Ops \ {o} : pc'[q] = pc[q]
  BY <1>1, Moves
<1>3. journal' \in [Ops -> [1..2 -> JournalState]] /\ \A q \in Ops \ {o} : journal'[q] = journal[q]
  BY <1>1, JournalAbandoned DEF TablesType
<1>4. ReferencesKept
  BY SameKept DEF ReferencesKept
<1>5. Respects(o)
  BY <1>1, <1>2, <1>3, <1>4, LocksSame, SameRoles DEF Respects, OthersSame, TransactionKept, FilesKept
<1>6. TablesType' /\ LocalType'
  BY <1>1, <1>2, <1>3 DEF TablesType, LocalType, SeenType
<1>7. LocalOk(o)' /\ PreparedOk(o)'
  BY <1>1, <1>2 DEF LocalOk, PreparedOk, Holds, Preparing
<1>8. \A k \in Keys : locks'[k] # o
  BY <1>1, NoContentLock
<1>9. ArtsInv' /\ ImportInv' /\ ReferencedKept' /\ FilesHaveRows'
  BY <1>1, <1>2, <1>4, ArtsStay, SameImport, ReferencesStay DEF FilesHaveRows, Past
<1> QED BY <1>5, <1>6, <1>7, <1>8, <1>9, OperationStep

LEMMA AbandonPrepareOk ==
    ASSUME LibraryInv, NEW o \in Asked, AbandonPrepare(o)
    PROVE  LibraryInv'
<1> USE DEF AbandonPrepare
<1>1. o \in Ops /\ Here(o) /\ pc[o] = "abandon"
  BY AskFacts DEF LibraryInv
<1>2. Key(o) \in Keys
  BY <1>1, GotFacts DEF LibraryInv, Preparing
<1>3. todo' \in [Ops -> SUBSET Keys] /\ \A q \in Ops \ {o} : todo'[q] = todo[q]
  BY <1>1, <1>2, HereFacts
<1> QED BY <1>1, <1>3, HereFacts, AbandonStep DEF disk, sync, Writable

LEMMA UndoOk ==
    ASSUME LibraryInv, NEW o \in Asked, Undo(o)
    PROVE  LibraryInv'
<1> USE DEF Undo
<1>1. o \in Ops /\ Here(o) /\ pc[o] = "undo"
  BY AskFacts DEF LibraryInv
<1>2. Prepared(o) \subseteq Keys
  BY GotFacts DEF LibraryInv, Prepared
<1>3. todo' \in [Ops -> SUBSET Keys] /\ \A q \in Ops \ {o} : todo'[q] = todo[q]
  BY <1>1, <1>2, HereFacts
<1> QED BY <1>1, <1>3, HereFacts, AbandonStep DEF disk, sync, Writable

LEMMA ReserveOk ==
    ASSUME LibraryInv, NEW o \in Asked, Reserve(o)
    PROVE  LibraryInv'
<1> USE DEF Reserve
<1>1. o \in Ops /\ Here(o) /\ pc[o] = "reserve" /\ Unlocked(Key(o)) /\ Writable
  BY AskFacts DEF LibraryInv
<1>2. LocalType /\ TablesType /\ LocalOk(o) /\ PreparedOk(o) /\ SeenType /\ mode = "up" /\ todo \in [Ops -> SUBSET Keys] /\ o # None
  BY <1>1, HereFacts
<1>3. /\ Key(o) \in Keys /\ Len(got[o]) \in Nat /\ Len(got[o]) + 1 \in 1..2 /\ Ask(o).role \in Roles /\ Ask(o).role # None
      /\ Ask(o)' = Ask(o) /\ Asked' = Asked /\ Key(o)' = Key(o) /\ Key(o) \in Locks
  BY <1>1, <1>2, GotFacts, AskFacts, AsksSame, LockNames, NoneAssumption DEF LibraryInv, Preparing, Key
<1>4. CASE Goto(o, "publish")
  <2>1. /\ locks' = [locks EXCEPT ![Key(o)] = o] /\ objects' = [objects EXCEPT ![Key(o)] = Ask(o).role]
        /\ journal' = [journal EXCEPT ![o][Len(got[o]) + 1] = "intent"]
    <3>1. pc'[o] = "publish"
      BY <1>1, <1>2, <1>4, Moves DEF Positions
    <3>2. ~Goto(o, "abandon")
      BY <1>1, <1>2, <3>1, Moves DEF Positions
    <3> QED BY <3>2 DEF RowEnsured
  <2>2. pc' \in [Ops -> Positions] /\ pc'[o] = "publish" /\ \A q \in Ops \ {o} : pc'[q] = pc[q]
    BY <1>1, <1>2, <1>4, Moves DEF Positions
  <2>3. locks' \in [Locks -> Ops \cup {None}] /\ LocksKept(o) /\ locks'[Key(o)] = o /\ \A l \in Locks \ {Key(o)} : locks'[l] = locks[l]
    BY <1>1, <1>2, <1>3, <2>1, Locking
  <2>4. /\ journal' \in [Ops -> [1..2 -> JournalState]] /\ journal'[o][Len(got[o]) + 1] = "intent"
        /\ \A j \in 1..2 \ {Len(got[o]) + 1} : journal'[o][j] = journal[o][j]
        /\ \A q \in Ops \ {o} : journal'[q] = journal[q]
    <3>1. "intent" \in JournalState
      BY DEF JournalState, Active
    <3> QED BY <1>1, <1>2, <1>3, <2>1, <3>1, JournalWritten, ZenonT(60)
  <2>5. objects' \in [Keys -> Roles \cup {None}] /\ \A k \in Keys : objects[k] # None => objects'[k] # None
    BY <1>2, <1>3, <2>1 DEF TablesType
  <2>6. ReferencesKept
    BY <2>5 DEF ReferencesKept, Kept, disk
  <2>7. Respects(o)
    BY <1>1, <1>2, <2>2, <2>3, <2>4, <2>6, SameRoles DEF Respects, OthersSame, TransactionKept, FilesKept, disk, Writable
  <2>8. TablesType' /\ LocalType'
    BY <1>2, <1>3, <2>2, <2>3, <2>4, <2>5 DEF TablesType, LocalType, SeenType, disk
  <2>9. LocalOk(o)'
    BY <1>1, <1>2, <1>3, <2>2 DEF LocalOk, Preparing
  <2>10. PreparedOk(o)'
    <3>1. ASSUME NEW i \in 1..Len(got[o]) PROVE journal'[o][i] = "stored" /\ Kept(Ask(o).files[i].key, got[o][i])'
      <4>1. i \in 1..2 /\ i # Len(got[o]) + 1 /\ Ask(o).files[i].key \in Keys
        BY <1>1, <1>3, GotFacts DEF LibraryInv
      <4>2. journal[o][i] = "stored" /\ Kept(Ask(o).files[i].key, got[o][i])
        BY <1>1, <1>2 DEF PreparedOk, Holds
      <4> QED BY <1>3, <2>4, <2>5, <4>1, <4>2 DEF Kept, disk
    <3>2. objects'[Key(o)] # None
      BY <1>2, <1>3, <2>1 DEF TablesType
    <3> QED BY <1>3, <2>2, <2>3, <2>4, <3>1, <3>2 DEF PreparedOk
  <2>11. \A k \in Keys : locks'[k] = o => k = Key(o)
    <3>1. \A k \in Keys : locks[k] # o
      BY <1>1, <1>2, NoContentLock DEF Writable
    <3> QED BY <2>3, <3>1, LockNames
  <2>12. \A k \in Keys : locks'[k] = o => LockOk(k)'
    BY <1>1, <1>2, <1>3, <2>2, <2>11 DEF LockOk, Here
  <2>13. ArtsInv' /\ ImportInv' /\ ReferencedKept' /\ FilesHaveRows'
    BY <1>1, <1>2, <2>2, <2>5, <2>6, ArtsStay, SameImport, ReferencesStay DEF LibraryInv, FilesHaveRows, Past, disk
  <2> QED BY <2>7, <2>8, <2>9, <2>10, <2>11, <2>12, <2>13, OperationStep
<1>5. CASE Goto(o, "abandon") /\ UNCHANGED <<objects, journal, locks>>
  <2>1. pc'[o] = "abandon" /\ "abandon" \in Positions
    BY <1>1, <1>2, <1>5, Moves DEF Positions
  <2>2. LocalOk(o)'
    BY <1>1, <1>2, <1>3, <2>1 DEF LocalOk, Preparing
  <2>3. SeenType'
    BY <1>2, SeenStays
  <2> QED BY <1>1, <1>2, <1>5, <2>1, <2>2, <2>3, HereFacts, PlainStep DEF disk, References, Holds, Cleaning, Past
<1> QED BY <1>4, <1>5

LEMMA PublishOk ==
    ASSUME LibraryInv, NEW o \in Asked, Publish(o)
    PROVE  LibraryInv'
<1>1. /\ o \in Ops /\ Here(o) /\ pc[o] = "publish" /\ Goto(o, "mark") /\ staging' = staging \ {o}
      /\ UNCHANGED <<tables, sync, got, todo, fate, mode, bounds>>
  BY AskFacts DEF LibraryInv, Publish
<1>2. LocalType /\ TablesType /\ LocalOk(o) /\ PreparedOk(o) /\ SeenType /\ mode = "up" /\ todo \in [Ops -> SUBSET Keys] /\ o # None
  BY <1>1, HereFacts
<1>3. PICK k \in Keys : k = Key(o)
  BY <1>1, GotFacts DEF LibraryInv, Preparing
<1>4. PICK v : /\ v = IF files[k] # 0 THEN files[k] ELSE born[k] + 1
               /\ files' = [files EXCEPT ![k] = v]
               /\ born' = [born EXCEPT ![k] = IF files[k] # 0 THEN @ ELSE @ + 1]
               /\ seen' = [seen EXCEPT ![o].published = v]
  BY <1>3 DEF Publish
<1>5. v \in Nat \ {0} /\ files' \in [Keys -> Nat] /\ born' \in [Keys -> Nat] /\ \A j \in Keys : files'[j] <= born'[j]
  <2>1. files[k] \in Nat /\ born[k] \in Nat /\ files[k] <= born[k] /\ files \in [Keys -> Nat] /\ born \in [Keys -> Nat]
        /\ \A j \in Keys : files[j] <= born[j]
    BY <1>2 DEF TablesType
  <2>2. v \in Nat \ {0} /\ v <= IF files[k] # 0 THEN born[k] ELSE born[k] + 1
    BY <1>4, <2>1
  <2>3. files'[k] = v /\ born'[k] = IF files[k] # 0 THEN born[k] ELSE born[k] + 1
    BY <1>4, <2>1
  <2>4. \A j \in Keys \ {k} : files'[j] = files[j] /\ born'[j] = born[j]
    BY <1>4, <2>1
  <2>5. \A j \in Keys : files'[j] <= born'[j]
    BY <2>1, <2>2, <2>3, <2>4
  <2> QED BY <1>4, <2>1, <2>2, <2>5
<1>6. files'[k] = v /\ \A j \in Keys : files[j] # 0 \/ j # k => files'[j] = files[j]
  BY <1>2, <1>4 DEF TablesType
<1>7. SeenType' /\ seen'[o].published = v /\ seen'[o].snapshot = seen[o].snapshot /\ seen'[o].expects = seen[o].expects
      /\ \A q \in Ops \ {o} : seen'[q] = seen[q]
  <2>1. o \in Ops /\ v \in Nat /\ SeenType /\ seen' = [seen EXCEPT ![o].published = v]
    BY <1>1, <1>2, <1>4, <1>5
  <2> QED BY <2>1, Published1
<1>8. pc' \in [Ops -> Positions] /\ pc'[o] = "mark" /\ \A q \in Ops \ {o} : pc'[q] = pc[q]
  BY <1>1, <1>2, Moves DEF Positions
<1>9. Ask(o)' = Ask(o) /\ Asked' = Asked /\ Key(o)' = Key(o) /\ k \in Locks
  BY <1>1, AsksSame, LockNames DEF Key, bounds
<1>10. ReferencesKept
  <2>1. ASSUME NEW j \in Keys, NEW w, w # 0, Kept(j, w) PROVE Kept(j, w)'
    BY <1>1, <1>6, <2>1 DEF Kept, tables, bounds
  <2> QED BY <1>1, <2>1 DEF ReferencesKept, tables
<1>11. locks[k] = o /\ objects[k] # None /\ journal[o][Len(got[o]) + 1] = "intent"
  BY <1>1, <1>2, <1>3 DEF PreparedOk
<1>12. Respects(o)
  <2>1. FilesKept(o)
    BY <1>6, <1>11 DEF FilesKept
  <2> QED BY <1>1, <1>2, <1>7, <1>8, <1>10, <2>1, LocksSame, SameRoles DEF Respects, OthersSame, TransactionKept, tables, sync, bounds
<1>13. TablesType' /\ LocalType'
  BY <1>1, <1>2, <1>5, <1>7, <1>8, <1>9 DEF TablesType, LocalType, tables, sync, bounds
<1>14. LocalOk(o)'
  BY <1>1, <1>2, <1>7, <1>8, <1>9 DEF LocalOk, Preparing
<1>15. PreparedOk(o)'
  <2>1. ASSUME NEW i \in 1..Len(got[o]) PROVE journal'[o][i] = "stored" /\ Kept(Ask(o).files[i].key, got[o][i])'
    <3>1. Ask(o).files[i].key \in Keys /\ got[o][i] # 0
      BY <1>1, GotFacts DEF LibraryInv
    <3>2. journal[o][i] = "stored" /\ Kept(Ask(o).files[i].key, got[o][i])
      BY <1>1, <1>2 DEF PreparedOk, Holds
    <3>3. Ask(o).files[i].key \in touched \/ files[Ask(o).files[i].key] = got[o][i]
      BY <3>2 DEF Kept
    <3>4. files'[Ask(o).files[i].key] = files[Ask(o).files[i].key] \/ Ask(o).files[i].key \in touched
      BY <1>6, <3>1, <3>3
    <3> QED BY <1>1, <1>9, <3>2, <3>4 DEF Kept, tables, bounds
  <2>2. Kept(k, v)'
    BY <1>1, <1>6, <1>11 DEF Kept, tables
  <2>3. Kept(Key(o), seen[o].published)' /\ seen'[o].published # 0
    BY <1>3, <1>5, <1>7, <1>9, <2>2 DEF Kept
  <2> QED BY <1>1, <1>3, <1>8, <1>9, <1>11, <2>1, <2>3 DEF PreparedOk, tables, sync
<1>16. \A j \in Keys : locks'[j] = o => j = k
  BY <1>1, <1>3, OwnLocks DEF sync
<1>17. \A j \in Keys : locks'[j] = o => LockOk(j)'
  BY <1>1, <1>2, <1>3, <1>8, <1>9, <1>16 DEF LockOk, Here
<1>18. ArtsInv' /\ ImportInv' /\ ReferencedKept' /\ FilesHaveRows'
  <2>1. FilesHaveRows'
    BY <1>1, <1>6, <1>11 DEF LibraryInv, FilesHaveRows, tables
  <2> QED BY <1>1, <1>8, <1>10, <2>1, ArtsStay, SameImport, ReferencesStay DEF LibraryInv, Past, tables, bounds
<1> QED BY <1>12, <1>13, <1>14, <1>15, <1>16, <1>17, <1>18, OperationStep

LEMMA PublishFailsOk ==
    ASSUME LibraryInv, NEW o \in Asked, PublishFails(o)
    PROVE  LibraryInv'
<1>1. /\ o \in Ops /\ Here(o) /\ pc[o] = "publish" /\ Goto(o, "abandon") /\ locks' = Release(o, {Key(o)})
      /\ UNCHANGED <<tables, staging, heavy, writer, seen, got, todo, fate, mode, plan, stops, outside, touched>>
  BY AskFacts DEF LibraryInv, PublishFails
<1>2. LocalType /\ TablesType /\ LocalOk(o) /\ PreparedOk(o) /\ SeenType /\ mode = "up" /\ todo \in [Ops -> SUBSET Keys] /\ o # None
  BY <1>1, HereFacts
<1>3. PICK k \in Keys : k = Key(o)
  BY <1>1, GotFacts DEF LibraryInv, Preparing
<1>4. \/ UNCHANGED <<files, born>>
      \/ files[k] = 0 /\ files' = [files EXCEPT ![k] = born[k] + 1] /\ born' = [born EXCEPT ![k] = @ + 1]
  BY <1>3 DEF PublishFails
<1>5. /\ files' \in [Keys -> Nat] /\ born' \in [Keys -> Nat] /\ \A j \in Keys : files'[j] <= born'[j]
      /\ \A j \in Keys : files[j] # 0 \/ j # k => files'[j] = files[j]
  BY <1>2, <1>4 DEF TablesType
<1>6. pc' \in [Ops -> Positions] /\ pc'[o] = "abandon" /\ \A q \in Ops \ {o} : pc'[q] = pc[q]
  BY <1>1, <1>2, Moves DEF Positions
<1>7. Ask(o)' = Ask(o) /\ Asked' = Asked
  BY <1>1, AsksSame
<1>8. /\ locks' \in [Locks -> Ops \cup {None}] /\ LocksKept(o)
      /\ \A l \in Locks : locks'[l] = IF l \in {Key(o)} /\ locks[l] = o THEN None ELSE locks[l]
  BY <1>1, <1>2, Releases
<1>9. ReferencesKept
  <2>1. ASSUME NEW j \in Keys, NEW w, w # 0, Kept(j, w) PROVE Kept(j, w)'
    BY <1>1, <1>5, <2>1 DEF Kept, tables
  <2> QED BY <1>1, <2>1 DEF ReferencesKept, tables
<1>10. locks[k] = o /\ objects[k] # None
  BY <1>1, <1>2, <1>3 DEF PreparedOk
<1>11. Respects(o)
  <2>1. FilesKept(o)
    BY <1>5, <1>10 DEF FilesKept
  <2> QED BY <1>1, <1>2, <1>6, <1>8, <1>9, <2>1, SameRoles DEF Respects, OthersSame, TransactionKept, tables
<1>12. TablesType' /\ LocalType'
  BY <1>1, <1>2, <1>5, <1>6, <1>7, <1>8 DEF TablesType, LocalType, SeenType, tables
<1>13. LocalOk(o)' /\ PreparedOk(o)'
  BY <1>1, <1>2, <1>6, <1>7 DEF LocalOk, Preparing, PreparedOk, Holds
<1>14. \A j \in Keys : locks'[j] # o
  BY <1>1, <1>2, <1>8, OwnLocks, LockNames
<1>15. ArtsInv' /\ ImportInv' /\ ReferencedKept' /\ FilesHaveRows'
  <2>1. FilesHaveRows'
    BY <1>1, <1>5, <1>10 DEF LibraryInv, FilesHaveRows, tables
  <2> QED BY <1>1, <1>6, <1>9, <2>1, ArtsStay, SameImport, ReferencesStay DEF LibraryInv, Past, tables
<1> QED BY <1>11, <1>12, <1>13, <1>14, <1>15, OperationStep

LEMMA Appended ==
    ASSUME NEW S, NEW q \in Seq(S), NEW v \in S
    PROVE  /\ Append(q, v) \in Seq(S) /\ Len(Append(q, v)) = Len(q) + 1
           /\ \A i \in 1..Len(q) : Append(q, v)[i] = q[i]
           /\ Append(q, v)[Len(q) + 1] = v
BY AppendProperties

LEMMA MarkStoredOk ==
    ASSUME LibraryInv, NEW o \in Asked, MarkStored(o)
    PROVE  LibraryInv'
<1>1. /\ o \in Ops /\ Here(o) /\ pc[o] = "mark" /\ Writable /\ locks' = Release(o, {Key(o)})
      /\ UNCHANGED <<disk, objects, arts, revision, attention, session, items, claims, writer,
                     seen, todo, fate, mode, plan, stops, outside, touched>>
  BY AskFacts DEF LibraryInv, MarkStored
<1>2. LocalType /\ TablesType /\ LocalOk(o) /\ PreparedOk(o) /\ SeenType /\ mode = "up" /\ todo \in [Ops -> SUBSET Keys] /\ o # None
  BY <1>1, HereFacts
<1>3. PICK k \in Keys, v \in Nat \ {0}, n \in 1..2 :
         k = Key(o) /\ v = seen[o].published /\ n = Len(got[o]) + 1 /\ n \in 1..Len(Ask(o).files) /\ k = Ask(o).files[n].key
  <2>1. Key(o) \in Keys /\ Len(got[o]) + 1 \in 1..2 /\ Len(got[o]) + 1 \in 1..Len(Ask(o).files)
    BY <1>1, GotFacts DEF LibraryInv, Preparing
  <2>2. seen[o].published \in Nat /\ seen[o].published # 0
    BY <1>1, <1>2 DEF SeenType, PreparedOk
  <2> QED BY <2>1, <2>2 DEF Key
<1>4. PICK p \in {"stage", "claim", "abandon"} :
         /\ Goto(o, p)
         /\ \/ /\ p = IF n < Len(Ask(o).files) THEN "stage" ELSE "claim"
               /\ journal' = [journal EXCEPT ![o][n] = "stored"]
               /\ got' = [got EXCEPT ![o] = Append(@, v)]
               /\ heavy' = heavy \ {o}
            \/ p = "abandon" /\ UNCHANGED <<journal, got, heavy>>
  BY <1>3 DEF MarkStored
<1>5. pc' \in [Ops -> Positions] /\ pc'[o] = p /\ \A q \in Ops \ {o} : pc'[q] = pc[q]
  BY <1>1, <1>2, <1>4, Moves DEF Positions
<1>6. Ask(o)' = Ask(o) /\ Asked' = Asked
  BY <1>1, AsksSame
<1>7. /\ locks' \in [Locks -> Ops \cup {None}] /\ LocksKept(o)
      /\ \A l \in Locks : locks'[l] = IF l \in {Key(o)} /\ locks[l] = o THEN None ELSE locks[l]
  BY <1>1, <1>2, Releases
<1>8. /\ journal' \in [Ops -> [1..2 -> JournalState]] /\ \A q \in Ops \ {o} : journal'[q] = journal[q]
      /\ p # "abandon" => journal'[o][n] = "stored" /\ \A j \in 1..2 \ {n} : journal'[o][j] = journal[o][j]
  <2>1. "stored" \in JournalState
    BY DEF JournalState, Active
  <2>2. CASE journal' = [journal EXCEPT ![o][n] = "stored"]
    BY <1>1, <1>2, <2>1, <2>2, JournalWritten, ZenonT(60)
  <2>3. CASE p = "abandon" /\ UNCHANGED journal
    BY <1>2, <2>3 DEF TablesType
  <2> QED BY <1>4, <2>2, <2>3
<1>9. got[o] \in Seq(Nat \ {0}) /\ Len(got[o]) \in Nat /\ Len(Ask(o).files) \in 0..2
  BY <1>1, GotFacts, AskFacts DEF LibraryInv
<1>10. got' \in [Ops -> Seq(Nat \ {0})] /\ \A q \in Ops \ {o} : got'[q] = got[q]
  <2>1. got \in [Ops -> Seq(Nat \ {0})] /\ Append(got[o], v) \in Seq(Nat \ {0})
    BY <1>2, <1>9, Appended DEF LocalType
  <2> QED BY <1>1, <1>4, <2>1
<1>11. p # "abandon" => /\ Len(got'[o]) = n /\ got'[o][n] = v /\ \A i \in 1..Len(got[o]) : got'[o][i] = got[o][i]
  <2> SUFFICES ASSUME p # "abandon" PROVE /\ Len(got'[o]) = n /\ got'[o][n] = v /\ \A i \in 1..Len(got[o]) : got'[o][i] = got[o][i]
    OBVIOUS
  <2>1. got'[o] = Append(got[o], v)
    BY <1>1, <1>2, <1>4 DEF LocalType
  <2> QED BY <1>3, <1>9, <2>1, Appended
<1>12. p = "abandon" => got'[o] = got[o]
  BY <1>4
<1>13. heavy' \subseteq Asked /\ Cardinality(heavy') <= MaxHeavy
  BY <1>1, <1>4, HereFacts
<1>14. ReferencesKept
  BY <1>1, SameKept DEF ReferencesKept, disk
<1>15. Respects(o)
  BY <1>1, <1>2, <1>5, <1>7, <1>8, <1>10, <1>14, SameRoles DEF Respects, OthersSame, TransactionKept, FilesKept, disk, Writable
<1>16. TablesType' /\ LocalType'
  BY <1>1, <1>2, <1>5, <1>6, <1>7, <1>8, <1>10, <1>13 DEF TablesType, LocalType, SeenType, disk
<1>17. LocalOk(o)'
  <2>1. n \in Nat /\ n <= Len(Ask(o).files) /\ Len(Ask(o).files) \in Nat /\ Len(got[o]) < Len(Ask(o).files)
    BY <1>3, <1>9
  <2>2. CASE p = "abandon"
    BY <1>1, <1>2, <1>5, <1>6, <1>12, <2>1, <2>2 DEF LocalOk, Preparing
  <2>3. CASE p # "abandon"
    <3>1. p = "stage" => n < Len(Ask(o).files)
      BY <1>4, <2>3
    <3>2. p = "claim" => n = Len(Ask(o).files)
      BY <1>4, <2>1, <2>3
    <3> QED BY <1>1, <1>2, <1>5, <1>6, <1>11, <2>1, <2>3, <3>1, <3>2 DEF LocalOk, Preparing
  <2> QED BY <2>2, <2>3
<1>18. PreparedOk(o)'
  <2>1. ASSUME p # "abandon", NEW i \in 1..n PROVE journal'[o][i] = "stored" /\ Kept(Ask(o).files[i].key, got[o][i])'
    <3>1. CASE i = n
      <4>1. Kept(k, v)
        BY <1>1, <1>2, <1>3 DEF PreparedOk
      <4> QED BY <1>1, <1>3, <1>6, <1>8, <1>11, <2>1, <3>1, <4>1 DEF Kept, disk
    <3>2. CASE i # n
      <4>1. i \in 1..Len(got[o]) /\ i \in 1..2 \ {n}
        BY <1>3, <1>9, <3>2, SMTT(60)
      <4>2. journal[o][i] = "stored" /\ Kept(Ask(o).files[i].key, got[o][i])
        BY <1>1, <1>2, <4>1 DEF PreparedOk, Holds
      <4> QED BY <1>1, <1>6, <1>8, <1>11, <2>1, <4>1, <4>2 DEF Kept, disk
    <3> QED BY <3>1, <3>2
  <2>2. CASE p = "abandon"
    BY <1>5, <2>2 DEF PreparedOk, Holds
  <2>3. CASE p # "abandon"
    BY <1>4, <1>5, <1>11, <2>1, <2>3 DEF PreparedOk
  <2> QED BY <2>2, <2>3
<1>19. \A j \in Keys : locks'[j] # o
  BY <1>1, <1>2, <1>7, OwnLocks, LockNames
<1>20. ArtsInv' /\ ImportInv' /\ ReferencedKept' /\ FilesHaveRows'
  BY <1>1, <1>5, <1>14, ArtsStay, SameImport, ReferencesStay DEF LibraryInv, FilesHaveRows, Past, disk
<1> QED BY <1>15, <1>16, <1>17, <1>18, <1>19, <1>20, OperationStep

LEMMA UnlinkOk ==
    ASSUME LibraryInv, NEW o \in Asked, NEW k \in Keys, Unlink(o, k)
    PROVE  LibraryInv'
<1> USE DEF Unlink
<1>1. /\ o \in Ops /\ Here(o) /\ pc[o] \in Cleaning /\ k \in todo[o] /\ writer = None /\ ~Referenced(k) /\ k \in Locks
      /\ UNCHANGED <<tables, born, staging, heavy, local, mode, bounds>>
  BY AskFacts, LockNames DEF LibraryInv, Candidate, Writable
<1>2. LocalType /\ TablesType /\ LocalOk(o) /\ PreparedOk(o) /\ SeenType /\ mode = "up" /\ todo \in [Ops -> SUBSET Keys] /\ o # None
  BY <1>1, HereFacts
<1>3. Ask(o)' = Ask(o) /\ Asked' = Asked
  BY <1>1, AsksSame DEF bounds
<1>4. files' \in [Keys -> Nat] /\ files'[k] = 0 /\ \A j \in Keys \ {k} : files'[j] = files[j]
  BY <1>2 DEF TablesType
<1>5. locks' \in [Locks -> Ops \cup {None}] /\ LocksKept(o) /\ locks'[k] = o /\ \A l \in Locks \ {k} : locks'[l] = locks[l]
  BY <1>1, <1>2, Locking
<1>6. ReferencesKept
  BY <1>1, <1>4 DEF ReferencesKept, Kept, tables, bounds
<1>7. Respects(o)
  BY <1>1, <1>2, <1>4, <1>5, <1>6, SameRoles DEF Respects, OthersSame, TransactionKept, FilesKept, tables, local, bounds
<1>8. TablesType' /\ LocalType'
  <2>1. \A j \in Keys : files'[j] <= born'[j]
    BY <1>1, <1>2, <1>4 DEF TablesType
  <2>2. TablesType'
    BY <1>1, <1>2, <1>4, <2>1 DEF TablesType, tables, bounds
  <2>3. SeenType'
    <3>1. seen' = seen
      BY <1>1 DEF local
    <3> QED BY <1>2, <3>1, SeenStays
  <2>4. LocalType'
    <3>1. writer' = o /\ Asked' = Asked /\ UNCHANGED <<staging, heavy, pc, got, todo, mode>>
      BY <1>1, <1>3 DEF local
    <3> HIDE DEF Unlink
    <3> QED BY <1>2, <1>5, <2>3, <3>1 DEF LocalType
  <2> QED BY <2>2, <2>4
<1>9. LocalOk(o)' /\ PreparedOk(o)'
  BY <1>1, <1>2, <1>3 DEF LocalOk, PreparedOk, Holds, Preparing, Cleaning, local, Confirmed
<1>10. \A j \in Keys : locks'[j] = o => j = k
  <2>1. \A j \in Keys : locks[j] # o
    BY <1>1, <1>2, NoContentLock DEF Cleaning
  <2> QED BY <1>5, <2>1, LockNames
<1>11. LockOk(k)'
  <2>1. ~Referenced(k)'
    BY <1>1, SameReferences DEF tables, bounds
  <2> QED BY <1>1, <1>3, <1>4, <1>5, <2>1 DEF LockOk, Collecting, local
<1>12. ArtsInv' /\ ImportInv' /\ ReferencedKept' /\ FilesHaveRows'
  <2>1. FilesHaveRows'
    BY <1>1, <1>4 DEF LibraryInv, FilesHaveRows, tables
  <2> QED BY <1>1, <1>6, <2>1, ArtsStay, SameImport, ReferencesStay DEF LibraryInv, tables, local, bounds
<1> QED BY <1>7, <1>8, <1>9, <1>10, <1>11, <1>12, OperationStep

LEMMA EndUnlinkOk ==
    ASSUME LibraryInv, NEW o \in Asked, NEW k \in Keys, EndUnlink(o, k)
    PROVE  LibraryInv'
<1> USE DEF EndUnlink, AfterFailure
<1>1. /\ o \in Ops /\ Here(o) /\ pc[o] \in Cleaning /\ locks[k] = o /\ writer = o /\ k \in Locks
      /\ UNCHANGED <<disk, arts, revision, attention, journal, session, items, claims, heavy,
                     pc, seen, got, fate, mode, plan, stops, outside, touched>>
  BY AskFacts, LockNames DEF LibraryInv, Candidate
<1>2. LocalType /\ TablesType /\ LocalOk(o) /\ PreparedOk(o) /\ SeenType /\ mode = "up" /\ todo \in [Ops -> SUBSET Keys] /\ o # None
  BY <1>1, HereFacts
<1>3. Ask(o)' = Ask(o) /\ Asked' = Asked
  BY <1>1, AsksSame
<1>4. files[k] = 0 /\ ~Referenced(k)
  BY <1>1, <1>2 DEF LibraryInv, LocksInv, LockOk, Collecting, Cleaning
<1>5. objects' \in [Keys -> Roles \cup {None}] /\ \A j \in Keys \ {k} : objects'[j] = objects[j]
  BY <1>2 DEF TablesType
<1>6. todo' \in [Ops -> SUBSET Keys] /\ \A q \in Ops \ {o} : todo'[q] = todo[q]
  BY <1>1, <1>2
<1>7. /\ locks' \in [Locks -> Ops \cup {None}] /\ LocksKept(o)
      /\ \A l \in Locks : locks'[l] = IF l \in {k} /\ locks[l] = o THEN None ELSE locks[l]
  BY <1>1, <1>2, Releases
<1>8. ReferencesKept
  BY <1>1, <1>4, <1>5 DEF ReferencesKept, Kept, disk
<1>9. Respects(o)
  BY <1>1, <1>2, <1>6, <1>7, <1>8, SameRoles DEF Respects, OthersSame, TransactionKept, FilesKept, disk
<1>10. TablesType' /\ LocalType'
  <2>1. TablesType'
    BY <1>1, <1>2, <1>5 DEF TablesType, disk
  <2>2. SeenType'
    BY <1>1, <1>2, SeenStays
  <2>3. LocalType'
    BY <1>1, <1>2, <1>3, <1>6, <1>7, <2>2 DEF LocalType, disk
  <2> QED BY <2>1, <2>3
<1>11. LocalOk(o)' /\ PreparedOk(o)'
  BY <1>1, <1>2, <1>3 DEF LocalOk, PreparedOk, Holds, Preparing, Cleaning, Confirmed
<1>12. \A j \in Keys : locks'[j] # o
  <2>1. \A j \in Keys : locks[j] = o => j = k
    BY <1>1, <1>2 DEF LibraryInv, LocksInv
  <2> QED BY <1>1, <1>2, <1>7, <2>1, LockNames
<1>13. ArtsInv' /\ ImportInv' /\ ReferencedKept' /\ FilesHaveRows'
  <2>1. FilesHaveRows'
    BY <1>1, <1>4, <1>5 DEF LibraryInv, FilesHaveRows, disk
  <2> QED BY <1>1, <1>8, <2>1, ArtsStay, SameImport, ReferencesStay DEF LibraryInv
<1> QED BY <1>9, <1>10, <1>11, <1>12, <1>13, OperationStep

-----------------------------------------------------------------------------
(* The transactions that change a setup's composition.                     *)

LEMMA ImageFinite ==
    ASSUME NEW f, IsFiniteSet(DOMAIN f)
    PROVE  IsFiniteSet({f[x] : x \in DOMAIN f})
<1>1. PICK g, T : g = [x \in DOMAIN f |-> f[x]] /\ T = {f[x] : x \in DOMAIN f}
  OBVIOUS
<1>2. g \in Surjection(DOMAIN f, T)
  BY <1>1 DEF Surjection
<1> QED BY <1>1, <1>2, FS_Surjection

LEMMA RowFacts ==
    ASSUME LibraryInv, NEW o \in Asked, NEW i \in 1..Len(got[o]), NEW p \in BOOLEAN
    PROVE  /\ Row(o, i, p) \in Art /\ Row(o, i, p).id = <<o, i>> /\ Row(o, i, p).setup = Ask(o).setup /\ Row(o, i, p).role = Ask(o).role
           /\ Row(o, i, p).key = Ask(o).files[i].key /\ Row(o, i, p).version = got[o][i] /\ Row(o, i, p).primary = p
<1>1. o \in Ops /\ Ask(o).setup \in Setups /\ Ask(o).role \in Roles /\ Ask(o).files[i].name \in Names /\ Ask(o).files[i].key \in Keys
      /\ got[o][i] \in Nat \ {0} /\ i \in 1..2
  BY AskFacts, GotFacts DEF LibraryInv
<1>2. o \in Nat /\ i \in Nat
  BY <1>1 DEF Ops
<1>3. PICK e : e = <<o, i>>
  OBVIOUS
<1>4. e \in Nat \X (Nat \cup Names)
  BY <1>2, <1>3
<1>5. Row(o, i, p) = [id |-> e, setup |-> Ask(o).setup, role |-> Ask(o).role, name |-> Ask(o).files[i].name,
                      key |-> Ask(o).files[i].key, version |-> got[o][i], primary |-> p]
  BY <1>3 DEF Row
<1>6. Row(o, i, p) \in Art
  BY <1>1, <1>4, <1>5 DEF Art
<1> QED BY <1>3, <1>5, <1>6

LEMMA PreparedFacts ==
    ASSUME LibraryInv, NEW o \in Asked, pc[o] = "change", NEW i \in 1..Len(got[o])
    PROVE  /\ Ask(o).files[i].key \in Keys /\ got[o][i] # 0 /\ Kept(Ask(o).files[i].key, got[o][i])
           /\ Referenced(Ask(o).files[i].key) /\ journal[o][i] = "stored"
BY GotFacts, ReservationKeeps DEF LibraryInv, OperationsInv, PreparedOk, Holds, Active

(* Adding: the new rows are those of the prepared files. *)
LEMMA Inserted ==
    ASSUME LibraryInv, NEW o \in Asked, pc[o] = "change", Insert(o)
    PROVE  /\ arts' \subseteq Art /\ IsFiniteSet(arts') /\ arts \subseteq arts'
           /\ \A b \in arts' \ arts : \E i \in 1..Len(got[o]) : b.id = <<o, i>> /\ b.key = Ask(o).files[i].key /\ b.version = got[o][i]
           /\ \A a, b \in arts' : a.id = b.id => a = b
<1>1. PICK q \in BOOLEAN : q = (Ask(o).role = "program" /\ Programs(Ask(o).setup) = {} /\ Len(got[o]) = 1)
  OBVIOUS
<1>2. Added(o) = {Row(o, i, q) : i \in 1..Len(got[o])}
  BY <1>1 DEF Added
<1>3. PICK f : f = [i \in 1..Len(got[o]) |-> Row(o, i, q)]
  OBVIOUS
<1>4. PICK N : N = {f[i] : i \in 1..Len(got[o])}
  OBVIOUS
<1>5. \A i \in 1..Len(got[o]) : f[i] = Row(o, i, q)
  BY <1>3
<1>6. Added(o) = N
  BY <1>2, <1>4, <1>5
<1>7. arts' = arts \cup N
  BY <1>6 DEF Insert
<1>8. \A i \in 1..Len(got[o]) : f[i] \in Art /\ f[i].id = <<o, i>> /\ f[i].key = Ask(o).files[i].key /\ f[i].version = got[o][i]
  <2>1. ASSUME NEW i \in 1..Len(got[o]) PROVE f[i] \in Art /\ f[i].id = <<o, i>> /\ f[i].key = Ask(o).files[i].key /\ f[i].version = got[o][i]
    BY <1>5, RowFacts
  <2> QED BY <2>1
<1>9. IsFiniteSet(N)
  <2>1. Len(got[o]) \in Int /\ 1 \in Int
    BY GotFacts DEF LibraryInv
  <2>2. \A i, j \in Int : IsFiniteSet(i..j)
    BY FS_Interval
  <2>3. IsFiniteSet(1..Len(got[o])) /\ DOMAIN f = 1..Len(got[o])
    BY <1>3, <2>1, <2>2
  <2> QED BY <1>4, <2>3, ImageFinite
<1>10. arts \subseteq Art /\ IsFiniteSet(arts) /\ ArtsInv
  BY DEF LibraryInv, TablesType
<1>11. \A a \in arts : a.id[1] # o
  BY <1>10 DEF ArtsInv, Past
<1>12. arts' \subseteq Art /\ IsFiniteSet(arts')
  BY <1>4, <1>7, <1>8, <1>9, <1>10, FS_Union
<1>13. ASSUME NEW a \in arts', NEW b \in arts', a.id = b.id PROVE a = b
  <2>1. ASSUME NEW c \in N PROVE c.id[1] = o
    BY <1>4, <1>8, <2>1
  <2>2. CASE a \in arts /\ b \in arts
    BY <1>10, <1>13, <2>2 DEF ArtsInv
  <2>3. CASE a \in N /\ b \in N
    BY <1>4, <1>8, <1>13, <2>3
  <2> QED BY <1>7, <1>11, <1>13, <2>1, <2>2, <2>3
<1> QED BY <1>4, <1>7, <1>8, <1>12, <1>13

(* Replacing: one row has the new content. *)
LEMMA Refilled1 ==
    ASSUME LibraryInv, NEW o \in Asked, pc[o] = "change", Len(got[o]) = 1, NEW a \in arts,
           arts' = (arts \ {a}) \cup {Refilled(o, a)}
    PROVE  /\ arts' \subseteq Art /\ IsFiniteSet(arts')
           /\ \A b \in arts' \ arts : b.id = a.id /\ b.key = Ask(o).files[1].key /\ b.version = got[o][1] /\ b.primary = a.primary
                                     /\ b.setup = a.setup /\ b.role = a.role
           /\ \A b, c \in arts' : b.id = c.id => b = c
<1>1. arts \subseteq Art /\ IsFiniteSet(arts) /\ ArtsInv /\ a \in Art
  BY DEF LibraryInv, TablesType
<1>2. Ask(o).files[1].name \in Names /\ Ask(o).files[1].key \in Keys /\ got[o][1] \in Nat \ {0}
  BY GotFacts DEF LibraryInv
<1>3. PICK r : r = Refilled(o, a)
  OBVIOUS
<1>4. r \in Art /\ r.id = a.id /\ r.key = Ask(o).files[1].key /\ r.version = got[o][1] /\ r.primary = a.primary
      /\ r.setup = a.setup /\ r.role = a.role
  BY <1>1, <1>2, <1>3 DEF Refilled, Art
<1>5. IsFiniteSet(arts')
  BY <1>1, <1>3, FS_RemoveElement, FS_AddElement
<1>6. \A b, c \in arts' : b.id = c.id => b = c
  BY <1>1, <1>3, <1>4 DEF ArtsInv
<1> QED BY <1>1, <1>3, <1>4, <1>5, <1>6

(* The references of artifacts that were not there are kept from the transaction on. *)
LEMMA ArtsChange ==
    ASSUME LibraryInv, NEW o \in Asked, plan' = plan, UNCHANGED <<items, session>>, ReferencesKept,
           pc[o] \notin Past, pc'[o] \in Past, \A q \in Ops \ {o} : pc'[q] = pc[q],
           \A b \in arts' \ arts : \/ \E a \in arts : a.id = b.id
                                   \/ b.id[1] = o /\ Ask(o).kind \in {"add", "sheet"},
           \A b \in arts' \ arts : Kept(b.key, b.version)',
           \A a, b \in arts' : a.id = b.id => a = b
    PROVE  ArtsInv' /\ ImportInv' /\ ReferencedKept'
<1>1. o \in Ops /\ ArtsInv /\ ImportInv /\ ReferencedKept /\ Asked' = Asked /\ \A q : Ask(q)' = Ask(q)
  BY AskFacts, AsksSame DEF LibraryInv
<1>2. \A b \in arts' : (\E a \in arts : a.id = b.id) \/ (b.id[1] = o /\ Ask(o).kind \in {"add", "sheet"})
  OBVIOUS
<1>3. ASSUME NEW b \in arts', b.id[1] \in Asked PROVE pc'[b.id[1]] \in Past /\ Ask(b.id[1]).kind \in {"add", "sheet", "commit"}
  <2>1. CASE b.id[1] = o /\ Ask(o).kind \in {"add", "sheet"}
    BY <2>1
  <2>2. ASSUME NEW a \in arts, a.id = b.id PROVE pc'[b.id[1]] \in Past /\ Ask(b.id[1]).kind \in {"add", "sheet", "commit"}
    <3>1. pc[b.id[1]] \in Past /\ Ask(b.id[1]).kind \in {"add", "sheet", "commit"}
      BY <1>1, <1>3, <2>2 DEF ArtsInv
    <3>2. b.id[1] \in Ops
      BY <1>3, AskFacts DEF LibraryInv
    <3> QED BY <3>1, <3>2
  <2> QED BY <1>2, <2>1, <2>2
<1>4. ArtsInv'
  BY <1>1, <1>3 DEF ArtsInv
<1>5. ASSUME NEW b \in Imported' PROVE \E a \in Imported : a.id = b.id
  <2>1. b \in arts' /\ b.id[1] \in Asked /\ Ask(b.id[1]).kind = "commit"
    BY <1>1 DEF Imported
  <2>2. PICK a \in arts : a.id = b.id
    BY <1>2, <2>1
  <2>3. a \in Imported
    BY <2>1, <2>2 DEF Imported
  <2> QED BY <2>2, <2>3
<1>6. ImportInv'
  <2>1. /\ Staging' = Staging /\ StagedBytes' = StagedBytes /\ Bytes' = Bytes /\ \A S : ItemsIn(S)' = ItemsIn(S)
    BY DEF Staging, StagedBytes, Bytes, ItemsIn
  <2>2. Imported' # {} => session # None
    BY <1>1, <1>5 DEF ImportInv
  <2>3. ImportWithinLimit'
    BY <1>1, <2>1 DEF ImportInv, ImportsWhole, ImportWithinLimit
  <2>4. ImportEndsOnce'
    BY <1>1, <1>5, <2>1 DEF ImportInv, ImportsWhole, ImportEndsOnce
  <2> QED BY <1>1, <2>1, <2>2, <2>3, <2>4 DEF ImportInv, ImportsWhole, Listed
<1>7. ReferencedKept'
  <2>1. ASSUME NEW b \in arts' PROVE Kept(b.key, b.version)'
    <3>1. ASSUME b \in arts PROVE Kept(b.key, b.version)'
      <4>1. b.key \in Keys /\ b.version # 0 /\ Referenced(b.key) /\ Kept(b.key, b.version)
        BY <1>1, <3>1, ArtKeeps DEF LibraryInv, TablesType, Art, ReferencedKept
      <4> QED BY <4>1 DEF ReferencesKept
    <3> QED BY <3>1
  <2>2. ASSUME NEW n \in ItemsIn({"staged"}) PROVE Kept(items[n].key, items[n].version)'
    <3>1. items[n].key \in Keys /\ items[n].version # 0 /\ Referenced(items[n].key) /\ Kept(items[n].key, items[n].version)
      BY <1>1, StagedKeeps, StagedFacts DEF LibraryInv, ReferencedKept
    <3>2. PICK k \in Keys : k = items[n].key
      BY <3>1
    <3>3. PICK v : v = items[n].version
      OBVIOUS
    <3>4. v # 0 /\ Referenced(k) /\ Kept(k, v)
      BY <3>1, <3>2, <3>3
    <3>5. Kept(k, v)'
      BY <3>4 DEF ReferencesKept
    <3> QED BY <3>2, <3>3, <3>5 DEF Kept
  <2> QED BY <2>1, <2>2 DEF ReferencedKept, ItemsIn
<1> QED BY <1>4, <1>6, <1>7

LEMMA AdoptFacts ==
    ASSUME LibraryInv, NEW o \in Asked, Adopt(o)
    PROVE  /\ objects' \in [Keys -> Roles \cup {None}] /\ \A k \in Keys : objects[k] # None => objects'[k] # None
           /\ journal' \in [Ops -> [1..2 -> JournalState]] /\ \A q \in Ops \ {o} : journal'[q] = journal[q]
<1> USE DEF Adopt
<1>1. o \in Ops /\ Ask(o).role \in Roles /\ None \notin Roles /\ TablesType
  BY AskFacts, NoneAssumption DEF LibraryInv
<1>2. objects' \in [Keys -> Roles \cup {None}] /\ \A k \in Keys : objects[k] # None => objects'[k] # None
  BY <1>1 DEF TablesType
<1>3. [i \in DOMAIN journal[o] |-> IF i <= Len(got[o]) THEN "completed" ELSE journal[o][i]] \in [1..2 -> JournalState]
  BY <1>1 DEF TablesType, JournalState
<1> QED BY <1>1, <1>2, <1>3 DEF TablesType

LEMMA CommitOk ==
    ASSUME LibraryInv, NEW o \in Asked, Commit(o)
    PROVE  LibraryInv'
<1>1. /\ o \in Ops /\ Here(o) /\ pc[o] = "change" /\ writer = None /\ Adopt(o) /\ Ask(o).kind \in {"add", "replace", "sheet"}
      /\ UNCHANGED <<disk, attention, session, items, heavy, writer, seen, got, mode, bounds>>
      /\ Insert(o) \/ Refill(o)
  BY AskFacts DEF LibraryInv, Commit, Writing, Writable
<1>2. LocalType /\ TablesType /\ LocalOk(o) /\ PreparedOk(o) /\ SeenType /\ mode = "up" /\ todo \in [Ops -> SUBSET Keys] /\ o # None
  BY <1>1, HereFacts
<1>3. Ask(o)' = Ask(o) /\ Asked' = Asked
  BY <1>1, AsksSame DEF bounds
<1>4. PICK p \in {"undo", "cleanOld"} : Goto(o, p)
  BY <1>1 DEF Insert, Refill
<1>5. pc' \in [Ops -> Positions] /\ pc'[o] = p /\ \A q \in Ops \ {o} : pc'[q] = pc[q]
  BY <1>1, <1>2, <1>4, Moves DEF Positions
<1>6. /\ objects' \in [Keys -> Roles \cup {None}] /\ \A k \in Keys : objects[k] # None => objects'[k] # None
      /\ journal' \in [Ops -> [1..2 -> JournalState]] /\ \A q \in Ops \ {o} : journal'[q] = journal[q]
  BY <1>1, AdoptFacts
<1>7. ReferencesKept
  BY <1>1, <1>6 DEF ReferencesKept, Kept, disk, bounds
<1>8. ASSUME NEW i \in 1..Len(got[o]) PROVE Kept(Ask(o).files[i].key, got[o][i])' /\ Ask(o).files[i].key \in Keys
  <2>1. Kept(Ask(o).files[i].key, got[o][i]) /\ Ask(o).files[i].key \in Keys /\ got[o][i] # 0
    BY <1>1, PreparedFacts
  <2> QED BY <1>1, <1>3, <1>6, <2>1 DEF Kept, disk, bounds
<1>9. Refill(o) => Len(got[o]) = 1
  BY <1>1, <1>2, AskLengths DEF LocalOk, Refill
<1>10. /\ arts' \subseteq Art /\ IsFiniteSet(arts') /\ \A a, b \in arts' : a.id = b.id => a = b
       /\ \A b \in arts' \ arts : \/ \E a \in arts : a.id = b.id
                                  \/ b.id[1] = o /\ Ask(o).kind \in {"add", "sheet"}
       /\ \A b \in arts' \ arts : Kept(b.key, b.version)'
       /\ todo' \in [Ops -> SUBSET Keys] /\ \A q \in Ops \ {o} : todo'[q] = todo[q]
       /\ UNCHANGED locks \/ \E ls : locks' = Release(o, ls)
  <2>1. CASE Insert(o)
    <3>1. Ask(o).kind \in {"add", "sheet"}
      BY <2>1 DEF Insert, NewSheet
    <3>2. ASSUME NEW b \in arts' \ arts PROVE b.id[1] = o /\ Kept(b.key, b.version)'
      <4>1. PICK i \in 1..Len(got[o]) : b.id = <<o, i>> /\ b.key = Ask(o).files[i].key /\ b.version = got[o][i]
        BY <1>1, <2>1, Inserted
      <4> QED BY <1>1, <1>3, <1>8, <4>1 DEF Kept
    <3> QED BY <1>1, <1>2, <2>1, <3>1, <3>2, Inserted DEF Insert
  <2>2. CASE Refill(o)
    <3>1. PICK a \in arts : arts' = (arts \ {a}) \cup {Refilled(o, a)} /\ todo' = [todo EXCEPT ![o] = {a.key}]
      BY <2>2 DEF Refill, Target
    <3>2. a.key \in Keys
      BY <1>2 DEF TablesType, Art
    <3>3. /\ arts' \subseteq Art /\ IsFiniteSet(arts') /\ \A b, c \in arts' : b.id = c.id => b = c
          /\ \A b \in arts' \ arts : b.id = a.id /\ b.key = Ask(o).files[1].key /\ b.version = got[o][1]
      BY <1>1, <1>9, <2>2, <3>1, Refilled1, ZenonT(60)
    <3>4. Kept(Ask(o).files[1].key, got[o][1])'
      <4>1. PICK n : n = Len(got[o])
        OBVIOUS
      <4>2. n = 1
        BY <1>9, <2>2, <4>1
      <4>3. 1 \in 1..n
        BY <4>2
      <4>4. PICK i \in 1..Len(got[o]) : i = 1
        BY <4>1, <4>3
      <4>5. Kept(Ask(o).files[i].key, got[o][i])'
        BY <1>8
      <4> QED BY <4>4, <4>5
    <3>5. \A b \in arts' \ arts : Kept(b.key, b.version)'
      BY <1>1, <1>3, <3>3, <3>4 DEF Kept
    <3>6. todo' \in [Ops -> SUBSET Keys] /\ \A q \in Ops \ {o} : todo'[q] = todo[q]
      BY <1>1, <1>2, <3>1, <3>2
    <3> QED BY <2>2, <3>3, <3>5, <3>6 DEF Refill
  <2> QED BY <1>1, <2>1, <2>2
<1>11. locks' \in [Locks -> Ops \cup {None}] /\ LocksKept(o) /\ \A k \in Keys : locks'[k] = locks[k] \/ locks'[k] = None
  BY <1>1, <1>2, <1>10, Releases, LocksSame, LockNames, ZenonT(60)
<1>12. Respects(o)
  BY <1>1, <1>2, <1>5, <1>6, <1>7, <1>10, <1>11, SameRoles DEF Respects, OthersSame, TransactionKept, FilesKept, disk, bounds
<1>13. TablesType'
  BY <1>1, <1>2, <1>6, <1>10 DEF TablesType, disk, bounds
<1>14. LocalType'
  BY <1>1, <1>2, <1>3, <1>5, <1>10, <1>11 DEF LocalType, SeenType, disk
<1>15. LocalOk(o)' /\ PreparedOk(o)'
  BY <1>1, <1>2, <1>3, <1>5 DEF LocalOk, PreparedOk, Holds, Preparing
<1>16. \A k \in Keys : locks'[k] # o
  <2>1. \A k \in Keys : locks[k] # o
    BY <1>1, <1>2, NoContentLock DEF Cleaning
  <2> QED BY <1>2, <1>11, <2>1
<1>17. ArtsInv' /\ ImportInv' /\ ReferencedKept'
  BY <1>1, <1>5, <1>7, <1>10, ArtsChange DEF Past, bounds
<1>18. FilesHaveRows'
  BY <1>1, <1>6 DEF LibraryInv, FilesHaveRows, disk
<1> QED BY <1>12, <1>13, <1>14, <1>15, <1>16, <1>17, <1>18, OperationStep

LEMMA Recolored ==
    ASSUME NEW b \in Art, NEW v \in BOOLEAN, NEW c, c = [b EXCEPT !.primary = v]
    PROVE  /\ c \in Art /\ c.primary = v
           /\ c.id = b.id /\ c.setup = b.setup /\ c.role = b.role /\ c.name = b.name /\ c.key = b.key /\ c.version = b.version
BY DEF Art

Recasts ==
    /\ arts' \subseteq Art /\ IsFiniteSet(arts') /\ \A b, c \in arts' : b.id = c.id => b = c
    /\ \A b \in arts' : \E c \in arts : c.id = b.id /\ c.key = b.key /\ c.version = b.version

(* What becomes of the other artifacts of the setup when one is deleted. *)
Inherits(a, heir, b) == b.primary \/ b.id = heir \/ (PromotesLast(a) /\ b \in Programs(a.setup))

LEMMA DeletedFacts ==
    ASSUME LibraryInv, NEW a \in arts, NEW heir, arts' = Deleted(a, heir)
    PROVE  /\ Recasts
           /\ \A b \in arts' : \E c \in arts \ {a} : c.id = b.id /\ c.setup = b.setup /\ c.role = b.role
                                  /\ b.primary = IF c.setup = a.setup THEN Inherits(a, heir, c) ELSE c.primary
           /\ \A c \in arts \ {a} : \E b \in arts' : b.id = c.id /\ c.setup = b.setup /\ c.role = b.role
                                  /\ b.primary = IF c.setup = a.setup THEN Inherits(a, heir, c) ELSE c.primary
<1>1. arts \subseteq Art /\ IsFiniteSet(arts) /\ ArtsInv
  BY DEF LibraryInv, TablesType
<1>2. PICK S, R : S = {b \in arts : b.setup = a.setup} \ {a} /\ R = {b \in arts : b.setup # a.setup}
  OBVIOUS
<1>3. S \subseteq arts \ {a} /\ R \subseteq arts \ {a} /\ \A b \in arts \ {a} : b \in S \/ b \in R
  BY <1>2
<1>4. \A b \in S : b.setup = a.setup
  BY <1>2
<1>5. \A b \in R : b.setup # a.setup
  BY <1>2
<1>6. PICK v : v = [b \in S |-> Inherits(a, heir, b)]
  OBVIOUS
<1>7. PICK f : f = [b \in S |-> [b EXCEPT !.primary = v[b]]]
  OBVIOUS
<1>8. ASSUME NEW b \in S PROVE v[b] \in BOOLEAN /\ v[b] = Inherits(a, heir, b)
  <2>1. b.primary \in BOOLEAN
    BY <1>1, <1>3 DEF Art
  <2>2. Inherits(a, heir, b) \in BOOLEAN
    BY <2>1, Zenon DEF Inherits
  <2> QED BY <1>6, <2>2
<1>9. arts' = {f[b] : b \in S} \cup R
  <2>1. \A b \in S : f[b] = [b EXCEPT !.primary = b.primary \/ b.id = heir \/ (PromotesLast(a) /\ b \in Programs(a.setup))]
    <3>1. ASSUME NEW b \in S PROVE f[b] = [b EXCEPT !.primary = v[b]]
      BY <1>7
    <3> QED BY <1>8, <3>1 DEF Inherits
  <2>2. PICK M : M = {[b EXCEPT !.primary = b.primary \/ b.id = heir \/ (PromotesLast(a) /\ b \in Programs(a.setup))] : b \in S}
    OBVIOUS
  <2>3. arts' = M \cup R
    BY <1>2, <2>2 DEF Deleted
  <2>4. ASSUME NEW x \in M PROVE \E b \in S : x = f[b]
    <3>1. PICK b \in S : x = [b EXCEPT !.primary = b.primary \/ b.id = heir \/ (PromotesLast(a) /\ b \in Programs(a.setup))]
      BY <2>2
    <3> QED BY <2>1, <3>1
  <2>5. ASSUME NEW b \in S PROVE f[b] \in M
    <3>1. [b EXCEPT !.primary = b.primary \/ b.id = heir \/ (PromotesLast(a) /\ b \in Programs(a.setup))] \in M
      BY <2>2
    <3> QED BY <2>1, <3>1
  <2>6. M = {f[b] : b \in S}
    BY <2>4, <2>5
  <2> QED BY <2>3, <2>6
<1>10. ASSUME NEW b \in S PROVE /\ f[b] \in Art /\ f[b].primary = v[b] /\ f[b].id = b.id /\ f[b].setup = b.setup /\ f[b].role = b.role
                                /\ f[b].key = b.key /\ f[b].version = b.version
  <2>1. b \in Art /\ f[b] = [b EXCEPT !.primary = v[b]]
    BY <1>1, <1>3, <1>7
  <2> QED BY <1>8, <2>1, Recolored
<1>11. IsFiniteSet(arts')
  <2>1. IsFiniteSet(S) /\ IsFiniteSet(R)
    BY <1>1, <1>2, FS_Subset
  <2>2. DOMAIN f = S
    BY <1>7
  <2>3. IsFiniteSet({f[b] : b \in S})
    BY <2>1, <2>2, ImageFinite
  <2> QED BY <1>9, <2>1, <2>3, FS_Union
<1>12. arts' \subseteq Art
  BY <1>1, <1>3, <1>9, <1>10
<1>13. ASSUME NEW b \in arts' PROVE (\E c \in S : b = f[c]) \/ b \in R
  BY <1>9
<1>14. ASSUME NEW b \in arts', NEW c \in arts', b.id = c.id PROVE b = c
  <2>1. PICK p \in arts : p.id = b.id /\ ((p \in S /\ b = f[p]) \/ (p \in R /\ b = p))
    BY <1>3, <1>10, <1>13
  <2>2. PICK q \in arts : q.id = c.id /\ ((q \in S /\ c = f[q]) \/ (q \in R /\ c = q))
    BY <1>3, <1>10, <1>13
  <2>3. p = q
    BY <1>1, <1>14, <2>1, <2>2 DEF ArtsInv
  <2> QED BY <1>4, <1>5, <2>1, <2>2, <2>3
<1>15. ASSUME NEW b \in arts' PROVE \E c \in arts : c.id = b.id /\ c.key = b.key /\ c.version = b.version
  BY <1>3, <1>10, <1>13
<1>16. ASSUME NEW b \in arts' PROVE \E c \in arts \ {a} : c.id = b.id /\ c.setup = b.setup /\ c.role = b.role
                                  /\ b.primary = IF c.setup = a.setup THEN Inherits(a, heir, c) ELSE c.primary
  <2>1. CASE b \in R
    BY <1>3, <1>5, <2>1
  <2>2. ASSUME NEW c \in S, b = f[c] PROVE \E d \in arts \ {a} : d.id = b.id /\ d.setup = b.setup /\ d.role = b.role
                                  /\ b.primary = IF d.setup = a.setup THEN Inherits(a, heir, d) ELSE d.primary
    <3>1. b.primary = Inherits(a, heir, c)
      BY <1>8, <1>10, <2>2
    <3> QED BY <1>3, <1>4, <1>10, <2>2, <3>1
  <2> QED BY <1>13, <2>1, <2>2
<1>17. ASSUME NEW c \in arts \ {a} PROVE \E b \in arts' : b.id = c.id /\ c.setup = b.setup /\ c.role = b.role
                                  /\ b.primary = IF c.setup = a.setup THEN Inherits(a, heir, c) ELSE c.primary
  <2>1. CASE c \in R
    BY <1>5, <1>9, <2>1
  <2>2. CASE c \in S
    <3>1. f[c].primary = Inherits(a, heir, c) /\ f[c] \in arts'
      BY <1>8, <1>9, <1>10, <2>2
    <3> QED BY <1>4, <1>10, <2>2, <3>1
  <2> QED BY <1>3, <2>1, <2>2
<1> QED BY <1>11, <1>12, <1>14, <1>15, <1>16, <1>17 DEF Recasts

Chosen(a, b) == b = a

LEMMA PrimaryFacts ==
    ASSUME LibraryInv, NEW a \in arts,
           arts' = (arts \ Programs(a.setup)) \cup {[b EXCEPT !.primary = b = a] : b \in Programs(a.setup)}
    PROVE  /\ Recasts
           /\ \A b \in arts' : \E c \in arts : c.id = b.id /\ c.setup = b.setup /\ c.role = b.role
                                  /\ b.primary = IF c \in Programs(a.setup) THEN Chosen(a, c) ELSE c.primary
           /\ \A c \in arts : \E b \in arts' : b.id = c.id /\ c.setup = b.setup /\ c.role = b.role
                                  /\ b.primary = IF c \in Programs(a.setup) THEN Chosen(a, c) ELSE c.primary
<1>1. arts \subseteq Art /\ IsFiniteSet(arts) /\ ArtsInv
  BY DEF LibraryInv, TablesType
<1>2. PICK S, R : S = Programs(a.setup) /\ R = arts \ Programs(a.setup)
  OBVIOUS
<1>3. S \subseteq arts /\ R \subseteq arts /\ S \cap R = {} /\ \A b \in arts : b \in S \/ b \in R
  BY <1>2 DEF Programs, Of
<1>4. PICK v : v = [b \in S |-> Chosen(a, b)]
  OBVIOUS
<1>5. PICK f : f = [b \in S |-> [b EXCEPT !.primary = v[b]]]
  OBVIOUS
<1>6. ASSUME NEW b \in S PROVE v[b] \in BOOLEAN /\ v[b] = Chosen(a, b)
  <2>1. Chosen(a, b) \in BOOLEAN
    BY Zenon DEF Chosen
  <2> QED BY <1>4, <2>1
<1>7. PICK T : T = {f[b] : b \in S}
  OBVIOUS
<1>8. arts' = T \cup R
  <2>1. \A b \in S : f[b] = [b EXCEPT !.primary = b = a]
    <3>1. ASSUME NEW b \in S PROVE f[b] = [b EXCEPT !.primary = v[b]]
      BY <1>5
    <3> QED BY <1>6, <3>1 DEF Chosen
  <2>2. PICK M : M = {[b EXCEPT !.primary = b = a] : b \in S}
    OBVIOUS
  <2>3. arts' = M \cup R
    BY <1>2, <2>2
  <2>4. ASSUME NEW x \in M PROVE \E b \in S : x = f[b]
    <3>1. PICK b \in S : x = [b EXCEPT !.primary = b = a]
      BY <2>2
    <3> QED BY <2>1, <3>1
  <2>5. ASSUME NEW b \in S PROVE f[b] \in M
    <3>1. [b EXCEPT !.primary = b = a] \in M
      BY <2>2
    <3> QED BY <2>1, <3>1
  <2> QED BY <1>7, <2>3, <2>4, <2>5
<1>9. ASSUME NEW b \in S PROVE /\ f[b] \in Art /\ f[b].primary = v[b] /\ f[b].id = b.id /\ f[b].setup = b.setup /\ f[b].role = b.role
                                /\ f[b].key = b.key /\ f[b].version = b.version
  <2>1. b \in Art /\ f[b] = [b EXCEPT !.primary = v[b]]
    BY <1>1, <1>3, <1>5
  <2> QED BY <1>6, <2>1, Recolored
<1>10. IsFiniteSet(arts')
  <2>1. IsFiniteSet(S) /\ IsFiniteSet(R)
    BY <1>1, <1>3, FS_Subset
  <2>2. DOMAIN f = S
    BY <1>5
  <2>3. IsFiniteSet(T)
    BY <1>7, <2>1, <2>2, ImageFinite
  <2>4. IsFiniteSet(T \cup R)
    BY <2>1, <2>3, FS_Union
  <2> QED BY <1>8, <2>4
<1>11. arts' \subseteq Art
  BY <1>1, <1>3, <1>8, <1>9, <1>7
<1>12. ASSUME NEW b \in arts' PROVE (\E c \in S : b = f[c]) \/ b \in R
  BY <1>8, <1>7
<1>13. ASSUME NEW b \in arts', NEW c \in arts', b.id = c.id PROVE b = c
  <2>1. PICK p \in arts : p.id = b.id /\ ((p \in S /\ b = f[p]) \/ (p \in R /\ b = p))
    BY <1>3, <1>9, <1>12
  <2>2. PICK q \in arts : q.id = c.id /\ ((q \in S /\ c = f[q]) \/ (q \in R /\ c = q))
    BY <1>3, <1>9, <1>12
  <2>3. p = q
    BY <1>1, <1>13, <2>1, <2>2 DEF ArtsInv
  <2> QED BY <1>3, <2>1, <2>2, <2>3
<1>14. ASSUME NEW b \in arts' PROVE \E c \in arts : c.id = b.id /\ c.key = b.key /\ c.version = b.version
  BY <1>3, <1>9, <1>12
<1>15. ASSUME NEW b \in arts' PROVE \E c \in arts : c.id = b.id /\ c.setup = b.setup /\ c.role = b.role
                                  /\ b.primary = IF c \in Programs(a.setup) THEN Chosen(a, c) ELSE c.primary
  <2>1. CASE b \in R
    BY <1>2, <1>3, <2>1
  <2>2. ASSUME NEW c \in S, b = f[c] PROVE c \in arts /\ c.id = b.id /\ c.setup = b.setup /\ c.role = b.role
                                           /\ b.primary = IF c \in Programs(a.setup) THEN Chosen(a, c) ELSE c.primary
    BY <1>2, <1>3, <1>9, <1>6, <2>2
  <2> QED BY <1>12, <2>1, <2>2
<1>16. ASSUME NEW c \in arts PROVE \E b \in arts' : b.id = c.id /\ c.setup = b.setup /\ c.role = b.role
                                  /\ b.primary = IF c \in Programs(a.setup) THEN Chosen(a, c) ELSE c.primary
  <2>1. CASE c \in R
    BY <1>2, <1>8, <2>1
  <2>2. CASE c \in S
    <3>1. f[c] \in arts'
      BY <1>8, <1>7, <2>2
    <3> QED BY <1>2, <1>9, <1>6, <2>2, <3>1
  <2> QED BY <1>3, <2>1, <2>2
<1> QED BY <1>10, <1>11, <1>13, <1>14, <1>15, <1>16 DEF Recasts

LEMMA RenamedFacts ==
    ASSUME LibraryInv, NEW a \in arts, NEW m \in Names, arts' = (arts \ {a}) \cup {[a EXCEPT !.name = m]}
    PROVE  /\ Recasts
           /\ \A b \in arts' : \E c \in arts : c.id = b.id /\ c.setup = b.setup /\ c.role = b.role /\ b.primary = c.primary
           /\ \A c \in arts : \E b \in arts' : b.id = c.id /\ c.setup = b.setup /\ c.role = b.role /\ b.primary = c.primary
<1>1. arts \subseteq Art /\ IsFiniteSet(arts) /\ ArtsInv /\ a \in Art
  BY DEF LibraryInv, TablesType
<1>2. PICK r : r = [a EXCEPT !.name = m]
  OBVIOUS
<1>3. r \in Art /\ r.id = a.id /\ r.key = a.key /\ r.version = a.version /\ r.primary = a.primary /\ r.setup = a.setup /\ r.role = a.role
  BY <1>1, <1>2 DEF Art
<1>4. arts' = (arts \ {a}) \cup {r}
  BY <1>2
<1>5. IsFiniteSet(arts')
  <2>1. IsFiniteSet(arts \ {a})
    BY <1>1, FS_RemoveElement
  <2>2. IsFiniteSet((arts \ {a}) \cup {r})
    BY <2>1, FS_AddElement
  <2> QED BY <1>4, <2>2
<1>6. \A b, c \in arts' : b.id = c.id => b = c
  <2>1. \A c \in arts : c.id = a.id => c = a
    BY <1>1 DEF ArtsInv
  <2>2. \A b, c \in arts : b.id = c.id => b = c
    BY <1>1 DEF ArtsInv
  <2> QED BY <1>3, <1>4, <2>1, <2>2
<1>7. Recasts
  BY <1>1, <1>3, <1>5, <1>6, <1>4 DEF Recasts
<1> QED BY <1>3, <1>7, <1>4

LEMMA AlterOk ==
    ASSUME LibraryInv, NEW o \in Asked, Alter(o)
    PROVE  LibraryInv'
<1>1. /\ o \in Ops /\ Here(o) /\ pc[o] = "enter" /\ writer = None /\ Unlocked(Ask(o).setup)
      /\ Ask(o).kind \in {"rename", "delete", "primary"}
      /\ UNCHANGED <<disk, objects, attention, journal, session, items, heavy, writer, seen, got, mode, bounds>>
  BY AskFacts DEF LibraryInv, Alter, Ready, Writable
<1>2. LocalType /\ TablesType /\ LocalOk(o) /\ PreparedOk(o) /\ SeenType /\ mode = "up" /\ todo \in [Ops -> SUBSET Keys] /\ o # None
  BY <1>1, HereFacts
<1>3. Ask(o)' = Ask(o) /\ Asked' = Asked
  BY <1>1, AsksSame DEF bounds
<1>4. PICK a \in arts : /\ a.setup = Ask(o).setup
                        /\ \/ Delete(o, a)
                           \/ Ask(o).kind = "rename" /\ Rename(o, a)
                           \/ SetPrimary(o, a)
  BY DEF Alter, Target
<1>5. a.key \in Keys /\ a.setup \in Locks \ Keys
  BY <1>1, <1>2, <1>4, LockNames, AskFacts DEF TablesType, Art
<1>6. PICK p \in {"done", "cleanOld"} : Goto(o, p)
  BY <1>4 DEF Delete, Rename, SetPrimary
<1>7. pc' \in [Ops -> Positions] /\ pc'[o] = p /\ \A q \in Ops \ {o} : pc'[q] = pc[q]
  BY <1>1, <1>2, <1>6, Moves DEF Positions
<1>8. Recasts
  <2>1. CASE Delete(o, a)
    BY <2>1, DeletedFacts DEF Delete
  <2>2. CASE Ask(o).kind = "rename" /\ Rename(o, a)
    <3>1. PICK i \in 1..Len(Ask(o).files) : i = 1
      <4>1. PICK n : n = Len(Ask(o).files)
        OBVIOUS
      <4>2. n = 1
        BY <1>2, <2>2, <4>1, AskLengths
      <4>3. 1 \in 1..n
        BY <4>2
      <4> QED BY <4>1, <4>3
    <3>2. Ask(o).files[1].name \in Names
      BY <1>2, <3>1, AskFacts
    <3> QED BY <2>2, <3>2, RenamedFacts DEF Rename
  <2>3. CASE SetPrimary(o, a)
    BY <2>3, PrimaryFacts DEF SetPrimary
  <2> QED BY <1>4, <2>1, <2>2, <2>3
<1>9. todo' \in [Ops -> SUBSET Keys] /\ \A q \in Ops \ {o} : todo'[q] = todo[q]
  BY <1>1, <1>2, <1>4, <1>5 DEF Delete, Rename, SetPrimary
<1>10. locks' \in [Locks -> Ops \cup {None}] /\ LocksKept(o) /\ \A k \in Keys : locks'[k] = locks[k]
  <2>1. CASE UNCHANGED locks
    BY <1>2, <2>1, LocksSame
  <2>2. CASE locks' = [locks EXCEPT ![a.setup] = o]
    BY <1>1, <1>2, <1>4, <1>5, <2>2, Locking, LockNames, ZenonT(60)
  <2> QED BY <1>4, <2>1, <2>2 DEF Delete, Rename, SetPrimary
<1>11. ReferencesKept
  BY <1>1 DEF ReferencesKept, Kept, disk, bounds
<1>12. Respects(o)
  BY <1>1, <1>2, <1>7, <1>9, <1>10, <1>11, SameRoles DEF Respects, OthersSame, TransactionKept, FilesKept, disk, bounds
<1>13. TablesType'
  BY <1>1, <1>2, <1>8 DEF TablesType, Recasts, disk, bounds
<1>14. LocalType'
  BY <1>1, <1>2, <1>3, <1>7, <1>9, <1>10 DEF LocalType, SeenType, disk
<1>15. LocalOk(o)' /\ PreparedOk(o)'
  BY <1>1, <1>2, <1>3, <1>7 DEF LocalOk, PreparedOk, Holds, Preparing
<1>16. \A k \in Keys : locks'[k] # o
  BY <1>1, <1>2, <1>10, NoContentLock DEF Cleaning
<1>17. ArtsInv' /\ ImportInv' /\ ReferencedKept'
  <2>1. ASSUME NEW b \in arts' PROVE (\E c \in arts : c.id = b.id) /\ Kept(b.key, b.version)'
    <3>1. PICK c \in arts : c.id = b.id /\ c.key = b.key /\ c.version = b.version
      BY <1>8 DEF Recasts
    <3>2. Kept(c.key, c.version)
      BY DEF LibraryInv, ReferencedKept
    <3> QED BY <1>1, <3>1, <3>2 DEF Kept, disk, bounds
  <2>2. \A b, c \in arts' : b.id = c.id => b = c
    BY <1>8 DEF Recasts
  <2> QED BY <1>1, <1>7, <1>11, <2>1, <2>2, ArtsChange DEF Past, bounds
<1>18. FilesHaveRows'
  BY <1>1 DEF LibraryInv, FilesHaveRows, disk
<1> QED BY <1>12, <1>13, <1>14, <1>15, <1>16, <1>17, <1>18, OperationStep

-----------------------------------------------------------------------------
(* What the import holds.                                                  *)

Joined(I, n, J) == n \notin I /\ J = I \cup {n}
HeldBytes(I, K) == UNION {{n} \X (1..Size[K[n]]) : n \in I}

LEMMA FileBytes ==
    ASSUME NEW n, NEW k \in Keys
    PROVE  /\ IsFiniteSet({n} \X (1..Size[k])) /\ Cardinality({n} \X (1..Size[k])) = Size[k] /\ Size[k] \in Nat
           /\ \A x \in {n} \X (1..Size[k]) : x[1] = n
<1>1. Size[k] \in Nat /\ Size[k] \in Int /\ 1 \in Int
  BY SizeAssumption
<1>2. PICK i \in Int, s \in Int : i = 1 /\ s = Size[k] /\ s \in Nat
  BY <1>1
<1>3. PICK T : T = i..s
  OBVIOUS
<1>4. IsFiniteSet(T) /\ Cardinality(T) = s
  <2>1. IsFiniteSet(i..s) /\ Cardinality(i..s) = IF i > s THEN 0 ELSE s - i + 1
    BY FS_Interval
  <2>2. (IF i > s THEN 0 ELSE s - i + 1) = s
    BY <1>2
  <2> QED BY <1>3, <2>1, <2>2
<1>5. PICK N : N = {n}
  OBVIOUS
<1>6. IsFiniteSet(N) /\ Cardinality(N) = 1
  BY <1>5, FS_Singleton
<1>7. IsFiniteSet(N \X T) /\ Cardinality(N \X T) = Cardinality(N) * Cardinality(T)
  BY <1>4, <1>6, FS_Product
<1>8. Cardinality(N \X T) = s
  BY <1>2, <1>4, <1>6, <1>7
<1>9. N \X T = {n} \X (1..Size[k])
  BY <1>2, <1>5, <1>3
<1>10. \A x \in {n} \X (1..Size[k]) : x[1] = n
  OBVIOUS
<1> QED BY <1>1, <1>2, <1>7, <1>8, <1>9, <1>10

LEMMA MoreBytes ==
    ASSUME NEW I, NEW J, NEW K, NEW n, Joined(I, n, J), K[n] \in Keys,
           IsFiniteSet(HeldBytes(I, K))
    PROVE  /\ IsFiniteSet(HeldBytes(J, K))
           /\ Cardinality(HeldBytes(I, K)) \in Nat
           /\ Cardinality(HeldBytes(J, K)) = Cardinality(HeldBytes(I, K)) + Size[K[n]]
<1> USE DEF Joined
<1>1. PICK B, F : B = HeldBytes(I, K) /\ F = {n} \X (1..Size[K[n]])
  OBVIOUS
<1>2. HeldBytes(J, K) = B \cup F
  <2>1. ASSUME NEW x \in HeldBytes(J, K) PROVE x \in B \cup F
    <3>1. PICK m \in I \cup {n} : x \in {m} \X (1..Size[K[m]])
      BY DEF HeldBytes
    <3>2. CASE m = n
      BY <1>1, <3>1, <3>2
    <3>3. CASE m \in I
      BY <1>1, <3>1, <3>3 DEF HeldBytes
    <3> QED BY <3>1, <3>2, <3>3
  <2>2. ASSUME NEW x \in B PROVE x \in HeldBytes(J, K)
    BY <1>1 DEF HeldBytes
  <2>3. ASSUME NEW x \in F PROVE x \in HeldBytes(J, K)
    BY <1>1 DEF HeldBytes
  <2> QED BY <2>1, <2>2, <2>3
<1>3. IsFiniteSet(F) /\ Cardinality(F) = Size[K[n]] /\ Size[K[n]] \in Nat /\ \A x \in F : x[1] = n
  BY <1>1, FileBytes
<1>4. B \cap F = {}
  <2>1. ASSUME NEW x \in B PROVE x[1] # n
    <3>1. PICK m \in I : x \in {m} \X (1..Size[K[m]])
      BY <1>1 DEF HeldBytes
    <3> QED BY <3>1
  <2> QED BY <1>3, <2>1
<1>5. IsFiniteSet(B) /\ Cardinality(B) \in Nat /\ Cardinality({}) = 0
  BY <1>1, FS_CardinalityType, FS_EmptySet
<1>6. IsFiniteSet(B \cup F) /\ Cardinality(B \cup F) = Cardinality(B) + Cardinality(F) - Cardinality(B \cap F)
  BY <1>3, <1>5, FS_Union
<1>7. Cardinality(B \cup F) = Cardinality(B) + Cardinality(F)
  <2>1. Cardinality(B \cap F) = 0
    BY <1>4, <1>5
  <2> QED BY <1>3, <1>5, <1>6, <2>1
<1> QED BY <1>1, <1>2, <1>3, <1>5, <1>6, <1>7

LEMMA FewerBytes ==
    ASSUME NEW I, NEW J, NEW K, NEW n, Joined(J, n, I), K[n] \in Keys, IsFiniteSet(HeldBytes(I, K))
    PROVE  /\ IsFiniteSet(HeldBytes(J, K))
           /\ Cardinality(HeldBytes(J, K)) \in Nat
           /\ Cardinality(HeldBytes(I, K)) = Cardinality(HeldBytes(J, K)) + Size[K[n]]
<1>1. HeldBytes(J, K) \subseteq HeldBytes(I, K)
  BY DEF HeldBytes, Joined
<1>2. IsFiniteSet(HeldBytes(J, K))
  BY <1>1, FS_Subset
<1> QED BY <1>2, MoreBytes

-----------------------------------------------------------------------------
(* Steps of the import.                                                    *)

LEMMA ImportStep ==
    ASSUME LibraryInv, NEW o \in Asked, NEW p \in Positions, Goto(o, p), mode = "up", writer = None,
           UNCHANGED <<plan, files, born, objects, arts, journal, touched, writer, got, mode, locks, staging, heavy>>,
           SeenType', \A q \in Ops \ {o} : seen'[q] = seen[q],
           todo' \in [Ops -> SUBSET Keys], \A q \in Ops \ {o} : todo'[q] = todo[q],
           session' \in Session \cup {None}, items' \in [Names -> ItemRow \cup {None}],
           \A n \in Names : items'[n] # None /\ items'[n].state = "staged" => items'[n] = items[n],
           RolesKept, ImportInv', LocalOk(o)', pc[o] \notin {"publish", "mark"}, p \notin {"publish", "mark"},
           p \in {"stage", "reserve", "claim", "change"} => got[o] = <<>>,
           pc[o] \in Past /\ Ask(o).kind \in {"add", "sheet", "commit"} => p \in Past
    PROVE  LibraryInv'
<1>1. /\ o \in Ops /\ o # None /\ LocalType /\ TablesType /\ Asked' = Asked /\ Ask(o)' = Ask(o) /\ FilesHaveRows /\ ReferencedKept
      /\ PreparedOk(o)
  BY AskFacts, AsksSame DEF LibraryInv, OperationsInv
<1>2. pc' \in [Ops -> Positions] /\ pc'[o] = p /\ \A q \in Ops \ {o} : pc'[q] = pc[q]
  BY <1>1, Moves
<1>3. locks' \in [Locks -> Ops \cup {None}] /\ LocksKept(o)
  BY <1>1, LocksSame
<1>4. \A k, v : Kept(k, v)' <=> Kept(k, v)
  BY SameKept
<1>5. Respects(o)
  <2>1. ReferencesKept
    BY <1>4 DEF ReferencesKept
  <2> QED BY <1>2, <1>3, <2>1 DEF Respects, OthersSame, TransactionKept, FilesKept
<1>6. TablesType'
  BY <1>1 DEF TablesType
<1>7. LocalType'
  BY <1>1, <1>2, <1>3 DEF LocalType
<1>8. PreparedOk(o)'
  BY <1>1, <1>2, <1>4 DEF PreparedOk, Holds
<1>9. \A k \in Keys : locks'[k] # o
  BY NoContentLock, <1>1
<1>10. ArtsInv'
  BY <1>1, <1>2, ArtsStay
<1>11. ReferencedKept' /\ FilesHaveRows'
  <2>1. \A a \in arts' : Kept(a.key, a.version)'
    BY <1>1, <1>4 DEF ReferencedKept
  <2>2. ASSUME NEW n \in ItemsIn({"staged"})' PROVE Kept(items[n].key, items[n].version)'
    <3>1. n \in Names /\ items'[n] = items[n] /\ n \in ItemsIn({"staged"})
      BY <2>2 DEF ItemsIn
    <3>2. Kept(items[n].key, items[n].version)
      BY <1>1, <3>1 DEF ReferencedKept
    <3> QED BY <3>1, <3>2 DEF Kept
  <2> QED BY <1>1, <2>1, <2>2 DEF ReferencedKept, FilesHaveRows
<1> QED BY <1>5, <1>6, <1>7, <1>8, <1>9, <1>10, <1>11, OperationStep

(* The import goes on, with one item changed. *)
OnlyItem(n) == \A m \in Names \ {n} : items'[m] = items[m]
ItemFits(n) == n \in Names /\ items'[n] # None => /\ items'[n].key # None <=> items'[n].state = "staged"
                                                  /\ items'[n].state = "staged" => items'[n].version # 0
                                                  /\ items'[n].state # "published"

LEMMA StillStaging ==
    ASSUME LibraryInv, UNCHANGED <<plan, arts>>, NEW n, OnlyItem(n), ItemFits(n),
           session # None => Staging, session' # None, session'.state = "staging", session'.setup = None,
           IsFiniteSet(Bytes)', session'.bytes = Cardinality(Bytes)', session'.bytes <= ImportLimit
    PROVE  ImportInv'
<1>1. ImportInv /\ \A o : Asked' = Asked /\ Ask(o)' = Ask(o)
  BY AsksSame DEF LibraryInv
<1>2. IsFiniteSet(Listed')
  <2>1. IsFiniteSet(Listed \cup {n})
    BY <1>1, FS_AddElement DEF ImportInv
  <2>2. Listed' \subseteq Listed \cup {n}
    BY DEF Listed, OnlyItem
  <2> QED BY <2>1, <2>2, FS_Subset
<1>3. \A m \in Names : items[m] # None => /\ items[m].key # None <=> items[m].state = "staged"
                                          /\ items[m].state = "staged" => items[m].version # 0
                                          /\ items[m].state # "published"
  BY <1>1 DEF ImportInv, ItemsIn
<1>4. \A m \in Names : items'[m] # None => /\ items'[m].key # None <=> items'[m].state = "staged"
                                           /\ items'[m].state = "staged" => items'[m].version # 0
                                           /\ items'[m].state # "published"
  BY <1>3 DEF OnlyItem, ItemFits
<1>5. Imported' = {}
  <2>1. Imported' = Imported
    BY <1>1 DEF Imported
  <2>2. session # None => session.setup = None
    BY <1>1 DEF ImportInv
  <2>3. ASSUME NEW a \in Imported PROVE FALSE
    <3>1. session # None /\ a.id[1] = None /\ a.id[1] \in Asked
      BY <1>1, <2>2 DEF ImportInv, ImportsWhole, ImportEndsOnce, Imported
    <3> QED BY <3>1, AskFacts DEF LibraryInv
  <2> QED BY <2>1, <2>3
<1>6. ItemsIn({"published"})' = {}
  <2>1. \A m \in Names : items'[m] # None => items'[m].state # "published"
    BY <1>4
  <2> QED BY <2>1 DEF ItemsIn
<1>7. session' # None /\ session'.state # "cancelled" /\ session'.state # "succeeded" /\ Staging'
  BY DEF Staging
<1>8. ImportsWhole'
  <2>1. ImportWithinLimit'
    BY DEF ImportWithinLimit, StagedBytes
  <2>2. ImportEndsOnce'
    BY <1>5, <1>7 DEF ImportEndsOnce
  <2> QED BY <2>1, <2>2 DEF ImportsWhole
<1>9. /\ (session = None => \A m \in Names : items[m] = None)'
      /\ (session # None /\ session.state = "cancelled" => \A m \in Names : items[m] # None => items[m].state = "excluded")'
      /\ (Staging => ItemsIn({"published"}) = {} /\ IsFiniteSet(Bytes) /\ session.setup = None)'
      /\ (Imported # {} => session # None)'
  BY <1>6, <1>7
<1> QED BY <1>2, <1>4, <1>8, <1>9 DEF ImportInv

(* The import ends without a setup. *)
LEMMA NothingKept ==
    ASSUME LibraryInv, UNCHANGED <<plan, arts>>, Staging, session' # None, session'.state = "cancelled", session'.setup = None,
           \A n \in Names : IF items[n] # None THEN items'[n] # None /\ items'[n].state = "excluded" /\ items'[n].key = None
                                               ELSE items'[n] = None
    PROVE  ImportInv'
<1>1. ImportInv /\ \A o : Asked' = Asked /\ Ask(o)' = Ask(o)
  BY AsksSame DEF LibraryInv
<1>2. IsFiniteSet(Listed')
  <2>1. Listed' = Listed
    BY DEF Listed
  <2> QED BY <1>1, <2>1 DEF ImportInv
<1>3. Imported' = {}
  <2>1. Imported' = Imported
    BY <1>1 DEF Imported
  <2>2. ASSUME NEW a \in Imported PROVE FALSE
    <3>1. session # None /\ a.id[1] = None /\ a.id[1] \in Asked
      BY <1>1 DEF ImportInv, ImportsWhole, ImportEndsOnce, Imported, Staging
    <3> QED BY <3>1, AskFacts DEF LibraryInv
  <2> QED BY <2>1, <2>2
<1>4. ~Staging'
  BY DEF Staging
<1>5. \A n \in Names : items'[n] # None => items'[n].state = "excluded" /\ items'[n].key = None
  OBVIOUS
<1> QED BY <1>2, <1>3, <1>4, <1>5 DEF ImportInv, ImportsWhole, ImportWithinLimit, ImportEndsOnce

LEMMA BytesAre ==
    ASSUME NEW I, NEW K, I = ItemsIn({"staged", "published"}), \A n \in I : K[n] = items[n].key
    PROVE  Bytes = HeldBytes(I, K)
<1>1. ASSUME NEW x PROVE x \in Bytes <=> x \in HeldBytes(I, K)
  <2>1. x \in Bytes <=> \E m \in I : x \in {m} \X (1..Size[items[m].key])
    BY DEF Bytes
  <2>2. x \in HeldBytes(I, K) <=> \E m \in I : x \in {m} \X (1..Size[K[m]])
    BY DEF HeldBytes
  <2> QED BY <2>1, <2>2
<1> QED BY <1>1

LEMMA BytesWillBe ==
    ASSUME NEW I, NEW K, I = ItemsIn({"staged", "published"})', \A n \in I : K[n] = items'[n].key
    PROVE  Bytes' = HeldBytes(I, K)
<1>1. ASSUME NEW x PROVE x \in Bytes' <=> x \in HeldBytes(I, K)
  <2>1. x \in Bytes' <=> \E m \in I : x \in {m} \X (1..Size[items'[m].key])
    BY DEF Bytes
  <2>2. x \in HeldBytes(I, K) <=> \E m \in I : x \in {m} \X (1..Size[K[m]])
    BY DEF HeldBytes
  <2> QED BY <2>1, <2>2
<1> QED BY <1>1

LEMMA BytesStay ==
    ASSUME ItemsIn({"staged", "published"})' = ItemsIn({"staged", "published"}),
           \A n \in ItemsIn({"staged", "published"}) : items'[n].key = items[n].key
    PROVE  Bytes' = Bytes
<1>1. PICK I, K : I = ItemsIn({"staged", "published"}) /\ K = [n \in I |-> items[n].key]
  OBVIOUS
<1>2. \A n \in I : K[n] = items[n].key /\ K[n] = items'[n].key
  BY <1>1
<1>3. I = ItemsIn({"staged", "published"})'
  BY <1>1
<1>4. Bytes = HeldBytes(I, K)
  BY <1>1, <1>2, BytesAre
<1>5. Bytes' = HeldBytes(I, K)
  BY <1>2, <1>3, BytesWillBe
<1> QED BY <1>4, <1>5

LEMMA StartImportOk ==
    ASSUME LibraryInv, NEW o \in Asked, StartImport(o)
    PROVE  LibraryInv'
<1> USE DEF StartImport
<1>1. /\ o \in Ops /\ Here(o) /\ pc[o] = "idle" /\ writer = None /\ Goto(o, "done")
      /\ UNCHANGED <<disk, objects, arts, revision, attention, journal, sync, seen, got, mode, bounds>> /\ UNCHANGED <<items, todo>>
  BY AskFacts DEF LibraryInv, Asks, Writable, Stored
<1>2. LocalType /\ TablesType /\ SeenType /\ mode = "up" /\ todo \in [Ops -> SUBSET Keys] /\ LocalOk(o) /\ ImportInv
  BY <1>1, HereFacts DEF LibraryInv
<1>3. CASE Stored(o)
  BY <1>1, <1>2, <1>3, HereFacts, EndStep DEF Stored, References, Cleaning, Past, disk, sync, bounds
<1>4. CASE /\ session = None
           /\ session' = [state |-> "staging", bytes |-> 0, setup |-> None, job |-> "running", expired |-> FALSE]
  <2>1. ItemsIn({"staged", "published"}) = {}
    BY <1>2, <1>4 DEF ImportInv, ItemsIn
  <2>2. Bytes = {} /\ Bytes' = {}
    BY <1>1, <2>1 DEF Bytes, ItemsIn
  <2>3. IsFiniteSet(Bytes)' /\ session'.bytes = Cardinality(Bytes)' /\ session'.bytes <= ImportLimit
    BY <1>4, <2>2, FS_EmptySet, LimitsAssumption
  <2>4. PICK n : n = o
    OBVIOUS
  <2>5. OnlyItem(n) /\ ItemFits(n)
    BY <1>1, <1>2, <1>4 DEF OnlyItem, ItemFits, ImportInv
  <2>6. session' # None /\ session'.state = "staging" /\ session'.setup = None /\ session' \in Session
    <3>1. session' \in Session
      BY <1>4 DEF Session
    <3> QED BY <1>4, <3>1, NoneAssumption
  <2>7. UNCHANGED <<plan, arts>>
    BY <1>1 DEF bounds
  <2>8. ImportInv'
    BY <1>4, <2>3, <2>5, <2>6, <2>7, StillStaging
  <2>9. pc'[o] = "done" /\ Ask(o)' = Ask(o)
    BY <1>1, <1>2, Moves, AsksSame DEF Positions, bounds
  <2>10. LocalOk(o)'
    BY <1>1, <1>2, <2>9 DEF LocalOk, Preparing
  <2>11. RolesKept
    BY <1>4 DEF RolesKept
  <2>12. SeenType'
    <3>1. seen' = seen
      BY <1>1
    <3> QED BY <1>2, <3>1, SeenStays
  <2>13. "done" \in Positions /\ "done" \in Past
    BY DEF Positions, Past
  <2> QED BY <1>1, <1>2, <2>6, <2>8, <2>10, <2>11, <2>12, <2>13, ImportStep DEF disk, sync, bounds, TablesType
<1> QED BY <1>1, <1>3, <1>4

LEMMA UploadFacts ==
    ASSUME LibraryInv, NEW o \in Asked, Ask(o).kind \in {"upload", "exclude"}
    PROVE  /\ Name(o) \in Names /\ Len(Ask(o).files) = 1 /\ 1 \in 1..Len(Ask(o).files)
           /\ Ask(o).files[1].key \in Keys /\ Size[Ask(o).files[1].key] \in Nat
<1>1. Len(Ask(o).files) = 1
  BY AskLengths DEF LibraryInv
<1>2. PICK n : n = Len(Ask(o).files)
  OBVIOUS
<1>3. n = 1
  BY <1>1, <1>2
<1>4. 1 \in 1..n
  BY <1>3
<1>5. PICK i \in 1..Len(Ask(o).files) : i = 1
  BY <1>2, <1>4
<1>6. Ask(o).files[i].name \in Names /\ Ask(o).files[i].key \in Keys
  BY AskFacts DEF LibraryInv
<1> QED BY <1>1, <1>5, <1>6, SizeAssumption DEF Name

LEMMA StagingFacts ==
    ASSUME LibraryInv, Staging
    PROVE  /\ session \in Session /\ session # None /\ session.state = "staging" /\ session.setup = None
           /\ IsFiniteSet(Bytes) /\ StagedBytes = Cardinality(Bytes) /\ StagedBytes \in Nat
           /\ session.bytes = StagedBytes /\ StagedBytes <= ImportLimit
           /\ ItemsIn({"published"}) = {} /\ ItemsIn({"staged", "published"}) = ItemsIn({"staged"})
<1>1. session \in Session /\ session # None /\ session.state = "staging" /\ ImportInv
  BY DEF LibraryInv, Staging, TablesType
<1>2. session.setup = None /\ IsFiniteSet(Bytes) /\ session.bytes = StagedBytes /\ StagedBytes <= ImportLimit /\ ItemsIn({"published"}) = {}
  BY <1>1 DEF ImportInv, ImportsWhole, ImportWithinLimit
<1>3. StagedBytes = Cardinality(Bytes) /\ StagedBytes \in Nat
  BY <1>2, FS_CardinalityType DEF StagedBytes
<1>4. ItemsIn({"staged", "published"}) = ItemsIn({"staged"})
  BY <1>2 DEF ItemsIn
<1> QED BY <1>1, <1>2, <1>3, <1>4

LEMMA ReserveUploadOk ==
    ASSUME LibraryInv, NEW o \in Asked, ReserveUpload(o)
    PROVE  LibraryInv'
<1> USE DEF ReserveUpload
<1>1. /\ o \in Ops /\ Here(o) /\ pc[o] = "idle" /\ writer = None /\ Ask(o).kind = "upload" /\ Unlocked(ImportLock)
      /\ UNCHANGED <<disk, objects, arts, revision, attention, journal, claims, sync, got, todo, mode, bounds>>
  BY AskFacts DEF LibraryInv, Asks, Writable
<1>2. LocalType /\ TablesType /\ SeenType /\ mode = "up" /\ todo \in [Ops -> SUBSET Keys] /\ LocalOk(o) /\ ImportInv
  BY <1>1, HereFacts DEF LibraryInv
<1>3. CASE ~Reservable(o)
  BY <1>1, <1>2, <1>3, HereFacts, EndStep DEF References, Cleaning, Past, disk, sync, bounds
<1>4. CASE Reservable(o)
  <2>1. /\ Staging /\ session' = WithJob /\ Goto(o, "stage")
        /\ items' = IF Existing(o) THEN items ELSE [items EXCEPT ![Name(o)] = Item("uploading", Ask(o).role)]
        /\ seen' = [seen EXCEPT ![o].room = ImportLimit - session.bytes, ![o].existing = Existing(o)]
    BY <1>4 DEF Reservable
  <2>2. PICK n \in Names : n = Name(o)
    BY <1>1, UploadFacts
  <2>3. session' \in Session /\ session' # None /\ session'.state = "staging" /\ session'.setup = None /\ session'.bytes = session.bytes
    BY <2>1, StagingFacts, NoneAssumption DEF WithJob, Session
  <2>4. /\ items' \in [Names -> ItemRow \cup {None}] /\ OnlyItem(n) /\ ItemFits(n)
        /\ \A m \in Names : items'[m] # None /\ items'[m].state = "staged" => items'[m] = items[m]
    <3>1. Ask(o).role \in Roles /\ Item("uploading", Ask(o).role) \in ItemRow /\ Item("uploading", Ask(o).role).state = "uploading"
          /\ Item("uploading", Ask(o).role).key = None
      BY <1>2, AskFacts DEF Item, ItemRow
    <3>2. CASE Existing(o)
      <4>1. items' = items /\ n \in ItemsIn({"staged"})
        BY <2>1, <2>2, <3>2, StagingFacts DEF Existing
      <4>2. items[n].state = "staged" /\ items[n].key # None /\ items[n].version # 0
        BY <1>2, <4>1 DEF ImportInv, ItemsIn
      <4> QED BY <1>2, <4>1, <4>2 DEF TablesType, OnlyItem, ItemFits
    <3>3. CASE ~Existing(o)
      BY <1>2, <2>1, <2>2, <3>1, <3>3 DEF TablesType, OnlyItem, ItemFits
    <3> QED BY <3>2, <3>3
  <2>5. Bytes' = Bytes
    <3>1. CASE Existing(o)
      BY <2>1, <3>1 DEF Bytes, ItemsIn
    <3>2. CASE ~Existing(o)
      <4>1. n \notin ItemsIn({"staged", "published"})
        BY <2>2, <3>2 DEF Existing
      <4>2. items' = [items EXCEPT ![n] = Item("uploading", Ask(o).role)] /\ Item("uploading", Ask(o).role).state = "uploading"
        BY <2>1, <2>2, <3>2 DEF Item
      <4>3. items'[n].state = "uploading" /\ \A m \in Names \ {n} : items'[m] = items[m]
        BY <1>2, <2>4, <4>2 DEF TablesType
      <4>4. ItemsIn({"staged", "published"})' = ItemsIn({"staged", "published"})
        BY <4>1, <4>3 DEF ItemsIn
      <4>5. \A m \in ItemsIn({"staged", "published"}) : items'[m].key = items[m].key
        BY <4>1, <4>3 DEF ItemsIn
      <4> QED BY <4>4, <4>5, BytesStay
    <3> QED BY <3>1, <3>2
  <2>6. IsFiniteSet(Bytes)' /\ session'.bytes = Cardinality(Bytes)' /\ session'.bytes <= ImportLimit
    BY <2>1, <2>3, <2>5, StagingFacts
  <2>7. UNCHANGED <<plan, arts>>
    BY <1>1 DEF bounds
  <2>8. ImportInv'
    BY <2>1, <2>3, <2>4, <2>6, <2>7, StillStaging
  <2>9. pc'[o] = "stage" /\ Ask(o)' = Ask(o) /\ got' = got /\ got[o] = <<>> /\ "stage" \in Positions
    BY <1>1, <1>2, <2>1, Moves, AsksSame DEF Positions, bounds, LocalOk
  <2>10. LocalOk(o)'
    <3>1. Len(<<>>) = 0 /\ Len(Ask(o).files) = 1
      BY <1>1, UploadFacts
    <3>2. PICK m : m = Len(Ask(o).files)
      OBVIOUS
    <3>3. m = 1 /\ Len(Ask(o).files)' = m /\ got'[o] = <<>>
      BY <2>9, <3>1, <3>2
    <3> QED BY <1>1, <1>2, <2>9, <3>1, <3>3 DEF LocalOk, Preparing
  <2>11. RolesKept
    BY <1>1 DEF RolesKept, Unlocked
  <2>12. SeenType' /\ \A q \in Ops \ {o} : seen'[q] = seen[q]
    <3>1. ImportLimit - session.bytes \in Int
      BY <2>1, StagingFacts, LimitsAssumption
    <3>2. Existing(o) \in BOOLEAN
      BY DEF Existing
    <3> QED BY <1>1, <1>2, <2>1, <3>1, <3>2, Room1
  <2> QED BY <1>1, <1>2, <2>1, <2>3, <2>4, <2>8, <2>9, <2>10, <2>11, <2>12, ImportStep DEF disk, sync, bounds
<1> QED BY <1>3, <1>4

LEMMA RecordFailureOk ==
    ASSUME LibraryInv, NEW o \in Asked, RecordFailure(o)
    PROVE  LibraryInv'
<1>1. /\ o \in Ops /\ Here(o) /\ pc[o] = "record" /\ writer = None /\ Goto(o, "finish")
      /\ UNCHANGED <<disk, objects, arts, revision, attention, journal, session, claims, sync, seen, got, todo, fate, mode, bounds>>
  BY AskFacts DEF LibraryInv, RecordFailure, Writable
<1>2. LocalType /\ TablesType /\ SeenType /\ mode = "up" /\ todo \in [Ops -> SUBSET Keys] /\ LocalOk(o) /\ ImportInv
  BY <1>1, HereFacts DEF LibraryInv
<1>3. CASE items' = items
  BY <1>1, <1>2, <1>3, HereFacts, EndStep DEF References, Cleaning, Past, disk, sync, bounds
<1>4. CASE Name(o) \in ItemsIn({"uploading"}) /\ items' = [items EXCEPT ![Name(o)].state = "failed"]
  <2>1. PICK n \in Names : n = Name(o) /\ items[n] # None /\ items[n].state = "uploading"
    BY <1>4 DEF ItemsIn
  <2>2. items' = [items EXCEPT ![n].state = "failed"] /\ items[n] \in ItemRow
    BY <1>2, <1>4, <2>1 DEF TablesType
  <2>3. PICK r : r = [items[n] EXCEPT !.state = "failed"]
    OBVIOUS
  <2>4. r \in ItemRow /\ r.state = "failed" /\ r.key = items[n].key /\ r.role = items[n].role /\ r # None
    BY <2>2, <2>3, NoneAssumption DEF ItemRow
  <2>5. items' = [items EXCEPT ![n] = r]
    BY <1>2, <2>2, <2>3 DEF TablesType
  <2>6. items' \in [Names -> ItemRow \cup {None}] /\ items'[n] = r /\ \A m \in Names \ {n} : items'[m] = items[m]
    BY <1>2, <2>4, <2>5 DEF TablesType
  <2>7. \A m \in Names : items'[m] # None /\ items'[m].state = "staged" => items'[m] = items[m]
    BY <2>4, <2>6
  <2>8. Bytes' = Bytes
    <3>1. ItemsIn({"staged", "published"})' = ItemsIn({"staged", "published"})
      BY <2>1, <2>4, <2>6 DEF ItemsIn
    <3>2. \A m \in ItemsIn({"staged", "published"}) : items'[m].key = items[m].key
      BY <2>4, <2>6 DEF ItemsIn
    <3> QED BY <3>1, <3>2, BytesStay
  <2>9. UNCHANGED <<plan, arts, session>>
    BY <1>1 DEF bounds
  <2>10. ImportInv'
    <3>1. Listed' = Listed
      BY <2>1, <2>4, <2>6 DEF Listed
    <3>2. Staging' = Staging /\ StagedBytes' = StagedBytes /\ Imported' = Imported
      BY <2>8, <2>9 DEF Staging, StagedBytes, Imported, Asked, Ask
    <3>3. \A S : "uploading" \notin S /\ "failed" \notin S => ItemsIn(S)' = ItemsIn(S)
      BY <2>1, <2>4, <2>6 DEF ItemsIn
    <3>4. /\ session # None /\ session.state # "cancelled"
          /\ items[n].key = None
      BY <1>2, <2>1 DEF ImportInv
    <3>5. \A m \in Names : items'[m] # None => (items'[m].key # None <=> items'[m].state = "staged") /\ (items'[m].state = "staged" => items'[m].version # 0)
      BY <1>2, <2>4, <2>6, <3>4 DEF ImportInv
    <3>6. ItemsIn({"published"})' = ItemsIn({"published"}) /\ \A m \in ItemsIn({"published"}) : items'[m].role = items[m].role
      BY <2>1, <3>3, <2>6 DEF ItemsIn
    <3>7. ImportsWhole'
      <4>1. ImportWithinLimit'
        BY <1>2, <2>9, <3>2 DEF ImportInv, ImportsWhole, ImportWithinLimit
      <4>2. ImportEndsOnce'
        BY <1>2, <2>9, <3>2, <3>4, <3>6 DEF ImportInv, ImportsWhole, ImportEndsOnce
      <4> QED BY <4>1, <4>2 DEF ImportsWhole
    <3> QED BY <1>2, <2>8, <2>9, <3>1, <3>2, <3>4, <3>5, <3>6, <3>7 DEF ImportInv
  <2>11. pc'[o] = "finish" /\ Ask(o)' = Ask(o) /\ "finish" \in Positions /\ "finish" \in Past
    BY <1>1, <1>2, Moves, AsksSame DEF Positions, bounds, Past
  <2>12. LocalOk(o)'
    BY <1>1, <1>2, <2>11 DEF LocalOk, Preparing
  <2>13. RolesKept
    BY <2>4, <2>6, <2>9 DEF RolesKept, Staging
  <2>14. SeenType'
    <3>1. seen' = seen
      BY <1>1
    <3> QED BY <1>2, <3>1, SeenStays
  <2> QED BY <1>1, <1>2, <2>6, <2>7, <2>10, <2>11, <2>12, <2>13, <2>14, ImportStep DEF disk, sync, bounds, TablesType
<1> QED BY <1>3, <1>4 DEF RecordFailure

LEMMA ExcludeOk ==
    ASSUME LibraryInv, NEW o \in Asked, Exclude(o)
    PROVE  LibraryInv'
<1>1. /\ o \in Ops /\ Here(o) /\ pc[o] = "idle" /\ writer = None /\ Ask(o).kind = "exclude" /\ Unlocked(ImportLock)
      /\ UNCHANGED <<disk, objects, arts, revision, attention, journal, sync, seen, got, mode, bounds>>
  BY AskFacts DEF LibraryInv, Exclude, Asks, Writable
<1>2. LocalType /\ TablesType /\ SeenType /\ mode = "up" /\ todo \in [Ops -> SUBSET Keys] /\ LocalOk(o) /\ ImportInv
  BY <1>1, HereFacts DEF LibraryInv
<1>3. CASE Goto(o, "done") /\ UNCHANGED <<session, items, todo>>
  BY <1>1, <1>2, <1>3, HereFacts, EndStep DEF References, Cleaning, Past, disk, sync, bounds
<1>4. CASE /\ Staging /\ items[Name(o)] # None /\ Goto(o, "cleanPrepared")
           /\ items' = [items EXCEPT ![Name(o)] = Emptied(Name(o), "excluded")]
           /\ session' = [session EXCEPT !.bytes = StagedBytes - (IF Existing(o) THEN Size[items[Name(o)].key] ELSE 0)]
           /\ todo' = [todo EXCEPT ![o] = {items[Name(o)].key} \ {None}]
  <2>1. PICK n \in Names : n = Name(o) /\ items[n] # None /\ items[n] \in ItemRow
    BY <1>1, <1>2, <1>4, UploadFacts DEF TablesType
  <2>2. PICK r : r = Emptied(n, "excluded")
    OBVIOUS
  <2>3. r \in ItemRow /\ r.state = "excluded" /\ r.key = None /\ r # None
    <3>1. PICK x \in ItemRow : x = items[n]
      BY <2>1
    <3>2. r = [x EXCEPT !.state = "excluded", !.key = None, !.version = 0]
      BY <2>2, <3>1 DEF Emptied
    <3>3. r \in ItemRow /\ r.state = "excluded" /\ r.key = None
      BY <3>2 DEF ItemRow
    <3> QED BY <3>3, NoneAssumption
  <2>4. /\ items' \in [Names -> ItemRow \cup {None}] /\ items'[n] = r /\ \A m \in Names \ {n} : items'[m] = items[m]
    BY <1>2, <1>4, <2>1, <2>2, <2>3 DEF TablesType
  <2>5. /\ OnlyItem(n) /\ ItemFits(n)
        /\ \A m \in Names : items'[m] # None /\ items'[m].state = "staged" => items'[m] = items[m]
    BY <2>3, <2>4 DEF OnlyItem, ItemFits
  <2>6. PICK I, J, K : I = ItemsIn({"staged", "published"}) /\ J = I \ {n} /\ K = [m \in Names |-> items[m].key]
    OBVIOUS
  <2>7. I \subseteq Names /\ \A m \in I : K[m] = items[m].key
    BY <2>6 DEF ItemsIn
  <2>8. J = ItemsIn({"staged", "published"})' /\ \A m \in J : K[m] = items'[m].key
    <3>1. J = ItemsIn({"staged", "published"})'
      BY <2>3, <2>4, <2>6 DEF ItemsIn
    <3> QED BY <2>4, <2>6, <2>7, <3>1
  <2>9. Bytes = HeldBytes(I, K) /\ Bytes' = HeldBytes(J, K)
    BY <2>6, <2>7, <2>8, BytesAre, BytesWillBe
  <2>10. PICK b : b = StagedBytes - (IF Existing(o) THEN Size[items[Name(o)].key] ELSE 0)
    OBVIOUS
  <2>11. IsFiniteSet(Bytes)' /\ b = Cardinality(Bytes)' /\ b \in Nat /\ b <= ImportLimit
    <3>1. CASE Existing(o)
      <4>1. n \in I /\ K[n] = items[n].key /\ n \in ItemsIn({"staged"})
        BY <1>4, <2>1, <2>6, <2>7, <3>1, StagingFacts DEF Existing
      <4>2. K[n] \in Keys /\ Size[K[n]] \in Nat
        BY <1>2, <4>1, StagedFacts, SizeAssumption DEF LibraryInv
      <4>3. IsFiniteSet(HeldBytes(I, K))
        BY <1>4, <2>9, StagingFacts
      <4>4. /\ IsFiniteSet(HeldBytes(J, K)) /\ Cardinality(HeldBytes(J, K)) \in Nat
            /\ Cardinality(HeldBytes(I, K)) = Cardinality(HeldBytes(J, K)) + Size[K[n]]
        <5>1. Joined(J, n, I)
          BY <2>6, <4>1 DEF Joined
        <5> QED BY <4>2, <4>3, <5>1, FewerBytes
      <4>5. b = Cardinality(HeldBytes(I, K)) - Size[K[n]] /\ Cardinality(HeldBytes(I, K)) <= ImportLimit
        BY <1>4, <2>1, <2>9, <2>10, <3>1, <4>1, StagingFacts
      <4>6. b = Cardinality(HeldBytes(J, K)) /\ b \in Nat /\ b <= ImportLimit
        BY <4>2, <4>4, <4>5, LimitsAssumption
      <4> QED BY <2>9, <4>4, <4>6
    <3>2. CASE ~Existing(o)
      <4>1. I = J
        BY <2>1, <2>6, <3>2 DEF Existing
      <4>2. b = StagedBytes - 0
        BY <2>10, <3>2
      <4>3. StagedBytes \in Nat
        BY <1>4, StagingFacts
      <4>4. b = StagedBytes
        BY <4>2, <4>3
      <4> QED BY <1>4, <2>9, <4>1, <4>4, StagingFacts
    <3> QED BY <3>1, <3>2
  <2>12. /\ session' \in Session /\ session' # None /\ session'.state = "staging" /\ session'.setup = None
         /\ session'.bytes = b
    <3>1. session' = [session EXCEPT !.bytes = b]
      BY <1>4, <2>10
    <3>2. session' \in Session /\ session'.state = "staging" /\ session'.setup = None /\ session'.bytes = b
      BY <1>4, <2>11, <3>1, StagingFacts DEF Session
    <3> QED BY <3>2, NoneAssumption
  <2>13. UNCHANGED <<plan, arts>>
    BY <1>1 DEF bounds
  <2>14. ImportInv'
    BY <1>4, <2>5, <2>11, <2>12, <2>13, StillStaging
  <2>15. pc'[o] = "cleanPrepared" /\ Ask(o)' = Ask(o) /\ "cleanPrepared" \in Positions /\ "cleanPrepared" \in Past
    BY <1>1, <1>2, <1>4, Moves, AsksSame DEF Positions, bounds, Past
  <2>16. LocalOk(o)'
    BY <1>1, <1>2, <2>15 DEF LocalOk, Preparing
  <2>17. RolesKept
    BY <1>1 DEF RolesKept, Unlocked
  <2>18. todo' \in [Ops -> SUBSET Keys] /\ \A q \in Ops \ {o} : todo'[q] = todo[q]
    <3>1. {items[Name(o)].key} \ {None} \subseteq Keys
      BY <2>1 DEF ItemRow
    <3> QED BY <1>1, <1>2, <1>4, <3>1
  <2>19. SeenType' /\ \A q \in Ops \ {o} : seen'[q] = seen[q]
    <3>1. seen' = seen
      BY <1>1
    <3> QED BY <1>2, <3>1, SeenStays
  <2> QED BY <1>1, <1>2, <1>4, <2>4, <2>5, <2>12, <2>14, <2>15, <2>16, <2>17, <2>18, <2>19, ImportStep DEF disk, sync, bounds
<1> QED BY <1>3, <1>4 DEF Exclude, Stored

LEMMA HeldKeysFacts ==
    ASSUME TablesType
    PROVE  HeldKeys \subseteq Keys
BY DEF TablesType, HeldKeys, ItemRow

(* Nothing of the import is kept. *)
LEMMA DiscardStep ==
    ASSUME LibraryInv, NEW o \in Asked, mode = "up", pc[o] = "idle", writer = None, Staging, Goto(o, "cleanPrepared"),
           items' = Discarded, session' = Cancelled, todo' = [todo EXCEPT ![o] = HeldKeys],
           UNCHANGED <<plan, files, born, objects, arts, journal, touched, writer, got, seen, mode, locks, staging, heavy>>
    PROVE  LibraryInv'
<1>1. o \in Ops /\ LocalType /\ TablesType /\ SeenType /\ LocalOk(o) /\ ImportInv /\ todo \in [Ops -> SUBSET Keys]
  BY AskFacts DEF LibraryInv, OperationsInv, LocalType
<1>2. /\ session' \in Session /\ session' # None /\ session'.state = "cancelled" /\ session'.setup = None
  <2>1. PICK s \in Session : s = session /\ s.setup = None
    BY StagingFacts
  <2>2. session' = [s EXCEPT !.state = "cancelled", !.bytes = 0, !.job = "cancelled"]
    BY <2>1 DEF Cancelled
  <2>3. PICK t : t = session'
    OBVIOUS
  <2>4. t = [s EXCEPT !.state = "cancelled", !.bytes = 0, !.job = "cancelled"]
    BY <2>2, <2>3
  <2>5. t \in Session /\ t.state = "cancelled" /\ t.setup = None
    BY <2>1, <2>4 DEF Session
  <2> QED BY <2>3, <2>5, NoneAssumption
<1>3. ASSUME NEW n \in Names
      PROVE  /\ items[n] # None => items'[n] \in ItemRow /\ items'[n] # None /\ items'[n].state = "excluded" /\ items'[n].key = None
             /\ items[n] = None => items'[n] = None
  <2>1. items'[n] = IF items[n] # None THEN Emptied(n, "excluded") ELSE None
    BY DEF Discarded
  <2>2. CASE items[n] # None
    <3>1. PICK x \in ItemRow : x = items[n]
      BY <1>1, <2>2 DEF TablesType
    <3>2. items'[n] = [x EXCEPT !.state = "excluded", !.key = None, !.version = 0]
      BY <2>1, <2>2, <3>1 DEF Emptied
    <3>3. PICK r : r = items'[n]
      OBVIOUS
    <3>4. r = [x EXCEPT !.state = "excluded", !.key = None, !.version = 0]
      BY <3>2, <3>3
    <3>5. r \in ItemRow /\ r.state = "excluded" /\ r.key = None
      BY <3>4 DEF ItemRow
    <3> QED BY <2>2, <3>3, <3>5, NoneAssumption
  <2> QED BY <2>1, <2>2
<1>4. items' \in [Names -> ItemRow \cup {None}]
  <2>1. \A n \in Names : items'[n] \in ItemRow \cup {None}
    BY <1>3
  <2>2. items' = [n \in Names |-> items'[n]]
    BY DEF Discarded
  <2> QED BY <2>1, <2>2
<1>5. \A n \in Names : items'[n] # None /\ items'[n].state = "staged" => items'[n] = items[n]
  BY <1>3
<1>6. ImportInv'
  <2>1. \A n \in Names : IF items[n] # None THEN items'[n] # None /\ items'[n].state = "excluded" /\ items'[n].key = None
                                            ELSE items'[n] = None
    BY <1>3
  <2> QED BY <1>2, <2>1, NothingKept
<1>7. pc'[o] = "cleanPrepared" /\ Ask(o)' = Ask(o) /\ "cleanPrepared" \in Positions /\ "cleanPrepared" \in Past
  BY <1>1, Moves, AsksSame DEF Positions, Past
<1>8. LocalOk(o)'
  BY <1>1, <1>7 DEF LocalOk, Preparing
<1>9. RolesKept
  BY <1>2 DEF RolesKept, Staging
<1>10. todo' \in [Ops -> SUBSET Keys] /\ \A q \in Ops \ {o} : todo'[q] = todo[q]
  BY <1>1, HeldKeysFacts
<1>11. SeenType' /\ \A q \in Ops \ {o} : seen'[q] = seen[q]
  BY <1>1, SeenStays
<1> QED BY <1>1, <1>2, <1>4, <1>5, <1>6, <1>7, <1>8, <1>9, <1>10, <1>11, ImportStep

LEMMA CancelOk ==
    ASSUME LibraryInv, NEW o \in Asked, Cancel(o)
    PROVE  LibraryInv'
<1>1. /\ o \in Ops /\ Here(o) /\ pc[o] = "idle" /\ writer = None /\ mode = "up"
      /\ UNCHANGED <<disk, objects, arts, revision, attention, journal, sync, seen, got, mode, bounds>>
  BY AskFacts DEF LibraryInv, Cancel, Asks, Writable, Here
<1>2. CASE Goto(o, "done") /\ UNCHANGED <<session, items, todo>>
  BY <1>1, <1>2, HereFacts, EndStep DEF References, Cleaning, Past, disk, sync, bounds
<1>3. CASE Staging /\ items' = Discarded /\ session' = Cancelled /\ todo' = [todo EXCEPT ![o] = HeldKeys] /\ Goto(o, "cleanPrepared")
  BY <1>1, <1>3, DiscardStep DEF disk, sync, bounds
<1> QED BY <1>2, <1>3 DEF Cancel, Stored

LEMMA ExpireOk ==
    ASSUME LibraryInv, NEW o \in Asked, Expire(o)
    PROVE  LibraryInv'
BY DiscardStep DEF Expire, Asks, Writable, Here, disk, sync, bounds

LEMMA StoreUploadOk ==
    ASSUME LibraryInv, NEW o \in Asked, StoreUpload(o)
    PROVE  LibraryInv'
<1>1. /\ o \in Ops /\ Here(o) /\ pc[o] = "change" /\ writer = None /\ Ask(o).kind = "upload" /\ Unlocked(ImportLock)
      /\ Storable(o) /\ Goto(o, "done")
      /\ UNCHANGED <<disk, arts, revision, attention, sync, seen, got, todo, mode, bounds>>
  BY AskFacts DEF LibraryInv, StoreUpload, Storing, Writable
<1>2. LocalType /\ TablesType /\ SeenType /\ mode = "up" /\ todo \in [Ops -> SUBSET Keys] /\ LocalOk(o) /\ ImportInv /\ o # None
  BY <1>1, HereFacts DEF LibraryInv
<1>3. PICK k, s : k = Ask(o).files[1].key /\ s = Size[k]
  OBVIOUS
<1>4. k \in Keys /\ s \in Nat /\ Name(o) \in Names /\ Ask(o).role \in Roles /\ Ask(o).role # None
  BY <1>1, <1>2, <1>3, UploadFacts, AskFacts, NoneAssumption
<1>5. /\ objects' = [objects EXCEPT ![k] = Ask(o).role]
      /\ journal' = [journal EXCEPT ![o][1] = "completed"]
      /\ items' = Uploaded(o)
      /\ session' = [session EXCEPT !.bytes = StagedBytes + s]
      /\ Staging /\ Name(o) \in ItemsIn({"uploading"}) /\ s <= ImportLimit - StagedBytes
  BY <1>1, <1>3 DEF StoreUpload, RowEnsured, Storable
<1>6. PICK v \in Nat \ {0} : v = got[o][1] /\ Kept(k, v)
  <2>1. Len(got[o]) = 1
    BY <1>1, <1>2, UploadFacts DEF LocalOk
  <2>2. PICK m : m = Len(got[o])
    OBVIOUS
  <2>3. m = 1
    BY <2>1, <2>2
  <2>4. 1 \in 1..m
    BY <2>3
  <2>5. PICK i \in 1..Len(got[o]) : i = 1
    BY <2>2, <2>4
  <2>6. got[o][i] \in Nat \ {0} /\ Kept(Ask(o).files[i].key, got[o][i])
    BY <1>1, PreparedFacts, GotFacts DEF LibraryInv
  <2> QED BY <1>3, <2>5, <2>6
<1>7. PICK n \in Names : n = Name(o) /\ items[n] # None /\ items[n] \in ItemRow /\ items[n].state = "uploading"
  BY <1>2, <1>4, <1>5 DEF TablesType, ItemsIn
<1>8. PICK r : r = [items[n] EXCEPT !.state = "staged", !.key = k, !.version = v]
  OBVIOUS
<1>9. r \in ItemRow /\ r.state = "staged" /\ r.key = k /\ r.version = v /\ r # None /\ r.key # None
  <2>1. PICK x \in ItemRow : x = items[n]
    BY <1>7
  <2>2. r = [x EXCEPT !.state = "staged", !.key = k, !.version = v]
    BY <1>8, <2>1
  <2>3. r \in ItemRow /\ r.state = "staged" /\ r.key = k /\ r.version = v
    BY <1>4, <1>6, <2>2 DEF ItemRow
  <2> QED BY <1>4, <2>3, NoneAssumption
<1>10. items' \in [Names -> ItemRow \cup {None}] /\ items'[n] = r /\ \A m \in Names \ {n} : items'[m] = items[m]
  <2>1. items' = [items EXCEPT ![n] = r]
    <3>1. items' = [items EXCEPT ![n].state = "staged", ![n].key = k, ![n].version = v]
      BY <1>3, <1>5, <1>6, <1>7 DEF Uploaded
    <3> QED BY <1>2, <1>7, <1>8, <3>1 DEF TablesType
  <2> QED BY <1>2, <1>9, <2>1 DEF TablesType
<1>11. /\ objects' \in [Keys -> Roles \cup {None}] /\ objects'[k] # None /\ \A j \in Keys : objects[j] # None => objects'[j] # None
  BY <1>2, <1>4, <1>5 DEF TablesType
<1>12. journal' \in [Ops -> [1..2 -> JournalState]] /\ \A q \in Ops \ {o} : journal'[q] = journal[q]
  <2>1. "completed" \in JournalState
    BY DEF JournalState
  <2>2. PICK i \in 1..2 : i = 1
    OBVIOUS
  <2>3. journal' = [journal EXCEPT ![o][i] = "completed"]
    BY <1>5, <2>2
  <2> QED BY <1>1, <1>2, <2>1, <2>3, JournalWritten
<1>13. OnlyItem(n) /\ ItemFits(n)
  BY <1>6, <1>9, <1>10 DEF OnlyItem, ItemFits
<1>14. PICK I, J, K : I = ItemsIn({"staged", "published"}) /\ J = I \cup {n} /\ K = [m \in Names |-> IF m = n THEN k ELSE items[m].key]
  OBVIOUS
<1>15. /\ I \subseteq Names /\ n \notin I /\ \A m \in I : K[m] = items[m].key
       /\ Joined(I, n, J) /\ K[n] = k
  BY <1>7, <1>14 DEF ItemsIn, Joined
<1>16. J = ItemsIn({"staged", "published"})' /\ \A m \in J : K[m] = items'[m].key
  <2>1. J = ItemsIn({"staged", "published"})'
    BY <1>9, <1>10, <1>14 DEF ItemsIn
  <2> QED BY <1>9, <1>10, <1>14, <1>15, <2>1
<1>17. Bytes = HeldBytes(I, K) /\ Bytes' = HeldBytes(J, K)
  BY <1>14, <1>15, <1>16, BytesAre, BytesWillBe
<1>18. PICK b : b = StagedBytes + s
  OBVIOUS
<1>19. IsFiniteSet(Bytes)' /\ b = Cardinality(Bytes)' /\ b \in Nat /\ b <= ImportLimit
  <2>1. IsFiniteSet(HeldBytes(I, K)) /\ K[n] \in Keys
    BY <1>4, <1>5, <1>15, <1>17, StagingFacts
  <2>2. /\ IsFiniteSet(HeldBytes(J, K)) /\ Cardinality(HeldBytes(I, K)) \in Nat
        /\ Cardinality(HeldBytes(J, K)) = Cardinality(HeldBytes(I, K)) + Size[K[n]]
    BY <1>15, <2>1, MoreBytes
  <2>3. StagedBytes = Cardinality(HeldBytes(I, K))
    BY <1>5, <1>17, StagingFacts
  <2>4. Size[K[n]] = s
    BY <1>3, <1>15
  <2>5. b = Cardinality(HeldBytes(J, K)) /\ b \in Nat /\ b <= ImportLimit
    BY <1>4, <1>5, <1>18, <2>2, <2>3, <2>4, LimitsAssumption
  <2> QED BY <1>17, <2>2, <2>5
<1>20. session' \in Session /\ session' # None /\ session'.state = "staging" /\ session'.setup = None /\ session'.bytes = b
  <2>1. session' = [session EXCEPT !.bytes = b]
    BY <1>5, <1>18
  <2>2. session' \in Session /\ session'.state = "staging" /\ session'.setup = None /\ session'.bytes = b
    BY <1>5, <1>19, <2>1, StagingFacts DEF Session
  <2> QED BY <2>2, NoneAssumption
<1>21. UNCHANGED <<plan, arts, files, born, touched, locks, writer, heavy, staging, seen, got, todo, mode>>
  BY <1>1 DEF bounds, disk, sync
<1>22. ImportInv'
  BY <1>5, <1>13, <1>19, <1>20, <1>21, StillStaging
<1>23. pc' \in [Ops -> Positions] /\ pc'[o] = "done" /\ \A q \in Ops \ {o} : pc'[q] = pc[q]
  BY <1>1, <1>2, Moves DEF Positions
<1>24. Ask(o)' = Ask(o) /\ Asked' = Asked
  BY <1>21, AsksSame
<1>25. LocalOk(o)' /\ PreparedOk(o)'
  BY <1>1, <1>2, <1>21, <1>23, <1>24 DEF LocalOk, Preparing, PreparedOk, Holds
<1>26. ReferencesKept
  BY <1>11, <1>21 DEF ReferencesKept, Kept
<1>27. Respects(o)
  <2>1. RolesKept
    BY <1>1 DEF RolesKept, Unlocked
  <2>2. LocksKept(o)
    BY <1>2, <1>21, LocksSame
  <2> QED BY <1>1, <1>2, <1>12, <1>21, <1>23, <1>26, <2>1, <2>2 DEF Respects, OthersSame, TransactionKept, FilesKept
<1>28. TablesType'
  BY <1>2, <1>10, <1>11, <1>12, <1>20, <1>21 DEF TablesType
<1>29. LocalType'
  BY <1>2, <1>21, <1>23, <1>24 DEF LocalType, SeenType
<1>30. \A j \in Keys : locks'[j] # o
  BY <1>1, <1>21, NoContentLock DEF Cleaning
<1>31. ArtsInv'
  BY <1>21, <1>23, ArtsStay DEF Past
<1>32. ReferencedKept'
  <2>1. ASSUME NEW a \in arts PROVE Kept(a.key, a.version)'
    <3>1. a.key \in Keys /\ a.version # 0 /\ Referenced(a.key) /\ Kept(a.key, a.version)
      BY ArtKeeps DEF LibraryInv, TablesType, Art, ReferencedKept
    <3> QED BY <1>26, <3>1 DEF ReferencesKept
  <2>2. ASSUME NEW m \in ItemsIn({"staged"})' PROVE Kept(items[m].key, items[m].version)'
    <3>1. CASE m = n
      BY <1>6, <1>9, <1>10, <1>11, <1>21, <3>1 DEF Kept
    <3>2. CASE m # n
      <4>1. items'[m] = items[m] /\ m \in ItemsIn({"staged"})
        BY <1>10, <2>2, <3>2 DEF ItemsIn
      <4>2. items[m].key \in Keys /\ items[m].version # 0 /\ Referenced(items[m].key) /\ Kept(items[m].key, items[m].version)
        BY <4>1, StagedKeeps, StagedFacts DEF LibraryInv, ReferencedKept
      <4>3. PICK j, w : j \in Keys /\ j = items[m].key /\ w = items[m].version
        BY <4>2
      <4>4. Kept(j, w)'
        BY <1>26, <4>2, <4>3 DEF ReferencesKept
      <4> QED BY <4>1, <4>3, <4>4 DEF Kept
    <3> QED BY <3>1, <3>2
  <2> QED BY <1>21, <2>1, <2>2 DEF ReferencedKept
<1>33. FilesHaveRows'
  BY <1>11, <1>21 DEF LibraryInv, FilesHaveRows
<1> QED BY <1>22, <1>25, <1>27, <1>28, <1>29, <1>30, <1>31, <1>32, <1>33, OperationStep

-----------------------------------------------------------------------------
(* The import becomes a setup.                                             *)

Leads(o, n) == items[n].role = "program" /\ (n = seen[o].expects.primary \/ ProgramItems(Confirmed(o)) = {n})

LEMMA PublishedFacts ==
    ASSUME LibraryInv, NEW o \in Asked, NEW n \in ItemsIn({"staged"})
    PROVE  /\ Published(o, n) \in Art /\ Published(o, n).id = <<o, n>> /\ Published(o, n).setup = Ask(o).setup
           /\ Published(o, n).role = items[n].role /\ Published(o, n).primary = Leads(o, n)
           /\ Published(o, n).key = items[n].key /\ Published(o, n).version = items[n].version
<1>1. o \in Nat /\ Ask(o).setup \in Setups
  BY AskFacts DEF LibraryInv, Ops
<1>2. n \in Names /\ items[n].key \in Keys /\ items[n].version \in Nat \ {0} /\ items[n].role \in Roles
  BY StagedFacts DEF LibraryInv
<1>3. Leads(o, n) \in BOOLEAN
  BY Zenon DEF Leads
<1>4. PICK q \in BOOLEAN : q = Leads(o, n)
  BY <1>3
<1>5. PICK e : e = <<o, n>>
  OBVIOUS
<1>6. e \in Nat \X (Nat \cup Names)
  BY <1>1, <1>2, <1>5
<1>7. Published(o, n) = [id |-> e, setup |-> Ask(o).setup, role |-> items[n].role, name |-> n,
                         key |-> items[n].key, version |-> items[n].version, primary |-> q]
  BY <1>4, <1>5 DEF Published, Leads
<1>8. Published(o, n) \in Art
  BY <1>1, <1>2, <1>6, <1>7 DEF Art
<1> QED BY <1>4, <1>5, <1>7, <1>8

(* A commit publishes what it has confirmed, which is what is staged. *)
LEMMA CommitFacts ==
    ASSUME LibraryInv, NEW o \in Asked, pc[o] = "publishSetup", Snapshot = seen[o].snapshot
    PROVE  /\ Confirmed(o) = ItemsIn({"staged"}) /\ Ask(o).kind = "commit" /\ Committing(o)
           /\ \A a \in arts : a.id[1] # o
<1>1. LocalOk(o) /\ ArtsInv
  BY DEF LibraryInv, OperationsInv
<1>2. DOMAIN Snapshot = ItemsIn({"staged"})
  BY DEF Snapshot
<1>3. Confirmed(o) = ItemsIn({"staged"}) /\ Ask(o).kind = "commit" /\ Committing(o)
  BY <1>1, <1>2 DEF LocalOk
<1>4. \A a \in arts : a.id[1] # o
  BY <1>1 DEF ArtsInv, Past
<1> QED BY <1>3, <1>4

LEMMA Published1Facts ==
    ASSUME LibraryInv, NEW o \in Asked, pc[o] = "publishSetup", Snapshot = seen[o].snapshot,
           arts' = arts \cup {Published(o, n) : n \in Confirmed(o)}
    PROVE  /\ arts' \subseteq Art /\ IsFiniteSet(arts') /\ arts \subseteq arts'
           /\ \A b \in arts' \ arts : \E n \in ItemsIn({"staged"}) :
                 /\ b.id = <<o, n>> /\ b.key = items[n].key /\ b.version = items[n].version
                 /\ b.setup = Ask(o).setup /\ b.role = items[n].role /\ b.primary = Leads(o, n)
           /\ \A n \in ItemsIn({"staged"}) : \E b \in arts' : /\ b.id = <<o, n>> /\ b.setup = Ask(o).setup /\ b.role = items[n].role
                                                              /\ b.primary = Leads(o, n)
           /\ \A a, b \in arts' : a.id = b.id => a = b
<1>1. PICK C : C = ItemsIn({"staged"}) /\ C = Confirmed(o)
  BY CommitFacts
<1>2. PICK f : f = [n \in C |-> Published(o, n)]
  OBVIOUS
<1>3. PICK N : N = {f[n] : n \in C}
  OBVIOUS
<1>4. \A n \in C : f[n] = Published(o, n)
  BY <1>2
<1>5. {Published(o, n) : n \in Confirmed(o)} = N
  BY <1>1, <1>3, <1>4
<1>6. arts' = arts \cup N
  BY <1>5
<1>7. ASSUME NEW n \in C
      PROVE  /\ f[n] \in Art /\ f[n].id = <<o, n>> /\ f[n].setup = Ask(o).setup /\ f[n].role = items[n].role
             /\ f[n].primary = Leads(o, n) /\ f[n].key = items[n].key /\ f[n].version = items[n].version
  BY <1>1, <1>4, PublishedFacts
<1>8. arts \subseteq Art /\ IsFiniteSet(arts) /\ ArtsInv
  BY DEF LibraryInv, TablesType
<1>9. IsFiniteSet(N)
  <2>1. C \subseteq Listed /\ IsFiniteSet(Listed) /\ DOMAIN f = C
    BY <1>1, <1>2 DEF ItemsIn, Listed, LibraryInv, ImportInv
  <2>2. IsFiniteSet(C)
    BY <2>1, FS_Subset
  <2> QED BY <1>3, <2>1, <2>2, ImageFinite
<1>10. arts' \subseteq Art /\ IsFiniteSet(arts')
  <2>1. N \subseteq Art
    BY <1>3, <1>7
  <2>2. IsFiniteSet(arts \cup N)
    BY <1>8, <1>9, FS_Union
  <2> QED BY <1>6, <1>8, <2>1, <2>2
<1>11. ASSUME NEW a \in arts', NEW b \in arts', a.id = b.id PROVE a = b
  <2>1. \A c \in arts : c.id[1] # o
    BY CommitFacts
  <2>2. ASSUME NEW c \in N PROVE c.id[1] = o /\ \E n \in C : c = f[n] /\ c.id[2] = n
    BY <1>3, <1>7, <2>2
  <2>3. CASE a \in arts /\ b \in arts
    BY <1>8, <1>11, <2>3 DEF ArtsInv
  <2>4. CASE a \in N /\ b \in N
    BY <1>11, <2>2, <2>4
  <2> QED BY <1>6, <1>11, <2>1, <2>2, <2>3, <2>4
<1>12. ASSUME NEW b \in arts' \ arts
       PROVE  \E n \in C : /\ b.id = <<o, n>> /\ b.key = items[n].key /\ b.version = items[n].version
                           /\ b.setup = Ask(o).setup /\ b.role = items[n].role /\ b.primary = Leads(o, n)
  <2>1. PICK n \in C : b = f[n]
    BY <1>3, <1>6
  <2> QED BY <1>7, <2>1
<1>13. ASSUME NEW n \in C
       PROVE  \E b \in arts' : b.id = <<o, n>> /\ b.setup = Ask(o).setup /\ b.role = items[n].role /\ b.primary = Leads(o, n)
  <2>1. f[n] \in arts'
    BY <1>3, <1>6
  <2> QED BY <1>7, <2>1
<1> QED BY <1>1, <1>6, <1>10, <1>11, <1>12, <1>13

LEMMA PublishSetupOk ==
    ASSUME LibraryInv, NEW o \in Asked, PublishSetup(o)
    PROVE  LibraryInv'
<1> USE DEF PublishSetup
<1>1. /\ o \in Ops /\ Here(o) /\ pc[o] = "publishSetup" /\ writer = None /\ locks' = Release(o, {ImportLock})
      /\ UNCHANGED <<objects, attention, journal, disk, heavy, writer, seen, got, todo, mode, bounds>>
  BY AskFacts DEF LibraryInv, Writable
<1>2. LocalType /\ TablesType /\ SeenType /\ mode = "up" /\ todo \in [Ops -> SUBSET Keys] /\ LocalOk(o) /\ ImportInv /\ o # None
  BY <1>1, HereFacts DEF LibraryInv
<1>3. CASE ~(Staging /\ Snapshot = seen[o].snapshot)
  BY <1>1, <1>2, <1>3, HereFacts, EndStep DEF References, Cleaning, Past, disk, sync, bounds
<1>4. CASE Staging /\ Snapshot = seen[o].snapshot
  <2>1. /\ arts' = arts \cup {Published(o, n) : n \in Confirmed(o)}
        /\ items' = [n \in Names |-> IF n \in Confirmed(o) THEN Emptied(n, "published") ELSE items[n]]
        /\ session' = [session EXCEPT !.state = IF seen[o].expects.partial THEN "draft_saved" ELSE "succeeded",
                                      !.setup = o, !.job = "succeeded"]
        /\ Goto(o, "done")
    BY <1>4
  <2>2. /\ Confirmed(o) = ItemsIn({"staged"}) /\ Ask(o).kind = "commit" /\ Committing(o)
    BY <1>1, <1>4, CommitFacts
  <2>3. /\ arts' \subseteq Art /\ IsFiniteSet(arts')
        /\ \A b \in arts' \ arts : \E n \in ItemsIn({"staged"}) : b.id = <<o, n>> /\ b.key = items[n].key /\ b.version = items[n].version
        /\ \A a, b \in arts' : a.id = b.id => a = b
    BY <1>1, <1>4, <2>1, Published1Facts, SMTT(60)
  <2>4. PICK w \in {"draft_saved", "succeeded"} : w = IF seen[o].expects.partial THEN "draft_saved" ELSE "succeeded"
    OBVIOUS
  <2>5. session' \in Session /\ session' # None /\ session'.state = w /\ session'.setup = o
    <3>1. PICK s \in Session : s = session
      BY <1>4, StagingFacts
    <3>2. PICK t : t = session'
      OBVIOUS
    <3>3. t = [s EXCEPT !.state = w, !.setup = o, !.job = "succeeded"]
      BY <2>1, <2>4, <3>1, <3>2
    <3>4. t \in Session /\ t.state = w /\ t.setup = o
      BY <1>1, <3>3 DEF Session
    <3> QED BY <3>2, <3>4, NoneAssumption
  <2>6. ASSUME NEW n \in Names
        PROVE  /\ n \in ItemsIn({"staged"}) => items'[n] \in ItemRow /\ items'[n] # None /\ items'[n].state = "published"
                                               /\ items'[n].key = None /\ items'[n].role = items[n].role
               /\ n \notin ItemsIn({"staged"}) => items'[n] = items[n]
    <3>1. items'[n] = IF n \in ItemsIn({"staged"}) THEN Emptied(n, "published") ELSE items[n]
      BY <2>1, <2>2
    <3>2. CASE n \in ItemsIn({"staged"})
      <4>1. PICK x \in ItemRow : x = items[n]
        BY <1>2, <3>2, StagedFacts
      <4>2. PICK r : r = items'[n]
        OBVIOUS
      <4>3. r = [x EXCEPT !.state = "published", !.key = None, !.version = 0]
        BY <3>1, <3>2, <4>1, <4>2 DEF Emptied
      <4>4. r \in ItemRow /\ r.state = "published" /\ r.key = None /\ r.role = x.role
        BY <4>3 DEF ItemRow
      <4> QED BY <3>2, <4>1, <4>2, <4>4, NoneAssumption
    <3> QED BY <3>1, <3>2
  <2>7. items' \in [Names -> ItemRow \cup {None}]
    <3>1. \A n \in Names : items'[n] \in ItemRow \cup {None}
      BY <1>2, <2>6 DEF TablesType
    <3>2. items' = [n \in Names |-> items'[n]]
      BY <2>1
    <3> QED BY <3>1, <3>2
  <2>8. UNCHANGED <<plan, files, born, objects, journal, touched, writer, heavy, staging, seen, got, todo, mode>>
    BY <1>1 DEF bounds, disk
  <2>9. Ask(o)' = Ask(o) /\ Asked' = Asked /\ \A q : Ask(q)' = Ask(q)
    BY <2>8, AsksSame
  <2>10. pc' \in [Ops -> Positions] /\ pc'[o] = "done" /\ \A q \in Ops \ {o} : pc'[q] = pc[q]
    BY <1>1, <1>2, <2>1, Moves DEF Positions
  <2>11. locks' \in [Locks -> Ops \cup {None}] /\ LocksKept(o) /\ \A k \in Keys : locks'[k] # o
    <3>1. /\ locks' \in [Locks -> Ops \cup {None}] /\ LocksKept(o)
          /\ \A l \in Locks : locks'[l] = IF l \in {ImportLock} /\ locks[l] = o THEN None ELSE locks[l]
      BY <1>1, <1>2, Releases
    <3>2. \A k \in Keys : locks[k] # o
      BY <1>1, <1>2, NoContentLock
    <3> QED BY <1>2, <3>1, <3>2, LockNames
  <2>12. \A k, v : Kept(k, v)' <=> Kept(k, v)
    BY <2>8, SameKept
  <2>13. Respects(o)
    <3>1. ReferencesKept
      BY <2>8, <2>12 DEF ReferencesKept
    <3>2. RolesKept
      BY <2>4, <2>5 DEF RolesKept, Staging
    <3> QED BY <1>1, <1>2, <2>8, <2>10, <2>11, <3>1, <3>2 DEF Respects, OthersSame, TransactionKept, FilesKept
  <2>14. TablesType'
    BY <1>2, <2>3, <2>5, <2>7, <2>8 DEF TablesType
  <2>15. LocalType'
    <3>1. SeenType'
      <4>1. seen' = seen
        BY <2>8
      <4> QED BY <1>2, <4>1, SeenStays
    <3> QED BY <1>2, <2>8, <2>9, <2>10, <2>11, <3>1 DEF LocalType
  <2>16. LocalOk(o)' /\ PreparedOk(o)'
    BY <1>1, <1>2, <2>8, <2>9, <2>10 DEF LocalOk, Preparing, PreparedOk, Holds
  <2>17. ArtsInv'
    <3>1. ASSUME NEW a \in arts', a.id[1] \in Asked PROVE pc'[a.id[1]] \in Past /\ Ask(a.id[1]).kind \in {"add", "sheet", "commit"}
      <4>1. CASE a \in arts
        <5>1. pc[a.id[1]] \in Past /\ Ask(a.id[1]).kind \in {"add", "sheet", "commit"} /\ a.id[1] \in Ops
          BY <1>2, <3>1, <4>1, AskFacts DEF LibraryInv, ArtsInv
        <5> QED BY <2>10, <5>1 DEF Past
      <4>2. CASE a \notin arts
        <5>1. a.id[1] = o
          BY <2>3, <3>1, <4>2
        <5> QED BY <2>2, <2>10, <5>1 DEF Past
      <4> QED BY <4>1, <4>2
    <3> QED BY <2>3, <2>9, <3>1 DEF ArtsInv
  <2>18. ImportInv'
    <3>1. IsFiniteSet(Listed')
      <4>1. Listed' = Listed
        BY <2>6 DEF Listed, ItemsIn
      <4> QED BY <1>2, <4>1 DEF ImportInv
    <3>2. \A n \in Names : items'[n] # None => (items'[n].key # None <=> items'[n].state = "staged") /\ (items'[n].state = "staged" => items'[n].version # 0)
      <4>1. ASSUME NEW n \in Names, items'[n] # None
            PROVE (items'[n].key # None <=> items'[n].state = "staged") /\ (items'[n].state = "staged" => items'[n].version # 0)
        <5>1. CASE n \in ItemsIn({"staged"})
          BY <2>6, <5>1
        <5>2. CASE n \notin ItemsIn({"staged"})
          BY <1>2, <2>6, <4>1, <5>2 DEF ImportInv
        <5> QED BY <5>1, <5>2
      <4> QED BY <4>1
    <3>3. ~Staging' /\ session'.state # "cancelled"
      BY <2>4, <2>5 DEF Staging
    <3>4. ASSUME NEW a \in Imported' PROVE a.id[1] = o
      <4>1. a \in arts' /\ a.id[1] \in Asked /\ Ask(a.id[1]).kind = "commit"
        BY <2>9 DEF Imported
      <4>2. CASE a \in arts
        <5>1. a \in Imported
          BY <4>1, <4>2 DEF Imported
        <5>2. a.id[1] = None
          BY <1>2, <1>4, <5>1, StagingFacts DEF ImportInv, ImportsWhole, ImportEndsOnce
        <5> QED BY <1>2, <4>1, <5>2, AskFacts
      <4>3. CASE a \notin arts
        BY <2>3, <4>1, <4>3
      <4> QED BY <4>2, <4>3
    <3>5. session'.state = "succeeded" => \E n \in ItemsIn({"published"})' : items'[n].role = "program"
      <4>1. SUFFICES ASSUME session'.state = "succeeded" PROVE \E n \in ItemsIn({"published"})' : items'[n].role = "program"
        OBVIOUS
      <4>2. ~seen[o].expects.partial
        BY <2>4, <2>5, <4>1
      <4>3. PICK n \in Names \cap Confirmed(o) : items[n] # None /\ items[n].role = "program"
        BY <1>4, <2>2, <4>2 DEF Committing
      <4>4. items'[n] # None /\ items'[n].state = "published" /\ items'[n].role = "program" /\ n \in Names
        BY <2>2, <2>6, <4>3
      <4> QED BY <4>4 DEF ItemsIn
    <3>6. ImportsWhole'
      BY <2>5, <3>3, <3>4, <3>5 DEF ImportsWhole, ImportWithinLimit, ImportEndsOnce
    <3> QED BY <2>5, <3>1, <3>2, <3>3, <3>6 DEF ImportInv
  <2>19. ReferencedKept'
    <3>1. ASSUME NEW a \in arts' PROVE Kept(a.key, a.version)'
      <4>1. CASE a \in arts
        BY <2>12, <4>1 DEF LibraryInv, ReferencedKept
      <4>2. CASE a \notin arts
        <5>1. PICK n \in ItemsIn({"staged"}) : a.key = items[n].key /\ a.version = items[n].version
          BY <2>3, <4>2
        <5>2. Kept(a.key, a.version)
          BY <5>1 DEF LibraryInv, ReferencedKept
        <5> QED BY <2>12, <5>2
      <4> QED BY <4>1, <4>2
    <3>2. ItemsIn({"staged"})' = {}
      BY <2>6 DEF ItemsIn
    <3> QED BY <3>1, <3>2 DEF ReferencedKept
  <2>20. FilesHaveRows'
    BY <2>8 DEF LibraryInv, FilesHaveRows
  <2> QED BY <2>11, <2>13, <2>14, <2>15, <2>16, <2>17, <2>18, <2>19, <2>20, OperationStep
<1> QED BY <1>3, <1>4

-----------------------------------------------------------------------------
(* The process ends and recovers; somebody outside changes a file; the     *)
(* import's time is over.                                                  *)

LEMMA QuietFacts ==
    ASSUME LibraryInv, mode # "up"
    PROVE  /\ \A o \in Asked : pc[o] \in {"idle", "done"} /\ (pc[o] = "idle" => got[o] = <<>>)
           /\ \A k \in Keys : locks[k] = None
<1>1. \A o \in Asked : pc[o] \in {"idle", "done"} /\ (pc[o] = "idle" => got[o] = <<>>)
  BY DEF LibraryInv, OperationsInv, LocalOk
<1>2. ASSUME NEW k \in Keys, locks[k] # None PROVE FALSE
  <2>1. LockOk(k)
    BY DEF LibraryInv, LocksInv
  <2> QED BY <1>1, <1>2, <2>1 DEF LockOk, Collecting, Cleaning
<1> QED BY <1>1, <1>2

LEMMA QuietStep ==
    ASSUME LibraryInv, UNCHANGED <<plan, got, arts>>,
           \A o \in Asked : /\ pc'[o] \in {"idle", "done"}
                            /\ pc'[o] = "idle" => got[o] = <<>>
                            /\ pc[o] \in Past /\ Ask(o).kind \in {"add", "sheet", "commit"} => pc'[o] = "done",
           \A k \in Keys : locks'[k] = None,
           TablesType', LocalType', ImportInv', ReferencedKept', FilesHaveRows'
    PROVE  LibraryInv'
<1>1. Asked' = Asked /\ \A o : Ask(o)' = Ask(o)
  BY AsksSame
<1>2. ASSUME NEW o \in Asked PROVE LocalOk(o)' /\ PreparedOk(o)'
  <2>1. LocalOk(o)
    BY DEF LibraryInv, OperationsInv
  <2>2. pc'[o] \in {"idle", "done"} /\ (pc'[o] = "idle" => got[o] = <<>>) /\ got' = got
    OBVIOUS
  <2> QED BY <1>1, <2>1, <2>2 DEF LocalOk, PreparedOk, Holds, Preparing
<1>3. OperationsInv'
  BY <1>1, <1>2 DEF OperationsInv
<1>4. LocksInv'
  BY DEF LocksInv, LockOk
<1>5. ArtsInv'
  BY <1>1 DEF LibraryInv, ArtsInv, Past
<1> QED BY <1>3, <1>4, <1>5 DEF LibraryInv

LEMMA StopOk ==
    ASSUME LibraryInv, Stop
    PROVE  LibraryInv'
<1>1. /\ mode' = "down" /\ heavy' = {} /\ writer' = None
      /\ pc' = [o \in Ops |-> IF o \in Asked /\ (pc[o] = "idle" \/ Ask(o).kind = "collect") THEN "idle" ELSE "done"]
      /\ locks' = [l \in DOMAIN locks |-> None] /\ todo' = [o \in Ops |-> {}]
      /\ UNCHANGED <<tables, disk, seen, got, fate, plan, faults, outside, touched>>
  BY DEF Stop
<1>2. LocalType /\ TablesType /\ ImportInv /\ ReferencedKept /\ FilesHaveRows /\ SeenType
  BY DEF LibraryInv, LocalType
<1>3. UNCHANGED <<plan, got, seen, arts, items, session, journal, objects, files, born, staging, touched>>
  BY <1>1 DEF tables, disk
<1>4. ASSUME NEW o \in Asked
      PROVE  /\ pc'[o] \in {"idle", "done"}
             /\ pc'[o] = "idle" => got[o] = <<>>
             /\ pc[o] \in Past /\ Ask(o).kind \in {"add", "sheet", "commit"} => pc'[o] = "done"
  <2>1. o \in Ops /\ LocalOk(o)
    BY AskFacts DEF LibraryInv, OperationsInv
  <2>2. Ask(o).kind = "collect" => got[o] = <<>>
    BY <1>2, AskLengths, GotNothing
  <2> QED BY <1>1, <2>1, <2>2 DEF LocalOk, Past
<1>5. DOMAIN locks = Locks /\ \A k \in Keys : locks'[k] = None
  BY <1>1, <1>2, LockNames DEF LocalType
<1>6. TablesType' /\ ImportInv' /\ ReferencedKept' /\ FilesHaveRows'
  <2>1. TablesType'
    BY <1>2, <1>3 DEF TablesType
  <2>2. ImportInv'
    BY <1>2, <1>3, SameImport
  <2>3. ReferencedKept' /\ FilesHaveRows'
    BY <1>2, <1>3, SameKept DEF ReferencedKept, FilesHaveRows, ItemsIn
  <2> QED BY <2>1, <2>2, <2>3
<1>7. LocalType'
  <2>1. Asked' = Asked
    BY <1>3, AsksSame
  <2>2. SeenType'
    BY <1>2, <1>3, SeenStays
  <2>3. Cardinality(heavy') <= MaxHeavy
    <3>1. Cardinality({}) = 0 /\ MaxHeavy \in Nat
      BY FS_EmptySet, LimitsAssumption
    <3> QED BY <1>1, <3>1
  <2>4. pc' \in [Ops -> Positions] /\ todo' \in [Ops -> SUBSET Keys] /\ locks' \in [Locks -> Ops \cup {None}]
    BY <1>1, <1>5 DEF Positions
  <2> QED BY <1>1, <1>2, <1>3, <2>1, <2>2, <2>3, <2>4 DEF LocalType
<1> QED BY <1>3, <1>4, <1>5, <1>6, <1>7, QuietStep

(* A step of the recovery. *)
LEMMA RecoveryStep ==
    ASSUME LibraryInv, mode # "up", mode' \in {"up", "down", "operations", "imports"}, staging' \subseteq staging,
           UNCHANGED <<plan, files, born, objects, arts, touched, locks, heavy, writer, pc, seen, got, todo>>,
           TablesType', ImportInv', ItemsIn({"staged"})' = ItemsIn({"staged"}), \A n \in ItemsIn({"staged"}) : items'[n] = items[n]
    PROVE  LibraryInv'
<1>1. LocalType /\ ReferencedKept /\ FilesHaveRows /\ SeenType
  BY DEF LibraryInv, LocalType
<1>2. Asked' = Asked
  BY AsksSame
<1>3. SeenType'
  BY <1>1, SeenStays
<1>4. LocalType'
  BY <1>1, <1>2, <1>3 DEF LocalType
<1>5. ReferencedKept' /\ FilesHaveRows'
  BY <1>1, SameKept DEF ReferencedKept, FilesHaveRows
<1>6. ASSUME NEW o \in Asked
      PROVE  /\ pc'[o] \in {"idle", "done"}
             /\ pc'[o] = "idle" => got[o] = <<>>
             /\ pc[o] \in Past /\ Ask(o).kind \in {"add", "sheet", "commit"} => pc'[o] = "done"
  BY QuietFacts DEF Past
<1>7. \A k \in Keys : locks'[k] = None
  BY QuietFacts
<1> QED BY <1>4, <1>5, <1>6, <1>7, QuietStep

LEMMA StartOk ==
    ASSUME LibraryInv, Start
    PROVE  LibraryInv'
<1>1. /\ mode = "down" /\ mode' = "operations" /\ staging' = {}
      /\ session' = IF session = None THEN None ELSE [session EXCEPT !.job = IF @ = "running" THEN "failed" ELSE @]
      /\ UNCHANGED <<files, born, objects, arts, revision, attention, journal, items, sync, local, bounds>>
  BY DEF Start
<1>2. UNCHANGED <<plan, files, born, objects, arts, journal, items, touched, locks, heavy, writer, pc, seen, got, todo>>
  BY <1>1 DEF sync, local, bounds
<1>3. TablesType /\ ImportInv
  BY DEF LibraryInv
<1>4. /\ session' \in Session \cup {None} /\ (session' = None <=> session = None)
      /\ session # None => session'.state = session.state /\ session'.bytes = session.bytes /\ session'.setup = session.setup
  <2>1. CASE session = None
    BY <1>1, <2>1
  <2>2. CASE session # None
    <3>1. PICK s \in Session : s = session
      BY <1>3, <2>2 DEF TablesType
    <3>2. PICK t : t = session'
      OBVIOUS
    <3>3. t = [s EXCEPT !.job = IF s.job = "running" THEN "failed" ELSE s.job]
      BY <1>1, <2>2, <3>1, <3>2
    <3>4. t \in Session /\ t.state = s.state /\ t.bytes = s.bytes /\ t.setup = s.setup
      BY <3>3 DEF Session
    <3> QED BY <2>2, <3>1, <3>2, <3>4, NoneAssumption
  <2> QED BY <2>1, <2>2
<1>5. TablesType'
  BY <1>2, <1>3, <1>4 DEF TablesType
<1>6. ImportInv'
  <2>1. /\ Staging' = Staging /\ StagedBytes' = StagedBytes /\ Bytes' = Bytes /\ Listed' = Listed /\ Imported' = Imported
        /\ \A S : ItemsIn(S)' = ItemsIn(S)
    BY <1>2, <1>4 DEF Staging, StagedBytes, Bytes, ItemsIn, Listed, Imported, Asked, Ask
  <2>2. ImportsWhole'
    <3>1. ImportWithinLimit'
      BY <1>3, <1>4, <2>1 DEF ImportInv, ImportsWhole, ImportWithinLimit, Staging
    <3>2. ImportEndsOnce'
      BY <1>2, <1>3, <1>4, <2>1 DEF ImportInv, ImportsWhole, ImportEndsOnce
    <3> QED BY <3>1, <3>2 DEF ImportsWhole
  <2> QED BY <1>2, <1>3, <1>4, <2>1, <2>2 DEF ImportInv, Staging
<1> QED BY <1>1, <1>2, <1>5, <1>6, RecoveryStep DEF ItemsIn

LEMMA OperationsRecoveredOk ==
    ASSUME LibraryInv, OperationsRecovered
    PROVE  LibraryInv'
<1>1. /\ mode # "up" /\ mode' = "imports"
      /\ UNCHANGED <<plan, files, born, objects, arts, journal, items, session, touched, locks, heavy, writer, pc, seen, got, todo, staging>>
  BY DEF OperationsRecovered, tables, disk, sync, local, bounds
<1>2. TablesType' /\ ImportInv'
  BY <1>1, SameTables DEF References
<1> QED BY <1>1, <1>2, RecoveryStep DEF ItemsIn

LEMMA RecoverOperationOk ==
    ASSUME LibraryInv, NEW o \in Asked, NEW i \in 1..2, RecoverOperation(o, i)
    PROVE  LibraryInv'
<1>1. PICK v \in {"completed", "conflict"} : journal' = [journal EXCEPT ![o][i] = v]
  BY DEF RecoverOperation
<1>2. /\ mode # "up" /\ mode' = mode
      /\ UNCHANGED <<plan, files, born, objects, arts, items, session, touched, locks, heavy, writer, pc, seen, got, todo, staging>>
  BY DEF RecoverOperation, disk, sync, local, bounds
<1>3. o \in Ops /\ v \in JournalState /\ TablesType /\ ImportInv
  BY AskFacts DEF LibraryInv, JournalState
<1>4. journal' \in [Ops -> [1..2 -> JournalState]]
  BY <1>1, <1>3, JournalWritten
<1>5. TablesType' /\ ImportInv'
  BY <1>2, <1>3, <1>4, SameImport DEF TablesType
<1>6. mode' \in {"up", "down", "operations", "imports"}
  BY <1>2 DEF LibraryInv, LocalType
<1> QED BY <1>2, <1>5, <1>6, RecoveryStep DEF ItemsIn

LEMMA RecoverImportsOk ==
    ASSUME LibraryInv, RecoverImports
    PROVE  LibraryInv'
<1>1. /\ mode # "up" /\ mode' = "up"
      /\ items' = [n \in Names |-> IF n \in ItemsIn({"uploading"}) /\ Staging /\ session.job # "running"
                                   THEN [items[n] EXCEPT !.state = "failed"] ELSE items[n]]
      /\ UNCHANGED <<plan, files, born, objects, arts, journal, session, touched, locks, heavy, writer, pc, seen, got, todo, staging>>
  BY DEF RecoverImports, disk, sync, local, bounds
<1>2. TablesType /\ ImportInv
  BY DEF LibraryInv
<1>3. ASSUME NEW n \in Names
      PROVE  \/ items'[n] = items[n]
             \/ /\ Staging /\ items[n] # None /\ items[n].state = "uploading" /\ items'[n] \in ItemRow /\ items'[n] # None
                /\ items'[n].state = "failed" /\ items'[n].key = items[n].key
  <2>1. items'[n] = IF n \in ItemsIn({"uploading"}) /\ Staging /\ session.job # "running"
                    THEN [items[n] EXCEPT !.state = "failed"] ELSE items[n]
    BY <1>1
  <2>2. CASE n \in ItemsIn({"uploading"}) /\ Staging /\ session.job # "running"
    <3>1. PICK x \in ItemRow : x = items[n] /\ x.state = "uploading"
      BY <1>2, <2>2 DEF TablesType, ItemsIn
    <3>2. PICK r : r = items'[n]
      OBVIOUS
    <3>3. r = [x EXCEPT !.state = "failed"]
      BY <2>1, <2>2, <3>1, <3>2
    <3>4. r \in ItemRow /\ r.state = "failed" /\ r.key = x.key
      BY <3>3 DEF ItemRow
    <3> QED BY <2>2, <3>1, <3>2, <3>4, NoneAssumption
  <2> QED BY <2>1, <2>2
<1>4. items' \in [Names -> ItemRow \cup {None}]
  <2>1. \A n \in Names : items'[n] \in ItemRow \cup {None}
    BY <1>2, <1>3 DEF TablesType
  <2>2. items' = [n \in Names |-> items'[n]]
    BY <1>1
  <2> QED BY <2>1, <2>2
<1>5. TablesType'
  BY <1>1, <1>2, <1>4 DEF TablesType
<1>6. /\ ItemsIn({"staged"})' = ItemsIn({"staged"}) /\ \A n \in ItemsIn({"staged"}) : items'[n] = items[n]
      /\ ItemsIn({"published"})' = ItemsIn({"published"}) /\ \A n \in ItemsIn({"published"}) : items'[n] = items[n]
      /\ ItemsIn({"staged", "published"})' = ItemsIn({"staged", "published"})
      /\ \A n \in ItemsIn({"staged", "published"}) : items'[n] = items[n]
  <2>1. \A S \in {{"staged"}, {"published"}, {"staged", "published"}} :
            ItemsIn(S)' = ItemsIn(S) /\ \A n \in ItemsIn(S) : items'[n] = items[n]
    <3>1. ASSUME NEW S, "uploading" \notin S, "failed" \notin S
          PROVE  ItemsIn(S)' = ItemsIn(S) /\ \A n \in ItemsIn(S) : items'[n] = items[n]
      BY <1>3, <3>1 DEF ItemsIn
    <3> QED BY <3>1
  <2> QED BY <2>1
<1>7. Bytes' = Bytes
  BY <1>6, BytesStay
<1>8. ImportInv'
  <2>1. Staging' = Staging /\ StagedBytes' = StagedBytes /\ Imported' = Imported /\ Listed' = Listed
    BY <1>1, <1>3, <1>7 DEF Staging, StagedBytes, Imported, Asked, Ask, Listed
  <2>2. \A n \in Names : items'[n] # None => (items'[n].key # None <=> items'[n].state = "staged") /\ (items'[n].state = "staged" => items'[n].version # 0)
    <3>1. ASSUME NEW n \in Names, items'[n] # None
          PROVE (items'[n].key # None <=> items'[n].state = "staged") /\ (items'[n].state = "staged" => items'[n].version # 0)
      <4>1. CASE items'[n] = items[n]
        BY <1>2, <3>1, <4>1 DEF ImportInv
      <4>2. CASE items[n] # None /\ items[n].state = "uploading" /\ items'[n].state = "failed" /\ items'[n].key = items[n].key
        BY <1>2, <4>2 DEF ImportInv
      <4> QED BY <1>3, <4>1, <4>2
    <3> QED BY <3>1
  <2>3. session # None /\ session.state = "cancelled" => items' = items
    <3>1. session.state = "cancelled" => \A n \in Names : items'[n] = items[n]
      BY <1>3 DEF Staging
    <3> QED BY <1>1, <1>2, <1>4, <3>1 DEF TablesType
  <2>4. session = None => \A n \in Names : items'[n] = None
    BY <1>2, <1>3 DEF ImportInv, Staging
  <2>5. ImportsWhole'
    <3>1. ImportWithinLimit'
      BY <1>1, <1>2, <2>1 DEF ImportInv, ImportsWhole, ImportWithinLimit
    <3>2. ImportEndsOnce'
      BY <1>1, <1>2, <1>6, <2>1, <2>3, ZenonT(60) DEF ImportInv, ImportsWhole, ImportEndsOnce
    <3> QED BY <3>1, <3>2 DEF ImportsWhole
  <2>6. (Staging => ItemsIn({"published"}) = {} /\ IsFiniteSet(Bytes) /\ session.setup = None)'
    BY <1>1, <1>2, <1>6, <1>7, <2>1 DEF ImportInv
  <2>7. (session # None /\ session.state = "cancelled" => \A n \in Names : items[n] # None => items[n].state = "excluded")'
    BY <1>1, <1>2, <2>3 DEF ImportInv
  <2>8. (session = None => \A n \in Names : items[n] = None)' /\ IsFiniteSet(Listed)' /\ (Imported # {} => session # None)'
    BY <1>1, <1>2, <2>1, <2>4 DEF ImportInv
  <2> QED BY <2>2, <2>5, <2>6, <2>7, <2>8 DEF ImportInv
<1> QED BY <1>1, <1>5, <1>6, <1>8, RecoveryStep

LEMMA TouchOk ==
    ASSUME LibraryInv, NEW k \in Keys, Touch(k)
    PROVE  LibraryInv'
<1>1. /\ files[k] # 0 /\ touched' = touched \cup {k}
      /\ UNCHANGED <<tables, staging, sync, local, mode, plan, faults, stops>>
      /\ \/ files' = [files EXCEPT ![k] = 0] /\ UNCHANGED born
         \/ files' = [files EXCEPT ![k] = born[k] + 1] /\ born' = [born EXCEPT ![k] = @ + 1]
  BY DEF Touch
<1>2. UNCHANGED <<plan, objects, arts, journal, items, session, staging, locks, heavy, writer, pc, seen, got, todo, mode>>
  BY <1>1 DEF tables, sync, local
<1>3. LocalType /\ TablesType /\ ImportInv /\ SeenType
  BY DEF LibraryInv, LocalType
<1>4. /\ files' \in [Keys -> Nat] /\ born' \in [Keys -> Nat] /\ \A j \in Keys : files'[j] <= born'[j]
      /\ \A j \in Keys \ {k} : files'[j] = files[j]
  BY <1>1, <1>3 DEF TablesType
<1>5. Asked' = Asked /\ \A o : Ask(o)' = Ask(o) /\ Key(o)' = Key(o)
  BY <1>2, AsksSame DEF Key
<1>6. ASSUME NEW j \in Keys, NEW v, Kept(j, v) PROVE Kept(j, v)'
  BY <1>1, <1>2, <1>4, <1>6 DEF Kept
<1>7. ASSUME NEW o \in Asked PROVE LocalOk(o)' /\ PreparedOk(o)'
  <2>1. LocalOk(o) /\ PreparedOk(o)
    BY DEF LibraryInv, OperationsInv
  <2>2. LocalOk(o)'
    BY <1>2, <1>5, <2>1 DEF LocalOk, Committing, Staging, Confirmed
  <2>3. ASSUME Holds(o), NEW i \in 1..Len(got[o]) PROVE Kept(Ask(o).files[i].key, got[o][i])'
    <3>1. PICK j \in Keys : j = Ask(o).files[i].key
      BY <2>3, GotFacts DEF LibraryInv
    <3>2. PICK v : v = got[o][i]
      OBVIOUS
    <3>3. Kept(j, v)
      BY <2>1, <2>3, <3>1, <3>2 DEF PreparedOk
    <3>4. Kept(j, v)'
      BY <1>6, <3>3
    <3> QED BY <1>2, <1>5, <3>1, <3>2, <3>4 DEF Kept
  <2>4. ASSUME pc[o] = "mark" PROVE Kept(Key(o), seen[o].published)'
    <3>1. PICK j \in Keys : j = Key(o)
      BY <2>4, GotFacts DEF LibraryInv, Preparing
    <3>2. PICK v : v = seen[o].published
      OBVIOUS
    <3>3. Kept(j, v)
      BY <2>1, <2>4, <3>1, <3>2 DEF PreparedOk
    <3>4. Kept(j, v)'
      BY <1>6, <3>3
    <3> QED BY <1>2, <1>5, <3>1, <3>2, <3>4 DEF Kept
  <2>5. PreparedOk(o)'
    BY <1>2, <1>5, <2>1, <2>3, <2>4 DEF PreparedOk, Holds, Kept
  <2> QED BY <2>2, <2>5
<1>8. LocksInv'
  <2>1. \A j : Referenced(j)' <=> Referenced(j)
    BY <1>2, SameReferences
  <2>2. ASSUME NEW j \in Keys, NEW o, Collecting(o, j) PROVE Collecting(o, j)'
    BY <1>1, <1>2, <1>4, <2>1, <2>2 DEF Collecting
  <2>3. ASSUME NEW j \in Keys PROVE LockOk(j)'
    <3>1. LockOk(j)
      BY DEF LibraryInv, LocksInv
    <3> QED BY <1>2, <1>5, <2>2, <3>1 DEF LockOk
  <2> QED BY <1>2, <2>3 DEF LibraryInv, LocksInv
<1>9. TablesType'
  BY <1>2, <1>3, <1>4 DEF TablesType
<1>10. LocalType'
  <2>1. SeenType'
    BY <1>2, <1>3, SeenStays
  <2> QED BY <1>2, <1>3, <1>5, <2>1 DEF LocalType
<1>11. ArtsInv'
  BY <1>2, <1>5 DEF LibraryInv, ArtsInv
<1>12. ImportInv'
  BY <1>2, <1>3, SameImport
<1>13. ReferencedKept'
  <2>1. ASSUME NEW a \in arts PROVE Kept(a.key, a.version)'
    <3>1. a.key \in Keys /\ Kept(a.key, a.version)
      BY <1>3 DEF LibraryInv, TablesType, Art, ReferencedKept
    <3> QED BY <1>6, <3>1
  <2>2. ASSUME NEW n \in ItemsIn({"staged"}) PROVE Kept(items[n].key, items[n].version)'
    <3>1. PICK j \in Keys : j = items[n].key
      BY <1>3, StagedFacts
    <3>2. PICK v : v = items[n].version
      OBVIOUS
    <3>3. Kept(j, v)
      BY <3>1, <3>2 DEF LibraryInv, ReferencedKept
    <3>4. Kept(j, v)'
      BY <1>6, <3>3
    <3> QED BY <1>2, <3>1, <3>2, <3>4 DEF Kept
  <2> QED BY <1>2, <2>1, <2>2 DEF ReferencedKept, ItemsIn
<1>14. FilesHaveRows'
  BY <1>1, <1>2, <1>4 DEF LibraryInv, FilesHaveRows
<1> QED BY <1>5, <1>7, <1>8, <1>9, <1>10, <1>11, <1>12, <1>13, <1>14 DEF LibraryInv, OperationsInv

LEMMA LapseOk ==
    ASSUME LibraryInv, Lapse
    PROVE  LibraryInv'
<1>1. /\ Staging /\ session' = [session EXCEPT !.expired = TRUE]
      /\ UNCHANGED <<objects, arts, revision, attention, journal, items, claims, disk, sync, local, mode, bounds>>
  BY DEF Lapse
<1>2. UNCHANGED <<plan, files, born, objects, arts, journal, items, touched, staging, locks, heavy, writer, pc, seen, got, todo, mode>>
  BY <1>1 DEF disk, sync, local, bounds
<1>3. LocalType /\ TablesType /\ ImportInv /\ SeenType
  BY DEF LibraryInv, LocalType
<1>4. session' \in Session /\ session' # None /\ session'.state = session.state /\ session'.bytes = session.bytes
      /\ session'.setup = session.setup
  <2>1. PICK s \in Session : s = session
    BY <1>1, StagingFacts
  <2>2. PICK t : t = session'
    OBVIOUS
  <2>3. t = [s EXCEPT !.expired = TRUE]
    BY <1>1, <2>1, <2>2
  <2>4. t \in Session /\ t.state = s.state /\ t.bytes = s.bytes /\ t.setup = s.setup
    BY <2>3 DEF Session
  <2> QED BY <2>1, <2>2, <2>4, NoneAssumption
<1>5. Asked' = Asked /\ \A o : Ask(o)' = Ask(o) /\ Key(o)' = Key(o)
  BY <1>2, AsksSame DEF Key
<1>6. session # None /\ Staging' = Staging
  BY <1>1, <1>4 DEF Staging
<1>7. \A k, v : Kept(k, v)' <=> Kept(k, v)
  BY <1>2, SameKept
<1>8. ASSUME NEW o \in Asked PROVE LocalOk(o)' /\ PreparedOk(o)'
  <2>1. LocalOk(o) /\ PreparedOk(o)
    BY DEF LibraryInv, OperationsInv
  <2>2. Committing(o) => Committing(o)'
    BY <1>2, <1>4, <1>6 DEF Committing, Confirmed
  <2>3. LocalOk(o)'
    BY <1>2, <1>5, <2>1, <2>2 DEF LocalOk, Confirmed
  <2>4. PreparedOk(o)'
    BY <1>2, <1>5, <1>7, <2>1 DEF PreparedOk, Holds, Kept
  <2> QED BY <2>3, <2>4
<1>9. LocksInv'
  <2>1. \A j : Referenced(j)' <=> Referenced(j)
    BY <1>2, SameReferences
  <2>2. ASSUME NEW j \in Keys PROVE LockOk(j)'
    <3>1. LockOk(j)
      BY DEF LibraryInv, LocksInv
    <3> QED BY <1>2, <1>5, <2>1, <3>1 DEF LockOk, Collecting
  <2> QED BY <1>2, <2>2 DEF LibraryInv, LocksInv
<1>10. TablesType'
  BY <1>2, <1>3, <1>4 DEF TablesType
<1>11. LocalType'
  <2>1. SeenType'
    BY <1>2, <1>3, SeenStays
  <2> QED BY <1>2, <1>3, <1>5, <2>1 DEF LocalType
<1>12. ArtsInv'
  BY <1>2, <1>5 DEF LibraryInv, ArtsInv
<1>13. ImportInv'
  <2>1. /\ StagedBytes' = StagedBytes /\ Bytes' = Bytes /\ Listed' = Listed /\ Imported' = Imported
        /\ \A S : ItemsIn(S)' = ItemsIn(S)
    BY <1>2 DEF StagedBytes, Bytes, ItemsIn, Listed, Imported, Asked, Ask
  <2>2. ImportsWhole'
    <3>1. ImportWithinLimit'
      BY <1>3, <1>4, <1>6, <2>1 DEF ImportInv, ImportsWhole, ImportWithinLimit
    <3>2. ImportEndsOnce'
      BY <1>2, <1>3, <1>4, <1>6, <2>1 DEF ImportInv, ImportsWhole, ImportEndsOnce
    <3> QED BY <3>1, <3>2 DEF ImportsWhole
  <2> QED BY <1>2, <1>3, <1>4, <1>6, <2>1, <2>2 DEF ImportInv
<1>14. ReferencedKept' /\ FilesHaveRows'
  BY <1>2, <1>7 DEF LibraryInv, ReferencedKept, FilesHaveRows, ItemsIn
<1> QED BY <1>5, <1>8, <1>9, <1>10, <1>11, <1>12, <1>13, <1>14 DEF LibraryInv, OperationsInv

-----------------------------------------------------------------------------
(* The invariant holds.                                                    *)

LEMMA InitOk ==
    ASSUME Init
    PROVE  LibraryInv
<1> USE DEF Init
<1>1. PICK p \in Plans : p = plan /\ arts = p.arts /\ p.arts \subseteq Art /\ IsFiniteSet(p.arts)
  BY PlansAssumption
<1>2. Asked \subseteq Ops /\ None \notin Asked
  BY <1>1, PlansAssumption, NoneAssumption DEF Asked
<1>3. /\ \A a \in arts : a.id[1] = 0 /\ a.version = 1 /\ a.key \in Keys /\ a.role \in Roles
      /\ \A a, b \in arts : a.id = b.id => a = b
  BY <1>1, PlansAssumption DEF Art
<1>4. files = [k \in Keys |-> IF CountedRefs(k) THEN 1 ELSE 0] /\ born = files
  OBVIOUS
<1>5. files \in [Keys -> Nat] /\ born \in [Keys -> Nat] /\ \A k \in Keys : files[k] <= born[k] /\ (files[k] # 0 <=> CountedRefs(k))
      /\ \A j \in Keys : CountedRefs(j) => files[j] = 1
  BY <1>4
<1>6. ASSUME NEW k \in Keys PROVE /\ objects[k] \in Roles \cup {None} /\ (CountedRefs(k) => objects[k] # None)
  <2>1. objects[k] = IF CountedRefs(k) THEN (CHOOSE a \in arts : a.key = k).role ELSE None
    OBVIOUS
  <2>2. CASE CountedRefs(k)
    <3>1. \E a \in arts : a.key = k
      BY <2>2 DEF CountedRefs
    <3>2. (CHOOSE a \in arts : a.key = k) \in arts
      BY <3>1
    <3> QED BY <1>3, <2>1, <2>2, <3>2, NoneAssumption
  <2> QED BY <2>1, <2>2
<1>7. /\ session \in Session \cup {None}
      /\ session # None => session.state = "staging" /\ session.bytes = 0 /\ session.setup = None
  <2>1. CASE session = None
    BY <2>1
  <2>2. CASE session = [state |-> "staging", bytes |-> 0, setup |-> None, job |-> "running", expired |-> FALSE]
    BY <2>2 DEF Session
  <2> QED BY <2>1, <2>2
<1>8. items = [n \in Names |-> None] /\ journal = [o \in Ops |-> [i \in 1..2 |-> "none"]]
  OBVIOUS
<1>9. TablesType
  <2>1. objects \in [Keys -> Roles \cup {None}]
    <3>1. objects = [k \in Keys |-> objects[k]]
      OBVIOUS
    <3> QED BY <1>6, <3>1
  <2>2. journal \in [Ops -> [1..2 -> JournalState]]
    BY <1>8 DEF JournalState
  <2>3. items \in [Names -> ItemRow \cup {None}]
    BY <1>8
  <2> QED BY <1>1, <1>5, <1>7, <2>1, <2>2, <2>3 DEF TablesType
<1>10. /\ staging = {} /\ heavy = {} /\ writer = None /\ mode = "up" /\ locks = [l \in Locks |-> None]
       /\ pc = [o \in Ops |-> IF o \in Asked THEN "idle" ELSE "done"] /\ got = [o \in Ops |-> <<>>] /\ todo = [o \in Ops |-> {}]
  OBVIOUS
<1>11. LocalType
  <2>1. SeenType
    <3>1. seen = [o \in Ops |-> NoSight]
      OBVIOUS
    <3>2. seen \in [Ops -> [expects : {None}, published : Nat, room : Int, existing : BOOLEAN, snapshot : {<<>>}]]
      BY <3>1 DEF NoSight
    <3> QED BY <3>2 DEF SeenType
  <2>2. Cardinality(heavy) <= MaxHeavy
    <3>1. Cardinality({}) = 0 /\ MaxHeavy \in Nat
      BY FS_EmptySet, LimitsAssumption
    <3> QED BY <1>10, <3>1
  <2>3. pc \in [Ops -> Positions] /\ todo \in [Ops -> SUBSET Keys] /\ locks \in [Locks -> Ops \cup {None}]
    BY <1>10 DEF Positions
  <2>4. got \in [Ops -> Seq(Nat \ {0})]
    <3>1. <<>> \in Seq(Nat \ {0})
      OBVIOUS
    <3> QED BY <1>10, <3>1
  <2> QED BY <1>10, <2>1, <2>2, <2>3, <2>4 DEF LocalType
<1>12. OperationsInv
  <2>1. ASSUME NEW o \in Asked PROVE LocalOk(o) /\ PreparedOk(o)
    <3>1. pc[o] = "idle" /\ got[o] = <<>> /\ Len(got[o]) = 0
      BY <1>2, <1>10
    <3>2. PICK n \in 0..2 : n = Len(Ask(o).files)
      BY <1>9, AskFacts
    <3>3. Len(got[o]) <= n
      BY <3>1, <3>2
    <3> QED BY <1>10, <3>1, <3>2, <3>3 DEF LocalOk, PreparedOk, Holds, Preparing
  <2> QED BY <2>1 DEF OperationsInv
<1>13. LocksInv
  <2>1. \A k \in Keys : locks[k] = None
    BY <1>10, LockNames
  <2> QED BY <2>1 DEF LocksInv, LockOk
<1>14. ArtsInv
  BY <1>2, <1>3 DEF ArtsInv, Ops
<1>15. ImportInv
  <2>1. \A S : ItemsIn(S) = {}
    BY <1>8 DEF ItemsIn
  <2>2. Bytes = {} /\ Listed = {}
    BY <1>8, <2>1 DEF Bytes, Listed
  <2>3. IsFiniteSet({}) /\ StagedBytes = 0 /\ ImportLimit \in Nat
    BY <2>2, FS_EmptySet, LimitsAssumption DEF StagedBytes
  <2>4. Imported = {}
    BY <1>2, <1>3 DEF Imported, Ops
  <2>5. \A n \in Names : items[n] = None
    BY <1>8
  <2>6. ImportsWhole
    <3>1. ImportWithinLimit
      BY <1>7, <2>3 DEF ImportWithinLimit, Staging
    <3>2. ImportEndsOnce
      BY <1>7, <2>4 DEF ImportEndsOnce
    <3> QED BY <3>1, <3>2 DEF ImportsWhole
  <2> QED BY <1>7, <2>1, <2>2, <2>3, <2>4, <2>5, <2>6 DEF ImportInv, Staging
<1>16. ReferencedKept
  <2>1. ASSUME NEW a \in arts PROVE Kept(a.key, a.version)
    <3>1. CountedRefs(a.key) /\ a.key \in Keys /\ a.version = 1
      BY <1>3 DEF CountedRefs
    <3> QED BY <1>5, <1>6, <3>1 DEF Kept
  <2> QED BY <1>8, <2>1 DEF ReferencedKept, ItemsIn
<1>17. FilesHaveRows
  BY <1>5, <1>6 DEF FilesHaveRows
<1> QED BY <1>9, <1>11, <1>12, <1>13, <1>14, <1>15, <1>16, <1>17 DEF LibraryInv

LEMMA StutterOk ==
    ASSUME LibraryInv, UNCHANGED vars
    PROVE  LibraryInv'
<1>1. UNCHANGED References /\ UNCHANGED <<staging, locks, heavy, writer, pc, seen, got, todo, mode>>
  BY DEF vars, tables, disk, sync, local, bounds, References
<1>2. TablesType' /\ ReferencedKept' /\ FilesHaveRows' /\ ImportInv'
  BY <1>1, SameTables
<1>3. Asked' = Asked /\ \A o : Ask(o)' = Ask(o) /\ Key(o)' = Key(o)
  BY <1>1, AsksSame DEF References, Key
<1>4. \A k, v : Kept(k, v)' <=> Kept(k, v)
  BY <1>1, SameKept DEF References
<1>5. \A j : Referenced(j)' <=> Referenced(j)
  BY <1>1, SameReferences DEF References
<1>6. ASSUME NEW o \in Asked PROVE LocalOk(o)' /\ PreparedOk(o)'
  <2>1. LocalOk(o) /\ PreparedOk(o)
    BY DEF LibraryInv, OperationsInv
  <2>2. LocalOk(o)'
    BY <1>1, <1>3, <2>1 DEF References, LocalOk, Confirmed, Committing, Staging
  <2>3. PreparedOk(o)'
    BY <1>1, <1>3, <1>4, <2>1 DEF References, PreparedOk, Holds, Kept
  <2> QED BY <2>2, <2>3
<1>7. LocksInv'
  <2>1. ASSUME NEW j \in Keys PROVE LockOk(j)'
    <3>1. LockOk(j)
      BY DEF LibraryInv, LocksInv
    <3> QED BY <1>1, <1>3, <1>5, <3>1 DEF References, LockOk, Collecting
  <2> QED BY <1>1, <2>1 DEF LibraryInv, LocksInv
<1>8. LocalType'
  <2>1. SeenType'
    BY <1>1, SeenStays DEF LibraryInv, LocalType
  <2> QED BY <1>1, <1>3, <2>1 DEF LibraryInv, LocalType
<1>9. ArtsInv'
  BY <1>1, <1>3 DEF LibraryInv, ArtsInv, References
<1> QED BY <1>2, <1>3, <1>6, <1>7, <1>8, <1>9 DEF LibraryInv, OperationsInv

LEMMA StoreNextOk ==
    ASSUME LibraryInv, StoreNext
    PROVE  LibraryInv'
<1>1. ASSUME NEW o \in Asked,
             \/ Stage(o) \/ StageFails(o) \/ Reserve(o) \/ Publish(o) \/ PublishFails(o)
             \/ MarkStored(o) \/ AbandonPrepare(o) \/ Undo(o)
      PROVE  LibraryInv'
  BY <1>1, StageOk, StageFailsOk, ReserveOk, PublishOk, PublishFailsOk, MarkStoredOk, AbandonPrepareOk, UndoOk
<1>2. ASSUME NEW o \in Asked, Collect(o) \/ AfterFailed(o) \/ AfterOld(o) \/ AfterPrepared(o) \/ Claim(o) \/ Finish(o)
      PROVE  LibraryInv'
  BY <1>2, CollectOk, AfterFailedOk, AfterOldOk, AfterPreparedOk, ClaimOk, FinishOk
<1>3. ASSUME NEW o \in Asked, NEW k \in Keys, Spare(o, k) \/ Unlink(o, k) \/ EndUnlink(o, k)
      PROVE  LibraryInv'
  BY <1>3, SpareOk, UnlinkOk, EndUnlinkOk
<1>4. ASSUME NEW o \in Asked, NEW i \in 1..2, RecoverOperation(o, i) PROVE LibraryInv'
  BY <1>4, RecoverOperationOk
<1>5. ASSUME Stop \/ Start \/ OperationsRecovered PROVE LibraryInv'
  BY <1>5, StopOk, StartOk, OperationsRecoveredOk
<1>6. ASSUME NEW k \in Keys, Touch(k) PROVE LibraryInv'
  BY <1>6, TouchOk
<1> QED BY <1>1, <1>2, <1>3, <1>4, <1>5, <1>6 DEF StoreNext

LEMMA ArtifactsNextOk ==
    ASSUME LibraryInv, ArtifactsNext
    PROVE  LibraryInv'
<1>1. PICK o \in Asked : \/ Submit(o) \/ Enter(o) \/ Commit(o) \/ Refuse(o)
                         \/ Alter(o) \/ KeepPrimary(o) \/ Replay(o) \/ Decline(o)
  BY DEF ArtifactsNext
<1> QED BY <1>1, SubmitOk, EnterOk, CommitOk, RefuseOk, AlterOk, KeepPrimaryOk, ReplayOk, DeclineOk

LEMMA ImportsNextOk ==
    ASSUME LibraryInv, ImportsNext
    PROVE  LibraryInv'
<1>1. ASSUME NEW o \in Asked,
             StartImport(o) \/ ReserveUpload(o) \/ StoreUpload(o) \/ RefuseUpload(o) \/ RecordFailure(o)
      PROVE  LibraryInv'
  BY <1>1, StartImportOk, ReserveUploadOk, StoreUploadOk, RefuseUploadOk, RecordFailureOk
<1>2. ASSUME NEW o \in Asked,
             \/ Exclude(o) \/ Confirm(o) \/ BeginCommit(o) \/ Verify(o) \/ PublishSetup(o)
             \/ Cancel(o) \/ Expire(o)
      PROVE  LibraryInv'
  BY <1>2, ExcludeOk, ConfirmOk, BeginCommitOk, VerifyOk, PublishSetupOk, CancelOk, ExpireOk
<1> QED BY <1>1, <1>2, LapseOk, RecoverImportsOk DEF ImportsNext

THEOREM LibraryInvariant == Spec => []LibraryInv
<1>1. Init => LibraryInv
  BY InitOk
<1>2. LibraryInv /\ [Next]_vars => LibraryInv'
  BY StoreNextOk, ArtifactsNextOk, ImportsNextOk, StutterOk DEF Next
<1> QED BY <1>1, <1>2, PTL DEF Spec

(* What the runs check of the objects follows.                             *)
LEMMA TypesHold == ASSUME LibraryInv PROVE TypeOK
<1>1. TablesType /\ LocalType
  BY DEF LibraryInv
<1>2. ASSUME NEW k \in Keys PROVE files[k] \in 0..born[k] /\ objects[k] \in Roles \cup {None}
  BY <1>1 DEF TablesType
<1>3. ASSUME NEW a \in arts
      PROVE  a.setup \in Setups /\ a.role \in Roles /\ a.name \in Names /\ a.key \in Keys /\ a.primary \in BOOLEAN
  BY <1>1 DEF TablesType, Art
<1>4. ASSUME NEW o \in Ops, NEW i \in 1..2
      PROVE  journal[o][i] \in Active \cup {"none", "completed", "failed", "conflict"}
  BY <1>1 DEF TablesType, JournalState
<1>5. ASSUME NEW n \in Names, items[n] # None
      PROVE  /\ items[n].state \in {"uploading", "staged", "excluded", "published", "failed"}
             /\ items[n].key \in Keys \cup {None}
  <2>1. items[n] \in ItemRow
    BY <1>1, <1>5 DEF TablesType
  <2> QED BY <2>1 DEF ItemRow
<1> QED BY <1>1, <1>2, <1>3, <1>4, <1>5 DEF TypeOK, LocalType

LEMMA PreparedStay == ASSUME LibraryInv PROVE PreparedKept
<1>1. ASSUME NEW o \in Asked, pc[o] \in {"claim", "change"}, NEW i \in 1..Len(got[o])
      PROVE  journal[o][i] = "stored" /\ Kept(Ask(o).files[i].key, got[o][i])
  BY <1>1 DEF LibraryInv, OperationsInv, PreparedOk, Holds
<1> QED BY <1>1 DEF PreparedKept

(* What something refers to is there as it was written, no file is without *)
(* its row, and a prepared file waits for its transaction, whatever stops, *)
(* fails, collects or recovers in between.                                 *)
THEOREM ObjectsKeptAlways == Spec => []ObjectsKept
<1>1. LibraryInv => ObjectsKept
  BY TypesHold, PreparedStay DEF LibraryInv, ObjectsKept
<1> QED BY <1>1, LibraryInvariant, PTL

(* A staging import counts the bytes of the objects it holds and exceeds   *)
(* its limit by none of its uploads, however they overlap; and it ends as  *)
(* one setup with a program or as none, without an object.                 *)
THEOREM ImportsWholeAlways == Spec => []ImportsWhole
<1>1. LibraryInv => ImportsWhole
  BY DEF LibraryInv, ImportInv
<1> QED BY <1>1, LibraryInvariant, PTL

-----------------------------------------------------------------------------
(* The primary program. *)

(* Whatever leaves a setup with one program that is not primary has taken   *)
(* a primary one away.                                                     *)
KeepsPrimary(s) == Lone(s)' /\ ~Lone(s) => \E a \in Programs(s) : a.primary /\ a \notin Programs(s)'

LEMMA NewlyLone ==
    ASSUME IsFiniteSet(arts), IsFiniteSet(arts'), NEW s,
           \A p : Programs(s)' = {p} /\ ~p.primary => (\E q : Programs(s) = {q}) \/ (\E a \in Programs(s) : a.primary)
    PROVE  KeepsPrimary(s)
<1>1. SUFFICES ASSUME Lone(s)', ~Lone(s) PROVE \E a \in Programs(s) : a.primary /\ a \notin Programs(s)'
  BY DEF KeepsPrimary
<1>2. PICK R, S : R = Programs(s) /\ S = Programs(s)'
  OBVIOUS
<1>3. IsFiniteSet(R) /\ IsFiniteSet(S)
  <2>1. R \subseteq arts /\ S \subseteq arts'
    BY <1>2 DEF Programs, Of
  <2> QED BY <2>1, FS_Subset
<1>4. PICK p : S = {p}
  <2>1. Cardinality(S) = 1
    BY <1>1, <1>2 DEF Lone
  <2> QED BY <1>3, <2>1, FS_Singleton
<1>5. ~p.primary
  BY <1>1, <1>2, <1>4 DEF Lone
<1>6. CASE \E a \in Programs(s) : a.primary
  BY <1>2, <1>4, <1>5, <1>6
<1>7. CASE ~\E a \in Programs(s) : a.primary
  <2>1. PICK q : R = {q}
    BY <1>2, <1>4, <1>5, <1>7
  <2>2. Cardinality(R) = 1
    BY <1>3, <2>1, FS_Singleton
  <2> QED BY <1>1, <1>2, <1>7, <2>2 DEF Lone
<1> QED BY <1>6, <1>7

(* A change that neither adds nor removes an artifact leaves no setup so.  *)
Follows(b, c) == c.id = b.id /\ c.setup = b.setup /\ c.role = b.role
LEMMA Matched ==
    ASSUME LibraryInv, NEW s, IsFiniteSet(arts'),
           \A b \in arts' : \E c \in arts : Follows(b, c), \A c \in arts : \E b \in arts' : Follows(b, c)
    PROVE  KeepsPrimary(s)
<1>1. IsFiniteSet(arts) /\ \A a, b \in arts : a.id = b.id => a = b
  BY DEF LibraryInv, TablesType, ArtsInv
<1>2. ASSUME NEW p, Programs(s)' = {p} PROVE \E q : Programs(s) = {q}
  <2>1. p \in arts' /\ p.setup = s /\ p.role = "program"
    BY <1>2 DEF Programs, Of
  <2>2. PICK q \in arts : Follows(p, q)
    BY <2>1
  <2>3. q \in Programs(s)
    BY <2>1, <2>2 DEF Programs, Of, Follows
  <2>4. ASSUME NEW c \in Programs(s) PROVE c = q
    <3>1. c \in arts /\ c.setup = s /\ c.role = "program"
      BY DEF Programs, Of
    <3>2. PICK b \in arts' : Follows(b, c)
      BY <3>1
    <3>3. b \in Programs(s)'
      BY <3>1, <3>2 DEF Programs, Of, Follows
    <3> QED BY <1>1, <1>2, <2>2, <3>1, <3>2, <3>3 DEF Follows
  <2> QED BY <2>3, <2>4
<1> QED BY <1>1, <1>2, NewlyLone

(* What is added is primary when it is the only program, and the request is *)
(* for a program.                                                          *)
LEMMA InsertKeeps ==
    ASSUME LibraryInv, NEW o \in Asked, pc[o] = "change", Insert(o), NEW s
    PROVE  KeepsPrimary(s)
<1> DEFINE L == Len(got[o])
<1>1. arts' = arts \cup Added(o) /\ (Ask(o).kind = "add" \/ Ask(o).kind = "sheet")
  BY DEF Insert, NewSheet
<1>2. TablesType /\ LocalType /\ OperationsInv /\ LocalOk(o) /\ IsFiniteSet(arts) /\ IsFiniteSet(arts')
  BY Inserted DEF LibraryInv, TablesType, OperationsInv
<1>3. PICK q \in BOOLEAN : q = (Ask(o).role = "program" /\ Programs(Ask(o).setup) = {} /\ L = 1)
  OBVIOUS
<1>4. Added(o) = {Row(o, i, q) : i \in 1..L}
  BY <1>3 DEF Added
<1>5. ASSUME NEW i \in 1..L
      PROVE  Row(o, i, q) \in arts' /\ Row(o, i, q).id = <<o, i>> /\ Row(o, i, q).setup = Ask(o).setup
             /\ Row(o, i, q).role = Ask(o).role /\ Row(o, i, q).primary = q
  BY <1>1, <1>4 DEF Row
<1>6. Ask(o).role = "program" => L \in {1, 2}
  <2>1. Ask(o).role = "program" => Ask(o).kind = "add"
    BY <1>1, <1>2, AskLengths
  <2>2. Ask(o).kind = "add" => L = Len(Ask(o).files) /\ Len(Ask(o).files) \in {1, 2}
    BY <1>2, AskLengths DEF LocalOk
  <2> QED BY <2>1, <2>2
<1>7. ASSUME NEW p, Programs(s)' = {p}, ~p.primary, Programs(s) = {} PROVE FALSE
  <2>1. p \in arts' /\ p.setup = s /\ p.role = "program" /\ p \notin arts
    BY <1>7 DEF Programs, Of
  <2>2. PICK i \in 1..L : p = Row(o, i, q)
    BY <1>1, <1>4, <2>1
  <2>3. s = Ask(o).setup /\ Ask(o).role = "program" /\ ~q
    BY <1>5, <1>7, <2>1, <2>2
  <2>4. L = 2
    BY <1>3, <1>6, <1>7, <2>3
  <2>5. PICK j \in 1..L : j # i
    BY <2>4
  <2>6. Row(o, j, q) \in Programs(s)'
    BY <1>5, <2>3 DEF Programs, Of
  <2>7. Row(o, j, q) = Row(o, i, q)
    BY <1>7, <2>2, <2>6
  <2>8. <<o, i>> = <<o, j>>
    BY <1>5, <2>7
  <2> QED BY <2>5, <2>8
<1>8. ASSUME NEW p, Programs(s)' = {p}, ~p.primary, Programs(s) # {} PROVE \E r : Programs(s) = {r}
  <2>1. Programs(s) \subseteq Programs(s)'
    BY <1>1 DEF Programs, Of
  <2> QED BY <1>8, <2>1
<1> QED BY <1>2, <1>7, <1>8, NewlyLone

(* A commit makes the only program of the import primary, or another that   *)
(* the client has chosen.                                                  *)
LEMMA PublishKeeps ==
    ASSUME LibraryInv, NEW o \in Asked, PublishSetup(o), NEW s
    PROVE  KeepsPrimary(s)
<1>1. pc[o] = "publishSetup" /\ IsFiniteSet(arts)
  BY DEF PublishSetup, LibraryInv, TablesType
<1>2. CASE Staging /\ Snapshot = seen[o].snapshot
  <2>1. arts' = arts \cup {Published(o, n) : n \in Confirmed(o)}
    BY <1>2 DEF PublishSetup
  <2>2. /\ IsFiniteSet(arts') /\ arts \subseteq arts'
        /\ \A b \in arts' \ arts : \E n \in ItemsIn({"staged"}) : b.role = items[n].role /\ b.setup = Ask(o).setup /\ b.primary = Leads(o, n) /\ b.id = <<o, n>>
        /\ \A n \in ItemsIn({"staged"}) : \E b \in arts' : b.id = <<o, n>> /\ b.setup = Ask(o).setup /\ b.role = items[n].role
    BY <1>1, <1>2, <2>1, Published1Facts, ZenonT(60)
  <2>3. Confirmed(o) = ItemsIn({"staged"})
    BY <1>1, <1>2, CommitFacts
  <2>4. ASSUME NEW p, Programs(s)' = {p}, ~p.primary, Programs(s) = {} PROVE FALSE
    <3>1. p \in arts' /\ p.setup = s /\ p.role = "program" /\ p \notin arts
      BY <2>4 DEF Programs, Of
    <3>2. PICK n \in ItemsIn({"staged"}) : items[n].role = "program" /\ s = Ask(o).setup /\ ~Leads(o, n) /\ p.id = <<o, n>>
      BY <2>2, <2>4, <3>1
    <3>3. n \in ProgramItems(Confirmed(o)) /\ ProgramItems(Confirmed(o)) # {n}
      BY <2>3, <3>2 DEF Leads, ProgramItems
    <3>4. PICK m \in ItemsIn({"staged"}) : items[m].role = "program" /\ m # n
      BY <2>3, <3>3 DEF ProgramItems
    <3>5. PICK b \in arts' : b.id = <<o, m>> /\ b.setup = s /\ b.role = "program"
      BY <2>2, <3>2, <3>4
    <3>6. b = p
      BY <2>4, <3>5 DEF Programs, Of
    <3> QED BY <3>2, <3>4, <3>5, <3>6
  <2>5. ASSUME NEW p, Programs(s)' = {p}, ~p.primary, Programs(s) # {} PROVE \E r : Programs(s) = {r}
    <3>1. Programs(s) \subseteq Programs(s)'
      BY <2>2 DEF Programs, Of
    <3> QED BY <2>5, <3>1
  <2> QED BY <1>1, <2>2, <2>4, <2>5, NewlyLone
<1>3. CASE ~(Staging /\ Snapshot = seen[o].snapshot)
  <2>1. arts' = arts
    BY <1>3 DEF PublishSetup
  <2> QED BY <2>1 DEF KeepsPrimary, Lone, Programs, Of
<1> QED BY <1>2, <1>3

LEMMA RefillKeeps ==
    ASSUME LibraryInv, NEW o \in Asked, pc[o] = "change", Len(got[o]) = 1, Refill(o), NEW s
    PROVE  KeepsPrimary(s)
<1>1. PICK a \in arts : arts' = (arts \ {a}) \cup {Refilled(o, a)}
  BY DEF Refill, Target
<1>2. a \in Art
  BY DEF LibraryInv, TablesType
<1>3. PICK r : r = Refilled(o, a)
  OBVIOUS
<1>4. Follows(r, a)
  BY <1>2, <1>3 DEF Refilled, Art, Follows
<1>5. arts' = (arts \ {a}) \cup {r} /\ IsFiniteSet(arts')
  BY <1>1, <1>3, Refilled1
<1>6. \A b \in arts : Follows(b, b)
  BY DEF Follows
<1>7. \A b \in arts' : \E c \in arts : Follows(b, c)
  BY <1>4, <1>5, <1>6
<1>8. \A c \in arts : \E b \in arts' : Follows(b, c)
  BY <1>4, <1>5, <1>6
<1> QED BY <1>5, <1>7, <1>8, Matched

(* A deletion leaves the last program primary, unless the client has asked  *)
(* for a setup without a primary program.                                  *)
LEMMA DeleteKeeps ==
    ASSUME LibraryInv, NEW a \in arts, NEW heir, arts' = Deleted(a, heir), NEW s
    PROVE  KeepsPrimary(s)
<1>1. /\ IsFiniteSet(arts')
      /\ \A b \in arts' : \E c \in arts \ {a} : Follows(b, c)
                                  /\ b.primary = IF c.setup = a.setup THEN Inherits(a, heir, c) ELSE c.primary
      /\ \A c \in arts \ {a} : \E b \in arts' : Follows(b, c)
  BY DeletedFacts DEF Follows, Recasts
<1>2. IsFiniteSet(arts) /\ \A b, c \in arts : b.id = c.id => b = c
  BY DEF LibraryInv, TablesType, ArtsInv
<1>3. ASSUME NEW p, Programs(s)' = {p}, ~p.primary, ~\E b \in Programs(s) : b.primary
      PROVE  \E q : Programs(s) = {q}
  <2>1. p \in arts' /\ p.setup = s /\ p.role = "program"
    BY <1>3 DEF Programs, Of
  <2>2. PICK q \in arts \ {a} : Follows(p, q) /\ p.primary = IF q.setup = a.setup THEN Inherits(a, heir, q) ELSE q.primary
    BY <1>1, <2>1
  <2>3. q \in Programs(s)
    BY <2>1, <2>2 DEF Programs, Of, Follows
  <2>4. ASSUME NEW c \in Programs(s), c # a PROVE c = q
    <3>1. c \in arts \ {a} /\ c.setup = s /\ c.role = "program"
      BY <2>4 DEF Programs, Of
    <3>2. PICK b \in arts' : Follows(b, c)
      BY <1>1, <3>1
    <3>3. b = p
      BY <1>3, <3>1, <3>2 DEF Programs, Of, Follows
    <3> QED BY <1>2, <2>2, <3>1, <3>2, <3>3 DEF Follows
  <2>5. CASE a \in Programs(s)
    <3>1. Programs(s) = {a, q} /\ a # q
      BY <2>2, <2>3, <2>4, <2>5
    <3>2. Cardinality(Programs(s)) = 2
      <4>1. IsFiniteSet({q}) /\ Cardinality({q}) = 1
        BY FS_Singleton
      <4>2. Cardinality({q} \cup {a}) = 2
        BY <3>1, <4>1, FS_AddElement
      <4>3. Programs(s) = {q} \cup {a}
        BY <3>1
      <4> QED BY <4>2, <4>3
    <3>3. a.setup = s /\ a.role = "program" /\ ~a.primary
      BY <1>3, <2>5 DEF Programs, Of
    <3>4. PromotesLast(a)
      BY <1>3, <3>2, <3>3 DEF PromotesLast
    <3>5. Inherits(a, heir, q) /\ q.setup = a.setup
      BY <2>1, <2>2, <2>3, <3>3, <3>4 DEF Inherits, Follows
    <3> QED BY <1>3, <2>2, <3>5
  <2>6. CASE a \notin Programs(s)
    BY <2>3, <2>4, <2>6
  <2> QED BY <2>5, <2>6
<1> QED BY <1>1, <1>2, <1>3, NewlyLone

LEMMA AlterKeeps ==
    ASSUME LibraryInv, NEW o \in Asked, Alter(o), NEW s
    PROVE  KeepsPrimary(s)
<1>1. PICK a \in Target(o) : Delete(o, a) \/ (Ask(o).kind = "rename" /\ Rename(o, a)) \/ SetPrimary(o, a)
  BY DEF Alter
<1>2. a \in arts
  BY DEF Target
<1>3. CASE Delete(o, a)
  BY <1>2, <1>3, DeleteKeeps DEF Delete
<1>4. CASE Ask(o).kind = "rename" /\ Rename(o, a)
  <2>1. PICK m \in Names : m = Ask(o).files[1].name
    <3>1. Len(Ask(o).files) = 1 /\ TablesType
      BY <1>4, AskLengths DEF LibraryInv
    <3>2. PICK i \in 1..Len(Ask(o).files) : i = 1
      BY <3>1
    <3>3. Ask(o).files[i].name \in Names
      BY <3>1, AskFacts
    <3> QED BY <3>2, <3>3
  <2>2. /\ Recasts
        /\ \A b \in arts' : \E c \in arts : c.id = b.id /\ c.setup = b.setup /\ c.role = b.role /\ b.primary = c.primary
        /\ \A c \in arts : \E b \in arts' : b.id = c.id /\ c.setup = b.setup /\ c.role = b.role /\ b.primary = c.primary
    BY <1>2, <1>4, <2>1, RenamedFacts DEF Rename
  <2>3. \A b \in arts' : \E c \in arts : Follows(b, c)
    BY <2>2 DEF Follows
  <2>4. \A c \in arts : \E b \in arts' : Follows(b, c)
    BY <2>2 DEF Follows
  <2> QED BY <2>2, <2>3, <2>4, Matched DEF Recasts
<1>5. CASE SetPrimary(o, a)
  <2>1. /\ Recasts
        /\ \A b \in arts' : \E c \in arts : c.id = b.id /\ c.setup = b.setup /\ c.role = b.role
                                  /\ b.primary = IF c \in Programs(a.setup) THEN Chosen(a, c) ELSE c.primary
        /\ \A c \in arts : \E b \in arts' : b.id = c.id /\ c.setup = b.setup /\ c.role = b.role
                                  /\ b.primary = IF c \in Programs(a.setup) THEN Chosen(a, c) ELSE c.primary
    BY <1>2, <1>5, PrimaryFacts DEF SetPrimary
  <2>2. \A b \in arts' : \E c \in arts : Follows(b, c)
    BY <2>1 DEF Follows
  <2>3. \A c \in arts : \E b \in arts' : Follows(b, c)
    BY <2>1 DEF Follows
  <2> QED BY <2>1, <2>2, <2>3, Matched DEF Recasts
<1> QED BY <1>1, <1>3, <1>4, <1>5

(* The steps that change an artifact.                                      *)
LEMMA MadeByThree ==
    ASSUME Next
    PROVE  UNCHANGED arts \/ \E o \in Asked : Commit(o) \/ Alter(o) \/ PublishSetup(o)
<1>1. ASSUME NEW o \in Asked,
             Stage(o) \/ StageFails(o) \/ Reserve(o) \/ Publish(o) \/ PublishFails(o)
      PROVE  UNCHANGED arts
  BY <1>1 DEF Stage, StageFails, Reserve, Publish, PublishFails, GiveUp, tables
<1>2. ASSUME NEW o \in Asked,
             MarkStored(o) \/ AbandonPrepare(o) \/ Undo(o) \/ Collect(o) \/ AfterFailed(o)
      PROVE  UNCHANGED arts
  BY <1>2 DEF MarkStored, AbandonPrepare, Undo, Collect, AfterFailed, GiveUp, tables
<1>3. ASSUME NEW o \in Asked, AfterOld(o) \/ AfterPrepared(o) \/ Claim(o) \/ Finish(o)
      PROVE  UNCHANGED arts
  BY <1>3 DEF AfterOld, AfterPrepared, Claim, Finish, tables
<1>4. ASSUME NEW o \in Asked, NEW k \in Keys, Spare(o, k) \/ Unlink(o, k) \/ EndUnlink(o, k)
      PROVE  UNCHANGED arts
  BY <1>4 DEF Spare, Unlink, EndUnlink, tables
<1>5. ASSUME Stop \/ Start \/ OperationsRecovered \/ RecoverImports \/ Lapse PROVE UNCHANGED arts
  BY <1>5 DEF Stop, Start, OperationsRecovered, RecoverImports, Lapse, tables
<1>6. ASSUME NEW o \in Asked, NEW i \in 1..2, RecoverOperation(o, i) PROVE UNCHANGED arts
  BY <1>6 DEF RecoverOperation
<1>7. ASSUME NEW k \in Keys, Touch(k) PROVE UNCHANGED arts
  BY <1>7 DEF Touch, tables
<1>8. ASSUME NEW o \in Asked, Submit(o) \/ Enter(o) \/ Refuse(o) \/ KeepPrimary(o) \/ Replay(o) \/ Decline(o)
      PROVE  UNCHANGED arts
  BY <1>8 DEF Submit, Enter, Refuse, KeepPrimary, Replay, Decline, tables
<1>9. ASSUME NEW o \in Asked,
             StartImport(o) \/ ReserveUpload(o) \/ StoreUpload(o) \/ RefuseUpload(o) \/ RecordFailure(o) \/ Exclude(o)
      PROVE  UNCHANGED arts
  BY <1>9 DEF StartImport, ReserveUpload, StoreUpload, RefuseUpload, RecordFailure, Exclude, GiveUp, tables
<1>10. ASSUME NEW o \in Asked, Confirm(o) \/ BeginCommit(o) \/ Verify(o) \/ Cancel(o) \/ Expire(o)
       PROVE  UNCHANGED arts
  BY <1>10 DEF Confirm, BeginCommit, Verify, Cancel, Expire, tables
<1>11. StoreNext => UNCHANGED arts
  BY <1>1, <1>2, <1>3, <1>4, <1>5, <1>6, <1>7 DEF StoreNext
<1>12. ArtifactsNext => UNCHANGED arts \/ \E o \in Asked : Commit(o) \/ Alter(o)
  BY <1>8 DEF ArtifactsNext
<1>13. ImportsNext => UNCHANGED arts \/ \E o \in Asked : PublishSetup(o)
  BY <1>5, <1>9, <1>10 DEF ImportsNext
<1> QED BY <1>11, <1>12, <1>13 DEF Next

LEMMA StepKeeps ==
    ASSUME LibraryInv, [Next]_vars, NEW s
    PROVE  KeepsPrimary(s)
<1>1. ASSUME NEW o \in Asked, Commit(o) PROVE KeepsPrimary(s)
  <2>1. pc[o] = "change" /\ (Insert(o) \/ Refill(o))
    BY <1>1 DEF Commit, Writing
  <2>2. CASE Refill(o)
    <3>1. Ask(o).kind \in {"replace", "sheet"}
      BY <1>1, <2>2 DEF Commit, Writing, Refill
    <3>2. Len(got[o]) = 1
      BY <2>1, <3>1, AskLengths DEF LibraryInv, OperationsInv, LocalOk
    <3> QED BY <2>1, <2>2, <3>2, RefillKeeps
  <2> QED BY <2>1, <2>2, InsertKeeps
<1>2. ASSUME UNCHANGED arts PROVE KeepsPrimary(s)
  BY <1>2 DEF KeepsPrimary, Lone, Programs, Of
<1>3. UNCHANGED vars => UNCHANGED arts
  BY DEF vars, tables
<1>4. ASSUME NEW o \in Asked, Alter(o) \/ PublishSetup(o) PROVE KeepsPrimary(s)
  BY <1>4, AlterKeeps, PublishKeeps
<1>5. Next => KeepsPrimary(s)
  BY <1>1, <1>2, <1>4, MadeByThree
<1> QED BY <1>2, <1>3, <1>5

(* A setup is left with one program that is not primary only by losing a    *)
(* primary one (deleteArtifact's single-program primary invariant).        *)
THEOREM SolePrimaryAlways == Spec => SolePrimary
<1>1. LibraryInv /\ [Next]_vars =>
      [\A s \in Setups : Lone(s)' /\ ~Lone(s) => \E a \in Programs(s) : a.primary /\ a \notin Programs(s)']_vars
  BY StepKeeps DEF KeepsPrimary
<1> QED BY <1>1, LibraryInvariant, PTL DEF Spec, SolePrimary
=============================================================================
