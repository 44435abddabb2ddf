-------------------------- MODULE CatalogFilesProofs --------------------------
(***************************************************************************)
(* Proofs about the files of the catalogue, for any number of setups,      *)
(* paths, keys, journal rows, failing calls and deaths of the daemon: the  *)
(* file a row names is never lost, the module implements CatalogAtomic, a  *)
(* start recovers from any death, and a retry of what it undid is admitted. *)
(***************************************************************************)
EXTENDS CatalogFiles, FiniteSetTheorems, WellFoundedInduction, TLAPS

(* A journal row whose rows are not committed, and one whose rows are. *)
Row(o)       == journal[o] # None
Publishes(o) == Row(o) /\ journal[o].kind = "publish"
Deletes(o)   == Row(o) /\ journal[o].kind = "delete"
Pending(o)   == Row(o) /\ journal[o].state \in {"intent", "storage_applied"}
Done(o)      == Row(o) /\ journal[o].state \in {"db_applied", "completed"}

(* The file of a committed publication at a path; a file that a row names. *)
Proper(f, p) == f \in Ops /\ Publishes(f) /\ Done(f) /\ journal[f].path = p
InUse(f)     == \E s \in Setups : row[s] # None /\ row[s].version.file = f

-----------------------------------------------------------------------------
(* The invariant: rows and requests. *)

RequestInv ==
    /\ \A k \in Keys : request[k] # None =>
          /\ request[k].kind = "put" <=> request[k].path # None
          /\ request[k].kind = "delete" => request[k].version # None
    /\ \A k \in waiting : claim[k] = "in_progress" /\ request[k] # None
    /\ mode # "serving" => waiting = {}

JournalInv == \A o \in Ops : Row(o) =>
    /\ request[journal[o].key] # None
    /\ Done(o) => claim[journal[o].key] = "completed"
    /\ journal[o].kind = "delete" => journal[o].expected # None
    /\ journal[o].expected # None =>
          /\ Proper(OldFile(o), journal[o].path)
          /\ Done(o) => ~InUse(OldFile(o))

RowsInv ==
    /\ \A s \in Setups : row[s] # None => Proper(row[s].version.file, row[s].path)
    /\ \A s, t \in Setups : row[s] # None /\ row[t] # None /\ row[s].path = row[t].path => s = t

(* The directory: a file has one name, and what each name may stand for. *)
OneLink ==
    /\ \A x, y \in Places : at[x] # None /\ at[x] = at[y] => x = y
    /\ \A x \in Places : at[x] # None => Publishes(at[x])

PublicInv == \A p \in Paths : at[Public(p)] # None =>
    journal[at[Public(p)]].path = p /\ (InUse(at[Public(p)]) \/ Pending(at[Public(p)]))

TempInv == \A o \in Ops : at[Temp(o)] # None =>
    /\ Publishes(o)
    /\ \/ at[Temp(o)] = o /\ Pending(o)
       \/ at[Temp(o)] = OldFile(o) /\ (Pending(o) => InUse(at[Temp(o)]))

TrashInv == \A d \in Ops : at[Trash(d)] # None =>
    Deletes(d) /\ at[Trash(d)] = OldFile(d) /\ (Pending(d) => InUse(at[Trash(d)]))

GuardInv == \A o \in Ops : at[Guard(o)] # None => ~InUse(at[Guard(o)])

(* Where the file of a row is: at its path, or hidden by an open delete, or   *)
(* by an open publication that is at the path instead.                        *)
HiddenBy(d, f)       == Deletes(d) /\ Pending(d) /\ at[Trash(d)] = f
ExchangedBy(o, f, p) == Publishes(o) /\ Pending(o) /\ at[Temp(o)] = f /\ at[Public(p)] = o
Home(f, p) ==
    \/ at[Public(p)] = f
    \/ \E d \in Ops : HiddenBy(d, f)
    \/ \E o \in Ops : ExchangedBy(o, f, p)
HomesInv == \A s \in Setups : row[s] # None => Home(row[s].version.file, row[s].path)

Store == JournalInv /\ RowsInv /\ OneLink /\ PublicInv /\ TempInv /\ TrashInv /\ GuardInv /\ HomesInv

(* Each waiting request has the journal rows it may need. *)
CapacityInv ==
    /\ IsFiniteSet(waiting)
    /\ Cardinality(Unused) >= 2 * Cardinality(waiting) + (IF op.pc = "insertDelete" THEN 1 ELSE 0)

-----------------------------------------------------------------------------
(* The invariant: what the holder of the lock, or the recovery, is at. *)

Nowhere(o) == \A x \in Places : at[x] # o
Exposed(o) == at[Target(o)] = o /\ (journal[o].expected # None => at[Temp(o)] = OldFile(o))
Applied(o) == journal[o].state = "storage_applied"
Quarantined(d) == Pending(d) /\ at[Trash(d)] = OldFile(d)
OldAtTarget(o) == at[Target(o)] # None /\ Done(at[Target(o)])

(* Nothing of an operation that is undone is left, but for the names of S. *)
Undone(S) ==
    /\ op.put # None /\ Pending(op.put) =>
          \A y \in {Target(op.put), Temp(op.put)} \ S : at[y] # op.put
    /\ op.del # None /\ Pending(op.del) => at[Trash(op.del)] = None

(* A file that is about to be removed belongs to no row. *)
Removable(x, of) ==
    \/ x = Temp(of) /\ Publishes(of)
       /\ (at[x] = None \/ (at[x] = of /\ Pending(of)) \/ (at[x] = OldFile(of) /\ Done(of)))
    \/ x = Trash(of) /\ Deletes(of) /\ Done(of)
    \/ x = Target(of) /\ Publishes(of) /\ Pending(of) /\ journal[of].expected = None /\ at[x] \in {None, of}

Forward == {"insertDelete", "prepare", "link", "expose", "verify", "apply", "quarantine", "markDelete", "commit"}
Undoing == {"restore", "restored", "failDelete", "unpublish", "unpublished"}
After   == {"clean", "complete", "discard", "completeDelete"}
Holding == Forward \cup Undoing \cup After \cup {"finish", "remove", "unlink"}
Starting == {"recover", "classify", "remove", "unlink", "restored", "unpublished", "settle", "close", "refuse"}

Removing == op.pc \in {"remove", "unlink"}
Trying   == op.pc \in Forward \cup Undoing \cup {"finish"} \/ (Removing /\ op.gc.failed = "finish")

(* Who holds the lock. *)
ModeInv ==
    /\ mode \in {"down", "refused"} => op = Idle
    /\ mode = "serving" => op = Idle \/ (op.pc \in Holding /\ op.key # None)
    /\ mode = "recovering" => op.pc \in Starting /\ op.key = None
    /\ Removing => op.gc # None

(* The rows of a request, while it may still fail. *)
HolderInv == mode = "serving" /\ op # Idle =>
    /\ request[op.key] # None
    /\ op.put # None => Publishes(op.put) /\ R.kind = "put" /\ journal[op.put].path = R.path
    /\ op.del # None => Deletes(op.del)
    /\ Trying => claim[op.key] = "in_progress" /\ op.key \notin waiting
    /\ op.put # None => journal[op.put].key = op.key
    /\ op.del # None => journal[op.del].key = op.key

ForwardInv == op.pc \in Forward =>
    /\ op.put = None => op.del # None /\ R.kind = "delete"
    /\ op.del # None => Pending(op.del) /\ Existing # None /\ Existing.version.file = OldFile(op.del)
    /\ op.put # None =>
          /\ Pending(op.put)
          /\ journal[op.put].expected # None => Existing # None /\ Existing.version.file = OldFile(op.put)
          /\ journal[op.put].expected = None =>
                IF op.del = None /\ op.pc # "insertDelete" THEN Existing = None ELSE Existing # None

(* The row that recovery is at. *)
StartInv == mode = "recovering" /\ op.pc \notin {"recover", "refuse"} =>
    \/ op.put # None /\ op.del = None /\ Publishes(op.put) /\ op.put \in Unfinished
    \/ op.put = None /\ op.del # None /\ Deletes(op.del) /\ op.del \in Unfinished

(* The directory at each step. *)
PutInv ==
    /\ op.pc \in {"insertDelete", "prepare", "link"} => op.put # None /\ Nowhere(op.put)
    /\ op.pc = "expose" => op.put # None /\ at[Temp(op.put)] = op.put
    /\ op.pc \in {"verify", "apply", "unpublish"} => op.put # None
    /\ op.pc \in {"verify", "apply", "quarantine", "markDelete", "commit", "restore", "failDelete", "unpublish"}
          \/ (op.pc = "restored" /\ mode = "serving")
          => (op.put # None => Pending(op.put) /\ Exposed(op.put))
    /\ op.pc \in {"quarantine", "markDelete", "commit"} =>
          (op.put # None => Applied(op.put) /\ journal[op.put].result # None /\ journal[op.put].result.file = op.put)
    /\ op.pc = "unpublished" => op.put # None /\ OldAtTarget(op.put)

DelInv ==
    /\ op.pc \in {"quarantine", "markDelete", "restore", "restored", "failDelete"} => op.del # None
    /\ op.pc \in {"markDelete", "commit", "restore"} => (op.del # None => Quarantined(op.del))
    /\ op.pc = "commit" => (op.del # None => Applied(op.del))
    /\ op.pc \in {"restored", "failDelete"} =>
          Pending(op.del) /\ OldAtTarget(op.del) /\ at[Trash(op.del)] = None

AfterInv ==
    LET next == IF Removing THEN op.gc.then ELSE op.pc IN
    next \in After =>
        /\ op.put # None => Done(op.put)
        /\ op.del # None => Done(op.del)
        /\ next \in {"clean", "complete"} => op.put # None
        /\ next \in {"discard", "completeDelete"} => op.del # None

UndoneInv ==
    /\ mode = "recovering" /\ op.pc \in {"unpublished", "settle", "close"} => Undone({})
    /\ mode = "recovering" /\ op.pc = "unlink" => Undone({})

RemovalInv == Removing =>
    /\ mode = "serving" => \/ op.gc.failed = "finish" /\ op.gc.then \in {"finish", "unpublished"}
                           \/ op.gc.failed = "idle" /\ op.gc.then \in {"complete", "completeDelete"}
    /\ mode = "recovering" => op.gc.failed = "refuse" /\ op.gc.then \in {"unpublished", "settle"}
    /\ op.gc.then = "unpublished" => op.put # None /\ OldAtTarget(op.put) /\ op.gc.from # Target(op.put)
    /\ op.pc = "remove" =>
          /\ Removable(op.gc.from, op.gc.of)
          /\ mode = "recovering" => Undone({op.gc.from})

OpInv == ModeInv /\ HolderInv /\ ForwardInv /\ StartInv /\ PutInv /\ DelInv /\ AfterInv /\ UndoneInv /\ RemovalInv

FilesInv == TypeOK /\ RequestInv /\ Store /\ CapacityInv /\ OpInv

-----------------------------------------------------------------------------
(* The names of the directory are all different. *)

LEMMA PlacesApart ==
    /\ \A p \in Paths : Public(p) \in Places
    /\ \A o \in Ops : Temp(o) \in Places /\ Trash(o) \in Places /\ Guard(o) \in Places
    /\ \A p, q \in Paths : Public(p) = Public(q) => p = q
    /\ \A o, q \in Ops : /\ Temp(o) = Temp(q) => o = q
                         /\ Trash(o) = Trash(q) => o = q
                         /\ Guard(o) = Guard(q) => o = q
                         /\ Temp(o) # Trash(q) /\ Temp(o) # Guard(q) /\ Trash(o) # Guard(q)
    /\ \A p \in Paths, o \in Ops : Public(p) # Temp(o) /\ Public(p) # Trash(o) /\ Public(p) # Guard(o)
<1>1. /\ \A p \in Paths : Public(p) \in Places
      /\ \A o \in Ops : Temp(o) \in Places /\ Trash(o) \in Places /\ Guard(o) \in Places
  BY DEF Public, Temp, Trash, Guard, Places
<1>2. /\ \A p, q \in Paths : Public(p) = Public(q) => p = q
      /\ \A o, q \in Ops : /\ Temp(o) = Temp(q) => o = q
                           /\ Trash(o) = Trash(q) => o = q
                           /\ Guard(o) = Guard(q) => o = q
  BY DEF Public, Temp, Trash, Guard
<1>3. /\ \A o, q \in Ops : Temp(o) # Trash(q) /\ Temp(o) # Guard(q) /\ Trash(o) # Guard(q)
      /\ \A p \in Paths, o \in Ops : Public(p) # Temp(o) /\ Public(p) # Trash(o) /\ Public(p) # Guard(o)
  BY DEF Public, Temp, Trash, Guard
<1> QED BY <1>1, <1>2, <1>3

LEMMA NamesTyped ==
    ASSUME TypeOK, NEW o \in Ops, Row(o)
    PROVE  /\ journal[o] \in JournalRow
           /\ journal[o].path \in Paths /\ journal[o].key \in Keys
           /\ Target(o) \in Places /\ Target(o) = Public(journal[o].path)
           /\ Target(o) # Temp(o) /\ Target(o) # Trash(o) /\ Target(o) # Guard(o)
           /\ journal[o].expected # None => OldFile(o) \in Ops /\ OldFile(o) = journal[o].expected.file
           /\ journal[o].expected = None => OldFile(o) = None
<1>1. journal[o] \in JournalRow
  BY DEF TypeOK, Row
<1>2. journal[o].expected # None => journal[o].expected \in Version
  BY <1>1 DEF JournalRow
<1> QED BY <1>1, <1>2, PlacesApart DEF JournalRow, Target, OldFile, Version, Files

LEMMA RowsTyped ==
    ASSUME TypeOK, NEW s \in Setups, row[s] # None
    PROVE  row[s].path \in Paths /\ row[s].version \in Version /\ row[s].version.file \in Ops
BY DEF TypeOK, Version, Files

LEMMA OpsAreNot == None \notin Ops /\ Ops \subseteq Nat
BY BoundsAssumption, NoneAssumption DEF Ops

LEMMA Bumped ==
    ASSUME NEW s \in [Files -> Nat], NEW x
    PROVE  [s EXCEPT ![x] = s[x] + 1] \in [Files -> Nat]
<1>1. CASE x \in Files
  BY <1>1
<1>2. CASE x \notin Files
  BY <1>2
<1> QED BY <1>1, <1>2

(* What renameat2 does to the directory. *)
LEMMA RenameAt ==
    ASSUME TypeOK, NEW x \in Places, NEW y \in Places, x # y, Rename(x, y)
    PROVE  /\ at'[x] = None /\ at'[y] = at[x]
           /\ \A z \in Places : z # x /\ z # y => at'[z] = at[z]
           /\ at' \in [Places -> Files \cup {None}] /\ stamp' \in [Files -> Nat]
<1>1. at \in [Places -> Files \cup {None}] /\ stamp \in [Files -> Nat]
  BY DEF TypeOK
<1>2. stamp' \in [Files -> Nat]
  BY <1>1, Bumped DEF Rename
<1> QED BY <1>1, <1>2 DEF Rename

LEMMA ExchangeAt ==
    ASSUME TypeOK, NEW x \in Places, NEW y \in Places, x # y, Exchange(x, y)
    PROVE  /\ at'[x] = at[y] /\ at'[y] = at[x]
           /\ \A z \in Places : z # x /\ z # y => at'[z] = at[z]
           /\ at' \in [Places -> Files \cup {None}] /\ stamp' \in [Files -> Nat]
<1>1. at \in [Places -> Files \cup {None}] /\ stamp \in [Files -> Nat]
  BY DEF TypeOK
<1>2. stamp' \in [Files -> Nat]
  <2> DEFINE s == [stamp EXCEPT ![at[x]] = stamp[at[x]] + 1]
  <2>1. s \in [Files -> Nat]
    BY <1>1, Bumped
  <2>2. stamp' = [s EXCEPT ![at[y]] = s[at[y]] + 1] \/ stamp' = s
    BY <1>1 DEF Exchange
  <2> QED BY <2>1, <2>2, Bumped
<1> QED BY <1>1, <1>2 DEF Exchange

LEMMA FreshUnused ==
    ASSUME Unused # {}
    PROVE  Fresh \in Ops /\ ~Row(Fresh)
<1>1. Unused \subseteq Nat
  BY OpsAreNot DEF Unused
<1>2. IsWellFoundedOn(OpToRel(<, Nat), Nat)
  BY NatLessThanWellFounded
<1>3. \E o \in Unused : \A q \in Unused : <<q, o>> \notin OpToRel(<, Nat)
  BY <1>1, <1>2, WFMin, Zenon
<1>4. \E o \in Unused : \A q \in Unused : o <= q
  <2>1. PICK o \in Unused : \A q \in Unused : <<q, o>> \notin OpToRel(<, Nat)
    BY <1>3
  <2>2. ASSUME NEW q \in Unused PROVE o <= q
    <3>1. ~(q < o)
      BY <2>1, <1>1, <2>2 DEF OpToRel
    <3> QED BY <3>1, <1>1
  <2> QED BY <2>2
<1>5. Fresh \in Unused
  BY <1>4, Zenon DEF Fresh
<1> QED BY <1>5 DEF Unused, Row

-----------------------------------------------------------------------------
(* What the steps do to the store. *)

JournalKept == journal' = journal /\ row' = row /\ claim' = claim /\ request' = request

(* Outcomes and requests are never taken back. *)
ClaimsKept ==
    /\ \A k \in Keys : claim[k] = "completed" => claim'[k] = "completed"
    /\ \A k \in Keys : request[k] # None => request'[k] # None

LEMMA SameStore ==
    ASSUME TypeOK, Store, at' = at, row' = row, journal' = journal, ClaimsKept
    PROVE  Store'
<1>1. JournalInv'
  BY NamesTyped DEF Store, JournalInv, Row, Done, Proper, InUse, OldFile, Publishes, ClaimsKept
<1>2. RowsInv' /\ OneLink' /\ PublicInv' /\ TempInv' /\ TrashInv' /\ GuardInv' /\ HomesInv'
  BY DEF Store, RowsInv, OneLink, PublicInv, TempInv, TrashInv, GuardInv, HomesInv, Row, Done, Proper, InUse,
         OldFile, Publishes, Pending, Deletes, Home, HiddenBy, ExchangedBy
<1> QED BY <1>1, <1>2 DEF Store

(* A new intent names nothing yet. *)
LEMMA IntentStore ==
    ASSUME TypeOK, Store, at' = at, row' = row, claim' = claim, request' = request,
           NEW n \in Ops, ~Row(n), NEW r \in JournalRow,
           journal' = [journal EXCEPT ![n] = r], r.state = "intent", request[r.key] # None,
           r.kind = "delete" => r.expected # None,
           r.expected # None => Proper(r.expected.file, r.path)
    PROVE  Store' /\ Row(n)' /\ Nowhere(n)' /\ Pending(n)'
<1>1. /\ journal'[n] = r /\ r # None
      /\ \A o \in Ops : o # n => journal'[o] = journal[o]
  BY RecordAssumption DEF TypeOK
<1>2. /\ \A o \in Ops : o # n => (Row(o)' <=> Row(o)) /\ (Publishes(o)' <=> Publishes(o))
                              /\ (Deletes(o)' <=> Deletes(o)) /\ (Pending(o)' <=> Pending(o))
                              /\ (Done(o)' <=> Done(o)) /\ OldFile(o)' = OldFile(o)
      /\ Row(n)' /\ Pending(n)' /\ ~Done(n)'
  BY <1>1 DEF Row, Publishes, Deletes, Pending, Done, OldFile
<1>3. \A f : InUse(f)' <=> InUse(f)
  BY DEF InUse
<1>4. \A x \in Places : at[x] # n
  BY OpsAreNot DEF Store, OneLink, Publishes
<1>5. \A f, p : Proper(f, p) => Proper(f, p)'
  BY <1>1, <1>2 DEF Proper, Publishes
<1>6. JournalInv'
  BY <1>1, <1>2, <1>3, <1>5 DEF Store, JournalInv, OldFile, Row
<1>7. RowsInv'
  BY <1>5 DEF Store, RowsInv
<1>8. at \in [Places -> Ops \cup {None}]
  BY DEF TypeOK, Files
<1>9. OneLink' /\ PublicInv' /\ TempInv' /\ TrashInv' /\ GuardInv'
  <2>1. OneLink' /\ GuardInv'
    BY <1>1, <1>2, <1>3, <1>4, <1>8 DEF Store, OneLink, GuardInv
  <2>2. PublicInv'
    BY <1>1, <1>2, <1>3, <1>4, <1>8, PlacesApart DEF Store, PublicInv
  <2>3. TempInv' /\ TrashInv'
    BY <1>1, <1>2, <1>3, <1>4, <1>8, PlacesApart DEF Store, TempInv, TrashInv, Publishes, Deletes, Pending, Row
  <2> QED BY <2>1, <2>2, <2>3
<1>10. \A f, p : Home(f, p) => Home(f, p)'
  BY <1>2 DEF Home, HiddenBy, ExchangedBy, Deletes, Publishes, Pending, Row
<1>11. HomesInv'
  BY <1>10 DEF Store, HomesInv
<1> QED BY <1>2, <1>4, <1>6, <1>7, <1>9, <1>11 DEF Store, Nowhere

(* A change of state: on, back, or to failed when nothing is left to undo. *)
Falls(o) ==
    /\ Pending(o) /\ journal'[o].state = "failed"
    /\ Publishes(o) => at[Target(o)] # o /\ at[Temp(o)] # o
    /\ Deletes(o) => at[Trash(o)] = None

LEMMA StateStore ==
    ASSUME TypeOK, Store, at' = at, row' = row, ClaimsKept, NEW o \in Ops, Row(o), Row(o)',
           \A q \in Ops : q # o => journal'[q] = journal[q],
           /\ journal'[o].kind = journal[o].kind /\ journal'[o].key = journal[o].key
           /\ journal'[o].path = journal[o].path /\ journal'[o].expected = journal[o].expected,
           (Pending(o) /\ Pending(o)') \/ (Done(o) /\ Done(o)') \/ Falls(o)
    PROVE  Store'
<1>1. \A q \in Ops : /\ (Row(q)' <=> Row(q)) /\ (Publishes(q)' <=> Publishes(q)) /\ (Deletes(q)' <=> Deletes(q))
                     /\ OldFile(q)' = OldFile(q) /\ Target(q)' = Target(q)
                     /\ (Done(q)' <=> Done(q)) /\ (Pending(q)' => Pending(q))
                     /\ (Pending(q) => Pending(q)' \/ (q = o /\ Falls(o)))
                     /\ (Row(q) => /\ journal'[q].key = journal[q].key /\ journal'[q].path = journal[q].path
                                   /\ journal'[q].kind = journal[q].kind /\ journal'[q].expected = journal[q].expected)
  BY DEF Row, Publishes, Deletes, Pending, Done, OldFile, Target, Falls
<1>2. \A f : InUse(f)' <=> InUse(f)
  BY DEF InUse
<1>3. \A f, p : Proper(f, p)' <=> Proper(f, p)
  BY <1>1 DEF Proper, Publishes
<1>4. JournalInv'
  <2> SUFFICES ASSUME NEW q \in Ops, Row(q)
      PROVE  /\ request'[journal[q].key] # None
             /\ Done(q) => claim'[journal[q].key] = "completed"
             /\ journal[q].kind = "delete" => journal[q].expected # None
             /\ journal[q].expected # None =>
                   /\ Proper(OldFile(q), journal[q].path)
                   /\ Done(q) => ~InUse(OldFile(q))
    BY <1>1, <1>2, <1>3 DEF JournalInv
  <2> QED BY <1>3, NamesTyped DEF Store, JournalInv, ClaimsKept
<1>5. RowsInv' /\ GuardInv'
  BY <1>2, <1>3 DEF Store, RowsInv, GuardInv
<1>6. at \in [Places -> Ops \cup {None}]
  BY DEF TypeOK, Files
<1>7. OneLink'
  BY <1>1, <1>6 DEF Store, OneLink
<1>8. PublicInv'
  <2> SUFFICES ASSUME NEW p \in Paths, at[Public(p)] # None
      PROVE journal'[at[Public(p)]].path = p /\ (InUse(at[Public(p)]) \/ Pending(at[Public(p)])')
    BY <1>2 DEF PublicInv
  <2> DEFINE f == at[Public(p)]
  <2>1. f \in Ops /\ Publishes(f) /\ journal[f].path = p /\ (InUse(f) \/ Pending(f))
    BY <1>6, PlacesApart DEF Store, OneLink, PublicInv
  <2>2. Target(f) = Public(p)
    BY <2>1 DEF Target
  <2>3. ~(f = o /\ Falls(o))
    BY <2>1, <2>2 DEF Falls
  <2> QED BY <1>1, <2>1, <2>3 DEF Publishes
<1>9. TempInv'
  <2> SUFFICES ASSUME NEW q \in Ops, at[Temp(q)] # None
      PROVE  /\ Publishes(q)'
             /\ \/ at[Temp(q)] = q /\ Pending(q)'
                \/ at[Temp(q)] = OldFile(q)' /\ (Pending(q)' => InUse(at[Temp(q)]))
    BY <1>2 DEF TempInv
  <2> QED BY <1>1 DEF Store, TempInv, Falls
<1>10. TrashInv'
  BY <1>1, <1>2 DEF Store, TrashInv
<1>11. HomesInv'
  <2> SUFFICES ASSUME NEW s \in Setups, row[s] # None
      PROVE  Home(row[s].version.file, row[s].path)'
    BY DEF HomesInv
  <2> DEFINE f == row[s].version.file
             p == row[s].path
  <2>1. Proper(f, p) /\ f # None /\ Home(f, p)
    BY OpsAreNot DEF Store, RowsInv, HomesInv, Proper
  <2>2. CASE at[Public(p)] = f
    BY <2>2 DEF Home
  <2>3. CASE \E d \in Ops : HiddenBy(d, f)
    BY <2>3, <1>1, <2>1 DEF Home, HiddenBy, Falls
  <2>4. ASSUME NEW q \in Ops, ExchangedBy(q, f, p) PROVE Home(f, p)'
    <3>1. at[Public(p)] = q /\ Publishes(q) /\ q # None /\ p \in Paths
      BY <2>4, OpsAreNot, RowsTyped DEF ExchangedBy
    <3>2. journal[q].path = p
      BY <3>1 DEF Store, PublicInv
    <3>3. ~(q = o /\ Falls(o))
      BY <3>1, <3>2 DEF Falls, Target
    <3> QED BY <1>1, <2>4, <3>3 DEF Home, ExchangedBy
  <2> QED BY <2>1, <2>2, <2>3, <2>4 DEF Home
<1> QED BY <1>4, <1>5, <1>7, <1>8, <1>9, <1>10, <1>11 DEF Store

-----------------------------------------------------------------------------
(* Files that move. *)

LEMMA KeptJournal ==
    ASSUME TypeOK, Store, JournalKept
    PROVE  /\ JournalInv' /\ RowsInv'
           /\ \A o \in Ops : /\ Publishes(o)' <=> Publishes(o)
                             /\ Deletes(o)' <=> Deletes(o)
                             /\ Pending(o)' <=> Pending(o)
                             /\ OldFile(o)' = OldFile(o)
           /\ \A f : InUse(f)' <=> InUse(f)
BY DEF JournalKept, Store, JournalInv, RowsInv, Row, Done, Proper, InUse, OldFile, Publishes, Pending, Deletes

(* The files at the places of the directory are publications. *)
LEMMA PlacedFile ==
    ASSUME TypeOK, Store, NEW x \in Places, at[x] # None
    PROVE  at[x] \in Ops /\ Publishes(at[x]) /\ Row(at[x]) /\ \A y \in Places : at[y] = at[x] => y = x
BY DEF TypeOK, Files, Store, OneLink, Publishes

(* The file of a row, and the old file of a journal row. *)
LEMMA RowFile ==
    ASSUME TypeOK, Store, NEW s \in Setups, row[s] # None
    PROVE  /\ row[s].path \in Paths /\ row[s].version.file \in Ops /\ row[s].version.file # None
           /\ Proper(row[s].version.file, row[s].path)
           /\ ~Pending(row[s].version.file) /\ InUse(row[s].version.file)
           /\ Home(row[s].version.file, row[s].path)
BY RowsTyped, OpsAreNot DEF Store, RowsInv, HomesInv, Proper, Done, Pending, InUse

LEMMA OldFileIs ==
    ASSUME TypeOK, Store, NEW o \in Ops, Row(o), journal[o].expected # None
    PROVE  /\ OldFile(o) \in Ops /\ OldFile(o) # None
           /\ Proper(OldFile(o), journal[o].path)
           /\ ~Pending(OldFile(o))
           /\ Done(o) => ~InUse(OldFile(o))
BY NamesTyped, OpsAreNot DEF Store, JournalInv, Proper, Done, Pending

LEMMA OneRowPerFile ==
    ASSUME TypeOK, Store, NEW s \in Setups, NEW t \in Setups, row[s] # None, row[t] # None,
           row[s].version.file = row[t].version.file
    PROVE  s = t
BY DEF Store, RowsInv, Proper

(* The homes are kept when the home of each such file is. *)
LEMMA HomesKept ==
    ASSUME TypeOK, Store, JournalKept,
           \A f \in Ops, p \in Paths :
               f # None /\ Proper(f, p) /\ ~Pending(f) /\ InUse(f) /\ Home(f, p) => Home(f, p)'
    PROVE  HomesInv'
<1> SUFFICES ASSUME NEW s \in Setups, row[s] # None PROVE Home(row[s].version.file, row[s].path)'
  BY DEF HomesInv, JournalKept
<1>2. row' = row
  BY DEF JournalKept
<1> QED BY <1>2, RowFile DEF Home, HiddenBy, ExchangedBy

LEMMA LinkStore ==
    ASSUME TypeOK, Store, JournalKept, NEW o \in Ops, Publishes(o), Pending(o), Nowhere(o),
           at'[Temp(o)] = o, \A z \in Places : z # Temp(o) => at'[z] = at[z]
    PROVE  Store'
<1>1. JournalInv' /\ RowsInv'
  BY KeptJournal
<1>2. OneLink'
  BY KeptJournal, PlacesApart, PlacedFile DEF Store, OneLink, Nowhere
<1>3. PublicInv' /\ TrashInv' /\ GuardInv'
  BY KeptJournal, PlacesApart, PlacedFile DEF Store, PublicInv, TrashInv, GuardInv, JournalKept
<1>4. TempInv'
  BY KeptJournal, PlacesApart, PlacedFile DEF Store, TempInv
<1>5. HomesInv'
  <2> SUFFICES ASSUME NEW f \in Ops, NEW p \in Paths, f # None, Proper(f, p), ~Pending(f), InUse(f), Home(f, p)
      PROVE  Home(f, p)'
    BY HomesKept
  <2> QED BY KeptJournal, PlacesApart DEF Home, HiddenBy, ExchangedBy, Nowhere
<1> QED BY <1>1, <1>2, <1>3, <1>4, <1>5 DEF Store

(* The new file appears at its free path. *)
LEMMA ExposeStore ==
    ASSUME TypeOK, Store, JournalKept, NEW o \in Ops, Publishes(o), Pending(o),
           at[Temp(o)] = o, at[Target(o)] = None,
           at'[Temp(o)] = None, at'[Target(o)] = o,
           \A z \in Places : z # Temp(o) /\ z # Target(o) => at'[z] = at[z]
    PROVE  Store'
<1>0. o # None /\ Row(o) /\ journal[o].path \in Paths /\ Target(o) = Public(journal[o].path) /\ Target(o) \in Places
  BY NamesTyped, OpsAreNot DEF Publishes
<1>1. JournalInv' /\ RowsInv'
  BY KeptJournal
<1>2. OneLink'
  BY <1>0, KeptJournal, PlacesApart, PlacedFile DEF Store, OneLink
<1>3. PublicInv'
  BY <1>0, KeptJournal, PlacesApart, PlacedFile DEF Store, PublicInv, JournalKept
<1>4. TrashInv' /\ GuardInv' /\ TempInv'
  BY <1>0, KeptJournal, PlacesApart DEF Store, TrashInv, GuardInv, TempInv
<1>5. HomesInv'
  <2> SUFFICES ASSUME NEW f \in Ops, NEW p \in Paths, f # None, Proper(f, p), ~Pending(f), InUse(f), Home(f, p)
      PROVE  Home(f, p)'
    BY HomesKept
  <2>3. CASE at[Public(p)] = f
    BY <1>0, <2>3, PlacesApart DEF Home
  <2>4. CASE \E d \in Ops : HiddenBy(d, f)
    BY <1>0, <2>4, KeptJournal, PlacesApart DEF Home, HiddenBy
  <2>5. ASSUME NEW q \in Ops, ExchangedBy(q, f, p) PROVE Home(f, p)'
    <3>1. Public(p) \in Places /\ Temp(q) \in Places /\ Public(p) # Temp(o) /\ Public(p) # Target(o)
          /\ Temp(q) # Temp(o) /\ Temp(q) # Target(o)
      BY <1>0, <2>5, PlacesApart, OpsAreNot, at[Temp(q)] = f, f # o DEF ExchangedBy
    <3>2. at'[Public(p)] = q /\ at'[Temp(q)] = f
      BY <3>1, <2>5 DEF ExchangedBy
    <3> QED BY <3>2, <2>5, KeptJournal DEF Home, ExchangedBy
  <2> QED BY <2>3, <2>4, <2>5 DEF Home
<1> QED BY <1>1, <1>2, <1>3, <1>4, <1>5 DEF Store

(* The new file takes the place of the old one, which gets its hidden name. *)
LEMMA ExchangeInStore ==
    ASSUME TypeOK, Store, JournalKept, NEW o \in Ops, Publishes(o), Pending(o), journal[o].expected # None,
           at[Temp(o)] = o, at[Target(o)] = OldFile(o),
           at'[Temp(o)] = OldFile(o), at'[Target(o)] = o,
           \A z \in Places : z # Temp(o) /\ z # Target(o) => at'[z] = at[z]
    PROVE  Store'
<1>0. o # None /\ Row(o) /\ journal[o].path \in Paths /\ Target(o) = Public(journal[o].path)
      /\ Target(o) \in Places /\ Target(o) # Temp(o)
  BY NamesTyped, OpsAreNot DEF Publishes
<1>1. JournalInv' /\ RowsInv'
  BY KeptJournal
<1>2. OldFile(o) # o /\ OldFile(o) # None /\ ~Pending(OldFile(o)) /\ Proper(OldFile(o), journal[o].path)
      /\ InUse(OldFile(o))
  BY <1>0, OldFileIs DEF Store, PublicInv
<1>3. OneLink'
  BY <1>0, <1>2, KeptJournal, PlacesApart, PlacedFile DEF Store, OneLink, Proper
<1>4. PublicInv'
  BY <1>0, KeptJournal, PlacesApart, PlacedFile DEF Store, PublicInv, JournalKept
<1>5. TrashInv' /\ GuardInv' /\ TempInv'
  BY <1>0, <1>2, KeptJournal, PlacesApart DEF Store, TrashInv, GuardInv, TempInv
<1>6. HomesInv'
  <2> SUFFICES ASSUME NEW f \in Ops, NEW p \in Paths, f # None, Proper(f, p), ~Pending(f), InUse(f), Home(f, p)
      PROVE  Home(f, p)'
    BY HomesKept
  <2>2. f = OldFile(o) => p = journal[o].path
    BY <1>2 DEF Proper
  <2>3. CASE at[Public(p)] = f
    BY <1>0, <1>2, <2>2, <2>3, KeptJournal, PlacesApart DEF Home, ExchangedBy
  <2>4. CASE \E d \in Ops : HiddenBy(d, f)
    BY <1>0, <2>4, KeptJournal, PlacesApart DEF Home, HiddenBy
  <2>5. CASE \E q \in Ops : ExchangedBy(q, f, p)
    BY <1>0, <1>2, <2>5, KeptJournal, PlacesApart DEF Home, ExchangedBy
  <2> QED BY <2>3, <2>4, <2>5 DEF Home
<1> QED BY <1>1, <1>3, <1>4, <1>5, <1>6 DEF Store

(* And back. *)
LEMMA ExchangeOutStore ==
    ASSUME TypeOK, Store, JournalKept, NEW o \in Ops, Publishes(o), Pending(o), journal[o].expected # None,
           at[Target(o)] = o, at[Temp(o)] = OldFile(o),
           at'[Target(o)] = OldFile(o), at'[Temp(o)] = o,
           \A z \in Places : z # Temp(o) /\ z # Target(o) => at'[z] = at[z]
    PROVE  Store'
<1>0. o # None /\ Row(o) /\ journal[o].path \in Paths /\ Target(o) = Public(journal[o].path)
      /\ Target(o) \in Places /\ Target(o) # Temp(o)
  BY NamesTyped, OpsAreNot DEF Publishes
<1>1. JournalInv' /\ RowsInv'
  BY KeptJournal
<1>2. OldFile(o) # o /\ OldFile(o) # None /\ ~Pending(OldFile(o)) /\ Proper(OldFile(o), journal[o].path)
      /\ InUse(OldFile(o))
  BY <1>0, OldFileIs DEF Store, TempInv
<1>3. OneLink'
  BY <1>0, <1>2, KeptJournal, PlacesApart, PlacedFile DEF Store, OneLink, Proper
<1>4. PublicInv'
  BY <1>0, <1>2, KeptJournal, PlacesApart, PlacedFile DEF Store, PublicInv, JournalKept, Proper
<1>5. TrashInv' /\ GuardInv' /\ TempInv'
  BY <1>0, <1>2, KeptJournal, PlacesApart DEF Store, TrashInv, GuardInv, TempInv
<1>6. HomesInv'
  <2> SUFFICES ASSUME NEW f \in Ops, NEW p \in Paths, f # None, Proper(f, p), ~Pending(f), InUse(f), Home(f, p)
      PROVE  Home(f, p)'
    BY HomesKept
  <2>3. CASE at[Public(p)] = f
    BY <1>0, <1>2, <2>3, KeptJournal, PlacesApart DEF Home
  <2>4. CASE \E d \in Ops : HiddenBy(d, f)
    BY <1>0, <2>4, KeptJournal, PlacesApart DEF Home, HiddenBy
  <2>5. ASSUME NEW q \in Ops, ExchangedBy(q, f, p) PROVE Home(f, p)'
    <3>1. CASE q = o
      <4>1. Public(p) = Target(o) /\ OldFile(o) = f
        BY <3>1, <1>0, <2>5, PlacesApart, PlacedFile DEF ExchangedBy
      <4> QED BY <4>1 DEF Home
    <3>2. CASE q # o
      <4>1. Public(p) \in Places /\ Temp(q) \in Places /\ Public(p) # Temp(o) /\ Public(p) # Target(o)
            /\ Temp(q) # Temp(o) /\ Temp(q) # Target(o)
        BY <3>2, <1>0, <2>5, PlacesApart DEF ExchangedBy
      <4>2. at'[Public(p)] = q /\ at'[Temp(q)] = f
        BY <4>1, <2>5 DEF ExchangedBy
      <4> QED BY <4>2, <2>5, KeptJournal DEF Home, ExchangedBy
    <3> QED BY <3>1, <3>2
  <2> QED BY <2>3, <2>4, <2>5 DEF Home
<1> QED BY <1>1, <1>3, <1>4, <1>5, <1>6 DEF Store

(* A delete hides the file of its path. *)
LEMMA HideStore ==
    ASSUME TypeOK, Store, JournalKept, NEW d \in Ops, Deletes(d), Pending(d),
           at[Target(d)] = OldFile(d),
           at'[Target(d)] = None, at'[Trash(d)] = OldFile(d),
           \A z \in Places : z # Target(d) /\ z # Trash(d) => at'[z] = at[z]
    PROVE  Store'
<1>0. Row(d) /\ journal[d].path \in Paths /\ Target(d) = Public(journal[d].path) /\ journal[d].expected # None
      /\ Target(d) \in Places /\ Target(d) # Trash(d) /\ Trash(d) \in Places
  BY NamesTyped, PlacesApart DEF Deletes, Store, JournalInv
<1>1. JournalInv' /\ RowsInv'
  BY KeptJournal
<1>2. OldFile(d) # None /\ ~Pending(OldFile(d)) /\ Proper(OldFile(d), journal[d].path) /\ InUse(OldFile(d))
  BY <1>0, OldFileIs DEF Store, PublicInv
<1>3. OneLink'
  BY <1>0, <1>2, KeptJournal, PlacesApart, PlacedFile DEF Store, OneLink, Proper
<1>4. PublicInv'
  BY <1>0, KeptJournal, PlacesApart, PlacedFile DEF Store, PublicInv, JournalKept
<1>5. TrashInv' /\ GuardInv' /\ TempInv'
  BY <1>0, <1>2, KeptJournal, PlacesApart DEF Store, TrashInv, GuardInv, TempInv
<1>6. HomesInv'
  <2> SUFFICES ASSUME NEW f \in Ops, NEW p \in Paths, f # None, Proper(f, p), ~Pending(f), InUse(f), Home(f, p)
      PROVE  Home(f, p)'
    BY HomesKept
  <2>1. CASE f = OldFile(d)
    BY <2>1, <1>0, KeptJournal DEF Home, HiddenBy
  <2>2. CASE at[Public(p)] = f /\ f # OldFile(d)
    BY <1>0, <2>2, PlacesApart DEF Home
  <2>3. CASE \E e \in Ops : HiddenBy(e, f) /\ f # OldFile(d)
    <3>1. PICK e \in Ops : HiddenBy(e, f)
      BY <2>3
    <3>2. e # d
      BY <3>1, <2>3 DEF Store, TrashInv, HiddenBy
    <3> QED BY <1>0, <3>1, <3>2, KeptJournal, PlacesApart DEF Home, HiddenBy
  <2>4. ASSUME NEW q \in Ops, ExchangedBy(q, f, p) PROVE Home(f, p)'
    <3>1. Public(p) \in Places /\ Temp(q) \in Places /\ Public(p) # Trash(d) /\ Public(p) # Target(d)
          /\ Temp(q) # Trash(d) /\ Temp(q) # Target(d)
      BY <1>0, <1>2, <2>4, PlacesApart DEF ExchangedBy
    <3> QED BY <3>1, <2>4, KeptJournal DEF Home, ExchangedBy
  <2> QED BY <2>1, <2>2, <2>3, <2>4 DEF Home
<1> QED BY <1>1, <1>3, <1>4, <1>5, <1>6 DEF Store

(* And brings it back. *)
LEMMA RestoreStore ==
    ASSUME TypeOK, Store, JournalKept, NEW d \in Ops, Quarantined(d), Deletes(d),
           at[Target(d)] = None,
           at'[Trash(d)] = None, at'[Target(d)] = OldFile(d),
           \A z \in Places : z # Target(d) /\ z # Trash(d) => at'[z] = at[z]
    PROVE  Store' /\ OldFile(d) # None /\ Done(OldFile(d))
<1>0. Row(d) /\ journal[d].path \in Paths /\ Target(d) = Public(journal[d].path) /\ journal[d].expected # None
      /\ Target(d) \in Places /\ Target(d) # Trash(d) /\ Trash(d) \in Places
  BY NamesTyped, PlacesApart DEF Deletes, Store, JournalInv
<1>1. JournalInv' /\ RowsInv'
  BY KeptJournal
<1>2. /\ OldFile(d) # None /\ ~Pending(OldFile(d)) /\ Proper(OldFile(d), journal[d].path) /\ InUse(OldFile(d))
      /\ at[Trash(d)] = OldFile(d) /\ Pending(d)
  BY <1>0, OldFileIs DEF Store, TrashInv, Quarantined
<1>3. OneLink'
  BY <1>0, <1>2, KeptJournal, PlacesApart, PlacedFile DEF Store, OneLink, Proper
<1>4. PublicInv'
  BY <1>0, <1>2, KeptJournal, PlacesApart, PlacedFile DEF Store, PublicInv, JournalKept, Proper
<1>5. TrashInv' /\ GuardInv' /\ TempInv'
  BY <1>0, <1>2, KeptJournal, PlacesApart DEF Store, TrashInv, GuardInv, TempInv
<1>6. HomesInv'
  <2> SUFFICES ASSUME NEW f \in Ops, NEW p \in Paths, f # None, Proper(f, p), ~Pending(f), InUse(f), Home(f, p)
      PROVE  Home(f, p)'
    BY HomesKept
  <2>1. CASE f = OldFile(d)
    BY <2>1, <1>0, <1>2 DEF Home, Proper
  <2>2. CASE at[Public(p)] = f /\ f # OldFile(d)
    BY <1>0, <2>2, PlacesApart DEF Home
  <2>3. CASE \E e \in Ops : HiddenBy(e, f) /\ f # OldFile(d)
    BY <1>0, <1>2, <2>3, KeptJournal, PlacesApart DEF Home, HiddenBy
  <2>4. ASSUME NEW q \in Ops, ExchangedBy(q, f, p) PROVE Home(f, p)'
    <3>1. Public(p) \in Places /\ Temp(q) \in Places /\ Public(p) # Trash(d) /\ Public(p) # Target(d)
          /\ Temp(q) # Trash(d) /\ Temp(q) # Target(d)
      BY <1>0, <1>2, <2>4, PlacesApart, OpsAreNot DEF ExchangedBy
    <3> QED BY <3>1, <2>4, KeptJournal DEF Home, ExchangedBy
  <2> QED BY <2>1, <2>2, <2>3, <2>4 DEF Home
<1> QED BY <1>1, <1>2, <1>3, <1>4, <1>5, <1>6 DEF Store, Proper

(* A file that belongs to no row is moved aside. *)
LEMMA AsideStore ==
    ASSUME TypeOK, Store, JournalKept, NEW x \in Places, NEW g \in Ops, x # Guard(g),
           at[x] # None => ~InUse(at[x]),
           \A p \in Paths : at[x] # None /\ x = Public(p) => journal[at[x]].expected = None,
           at'[x] = None, at'[Guard(g)] = at[x],
           \A z \in Places : z # x /\ z # Guard(g) => at'[z] = at[z]
    PROVE  Store'
<1>1. JournalInv' /\ RowsInv'
  BY KeptJournal
<1>2. OneLink'
  <2>1. \A z \in Places : at'[z] # None => at'[z] = at[z] \/ (z = Guard(g) /\ at'[z] = at[x])
    OBVIOUS
  <2>2. \A z \in Places : at'[z] # None => Publishes(at'[z])
    BY <2>1, PlacedFile
  <2>3. ASSUME NEW y \in Places, NEW z \in Places, at'[y] # None, at'[y] = at'[z]
        PROVE  y = z
    BY <2>3, PlacesApart, PlacedFile
  <2>4. \A f \in Ops : Publishes(f)' <=> Publishes(f)
    BY KeptJournal
  <2> QED BY <2>1, <2>2, <2>3, <2>4, PlacedFile DEF OneLink
<1>3. PublicInv' /\ TrashInv' /\ TempInv'
  <2>1. PublicInv'
    BY KeptJournal, PlacesApart, PlacedFile DEF Store, PublicInv, JournalKept
  <2>2. TrashInv' /\ TempInv'
    BY KeptJournal, PlacesApart DEF Store, TrashInv, TempInv
  <2> QED BY <2>1, <2>2
<1>4. GuardInv'
  BY KeptJournal, PlacesApart DEF Store, GuardInv
<1>5. HomesInv'
  <2> SUFFICES ASSUME NEW f \in Ops, NEW p \in Paths, f # None, Proper(f, p), ~Pending(f), InUse(f), Home(f, p)
      PROVE  Home(f, p)'
    BY HomesKept
  <2>1. \A y \in Places : at[y] = f /\ (\A h \in Ops : y # Guard(h)) => at'[y] = f
    OBVIOUS
  <2>2. CASE at[Public(p)] = f
    BY <2>1, <2>2, PlacesApart DEF Home
  <2>3. CASE \E e \in Ops : HiddenBy(e, f)
    BY <2>1, <2>3, KeptJournal, PlacesApart DEF Home, HiddenBy
  <2>4. ASSUME NEW q \in Ops, ExchangedBy(q, f, p) PROVE Home(f, p)'
    <3>1. at'[Temp(q)] = f /\ Public(p) \in Places /\ \A h \in Ops : Public(p) # Guard(h)
      BY <2>1, <2>4, PlacesApart DEF ExchangedBy
    <3>2. x # Public(p)
      <4>1. SUFFICES ASSUME x = Public(p) PROVE FALSE
        OBVIOUS
      <4>2. q # None /\ at[x] = q /\ journal[q].expected = None /\ Row(q)
        BY <4>1, <2>4, OpsAreNot DEF ExchangedBy, Publishes
      <4>3. f = q \/ f = OldFile(q)
        BY <2>4, <4>2 DEF Store, TempInv, ExchangedBy
      <4> QED BY <4>2, <4>3, <2>4, NamesTyped DEF ExchangedBy
    <3>3. at'[Public(p)] = q
      BY <3>1, <3>2, <2>4 DEF ExchangedBy
    <3> QED BY <3>1, <3>3, <2>4, KeptJournal DEF Home, ExchangedBy
  <2> QED BY <2>2, <2>3, <2>4 DEF Home
<1> QED BY <1>1, <1>2, <1>3, <1>4, <1>5 DEF Store

(* What was moved aside is unlinked. *)
LEMMA UnlinkStore ==
    ASSUME TypeOK, Store, JournalKept, NEW g \in Ops,
           at'[Guard(g)] = None, \A z \in Places : z # Guard(g) => at'[z] = at[z]
    PROVE  Store'
<1>1. JournalInv' /\ RowsInv'
  BY KeptJournal
<1>2. OneLink'
  BY KeptJournal, PlacesApart, PlacedFile DEF Store, OneLink
<1>3. PublicInv' /\ TrashInv' /\ TempInv' /\ GuardInv'
  <2>1. PublicInv'
    BY KeptJournal, PlacesApart, PlacedFile DEF Store, PublicInv, JournalKept
  <2>2. TrashInv' /\ TempInv' /\ GuardInv'
    BY KeptJournal, PlacesApart DEF Store, TrashInv, TempInv, GuardInv
  <2> QED BY <2>1, <2>2
<1>4. HomesInv'
  <2> SUFFICES ASSUME NEW f \in Ops, NEW p \in Paths, f # None, Proper(f, p), ~Pending(f), InUse(f), Home(f, p)
      PROVE  Home(f, p)'
    BY HomesKept
  <2> QED BY KeptJournal, PlacesApart DEF Home, HiddenBy, ExchangedBy
<1> QED BY <1>1, <1>2, <1>3, <1>4 DEF Store

-----------------------------------------------------------------------------
(* Rows that change. *)

(* A committed file at a path is the file of each row of that path, so that *)
(* reading its identity again changes no row's file.                        *)
LEMMA RereadRow ==
    ASSUME TypeOK, Store, NEW p \in Paths, at[Public(p)] # None, Done(at[Public(p)]),
           NEW s \in Setups, row[s] # None, row[s].path = p
    PROVE  row[s].version.file = at[Public(p)]
<1> DEFINE g == at[Public(p)]
<1>1. g \in Ops /\ ~Pending(g) /\ Public(p) \in Places /\ \A y \in Places : at[y] = g => y = Public(p)
  BY PlacedFile, PlacesApart DEF Done, Pending
<1>2. InUse(g) /\ journal[g].path = p
  BY <1>1 DEF Store, PublicInv
<1>3. PICK t \in Setups : row[t] # None /\ row[t].version.file = g
  BY <1>2 DEF InUse
<1>4. row[t].path = p
  BY <1>2, <1>3 DEF Store, RowsInv, Proper
<1> QED BY <1>3, <1>4 DEF Store, RowsInv

SameFiles == \A s \in Setups : /\ row'[s] # None <=> row[s] # None
                               /\ row[s] # None => /\ row'[s].path = row[s].path
                                                   /\ row'[s].version.file = row[s].version.file

LEMMA RereadFiles ==
    ASSUME TypeOK, Store, NEW p \in Paths, at[Public(p)] # None, Done(at[Public(p)]),
           NEW s \in Setups, Reread(s, p)
    PROVE  SameFiles /\ row' \in [Setups -> [path : Paths, version : Version] \cup {None}]
<1> DEFINE g == at[Public(p)]
<1>1. g \in Files /\ Current(g) \in Version /\ Current(g).file = g
  BY PlacesApart DEF TypeOK, Current, Version
<1>2. row \in [Setups -> [path : Paths, version : Version] \cup {None}]
  BY DEF TypeOK
<1> HIDE DEF g
<1>3. CASE row[s] # None /\ row[s].path = p
  <2>1. row[s].version.file = g
    BY <1>3, RereadRow DEF g
  <2>2. row' = [row EXCEPT ![s] = [row[s] EXCEPT !.version = Current(g)]]
    BY <1>3 DEF Reread, g
  <2>3. row[s] \in [path : Paths, version : Version]
    BY <1>2, <1>3
  <2>4. [row[s] EXCEPT !.version = Current(g)] \in [path : Paths, version : Version]
        /\ [row[s] EXCEPT !.version = Current(g)].path = row[s].path
        /\ [row[s] EXCEPT !.version = Current(g)].version.file = g
    BY <2>3, <1>1
  <2> QED BY <1>2, <1>3, <2>1, <2>2, <2>4, RecordAssumption DEF SameFiles
<1>4. CASE ~(row[s] # None /\ row[s].path = p)
  BY <1>2, <1>4 DEF Reread, SameFiles
<1> QED BY <1>3, <1>4

LEMMA SameFilesStore ==
    ASSUME TypeOK, Store, at' = at, journal' = journal, claim' = claim, request' = request, SameFiles
    PROVE  Store'
<1>1. \A f : InUse(f)' <=> InUse(f)
  BY DEF InUse, SameFiles
<1>2. \A o : /\ (Row(o)' <=> Row(o)) /\ (Publishes(o)' <=> Publishes(o)) /\ (Deletes(o)' <=> Deletes(o))
             /\ (Pending(o)' <=> Pending(o)) /\ (Done(o)' <=> Done(o)) /\ OldFile(o)' = OldFile(o)
  BY DEF Row, Publishes, Deletes, Pending, Done, OldFile
<1>3. \A f, p : (Proper(f, p)' <=> Proper(f, p)) /\ (Home(f, p)' <=> Home(f, p))
  BY <1>2 DEF Proper, Home, HiddenBy, ExchangedBy
<1>4. JournalInv'
  BY <1>1, <1>2, <1>3 DEF Store, JournalInv
<1>5. RowsInv' /\ HomesInv'
  BY <1>3 DEF Store, RowsInv, HomesInv, SameFiles
<1>6. OneLink' /\ PublicInv' /\ TempInv' /\ TrashInv' /\ GuardInv'
  BY <1>1, <1>2 DEF Store, OneLink, PublicInv, TempInv, TrashInv, GuardInv
<1> QED BY <1>4, <1>5, <1>6 DEF Store

-----------------------------------------------------------------------------
(* The transaction. *)

LEMMA CommitFacts ==
    ASSUME FilesInv, op.pc = "commit"
    PROVE  /\ mode = "serving" /\ op.key \in Keys /\ request[op.key] \in Request
           /\ R.setup \in Setups /\ claim[op.key] = "in_progress" /\ op.key \notin waiting
           /\ op.put \in Ops \cup {None} /\ op.del \in Ops \cup {None}
           /\ op.put # None =>
                 /\ Publishes(op.put) /\ Pending(op.put) /\ Applied(op.put) /\ Exposed(op.put)
                 /\ journal[op.put].key = op.key /\ journal[op.put].path = R.path /\ R.kind = "put"
                 /\ journal[op.put].result \in Version /\ journal[op.put].result.file = op.put
                 /\ R.path \in Paths
           /\ op.del # None =>
                 /\ Deletes(op.del) /\ Pending(op.del) /\ Applied(op.del)
                 /\ at[Trash(op.del)] = OldFile(op.del) /\ journal[op.del].key = op.key
           /\ op.put = None => op.del # None /\ R.kind = "delete" /\ Existing # None
           /\ Existing # None =>
                 \/ op.del # None /\ Existing.version.file = OldFile(op.del)
                 \/ op.put # None /\ journal[op.put].expected # None /\ Existing.version.file = OldFile(op.put)
           /\ op.put # None /\ journal[op.put].expected # None =>
                 Existing # None /\ Existing.version.file = OldFile(op.put)
           /\ op.del # None => Existing # None /\ Existing.version.file = OldFile(op.del)
<1>1. TypeOK /\ RequestInv /\ ModeInv /\ HolderInv /\ ForwardInv /\ PutInv /\ DelInv
  BY DEF FilesInv, OpInv
<1>2. mode = "serving" /\ op # Idle /\ op.key # None
  BY <1>1 DEF ModeInv, Idle, Starting, TypeOK
<1>3. /\ op.key \in Keys /\ op.put \in Ops \cup {None} /\ op.del \in Ops \cup {None}
      /\ request[op.key] \in Request /\ R = request[op.key]
  BY <1>1, <1>2 DEF TypeOK, Op, HolderInv, R
<1>4. R.setup \in Setups /\ R.path \in Paths \cup {None}
  BY <1>3 DEF Request
<1>5. op.pc \in Forward /\ Trying
  BY DEF Forward, Trying
<1>6. ASSUME op.put # None
      PROVE  /\ Publishes(op.put) /\ Pending(op.put) /\ Applied(op.put) /\ Exposed(op.put)
             /\ journal[op.put].key = op.key /\ journal[op.put].path = R.path /\ R.kind = "put"
             /\ journal[op.put].result \in Version /\ journal[op.put].result.file = op.put
             /\ R.path \in Paths
  <2>1. journal[op.put] \in JournalRow
    BY <1>1, <1>2, <1>3, <1>6, NamesTyped DEF HolderInv, Publishes
  <2>2. journal[op.put].result \in Version \cup {None} /\ journal[op.put].path \in Paths
    BY <2>1 DEF JournalRow
  <2> QED BY <1>1, <1>2, <1>6, <2>2 DEF HolderInv, PutInv
<1>7. op.del # None =>
         /\ Deletes(op.del) /\ Pending(op.del) /\ Applied(op.del)
         /\ at[Trash(op.del)] = OldFile(op.del) /\ journal[op.del].key = op.key
  BY <1>1, <1>2 DEF HolderInv, DelInv, Quarantined
<1>8. claim[op.key] = "in_progress" /\ op.key \notin waiting
  BY <1>1, <1>2, <1>5 DEF HolderInv
<1>9. /\ op.put = None => op.del # None /\ R.kind = "delete" /\ Existing # None
      /\ Existing # None =>
            \/ op.del # None /\ Existing.version.file = OldFile(op.del)
            \/ op.put # None /\ journal[op.put].expected # None /\ Existing.version.file = OldFile(op.put)
      /\ op.put # None /\ journal[op.put].expected # None =>
            Existing # None /\ Existing.version.file = OldFile(op.put)
      /\ op.del # None => Existing # None /\ Existing.version.file = OldFile(op.del)
  BY <1>1, <1>5 DEF ForwardInv
<1> QED BY <1>2, <1>3, <1>4, <1>6, <1>7, <1>8, <1>9

LEMMA CommitRow ==
    ASSUME FilesInv, Commit
    PROVE  /\ \A s \in Setups : s # R.setup => row'[s] = row[s]
           /\ op.put = None => row'[R.setup] = None
           /\ op.put # None =>
                 /\ row'[R.setup] # None /\ row'[R.setup].path = R.path
                 /\ row'[R.setup].version.file = op.put
           /\ row' \in [Setups -> [path : Paths, version : Version] \cup {None}]
           /\ revision' \in [Setups -> Nat]
           /\ journal' \in [Ops -> JournalRow \cup {None}]
           /\ \A o \in Ops : (Row(o)' <=> Row(o))
           /\ \A o \in Ops : Row(o) =>
                 /\ journal'[o].kind = journal[o].kind /\ journal'[o].key = journal[o].key
                 /\ journal'[o].path = journal[o].path /\ journal'[o].expected = journal[o].expected
                 /\ journal'[o].prepared = journal[o].prepared
                 /\ o \notin {op.put, op.del} => journal'[o] = journal[o]
                 /\ o \in {op.put, op.del} => journal'[o].state = "db_applied"
           /\ claim' = [claim EXCEPT ![op.key] = "completed"] /\ request' = request /\ at' = at
<1>1. /\ row \in [Setups -> [path : Paths, version : Version] \cup {None}] /\ revision \in [Setups -> Nat]
      /\ journal \in [Ops -> JournalRow \cup {None}]
  BY DEF FilesInv, TypeOK
<1>2. op.pc = "commit" /\ request' = request /\ at' = at /\ claim' = [claim EXCEPT ![op.key] = "completed"]
  BY DEF Commit, At, SetClaim, disk
<1>3. row' = [row EXCEPT ![R.setup] =
                  IF op.put = None THEN None ELSE [path |-> R.path, version |-> journal[op.put].result]]
      /\ revision' = [revision EXCEPT ![R.setup] = @ + 1]
  BY DEF Commit
<1>4. /\ \A s \in Setups : s # R.setup => row'[s] = row[s]
      /\ op.put = None => row'[R.setup] = None
      /\ op.put # None =>
            /\ row'[R.setup] # None /\ row'[R.setup].path = R.path
            /\ row'[R.setup].version.file = op.put
      /\ row' \in [Setups -> [path : Paths, version : Version] \cup {None}]
      /\ revision' \in [Setups -> Nat]
  <2>1. ASSUME op.put # None
        PROVE  [path |-> R.path, version |-> journal[op.put].result] \in [path : Paths, version : Version]
    BY <2>1, <1>2, CommitFacts
  <2> QED BY <1>1, <1>2, <1>3, <2>1, CommitFacts, RecordAssumption
<1>5. journal' = [o \in Ops |-> IF o \in {op.put, op.del} /\ journal[o].state = "storage_applied"
                                THEN [journal[o] EXCEPT !.state = "db_applied"] ELSE journal[o]]
  BY DEF Commit
<1>6. \A o \in Ops : o \in {op.put, op.del} => Row(o) /\ journal[o].state = "storage_applied"
  BY <1>2, CommitFacts, OpsAreNot DEF Applied, Publishes, Deletes
<1>7. \A o \in Ops : Row(o) => journal[o] \in JournalRow
  BY <1>1 DEF Row
<1>8. ASSUME NEW o \in Ops, o \in {op.put, op.del}
      PROVE  /\ journal'[o] \in JournalRow /\ journal'[o] # None
             /\ journal'[o].kind = journal[o].kind /\ journal'[o].key = journal[o].key
             /\ journal'[o].path = journal[o].path /\ journal'[o].expected = journal[o].expected
             /\ journal'[o].prepared = journal[o].prepared /\ journal'[o].state = "db_applied"
  <2>1. journal'[o] = [journal[o] EXCEPT !.state = "db_applied"] /\ journal[o] \in JournalRow
    BY <1>5, <1>6, <1>7, <1>8
  <2>2. journal'[o] \in JournalRow
    BY <2>1 DEF JournalRow
  <2> QED BY <2>1, <2>2, RecordAssumption DEF JournalRow
<1>9. \A o \in Ops : o \notin {op.put, op.del} => journal'[o] = journal[o]
  BY <1>5
<1>10. journal' \in [Ops -> JournalRow \cup {None}]
  <2>1. \A o \in Ops : journal'[o] \in JournalRow \cup {None}
    BY <1>1, <1>8, <1>9
  <2> QED BY <1>5, <2>1
<1>11. \A o \in Ops : Row(o)' <=> Row(o)
  BY <1>6, <1>8, <1>9 DEF Row
<1> QED BY <1>2, <1>4, <1>8, <1>9, <1>10, <1>11

LEMMA CommitStore ==
    ASSUME FilesInv, Commit
    PROVE  Store'
<1>1. TypeOK /\ Store /\ op.pc = "commit"
  BY DEF FilesInv, Commit, At
<1>2. PICK u, d, k, S, p, e : /\ u = op.put /\ d = op.del /\ k = op.key
                              /\ S = R.setup /\ p = R.path /\ e = Existing.version.file
  OBVIOUS
<1>3. /\ S \in Setups /\ k \in Keys /\ u \in Ops \cup {None} /\ d \in Ops \cup {None}
      /\ u # None => /\ u \in Ops /\ Publishes(u) /\ Pending(u) /\ Row(u) /\ Exposed(u) /\ journal[u].key = k
                     /\ journal[u].path = p /\ p \in Paths
      /\ d # None => /\ d \in Ops /\ Deletes(d) /\ Pending(d) /\ Row(d) /\ journal[d].key = k
                     /\ at[Trash(d)] = OldFile(d) /\ row[S] # None /\ e = OldFile(d)
      /\ u = None => d # None
      /\ row[S] # None => \/ d # None /\ e = OldFile(d)
                          \/ u # None /\ journal[u].expected # None /\ e = OldFile(u)
      /\ u # None /\ journal[u].expected # None => row[S] # None /\ e = OldFile(u)
      /\ row[S] # None => e = row[S].version.file
  BY <1>1, <1>2, CommitFacts DEF Existing, Publishes, Deletes
<1>4. /\ \A s \in Setups : s # S => row'[s] = row[s]
      /\ u = None => row'[S] = None
      /\ u # None => row'[S] # None /\ row'[S].path = p /\ row'[S].version.file = u
      /\ at' = at /\ request' = request /\ claim' = [claim EXCEPT ![k] = "completed"]
  BY <1>2, CommitRow
<1>5. /\ \A o \in Ops : (Row(o)' <=> Row(o))
      /\ \A o \in Ops : Row(o) =>
            /\ journal'[o].kind = journal[o].kind /\ journal'[o].key = journal[o].key
            /\ journal'[o].path = journal[o].path /\ journal'[o].expected = journal[o].expected
            /\ o \notin {u, d} => journal'[o] = journal[o]
            /\ o \in {u, d} => journal'[o].state = "db_applied"
  BY <1>2, CommitRow
<1>6. \A o \in Ops : /\ (Publishes(o)' <=> Publishes(o)) /\ (Deletes(o)' <=> Deletes(o))
                     /\ (Row(o) => OldFile(o)' = OldFile(o) /\ Target(o)' = Target(o))
                     /\ (Pending(o)' <=> Pending(o) /\ o \notin {u, d})
                     /\ (Done(o)' <=> Done(o) \/ o \in {u, d})
  <2>1. \A o \in Ops : o \in {u, d} => Row(o) /\ Pending(o)
    BY <1>3, OpsAreNot
  <2> QED BY <2>1, <1>5 DEF Row, Publishes, Deletes, OldFile, Target, Pending, Done
<1>7. /\ \A f : InUse(f)' => InUse(f) \/ (u # None /\ f = u)
      /\ \A f : InUse(f) => InUse(f)' \/ (row[S] # None /\ f = e)
      /\ u # None => InUse(u)'
  BY <1>3, <1>4 DEF InUse
<1>8. row[S] # None => ~InUse(e)'
  <2> SUFFICES ASSUME row[S] # None, NEW s \in Setups, row'[s] # None, row'[s].version.file = e
      PROVE  FALSE
    BY DEF InUse
  <2>1. CASE s = S
    BY <1>1, <1>3, <1>4, <2>1, RowFile
  <2>2. CASE s # S
    BY <1>1, <1>3, <1>4, <2>2, OneRowPerFile
  <2> QED BY <2>1, <2>2
<1>9. \A f, q : Proper(f, q) => Proper(f, q)'
  <2> SUFFICES ASSUME NEW f, NEW q, Proper(f, q) PROVE Proper(f, q)'
    OBVIOUS
  <2>1. f \in Ops /\ Row(f)
    BY DEF Proper, Done
  <2> QED BY <2>1, <1>5, <1>6 DEF Proper
<1>10. u # None => Proper(u, p)'
  BY <1>3, <1>5, <1>6 DEF Proper
<1>11. JournalInv'
  <2>1. ASSUME NEW o \in Ops, Row(o)
        PROVE  /\ request[journal[o].key] # None
               /\ Done(o)' => claim'[journal[o].key] = "completed"
               /\ journal[o].kind = "delete" => journal[o].expected # None
    <3>1. journal[o].key \in Keys /\ claim \in [Keys -> {"none", "in_progress", "completed", "failed", "conflict"}]
      BY <1>1, <2>1, NamesTyped DEF TypeOK
    <3>2. CASE Done(o)
      BY <1>1, <1>3, <1>4, <2>1, <3>1, <3>2 DEF Store, JournalInv
    <3>3. CASE o \in {u, d}
      BY <1>1, <1>3, <1>4, <2>1, <3>1, <3>3, OpsAreNot DEF Store, JournalInv
    <3>4. request[journal[o].key] # None /\ (journal[o].kind = "delete" => journal[o].expected # None)
      BY <1>1, <2>1 DEF Store, JournalInv
    <3> QED BY <1>6, <3>2, <3>3, <3>4
  <2>2. ASSUME NEW o \in Ops, Row(o), journal[o].expected # None
        PROVE  /\ Proper(OldFile(o), journal[o].path)'
               /\ Done(o)' => ~InUse(OldFile(o))'
    <3>1. PICK f, q : f = OldFile(o) /\ q = journal[o].path
      OBVIOUS
    <3>2. Proper(f, q) /\ ~Pending(f) /\ (Done(o) => ~InUse(f))
      BY <1>1, <2>2, <3>1, OldFileIs
    <3>3. u # None => f # u
      BY <1>3, <3>2
    <3>4. OldFile(o)' = f /\ journal'[o].path = q
      BY <1>5, <1>6, <2>2, <3>1
    <3>5. ASSUME o \in {u, d} PROVE ~InUse(f)'
      <4>1. row[S] # None /\ e = f
        BY <1>3, <2>2, <3>1, <3>5, OpsAreNot
      <4> QED BY <4>1, <1>8
    <3>6. ASSUME Done(o) PROVE ~InUse(f)'
      BY <1>7, <3>2, <3>3, <3>6
    <3> QED BY <1>6, <1>9, <3>2, <3>4, <3>5, <3>6
  <2> QED BY <1>4, <1>5, <2>1, <2>2 DEF JournalInv
<1>12. RowsInv'
  <2>1. ASSUME NEW s \in Setups, row'[s] # None PROVE Proper(row[s].version.file, row[s].path)'
    BY <1>1, <1>4, <1>9, <1>10, <2>1 DEF Store, RowsInv
  <2>2. ASSUME NEW s \in Setups, NEW t \in Setups, row'[s] # None, row'[t] # None, row'[s].path = row'[t].path
        PROVE  s = t
    <3>1. u # None => ~\E q \in Setups \ {S} : row[q] # None /\ row[q].path = p
      BY <1>2 DEF Commit, Taken
    <3> QED BY <1>1, <1>4, <2>2, <3>1 DEF Store, RowsInv
  <2> QED BY <2>1, <2>2 DEF RowsInv
<1>13. OneLink'
  <2>1. \A x \in Places : at[x] # None => at[x] \in Ops
    BY <1>1, PlacedFile
  <2> QED BY <1>1, <1>4, <1>6, <2>1 DEF Store, OneLink
(* The old file of the setup is at a hidden name, the new one at its path. *)
<1>14. \A x \in Places : row[S] # None /\ at[x] = e =>
          \/ d # None /\ x = Trash(d)
          \/ u # None /\ journal[u].expected # None /\ x = Temp(u)
  <2> SUFFICES ASSUME NEW x \in Places, row[S] # None, at[x] = e
      PROVE  \/ d # None /\ x = Trash(d)
             \/ u # None /\ journal[u].expected # None /\ x = Temp(u)
    OBVIOUS
  <2>1. e # None
    BY <1>1, <1>3, RowFile
  <2>2. CASE d # None /\ e = OldFile(d)
    BY <1>1, <1>3, <2>1, <2>2, PlacedFile, PlacesApart
  <2>3. CASE u # None /\ journal[u].expected # None /\ e = OldFile(u)
    BY <1>1, <1>3, <2>1, <2>3, PlacedFile, PlacesApart DEF Exposed
  <2> QED BY <1>3, <2>2, <2>3
<1>15. u # None => Target(u) \in Places /\ Target(u) = Public(p) /\ at[Target(u)] = u
                   /\ \A x \in Places : at[x] = u => x = Target(u)
  BY <1>1, <1>3, PlacedFile, NamesTyped, OpsAreNot DEF Exposed
<1>16. PublicInv'
  <2> SUFFICES ASSUME NEW q \in Paths, at[Public(q)] # None
      PROVE  (journal[at[Public(q)]].path = q /\ (InUse(at[Public(q)]) \/ Pending(at[Public(q)])))'
    BY <1>4 DEF PublicInv
  <2>1. PICK f : f = at[Public(q)]
    OBVIOUS
  <2>2. f \in Ops /\ Row(f) /\ journal[f].path = q /\ (InUse(f) \/ Pending(f)) /\ Public(q) \in Places
    BY <1>1, <2>1, PlacedFile, PlacesApart DEF Store, PublicInv
  <2>3. ~(row[S] # None /\ f = e)
    BY <1>3, <1>14, <2>1, <2>2, PlacesApart
  <2>4. InUse(f)' \/ Pending(f)'
    <3>1. CASE f = u
      BY <1>7, <2>2, <3>1, OpsAreNot
    <3>2. CASE d # None /\ f = d
      BY <1>1, <1>3, <2>1, <2>2, <3>2, PlacedFile DEF Publishes, Deletes
    <3>3. CASE f # u /\ ~(d # None /\ f = d)
      BY <1>6, <1>7, <2>2, <2>3, <3>3, OpsAreNot
    <3> QED BY <3>1, <3>2, <3>3
  <2>5. at'[Public(q)] = f /\ journal'[f].path = q
    BY <1>4, <1>5, <2>1, <2>2
  <2> QED BY <2>4, <2>5
<1>17. TempInv'
  <2> SUFFICES ASSUME NEW o \in Ops, at[Temp(o)] # None
      PROVE  /\ Publishes(o)'
             /\ \/ at[Temp(o)] = o /\ Pending(o)'
                \/ at[Temp(o)] = OldFile(o)' /\ (Pending(o)' => InUse(at[Temp(o)])')
    BY <1>4 DEF TempInv
  <2>1. PICK f : f = at[Temp(o)]
    OBVIOUS
  <2>2. /\ Publishes(o) /\ Row(o) /\ Temp(o) \in Places
        /\ (f = o /\ Pending(o)) \/ (f = OldFile(o) /\ (Pending(o) => InUse(f)))
    BY <1>1, <2>1, PlacesApart DEF Store, TempInv, Publishes
  <2>3. d # None => o # d
    BY <1>3, <2>2 DEF Publishes, Deletes
  <2>4. CASE f = o /\ Pending(o)
    <3>1. o # u
      BY <1>3, <1>15, <2>1, <2>2, <2>4, NamesTyped, <1>1, OpsAreNot
    <3> QED BY <1>6, <2>1, <2>2, <2>3, <2>4, <3>1, OpsAreNot
  <2>5. CASE f = OldFile(o) /\ (Pending(o) => InUse(f))
    <3>1. CASE o = u
      BY <1>4, <1>6, <2>1, <2>2, <2>5, <3>1
    <3>2. CASE o # u
      <4>1. ~(row[S] # None /\ f = e)
        BY <1>3, <1>14, <2>1, <2>2, <3>2, PlacesApart
      <4>2. Pending(o) => InUse(f)'
        BY <1>7, <2>5, <4>1
      <4> QED BY <1>4, <1>6, <2>1, <2>2, <2>3, <2>5, <4>2, OpsAreNot
    <3> QED BY <3>1, <3>2
  <2> QED BY <2>2, <2>4, <2>5
<1>18. TrashInv'
  <2> SUFFICES ASSUME NEW o \in Ops, at[Trash(o)] # None
      PROVE  Deletes(o)' /\ at[Trash(o)] = OldFile(o)' /\ (Pending(o)' => InUse(at[Trash(o)])')
    BY <1>4 DEF TrashInv
  <2>1. PICK f : f = at[Trash(o)]
    OBVIOUS
  <2>2. /\ Deletes(o) /\ Row(o) /\ Trash(o) \in Places /\ f = OldFile(o) /\ (Pending(o) => InUse(f))
    BY <1>1, <2>1, PlacesApart DEF Store, TrashInv, Deletes
  <2>3. Pending(o) /\ ~(d # None /\ o = d) => ~(row[S] # None /\ f = e)
    BY <1>3, <1>14, <2>1, <2>2, PlacesApart
  <2>4. Pending(o) /\ ~(d # None /\ o = d) => InUse(f)'
    BY <1>7, <2>2, <2>3
  <2> QED BY <1>4, <1>6, <2>1, <2>2, <2>4, OpsAreNot
<1>19. GuardInv'
  <2> SUFFICES ASSUME NEW o \in Ops, at[Guard(o)] # None PROVE ~InUse(at[Guard(o)])'
    BY <1>4 DEF GuardInv
  <2>1. PICK f : f = at[Guard(o)]
    OBVIOUS
  <2>2. Guard(o) \in Places /\ ~InUse(f)
    BY <1>1, <2>1, PlacesApart DEF Store, GuardInv
  <2>3. ~(u # None /\ f = u)
    BY <1>3, <1>15, <2>1, <2>2, PlacesApart
  <2> QED BY <1>4, <1>7, <2>1, <2>2, <2>3
<1>20. HomesInv'
  <2> SUFFICES ASSUME NEW s \in Setups, row'[s] # None PROVE Home(row[s].version.file, row[s].path)'
    BY DEF HomesInv
  <2>1. PICK f, q : f = row'[s].version.file /\ q = row'[s].path
    OBVIOUS
  <2>2. CASE s = S
    <3>1. at'[Public(q)] = f
      BY <1>3, <1>4, <1>15, <2>1, <2>2
    <3> QED BY <3>1, <2>1 DEF Home
  <2>3. CASE s # S
    <3>1. row'[s] = row[s] /\ row[s] # None
      BY <1>4, <2>3
    <3>2. Home(f, q) /\ f # None /\ ~Pending(f) /\ f \in Ops /\ q \in Paths
      BY <1>1, <2>1, <3>1, RowFile
    <3>3. ~(row[S] # None /\ f = e)
      BY <1>1, <1>3, <2>1, <2>3, <3>1, OneRowPerFile
    <3>4. ASSUME NEW o \in Ops, HiddenBy(o, f) PROVE HiddenBy(o, f)'
      <4>1. ~(d # None /\ o = d)
        <5>1. SUFFICES ASSUME d # None, o = d PROVE FALSE
          OBVIOUS
        <5> QED BY <1>3, <3>3, <3>4, <5>1 DEF HiddenBy
      <4>2. o # u
        BY <1>3, <3>4, OpsAreNot DEF HiddenBy, Deletes, Publishes
      <4> QED BY <1>4, <1>6, <3>4, <4>1, <4>2, OpsAreNot DEF HiddenBy
    <3>5. ASSUME NEW o \in Ops, ExchangedBy(o, f, q) PROVE ExchangedBy(o, f, q)'
      <4>1. o # u
        <5>1. SUFFICES ASSUME o = u PROVE FALSE
          OBVIOUS
        <5>2. Publishes(u) /\ Temp(u) \in Places /\ at[Temp(u)] = f /\ u # None
          BY <3>5, <5>1, PlacesApart, OpsAreNot DEF ExchangedBy
        <5>3. f = OldFile(u) /\ f # u
          BY <1>1, <1>3, <3>2, <5>2 DEF Store, TempInv
        <5> QED BY <1>1, <1>3, <3>2, <3>3, <5>2, <5>3, NamesTyped
      <4>2. ~(d # None /\ o = d)
        BY <1>3, <3>5 DEF ExchangedBy, Publishes, Deletes
      <4> QED BY <1>4, <1>6, <3>5, <4>1, <4>2, OpsAreNot DEF ExchangedBy
    <3> QED BY <1>4, <2>1, <3>2, <3>4, <3>5 DEF Home
  <2> QED BY <2>2, <2>3
<1> QED BY <1>11, <1>12, <1>13, <1>16, <1>17, <1>18, <1>19, <1>20 DEF Store

-----------------------------------------------------------------------------
(* Where a step leads. *)

LEMMA GotoType ==
    ASSUME TypeOK, NEW pc \in Pcs, Goto(pc)
    PROVE  /\ op' \in Op
           /\ pc = "idle" => op' = Idle
           /\ pc # "idle" => /\ op'.pc = pc /\ op'.key = op.key /\ op'.put = op.put /\ op'.del = op.del
                             /\ op'.gc = None /\ op'.reread = op.reread
<1>1. op \in Op
  BY DEF TypeOK
<1>2. Idle \in Op
  BY DEF Idle, Op, Pcs
<1>3. CASE pc = "idle"
  BY <1>2, <1>3 DEF Goto
<1>4. CASE pc # "idle"
  BY <1>1, <1>4 DEF Goto, Op
<1> QED BY <1>3, <1>4

LEMMA RemoveType ==
    ASSUME TypeOK, NEW from \in Places, NEW of \in Ops, NEW then \in Pcs, NEW failed \in Pcs,
           Remove(from, of, then, failed)
    PROVE  /\ op' \in Op
           /\ op'.pc = "remove" /\ op'.key = op.key /\ op'.put = op.put /\ op'.del = op.del
           /\ op'.gc # None /\ op'.gc.from = from /\ op'.gc.of = of
           /\ op'.gc.then = then /\ op'.gc.failed = failed
<1>1. op \in Op
  BY DEF TypeOK
<1>2. [from |-> from, of |-> of, then |-> then, failed |-> failed] \in Removal
  BY DEF Removal
<1>3. None \notin Removal
  BY RecordAssumption
<1> QED BY <1>1, <1>2, <1>3 DEF Remove, Op, Pcs

LEMMA OpType ==
    ASSUME TypeOK
    PROVE  /\ op \in Op /\ op.key \in Keys \cup {None} /\ op.put \in Ops \cup {None} /\ op.del \in Ops \cup {None}
           /\ op.pc \in Pcs /\ op.gc \in Removal \cup {None}
           /\ op.gc # None => /\ op.gc.from \in Places /\ op.gc.of \in Ops
                              /\ op.gc.then \in Pcs /\ op.gc.failed \in Pcs
BY DEF TypeOK, Op, Removal

LEMMA BoundsType ==
    ASSUME TypeOK, Works \/ Fault
    PROVE  faults' \in 0 .. MaxFaults /\ crashes' \in 0 .. MaxCrashes
BY BoundsAssumption DEF TypeOK, Works, Fault, bounds

LEMMA UnusedFinite == IsFiniteSet(Unused) /\ Cardinality(Unused) \in Nat
<1>1. IsFiniteSet(Ops)
  BY BoundsAssumption, FS_Interval DEF Ops
<1> QED BY <1>1, FS_Subset, FS_CardinalityType DEF Unused

LEMMA CapacityKept ==
    ASSUME CapacityInv, waiting' = waiting, \A o \in Ops : Row(o)' <=> Row(o), op'.pc # "insertDelete"
    PROVE  CapacityInv'
<1>1. Unused' = Unused
  BY DEF Unused, Row
<1>2. Cardinality(Unused) \in Nat /\ Cardinality(waiting) \in Nat
  BY UnusedFinite, FS_CardinalityType DEF CapacityInv
<1> QED BY <1>1, <1>2 DEF CapacityInv

(* What a step owes the invariant, when it takes no lock and ends no start. *)
LEMMA Assemble ==
    ASSUME FilesInv, mode' = mode, request' = request, waiting' = waiting,
           claim' \in [Keys -> {"none", "in_progress", "completed", "failed", "conflict"}],
           \A k \in waiting : claim'[k] = claim[k],
           at' \in [Places -> Files \cup {None}], stamp' \in [Files -> Nat],
           row' \in [Setups -> [path : Paths, version : Version] \cup {None}], revision' \in [Setups -> Nat],
           journal' \in [Ops -> JournalRow \cup {None}], \A o \in Ops : Row(o)' <=> Row(o),
           Works \/ Fault, op' \in Op, op'.pc # "insertDelete", Store', OpInv'
    PROVE  FilesInv'
<1>1. TypeOK /\ RequestInv /\ CapacityInv
  BY DEF FilesInv
<1>2. TypeOK'
  BY <1>1, BoundsType DEF TypeOK
<1>3. RequestInv'
  BY <1>1 DEF RequestInv, TypeOK
<1> QED BY <1>1, <1>2, <1>3, CapacityKept DEF FilesInv

(* A step that changes nothing but who holds the lock, and one that moves files. *)
LEMMA AssembleMove ==
    ASSUME FilesInv, mode' = mode, JournalKept, waiting' = waiting, revision' = revision,
           at' \in [Places -> Files \cup {None}], stamp' \in [Files -> Nat],
           Works \/ Fault, op' \in Op, op'.pc # "insertDelete", Store', OpInv'
    PROVE  FilesInv'
<1>1. TypeOK
  BY DEF FilesInv
<1> QED BY <1>1, Assemble DEF JournalKept, Row, TypeOK

LEMMA AssembleQuiet ==
    ASSUME FilesInv, mode' = mode, JournalKept, waiting' = waiting, revision' = revision, disk' = disk,
           Works \/ Fault, op' \in Op, op'.pc # "insertDelete", OpInv'
    PROVE  FilesInv'
<1>1. TypeOK /\ Store /\ at' = at /\ stamp' = stamp
  BY DEF FilesInv, disk
<1>2. Store'
  BY <1>1, SameStore DEF JournalKept, ClaimsKept
<1> QED BY <1>1, <1>2, AssembleMove DEF TypeOK

(* The journal keeps what its rows say. *)
JournalNames == \A o \in Ops : Row(o) =>
    /\ Row(o)' /\ journal'[o].kind = journal[o].kind /\ journal'[o].key = journal[o].key
    /\ journal'[o].path = journal[o].path

(* A step of a request. *)
LEMMA ServingStep ==
    ASSUME FilesInv, mode = "serving", op # Idle, mode' = mode,
           request' = request, waiting' = waiting, JournalNames,
           op'.key = op.key, op'.put = op.put, op'.del = op.del,
           op'.pc \in Holding, Removing' => op'.gc # None, Trying' => Trying /\ claim' = claim,
           ForwardInv', PutInv', DelInv', AfterInv', RemovalInv'
    PROVE  OpInv'
<1>1. ModeInv /\ HolderInv /\ TypeOK
  BY DEF FilesInv, OpInv
<1>2. ModeInv'
  BY <1>1 DEF ModeInv, Removing
<1>3. HolderInv'
  <2>1. op.put \in Ops \cup {None} /\ op.del \in Ops \cup {None}
    BY <1>1, OpType
  <2>2. /\ op.put # None => Row(op.put)
        /\ op.del # None => Row(op.del)
    BY <1>1 DEF HolderInv, Publishes, Deletes
  <2>3. R' = R
    BY DEF R
  <2> QED BY <1>1, <2>1, <2>2, <2>3 DEF HolderInv, JournalNames, Publishes, Deletes
<1>4. StartInv' /\ UndoneInv'
  BY DEF StartInv, UndoneInv
<1> QED BY <1>2, <1>3, <1>4 DEF OpInv

(* A step of the recovery. *)
LEMMA StartingStep ==
    ASSUME FilesInv, mode = "recovering", mode' = mode,
           op'.key = op.key, op'.pc \in Starting, Removing' => op'.gc # None,
           StartInv', PutInv', DelInv', AfterInv', UndoneInv', RemovalInv'
    PROVE  OpInv'
<1>1. ModeInv
  BY DEF FilesInv, OpInv
<1>2. ModeInv'
  BY <1>1 DEF ModeInv, Removing
<1>3. HolderInv'
  BY DEF HolderInv
<1>4. ForwardInv'
  BY DEF ForwardInv, Starting, Forward
<1> QED BY <1>2, <1>3, <1>4 DEF OpInv

(* Giving up: the answer of an error, the end, and the end of the start. *)
LEMMA ToFinish ==
    ASSUME FilesInv, mode = "serving", op # Idle, mode' = mode, Trying,
           request' = request, claim' = claim, waiting' = waiting, JournalNames,
           op'.key = op.key, op'.put = op.put, op'.del = op.del, op'.pc = "finish"
    PROVE  OpInv'
<1>1. op'.pc \in Holding /\ (Removing' => op'.gc # None)
  BY DEF Holding, Removing
<1>2. ForwardInv' /\ PutInv' /\ DelInv' /\ AfterInv' /\ RemovalInv'
  BY DEF ForwardInv, PutInv, DelInv, AfterInv, RemovalInv, Forward, After, Removing
<1> QED BY <1>1, <1>2, ServingStep

LEMMA ToIdle ==
    ASSUME mode' # "recovering", op' = Idle
    PROVE  OpInv'
<1>1. op'.pc = "idle"
  BY DEF Idle
<1> QED BY <1>1 DEF OpInv, ModeInv, HolderInv, ForwardInv, StartInv, PutInv, DelInv, AfterInv, UndoneInv,
                    RemovalInv, Forward, After, Removing, Trying, Undoing

LEMMA ToRefuse ==
    ASSUME FilesInv, mode = "recovering", mode' = mode, op'.key = op.key, op'.pc \in {"recover", "refuse"}
    PROVE  OpInv'
<1>1. op'.pc \in Starting /\ (Removing' => op'.gc # None)
  BY DEF Starting, Removing
<1>2. StartInv' /\ PutInv' /\ DelInv' /\ AfterInv' /\ UndoneInv' /\ RemovalInv'
  BY DEF StartInv, PutInv, DelInv, AfterInv, UndoneInv, RemovalInv, After, Removing
<1> QED BY <1>1, <1>2, StartingStep

-----------------------------------------------------------------------------
(* The steps of a request. *)

LEMMA AtServing ==
    ASSUME FilesInv, op.pc \in (Forward \cup Undoing \cup After \cup {"finish"}) \ {"restored", "unpublished"}
    PROVE  /\ mode = "serving" /\ op # Idle /\ op.key \in Keys /\ request[op.key] \in Request
           /\ R.setup \in Setups /\ R = request[op.key]
           /\ op.pc \in Forward \cup Undoing \cup {"finish"} =>
                 Trying /\ claim[op.key] = "in_progress" /\ op.key \notin waiting
<1>1. TypeOK /\ ModeInv /\ HolderInv
  BY DEF FilesInv, OpInv
<1>2. mode = "serving" /\ op # Idle /\ op.key # None
  BY <1>1 DEF ModeInv, Idle, Forward, Undoing, After, Starting, TypeOK
<1>3. op.key \in Keys /\ request[op.key] \in Request /\ R = request[op.key]
  BY <1>1, <1>2, OpType DEF TypeOK, HolderInv, R
<1>4. op.pc \in Forward \cup Undoing \cup {"finish"} => Trying
  BY DEF Trying
<1> QED BY <1>1, <1>2, <1>3, <1>4 DEF Request, HolderInv

(* The publication and the delete of the holder. *)
LEMMA HolderRows ==
    ASSUME FilesInv, mode = "serving", op # Idle
    PROVE  /\ op.put # None => /\ op.put \in Ops /\ Publishes(op.put) /\ Row(op.put) /\ journal[op.put] \in JournalRow
                               /\ Target(op.put) \in Places /\ Target(op.put) # Temp(op.put)
                               /\ Temp(op.put) \in Places /\ journal[op.put].key = op.key
                               /\ journal[op.put].path = R.path /\ R.kind = "put"
           /\ op.del # None => /\ op.del \in Ops /\ Deletes(op.del) /\ Row(op.del) /\ journal[op.del] \in JournalRow
                               /\ Target(op.del) \in Places /\ Target(op.del) # Trash(op.del)
                               /\ Trash(op.del) \in Places /\ journal[op.del].key = op.key
                               /\ journal[op.del].expected # None
<1>1. TypeOK /\ HolderInv /\ Store
  BY DEF FilesInv, OpInv
<1>2. /\ op.put # None => op.put \in Ops /\ Publishes(op.put) /\ Row(op.put)
                          /\ journal[op.put].key = op.key /\ journal[op.put].path = R.path /\ R.kind = "put"
      /\ op.del # None => op.del \in Ops /\ Deletes(op.del) /\ Row(op.del) /\ journal[op.del].key = op.key
                          /\ journal[op.del].expected # None
  BY <1>1, OpType DEF HolderInv, Publishes, Deletes, Store, JournalInv
<1> QED BY <1>1, <1>2, NamesTyped, PlacesApart

SameDirectory == at' = at /\ journal' = journal /\ row' = row /\ request' = request

(* What the stages say of an unchanged directory. *)
LEMMA SameStage ==
    ASSUME SameDirectory
    PROVE  /\ \A o : /\ (Row(o)' <=> Row(o)) /\ (Publishes(o)' <=> Publishes(o)) /\ (Deletes(o)' <=> Deletes(o))
                     /\ (Pending(o)' <=> Pending(o)) /\ (Done(o)' <=> Done(o)) /\ (Nowhere(o)' <=> Nowhere(o))
                     /\ (Exposed(o)' <=> Exposed(o)) /\ (Applied(o)' <=> Applied(o))
                     /\ (Quarantined(o)' <=> Quarantined(o)) /\ (OldAtTarget(o)' <=> OldAtTarget(o))
                     /\ OldFile(o)' = OldFile(o) /\ Target(o)' = Target(o)
           /\ op'.key = op.key => R' = R /\ Existing' = Existing
           /\ JournalNames
BY DEF SameDirectory, Row, Publishes, Deletes, Pending, Done, Nowhere, Exposed, Applied, Quarantined, OldAtTarget,
       OldFile, Target, R, Existing, JournalNames

LEMMA VerifyStep ==
    ASSUME FilesInv, Verify
    PROVE  FilesInv'
<1>1. /\ op.pc = "verify" /\ mode' = mode /\ JournalKept /\ waiting' = waiting /\ revision' = revision
      /\ disk' = disk /\ (Works \/ Fault) /\ SameDirectory
      /\ Goto("apply") \/ Goto("finish") \/ Goto("unpublish")
  BY DEF Verify, At, JournalKept, SameDirectory, disk, rows
<1>2. TypeOK /\ ForwardInv /\ PutInv /\ mode = "serving" /\ op # Idle /\ Trying
  BY <1>1, AtServing DEF FilesInv, OpInv, Forward
<1>3. /\ op'.key = op.key /\ op'.put = op.put /\ op'.del = op.del /\ op' \in Op
      /\ op'.pc \in {"apply", "finish", "unpublish"}
  BY <1>1, <1>2, GotoType DEF Pcs
<1>4. OpInv'
  <2>1. CASE op'.pc = "finish"
    BY <1>1, <1>2, <1>3, <2>1, ToFinish, SameStage DEF JournalKept
  <2>2. CASE op'.pc \in {"apply", "unpublish"}
    <3>1. op'.pc \in Holding /\ ~Removing'
      BY <2>2 DEF Holding, Forward, Undoing, Removing
    <3>2. ForwardInv' /\ PutInv'
      BY <1>1, <1>2, <1>3, <2>2, SameStage DEF ForwardInv, PutInv, Forward, SameDirectory
    <3>3. DelInv' /\ AfterInv' /\ RemovalInv'
      BY <2>2, <3>1 DEF DelInv, AfterInv, RemovalInv, After
    <3> QED BY <1>1, <1>2, <1>3, <3>1, <3>2, <3>3, ServingStep, SameStage DEF JournalKept
  <2> QED BY <1>3, <2>1, <2>2
<1> QED BY <1>1, <1>3, <1>4, AssembleQuiet

LEMMA SetStateIs ==
    ASSUME TypeOK, NEW o \in Ops, Row(o),
           NEW st \in {"intent", "storage_applied", "db_applied", "completed", "failed"}, SetState(o, st)
    PROVE  /\ journal' \in [Ops -> JournalRow \cup {None}]
           /\ \A q \in Ops : (Row(q)' <=> Row(q)) /\ (q # o => journal'[q] = journal[q])
           /\ journal'[o].state = st
           /\ journal'[o].kind = journal[o].kind /\ journal'[o].key = journal[o].key
           /\ journal'[o].path = journal[o].path /\ journal'[o].expected = journal[o].expected
           /\ JournalNames
<1>1. journal \in [Ops -> JournalRow \cup {None}] /\ journal[o] \in JournalRow
  BY NamesTyped DEF TypeOK
<1>2. PICK r : r = [journal[o] EXCEPT !.state = st]
  OBVIOUS
<1>3. r \in JournalRow /\ r # None /\ r.state = st /\ r.kind = journal[o].kind /\ r.key = journal[o].key
      /\ r.path = journal[o].path /\ r.expected = journal[o].expected
  BY <1>1, <1>2, RecordAssumption DEF JournalRow
<1>4. journal' = [journal EXCEPT ![o] = r]
  BY <1>1, <1>2 DEF SetState
<1>5. journal' \in [Ops -> JournalRow \cup {None}] /\ journal'[o] = r
      /\ \A q \in Ops : q # o => journal'[q] = journal[q]
  BY <1>1, <1>3, <1>4
<1> QED BY <1>3, <1>5 DEF Row, JournalNames

(* Any change of the journal that keeps what its rows say and where the files are. *)
LEMMA OthersKept ==
    ASSUME NEW o \in Ops, \A q \in Ops : q # o => journal'[q] = journal[q]
    PROVE  \A q \in Ops : q # o =>
              /\ (Row(q)' <=> Row(q)) /\ (Publishes(q)' <=> Publishes(q)) /\ (Deletes(q)' <=> Deletes(q))
              /\ (Pending(q)' <=> Pending(q)) /\ (Done(q)' <=> Done(q))
              /\ (Applied(q)' <=> Applied(q)) /\ OldFile(q)' = OldFile(q) /\ Target(q)' = Target(q)
BY DEF Row, Publishes, Deletes, Pending, Done, Applied, OldFile, Target

LEMMA AssembleJournal ==
    ASSUME FilesInv, mode' = mode, request' = request, claim' = claim, waiting' = waiting,
           disk' = disk, rows' = rows,
           journal' \in [Ops -> JournalRow \cup {None}], \A o \in Ops : Row(o)' <=> Row(o),
           Works \/ Fault, op' \in Op, op'.pc # "insertDelete", Store', OpInv'
    PROVE  FilesInv'
<1>1. TypeOK /\ at' = at /\ stamp' = stamp /\ row' = row /\ revision' = revision
  BY DEF FilesInv, disk, rows
<1> QED BY <1>1, Assemble DEF TypeOK

LEMMA ApplyStorageStep ==
    ASSUME FilesInv, ApplyStorage
    PROVE  FilesInv'
<1>1. /\ op.pc = "apply" /\ mode' = mode /\ request' = request /\ claim' = claim /\ waiting' = waiting
      /\ disk' = disk /\ rows' = rows /\ (Works \/ Fault) /\ at' = at /\ row' = row /\ revision' = revision
  BY DEF ApplyStorage, At, disk, rows
<1>2. TypeOK /\ Store /\ ForwardInv /\ PutInv /\ mode = "serving" /\ op # Idle /\ Trying /\ op.put # None
  BY <1>1, AtServing DEF FilesInv, OpInv, Forward, PutInv
<1>3. PICK u, d : u = op.put /\ d = op.del
  OBVIOUS
<1>4. /\ u \in Ops /\ u # None /\ Row(u) /\ Publishes(u) /\ Pending(u) /\ Exposed(u)
      /\ d # None => Row(d) /\ Deletes(d) /\ Pending(d) /\ d \in Ops /\ Existing # None
                     /\ Existing.version.file = OldFile(d)
  BY <1>1, <1>2, <1>3, HolderRows DEF PutInv, ForwardInv, Forward
<1>5. CASE journal' = journal /\ op' = [op EXCEPT !.pc = "unpublish", !.reread = TRUE]
  <2>1. op' \in Op /\ op'.pc = "unpublish" /\ op'.key = op.key /\ op'.put = op.put /\ op'.del = op.del
    BY <1>2, <1>5 DEF TypeOK, Op, Pcs
  <2>2. SameDirectory
    BY <1>1, <1>5 DEF SameDirectory
  <2>3. op'.pc \in Holding /\ ~Removing'
    BY <2>1 DEF Holding, Undoing, Removing
  <2>4. PutInv'
    BY <1>1, <1>2, <1>3, <1>4, <2>1, <2>2, SameStage DEF PutInv
  <2>5. ForwardInv' /\ DelInv' /\ AfterInv' /\ RemovalInv'
    BY <2>1, <2>3 DEF ForwardInv, DelInv, AfterInv, RemovalInv, After, Forward
  <2>6. OpInv'
    BY <1>1, <1>2, <2>1, <2>2, <2>3, <2>4, <2>5, SameStage, ServingStep
  <2> QED BY <1>1, <1>5, <2>1, <2>6, AssembleQuiet DEF JournalKept
<1>6. CASE /\ journal' = [journal EXCEPT ![op.put].state = "storage_applied", ![op.put].result = Current(op.put)]
           /\ op' = [op EXCEPT !.pc = IF op.del = None THEN "commit" ELSE "quarantine", !.reread = TRUE]
  <2>1. /\ op' \in Op /\ op'.key = op.key /\ op'.put = op.put /\ op'.del = op.del
        /\ op'.pc = (IF d = None THEN "commit" ELSE "quarantine")
    BY <1>2, <1>3, <1>6 DEF TypeOK, Op, Pcs
  <2>2. PICK r : r = [journal[u] EXCEPT !.state = "storage_applied", !.result = Current(u)]
    OBVIOUS
  <2>3. journal[u] \in JournalRow /\ Current(u) \in Version /\ Current(u).file = u /\ Current(u) # None
        /\ journal \in [Ops -> JournalRow \cup {None}]
    BY <1>2, <1>4, NamesTyped, RecordAssumption DEF TypeOK, Current, Version, Files
  <2>4. /\ r \in JournalRow /\ r # None /\ r.state = "storage_applied" /\ r.result = Current(u)
        /\ r.kind = journal[u].kind /\ r.key = journal[u].key /\ r.path = journal[u].path
        /\ r.expected = journal[u].expected
    <3>1. PICK v : v = Current(u)
      OBVIOUS
    <3>2. v \in Version /\ r = [journal[u] EXCEPT !.state = "storage_applied", !.result = v]
      BY <2>2, <2>3, <3>1
    <3>3. r \in JournalRow
      BY <2>3, <3>2 DEF JournalRow
    <3>4. r # None
      BY <3>3, RecordAssumption
    <3> QED BY <2>3, <3>1, <3>2, <3>3, <3>4 DEF JournalRow
  <2>5. journal' = [journal EXCEPT ![u] = r]
    BY <1>3, <1>4, <1>6, <2>2, <2>3
  <2>6. journal'[u] = r /\ (\A q \in Ops : q # u => journal'[q] = journal[q])
        /\ journal' \in [Ops -> JournalRow \cup {None}] /\ (\A q \in Ops : Row(q)' <=> Row(q)) /\ JournalNames
    BY <1>4, <2>3, <2>4, <2>5 DEF Row, JournalNames
  <2>7. Row(u)' /\ Pending(u)' /\ Publishes(u)' /\ Applied(u)' /\ Exposed(u)'
        /\ OldFile(u)' = OldFile(u)
    BY <1>1, <1>4, <2>4, <2>6 DEF Row, Pending, Publishes, Applied, Exposed, OldFile, Target
  <2>8. Store'
    BY <1>1, <1>2, <1>4, <2>4, <2>6, <2>7, StateStore DEF ClaimsKept
  <2>9. op'.pc \in Holding /\ ~Removing' /\ op'.pc \in {"commit", "quarantine"}
    BY <2>1 DEF Holding, Forward, Removing
  <2>10. d # None => d # u
    BY <1>4 DEF Publishes, Deletes
  <2>11. R' = R /\ Existing' = Existing
    BY <1>1, <2>1 DEF R, Existing
  <2>12. ForwardInv'
    <3>1. /\ u = None => d # None /\ R.kind = "delete"
          /\ journal[u].expected # None => Existing # None /\ Existing.version.file = OldFile(u)
          /\ journal[u].expected = None => IF d = None THEN Existing = None ELSE Existing # None
      BY <1>1, <1>2, <1>3, <1>4 DEF ForwardInv, Forward
    <3>2. d # None => Pending(d)' /\ OldFile(d)' = OldFile(d)
      BY <1>4, <2>6, <2>10, OthersKept
    <3>3. op'.put = u /\ op'.del = d /\ journal'[u].expected = journal[u].expected
      BY <1>3, <2>1, <2>4, <2>6
    <3> QED BY <1>4, <2>7, <2>9, <2>11, <3>1, <3>2, <3>3 DEF ForwardInv
  <2>13. PutInv' /\ DelInv'
    <3>1. op'.put = u /\ op'.del = d /\ journal'[u].result # None /\ journal'[u].result.file = u
      BY <1>3, <2>1, <2>3, <2>4, <2>6
    <3> QED BY <1>4, <2>1, <2>7, <2>9, <3>1 DEF PutInv, DelInv
  <2>14. AfterInv' /\ RemovalInv'
    BY <2>9 DEF AfterInv, RemovalInv, After
  <2>15. OpInv'
    BY <1>1, <1>2, <2>1, <2>6, <2>9, <2>12, <2>13, <2>14, ServingStep
  <2> QED BY <1>1, <2>1, <2>6, <2>8, <2>9, <2>15, AssembleJournal
<1> QED BY <1>5, <1>6 DEF ApplyStorage

LEMMA MarkDeleteStep ==
    ASSUME FilesInv, MarkDelete
    PROVE  FilesInv'
<1>1. /\ op.pc = "markDelete" /\ mode' = mode /\ request' = request /\ claim' = claim /\ waiting' = waiting
      /\ disk' = disk /\ rows' = rows /\ (Works \/ Fault) /\ at' = at /\ row' = row /\ revision' = revision
  BY DEF MarkDelete, At, disk, rows
<1>2. TypeOK /\ Store /\ ForwardInv /\ PutInv /\ DelInv /\ mode = "serving" /\ op # Idle /\ Trying /\ op.del # None
  BY <1>1, AtServing DEF FilesInv, OpInv, Forward, DelInv
<1>3. PICK u, d : u = op.put /\ d = op.del
  OBVIOUS
<1>4. /\ d \in Ops /\ d # None /\ Row(d) /\ Deletes(d) /\ Quarantined(d) /\ Pending(d)
      /\ Existing # None /\ Existing.version.file = OldFile(d)
      /\ u # None => /\ u \in Ops /\ Publishes(u) /\ Pending(u) /\ Exposed(u) /\ Applied(u)
                     /\ journal[u].result # None /\ journal[u].result.file = u
                     /\ (journal[u].expected # None => Existing.version.file = OldFile(u))
      /\ u = None => R.kind = "delete"
  BY <1>1, <1>2, <1>3, HolderRows DEF PutInv, DelInv, ForwardInv, Forward
<1>5. CASE journal' = journal /\ Goto("restore")
  <2>1. op' \in Op /\ op'.pc = "restore" /\ op'.key = op.key /\ op'.put = op.put /\ op'.del = op.del
    BY <1>2, <1>5, GotoType DEF Pcs
  <2>2. SameDirectory
    BY <1>1, <1>5 DEF SameDirectory
  <2>3. op'.pc \in Holding /\ ~Removing'
    BY <2>1 DEF Holding, Undoing, Removing
  <2>4. PutInv' /\ DelInv'
    BY <1>1, <1>2, <1>3, <1>4, <2>1, <2>2, SameStage DEF PutInv, DelInv
  <2>5. ForwardInv' /\ AfterInv' /\ RemovalInv'
    BY <2>1, <2>3 DEF ForwardInv, AfterInv, RemovalInv, After, Forward
  <2>6. OpInv'
    BY <1>1, <1>2, <2>1, <2>2, <2>3, <2>4, <2>5, SameStage, ServingStep
  <2> QED BY <1>1, <1>5, <2>1, <2>6, AssembleQuiet DEF JournalKept
<1>6. CASE SetState(op.del, "storage_applied") /\ Goto("commit")
  <2>1. op' \in Op /\ op'.pc = "commit" /\ op'.key = op.key /\ op'.put = op.put /\ op'.del = op.del
    BY <1>2, <1>6, GotoType DEF Pcs
  <2>2. SetState(d, "storage_applied")
    BY <1>3, <1>6
  <2>3. /\ journal' \in [Ops -> JournalRow \cup {None}] /\ JournalNames
        /\ \A q \in Ops : (Row(q)' <=> Row(q)) /\ (q # d => journal'[q] = journal[q])
        /\ journal'[d].state = "storage_applied"
        /\ journal'[d].kind = journal[d].kind /\ journal'[d].key = journal[d].key
        /\ journal'[d].path = journal[d].path /\ journal'[d].expected = journal[d].expected
    BY <1>2, <1>4, <2>2, SetStateIs
  <2>4. Row(d)' /\ Pending(d)' /\ Applied(d)' /\ OldFile(d)' = OldFile(d) /\ Quarantined(d)'
    BY <1>1, <1>4, <2>3 DEF Row, Pending, Applied, Quarantined, OldFile
  <2>5. Store'
    BY <1>1, <1>2, <1>4, <2>3, <2>4, StateStore DEF ClaimsKept
  <2>6. op'.pc \in Holding /\ ~Removing'
    BY <2>1 DEF Holding, Forward, Removing
  <2>7. u # None => u # d /\ Pending(u)' /\ Exposed(u)' /\ Applied(u)' /\ OldFile(u)' = OldFile(u)
                    /\ journal'[u] = journal[u]
    BY <1>1, <1>4, <2>3, OthersKept DEF Publishes, Deletes, Exposed
  <2>8. R' = R /\ Existing' = Existing /\ op'.put = u /\ op'.del = d
    BY <1>1, <1>3, <2>1 DEF R, Existing
  <2>9. ForwardInv' /\ PutInv' /\ DelInv'
    BY <1>4, <2>1, <2>4, <2>7, <2>8 DEF ForwardInv, PutInv, DelInv
  <2>10. AfterInv' /\ RemovalInv'
    BY <2>1, <2>6 DEF AfterInv, RemovalInv, After
  <2>11. OpInv'
    BY <1>1, <1>2, <2>1, <2>3, <2>6, <2>9, <2>10, ServingStep
  <2> QED BY <1>1, <2>1, <2>3, <2>5, <2>11, AssembleJournal
<1> QED BY <1>5, <1>6 DEF MarkDelete

(* Nothing is left of a delete that fails. *)
LEMMA FailDeleteStep ==
    ASSUME FilesInv, FailDelete
    PROVE  FilesInv'
<1>1. /\ op.pc = "failDelete" /\ mode' = mode /\ request' = request /\ claim' = claim /\ waiting' = waiting
      /\ disk' = disk /\ rows' = rows /\ (Works \/ Fault) /\ at' = at /\ row' = row /\ revision' = revision
      /\ Goto(UnwindPut)
  BY DEF FailDelete, At, disk, rows
<1>2. TypeOK /\ Store /\ PutInv /\ DelInv /\ mode = "serving" /\ op # Idle /\ Trying /\ op.del # None
  BY <1>1, AtServing DEF FilesInv, OpInv, Undoing, DelInv
<1>3. PICK u, d : u = op.put /\ d = op.del
  OBVIOUS
<1>4. /\ d \in Ops /\ d # None /\ Row(d) /\ Deletes(d) /\ Pending(d) /\ at[Trash(d)] = None
      /\ u # None => u \in Ops /\ Publishes(u) /\ Pending(u) /\ Exposed(u)
  BY <1>1, <1>2, <1>3, HolderRows DEF PutInv, DelInv
<1>5. /\ op' \in Op /\ op'.key = op.key /\ op'.put = op.put /\ op'.del = op.del
      /\ op'.pc = IF u = None THEN "finish" ELSE "unpublish"
  BY <1>1, <1>2, <1>3, GotoType DEF Pcs, UnwindPut
<1>6. /\ journal' \in [Ops -> JournalRow \cup {None}] /\ JournalNames
      /\ \A q \in Ops : (Row(q)' <=> Row(q)) /\ (q # d => journal'[q] = journal[q])
      /\ Store'
  <2>1. CASE journal' = journal
    BY <1>1, <1>2, <2>1, SameStore DEF TypeOK, JournalNames, Row, ClaimsKept
  <2>2. CASE SetState(d, "failed")
    <3>1. /\ journal' \in [Ops -> JournalRow \cup {None}] /\ JournalNames
          /\ \A q \in Ops : (Row(q)' <=> Row(q)) /\ (q # d => journal'[q] = journal[q])
          /\ journal'[d].state = "failed"
          /\ journal'[d].kind = journal[d].kind /\ journal'[d].key = journal[d].key
          /\ journal'[d].path = journal[d].path /\ journal'[d].expected = journal[d].expected
      BY <1>2, <1>4, <2>2, SetStateIs
    <3>2. Falls(d)
      BY <1>4, <3>1 DEF Falls, Publishes, Deletes
    <3> QED BY <1>1, <1>2, <1>4, <3>1, <3>2, StateStore DEF ClaimsKept
  <2> QED BY <1>3, <2>1, <2>2 DEF FailDelete
<1>7. OpInv'
  <2>1. CASE u = None
    BY <1>1, <1>2, <1>5, <1>6, <2>1, ToFinish
  <2>2. CASE u # None
    <3>1. op'.pc = "unpublish" /\ op'.pc \in Holding /\ ~Removing' /\ op'.put = u
      BY <1>3, <1>5, <2>2 DEF Holding, Undoing, Removing
    <3>2. Pending(u)' /\ Exposed(u)'
      <4>1. u # d
        BY <1>4, <2>2 DEF Publishes, Deletes
      <4> QED BY <1>1, <1>4, <1>6, <2>2, <4>1, OthersKept DEF Exposed
    <3>3. PutInv'
      BY <2>2, <3>1, <3>2 DEF PutInv
    <3>4. ForwardInv' /\ DelInv' /\ AfterInv' /\ RemovalInv'
      BY <3>1 DEF ForwardInv, DelInv, AfterInv, RemovalInv, After, Forward
    <3> QED BY <1>1, <1>2, <1>5, <1>6, <3>1, <3>3, <3>4, ServingStep
  <2> QED BY <2>1, <2>2
<1>8. op'.pc # "insertDelete"
  BY <1>5
<1> QED BY <1>1, <1>5, <1>6, <1>7, <1>8, AssembleJournal

LEMMA AbortStep ==
    ASSUME FilesInv, Abort
    PROVE  FilesInv'
<1>1. /\ op.pc = "commit" /\ mode' = mode /\ JournalKept /\ waiting' = waiting /\ revision' = revision
      /\ disk' = disk /\ (Works \/ Fault) /\ SameDirectory /\ Goto(Unwind)
  BY DEF Abort, At, JournalKept, SameDirectory, disk, rows
<1>2. TypeOK /\ ForwardInv /\ PutInv /\ DelInv /\ mode = "serving" /\ op # Idle /\ Trying
  BY <1>1, AtServing DEF FilesInv, OpInv, Forward
<1>3. /\ op'.key = op.key /\ op'.put = op.put /\ op'.del = op.del /\ op' \in Op
      /\ op'.pc = (IF op.del = None THEN "unpublish" ELSE "restore")
  BY <1>1, <1>2, GotoType DEF Pcs, Unwind
<1>4. op'.pc \in Holding /\ ~Removing' /\ op'.pc \in {"unpublish", "restore"}
  BY <1>3 DEF Holding, Undoing, Removing
<1>5. op.del = None => op.put # None
  BY <1>1, <1>2 DEF ForwardInv, Forward
<1>6. PutInv' /\ DelInv'
  BY <1>1, <1>2, <1>3, <1>5, SameStage DEF PutInv, DelInv
<1>7. ForwardInv' /\ AfterInv' /\ RemovalInv'
  BY <1>4 DEF ForwardInv, AfterInv, RemovalInv, After, Forward
<1>8. OpInv'
  BY <1>1, <1>2, <1>3, <1>4, <1>6, <1>7, ServingStep, SameStage DEF JournalKept
<1>9. op'.pc # "insertDelete"
  BY <1>4
<1> QED BY <1>1, <1>3, <1>8, <1>9, AssembleQuiet

(* After the transaction: what is removed is no longer of any row. *)
LEMMA CleanStep ==
    ASSUME FilesInv, Clean
    PROVE  FilesInv'
<1>1. /\ op.pc = "clean" /\ mode' = mode /\ JournalKept /\ waiting' = waiting /\ revision' = revision
      /\ disk' = disk /\ (Works \/ Fault) /\ SameDirectory
      /\ Goto("complete") \/ Remove(Temp(op.put), op.put, "complete", "idle") \/ Goto("idle")
  BY DEF Clean, At, JournalKept, SameDirectory, disk, rows
<1>2. TypeOK /\ Store /\ AfterInv /\ mode = "serving" /\ op # Idle
  BY <1>1, AtServing DEF FilesInv, OpInv, After
<1>3. /\ op.put # None /\ Done(op.put) /\ op.put \in Ops /\ Publishes(op.put) /\ Temp(op.put) \in Places
      /\ op.del # None => Done(op.del)
  BY <1>1, <1>2, HolderRows DEF AfterInv, After, Removing
<1>4. CASE Goto("idle")
  <2>1. op' = Idle /\ op' \in Op /\ op'.pc # "insertDelete"
    BY <1>2, <1>4, GotoType DEF Pcs, Idle
  <2> QED BY <1>1, <1>2, <2>1, ToIdle, AssembleQuiet
<1>5. CASE Goto("complete")
  <2>1. op' \in Op /\ op'.pc = "complete" /\ op'.key = op.key /\ op'.put = op.put /\ op'.del = op.del
    BY <1>2, <1>5, GotoType DEF Pcs
  <2>2. op'.pc \in Holding /\ ~Removing' /\ ~Trying'
    BY <2>1 DEF Holding, Undoing, Forward, After, Removing, Trying
  <2>3. AfterInv'
    BY <1>1, <1>3, <2>1, <2>2, SameStage DEF AfterInv
  <2>4. ForwardInv' /\ PutInv' /\ DelInv' /\ RemovalInv'
    BY <2>1, <2>2 DEF ForwardInv, PutInv, DelInv, RemovalInv, Forward
  <2>5. OpInv'
    BY <1>1, <1>2, <2>1, <2>2, <2>3, <2>4, ServingStep, SameStage DEF JournalKept
  <2> QED BY <1>1, <2>1, <2>5, AssembleQuiet
<1>6. CASE Remove(Temp(op.put), op.put, "complete", "idle")
  <2>a. PICK x, f : x = Temp(op.put) /\ f = op.put
    OBVIOUS
  <2>b. Remove(x, f, "complete", "idle")
    BY <1>6, <2>a DEF Remove
  <2>c. x \in Places /\ f \in Ops /\ "complete" \in Pcs /\ "idle" \in Pcs
    BY <1>3, <2>a DEF Pcs
  <2>1. /\ op' \in Op /\ op'.pc = "remove" /\ op'.key = op.key /\ op'.put = op.put /\ op'.del = op.del
        /\ op'.gc # None /\ op'.gc.from = Temp(op.put) /\ op'.gc.of = op.put
        /\ op'.gc.then = "complete" /\ op'.gc.failed = "idle"
    BY <1>2, <2>a, <2>b, <2>c, RemoveType
  <2>2. op'.pc \in Holding /\ ~Trying'
    BY <2>1 DEF Holding, Undoing, Forward, After, Removing, Trying
  <2>3. AfterInv'
    BY <1>1, <1>3, <2>1, <2>2, SameStage DEF AfterInv, Removing
  <2>4. ForwardInv' /\ PutInv' /\ DelInv'
    BY <2>1, <2>2 DEF ForwardInv, PutInv, DelInv, Forward
  <2>5. Removable(Temp(op.put), op.put)
    <3>1. at[Temp(op.put)] = None \/ (at[Temp(op.put)] = op.put /\ Pending(op.put)) \/ at[Temp(op.put)] = OldFile(op.put)
      BY <1>2, <1>3 DEF Store, TempInv
    <3> QED BY <1>3, <3>1 DEF Removable
  <2>6. RemovalInv'
    <3>1. Removable(x, f)'
      BY <1>1, <2>5, <2>a, SameStage DEF Removable, SameDirectory
    <3> QED BY <1>1, <1>2, <2>1, <2>a, <3>1 DEF RemovalInv, Removing
  <2>7. OpInv'
    BY <1>1, <1>2, <2>1, <2>2, <2>3, <2>4, <2>6, ServingStep, SameStage DEF JournalKept
  <2> QED BY <1>1, <2>1, <2>7, AssembleQuiet
<1> QED BY <1>1, <1>4, <1>5, <1>6

LEMMA DiscardStep ==
    ASSUME FilesInv, Discard
    PROVE  FilesInv'
<1>1. /\ op.pc = "discard" /\ mode' = mode /\ JournalKept /\ waiting' = waiting /\ revision' = revision
      /\ disk' = disk /\ (Works \/ Fault) /\ SameDirectory
      /\ Remove(Trash(op.del), op.del, "completeDelete", "idle") \/ Goto("idle")
  BY DEF Discard, At, JournalKept, SameDirectory, disk, rows
<1>2. TypeOK /\ Store /\ AfterInv /\ mode = "serving" /\ op # Idle
  BY <1>1, AtServing DEF FilesInv, OpInv, After
<1>3. /\ op.del # None /\ Done(op.del) /\ op.del \in Ops /\ Deletes(op.del) /\ Trash(op.del) \in Places
      /\ op.put # None => Done(op.put)
  BY <1>1, <1>2, HolderRows DEF AfterInv, After, Removing
<1>4. CASE Goto("idle")
  <2>1. op' = Idle /\ op' \in Op /\ op'.pc # "insertDelete"
    BY <1>2, <1>4, GotoType DEF Pcs, Idle
  <2> QED BY <1>1, <1>2, <2>1, ToIdle, AssembleQuiet
<1>6. CASE Remove(Trash(op.del), op.del, "completeDelete", "idle")
  <2>a. PICK x, f : x = Trash(op.del) /\ f = op.del
    OBVIOUS
  <2>b. Remove(x, f, "completeDelete", "idle")
    BY <1>6, <2>a DEF Remove
  <2>c. x \in Places /\ f \in Ops /\ "completeDelete" \in Pcs /\ "idle" \in Pcs
    BY <1>3, <2>a DEF Pcs
  <2>1. /\ op' \in Op /\ op'.pc = "remove" /\ op'.key = op.key /\ op'.put = op.put /\ op'.del = op.del
        /\ op'.gc # None /\ op'.gc.from = Trash(op.del) /\ op'.gc.of = op.del
        /\ op'.gc.then = "completeDelete" /\ op'.gc.failed = "idle"
    BY <1>2, <2>a, <2>b, <2>c, RemoveType
  <2>2. op'.pc \in Holding /\ ~Trying'
    BY <2>1 DEF Holding, Undoing, Forward, After, Removing, Trying
  <2>3. AfterInv'
    BY <1>1, <1>3, <2>1, <2>2, SameStage DEF AfterInv, Removing
  <2>4. ForwardInv' /\ PutInv' /\ DelInv'
    BY <2>1, <2>2 DEF ForwardInv, PutInv, DelInv, Forward
  <2>6. RemovalInv'
    <3>1. Removable(x, f)'
      BY <1>1, <1>3, <2>a, SameStage DEF Removable, SameDirectory
    <3> QED BY <1>1, <1>2, <2>1, <2>a, <3>1 DEF RemovalInv, Removing
  <2>7. OpInv'
    BY <1>1, <1>2, <2>1, <2>2, <2>3, <2>4, <2>6, ServingStep, SameStage DEF JournalKept
  <2> QED BY <1>1, <2>1, <2>7, AssembleQuiet
<1> QED BY <1>1, <1>4, <1>6

(* The journal row of a committed operation is closed. *)
LEMMA ClosedRow ==
    ASSUME FilesInv, NEW o \in Ops, Done(o), at' = at, row' = row, claim' = claim, request' = request,
           journal' = journal \/ SetState(o, "completed")
    PROVE  /\ journal' \in [Ops -> JournalRow \cup {None}] /\ JournalNames /\ Store'
           /\ \A q \in Ops : (Row(q)' <=> Row(q)) /\ (Done(q) => Done(q)')
<1>1. TypeOK /\ Store /\ Row(o)
  BY DEF FilesInv, Done
<1>2. CASE journal' = journal
  BY <1>1, <1>2, SameStore DEF TypeOK, JournalNames, Row, Done, ClaimsKept
<1>3. CASE SetState(o, "completed")
  <2>1. /\ journal' \in [Ops -> JournalRow \cup {None}] /\ JournalNames
        /\ \A q \in Ops : (Row(q)' <=> Row(q)) /\ (q # o => journal'[q] = journal[q])
        /\ journal'[o].state = "completed"
        /\ journal'[o].kind = journal[o].kind /\ journal'[o].key = journal[o].key
        /\ journal'[o].path = journal[o].path /\ journal'[o].expected = journal[o].expected
    BY <1>1, <1>3, SetStateIs
  <2>2. Done(o)'
    BY <1>1, <2>1 DEF Done
  <2> QED BY <1>1, <2>1, <2>2, StateStore, OthersKept DEF ClaimsKept
<1> QED BY <1>2, <1>3

LEMMA CompleteStep ==
    ASSUME FilesInv, Complete
    PROVE  FilesInv'
<1>1. /\ op.pc = "complete" /\ mode' = mode /\ request' = request /\ claim' = claim /\ waiting' = waiting
      /\ disk' = disk /\ rows' = rows /\ (Works \/ Fault) /\ at' = at /\ row' = row /\ revision' = revision
      /\ SetState(op.put, "completed") \/ journal' = journal
      /\ Goto(IF op.del = None THEN "idle" ELSE "discard")
  BY DEF Complete, At, disk, rows
<1>2. TypeOK /\ AfterInv /\ mode = "serving" /\ op # Idle
  BY <1>1, AtServing DEF FilesInv, OpInv, After
<1>3. PICK u, d : u = op.put /\ d = op.del
  OBVIOUS
<1>4. u # None /\ u \in Ops /\ Done(u) /\ (d # None => d \in Ops /\ Done(d))
  BY <1>1, <1>2, <1>3, HolderRows DEF AfterInv, After, Removing
<1>5. /\ journal' \in [Ops -> JournalRow \cup {None}] /\ JournalNames /\ Store'
      /\ \A q \in Ops : (Row(q)' <=> Row(q)) /\ (Done(q) => Done(q)')
  BY <1>1, <1>3, <1>4, ClosedRow
<1>6. CASE d = None
  <2>1. op' = Idle /\ op' \in Op /\ op'.pc # "insertDelete"
    BY <1>1, <1>2, <1>3, <1>6, GotoType DEF Pcs, Idle
  <2> QED BY <1>1, <1>2, <1>5, <2>1, ToIdle, AssembleJournal
<1>7. CASE d # None
  <2>1. op' \in Op /\ op'.pc = "discard" /\ op'.key = op.key /\ op'.put = op.put /\ op'.del = op.del
    BY <1>1, <1>2, <1>3, <1>7, GotoType DEF Pcs
  <2>2. op'.pc \in Holding /\ ~Removing' /\ ~Trying'
    BY <2>1 DEF Holding, Undoing, Forward, After, Removing, Trying
  <2>3. AfterInv'
    BY <1>3, <1>4, <1>5, <1>7, <2>1, <2>2 DEF AfterInv
  <2>4. ForwardInv' /\ PutInv' /\ DelInv' /\ RemovalInv'
    BY <2>1, <2>2 DEF ForwardInv, PutInv, DelInv, RemovalInv, Forward
  <2>5. OpInv'
    BY <1>1, <1>2, <1>5, <2>1, <2>2, <2>3, <2>4, ServingStep
  <2> QED BY <1>1, <1>5, <2>1, <2>5, AssembleJournal
<1> QED BY <1>6, <1>7

LEMMA CompleteDeleteStep ==
    ASSUME FilesInv, CompleteDelete
    PROVE  FilesInv'
<1>1. /\ op.pc = "completeDelete" /\ mode' = mode /\ request' = request /\ claim' = claim /\ waiting' = waiting
      /\ disk' = disk /\ rows' = rows /\ (Works \/ Fault) /\ at' = at /\ row' = row /\ revision' = revision
      /\ SetState(op.del, "completed") \/ journal' = journal
      /\ Goto("idle")
  BY DEF CompleteDelete, At, disk, rows
<1>2. TypeOK /\ AfterInv /\ mode = "serving" /\ op # Idle
  BY <1>1, AtServing DEF FilesInv, OpInv, After
<1>3. PICK d : d = op.del
  OBVIOUS
<1>4. d # None /\ d \in Ops /\ Done(d)
  BY <1>1, <1>2, <1>3, HolderRows DEF AfterInv, After, Removing
<1>5. /\ journal' \in [Ops -> JournalRow \cup {None}] /\ JournalNames /\ Store'
      /\ \A q \in Ops : (Row(q)' <=> Row(q)) /\ (Done(q) => Done(q)')
  BY <1>1, <1>3, <1>4, ClosedRow
<1>6. op' = Idle /\ op' \in Op /\ op'.pc # "insertDelete"
  BY <1>1, <1>2, GotoType DEF Pcs, Idle
<1> QED BY <1>1, <1>2, <1>5, <1>6, ToIdle, AssembleJournal

LEMMA FinishStep ==
    ASSUME FilesInv, Finish
    PROVE  FilesInv'
<1>1. /\ op.pc = "finish" /\ mode' = mode /\ request' = request /\ waiting' = waiting
      /\ disk' = disk /\ rows' = rows /\ journal' = journal /\ (Works \/ Fault)
      /\ at' = at /\ stamp' = stamp /\ row' = row /\ revision' = revision
      /\ SetClaim(op.key, "failed") \/ claim' = claim
      /\ Goto("idle")
  BY DEF Finish, At, disk, rows
<1>2. TypeOK /\ Store /\ mode = "serving" /\ op.key \in Keys /\ claim[op.key] = "in_progress" /\ op.key \notin waiting
  BY <1>1, AtServing DEF FilesInv, OpInv
<1>3. op' = Idle /\ op' \in Op /\ op'.pc # "insertDelete"
  BY <1>1, <1>2, GotoType DEF Pcs, Idle
<1>4. claim' \in [Keys -> {"none", "in_progress", "completed", "failed", "conflict"}]
      /\ (\A k \in waiting : claim'[k] = claim[k]) /\ ClaimsKept
  BY <1>1, <1>2 DEF TypeOK, SetClaim, ClaimsKept
<1>5. Store'
  BY <1>1, <1>2, <1>4, SameStore
<1> QED BY <1>1, <1>2, <1>3, <1>4, <1>5, ToIdle, Assemble DEF TypeOK, Row

LEMMA CommitStep ==
    ASSUME FilesInv, Commit
    PROVE  FilesInv'
<1>1. /\ op.pc = "commit" /\ mode' = mode /\ request' = request /\ waiting' = waiting /\ disk' = disk
      /\ at' = at /\ stamp' = stamp /\ Works
      /\ Goto(IF op.put = None THEN "discard" ELSE "clean")
  BY DEF Commit, At, disk
<1>2. TypeOK /\ mode = "serving" /\ op # Idle /\ op.key \in Keys /\ op.key \notin waiting
  BY <1>1, AtServing DEF FilesInv, OpInv, Forward
<1>3. PICK u, d : u = op.put /\ d = op.del
  OBVIOUS
<1>4. /\ op' \in Op /\ op'.key = op.key /\ op'.put = op.put /\ op'.del = op.del
      /\ op'.pc = (IF u = None THEN "discard" ELSE "clean")
  BY <1>1, <1>2, <1>3, GotoType DEF Pcs
<1>5. /\ row' \in [Setups -> [path : Paths, version : Version] \cup {None}]
      /\ revision' \in [Setups -> Nat]
      /\ journal' \in [Ops -> JournalRow \cup {None}]
      /\ \A o \in Ops : (Row(o)' <=> Row(o))
      /\ \A o \in Ops : Row(o) =>
            /\ journal'[o].kind = journal[o].kind /\ journal'[o].key = journal[o].key
            /\ journal'[o].path = journal[o].path
            /\ o \in {u, d} => journal'[o].state = "db_applied"
      /\ claim' = [claim EXCEPT ![op.key] = "completed"]
  BY <1>3, CommitRow
<1>6. JournalNames /\ Store'
  BY <1>5, CommitStore DEF JournalNames
<1>7. /\ u # None => u \in Ops /\ Done(u)'
      /\ d # None => d \in Ops /\ Done(d)'
      /\ u = None => d # None
  BY <1>1, <1>3, <1>5, CommitFacts DEF Publishes, Deletes, Done, Row
<1>8. op'.pc \in Holding /\ ~Removing' /\ ~Trying' /\ op'.pc \in {"clean", "discard"}
  BY <1>4 DEF Holding, Undoing, Forward, After, Removing, Trying
<1>9. AfterInv'
  BY <1>3, <1>4, <1>7, <1>8 DEF AfterInv
<1>10. ForwardInv' /\ PutInv' /\ DelInv' /\ RemovalInv'
  BY <1>8 DEF ForwardInv, PutInv, DelInv, RemovalInv, Forward
<1>11. OpInv'
  BY <1>1, <1>2, <1>4, <1>6, <1>8, <1>9, <1>10, ServingStep
<1>12. claim' \in [Keys -> {"none", "in_progress", "completed", "failed", "conflict"}]
       /\ \A k \in waiting : claim'[k] = claim[k]
  BY <1>2, <1>5 DEF TypeOK
<1>13. op'.pc # "insertDelete"
  BY <1>8
<1> QED BY <1>1, <1>2, <1>4, <1>5, <1>6, <1>11, <1>12, <1>13, Assemble DEF TypeOK

(* An error that removes a file and answers. *)
LEMMA ToRemoval ==
    ASSUME FilesInv, mode = "serving", op # Idle, Trying, mode' = mode,
           request' = request, claim' = claim, waiting' = waiting, journal' = journal,
           NEW x \in Places, NEW f \in Ops, NEW u, u = op.put, NEW then \in {"finish", "unpublished"},
           Remove(x, f, then, "finish"), Removable(x, f)',
           then = "unpublished" => u # None /\ OldAtTarget(u)' /\ x # Target(u)
    PROVE  op' \in Op /\ op'.pc = "remove" /\ OpInv'
<1>1. TypeOK /\ then \in Pcs /\ "finish" \in Pcs
  BY DEF FilesInv, Pcs
<1>2. /\ op' \in Op /\ op'.pc = "remove" /\ op'.key = op.key /\ op'.put = op.put /\ op'.del = op.del
      /\ op'.gc # None /\ op'.gc.from = x /\ op'.gc.of = f /\ op'.gc.then = then /\ op'.gc.failed = "finish"
  BY <1>1, RemoveType
<1>3. op'.pc \in Holding /\ JournalNames
  BY <1>2 DEF Holding, JournalNames, Row
<1>4. ForwardInv' /\ PutInv' /\ DelInv' /\ AfterInv'
  BY <1>2 DEF ForwardInv, PutInv, DelInv, AfterInv, Forward, After, Removing
<1>5. RemovalInv'
  <2>1. Target(u)' = Target(u)
    BY DEF Target
  <2> QED BY <1>2, <2>1 DEF RemovalInv
<1> QED BY <1>2, <1>3, <1>4, <1>5, ServingStep

LEMMA PrepareStep ==
    ASSUME FilesInv, Prepare
    PROVE  FilesInv'
<1>1. /\ op.pc = "prepare" /\ mode' = mode /\ request' = request /\ claim' = claim /\ waiting' = waiting
      /\ disk' = disk /\ rows' = rows /\ (Works \/ Fault) /\ at' = at /\ row' = row /\ revision' = revision
  BY DEF Prepare, At, disk, rows
<1>2. TypeOK /\ Store /\ ForwardInv /\ PutInv /\ mode = "serving" /\ op # Idle /\ Trying
  BY <1>1, AtServing DEF FilesInv, OpInv, Forward
<1>3. PICK u, d : u = op.put /\ d = op.del
  OBVIOUS
<1>4. /\ u \in Ops /\ u # None /\ Row(u) /\ Publishes(u) /\ Pending(u) /\ Nowhere(u)
      /\ d # None => Row(d) /\ Deletes(d) /\ Pending(d) /\ d \in Ops /\ Existing # None
                     /\ Existing.version.file = OldFile(d)
  BY <1>1, <1>2, <1>3, HolderRows DEF PutInv, ForwardInv, Forward
<1>5. CASE SetState(op.put, "failed") /\ Goto("finish")
  <2>1. op' \in Op /\ op'.pc = "finish" /\ op'.key = op.key /\ op'.put = op.put /\ op'.del = op.del
    BY <1>2, <1>5, GotoType DEF Pcs
  <2>2. SetState(u, "failed")
    BY <1>3, <1>5
  <2>3. /\ journal' \in [Ops -> JournalRow \cup {None}] /\ JournalNames
        /\ \A q \in Ops : (Row(q)' <=> Row(q)) /\ (q # u => journal'[q] = journal[q])
        /\ journal'[u].state = "failed"
        /\ journal'[u].kind = journal[u].kind /\ journal'[u].key = journal[u].key
        /\ journal'[u].path = journal[u].path /\ journal'[u].expected = journal[u].expected
    BY <1>2, <1>4, <2>2, SetStateIs
  <2>4. Falls(u)
    BY <1>2, <1>4, <2>3, NamesTyped, PlacesApart DEF Falls, Nowhere, Publishes, Deletes
  <2>5. Store'
    BY <1>1, <1>2, <1>4, <2>3, <2>4, StateStore DEF ClaimsKept
  <2>6. OpInv'
    BY <1>1, <1>2, <2>1, <2>3, ToFinish
  <2>7. op'.pc # "insertDelete"
    BY <2>1
  <2> QED BY <1>1, <2>1, <2>3, <2>5, <2>6, <2>7, AssembleJournal
<1>6. CASE Goto("link") /\ journal' = [journal EXCEPT ![op.put].prepared = TRUE]
  <2>1. op' \in Op /\ op'.pc = "link" /\ op'.key = op.key /\ op'.put = op.put /\ op'.del = op.del
    BY <1>2, <1>6, GotoType DEF Pcs
  <2>2. PICK r : r = [journal[u] EXCEPT !.prepared = TRUE]
    OBVIOUS
  <2>3. journal[u] \in JournalRow /\ journal \in [Ops -> JournalRow \cup {None}]
    BY <1>2, <1>4, NamesTyped DEF TypeOK
  <2>4. r \in JournalRow
    BY <2>2, <2>3 DEF JournalRow
  <2>5. /\ r # None /\ r.state = journal[u].state
        /\ r.kind = journal[u].kind /\ r.key = journal[u].key /\ r.path = journal[u].path
        /\ r.expected = journal[u].expected
    BY <2>2, <2>3, <2>4, RecordAssumption DEF JournalRow
  <2>6. journal' = [journal EXCEPT ![u] = r]
    BY <1>3, <1>4, <1>6, <2>2, <2>3
  <2>7. journal'[u] = r /\ (\A q \in Ops : q # u => journal'[q] = journal[q])
        /\ journal' \in [Ops -> JournalRow \cup {None}] /\ (\A q \in Ops : Row(q)' <=> Row(q)) /\ JournalNames
    BY <1>4, <2>3, <2>4, <2>5, <2>6 DEF Row, JournalNames
  <2>8. Row(u)' /\ Pending(u)' /\ Publishes(u)' /\ Nowhere(u)' /\ OldFile(u)' = OldFile(u)
    BY <1>1, <1>4, <2>5, <2>7 DEF Row, Pending, Publishes, Nowhere, OldFile
  <2>9. Store'
    BY <1>1, <1>2, <1>4, <2>5, <2>7, <2>8, StateStore DEF ClaimsKept
  <2>10. op'.pc \in Holding /\ ~Removing'
    BY <2>1 DEF Holding, Forward, Removing
  <2>11. R' = R /\ Existing' = Existing
    BY <1>1, <2>1 DEF R, Existing
  <2>12. ForwardInv'
    <3>1. /\ journal[u].expected # None => Existing # None /\ Existing.version.file = OldFile(u)
          /\ journal[u].expected = None => IF d = None THEN Existing = None ELSE Existing # None
      BY <1>1, <1>2, <1>3, <1>4 DEF ForwardInv, Forward
    <3>2. d # None => Pending(d)' /\ OldFile(d)' = OldFile(d)
      BY <1>4, <2>7, OthersKept DEF Publishes, Deletes
    <3>3. op'.put = u /\ op'.del = d /\ journal'[u].expected = journal[u].expected
      BY <1>3, <2>1, <2>5, <2>7
    <3> QED BY <1>4, <2>1, <2>8, <2>11, <3>1, <3>2, <3>3 DEF ForwardInv
  <2>13. PutInv' /\ DelInv' /\ AfterInv' /\ RemovalInv'
    BY <1>3, <1>4, <2>1, <2>8, <2>10 DEF PutInv, DelInv, AfterInv, RemovalInv, After
  <2>14. OpInv'
    BY <1>1, <1>2, <2>1, <2>7, <2>10, <2>12, <2>13, ServingStep
  <2>15. op'.pc # "insertDelete"
    BY <2>1
  <2> QED BY <1>1, <2>1, <2>7, <2>9, <2>14, <2>15, AssembleJournal
<1> QED BY <1>5, <1>6 DEF Prepare

(* The files a step forward leaves alone. *)
LEMMA ForwardKept ==
    ASSUME FilesInv, op.pc \in Forward, journal' = journal, row' = row, request' = request,
           op'.key = op.key, op'.put = op.put, op'.del = op.del, op'.pc \in Forward \ {"insertDelete"},
           op.pc # "insertDelete"
    PROVE  ForwardInv'
<1>1. ForwardInv
  BY DEF FilesInv, OpInv
<1>2. R' = R /\ Existing' = Existing
  BY DEF R, Existing
<1> QED BY <1>1, <1>2 DEF ForwardInv, Pending, Row, OldFile

LEMMA LinkStep ==
    ASSUME FilesInv, Link
    PROVE  FilesInv'
<1>1. /\ op.pc = "link" /\ mode' = mode /\ waiting' = waiting /\ revision' = revision /\ JournalKept
      /\ (Works \/ Fault) /\ journal' = journal /\ row' = row /\ request' = request /\ claim' = claim
  BY DEF Link, At, rows, JournalKept
<1>2. TypeOK /\ Store /\ PutInv /\ mode = "serving" /\ op # Idle /\ Trying /\ op.pc \in Forward
  BY <1>1, AtServing DEF FilesInv, OpInv, Forward
<1>3. PICK u, x : u = op.put /\ x = Temp(op.put)
  OBVIOUS
<1>4. u \in Ops /\ u # None /\ Row(u) /\ Publishes(u) /\ Pending(u) /\ Nowhere(u) /\ x \in Places /\ x = Temp(u)
  BY <1>1, <1>2, <1>3, HolderRows DEF PutInv, FilesInv, OpInv, ForwardInv, Forward
<1>5. JournalNames /\ Pending(u)' /\ Publishes(u)'
  BY <1>1, <1>4 DEF JournalNames, Row, Pending, Publishes
<1>6. CASE disk' = disk /\ Goto("finish")
  <2>1. op' \in Op /\ op'.pc = "finish" /\ op'.key = op.key /\ op'.put = op.put /\ op'.del = op.del
    BY <1>2, <1>6, GotoType DEF Pcs
  <2>2. OpInv' /\ op'.pc # "insertDelete"
    BY <1>1, <1>2, <1>5, <2>1, ToFinish
  <2> QED BY <1>1, <1>6, <2>1, <2>2, AssembleQuiet
<1>7. ASSUME Linked
      PROVE  /\ at' \in [Places -> Files \cup {None}] /\ stamp' \in [Files -> Nat] /\ Store' /\ at'[x] = u
  <2>1. at' = [at EXCEPT ![x] = u] /\ stamp' = [stamp EXCEPT ![u] = stamp[u] + 1]
    BY <1>3, <1>7 DEF Linked
  <2>2. at' \in [Places -> Files \cup {None}] /\ stamp' \in [Files -> Nat] /\ at'[x] = u
        /\ \A z \in Places : z # x => at'[z] = at[z]
    BY <1>2, <1>4, <2>1 DEF TypeOK, Files
  <2>3. Store'
    BY <1>1, <1>2, <1>4, <2>2, LinkStore
  <2> QED BY <2>2, <2>3
<1>8. CASE Linked /\ Goto("finish")
  <2>1. op' \in Op /\ op'.pc = "finish" /\ op'.key = op.key /\ op'.put = op.put /\ op'.del = op.del
    BY <1>2, <1>8, GotoType DEF Pcs
  <2>2. OpInv' /\ op'.pc # "insertDelete"
    BY <1>1, <1>2, <1>5, <2>1, ToFinish
  <2> QED BY <1>1, <1>7, <1>8, <2>1, <2>2, AssembleMove
<1>9. CASE Linked /\ Remove(Temp(op.put), op.put, "finish", "finish")
  <2>1. Remove(x, u, "finish", "finish")
    BY <1>3, <1>9 DEF Remove
  <2>2. Removable(x, u)'
    BY <1>4, <1>5, <1>7, <1>9 DEF Removable
  <2>3. op' \in Op /\ op'.pc = "remove" /\ OpInv'
    BY <1>1, <1>2, <1>3, <1>4, <2>1, <2>2, ToRemoval
  <2>4. op'.pc # "insertDelete"
    BY <2>3
  <2> QED BY <1>1, <1>7, <1>9, <2>3, <2>4, AssembleMove
<1>10. CASE Linked /\ Goto("expose")
  <2>1. op' \in Op /\ op'.pc = "expose" /\ op'.key = op.key /\ op'.put = op.put /\ op'.del = op.del
    BY <1>2, <1>10, GotoType DEF Pcs
  <2>2. op'.pc \in Holding /\ ~Removing' /\ op'.pc # "insertDelete" /\ op'.pc \in Forward \ {"insertDelete"}
    BY <2>1 DEF Holding, Forward, Removing
  <2>3. ForwardInv'
    BY <1>1, <1>2, <2>1, <2>2, ForwardKept
  <2>4. PutInv' /\ DelInv' /\ AfterInv' /\ RemovalInv'
    <3>1. op'.put = u /\ at'[Temp(u)] = u
      BY <1>3, <1>4, <1>7, <1>10, <2>1
    <3> QED BY <1>4, <2>1, <2>2, <3>1 DEF PutInv, DelInv, AfterInv, RemovalInv, After
  <2>5. OpInv'
    BY <1>1, <1>2, <1>5, <2>1, <2>2, <2>3, <2>4, ServingStep
  <2> QED BY <1>1, <1>7, <1>10, <2>1, <2>2, <2>5, AssembleMove
<1> QED BY <1>6, <1>8, <1>9, <1>10 DEF Link

LEMMA ExposeStep ==
    ASSUME FilesInv, Expose
    PROVE  FilesInv'
<1>1. /\ op.pc = "expose" /\ mode' = mode /\ waiting' = waiting /\ revision' = revision /\ JournalKept
      /\ (Works \/ Fault) /\ journal' = journal /\ row' = row /\ request' = request /\ claim' = claim
  BY DEF Expose, At, rows, JournalKept
<1>2. TypeOK /\ Store /\ PutInv /\ mode = "serving" /\ op # Idle /\ Trying /\ op.pc \in Forward
  BY <1>1, AtServing DEF FilesInv, OpInv, Forward
<1>3. PICK u, x, y : u = op.put /\ x = Temp(op.put) /\ y = Target(op.put)
  OBVIOUS
<1>4. /\ u \in Ops /\ u # None /\ Row(u) /\ Publishes(u) /\ Pending(u) /\ x \in Places /\ x = Temp(u) /\ at[x] = u
      /\ y \in Places /\ y = Target(u) /\ x # y
  BY <1>1, <1>2, <1>3, HolderRows DEF PutInv, FilesInv, OpInv, ForwardInv, Forward
<1>5. JournalNames /\ Pending(u)' /\ Publishes(u)' /\ OldFile(u)' = OldFile(u) /\ Target(u)' = y
  BY <1>1, <1>4 DEF JournalNames, Row, Pending, Publishes, OldFile, Target
<1>6. CASE Remove(Temp(op.put), op.put, "finish", "finish") /\ disk' = disk
  <2>1. Remove(x, u, "finish", "finish")
    BY <1>3, <1>6 DEF Remove
  <2>2. Removable(x, u)'
    BY <1>4, <1>5, <1>6 DEF Removable, disk
  <2>3. op' \in Op /\ op'.pc = "remove" /\ OpInv'
    BY <1>1, <1>2, <1>3, <1>4, <2>1, <2>2, ToRemoval
  <2>4. op'.pc # "insertDelete"
    BY <2>3
  <2> QED BY <1>1, <1>6, <2>3, <2>4, AssembleQuiet
<1>7. CASE /\ Matches(op.put) /\ Goto("verify")
           /\ IF journal[op.put].expected = None THEN Rename(Temp(op.put), Target(op.put))
              ELSE Exchange(Temp(op.put), Target(op.put))
  <2>1. op' \in Op /\ op'.pc = "verify" /\ op'.key = op.key /\ op'.put = op.put /\ op'.del = op.del
    BY <1>2, <1>7, GotoType DEF Pcs
  <2>2. op'.pc \in Holding /\ ~Removing' /\ op'.pc # "insertDelete" /\ op'.pc \in Forward \ {"insertDelete"}
    BY <2>1 DEF Holding, Forward, Removing
  <2>3. ForwardInv'
    BY <1>1, <1>2, <2>1, <2>2, ForwardKept
  <2>4. /\ at' \in [Places -> Files \cup {None}] /\ stamp' \in [Files -> Nat] /\ Store'
        /\ at'[y] = u /\ (journal[u].expected # None => at'[x] = OldFile(u))
    <3>1. CASE journal[u].expected = None
      <4>1. Rename(x, y) /\ at[y] = None
        BY <1>3, <1>7, <3>1 DEF Rename, Matches
      <4>2. at'[x] = None /\ at'[y] = at[x] /\ (\A z \in Places : z # x /\ z # y => at'[z] = at[z])
            /\ at' \in [Places -> Files \cup {None}] /\ stamp' \in [Files -> Nat]
        BY <1>2, <1>4, <4>1, RenameAt
      <4>3. Store'
        BY <1>1, <1>2, <1>4, <4>1, <4>2, ExposeStore
      <4> QED BY <1>4, <3>1, <4>2, <4>3
    <3>2. CASE journal[u].expected # None
      <4>1. Exchange(x, y) /\ Current(at[y]) = journal[u].expected
        BY <1>3, <1>7, <3>2 DEF Exchange, Matches
      <4>2. at[y] = OldFile(u)
        BY <3>2, <4>1 DEF OldFile, Current
      <4>3. at'[x] = at[y] /\ at'[y] = at[x] /\ (\A z \in Places : z # x /\ z # y => at'[z] = at[z])
            /\ at' \in [Places -> Files \cup {None}] /\ stamp' \in [Files -> Nat]
        BY <1>2, <1>4, <4>1, ExchangeAt
      <4>4. Store'
        BY <1>1, <1>2, <1>4, <3>2, <4>2, <4>3, ExchangeInStore
      <4> QED BY <1>4, <4>2, <4>3, <4>4
    <3> QED BY <3>1, <3>2
  <2>5. Exposed(u)'
    BY <1>1, <1>4, <1>5, <2>4 DEF Exposed
  <2>6. PutInv' /\ DelInv' /\ AfterInv' /\ RemovalInv'
    BY <1>3, <1>4, <1>5, <2>1, <2>2, <2>5 DEF PutInv, DelInv, AfterInv, RemovalInv, After
  <2>7. OpInv'
    BY <1>1, <1>2, <1>5, <2>1, <2>2, <2>3, <2>6, ServingStep
  <2> QED BY <1>1, <2>1, <2>2, <2>4, <2>7, AssembleMove
<1> QED BY <1>6, <1>7 DEF Expose

(* An error that undoes the publication, if there is one. *)
LEMMA ToUnwind ==
    ASSUME FilesInv, mode = "serving", op # Idle, Trying, mode' = mode,
           request' = request, claim' = claim, waiting' = waiting, JournalNames,
           NEW u \in Ops \cup {None}, u = op.put, u # None => Pending(u)' /\ Exposed(u)', Goto(UnwindPut)
    PROVE  op' \in Op /\ op'.pc # "insertDelete" /\ OpInv'
<1>1. TypeOK
  BY DEF FilesInv
<1>2. /\ op' \in Op /\ op'.key = op.key /\ op'.put = op.put /\ op'.del = op.del
      /\ op'.pc = IF u = None THEN "finish" ELSE "unpublish"
  BY <1>1, GotoType DEF Pcs, UnwindPut
<1>3. CASE u = None
  BY <1>2, <1>3, ToFinish
<1>4. CASE u # None
  <2>1. op'.pc = "unpublish" /\ op'.pc \in Holding /\ ~Removing' /\ op'.put = u
    BY <1>2, <1>4 DEF Holding, Undoing, Removing
  <2>2. PutInv'
    BY <1>4, <2>1 DEF PutInv
  <2>3. ForwardInv' /\ DelInv' /\ AfterInv' /\ RemovalInv'
    BY <2>1 DEF ForwardInv, DelInv, AfterInv, RemovalInv, After, Forward
  <2>4. OpInv'
    BY <1>2, <2>1, <2>2, <2>3, ServingStep
  <2> QED BY <1>2, <2>1, <2>4
<1> QED BY <1>3, <1>4

LEMMA QuarantineStep ==
    ASSUME FilesInv, Quarantine
    PROVE  FilesInv'
<1>1. /\ op.pc = "quarantine" /\ mode' = mode /\ waiting' = waiting /\ revision' = revision /\ JournalKept
      /\ (Works \/ Fault) /\ journal' = journal /\ row' = row /\ request' = request /\ claim' = claim
  BY DEF Quarantine, At, rows, JournalKept
<1>2. TypeOK /\ Store /\ ForwardInv /\ PutInv /\ DelInv /\ mode = "serving" /\ op # Idle /\ Trying
      /\ op.pc \in Forward /\ op.del # None
  BY <1>1, AtServing DEF FilesInv, OpInv, Forward, DelInv
<1>3. PICK u, d, x, y : u = op.put /\ d = op.del /\ x = Target(op.del) /\ y = Trash(op.del)
  OBVIOUS
<1>4. /\ d \in Ops /\ d # None /\ Row(d) /\ Deletes(d) /\ Pending(d) /\ journal[d].expected # None
      /\ x \in Places /\ y \in Places /\ x = Target(d) /\ y = Trash(d) /\ x # y
      /\ u \in Ops \cup {None}
      /\ u # None => /\ u \in Ops /\ Publishes(u) /\ Pending(u) /\ Exposed(u) /\ Applied(u)
                     /\ journal[u].result # None /\ journal[u].result.file = u
                     /\ Target(u) \in Places /\ Temp(u) \in Places
  BY <1>1, <1>2, <1>3, HolderRows DEF PutInv, ForwardInv
<1>5. /\ JournalNames /\ Pending(d)' /\ OldFile(d)' = OldFile(d)
      /\ u # None => /\ Pending(u)' /\ Publishes(u)' /\ OldFile(u)' = OldFile(u) /\ Target(u)' = Target(u)
                     /\ Applied(u)'
  BY <1>1, <1>4 DEF JournalNames, Row, Pending, Publishes, OldFile, Target, Applied
<1>6. ASSUME Matches(op.del) PROVE at[x] = OldFile(d) /\ OldFile(d) # None /\ ~Pending(OldFile(d))
  <2>1. at[x] # None /\ Current(at[x]) = journal[d].expected
    BY <1>3, <1>4, <1>6 DEF Matches
  <2>2. at[x] = OldFile(d)
    BY <1>4, <2>1 DEF OldFile, Current
  <2> QED BY <1>2, <1>4, <2>1, <2>2, OldFileIs
<1>7. ASSUME Matches(op.del), Rename(Target(op.del), Trash(op.del))
      PROVE  /\ at' \in [Places -> Files \cup {None}] /\ stamp' \in [Files -> Nat] /\ Store'
             /\ Quarantined(d)' /\ (u # None => Exposed(u)')
  <2>1. Rename(x, y)
    BY <1>3, <1>7 DEF Rename
  <2>2. at'[x] = None /\ at'[y] = at[x] /\ (\A z \in Places : z # x /\ z # y => at'[z] = at[z])
        /\ at' \in [Places -> Files \cup {None}] /\ stamp' \in [Files -> Nat]
    BY <1>2, <1>4, <2>1, RenameAt
  <2>3. at[x] = OldFile(d) /\ OldFile(d) # None /\ ~Pending(OldFile(d))
    BY <1>6, <1>7
  <2>4. Store'
    BY <1>1, <1>2, <1>4, <2>2, <2>3, HideStore
  <2>5. Quarantined(d)'
    BY <1>4, <1>5, <2>2, <2>3 DEF Quarantined
  <2>6. ASSUME u # None PROVE Exposed(u)'
    <3>1. Target(u) # x
      BY <1>4, <2>3, <2>6 DEF Exposed
    <3>2. Target(u) # y /\ Temp(u) # x /\ Temp(u) # y
      BY <1>2, <1>4, <2>6, NamesTyped, PlacesApart DEF Publishes, Target
    <3> QED BY <1>1, <1>4, <1>5, <2>2, <2>6, <3>1, <3>2 DEF Exposed
  <2> QED BY <2>2, <2>4, <2>5, <2>6
<1>8. CASE Matches(op.del) /\ Rename(Target(op.del), Trash(op.del)) /\ Goto("markDelete")
  <2>1. op' \in Op /\ op'.pc = "markDelete" /\ op'.key = op.key /\ op'.put = op.put /\ op'.del = op.del
    BY <1>2, <1>8, GotoType DEF Pcs
  <2>2. op'.pc \in Holding /\ ~Removing' /\ op'.pc # "insertDelete" /\ op'.pc \in Forward \ {"insertDelete"}
    BY <2>1 DEF Holding, Forward, Removing
  <2>3. ForwardInv'
    BY <1>1, <1>2, <2>1, <2>2, ForwardKept
  <2>4. PutInv' /\ DelInv'
    <3>1. op'.put = u /\ op'.del = d
      BY <1>3, <2>1
    <3> QED BY <1>1, <1>4, <1>5, <1>7, <1>8, <2>1, <3>1 DEF PutInv, DelInv
  <2>5. AfterInv' /\ RemovalInv'
    BY <2>1, <2>2 DEF AfterInv, RemovalInv, After
  <2>6. OpInv'
    BY <1>1, <1>2, <1>5, <2>1, <2>2, <2>3, <2>4, <2>5, ServingStep
  <2> QED BY <1>1, <1>7, <1>8, <2>1, <2>2, <2>6, AssembleMove
<1>9. CASE disk' = disk /\ Goto(UnwindPut)
  <2>1. u # None => Pending(u)' /\ Exposed(u)'
    BY <1>1, <1>4, <1>5, <1>9 DEF Exposed, disk
  <2>2. op' \in Op /\ op'.pc # "insertDelete" /\ OpInv'
    BY <1>1, <1>2, <1>3, <1>4, <1>5, <1>9, <2>1, ToUnwind
  <2> QED BY <1>1, <1>9, <2>2, AssembleQuiet
<1>10. CASE /\ Matches(op.del) /\ Goto(UnwindPut)
            /\ stamp' = [stamp EXCEPT ![at[Target(op.del)]] = @ + 2] /\ UNCHANGED at
  <2>1. u # None => Pending(u)' /\ Exposed(u)'
    BY <1>1, <1>4, <1>5, <1>10 DEF Exposed
  <2>2. op' \in Op /\ op'.pc # "insertDelete" /\ OpInv'
    BY <1>1, <1>2, <1>3, <1>4, <1>5, <1>10, <2>1, ToUnwind
  <2>3. stamp' \in [Files -> Nat] /\ at' \in [Places -> Files \cup {None}]
    <3>1. stamp' = [stamp EXCEPT ![at[x]] = stamp[at[x]] + 2]
      BY <1>3, <1>10
    <3>2. at[x] \in Files
      BY <1>2, <1>4, <1>6, <1>10 DEF TypeOK
    <3> QED BY <1>2, <1>10, <3>1, <3>2 DEF TypeOK
  <2>4. Store'
    BY <1>1, <1>2, <1>10, SameStore DEF ClaimsKept
  <2> QED BY <1>1, <2>2, <2>3, <2>4, AssembleMove
<1>11. CASE /\ Matches(op.del) /\ Rename(Target(op.del), Trash(op.del))
            /\ Goto(IF op.put = None THEN "restore" ELSE "unpublish")
  <2>1. CASE u = None
    <3>1. op' \in Op /\ op'.pc = "restore" /\ op'.key = op.key /\ op'.put = op.put /\ op'.del = op.del
      BY <1>2, <1>3, <1>11, <2>1, GotoType DEF Pcs
    <3>2. op'.pc \in Holding /\ ~Removing' /\ op'.pc # "insertDelete"
      BY <3>1 DEF Holding, Undoing, Removing
    <3>3. PutInv' /\ DelInv'
      <4>1. op'.put = None /\ op'.del = d
        BY <1>3, <2>1, <3>1
      <4> QED BY <1>7, <1>4, <1>11, <3>1, <4>1 DEF PutInv, DelInv
    <3>4. ForwardInv' /\ AfterInv' /\ RemovalInv'
      BY <3>1, <3>2 DEF ForwardInv, AfterInv, RemovalInv, After, Forward
    <3>5. OpInv'
      BY <1>1, <1>2, <1>5, <3>1, <3>2, <3>3, <3>4, ServingStep
    <3> QED BY <1>1, <1>7, <1>11, <3>1, <3>2, <3>5, AssembleMove
  <2>2. CASE u # None
    <3>1. Goto(UnwindPut)
      BY <1>3, <1>11, <2>2 DEF UnwindPut, Goto
    <3>2. op' \in Op /\ op'.pc # "insertDelete" /\ OpInv'
      BY <1>1, <1>2, <1>3, <1>4, <1>5, <1>7, <1>11, <2>2, <3>1, ToUnwind
    <3> QED BY <1>1, <1>7, <1>11, <3>2, AssembleMove
  <2> QED BY <2>1, <2>2
<1> QED BY <1>8, <1>9, <1>10, <1>11 DEF Quarantine

LEMMA RestoreStep ==
    ASSUME FilesInv, Restore
    PROVE  FilesInv'
<1>1. /\ op.pc = "restore" /\ mode' = mode /\ waiting' = waiting /\ revision' = revision /\ JournalKept
      /\ (Works \/ Fault) /\ journal' = journal /\ row' = row /\ request' = request /\ claim' = claim
  BY DEF Restore, At, rows, JournalKept
<1>2. TypeOK /\ Store /\ PutInv /\ DelInv /\ mode = "serving" /\ op # Idle /\ Trying /\ op.del # None
  BY <1>1, AtServing DEF FilesInv, OpInv, Undoing, DelInv
<1>3. PICK u, d, x, y : u = op.put /\ d = op.del /\ x = Target(op.del) /\ y = Trash(op.del)
  OBVIOUS
<1>4. /\ d \in Ops /\ d # None /\ Row(d) /\ Deletes(d) /\ Quarantined(d) /\ journal[d].expected # None
      /\ x \in Places /\ y \in Places /\ x = Target(d) /\ y = Trash(d) /\ x # y
      /\ u \in Ops \cup {None}
      /\ u # None => /\ u \in Ops /\ Publishes(u) /\ Pending(u) /\ Exposed(u)
                     /\ Target(u) \in Places /\ Temp(u) \in Places
  BY <1>1, <1>2, <1>3, HolderRows DEF PutInv, DelInv
<1>5. /\ JournalNames /\ (Pending(d) => Pending(d)') /\ OldFile(d)' = OldFile(d) /\ Target(d)' = Target(d)
      /\ u # None => /\ Pending(u)' /\ Publishes(u)' /\ OldFile(u)' = OldFile(u) /\ Target(u)' = Target(u)
  BY <1>1, <1>4 DEF JournalNames, Row, Pending, Publishes, OldFile, Target
<1>6. ASSUME at[Target(op.del)] = None, Rename(Trash(op.del), Target(op.del))
      PROVE  /\ at' \in [Places -> Files \cup {None}] /\ stamp' \in [Files -> Nat] /\ Store'
             /\ OldAtTarget(d)' /\ at'[y] = None /\ Pending(d)'
             /\ (u # None => Exposed(u)')
  <2>1. Rename(y, x) /\ at[x] = None
    BY <1>3, <1>6 DEF Rename
  <2>2. at'[y] = None /\ at'[x] = at[y] /\ (\A z \in Places : z # y /\ z # x => at'[z] = at[z])
        /\ at' \in [Places -> Files \cup {None}] /\ stamp' \in [Files -> Nat]
    BY <1>2, <1>4, <2>1, RenameAt
  <2>3. at[y] = OldFile(d) /\ Pending(d)
    BY <1>4 DEF Quarantined
  <2>4. Store' /\ OldFile(d) # None /\ Done(OldFile(d))
    BY <1>1, <1>2, <1>4, <2>1, <2>2, <2>3, RestoreStore
  <2>5. OldAtTarget(d)'
    BY <1>1, <1>4, <1>5, <2>2, <2>3, <2>4 DEF OldAtTarget, Done, Row
  <2>6. ASSUME u # None PROVE Exposed(u)'
    <3>1. Target(u) # x
      BY <1>4, <2>1, <2>6, OpsAreNot DEF Exposed
    <3>2. Target(u) # y /\ Temp(u) # x /\ Temp(u) # y
      BY <1>2, <1>4, <2>6, NamesTyped, PlacesApart DEF Publishes, Target
    <3> QED BY <1>1, <1>4, <1>5, <2>2, <2>6, <3>1, <3>2 DEF Exposed
  <2> QED BY <1>5, <2>2, <2>3, <2>4, <2>5, <2>6
<1>7. CASE at[Target(op.del)] = None /\ Rename(Trash(op.del), Target(op.del)) /\ Goto("restored")
  <2>1. op' \in Op /\ op'.pc = "restored" /\ op'.key = op.key /\ op'.put = op.put /\ op'.del = op.del
    BY <1>2, <1>7, GotoType DEF Pcs
  <2>2. op'.pc \in Holding /\ ~Removing' /\ op'.pc # "insertDelete"
    BY <2>1 DEF Holding, Undoing, Removing
  <2>3. PutInv' /\ DelInv'
    <3>1. op'.put = u /\ op'.del = d
      BY <1>3, <2>1
    <3> QED BY <1>4, <1>5, <1>6, <1>7, <2>1, <3>1 DEF PutInv, DelInv
  <2>4. ForwardInv' /\ AfterInv' /\ RemovalInv'
    BY <2>1, <2>2 DEF ForwardInv, AfterInv, RemovalInv, After, Forward
  <2>5. OpInv'
    BY <1>1, <1>2, <1>5, <2>1, <2>2, <2>3, <2>4, ServingStep
  <2> QED BY <1>1, <1>6, <1>7, <2>1, <2>2, <2>5, AssembleMove
<1>8. CASE disk' = disk /\ Goto(UnwindPut)
  <2>1. u # None => Pending(u)' /\ Exposed(u)'
    BY <1>1, <1>4, <1>5, <1>8 DEF Exposed, disk
  <2>2. op' \in Op /\ op'.pc # "insertDelete" /\ OpInv'
    BY <1>1, <1>2, <1>3, <1>4, <1>5, <1>8, <2>1, ToUnwind
  <2> QED BY <1>1, <1>8, <2>2, AssembleQuiet
<1>9. CASE at[Target(op.del)] = None /\ Rename(Trash(op.del), Target(op.del)) /\ Goto(UnwindPut)
  <2>1. op' \in Op /\ op'.pc # "insertDelete" /\ OpInv'
    BY <1>1, <1>2, <1>3, <1>4, <1>5, <1>6, <1>9, ToUnwind
  <2> QED BY <1>1, <1>6, <1>9, <2>1, AssembleMove
<1> QED BY <1>7, <1>8, <1>9 DEF Restore

(* A publication is taken back: by an exchange, or by its removal. *)
LEMMA TakenBack ==
    ASSUME FilesInv, JournalKept, NEW u \in Ops, Publishes(u), Pending(u), Exposed(u), UndoExposure(u)
    PROVE  /\ at' \in [Places -> Files \cup {None}] /\ stamp' \in [Files -> Nat] /\ Store'
           /\ journal[u].expected = None => at' = at
           /\ journal[u].expected # None => at'[Temp(u)] = u /\ OldAtTarget(u)'
<1>1. TypeOK /\ Store /\ Row(u)
  BY DEF FilesInv, Publishes
<1>2. Target(u) \in Places /\ Temp(u) \in Places /\ Temp(u) # Target(u) /\ Target(u)' = Target(u)
  BY <1>1, NamesTyped, PlacesApart DEF JournalKept, Target
<1>3. CASE journal[u].expected = None
  <2>1. at' = at /\ stamp' = stamp
    BY <1>3 DEF UndoExposure, disk
  <2> QED BY <1>1, <1>3, <2>1, SameStore DEF TypeOK, JournalKept, ClaimsKept
<1>4. CASE journal[u].expected # None
  <2>1. PICK x, y : x = Temp(u) /\ y = Target(u)
    OBVIOUS
  <2>2. Exchange(x, y)
    BY <1>4, <2>1 DEF UndoExposure, Exchange
  <2>3. at'[x] = at[y] /\ at'[y] = at[x] /\ (\A z \in Places : z # x /\ z # y => at'[z] = at[z])
        /\ at' \in [Places -> Files \cup {None}] /\ stamp' \in [Files -> Nat]
    BY <1>1, <1>2, <2>1, <2>2, ExchangeAt
  <2>4. at[y] = u /\ at[x] = OldFile(u) /\ OldFile(u) # None /\ Done(OldFile(u))
    BY <1>1, <1>4, <2>1, OldFileIs DEF Exposed, Proper
  <2>5. Store'
    BY <1>1, <1>4, <2>1, <2>3, <2>4, ExchangeOutStore
  <2>6. OldAtTarget(u)'
    BY <1>2, <2>1, <2>3, <2>4 DEF OldAtTarget, Done, Row, JournalKept
  <2> QED BY <1>4, <2>1, <2>3, <2>4, <2>5, <2>6
<1> QED BY <1>3, <1>4

LEMMA UnpublishStep ==
    ASSUME FilesInv, Unpublish
    PROVE  FilesInv'
<1>1. /\ op.pc = "unpublish" /\ mode' = mode /\ waiting' = waiting /\ revision' = revision /\ JournalKept
      /\ (Works \/ Fault) /\ journal' = journal /\ row' = row /\ request' = request /\ claim' = claim
  BY DEF Unpublish, At, rows, JournalKept
<1>2. TypeOK /\ Store /\ PutInv /\ mode = "serving" /\ op # Idle /\ Trying /\ op.put # None
  BY <1>1, AtServing DEF FilesInv, OpInv, Undoing, PutInv
<1>3. PICK u, x, y, t : /\ u = op.put /\ x = Temp(op.put) /\ y = Target(op.put)
                        /\ t = IF op.reread /\ journal[op.put].expected # None THEN "unpublished" ELSE "finish"
  OBVIOUS
<1>4. /\ u \in Ops /\ u # None /\ Row(u) /\ Publishes(u) /\ Pending(u) /\ Exposed(u)
      /\ x \in Places /\ x = Temp(u) /\ y \in Places /\ y = Target(u) /\ x # y
  BY <1>1, <1>2, <1>3, HolderRows DEF PutInv
<1>5. JournalNames /\ Pending(u)' /\ Publishes(u)' /\ Target(u)' = y
  BY <1>1, <1>4 DEF JournalNames, Row, Pending, Publishes, Target
<1>6. CASE disk' = disk /\ Goto("finish")
  <2>1. op' \in Op /\ op'.pc = "finish" /\ op'.key = op.key /\ op'.put = op.put /\ op'.del = op.del
    BY <1>2, <1>6, GotoType DEF Pcs
  <2>2. OpInv' /\ op'.pc # "insertDelete"
    BY <1>1, <1>2, <1>5, <2>1, ToFinish
  <2> QED BY <1>1, <1>6, <2>1, <2>2, AssembleQuiet
<1>7. CASE UndoExposure(op.put) /\ Goto("finish")
  <2>1. op' \in Op /\ op'.pc = "finish" /\ op'.key = op.key /\ op'.put = op.put /\ op'.del = op.del
    BY <1>2, <1>7, GotoType DEF Pcs
  <2>2. OpInv' /\ op'.pc # "insertDelete"
    BY <1>1, <1>2, <1>5, <2>1, ToFinish
  <2>3. UndoExposure(u)
    BY <1>3, <1>7 DEF UndoExposure, Exchange
  <2>4. at' \in [Places -> Files \cup {None}] /\ stamp' \in [Files -> Nat] /\ Store'
    BY <1>1, <1>4, <2>3, TakenBack
  <2> QED BY <1>1, <2>1, <2>2, <2>4, AssembleMove
<1>8. CASE UndoExposure(op.put) /\ UndoRemoval(op.put,
                 IF op.reread /\ journal[op.put].expected # None THEN "unpublished" ELSE "finish", "finish")
  <2>1. UndoExposure(u)
    BY <1>3, <1>8 DEF UndoExposure, Exchange
  <2>2. /\ at' \in [Places -> Files \cup {None}] /\ stamp' \in [Files -> Nat] /\ Store'
        /\ journal[u].expected = None => at' = at
        /\ journal[u].expected # None => at'[x] = u /\ OldAtTarget(u)'
    BY <1>1, <1>4, <2>1, TakenBack
  <2>3. PICK z : z = IF journal[u].expected = None THEN y ELSE x
    OBVIOUS
  <2>4. Remove(z, u, t, "finish")
    BY <1>3, <1>8, <2>3 DEF UndoRemoval, Remove
  <2>5. Removable(z, u)'
    <3>1. CASE journal[u].expected = None
      BY <1>1, <1>4, <1>5, <2>2, <2>3, <3>1 DEF Removable, Exposed
    <3>2. CASE journal[u].expected # None
      BY <1>4, <1>5, <2>2, <2>3, <3>2 DEF Removable
    <3> QED BY <3>1, <3>2
  <2>6. /\ t \in {"finish", "unpublished"} /\ z \in Places
        /\ t = "unpublished" => u # None /\ OldAtTarget(u)' /\ z # Target(u)
    BY <1>3, <1>4, <2>2, <2>3
  <2>7. op' \in Op /\ op'.pc = "remove" /\ OpInv'
    BY <1>1, <1>2, <1>3, <1>4, <2>4, <2>5, <2>6, ToRemoval
  <2>8. op'.pc # "insertDelete"
    BY <2>7
  <2> QED BY <1>1, <2>2, <2>7, <2>8, AssembleMove
<1> QED BY <1>6, <1>7, <1>8 DEF Unpublish

-----------------------------------------------------------------------------
(* The row is reread, in a request and in recovery. *)

LEMMA RereadKept ==
    ASSUME FilesInv, NEW o \in Ops, Row(o), OldAtTarget(o), at' = at, journal' = journal, claim' = claim,
           request' = request, Reread(SetupOf(o), journal[o].path) \/ row' = row
    PROVE  Store' /\ row' \in [Setups -> [path : Paths, version : Version] \cup {None}] /\ SameFiles
<1>1. TypeOK /\ Store /\ request[journal[o].key] # None
  BY DEF FilesInv, Store, JournalInv
<1>2. SetupOf(o) \in Setups /\ journal[o].path \in Paths /\ Target(o) = Public(journal[o].path)
  <2>1. journal[o].key \in Keys
    BY <1>1, NamesTyped
  <2>2. request[journal[o].key] \in Request
    BY <1>1, <2>1 DEF TypeOK
  <2> QED BY <1>1, <2>2, NamesTyped DEF Request, SetupOf
<1>3. CASE row' = row
  <2>1. SameFiles
    BY <1>3 DEF SameFiles
  <2> QED BY <1>1, <1>3, <2>1, SameFilesStore DEF TypeOK
<1>4. CASE Reread(SetupOf(o), journal[o].path)
  <2>1. SameFiles /\ row' \in [Setups -> [path : Paths, version : Version] \cup {None}]
    BY <1>1, <1>2, <1>4, RereadFiles DEF OldAtTarget
  <2> QED BY <1>1, <2>1, SameFilesStore
<1> QED BY <1>3, <1>4

LEMMA AssembleReread ==
    ASSUME FilesInv, mode' = mode, disk' = disk, journal' = journal, claim' = claim, request' = request,
           waiting' = waiting, revision' = revision,
           Store', row' \in [Setups -> [path : Paths, version : Version] \cup {None}],
           Works \/ Fault, op' \in Op, op'.pc # "insertDelete", OpInv'
    PROVE  FilesInv'
<1>1. TypeOK /\ at' = at /\ stamp' = stamp
  BY DEF FilesInv, disk
<1> QED BY <1>1, Assemble DEF TypeOK, Row

(* The row that recovery is at. *)
LEMMA StartRow ==
    ASSUME FilesInv, mode = "recovering", op.pc \notin {"recover", "refuse"}
    PROVE  /\ TypeOK /\ Store /\ waiting = {}
           /\ \/ op.put \in Ops /\ op.put # None /\ op.del = None /\ Publishes(op.put) /\ op.put \in Unfinished
              \/ op.del \in Ops /\ op.put = None /\ op.del # None /\ Deletes(op.del) /\ op.del \in Unfinished
BY OpType DEF FilesInv, OpInv, StartInv, RequestInv

(* What is left of a row whose steps were undone is its rows. *)
LEMMA ToSettle ==
    ASSUME FilesInv, mode = "recovering", mode' = mode, journal' = journal, op.pc \notin {"recover", "refuse"},
           op'.key = op.key, op'.put = op.put, op'.del = op.del,
           op'.pc \in {"settle", "close", "unpublished"}, Undone({})',
           NEW u \in Ops \cup {None}, u = op.put, op'.pc = "unpublished" => u # None /\ OldAtTarget(u)'
    PROVE  OpInv'
<1>1. StartInv
  BY DEF FilesInv, OpInv
<1>2. op'.pc \in Starting /\ ~Removing'
  BY DEF Starting, Removing
<1>3. StartInv'
  BY <1>1 DEF StartInv, Publishes, Deletes, Row, Unfinished, Unused
<1>4. PutInv' /\ DelInv' /\ AfterInv' /\ UndoneInv' /\ RemovalInv'
  <2>1. op'.put = u
    OBVIOUS
  <2>2. PutInv'
    BY <2>1 DEF PutInv
  <2> QED BY <1>2, <2>2 DEF DelInv, AfterInv, UndoneInv, RemovalInv, After
<1> QED BY <1>2, <1>3, <1>4, StartingStep

LEMMA RereadRestoredStep ==
    ASSUME FilesInv, RereadRestored
    PROVE  FilesInv'
<1>1. /\ op.pc = "restored" /\ mode' = mode /\ waiting' = waiting /\ revision' = revision /\ disk' = disk
      /\ (Works \/ Fault) /\ journal' = journal /\ request' = request /\ claim' = claim /\ at' = at
      /\ Reread(SetupOf(op.del), journal[op.del].path) \/ row' = row
      /\ Goto(IF mode = "serving" THEN "failDelete" ELSE "settle")
  BY DEF RereadRestored, At, disk
<1>2. TypeOK /\ ModeInv /\ PutInv /\ DelInv
  BY DEF FilesInv, OpInv
<1>3. PICK u, d : u = op.put /\ d = op.del
  OBVIOUS
<1>4. d \in Ops /\ d # None /\ Row(d) /\ Pending(d) /\ OldAtTarget(d) /\ at[Trash(d)] = None /\ u \in Ops \cup {None}
  BY <1>1, <1>2, <1>3, OpType DEF DelInv, Pending
<1>5. Store' /\ row' \in [Setups -> [path : Paths, version : Version] \cup {None}]
  <2>1. Reread(SetupOf(d), journal[d].path) \/ row' = row
    BY <1>1, <1>3
  <2> QED BY <1>1, <1>4, <2>1, RereadKept
<1>6. /\ Pending(d)' /\ OldAtTarget(d)' /\ JournalNames
      /\ u # None => (Pending(u)' <=> Pending(u)) /\ (Exposed(u)' <=> Exposed(u))
  BY <1>1, <1>4 DEF Pending, OldAtTarget, Row, Done, Target, JournalNames, Exposed, OldFile
<1>7. CASE mode = "serving"
  <2>1. op' \in Op /\ op'.pc = "failDelete" /\ op'.key = op.key /\ op'.put = u /\ op'.del = d
    BY <1>1, <1>2, <1>3, <1>7, GotoType DEF Pcs
  <2>2. op # Idle /\ op'.pc \in Holding /\ ~Removing' /\ op'.pc # "insertDelete" /\ Trying
    BY <1>1, <2>1 DEF Holding, Undoing, Removing, Idle, Trying
  <2>3. u # None => Pending(u) /\ Exposed(u)
    BY <1>1, <1>2, <1>3, <1>7 DEF PutInv
  <2>4. PutInv' /\ DelInv'
    BY <1>1, <1>4, <1>6, <2>1, <2>3 DEF PutInv, DelInv
  <2>5. ForwardInv' /\ AfterInv' /\ RemovalInv'
    BY <2>1, <2>2 DEF ForwardInv, AfterInv, RemovalInv, After, Forward
  <2>6. OpInv'
    BY <1>1, <1>3, <1>6, <1>7, <2>1, <2>2, <2>4, <2>5, ServingStep
  <2> QED BY <1>1, <1>5, <2>1, <2>2, <2>6, AssembleReread
<1>8. CASE mode = "recovering"
  <2>1. op' \in Op /\ op'.pc = "settle" /\ op'.key = op.key /\ op'.put = u /\ op'.del = d
    BY <1>1, <1>2, <1>3, <1>8, GotoType DEF Pcs
  <2>2. u = None
    BY <1>1, <1>3, <1>4, <1>8, StartRow
  <2>3. Undone({})'
    BY <1>1, <1>4, <2>1, <2>2 DEF Undone
  <2>4. OpInv' /\ op'.pc # "insertDelete"
    BY <1>1, <1>3, <1>4, <1>8, <2>1, <2>3, ToSettle
  <2> QED BY <1>1, <1>5, <2>1, <2>4, AssembleReread
<1> QED BY <1>1, <1>2, <1>7, <1>8 DEF ModeInv, TypeOK, Idle

LEMMA RereadReplacedStep ==
    ASSUME FilesInv, RereadReplaced
    PROVE  FilesInv'
<1>1. /\ op.pc = "unpublished" /\ mode' = mode /\ waiting' = waiting /\ revision' = revision /\ disk' = disk
      /\ (Works \/ Fault) /\ journal' = journal /\ request' = request /\ claim' = claim /\ at' = at
      /\ Reread(SetupOf(op.put), journal[op.put].path) \/ row' = row
      /\ Goto(IF mode = "serving" THEN "finish" ELSE "settle")
  BY DEF RereadReplaced, At, disk
<1>2. TypeOK /\ ModeInv /\ PutInv /\ UndoneInv /\ (mode = "serving" => HolderInv) /\ StartInv
  BY DEF FilesInv, OpInv
<1>3. PICK u, d : u = op.put /\ d = op.del
  OBVIOUS
<1>4. u \in Ops /\ u # None /\ Row(u) /\ OldAtTarget(u)
  <2>1. op.put # None /\ op.put \in Ops /\ OldAtTarget(op.put) /\ op # Idle
    BY <1>1, <1>2, OpType DEF PutInv, Idle
  <2>2. mode = "serving" => Publishes(op.put)
    BY <2>1, HolderRows
  <2>3. mode = "recovering" => Publishes(op.put)
    BY <1>1, <2>1, StartRow
  <2> QED BY <1>1, <1>2, <1>3, <2>1, <2>2, <2>3 DEF ModeInv, TypeOK, Publishes, Idle
<1>5. Store' /\ row' \in [Setups -> [path : Paths, version : Version] \cup {None}]
  <2>1. Reread(SetupOf(u), journal[u].path) \/ row' = row
    BY <1>1, <1>3
  <2> QED BY <1>1, <1>4, <2>1, RereadKept
<1>6. JournalNames
  BY <1>1 DEF JournalNames, Row
<1>7. CASE mode = "serving"
  <2>1. op' \in Op /\ op'.pc = "finish" /\ op'.key = op.key /\ op'.put = op.put /\ op'.del = op.del
    BY <1>1, <1>2, <1>7, GotoType DEF Pcs
  <2>2. op # Idle /\ Trying
    BY <1>1 DEF Idle, Trying, Undoing
  <2>3. OpInv' /\ op'.pc # "insertDelete"
    BY <1>1, <1>6, <1>7, <2>1, <2>2, ToFinish
  <2> QED BY <1>1, <1>5, <2>1, <2>3, AssembleReread
<1>8. CASE mode = "recovering"
  <2>1. op' \in Op /\ op'.pc = "settle" /\ op'.key = op.key /\ op'.put = op.put /\ op'.del = op.del
    BY <1>1, <1>2, <1>8, GotoType DEF Pcs
  <2>2. Undone({})'
    BY <1>1, <1>2, <1>8, <2>1 DEF UndoneInv, Undone, Pending, Row, Target
  <2>3. OpInv' /\ op'.pc # "insertDelete"
    BY <1>1, <1>3, <1>4, <1>8, <2>1, <2>2, ToSettle
  <2> QED BY <1>1, <1>5, <2>1, <2>3, AssembleReread
<1> QED BY <1>1, <1>2, <1>7, <1>8 DEF ModeInv, TypeOK, Idle

-----------------------------------------------------------------------------
(* The removal of a file, in a request and in recovery. *)

LEMMA RemovableFacts ==
    ASSUME TypeOK, Store, NEW x \in Places, NEW g \in Ops, Removable(x, g)
    PROVE  /\ x # Guard(g)
           /\ at[x] # None => ~InUse(at[x])
           /\ \A p \in Paths : at[x] # None /\ x = Public(p) => journal[at[x]].expected = None
<1>1. \A f \in Ops : Pending(f) => ~InUse(f)
  BY DEF InUse, Store, RowsInv, Proper, Done, Pending
<1>2. \A f : Done(g) /\ f = OldFile(g) /\ f # None => ~InUse(f)
  BY NamesTyped DEF Store, JournalInv, Done
<1>3. Row(g)
  BY DEF Removable, Publishes, Deletes
<1>4. CASE x = Temp(g)
  BY <1>1, <1>2, <1>4, PlacesApart DEF Removable
<1>5. CASE x = Trash(g)
  <2>1. Done(g)
    BY <1>5, PlacesApart, <1>3, NamesTyped DEF Removable
  <2>2. at[x] # None => at[x] = OldFile(g)
    BY <1>5 DEF Store, TrashInv
  <2> QED BY <1>2, <1>5, <2>1, <2>2, PlacesApart
<1>6. CASE x = Target(g)
  <2>1. x # Temp(g) /\ x # Trash(g) /\ x # Guard(g)
    BY <1>3, <1>6, NamesTyped
  <2> QED BY <1>1, <1>6, <2>1 DEF Removable
<1> QED BY <1>4, <1>5, <1>6 DEF Removable

LEMMA MovedAside ==
    ASSUME FilesInv, JournalKept, NEW x \in Places, NEW g \in Ops, Removable(x, g), Rename(x, Guard(g))
    PROVE  /\ at' \in [Places -> Files \cup {None}] /\ stamp' \in [Files -> Nat] /\ Store'
           /\ at'[x] = None /\ \A z \in Places : z # x /\ z # Guard(g) => at'[z] = at[z]
<1>1. TypeOK /\ Store /\ Guard(g) \in Places
  BY PlacesApart DEF FilesInv
<1>2. /\ x # Guard(g) /\ (at[x] # None => ~InUse(at[x]))
      /\ \A p \in Paths : at[x] # None /\ x = Public(p) => journal[at[x]].expected = None
  BY <1>1, RemovableFacts
<1>3. PICK y : y = Guard(g)
  OBVIOUS
<1>4. Rename(x, y)
  BY <1>3 DEF Rename
<1>5. /\ at'[x] = None /\ at'[y] = at[x] /\ (\A z \in Places : z # x /\ z # y => at'[z] = at[z])
      /\ at' \in [Places -> Files \cup {None}] /\ stamp' \in [Files -> Nat]
  BY <1>1, <1>2, <1>3, <1>4, RenameAt
<1>6. Store'
  BY <1>1, <1>2, <1>3, <1>5, AsideStore
<1> QED BY <1>3, <1>5, <1>6

LEMMA MoveAsideStep ==
    ASSUME FilesInv, MoveAside
    PROVE  FilesInv'
<1>1. /\ op.pc = "remove" /\ mode' = mode /\ waiting' = waiting /\ revision' = revision /\ JournalKept
      /\ (Works \/ Fault) /\ journal' = journal /\ row' = row /\ request' = request /\ claim' = claim /\ Removing
  BY DEF MoveAside, At, rows, JournalKept, Removing
<1>2. /\ TypeOK /\ Store /\ ModeInv /\ HolderInv /\ StartInv /\ AfterInv /\ RemovalInv /\ op # Idle
      /\ mode \in {"serving", "recovering"}
  BY <1>1 DEF FilesInv, OpInv, ModeInv, Idle, TypeOK
<1>3. PICK u, d, x, g, t, f : /\ u = op.put /\ d = op.del /\ x = op.gc.from /\ g = op.gc.of
                              /\ t = op.gc.then /\ f = op.gc.failed
  OBVIOUS
<1>4. /\ x \in Places /\ g \in Ops /\ t \in Pcs /\ f \in Pcs /\ Removable(x, g) /\ op.gc # None
      /\ u \in Ops \cup {None} /\ d \in Ops \cup {None} /\ op \in Op
  BY <1>1, <1>2, <1>3, OpType DEF RemovalInv, ModeInv
<1>5. /\ mode = "serving" => \/ f = "finish" /\ t \in {"finish", "unpublished"}
                             \/ f = "idle" /\ t \in {"complete", "completeDelete"}
      /\ mode = "recovering" => f = "refuse" /\ t \in {"unpublished", "settle"}
      /\ t = "unpublished" => u # None /\ OldAtTarget(u) /\ x # Target(u)
      /\ mode = "recovering" => Undone({x})
  BY <1>1, <1>2, <1>3 DEF RemovalInv
<1>6. /\ u # None => Row(u) /\ Target(u) \in Places /\ Temp(u) \in Places /\ Target(u) # Guard(g) /\ Temp(u) # Guard(g)
      /\ d # None => Row(d) /\ Trash(d) \in Places /\ Trash(d) # Guard(g)
  <2>1. (u # None => Row(u)) /\ (d # None => Row(d))
    BY <1>1, <1>2, <1>3, HolderRows, StartRow DEF Publishes, Deletes
  <2> QED BY <1>2, <1>4, <2>1, NamesTyped, PlacesApart
<1>7. JournalNames /\ (\A o \in Ops : (Pending(o)' <=> Pending(o)) /\ (Done(o)' <=> Done(o))
                                      /\ (Publishes(o)' <=> Publishes(o)) /\ (Deletes(o)' <=> Deletes(o))
                                      /\ Target(o)' = Target(o))
      /\ Unfinished' = Unfinished
  BY <1>1 DEF JournalNames, Row, Pending, Done, Publishes, Deletes, Target, Unfinished, Unused
<1>8. CASE /\ Works /\ Rename(op.gc.from, Guard(op.gc.of))
           /\ op' = [op EXCEPT !.pc = "unlink"]
  <2>1. op' \in Op /\ op'.pc = "unlink" /\ op'.key = op.key /\ op'.put = u /\ op'.del = d /\ op'.gc = op.gc
    BY <1>3, <1>4, <1>8 DEF Op, Pcs
  <2>2. Rename(x, Guard(g))
    BY <1>3, <1>8 DEF Rename
  <2>3. /\ at' \in [Places -> Files \cup {None}] /\ stamp' \in [Files -> Nat] /\ Store'
        /\ at'[x] = None /\ \A z \in Places : z # x /\ z # Guard(g) => at'[z] = at[z]
    BY <1>1, <1>4, <2>2, MovedAside
  <2>4. op'.pc \in Holding /\ op'.pc \in Starting /\ Removing' /\ op'.pc # "insertDelete" /\ op'.gc # None
    BY <1>4, <2>1 DEF Holding, Starting, Removing
  <2>5. t = "unpublished" => OldAtTarget(u)'
    <3>1. u # None /\ OldAtTarget(u) /\ t = "unpublished" => at[Target(u)] \in Ops
      BY <1>2, <1>6 DEF TypeOK, OldAtTarget, Files
    <3>2. CASE t = "unpublished"
      <4>1. u \in Ops /\ OldAtTarget(u) /\ Target(u) # x /\ Target(u) # Guard(g) /\ Target(u) \in Places
        BY <1>4, <1>5, <1>6, <3>2
      <4>2. at'[Target(u)] = at[Target(u)] /\ Target(u)' = Target(u)
        BY <1>7, <2>3, <4>1
      <4>3. at'[Target(u)'] = at[Target(u)]
        BY <4>2
      <4> QED BY <1>1, <1>5, <3>2, <4>3 DEF OldAtTarget, Done, Row
    <3> QED BY <3>2
  <2>6. ForwardInv' /\ PutInv' /\ DelInv'
    BY <2>1 DEF ForwardInv, PutInv, DelInv, Forward
  <2>7. AfterInv'
    BY <1>1, <1>2, <1>3, <1>4, <1>7, <2>1, <2>4 DEF AfterInv, Removing
  <2>8. RemovalInv'
    BY <1>1, <1>3, <1>4, <1>5, <1>7, <2>1, <2>5 DEF RemovalInv
  <2>9. CASE mode = "serving"
    <3>1. Trying' => Trying
      BY <1>1, <2>1, <2>4 DEF Trying, Forward, Undoing
    <3>2. OpInv'
      BY <1>1, <1>2, <1>3, <1>7, <2>1, <2>4, <2>6, <2>7, <2>8, <2>9, <3>1, ServingStep
    <3> QED BY <1>1, <2>1, <2>3, <2>4, <3>2, AssembleMove
  <2>10. CASE mode = "recovering"
    <3>1. StartInv'
      BY <1>1, <1>2, <1>3, <1>4, <1>7, <2>1, <2>10 DEF StartInv
    <3>2. Undone({})'
      <4>1. ASSUME u # None, Pending(u) PROVE at'[Target(u)] # u /\ at'[Temp(u)] # u
        BY <1>3, <1>4, <1>5, <1>6, <2>3, <2>10, <4>1, OpsAreNot DEF Undone
      <4>2. ASSUME d # None, Pending(d) PROVE at'[Trash(d)] = None
        BY <1>3, <1>4, <1>5, <1>6, <2>3, <2>10, <4>2 DEF Undone
      <4> QED BY <1>4, <1>7, <2>1, <4>1, <4>2 DEF Undone
    <3>3. UndoneInv'
      BY <2>1, <3>2 DEF UndoneInv
    <3>4. OpInv'
      BY <1>1, <1>3, <2>1, <2>4, <2>6, <2>7, <2>8, <2>10, <3>1, <3>3, StartingStep
    <3> QED BY <1>1, <2>1, <2>3, <2>4, <3>4, AssembleMove
  <2> QED BY <1>2, <2>9, <2>10
<1>9. CASE Fault /\ (UNCHANGED disk \/ Rename(op.gc.from, Guard(op.gc.of))) /\ Goto(op.gc.failed)
  <2>1. mode = "serving"
    BY <1>9 DEF Fault
  <2>2. op' \in Op /\ op'.pc # "insertDelete" /\ OpInv'
    <3>1. CASE f = "finish"
      <4>1. op' \in Op /\ op'.pc = "finish" /\ op'.key = op.key /\ op'.put = op.put /\ op'.del = op.del
        BY <1>2, <1>3, <1>4, <1>9, <3>1, GotoType
      <4>2. Trying
        BY <1>1, <1>3, <3>1 DEF Trying
      <4> QED BY <1>1, <1>2, <1>7, <2>1, <4>1, <4>2, ToFinish
    <3>2. CASE f = "idle"
      <4>1. op' \in Op /\ op' = Idle
        BY <1>2, <1>3, <1>4, <1>9, <3>2, GotoType
      <4>2. mode' # "recovering"
        BY <1>1, <2>1
      <4> QED BY <4>1, <4>2, ToIdle DEF Idle
    <3> QED BY <1>5, <2>1, <3>1, <3>2
  <2>3. CASE disk' = disk
    BY <1>1, <2>2, <2>3, AssembleQuiet
  <2>4. CASE Rename(op.gc.from, Guard(op.gc.of))
    <3>1. Rename(x, Guard(g))
      BY <1>3, <2>4 DEF Rename
    <3>2. at' \in [Places -> Files \cup {None}] /\ stamp' \in [Files -> Nat] /\ Store'
      BY <1>1, <1>4, <3>1, MovedAside
    <3> QED BY <1>1, <2>2, <3>2, AssembleMove
  <2> QED BY <1>9, <2>3, <2>4
<1> QED BY <1>8, <1>9 DEF MoveAside

LEMMA UnlinkStep ==
    ASSUME FilesInv, Unlink
    PROVE  FilesInv'
<1>1. /\ op.pc = "unlink" /\ mode' = mode /\ waiting' = waiting /\ revision' = revision /\ JournalKept
      /\ (Works \/ Fault) /\ journal' = journal /\ row' = row /\ request' = request /\ claim' = claim /\ Removing
      /\ stamp' = stamp
  BY DEF Unlink, At, rows, JournalKept, Removing
<1>2. /\ TypeOK /\ Store /\ ModeInv /\ HolderInv /\ StartInv /\ AfterInv /\ RemovalInv /\ UndoneInv /\ op # Idle
      /\ mode \in {"serving", "recovering"}
  BY <1>1 DEF FilesInv, OpInv, ModeInv, Idle, TypeOK
<1>3. PICK u, d, g, t, f : u = op.put /\ d = op.del /\ g = op.gc.of /\ t = op.gc.then /\ f = op.gc.failed
  OBVIOUS
<1>4. /\ g \in Ops /\ t \in Pcs /\ f \in Pcs /\ op.gc # None
      /\ u \in Ops \cup {None} /\ d \in Ops \cup {None} /\ op \in Op /\ Guard(g) \in Places
  BY <1>1, <1>2, <1>3, OpType, PlacesApart DEF ModeInv
<1>5. /\ mode = "serving" => \/ f = "finish" /\ t \in {"finish", "unpublished"}
                             \/ f = "idle" /\ t \in {"complete", "completeDelete"}
      /\ mode = "recovering" => f = "refuse" /\ t \in {"unpublished", "settle"}
      /\ t = "unpublished" => u # None /\ OldAtTarget(u)
      /\ mode = "recovering" => Undone({})
  BY <1>1, <1>2, <1>3 DEF RemovalInv, UndoneInv
<1>6. /\ u # None => Row(u) /\ Target(u) \in Places /\ Temp(u) \in Places /\ Target(u) # Guard(g) /\ Temp(u) # Guard(g)
      /\ d # None => Row(d) /\ Trash(d) \in Places /\ Trash(d) # Guard(g)
  <2>1. (u # None => Row(u)) /\ (d # None => Row(d))
    BY <1>1, <1>2, <1>3, HolderRows, StartRow DEF Publishes, Deletes
  <2> QED BY <1>2, <1>4, <2>1, NamesTyped, PlacesApart
<1>7. JournalNames /\ (\A o \in Ops : (Pending(o)' <=> Pending(o)) /\ (Done(o)' <=> Done(o))
                                      /\ Target(o)' = Target(o))
  BY <1>1 DEF JournalNames, Row, Pending, Done, Target
<1>8. /\ at' \in [Places -> Files \cup {None}] /\ stamp' \in [Files -> Nat] /\ Store'
      /\ \A z \in Places : z # Guard(g) => at'[z] = at[z]
  <2>1. at' = at \/ at' = [at EXCEPT ![Guard(g)] = None]
    BY <1>3 DEF Unlink, Unlinked
  <2>2. at \in [Places -> Files \cup {None}] /\ stamp \in [Files -> Nat]
    BY <1>2 DEF TypeOK
  <2>3. CASE at' = at
    BY <1>1, <1>2, <2>2, <2>3, SameStore DEF ClaimsKept
  <2>4. CASE at' = [at EXCEPT ![Guard(g)] = None]
    <3>1. at'[Guard(g)] = None /\ (\A z \in Places : z # Guard(g) => at'[z] = at[z])
          /\ at' \in [Places -> Files \cup {None}]
      BY <1>4, <2>2, <2>4
    <3> QED BY <1>1, <1>2, <1>4, <2>2, <3>1, UnlinkStore
  <2> QED BY <2>1, <2>3, <2>4
<1>9. t = "unpublished" => u \in Ops /\ u # None /\ OldAtTarget(u)'
  <2>1. ASSUME t = "unpublished" PROVE OldAtTarget(u)'
    <3>1. at'[Target(u)] = at[Target(u)] /\ Target(u)' = Target(u) /\ OldAtTarget(u)
      BY <1>4, <1>5, <1>6, <1>7, <1>8, <2>1
    <3>2. at'[Target(u)'] = at[Target(u)]
      BY <3>1
    <3> QED BY <1>1, <3>1, <3>2 DEF OldAtTarget, Done, Row
  <2> QED BY <1>4, <1>5, <2>1
<1>10. ASSUME NEW pc \in Pcs, pc = f \/ pc = t, Goto(pc) PROVE op' \in Op /\ op'.pc # "insertDelete" /\ OpInv'
  <2>1. CASE pc \in {"finish", "unpublished", "complete", "completeDelete", "idle"} /\ mode = "serving"
    <3>1. CASE pc = "idle"
      <4>1. op' \in Op /\ op' = Idle
        BY <1>2, <1>10, <3>1, GotoType
      <4>2. mode' # "recovering"
        BY <1>1, <2>1
      <4> QED BY <4>1, <4>2, ToIdle DEF Idle
    <3>2. CASE pc # "idle"
      <4>1. op' \in Op /\ op'.pc = pc /\ op'.key = op.key /\ op'.put = op.put /\ op'.del = op.del
        BY <1>2, <1>10, <3>2, GotoType
      <4>2. pc \in {"finish", "unpublished"} => f = "finish" /\ Trying
        BY <1>1, <1>3, <1>5, <1>10, <2>1 DEF Trying
      <4>3. CASE pc = "finish"
        BY <1>1, <1>2, <1>7, <2>1, <4>1, <4>2, <4>3, ToFinish
      <4>4. CASE pc \in {"unpublished", "complete", "completeDelete"}
        <5>1. op'.pc \in Holding /\ ~Removing' /\ pc = t
          BY <1>5, <1>10, <2>1, <4>1, <4>4 DEF Holding, Undoing, After, Removing
        <5>2. PutInv'
          <6>1. op'.put = u
            BY <1>3, <4>1
          <6> QED BY <1>9, <4>1, <4>4, <5>1, <6>1 DEF PutInv
        <5>3. ForwardInv' /\ DelInv' /\ RemovalInv'
          BY <4>1, <4>4, <5>1 DEF ForwardInv, DelInv, RemovalInv, Forward
        <5>4. AfterInv'
          BY <1>1, <1>2, <1>3, <1>4, <1>7, <4>1, <4>4, <5>1 DEF AfterInv, After
        <5>5. Trying' => Trying
          BY <4>1, <4>2, <4>4, <5>1 DEF Trying, Forward, Undoing
        <5> QED BY <1>1, <1>2, <1>7, <2>1, <4>1, <4>4, <5>1, <5>2, <5>3, <5>4, <5>5, ServingStep
      <4> QED BY <2>1, <3>2, <4>3, <4>4
    <3> QED BY <3>1, <3>2
  <2>2. CASE pc \in {"unpublished", "settle"} /\ mode = "recovering"
    <3>1. op' \in Op /\ op'.pc = pc /\ op'.key = op.key /\ op'.put = u /\ op'.del = d
      BY <1>2, <1>3, <1>10, <2>2, GotoType
    <3>2. Undone({})'
      <4>1. ASSUME u # None, Pending(u) PROVE at'[Target(u)] # u /\ at'[Temp(u)] # u
        BY <1>3, <1>4, <1>5, <1>6, <1>8, <2>2, <4>1 DEF Undone
      <4>2. ASSUME d # None, Pending(d) PROVE at'[Trash(d)] = None
        BY <1>3, <1>4, <1>5, <1>6, <1>8, <2>2, <4>2 DEF Undone
      <4> QED BY <1>4, <1>7, <3>1, <4>1, <4>2 DEF Undone
    <3>3. pc = "unpublished" => t = "unpublished"
      BY <1>5, <1>10, <2>2
    <3>4. OpInv'
      BY <1>1, <1>3, <1>4, <1>9, <2>2, <3>1, <3>2, <3>3, ToSettle
    <3> QED BY <2>2, <3>1, <3>4
  <2>3. CASE pc = "refuse" /\ mode = "recovering"
    <3>1. op' \in Op /\ op'.pc = pc /\ op'.key = op.key
      BY <1>2, <1>10, <2>3, GotoType
    <3>2. OpInv'
      BY <1>1, <2>3, <3>1, ToRefuse
    <3> QED BY <2>3, <3>1, <3>2
  <2> QED BY <1>2, <1>5, <1>10, <2>1, <2>2, <2>3
<1>11. op' \in Op /\ op'.pc # "insertDelete" /\ OpInv'
  BY <1>3, <1>4, <1>10 DEF Unlink
<1> QED BY <1>1, <1>8, <1>11, AssembleMove

-----------------------------------------------------------------------------
(* New journal rows: the lock is taken. *)

LEMMA FreshRow ==
    ASSUME Cardinality(Unused) >= 1
    PROVE  Fresh \in Ops /\ ~Row(Fresh)
<1>1. Unused # {}
  BY FS_EmptySet
<1> QED BY <1>1, FreshUnused

LEMMA OneRowLess ==
    ASSUME NEW n \in Ops, ~Row(n), Row(n)', \A o \in Ops : o # n => (Row(o)' <=> Row(o))
    PROVE  Cardinality(Unused') = Cardinality(Unused) - 1
<1>1. Unused' = Unused \ {n} /\ n \in Unused
  BY DEF Unused, Row
<1> QED BY <1>1, UnusedFinite, FS_RemoveElement

(* A row that names the file of a setup, or nothing. *)
LEMMA IntentRow ==
    ASSUME FilesInv, NEW kind \in {"publish", "delete"}, NEW k \in Keys, NEW p \in Paths, NEW same \in BOOLEAN,
           NEW expected \in Version \cup {None}, NEW n \in Ops, ~Row(n), n = Fresh,
           request[k] # None, kind = "delete" => expected # None, expected # None => Proper(expected.file, p),
           Intent(kind, k, p, same, expected),
           at' = at, row' = row, claim' = claim, request' = request
    PROVE  /\ Store' /\ Row(n)' /\ Nowhere(n)' /\ Pending(n)' /\ journal'[n].state = "intent"
           /\ journal'[n].kind = kind /\ journal'[n].key = k /\ journal'[n].path = p /\ journal'[n].expected = expected
           /\ journal' \in [Ops -> JournalRow \cup {None}] /\ JournalNames
           /\ \A o \in Ops : o # n => journal'[o] = journal[o] /\ (Row(o)' <=> Row(o))
<1>1. TypeOK /\ Store
  BY DEF FilesInv
<1>2. PICK r : r = [kind |-> kind, key |-> k, path |-> p, same |-> same, expected |-> expected, prepared |-> FALSE,
                    result |-> None, state |-> "intent"]
  OBVIOUS
<1>3. /\ r \in JournalRow /\ r.kind = kind /\ r.key = k /\ r.path = p /\ r.expected = expected /\ r.state = "intent"
      /\ journal' = [journal EXCEPT ![n] = r]
  BY <1>2 DEF JournalRow, Intent
<1>4. Store' /\ Row(n)' /\ Nowhere(n)' /\ Pending(n)'
  BY <1>1, <1>3, IntentStore
<1>5. /\ journal' \in [Ops -> JournalRow \cup {None}] /\ journal'[n] = r
      /\ \A o \in Ops : o # n => journal'[o] = journal[o]
  BY <1>1, <1>3 DEF TypeOK
<1> QED BY <1>3, <1>4, <1>5 DEF JournalNames, Row

(* The file a setup has. *)
LEMMA ExistingFile ==
    ASSUME FilesInv, NEW s \in Setups, row[s] # None
    PROVE  /\ row[s].path \in Paths /\ row[s].version \in Version /\ row[s].version # None
           /\ Proper(row[s].version.file, row[s].path)
<1>1. TypeOK /\ Store
  BY DEF FilesInv
<1>2. row[s].version \in Version /\ None \notin Version
  BY <1>1, RowsTyped, RecordAssumption
<1> QED BY <1>1, <1>2, RowFile

LEMMA InsertDeleteStep ==
    ASSUME FilesInv, InsertDelete
    PROVE  FilesInv'
<1>1. /\ op.pc = "insertDelete" /\ mode' = mode /\ waiting' = waiting /\ revision' = revision
      /\ (Works \/ Fault) /\ row' = row /\ request' = request /\ claim' = claim /\ disk' = disk
      /\ at' = at /\ stamp' = stamp
  BY DEF InsertDelete, At, rows, disk
<1>2. TypeOK /\ Store /\ ForwardInv /\ PutInv /\ HolderInv /\ mode = "serving" /\ op # Idle /\ Trying /\ op.key \in Keys
      /\ op.pc \in Forward /\ R.setup \in Setups /\ R = request[op.key] /\ CapacityInv /\ RequestInv
      /\ claim[op.key] = "in_progress" /\ op.key \notin waiting
  BY <1>1, AtServing DEF FilesInv, OpInv, Forward
<1>3. CASE Fault /\ Goto("finish") /\ UNCHANGED journal
  <2>1. op' \in Op /\ op'.pc = "finish" /\ op'.key = op.key /\ op'.put = op.put /\ op'.del = op.del
    BY <1>2, <1>3, GotoType DEF Pcs
  <2>2. JournalNames /\ JournalKept
    BY <1>1, <1>3 DEF JournalNames, JournalKept, Row
  <2>3. OpInv' /\ op'.pc # "insertDelete"
    BY <1>1, <1>2, <2>1, <2>2, ToFinish
  <2> QED BY <1>1, <2>1, <2>2, <2>3, AssembleQuiet
<1>4. CASE /\ Works /\ Intent("delete", op.key, Existing.path, FALSE, Existing.version)
           /\ op' = [op EXCEPT !.del = Fresh, !.pc = "prepare"]
  <2>1. PICK u, k, n, e, same : u = op.put /\ k = op.key /\ n = Fresh /\ e = Existing /\ same = FALSE
    OBVIOUS
  <2>2. n \in Ops /\ n # None /\ ~Row(n)
    <3>1. Cardinality(Unused) >= 1
      BY <1>1, <1>2, UnusedFinite, FS_CardinalityType DEF CapacityInv
    <3> QED BY <2>1, <3>1, FreshRow, OpsAreNot
  <2>3. /\ u # None /\ u \in Ops /\ Publishes(u) /\ Pending(u) /\ Nowhere(u) /\ journal[u].key = k
        /\ journal[u].path = R.path /\ R.kind = "put" /\ e # None /\ u # n /\ u = op.put
        /\ journal[u].expected # None => Existing.version.file = OldFile(u)
    BY <1>1, <1>2, <2>1, <2>2, HolderRows DEF PutInv, ForwardInv
  <2>4. /\ e.path \in Paths /\ e.version \in Version /\ e.version # None /\ Proper(e.version.file, e.path)
    BY <1>2, <2>1, <2>3, ExistingFile DEF Existing
  <2>5. Intent("delete", k, e.path, same, e.version) /\ same \in BOOLEAN
    BY <1>4, <2>1 DEF Intent
  <2>6. k \in Keys /\ request[k] # None
    BY <1>2, <2>1 DEF HolderInv
  <2>7. /\ Store' /\ Row(n)' /\ Nowhere(n)' /\ Pending(n)' /\ journal'[n].kind = "delete" /\ journal'[n].key = k
        /\ journal'[n].expected = e.version
        /\ journal' \in [Ops -> JournalRow \cup {None}] /\ JournalNames
        /\ \A o \in Ops : o # n => journal'[o] = journal[o] /\ (Row(o)' <=> Row(o))
    BY <1>1, <2>1, <2>2, <2>4, <2>5, <2>6, IntentRow
  <2>8. op' \in Op /\ op'.pc = "prepare" /\ op'.key = k /\ op'.put = u /\ op'.del = n
    BY <1>2, <1>4, <2>1, <2>2, OpType DEF Op, Pcs
  <2>9. TypeOK'
    BY <1>1, <1>2, <2>7, <2>8, BoundsType DEF TypeOK
  <2>10. CapacityInv'
    <3>1. Cardinality(Unused') = Cardinality(Unused) - 1
      BY <2>2, <2>7, OneRowLess
    <3>2. Cardinality(Unused) \in Nat /\ Cardinality(waiting) \in Nat
      BY <1>2, UnusedFinite, FS_CardinalityType DEF CapacityInv
    <3> QED BY <1>1, <1>2, <2>8, <3>1, <3>2 DEF CapacityInv
  <2>11. RequestInv'
    BY <1>1, <1>2 DEF RequestInv
  <2>12. /\ Publishes(u)' /\ Pending(u)' /\ Nowhere(u)' /\ journal'[u].key = k /\ OldFile(u)' = OldFile(u)
         /\ journal'[u].path = journal[u].path /\ journal'[u].expected = journal[u].expected
         /\ Deletes(n)' /\ OldFile(n)' = e.version.file /\ R' = R /\ Existing' = e
    BY <1>1, <2>1, <2>3, <2>4, <2>7, <2>8 DEF Publishes, Pending, Nowhere, Row, OldFile, Deletes, R, Existing
  <2>13. HolderInv'
    BY <1>1, <1>2, <2>1, <2>3, <2>6, <2>7, <2>8, <2>12 DEF HolderInv
  <2>14. ModeInv' /\ StartInv' /\ DelInv' /\ AfterInv' /\ UndoneInv' /\ RemovalInv'
    <3>1. op'.pc \in Holding /\ op'.key # None /\ ~Removing'
      BY <2>1, <2>6, <2>8, NoneAssumption DEF Holding, Forward, Removing
    <3> QED BY <1>1, <1>2, <2>8, <3>1 DEF ModeInv, StartInv, DelInv, AfterInv, UndoneInv, RemovalInv, After
  <2>15. PutInv'
    BY <2>3, <2>8, <2>12 DEF PutInv
  <2>16. ForwardInv'
    BY <1>2, <2>1, <2>2, <2>3, <2>7, <2>8, <2>12 DEF ForwardInv
  <2> QED BY <2>7, <2>9, <2>10, <2>11, <2>13, <2>14, <2>15, <2>16 DEF FilesInv, OpInv
<1> QED BY <1>3, <1>4 DEF InsertDelete

(* What the new holder of the lock owes the invariant. *)
LEMMA AssembleLock ==
    ASSUME FilesInv, NEW k \in waiting, mode = "serving", mode' = mode, request' = request, claim' = claim,
           waiting' = waiting \ {k}, disk' = disk, rows' = rows, Works \/ Fault, Store',
           journal' \in [Ops -> JournalRow \cup {None}],
           Cardinality(Unused') >= Cardinality(Unused) - 1,
           op' \in Op, op'.key = k, op'.pc \in {"insertDelete", "prepare", "quarantine", "finish"},
           NEW u \in Ops \cup {None}, NEW d \in Ops \cup {None}, op'.put = u, op'.del = d,
           u # None => Publishes(u)' /\ request[k].kind = "put" /\ journal'[u].path = request[k].path
                       /\ journal'[u].key = k,
           d # None => Deletes(d)' /\ journal'[d].key = k,
           ForwardInv', PutInv', DelInv'
    PROVE  FilesInv'
<1>1. TypeOK /\ RequestInv /\ CapacityInv /\ at' = at /\ stamp' = stamp /\ row' = row /\ revision' = revision
  BY DEF FilesInv, disk, rows
<1>2. k \in Keys /\ k # None /\ request[k] # None /\ claim[k] = "in_progress"
  BY <1>1, NoneAssumption DEF TypeOK, RequestInv
<1>3. op'.pc \in Holding /\ ~Removing' /\ R' = request[k]
  BY DEF Holding, Forward, Removing, R
<1>4. TypeOK'
  BY <1>1, BoundsType DEF TypeOK
<1>5. RequestInv'
  BY <1>1 DEF RequestInv
<1>6. CapacityInv'
  <2>1. IsFiniteSet(waiting') /\ Cardinality(waiting') = Cardinality(waiting) - 1
    BY <1>1, FS_RemoveElement DEF CapacityInv
  <2>2. Cardinality(Unused) \in Nat /\ Cardinality(waiting) \in Nat /\ Cardinality(Unused)' \in Int
    <3>1. Cardinality(Unused)' \in Nat
      <4>1. IsFiniteSet(Ops)
        BY BoundsAssumption, FS_Interval DEF Ops
      <4> QED BY <4>1, FS_Subset, FS_CardinalityType DEF Unused
    <3> QED BY <1>1, <3>1, UnusedFinite, FS_CardinalityType DEF CapacityInv
  <2> QED BY <1>1, <2>1, <2>2 DEF CapacityInv
<1>7. HolderInv'
  BY <1>2, <1>3 DEF HolderInv, Publishes, Deletes, Row
<1>8. ModeInv' /\ StartInv' /\ AfterInv' /\ UndoneInv' /\ RemovalInv'
  BY <1>2, <1>3 DEF ModeInv, StartInv, AfterInv, UndoneInv, RemovalInv, After
<1> QED BY <1>4, <1>5, <1>6, <1>7, <1>8 DEF FilesInv, OpInv

(* The holder without rows: a version that does not match, or an error. *)
LEMMA LockStep ==
    ASSUME FilesInv, NEW k \in Keys, Lock(k)
    PROVE  FilesInv'
<1>1. /\ mode = "serving" /\ mode' = mode /\ op = Idle /\ k \in waiting /\ waiting' = waiting \ {k}
      /\ (Works \/ Fault) /\ disk' = disk /\ rows' = rows /\ claim' = claim /\ request' = request
      /\ at' = at /\ stamp' = stamp /\ row' = row /\ revision' = revision
  BY DEF Lock, disk, rows
<1>2. TypeOK /\ Store /\ RequestInv /\ CapacityInv
  BY DEF FilesInv
<1>3. PICK r, s, n : r = request[k] /\ s = request[k].setup /\ n = Fresh
  OBVIOUS
<1>4. /\ r \in Request /\ r # None /\ s \in Setups /\ s = r.setup /\ r.kind \in {"put", "delete"}
      /\ r.same \in BOOLEAN /\ r.path \in Paths \cup {None}
      /\ r.kind = "put" => r.path \in Paths
      /\ r.kind = "delete" => r.version # None
  BY <1>1, <1>2, <1>3 DEF RequestInv, TypeOK, Request
<1>5. Cardinality(Unused) >= 1 /\ Cardinality(Unused) \in Nat
  <2>1. Cardinality(waiting) >= 1
    BY <1>1, <1>2, FS_EmptySet, FS_CardinalityType DEF CapacityInv
  <2> QED BY <1>2, <2>1, UnusedFinite, FS_CardinalityType DEF CapacityInv, Idle
<1>6. n \in Ops /\ ~Row(n) /\ n # None
  BY <1>3, <1>5, FreshRow, OpsAreNot
<1>7. None \in Keys \cup {None} /\ Idle \in Op
  BY DEF Idle, Op, Pcs
<1>8. CASE op' = [Idle EXCEPT !.key = k, !.pc = "finish"] /\ UNCHANGED journal
  <2>1. op' \in Op /\ op'.pc = "finish" /\ op'.key = k /\ op'.put = None /\ op'.del = None
    BY <1>8 DEF Idle, Op, Pcs
  <2>2. Unused' = Unused /\ JournalKept
    BY <1>1, <1>8 DEF Unused, JournalKept
  <2>3. Store'
    BY <1>1, <1>2, <1>8, SameStore DEF ClaimsKept
  <2>4. ForwardInv' /\ PutInv' /\ DelInv'
    BY <2>1 DEF ForwardInv, PutInv, DelInv, Forward
  <2>5. Cardinality(Unused') >= Cardinality(Unused) - 1 /\ journal' \in [Ops -> JournalRow \cup {None}]
    BY <1>2, <1>5, <1>8, <2>2 DEF TypeOK
  <2>6. PICK z \in Ops \cup {None} : z = None
    OBVIOUS
  <2> QED BY <1>1, <2>1, <2>3, <2>4, <2>5, <2>6, AssembleLock
<1>9. CASE BeginPut(k)
  <2>1. PICK renamed, p, e, same : /\ renamed = (row[s] # None /\ row[s].path # request[k].path)
                                   /\ p = r.path /\ e = (IF row[s] = None \/ renamed THEN None ELSE row[s].version)
                                   /\ same = (r.same /\ ~renamed)
    OBVIOUS
  <2>2. r.kind = "put" /\ p \in Paths /\ same \in BOOLEAN
    BY <1>3, <1>4, <1>9, <2>1 DEF BeginPut
  <2>3. e \in Version \cup {None} /\ (e # None => row[s] # None /\ e = row[s].version /\ Proper(e.file, p))
    BY <1>3, <1>4, <2>1, ExistingFile
  <2>4. Intent("publish", k, p, same, e)
    BY <1>3, <1>9, <2>1 DEF BeginPut, Intent
  <2>5. /\ Store' /\ Row(n)' /\ Nowhere(n)' /\ Pending(n)' /\ journal'[n].kind = "publish" /\ journal'[n].key = k
        /\ journal'[n].expected = e /\ journal'[n].path = p
        /\ journal' \in [Ops -> JournalRow \cup {None}]
        /\ \A o \in Ops : o # n => journal'[o] = journal[o] /\ (Row(o)' <=> Row(o))
    BY <1>1, <1>3, <1>4, <1>6, <2>2, <2>3, <2>4, IntentRow
  <2>6. op' = [Idle EXCEPT !.key = k, !.put = n, !.pc = IF renamed THEN "insertDelete" ELSE "prepare"]
    BY <1>3, <1>9, <2>1 DEF BeginPut
  <2>7. /\ op' \in Op /\ op'.pc \in {"insertDelete", "prepare"} /\ op'.key = k /\ op'.put = n /\ op'.del = None
        /\ op'.pc = "insertDelete" <=> renamed
    <3>1. CASE renamed
      BY <1>6, <2>6, <3>1 DEF Idle, Op, Pcs
    <3>2. CASE ~renamed
      BY <1>6, <2>6, <3>2 DEF Idle, Op, Pcs
    <3> QED BY <2>1, <3>1, <3>2
  <2>8. Cardinality(Unused') = Cardinality(Unused) - 1
    BY <1>6, <2>5, OneRowLess
  <2>9. Publishes(n)' /\ (e # None => OldFile(n)' = e.file) /\ R' = r /\ Existing' = row[s]
    BY <1>1, <1>3, <1>4, <2>5, <2>7 DEF Publishes, OldFile, R, Existing
  <2>10. PutInv' /\ DelInv'
    BY <1>6, <2>5, <2>7 DEF PutInv, DelInv
  <2>11. ForwardInv'
    <3>1. e = None => (row[s] = None \/ renamed) /\ (renamed => row[s] # None)
      BY <1>3, <1>4, <2>1, ExistingFile
    <3> QED BY <1>6, <2>1, <2>3, <2>5, <2>7, <2>9, <3>1 DEF ForwardInv
  <2>12. PICK z \in Ops \cup {None} : z = None
    OBVIOUS
  <2>13. Cardinality(Unused') >= Cardinality(Unused) - 1
    BY <1>5, <2>8
  <2> QED BY <1>1, <1>3, <1>6, <2>1, <2>2, <2>5, <2>7, <2>9, <2>10, <2>11, <2>12, <2>13, AssembleLock
<1>10. CASE Accepted(k) /\ BeginDelete(k)
  <2>1. PICK p, e, same : p = row[s].path /\ e = row[s].version /\ same = FALSE
    OBVIOUS
  <2>2. r.kind = "delete" /\ row[s] # None /\ same \in BOOLEAN
    BY <1>3, <1>4, <1>10, <2>1 DEF BeginDelete, Accepted
  <2>3. e \in Version /\ e # None /\ Proper(e.file, p) /\ p \in Paths
    BY <1>4, <2>1, <2>2, ExistingFile
  <2>4. Intent("delete", k, p, same, e)
    BY <1>3, <1>10, <2>1 DEF BeginDelete, Intent
  <2>5. /\ Store' /\ Row(n)' /\ Nowhere(n)' /\ Pending(n)' /\ journal'[n].kind = "delete" /\ journal'[n].key = k
        /\ journal'[n].expected = e
        /\ journal' \in [Ops -> JournalRow \cup {None}]
        /\ \A o \in Ops : o # n => journal'[o] = journal[o] /\ (Row(o)' <=> Row(o))
    BY <1>1, <1>3, <1>4, <1>6, <2>2, <2>3, <2>4, IntentRow
  <2>6. op' = [Idle EXCEPT !.key = k, !.del = n, !.pc = "quarantine"]
    BY <1>3, <1>10 DEF BeginDelete
  <2>7. op' \in Op /\ op'.pc = "quarantine" /\ op'.key = k /\ op'.put = None /\ op'.del = n
    BY <1>6, <2>6 DEF Idle, Op, Pcs
  <2>8. Cardinality(Unused') = Cardinality(Unused) - 1
    BY <1>6, <2>5, OneRowLess
  <2>9. Deletes(n)' /\ OldFile(n)' = e.file /\ R' = r /\ Existing' = row[s]
    BY <1>1, <1>3, <1>4, <2>3, <2>5, <2>7 DEF Deletes, OldFile, R, Existing
  <2>10. PutInv' /\ DelInv'
    BY <1>6, <2>5, <2>7 DEF PutInv, DelInv
  <2>11. ForwardInv'
    BY <1>6, <2>1, <2>2, <2>5, <2>7, <2>9 DEF ForwardInv
  <2>12. PICK z \in Ops \cup {None} : z = None
    OBVIOUS
  <2>13. Cardinality(Unused') >= Cardinality(Unused) - 1
    BY <1>5, <2>8
  <2> QED BY <1>1, <1>3, <1>6, <2>5, <2>7, <2>9, <2>10, <2>11, <2>12, <2>13, AssembleLock
<1> QED BY <1>8, <1>9, <1>10 DEF Lock

(* A request is journaled. *)
LEMMA ClaimStep ==
    ASSUME FilesInv, NEW k \in Keys, Claim(k)
    PROVE  FilesInv'
<1>1. /\ mode = "serving" /\ claim[k] = "none" /\ SetClaim(k, "in_progress") /\ waiting' = waiting \cup {k}
      /\ Cardinality(Unused) >= 2 * (Cardinality(waiting) + 1) + (IF op = Idle THEN 0 ELSE 1)
      /\ disk' = disk /\ rows' = rows /\ journal' = journal /\ op' = op /\ mode' = mode /\ bounds' = bounds
      /\ at' = at /\ stamp' = stamp /\ row' = row /\ revision' = revision
  BY DEF Claim, disk, rows, bounds
<1>2. TypeOK /\ Store /\ RequestInv /\ CapacityInv /\ OpInv /\ HolderInv /\ ModeInv
  BY DEF FilesInv, OpInv
<1>3. claim'[k] = "in_progress" /\ (\A l \in Keys : l # k => claim'[l] = claim[l])
      /\ claim' \in [Keys -> {"none", "in_progress", "completed", "failed", "conflict"}]
  BY <1>1, <1>2 DEF SetClaim, TypeOK
<1>4. /\ request' \in [Keys -> Request \cup {None}] /\ request'[k] # None
      /\ \A l \in Keys : request[l] # None => request'[l] = request[l]
      /\ request'[k].kind = "put" <=> request'[k].path # None
      /\ request'[k].kind = "delete" => request'[k].version # None
      /\ \A l \in Keys : l # k => request'[l] = request[l]
  <2>1. CASE request[k] # None /\ UNCHANGED request
    BY <1>2, <2>1 DEF TypeOK, RequestInv
  <2>2. CASE request[k] = None
    <3>0. PICK s \in Setups : \E r \in Wanted(s) : request' = [request EXCEPT ![k] = r]
      BY <2>2 DEF Claim
    <3>1. PICK r \in Wanted(s) : request' = [request EXCEPT ![k] = r]
      BY <3>0
    <3>2. PICK v : v = IF row[s] = None THEN None ELSE row[s].version
      OBVIOUS
    <3>3. /\ r \in [kind : {"put", "delete"}, setup : {s}, path : Paths \cup {None}, same : BOOLEAN,
                    revision : {revision[s]}, version : {v}]
          /\ r.kind = "put" <=> r.path # None
          /\ r.kind = "delete" => r.version # None
      BY <3>1, <3>2 DEF Wanted
    <3>4. r \in Request
      <4>1. v \in Version \cup {None} /\ revision[s] \in Nat
        <5>1. TypeOK
          BY <1>2
        <5> QED BY <3>2, <5>1, RowsTyped DEF TypeOK
      <4> QED BY <3>3, <4>1 DEF Request
    <3>5. r # None
      BY <3>4, RecordAssumption
    <3> QED BY <1>2, <2>2, <3>1, <3>3, <3>4, <3>5 DEF TypeOK
  <2> QED BY <2>1, <2>2 DEF Claim
<1>5. k \notin waiting /\ (op # Idle => request[op.key] # None /\ op.key \in Keys)
  BY <1>1, <1>2, OpType, NoneAssumption DEF RequestInv, HolderInv, ModeInv
<1>6. TypeOK'
  BY <1>1, <1>2, <1>3, <1>4 DEF TypeOK, bounds
<1>7. Store'
  BY <1>1, <1>2, <1>3, <1>4, SameStore DEF ClaimsKept
<1>8. RequestInv'
  BY <1>1, <1>2, <1>3, <1>4 DEF RequestInv, TypeOK
<1>9. CapacityInv'
  <2>1. IsFiniteSet(waiting') /\ Cardinality(waiting') = Cardinality(waiting) + 1
    BY <1>1, <1>2, <1>5, FS_AddElement DEF CapacityInv
  <2>2. Unused' = Unused /\ (op.pc = "insertDelete" => op # Idle)
    BY <1>1 DEF Unused, Idle
  <2>3. Cardinality(Unused) \in Nat /\ Cardinality(waiting) \in Nat
    BY <1>2, UnusedFinite, FS_CardinalityType DEF CapacityInv
  <2> QED BY <1>1, <2>1, <2>2, <2>3 DEF CapacityInv
<1>10. OpInv'
  <2>1. op # Idle => request'[op.key] = request[op.key] /\ R' = R /\ Existing' = Existing
    BY <1>1, <1>4, <1>5 DEF R, Existing
  <2>2. op # Idle /\ Trying => op.key # k
    BY <1>1, <1>2 DEF HolderInv
  <2>3. HolderInv'
    BY <1>1, <1>2, <1>3, <1>5, <2>1, <2>2 DEF HolderInv, Publishes, Deletes, Row, Trying, Removing
  <2>4. ForwardInv'
    BY <1>1, <1>2, <2>1 DEF OpInv, ForwardInv, Forward, Idle, Pending, Row, OldFile
  <2>5. ModeInv' /\ StartInv' /\ UndoneInv' /\ AfterInv' /\ RemovalInv'
    BY <1>1, <1>2 DEF OpInv, ModeInv, StartInv, UndoneInv, AfterInv, RemovalInv, Removing, Done, Row,
                      OldAtTarget, Target, Removable, Publishes, Deletes, Pending, OldFile
  <2>6. PutInv' /\ DelInv'
    BY <1>1, <1>2 DEF OpInv, PutInv, DelInv, Nowhere, Exposed, Applied, Quarantined, OldAtTarget, Pending, Row, Done,
                      OldFile, Target
  <2> QED BY <2>3, <2>4, <2>5, <2>6 DEF OpInv
<1> QED BY <1>6, <1>7, <1>8, <1>9, <1>10 DEF FilesInv

-----------------------------------------------------------------------------
(* Death, start and recovery. *)

LEMMA AssembleMode ==
    ASSUME FilesInv, disk' = disk, rows' = rows, journal' = journal, request' = request, waiting' = {}, ClaimsKept,
           claim' \in [Keys -> {"none", "in_progress", "completed", "failed", "conflict"}],
           mode' \in {"serving", "down", "recovering", "refused"},
           faults' \in 0 .. MaxFaults, crashes' \in 0 .. MaxCrashes, op' \in Op, op'.pc # "insertDelete", OpInv'
    PROVE  FilesInv'
<1>1. TypeOK /\ RequestInv /\ Store /\ at' = at /\ stamp' = stamp /\ row' = row /\ revision' = revision
  BY DEF FilesInv, disk, rows
<1>2. TypeOK'
  BY <1>1 DEF TypeOK
<1>3. Store'
  BY <1>1, SameStore
<1>4. RequestInv'
  BY <1>1 DEF RequestInv
<1>5. CapacityInv'
  <2>1. IsFiniteSet({}) /\ Cardinality({}) = 0
    BY FS_EmptySet
  <2>2. Cardinality(Unused') \in Nat
    <3>1. IsFiniteSet(Ops)
      BY BoundsAssumption, FS_Interval DEF Ops
    <3> QED BY <3>1, FS_Subset, FS_CardinalityType DEF Unused
  <2> QED BY <2>1, <2>2 DEF CapacityInv
<1> QED BY <1>2, <1>3, <1>4, <1>5 DEF FilesInv

LEMMA CrashStep ==
    ASSUME FilesInv, Crash
    PROVE  FilesInv'
<1>1. TypeOK /\ crashes \in 0 .. MaxCrashes
  BY DEF FilesInv, TypeOK
<1>2. OpInv'
  BY ToIdle DEF Crash
<1>3. op' \in Op /\ op'.pc # "insertDelete"
  BY DEF Crash, Idle, Op, Pcs
<1>4. ClaimsKept /\ claim' = claim /\ crashes' \in 0 .. MaxCrashes /\ faults' = faults
  BY <1>1, BoundsAssumption DEF Crash, ClaimsKept
<1> QED BY <1>1, <1>2, <1>3, <1>4, AssembleMode DEF Crash, TypeOK

LEMMA StartStep ==
    ASSUME FilesInv, Start
    PROVE  FilesInv'
<1>1. TypeOK /\ waiting = {}
  BY DEF FilesInv, RequestInv, Start
<1>2. op' \in Op /\ op'.pc = "recover" /\ op'.key = None
  BY DEF Start, Idle, Op, Pcs
<1>3. OpInv'
  <2>1. op'.pc \in Starting /\ mode' = "recovering" /\ ~Removing'
    BY <1>2 DEF Starting, Start, Removing
  <2> QED BY <1>2, <2>1 DEF OpInv, ModeInv, HolderInv, ForwardInv, StartInv, PutInv, DelInv, AfterInv, UndoneInv,
                            RemovalInv, Forward, After
<1>4. ClaimsKept /\ claim' \in [Keys -> {"none", "in_progress", "completed", "failed", "conflict"}]
  BY <1>1 DEF Start, ClaimsKept, TypeOK
<1>5. faults' = faults /\ crashes' = crashes
  BY DEF Start, bounds
<1> QED BY <1>1, <1>2, <1>3, <1>4, <1>5, AssembleMode DEF Start, TypeOK

LEMMA ReadyStep ==
    ASSUME FilesInv, Ready \/ Refuse
    PROVE  FilesInv'
<1>1. TypeOK /\ waiting' = {} /\ mode' \in {"serving", "refused"} /\ op' = Idle
  BY DEF FilesInv, RequestInv, Ready, Refuse, claims
<1>2. op' \in Op /\ op'.pc # "insertDelete"
  BY <1>1 DEF Idle, Op, Pcs
<1>3. OpInv'
  BY <1>1, ToIdle
<1>4. ClaimsKept /\ claim' = claim /\ request' = request /\ faults' = faults /\ crashes' = crashes
  BY DEF Ready, Refuse, claims, bounds, ClaimsKept
<1>5. disk' = disk /\ rows' = rows /\ journal' = journal
  BY DEF Ready, Refuse
<1> QED BY <1>1, <1>2, <1>3, <1>4, <1>5, AssembleMode DEF TypeOK

LEMMA RecoverStep ==
    ASSUME FilesInv, NEW o \in Ops, Recover(o)
    PROVE  FilesInv'
<1>1. /\ op.pc = "recover" /\ mode' = mode /\ waiting' = waiting /\ revision' = revision /\ JournalKept
      /\ Works /\ journal' = journal /\ row' = row /\ request' = request /\ claim' = claim /\ o \in Unfinished
      /\ stamp' = stamp
  BY DEF Recover, At, rows, JournalKept, Due, Works
<1>2. TypeOK /\ Store /\ ModeInv /\ Row(o) /\ Guard(o) \in Places /\ o # None
  BY <1>1, PlacesApart, OpsAreNot DEF FilesInv, OpInv, Unfinished, Unused, Row
<1>3. mode = "recovering"
  BY <1>1, <1>2 DEF ModeInv, Idle, Holding, Forward, Undoing, After, TypeOK
<1>4. journal[o].kind \in {"publish", "delete"}
  BY <1>2, NamesTyped DEF JournalRow
<1>5. PICK pc, u, d :
        /\ pc = IF \/ at[Guard(o)] = None
                   \/ at[Guard(o)] = Discards(o) /\ (journal[o].kind = "delete" => Committed(o))
                THEN "classify" ELSE "refuse"
        /\ u = (IF journal[o].kind = "publish" THEN o ELSE None)
        /\ d = (IF journal[o].kind = "delete" THEN o ELSE None)
  OBVIOUS
<1>55. op' = [op EXCEPT !.pc = pc, !.put = u, !.del = d]
  BY <1>5 DEF Recover
<1>6. op' \in Op /\ op'.pc = pc /\ op'.put = u /\ op'.del = d /\ op'.key = op.key
  <2>1. op \in Op /\ pc \in {"classify", "refuse"} /\ u \in Ops \cup {None} /\ d \in Ops \cup {None}
    BY <1>2, <1>5 DEF TypeOK
  <2> QED BY <1>55, <2>1 DEF Op, Pcs
<1>7. at' \in [Places -> Files \cup {None}] /\ stamp' \in [Files -> Nat] /\ Store'
  <2>1. at' = at \/ at' = [at EXCEPT ![Guard(o)] = None]
    BY <1>2 DEF Recover, TypeOK
  <2>2. at \in [Places -> Files \cup {None}] /\ stamp \in [Files -> Nat]
    BY <1>2 DEF TypeOK
  <2>3. CASE at' = at
    BY <1>1, <1>2, <2>2, <2>3, SameStore DEF ClaimsKept
  <2>4. CASE at' = [at EXCEPT ![Guard(o)] = None]
    <3>1. at'[Guard(o)] = None /\ (\A z \in Places : z # Guard(o) => at'[z] = at[z])
          /\ at' \in [Places -> Files \cup {None}]
      BY <1>2, <2>2, <2>4
    <3> QED BY <1>1, <1>2, <2>2, <3>1, UnlinkStore
  <2> QED BY <2>1, <2>3, <2>4
<1>8. OpInv'
  <2>1. op'.pc \in Starting /\ ~Removing'
    BY <1>5, <1>6 DEF Starting, Removing
  <2>2. StartInv'
    BY <1>1, <1>2, <1>4, <1>5, <1>6 DEF StartInv, Publishes, Deletes, Row, Unfinished, Unused
  <2>3. PutInv' /\ DelInv' /\ AfterInv' /\ UndoneInv' /\ RemovalInv'
    BY <1>5, <1>6, <2>1 DEF PutInv, DelInv, AfterInv, UndoneInv, RemovalInv, After
  <2> QED BY <1>1, <1>3, <1>6, <2>1, <2>2, <2>3, StartingStep
<1> QED BY <1>1, <1>5, <1>6, <1>7, <1>8, AssembleMove

(* A recovery that removes a file. *)
LEMMA ToRecoveryRemoval ==
    ASSUME FilesInv, mode = "recovering", mode' = mode, journal' = journal, op.pc = "classify",
           NEW u \in Ops \cup {None}, NEW d \in Ops \cup {None}, u = op.put, d = op.del,
           NEW x \in Places, NEW g \in Ops, NEW t \in {"unpublished", "settle"},
           Remove(x, g, t, "refuse"), Removable(x, g)',
           u # None /\ Pending(u) => \A y \in {Target(u), Temp(u)} \ {x} : at'[y] # u,
           d # None /\ Pending(d) => at'[Trash(d)] = None,
           t = "unpublished" => u # None /\ OldAtTarget(u)' /\ x # Target(u)
    PROVE  op' \in Op /\ op'.pc # "insertDelete" /\ OpInv'
<1>1. TypeOK /\ StartInv
  BY DEF FilesInv, OpInv
<1>2. /\ op' \in Op /\ op'.pc = "remove" /\ op'.key = op.key /\ op'.put = u /\ op'.del = d
      /\ op'.gc # None /\ op'.gc.from = x /\ op'.gc.of = g /\ op'.gc.then = t /\ op'.gc.failed = "refuse"
  <2>1. t \in Pcs /\ "refuse" \in Pcs
    BY DEF Pcs
  <2>2. PICK f \in Pcs : f = "refuse"
    BY <2>1
  <2>3. Remove(x, g, t, f)
    BY <2>2
  <2> QED BY <1>1, <2>1, <2>2, <2>3, RemoveType
<1>3. op'.pc \in Starting /\ Removing'
  BY <1>2 DEF Starting, Removing
<1>4. StartInv'
  BY <1>1, <1>2 DEF StartInv, Publishes, Deletes, Row, Unfinished, Unused
<1>5. /\ \A o \in Ops : (Pending(o)' <=> Pending(o))
      /\ u # None => Target(u)' = Target(u)
  BY DEF Pending, Row, Target
<1>6. Undone({x})'
  BY <1>2, <1>5 DEF Undone
<1>7. RemovalInv'
  BY <1>2, <1>5, <1>6 DEF RemovalInv
<1>8. PutInv' /\ DelInv' /\ AfterInv' /\ UndoneInv'
  BY <1>2, <1>3 DEF PutInv, DelInv, AfterInv, UndoneInv, After
<1> QED BY <1>2, <1>3, <1>4, <1>7, <1>8, StartingStep

LEMMA RecoverPublicationStep ==
    ASSUME FilesInv, RecoverPublication
    PROVE  FilesInv'
<1>1. /\ op.pc = "classify" /\ mode' = mode /\ waiting' = waiting /\ revision' = revision /\ JournalKept
      /\ Works /\ journal' = journal /\ row' = row /\ request' = request /\ claim' = claim /\ op.put # None
  BY DEF RecoverPublication, At, rows, JournalKept, Works
<1>2. mode = "recovering" /\ TypeOK /\ Store
  BY <1>1 DEF FilesInv, OpInv, ModeInv, Idle, Holding, Forward, Undoing, After, TypeOK
<1>3. PICK o, x, y : o = op.put /\ x = Temp(op.put) /\ y = Target(op.put)
  OBVIOUS
<1>4. /\ o \in Ops /\ o # None /\ op.del = None /\ Publishes(o) /\ Row(o) /\ o \in Unfinished
      /\ x \in Places /\ x = Temp(o) /\ y \in Places /\ y = Target(o) /\ x # y
  <2>1. o \in Ops /\ o # None /\ op.del = None /\ Publishes(o) /\ Row(o) /\ o \in Unfinished
    BY <1>1, <1>2, <1>3, StartRow DEF Publishes
  <2> QED BY <1>2, <1>3, <2>1, NamesTyped, PlacesApart
<1>5. /\ Committed(o) => Done(o) /\ ~Pending(o)
      /\ ~Committed(o) => Pending(o)
      /\ Publishes(o)' /\ (Pending(o)' <=> Pending(o)) /\ (Done(o)' <=> Done(o)) /\ OldFile(o)' = OldFile(o)
      /\ Target(o)' = y /\ journal'[o].expected = journal[o].expected
  BY <1>1, <1>4 DEF Committed, Done, Pending, Unfinished, Publishes, Row, OldFile, Target
<1>6. /\ journal[o].expected # None => Done(OldFile(o)) /\ OldFile(o) # None /\ ~Pending(OldFile(o))
      /\ journal[o].expected = None => OldFile(o) = None
  BY <1>2, <1>4, OldFileIs, NamesTyped DEF Proper
<1>7. CASE Goto("refuse") /\ UNCHANGED disk
  <2>1. op' \in Op /\ op'.pc = "refuse" /\ op'.key = op.key
    BY <1>2, <1>7, GotoType DEF Pcs
  <2>2. OpInv' /\ op'.pc # "insertDelete"
    BY <1>1, <1>2, <2>1, ToRefuse
  <2> QED BY <1>1, <1>7, <2>1, <2>2, AssembleQuiet
<1>8. ASSUME NEW t \in {"unpublished", "settle"}, UNCHANGED disk,
             IF at[x] = None THEN Goto(t) ELSE Remove(x, o, t, "refuse"),
             at[x] = None \/ Removable(x, o),
             Pending(o) => at[y] # o,
             t = "unpublished" => OldAtTarget(o)
      PROVE  FilesInv'
  <2>1. at' = at /\ (OldAtTarget(o) => OldAtTarget(o)') /\ (Removable(x, o) => Removable(x, o)')
    BY <1>1, <1>5, <1>8 DEF disk, OldAtTarget, Done, Row, Removable, Publishes, Deletes, Target
  <2>2. CASE at[x] = None
    <3>1. op' \in Op /\ op'.pc = t /\ op'.key = op.key /\ op'.put = op.put /\ op'.del = op.del
      BY <1>2, <1>8, <2>2, GotoType DEF Pcs
    <3>2. Undone({})'
      <4>1. op'.put = o /\ op'.del = None
        BY <1>3, <1>4, <3>1
      <4>2. Pending(o) => at'[y] # o /\ at'[x] # o
        BY <1>4, <1>8, <2>1, <2>2
      <4> QED BY <1>4, <1>5, <4>1, <4>2 DEF Undone
    <3>3. OpInv' /\ op'.pc # "insertDelete"
      BY <1>1, <1>2, <1>3, <1>4, <1>8, <2>1, <3>1, <3>2, ToSettle
    <3> QED BY <1>1, <1>8, <3>1, <3>3, AssembleQuiet
  <2>3. CASE at[x] # None
    <3>1. Remove(x, o, t, "refuse") /\ Removable(x, o)'
      BY <1>8, <2>1, <2>3
    <3>2. Pending(o) => \A z \in {Target(o), Temp(o)} \ {x} : at'[z] # o
      BY <1>4, <1>8, <2>1
    <3>3. t = "unpublished" => OldAtTarget(o)' /\ x # Target(o)
      BY <1>4, <1>8, <2>1
    <3>4. PICK d \in Ops \cup {None} : d = None
      OBVIOUS
    <3>5. op' \in Op /\ op'.pc # "insertDelete" /\ OpInv'
      BY <1>1, <1>2, <1>3, <1>4, <3>1, <3>2, <3>3, <3>4, ToRecoveryRemoval
    <3> QED BY <1>1, <1>8, <3>5, AssembleQuiet
  <2> QED BY <2>2, <2>3
<1>9. CASE /\ Recognised(op.put) /\ Committed(op.put) /\ UNCHANGED disk
           /\ IF at[Temp(op.put)] = None THEN Goto("unpublished") ELSE Remove(Temp(op.put), op.put, "unpublished", "refuse")
  <2>1. Recognised(o) /\ Committed(o) /\ IF at[x] = None THEN Goto("unpublished") ELSE Remove(x, o, "unpublished", "refuse")
    BY <1>3, <1>9
  <2>2. at[y] = o /\ at[x] \in {None, OldFile(o)}
    BY <1>4, <2>1 DEF Recognised, TargetNew
  <2>3. OldAtTarget(o) /\ ~Pending(o)
    BY <1>4, <1>5, <2>1, <2>2 DEF OldAtTarget
  <2>4. at[x] = None \/ Removable(x, o)
    BY <1>4, <1>5, <2>1, <2>2 DEF Removable
  <2>5. PICK t \in {"unpublished", "settle"} : t = "unpublished"
    OBVIOUS
  <2> QED BY <1>8, <1>9, <2>1, <2>3, <2>4, <2>5
<1>10. CASE /\ Recognised(op.put) /\ ~Committed(op.put) /\ TargetOld(op.put) /\ UNCHANGED disk
            /\ IF at[Temp(op.put)] = None THEN Goto("unpublished") ELSE Remove(Temp(op.put), op.put, "unpublished", "refuse")
  <2>1. /\ Recognised(o) /\ ~Committed(o) /\ TargetOld(o)
        /\ IF at[x] = None THEN Goto("unpublished") ELSE Remove(x, o, "unpublished", "refuse")
    BY <1>3, <1>10
  <2>2. journal[o].expected # None /\ at[y] # None /\ at[y] = OldFile(o)
    BY <1>4, <1>6, <2>1 DEF TargetOld, Current, OldFile
  <2>3. Pending(o) /\ at[y] # o /\ OldAtTarget(o)
    BY <1>4, <1>5, <1>6, <2>1, <2>2 DEF OldAtTarget
  <2>4. at[x] = None \/ Removable(x, o)
    BY <1>4, <1>5, <2>1, <2>3 DEF Recognised, TargetNew, Removable
  <2>5. PICK t \in {"unpublished", "settle"} : t = "unpublished"
    OBVIOUS
  <2> QED BY <1>8, <1>10, <2>1, <2>3, <2>4, <2>5
<1>11. CASE /\ Recognised(op.put) /\ ~Committed(op.put) /\ at[Target(op.put)] = None /\ UNCHANGED disk
            /\ IF at[Temp(op.put)] = None THEN Goto("settle") ELSE Remove(Temp(op.put), op.put, "settle", "refuse")
  <2>1. /\ Recognised(o) /\ ~Committed(o) /\ at[y] = None
        /\ IF at[x] = None THEN Goto("settle") ELSE Remove(x, o, "settle", "refuse")
    BY <1>3, <1>11
  <2>2. Pending(o) /\ at[y] # o
    BY <1>4, <1>5, <2>1
  <2>3. at[x] = None \/ Removable(x, o)
    BY <1>4, <1>5, <2>1, <2>2 DEF Recognised, TargetNew, Removable
  <2>4. PICK t \in {"unpublished", "settle"} : t = "settle"
    OBVIOUS
  <2> QED BY <1>8, <1>11, <2>1, <2>2, <2>3, <2>4
<1>12. CASE /\ Recognised(op.put) /\ ~Committed(op.put) /\ TargetNew(op.put) /\ UndoExposure(op.put)
            /\ UndoRemoval(op.put, IF OldFile(op.put) = None THEN "settle" ELSE "unpublished", "refuse")
  <2>1. Recognised(o) /\ ~Committed(o) /\ TargetNew(o) /\ UndoExposure(o)
    BY <1>3, <1>12 DEF UndoExposure, Exchange
  <2>2. Pending(o) /\ Exposed(o)
    BY <1>4, <1>5, <1>6, <2>1 DEF Exposed, Recognised, TargetNew
  <2>3. /\ at' \in [Places -> Files \cup {None}] /\ stamp' \in [Files -> Nat] /\ Store'
        /\ journal[o].expected = None => at' = at
        /\ journal[o].expected # None => at'[x] = o /\ OldAtTarget(o)'
    BY <1>1, <1>4, <2>1, <2>2, TakenBack
  <2>4. PICK z, t : /\ z = IF journal[o].expected = None THEN y ELSE x
                    /\ t = IF OldFile(o) = None THEN "settle" ELSE "unpublished"
    OBVIOUS
  <2>5. Remove(z, o, t, "refuse")
    BY <1>3, <1>12, <2>4 DEF UndoRemoval, Remove
  <2>6. Removable(z, o)' /\ \A v \in {Target(o), Temp(o)} \ {z} : at'[v] # o
    <3>1. CASE journal[o].expected = None
      <4>1. z = y /\ at' = at /\ at[y] = o
        BY <1>4, <2>2, <2>3, <2>4, <3>1 DEF Exposed
      <4>2. at[x] # o
        BY <1>2, <1>4, <4>1, PlacedFile
      <4> QED BY <1>4, <1>5, <2>2, <3>1, <4>1, <4>2 DEF Removable
    <3>2. CASE journal[o].expected # None
      <4>1. z = x /\ at'[x] = o /\ at'[y] # None /\ Done(at'[y])
        BY <1>1, <1>4, <1>5, <2>3, <2>4, <3>2 DEF OldAtTarget, Done, Row
      <4>2. at'[y] # o
        BY <2>2, <4>1 DEF Done, Pending
      <4> QED BY <1>4, <1>5, <2>2, <4>1, <4>2 DEF Removable
    <3> QED BY <3>1, <3>2
  <2>7. t \in {"unpublished", "settle"} /\ z \in Places /\ (t = "unpublished" => OldAtTarget(o)' /\ z # Target(o))
    BY <1>4, <1>6, <2>3, <2>4
  <2>8. PICK d \in Ops \cup {None} : d = None
    OBVIOUS
  <2>9. op' \in Op /\ op'.pc # "insertDelete" /\ OpInv'
    BY <1>1, <1>2, <1>3, <1>4, <2>5, <2>6, <2>7, <2>8, ToRecoveryRemoval
  <2> QED BY <1>1, <2>3, <2>9, AssembleMove
<1> QED BY <1>7, <1>9, <1>10, <1>11, <1>12 DEF RecoverPublication

LEMMA RecoverQuarantineStep ==
    ASSUME FilesInv, RecoverQuarantine
    PROVE  FilesInv'
<1>1. /\ op.pc = "classify" /\ mode' = mode /\ waiting' = waiting /\ revision' = revision /\ JournalKept
      /\ Works /\ journal' = journal /\ row' = row /\ request' = request /\ claim' = claim /\ op.del # None
  BY DEF RecoverQuarantine, At, rows, JournalKept, Works
<1>2. mode = "recovering" /\ TypeOK /\ Store
  BY <1>1 DEF FilesInv, OpInv, ModeInv, Idle, Holding, Forward, Undoing, After, TypeOK
<1>3. PICK d, x, y, none : d = op.del /\ x = Trash(op.del) /\ y = Target(op.del) /\ none = None
  OBVIOUS
<1>4. /\ d \in Ops /\ d # None /\ op.put = None /\ Deletes(d) /\ Row(d) /\ d \in Unfinished /\ none \in Ops \cup {None}
      /\ x \in Places /\ x = Trash(d) /\ y \in Places /\ y = Target(d) /\ x # y /\ journal[d].expected # None
  <2>1. d \in Ops /\ d # None /\ op.put = None /\ Deletes(d) /\ Row(d) /\ d \in Unfinished
    BY <1>1, <1>2, <1>3, StartRow DEF Deletes
  <2> QED BY <1>2, <1>3, <2>1, NamesTyped, PlacesApart DEF Store, JournalInv, Deletes
<1>5. /\ Committed(d) => Done(d) /\ ~Pending(d)
      /\ ~Committed(d) => Pending(d)
      /\ Deletes(d)' /\ (Pending(d)' <=> Pending(d)) /\ (Done(d)' <=> Done(d)) /\ Target(d)' = y
  BY <1>1, <1>4 DEF Committed, Done, Pending, Unfinished, Deletes, Row, Target
<1>6. Done(OldFile(d)) /\ OldFile(d) # None
  BY <1>2, <1>4, OldFileIs DEF Proper
<1>7. CASE Goto("refuse") /\ UNCHANGED disk
  <2>1. op' \in Op /\ op'.pc = "refuse" /\ op'.key = op.key
    BY <1>2, <1>7, GotoType DEF Pcs
  <2>2. OpInv' /\ op'.pc # "insertDelete"
    BY <1>1, <1>2, <2>1, ToRefuse
  <2> QED BY <1>1, <1>7, <2>1, <2>2, AssembleQuiet
<1>8. ASSUME Goto("restored"), Pending(d), OldAtTarget(d)', at'[x] = None
      PROVE  op' \in Op /\ op'.pc # "insertDelete" /\ OpInv'
  <2>1. op' \in Op /\ op'.pc = "restored" /\ op'.key = op.key /\ op'.put = None /\ op'.del = d
    BY <1>2, <1>3, <1>4, <1>8, GotoType DEF Pcs
  <2>2. op'.pc \in Starting /\ ~Removing'
    BY <2>1 DEF Starting, Removing
  <2>3. StartInv'
    BY <1>1, <1>4, <1>5, <2>1 DEF StartInv, Unfinished, Unused
  <2>4. DelInv'
    BY <1>4, <1>5, <1>8, <2>1 DEF DelInv
  <2>5. PutInv' /\ AfterInv' /\ UndoneInv' /\ RemovalInv'
    BY <2>1, <2>2 DEF PutInv, AfterInv, UndoneInv, RemovalInv, After
  <2> QED BY <1>1, <1>2, <2>1, <2>2, <2>3, <2>4, <2>5, StartingStep
<1>9. CASE Hidden(op.del) /\ Committed(op.del) /\ Remove(Trash(op.del), op.del, "settle", "refuse") /\ UNCHANGED disk
  <2>1. Committed(d) /\ Remove(x, d, "settle", "refuse")
    BY <1>3, <1>9 DEF Remove
  <2>2. Removable(x, d)' /\ ~Pending(d)
    BY <1>4, <1>5, <2>1 DEF Removable
  <2>3. PICK t \in {"unpublished", "settle"} : t = "settle"
    OBVIOUS
  <2>4. op' \in Op /\ op'.pc # "insertDelete" /\ OpInv'
    BY <1>1, <1>2, <1>3, <1>4, <2>1, <2>2, <2>3, ToRecoveryRemoval
  <2> QED BY <1>1, <1>9, <2>4, AssembleQuiet
<1>10. CASE Hidden(op.del) /\ ~Committed(op.del) /\ Goto("restored") /\ Rename(Trash(op.del), Target(op.del))
  <2>1. Rename(x, y) /\ at[y] = None /\ at[x] = OldFile(d) /\ ~Committed(d)
    BY <1>3, <1>10 DEF Rename, Hidden
  <2>2. at'[x] = None /\ at'[y] = at[x] /\ (\A z \in Places : z # x /\ z # y => at'[z] = at[z])
        /\ at' \in [Places -> Files \cup {None}] /\ stamp' \in [Files -> Nat]
    BY <1>2, <1>4, <2>1, RenameAt
  <2>3. Quarantined(d)
    BY <1>4, <1>5, <2>1 DEF Quarantined
  <2>4. Store'
    BY <1>1, <1>2, <1>4, <2>1, <2>2, <2>3, RestoreStore
  <2>5. OldAtTarget(d)'
    BY <1>1, <1>5, <1>6, <2>1, <2>2 DEF OldAtTarget, Done, Row
  <2>6. op' \in Op /\ op'.pc # "insertDelete" /\ OpInv'
    BY <1>5, <1>8, <1>10, <2>1, <2>2, <2>5
  <2> QED BY <1>1, <2>2, <2>4, <2>6, AssembleMove
<1>11. CASE InPlace(op.del) /\ ~Committed(op.del) /\ Goto("restored") /\ UNCHANGED disk
  <2>1. at[y] = OldFile(d) /\ at[x] = None /\ ~Committed(d) /\ at' = at
    BY <1>3, <1>11 DEF InPlace, disk
  <2>2. OldAtTarget(d)'
    BY <1>1, <1>5, <1>6, <2>1 DEF OldAtTarget, Done, Row
  <2>3. op' \in Op /\ op'.pc # "insertDelete" /\ OpInv'
    BY <1>5, <1>8, <1>11, <2>1, <2>2
  <2> QED BY <1>1, <1>11, <2>3, AssembleQuiet
<1>12. CASE Gone(op.del) /\ Committed(op.del) /\ Goto("settle") /\ UNCHANGED disk
  <2>1. op' \in Op /\ op'.pc = "settle" /\ op'.key = op.key /\ op'.put = None /\ op'.del = d
    BY <1>2, <1>3, <1>4, <1>12, GotoType DEF Pcs
  <2>2. ~Pending(d)
    BY <1>3, <1>5, <1>12
  <2>3. Undone({})'
    BY <1>5, <2>1, <2>2 DEF Undone
  <2>4. OpInv' /\ op'.pc # "insertDelete"
    BY <1>1, <1>2, <1>3, <1>4, <2>1, <2>3, ToSettle
  <2> QED BY <1>1, <1>12, <2>1, <2>4, AssembleQuiet
<1> QED BY <1>7, <1>9, <1>10, <1>11, <1>12 DEF RecoverQuarantine

LEMMA SettleStep ==
    ASSUME FilesInv, Settle
    PROVE  FilesInv'
<1>1. /\ op.pc = "settle" /\ mode' = mode /\ waiting' = waiting /\ disk' = disk /\ rows' = rows
      /\ Works /\ journal' = journal /\ request' = request /\ Goto("close")
      /\ at' = at /\ stamp' = stamp /\ row' = row /\ revision' = revision
  BY DEF Settle, At, rows, disk, Works
<1>2. mode = "recovering" /\ TypeOK /\ Store /\ UndoneInv
  BY <1>1 DEF FilesInv, OpInv, ModeInv, Idle, Holding, Forward, Undoing, After, TypeOK
<1>3. waiting = {}
  BY <1>1, <1>2, StartRow
<1>4. PICK u, d, k : u = op.put /\ d = op.del /\ k = journal[Recovered].key
  OBVIOUS
<1>5. u \in Ops \cup {None}
  BY <1>2, <1>4, OpType
<1>6. ClaimsKept /\ claim' \in [Keys -> {"none", "in_progress", "completed", "failed", "conflict"}]
  <2>1. \/ claim' = claim
        \/ claim[k] # "in_progress" /\ claim' = claim
        \/ claim[k] = "in_progress" /\ (claim' = [claim EXCEPT ![k] = "completed"] \/ claim' = [claim EXCEPT ![k] = "none"])
    BY <1>4 DEF Settle, SetClaim
  <2> QED BY <1>1, <1>2, <2>1 DEF ClaimsKept, TypeOK
<1>7. op' \in Op /\ op'.pc = "close" /\ op'.key = op.key /\ op'.put = op.put /\ op'.del = op.del
  BY <1>1, <1>2, GotoType DEF Pcs
<1>8. Undone({})'
  BY <1>1, <1>2, <1>7 DEF UndoneInv, Undone, Pending, Row, Target
<1>9. OpInv' /\ op'.pc # "insertDelete"
  BY <1>1, <1>2, <1>4, <1>5, <1>7, <1>8, ToSettle
<1>10. Store'
  BY <1>1, <1>2, <1>6, SameStore
<1> QED BY <1>1, <1>2, <1>3, <1>6, <1>7, <1>9, <1>10, Assemble DEF TypeOK, Row

LEMMA CloseStep ==
    ASSUME FilesInv, Close
    PROVE  FilesInv'
<1>1. /\ op.pc = "close" /\ mode' = mode /\ waiting' = waiting /\ disk' = disk /\ rows' = rows
      /\ Works /\ claim' = claim /\ request' = request /\ op' = [Idle EXCEPT !.pc = "recover"]
      /\ at' = at /\ stamp' = stamp /\ row' = row /\ revision' = revision
  BY DEF Close, At, rows, disk, Works
<1>2. mode = "recovering" /\ TypeOK /\ Store /\ UndoneInv /\ Undone({}) /\ ModeInv
  BY <1>1 DEF FilesInv, OpInv, ModeInv, UndoneInv, Idle, Holding, Forward, Undoing, After, TypeOK
<1>3. PICK o : o = Recovered
  OBVIOUS
<1>4. /\ o \in Ops /\ o # None /\ Row(o) /\ o \in Unfinished
      /\ o = op.put \/ o = op.del
      /\ Publishes(o) => o = op.put
      /\ Deletes(o) => o = op.del
  BY <1>1, <1>2, <1>3, StartRow, OpsAreNot DEF Recovered, Publishes, Deletes
<1>5. PICK st \in {"intent", "storage_applied", "db_applied", "completed", "failed"} :
          st = IF Committed(o) THEN "completed" ELSE "failed"
  OBVIOUS
<1>6. SetState(o, st)
  BY <1>3, <1>5 DEF Close, SetState
<1>7. /\ journal' \in [Ops -> JournalRow \cup {None}]
      /\ \A q \in Ops : (Row(q)' <=> Row(q)) /\ (q # o => journal'[q] = journal[q])
      /\ journal'[o].state = st
      /\ journal'[o].kind = journal[o].kind /\ journal'[o].key = journal[o].key
      /\ journal'[o].path = journal[o].path /\ journal'[o].expected = journal[o].expected
  BY <1>2, <1>4, <1>6, SetStateIs
<1>8. (Done(o) /\ Done(o)') \/ Falls(o)
  <2>1. CASE Committed(o)
    BY <1>4, <1>5, <1>7, <2>1 DEF Committed, Done
  <2>2. CASE ~Committed(o)
    <3>1. Pending(o) /\ journal'[o].state = "failed"
      BY <1>4, <1>5, <1>7, <2>2 DEF Committed, Unfinished, Pending
    <3> QED BY <1>2, <1>4, <3>1 DEF Falls, Undone
  <2> QED BY <2>1, <2>2
<1>9. Store'
  BY <1>1, <1>2, <1>4, <1>7, <1>8, StateStore DEF ClaimsKept
<1>10. op' \in Op /\ op'.pc = "recover" /\ op'.key = op.key
  BY <1>1, <1>2 DEF Idle, Op, Pcs, ModeInv
<1>11. OpInv' /\ op'.pc # "insertDelete"
  BY <1>1, <1>2, <1>10, ToRefuse
<1> QED BY <1>1, <1>2, <1>7, <1>9, <1>10, <1>11, Assemble DEF TypeOK

-----------------------------------------------------------------------------
(* The invariant of the specification. *)

LEMMA InitInv == Init => FilesInv
<1> SUFFICES ASSUME Init PROVE FilesInv
  OBVIOUS
<1>1. /\ op = Idle /\ op \in Op /\ op.pc = "idle" /\ mode = "serving" /\ waiting = {}
      /\ \A o \in Ops : ~Row(o)
      /\ \A x \in Places : at[x] = None
      /\ \A s \in Setups : row[s] = None
      /\ \A k \in Keys : request[k] = None
  BY DEF Init, Idle, Op, Pcs, Row
<1>2. TypeOK
  BY <1>1, BoundsAssumption DEF Init, TypeOK
<1>3. RequestInv
  BY <1>1 DEF RequestInv
<1>4. Store
  BY <1>1, PlacesApart DEF Store, JournalInv, RowsInv, OneLink, PublicInv, TempInv, TrashInv, GuardInv, HomesInv
<1>5. CapacityInv
  BY <1>1, FS_EmptySet, UnusedFinite DEF CapacityInv
<1>6. OpInv
  BY <1>1 DEF OpInv, ModeInv, HolderInv, ForwardInv, StartInv, PutInv, DelInv, AfterInv, UndoneInv,
              RemovalInv, Forward, After, Removing, Trying, Undoing
<1> QED BY <1>2, <1>3, <1>4, <1>5, <1>6 DEF FilesInv

LEMMA StutterInv ==
    ASSUME FilesInv, UNCHANGED vars
    PROVE  FilesInv'
<1>1. /\ at' = at /\ stamp' = stamp /\ row' = row /\ revision' = revision /\ journal' = journal /\ claim' = claim
      /\ request' = request /\ waiting' = waiting /\ op' = op /\ mode' = mode /\ faults' = faults /\ crashes' = crashes
  BY DEF vars, disk, rows, claims, bounds
<1>2. TypeOK' /\ RequestInv' /\ CapacityInv'
  BY <1>1 DEF FilesInv, TypeOK, RequestInv, CapacityInv, Unused
<1>3. Store'
  BY <1>1, SameStore DEF FilesInv, ClaimsKept
<1>4. SameDirectory /\ R' = R /\ Existing' = Existing
  BY <1>1 DEF SameDirectory, R, Existing
<1>5. ModeInv' /\ HolderInv' /\ ForwardInv' /\ StartInv'
  BY <1>1, <1>4, SameStage DEF FilesInv, OpInv, ModeInv, HolderInv, ForwardInv, StartInv, Removing, Trying,
                               Unfinished, Unused
<1>6. PutInv' /\ DelInv' /\ AfterInv'
  BY <1>1, <1>4, SameStage DEF FilesInv, OpInv, PutInv, DelInv, AfterInv, Removing
<1>7. UndoneInv' /\ RemovalInv'
  BY <1>1, <1>4, SameStage DEF FilesInv, OpInv, UndoneInv, RemovalInv, Removing, Undone, Removable
<1> QED BY <1>2, <1>3, <1>5, <1>6, <1>7 DEF FilesInv, OpInv

LEMMA StepInv ==
    ASSUME FilesInv, [Next]_vars
    PROVE  FilesInv'
<1>1. ASSUME Step PROVE FilesInv'
  BY <1>1, InsertDeleteStep, PrepareStep, LinkStep, ExposeStep, VerifyStep, ApplyStorageStep, QuarantineStep,
     MarkDeleteStep, CommitStep, AbortStep, CleanStep, CompleteStep, DiscardStep, CompleteDeleteStep, MoveAsideStep,
     UnlinkStep, RestoreStep, RereadRestoredStep, FailDeleteStep, UnpublishStep, RereadReplacedStep, FinishStep,
     RecoverStep, RecoverPublicationStep, RecoverQuarantineStep, SettleStep, CloseStep, ReadyStep, Zenon
     DEF Step
<1>2. ASSUME \E k \in Keys : Claim(k) \/ Lock(k) PROVE FilesInv'
  BY <1>2, ClaimStep, LockStep
<1> QED BY <1>1, <1>2, StartStep, CrashStep, StutterInv DEF Next

(* FilesInv holds: the inductive invariant of the files of the catalogue. *)
THEOREM FilesInvariant == Spec => []FilesInv
<1>1. Init => FilesInv
  BY InitInv
<1>2. FilesInv /\ [Next]_vars => FilesInv'
  BY StepInv
<1> QED BY <1>1, <1>2, PTL DEF Spec

(* The file of a row exists under a name that is not about to be unlinked, *)
(* and its path is empty only while a delete of it is open: removeRegular- *)
(* Expected and the recovery never unlink what catalog_files names.         *)
THEOREM FilesAreKept == Spec => []FilesKept
<1>1. FilesInv => FilesKept
  <2> SUFFICES ASSUME FilesInv PROVE FilesKept
    OBVIOUS
  <2>1. TypeOK /\ Store
    BY DEF FilesInv
  <2>2. ASSUME NEW s \in Setups, row[s] # None
        PROVE  /\ \E place \in Places : place[1] # "guard" /\ at[place] = row[s].version.file
               /\ at[Public(row[s].path)] = None =>
                     \E o \in Unfinished : journal[o].kind = "delete" /\ OldFile(o) = row[s].version.file
    <3>1. PICK f, p : f = row[s].version.file /\ p = row[s].path
      OBVIOUS
    <3>2. f # None /\ p \in Paths /\ Home(f, p)
      BY <2>1, <2>2, <3>1, RowFile
    <3>3. CASE at[Public(p)] = f
      <4>1. Public(p) \in Places /\ Public(p)[1] # "guard"
        BY <3>2, PlacesApart DEF Public
      <4> QED BY <3>1, <3>2, <3>3, <4>1
    <3>4. CASE \E d \in Ops : HiddenBy(d, f)
      <4>1. PICK d \in Ops : HiddenBy(d, f)
        BY <3>4
      <4>2. Trash(d) \in Places /\ Trash(d)[1] # "guard" /\ at[Trash(d)] = f
        BY <4>1, PlacesApart DEF Trash, HiddenBy
      <4>3. d \in Unfinished /\ journal[d].kind = "delete" /\ OldFile(d) = f
        BY <2>1, <3>2, <4>1 DEF HiddenBy, Deletes, Pending, Unfinished, Unused, Row, Store, TrashInv
      <4> QED BY <3>1, <4>2, <4>3
    <3>5. CASE \E o \in Ops : ExchangedBy(o, f, p)
      <4>1. PICK o \in Ops : ExchangedBy(o, f, p)
        BY <3>5
      <4>2. Temp(o) \in Places /\ Temp(o)[1] # "guard" /\ at[Temp(o)] = f /\ at[Public(p)] # None
        BY <4>1, PlacesApart, OpsAreNot DEF Temp, ExchangedBy
      <4> QED BY <3>1, <4>2
    <3> QED BY <3>2, <3>3, <3>4, <3>5 DEF Home
  <2> QED BY <2>1, <2>2 DEF FilesKept
<1> QED BY <1>1, FilesInvariant, PTL

-----------------------------------------------------------------------------
(* The promise to the clients. What CatalogAtomic sees: the path and the     *)
(* file of each setup, the request and the outcome of each key.              *)

FilesSeen == [s \in Setups |-> IF row[s] = None THEN None
                               ELSE [path |-> row[s].path, file |-> row[s].version.file]]
Seen(r)   == [kind |-> r.kind, setup |-> r.setup, path |-> r.path, revision |-> r.revision]
AskedSeen == [k \in Keys |-> IF request[k] = None THEN None
                             ELSE [kind |-> request[k].kind, setup |-> request[k].setup,
                                   path |-> request[k].path, revision |-> request[k].revision]]
OutcomeSeen == [k \in Keys |-> CASE claim[k] = "in_progress" -> "pending"
                                 [] claim[k] = "completed" -> "done"
                                 [] claim[k] \in {"failed", "conflict"} -> "failed"
                                 [] OTHER -> "none"]
SeenKept  == FilesSeen' = FilesSeen /\ revision' = revision /\ AskedSeen' = AskedSeen /\ OutcomeSeen' = OutcomeSeen

LEMMA FilesAs ==
    ASSUME TypeOK
    PROVE  /\ \A s \in Setups : /\ row[s] = None => FilesSeen[s] = None
                                /\ row[s] # None => /\ FilesSeen[s] # None /\ FilesSeen[s].path = row[s].path
                                                    /\ FilesSeen[s].file = row[s].version.file
                                                    /\ FilesSeen[s] = [path |-> row[s].path, file |-> row[s].version.file]
<1> SUFFICES ASSUME NEW s \in Setups, row[s] # None
             PROVE  [path |-> row[s].path, file |-> row[s].version.file] # None
  BY DEF FilesSeen
<1>1. [path |-> row[s].path, file |-> row[s].version.file] \in [path : Paths, file : Files]
  BY RowsTyped DEF Files
<1> QED BY <1>1, RecordAssumption

LEMMA AskedAs ==
    ASSUME TypeOK
    PROVE  \A k \in Keys : /\ request[k] = None => AskedSeen[k] = None
                           /\ request[k] # None => /\ AskedSeen[k] # None /\ AskedSeen[k] = Seen(request[k])
<1> SUFFICES ASSUME NEW k \in Keys, request[k] # None
             PROVE  Seen(request[k]) # None
  BY DEF AskedSeen, Seen
<1>1. request[k] \in Request
  BY DEF TypeOK
<1>2. Seen(request[k]) \in [kind : {"put", "delete"}, setup : Setups, path : Paths \cup {None}, revision : Nat]
  BY <1>1 DEF Request, Seen
<1> QED BY <1>2, RecordAssumption

LEMMA OutcomeAs ==
    /\ OutcomeSeen = [k \in Keys |-> OutcomeSeen[k]]
    /\ \A k \in Keys : /\ claim[k] = "in_progress" => OutcomeSeen[k] = "pending"
                       /\ claim[k] = "completed" => OutcomeSeen[k] = "done"
                       /\ claim[k] \in {"failed", "conflict"} => OutcomeSeen[k] = "failed"
                       /\ claim[k] = "none" => OutcomeSeen[k] = "none"
                       /\ OutcomeSeen[k] = "pending" => claim[k] = "in_progress"
BY DEF OutcomeSeen

(* One key gets an outcome. *)
LEMMA OutcomeSet ==
    ASSUME TypeOK, NEW k \in Keys, NEW st \in {"none", "in_progress", "completed", "failed"}, SetClaim(k, st)
    PROVE  OutcomeSeen' = [OutcomeSeen EXCEPT ![k] = CASE st = "in_progress" -> "pending" [] st = "completed" -> "done"
                                                       [] st = "failed" -> "failed" [] OTHER -> "none"]
<1>1. claim'[k] = st /\ \A l \in Keys : l # k => claim'[l] = claim[l]
  BY DEF SetClaim, TypeOK
<1> QED BY <1>1 DEF OutcomeSeen

LEMMA SeenFilesKept ==
    ASSUME TypeOK, SameFiles, row' \in [Setups -> [path : Paths, version : Version] \cup {None}]
    PROVE  FilesSeen' = FilesSeen
BY DEF SameFiles, FilesSeen

LEMMA QuietSeen ==
    ASSUME row' = row, revision' = revision, request' = request, claim' = claim
    PROVE  SeenKept
BY DEF SeenKept, FilesSeen, AskedSeen, OutcomeSeen

LEMMA SeenStutter ==
    ASSUME SeenKept
    PROVE  UNCHANGED Atomic!vars
BY DEF SeenKept, FilesSeen, AskedSeen, OutcomeSeen, Atomic!vars

LEMMA InitAtomic == Init => Atomic!Init
BY DEF Init, Atomic!Init

LEMMA ClaimAsks ==
    ASSUME FilesInv, NEW k \in Keys, Claim(k)
    PROVE  Atomic!Ask(k)
<1>1. TypeOK /\ claim[k] = "none" /\ SetClaim(k, "in_progress") /\ row' = row /\ revision' = revision
  BY DEF FilesInv, Claim, rows
<1>2. OutcomeSeen[k] = "none" /\ OutcomeSeen' = [OutcomeSeen EXCEPT ![k] = "pending"] /\ FilesSeen' = FilesSeen
  BY <1>1, OutcomeAs, OutcomeSet DEF FilesSeen
<1>3. IF AskedSeen[k] # None THEN AskedSeen' = AskedSeen
      ELSE \E s \in Setups : \E r \in [kind : {"put", "delete"}, setup : {s}, path : Paths \cup {None},
                                       revision : {revision[s]}] : AskedSeen' = [AskedSeen EXCEPT ![k] = r]
  <2>1. CASE request[k] # None
    <3>1. request' = request
      BY <2>1 DEF Claim
    <3> QED BY <1>1, <2>1, <3>1, AskedAs DEF AskedSeen
  <2>2. CASE request[k] = None
    <3>1. PICK s \in Setups : \E r \in Wanted(s) : request' = [request EXCEPT ![k] = r]
      BY <2>2 DEF Claim
    <3>2. PICK r \in Wanted(s) : request' = [request EXCEPT ![k] = r]
      BY <3>1
    <3>3. PICK v : v = IF row[s] = None THEN None ELSE row[s].version
      OBVIOUS
    <3>4. r \in [kind : {"put", "delete"}, setup : {s}, path : Paths \cup {None}, same : BOOLEAN,
                 revision : {revision[s]}, version : {v}]
      BY <3>2, <3>3 DEF Wanted
    <3>5. Seen(r) \in [kind : {"put", "delete"}, setup : {s}, path : Paths \cup {None}, revision : {revision[s]}]
      BY <3>4 DEF Seen
    <3>6. r # None
      <4>1. v \in Version \cup {None} /\ revision[s] \in Nat
        BY <1>1, <3>3, RowsTyped DEF TypeOK
      <4>2. r \in Request
        BY <3>4, <4>1 DEF Request
      <4> QED BY <4>2, RecordAssumption
    <3>7. request'[k] = r /\ \A l \in Keys : l # k => request'[l] = request[l]
      BY <1>1, <3>2 DEF TypeOK
    <3>8. AskedSeen' = [AskedSeen EXCEPT ![k] = Seen(r)]
      BY <3>6, <3>7 DEF AskedSeen, Seen
    <3> QED BY <1>1, <2>2, <3>5, <3>8, AskedAs
  <2> QED BY <2>1, <2>2
<1> QED BY <1>1, <1>2, <1>3 DEF Atomic!Ask, Atomic!Requests, FilesSeen, AskedSeen, OutcomeSeen

LEMMA CommitApplies ==
    ASSUME FilesInv, Commit
    PROVE  \E k \in Keys : Atomic!Apply(k)
<1>1. /\ TypeOK /\ Store /\ op.pc = "commit" /\ SetClaim(op.key, "completed") /\ request' = request
      /\ R.revision = revision[R.setup] /\ revision' = [revision EXCEPT ![R.setup] = @ + 1]
      /\ op.put # None => ~Taken
  BY DEF FilesInv, Commit, At
<1>2. PICK u, k, s, p, r : u = op.put /\ k = op.key /\ s = R.setup /\ p = R.path /\ r = Seen(R)
  OBVIOUS
<1>3. /\ k \in Keys /\ request[k] \in Request /\ request[k] # None /\ s \in Setups /\ claim[k] = "in_progress"
      /\ R = request[k] /\ u \in Ops \cup {None}
      /\ u # None => u \in Files /\ Pending(u) /\ R.kind = "put" /\ p \in Paths
      /\ u = None => R.kind = "delete" /\ row[s] # None
  BY <1>1, <1>2, CommitFacts, RecordAssumption DEF R, Existing, Files
<1>4. AskedSeen[k] = r /\ r.kind = R.kind /\ r.setup = s /\ r.path = p /\ r.revision = R.revision /\ AskedSeen' = AskedSeen
  BY <1>1, <1>2, <1>3, AskedAs DEF Seen, AskedSeen
<1>5. OutcomeSeen[k] = "pending" /\ OutcomeSeen' = [OutcomeSeen EXCEPT ![k] = "done"]
  BY <1>1, <1>2, <1>3, OutcomeAs, OutcomeSet
<1>6. /\ \A t \in Setups : t # s => row'[t] = row[t]
      /\ u = None => row'[s] = None
      /\ u # None => row'[s] # None /\ row'[s].path = p /\ row'[s].version.file = u
  BY <1>2, CommitRow
<1>7. /\ u = None => FilesSeen' = [FilesSeen EXCEPT ![s] = None]
      /\ u # None => FilesSeen' = [FilesSeen EXCEPT ![s] = [path |-> p, file |-> u]]
  BY <1>3, <1>6 DEF FilesSeen
<1>8. revision' = [revision EXCEPT ![s] = revision[s] + 1] /\ r.revision = revision[s]
  BY <1>1, <1>2, <1>4
<1>9. ASSUME u # None
      PROVE  /\ \A t \in Setups : FilesSeen[t] # None => FilesSeen[t].file # u
             /\ (\E t \in Setups : FilesSeen[t] # None /\ FilesSeen[t].path = p)
                   => FilesSeen[s] # None /\ FilesSeen[s].path = p
  <2>1. \A t \in Setups : row[t] # None => row[t].version.file # u
    BY <1>1, <1>3, <1>9, RowFile
  <2>2. \A t \in Setups \ {s} : row[t] # None => row[t].path # p
    BY <1>1, <1>2, <1>9 DEF Taken
  <2> QED BY <1>1, <1>3, <2>1, <2>2, FilesAs
<1>10. u = None => FilesSeen[s] # None
  BY <1>1, <1>3, FilesAs
<1>11. Atomic!Apply(k)
  <2>1. CASE u = None
    <3>1. Atomic!Removes(AskedSeen[k])
      BY <1>4, <1>7, <1>10, <2>1 DEF Atomic!Removes, FilesSeen
    <3>2. r.kind # "put"
      BY <1>3, <1>4, <2>1
    <3> QED BY <1>4, <1>5, <1>8, <3>1, <3>2 DEF Atomic!Apply, AskedSeen, OutcomeSeen
  <2>2. CASE u # None
    <3>1. Atomic!Stores(AskedSeen[k], u)
      BY <1>4, <1>7, <1>9, <2>2 DEF Atomic!Stores, Atomic!Taken, FilesSeen
    <3>2. r.kind = "put" /\ u \in Files
      BY <1>3, <1>4, <2>2
    <3> QED BY <1>4, <1>5, <1>8, <3>1, <3>2 DEF Atomic!Apply, AskedSeen, OutcomeSeen
  <2> QED BY <2>1, <2>2
<1> QED BY <1>3, <1>11

LEMMA FinishFails ==
    ASSUME FilesInv, Finish
    PROVE  (\E k \in Keys : Atomic!Fail(k)) \/ UNCHANGED Atomic!vars
<1>1. /\ TypeOK /\ op.pc = "finish" /\ row' = row /\ revision' = revision /\ request' = request
      /\ SetClaim(op.key, "failed") \/ claim' = claim
  BY DEF FilesInv, Finish, At, rows
<1>2. PICK k : k = op.key
  OBVIOUS
<1>3. k \in Keys /\ claim[k] = "in_progress"
  BY <1>1, <1>2, AtServing
<1>4. CASE claim' = claim
  BY <1>1, <1>4, QuietSeen, SeenStutter
<1>5. CASE SetClaim(k, "failed")
  <2>1. OutcomeSeen[k] = "pending" /\ OutcomeSeen' = [OutcomeSeen EXCEPT ![k] = "failed"]
    BY <1>1, <1>3, <1>5, OutcomeAs, OutcomeSet
  <2>2. FilesSeen' = FilesSeen /\ AskedSeen' = AskedSeen
    BY <1>1 DEF FilesSeen, AskedSeen
  <2>3. Atomic!Fail(k)
    BY <1>1, <2>1, <2>2 DEF Atomic!Fail, FilesSeen, AskedSeen, OutcomeSeen
  <2> QED BY <1>3, <2>3
<1> QED BY <1>1, <1>2, <1>4, <1>5

(* A start gives up the requests whose state it turns into a conflict. *)
LEMMA StartGivesUp ==
    ASSUME FilesInv, Start
    PROVE  Atomic!GiveUp
<1>1. TypeOK /\ row' = row /\ revision' = revision /\ request' = request
  BY DEF FilesInv, Start, rows
<1>2. PICK K \in SUBSET Keys : K = {k \in Keys : claim[k] = "in_progress" /\ claim'[k] = "conflict"}
  OBVIOUS
<1>3. \A k \in Keys : IF k \in K THEN claim[k] = "in_progress" /\ claim'[k] = "conflict" ELSE claim'[k] = claim[k]
  BY <1>1, <1>2 DEF Start, TypeOK
<1>4. OutcomeSeen' = [k \in Keys |-> IF k \in K THEN "failed" ELSE OutcomeSeen[k]]
  BY <1>3 DEF OutcomeSeen
<1>5. K \in SUBSET {k \in Keys : OutcomeSeen[k] = "pending"}
  BY <1>2, OutcomeAs
<1>6. FilesSeen' = FilesSeen /\ AskedSeen' = AskedSeen
  BY <1>1 DEF FilesSeen, AskedSeen
<1> QED BY <1>1, <1>4, <1>5, <1>6 DEF Atomic!GiveUp, FilesSeen, AskedSeen, OutcomeSeen

(* What is committed is completed in the same transaction: the recovery only *)
(* releases claims of requests that it has undone.                           *)
LEMMA SettleForgets ==
    ASSUME FilesInv, Settle
    PROVE  (\E k \in Keys : Atomic!Forget(k)) \/ UNCHANGED Atomic!vars
<1>1. /\ TypeOK /\ Store /\ op.pc = "settle" /\ row' = row /\ revision' = revision /\ request' = request
  BY DEF FilesInv, Settle, At, rows
<1>2. mode = "recovering"
  BY <1>1 DEF FilesInv, OpInv, ModeInv, Idle, Holding, Forward, Undoing, After, TypeOK
<1>3. PICK o, k : o = Recovered /\ k = journal[o].key
  OBVIOUS
<1>4. o \in Ops /\ Row(o) /\ k \in Keys
  <2>1. o \in Ops /\ Row(o)
    BY <1>1, <1>2, <1>3, StartRow, OpsAreNot DEF Recovered, Publishes, Deletes
  <2> QED BY <1>1, <1>3, <2>1, NamesTyped
<1>5. \/ claim' = claim
      \/ claim[k] = "in_progress" /\ SetClaim(k, IF Committed(o) THEN "completed" ELSE "none")
  BY <1>3 DEF Settle, SetClaim
<1>6. CASE claim' = claim
  BY <1>1, <1>6, QuietSeen, SeenStutter
<1>7. CASE claim[k] = "in_progress" /\ SetClaim(k, IF Committed(o) THEN "completed" ELSE "none")
  <2>1. ~Committed(o)
    BY <1>1, <1>3, <1>4, <1>7 DEF Store, JournalInv, Committed, Done
  <2>2. SetClaim(k, "none")
    BY <1>7, <2>1
  <2>3. OutcomeSeen[k] = "pending" /\ OutcomeSeen' = [OutcomeSeen EXCEPT ![k] = "none"]
    BY <1>1, <1>4, <1>7, <2>2, OutcomeAs, OutcomeSet
  <2>4. FilesSeen' = FilesSeen /\ AskedSeen' = AskedSeen
    BY <1>1 DEF FilesSeen, AskedSeen
  <2>5. Atomic!Forget(k)
    BY <1>1, <2>3, <2>4 DEF Atomic!Forget, FilesSeen, AskedSeen, OutcomeSeen
  <2> QED BY <1>4, <2>5
<1> QED BY <1>5, <1>6, <1>7

(* A reread changes the version of a file, which no request sees as a change. *)
LEMMA RereadStutters ==
    ASSUME FilesInv, RereadRestored \/ RereadReplaced
    PROVE  UNCHANGED Atomic!vars
<1>1. /\ revision' = revision /\ request' = request /\ claim' = claim /\ at' = at /\ journal' = journal
      /\ op.pc \in {"restored", "unpublished"} /\ TypeOK /\ PutInv /\ DelInv /\ ModeInv /\ op # Idle
  BY DEF FilesInv, OpInv, RereadRestored, RereadReplaced, At, disk, Idle
<1>2. PICK o \in Ops : Row(o) /\ OldAtTarget(o) /\ (Reread(SetupOf(o), journal[o].path) \/ row' = row)
  <2>1. CASE RereadRestored
    BY <1>1, <2>1, OpType DEF RereadRestored, At, DelInv, Pending
  <2>2. CASE RereadReplaced
    <3>1. op.put \in Ops /\ op.put # None /\ OldAtTarget(op.put)
      BY <1>1, <2>2, OpType DEF RereadReplaced, At, PutInv
    <3>2. Row(op.put)
      <4>1. mode = "serving" => Publishes(op.put)
        BY <1>1, <3>1, HolderRows
      <4>2. mode = "recovering" => Publishes(op.put)
        BY <1>1, <3>1, StartRow
      <4> QED BY <1>1, <4>1, <4>2 DEF ModeInv, TypeOK, Publishes
    <3>3. Reread(SetupOf(op.put), journal[op.put].path) \/ row' = row
      BY <2>2 DEF RereadReplaced
    <3> QED BY <3>1, <3>2, <3>3
  <2> QED BY <2>1, <2>2
<1>3. SameFiles /\ row' \in [Setups -> [path : Paths, version : Version] \cup {None}]
  BY <1>1, <1>2, RereadKept
<1>4. FilesSeen' = FilesSeen
  BY <1>1, <1>3, SeenFilesKept
<1>5. SeenKept
  BY <1>1, <1>4 DEF SeenKept, AskedSeen, OutcomeSeen
<1> QED BY <1>5, SeenStutter

LEMMA OthersStutter ==
    ASSUME \/ InsertDelete \/ Prepare \/ Link \/ Expose \/ Verify \/ ApplyStorage \/ Quarantine \/ MarkDelete
           \/ Abort \/ Clean \/ Complete \/ Discard \/ CompleteDelete \/ MoveAside \/ Unlink
           \/ Restore \/ FailDelete \/ Unpublish \/ Close \/ Ready \/ Refuse \/ Crash
           \/ RecoverPublication \/ RecoverQuarantine \/ (\E o \in Ops : Recover(o)) \/ (\E k \in Keys : Lock(k))
           \/ UNCHANGED vars
    PROVE  UNCHANGED Atomic!vars
<1>1. row' = row /\ revision' = revision /\ request' = request /\ claim' = claim
  BY DEF InsertDelete, Prepare, Link, Expose, Verify, ApplyStorage, Quarantine, MarkDelete, Abort, Clean, Complete,
         Discard, CompleteDelete, MoveAside, Unlink, Restore, FailDelete, Unpublish, Close, Ready, Refuse, Crash,
         RecoverPublication, RecoverQuarantine, Recover, Lock, vars, rows, claims, At
<1> QED BY <1>1, QuietSeen, SeenStutter

LEMMA StepAtomic ==
    ASSUME FilesInv, [Next]_vars
    PROVE  [Atomic!Next]_(Atomic!vars)
<1>1. CASE Step
  BY <1>1, CommitApplies, FinishFails, SettleForgets, RereadStutters, OthersStutter, Zenon DEF Step, Atomic!Next
<1>2. CASE Start
  BY <1>2, StartGivesUp DEF Atomic!Next
<1>3. CASE \E k \in Keys : Claim(k) \/ Lock(k)
  BY <1>3, ClaimAsks, OthersStutter DEF Atomic!Next
<1>4. CASE Crash \/ UNCHANGED vars
  BY <1>4, OthersStutter
<1> QED BY <1>1, <1>2, <1>3, <1>4 DEF Next

(* CatalogFiles implements CatalogAtomic: every request takes effect at most *)
(* once, at once, on the revision it was made for and with its outcome, or   *)
(* not at all, whatever the calls and the daemon do on the way.              *)
THEOREM ImplementsTheAtomic == Spec => ImplementsAtomic
<1>1. Init => Atomic!Init
  BY InitAtomic
<1>2. FilesInv /\ [Next]_vars => [Atomic!Next]_(Atomic!vars)
  BY StepAtomic
<1> QED BY <1>1, <1>2, FilesInvariant, PTL DEF Spec, ImplementsAtomic, Atomic!Spec

-----------------------------------------------------------------------------
(* Recovery. *)

(* What the holder of the lock, or the recovery, goes on with. *)
Goal == IF Removing THEN op.gc.then ELSE op.pc

(* The row of a setup has the version that its file has. *)
UpToDate(s) == row[s].version = Current(row[s].version.file)

(* The rows that recovery closes without rereading their old file. *)
Settling == IF mode = "recovering" /\ op.pc \in {"settle", "close"} THEN {op.put, op.del} ELSE {}

(* The row of a setup is going to be reread: its file is one that an open  *)
(* row of the journal will put back.                                       *)
Rereads(o, s) == Pending(o) /\ o \notin Settling /\ OldFile(o) = row[s].version.file

-----------------------------------------------------------------------------
(* The invariant: the tables and the directory. *)

NotRefused == mode # "refused" /\ op.pc # "refuse"

OneSetup == \A s \in Setups : row[s] # None => \E k \in Keys : request[k] # None /\ request[k].setup = s

NotSame ==
    /\ \A o \in Ops : Row(o) => ~journal[o].same
    /\ \A k \in Keys : request[k] # None => ~request[k].same

(* A request has one publication and one delete, which commit together. *)
SoleRows ==
    /\ \A o, q \in Unfinished : journal[o].kind = journal[q].kind => o = q
    /\ \A o, q \in Unfinished : Publishes(o) /\ Deletes(q) =>
          /\ journal[o].expected = None /\ journal[o].path # journal[q].path
          /\ Committed(o) <=> Committed(q)

(* What the rows say while a row of the journal is open. *)
OpenRows == \A o \in Unfinished :
    /\ Pending(o) /\ journal[o].expected # None => InUse(OldFile(o))
    /\ Publishes(o) /\ Pending(o) /\ journal[o].expected = None => RowAt(journal[o].path) = {}
    /\ Publishes(o) /\ Committed(o) => InUse(o)
    /\ Deletes(o) /\ Committed(o) => RowAt(journal[o].path) = {}

(* Hidden names belong to open rows, and a guard holds what recovery discards. *)
Leftovers == \A o \in Ops :
    /\ at[Temp(o)] # None \/ at[Trash(o)] # None \/ at[Guard(o)] # None => o \in Unfinished
    /\ at[Guard(o)] # None => at[Guard(o)] = Discards(o) /\ (Deletes(o) => Committed(o))

Prepared == \A x \in Places : at[x] # None => journal[at[x]].prepared

Versions == \A s \in Setups : row[s] # None => UpToDate(s) \/ \E o \in Unfinished : Rereads(o, s)

Tables == OneSetup /\ NotSame /\ SoleRows /\ OpenRows /\ Leftovers /\ Prepared /\ Versions

-----------------------------------------------------------------------------
(* The invariant: the holder of the lock, and the recovery. *)

ServingCalm == mode = "serving" =>
    /\ Unfinished \subseteq {op.put, op.del}
    /\ op.pc \notin Undoing
    /\ op.pc = "finish" => op.put = None /\ op.del = None
    /\ Goal \in {"discard", "completeDelete"} => Unfinished \subseteq {op.del}
    /\ \A o \in Ops : at[Guard(o)] # None => op.pc = "unlink" /\ o = op.gc.of
    /\ Goal = "complete" /\ op.pc # "remove" => at[Temp(op.put)] = None
    /\ Goal = "completeDelete" /\ op.pc # "remove" => at[Trash(op.del)] = None
    /\ Removing =>
          /\ op.gc.failed = "idle"
          /\ \/ op.gc.then = "complete" /\ op.gc.of = op.put /\ op.gc.from = Temp(op.put)
             \/ op.gc.then = "completeDelete" /\ op.gc.of = op.del /\ op.gc.from = Trash(op.del)

(* Until the old file moves, its version is the one that the request saw. *)
Unmoved == {"insertDelete", "prepare", "link", "expose"}

ForwardCalm == op.pc \in Forward =>
    /\ op.pc \in Unmoved /\ Existing # None => UpToDate(R.setup)
    /\ op.pc \in Unmoved /\ op.put # None /\ journal[op.put].expected # None =>
          journal[op.put].expected = Existing.version
    /\ op.del # None /\ op.pc \notin {"markDelete", "commit"} =>
          journal[op.del].expected = Existing.version /\ UpToDate(R.setup) /\ at[Trash(op.del)] = None
    /\ op.put # None /\ op.pc \in {"quarantine", "markDelete", "commit"} =>
          journal[op.put].result = Current(op.put)
    /\ op.put # None /\ op.pc \notin {"insertDelete", "prepare"} => journal[op.put].prepared
    /\ op.pc = "insertDelete" => op.del = None /\ journal[op.put].expected = None /\ Existing.path # R.path

RecoveryCalm == mode = "recovering" /\ op.pc # "recover" =>
    /\ op.pc # "unlink" => at[Guard(Recovered)] = None
    /\ op.pc \notin {"classify", "remove"} => at[Temp(Recovered)] = None /\ at[Trash(Recovered)] = None
    /\ Removing =>
          /\ op.gc.of = Recovered
          /\ op.gc.from \in {Temp(Recovered), Trash(Recovered), Target(Recovered)}
          /\ at[Temp(Recovered)] # None => op.gc.from = Temp(Recovered)
          /\ at[Trash(Recovered)] # None => op.gc.from = Trash(Recovered)
          /\ op.gc.then = "settle" /\ op.put # None => journal[op.put].expected = None
          /\ op.del # None => Done(op.del)

Calm == NotRefused /\ Tables /\ ServingCalm /\ ForwardCalm /\ RecoveryCalm

RecoveryInv == Undisturbed /\ ~SameBytes => Calm

-----------------------------------------------------------------------------
(* What the rows and the directory say of each other. *)

LEMMA OpenRow ==
    ASSUME TypeOK, NEW o \in Unfinished
    PROVE  /\ o \in Ops /\ o # None /\ Row(o) /\ journal[o] \in JournalRow
           /\ Publishes(o) <=> ~Deletes(o)
           /\ Publishes(o) <=> journal[o].kind = "publish"
           /\ Pending(o) <=> ~Committed(o)
           /\ Committed(o) => Done(o)
           /\ journal[o].path \in Paths /\ Target(o) \in Places /\ Target(o) = Public(journal[o].path)
           /\ Temp(o) \in Places /\ Trash(o) \in Places /\ Guard(o) \in Places
           /\ Target(o) # Temp(o) /\ Target(o) # Trash(o) /\ Target(o) # Guard(o)
<1>1. o \in Ops /\ Row(o) /\ journal[o].state \in {"intent", "storage_applied", "db_applied"}
  BY DEF Unfinished, Unused, Row
<1>2. journal[o].kind \in {"publish", "delete"}
  BY <1>1, NamesTyped DEF JournalRow
<1>3. /\ Publishes(o) <=> ~Deletes(o)
      /\ Publishes(o) <=> journal[o].kind = "publish"
  BY <1>1, <1>2 DEF Publishes, Deletes
<1>4. (Pending(o) <=> ~Committed(o)) /\ (Committed(o) => Done(o))
  BY <1>1 DEF Pending, Committed, Done
<1> QED BY <1>1, <1>3, <1>4, OpsAreNot, NamesTyped, PlacesApart

(* A pending row is open, and so is one that is in use by none. *)
LEMMA PendingOpen ==
    ASSUME NEW o \in Ops, Pending(o)
    PROVE  o \in Unfinished
BY DEF Pending, Unfinished, Unused, Row

LEMMA OneSetupOnly ==
    ASSUME Undisturbed, OneSetup
    PROVE  /\ \A s, t \in Setups : row[s] # None /\ row[t] # None => s = t
           /\ \A k \in Keys, s \in Setups : request[k] # None /\ row[s] # None => s = request[k].setup
BY DEF Undisturbed, OneSetup

(* The file at a path is the one of a row, or of the open publication. *)
LEMMA WhoIsAt ==
    ASSUME TypeOK, Store, NEW p \in Paths, at[Public(p)] # None
    PROVE  LET f == at[Public(p)] IN
           /\ f \in Ops /\ Publishes(f) /\ journal[f].path = p
           /\ \/ \E s \in Setups : row[s] # None /\ row[s].path = p /\ row[s].version.file = f
              \/ f \in Unfinished /\ Pending(f)
<1> DEFINE f == at[Public(p)]
<1>1. f \in Ops /\ Publishes(f) /\ journal[f].path = p /\ (InUse(f) \/ Pending(f))
  BY PlacedFile, PlacesApart DEF Store, PublicInv
<1>2. InUse(f) => \E s \in Setups : row[s] # None /\ row[s].path = p /\ row[s].version.file = f
  BY <1>1, RowFile DEF InUse, Proper
<1> QED BY <1>1, <1>2, PendingOpen

LEMMA PendingPut ==
    ASSUME TypeOK, Store, SoleRows, OpenRows, NEW o \in Unfinished, Publishes(o), Pending(o)
    PROVE  /\ journal[o].expected = None => at[Target(o)] \in {None, o}
           /\ journal[o].expected # None =>
                 \/ at[Target(o)] = OldFile(o) /\ at[Temp(o)] \in {None, o}
                 \/ at[Target(o)] = o /\ at[Temp(o)] = OldFile(o)
<1>1. o \in Ops /\ Row(o) /\ journal[o].path \in Paths /\ Target(o) = Public(journal[o].path)
  BY OpenRow
<1>2. \A q \in Unfinished : Publishes(q) => q = o
  BY OpenRow DEF SoleRows, Publishes
<1>3. CASE journal[o].expected = None
  <2>1. \A s \in Setups : row[s] # None => row[s].path # journal[o].path
    BY <1>3 DEF OpenRows, RowAt
  <2> QED BY <1>1, <1>2, <1>3, <2>1, WhoIsAt
<1>4. CASE journal[o].expected # None
  <2>1. PICK s \in Setups : row[s] # None /\ row[s].version.file = OldFile(o)
    BY <1>4 DEF OpenRows, InUse
  <2>2. PICK f, p : f = OldFile(o) /\ p = journal[o].path
    OBVIOUS
  <2>3. f \in Ops /\ f # None /\ Proper(f, p) /\ ~Pending(f) /\ row[s].path = p /\ Home(f, p) /\ f # o
    BY <1>1, <1>4, <2>1, <2>2, OldFileIs, RowFile DEF Proper
  <2>4. \A d \in Ops : ~HiddenBy(d, f)
    BY <1>4, PendingOpen DEF HiddenBy, SoleRows
  <2>5. \/ at[Target(o)] = f
        \/ at[Target(o)] = o /\ at[Temp(o)] = f
    <3>1. CASE at[Public(p)] = f
      BY <1>1, <2>2, <3>1
    <3>2. CASE \E q \in Ops : ExchangedBy(q, f, p)
      BY <1>1, <1>2, <2>2, <3>2, PendingOpen DEF ExchangedBy
    <3> QED BY <2>3, <2>4, <3>1, <3>2 DEF Home
  <2>6. at[Target(o)] = f => at[Temp(o)] # f
    BY <1>1, <2>3, OpenRow, PlacedFile
  <2>7. at[Temp(o)] \in {None, o, f}
    BY <1>1, <2>2 DEF Store, TempInv
  <2> QED BY <1>4, <2>2, <2>5, <2>6, <2>7
<1> QED BY <1>3, <1>4

LEMMA CommittedPut ==
    ASSUME TypeOK, Store, SoleRows, OpenRows, NEW o \in Unfinished, Publishes(o), Committed(o)
    PROVE  at[Target(o)] = o /\ at[Temp(o)] \in {None, OldFile(o)} /\ at[Temp(o)] # o
<1>1. /\ o \in Ops /\ o # None /\ Row(o) /\ journal[o].path \in Paths /\ Target(o) = Public(journal[o].path)
      /\ ~Pending(o) /\ Target(o) \in Places /\ Temp(o) \in Places /\ Target(o) # Temp(o)
  BY OpenRow
<1>2. \A q \in Unfinished : Publishes(q) => q = o
  BY OpenRow DEF SoleRows, Publishes
<1>3. PICK s \in Setups : row[s] # None /\ row[s].version.file = o
  BY DEF OpenRows, InUse
<1>4. PICK p : p = journal[o].path
  OBVIOUS
<1>5. row[s].path = p /\ Home(o, p)
  BY <1>3, <1>4, RowFile DEF Proper
<1>6. \A d \in Ops : ~HiddenBy(d, o)
  <2> SUFFICES ASSUME NEW d \in Ops, HiddenBy(d, o) PROVE FALSE
    OBVIOUS
  <2>1. d \in Unfinished /\ Deletes(d) /\ Pending(d)
    BY PendingOpen DEF HiddenBy
  <2> QED BY <2>1, OpenRow DEF SoleRows
<1>7. \A q \in Ops : ~ExchangedBy(q, o, p)
  BY <1>1, <1>2, PendingOpen DEF ExchangedBy
<1>8. at[Target(o)] = o
  BY <1>1, <1>4, <1>5, <1>6, <1>7 DEF Home
<1>9. at[Temp(o)] # o
  BY <1>1, <1>8, PlacedFile
<1> QED BY <1>1, <1>8, <1>9 DEF Store, TempInv

LEMMA PendingDelete ==
    ASSUME TypeOK, Store, SoleRows, OpenRows, Undisturbed, OneSetup, NEW d \in Unfinished, Deletes(d), Pending(d)
    PROVE  /\ InPlace(d) \/ Hidden(d)
           /\ journal[d].expected # None /\ OldFile(d) # None /\ OldFile(d) \in Ops
           /\ \E s \in Setups : row[s] # None /\ row[s].version.file = OldFile(d) /\ row[s].path = journal[d].path
<1>1. /\ d \in Ops /\ d # None /\ Row(d) /\ journal[d].path \in Paths /\ Target(d) = Public(journal[d].path)
      /\ Target(d) \in Places /\ Trash(d) \in Places /\ Target(d) # Trash(d)
  BY OpenRow
<1>2. journal[d].expected # None
  BY <1>1 DEF Store, JournalInv, Deletes
<1>3. PICK s \in Setups : row[s] # None /\ row[s].version.file = OldFile(d)
  BY <1>2 DEF OpenRows, InUse
<1>4. PICK f, p : f = OldFile(d) /\ p = journal[d].path
  OBVIOUS
<1>5. f \in Ops /\ f # None /\ Proper(f, p) /\ ~Pending(f) /\ row[s].path = p /\ Home(f, p)
  BY <1>1, <1>2, <1>3, <1>4, OldFileIs, RowFile DEF Proper
<1>6. \A q \in Unfinished : Deletes(q) => q = d
  BY OpenRow DEF SoleRows, Deletes
<1>7. \A q \in Unfinished : Publishes(q) => journal[q].path # p
  BY <1>4 DEF SoleRows
<1>8. \A t \in Setups : row[t] # None => t = s
  BY <1>3, OneSetupOnly
<1>9. at[Target(d)] # None => at[Target(d)] = f
  BY <1>1, <1>3, <1>4, <1>7, <1>8, WhoIsAt
<1>10. \A q \in Ops : ~ExchangedBy(q, f, p)
  <2> SUFFICES ASSUME NEW q \in Ops, ExchangedBy(q, f, p) PROVE FALSE
    OBVIOUS
  <2>1. q \in Unfinished /\ Publishes(q) /\ at[Public(p)] = q /\ q # None
    BY PendingOpen, OpsAreNot DEF ExchangedBy
  <2>2. journal[q].path = p
    BY <1>1, <1>4, <2>1, WhoIsAt
  <2> QED BY <1>7, <2>1, <2>2
<1>11. at[Target(d)] = f \/ at[Trash(d)] = f
  BY <1>1, <1>4, <1>5, <1>6, <1>10, PendingOpen DEF Home, HiddenBy
<1>12. at[Trash(d)] \in {None, f}
  BY <1>1, <1>4 DEF Store, TrashInv
<1>13. ~(at[Target(d)] = f /\ at[Trash(d)] = f)
  BY <1>1, <1>5, PlacedFile
<1> QED BY <1>2, <1>3, <1>4, <1>5, <1>9, <1>11, <1>12, <1>13 DEF InPlace, Hidden

LEMMA CommittedDelete ==
    ASSUME TypeOK, Store, SoleRows, OpenRows, NEW d \in Unfinished, Deletes(d), Committed(d)
    PROVE  Hidden(d) \/ Gone(d)
<1>1. d \in Ops /\ Row(d) /\ journal[d].path \in Paths /\ Target(d) = Public(journal[d].path)
  BY OpenRow
<1>2. \A s \in Setups : row[s] # None => row[s].path # journal[d].path
  BY DEF OpenRows, RowAt
<1>3. \A q \in Unfinished : Publishes(q) => ~Pending(q)
  BY OpenRow DEF SoleRows
<1>4. at[Target(d)] = None
  BY <1>1, <1>2, <1>3, WhoIsAt
<1>5. at[Trash(d)] \in {None, OldFile(d)}
  BY <1>1 DEF Store, TrashInv
<1> QED BY <1>4, <1>5 DEF Hidden, Gone

-----------------------------------------------------------------------------
(* What a step keeps. *)

Steady == FilesInv /\ FilesInv' /\ ~SameBytes /\ Undisturbed /\ Undisturbed' /\ Calm

(* The rows of the journal keep their names. *)
SameRows == \A o \in Ops :
    /\ Row(o)' <=> Row(o)
    /\ Row(o) =>
          /\ journal'[o].kind = journal[o].kind /\ journal'[o].key = journal[o].key
          /\ journal'[o].path = journal[o].path /\ journal'[o].expected = journal[o].expected
          /\ journal'[o].same = journal[o].same
          /\ journal[o].prepared => journal'[o].prepared

(* Open rows are closed, and none is committed. *)
Closing ==
    /\ Unfinished' \subseteq Unfinished
    /\ \A o \in Unfinished' : Committed(o)' <=> Committed(o)

LEMMA NoFault ==
    ASSUME Steady
    PROVE  ~Fault
BY DEF Steady, Undisturbed, Fault

LEMMA SteadyFacts ==
    ASSUME Steady
    PROVE  /\ FilesInv /\ FilesInv' /\ TypeOK /\ TypeOK' /\ Store /\ Store' /\ Undisturbed /\ Undisturbed'
           /\ Calm /\ Tables /\ OneSetup /\ NotSame /\ SoleRows /\ OpenRows /\ Leftovers /\ Prepared /\ Versions
           /\ ServingCalm /\ ForwardCalm /\ RecoveryCalm /\ NotRefused /\ ~SameBytes /\ OpInv'
BY DEF Steady, FilesInv, Calm, Tables

LEMMA RowsAs ==
    ASSUME SameRows, NEW o \in Ops, Row(o)
    PROVE  /\ Row(o)' /\ (Publishes(o)' <=> Publishes(o)) /\ (Deletes(o)' <=> Deletes(o))
           /\ OldFile(o)' = OldFile(o) /\ Target(o)' = Target(o)
BY DEF SameRows, Row, Publishes, Deletes, OldFile, Target

LEMMA FilesAsBefore ==
    ASSUME TypeOK, SameFiles
    PROVE  /\ \A f : InUse(f)' <=> InUse(f)
           /\ \A p : RowAt(p)' = RowAt(p)
<1>1. ASSUME NEW f PROVE InUse(f)' <=> InUse(f)
  BY DEF SameFiles, InUse
<1>2. ASSUME NEW p PROVE RowAt(p)' = RowAt(p)
  <2>1. RowAt(p)' = {s \in Setups : row'[s] # None /\ row'[s].path = p}
    BY DEF RowAt
  <2> QED BY <2>1 DEF SameFiles, RowAt
<1> QED BY <1>1, <1>2

LEMMA OpenRowsAs ==
    ASSUME Steady, SameRows, Closing, NEW o \in Unfinished'
    PROVE  /\ o \in Unfinished /\ o \in Ops /\ Row(o) /\ Row(o)'
           /\ (Publishes(o)' <=> Publishes(o)) /\ (Deletes(o)' <=> Deletes(o))
           /\ OldFile(o)' = OldFile(o) /\ Target(o)' = Target(o)
           /\ (Committed(o)' <=> Committed(o)) /\ (Pending(o)' <=> Pending(o)) /\ Discards(o)' = Discards(o)
<1>1. o \in Unfinished /\ o \in Ops /\ Row(o) /\ (Pending(o) <=> ~Committed(o))
  BY SteadyFacts, OpenRow DEF Closing
<1>2. /\ Row(o)' /\ (Publishes(o)' <=> Publishes(o)) /\ (Deletes(o)' <=> Deletes(o))
      /\ OldFile(o)' = OldFile(o) /\ Target(o)' = Target(o)
  BY <1>1, RowsAs
<1>3. Committed(o)' <=> Committed(o)
  BY DEF Closing
<1>4. Pending(o)' <=> ~Committed(o)'
  BY <1>1 DEF Unfinished, Unused, Pending, Committed, Row
<1>5. journal'[o].kind = journal[o].kind
  BY <1>1 DEF SameRows
<1>6. Discards(o)' = Discards(o)
  BY <1>2, <1>3, <1>5 DEF Discards
<1> QED BY <1>1, <1>2, <1>3, <1>4, <1>6

LEMMA TablesKept ==
    ASSUME Steady, request' = request, SameFiles, SameRows, Closing
    PROVE  OneSetup' /\ NotSame' /\ SoleRows' /\ OpenRows'
<1>1. OneSetup'
  BY SteadyFacts DEF OneSetup, SameFiles
<1>2. NotSame'
  BY SteadyFacts DEF NotSame, SameRows
<1>3. /\ \A f : InUse(f)' <=> InUse(f)
      /\ \A p : RowAt(p)' = RowAt(p)
  BY SteadyFacts, FilesAsBefore
<1>4. SoleRows'
  BY SteadyFacts, OpenRowsAs DEF SoleRows, SameRows
<1>5. OpenRows'
  <2> SUFFICES ASSUME NEW o \in Unfinished'
      PROVE  /\ Pending(o)' /\ journal'[o].expected # None => InUse(OldFile(o))'
             /\ Publishes(o)' /\ Pending(o)' /\ journal'[o].expected = None => RowAt(journal[o].path)' = {}
             /\ Publishes(o)' /\ Committed(o)' => InUse(o)'
             /\ Deletes(o)' /\ Committed(o)' => RowAt(journal[o].path)' = {}
    <3>1. OpenRows' <=> \A o \in Unfinished' :
              /\ Pending(o)' /\ journal'[o].expected # None => InUse(OldFile(o))'
              /\ Publishes(o)' /\ Pending(o)' /\ journal'[o].expected = None => RowAt(journal[o].path)' = {}
              /\ Publishes(o)' /\ Committed(o)' => InUse(o)'
              /\ Deletes(o)' /\ Committed(o)' => RowAt(journal[o].path)' = {}
      BY DEF OpenRows
    <3> QED BY <3>1
  <2>1. journal'[o].expected = journal[o].expected /\ journal'[o].path = journal[o].path
    BY OpenRowsAs DEF SameRows
  <2>2. InUse(OldFile(o))' <=> InUse(OldFile(o))
    BY <1>3, OpenRowsAs DEF InUse
  <2>3. RowAt(journal[o].path)' = RowAt(journal[o].path)
    BY <1>3, <2>1 DEF RowAt
  <2> QED BY <1>3, <2>1, <2>2, <2>3, SteadyFacts, OpenRowsAs DEF OpenRows
<1> QED BY <1>1, <1>2, <1>4, <1>5

LEMMA DirectoryKept ==
    ASSUME Steady, at' = at, SameRows, Closing,
           \A o \in Unfinished : o \in Unfinished' \/ (at[Temp(o)] = None /\ at[Trash(o)] = None /\ at[Guard(o)] = None)
    PROVE  Leftovers' /\ Prepared'
<1>1. Leftovers'
  <2> SUFFICES ASSUME NEW o \in Ops
      PROVE  /\ at'[Temp(o)] # None \/ at'[Trash(o)] # None \/ at'[Guard(o)] # None => o \in Unfinished'
             /\ at'[Guard(o)] # None => at'[Guard(o)] = Discards(o)' /\ (Deletes(o)' => Committed(o)')
    BY DEF Leftovers
  <2>1. /\ at[Temp(o)] # None \/ at[Trash(o)] # None \/ at[Guard(o)] # None => o \in Unfinished
        /\ at[Guard(o)] # None => at[Guard(o)] = Discards(o) /\ (Deletes(o) => Committed(o))
    BY SteadyFacts DEF Leftovers
  <2> QED BY <2>1, OpenRowsAs
<1>2. Prepared'
  BY SteadyFacts, PlacedFile DEF Prepared, SameRows
<1> QED BY <1>1, <1>2

LEMMA VersionsKept ==
    ASSUME Steady, row' = row, SameRows,
           \A s \in Setups : row[s] # None =>
               \/ stamp'[row[s].version.file] = stamp[row[s].version.file]
               \/ \E o \in Unfinished' : Rereads(o, s)',
           \A o \in Unfinished : Pending(o) /\ journal[o].expected # None /\ o \notin Settling =>
               Pending(o)' /\ o \notin Settling'
    PROVE  Versions'
<1> SUFFICES ASSUME NEW s \in Setups, row[s] # None
    PROVE  UpToDate(s)' \/ \E o \in Unfinished' : Rereads(o, s)'
  BY DEF Versions
<1>1. CASE UpToDate(s) /\ stamp'[row[s].version.file] = stamp[row[s].version.file]
  BY <1>1 DEF UpToDate, Current
<1>2. CASE \E o \in Unfinished : Rereads(o, s)
  <2>1. PICK o \in Unfinished : Rereads(o, s)
    BY <1>2
  <2>2. o \in Ops /\ Row(o)
    BY SteadyFacts, OpenRow
  <2>3. OldFile(o) # None /\ OldFile(o)' = OldFile(o)
    BY <2>1, <2>2, SteadyFacts, RowFile, RowsAs DEF Rereads
  <2>4. journal[o].expected # None
    BY <2>3 DEF OldFile
  <2>5. Pending(o)' /\ o \notin Settling'
    BY <2>1, <2>4 DEF Rereads
  <2>6. o \in Unfinished'
    BY <2>2, <2>5 DEF Pending, Unfinished, Unused, Row
  <2> QED BY <2>1, <2>3, <2>5, <2>6 DEF Rereads
<1> QED BY <1>1, <1>2, SteadyFacts DEF Versions

(* A step that changes no file and no row. *)
LEMMA QuietTables ==
    ASSUME Steady, at' = at, stamp' = stamp, row' = row, request' = request, SameRows, Closing,
           \A o \in Unfinished : o \in Unfinished' \/ (at[Temp(o)] = None /\ at[Trash(o)] = None /\ at[Guard(o)] = None),
           \A o \in Unfinished : Pending(o) /\ journal[o].expected # None /\ o \notin Settling =>
               Pending(o)' /\ o \notin Settling'
    PROVE  Tables'
<1>1. SameFiles
  BY DEF SameFiles
<1> QED BY <1>1, TablesKept, DirectoryKept, VersionsKept DEF Tables

LEMMA SameJournal ==
    ASSUME journal' = journal
    PROVE  /\ SameRows /\ Closing /\ Unfinished' = Unfinished
           /\ \A o \in Ops : (Pending(o)' <=> Pending(o)) /\ (Done(o)' <=> Done(o)) /\ (Committed(o)' <=> Committed(o))
                             /\ Discards(o)' = Discards(o)
BY DEF SameRows, Closing, Unfinished, Unused, Row, Pending, Done, Committed, Discards, OldFile

LEMMA SameTables ==
    ASSUME Steady, at' = at, stamp' = stamp, row' = row, request' = request, journal' = journal,
           \A o \in Unfinished : Pending(o) /\ journal[o].expected # None /\ o \notin Settling => o \notin Settling'
    PROVE  Tables'
<1>1. \A o \in Unfinished : o \in Ops
  BY DEF Unfinished
<1> QED BY <1>1, QuietTables, SameJournal

-----------------------------------------------------------------------------
(* Assembling the invariant. *)

LEMMA CalmServing ==
    ASSUME Steady, mode' = "serving", Tables', ServingCalm', ForwardCalm'
    PROVE  Calm'
<1>1. op'.pc # "refuse"
  BY SteadyFacts DEF OpInv, ModeInv, Idle, Holding, Forward, Undoing, After
<1> QED BY <1>1 DEF Calm, NotRefused, RecoveryCalm

LEMMA CalmRecovering ==
    ASSUME Steady, mode' = "recovering", Tables', op'.pc # "refuse", RecoveryCalm'
    PROVE  Calm'
<1>1. op'.pc \notin Forward
  BY SteadyFacts DEF OpInv, ModeInv, Starting, Forward
<1> QED BY <1>1 DEF Calm, NotRefused, ServingCalm, ForwardCalm

(* A request that goes on with its changes. *)
LEMMA GoesForward ==
    ASSUME Steady, mode' = "serving", Tables', op'.pc \in Forward \cup {"clean"}, ForwardCalm',
           Unfinished' \subseteq {op'.put, op'.del}, \A o \in Ops : at'[Guard(o)] = None
    PROVE  Calm'
<1>1. ~Removing' /\ Goal' = op'.pc /\ op'.pc \notin Undoing \cup {"finish", "discard", "completeDelete", "complete"}
  BY DEF Goal, Removing, Forward, Undoing
<1>2. \A o \in Ops : (at[Guard(o)])' = None
  OBVIOUS
<1>3. ServingCalm'
  BY <1>1, <1>2 DEF ServingCalm
<1> QED BY <1>3, CalmServing

LEMMA ServingFacts ==
    ASSUME Steady, mode = "serving"
    PROVE  /\ Unfinished \subseteq {op.put, op.del} /\ op.pc \notin Undoing
           /\ op.pc # "unlink" => \A o \in Ops : at[Guard(o)] = None
           /\ Settling = {}
BY SteadyFacts DEF ServingCalm, Settling

-----------------------------------------------------------------------------
(* PutCatalogFile and DeleteCatalogFile, up to the transaction. *)

LEMMA ForwardFacts ==
    ASSUME Steady, op.pc \in Forward
    PROVE  /\ mode = "serving" /\ op # Idle /\ R.setup \in Setups /\ Settling = {}
           /\ Unfinished \subseteq {op.put, op.del} /\ \A o \in Ops : at[Guard(o)] = None
           /\ \A s \in Setups : row[s] # None => s = R.setup
           /\ op.put # None => /\ op.put \in Ops /\ op.put \in Unfinished /\ Row(op.put)
                               /\ Publishes(op.put) /\ Pending(op.put) /\ ~InUse(op.put)
                               /\ journal[op.put].path = R.path
           /\ op.del # None => /\ op.del \in Ops /\ op.del \in Unfinished /\ Row(op.del)
                               /\ Deletes(op.del) /\ Pending(op.del) /\ journal[op.del].expected # None
                               /\ Existing # None /\ Existing.version.file = OldFile(op.del)
           /\ op.put # None /\ journal[op.put].expected # None =>
                 Existing # None /\ Existing.version.file = OldFile(op.put)
<1>1. mode = "serving" /\ op # Idle /\ R.setup \in Setups /\ op.key \in Keys /\ R = request[op.key]
  BY SteadyFacts, AtServing, FilesInv DEF Forward, Undoing, After
<1>2. op.pc \notin Undoing \cup {"unlink"}
  BY DEF Forward, Undoing
<1>3. Settling = {} /\ Unfinished \subseteq {op.put, op.del} /\ \A o \in Ops : at[Guard(o)] = None
  BY <1>1, <1>2, ServingFacts
<1>4. request[op.key] # None
  BY <1>1, SteadyFacts DEF FilesInv, OpInv, HolderInv
<1>5. \A s \in Setups : row[s] # None => s = R.setup
  BY <1>1, <1>4, SteadyFacts, OneSetupOnly
<1>6. ForwardInv
  BY SteadyFacts DEF FilesInv, OpInv
<1>7. op.put # None => /\ op.put \in Ops /\ Row(op.put) /\ Publishes(op.put) /\ Pending(op.put)
                       /\ journal[op.put].path = R.path
  BY <1>1, <1>6, SteadyFacts, HolderRows DEF ForwardInv
<1>8. op.del # None => /\ op.del \in Ops /\ Row(op.del) /\ Deletes(op.del) /\ Pending(op.del)
                       /\ journal[op.del].expected # None
                       /\ Existing # None /\ Existing.version.file = OldFile(op.del)
  BY <1>1, <1>6, SteadyFacts, HolderRows DEF ForwardInv
<1>9. op.put # None => ~InUse(op.put)
  BY <1>7, SteadyFacts, RowFile DEF InUse
<1> QED BY <1>1, <1>3, <1>5, <1>6, <1>7, <1>8, <1>9, PendingOpen DEF ForwardInv

(* The file that the setup of the request has, and its version. *)
LEMMA SameExisting ==
    ASSUME op'.key = op.key, request' = request, row' = row
    PROVE  /\ R' = R /\ Existing' = Existing
           /\ stamp' = stamp => (UpToDate(R.setup)' <=> UpToDate(R.setup))
<1>1. R' = R /\ Existing' = Existing
  BY DEF R, Existing
<1>2. UpToDate(R.setup)' <=> row'[R'.setup].version = [file |-> row'[R'.setup].version.file,
                                                     stamp |-> stamp'[row'[R'.setup].version.file]]
  BY DEF UpToDate, Current
<1> QED BY <1>1, <1>2 DEF UpToDate, Current

LEMMA PrepareCalm ==
    ASSUME Steady, Prepare
    PROVE  Calm'
<1>1. /\ op.pc = "prepare" /\ op.pc \in Forward /\ mode' = mode /\ request' = request /\ at' = at /\ stamp' = stamp
      /\ row' = row /\ Goto("link") /\ journal' = [journal EXCEPT ![op.put].prepared = TRUE]
  BY NoFault DEF Prepare, At, disk, rows, Forward
<1>2. /\ op.put # None /\ op.put \in Ops /\ Row(op.put) /\ mode = "serving"
      /\ journal[op.put] \in JournalRow /\ journal \in [Ops -> JournalRow \cup {None}]
  BY <1>1, SteadyFacts, ForwardFacts, NamesTyped DEF FilesInv, OpInv, PutInv, TypeOK
<1>3. PICK u : u = op.put
  OBVIOUS
<1>4. /\ \A o \in Ops : o # u => journal'[o] = journal[o]
      /\ journal'[u] = [journal[u] EXCEPT !.prepared = TRUE] /\ journal'[u] \in JournalRow
  BY <1>1, <1>2, <1>3 DEF JournalRow
<1>5. /\ SameRows /\ \A o \in Ops : Row(o) => journal'[o].state = journal[o].state
      /\ journal'[u].prepared
  BY <1>2, <1>3, <1>4, RecordAssumption DEF SameRows, Row, JournalRow
<1>6. Closing /\ Unfinished' = Unfinished /\ \A o \in Ops : Pending(o)' <=> Pending(o)
  BY <1>5 DEF Closing, SameRows, Unfinished, Unused, Row, Committed, Pending
<1>7. op'.pc = "link" /\ op'.put = u /\ op'.del = op.del /\ op'.key = op.key
  BY <1>1, <1>3, SteadyFacts, GotoType DEF Pcs
<1>8. Settling = {} /\ Settling' = {} /\ \A o \in Unfinished : o \in Ops
  BY <1>1, <1>2 DEF Settling, Unfinished
<1>9. Tables'
  BY <1>1, <1>5, <1>6, <1>8, QuietTables
<1>10. R' = R /\ Existing' = Existing /\ (UpToDate(R.setup)' <=> UpToDate(R.setup))
  BY <1>1, <1>7, SameExisting
<1>11. ForwardCalm'
  <2>1. op.del # None => journal'[op.del].expected = journal[op.del].expected
    BY <1>1, <1>5, ForwardFacts DEF SameRows
  <2>2. journal'[u].expected = journal[u].expected
    BY <1>2, <1>3, <1>5 DEF SameRows
  <2>3. ForwardCalm
    BY SteadyFacts
  <2>4. PICK d : d = op.del
    OBVIOUS
  <2> QED BY <1>1, <1>2, <1>3, <1>5, <1>7, <1>10, <2>1, <2>2, <2>3, <2>4, SMTT(30) DEF ForwardCalm, Unmoved
<1> QED BY <1>1, <1>2, <1>3, <1>6, <1>7, <1>9, <1>11, ForwardFacts, GoesForward DEF Forward

LEMMA VerifyCalm ==
    ASSUME Steady, Verify
    PROVE  Calm'
<1>1. /\ op.pc = "verify" /\ op.pc \in Forward /\ mode' = mode /\ request' = request /\ at' = at /\ stamp' = stamp
      /\ row' = row /\ journal' = journal /\ Goto("apply")
  BY NoFault DEF Verify, At, disk, rows, Forward
<1>2. mode = "serving" /\ Settling = {} /\ Settling' = {}
  BY <1>1, ForwardFacts DEF Settling
<1>3. op'.pc = "apply" /\ op'.put = op.put /\ op'.del = op.del /\ op'.key = op.key
  BY <1>1, SteadyFacts, GotoType DEF Pcs
<1>4. Tables' /\ Unfinished' = Unfinished
  BY <1>1, <1>2, SameTables, SameJournal
<1>5. R' = R /\ Existing' = Existing
  BY <1>1, <1>3 DEF R, Existing
<1>6. ForwardCalm'
  BY <1>1, <1>3, <1>5, SteadyFacts DEF ForwardCalm, Unmoved, UpToDate, Current, Forward
<1> QED BY <1>1, <1>2, <1>3, <1>4, <1>6, ForwardFacts, GoesForward DEF Forward

(* The state of a pending row moves on to storage_applied. *)
LEMMA StateOn ==
    ASSUME Steady, op.pc \in Forward, NEW u \in Ops, Row(u), Pending(u),
           \A o \in Ops : o # u => journal'[o] = journal[o], Row(u)', Pending(u)',
           /\ journal'[u].kind = journal[u].kind /\ journal'[u].key = journal[u].key
           /\ journal'[u].path = journal[u].path /\ journal'[u].expected = journal[u].expected
           /\ journal'[u].same = journal[u].same /\ journal'[u].prepared = journal[u].prepared,
           at' = at, stamp' = stamp, row' = row, request' = request, mode' = mode
    PROVE  Tables' /\ SameRows /\ Unfinished' = Unfinished
<1>1. SameRows
  BY DEF SameRows, Row
<1>2. \A o \in Ops : (Pending(o)' <=> Pending(o)) /\ (Row(o) => (Committed(o)' <=> Committed(o)))
  BY DEF Pending, Committed, Row
<1>3. Unfinished' = Unfinished
  BY DEF Unfinished, Unused, Pending, Row
<1>4. Closing /\ \A o \in Unfinished : o \in Ops
  BY <1>2, <1>3 DEF Closing, Unfinished, Unused, Row
<1>5. Settling = {} /\ Settling' = {}
  BY ForwardFacts DEF Settling
<1> QED BY <1>1, <1>2, <1>3, <1>4, <1>5, QuietTables

LEMMA ApplyStorageCalm ==
    ASSUME Steady, ApplyStorage
    PROVE  Calm'
<1>1. /\ op.pc = "apply" /\ op.pc \in Forward /\ mode' = mode /\ request' = request /\ at' = at /\ stamp' = stamp
      /\ row' = row /\ op' = [op EXCEPT !.pc = IF op.del = None THEN "commit" ELSE "quarantine", !.reread = TRUE]
      /\ journal' = [journal EXCEPT ![op.put].state = "storage_applied", ![op.put].result = Current(op.put)]
  BY NoFault DEF ApplyStorage, At, disk, rows, Forward
<1>2. /\ op.put # None /\ op.put \in Ops /\ Row(op.put) /\ Pending(op.put) /\ mode = "serving"
      /\ journal[op.put] \in JournalRow /\ journal \in [Ops -> JournalRow \cup {None}]
  BY <1>1, SteadyFacts, ForwardFacts, NamesTyped DEF FilesInv, OpInv, PutInv, TypeOK
<1>3. PICK u : u = op.put
  OBVIOUS
<1>4. /\ \A o \in Ops : o # u => journal'[o] = journal[o]
      /\ journal'[u] = [journal[u] EXCEPT !.state = "storage_applied", !.result = Current(op.put)]
  BY <1>1, <1>2, <1>3 DEF JournalRow
<1>5. /\ journal'[u].kind = journal[u].kind /\ journal'[u].key = journal[u].key
      /\ journal'[u].path = journal[u].path /\ journal'[u].expected = journal[u].expected
      /\ journal'[u].same = journal[u].same /\ journal'[u].prepared = journal[u].prepared
      /\ journal'[u].state = "storage_applied" /\ journal'[u].result = Current(u)
  BY <1>2, <1>3, <1>4 DEF JournalRow
<1>6. Row(u)' /\ Pending(u)'
  <2>1. Row(u)'
    <3>1. Current(op.put) \in Version
      BY <1>2, SteadyFacts DEF Current, Version, TypeOK, Files
    <3>2. journal'[u] \in JournalRow
      BY <1>2, <1>3, <1>4, <3>1 DEF JournalRow
    <3> QED BY <3>2, RecordAssumption DEF Row
  <2> QED BY <1>5, <2>1 DEF Pending
<1>7. Tables' /\ SameRows /\ Unfinished' = Unfinished
  BY <1>1, <1>2, <1>3, <1>4, <1>5, <1>6, StateOn
<1>8. /\ op'.pc = IF op.del = None THEN "commit" ELSE "quarantine"
      /\ op'.put = u /\ op'.del = op.del /\ op'.key = op.key
  BY <1>1, <1>3, SteadyFacts, OpType DEF Op
<1>9. R' = R /\ Existing' = Existing /\ (UpToDate(R.setup)' <=> UpToDate(R.setup))
  BY <1>1, <1>8, SameExisting
<1>10. ForwardCalm'
  <2>1. op.del # None => journal'[op.del].expected = journal[op.del].expected
    BY <1>1, <1>7, ForwardFacts DEF SameRows
  <2>2. journal[u].prepared
    BY <1>1, <1>2, <1>3, SteadyFacts DEF ForwardCalm, Forward
  <2>3. Current(u)' = Current(u)
    BY <1>1 DEF Current
  <2>4. ForwardCalm
    BY SteadyFacts
  <2>5. PICK d : d = op.del
    OBVIOUS
  <2>6. op'.pc \in {"commit", "quarantine"} /\ (op'.pc = "commit" => op'.del = None)
    BY <1>8
  <2>7. Current(op.put)' = Current(op'.put)
    BY <1>1, <1>3, <1>8 DEF Current
  <2> QED BY <1>1, <1>2, <1>3, <1>5, <1>8, <1>9, <2>1, <2>2, <2>3, <2>4, <2>5, <2>6, <2>7, SMTT(30) DEF ForwardCalm, Unmoved
<1> QED BY <1>1, <1>2, <1>3, <1>7, <1>8, <1>10, ForwardFacts, GoesForward DEF Forward

LEMMA MarkDeleteCalm ==
    ASSUME Steady, MarkDelete
    PROVE  Calm'
<1>1. /\ op.pc = "markDelete" /\ op.pc \in Forward /\ mode' = mode /\ request' = request /\ at' = at
      /\ stamp' = stamp /\ row' = row /\ Goto("commit") /\ SetState(op.del, "storage_applied")
      /\ journal' = [journal EXCEPT ![op.del].state = "storage_applied"]
  BY NoFault DEF MarkDelete, At, disk, rows, Forward, SetState
<1>2. /\ op.del # None /\ op.del \in Ops /\ Row(op.del) /\ Pending(op.del) /\ mode = "serving"
      /\ journal[op.del] \in JournalRow /\ journal \in [Ops -> JournalRow \cup {None}]
  BY <1>1, SteadyFacts, ForwardFacts, NamesTyped DEF FilesInv, OpInv, DelInv, TypeOK
<1>3. PICK d : d = op.del
  OBVIOUS
<1>4. /\ \A o \in Ops : (Row(o)' <=> Row(o)) /\ (o # d => journal'[o] = journal[o])
      /\ journal'[d] = [journal[d] EXCEPT !.state = "storage_applied"]
  BY <1>1, <1>2, <1>3, SteadyFacts, SetStateIs
<1>5. /\ journal'[d].kind = journal[d].kind /\ journal'[d].key = journal[d].key
      /\ journal'[d].path = journal[d].path /\ journal'[d].expected = journal[d].expected
      /\ journal'[d].same = journal[d].same /\ journal'[d].prepared = journal[d].prepared
      /\ journal'[d].state = "storage_applied"
  BY <1>2, <1>3, <1>4 DEF JournalRow
<1>6. Row(d)' /\ Pending(d)'
  BY <1>2, <1>3, <1>4, <1>5 DEF Pending
<1>7. Tables' /\ SameRows /\ Unfinished' = Unfinished
  BY <1>1, <1>2, <1>3, <1>4, <1>5, <1>6, StateOn
<1>8. op'.pc = "commit" /\ op'.put = op.put /\ op'.del = d /\ op'.key = op.key
  BY <1>1, <1>3, SteadyFacts, GotoType DEF Pcs
<1>9. op.put # None => op.put # d /\ op.put \in Ops
  BY <1>1, <1>2, <1>3, ForwardFacts, SteadyFacts DEF Publishes, Deletes
<1>10. ForwardCalm'
  <2>1. op.put # None => journal'[op.put] = journal[op.put]
    BY <1>4, <1>9
  <2>2. op.put # None => Current(op.put)' = Current(op.put)
    BY <1>1, <1>8 DEF Current
  <2>3. ForwardCalm
    BY SteadyFacts
  <2>4. PICK u : u = op.put
    OBVIOUS
  <2> QED BY <1>1, <1>8, <2>1, <2>2, <2>3, <2>4 DEF ForwardCalm, Unmoved
<1> QED BY <1>1, <1>2, <1>3, <1>7, <1>8, <1>10, ForwardFacts, GoesForward DEF Forward

(* The renames of the files. *)

LEMMA RenameStamp ==
    ASSUME TypeOK, NEW x \in Places, NEW y \in Places, Rename(x, y)
    PROVE  \A f \in Ops : f # at[x] => stamp'[f] = stamp[f]
BY DEF TypeOK, Files, Rename

LEMMA ExchangeStamp ==
    ASSUME TypeOK, NEW x \in Places, NEW y \in Places, Exchange(x, y)
    PROVE  \A f \in Ops : f \notin {at[x], at[y]} => stamp'[f] = stamp[f]
BY DEF TypeOK, Files, Exchange

(* A step that moves the files of open rows, and no other. *)
LEMMA MovedTables ==
    ASSUME Steady, row' = row, request' = request, journal' = journal, Leftovers',
           \A x \in Places : at'[x] # None => \E y \in Places : at'[x] = at[y] \/ journal[at'[x]].prepared,
           \A s \in Setups : row[s] # None =>
               \/ stamp'[row[s].version.file] = stamp[row[s].version.file]
               \/ \E o \in Unfinished : Rereads(o, s)',
           \A o \in Unfinished : Pending(o) /\ journal[o].expected # None /\ o \notin Settling => o \notin Settling'
    PROVE  Tables'
<1>1. SameFiles /\ SameRows /\ Closing /\ Unfinished' = Unfinished
  BY SameJournal DEF SameFiles
<1>2. Prepared'
  <2> SUFFICES ASSUME NEW x \in Places, at'[x] # None PROVE journal[at'[x]].prepared
    BY DEF Prepared
  <2>1. PICK y \in Places : at'[x] = at[y] \/ journal[at'[x]].prepared
    OBVIOUS
  <2> QED BY <2>1, SteadyFacts DEF Prepared
<1>3. \A o \in Unfinished : o \in Ops
  BY DEF Unfinished
<1>4. \A o \in Unfinished : Pending(o) => Pending(o)'
  BY <1>3, SameJournal
<1>5. Versions'
  BY <1>1, <1>4, VersionsKept
<1>6. OneSetup' /\ NotSame' /\ SoleRows' /\ OpenRows'
  BY <1>1, TablesKept
<1> QED BY <1>2, <1>5, <1>6 DEF Tables

LEMMA LinkCalm ==
    ASSUME Steady, Link
    PROVE  Calm'
<1>1. /\ op.pc = "link" /\ op.pc \in Forward /\ mode' = mode /\ request' = request /\ row' = row
      /\ journal' = journal /\ Goto("expose") /\ Linked
  BY NoFault DEF Link, At, rows, Forward
<1>2. PICK u, x : u = op.put /\ x = Temp(op.put)
  OBVIOUS
<1>3. /\ u \in Ops /\ u # None /\ u \in Unfinished /\ Row(u) /\ Publishes(u) /\ ~InUse(u) /\ mode = "serving"
      /\ x \in Places /\ x = Temp(u)
  <2>1. op.put # None
    BY <1>1, SteadyFacts DEF FilesInv, OpInv, PutInv
  <2> QED BY <1>1, <1>2, <2>1, ForwardFacts, PlacesApart
<1>4. journal[u].prepared
  BY <1>1, <1>2, <1>3, SteadyFacts DEF ForwardCalm
<1>5. /\ at'[x] = u /\ \A z \in Places : z # x => at'[z] = at[z]
      /\ \A f \in Ops : f # u => stamp'[f] = stamp[f]
  BY <1>1, <1>2, <1>3, SteadyFacts DEF Linked, TypeOK, Files
<1>6. /\ Unfinished' = Unfinished /\ Settling = {} /\ Settling' = {}
      /\ \A o \in Ops : at[Guard(o)] = None /\ at'[Guard(o)] = None
  BY <1>1, <1>3, <1>5, SameJournal, ForwardFacts, PlacesApart DEF Settling
<1>7. Leftovers'
  <2> SUFFICES ASSUME NEW o \in Ops
      PROVE  at'[Temp(o)] # None \/ at'[Trash(o)] # None => o \in Unfinished
    BY <1>6 DEF Leftovers
  <2> QED BY <1>3, <1>5, PlacesApart, SteadyFacts DEF Leftovers
<1>8. Tables'
  <2>1. ASSUME NEW s \in Setups, row[s] # None
        PROVE  stamp'[row[s].version.file] = stamp[row[s].version.file]
    BY <1>3, <1>5, <2>1, SteadyFacts, RowFile
  <2>2. \A z \in Places : at'[z] # None => \E y \in Places : at'[z] = at[y] \/ journal[at'[z]].prepared
    BY <1>4, <1>5
  <2> QED BY <1>1, <1>6, <1>7, <2>1, <2>2, MovedTables
<1>9. op'.pc = "expose" /\ op'.put = u /\ op'.del = op.del /\ op'.key = op.key
  BY <1>1, <1>2, SteadyFacts, GotoType DEF Pcs
<1>10. R' = R /\ Existing' = Existing /\ (Existing # None /\ UpToDate(R.setup) => UpToDate(R.setup)')
  <2>1. R' = R /\ Existing' = Existing
    BY <1>1, <1>9, SameExisting
  <2>2. Existing # None => stamp'[Existing.version.file] = stamp[Existing.version.file]
    BY <1>1, <1>3, <1>5, ForwardFacts, SteadyFacts, RowFile DEF Existing
  <2> QED BY <1>1, <2>1, <2>2 DEF UpToDate, Current, Existing
<1>11. ForwardCalm'
  <2>1. op.del # None => /\ at'[Trash(op.del)] = at[Trash(op.del)]
                         /\ Existing # None
    BY <1>1, <1>3, <1>5, ForwardFacts, PlacesApart
  <2>2. ForwardCalm
    BY SteadyFacts
  <2>3. PICK d, y : d = op.del /\ y = Trash(op.del)
    OBVIOUS
  <2> QED BY <1>1, <1>2, <1>3, <1>4, <1>9, <1>10, <2>1, <2>2, <2>3 DEF ForwardCalm, Unmoved
<1> QED BY <1>1, <1>2, <1>3, <1>6, <1>8, <1>9, <1>11, ForwardFacts, GoesForward DEF Forward

LEMMA ExposeCalm ==
    ASSUME Steady, Expose
    PROVE  Calm'
<1>1. op.pc = "expose" /\ op.pc \in Forward /\ mode' = mode /\ request' = request /\ row' = row /\ journal' = journal
  BY DEF Expose, At, rows, Forward
<1>2. PICK u, x, y : u = op.put /\ x = Temp(op.put) /\ y = Target(op.put)
  OBVIOUS
<1>3. /\ u \in Ops /\ u # None /\ u \in Unfinished /\ Row(u) /\ Publishes(u) /\ Pending(u) /\ ~InUse(u)
      /\ mode = "serving" /\ at[x] = u
      /\ x \in Places /\ x = Temp(u) /\ y \in Places /\ y = Target(u) /\ x # y
  <2>1. op.put # None /\ at[Temp(op.put)] = op.put
    BY <1>1, SteadyFacts DEF FilesInv, OpInv, PutInv
  <2> QED BY <1>1, <1>2, <2>1, ForwardFacts, OpenRow, SteadyFacts
<1>4. /\ journal[u].expected = None => at[y] = None
      /\ journal[u].expected # None =>
            /\ at[y] = OldFile(u) /\ OldFile(u) # u /\ OldFile(u) \in Ops /\ OldFile(u) # None
            /\ Existing # None /\ Existing.version.file = OldFile(u)
            /\ journal[u].expected = Current(OldFile(u))
  <2>1. at[y] # u
    BY <1>3, SteadyFacts, PlacedFile
  <2>2. CASE journal[u].expected = None
    BY <1>3, <2>1, <2>2, SteadyFacts, PendingPut
  <2>3. CASE journal[u].expected # None
    <3>1. at[y] = OldFile(u)
      BY <1>3, <2>1, <2>3, SteadyFacts, PendingPut
    <3>2. OldFile(u) \in Ops /\ OldFile(u) # None
      BY <1>3, <2>3, SteadyFacts, OldFileIs
    <3>3. Existing # None /\ Existing.version.file = OldFile(u)
      BY <1>1, <1>2, <1>3, <2>3, ForwardFacts
    <3>4. journal[u].expected = Existing.version /\ UpToDate(R.setup)
      BY <1>1, <1>2, <1>3, <2>3, <3>3, SteadyFacts DEF ForwardCalm, Unmoved
    <3>5. journal[u].expected = Current(OldFile(u))
      BY <3>3, <3>4 DEF UpToDate, Existing
    <3> QED BY <2>1, <2>3, <3>1, <3>2, <3>3, <3>5
  <2> QED BY <2>2, <2>3
<1>5. Matches(op.put)
  BY <1>2, <1>3, <1>4 DEF Matches
<1>6. Goto("verify") /\ (journal[u].expected = None => Rename(x, y)) /\ (journal[u].expected # None => Exchange(x, y))
  BY <1>2, <1>5, NoFault DEF Expose, Rename, Exchange
<1>7. /\ at'[y] = u /\ at'[x] = at[y] /\ \A z \in Places : z # x /\ z # y => at'[z] = at[z]
      /\ \A f \in Ops : f # u /\ f # at[y] => stamp'[f] = stamp[f]
  <2>1. CASE journal[u].expected = None
    <3>1. Rename(x, y)
      BY <1>6, <2>1
    <3> QED BY <1>3, <1>4, <2>1, <3>1, SteadyFacts, RenameAt, RenameStamp
  <2>2. CASE journal[u].expected # None
    <3>1. Exchange(x, y)
      BY <1>6, <2>2
    <3> QED BY <1>3, <1>4, <2>2, <3>1, SteadyFacts, ExchangeAt, ExchangeStamp
  <2> QED BY <2>1, <2>2
<1>8. /\ Unfinished' = Unfinished /\ Settling = {} /\ Settling' = {}
      /\ \A o \in Ops : at'[Guard(o)] = None /\ at'[Trash(o)] = at[Trash(o)]
  <2>1. \A o \in Ops : /\ Guard(o) \in Places /\ Guard(o) # x /\ Guard(o) # y
                       /\ Trash(o) \in Places /\ Trash(o) # x /\ Trash(o) # y
    BY <1>3, SteadyFacts, OpenRow, PlacesApart
  <2> QED BY <1>1, <1>3, <1>7, <2>1, SameJournal, ForwardFacts DEF Settling
<1>9. Leftovers'
  <2> SUFFICES ASSUME NEW o \in Ops
      PROVE  at'[Temp(o)] # None \/ at'[Trash(o)] # None => o \in Unfinished
    BY <1>8 DEF Leftovers
  <2>1. o # u => Temp(o) \in Places /\ Temp(o) # x /\ Temp(o) # y
    BY <1>3, SteadyFacts, OpenRow, PlacesApart
  <2> QED BY <1>3, <1>7, <1>8, <2>1, SteadyFacts DEF Leftovers
<1>10. Tables'
  <2>1. ASSUME NEW s \in Setups, row[s] # None
        PROVE  \/ stamp'[row[s].version.file] = stamp[row[s].version.file]
               \/ \E o \in Unfinished : Rereads(o, s)'
    <3>1. row[s].version.file \in Ops /\ row[s].version.file # u /\ row[s].version.file # None
      BY <1>3, <2>1, SteadyFacts, RowFile
    <3>2. CASE row[s].version.file = at[y]
      <4>1. journal[u].expected # None /\ OldFile(u) = row[s].version.file
        BY <1>4, <3>1, <3>2
      <4> QED BY <1>1, <1>3, <1>8, <4>1 DEF Rereads, Pending, Row, OldFile
    <3> QED BY <1>7, <3>1, <3>2
  <2>2. \A z \in Places : at'[z] # None => \E v \in Places : at'[z] = at[v] \/ journal[at'[z]].prepared
    BY <1>3, <1>7
  <2> QED BY <1>1, <1>8, <1>9, <2>1, <2>2, MovedTables
<1>11. op'.pc = "verify" /\ op'.put = u /\ op'.del = op.del /\ op'.key = op.key
  BY <1>2, <1>6, SteadyFacts, GotoType DEF Pcs
<1>12. op.del # None => /\ Existing # None /\ stamp'[Existing.version.file] = stamp[Existing.version.file]
                        /\ op.del \in Ops
  <2> SUFFICES ASSUME op.del # None
      PROVE  Existing # None /\ stamp'[Existing.version.file] = stamp[Existing.version.file] /\ op.del \in Ops
    OBVIOUS
  <2>1. op.del \in Unfinished /\ op.del \in Ops /\ Deletes(op.del) /\ Existing # None
    BY <1>1, ForwardFacts
  <2>2. journal[u].expected = None
    BY <1>3, <2>1, SteadyFacts DEF SoleRows
  <2>3. Existing.version.file \in Ops /\ Existing.version.file # u /\ Existing.version.file # None
    BY <1>1, <1>3, <2>1, ForwardFacts, SteadyFacts, RowFile DEF Existing
  <2> QED BY <1>4, <1>7, <2>1, <2>2, <2>3
<1>13. R' = R /\ Existing' = Existing
  BY <1>1, <1>11, SameExisting
<1>14. ForwardCalm'
  <2>1. ForwardCalm
    BY SteadyFacts
  <2>2. op.del # None => UpToDate(R.setup)'
    <3>1. op.del # None => UpToDate(R.setup)
      BY <1>1, <2>1 DEF ForwardCalm
    <3> QED BY <1>1, <1>12, <1>13, <3>1 DEF UpToDate, Current, Existing
  <2>3. PICK d, z : d = op.del /\ z = Trash(op.del)
    OBVIOUS
  <2> QED BY <1>1, <1>2, <1>3, <1>8, <1>11, <1>12, <1>13, <2>1, <2>2, <2>3 DEF ForwardCalm, Unmoved
<1> QED BY <1>1, <1>2, <1>3, <1>8, <1>10, <1>11, <1>14, ForwardFacts, GoesForward DEF Forward

LEMMA QuarantineCalm ==
    ASSUME Steady, Quarantine
    PROVE  Calm'
<1>1. op.pc = "quarantine" /\ op.pc \in Forward /\ mode' = mode /\ request' = request /\ row' = row /\ journal' = journal
  BY DEF Quarantine, At, rows, Forward
<1>2. PICK d, x, y, f : d = op.del /\ x = Trash(op.del) /\ y = Target(op.del) /\ f = OldFile(op.del)
  OBVIOUS
<1>3. /\ d \in Ops /\ d # None /\ d \in Unfinished /\ Row(d) /\ Deletes(d) /\ Pending(d) /\ journal[d].expected # None
      /\ Existing # None /\ Existing.version.file = f /\ mode = "serving" /\ R.setup \in Setups
      /\ x \in Places /\ x = Trash(d) /\ y \in Places /\ y = Target(d) /\ x # y /\ f = OldFile(d)
  <2>1. op.del # None
    BY <1>1, SteadyFacts DEF FilesInv, OpInv, DelInv
  <2> QED BY <1>1, <1>2, <2>1, ForwardFacts, OpenRow, SteadyFacts
<1>4. journal[d].expected = Existing.version /\ UpToDate(R.setup) /\ at[x] = None
  BY <1>1, <1>2, <1>3, SteadyFacts DEF ForwardCalm
<1>5. at[y] = f /\ f # None /\ f \in Ops
  BY <1>3, <1>4, SteadyFacts, PendingDelete DEF InPlace, Hidden
<1>6. Matches(op.del)
  BY <1>2, <1>3, <1>4, <1>5 DEF Matches, UpToDate, Existing
<1>7. Goto("markDelete") /\ Rename(y, x)
  BY <1>2, <1>6, NoFault DEF Quarantine, Rename
<1>8. /\ at'[x] = f /\ at'[y] = None /\ \A z \in Places : z # x /\ z # y => at'[z] = at[z]
      /\ \A g \in Ops : g # f => stamp'[g] = stamp[g]
  BY <1>3, <1>5, <1>7, SteadyFacts, RenameAt, RenameStamp
<1>9. /\ Unfinished' = Unfinished /\ Settling = {} /\ Settling' = {}
      /\ \A o \in Ops : at'[Guard(o)] = None /\ at'[Temp(o)] = at[Temp(o)]
  <2>1. \A o \in Ops : /\ Guard(o) \in Places /\ Guard(o) # x /\ Guard(o) # y
                       /\ Temp(o) \in Places /\ Temp(o) # x /\ Temp(o) # y
    BY <1>3, SteadyFacts, OpenRow, PlacesApart
  <2> QED BY <1>1, <1>3, <1>8, <2>1, SameJournal, ForwardFacts DEF Settling
<1>10. Leftovers'
  <2> SUFFICES ASSUME NEW o \in Ops
      PROVE  at'[Temp(o)] # None \/ at'[Trash(o)] # None => o \in Unfinished
    BY <1>9 DEF Leftovers
  <2>1. o # d => Trash(o) \in Places /\ Trash(o) # x /\ Trash(o) # y
    BY <1>3, SteadyFacts, OpenRow, PlacesApart
  <2> QED BY <1>3, <1>8, <1>9, <2>1, SteadyFacts DEF Leftovers
<1>11. Tables'
  <2>1. ASSUME NEW s \in Setups, row[s] # None
        PROVE  \/ stamp'[row[s].version.file] = stamp[row[s].version.file]
               \/ \E o \in Unfinished : Rereads(o, s)'
    <3>1. row[s].version.file \in Ops
      BY <2>1, SteadyFacts, RowFile
    <3>2. CASE row[s].version.file = f
      BY <1>1, <1>3, <1>9, <3>2 DEF Rereads, Pending, Row, OldFile
    <3> QED BY <1>8, <3>1, <3>2
  <2>2. \A z \in Places : at'[z] # None => \E v \in Places : at'[z] = at[v] \/ journal[at'[z]].prepared
    BY <1>3, <1>5, <1>8
  <2> QED BY <1>1, <1>9, <1>10, <2>1, <2>2, MovedTables
<1>12. op'.pc = "markDelete" /\ op'.put = op.put /\ op'.del = d /\ op'.key = op.key
  BY <1>2, <1>7, SteadyFacts, GotoType DEF Pcs
<1>13. ForwardCalm'
  <2>1. ForwardCalm
    BY SteadyFacts
  <2>2. op.put # None => op.put \in Ops /\ op.put # f
    BY <1>1, <1>3, ForwardFacts DEF InUse, Existing
  <2>3. op.put # None => Current(op.put)' = Current(op.put)
    BY <1>8, <1>12, <2>2 DEF Current
  <2>4. PICK u : u = op.put
    OBVIOUS
  <2> QED BY <1>1, <1>12, <2>1, <2>3, <2>4 DEF ForwardCalm, Unmoved
<1> QED BY <1>1, <1>2, <1>3, <1>9, <1>11, <1>12, <1>13, ForwardFacts, GoesForward DEF Forward

-----------------------------------------------------------------------------
(* The transaction, and what follows it. *)

LEMMA CommitCalm ==
    ASSUME Steady, Commit
    PROVE  Calm'
<1>1. /\ op.pc = "commit" /\ op.pc \in Forward /\ mode' = mode /\ request' = request /\ at' = at /\ stamp' = stamp
      /\ Goto(IF op.put = None THEN "discard" ELSE "clean")
      /\ row' = [row EXCEPT ![R.setup] = IF op.put = None THEN None
                                         ELSE [path |-> R.path, version |-> journal[op.put].result]]
      /\ journal' = [o \in Ops |-> IF o \in {op.put, op.del} /\ journal[o].state = "storage_applied"
                                   THEN [journal[o] EXCEPT !.state = "db_applied"] ELSE journal[o]]
  BY DEF Commit, At, disk, Forward
<1>2. FilesInv /\ TypeOK /\ Store
  BY SteadyFacts
<1>3. PICK u, d, s : u = op.put /\ d = op.del /\ s = R.setup
  OBVIOUS
<1>4. /\ u \in Ops \cup {None} /\ d \in Ops \cup {None} /\ s \in Setups /\ mode = "serving"
      /\ u # None => u \in Unfinished /\ Publishes(u) /\ Row(u) /\ journal[u].path = R.path
      /\ d # None => d \in Unfinished /\ Deletes(d) /\ Row(d)
      /\ Unfinished \subseteq {u, d} /\ (\A o \in Ops : at[Guard(o)] = None)
      /\ \A t \in Setups : row[t] # None => t = s
  BY <1>1, <1>2, <1>3, ForwardFacts, OpType
<1>5. /\ \A t \in Setups : t # s => row'[t] = None
      /\ u = None => row'[s] = None
      /\ u # None => row'[s] # None /\ row'[s].path = R.path /\ row'[s].version = Current(u)
                     /\ row'[s].version.file = u
  <2>1. \A t \in Setups : t # s => row'[t] = None
    BY <1>2, <1>3, <1>4, CommitRow
  <2>2. u = None => row'[s] = None
    BY <1>2, <1>3, CommitRow
  <2>3. u # None => row'[s] # None /\ row'[s].path = R.path /\ row'[s].version.file = u
    BY <1>2, <1>3, CommitRow
  <2>4. u # None => row'[s].version = journal[u].result
    BY <1>1, <1>2, <1>3, <1>4 DEF TypeOK
  <2>5. u # None => journal[u].result = Current(u)
    BY <1>1, <1>3, SteadyFacts DEF ForwardCalm
  <2> QED BY <2>1, <2>2, <2>3, <2>4, <2>5
<1>6. /\ \A o \in Ops : (Row(o)' <=> Row(o))
      /\ \A o \in Ops : Row(o) =>
            /\ journal'[o].kind = journal[o].kind /\ journal'[o].key = journal[o].key
            /\ journal'[o].path = journal[o].path /\ journal'[o].expected = journal[o].expected
            /\ journal'[o].prepared = journal[o].prepared
            /\ o \notin {u, d} => journal'[o] = journal[o]
            /\ o \in {u, d} => journal'[o].state = "db_applied"
  BY <1>2, <1>3, CommitRow
<1>7. \A o \in Ops : Row(o) => journal'[o].same = journal[o].same
  <2> SUFFICES ASSUME NEW o \in Ops, Row(o) PROVE journal'[o].same = journal[o].same
    OBVIOUS
  <2>1. journal[o] \in JournalRow
    BY <1>2, NamesTyped
  <2>2. journal'[o] = journal[o] \/ journal'[o] = [journal[o] EXCEPT !.state = "db_applied"]
    BY <1>1
  <2> QED BY <2>1, <2>2 DEF JournalRow
<1>8. /\ SameRows /\ Unfinished' = Unfinished
      /\ \A o \in Unfinished : /\ o \in Ops /\ o \in {u, d} /\ Committed(o)' /\ ~Pending(o)'
                               /\ (Publishes(o)' <=> Publishes(o)) /\ (Deletes(o)' <=> Deletes(o))
                               /\ Publishes(o) => o = u /\ u # None
                               /\ Deletes(o) => o = d /\ d # None
  <2>1. SameRows
    BY <1>6, <1>7 DEF SameRows
  <2>2. Unfinished' = Unfinished
    <3>1. \A o \in Ops : journal'[o] = None <=> journal[o] = None
      BY <1>6 DEF Row
    <3>2. \A o \in Ops : Row(o) /\ o \in {u, d} => o \in Unfinished
      BY <1>4, OpsAreNot
    <3>3. ASSUME NEW o \in Ops, Row(o) PROVE o \in Unfinished' <=> o \in Unfinished
      BY <1>6, <3>1, <3>2, <3>3 DEF Unfinished, Unused, Row
    <3> QED BY <3>1, <3>3 DEF Unfinished, Unused, Row
  <2>3. ASSUME NEW o \in Unfinished
        PROVE  /\ o \in Ops /\ o \in {u, d} /\ Committed(o)' /\ ~Pending(o)'
               /\ (Publishes(o)' <=> Publishes(o)) /\ (Deletes(o)' <=> Deletes(o))
               /\ Publishes(o) => o = u /\ u # None
               /\ Deletes(o) => o = d /\ d # None
    <3>1. o \in Ops /\ Row(o) /\ o \in {u, d} /\ o # None /\ (Publishes(o) <=> ~Deletes(o))
      BY <1>2, <1>4, OpenRow
    <3>2. Committed(o)' /\ ~Pending(o)'
      BY <1>6, <3>1 DEF Committed, Pending
    <3> QED BY <1>4, <2>1, <3>1, <3>2, RowsAs
  <2> QED BY <2>1, <2>2, <2>3
<1>9. Tables'
  <2>1. OneSetup'
    <3>1. op.key \in Keys /\ request[op.key] # None /\ request[op.key].setup = s
      BY <1>1, <1>2, <1>3, <1>4, AtServing, RecordAssumption DEF Forward, R
    <3> QED BY <1>1, <1>5, <3>1 DEF OneSetup
  <2>2. NotSame'
    BY <1>1, <1>6, <1>7, SteadyFacts DEF NotSame
  <2>3. SoleRows'
    <3>1. \A o \in Unfinished : o \in Ops /\ Row(o)
      BY <1>2, OpenRow
    <3>2. \A o, q \in Unfinished' : journal'[o].kind = journal'[q].kind => o = q
      BY <1>6, <1>8, <3>1, SteadyFacts DEF SoleRows
    <3>3. \A o, q \in Unfinished' : Publishes(o)' /\ Deletes(q)' =>
              /\ journal'[o].expected = None /\ journal'[o].path # journal'[q].path
              /\ Committed(o)' <=> Committed(q)'
      BY <1>6, <1>8, <3>1, SteadyFacts DEF SoleRows
    <3> QED BY <3>2, <3>3 DEF SoleRows
  <2>4. OpenRows'
    <3>1. u # None => InUse(u)'
      BY <1>4, <1>5 DEF InUse
    <3>2. d # None => RowAt(journal[d].path)' = {}
      <4>1. d # None => journal'[d].path = journal[d].path
        BY <1>4, <1>6, OpsAreNot
      <4>2. d # None /\ u # None => journal[d].path # R.path
        BY <1>4, SteadyFacts DEF SoleRows
      <4>3. d # None => \A t \in Setups : row'[t] # None => row'[t].path # journal'[d].path
        BY <1>4, <1>5, <4>1, <4>2
      <4> QED BY <4>3 DEF RowAt
    <3>3. ASSUME NEW o \in Unfinished'
          PROVE  /\ ~Pending(o)'
                 /\ Publishes(o)' => InUse(o)'
                 /\ Deletes(o)' => RowAt(journal[o].path)' = {}
      <4>1. o \in Unfinished
        BY <1>8
      <4>2. Publishes(o)' => InUse(o)'
        BY <1>8, <3>1, <4>1 DEF InUse
      <4>3. Deletes(o)' => RowAt(journal[o].path)' = {}
        BY <1>8, <3>2, <4>1 DEF RowAt
      <4> QED BY <1>8, <4>1, <4>2, <4>3
    <3> QED BY <3>3 DEF OpenRows
  <2>5. Leftovers'
    <3> SUFFICES ASSUME NEW o \in Ops
        PROVE  at'[Guard(o)] = None /\ (at'[Temp(o)] # None \/ at'[Trash(o)] # None => o \in Unfinished')
      BY DEF Leftovers
    <3> QED BY <1>1, <1>4, <1>8, SteadyFacts DEF Leftovers
  <2>6. Prepared'
    BY <1>1, <1>2, <1>6, PlacedFile, SteadyFacts DEF Prepared
  <2>7. Versions'
    <3> SUFFICES ASSUME NEW t \in Setups, row'[t] # None PROVE UpToDate(t)'
      BY DEF Versions
    <3>1. t = s /\ u # None
      BY <1>5
    <3> QED BY <1>1, <1>5, <3>1 DEF UpToDate, Current
  <2> QED BY <2>1, <2>2, <2>3, <2>4, <2>5, <2>6, <2>7 DEF Tables
<1>10. op'.pc = (IF u = None THEN "discard" ELSE "clean") /\ op'.put = u /\ op'.del = d
  BY <1>1, <1>2, <1>3, GotoType DEF Pcs
<1>11. op'.pc \notin Forward /\ ~Removing' /\ Goal' = op'.pc /\ op'.pc \notin Undoing
  BY <1>10 DEF Forward, Removing, Goal, Undoing
<1>12. ForwardCalm' /\ ServingCalm'
  <2>1. u = None => Unfinished \subseteq {d}
    BY <1>4, <1>8, OpsAreNot
  <2>2. \A o \in Ops : at'[Guard(o)] = None
    BY <1>1, <1>4
  <2> QED BY <1>4, <1>8, <1>10, <1>11, <2>1, <2>2 DEF ForwardCalm, ServingCalm
<1> QED BY <1>1, <1>4, <1>9, <1>12, CalmServing

(* With one setup no other has the name. *)
LEMMA AbortCalm ==
    ASSUME Steady, Abort
    PROVE  Calm'
<1>1. op.pc = "commit" /\ op.pc \in Forward
  BY DEF Abort, At, Forward
<1>2. ~Taken
  BY <1>1, ForwardFacts DEF Taken
<1> QED BY <1>2, NoFault DEF Abort

(* The holder lets go of the lock. *)
LEMMA CalmIdle ==
    ASSUME Steady, mode' = "serving", Tables', op' = Idle, Unfinished' = {}
    PROVE  Calm'
<1>1. \A o \in Ops : at'[Guard(o)] = None
  BY DEF Tables, Leftovers
<1>2. op'.pc = "idle" /\ ~Removing' /\ Goal' = "idle"
  BY DEF Idle, Removing, Goal
<1>3. ServingCalm' /\ ForwardCalm'
  BY <1>1, <1>2 DEF ServingCalm, ForwardCalm, Forward, Undoing
<1> QED BY <1>3, CalmServing

LEMMA AfterFacts ==
    ASSUME Steady, op.pc \in After
    PROVE  /\ mode = "serving" /\ op # Idle /\ Settling = {}
           /\ Unfinished \subseteq {op.put, op.del} /\ \A o \in Ops : at[Guard(o)] = None
           /\ op.put # None => op.put \in Ops /\ Row(op.put) /\ Publishes(op.put) /\ Done(op.put) /\ ~Pending(op.put)
           /\ op.del # None => op.del \in Ops /\ Row(op.del) /\ Deletes(op.del) /\ Done(op.del) /\ ~Pending(op.del)
           /\ op.pc \in {"clean", "complete"} => op.put # None
           /\ op.pc \in {"discard", "completeDelete"} => op.del # None
<1>1. mode = "serving" /\ op # Idle
  BY SteadyFacts, AtServing DEF After
<1>2. ~Removing
  BY DEF Removing, After
<1>3. AfterInv
  BY SteadyFacts DEF FilesInv, OpInv
<1>4. /\ op.put # None => Done(op.put)
      /\ op.del # None => Done(op.del)
      /\ op.pc \in {"clean", "complete"} => op.put # None
      /\ op.pc \in {"discard", "completeDelete"} => op.del # None
  BY <1>2, <1>3 DEF AfterInv
<1>5. op.pc # "unlink"
  BY DEF After
<1> QED BY <1>1, <1>4, <1>5, SteadyFacts, HolderRows, ServingFacts DEF Done, Pending

LEMMA CleanCalm ==
    ASSUME Steady, Clean
    PROVE  Calm'
<1>1. /\ op.pc = "clean" /\ op.pc \in After /\ mode' = mode /\ request' = request /\ at' = at /\ stamp' = stamp
      /\ row' = row /\ journal' = journal
      /\ IF journal[op.put].expected = None THEN Goto("complete") ELSE Remove(Temp(op.put), op.put, "complete", "idle")
  BY NoFault DEF Clean, At, disk, rows, After
<1>2. PICK u, x : u = op.put /\ x = Temp(op.put)
  OBVIOUS
<1>3. /\ mode = "serving" /\ u # None /\ u \in Ops /\ Row(u) /\ Publishes(u) /\ ~Pending(u) /\ x \in Places /\ x = Temp(u)
      /\ Settling = {} /\ Settling' = {}
  BY <1>1, <1>2, AfterFacts, PlacesApart DEF Settling
<1>4. Tables' /\ Unfinished' = Unfinished
  BY <1>1, <1>3, SameTables, SameJournal
<1>5. \A o \in Ops : at'[Guard(o)] = None
  BY <1>1, AfterFacts
<1>6. op'.pc \notin Forward => ForwardCalm'
  BY DEF ForwardCalm
<1>7. CASE journal[u].expected = None
  <2>1. op'.pc = "complete" /\ op'.put = u /\ op'.del = op.del
    BY <1>1, <1>2, <1>7, SteadyFacts, GotoType DEF Pcs
  <2>2. ~Removing' /\ Goal' = "complete" /\ op'.pc \notin Forward /\ op'.pc \notin Undoing
    BY <2>1 DEF Removing, Goal, Forward, Undoing
  <2>3. at[x] = None
    BY <1>3, <1>7, SteadyFacts, NamesTyped DEF Store, TempInv
  <2>4. at'[Temp(op'.put)] = None
    BY <1>1, <1>3, <2>1, <2>3
  <2>5. ServingCalm'
    BY <1>1, <1>2, <1>4, <1>5, <2>1, <2>2, <2>4, AfterFacts DEF ServingCalm
  <2> QED BY <1>1, <1>3, <1>4, <1>6, <2>2, <2>5, CalmServing
<1>8. CASE journal[u].expected # None
  <2>1. Remove(x, u, "complete", "idle")
    BY <1>1, <1>2, <1>8 DEF Remove
  <2>2. /\ op'.pc = "remove" /\ op'.put = u /\ op'.del = op.del /\ op'.gc.from = x /\ op'.gc.of = u
        /\ op'.gc.then = "complete" /\ op'.gc.failed = "idle"
    <3>1. PICK t \in Pcs, e \in Pcs : t = "complete" /\ e = "idle"
      BY DEF Pcs
    <3>2. Remove(x, u, t, e)
      BY <2>1, <3>1
    <3> QED BY <1>2, <1>3, <3>1, <3>2, SteadyFacts, RemoveType
  <2>3. Removing' /\ Goal' = "complete" /\ op'.pc \notin Forward /\ op'.pc \notin Undoing
    BY <2>2 DEF Removing, Goal, Forward, Undoing
  <2>4. ServingCalm'
    BY <1>1, <1>2, <1>3, <1>4, <1>5, <2>2, <2>3, AfterFacts DEF ServingCalm
  <2> QED BY <1>1, <1>3, <1>4, <1>6, <2>3, <2>4, CalmServing
<1> QED BY <1>7, <1>8

LEMMA DiscardCalm ==
    ASSUME Steady, Discard
    PROVE  Calm'
<1>1. /\ op.pc = "discard" /\ op.pc \in After /\ mode' = mode /\ request' = request /\ at' = at /\ stamp' = stamp
      /\ row' = row /\ journal' = journal /\ Remove(Trash(op.del), op.del, "completeDelete", "idle")
  BY NoFault DEF Discard, At, disk, rows, After
<1>2. PICK d, x : d = op.del /\ x = Trash(op.del)
  OBVIOUS
<1>3. /\ mode = "serving" /\ d # None /\ d \in Ops /\ x \in Places /\ x = Trash(d)
      /\ Settling = {} /\ Settling' = {}
  BY <1>1, <1>2, AfterFacts, PlacesApart DEF Settling
<1>4. Tables' /\ Unfinished' = Unfinished
  BY <1>1, <1>3, SameTables, SameJournal
<1>5. \A o \in Ops : at'[Guard(o)] = None
  BY <1>1, AfterFacts
<1>6. Remove(x, d, "completeDelete", "idle")
  BY <1>1, <1>2 DEF Remove
<1>7. /\ op'.pc = "remove" /\ op'.put = op.put /\ op'.del = d /\ op'.gc.from = x /\ op'.gc.of = d
      /\ op'.gc.then = "completeDelete" /\ op'.gc.failed = "idle"
  <2>1. PICK t \in Pcs, e \in Pcs : t = "completeDelete" /\ e = "idle"
    BY DEF Pcs
  <2>2. Remove(x, d, t, e)
    BY <1>6, <2>1
  <2> QED BY <1>2, <1>3, <2>1, <2>2, SteadyFacts, RemoveType
<1>8. Removing' /\ Goal' = "completeDelete" /\ op'.pc \notin Forward /\ op'.pc \notin Undoing
  BY <1>7 DEF Removing, Goal, Forward, Undoing
<1>9. Unfinished \subseteq {d}
  <2>1. Goal = "discard"
    BY <1>1 DEF Goal, Removing
  <2> QED BY <1>2, <1>3, <2>1, SteadyFacts DEF ServingCalm
<1>10. ServingCalm' /\ ForwardCalm'
  BY <1>1, <1>2, <1>3, <1>4, <1>5, <1>7, <1>8, <1>9 DEF ServingCalm, ForwardCalm
<1> QED BY <1>1, <1>3, <1>4, <1>10, CalmServing

(* A row is closed when nothing hidden is left of it. *)
LEMMA ClosedTables ==
    ASSUME Steady, NEW o \in Ops, Row(o), NEW st \in {"completed", "failed"}, SetState(o, st),
           at' = at, stamp' = stamp, row' = row, request' = request,
           at[Temp(o)] = None /\ at[Trash(o)] = None /\ at[Guard(o)] = None,
           ~Pending(o) \/ o \in Settling, Settling' = {}
    PROVE  Tables' /\ Unfinished' = Unfinished \ {o}
<1>1. PICK t \in {"intent", "storage_applied", "db_applied", "completed", "failed"} : t = st
  OBVIOUS
<1>2. SetState(o, t)
  BY <1>1
<1>3. /\ \A q \in Ops : (Row(q)' <=> Row(q)) /\ (q # o => journal'[q] = journal[q])
      /\ journal'[o].state = st
      /\ journal'[o].kind = journal[o].kind /\ journal'[o].key = journal[o].key
      /\ journal'[o].path = journal[o].path /\ journal'[o].expected = journal[o].expected
  BY <1>1, <1>2, SteadyFacts, SetStateIs
<1>4. journal'[o].same = journal[o].same /\ journal'[o].prepared = journal[o].prepared
  <2>1. journal'[o] = [journal[o] EXCEPT !.state = st] /\ journal[o] \in JournalRow
    BY SteadyFacts, NamesTyped DEF SetState, TypeOK
  <2> QED BY <2>1 DEF JournalRow
<1>5. SameRows
  BY <1>3, <1>4 DEF SameRows
<1>6. Unfinished' = Unfinished \ {o}
  BY <1>3 DEF Unfinished, Unused, Row
<1>7. Closing
  BY <1>3, <1>6 DEF Closing, Committed, Unfinished
<1>8. \A q \in Unfinished : q \in Unfinished' \/ q = o
  BY <1>6
<1>9. ASSUME NEW q \in Unfinished, Pending(q), q \notin Settling PROVE Pending(q)' /\ q \notin Settling'
  BY <1>3, <1>9, SteadyFacts, OpenRow DEF Pending
<1> QED BY <1>5, <1>6, <1>7, <1>8, <1>9, QuietTables

LEMMA CompleteCalm ==
    ASSUME Steady, Complete
    PROVE  Calm'
<1>1. /\ op.pc = "complete" /\ op.pc \in After /\ mode' = mode /\ request' = request /\ at' = at /\ stamp' = stamp
      /\ row' = row /\ SetState(op.put, "completed") /\ Goto(IF op.del = None THEN "idle" ELSE "discard")
  BY NoFault DEF Complete, At, disk, rows, After
<1>2. PICK u, d : u = op.put /\ d = op.del
  OBVIOUS
<1>3. /\ mode = "serving" /\ u # None /\ u \in Ops /\ Row(u) /\ Publishes(u) /\ ~Pending(u)
      /\ Settling = {} /\ Settling' = {} /\ (\A o \in Ops : at[Guard(o)] = None)
      /\ Unfinished \subseteq {u, d} /\ d \in Ops \cup {None}
  BY <1>1, <1>2, AfterFacts DEF Settling
<1>4. at[Temp(u)] = None /\ at[Trash(u)] = None
  <2>1. Goal = "complete"
    BY <1>1 DEF Goal, Removing
  <2>2. at[Temp(u)] = None
    BY <1>1, <1>2, <1>3, <2>1, SteadyFacts DEF ServingCalm
  <2>3. at[Trash(u)] = None
    BY <1>3, SteadyFacts DEF Store, TrashInv, Publishes, Deletes
  <2> QED BY <2>2, <2>3
<1>5. Tables' /\ Unfinished' = Unfinished \ {u}
  BY <1>1, <1>2, <1>3, <1>4, ClosedTables DEF SetState
<1>6. CASE d = None
  <2>1. op' = Idle
    BY <1>1, <1>2, <1>6 DEF Goto
  <2>2. Unfinished' = {}
    <3>1. Unfinished \subseteq Ops
      BY DEF Unfinished
    <3> QED BY <1>3, <1>5, <1>6, <3>1, OpsAreNot
  <2> QED BY <1>1, <1>3, <1>5, <2>1, <2>2, CalmIdle
<1>7. CASE d # None
  <2>1. op'.pc = "discard" /\ op'.put = u /\ op'.del = d
    BY <1>1, <1>2, <1>7, SteadyFacts, GotoType DEF Pcs
  <2>2. ~Removing' /\ Goal' = "discard" /\ op'.pc \notin Forward /\ op'.pc \notin Undoing
    BY <2>1 DEF Removing, Goal, Forward, Undoing
  <2>3. \A o \in Ops : at'[Guard(o)] = None
    BY <1>1, <1>3
  <2>4. ServingCalm' /\ ForwardCalm'
    BY <1>3, <1>5, <2>1, <2>2, <2>3 DEF ServingCalm, ForwardCalm
  <2> QED BY <1>1, <1>3, <1>5, <2>4, CalmServing
<1> QED BY <1>6, <1>7

LEMMA CompleteDeleteCalm ==
    ASSUME Steady, CompleteDelete
    PROVE  Calm'
<1>1. /\ op.pc = "completeDelete" /\ op.pc \in After /\ mode' = mode /\ request' = request /\ at' = at
      /\ stamp' = stamp /\ row' = row /\ SetState(op.del, "completed") /\ op' = Idle
  BY NoFault DEF CompleteDelete, At, disk, rows, After, Goto
<1>2. PICK d : d = op.del
  OBVIOUS
<1>3. /\ mode = "serving" /\ d # None /\ d \in Ops /\ Row(d) /\ Deletes(d) /\ ~Pending(d)
      /\ Settling = {} /\ Settling' = {} /\ (\A o \in Ops : at[Guard(o)] = None)
  BY <1>1, <1>2, AfterFacts DEF Settling
<1>4. Goal = "completeDelete"
  BY <1>1 DEF Goal, Removing
<1>5. at[Temp(d)] = None /\ at[Trash(d)] = None /\ Unfinished \subseteq {d}
  <2>1. at[Trash(d)] = None /\ Unfinished \subseteq {d}
    BY <1>1, <1>2, <1>3, <1>4, SteadyFacts DEF ServingCalm
  <2>2. at[Temp(d)] = None
    BY <1>3, SteadyFacts DEF Store, TempInv, Publishes, Deletes
  <2> QED BY <2>1, <2>2
<1>6. Tables' /\ Unfinished' = Unfinished \ {d}
  BY <1>1, <1>2, <1>3, <1>5, ClosedTables DEF SetState
<1> QED BY <1>1, <1>3, <1>5, <1>6, CalmIdle

LEMMA FinishCalm ==
    ASSUME Steady, Finish
    PROVE  Calm'
<1>1. /\ op.pc = "finish" /\ mode' = mode /\ request' = request /\ at' = at /\ stamp' = stamp
      /\ row' = row /\ journal' = journal /\ op' = Idle
  BY DEF Finish, At, disk, rows, Goto
<1>2. mode = "serving"
  BY <1>1, SteadyFacts, AtServing
<1>3. Settling = {} /\ Settling' = {}
  BY <1>1, <1>2 DEF Settling
<1>4. Tables' /\ Unfinished' = Unfinished
  BY <1>1, <1>3, SameTables, SameJournal
<1>5. Unfinished = {}
  <2>1. Unfinished \subseteq {None} /\ Unfinished \subseteq Ops
    BY <1>1, <1>2, SteadyFacts DEF ServingCalm, Unfinished
  <2> QED BY <2>1, OpsAreNot
<1> QED BY <1>1, <1>2, <1>4, <1>5, CalmIdle

(* No request is undone. *)
LEMMA NothingUndone ==
    ASSUME Steady, Restore \/ FailDelete \/ Unpublish
    PROVE  Calm'
<1>1. op.pc \in {"restore", "failDelete", "unpublish"}
  BY DEF Restore, FailDelete, Unpublish, At
<1>2. mode = "serving"
  BY <1>1, SteadyFacts, AtServing DEF Undoing
<1> QED BY <1>1, <1>2, SteadyFacts DEF ServingCalm, Undoing

-----------------------------------------------------------------------------
(* removeRegularExpected, in a request or in recovery. *)

(* The row that recovery is at. *)
LEMMA RecoveredFacts ==
    ASSUME Steady, mode = "recovering", op.pc \notin {"recover", "refuse"}
    PROVE  /\ Recovered \in Ops /\ Recovered # None /\ Recovered \in Unfinished /\ Row(Recovered)
           /\ Publishes(Recovered) => op.put = Recovered /\ op.del = None
           /\ Deletes(Recovered) => op.del = Recovered /\ op.put = None
           /\ op.put # None => op.put = Recovered /\ Publishes(Recovered)
           /\ op.del # None => op.del = Recovered /\ Deletes(Recovered)
           /\ {op.put, op.del} = {Recovered, None}
<1>1. \/ op.put \in Ops /\ op.put # None /\ op.del = None /\ Publishes(op.put) /\ op.put \in Unfinished
      \/ op.del \in Ops /\ op.put = None /\ op.del # None /\ Deletes(op.del) /\ op.del \in Unfinished
  BY SteadyFacts, StartRow
<1> QED BY <1>1 DEF Recovered, Publishes, Deletes

(* What is moved aside is what recovery discards. *)
LEMMA RemovedFile ==
    ASSUME TypeOK, Store, NEW x \in Places, NEW g \in Ops, Removable(x, g), at[x] # None, g \in Unfinished
    PROVE  at[x] = Discards(g) /\ (Deletes(g) => Committed(g))
<1>1. (Publishes(g) <=> ~Deletes(g)) /\ (Publishes(g) <=> journal[g].kind = "publish") /\ (Pending(g) <=> ~Committed(g))
  BY OpenRow
<1>2. Done(g) => ~Pending(g)
  BY DEF Done, Pending
<1>3. CASE x = Trash(g) /\ Deletes(g) /\ Done(g)
  BY <1>1, <1>2, <1>3 DEF Store, TrashInv, Discards
<1> QED BY <1>1, <1>2, <1>3 DEF Removable, Discards

LEMMA MoveAsideCalm ==
    ASSUME Steady, MoveAside
    PROVE  Calm'
<1>1. /\ op.pc = "remove" /\ mode' = mode /\ request' = request /\ row' = row /\ journal' = journal
      /\ Rename(op.gc.from, Guard(op.gc.of)) /\ op' = [op EXCEPT !.pc = "unlink"]
  BY NoFault DEF MoveAside, At, rows
<1>2. PICK x, g, c : x = op.gc.from /\ g = op.gc.of /\ c = op.gc
  OBVIOUS
<1>3. Removing /\ op.gc # None /\ (mode = "serving" \/ mode = "recovering")
  BY <1>1, SteadyFacts DEF FilesInv, OpInv, ModeInv, Removing, Idle, TypeOK
<1>4. x \in Places /\ g \in Ops /\ Removable(x, g)
  BY <1>1, <1>2, <1>3, SteadyFacts, OpType DEF FilesInv, OpInv, RemovalInv
<1>5. Guard(g) \in Places /\ x # Guard(g) /\ (at[x] # None => ~InUse(at[x]))
  BY <1>4, SteadyFacts, RemovableFacts, PlacesApart
<1>6. /\ at'[x] = None /\ at'[Guard(g)] = at[x] /\ \A z \in Places : z # x /\ z # Guard(g) => at'[z] = at[z]
      /\ \A f \in Ops : f # at[x] => stamp'[f] = stamp[f]
  <2>1. Rename(x, Guard(g))
    BY <1>1, <1>2 DEF Rename
  <2> QED BY <1>4, <1>5, <2>1, SteadyFacts, RenameAt, RenameStamp
<1>7. op'.pc = "unlink" /\ op'.put = op.put /\ op'.del = op.del /\ op'.gc = c
  BY <1>1, <1>2, SteadyFacts, OpType DEF Op, Pcs
<1>8. Settling = {} /\ Settling' = {} /\ Unfinished' = Unfinished
  BY <1>1, <1>7, SameJournal DEF Settling
<1>9. at[x] # None => g \in Unfinished
  <2>1. CASE mode = "serving"
    <3>1. x = Temp(g) \/ x = Trash(g)
      BY <1>2, <1>3, <2>1, SteadyFacts DEF ServingCalm
    <3> QED BY <1>4, <3>1, SteadyFacts DEF Leftovers
  <2>2. CASE mode = "recovering"
    BY <1>1, <1>2, <1>3, <2>2, RecoveredFacts, SteadyFacts DEF RecoveryCalm
  <2> QED BY <1>3, <2>1, <2>2
<1>10. Leftovers'
  <2> SUFFICES ASSUME NEW o \in Ops
      PROVE  /\ at'[Temp(o)] # None \/ at'[Trash(o)] # None \/ at'[Guard(o)] # None => o \in Unfinished'
             /\ at'[Guard(o)] # None => at'[Guard(o)] = Discards(o)' /\ (Deletes(o)' => Committed(o)')
    BY DEF Leftovers
  <2>1. /\ at'[Temp(o)] # None => at[Temp(o)] # None
        /\ at'[Trash(o)] # None => at[Trash(o)] # None
        /\ o # g => (at'[Guard(o)] # None => at'[Guard(o)] = at[Guard(o)])
    BY <1>4, <1>6, PlacesApart
  <2>2. Discards(o)' = Discards(o) /\ (Committed(o)' <=> Committed(o)) /\ (Deletes(o)' <=> Deletes(o))
    BY <1>1, SameJournal DEF Deletes, Row
  <2>3. CASE o # g
    BY <1>8, <2>1, <2>2, <2>3, SteadyFacts DEF Leftovers
  <2>4. CASE o = g
    <3>1. at[x] # None => at[x] = Discards(o) /\ (Deletes(o) => Committed(o)) /\ o \in Unfinished
      BY <1>4, <1>9, <2>4, SteadyFacts, RemovedFile
    <3>2. at'[Guard(o)] = at[x]
      BY <1>6, <2>4
    <3> QED BY <1>8, <2>1, <2>2, <3>1, <3>2, SteadyFacts DEF Leftovers
  <2> QED BY <2>3, <2>4
<1>11. Tables'
  <2>1. ASSUME NEW s \in Setups, row[s] # None
        PROVE  stamp'[row[s].version.file] = stamp[row[s].version.file]
    <3>1. row[s].version.file \in Ops /\ row[s].version.file # None /\ InUse(row[s].version.file)
      BY <2>1, SteadyFacts, RowFile
    <3> QED BY <1>5, <1>6, <3>1
  <2>2. \A z \in Places : at'[z] # None => \E v \in Places : at'[z] = at[v] \/ journal[at'[z]].prepared
    BY <1>4, <1>6
  <2> QED BY <1>1, <1>8, <1>10, <2>1, <2>2, MovedTables
<1>12. op'.pc \notin Forward /\ op'.pc \notin Undoing /\ Removing' /\ Goal' = c.then /\ Goal = c.then
  BY <1>1, <1>2, <1>7 DEF Forward, Undoing, Removing, Goal
<1>13. CASE mode = "serving"
  <2>1. /\ c.failed = "idle"
        /\ \/ c.then = "complete" /\ g = op.put /\ x = Temp(op.put)
           \/ c.then = "completeDelete" /\ g = op.del /\ x = Trash(op.del)
    BY <1>2, <1>3, <1>13, SteadyFacts DEF ServingCalm
  <2>2. \A o \in Ops : at[Guard(o)] = None
    BY <1>1, <1>13, ServingFacts
  <2>3. \A o \in Ops : at'[Guard(o)] # None => o = g
    BY <1>4, <1>5, <1>6, <2>2, PlacesApart
  <2>4. /\ c.then = "complete" => at'[Temp(op.put)] = None
        /\ c.then = "completeDelete" => at'[Trash(op.del)] = None
    BY <1>6, <2>1
  <2>5. /\ Unfinished \subseteq {op.put, op.del}
        /\ c.then = "completeDelete" => Unfinished \subseteq {op.del}
    BY <1>12, <1>13, SteadyFacts DEF ServingCalm
  <2>6. ServingCalm'
    BY <1>2, <1>7, <1>8, <1>12, <2>1, <2>3, <2>4, <2>5 DEF ServingCalm
  <2>7. ForwardCalm'
    BY <1>12 DEF ForwardCalm
  <2> QED BY <1>1, <1>11, <1>13, <2>6, <2>7, CalmServing
<1>14. CASE mode = "recovering"
  <2>1. PICK r : r = Recovered
    OBVIOUS
  <2>2. Recovered' = r /\ r \in Ops /\ r \in Unfinished
    BY <1>1, <1>7, <1>14, <2>1, RecoveredFacts DEF Recovered
  <2>3. /\ g = r /\ x \in {Temp(r), Trash(r), Target(r)}
        /\ at[Temp(r)] # None => x = Temp(r)
        /\ at[Trash(r)] # None => x = Trash(r)
        /\ c.then = "settle" /\ op.put # None => journal[op.put].expected = None
        /\ op.del # None => Done(op.del)
    BY <1>1, <1>2, <1>3, <1>14, <2>1, SteadyFacts DEF RecoveryCalm
  <2>4. at'[Temp(r)] = None /\ at'[Trash(r)] = None
    BY <1>4, <1>6, <2>2, <2>3, PlacesApart
  <2>5. Target(r)' = Target(r) /\ (op.del # None => Done(op.del)')
    BY <1>1, <2>3 DEF Target, Done, Row
  <2>6. RecoveryCalm'
    BY <1>1, <1>2, <1>7, <2>2, <2>3, <2>4, <2>5 DEF RecoveryCalm
  <2> QED BY <1>1, <1>7, <1>11, <1>14, <2>6, CalmRecovering
<1> QED BY <1>3, <1>13, <1>14

LEMMA UnlinkCalm ==
    ASSUME Steady, Unlink
    PROVE  Calm'
<1>1. /\ op.pc = "unlink" /\ mode' = mode /\ request' = request /\ row' = row /\ journal' = journal /\ stamp' = stamp
      /\ Unlinked /\ Goto(op.gc.then)
  BY NoFault DEF Unlink, At, rows
<1>2. PICK g, c, t : g = op.gc.of /\ c = op.gc /\ t = op.gc.then
  OBVIOUS
<1>3. Removing /\ op.gc # None /\ (mode = "serving" \/ mode = "recovering") /\ RemovalInv
  BY <1>1, SteadyFacts DEF FilesInv, OpInv, ModeInv, Removing, Idle, TypeOK
<1>4. g \in Ops /\ t \in Pcs /\ Guard(g) \in Places
  BY <1>2, <1>3, SteadyFacts, OpType, PlacesApart
<1>5. at'[Guard(g)] = None /\ \A z \in Places : z # Guard(g) => at'[z] = at[z]
  BY <1>1, <1>2, <1>4, SteadyFacts DEF Unlinked, TypeOK
<1>6. \A o \in Ops : /\ at'[Temp(o)] = at[Temp(o)] /\ at'[Trash(o)] = at[Trash(o)]
                     /\ o # g => at'[Guard(o)] = at[Guard(o)]
  BY <1>4, <1>5, PlacesApart
<1>7. Unfinished' = Unfinished /\ Settling = {}
  BY <1>1, SameJournal DEF Settling
<1>8. Leftovers'
  <2> SUFFICES ASSUME NEW o \in Ops
      PROVE  /\ at'[Temp(o)] # None \/ at'[Trash(o)] # None \/ at'[Guard(o)] # None => o \in Unfinished'
             /\ at'[Guard(o)] # None => at'[Guard(o)] = Discards(o)' /\ (Deletes(o)' => Committed(o)')
    BY DEF Leftovers
  <2>1. Discards(o)' = Discards(o) /\ (Committed(o)' <=> Committed(o)) /\ (Deletes(o)' <=> Deletes(o))
    BY <1>1, SameJournal DEF Deletes, Row
  <2> QED BY <1>5, <1>6, <1>7, <2>1, SteadyFacts DEF Leftovers
<1>9. ASSUME \A o \in Unfinished : Pending(o) /\ journal[o].expected # None => o \notin Settling'
      PROVE  Tables'
  <2>1. \A z \in Places : at'[z] # None => \E v \in Places : at'[z] = at[v] \/ journal[at'[z]].prepared
    BY <1>5
  <2> QED BY <1>1, <1>8, <1>9, <2>1, MovedTables
<1>10. CASE mode = "serving"
  <2>1. \/ t = "complete" /\ g = op.put
        \/ t = "completeDelete" /\ g = op.del
    BY <1>2, <1>3, <1>10, SteadyFacts DEF ServingCalm
  <2>2. op'.pc = t /\ op'.put = op.put /\ op'.del = op.del
    BY <1>1, <1>2, <1>4, <2>1, SteadyFacts, GotoType
  <2>3. /\ op'.pc \notin Forward /\ op'.pc \notin Undoing /\ ~Removing' /\ Goal' = t /\ Goal = t
    BY <1>2, <1>3, <2>1, <2>2 DEF Forward, Undoing, Removing, Goal
  <2>4. \A o \in Ops : at[Guard(o)] # None => o = g
    BY <1>2, <1>10, SteadyFacts DEF ServingCalm
  <2>5. \A o \in Ops : at'[Guard(o)] = None
    BY <1>5, <1>6, <2>4
  <2>6. /\ Unfinished \subseteq {op.put, op.del}
        /\ t = "completeDelete" => Unfinished \subseteq {op.del}
        /\ t = "complete" => at[Temp(op.put)] = None
        /\ t = "completeDelete" => at[Trash(op.del)] = None
    BY <1>1, <1>10, <2>3, SteadyFacts DEF ServingCalm
  <2>7. /\ t = "complete" => at'[Temp(op.put)] = None
        /\ t = "completeDelete" => at'[Trash(op.del)] = None
    BY <1>4, <1>6, <2>1, <2>6
  <2>8. ServingCalm'
    BY <1>7, <2>1, <2>2, <2>3, <2>5, <2>6, <2>7 DEF ServingCalm
  <2>9. ForwardCalm' /\ Settling' = {}
    BY <1>1, <1>10, <2>3 DEF ForwardCalm, Settling
  <2> QED BY <1>1, <1>9, <1>10, <2>8, <2>9, CalmServing
<1>11. CASE mode = "recovering"
  <2>1. t \in {"unpublished", "settle"}
    BY <1>2, <1>3, <1>11 DEF RemovalInv
  <2>2. op'.pc = t /\ op'.put = op.put /\ op'.del = op.del
    BY <1>1, <1>2, <1>4, <2>1, SteadyFacts, GotoType
  <2>3. PICK r : r = Recovered
    OBVIOUS
  <2>4. Recovered' = r /\ r \in Ops /\ {op.put, op.del} = {r, None}
    BY <1>1, <1>11, <2>2, <2>3, RecoveredFacts DEF Recovered
  <2>5. /\ g = r /\ at[Temp(r)] = None /\ at[Trash(r)] = None
        /\ t = "settle" /\ op.put # None => journal[op.put].expected = None
        /\ op.del # None => Done(op.del)
    BY <1>1, <1>2, <1>3, <1>11, <2>3, SteadyFacts DEF RecoveryCalm
  <2>6. at'[Temp(r)] = None /\ at'[Trash(r)] = None /\ at'[Guard(r)] = None
    BY <1>5, <1>6, <2>4, <2>5
  <2>7. RecoveryCalm' /\ op'.pc # "refuse"
    BY <2>1, <2>2, <2>4, <2>6 DEF RecoveryCalm, Removing
  <2>8. ASSUME NEW o \in Unfinished, Pending(o), journal[o].expected # None PROVE o \notin Settling'
    <3>1. o \in Ops /\ o # None /\ ~Done(o)
      BY <2>8, SteadyFacts, OpenRow DEF Pending, Done
    <3> QED BY <2>1, <2>2, <2>5, <2>8, <3>1 DEF Settling
  <2> QED BY <1>1, <1>9, <1>11, <2>7, <2>8, CalmRecovering
<1> QED BY <1>3, <1>10, <1>11

-----------------------------------------------------------------------------
(* The recovery. *)

LEMMA RecoverCalm ==
    ASSUME Steady, NEW o \in Ops, Recover(o)
    PROVE  Calm'
<1>1. /\ op.pc = "recover" /\ mode' = mode /\ request' = request /\ row' = row /\ journal' = journal /\ stamp' = stamp
      /\ o \in Unfinished
  BY DEF Recover, At, rows, Due
<1>2. mode = "recovering"
  BY <1>1, SteadyFacts DEF FilesInv, OpInv, ModeInv, Idle, Holding, Forward, Undoing, After, TypeOK
<1>3. /\ o # None /\ Row(o) /\ Guard(o) \in Places /\ (Publishes(o) <=> ~Deletes(o))
      /\ (Publishes(o) <=> journal[o].kind = "publish") /\ journal[o].kind \in {"publish", "delete"}
  BY <1>1, SteadyFacts, OpenRow DEF JournalRow
<1>4. at[Guard(o)] = None \/ (at[Guard(o)] = Discards(o) /\ (journal[o].kind = "delete" => Committed(o)))
  BY <1>3, SteadyFacts DEF Leftovers, Deletes
<1>5. PICK u, d : /\ u = (IF journal[o].kind = "publish" THEN o ELSE None)
                  /\ d = (IF journal[o].kind = "delete" THEN o ELSE None)
  OBVIOUS
<1>6. op' = [op EXCEPT !.pc = "classify", !.put = u, !.del = d]
  BY <1>4, <1>5 DEF Recover
<1>7. op'.pc = "classify" /\ op'.put = u /\ op'.del = d
  BY <1>6, SteadyFacts, OpType DEF Op, Pcs
<1>8. at' = [at EXCEPT ![Guard(o)] = None]
  BY <1>7 DEF Recover
<1>9. /\ at'[Guard(o)] = None /\ \A z \in Places : z # Guard(o) => at'[z] = at[z]
      /\ \A q \in Ops : /\ at'[Temp(q)] = at[Temp(q)] /\ at'[Trash(q)] = at[Trash(q)]
                        /\ q # o => at'[Guard(q)] = at[Guard(q)]
  BY <1>3, <1>8, SteadyFacts, PlacesApart DEF TypeOK
<1>10. Unfinished' = Unfinished /\ Settling' = {}
  BY <1>1, <1>7, SameJournal DEF Settling
<1>11. Leftovers'
  <2> SUFFICES ASSUME NEW q \in Ops
      PROVE  /\ at'[Temp(q)] # None \/ at'[Trash(q)] # None \/ at'[Guard(q)] # None => q \in Unfinished'
             /\ at'[Guard(q)] # None => at'[Guard(q)] = Discards(q)' /\ (Deletes(q)' => Committed(q)')
    BY DEF Leftovers
  <2>1. Discards(q)' = Discards(q) /\ (Committed(q)' <=> Committed(q)) /\ (Deletes(q)' <=> Deletes(q))
    BY <1>1, SameJournal DEF Deletes, Row
  <2> QED BY <1>9, <1>10, <2>1, SteadyFacts DEF Leftovers
<1>12. Tables'
  <2>1. \A z \in Places : at'[z] # None => \E v \in Places : at'[z] = at[v] \/ journal[at'[z]].prepared
    BY <1>9
  <2> QED BY <1>1, <1>10, <1>11, <2>1, MovedTables
<1>13. Recovered' = o
  BY <1>3, <1>5, <1>7 DEF Recovered
<1>14. RecoveryCalm'
  BY <1>7, <1>9, <1>13 DEF RecoveryCalm, Removing
<1> QED BY <1>1, <1>2, <1>7, <1>12, <1>14, CalmRecovering

LEMMA ClassifyFacts ==
    ASSUME Steady, op.pc = "classify"
    PROVE  /\ mode = "recovering" /\ Settling = {} /\ at[Guard(Recovered)] = None
           /\ Recovered \in Ops /\ Recovered # None /\ Recovered \in Unfinished /\ Row(Recovered)
           /\ op.put # None => op.put = Recovered /\ Publishes(Recovered) /\ op.del = None
           /\ op.del # None => op.del = Recovered /\ Deletes(Recovered) /\ op.put = None
<1>1. mode = "recovering"
  BY SteadyFacts DEF FilesInv, OpInv, ModeInv, Idle, Holding, Forward, Undoing, After, TypeOK
<1> QED BY <1>1, RecoveredFacts, SteadyFacts DEF RecoveryCalm, Settling

(* The next step of recovery after a row was classified. *)
LEMMA Classified ==
    ASSUME Steady, op.pc = "classify", mode' = mode, NEW o \in Ops, o = Recovered, NEW t \in {"unpublished", "settle", "restored"},
           NEW x \in {Temp(o), Trash(o), Target(o)},
           at'[Guard(o)] = None,
           \/ Goto(t) /\ at'[Temp(o)] = None /\ at'[Trash(o)] = None
           \/ /\ Remove(x, o, t, "refuse")
              /\ at'[Temp(o)] # None => x = Temp(o)
              /\ at'[Trash(o)] # None => x = Trash(o)
              /\ t = "settle" /\ op.put # None => journal[o].expected = None
              /\ op.del # None => Done(o),
           journal' = journal,
           Tables'
    PROVE  Calm'
<1>1. mode = "recovering" /\ Row(o) /\ (op.put # None => op.put = o) /\ (op.del # None => op.del = o)
  BY ClassifyFacts
<1>2. x \in Places /\ t \in Pcs /\ "refuse" \in Pcs /\ Target(o)' = Target(o)
  BY <1>1, SteadyFacts, NamesTyped, PlacesApart DEF Pcs, Target
<1>3. CASE Goto(t) /\ at'[Temp(o)] = None /\ at'[Trash(o)] = None
  <2>1. op'.pc = t /\ op'.put = op.put /\ op'.del = op.del
    BY <1>2, <1>3, SteadyFacts, GotoType
  <2>2. Recovered' = o
    BY <2>1 DEF Recovered
  <2>3. RecoveryCalm' /\ op'.pc # "refuse"
    BY <1>3, <2>1, <2>2 DEF RecoveryCalm, Removing
  <2> QED BY <1>1, <2>3, CalmRecovering
<1>4. CASE /\ Remove(x, o, t, "refuse")
           /\ at'[Temp(o)] # None => x = Temp(o)
           /\ at'[Trash(o)] # None => x = Trash(o)
           /\ t = "settle" /\ op.put # None => journal[o].expected = None
           /\ op.del # None => Done(o)
  <2>1. PICK e \in Pcs : e = "refuse"
    BY <1>2
  <2>2. Remove(x, o, t, e)
    BY <1>4, <2>1
  <2>3. /\ op'.pc = "remove" /\ op'.put = op.put /\ op'.del = op.del /\ op'.gc.from = x /\ op'.gc.of = o
        /\ op'.gc.then = t
    BY <1>2, <2>2, SteadyFacts, RemoveType
  <2>4. Recovered' = o /\ (Done(o)' <=> Done(o))
    BY <2>3, SameJournal DEF Recovered
  <2>5. RecoveryCalm'
    <3>1. op'.put # None => op'.put = o
      BY <1>1, <2>3
    <3>2. op'.del # None => Done(op.del)'
      <4>1. op'.del # None => op'.del = o /\ Done(o)'
        BY <1>1, <1>4, <2>3, <2>4
      <4> QED BY <4>1 DEF Done, Row
    <3>3. journal'[o] = journal[o] /\ op.put = op'.put
      BY <2>3
    <3> QED BY <1>2, <1>4, <2>3, <2>4, <3>1, <3>2, <3>3 DEF RecoveryCalm
  <2> QED BY <1>1, <2>3, <2>5, CalmRecovering
<1> QED BY <1>3, <1>4

LEMMA RecoverPublicationCalm ==
    ASSUME Steady, RecoverPublication
    PROVE  Calm'
<1>1. op.pc = "classify" /\ mode' = mode /\ request' = request /\ row' = row /\ journal' = journal /\ op.put # None
  BY DEF RecoverPublication, At, rows
<1>2. PICK o, x, y : o = op.put /\ x = Temp(op.put) /\ y = Target(op.put)
  OBVIOUS
<1>3. /\ mode = "recovering" /\ Settling = {} /\ at[Guard(o)] = None /\ o \in Ops /\ o # None /\ o \in Unfinished
      /\ Row(o) /\ o = Recovered /\ Publishes(o) /\ op.del = None
      /\ x \in Places /\ x = Temp(o) /\ y \in Places /\ y = Target(o) /\ x # y
      /\ Trash(o) \in Places /\ Guard(o) \in Places /\ x # Trash(o) /\ x # Guard(o)
      /\ y # Trash(o) /\ y # Guard(o) /\ (Pending(o) <=> ~Committed(o)) /\ Unfinished' = Unfinished
  BY <1>1, <1>2, ClassifyFacts, SteadyFacts, OpenRow, PlacesApart, SameJournal
<1>4. at[Trash(o)] = None
  BY <1>3, SteadyFacts DEF Store, TrashInv, Publishes, Deletes
<1>5. ~journal[o].same /\ (\A z \in Places : at[z] # None => journal[at[z]].prepared)
  BY <1>3, SteadyFacts DEF NotSame, Prepared
<1>6. /\ journal[o].expected = None => OldFile(o) = None
      /\ journal[o].expected # None => OldFile(o) # None /\ OldFile(o) # o /\ OldFile(o) \in Ops
  <2>1. CASE journal[o].expected = None
    BY <2>1 DEF OldFile
  <2>2. CASE journal[o].expected # None
    <3>1. OldFile(o) # None /\ OldFile(o) \in Ops /\ ~Pending(OldFile(o)) /\ (Done(o) => ~InUse(OldFile(o)))
      BY <1>3, <2>2, SteadyFacts, OldFileIs
    <3>2. OldFile(o) # o
      BY <1>3, <3>1, SteadyFacts DEF Committed, Done, OpenRows
    <3> QED BY <2>2, <3>1, <3>2
  <2> QED BY <2>1, <2>2
<1>7. /\ Committed(o) => at[y] = o /\ at[x] \in {None, OldFile(o)} /\ at[x] # o
      /\ ~Committed(o) /\ journal[o].expected = None => at[y] \in {None, o} /\ at[x] \in {None, o}
      /\ ~Committed(o) /\ journal[o].expected # None =>
            \/ at[y] = OldFile(o) /\ at[x] \in {None, o}
            \/ at[y] = o /\ at[x] = OldFile(o)
  <2>1. Committed(o) => at[y] = o /\ at[x] \in {None, OldFile(o)} /\ at[x] # o
    BY <1>3, SteadyFacts, CommittedPut
  <2>2. ~Committed(o) => /\ journal[o].expected = None => at[y] \in {None, o}
                         /\ journal[o].expected # None =>
                               \/ at[y] = OldFile(o) /\ at[x] \in {None, o}
                               \/ at[y] = o /\ at[x] = OldFile(o)
    BY <1>3, SteadyFacts, PendingPut
  <2>3. at[x] \in {None, o, OldFile(o)}
    BY <1>3, SteadyFacts DEF Store, TempInv
  <2> QED BY <1>6, <2>1, <2>2, <2>3
<1>8. ~(at[x] = o /\ at[y] = o)
  BY <1>3, SteadyFacts, PlacedFile
<1>9. /\ TargetOld(o) <=> at[y] # None /\ at[y] = OldFile(o)
      /\ TargetNew(o) <=> at[y] = o
  <2>1. at[y] = o => journal[o].prepared
    BY <1>3, <1>5
  <2> QED BY <1>3, <1>5, <2>1 DEF TargetOld, TargetNew
<1>10. Recognised(o)
  <2>1. at[x] = o => journal[o].prepared
    BY <1>3, <1>5
  <2>2. x = Temp(o) /\ y = Target(o)
    BY <1>3
  <2> QED BY <1>6, <1>7, <1>8, <1>9, <2>1, <2>2 DEF Recognised
<1>11. ASSUME NEW t \in {"unpublished", "settle"}, UNCHANGED disk,
              \/ at[x] = None /\ Goto(t)
              \/ at[x] # None /\ Remove(x, o, t, "refuse")
              \/ at[x] = None /\ Remove(y, o, t, "refuse"),
              t = "settle" => journal[o].expected = None
       PROVE  Calm'
  <2>1. at' = at /\ stamp' = stamp
    BY <1>11 DEF disk
  <2>2. op'.put = o /\ op'.del = None /\ op'.pc \in {t, "remove"}
    <3>1. PICK e \in Pcs : e = "refuse"
      BY DEF Pcs
    <3>2. t \in Pcs /\ t # "idle"
      BY DEF Pcs
    <3>3. CASE Goto(t)
      <4>1. op'.pc = t /\ op'.put = op.put /\ op'.del = op.del
        BY <3>2, <3>3, SteadyFacts, GotoType
      <4> QED BY <1>2, <1>3, <4>1
    <3>4. CASE \E z \in {x, y} : Remove(z, o, t, e)
      <4>1. PICK z \in {x, y} : Remove(z, o, t, e)
        BY <3>4
      <4>2. op'.pc = "remove" /\ op'.put = op.put /\ op'.del = op.del
        BY <1>3, <3>1, <3>2, <4>1, SteadyFacts, RemoveType
      <4> QED BY <1>2, <1>3, <4>2
    <3> QED BY <1>11, <3>1, <3>3, <3>4
  <2>3. \A q \in Unfinished : journal[q].expected # None => q \notin Settling'
    <3>1. Settling' # {} => op'.pc = "settle" \/ op'.pc = "close"
      BY DEF Settling
    <3>2. Settling' \subseteq {o, None}
      BY <2>2 DEF Settling
    <3>3. \A q \in Unfinished : q # None
      BY SteadyFacts, OpenRow
    <3> QED BY <1>11, <2>2, <3>1, <3>2, <3>3
  <2>4. Tables'
    BY <1>1, <2>1, <2>3, SameTables
  <2>5. PICK z \in {Temp(o), Trash(o), Target(o)} : z = IF at[x] = None THEN y ELSE x
    BY <1>3
  <2> QED BY <1>1, <1>3, <1>4, <1>11, <2>1, <2>4, <2>5, Classified
<1>12. CASE /\ Recognised(op.put) /\ Committed(op.put) /\ UNCHANGED disk
            /\ IF at[Temp(op.put)] = None THEN Goto("unpublished") ELSE Remove(Temp(op.put), op.put, "unpublished", "refuse")
  <2>1. IF at[x] = None THEN Goto("unpublished") ELSE Remove(x, o, "unpublished", "refuse")
    BY <1>2, <1>12 DEF Remove
  <2>2. PICK t \in {"unpublished", "settle"} : t = "unpublished"
    OBVIOUS
  <2> QED BY <1>11, <1>12, <2>1, <2>2
<1>13. CASE /\ Recognised(op.put) /\ ~Committed(op.put) /\ TargetOld(op.put) /\ UNCHANGED disk
            /\ IF at[Temp(op.put)] = None THEN Goto("unpublished") ELSE Remove(Temp(op.put), op.put, "unpublished", "refuse")
  <2>1. IF at[x] = None THEN Goto("unpublished") ELSE Remove(x, o, "unpublished", "refuse")
    BY <1>2, <1>13 DEF Remove
  <2>2. PICK t \in {"unpublished", "settle"} : t = "unpublished"
    OBVIOUS
  <2> QED BY <1>11, <1>13, <2>1, <2>2
<1>14. CASE /\ Recognised(op.put) /\ ~Committed(op.put) /\ at[Target(op.put)] = None /\ UNCHANGED disk
            /\ IF at[Temp(op.put)] = None THEN Goto("settle") ELSE Remove(Temp(op.put), op.put, "settle", "refuse")
  <2>1. IF at[x] = None THEN Goto("settle") ELSE Remove(x, o, "settle", "refuse")
    BY <1>2, <1>14 DEF Remove
  <2>2. journal[o].expected = None
    BY <1>2, <1>3, <1>6, <1>7, <1>14
  <2>3. PICK t \in {"unpublished", "settle"} : t = "settle"
    OBVIOUS
  <2> QED BY <1>11, <1>14, <2>1, <2>2, <2>3
<1>15. CASE /\ Recognised(op.put) /\ ~Committed(op.put) /\ TargetNew(op.put) /\ UndoExposure(op.put)
            /\ UndoRemoval(op.put, IF OldFile(op.put) = None THEN "settle" ELSE "unpublished", "refuse")
  <2>1. ~Committed(o) /\ at[y] = o
    BY <1>2, <1>9, <1>15
  <2>2. CASE journal[o].expected = None
    <3>1. UNCHANGED disk /\ Remove(y, o, "settle", "refuse")
      BY <1>2, <1>3, <1>6, <1>15, <2>2 DEF UndoExposure, UndoRemoval, Remove
    <3>2. at[x] = None
      BY <1>7, <1>8, <2>1, <2>2
    <3>3. PICK t \in {"unpublished", "settle"} : t = "settle"
      OBVIOUS
    <3> QED BY <1>11, <2>2, <3>1, <3>2, <3>3
  <2>3. CASE journal[o].expected # None
    <3>1. Exchange(x, y) /\ Remove(x, o, "unpublished", "refuse")
      BY <1>2, <1>3, <1>6, <1>15, <2>3 DEF UndoExposure, UndoRemoval, Exchange, Remove
    <3>2. at[x] = OldFile(o) /\ OldFile(o) # None
      BY <1>6, <1>7, <2>1, <2>3
    <3>3. /\ at'[x] = o /\ at'[y] = OldFile(o) /\ \A z \in Places : z # x /\ z # y => at'[z] = at[z]
          /\ \A f \in Ops : f # o /\ f # OldFile(o) => stamp'[f] = stamp[f]
      BY <1>3, <2>1, <3>1, <3>2, SteadyFacts, ExchangeAt, ExchangeStamp
    <3>4. op'.pc = "remove" /\ Settling' = {}
      BY <3>1, SteadyFacts, OpType DEF Remove, Op, Settling
    <3>5. \A q \in Ops : /\ at'[Trash(q)] = at[Trash(q)] /\ at'[Guard(q)] = at[Guard(q)]
                         /\ q # o => at'[Temp(q)] = at[Temp(q)]
      BY <1>3, <3>3, SteadyFacts, OpenRow, PlacesApart
    <3>6. Leftovers'
      <4> SUFFICES ASSUME NEW q \in Ops
          PROVE  /\ at'[Temp(q)] # None \/ at'[Trash(q)] # None \/ at'[Guard(q)] # None => q \in Unfinished'
                 /\ at'[Guard(q)] # None => at'[Guard(q)] = Discards(q)' /\ (Deletes(q)' => Committed(q)')
        BY DEF Leftovers
      <4>1. Discards(q)' = Discards(q) /\ (Committed(q)' <=> Committed(q)) /\ (Deletes(q)' <=> Deletes(q))
        BY <1>1, SameJournal DEF Deletes, Row
      <4> QED BY <1>3, <3>5, <4>1, SteadyFacts DEF Leftovers
    <3>7. Tables'
      <4>1. ASSUME NEW s \in Setups, row[s] # None
            PROVE  \/ stamp'[row[s].version.file] = stamp[row[s].version.file]
                   \/ \E q \in Unfinished : Rereads(q, s)'
        <5>1. row[s].version.file \in Ops /\ row[s].version.file # o
          BY <1>3, <2>1, <4>1, SteadyFacts, RowFile
        <5>2. CASE row[s].version.file = OldFile(o)
          BY <1>1, <1>3, <2>1, <3>4, <5>2 DEF Rereads, Pending, Row, OldFile
        <5> QED BY <3>3, <5>1, <5>2
      <4>2. \A z \in Places : at'[z] # None => \E v \in Places : at'[z] = at[v] \/ journal[at'[z]].prepared
        BY <1>3, <2>1, <3>2, <3>3
      <4> QED BY <1>1, <3>4, <3>6, <4>1, <4>2, MovedTables
    <3>8. PICK t \in {"unpublished", "settle", "restored"} : t = "unpublished"
      OBVIOUS
    <3>9. PICK z \in {Temp(o), Trash(o), Target(o)} : z = x
      BY <1>3
    <3>10. at'[Guard(o)] = None /\ at'[Trash(o)] = None /\ Remove(z, o, t, "refuse") /\ z = Temp(o)
      BY <1>3, <1>4, <3>1, <3>5, <3>8, <3>9
    <3> QED BY <1>1, <1>3, <3>7, <3>8, <3>10, Classified
  <2> QED BY <2>2, <2>3
<1>16. Recognised(op.put)
  BY <1>2, <1>10
<1> QED BY <1>12, <1>13, <1>14, <1>15, <1>16 DEF RecoverPublication


LEMMA RecoverQuarantineCalm ==
    ASSUME Steady, RecoverQuarantine
    PROVE  Calm'
<1>1. op.pc = "classify" /\ mode' = mode /\ request' = request /\ row' = row /\ journal' = journal /\ op.del # None
  BY DEF RecoverQuarantine, At, rows
<1>2. PICK d, x, y, f : d = op.del /\ x = Trash(op.del) /\ y = Target(op.del) /\ f = OldFile(op.del)
  OBVIOUS
<1>3. /\ mode = "recovering" /\ Settling = {} /\ at[Guard(d)] = None /\ d \in Ops /\ d # None /\ d \in Unfinished
      /\ Row(d) /\ d = Recovered /\ Deletes(d) /\ op.put = None
      /\ x \in Places /\ x = Trash(d) /\ y \in Places /\ y = Target(d) /\ x # y /\ f = OldFile(d)
      /\ Temp(d) \in Places /\ Guard(d) \in Places /\ x # Temp(d) /\ x # Guard(d)
      /\ y # Temp(d) /\ y # Guard(d) /\ (Pending(d) <=> ~Committed(d)) /\ (Committed(d) => Done(d))
      /\ Unfinished' = Unfinished
  BY <1>1, <1>2, ClassifyFacts, SteadyFacts, OpenRow, PlacesApart, SameJournal
<1>4. at[Temp(d)] = None
  BY <1>3, SteadyFacts DEF Store, TempInv, Publishes, Deletes
<1>5. /\ Committed(d) => Hidden(d) \/ Gone(d)
      /\ ~Committed(d) => /\ InPlace(d) \/ Hidden(d)
                          /\ journal[d].expected # None /\ f # None /\ f \in Ops
  <2>1. Committed(d) => Hidden(d) \/ Gone(d)
    BY <1>3, SteadyFacts, CommittedDelete
  <2>2. ~Committed(d) => /\ InPlace(d) \/ Hidden(d)
                         /\ journal[d].expected # None /\ f # None /\ f \in Ops
    BY <1>2, <1>3, SteadyFacts, PendingDelete
  <2> QED BY <2>1, <2>2
<1>6. ASSUME at' = at, stamp' = stamp, \A q \in Unfinished : Pending(q) => q \notin Settling'
      PROVE  Tables'
  BY <1>1, <1>6, SameTables
<1>7. ASSUME op'.pc = "restored" \/ op'.pc = "remove" PROVE Settling' = {}
  BY <1>7 DEF Settling
<1>8. PICK ts, tr \in {"unpublished", "settle", "restored"} : ts = "settle" /\ tr = "restored"
  OBVIOUS
<1>9. ts \in Pcs /\ tr \in Pcs
  BY <1>8 DEF Pcs
<1>10. PICK z \in {Temp(d), Trash(d), Target(d)} : z = x
  BY <1>3
<1>11. CASE Hidden(op.del) /\ Committed(op.del) /\ Remove(Trash(op.del), op.del, "settle", "refuse") /\ UNCHANGED disk
  <2>1. at' = at /\ stamp' = stamp /\ Committed(d)
    BY <1>2, <1>11 DEF disk
  <2>2. Remove(z, d, ts, "refuse") /\ Remove(x, d, ts, "refuse")
    BY <1>2, <1>8, <1>10, <1>11 DEF Remove
  <2>3. op'.pc = "remove"
    <3>1. PICK e \in Pcs : e = "refuse"
      BY DEF Pcs
    <3> QED BY <1>3, <1>9, <2>2, <3>1, SteadyFacts, RemoveType
  <2>4. Tables'
    BY <1>6, <1>7, <2>1, <2>3
  <2>5. (op.del # None => Done(d)) /\ (ts = "settle" /\ op.put # None => journal[d].expected = None)
    BY <1>3, <2>1
  <2>6. /\ at'[Guard(d)] = None
        /\ at'[Temp(d)] # None => z = Temp(d)
        /\ at'[Trash(d)] # None => z = Trash(d)
    BY <1>3, <1>4, <1>10, <2>1
  <2> QED BY <1>1, <1>3, <2>2, <2>4, <2>5, <2>6, Classified
<1>12. CASE Hidden(op.del) /\ ~Committed(op.del) /\ Goto("restored") /\ Rename(Trash(op.del), Target(op.del))
  <2>1. Hidden(d) /\ ~Committed(d) /\ Goto(tr) /\ Rename(x, y)
    BY <1>2, <1>8, <1>12 DEF Goto, Rename
  <2>2. at[y] = None /\ at[x] = f
    BY <1>3, <2>1 DEF Hidden
  <2>3. /\ at'[x] = None /\ at'[y] = f /\ (\A v \in Places : v # x /\ v # y => at'[v] = at[v])
        /\ \A g \in Ops : g # f => stamp'[g] = stamp[g]
    BY <1>3, <2>1, <2>2, SteadyFacts, RenameAt, RenameStamp
  <2>4. op'.pc = "restored"
    BY <1>8, <1>9, <2>1, SteadyFacts, GotoType
  <2>5. \A q \in Ops : /\ at'[Temp(q)] = at[Temp(q)] /\ at'[Guard(q)] = at[Guard(q)]
                       /\ q # d => at'[Trash(q)] = at[Trash(q)]
    <3>1. \A q \in Ops : /\ Temp(q) \in Places /\ Temp(q) # x /\ Temp(q) # y
                         /\ Guard(q) \in Places /\ Guard(q) # x /\ Guard(q) # y
                         /\ q # d => Trash(q) \in Places /\ Trash(q) # x /\ Trash(q) # y
      BY <1>3, SteadyFacts, OpenRow, PlacesApart
    <3> QED BY <2>3, <3>1
  <2>6. Leftovers'
    <3> SUFFICES ASSUME NEW q \in Ops
        PROVE  /\ at'[Temp(q)] # None \/ at'[Trash(q)] # None \/ at'[Guard(q)] # None => q \in Unfinished'
               /\ at'[Guard(q)] # None => at'[Guard(q)] = Discards(q)' /\ (Deletes(q)' => Committed(q)')
      BY DEF Leftovers
    <3>1. Discards(q)' = Discards(q) /\ (Committed(q)' <=> Committed(q)) /\ (Deletes(q)' <=> Deletes(q))
      BY <1>1, SameJournal DEF Deletes, Row
    <3> QED BY <1>3, <2>3, <2>5, <3>1, SteadyFacts DEF Leftovers
  <2>7. Settling' = {}
    BY <1>7, <2>4
  <2>8. Tables'
    <3>1. ASSUME NEW s \in Setups, row[s] # None
          PROVE  \/ stamp'[row[s].version.file] = stamp[row[s].version.file]
                 \/ \E q \in Unfinished : Rereads(q, s)'
      <4>1. row[s].version.file \in Ops
        BY <3>1, SteadyFacts, RowFile
      <4>2. CASE row[s].version.file = f
        BY <1>1, <1>3, <2>1, <2>7, <4>2 DEF Rereads, Pending, Row, OldFile
      <4> QED BY <2>3, <4>1, <4>2
    <3>2. \A v \in Places : at'[v] # None => \E w \in Places : at'[v] = at[w] \/ journal[at'[v]].prepared
      BY <1>3, <2>2, <2>3
    <3> QED BY <1>1, <2>6, <2>7, <3>1, <3>2, MovedTables
  <2>9. at'[Guard(d)] = None /\ at'[Temp(d)] = None /\ at'[Trash(d)] = None
    BY <1>3, <1>4, <2>3, <2>5
  <2> QED BY <1>1, <1>3, <2>1, <2>8, <2>9, Classified
<1>13. CASE InPlace(op.del) /\ ~Committed(op.del) /\ Goto("restored") /\ UNCHANGED disk
  <2>1. InPlace(d) /\ Goto(tr) /\ at' = at /\ stamp' = stamp
    BY <1>2, <1>8, <1>13 DEF Goto, disk
  <2>2. op'.pc = "restored"
    BY <1>8, <1>9, <2>1, SteadyFacts, GotoType
  <2>3. Tables'
    BY <1>6, <1>7, <2>1, <2>2
  <2>4. at'[Guard(d)] = None /\ at'[Temp(d)] = None /\ at'[Trash(d)] = None
    BY <1>3, <1>4, <2>1 DEF InPlace
  <2> QED BY <1>1, <1>3, <2>1, <2>3, <2>4, Classified
<1>14. CASE Gone(op.del) /\ Committed(op.del) /\ Goto("settle") /\ UNCHANGED disk
  <2>1. Gone(d) /\ Committed(d) /\ Goto(ts) /\ at' = at /\ stamp' = stamp
    BY <1>2, <1>8, <1>14 DEF Goto, disk
  <2>2. op'.put = None /\ op'.del = d
    BY <1>2, <1>3, <1>8, <1>9, <2>1, SteadyFacts, GotoType
  <2>3. \A q \in Unfinished : Pending(q) => q \notin Settling'
    BY <1>3, <2>1, <2>2, SteadyFacts, OpenRow DEF Settling
  <2>4. Tables'
    BY <1>6, <2>1, <2>3
  <2>5. at'[Guard(d)] = None /\ at'[Temp(d)] = None /\ at'[Trash(d)] = None
    BY <1>3, <1>4, <2>1 DEF Gone
  <2> QED BY <1>1, <1>3, <2>1, <2>4, <2>5, Classified
<1>15. CASE ~Hidden(op.del) /\ ~(InPlace(op.del) /\ ~Committed(op.del)) /\ ~(Gone(op.del) /\ Committed(op.del))
  BY <1>2, <1>5, <1>15
<1> QED BY <1>11, <1>12, <1>13, <1>14, <1>15 DEF RecoverQuarantine

(* refreshCatalogFileIdentity: the row gets the version of its file. *)
LEMMA RereadTables ==
    ASSUME Steady, NEW o \in Ops, Row(o), OldAtTarget(o), at' = at, stamp' = stamp, journal' = journal,
           claim' = claim, request' = request, Reread(SetupOf(o), journal[o].path)
    PROVE  Tables'
<1>1. PICK p : p = journal[o].path
  OBVIOUS
<1>2. p \in Paths /\ Target(o) = Public(p) /\ journal[o].key \in Keys
  BY <1>1, SteadyFacts, NamesTyped
<1>3. SameFiles /\ SameRows /\ Closing /\ Unfinished' = Unfinished
  BY SteadyFacts, RereadKept, SameJournal
<1>4. PICK f : f = at[Public(p)]
  OBVIOUS
<1>5. f # None /\ Done(f) /\ ~Pending(f)
  BY <1>2, <1>4 DEF OldAtTarget, Done, Pending
<1>6. PICK s \in Setups : row[s] # None /\ row[s].path = p /\ row[s].version.file = f
  BY <1>2, <1>4, <1>5, SteadyFacts, WhoIsAt
<1>7. SetupOf(o) = s /\ \A t \in Setups : row[t] # None => t = s
  <2>1. request[journal[o].key] # None
    BY SteadyFacts DEF Store, JournalInv
  <2> QED BY <1>2, <1>6, <2>1, SteadyFacts, OneSetupOnly DEF SetupOf
<1>8. row'[s].version = Current(f)
  <2>1. row' = [row EXCEPT ![s].version = Current(f)]
    BY <1>1, <1>4, <1>6, <1>7 DEF Reread
  <2>2. row[s] \in [path : Paths, version : Version]
    BY <1>6, SteadyFacts DEF TypeOK
  <2> QED BY <2>1, <2>2, SteadyFacts DEF TypeOK
<1>9. Versions'
  <2> SUFFICES ASSUME NEW t \in Setups, row'[t] # None PROVE UpToDate(t)'
    BY DEF Versions
  <2>1. t = s
    BY <1>3, <1>7 DEF SameFiles
  <2>2. row'[s].version.file = f
    BY <1>8 DEF Current
  <2> QED BY <1>8, <2>1, <2>2 DEF UpToDate, Current
<1>10. OneSetup' /\ NotSame' /\ SoleRows' /\ OpenRows'
  BY <1>3, TablesKept
<1>11. Leftovers' /\ Prepared'
  BY <1>3, DirectoryKept
<1> QED BY <1>9, <1>10, <1>11 DEF Tables

(* Nothing hidden is left of the row that is reread. *)
LEMMA ReadAgain ==
    ASSUME Steady, mode = "recovering", mode' = mode, op.pc \in {"restored", "unpublished"}, at' = at,
           Goto("settle"), Tables'
    PROVE  Calm'
<1>1. "settle" \in Pcs
  BY DEF Pcs
<1>2. op'.pc = "settle" /\ op'.put = op.put /\ op'.del = op.del
  BY <1>1, SteadyFacts, GotoType
<1>3. PICK r : r = Recovered
  OBVIOUS
<1>4. Recovered' = r
  BY <1>2, <1>3 DEF Recovered
<1>5. at[Guard(r)] = None /\ at[Temp(r)] = None /\ at[Trash(r)] = None
  BY <1>3, SteadyFacts DEF RecoveryCalm
<1>6. RecoveryCalm' /\ op'.pc # "refuse"
  BY <1>2, <1>4, <1>5 DEF RecoveryCalm, Removing
<1> QED BY <1>6, CalmRecovering

LEMMA RereadRestoredCalm ==
    ASSUME Steady, RereadRestored
    PROVE  Calm'
<1>1. /\ op.pc = "restored" /\ mode' = mode /\ request' = request /\ at' = at /\ stamp' = stamp /\ journal' = journal
      /\ claim' = claim /\ Reread(SetupOf(op.del), journal[op.del].path)
      /\ Goto(IF mode = "serving" THEN "failDelete" ELSE "settle")
  BY NoFault DEF RereadRestored, At, disk
<1>2. mode = "recovering"
  BY <1>1, SteadyFacts DEF ServingCalm, Undoing, FilesInv, OpInv, ModeInv, Idle, TypeOK
<1>3. PICK d : d = op.del
  OBVIOUS
<1>4. d \in Ops /\ Row(d) /\ OldAtTarget(d)
  BY <1>1, <1>3, SteadyFacts, OpType, OpsAreNot DEF FilesInv, OpInv, DelInv, Pending
<1>5. Reread(SetupOf(d), journal[d].path)
  BY <1>1, <1>3
<1>6. Tables'
  BY <1>1, <1>4, <1>5, RereadTables
<1> QED BY <1>1, <1>2, <1>6, ReadAgain

LEMMA RereadReplacedCalm ==
    ASSUME Steady, RereadReplaced
    PROVE  Calm'
<1>1. /\ op.pc = "unpublished" /\ mode' = mode /\ request' = request /\ at' = at /\ stamp' = stamp
      /\ journal' = journal /\ claim' = claim /\ Reread(SetupOf(op.put), journal[op.put].path)
      /\ Goto(IF mode = "serving" THEN "finish" ELSE "settle")
  BY NoFault DEF RereadReplaced, At, disk
<1>2. mode = "recovering"
  BY <1>1, SteadyFacts DEF ServingCalm, Undoing, FilesInv, OpInv, ModeInv, Idle, TypeOK
<1>3. PICK u : u = op.put
  OBVIOUS
<1>4. u \in Ops /\ Row(u) /\ OldAtTarget(u)
  <2>1. u # None /\ OldAtTarget(u)
    BY <1>1, <1>3, SteadyFacts DEF FilesInv, OpInv, PutInv
  <2> QED BY <1>1, <1>2, <1>3, <2>1, RecoveredFacts
<1>5. Reread(SetupOf(u), journal[u].path)
  BY <1>1, <1>3
<1>6. Tables'
  BY <1>1, <1>4, <1>5, RereadTables
<1> QED BY <1>1, <1>2, <1>6, ReadAgain

LEMMA SettleCalm ==
    ASSUME Steady, Settle
    PROVE  Calm'
<1>1. /\ op.pc = "settle" /\ mode' = mode /\ request' = request /\ at' = at /\ stamp' = stamp
      /\ row' = row /\ journal' = journal /\ Goto("close")
  BY DEF Settle, At, disk, rows
<1>2. mode = "recovering"
  BY <1>1, SteadyFacts DEF FilesInv, OpInv, ModeInv, Idle, Holding, Forward, Undoing, After, TypeOK
<1>3. "close" \in Pcs
  BY DEF Pcs
<1>4. op'.pc = "close" /\ op'.put = op.put /\ op'.del = op.del
  BY <1>1, <1>3, SteadyFacts, GotoType
<1>5. Settling' = Settling
  BY <1>1, <1>2, <1>4 DEF Settling
<1>6. Tables'
  BY <1>1, <1>5, SameTables
<1>7. PICK r : r = Recovered
  OBVIOUS
<1>8. Recovered' = r /\ at[Guard(r)] = None /\ at[Temp(r)] = None /\ at[Trash(r)] = None
  BY <1>1, <1>2, <1>4, <1>7, SteadyFacts DEF Recovered, RecoveryCalm
<1>9. RecoveryCalm' /\ op'.pc # "refuse"
  BY <1>1, <1>4, <1>8 DEF RecoveryCalm, Removing
<1> QED BY <1>1, <1>2, <1>6, <1>9, CalmRecovering

LEMMA CloseCalm ==
    ASSUME Steady, Close
    PROVE  Calm'
<1>1. /\ op.pc = "close" /\ mode' = mode /\ request' = request /\ at' = at /\ stamp' = stamp
      /\ row' = row /\ op' = [Idle EXCEPT !.pc = "recover"]
      /\ SetState(Recovered, IF Committed(Recovered) THEN "completed" ELSE "failed")
  BY DEF Close, At, disk, rows
<1>2. mode = "recovering"
  BY <1>1, SteadyFacts DEF FilesInv, OpInv, ModeInv, Idle, Holding, Forward, Undoing, After, TypeOK
<1>3. PICK r, st : r = Recovered /\ st = IF Committed(Recovered) THEN "completed" ELSE "failed"
  OBVIOUS
<1>4. /\ r \in Ops /\ Row(r) /\ {op.put, op.del} = {r, None} /\ st \in {"completed", "failed"}
      /\ at[Guard(r)] = None /\ at[Temp(r)] = None /\ at[Trash(r)] = None
  BY <1>1, <1>2, <1>3, RecoveredFacts, SteadyFacts DEF RecoveryCalm
<1>5. SetState(r, st)
  BY <1>1, <1>3
<1>6. op'.pc = "recover"
  BY <1>1 DEF Idle
<1>7. r \in Settling /\ Settling' = {}
  BY <1>1, <1>2, <1>4, <1>6 DEF Settling
<1>8. Tables'
  BY <1>1, <1>4, <1>5, <1>7, ClosedTables
<1>9. RecoveryCalm'
  BY <1>6 DEF RecoveryCalm
<1> QED BY <1>1, <1>2, <1>6, <1>8, <1>9, CalmRecovering

-----------------------------------------------------------------------------
(* Death, start, and the end of the recovery. *)

LEMMA StartCalm ==
    ASSUME Steady, Start
    PROVE  Calm'
<1>1. /\ mode = "down" /\ mode' = "recovering" /\ op'.pc = "recover" /\ at' = at /\ stamp' = stamp /\ row' = row
      /\ journal' = journal /\ request' = request
  BY DEF Start, disk, rows, Idle
<1>2. Settling' = {}
  BY <1>1 DEF Settling
<1>3. Tables'
  BY <1>1, <1>2, SameTables
<1>4. RecoveryCalm'
  BY <1>1 DEF RecoveryCalm
<1> QED BY <1>1, <1>3, <1>4, CalmRecovering

LEMMA CrashCalm ==
    ASSUME Steady, Crash
    PROVE  Calm'
<1>1. /\ mode' = "down" /\ op'.pc = "idle" /\ at' = at /\ stamp' = stamp /\ row' = row
      /\ journal' = journal /\ request' = request
  BY DEF Crash, disk, rows, Idle
<1>2. Settling' = {}
  BY <1>1 DEF Settling
<1>3. Tables'
  BY <1>1, <1>2, SameTables
<1>4. ServingCalm' /\ ForwardCalm' /\ RecoveryCalm' /\ NotRefused'
  BY <1>1 DEF ServingCalm, ForwardCalm, RecoveryCalm, NotRefused, Forward
<1> QED BY <1>3, <1>4 DEF Calm

LEMMA ReadyCalm ==
    ASSUME Steady, Ready
    PROVE  Calm'
<1>1. /\ mode' = "serving" /\ op' = Idle /\ at' = at /\ stamp' = stamp /\ row' = row
      /\ journal' = journal /\ request' = request /\ Unfinished = {}
  BY DEF Ready, disk, rows, claims
<1>2. Settling' = {}
  BY <1>1 DEF Settling
<1>3. Tables' /\ Unfinished' = {}
  BY <1>1, <1>2, SameTables, SameJournal
<1> QED BY <1>1, <1>3, CalmIdle

LEMMA NoRefusal ==
    ASSUME Steady
    PROVE  ~Refuse
BY SteadyFacts DEF Refuse, NotRefused

-----------------------------------------------------------------------------
(* Claiming a key and taking the lock. *)

LEMMA ClaimCalm ==
    ASSUME Steady, NEW k \in Keys, Claim(k)
    PROVE  Calm'
<1>1. /\ op' = op /\ mode' = mode /\ at' = at /\ stamp' = stamp /\ row' = row /\ journal' = journal
      /\ mode = "serving"
  BY DEF Claim, disk, rows
<1>2. /\ \A l \in Keys : request[l] # None => request'[l] = request[l]
      /\ \A l \in Keys : request'[l] # None => ~request'[l].same
  <2>1. CASE request' = request
    BY <2>1, SteadyFacts DEF NotSame
  <2>2. CASE request[k] = None /\ request' # request
    <3>1. PICK s \in Setups : \E r \in Wanted(s) : request' = [request EXCEPT ![k] = r]
      BY <2>2 DEF Claim
    <3>2. PICK r \in Wanted(s) : request' = [request EXCEPT ![k] = r]
      BY <3>1
    <3>3. PICK v : v = IF row[s] = None THEN None ELSE row[s].version
      OBVIOUS
    <3>4. /\ r \in [kind : {"put", "delete"}, setup : {s}, path : Paths \cup {None}, same : BOOLEAN,
                    revision : {revision[s]}, version : {v}]
          /\ r.same => SameBytes
      BY <3>2, <3>3 DEF Wanted
    <3>5. ~r.same
      BY <3>4, SteadyFacts
    <3> QED BY <2>2, <3>2, <3>5, SteadyFacts DEF NotSame, TypeOK
  <2> QED BY <2>1, <2>2 DEF Claim
<1>3. SameFiles /\ SameRows /\ Closing /\ Unfinished' = Unfinished /\ Settling' = Settling
  BY <1>1, SameJournal DEF SameFiles, Settling
<1>4. OneSetup'
  BY <1>1, <1>2, SteadyFacts DEF OneSetup
<1>5. NotSame'
  BY <1>1, <1>2, SteadyFacts DEF NotSame, Row
<1>6. SoleRows' /\ OpenRows'
  BY <1>1, <1>3, SteadyFacts DEF SoleRows, OpenRows, Publishes, Deletes, Pending, Row, Committed, InUse, RowAt, OldFile
<1>7. Leftovers' /\ Prepared'
  BY <1>1, <1>3, DirectoryKept
<1>8. \A o \in Unfinished : Pending(o) => Pending(o)'
  BY <1>1 DEF Pending, Row
<1>9. Versions'
  BY <1>1, <1>3, <1>8, VersionsKept
<1>10. Tables'
  BY <1>4, <1>5, <1>6, <1>7, <1>9 DEF Tables
<1>11. ServingCalm'
  <2>1. Goal' = Goal /\ (Removing' <=> Removing)
    BY <1>1 DEF Goal, Removing
  <2> QED BY <1>1, <1>3, <2>1, SteadyFacts DEF ServingCalm
<1>12. ForwardCalm'
  <2> SUFFICES ASSUME op.pc \in Forward PROVE ForwardCalm'
    BY <1>1 DEF ForwardCalm
  <2>1. op.key \in Keys /\ request[op.key] # None
    BY SteadyFacts, ForwardFacts, OpType DEF FilesInv, OpInv, HolderInv, ModeInv, Idle
  <2>2. R' = R /\ Existing' = Existing
    BY <1>1, <1>2, <2>1 DEF R, Existing
  <2>3. UpToDate(R.setup)' <=> UpToDate(R.setup)
    BY <1>1, <2>2 DEF UpToDate, Current
  <2>4. Current(op.put)' = Current(op.put)
    BY <1>1 DEF Current
  <2> QED BY <1>1, <2>2, <2>3, <2>4, SteadyFacts DEF ForwardCalm
<1> QED BY <1>1, <1>10, <1>11, <1>12, CalmServing

(* A row is journaled: the only one, or a delete after a publication at     *)
(* another path.                                                            *)
LEMMA IntentTables ==
    ASSUME Steady, mode = "serving", at' = at, stamp' = stamp, row' = row, request' = request, Settling' = {},
           NEW n \in Ops, ~Row(n), Row(n)', journal'[n].state = "intent", journal'[n].same = FALSE,
           journal'[n].kind \in {"publish", "delete"},
           \A o \in Ops : o # n => journal'[o] = journal[o],
           journal'[n].expected # None => InUse(journal'[n].expected.file),
           journal'[n].kind = "publish" /\ journal'[n].expected = None => RowAt(journal'[n].path) = {},
           \A q \in Unfinished : /\ journal'[n].kind = "delete" /\ Publishes(q) /\ Pending(q)
                                 /\ journal[q].expected = None /\ journal[q].path # journal'[n].path
    PROVE  Tables' /\ Unfinished' = Unfinished \cup {n} /\ at[Temp(n)] = None /\ at[Trash(n)] = None
<1>1. /\ \A o \in Ops : o # n => /\ (Row(o)' <=> Row(o)) /\ (Publishes(o)' <=> Publishes(o))
                                 /\ (Deletes(o)' <=> Deletes(o)) /\ (Pending(o)' <=> Pending(o))
                                 /\ (Committed(o)' <=> Committed(o)) /\ OldFile(o)' = OldFile(o)
                                 /\ Discards(o)' = Discards(o)
      /\ Pending(n)' /\ ~Committed(n)' /\ (Publishes(n)' <=> journal'[n].kind = "publish")
      /\ (Deletes(n)' <=> journal'[n].kind = "delete")
      /\ OldFile(n)' = IF journal'[n].expected = None THEN None ELSE journal'[n].expected.file
  BY DEF Row, Publishes, Deletes, Pending, Committed, OldFile, Discards
<1>2. n \notin Unfinished /\ Unfinished' = Unfinished \cup {n}
  BY <1>1 DEF Unfinished, Unused, Row
<1>3. at[Temp(n)] = None /\ at[Trash(n)] = None /\ at[Guard(n)] = None
  BY <1>2, SteadyFacts DEF Leftovers
<1>4. Settling = {} /\ \A q \in Unfinished : q \in Ops /\ q # n /\ journal'[q] = journal[q]
  BY <1>2 DEF Settling, Unfinished
<1>5. OneSetup'
  BY SteadyFacts DEF OneSetup
<1>6. NotSame'
  BY <1>1, SteadyFacts DEF NotSame
<1>7. SoleRows'
  <2>1. \A q \in Unfinished : journal'[q].kind = "publish" /\ journal'[n].kind = "delete" /\ ~Deletes(q)' /\ ~Committed(q)'
    BY <1>1, <1>4, SteadyFacts, OpenRow DEF Publishes, Deletes
  <2>2. \A o, q \in Unfinished' : journal'[o].kind = journal'[q].kind => o = q
    BY <1>2, <1>4, <2>1, SteadyFacts DEF SoleRows
  <2>3. \A o, q \in Unfinished' : Publishes(o)' /\ Deletes(q)' =>
            /\ journal'[o].expected = None /\ journal'[o].path # journal'[q].path
            /\ Committed(o)' <=> Committed(q)'
    BY <1>1, <1>2, <1>4, <2>1
  <2> QED BY <2>2, <2>3 DEF SoleRows
<1>8. OpenRows'
  <2>1. ASSUME NEW o \in Unfinished'
        PROVE  /\ Pending(o)' /\ journal'[o].expected # None => InUse(OldFile(o))'
               /\ Publishes(o)' /\ Pending(o)' /\ journal'[o].expected = None => RowAt(journal[o].path)' = {}
               /\ Publishes(o)' /\ Committed(o)' => InUse(o)'
               /\ Deletes(o)' /\ Committed(o)' => RowAt(journal[o].path)' = {}
    <3>1. CASE o = n
      BY <1>1, <3>1 DEF InUse, RowAt
    <3>2. CASE o \in Unfinished
      <4>1. journal'[o] = journal[o] /\ o \in Ops /\ o # n
        BY <1>4, <3>2
      <4>2. (InUse(OldFile(o))' <=> InUse(OldFile(o))) /\ (InUse(o)' <=> InUse(o))
        BY <1>1, <4>1 DEF InUse
      <4>3. RowAt(journal[o].path)' = RowAt(journal[o].path)
        BY <4>1 DEF RowAt
      <4> QED BY <1>1, <3>2, <4>1, <4>2, <4>3, SteadyFacts DEF OpenRows
    <3> QED BY <1>2, <3>1, <3>2
  <2> QED BY <2>1 DEF OpenRows
<1>9. Leftovers'
  <2> SUFFICES ASSUME NEW o \in Ops
      PROVE  /\ at'[Temp(o)] # None \/ at'[Trash(o)] # None \/ at'[Guard(o)] # None => o \in Unfinished'
             /\ at'[Guard(o)] # None => at'[Guard(o)] = Discards(o)' /\ (Deletes(o)' => Committed(o)')
    BY DEF Leftovers
  <2> QED BY <1>1, <1>2, <1>3, SteadyFacts DEF Leftovers
<1>10. Prepared'
  <2> SUFFICES ASSUME NEW x \in Places, at[x] # None PROVE journal'[at[x]].prepared
    BY DEF Prepared
  <2>1. at[x] \in Ops /\ at[x] # n
    BY SteadyFacts, PlacedFile
  <2> QED BY <2>1, SteadyFacts DEF Prepared
<1>11. Versions'
  <2> SUFFICES ASSUME NEW s \in Setups, row[s] # None
      PROVE  UpToDate(s)' \/ \E o \in Unfinished' : Rereads(o, s)'
    BY DEF Versions
  <2>1. CASE UpToDate(s)
    BY <2>1 DEF UpToDate, Current
  <2>2. CASE \E o \in Unfinished : Rereads(o, s)
    <3>1. PICK o \in Unfinished : Rereads(o, s)
      BY <2>2
    <3>2. Pending(o)' /\ OldFile(o)' = row[s].version.file /\ o \in Unfinished'
      BY <1>1, <1>2, <1>4, <3>1 DEF Rereads
    <3> QED BY <3>2 DEF Rereads
  <2> QED BY <2>1, <2>2, SteadyFacts DEF Versions
<1> QED BY <1>2, <1>3, <1>5, <1>6, <1>7, <1>8, <1>9, <1>10, <1>11 DEF Tables

LEMMA InsertDeleteCalm ==
    ASSUME Steady, InsertDelete
    PROVE  Calm'
<1>1. /\ op.pc = "insertDelete" /\ op.pc \in Forward /\ mode' = mode /\ request' = request /\ at' = at
      /\ stamp' = stamp /\ row' = row /\ op' = [op EXCEPT !.del = Fresh, !.pc = "prepare"]
      /\ Intent("delete", op.key, Existing.path, FALSE, Existing.version)
  BY NoFault DEF InsertDelete, At, disk, rows, Forward
<1>2. PICK u, k, n, e, s, same : /\ u = op.put /\ k = op.key /\ n = Fresh /\ e = Existing /\ s = R.setup
                                 /\ same = FALSE
  OBVIOUS
<1>3. n \in Ops /\ n # None /\ ~Row(n)
  <2>1. CapacityInv
    BY SteadyFacts DEF FilesInv
  <2>2. Cardinality(Unused) >= 1
    BY <1>1, <2>1, UnusedFinite, FS_CardinalityType DEF CapacityInv
  <2> QED BY <1>2, <2>2, FreshRow, OpsAreNot
<1>4. /\ mode = "serving" /\ u # None /\ u \in Ops /\ u \in Unfinished /\ Publishes(u) /\ Pending(u)
      /\ journal[u].path = R.path /\ op.del = None /\ journal[u].expected = None /\ e.path # R.path
      /\ Unfinished \subseteq {u, None} /\ (\A o \in Ops : at[Guard(o)] = None) /\ s \in Setups
  <2>1. op.put # None
    BY <1>1, SteadyFacts DEF FilesInv, OpInv, PutInv
  <2>2. op.del = None /\ journal[op.put].expected = None /\ Existing.path # R.path
    BY <1>1, SteadyFacts DEF ForwardCalm
  <2> QED BY <1>1, <1>2, <2>1, <2>2, ForwardFacts
<1>5. e # None /\ e = row[s] /\ k \in Keys /\ request[k] # None /\ R = request[k]
  <2>1. ForwardInv
    BY SteadyFacts DEF FilesInv, OpInv
  <2>2. Existing # None
    BY <1>1, <1>2, <1>4, <2>1 DEF ForwardInv
  <2>3. op.key \in Keys /\ R = request[op.key] /\ op # Idle
    BY <1>1, SteadyFacts, AtServing DEF Forward
  <2> QED BY <1>2, <1>4, <2>2, <2>3, SteadyFacts DEF Existing, FilesInv, OpInv, HolderInv
<1>6. /\ e.path \in Paths /\ e.version \in Version /\ e.version # None /\ Proper(e.version.file, e.path)
      /\ InUse(e.version.file)
  BY <1>4, <1>5, SteadyFacts, ExistingFile DEF InUse
<1>7. claim' = claim
  BY DEF InsertDelete
<1>8. Intent("delete", k, e.path, same, e.version) /\ same \in BOOLEAN
  BY <1>1, <1>2 DEF Intent
<1>9. /\ Row(n)' /\ journal'[n].state = "intent" /\ journal'[n].kind = "delete" /\ journal'[n].path = e.path
      /\ journal'[n].expected = e.version /\ \A o \in Ops : o # n => journal'[o] = journal[o]
  <2>1. PICK p, v : p = e.path /\ v = e.version
    OBVIOUS
  <2>2. /\ FilesInv /\ n = Fresh /\ p \in Paths /\ v \in Version \cup {None} /\ v # None /\ Proper(v.file, p)
        /\ Intent("delete", k, p, same, v) /\ same \in BOOLEAN
    BY <1>2, <1>6, <1>8, <2>1, SteadyFacts DEF Intent
  <2> QED BY <1>1, <1>3, <1>5, <1>7, <2>1, <2>2, IntentRow
<1>10. journal'[n].same = FALSE
  <2>1. journal' = [journal EXCEPT ![n] =
            [kind |-> "delete", key |-> k, path |-> e.path, same |-> same, expected |-> e.version,
             prepared |-> FALSE, result |-> None, state |-> "intent"]]
    BY <1>2, <1>8 DEF Intent
  <2> QED BY <1>2, <1>3, <2>1, SteadyFacts DEF TypeOK
<1>11. op'.pc = "prepare" /\ op'.put = u /\ op'.del = n /\ op'.key = k
  BY <1>1, <1>2, <1>3, SteadyFacts, OpType DEF Op, Pcs
<1>12. Settling' = {}
  BY <1>11 DEF Settling
<1>13. \A q \in Unfinished : q = u
  BY <1>4, SteadyFacts, OpenRow
<1>14. \A q \in Unfinished : /\ journal'[n].kind = "delete" /\ Publishes(q) /\ Pending(q)
                             /\ journal[q].expected = None /\ journal[q].path # journal'[n].path
  BY <1>4, <1>9, <1>13
<1>15. Tables' /\ Unfinished' = Unfinished \cup {n} /\ at[Trash(n)] = None
  BY <1>1, <1>3, <1>4, <1>6, <1>9, <1>10, <1>12, <1>14, IntentTables
<1>16. R' = R /\ Existing' = Existing /\ (UpToDate(R.setup)' <=> UpToDate(R.setup))
  BY <1>1, <1>2, <1>11, SameExisting
<1>17. UpToDate(R.setup)
  BY <1>1, <1>2, <1>5, SteadyFacts DEF ForwardCalm, Unmoved
<1>18. ForwardCalm'
  <2>1. journal'[u].expected = None
    BY <1>3, <1>4, <1>9 DEF Publishes
  <2> QED BY <1>1, <1>2, <1>9, <1>11, <1>15, <1>16, <1>17, <2>1 DEF ForwardCalm, Unmoved
<1>19. Unfinished' \subseteq {op'.put, op'.del} /\ \A o \in Ops : at'[Guard(o)] = None
  BY <1>1, <1>4, <1>11, <1>13, <1>15
<1> QED BY <1>1, <1>4, <1>11, <1>15, <1>18, <1>19, GoesForward DEF Forward

(* No row is open while the lock is free. *)
LEMMA LockCalm ==
    ASSUME Steady, NEW k \in Keys, Lock(k)
    PROVE  Calm'
<1>1. /\ mode = "serving" /\ mode' = mode /\ op = Idle /\ k \in waiting /\ claim' = claim /\ request' = request
      /\ at' = at /\ stamp' = stamp /\ row' = row
  BY DEF Lock, disk, rows
<1>2. Unfinished = {} /\ \A o \in Ops : at[Guard(o)] = None
  <2>1. Unfinished \subseteq {None} /\ Unfinished \subseteq Ops
    BY <1>1, SteadyFacts DEF ServingCalm, Idle, Unfinished
  <2>2. Unfinished = {}
    BY <2>1, OpsAreNot
  <2> QED BY <2>2, SteadyFacts DEF Leftovers
<1>3. PICK r, s, n : r = request[k] /\ s = request[k].setup /\ n = Fresh
  OBVIOUS
<1>4. /\ r # None /\ r \in Request /\ s \in Setups /\ ~r.same /\ r.path \in Paths \cup {None}
      /\ r.kind = "put" <=> r.path # None
      /\ r.kind = "delete" => r.version # None
  BY <1>1, <1>3, SteadyFacts DEF NotSame, FilesInv, RequestInv, TypeOK, Request
<1>5. n \in Ops /\ ~Row(n) /\ n # None
  <2>1. IsFiniteSet(waiting) /\ CapacityInv
    BY SteadyFacts DEF FilesInv, CapacityInv
  <2>2. Cardinality(waiting) >= 1
    BY <1>1, <2>1, FS_EmptySet, FS_CardinalityType
  <2>3. Cardinality(Unused) >= 1
    BY <1>1, <2>1, <2>2, UnusedFinite, FS_CardinalityType DEF CapacityInv, Idle
  <2> QED BY <1>3, <2>3, FreshRow, OpsAreNot
<1>6. /\ \A t \in Setups : row[t] # None => t = s
      /\ row[s] # None => UpToDate(s) /\ InUse(row[s].version.file)
  BY <1>2, <1>3, <1>4, SteadyFacts, OneSetupOnly DEF Versions, InUse
<1>7. CASE op' = [Idle EXCEPT !.key = k, !.pc = "finish"] /\ UNCHANGED journal
  <2>1. op'.pc = "finish" /\ op'.put = None /\ op'.del = None
    BY <1>7 DEF Idle
  <2>2. Settling' = {}
    BY <2>1 DEF Settling
  <2>3. Tables' /\ Unfinished' = {}
    BY <1>1, <1>2, <1>7, <2>2, SameTables, SameJournal
  <2>4. ~Removing' /\ Goal' = "finish" /\ op'.pc \notin Forward /\ op'.pc \notin Undoing
    BY <2>1 DEF Removing, Goal, Forward, Undoing
  <2>5. \A o \in Ops : at'[Guard(o)] = None
    BY <1>1, <1>2
  <2>6. ServingCalm' /\ ForwardCalm'
    BY <2>1, <2>3, <2>4, <2>5 DEF ServingCalm, ForwardCalm
  <2> QED BY <1>1, <2>3, <2>6, CalmServing
<1>8. CASE BeginPut(k)
  <2>1. PICK renamed, p, e, same : /\ renamed = (row[s] # None /\ row[s].path # request[k].path)
                                   /\ p = r.path /\ e = (IF row[s] = None \/ renamed THEN None ELSE row[s].version)
                                   /\ same = (r.same /\ ~renamed)
    OBVIOUS
  <2>2. r.kind = "put" /\ p \in Paths /\ same = FALSE /\ same \in BOOLEAN
    BY <1>3, <1>4, <1>8, <2>1 DEF BeginPut
  <2>3. e \in Version \cup {None} /\ (e # None => row[s] # None /\ e = row[s].version /\ Proper(e.file, p))
    BY <1>3, <1>4, <2>1, SteadyFacts, ExistingFile
  <2>4. Intent("publish", k, p, same, e)
    BY <1>3, <1>8, <2>1 DEF BeginPut, Intent
  <2>5. /\ Row(n)' /\ journal'[n].state = "intent" /\ journal'[n].kind = "publish"
        /\ journal'[n].expected = e /\ journal'[n].path = p
        /\ \A o \in Ops : o # n => journal'[o] = journal[o]
    BY <1>1, <1>3, <1>4, <1>5, <2>2, <2>3, <2>4, SteadyFacts, IntentRow
  <2>6. journal'[n].same = FALSE
    <3>1. journal' = [journal EXCEPT ![n] =
              [kind |-> "publish", key |-> k, path |-> p, same |-> same, expected |-> e,
               prepared |-> FALSE, result |-> None, state |-> "intent"]]
      BY <1>3, <2>4 DEF Intent
    <3> QED BY <1>5, <2>2, <3>1, SteadyFacts DEF TypeOK
  <2>7. op' = [Idle EXCEPT !.key = k, !.put = n, !.pc = IF renamed THEN "insertDelete" ELSE "prepare"]
    BY <1>3, <1>8, <2>1 DEF BeginPut
  <2>8. /\ op'.pc \in {"insertDelete", "prepare"} /\ op'.key = k /\ op'.put = n /\ op'.del = None
        /\ op'.pc = "insertDelete" <=> renamed
    <3>1. CASE renamed
      BY <2>7, <3>1 DEF Idle
    <3>2. CASE ~renamed
      BY <2>7, <3>2 DEF Idle
    <3> QED BY <2>1, <3>1, <3>2
  <2>9. Settling' = {}
    BY <2>8 DEF Settling
  <2>10. e # None => InUse(e.file)
    BY <1>6, <2>3
  <2>11. e = None => RowAt(p) = {}
    <3>1. e = None => row[s] = None \/ renamed
      BY <1>4, <2>1, SteadyFacts, ExistingFile
    <3>2. e = None => \A t \in Setups : row[t] # None => row[t].path # p
      BY <1>3, <1>6, <2>1, <3>1
    <3> QED BY <3>2 DEF RowAt
  <2>12. Tables' /\ Unfinished' = {n}
    BY <1>1, <1>2, <1>5, <2>5, <2>6, <2>9, <2>10, <2>11, IntentTables
  <2>13. R' = r /\ Existing' = row[s]
    BY <1>1, <1>3, <2>8 DEF R, Existing
  <2>14. ForwardCalm'
    <3>1. row[s] # None => UpToDate(R.setup)'
      BY <1>1, <1>3, <1>6, <2>13 DEF UpToDate, Current
    <3>2. renamed => e = None /\ row[s].path # r.path
      BY <1>3, <2>1
    <3> QED BY <1>1, <2>3, <2>5, <2>8, <2>13, <3>1, <3>2 DEF ForwardCalm, Unmoved
  <2>15. \A o \in Ops : at'[Guard(o)] = None
    BY <1>1, <1>2
  <2> QED BY <1>1, <2>8, <2>12, <2>14, <2>15, GoesForward DEF Forward
<1>9. CASE Accepted(k) /\ BeginDelete(k)
  <2>1. PICK p, e, same : p = row[s].path /\ e = row[s].version /\ same = FALSE
    OBVIOUS
  <2>2. r.kind = "delete" /\ row[s] # None /\ same \in BOOLEAN
    BY <1>3, <1>4, <1>9, <2>1 DEF BeginDelete, Accepted
  <2>3. e \in Version /\ e # None /\ Proper(e.file, p) /\ p \in Paths
    BY <1>4, <2>1, <2>2, SteadyFacts, ExistingFile
  <2>4. Intent("delete", k, p, same, e)
    BY <1>3, <1>9, <2>1 DEF BeginDelete, Intent
  <2>5. /\ Row(n)' /\ journal'[n].state = "intent" /\ journal'[n].kind = "delete"
        /\ journal'[n].expected = e /\ journal'[n].path = p
        /\ \A o \in Ops : o # n => journal'[o] = journal[o]
    BY <1>1, <1>3, <1>4, <1>5, <2>2, <2>3, <2>4, SteadyFacts, IntentRow
  <2>6. journal'[n].same = FALSE
    <3>1. journal' = [journal EXCEPT ![n] =
              [kind |-> "delete", key |-> k, path |-> p, same |-> same, expected |-> e,
               prepared |-> FALSE, result |-> None, state |-> "intent"]]
      BY <1>3, <2>4 DEF Intent
    <3> QED BY <1>5, <2>1, <3>1, SteadyFacts DEF TypeOK
  <2>7. op' = [Idle EXCEPT !.key = k, !.del = n, !.pc = "quarantine"]
    BY <1>3, <1>9 DEF BeginDelete
  <2>8. op'.pc = "quarantine" /\ op'.key = k /\ op'.put = None /\ op'.del = n
    BY <2>7 DEF Idle
  <2>9. Settling' = {}
    BY <2>8 DEF Settling
  <2>10. InUse(e.file)
    BY <1>6, <2>1, <2>2
  <2>11. Tables' /\ Unfinished' = {n} /\ at[Trash(n)] = None
    BY <1>1, <1>2, <1>5, <2>5, <2>6, <2>9, <2>10, IntentTables
  <2>12. R' = r /\ Existing' = row[s]
    BY <1>1, <1>3, <2>8 DEF R, Existing
  <2>13. ForwardCalm'
    <3>1. UpToDate(R.setup)'
      BY <1>1, <1>3, <1>6, <2>2, <2>12 DEF UpToDate, Current
    <3> QED BY <1>1, <2>1, <2>5, <2>8, <2>11, <2>12, <3>1 DEF ForwardCalm, Unmoved
  <2>14. \A o \in Ops : at'[Guard(o)] = None
    BY <1>1, <1>2
  <2> QED BY <1>1, <2>8, <2>11, <2>13, <2>14, GoesForward DEF Forward
<1> QED BY <1>7, <1>8, <1>9 DEF Lock

-----------------------------------------------------------------------------
(* The invariant of the specification. *)

(* The step of a request, or of the recovery. *)
LEMMA CalmStep ==
    ASSUME Steady, Step
    PROVE  Calm'
<1>1. CASE InsertDelete \/ Prepare \/ Link \/ Expose \/ Verify \/ ApplyStorage \/ Quarantine \/ MarkDelete
  BY <1>1, InsertDeleteCalm, PrepareCalm, LinkCalm, ExposeCalm, VerifyCalm, ApplyStorageCalm, QuarantineCalm,
     MarkDeleteCalm, Zenon
<1>2. CASE Commit \/ Abort \/ Clean \/ Complete \/ Discard \/ CompleteDelete \/ MoveAside \/ Unlink
  BY <1>2, CommitCalm, AbortCalm, CleanCalm, CompleteCalm, DiscardCalm, CompleteDeleteCalm, MoveAsideCalm,
     UnlinkCalm, Zenon
<1>3. CASE Restore \/ RereadRestored \/ FailDelete \/ Unpublish \/ RereadReplaced \/ Finish
  BY <1>3, NothingUndone, RereadRestoredCalm, RereadReplacedCalm, FinishCalm, Zenon
<1>4. CASE \E o \in Ops : Recover(o)
  BY <1>4, RecoverCalm
<1>5. CASE RecoverPublication \/ RecoverQuarantine \/ Settle \/ Close \/ Ready \/ Refuse
  BY <1>5, RecoverPublicationCalm, RecoverQuarantineCalm, SettleCalm, CloseCalm, ReadyCalm, NoRefusal, Zenon
<1> QED BY <1>1, <1>2, <1>3, <1>4, <1>5, Zenon DEF Step

LEMMA CalmStutter ==
    ASSUME Steady, UNCHANGED vars
    PROVE  Calm'
<1>1. /\ at' = at /\ stamp' = stamp /\ row' = row /\ journal' = journal /\ request' = request /\ op' = op
      /\ mode' = mode
  BY DEF vars, disk, rows, claims, bounds
<1>2. Settling' = Settling /\ Unfinished' = Unfinished
  BY <1>1, SameJournal DEF Settling
<1>3. Tables'
  BY <1>1, <1>2, SameTables
<1>4. R' = R /\ Existing' = Existing /\ Recovered' = Recovered /\ Goal' = Goal
  BY <1>1 DEF R, Existing, Recovered, Goal, Removing
<1>5. NotRefused'
  BY <1>1, SteadyFacts DEF NotRefused
<1>6. ServingCalm'
  BY <1>1, <1>2, <1>4, SteadyFacts DEF ServingCalm, Removing
<1>7. ForwardCalm'
  BY <1>1, <1>4, SteadyFacts DEF ForwardCalm, UpToDate, Current
<1>8. RecoveryCalm'
  BY <1>1, <1>4, SteadyFacts DEF RecoveryCalm, Removing, Target, Done, Row
<1> QED BY <1>3, <1>5, <1>6, <1>7, <1>8 DEF Calm

(* What has failed stays failed, and requests are not taken back. *)
LEMMA FaultsStay ==
    ASSUME [Next]_vars
    PROVE  faults' = faults \/ faults' = faults + 1
<1>1. CASE InsertDelete \/ Prepare \/ Link \/ Expose \/ Verify \/ ApplyStorage \/ Quarantine \/ MarkDelete
  BY <1>1 DEF InsertDelete, Prepare, Link, Expose, Verify, ApplyStorage, Quarantine, MarkDelete, Works, Fault, bounds
<1>2. CASE Commit \/ Abort \/ Clean \/ Complete \/ Discard \/ CompleteDelete \/ MoveAside \/ Unlink
  BY <1>2 DEF Commit, Abort, Clean, Complete, Discard, CompleteDelete, MoveAside, Unlink, Works, Fault, bounds
<1>3. CASE Restore \/ RereadRestored \/ FailDelete \/ Unpublish \/ RereadReplaced \/ Finish
  BY <1>3 DEF Restore, RereadRestored, FailDelete, Unpublish, RereadReplaced, Finish, Works, Fault, bounds
<1>4. CASE (\E o \in Ops : Recover(o)) \/ RecoverPublication \/ RecoverQuarantine
  <2>1. bounds' = bounds
    BY <1>4, Zenon DEF Recover, RecoverPublication, RecoverQuarantine
  <2> QED BY <2>1 DEF bounds
<1>5. CASE Settle \/ Close \/ Ready \/ Refuse \/ Start \/ Crash \/ UNCHANGED vars
  BY <1>5 DEF Settle, Close, Ready, Refuse, Start, Crash, bounds, vars
<1>6. CASE \E k \in Keys : Claim(k) \/ Lock(k)
  BY <1>6 DEF Claim, Lock, Works, Fault, bounds
<1> QED BY <1>1, <1>2, <1>3, <1>4, <1>5, <1>6 DEF Next, Step

LEMMA OnlyClaims ==
    ASSUME [Next]_vars, ~\E k \in Keys : Claim(k)
    PROVE  request' = request
<1>1. CASE InsertDelete \/ Prepare \/ Link \/ Expose \/ Verify \/ ApplyStorage \/ Quarantine \/ MarkDelete
  BY <1>1 DEF InsertDelete, Prepare, Link, Expose, Verify, ApplyStorage, Quarantine, MarkDelete, At
<1>2. CASE Commit \/ Abort \/ Clean \/ Complete \/ Discard \/ CompleteDelete \/ MoveAside \/ Unlink
  BY <1>2 DEF Commit, Abort, Clean, Complete, Discard, CompleteDelete, MoveAside, Unlink, At
<1>3. CASE Restore \/ RereadRestored \/ FailDelete \/ Unpublish \/ RereadReplaced \/ Finish
  BY <1>3 DEF Restore, RereadRestored, FailDelete, Unpublish, RereadReplaced, Finish, At
<1>4. CASE (\E o \in Ops : Recover(o)) \/ RecoverPublication \/ RecoverQuarantine
  <2>1. UNCHANGED <<mode, request, waiting>>
    BY <1>4, Zenon DEF Recover, RecoverPublication, RecoverQuarantine, At
  <2> QED BY <2>1
<1>5. CASE Settle \/ Close \/ Ready \/ Refuse \/ Start \/ Crash \/ UNCHANGED vars
  BY <1>5 DEF Settle, Close, Ready, Refuse, Start, Crash, At, claims, vars
<1>6. CASE \E k \in Keys : Lock(k)
  BY <1>6 DEF Lock
<1> QED BY <1>1, <1>2, <1>3, <1>4, <1>5, <1>6 DEF Next, Step

LEMMA RequestsStay ==
    ASSUME FilesInv, [Next]_vars
    PROVE  \A k \in Keys : request[k] # None => request'[k] = request[k]
<1>1. CASE \E l \in Keys : Claim(l)
  <2>1. PICK l \in Keys : Claim(l)
    BY <1>1
  <2>2. request' = request \/ (request[l] = None /\ \E r : request' = [request EXCEPT ![l] = r])
    BY <2>1 DEF Claim
  <2> QED BY <2>2 DEF FilesInv, TypeOK
<1>2. CASE ~\E l \in Keys : Claim(l)
  BY <1>2, OnlyClaims
<1> QED BY <1>1, <1>2

LEMMA UndisturbedBefore ==
    ASSUME FilesInv, [Next]_vars, Undisturbed'
    PROVE  Undisturbed
<1>1. faults = 0
  BY FaultsStay DEF FilesInv, TypeOK, Undisturbed
<1>2. ASSUME NEW k \in Keys, NEW l \in Keys, request[k] # None, request[l] # None
      PROVE  request[k].setup = request[l].setup
  <2>1. request'[k] = request[k] /\ request'[l] = request[l]
    BY <1>2, RequestsStay
  <2> QED BY <1>2, <2>1 DEF Undisturbed
<1> QED BY <1>1, <1>2 DEF Undisturbed

LEMMA CalmAtFirst ==
    ASSUME Init
    PROVE  Calm
<1>1. /\ op = Idle /\ op.pc = "idle" /\ mode = "serving" /\ Unfinished = {}
      /\ (\A o \in Ops : ~Row(o)) /\ (\A x \in Places : at[x] = None)
      /\ (\A s \in Setups : row[s] = None) /\ (\A k \in Keys : request[k] = None)
  BY DEF Init, Idle, Unfinished, Unused, Row
<1>2. \A o \in Ops : at[Temp(o)] = None /\ at[Trash(o)] = None /\ at[Guard(o)] = None
  BY <1>1, PlacesApart
<1>3. Tables
  BY <1>1, <1>2 DEF Tables, OneSetup, NotSame, SoleRows, OpenRows, Leftovers, Prepared, Versions
<1>4. ~Removing /\ Goal = "idle" /\ op.pc \notin Forward /\ op.pc \notin Undoing
  BY <1>1 DEF Removing, Goal, Forward, Undoing
<1> QED BY <1>1, <1>2, <1>3, <1>4 DEF Calm, NotRefused, ServingCalm, ForwardCalm, RecoveryCalm

(* RecoveryInv holds: the inductive invariant of the recovery. *)
THEOREM RecoveryInvariant == Spec => []RecoveryInv
<1>1. Init => RecoveryInv
  BY CalmAtFirst DEF RecoveryInv
<1>2. FilesInv /\ FilesInv' /\ RecoveryInv /\ [Next]_vars => RecoveryInv'
  <2> SUFFICES ASSUME FilesInv, FilesInv', RecoveryInv, [Next]_vars, Undisturbed', ~SameBytes PROVE Calm'
    BY DEF RecoveryInv
  <2>1. Steady
    BY UndisturbedBefore DEF Steady, RecoveryInv
  <2>2. CASE Step
    BY <2>1, <2>2, CalmStep
  <2>3. CASE Start \/ Crash \/ UNCHANGED vars
    BY <2>1, <2>3, StartCalm, CrashCalm, CalmStutter
  <2>4. CASE \E k \in Keys : Claim(k) \/ Lock(k)
    BY <2>1, <2>4, ClaimCalm, LockCalm
  <2> QED BY <2>2, <2>3, <2>4 DEF Next
<1> QED BY <1>1, <1>2, FilesInvariant, PTL DEF Spec

(* What holds of the directory while no row is open. *)
LEMMA NothingHidden ==
    ASSUME Leftovers, Unfinished = {}, NEW x \in Places, x[1] # "public"
    PROVE  at[x] = None
<1>1. PICK o \in Ops : x = Temp(o) \/ x = Trash(o) \/ x = Guard(o)
  BY DEF Places, Temp, Trash, Guard
<1> QED BY <1>1 DEF Leftovers

LEMMA PathAgrees ==
    ASSUME TypeOK, Store, Tables, Unfinished = {}, NEW p \in Paths
    PROVE  IF at[Public(p)] = None THEN RowAt(p) = {}
           ELSE \E s \in Setups : RowAt(p) = {s} /\ row[s].version = Current(at[Public(p)])
<1>1. CASE at[Public(p)] = None
  <2> SUFFICES ASSUME NEW s \in Setups, row[s] # None, row[s].path = p PROVE FALSE
    BY <1>1 DEF RowAt
  <2>1. PICK f : f = row[s].version.file
    OBVIOUS
  <2>2. f # None /\ Home(f, p)
    BY <2>1, RowFile
  <2> QED BY <1>1, <2>2, PendingOpen DEF Home, HiddenBy, ExchangedBy
<1>2. CASE at[Public(p)] # None
  <2>1. PICK s \in Setups : row[s] # None /\ row[s].path = p /\ row[s].version.file = at[Public(p)]
    BY <1>2, WhoIsAt
  <2>2. RowAt(p) = {s}
    BY <2>1 DEF RowAt, Store, RowsInv
  <2>3. row[s].version = Current(at[Public(p)])
    BY <2>1 DEF Tables, Versions, UpToDate
  <2> QED BY <1>2, <2>2, <2>3
<1> QED BY <1>1, <1>2

(* After the death of the daemon at any step of a request, or of an earlier *)
(* recovery, the start never gives up on the journal it finds, and while no *)
(* request is under way the directory is what the rows say: what recover-   *)
(* CatalogOperations promises. A replacement by equal bytes is left out:    *)
(* recovery tells the two files apart by a version that an interrupted      *)
(* exchange has changed.                                                    *)
THEOREM RecoveryIsComplete ==
    ASSUME ~SameBytes
    PROVE  Spec => []RecoveryRestores
<1>1. FilesInv /\ RecoveryInv => RecoveryRestores
  <2> SUFFICES ASSUME FilesInv, RecoveryInv, Undisturbed
      PROVE  mode # "refused" /\ (mode = "serving" /\ op = Idle => Agrees)
    BY DEF RecoveryRestores
  <2>1. TypeOK /\ Store /\ Tables /\ Leftovers /\ NotRefused /\ ServingCalm
    BY DEF FilesInv, RecoveryInv, Calm, Tables
  <2>2. ASSUME mode = "serving", op = Idle PROVE Agrees
    <3>1. Unfinished \subseteq {None} /\ Unfinished \subseteq Ops
      BY <2>1, <2>2 DEF ServingCalm, Idle, Unfinished
    <3>2. Unfinished = {}
      BY <3>1, OpsAreNot
    <3> QED BY <2>1, <3>2, NothingHidden, PathAgrees DEF Agrees
  <2> QED BY <2>1, <2>2 DEF NotRefused
<1> QED BY <1>1, FilesInvariant, RecoveryInvariant, PTL


-----------------------------------------------------------------------------
(* Retries. *)

(* Until it is put back and reread, the file that an open row of the journal *)
(* replaces or deletes has in its row the version that the journal expects.  *)
Expects(o, s) == journal[o].expected = row[s].version \/ (at[Target(o)] = OldFile(o) /\ UpToDate(s))
OpenVersions == \A o \in Unfinished, s \in Setups :
    Pending(o) /\ row[s] # None /\ OldFile(o) = row[s].version.file => Expects(o, s)

(* A version that a client has read is the one of the row, or was the one of *)
(* the same file until the steps of a journalled request were undone.        *)
ReadVersion(k) ==
    LET r == request[k] s == request[k].setup IN
    /\ r.revision <= revision[s]
    /\ r.revision = revision[s] =>
          /\ row[s] # None /\ row[s].version.file = r.version.file
          /\ row[s].version = r.version \/ \E o \in Ops : Row(o) /\ journal[o].expected = r.version
ReadVersions == \A k \in Keys : request[k] # None /\ request[k].version # None => ReadVersion(k)

RetryInv == Undisturbed /\ ~SameBytes => OpenVersions /\ ReadVersions

-----------------------------------------------------------------------------
(* What a step does to the journal and to the rows. *)

(* The rows of the journal keep what they expect, and none is opened again. *)
JournalKeeps == \A o \in Ops : Row(o) =>
    /\ Row(o)' /\ (Pending(o)' => Pending(o))
    /\ journal'[o].expected = journal[o].expected /\ journal'[o].path = journal[o].path

(* A new row expects the version of the row of a setup. *)
NewRows == \A o \in Ops : ~Row(o) /\ Row(o)' /\ journal'[o].expected # None =>
    \E s \in Setups : row[s] # None /\ journal'[o].expected = row[s].version

LEMMA KeepsJournal ==
    ASSUME journal' = journal
    PROVE  JournalKeeps /\ NewRows
BY DEF JournalKeeps, NewRows, Row, Pending

LEMMA KeepsOthers ==
    ASSUME NEW u \in Ops, Row(u), Row(u)', Pending(u)' => Pending(u),
           journal'[u].expected = journal[u].expected, journal'[u].path = journal[u].path,
           \A o \in Ops : o # u => journal'[o] = journal[o]
    PROVE  JournalKeeps /\ NewRows
BY DEF JournalKeeps, NewRows, Row, Pending

LEMMA KeepsState ==
    ASSUME TypeOK, NEW u \in Ops, Row(u), NEW st \in {"storage_applied", "completed", "failed"}, SetState(u, st),
           st = "storage_applied" => Pending(u)
    PROVE  JournalKeeps /\ NewRows
<1>1. PICK t \in {"intent", "storage_applied", "db_applied", "completed", "failed"} : t = st
  OBVIOUS
<1>2. SetState(u, t)
  BY <1>1
<1>3. /\ \A q \in Ops : (Row(q)' <=> Row(q)) /\ (q # u => journal'[q] = journal[q])
      /\ journal'[u].state = st
      /\ journal'[u].path = journal[u].path /\ journal'[u].expected = journal[u].expected
  BY <1>1, <1>2, SetStateIs
<1>4. Pending(u)' => Pending(u)
  BY <1>3 DEF Pending
<1> QED BY <1>3, <1>4, KeepsOthers

LEMMA KeepsIntent ==
    ASSUME NEW kind, NEW k, NEW p, NEW same, NEW expected, Intent(kind, k, p, same, expected),
           journal \in [Ops -> JournalRow \cup {None}], ~Row(Fresh),
           expected # None => \E s \in Setups : row[s] # None /\ expected = row[s].version
    PROVE  JournalKeeps /\ NewRows
<1>1. /\ \A o \in Ops : o # Fresh => journal'[o] = journal[o]
      /\ Fresh \in Ops => journal'[Fresh].expected = expected
  BY DEF Intent
<1>2. JournalKeeps
  BY <1>1 DEF JournalKeeps, Row, Pending
<1>3. NewRows
  BY <1>1 DEF NewRows, Row
<1> QED BY <1>2, <1>3

LEMMA LockKeeps ==
    ASSUME Steady, NEW k \in Keys, Lock(k)
    PROVE  JournalKeeps /\ NewRows
<1>1. mode = "serving" /\ op = Idle /\ k \in waiting
  BY DEF Lock
<1>2. request[k] # None /\ request[k].setup \in Setups /\ journal \in [Ops -> JournalRow \cup {None}]
  BY <1>1, SteadyFacts DEF FilesInv, RequestInv, TypeOK, Request
<1>3. ~Row(Fresh)
  <2>1. IsFiniteSet(waiting) /\ CapacityInv
    BY SteadyFacts DEF FilesInv, CapacityInv
  <2>2. Cardinality(waiting) >= 1
    BY <1>1, <2>1, FS_EmptySet, FS_CardinalityType
  <2>3. Cardinality(Unused) >= 1
    BY <1>1, <2>1, <2>2, UnusedFinite, FS_CardinalityType DEF CapacityInv, Idle
  <2> QED BY <2>3, FreshRow
<1>4. CASE journal' = journal
  BY <1>4, KeepsJournal
<1>5. CASE BeginPut(k)
  <2>1. PICK s, renamed : s = request[k].setup /\ renamed = (row[s] # None /\ row[s].path # request[k].path)
    OBVIOUS
  <2>2. PICK e, same : e = (IF row[s] = None \/ renamed THEN None ELSE row[s].version)
                       /\ same = (request[k].same /\ ~renamed)
    OBVIOUS
  <2>3. Intent("publish", k, request[k].path, same, e)
    BY <1>5, <2>1, <2>2 DEF BeginPut, Intent
  <2>4. e # None => row[s] # None /\ e = row[s].version
    BY <2>2
  <2> QED BY <1>2, <1>3, <2>1, <2>3, <2>4, KeepsIntent
<1>6. CASE Accepted(k) /\ BeginDelete(k)
  <2>1. PICK s : s = request[k].setup
    OBVIOUS
  <2>2. Intent("delete", k, row[s].path, FALSE, row[s].version) /\ request[k].kind = "delete"
    BY <1>6, <2>1 DEF BeginDelete, Intent
  <2>3. row[s] # None
    BY <1>1, <1>6, <2>1, <2>2, SteadyFacts DEF Accepted, FilesInv, RequestInv
  <2> QED BY <1>2, <1>3, <2>1, <2>2, <2>3, KeepsIntent
<1> QED BY <1>4, <1>5, <1>6 DEF Lock

LEMMA InsertDeleteKeeps ==
    ASSUME Steady, InsertDelete
    PROVE  JournalKeeps /\ NewRows
<1>1. op.pc = "insertDelete" /\ op.pc \in Forward /\ Intent("delete", op.key, Existing.path, FALSE, Existing.version)
  BY NoFault DEF InsertDelete, At, Forward
<1>2. journal \in [Ops -> JournalRow \cup {None}] /\ R.setup \in Setups
  BY <1>1, SteadyFacts, ForwardFacts DEF TypeOK
<1>3. ~Row(Fresh)
  <2>1. CapacityInv
    BY SteadyFacts DEF FilesInv
  <2>2. Cardinality(Unused) >= 1
    BY <1>1, <2>1, UnusedFinite, FS_CardinalityType DEF CapacityInv
  <2> QED BY <2>2, FreshRow
<1>4. Existing # None
  <2>1. op.put # None /\ ForwardInv
    BY <1>1, SteadyFacts DEF FilesInv, OpInv, PutInv
  <2>2. op.del = None /\ journal[op.put].expected = None
    BY <1>1, SteadyFacts DEF ForwardCalm
  <2> QED BY <1>1, <2>1, <2>2 DEF ForwardInv
<1>5. PICK kind, k, p, same, e : /\ kind = "delete" /\ k = op.key /\ p = Existing.path /\ same = FALSE
                                 /\ e = Existing.version
  OBVIOUS
<1>6. Intent(kind, k, p, same, e)
  BY <1>1, <1>5
<1> QED BY <1>2, <1>3, <1>4, <1>5, <1>6, KeepsIntent DEF Existing

LEMMA StepKeeps ==
    ASSUME Steady, Step
    PROVE  JournalKeeps /\ NewRows
<1>1. CASE InsertDelete
  BY <1>1, InsertDeleteKeeps
<1>2. CASE Prepare
  <2>1. op.pc = "prepare" /\ op.pc \in Forward /\ journal' = [journal EXCEPT ![op.put].prepared = TRUE]
    BY <1>2, NoFault DEF Prepare, At, Forward
  <2>2. op.put # None /\ op.put \in Ops /\ Row(op.put)
    BY <2>1, SteadyFacts, ForwardFacts DEF FilesInv, OpInv, PutInv
  <2>3. PICK u : u = op.put
    OBVIOUS
  <2>4. journal[u] \in JournalRow /\ journal \in [Ops -> JournalRow \cup {None}]
    BY <2>2, <2>3, SteadyFacts, NamesTyped DEF TypeOK
  <2>5. journal'[u] = [journal[u] EXCEPT !.prepared = TRUE] /\ \A o \in Ops : o # u => journal'[o] = journal[o]
    BY <2>1, <2>2, <2>3, <2>4
  <2>6. /\ journal'[u] \in JournalRow /\ journal'[u].expected = journal[u].expected
        /\ journal'[u].path = journal[u].path /\ journal'[u].state = journal[u].state
    BY <2>4, <2>5 DEF JournalRow
  <2>7. Row(u)' /\ (Pending(u)' => Pending(u))
    BY <2>2, <2>3, <2>6, RecordAssumption DEF Row, Pending
  <2> QED BY <2>2, <2>3, <2>5, <2>6, <2>7, KeepsOthers
<1>3. CASE ApplyStorage
  <2>1. /\ op.pc = "apply" /\ op.pc \in Forward
        /\ journal' = [journal EXCEPT ![op.put].state = "storage_applied", ![op.put].result = Current(op.put)]
    BY <1>3, NoFault DEF ApplyStorage, At, Forward
  <2>2. op.put # None /\ op.put \in Ops /\ Row(op.put) /\ Pending(op.put)
    BY <2>1, SteadyFacts, ForwardFacts DEF FilesInv, OpInv, PutInv
  <2>3. PICK u : u = op.put
    OBVIOUS
  <2>4. journal[u] \in JournalRow /\ journal \in [Ops -> JournalRow \cup {None}] /\ Current(u) \in Version
    BY <2>2, <2>3, SteadyFacts, NamesTyped DEF TypeOK, Current, Version, Files
  <2>5. /\ journal'[u] = [journal[u] EXCEPT !.state = "storage_applied", !.result = Current(u)]
        /\ \A o \in Ops : o # u => journal'[o] = journal[o]
    BY <2>1, <2>2, <2>3, <2>4 DEF JournalRow
  <2>6. /\ journal'[u] \in JournalRow /\ journal'[u].expected = journal[u].expected
        /\ journal'[u].path = journal[u].path
    BY <2>4, <2>5 DEF JournalRow
  <2>7. Row(u)'
    BY <2>6, RecordAssumption DEF Row
  <2> QED BY <2>2, <2>3, <2>5, <2>6, <2>7, KeepsOthers
<1>4. CASE MarkDelete
  <2>1. op.pc = "markDelete" /\ op.pc \in Forward /\ SetState(op.del, "storage_applied")
    BY <1>4, NoFault DEF MarkDelete, At, Forward
  <2>2. op.del # None /\ op.del \in Ops /\ Row(op.del) /\ Pending(op.del)
    BY <2>1, SteadyFacts, ForwardFacts DEF FilesInv, OpInv, DelInv
  <2>3. PICK u, st : u = op.del /\ st = "storage_applied"
    OBVIOUS
  <2>4. SetState(u, st) /\ u \in Ops /\ Row(u) /\ Pending(u)
    BY <2>1, <2>2, <2>3
  <2> QED BY <2>3, <2>4, SteadyFacts, KeepsState
<1>5. CASE Commit
  <2>1. \A o \in Ops : Row(o)' <=> Row(o)
    BY <1>5, SteadyFacts, CommitRow
  <2>2. \A o \in Ops : Row(o) =>
            /\ journal'[o].path = journal[o].path /\ journal'[o].expected = journal[o].expected
            /\ o \notin {op.put, op.del} => journal'[o] = journal[o]
            /\ o \in {op.put, op.del} => journal'[o].state = "db_applied"
    BY <1>5, SteadyFacts, CommitRow
  <2>3. \A o \in Ops : Row(o) => (Pending(o)' => Pending(o))
    BY <2>1, <2>2 DEF Pending, Row
  <2> QED BY <2>1, <2>2, <2>3 DEF JournalKeeps, NewRows
<1>6. CASE Complete \/ CompleteDelete
  <2>1. op.pc \in After /\ (op.pc = "complete" \/ op.pc = "completeDelete")
    BY <1>6 DEF Complete, CompleteDelete, At, After
  <2>2. PICK u, st : u = (IF op.pc = "complete" THEN op.put ELSE op.del) /\ st = "completed"
    OBVIOUS
  <2>3. u \in Ops /\ Row(u)
    BY <2>1, <2>2, AfterFacts
  <2>4. SetState(u, st)
    BY <1>6, <2>2, NoFault DEF Complete, CompleteDelete, At, SetState
  <2> QED BY <2>2, <2>3, <2>4, SteadyFacts, KeepsState
<1>7. CASE Close
  <2>1. op.pc = "close" /\ SetState(Recovered, IF Committed(Recovered) THEN "completed" ELSE "failed")
    BY <1>7 DEF Close, At
  <2>2. mode = "recovering"
    BY <2>1, SteadyFacts DEF FilesInv, OpInv, ModeInv, Idle, Holding, Forward, Undoing, After, TypeOK
  <2>3. PICK u, st : u = Recovered /\ st = IF Committed(Recovered) THEN "completed" ELSE "failed"
    OBVIOUS
  <2>4. u \in Ops /\ Row(u) /\ SetState(u, st) /\ st \in {"completed", "failed"}
    BY <2>1, <2>2, <2>3, RecoveredFacts
  <2> QED BY <2>3, <2>4, SteadyFacts, KeepsState
<1>8. CASE FailDelete
  <2>1. op.pc = "failDelete"
    BY <1>8 DEF FailDelete, At
  <2>2. mode = "serving"
    BY <2>1, SteadyFacts, AtServing DEF Undoing
  <2> QED BY <2>1, <2>2, ServingFacts DEF Undoing
<1>9. CASE \/ Link \/ Expose \/ Verify \/ Quarantine \/ Abort \/ Clean \/ Discard \/ MoveAside \/ Unlink
           \/ Restore \/ RereadRestored \/ Unpublish \/ RereadReplaced \/ Finish
           \/ Settle \/ Ready \/ Refuse
  <2>1. CASE Link \/ Expose \/ Verify \/ Quarantine \/ Abort \/ Clean \/ Discard \/ MoveAside \/ Unlink
    BY <2>1, KeepsJournal DEF Link, Expose, Verify, Quarantine, Abort, Clean, Discard, MoveAside, Unlink
  <2>2. CASE Restore \/ RereadRestored \/ Unpublish \/ RereadReplaced \/ Finish
    BY <2>2, KeepsJournal DEF Restore, RereadRestored, Unpublish, RereadReplaced, Finish
  <2>3. CASE Settle \/ Ready \/ Refuse
    BY <2>3, KeepsJournal DEF Settle, Ready, Refuse
  <2> QED BY <1>9, <2>1, <2>2, <2>3
<1>10. CASE (\E o \in Ops : Recover(o)) \/ RecoverPublication \/ RecoverQuarantine
  <2>1. journal' = journal
    BY <1>10, Zenon DEF Recover, RecoverPublication, RecoverQuarantine
  <2> QED BY <2>1, KeepsJournal
<1> QED BY <1>1, <1>2, <1>3, <1>4, <1>5, <1>6, <1>7, <1>8, <1>9, <1>10, Zenon DEF Step

LEMMA NextKeeps ==
    ASSUME Steady, [Next]_vars
    PROVE  JournalKeeps /\ NewRows
<1>1. CASE Start \/ Crash \/ UNCHANGED vars
  BY <1>1, KeepsJournal DEF Start, Crash, vars
<1>2. CASE \E k \in Keys : Claim(k)
  BY <1>2, KeepsJournal DEF Claim
<1>3. CASE \E k \in Keys : Lock(k)
  BY <1>3, LockKeeps
<1> QED BY <1>1, <1>2, <1>3, StepKeeps DEF Next

(* The rows change with the transaction and when a file is reread. *)
LEMMA RowsStay ==
    ASSUME [Next]_vars, ~Commit, ~RereadRestored, ~RereadReplaced
    PROVE  row' = row /\ revision' = revision
<1>1. CASE InsertDelete \/ Prepare \/ Link \/ Expose \/ Verify \/ ApplyStorage \/ Quarantine \/ MarkDelete
  BY <1>1 DEF InsertDelete, Prepare, Link, Expose, Verify, ApplyStorage, Quarantine, MarkDelete, rows
<1>2. CASE Abort \/ Clean \/ Complete \/ Discard \/ CompleteDelete \/ MoveAside \/ Unlink
  BY <1>2 DEF Abort, Clean, Complete, Discard, CompleteDelete, MoveAside, Unlink, rows
<1>3. CASE Restore \/ FailDelete \/ Unpublish \/ Finish
  BY <1>3 DEF Restore, FailDelete, Unpublish, Finish, rows
<1>4. CASE (\E o \in Ops : Recover(o)) \/ RecoverPublication \/ RecoverQuarantine
  <2>1. rows' = rows
    BY <1>4, Zenon DEF Recover, RecoverPublication, RecoverQuarantine
  <2> QED BY <2>1 DEF rows
<1>5. CASE Settle \/ Close \/ Ready \/ Refuse \/ Start \/ Crash \/ UNCHANGED vars
  BY <1>5 DEF Settle, Close, Ready, Refuse, Start, Crash, rows, vars
<1>6. CASE \E k \in Keys : Claim(k) \/ Lock(k)
  BY <1>6 DEF Claim, Lock, rows
<1> QED BY <1>1, <1>2, <1>3, <1>4, <1>5, <1>6 DEF Next, Step

-----------------------------------------------------------------------------
(* Versions of the files of open rows. *)

LEMMA OpenVersionsKept ==
    ASSUME Steady, [Next]_vars, OpenVersions, row' = row,
           \A o \in Unfinished, s \in Setups :
               Pending(o) /\ row[s] # None /\ OldFile(o) = row[s].version.file /\ at[Target(o)] = OldFile(o) =>
                   \/ journal[o].expected = row[s].version
                   \/ at'[Target(o)] = OldFile(o) /\ stamp'[OldFile(o)] = stamp[OldFile(o)]
    PROVE  OpenVersions'
<1> SUFFICES ASSUME NEW o \in Unfinished', NEW s \in Setups, Pending(o)', row[s] # None,
                    OldFile(o)' = row[s].version.file
             PROVE  Expects(o, s)'
  BY DEF OpenVersions
<1>1. JournalKeeps /\ NewRows
  BY NextKeeps
<1>2. o \in Ops /\ Row(o)'
  BY DEF Unfinished, Unused, Row
<1>3. CASE Row(o)
  <2>1. /\ journal'[o].expected = journal[o].expected /\ OldFile(o)' = OldFile(o) /\ Target(o)' = Target(o)
        /\ Pending(o) /\ o \in Unfinished
    BY <1>1, <1>2, <1>3, PendingOpen DEF JournalKeeps, OldFile, Target
  <2>2. Expects(o, s)
    BY <2>1 DEF OpenVersions
  <2>3. CASE journal[o].expected = row[s].version
    BY <2>1, <2>3 DEF Expects
  <2>4. CASE journal[o].expected # row[s].version /\ at[Target(o)] = OldFile(o) /\ UpToDate(s)
    <3>1. at'[Target(o)] = OldFile(o) /\ stamp'[OldFile(o)] = stamp[OldFile(o)]
      BY <2>1, <2>4
    <3>2. UpToDate(s)'
      BY <2>1, <2>4, <3>1 DEF UpToDate, Current
    <3> QED BY <2>1, <3>1, <3>2 DEF Expects
  <2> QED BY <2>2, <2>3, <2>4 DEF Expects
<1>4. CASE ~Row(o)
  <2>1. row[s].version.file \in Ops /\ row[s].version.file # None
    BY SteadyFacts, RowFile
  <2>2. journal'[o].expected # None /\ journal'[o].expected.file = row[s].version.file
    BY <2>1 DEF OldFile
  <2>3. PICK t \in Setups : row[t] # None /\ journal'[o].expected = row[t].version
    BY <1>1, <1>2, <1>4, <2>2 DEF NewRows
  <2>4. t = s
    BY <2>2, <2>3, SteadyFacts, OneRowPerFile
  <2> QED BY <2>3, <2>4 DEF Expects
<1> QED BY <1>3, <1>4

(* The holder of the lock changes the file of a version that it has read. *)
LEMMA ExpectedNow ==
    ASSUME Steady, op.pc \in {"link", "expose", "quarantine"}, NEW o \in Unfinished, NEW s \in Setups,
           row[s] # None, OldFile(o) = row[s].version.file
    PROVE  journal[o].expected = row[s].version
<1>1. op.pc \in Forward
  BY DEF Forward
<1>2. s = R.setup /\ (o = op.put \/ o = op.del) /\ Existing = row[s] /\ o # None
  BY <1>1, ForwardFacts, SteadyFacts, OpenRow DEF Existing
<1>3. OldFile(o) # None
  BY SteadyFacts, RowFile
<1>4. journal[o].expected # None
  BY <1>3 DEF OldFile
<1>5. CASE o = op.del
  BY <1>1, <1>2, <1>5, SteadyFacts DEF ForwardCalm
<1>6. CASE o = op.put /\ op.pc # "quarantine"
  BY <1>1, <1>2, <1>4, <1>6, SteadyFacts DEF ForwardCalm, Unmoved
<1>7. CASE o = op.put /\ op.pc = "quarantine"
  <2>1. op.del # None
    BY <1>7, SteadyFacts DEF FilesInv, OpInv, DelInv
  <2>2. op.del \in Unfinished /\ Deletes(op.del) /\ Publishes(o)
    BY <1>1, <1>2, <1>7, <2>1, ForwardFacts
  <2> QED BY <1>4, <2>2, SteadyFacts DEF SoleRows
<1> QED BY <1>2, <1>5, <1>6, <1>7

(* The files of rows stay where they are when others are moved. *)
LEMMA MoveAsideVersions ==
    ASSUME Steady, [Next]_vars, OpenVersions, MoveAside
    PROVE  OpenVersions'
<1>1. op.pc = "remove" /\ row' = row /\ Rename(op.gc.from, Guard(op.gc.of))
  BY NoFault DEF MoveAside, At, rows
<1>2. PICK x, g : x = op.gc.from /\ g = op.gc.of
  OBVIOUS
<1>3. Removing /\ op.gc # None
  BY <1>1, SteadyFacts DEF FilesInv, OpInv, ModeInv, Removing
<1>4. x \in Places /\ g \in Ops /\ Removable(x, g)
  BY <1>1, <1>2, <1>3, SteadyFacts, OpType DEF FilesInv, OpInv, RemovalInv
<1>5. Guard(g) \in Places /\ x # Guard(g) /\ (at[x] # None => ~InUse(at[x]))
  BY <1>4, SteadyFacts, RemovableFacts, PlacesApart
<1>6. /\ \A z \in Places : z # x /\ z # Guard(g) => at'[z] = at[z]
      /\ \A f \in Ops : f # at[x] => stamp'[f] = stamp[f]
  <2>1. Rename(x, Guard(g))
    BY <1>1, <1>2 DEF Rename
  <2> QED BY <1>4, <1>5, <2>1, SteadyFacts, RenameAt, RenameStamp
<1>7. ASSUME NEW o \in Unfinished, NEW s \in Setups, row[s] # None, OldFile(o) = row[s].version.file,
             at[Target(o)] = OldFile(o)
      PROVE  at'[Target(o)] = OldFile(o) /\ stamp'[OldFile(o)] = stamp[OldFile(o)]
  <2>1. OldFile(o) \in Ops /\ OldFile(o) # None /\ InUse(OldFile(o))
    BY <1>7, SteadyFacts, RowFile
  <2>2. Target(o) \in Places /\ Target(o) # x /\ Target(o) # Guard(g) /\ OldFile(o) # at[x]
    BY <1>4, <1>5, <1>7, <2>1, SteadyFacts, OpenRow, PlacesApart
  <2> QED BY <1>6, <1>7, <2>1, <2>2
<1> QED BY <1>1, <1>7, OpenVersionsKept

LEMMA GuardVersions ==
    ASSUME Steady, [Next]_vars, OpenVersions, Unlink \/ \E o \in Ops : Recover(o)
    PROVE  OpenVersions'
<1>1. PICK g \in Ops : row' = row /\ stamp' = stamp /\ \A z \in Places : z # Guard(g) => at'[z] = at[z]
  <2>1. CASE Unlink
    <3>1. row' = row /\ stamp' = stamp /\ Unlinked /\ op.pc = "unlink"
      BY <2>1, NoFault DEF Unlink, At, rows
    <3>2. op.gc.of \in Ops
      BY <3>1, SteadyFacts, OpType DEF FilesInv, OpInv, ModeInv, Removing
    <3> QED BY <3>1, <3>2, SteadyFacts DEF Unlinked, TypeOK
  <2>2. CASE \E o \in Ops : Recover(o)
    <3>1. PICK o \in Ops : Recover(o)
      BY <2>2
    <3>2. row' = row /\ stamp' = stamp /\ \E v : at' = [at EXCEPT ![Guard(o)] = v]
      BY <3>1, Zenon DEF Recover, rows
    <3> QED BY <3>2, SteadyFacts DEF TypeOK
  <2> QED BY <2>1, <2>2
<1>2. \A o \in Unfinished : Target(o) \in Places /\ Target(o) # Guard(g)
  BY SteadyFacts, OpenRow, PlacesApart
<1> QED BY <1>1, <1>2, OpenVersionsKept

(* Recovery puts back a file that its row has not been reread after. *)
LEMMA RecoverPublicationVersions ==
    ASSUME Steady, [Next]_vars, OpenVersions, RecoverPublication
    PROVE  OpenVersions'
<1>1. row' = row /\ op.pc = "classify" /\ op.put # None
  BY DEF RecoverPublication, At, rows
<1>2. PICK u : u = op.put
  OBVIOUS
<1>3. u \in Unfinished /\ Publishes(u) /\ u \in Ops /\ Row(u)
  BY <1>1, <1>2, ClassifyFacts
<1>4. CASE UNCHANGED disk
  BY <1>1, <1>4, OpenVersionsKept DEF disk
<1>5. CASE TargetNew(op.put) /\ UndoExposure(op.put)
  <2>1. at[Target(u)] = u
    BY <1>2, <1>5 DEF TargetNew
  <2>2. CASE journal[u].expected = None
    BY <1>1, <1>2, <1>5, <2>2, OpenVersionsKept DEF UndoExposure, disk
  <2>3. CASE journal[u].expected # None
    <3>1. ASSUME NEW o \in Unfinished, NEW s \in Setups, Pending(o), row[s] # None, OldFile(o) = row[s].version.file,
                 at[Target(o)] = OldFile(o)
          PROVE  FALSE
      <4>1. o = u
        BY <1>3, <2>3, SteadyFacts, OpenRow DEF SoleRows
      <4>2. u # row[s].version.file
        BY <1>3, <3>1, <4>1, SteadyFacts, RowFile
      <4> QED BY <2>1, <3>1, <4>1, <4>2
    <3> QED BY <1>1, <3>1, OpenVersionsKept
  <2> QED BY <2>2, <2>3
<1> QED BY <1>4, <1>5 DEF RecoverPublication

LEMMA RecoverQuarantineVersions ==
    ASSUME Steady, [Next]_vars, OpenVersions, RecoverQuarantine
    PROVE  OpenVersions'
<1>1. row' = row /\ op.pc = "classify" /\ op.del # None
  BY DEF RecoverQuarantine, At, rows
<1>2. PICK d : d = op.del
  OBVIOUS
<1>3. d \in Unfinished /\ Deletes(d) /\ d \in Ops /\ Row(d)
  BY <1>1, <1>2, ClassifyFacts
<1>4. CASE UNCHANGED disk
  BY <1>1, <1>4, OpenVersionsKept DEF disk
<1>5. CASE Hidden(op.del)
  <2>1. at[Target(d)] = None
    BY <1>2, <1>5 DEF Hidden
  <2>2. ASSUME NEW o \in Unfinished, NEW s \in Setups, Pending(o), row[s] # None, OldFile(o) = row[s].version.file,
               at[Target(o)] = OldFile(o)
        PROVE  FALSE
    <3>1. OldFile(o) # None
      BY <2>2, SteadyFacts, RowFile
    <3>2. ~Publishes(o)
      BY <1>3, <3>1, SteadyFacts DEF SoleRows, OldFile
    <3>3. journal[o].kind = "delete" /\ journal[d].kind = "delete"
      BY <1>3, <3>2, SteadyFacts, OpenRow DEF Deletes
    <3>4. o = d
      BY <1>3, <3>3, SteadyFacts DEF SoleRows
    <3> QED BY <2>1, <2>2, <3>1, <3>4
  <2> QED BY <1>1, <2>2, OpenVersionsKept
<1> QED BY <1>4, <1>5 DEF RecoverQuarantine

(* Reading the identity of a file again changes at most the version of its *)
(* row, to the one that the file at the path has.                          *)
LEMMA RereadIs ==
    ASSUME Steady, RereadRestored \/ RereadReplaced
    PROVE  /\ at' = at /\ stamp' = stamp /\ journal' = journal /\ revision' = revision /\ request' = request
           /\ SameFiles
           /\ \A s \in Setups : row[s] # None =>
                 \/ row'[s] = row[s]
                 \/ at[Public(row[s].path)] = row[s].version.file /\ row'[s].version = Current(row[s].version.file)
<1>1. at' = at /\ stamp' = stamp /\ journal' = journal /\ revision' = revision /\ request' = request /\ claim' = claim
  BY DEF RereadRestored, RereadReplaced, At, disk
<1>2. PICK o : /\ o \in Ops /\ Row(o) /\ OldAtTarget(o) /\ Reread(SetupOf(o), journal[o].path)
  <2>1. CASE RereadRestored
    <3>1. op.pc = "restored" /\ Reread(SetupOf(op.del), journal[op.del].path)
      BY <2>1, NoFault DEF RereadRestored, At
    <3>2. op.del # None /\ op.del \in Ops /\ Row(op.del) /\ OldAtTarget(op.del)
      BY <3>1, SteadyFacts, OpType, OpsAreNot DEF FilesInv, OpInv, DelInv, Pending
    <3> QED BY <3>1, <3>2
  <2>2. CASE RereadReplaced
    <3>1. op.pc = "unpublished" /\ Reread(SetupOf(op.put), journal[op.put].path)
      BY <2>2, NoFault DEF RereadReplaced, At
    <3>2. mode = "recovering"
      BY <3>1, SteadyFacts DEF ServingCalm, Undoing, FilesInv, OpInv, ModeInv, Idle, TypeOK
    <3>3. op.put # None /\ OldAtTarget(op.put)
      BY <3>1, SteadyFacts DEF FilesInv, OpInv, PutInv
    <3>4. op.put \in Ops /\ Row(op.put)
      BY <3>1, <3>2, <3>3, RecoveredFacts
    <3> QED BY <3>1, <3>3, <3>4
  <2> QED BY <2>1, <2>2
<1>3. SameFiles
  BY <1>1, <1>2, SteadyFacts, RereadKept
<1>4. PICK p, t : p = journal[o].path /\ t = SetupOf(o)
  OBVIOUS
<1>5. p \in Paths /\ Target(o) = Public(p)
  BY <1>2, <1>4, SteadyFacts, NamesTyped
<1>6. ASSUME NEW s \in Setups, row[s] # None, row'[s] # row[s]
      PROVE  at[Public(row[s].path)] = row[s].version.file /\ row'[s].version = Current(row[s].version.file)
  <2>1. row \in [Setups -> [path : Paths, version : Version] \cup {None}]
    BY SteadyFacts DEF TypeOK
  <2>2. row[t] # None /\ row[t].path = p /\ row' = [row EXCEPT ![t].version = Current(at[Public(p)])]
    BY <1>2, <1>4, <1>6 DEF Reread
  <2>3. s = t
    BY <1>6, <2>1, <2>2
  <2>4. row[s].version.file = at[Public(p)]
    BY <1>2, <1>5, <1>6, <2>2, <2>3, SteadyFacts, RereadRow DEF OldAtTarget
  <2>5. row[s] \in [path : Paths, version : Version]
    BY <1>6, <2>1
  <2> QED BY <2>1, <2>2, <2>3, <2>4, <2>5
<1> QED BY <1>1, <1>3, <1>6

LEMMA RereadVersions ==
    ASSUME Steady, OpenVersions, RereadRestored \/ RereadReplaced
    PROVE  OpenVersions'
<1>1. at' = at /\ stamp' = stamp /\ journal' = journal /\ SameFiles
  BY RereadIs
<1> SUFFICES ASSUME NEW o \in Unfinished, NEW s \in Setups, Pending(o), row'[s] # None,
                    OldFile(o) = row'[s].version.file
             PROVE  Expects(o, s)'
  <2>1. /\ Unfinished' = Unfinished
        /\ \A o \in Unfinished : (Pending(o)' <=> Pending(o)) /\ OldFile(o)' = OldFile(o)
    BY <1>1, SameJournal DEF Unfinished, OldFile
  <2> QED BY <2>1 DEF OpenVersions
<1>2. row[s] # None /\ OldFile(o) = row[s].version.file /\ Target(o)' = Target(o) /\ OldFile(o)' = OldFile(o)
  BY <1>1 DEF SameFiles, Target, OldFile
<1>3. Expects(o, s)
  BY <1>2 DEF OpenVersions
<1>4. CASE row'[s] = row[s]
  BY <1>1, <1>2, <1>3, <1>4 DEF Expects, UpToDate, Current
<1>5. CASE row'[s] # row[s]
  <2>1. at[Public(row[s].path)] = row[s].version.file /\ row'[s].version = Current(row[s].version.file)
    BY <1>2, <1>5, RereadIs
  <2>2. o \in Ops /\ Row(o) /\ Target(o) = Public(journal[o].path)
    BY SteadyFacts, OpenRow
  <2>3. row[s].version.file # None /\ journal[row[s].version.file].path = row[s].path
    BY <1>2, SteadyFacts, RowFile DEF Proper
  <2>4. journal[o].expected # None
    BY <1>2, <2>3 DEF OldFile
  <2>5. journal[OldFile(o)].path = journal[o].path
    BY <2>2, <2>4, SteadyFacts, OldFileIs DEF Proper
  <2>6. at[Target(o)] = OldFile(o)
    BY <1>2, <2>1, <2>2, <2>3, <2>5
  <2>7. UpToDate(s)'
    BY <1>1, <2>1 DEF UpToDate, Current
  <2> QED BY <1>1, <1>2, <2>6, <2>7 DEF Expects
<1> QED BY <1>4, <1>5

(* After the transaction no row of the journal is undone any more. *)
LEMMA CommitVersions ==
    ASSUME Steady, Commit
    PROVE  OpenVersions'
<1>1. op.pc \in Forward
  BY DEF Commit, At, Forward
<1>2. Unfinished \subseteq {op.put, op.del}
  BY <1>1, ForwardFacts
<1>3. \A o \in Ops : Row(o)' <=> Row(o)
  BY SteadyFacts, CommitRow
<1>4. \A o \in Ops : Row(o) => /\ o \notin {op.put, op.del} => journal'[o] = journal[o]
                               /\ o \in {op.put, op.del} => journal'[o].state = "db_applied"
  BY SteadyFacts, CommitRow
<1>5. \A o \in Ops : ~Pending(o)'
  <2> SUFFICES ASSUME NEW o \in Ops, Pending(o)' PROVE FALSE
    OBVIOUS
  <2>1. Row(o) /\ journal'[o].state \in {"intent", "storage_applied"}
    BY <1>3 DEF Pending
  <2>2. journal'[o] = journal[o] /\ o \notin {op.put, op.del}
    BY <1>4, <2>1
  <2>3. o \in Unfinished
    BY <2>1, <2>2, PendingOpen DEF Pending
  <2> QED BY <1>2, <2>2, <2>3
<1>6. \A o \in Unfinished' : o \in Ops
  BY DEF Unfinished
<1> QED BY <1>5, <1>6 DEF OpenVersions

LEMMA OpenVersionsStep ==
    ASSUME Steady, [Next]_vars, OpenVersions
    PROVE  OpenVersions'
<1>1. CASE Commit
  BY <1>1, CommitVersions
<1>2. CASE RereadRestored \/ RereadReplaced
  BY <1>2, RereadVersions
<1>3. CASE Link \/ Expose \/ Quarantine
  <2>1. op.pc \in {"link", "expose", "quarantine"} /\ row' = row
    BY <1>3 DEF Link, Expose, Quarantine, At, rows
  <2> QED BY <2>1, ExpectedNow, OpenVersionsKept
<1>4. CASE MoveAside
  BY <1>4, MoveAsideVersions
<1>5. CASE Unlink \/ \E o \in Ops : Recover(o)
  BY <1>5, GuardVersions
<1>6. CASE RecoverPublication
  BY <1>6, RecoverPublicationVersions
<1>7. CASE RecoverQuarantine
  BY <1>7, RecoverQuarantineVersions
<1>8. CASE Restore \/ FailDelete \/ Unpublish
  <2>1. op.pc \in {"restore", "failDelete", "unpublish"}
    BY <1>8 DEF Restore, FailDelete, Unpublish, At
  <2>2. mode = "serving"
    BY <2>1, SteadyFacts, AtServing DEF Undoing
  <2> QED BY <2>1, <2>2, ServingFacts DEF Undoing
<1>9. ASSUME at' = at, stamp' = stamp, row' = row PROVE OpenVersions'
  BY <1>9, OpenVersionsKept
<1>10. CASE \/ InsertDelete \/ Prepare \/ Verify \/ ApplyStorage \/ MarkDelete \/ Abort \/ Clean \/ Complete \/ Discard
            \/ CompleteDelete \/ Finish
  BY <1>9, <1>10 DEF InsertDelete, Prepare, Verify, ApplyStorage, MarkDelete, Abort, Clean, Complete, Discard,
                     CompleteDelete, Finish, disk, rows
<1>11. CASE Settle \/ Close \/ Ready \/ Refuse \/ Start \/ Crash \/ UNCHANGED vars
  BY <1>9, <1>11 DEF Settle, Close, Ready, Refuse, Start, Crash, disk, rows, vars
<1>12. CASE \E k \in Keys : Claim(k) \/ Lock(k)
  BY <1>9, <1>12 DEF Claim, Lock, disk, rows
<1> QED BY <1>1, <1>2, <1>3, <1>4, <1>5, <1>6, <1>7, <1>8, <1>10, <1>11, <1>12, Zenon DEF Next, Step

-----------------------------------------------------------------------------
(* Versions that clients have read. *)

LEMMA ReadVersionKept ==
    ASSUME Steady, [Next]_vars, NEW k \in Keys, ReadVersion(k), request'[k] = request[k],
           row'[request[k].setup] = row[request[k].setup], revision'[request[k].setup] = revision[request[k].setup]
    PROVE  ReadVersion(k)'
<1>1. \A o \in Ops : Row(o) => Row(o)' /\ journal'[o].expected = journal[o].expected
  BY NextKeeps DEF JournalKeeps
<1> QED BY <1>1 DEF ReadVersion

(* A client repeats what it has read: the revision and the version of now. *)
LEMMA ClaimReads ==
    ASSUME Steady, NEW k \in Keys, Claim(k), request[k] = None, request'[k].version # None
    PROVE  ReadVersion(k)'
<1>1. row' = row /\ revision' = revision
  BY DEF Claim, rows
<1>2. request \in [Keys -> Request \cup {None}] /\ revision \in [Setups -> Nat]
  BY SteadyFacts DEF TypeOK
<1>3. PICK s \in Setups : \E r \in Wanted(s) : request' = [request EXCEPT ![k] = r]
  BY DEF Claim
<1>4. PICK r \in Wanted(s) : request' = [request EXCEPT ![k] = r]
  BY <1>3
<1>5. PICK v : v = IF row[s] = None THEN None ELSE row[s].version
  OBVIOUS
<1>6. r \in [kind : {"put", "delete"}, setup : {s}, path : Paths \cup {None}, same : BOOLEAN,
             revision : {revision[s]}, version : {v}]
  BY <1>4, <1>5 DEF Wanted
<1>7. request'[k] = r /\ r.setup = s /\ r.revision = revision[s] /\ r.version = v
  BY <1>2, <1>4, <1>6
<1>8. row[s] # None /\ r.version = row[s].version
  BY <1>5, <1>7
<1> QED BY <1>1, <1>2, <1>7, <1>8 DEF ReadVersion

(* The transaction raises the revision past the one of every request that *)
(* was read before it.                                                     *)
LEMMA CommitReads ==
    ASSUME Steady, [Next]_vars, Commit, NEW k \in Keys, request[k] # None, ReadVersion(k)
    PROVE  ReadVersion(k)'
<1>1. request' = request /\ revision' = [revision EXCEPT ![R.setup] = @ + 1] /\ op.pc \in Forward
  BY DEF Commit, At, Forward
<1>2. \A s \in Setups : s # R.setup => row'[s] = row[s]
  BY SteadyFacts, CommitRow
<1>3. /\ revision \in [Setups -> Nat] /\ request[k].setup \in Setups /\ request[k].revision \in Nat
      /\ R.setup \in Setups
  BY <1>1, SteadyFacts, ForwardFacts DEF TypeOK, Request
<1>4. CASE request[k].setup # R.setup
  BY <1>1, <1>2, <1>3, <1>4, ReadVersionKept
<1>5. CASE request[k].setup = R.setup
  <2>1. PICK s, n : s = request[k].setup /\ n = revision[s]
    OBVIOUS
  <2>2. revision'[s] = n + 1 /\ request[k].revision <= n /\ n \in Nat
    BY <1>1, <1>3, <1>5, <2>1 DEF ReadVersion
  <2> QED BY <1>1, <1>3, <2>1, <2>2 DEF ReadVersion
<1> QED BY <1>4, <1>5

(* Undoing a request changes the version of a file whose old version the *)
(* journal expects.                                                       *)
LEMMA RereadReads ==
    ASSUME Steady, OpenVersions, RereadRestored \/ RereadReplaced, NEW k \in Keys, request[k] # None, ReadVersion(k)
    PROVE  ReadVersion(k)'
<1>1. /\ at' = at /\ stamp' = stamp /\ journal' = journal /\ revision' = revision /\ request' = request /\ SameFiles
  BY RereadIs
<1>2. PICK r, s : r = request[k] /\ s = request[k].setup
  OBVIOUS
<1>3. s \in Setups
  BY <1>2, SteadyFacts DEF TypeOK, Request
<1>4. SUFFICES ASSUME r.revision = revision[s]
               PROVE  /\ row'[s] # None /\ row'[s].version.file = r.version.file
                      /\ row'[s].version = r.version \/ \E o \in Ops : Row(o) /\ journal[o].expected = r.version
  BY <1>1, <1>2 DEF ReadVersion, Row
<1>5. /\ row[s] # None /\ row[s].version.file = r.version.file
      /\ row[s].version = r.version \/ \E o \in Ops : Row(o) /\ journal[o].expected = r.version
  BY <1>2, <1>4 DEF ReadVersion
<1>6. row'[s] # None /\ row'[s].version.file = r.version.file
  BY <1>1, <1>3, <1>5 DEF SameFiles
<1>7. CASE row[s].version = r.version
  <2>1. CASE row'[s] = row[s]
    BY <1>6, <1>7, <2>1
  <2>2. CASE row'[s].version = Current(row[s].version.file) /\ UpToDate(s)
    BY <1>6, <1>7, <2>2 DEF UpToDate
  <2>3. CASE row'[s].version = Current(row[s].version.file) /\ \E o \in Unfinished : Rereads(o, s)
    <3>1. PICK o \in Unfinished : Rereads(o, s)
      BY <2>3
    <3>2. o \in Ops /\ Row(o) /\ Expects(o, s)
      BY <1>3, <1>5, <3>1, SteadyFacts, OpenRow DEF OpenVersions, Rereads
    <3>3. CASE journal[o].expected = row[s].version
      BY <1>6, <1>7, <3>2, <3>3
    <3>4. CASE UpToDate(s)
      BY <2>2, <2>3, <3>4
    <3> QED BY <3>2, <3>3, <3>4 DEF Expects
  <2> QED BY <1>3, <1>5, <2>1, <2>2, <2>3, SteadyFacts, RereadIs DEF Versions
<1> QED BY <1>5, <1>6, <1>7

LEMMA ReadVersionsStep ==
    ASSUME Steady, [Next]_vars, OpenVersions, ReadVersions
    PROVE  ReadVersions'
<1> SUFFICES ASSUME NEW k \in Keys, request'[k] # None, request'[k].version # None PROVE ReadVersion(k)'
  BY DEF ReadVersions
<1>1. CASE request[k] = None
  <2>1. PICK l \in Keys : Claim(l)
    BY <1>1, OnlyClaims
  <2>2. request' = request \/ \E r : request' = [request EXCEPT ![l] = r]
    BY <2>1 DEF Claim
  <2>3. l = k
    BY <1>1, <2>2, SteadyFacts DEF TypeOK
  <2> QED BY <1>1, <2>1, <2>3, ClaimReads
<1>2. CASE request[k] # None
  <2>1. request'[k] = request[k] /\ ReadVersion(k)
    BY <1>2, SteadyFacts, RequestsStay DEF ReadVersions
  <2>2. CASE Commit
    BY <1>2, <2>1, <2>2, CommitReads
  <2>3. CASE RereadRestored \/ RereadReplaced
    BY <1>2, <2>1, <2>3, RereadReads
  <2>4. CASE ~Commit /\ ~RereadRestored /\ ~RereadReplaced
    BY <2>1, <2>4, RowsStay, ReadVersionKept
  <2> QED BY <2>2, <2>3, <2>4
<1> QED BY <1>1, <1>2

(* RetryInv holds: what the rows say of the versions that were read. *)
THEOREM RetryInvariant == Spec => []RetryInv
<1>1. Init => RetryInv
  <2> SUFFICES ASSUME Init PROVE OpenVersions /\ ReadVersions
    BY DEF RetryInv
  <2>1. (\A s \in Setups : row[s] = None) /\ (\A k \in Keys : request[k] = None)
    BY DEF Init
  <2> QED BY <2>1 DEF OpenVersions, ReadVersions
<1>2. FilesInv /\ FilesInv' /\ RecoveryInv /\ RetryInv /\ [Next]_vars => RetryInv'
  <2> SUFFICES ASSUME FilesInv, FilesInv', RecoveryInv, RetryInv, [Next]_vars, Undisturbed', ~SameBytes
               PROVE  OpenVersions' /\ ReadVersions'
    BY DEF RetryInv
  <2>1. Steady /\ OpenVersions /\ ReadVersions
    BY UndisturbedBefore DEF Steady, RecoveryInv, RetryInv
  <2> QED BY <2>1, OpenVersionsStep, ReadVersionsStep
<1> QED BY <1>1, <1>2, FilesInvariant, RecoveryInvariant, PTL DEF Spec

(* A client that repeats a request which it got no outcome for is not turned *)
(* away because its own first attempt, undone by the recovery, has changed    *)
(* the version of the file: allowRecoveredCatalogFilePrecondition finds the    *)
(* row of that attempt. One setup has had requests and no replacement uploads  *)
(* the bytes that it replaces, as for RecoveryIsComplete.                       *)
THEOREM RetriesAreAccepted ==
    ASSUME ~SameBytes
    PROVE  Spec => [](Undisturbed => RetryAccepted)
<1>1. FilesInv /\ RecoveryInv /\ RetryInv => (Undisturbed => RetryAccepted)
  <2> SUFFICES ASSUME FilesInv, RecoveryInv, RetryInv, Undisturbed, NEW k \in waiting, op = Idle,
                      request[k].revision = revision[request[k].setup], request[k].version # None,
                      \A o \in Ops \ Unused :
                          journal[o].state = "failed" /\ OldFile(o) = request[k].version.file => journal[o].key = k
               PROVE  Accepted(k)
    BY DEF RetryAccepted
  <2>1. TypeOK /\ Store /\ RequestInv /\ Tables /\ ServingCalm /\ ReadVersions
    BY DEF FilesInv, RecoveryInv, Calm, RetryInv
  <2>2. k \in Keys /\ request[k] # None /\ mode = "serving"
    BY <2>1 DEF RequestInv, TypeOK
  <2>3. PICK r, s, v : r = request[k] /\ s = request[k].setup /\ v = request[k].version
    OBVIOUS
  <2>4. s \in Setups /\ v \in Version
    BY <2>1, <2>2, <2>3 DEF TypeOK, Request
  <2>5. /\ row[s] # None /\ row[s].version.file = v.file
        /\ row[s].version = v \/ \E o \in Ops : Row(o) /\ journal[o].expected = v
    BY <2>1, <2>2, <2>3 DEF ReadVersions, ReadVersion
  <2>6. Unfinished = {}
    <3>1. Unfinished \subseteq {None} /\ Unfinished \subseteq Ops
      BY <2>1, <2>2 DEF ServingCalm, Idle, Unfinished
    <3> QED BY <3>1, OpsAreNot
  <2>7. CASE row[s].version = v
    BY <2>3, <2>5, <2>7 DEF Accepted
  <2>8. CASE \E o \in Ops : Row(o) /\ journal[o].expected = v
    <3>1. PICK o \in Ops : Row(o) /\ journal[o].expected = v
      BY <2>8
    <3>2. OldFile(o) = v.file /\ InUse(v.file)
      BY <2>3, <2>4, <2>5, <3>1 DEF OldFile, InUse
    <3>3. ~Done(o)
      BY <2>1, <2>3, <3>1, <3>2, OldFileIs
    <3>4. journal[o].state = "failed" /\ o \in Ops \ Unused
      BY <2>1, <2>6, <3>1, <3>3, NamesTyped DEF Done, Unfinished, Unused, Row, JournalRow
    <3>5. journal[o].key = k
      BY <2>3, <3>2, <3>4
    <3>6. PICK p : p = row[s].path
      OBVIOUS
    <3>7. p \in Paths /\ v.file # None /\ Home(v.file, p)
      BY <2>1, <2>4, <2>5, <3>6, RowFile
    <3>8. at[Public(p)] = v.file
      BY <2>6, <3>7, PendingOpen DEF Home, HiddenBy, ExchangedBy
    <3>9. row[s].version = Current(v.file)
      BY <2>1, <2>4, <2>5, <2>6 DEF Tables, Versions, UpToDate
    <3>10. Alias(k, s)
      BY <2>3, <2>5, <3>1, <3>2, <3>4, <3>5, <3>6, <3>7, <3>8, <3>9 DEF Alias
    <3> QED BY <2>3, <2>5, <3>10 DEF Accepted
  <2> QED BY <2>5, <2>7, <2>8
<1> QED BY <1>1, FilesInvariant, RecoveryInvariant, RetryInvariant, PTL

=============================================================================
