------------------------------ MODULE CatalogTree ------------------------------
(***************************************************************************)
(* The catalogue's folders and setups: the six requests that create, move  *)
(* and delete them and GetCatalogTree (internal/service/catalog.go), the   *)
(* directory under them (internal/storage/catalog_linux.go), and recovery  *)
(* at start (internal/service/catalog_recovery.go).                        *)
(*                                                                         *)
(* A request holds the catalog-tree lock.  For each file or folder it      *)
(* journals an intent and renames; then one transaction changes the rows.  *)
(* A creation renames a hidden directory into view, a deletion renames to  *)
(* a hidden name and removes later; undoing is the rename back.            *)
(*                                                                         *)
(* A path is a sequence of names; the hidden name of a journal row is the  *)
(* row's index.  A version is the count of the inode's changes (its ctime),*)
(* which a rename advances for the inode and the directories it is in.     *)
(***************************************************************************)
EXTENDS Naturals, Sequences, FiniteSets, SequencesExt

CONSTANTS
    Names, Fold,          \* file names, and the key under which the database compares them
    FolderIds, SetupIds,
    Plans,    \* bound: the tree there is at first, the requests that come, whether it is read, how many calls to the
              \* database or the file system fail, how often the process ends
    None

Ops == 1..3
Roles == <<"program", "sheet">>

ASSUME FoldAssumption == Fold \in [Names -> Names]
ASSUME IdsAssumption == None \notin FolderIds \cup SetupIds \cup Names /\ FolderIds \cap SetupIds = {}
ASSUME PlansAssumption ==
    \A p \in Plans : DOMAIN p.asks \subseteq Ops /\ \A o \in DOMAIN p.asks :
        /\ p.asks[o].id \in FolderIds \cup SetupIds /\ p.asks[o].folder \in FolderIds \cup {None}
        /\ p.asks[o].name \in Names \cup {None}
        /\ p.mishaps \in Nat /\ p.stops \in Nat

VARIABLES
    disk,       \* the entries of the program directory: which inode is at which path
    stamp,      \* the version of each inode
    folders, setups, rows, generation,      \* catalog_folders, catalog_setups, catalog_files, catalog_state
    journal,    \* catalog_operations
    claims,     \* idempotency_requests
    pc, seen,   \* of each request: where it stands, and the revision its client has read
    work,       \* what the holder of the catalog-tree lock is doing
    rec,        \* the journal row that recovery is at, and its step
    reader,     \* a GetCatalogTree
    mode, plan, mishaps, stops,
    tainted     \* history: the journal rows that a failure or an end left in a state of no return

tables == <<folders, setups, rows, generation>>
store  == <<disk, stamp>>
bounds == <<plan, mishaps, stops>>
vars   == <<store, tables, journal, claims, pc, seen, work, rec, reader, mode, bounds, tainted>>

-----------------------------------------------------------------------------
(* The directory. *)

Holding(p) == {e \in disk : e.path = p}
NodeAt(p)  == IF Holding(p) = {} THEN 0 ELSE (CHOOSE e \in Holding(p) : TRUE).node
Vacant(p)  == NodeAt(p) = 0 /\ (Len(p) = 1 \/ NodeAt(Front(p)) # 0)

\* A path when what is at from has become to.
Rebased(p, from, to) == IF IsPrefix(from, p) THEN to \o SubSeq(p, Len(from) + 1, Len(p)) ELSE p

Touched(nodes) == [n \in DOMAIN stamp |-> IF n \in nodes THEN stamp[n] + 1 ELSE stamp[n]]
DirOf(p) == NodeAt(Front(p))
Rename(from, to) ==
    /\ disk' = {[e EXCEPT !.path = Rebased(@, from, to)] : e \in disk}
    /\ stamp' = Touched({NodeAt(from), DirOf(from), DirOf(to)})
Unlink(p) ==
    /\ disk' = disk \ Holding(p)
    /\ stamp' = Touched({DirOf(p)})

(* The rows. *)

PathKey(p) == [i \in DOMAIN p |-> Fold[p[i]]]
FolderPath(f) == IF f = None THEN <<>> ELSE folders[f].path
KnownFolder(f) == f # None => folders[f] # None
FilesOf(s) == {r \in rows : r.setup = s}
Inside(f) == {g \in FolderIds : folders[g] # None /\ IsStrictPrefix(folders[f].path, folders[g].path)}

\* refreshCatalogFileIdentity, of the file rows at a path; folders have no version in their rows.
RefreshWith(path, version) == rows' = {IF r.path = path THEN [r EXCEPT !.version = version] ELSE r : r \in rows}

-----------------------------------------------------------------------------
(* The requests. *)

Asked == DOMAIN plan.asks
Ask(o) == plan.asks[o]
Kind(o) == Ask(o).kind
OnFolder(o) == Ask(o).id \in FolderIds
Entity(o) == IF OnFolder(o) THEN folders[Ask(o).id] ELSE setups[Ask(o).id]

Revision(o) == IF Entity(o) = None THEN 0 ELSE Entity(o).revision
Name(o) == IF Ask(o).name = None THEN Entity(o).name ELSE Ask(o).name
Destination(o) == Append(FolderPath(Ask(o).folder), Name(o))

Active == {"intent", "storage_applied", "db_applied"}
Unfinished == {i \in DOMAIN journal : journal[i].state \in Active}
RowOf(w) == w.rows[Len(w.rows)]
Current == journal[RowOf(work)]
SetState(i, state) == journal' = [journal EXCEPT ![i].state = state]

Item(kind, file, from, to, node, version) ==
    [kind |-> kind, file |-> file, from |-> from, to |-> to, node |-> node, version |-> version]
Step(at) == work' = [work EXCEPT !.at = at]
Works == UNCHANGED <<plan, mishaps, stops>>
Mishap == mishaps < plan.mishaps /\ mishaps' = mishaps + 1 /\ UNCHANGED <<plan, stops>>
Working(at) == mode = "up" /\ work # None /\ work.at = at
Handling == UNCHANGED <<claims, pc, seen, rec, reader, mode, tainted>>

\* The claim of the request's key: its own, or what it ended with.
Claim(o) ==
    /\ mode = "up" /\ o \in Asked /\ pc[o] = "idle"
    /\ seen' = [seen EXCEPT ![o] = IF @ = None THEN Revision(o) ELSE @]
    /\ IF claims[o] = "none"
       THEN claims' = [claims EXCEPT ![o] = "in_progress"] /\ pc' = [pc EXCEPT ![o] = "locking"]
       ELSE pc' = [pc EXCEPT ![o] = "done"] /\ UNCHANGED claims
    /\ UNCHANGED <<store, tables, journal, work, rec, reader, mode, bounds, tainted>>

Unchanged(o) == Entity(o) # None /\ Entity(o).revision = seen[o]

\* A folder may go to a folder that is neither itself nor under it; a folder's inode is read before it is moved.
MayMove(o) ==
    LET folder == Entity(o)
        parent == FolderPath(Ask(o).folder)
    IN /\ Ask(o).folder # Ask(o).id /\ KnownFolder(Ask(o).folder) /\ ~IsPrefix(folder.path, parent)
       /\ Destination(o) # folder.path => NodeAt(folder.path) # 0
Empty(f) == \A g \in FolderIds : (folders[g] # None => folders[g].parent # f)
            /\ \A s \in SetupIds : setups[s] # None => setups[s].folder # f

Acceptable(o) ==
    CASE Kind(o) \in {"createFolder", "createSetup"} -> KnownFolder(Ask(o).folder)
      [] Kind(o) = "moveFolder" -> Unchanged(o) /\ MayMove(o)
      [] Kind(o) = "deleteFolder" -> Unchanged(o) /\ Empty(Ask(o).id) /\ NodeAt(Entity(o).path) # 0
      [] Kind(o) = "moveSetup" -> Unchanged(o) /\ KnownFolder(Ask(o).folder)
      [] OTHER -> Unchanged(o)

\* What is to be renamed: the folder, or the files of the setup, its program first.
FolderItem(o, kind, to) ==
    LET path == Entity(o).path IN Item(kind, FALSE, path, to, NodeAt(path), stamp[NodeAt(path)])
FileItem(kind, r, to) == Item(kind, TRUE, r.path, to, r.node, r.version)
FileItems(o, kind, to) ==
    LET has(role) == \E r \in FilesOf(Ask(o).id) : r.role = role
        row(role) == CHOOSE r \in FilesOf(Ask(o).id) : r.role = role
        held == SelectSeq(Roles, has)
    IN [i \in DOMAIN held |-> FileItem(kind, row(held[i]), to[row(held[i])])]

CreationOf(o) == <<Item("create", FALSE, <<>>, Destination(o), 0, 0)>>
FolderMove(o) == IF Destination(o) = Entity(o).path THEN <<>> ELSE <<FolderItem(o, "move", Destination(o))>>
FolderRemoval(o) == <<FolderItem(o, "trash", <<>>)>>
SetupMove(o) ==
    LET into == [r \in FilesOf(Ask(o).id) |-> Append(FolderPath(Ask(o).folder), Last(r.path))]
    IN IF Ask(o).folder = Entity(o).folder THEN <<>> ELSE FileItems(o, "move", into)
SetupRemoval(o) == FileItems(o, "trash", [r \in FilesOf(Ask(o).id) |-> <<>>])

Items(o) ==
    CASE Kind(o) = "createFolder" -> CreationOf(o)
      [] Kind(o) = "moveFolder" -> FolderMove(o)
      [] Kind(o) = "deleteFolder" -> FolderRemoval(o)
      [] Kind(o) = "createSetup" -> <<>>
      [] Kind(o) = "moveSetup" -> SetupMove(o)
      [] Kind(o) = "deleteSetup" -> SetupRemoval(o)

\* Where everything is, whatever the versions.
Placed(r) == [r EXCEPT !.version = 0]
Layout == <<disk, folders, setups, {Placed(r) : r \in rows}>>

\* The lock is taken and the request is checked against the rows.
Begin(o) ==
    /\ mode = "up" /\ o \in Asked /\ pc[o] = "locking" /\ work = None
    /\ \/ /\ Acceptable(o)
          /\ work' = [op |-> o, items |-> Items(o), rows |-> <<>>, done |-> 0, before |-> Layout,
                      at |-> IF Items(o) = <<>> THEN "commit" ELSE "insert"]
          /\ pc' = [pc EXCEPT ![o] = "working"]
          /\ Works
       \/ /\ IF Acceptable(o) THEN Mishap ELSE Works
          /\ pc' = [pc EXCEPT ![o] = "failed"]
          /\ UNCHANGED work
    /\ UNCHANGED <<store, tables, journal, claims, seen, rec, reader, mode, tainted>>

-----------------------------------------------------------------------------
(* One item: its journal row, the rename, and the mark. *)

\* The next item, or the transaction.
Further == IF Len(work.rows) < Len(work.items) THEN "insert" ELSE "commit"
Abandon == Step("undo")

\* insertCatalogOperation.
Insert ==
    LET item == work.items[Len(work.rows) + 1]
        i == Len(journal) + 1
        row == [kind |-> item.kind, file |-> item.file, by |-> work.op, node |-> item.node,
                from |-> IF item.kind = "create" THEN Append(Front(item.to), i) ELSE item.from,
                to |-> IF item.kind = "trash" THEN <<i>> ELSE item.to,
                expected |-> item.version, result |-> 0, state |-> "intent"]
    IN /\ Working("insert")
       /\ \/ /\ journal' = Append(journal, row)
             /\ work' = [work EXCEPT !.rows = Append(@, i), !.at = IF item.kind = "create" THEN "mkdir" ELSE "rename"]
             /\ Works
          \/ Mishap /\ Abandon /\ UNCHANGED journal
       /\ UNCHANGED <<store, tables>> /\ Handling

\* CreateFolderPrepared makes the hidden directory, has its inode written to the row, and renames it.
Mkdir ==
    /\ Working("mkdir")
    /\ \/ /\ disk' = disk \cup {[path |-> Current.from, node |-> Len(stamp) + 1]}
          /\ stamp' = Append(Touched({DirOf(Current.from)}), 0)
          /\ Step("prepare") /\ Works
       \/ Mishap /\ Abandon /\ UNCHANGED store
    /\ UNCHANGED <<tables, journal>> /\ Handling
Prepare ==
    /\ Working("prepare")
    /\ \/ /\ journal' = [journal EXCEPT ![RowOf(work)].node = NodeAt(Current.from)]
          /\ Step("rename") /\ Works /\ UNCHANGED store
       \/ Mishap /\ Abandon /\ Unlink(Current.from) /\ UNCHANGED journal
    /\ UNCHANGED tables /\ Handling

\* The new directory is renamed into view, or removed: its name is taken, or cannot be synced.
Expose ==
    /\ Working("rename") /\ Current.kind = "create"
    /\ \/ Vacant(Current.to) /\ Rename(Current.from, Current.to) /\ Step("record") /\ Works
       \/ /\ IF Vacant(Current.to) THEN Mishap ELSE Works
          /\ Unlink(Current.from) /\ Abandon
    /\ UNCHANGED <<tables, journal>> /\ Handling

\* The version of the created directory is added to the row; only then the undoing is armed.
Record ==
    /\ Working("record")
    /\ \/ work' = [work EXCEPT !.at = "mark", !.done = 1] /\ Works
       \/ Mishap /\ Abandon
    /\ UNCHANGED <<store, tables, journal>> /\ Handling

\* The checks of MoveExpected and Quarantine before the rename; an empty folder only is quarantined.
Movable ==
    /\ NodeAt(Current.from) = Current.node /\ stamp[Current.node] = Current.expected
    /\ IF Current.kind = "trash" THEN Current.file \/ ~\E e \in disk : Len(e.path) > Len(Current.from) /\ IsPrefix(Current.from, e.path)
       ELSE Vacant(Current.to)

\* From when on a failure undoes the item: a move of a folder only once it is marked.
ArmedByRename == Current.file \/ Current.kind = "trash"
Relocate ==
    /\ Working("rename") /\ Current.kind # "create" /\ Movable
    /\ Rename(Current.from, Current.to)
    /\ work' = [work EXCEPT !.at = "mark", !.done = IF ArmedByRename THEN @ + 1 ELSE @]
    /\ Works /\ UNCHANGED <<tables, journal>> /\ Handling

\* The rename is refused, or was made and is taken back.  A move that has nothing to report closes its row;
\* so does a quarantine that could be restored, with the file's identity read again.
Unmoved ==
    /\ Working("rename") /\ Current.kind # "create"
    /\ IF Movable THEN Mishap ELSE Works
    /\ UNCHANGED store
    /\ IF Current.kind = "move" THEN SetState(RowOf(work), "failed") ELSE UNCHANGED journal
    /\ Abandon /\ UNCHANGED tables /\ Handling
MovedBack ==
    /\ Working("rename") /\ Current.kind # "create" /\ Movable /\ Mishap
    /\ UNCHANGED disk
    /\ stamp' = Touched({Current.node, DirOf(Current.from), DirOf(Current.to)})
    /\ \/ SetState(RowOf(work), "failed") /\ IF Current.kind = "trash" /\ Current.file
                                             THEN RefreshWith(Current.from, stamp'[Current.node]) ELSE UNCHANGED rows
       \/ UNCHANGED <<journal, rows>>
    /\ Abandon /\ UNCHANGED <<folders, setups, generation>> /\ Handling
\* The rename back fails too.
Stuck ==
    /\ Working("rename") /\ Current.kind # "create" /\ Movable /\ Mishap
    /\ Rename(Current.from, Current.to)
    /\ Abandon /\ UNCHANGED <<tables, journal>> /\ Handling

Mark ==
    /\ Working("mark")
    /\ \/ /\ journal' = [journal EXCEPT ![RowOf(work)].state = "storage_applied",
                                        ![RowOf(work)].result = IF Current.kind = "trash" THEN 0 ELSE stamp[Current.node]]
          /\ work' = [work EXCEPT !.at = Further, !.done = Len(work.rows)]
          /\ Works
       \/ Mishap /\ Abandon /\ UNCHANGED journal
    /\ UNCHANGED <<store, tables>> /\ Handling

-----------------------------------------------------------------------------
(* The transaction. *)

FolderAfter(o, f) ==
    LET old == folders[f].path
        new == Destination(o)
    IN CASE f = Ask(o).id -> [folders[f] EXCEPT !.parent = Ask(o).folder, !.name = Name(o), !.path = new, !.revision = @ + 1]
         [] f \in Inside(Ask(o).id) /\ new # Entity(o).path ->
                [folders[f] EXCEPT !.path = Rebased(old, Entity(o).path, new), !.revision = @ + 1]
         [] OTHER -> folders[f]

\* What the three tables become.  A folder and what is in it move to the new path; the setups in it get a new revision.
Tables == [folders |-> folders, setups |-> setups, rows |-> rows]
FolderAloneMoved(o) == [Tables EXCEPT !.folders[Ask(o).id] = FolderAfter(o, Ask(o).id)]   \* mutant
FolderMoved(o) ==
    LET old == Entity(o).path
        new == Destination(o)
        within(s) == setups[s] # None /\ setups[s].folder \in Inside(Ask(o).id) \cup {Ask(o).id}
    IN [folders |-> [f \in FolderIds |-> FolderAfter(o, f)],
        setups |-> [s \in SetupIds |-> IF new # old /\ within(s) THEN [setups[s] EXCEPT !.revision = @ + 1] ELSE setups[s]],
        rows |-> {IF IsStrictPrefix(old, r.path) THEN [r EXCEPT !.path = Rebased(@, old, new)] ELSE r : r \in rows}]

FolderCreated(o) == [Tables EXCEPT !.folders[Ask(o).id] =
    [parent |-> Ask(o).folder, name |-> Ask(o).name, path |-> Destination(o), revision |-> 1]]
FolderDeleted(o) == [Tables EXCEPT !.folders[Ask(o).id] = None]
SetupCreated(o) == [Tables EXCEPT !.setups[Ask(o).id] = [folder |-> Ask(o).folder, revision |-> 1]]
SetupDeleted(o) == [Tables EXCEPT !.setups[Ask(o).id] = None, !.rows = @ \ FilesOf(Ask(o).id)]

\* A file's row gets the path and the version that its move has reported.
Reported(r) ==
    LET moves == {i \in ToSet(work.rows) : journal[i].from = r.path}
    IN IF moves = {} THEN r
       ELSE LET i == CHOOSE i \in moves : TRUE IN [r EXCEPT !.path = journal[i].to, !.version = journal[i].result]
SetupMoved(o) == [Tables EXCEPT !.rows = {Reported(r) : r \in @},
    !.setups[Ask(o).id] = [folder |-> Ask(o).folder, revision |-> @.revision + 1]]

After(o) ==
    CASE Kind(o) = "createFolder" -> FolderCreated(o)
      [] Kind(o) = "moveFolder"   -> FolderMoved(o)
      [] Kind(o) = "deleteFolder" -> FolderDeleted(o)
      [] Kind(o) = "createSetup"  -> SetupCreated(o)
      [] Kind(o) = "moveSetup"    -> SetupMoved(o)
      [] Kind(o) = "deleteSetup"  -> SetupDeleted(o)

\* UNIQUE (library_id, path_key) of the folders and of the files.
Distinct(t) ==
    /\ \A f, g \in FolderIds : t.folders[f] # None /\ t.folders[g] # None /\ f # g =>
          PathKey(t.folders[f].path) # PathKey(t.folders[g].path)
    /\ \A r, q \in t.rows : PathKey(r.path) = PathKey(q.path) => r = q

\* One transaction: the rows, the generation, the journal and the claim.
Commit ==
    LET after == After(work.op)
    IN /\ Working("commit") /\ Distinct(after)
       /\ folders' = after.folders /\ setups' = after.setups /\ rows' = after.rows
       /\ generation' = generation + 1
       /\ journal' = [i \in DOMAIN journal |->
             IF i \in ToSet(work.rows) THEN [journal[i] EXCEPT !.state = "db_applied"] ELSE journal[i]]
       /\ claims' = [claims EXCEPT ![work.op] = "completed"]
       /\ work' = [work EXCEPT !.at = "discard", !.done = 0]
       /\ Works /\ UNCHANGED <<store, pc, seen, rec, reader, mode, tainted>>

RejectedHalf ==   \* mutant: the setups' revisions are not part of the transaction
    /\ Working("commit")
    /\ IF Distinct(After(work.op)) THEN Mishap ELSE Works
    /\ setups' = IF Kind(work.op) = "moveFolder" THEN After(work.op).setups ELSE setups
    /\ Abandon /\ UNCHANGED <<store, folders, rows, generation, journal>> /\ Handling
\* A name is taken, or the database fails: the transaction is rolled back.
Rejected ==
    /\ Working("commit")
    /\ IF Distinct(After(work.op)) THEN Mishap ELSE Works
    /\ Abandon /\ UNCHANGED <<store, tables, journal>> /\ Handling

-----------------------------------------------------------------------------
(* What follows it: the hidden files are removed and the rows closed, or the items are undone. *)

Committed == claims[work.op] = "completed"
Closing == work.rows[work.done + 1]
LastDone == work.rows[work.done]
Hidden == work.done < Len(work.rows) /\ journal[Closing].kind = "trash"

\* Discard of a quarantine.  What could not be removed keeps its row.
Discard ==
    /\ Working("discard") /\ Hidden
    /\ \/ Unlink(journal[Closing].to) /\ Step("close") /\ Works
       \/ Mishap /\ work' = [work EXCEPT !.done = @ + 1] /\ UNCHANGED store
    /\ UNCHANGED <<tables, journal>> /\ Handling

\* finishCatalogOperationRow; its error is ignored.
Close ==
    /\ Working("close") \/ (Working("discard") /\ work.done < Len(work.rows) /\ ~Hidden)
    /\ \/ SetState(Closing, "completed") /\ Works
       \/ Mishap /\ UNCHANGED journal
    /\ work' = [work EXCEPT !.at = "discard", !.done = @ + 1]
    /\ UNCHANGED <<store, tables>> /\ Handling

\* A creation is removed, a move or a quarantine renamed back and the file's identity read again; the rename may
\* be made and not be synced.
Undo ==
    LET row == journal[LastDone]
    IN /\ Working("undo") /\ work.done > 0
       /\ \/ /\ IF row.kind = "create" THEN Unlink(row.to) ELSE Rename(row.to, row.from)
             /\ IF row.file THEN RefreshWith(row.from, stamp'[row.node]) ELSE UNCHANGED rows
             /\ Step("undone") /\ Works
          \/ /\ Mishap /\ UNCHANGED rows
             /\ UNCHANGED store \/ (row.kind # "create" /\ Rename(row.to, row.from))
             /\ work' = [work EXCEPT !.done = @ - 1]
       /\ UNCHANGED <<folders, setups, generation, journal>> /\ Handling
Undone ==
    /\ Working("undone")
    /\ \/ SetState(LastDone, "failed") /\ Works
       \/ Mishap /\ UNCHANGED journal
    /\ work' = [work EXCEPT !.at = "undo", !.done = @ - 1]
    /\ UNCHANGED <<store, tables>> /\ Handling

\* The lock is released; a request that failed still has its claim to end.
Over == IF Committed THEN work.at = "discard" /\ work.done = Len(work.rows) ELSE work.at = "undo" /\ work.done = 0
Release ==
    /\ mode = "up" /\ work # None /\ Over
    /\ work' = None
    /\ pc' = [pc EXCEPT ![work.op] = IF Committed THEN "done" ELSE "failed"]
    /\ tainted' = tainted \cup (ToSet(work.rows) \cap Unfinished)
    /\ UNCHANGED <<store, tables, journal, claims, seen, rec, reader, mode, bounds>>

\* finishCatalogClaim.  Its failure leaves the claim in progress until the next start.
EndClaim(o) ==
    /\ mode = "up" /\ o \in Asked /\ pc[o] = "failed"
    /\ \/ claims' = [claims EXCEPT ![o] = "failed"] /\ pc' = [pc EXCEPT ![o] = "done"] /\ Works
       \/ Mishap /\ pc' = [pc EXCEPT ![o] = "lost"] /\ UNCHANGED claims
    /\ UNCHANGED <<store, tables, journal, seen, work, rec, reader, mode, tainted>>

-----------------------------------------------------------------------------
(* The end of the process, and recovery. *)

\* Rows that no recovery can place: a creation under a name that is taken, a directory whose inode is not in its row,
\* a move that has been undone.
HalfDone ==
    {i \in Unfinished :
        \/ journal[i].kind = "create" /\ NodeAt(journal[i].to) \notin {0, journal[i].node}
        \/ work # None /\ work.at = "prepare" /\ i = RowOf(work)
        \/ journal[i].kind = "move" /\ journal[i].state # "db_applied"
           /\ NodeAt(journal[i].from) = journal[i].node /\ stamp[journal[i].node] # journal[i].expected}
Stop ==
    /\ mode \in {"up", "recovering"} /\ stops < plan.stops
    /\ stops' = stops + 1
    /\ mode' = "down"
    /\ work' = None /\ rec' = None
    /\ pc' = [o \in Ops |-> IF o \in Asked /\ pc[o] # "done" THEN "idle" ELSE pc[o]]
    /\ tainted' = tainted \cup HalfDone
    /\ reader' = IF reader = None THEN None ELSE [reader EXCEPT !.at = "gone"]
    /\ UNCHANGED <<store, tables, journal, claims, seen, plan, mishaps>>

\* The rows are recovered in order.
At(step) == mode = "recovering" /\ rec # None /\ rec.at = step
Row == journal[rec.row]
IsCommitted == Row.state = "db_applied"
Due == IF Unfinished = {} THEN None
       ELSE [row |-> CHOOSE i \in Unfinished : \A j \in Unfinished : i <= j, at |-> "storage"]
Recovering == UNCHANGED <<folders, setups, generation, pc, seen, work, reader, bounds, tainted>>

\* RecoverInterrupted: a claim in progress that no journal row explains ends in conflict.
Start ==
    /\ mode = "down"
    /\ mode' = "recovering"
    /\ rec' = Due
    /\ claims' = [o \in Ops |-> IF claims[o] = "in_progress" /\ ~\E i \in Unfinished : journal[i].by = o
                                THEN "conflict" ELSE claims[o]]
    /\ UNCHANGED <<store, tables, journal, pc, seen, work, reader, bounds, tainted>>

ToSettle == rec' = [rec EXCEPT !.at = "settle"] /\ UNCHANGED mode
Refuse == mode' = "refused" /\ UNCHANGED <<store, rows, rec>>
Refreshed(path) == IF Row.file THEN RefreshWith(path, stamp'[Row.node]) ELSE UNCHANGED rows

\* What the answer to a committed request is made of must still be there.
Answerable ==
    CASE Row.kind = "create" -> \E f \in FolderIds : folders[f] # None /\ folders[f].path = Row.to
      [] Row.kind = "move" -> IF Row.file THEN setups[Ask(Row.by).id] # None ELSE folders[Ask(Row.by).id] # None
      [] OTHER -> TRUE

\* RecoverFolderCreate.
Known(p) == NodeAt(p) = 0 \/ (NodeAt(p) = Row.node /\ Row.node # 0)
CreationVisible == Known(Row.to) /\ NodeAt(Row.from) = 0   \* mutant: the hidden directory is not looked for
CreationKnown == Known(Row.from) /\ Known(Row.to) /\ (NodeAt(Row.from) = 0 \/ NodeAt(Row.to) = 0)
RecoverFolderCreate ==
    /\ At("storage") /\ Row.kind = "create"
    /\ IF ~CreationKnown \/ (IsCommitted /\ (~Answerable \/ NodeAt(Row.from) = NodeAt(Row.to))) THEN Refuse
       ELSE /\ IF IsCommitted
               THEN IF NodeAt(Row.from) # 0 THEN Rename(Row.from, Row.to) ELSE UNCHANGED store
               ELSE /\ disk' = disk \ (Holding(Row.from) \cup Holding(Row.to))
                    /\ stamp' = Touched({DirOf(Row.to)})
            /\ ToSettle /\ UNCHANGED rows
    /\ Recovering /\ UNCHANGED <<journal, claims>>

\* recoverCatalogMove: forward when it is committed, back when it is not; it is there already, or is moved.
Goal   == IF IsCommitted THEN [path |-> Row.to, version |-> Row.result] ELSE [path |-> Row.from, version |-> Row.expected]
Origin == IF IsCommitted THEN [path |-> Row.from, version |-> Row.expected] ELSE [path |-> Row.to, version |-> Row.result]
Is(place) == NodeAt(place.path) = Row.node /\ place.version \in {0, stamp[Row.node]}
RecoverMove ==
    /\ At("storage") /\ Row.kind = "move"
    /\ \/ Is(Goal) /\ Answerable /\ UNCHANGED store /\ Refreshed(Goal.path) /\ ToSettle
       \/ ~Is(Goal) /\ Is(Origin) /\ Vacant(Goal.path) /\ Answerable
          /\ Rename(Origin.path, Goal.path) /\ Refreshed(Goal.path) /\ ToSettle
       \/ ~(Answerable /\ (Is(Goal) \/ (Is(Origin) /\ Vacant(Goal.path)))) /\ Refuse
    /\ Recovering /\ UNCHANGED <<journal, claims>>

\* RecoverQuarantine and RecoverFolderQuarantine: removed when committed, restored when not.
Quarantined == NodeAt(Row.from) = 0 /\ NodeAt(Row.to) = Row.node
InPlace == NodeAt(Row.from) = Row.node /\ NodeAt(Row.to) = 0
Gone == NodeAt(Row.from) = 0 /\ NodeAt(Row.to) = 0
RecoverQuarantine ==
    /\ At("storage") /\ Row.kind = "trash"
    /\ \/ IsCommitted /\ Quarantined /\ Unlink(Row.to) /\ UNCHANGED rows /\ ToSettle
       \/ IsCommitted /\ Gone /\ UNCHANGED <<store, rows>> /\ ToSettle
       \/ ~IsCommitted /\ InPlace /\ UNCHANGED store /\ Refreshed(Row.from) /\ ToSettle
       \/ ~IsCommitted /\ Quarantined /\ Vacant(Row.from)
          /\ Rename(Row.to, Row.from) /\ Refreshed(Row.from) /\ ToSettle
       \/ IF IsCommitted THEN ~Quarantined /\ ~Gone /\ Refuse
          ELSE ~InPlace /\ ~(Quarantined /\ Vacant(Row.from)) /\ Refuse
    /\ Recovering /\ UNCHANGED <<journal, claims>>

\* finishRecoveredCatalogClaim: the claim of what is rolled back may be asked again.
Outcome(claim) == IF IsCommitted THEN "completed" ELSE "none"
Settle ==
    /\ At("settle")
    /\ claims' = [claims EXCEPT ![Row.by] = IF @ = "in_progress" THEN Outcome(@) ELSE @]
    /\ rec' = [rec EXCEPT !.at = "close"]
    /\ Recovering /\ UNCHANGED <<store, rows, journal, mode>>
CloseRecovered ==
    /\ At("close")
    /\ SetState(rec.row, IF IsCommitted THEN "completed" ELSE "failed")
    /\ rec' = LET left == Unfinished \ {rec.row} IN
              IF left = {} THEN None
              ELSE [row |-> CHOOSE i \in left : \A j \in left : i <= j, at |-> "storage"]
    /\ Recovering /\ UNCHANGED <<store, rows, claims, mode>>
Serve ==
    /\ mode = "recovering" /\ rec = None
    /\ mode' = "up"
    /\ Recovering /\ UNCHANGED <<store, rows, journal, claims, rec>>

-----------------------------------------------------------------------------
(* GetCatalogTree, and reading a file. *)

Reading(at) == mode = "up" /\ reader # None /\ reader.at = at
Serving == UNCHANGED <<store, tables, journal, claims, pc, seen, work, rec, mode, bounds, tainted>>
BeginRead ==
    /\ mode = "up" /\ plan.reads /\ reader = None
    /\ reader' = [at |-> "generation", label |-> 0, folders |-> <<>>, setups |-> <<>>, left |-> {}, rows |-> {}]
    /\ Serving
ReadGeneration == Reading("generation") /\ reader' = [reader EXCEPT !.at = "folders", !.label = generation] /\ Serving
ReadFolders == Reading("folders") /\ reader' = [reader EXCEPT !.at = "setups", !.folders = folders] /\ Serving
ReadSetups ==
    /\ Reading("setups")
    /\ reader' = [reader EXCEPT !.at = "files", !.setups = setups, !.left = {s \in SetupIds : setups[s] # None}]
    /\ Serving
ReadFilesLabelling(s) ==   \* mutant: the generation is read last
    /\ Reading("files") /\ s \in reader.left
    /\ reader' = [reader EXCEPT !.left = @ \ {s}, !.rows = @ \cup {Placed(r) : r \in FilesOf(s)}, !.label = generation]
    /\ Serving
ReadFiles(s) ==
    /\ Reading("files") /\ s \in reader.left
    /\ reader' = [reader EXCEPT !.left = @ \ {s}, !.rows = @ \cup {Placed(r) : r \in FilesOf(s)}]
    /\ Serving

-----------------------------------------------------------------------------

Init ==
    /\ plan \in Plans
    /\ folders = plan.folders /\ setups = plan.setups /\ rows = plan.rows
    /\ disk = {[path |-> r.path, node |-> r.node] : r \in plan.rows}
              \cup {[path |-> plan.folders[f].path, node |-> plan.nodes[f]] : f \in DOMAIN plan.nodes}
    /\ stamp = [n \in 1..Cardinality(disk) |-> 1]
    /\ generation = 1
    /\ journal = <<>>
    /\ claims = [o \in Ops |-> "none"]
    /\ pc = [o \in Ops |-> IF o \in Asked THEN "idle" ELSE "done"]
    /\ seen = [o \in Ops |-> None]
    /\ work = None /\ rec = None /\ reader = None
    /\ mode = "up" /\ mishaps = 0 /\ stops = 0 /\ tainted = {}

Itemwise == Insert \/ Mkdir \/ Prepare \/ Expose \/ Record \/ Relocate \/ Unmoved \/ MovedBack \/ Stuck \/ Mark
Ending == Commit \/ Rejected \/ Discard \/ Close \/ Undo \/ Undone \/ Release
Recovery == Start \/ RecoverFolderCreate \/ RecoverMove \/ RecoverQuarantine \/ Settle \/ CloseRecovered \/ Serve
Read == BeginRead \/ ReadGeneration \/ ReadFolders \/ ReadSetups \/ \E s \in SetupIds : ReadFiles(s)
Next ==
    \/ \E o \in Asked : Claim(o) \/ Begin(o) \/ EndClaim(o)
    \/ Itemwise \/ Ending \/ Recovery \/ Read \/ Stop
Spec == Init /\ [][Next]_vars

\* A request that was received runs to its end; the service manager starts the process again.  No client has to ask.
FairSpec == Spec /\ WF_vars(Itemwise \/ Ending \/ \E o \in Asked : Begin(o) \/ EndClaim(o)) /\ WF_vars(Recovery)

-----------------------------------------------------------------------------

\* Every table holds what its column allows.
TypeOK ==
    /\ \A e \in disk : e.node \in DOMAIN stamp
    /\ \A f \in FolderIds : folders[f] # None => folders[f].name \in Names /\ folders[f].revision \in Nat \ {0}
    /\ \A s \in SetupIds : setups[s] # None => setups[s].revision \in Nat \ {0}
    /\ \A r \in rows : r.setup \in SetupIds /\ r.role \in ToSet(Roles) /\ r.version \in Nat \ {0}
    /\ \A i \in DOMAIN journal : journal[i].state \in Active \cup {"completed", "failed"} /\ journal[i].result \in Nat
    /\ \A o \in Ops : claims[o] \in {"none", "in_progress", "completed", "failed", "conflict"}
    /\ mode \in {"up", "down", "recovering", "refused"}

\* The three tables agree on where everything is, after any series of moves: a folder's path is its parent's and
\* its name, and a file is in its setup's folder (UpdateCatalogFolder rewrites the paths of all that is inside).
PathsFollowParents ==
    /\ \A f \in FolderIds : folders[f] # None =>
          KnownFolder(folders[f].parent) /\ folders[f].path = Append(FolderPath(folders[f].parent), folders[f].name)
    /\ \A r \in rows : /\ setups[r.setup] # None /\ KnownFolder(setups[r.setup].folder)
                       /\ Front(r.path) = FolderPath(setups[r.setup].folder)

\* What the database says is at a path is there, or a journal row that is still open has taken it, or a folder above it.
Above(folder) == {g \in FolderIds : folders[g] # None /\ IsPrefix(folders[g].path, FolderPath(folder))}
Displaced(folder) == \E i \in Unfinished : Ask(journal[i].by).id \in Above(folder)
PlaceExplained ==
    /\ \A r \in rows : \/ NodeAt(r.path) = r.node \/ Displaced(setups[r.setup].folder)
                       \/ \E i \in Unfinished : journal[i].node = r.node
    /\ \A g \in FolderIds : folders[g] # None => NodeAt(folders[g].path) # 0 \/ Displaced(g)

\* Nothing is left under a hidden name without an open journal row that leads to it.
HiddenExplained ==
    \A e \in disk : Last(e.path) \in Nat => Last(e.path) \in Unfinished

\* A tree whose generation is the current one is the current tree, though it was read in several queries.
TreeLabel ==
    reader # None /\ reader.at = "files" /\ reader.left = {} /\ reader.label = generation =>
        <<reader.folders, reader.setups, reader.rows>> = <<folders, setups, {Placed(r) : r \in rows}>>

\* A request that fails and whose rows are closed has left every path of the directory and the tables as it found it.
FailedChangesNothing ==
    [][work # None /\ work' = None /\ mode' = "up" /\ pc'[work.op] = "failed" /\ ToSet(work.rows) \cap Unfinished = {}
       => Layout = work.before]_vars

\* Recovery refuses to serve only when a request had left its row open, or the process had ended at one of three points:
\* a creation journalled under a name that is taken, a directory made and not yet in its row, a move undone (by the
\* request or by recovery) and its row not yet closed.
RefusalExplained == [][mode' = "refused" => tainted' # {}]_vars

\* No claim stays in progress: its request ends it, or the next start does, but for one whose end could not be written.
ClaimsEnd == []<>(mode = "refused" \/ \A o \in Asked : claims[o] = "in_progress" => pc[o] = "lost")

\* Variables keep their types, the tables agree with each other on where everything is, and the directory agrees with
\* them but for what the open rows of the journal explain.
PlacesAgree == TypeOK /\ PathsFollowParents /\ PlaceExplained /\ HiddenExplained

\* A start ends in service with no claim left in progress, but for the explained refusals.
StartsEnd == RefusalExplained /\ ClaimsEnd

===============================================================================
