----------------------------- MODULE CodeServers -----------------------------
(***************************************************************************)
(* The code-server manager of remoteterminal                               *)
(* (remoteterminal/internal/codeservers/manager.go): request handlers run  *)
(* concurrently, each starts, stops, lists or proxies code-server          *)
(* processes that live in a private tmux server.                           *)
(*                                                                         *)
(* Two locks order the handlers. commandMu is held over a series of tmux   *)
(* commands and is a variable here. mu protects the maps and is held only  *)
(* over straight-line code, so a section under mu is one action. Delete    *)
(* stops its session while it holds neither lock; the transition channel   *)
(* of the record keeps the other handlers waiting meanwhile.               *)
(***************************************************************************)
EXTENDS Naturals, FiniteSets

CONSTANTS
    Workers,     \* request goroutines
    Ids,         \* random instance ids, each allocated at most once
    Folders,     \* canonical folders
    Gens,        \* the successive managedInstance objects of one id
    MaxServers,  \* Config.MaxServers
    MaxFaults,   \* bound: tmux or storage commands that fail
    MaxCrashes,  \* bound: crashes of the daemon
    Nobody

ASSUME GensAssumption == Gens \subseteq Nat \ {0}
ASSUME BoundsAssumption == MaxServers \in Nat /\ MaxFaults \in Nat /\ MaxCrashes \in Nat
ASSUME NobodyAssumption == Nobody \notin Workers /\ Nobody \notin Folders /\ Nobody \notin Ids

VARIABLES
    instances,          \* m.instances: the record object of an id, 0 if absent
    rec,                \* the record objects, alive while a goroutine holds one
    proxies,            \* m.proxies: ids with a cached reverse proxy
    commandMu,          \* holder of commandMu
    shutdownRequested,  \* the atomic flag
    shutdown,           \* "no", "running" (shutdownInProgress) or "complete"
    attempt,            \* which shutdownDone channel is current
    pc,                 \* per goroutine: its position, and its locals:
    folder, target,     \*   the folder asked for, the id it works on,
    held, channel,      \*   the record object it holds, the channel it waits for,
    seen, ownErr,       \*   the list it discovered, the error it will return
    live,               \* ids whose tmux session exists
    tagged,             \* ids whose session carries both remote-terminal options
    folderOf,           \* folder an id was allocated for
    dirs,               \* ids whose runtime directory exists
    acked,              \* ids for which some Delete has returned nil
    faults, crashes, up

mgr  == <<instances, rec, proxies>>
locals == <<folder, target, held, channel, seen, ownErr>>
shut == <<shutdownRequested, shutdown, attempt>>
tmux == <<live, tagged, folderOf>>
vars == <<instances, rec, proxies, commandMu, shutdownRequested, shutdown, attempt,
          pc, folder, target, held, channel, seen, ownErr, live, tagged, folderOf, dirs, acked, faults, crashes, up>>

-----------------------------------------------------------------------------
(* Records. open: transition is a channel not yet closed; epoch tells one  *)
(* channel of a record from the next; fresh: lastVerified is recent.       *)

Phases == {"free", "launching", "active", "stopping", "failed"}

Record == [phase : Phases, err : BOOLEAN, open : BOOLEAN, epoch : Nat, fresh : BOOLEAN]

NewRecord(phase, err, open, epoch, fresh) ==
    [phase |-> phase, err |-> err, open |-> open, epoch |-> epoch, fresh |-> fresh]

Free      == NewRecord("free", FALSE, FALSE, 0, FALSE)
Launching == NewRecord("launching", FALSE, TRUE, 1, FALSE)
Found     == NewRecord("active", FALSE, FALSE, 0, TRUE)

Verified(r)    == NewRecord(r.phase, r.err, r.open, r.epoch, TRUE)
BeingStopped(r) == NewRecord("stopping", FALSE, TRUE, r.epoch + 1, r.fresh)

AfterTransition(r, phase, err, fresh) == NewRecord(phase, err, FALSE, r.epoch, fresh)

Transient == {"launching", "stopping"}

\* Mutant: a second Delete stops what the first one is stopping.
StoppableTwice == {"active", "failed", "stopping"}

Stoppable == {"active", "failed"}

HoldsCommandMu ==
    {"reconcile", "decide", "insert", "launch", "tag", "verify", "relink", "cleanup",
     "unlaunch", "markFailed", "dReconcile", "dPhase", "pReconcile", "lReconcile", "sClear"}

Positions ==
    HoldsCommandMu \cup
    {"idle", "reserve", "getChan", "cWait", "cRead", "await", "activate", "failLaunch",
     "delete", "dWait", "dRead", "dStop", "dFinish", "dFailed", "dRemove", "dStopUnknown",
     "pKnown", "pDiscover", "pSocket", "pEvict", "pCheck", "pVerify", "pRemove", "pFinal",
     "list", "sBegin", "sWait", "sInterrupt", "sKill", "sDone", "sFailed"}

Recorded      == {i \in Ids : instances[i] # 0}
Current(i)    == rec[i][instances[i]]
Mine(w)       == rec[target[w]][held[w]]
Visible       == live \cap tagged
HasFree(i)    == \E g \in Gens : rec[i][g].phase = "free"
FreshGen(i)   == CHOOSE g \in Gens : rec[i][g].phase = "free"

Nowhere == [w \in Workers |-> Nobody]
Zeros   == [w \in Workers |-> 0]

Init ==
    /\ instances = [i \in Ids |-> 0]
    /\ rec = [i \in Ids |-> [g \in Gens |-> Free]]
    /\ proxies = {}
    /\ commandMu = Nobody
    /\ shutdownRequested = FALSE
    /\ shutdown = "no"
    /\ attempt = 0
    /\ pc = [w \in Workers |-> "idle"]
    /\ folder = Nowhere
    /\ target = Nowhere
    /\ held = Zeros
    /\ channel = Zeros
    /\ seen = [w \in Workers |-> {}]
    /\ ownErr = [w \in Workers |-> FALSE]
    /\ live = {}
    /\ tagged = {}
    /\ folderOf = [i \in Ids |-> Nobody]
    /\ dirs = {}
    /\ acked = {}
    /\ faults = 0
    /\ crashes = 0
    /\ up = TRUE

-----------------------------------------------------------------------------
(* Steps shared by the handlers.                                           *)

Goto(w, p) == pc' = [pc EXCEPT ![w] = p]

Return(w) ==
    /\ Goto(w, "idle")
    /\ folder' = [folder EXCEPT ![w] = Nobody]
    /\ target' = [target EXCEPT ![w] = Nobody]
    /\ held' = [held EXCEPT ![w] = 0]
    /\ channel' = [channel EXCEPT ![w] = 0]
    /\ seen' = [seen EXCEPT ![w] = {}]
    /\ ownErr' = [ownErr EXCEPT ![w] = FALSE]

Acquire(w) == commandMu = Nobody /\ commandMu' = w
Release(w) == commandMu = w /\ commandMu' = Nobody
Passes     == commandMu = Nobody /\ UNCHANGED commandMu  \* locked and unlocked within the step

\* A command of tmux, or a step on the disk, reports failure.
Fault == faults < MaxFaults /\ faults' = faults + 1
NoFault == UNCHANGED faults

\* reconcileDiscovered: sessions without a record get an active one, active
\* records without a session go, launching, stopping and failed ones stay.
Evicted(list) == {i \in Recorded \ list : Current(i).phase = "active"}

Adopted(list) == list \ Recorded

Reconciled(list) ==
    /\ \A i \in Adopted(list) : HasFree(i)
    /\ instances' = [i \in Ids |-> CASE i \in Adopted(list) -> FreshGen(i)
                                     [] i \in Evicted(list) -> 0
                                     [] OTHER -> instances[i]]
    /\ rec' = [i \in Ids |-> [g \in Gens |->
                 CASE i \in Adopted(list) /\ g = FreshGen(i) -> Found
                   [] i \in list /\ g = instances[i] /\ rec[i][g].phase = "active"
                        -> Verified(rec[i][g])
                   [] OTHER -> rec[i][g]]]
    /\ proxies' = proxies \ Evicted(list)

\* cleanupStaleRuntime: directories of ids without a record are removed.
StaleRuntimeRemoved == dirs' = {i \in dirs : instances'[i] # 0}

\* Mutant: kill-session is trusted, the session is not looked for afterwards.
StoppedUnconfirmed(i, confirmed) == confirmed /\ live' \in {live, live \ {i}} /\ NoFault

\* stopSession: TRUE only when the session was seen to be absent. The wait
\* after C-c lets the session exit by itself (action Exit) before the kill.
Stopped(i, confirmed) ==
    \/ /\ confirmed
       /\ live' = live \ {i}
       /\ NoFault
    \/ /\ ~confirmed
       /\ Fault
       /\ live' \in {live, live \ {i}}

\* The record's transition channel is closed and set to nil.
Closed(i, g, phase, err, fresh) ==
    rec' = [rec EXCEPT ![i][g] = AfterTransition(rec[i][g], phase, err, fresh)]

-----------------------------------------------------------------------------
(* Create: reserveAndStart under commandMu, waitUntilReady without a lock, *)
(* then activation under mu, or failLaunch.                                *)

StartCreate(w, f) ==
    /\ pc[w] = "idle"
    /\ ~shutdownRequested
    /\ Goto(w, "reserve")
    /\ folder' = [folder EXCEPT ![w] = f]
    /\ UNCHANGED <<target, held, channel, seen, ownErr>>
    /\ NoFault
    /\ UNCHANGED <<mgr, commandMu, shut, tmux, dirs, acked>>

\* Takes commandMu and lists the sessions; next is where a good list leads.
Discover(w, next) ==
    \/ /\ NoFault
       /\ Acquire(w)
       /\ Goto(w, next)
       /\ seen' = [seen EXCEPT ![w] = Visible]
       /\ UNCHANGED <<folder, target, held, channel, ownErr>>
    \/ /\ Fault
       /\ Passes
       /\ Return(w)

Reserve(w) ==
    /\ pc[w] = "reserve"
    /\ \/ /\ ~shutdownRequested
          /\ Discover(w, "reconcile")
       \/ /\ shutdownRequested
          /\ Passes
          /\ Return(w)
          /\ NoFault
    /\ UNCHANGED <<mgr, shut, tmux, dirs, acked>>

ReserveReconcile(w) ==
    /\ pc[w] = "reconcile"
    /\ Reconciled(seen[w])
    /\ StaleRuntimeRemoved
    /\ Goto(w, "decide")
    /\ seen' = [seen EXCEPT ![w] = {}]
    /\ UNCHANGED <<folder, target, held, channel, ownErr>>
    /\ NoFault
    /\ UNCHANGED <<commandMu, shut, tmux, acked>>

SameFolder(f) == {i \in Recorded : folderOf[i] = f}

\* Mutant: reserved slots are not counted.
AtLimitOfActive == Cardinality({i \in Recorded : Current(i).phase = "active"}) >= MaxServers

AtLimit == Cardinality(Recorded) >= MaxServers

\* The same-folder check and the limit, under mu: reuse, wait, fail or go on.
Decide(w) ==
    /\ pc[w] = "decide"
    /\ \/ /\ SameFolder(folder[w]) = {}
          /\ ~AtLimit
          /\ Goto(w, "insert")
          /\ UNCHANGED <<commandMu, locals>>
       \/ /\ SameFolder(folder[w]) = {}
          /\ AtLimit
          /\ Release(w)
          /\ Return(w)
       \/ \E i \in SameFolder(folder[w]) :
             /\ Release(w)
             /\ \/ /\ Current(i).phase \notin Transient
                   /\ Return(w)
                \/ /\ Current(i).phase \in Transient
                   /\ Goto(w, "getChan")
                   /\ target' = [target EXCEPT ![w] = i]
                   /\ held' = [held EXCEPT ![w] = instances[i]]
                   /\ UNCHANGED <<folder, channel, seen, ownErr>>
    /\ NoFault
    /\ UNCHANGED <<mgr, shut, tmux, dirs, acked>>

\* Create reads the channel of the record it waits for after it let go of
\* commandMu: the channel may be gone by then.
GetChannel(w) ==
    /\ pc[w] = "getChan"
    /\ \/ /\ Mine(w).open
          /\ Goto(w, "cWait")
          /\ channel' = [channel EXCEPT ![w] = Mine(w).epoch]
          /\ UNCHANGED <<folder, target, held, seen, ownErr>>
       \/ /\ ~Mine(w).open
          /\ Goto(w, "reserve")
          /\ target' = [target EXCEPT ![w] = Nobody]
          /\ held' = [held EXCEPT ![w] = 0]
          /\ channel' = [channel EXCEPT ![w] = 0]
          /\ UNCHANGED <<folder, seen, ownErr>>
    /\ NoFault
    /\ UNCHANGED <<mgr, commandMu, shut, tmux, dirs, acked>>

ChannelClosed(w) == ~Mine(w).open \/ Mine(w).epoch # channel[w]

CreateWoken(w) ==
    /\ pc[w] = "cWait"
    /\ ChannelClosed(w)
    /\ Goto(w, "cRead")
    /\ NoFault
    /\ UNCHANGED <<mgr, commandMu, shut, locals, tmux, dirs, acked>>

CreateReadsOutcome(w) ==
    /\ pc[w] = "cRead"
    /\ \/ /\ Mine(w).phase = "active" \/ Mine(w).err
          /\ Return(w)
       \/ /\ Mine(w).phase # "active"
          /\ ~Mine(w).err
          /\ Goto(w, "reserve")
          /\ target' = [target EXCEPT ![w] = Nobody]
          /\ held' = [held EXCEPT ![w] = 0]
          /\ channel' = [channel EXCEPT ![w] = 0]
          /\ UNCHANGED <<folder, seen, ownErr>>
    /\ NoFault
    /\ UNCHANGED <<mgr, commandMu, shut, tmux, dirs, acked>>

\* A fresh id, its runtime directory and, unless the shutdown flag is up, its
\* launching record. A storage error leaves no directory behind.
Insert(w) ==
    /\ pc[w] = "insert"
    /\ \/ \E i \in Ids :
             /\ folderOf[i] = Nobody
             /\ HasFree(i)
             /\ ~shutdownRequested
             /\ folderOf' = [folderOf EXCEPT ![i] = folder[w]]
             /\ dirs' = dirs \cup {i}
             /\ instances' = [instances EXCEPT ![i] = FreshGen(i)]
             /\ rec' = [rec EXCEPT ![i][FreshGen(i)] = Launching]
             /\ target' = [target EXCEPT ![w] = i]
             /\ held' = [held EXCEPT ![w] = FreshGen(i)]
             /\ UNCHANGED <<folder, channel, seen, ownErr>>
             /\ Goto(w, "launch")
             /\ NoFault
             /\ UNCHANGED commandMu
       \/ /\ shutdownRequested \/ \A i \in Ids : folderOf[i] # Nobody
          /\ Release(w)
          /\ Return(w)
          /\ NoFault
          /\ UNCHANGED <<instances, rec, folderOf, dirs>>
       \/ /\ Fault
          /\ Release(w)
          /\ Return(w)
          /\ UNCHANGED <<instances, rec, folderOf, dirs>>
    /\ UNCHANGED <<proxies, shut, live, tagged, acked>>

\* tmux new-session. When the client fails the session may exist all the same;
\* has-session then decides who cleans up, and its own error reads as "absent".
Launch(w) ==
    /\ pc[w] = "launch"
    /\ \/ /\ NoFault
          /\ live' = live \cup {target[w]}
          /\ Goto(w, "tag")
       \/ /\ Fault
          /\ live' = live
          /\ Goto(w, "unlaunch")
       \/ /\ Fault
          /\ live' = live \cup {target[w]}
          /\ Goto(w, "cleanup")
       \/ /\ faults + 2 <= MaxFaults
          /\ faults' = faults + 2
          /\ live' = live \cup {target[w]}
          /\ Goto(w, "unlaunch")
    /\ UNCHANGED <<mgr, commandMu, shut, locals, tagged, folderOf, dirs, acked>>

\* The two set-option commands, which fail when the session is gone.
Tag(w) ==
    /\ pc[w] = "tag"
    /\ \/ /\ target[w] \in live
          /\ tagged' = tagged \cup {target[w]}
          /\ Goto(w, "verify")
          /\ NoFault
       \/ /\ target[w] \notin live
          /\ Goto(w, "cleanup")
          /\ NoFault
          /\ UNCHANGED tagged
       \/ /\ Fault
          /\ Goto(w, "cleanup")
          /\ UNCHANGED tagged
    /\ UNCHANGED <<mgr, commandMu, shut, locals, live, folderOf, dirs, acked>>

\* The second discover, which must show the new session.
Verify(w) ==
    /\ pc[w] = "verify"
    /\ \/ /\ target[w] \in Visible
          /\ Goto(w, "relink")
          /\ seen' = [seen EXCEPT ![w] = Visible]
          /\ UNCHANGED <<folder, target, held, channel, ownErr>>
          /\ NoFault
       \/ /\ target[w] \notin Visible
          /\ Goto(w, "cleanup")
          /\ NoFault
          /\ UNCHANGED locals
       \/ /\ Fault
          /\ Goto(w, "cleanup")
          /\ UNCHANGED locals
    /\ UNCHANGED <<mgr, commandMu, shut, tmux, dirs, acked>>

Relink(w) ==
    /\ pc[w] = "relink"
    /\ Reconciled(seen[w])
    /\ Release(w)
    /\ Goto(w, "await")
    /\ seen' = [seen EXCEPT ![w] = {}]
    /\ UNCHANGED <<folder, target, held, channel, ownErr>>
    /\ NoFault
    /\ UNCHANGED <<shut, tmux, dirs, acked>>

\* waitUntilReady: healthy and its session present, or an error: the session
\* went away, the caller's context ended, the timeout, a shutdown.
BecomesReady(w) ==
    /\ pc[w] = "await"
    /\ ~shutdownRequested
    /\ target[w] \in live
    /\ Goto(w, "activate")
    /\ NoFault
    /\ UNCHANGED <<mgr, commandMu, shut, locals, tmux, dirs, acked>>

NotReady(w) ==
    /\ pc[w] = "await"
    /\ Goto(w, "failLaunch")
    /\ NoFault
    /\ UNCHANGED <<mgr, commandMu, shut, locals, tmux, dirs, acked>>

Activate(w) ==
    /\ pc[w] = "activate"
    /\ \/ /\ ~shutdownRequested
          /\ Closed(target[w], held[w], "active", FALSE, TRUE)
          /\ Return(w)
       \/ /\ shutdownRequested
          /\ Goto(w, "failLaunch")
          /\ UNCHANGED <<rec, locals>>
    /\ NoFault
    /\ UNCHANGED <<instances, proxies, commandMu, shut, tmux, dirs, acked>>

FailLaunch(w) ==
    /\ pc[w] = "failLaunch"
    /\ Acquire(w)
    /\ Goto(w, "cleanup")
    /\ NoFault
    /\ UNCHANGED <<mgr, shut, locals, tmux, dirs, acked>>

Cleanup(w) ==
    /\ pc[w] = "cleanup"
    /\ \E confirmed \in BOOLEAN :
          /\ Stopped(target[w], confirmed)
          /\ Goto(w, IF confirmed THEN "unlaunch" ELSE "markFailed")
    /\ UNCHANGED <<mgr, commandMu, shut, locals, tagged, folderOf, dirs, acked>>

Unlaunch(w) ==
    /\ pc[w] = "unlaunch"
    /\ proxies' = proxies \ {target[w]}
    /\ instances' = [instances EXCEPT ![target[w]] = 0]
    /\ Closed(target[w], held[w], Mine(w).phase, TRUE, Mine(w).fresh)
    /\ dirs' = dirs \ {target[w]}
    /\ Release(w)
    /\ Return(w)
    /\ NoFault
    /\ UNCHANGED <<shut, tmux, acked>>

MarkFailed(w) ==
    /\ pc[w] = "markFailed"
    /\ Closed(target[w], held[w], "failed", TRUE, Mine(w).fresh)
    /\ Release(w)
    /\ Return(w)
    /\ NoFault
    /\ UNCHANGED <<instances, proxies, shut, tmux, dirs, acked>>

-----------------------------------------------------------------------------
(* Delete: waits out a launch or another stop, else takes the record into  *)
(* phaseStopping and stops the session while it holds neither lock.        *)

StartDelete(w, i) ==
    /\ pc[w] = "idle"
    /\ ~shutdownRequested
    /\ folderOf[i] # Nobody
    /\ Goto(w, "delete")
    /\ target' = [target EXCEPT ![w] = i]
    /\ UNCHANGED <<folder, held, channel, seen, ownErr>>
    /\ NoFault
    /\ UNCHANGED <<mgr, commandMu, shut, tmux, dirs, acked>>

DeleteLookup(w) ==
    /\ pc[w] = "delete"
    /\ \/ /\ target[w] \in Recorded
          /\ Acquire(w)
          /\ Goto(w, "dPhase")
          /\ held' = [held EXCEPT ![w] = instances[target[w]]]
          /\ UNCHANGED <<folder, target, channel, seen, ownErr>>
          /\ NoFault
       \/ /\ target[w] \notin Recorded
          /\ Acquire(w)
          /\ Goto(w, "dReconcile")
          /\ seen' = [seen EXCEPT ![w] = Visible]
          /\ UNCHANGED <<folder, target, held, channel, ownErr>>
          /\ NoFault
       \/ /\ target[w] \notin Recorded
          /\ Fault
          /\ Passes
          /\ Goto(w, "dStopUnknown")
          /\ UNCHANGED locals
    /\ UNCHANGED <<mgr, shut, tmux, dirs, acked>>

DeleteReconcile(w) ==
    /\ pc[w] = "dReconcile"
    /\ Reconciled(seen[w])
    /\ \/ /\ instances'[target[w]] # 0
          /\ Goto(w, "dPhase")
          /\ seen' = [seen EXCEPT ![w] = {}]
          /\ held' = [held EXCEPT ![w] = instances'[target[w]]]
          /\ UNCHANGED <<folder, target, channel, ownErr>>
          /\ UNCHANGED commandMu
       \/ /\ instances'[target[w]] = 0
          /\ Release(w)
          /\ Return(w)
    /\ NoFault
    /\ UNCHANGED <<shut, tmux, dirs, acked>>

\* The switch on the phase of the record found, under mu.
BeginStop(w) ==
    /\ pc[w] = "dPhase"
    /\ Mine(w).phase \in Stoppable
    /\ rec' = [rec EXCEPT ![target[w]][held[w]] = BeingStopped(Mine(w))]
    /\ proxies' = proxies \ {target[w]}
    /\ Release(w)
    /\ Goto(w, "dStop")
    /\ NoFault
    /\ UNCHANGED <<instances, shut, locals, tmux, dirs, acked>>

AwaitTransition(w) ==
    /\ pc[w] = "dPhase"
    /\ Mine(w).phase \in Transient
    /\ Release(w)
    /\ \/ /\ Mine(w).open
          /\ Goto(w, "dWait")
          /\ channel' = [channel EXCEPT ![w] = Mine(w).epoch]
          /\ UNCHANGED <<folder, target, held, seen, ownErr>>
       \/ /\ ~Mine(w).open
          /\ Goto(w, "delete")
          /\ held' = [held EXCEPT ![w] = 0]
          /\ UNCHANGED <<folder, target, channel, seen, ownErr>>
    /\ NoFault
    /\ UNCHANGED <<mgr, shut, tmux, dirs, acked>>

DeleteWoken(w) ==
    /\ pc[w] = "dWait"
    /\ ChannelClosed(w)
    /\ Goto(w, "dRead")
    /\ NoFault
    /\ UNCHANGED <<mgr, commandMu, shut, locals, tmux, dirs, acked>>

\* An active record without error: try again. An error: return it. Anything
\* else counts as stopped by the other Delete, and this one returns nil.
DeleteReadsOutcome(w) ==
    /\ pc[w] = "dRead"
    /\ \/ /\ Mine(w).phase = "active"
          /\ ~Mine(w).err
          /\ Goto(w, "delete")
          /\ held' = [held EXCEPT ![w] = 0]
          /\ channel' = [channel EXCEPT ![w] = 0]
          /\ UNCHANGED <<folder, target, seen, ownErr>>
          /\ UNCHANGED acked
       \/ /\ Mine(w).err
          /\ Return(w)
          /\ UNCHANGED acked
       \/ /\ Mine(w).phase # "active"
          /\ ~Mine(w).err
          /\ acked' = acked \cup {target[w]}
          /\ Return(w)
    /\ NoFault
    /\ UNCHANGED <<mgr, commandMu, shut, tmux, dirs>>

StopSession(w) ==
    /\ pc[w] = "dStop"
    /\ \E confirmed \in BOOLEAN :
          /\ Stopped(target[w], confirmed)
          /\ Goto(w, IF confirmed THEN "dFinish" ELSE "dFailed")
    /\ UNCHANGED <<mgr, commandMu, shut, locals, tagged, folderOf, dirs, acked>>

\* Confirmed: the record leaves the map. Its error is the caller's own
\* context error, if any (contextResult).
FinishStop(w) ==
    /\ pc[w] = "dFinish"
    /\ \E err \in BOOLEAN :
          /\ Closed(target[w], held[w], Mine(w).phase, err, Mine(w).fresh)
          /\ ownErr' = [ownErr EXCEPT ![w] = err]
          /\ UNCHANGED <<folder, target, held, channel, seen>>
    /\ proxies' = proxies \ {target[w]}
    /\ instances' = [instances EXCEPT ![target[w]] = 0]
    /\ Goto(w, "dRemove")
    /\ NoFault
    /\ UNCHANGED <<commandMu, shut, tmux, dirs, acked>>

FinishUnconfirmedStop(w) ==
    /\ pc[w] = "dFailed"
    /\ Closed(target[w], held[w], "active", TRUE, FALSE)
    /\ Return(w)
    /\ NoFault
    /\ UNCHANGED <<instances, proxies, commandMu, shut, tmux, dirs, acked>>

RemoveStoppedRuntime(w) ==
    /\ pc[w] = "dRemove"
    /\ dirs' = dirs \ {target[w]}
    /\ acked' = IF ownErr[w] THEN acked ELSE acked \cup {target[w]}
    /\ Return(w)
    /\ NoFault
    /\ UNCHANGED <<mgr, commandMu, shut, tmux>>

\* No record and no list: the exact session is killed without any lock.
StopUnknown(w) ==
    /\ pc[w] = "dStopUnknown"
    /\ \/ /\ Stopped(target[w], TRUE)
          /\ Goto(w, "dRemove")
          /\ \E err \in BOOLEAN : ownErr' = [ownErr EXCEPT ![w] = err]
          /\ UNCHANGED <<folder, target, held, channel, seen>>
       \/ /\ Stopped(target[w], FALSE)
          /\ Return(w)
    /\ UNCHANGED <<mgr, commandMu, shut, tagged, folderOf, dirs, acked>>

-----------------------------------------------------------------------------
(* Proxy and List.                                                         *)

StartProxy(w, i) ==
    /\ pc[w] = "idle"
    /\ ~shutdownRequested
    /\ folderOf[i] # Nobody
    /\ Goto(w, "pKnown")
    /\ target' = [target EXCEPT ![w] = i]
    /\ UNCHANGED <<folder, held, channel, seen, ownErr>>
    /\ NoFault
    /\ UNCHANGED <<mgr, commandMu, shut, tmux, dirs, acked>>

\* ensureKnownInstance: a record, or a fresh look at tmux under commandMu.
ProxyKnown(w) ==
    /\ pc[w] = "pKnown"
    /\ Goto(w, IF target[w] \in Recorded THEN "pSocket" ELSE "pDiscover")
    /\ NoFault
    /\ UNCHANGED <<mgr, commandMu, shut, locals, tmux, dirs, acked>>

ProxyDiscover(w) ==
    /\ pc[w] = "pDiscover"
    /\ \/ /\ target[w] \in Recorded
          /\ Passes
          /\ Goto(w, "pSocket")
          /\ NoFault
          /\ UNCHANGED locals
       \/ /\ target[w] \notin Recorded
          /\ Discover(w, "pReconcile")
    /\ UNCHANGED <<mgr, shut, tmux, dirs, acked>>

ProxyReconcile(w) ==
    /\ pc[w] = "pReconcile"
    /\ Reconciled(seen[w])
    /\ StaleRuntimeRemoved
    /\ Release(w)
    /\ \/ /\ instances'[target[w]] # 0
          /\ Goto(w, "pSocket")
          /\ seen' = [seen EXCEPT ![w] = {}]
          /\ UNCHANGED <<folder, target, held, channel, ownErr>>
       \/ /\ instances'[target[w]] = 0
          /\ Return(w)
    /\ NoFault
    /\ UNCHANGED <<shut, tmux, acked>>

\* The HTTP socket is a file of the runtime directory: without the directory
\* it is not ready, with it code-server may or may not have bound it.
ProxySocket(w) ==
    /\ pc[w] = "pSocket"
    /\ \/ /\ target[w] \in dirs
          /\ Goto(w, "pCheck")
       \/ Goto(w, "pEvict")
    /\ NoFault
    /\ UNCHANGED <<mgr, commandMu, shut, locals, tmux, dirs, acked>>

\* The record of i, when it is active, leaves the map with its proxy.
EvictActive(i) ==
    IF i \in Recorded /\ Current(i).phase = "active"
      THEN /\ instances' = [instances EXCEPT ![i] = 0]
           /\ proxies' = proxies \ {i}
      ELSE UNCHANGED <<instances, proxies>>

EvictIfDead(w) ==
    /\ pc[w] = "pEvict"
    /\ Passes
    /\ Return(w)
    /\ \/ /\ target[w] \notin live
          /\ EvictActive(target[w])
          /\ dirs' = dirs \ {target[w]}
          /\ NoFault
       \/ /\ target[w] \in live
          /\ NoFault
          /\ UNCHANGED <<instances, proxies, dirs>>
       \/ /\ Fault
          /\ UNCHANGED <<instances, proxies, dirs>>
    /\ UNCHANGED <<rec, shut, tmux, acked>>

IsActive(i) == i \in Recorded /\ Current(i).phase = "active"

\* Mutant: the id is read after the request is over.
ProxyHandlerOfNobody(w) == Return(w) /\ proxies' = proxies \cup {target'[w]}

\* proxyHandlerLocked refuses after the shutdown flag, else caches the proxy.
ProxyHandler(w) ==
    /\ proxies' = IF shutdownRequested THEN proxies ELSE proxies \cup {target[w]}
    /\ Return(w)

\* A record verified less than proxyVerifyInterval ago is served at once.
ProxyCheck(w) ==
    /\ pc[w] = "pCheck"
    /\ \/ /\ IsActive(target[w])
          /\ Current(target[w]).fresh
          /\ ProxyHandler(w)
       \/ /\ IsActive(target[w])
          /\ Goto(w, "pVerify")
          /\ UNCHANGED <<proxies, locals>>
       \/ /\ ~IsActive(target[w])
          /\ Return(w)
          /\ UNCHANGED proxies
    /\ NoFault
    /\ UNCHANGED <<instances, rec, commandMu, shut, tmux, dirs, acked>>

ProxyVerify(w) ==
    /\ pc[w] = "pVerify"
    /\ Passes
    /\ LET i == target[w] IN
       \/ /\ ~IsActive(i)
          /\ Return(w)
          /\ NoFault
          /\ UNCHANGED mgr
       \/ /\ IsActive(i)
          /\ Current(i).fresh
          /\ Goto(w, "pFinal")
          /\ NoFault
          /\ UNCHANGED <<mgr, locals>>
       \/ /\ IsActive(i)
          /\ i \in live
          /\ rec' = [rec EXCEPT ![i][instances[i]] = Verified(Current(i))]
          /\ Goto(w, "pFinal")
          /\ NoFault
          /\ UNCHANGED <<instances, proxies, locals>>
       \/ /\ IsActive(i)
          /\ i \notin live
          /\ EvictActive(i)
          /\ Goto(w, "pRemove")
          /\ NoFault
          /\ UNCHANGED <<rec, locals>>
       \/ /\ IsActive(i)
          /\ Fault
          /\ Return(w)
          /\ UNCHANGED mgr
    /\ UNCHANGED <<shut, tmux, dirs, acked>>

\* The directory of a dead instance is removed after commandMu is released.
ProxyRemovesRuntime(w) ==
    /\ pc[w] = "pRemove"
    /\ dirs' = dirs \ {target[w]}
    /\ Return(w)
    /\ NoFault
    /\ UNCHANGED <<mgr, commandMu, shut, tmux, acked>>

\* Mutant: the record is not looked up again after the verification.
ProxyFinalUnchecked(w) ==
    /\ pc[w] = "pFinal"
    /\ ProxyHandler(w)
    /\ NoFault
    /\ UNCHANGED <<instances, rec, commandMu, shut, tmux, dirs, acked>>

ProxyFinal(w) ==
    /\ pc[w] = "pFinal"
    /\ IF IsActive(target[w])
         THEN ProxyHandler(w)
         ELSE Return(w) /\ UNCHANGED proxies
    /\ NoFault
    /\ UNCHANGED <<instances, rec, commandMu, shut, tmux, dirs, acked>>

StartList(w) ==
    /\ pc[w] = "idle"
    /\ ~shutdownRequested
    /\ Goto(w, "list")
    /\ NoFault
    /\ UNCHANGED <<mgr, commandMu, shut, locals, tmux, dirs, acked>>

ListDiscover(w) ==
    /\ pc[w] = "list"
    /\ \/ /\ ~shutdownRequested
          /\ Discover(w, "lReconcile")
       \/ /\ shutdownRequested
          /\ Passes
          /\ Return(w)
          /\ NoFault
    /\ UNCHANGED <<mgr, shut, tmux, dirs, acked>>

\* Mutant: an early return that keeps commandMu.
ListReconcileLocked(w) ==
    /\ pc[w] = "lReconcile"
    /\ Reconciled(seen[w])
    /\ StaleRuntimeRemoved
    /\ Return(w)
    /\ NoFault
    /\ UNCHANGED <<commandMu, shut, tmux, acked>>

ListReconcile(w) ==
    /\ pc[w] = "lReconcile"
    /\ Reconciled(seen[w])
    /\ StaleRuntimeRemoved
    /\ Release(w)
    /\ Return(w)
    /\ NoFault
    /\ UNCHANGED <<shut, tmux, acked>>

-----------------------------------------------------------------------------
(* Shutdown: one attempt at a time, the other callers wait for its result. *)

StartShutdown(w) ==
    /\ pc[w] = "idle"
    /\ shutdownRequested' = TRUE
    /\ Goto(w, "sBegin")
    /\ NoFault
    /\ UNCHANGED <<mgr, commandMu, shutdown, attempt, locals, tmux, dirs, acked>>

ShutdownBegin(w) ==
    /\ pc[w] = "sBegin"
    /\ \/ /\ shutdown = "complete"
          /\ Return(w)
          /\ UNCHANGED shut
       \/ /\ shutdown = "running"
          /\ Goto(w, "sWait")
          /\ channel' = [channel EXCEPT ![w] = attempt]
          /\ UNCHANGED <<folder, target, held, seen, ownErr>>
          /\ UNCHANGED shut
       \/ /\ shutdown = "no"
          /\ shutdown' = "running"
          /\ attempt' = attempt + 1
          /\ Goto(w, "sInterrupt")
          /\ UNCHANGED <<shutdownRequested, locals>>
    /\ NoFault
    /\ UNCHANGED <<mgr, commandMu, tmux, dirs, acked>>

ShutdownWoken(w) ==
    /\ pc[w] = "sWait"
    /\ shutdown # "running" \/ attempt # channel[w]
    /\ Return(w)
    /\ NoFault
    /\ UNCHANGED <<mgr, commandMu, shut, tmux, dirs, acked>>

\* Discovery, C-c to every session and the grace period: the sessions may exit
\* meanwhile (action Exit), nothing else comes of it.
ShutdownInterrupt(w) ==
    /\ pc[w] = "sInterrupt"
    /\ Passes
    /\ Goto(w, "sKill")
    /\ NoFault
    /\ UNCHANGED <<mgr, shut, locals, tmux, dirs, acked>>

ShutdownKill(w) ==
    /\ pc[w] = "sKill"
    /\ \/ /\ NoFault
          /\ live' = {}
          /\ Acquire(w)
          /\ Goto(w, "sClear")
       \/ /\ Fault
          /\ live' \in {live, {}}
          /\ Passes
          /\ Goto(w, "sFailed")
    /\ UNCHANGED <<mgr, shut, locals, tagged, folderOf, dirs, acked>>

\* Mutant: the records outlive the sessions.
ShutdownClearProxies(w) ==
    /\ pc[w] = "sClear"
    /\ proxies' = {}
    /\ Release(w)
    /\ dirs' = {}
    /\ Goto(w, "sDone")
    /\ NoFault
    /\ UNCHANGED <<instances, rec, shut, locals, tmux, acked>>

ShutdownClear(w) ==
    /\ pc[w] = "sClear"
    /\ proxies' = {}
    /\ instances' = [i \in Ids |-> 0]
    /\ Release(w)
    /\ \/ /\ NoFault
          /\ dirs' = {}
          /\ Goto(w, "sDone")
       \/ /\ Fault
          /\ dirs' \in {dirs, {}}
          /\ Goto(w, "sFailed")
    /\ UNCHANGED <<rec, shut, locals, tmux, acked>>

ShutdownEnd(w) ==
    /\ pc[w] \in {"sDone", "sFailed"}
    /\ shutdown' = IF pc[w] = "sDone" THEN "complete" ELSE "no"
    /\ Return(w)
    /\ NoFault
    /\ UNCHANGED <<mgr, commandMu, shutdownRequested, attempt, tmux, dirs, acked>>

-----------------------------------------------------------------------------
(* The environment: callers that give up, editors that exit, a daemon that *)
(* dies and is started again.                                              *)

Cancel(w) ==
    /\ pc[w] \in {"cWait", "dWait", "sWait"}
    /\ Return(w)
    /\ NoFault
    /\ UNCHANGED <<mgr, commandMu, shut, tmux, dirs, acked>>

Exit(i) ==
    /\ i \in live
    /\ live' = live \ {i}
    /\ UNCHANGED <<mgr, commandMu, shut, pc, locals, tagged, folderOf, dirs, acked,
                   faults, crashes, up>>

\* Memory is lost, sessions and directories stay.
Crash ==
    /\ up
    /\ crashes < MaxCrashes
    /\ crashes' = crashes + 1
    /\ up' = FALSE
    /\ instances' = [i \in Ids |-> 0]
    /\ rec' = [i \in Ids |-> [g \in Gens |-> Free]]
    /\ proxies' = {}
    /\ commandMu' = Nobody
    /\ shutdownRequested' = FALSE
    /\ shutdown' = "no"
    /\ attempt' = 0
    /\ pc' = [w \in Workers |-> "idle"]
    /\ folder' = Nowhere
    /\ target' = Nowhere
    /\ held' = Zeros
    /\ channel' = Zeros
    /\ seen' = [w \in Workers |-> {}]
    /\ ownErr' = [w \in Workers |-> FALSE]
    /\ UNCHANGED <<tmux, dirs, acked, faults>>

\* Initialize must see the private tmux server gone before it clears the
\* runtime directory; when it cannot, the daemon does not start.
Initialize ==
    /\ ~up
    /\ up' = TRUE
    /\ live' = {}
    /\ dirs' = {}
    /\ UNCHANGED <<mgr, commandMu, shut, pc, locals, tagged, folderOf, acked, faults, crashes>>

Request(w) ==
    \/ \E f \in Folders : StartCreate(w, f)
    \/ \E i \in Ids : StartDelete(w, i) \/ StartProxy(w, i)
    \/ StartList(w)
    \/ StartShutdown(w)

CreateStep(w) ==
    \/ Reserve(w) \/ ReserveReconcile(w) \/ Decide(w) \/ GetChannel(w) \/ CreateWoken(w)
    \/ CreateReadsOutcome(w) \/ Insert(w) \/ Launch(w) \/ Tag(w) \/ Verify(w) \/ Relink(w)
    \/ BecomesReady(w) \/ NotReady(w) \/ Activate(w) \/ FailLaunch(w) \/ Cleanup(w)
    \/ Unlaunch(w) \/ MarkFailed(w)

DeleteStep(w) ==
    \/ DeleteLookup(w) \/ DeleteReconcile(w) \/ BeginStop(w) \/ AwaitTransition(w)
    \/ DeleteWoken(w) \/ DeleteReadsOutcome(w) \/ StopSession(w) \/ FinishStop(w)
    \/ FinishUnconfirmedStop(w) \/ RemoveStoppedRuntime(w) \/ StopUnknown(w)

ProxyStep(w) ==
    \/ ProxyKnown(w) \/ ProxyDiscover(w) \/ ProxyReconcile(w) \/ ProxySocket(w)
    \/ EvictIfDead(w) \/ ProxyCheck(w) \/ ProxyVerify(w) \/ ProxyRemovesRuntime(w)
    \/ ProxyFinal(w)

ShutdownStep(w) ==
    \/ ShutdownBegin(w) \/ ShutdownWoken(w) \/ ShutdownInterrupt(w) \/ ShutdownKill(w)
    \/ ShutdownClear(w) \/ ShutdownEnd(w)

Progress(w) ==
    \/ CreateStep(w) \/ DeleteStep(w) \/ ProxyStep(w)
    \/ ListDiscover(w) \/ ListReconcile(w) \/ ShutdownStep(w)

Running(A) == up /\ UNCHANGED <<crashes, up>> /\ A

Next ==
    \/ \E w \in Workers : Running(Request(w) \/ Cancel(w) \/ Progress(w))
    \/ \E i \in Ids : Exit(i)
    \/ Crash
    \/ Initialize

Spec == Init /\ [][Next]_vars

\* A goroutine runs on, gets a lock that is free again and again (sync.Mutex
\* does not starve a waiter), and its waits are bounded by timers. Nothing
\* makes a client call, give up, or an editor exit.
Fairness ==
    /\ \A w \in Workers : SF_vars(Running(Progress(w)))
    /\ WF_vars(Initialize)

FairSpec == Spec /\ Fairness

-----------------------------------------------------------------------------
\* Every variable has its type.
TypeOK ==
    /\ instances \in [Ids -> Gens \cup {0}]
    /\ rec \in [Ids -> [Gens -> Record]]
    /\ proxies \subseteq Ids
    /\ commandMu \in Workers \cup {Nobody}
    /\ shutdownRequested \in BOOLEAN
    /\ shutdown \in {"no", "running", "complete"}
    /\ attempt \in Nat
    /\ pc \in [Workers -> Positions]
    /\ folder \in [Workers -> Folders \cup {Nobody}]
    /\ target \in [Workers -> Ids \cup {Nobody}]
    /\ held \in [Workers -> Gens \cup {0}]
    /\ channel \in [Workers -> Nat]
    /\ seen \in [Workers -> SUBSET Ids]
    /\ ownErr \in [Workers -> BOOLEAN]
    /\ live \subseteq Ids
    /\ tagged \subseteq Ids
    /\ folderOf \in [Ids -> Folders \cup {Nobody}]
    /\ dirs \subseteq Ids
    /\ acked \subseteq Ids
    /\ faults \in Nat
    /\ crashes \in Nat
    /\ up \in BOOLEAN

\* commandMu really serialises: whoever is between taking and releasing it
\* owns it, and nobody else is there (the fields comment of Manager).
CommandsSerialized ==
    \A w \in Workers : pc[w] \in HoldsCommandMu <=> commandMu = w

\* Config.MaxServers bounds the reserved, active and stopping instances
\* together, whatever stale list of sessions is reconciled meanwhile.
LimitKept == Cardinality(Recorded) <= MaxServers

\* A cached reverse proxy belongs to an active instance: stopping, failing,
\* eviction and shutdown all drop it before or with the record's phase.
ProxiesOnlyActive == \A i \in proxies : IsActive(i)

\* A waiting goroutine is never left behind: the transition channel of a
\* record in the map is open exactly while it is launching or stopping.
TransitionMatchesPhase ==
    \A i \in Recorded : Current(i).open <=> Current(i).phase \in Transient

LaunchPositions ==
    {"launch", "tag", "verify", "relink", "await", "activate", "failLaunch", "cleanup",
     "unlaunch", "markFailed"}
StopPositions == {"dStop", "dFinish", "dFailed"}

Works(w, i) ==
    /\ target[w] = i
    /\ held[w] = instances[i]
    /\ \/ Current(i).phase = "launching" /\ pc[w] \in LaunchPositions
       \/ Current(i).phase = "stopping" /\ pc[w] \in StopPositions

\* A launching or stopping record in the map has one goroutine that will end
\* the transition, and only one: otherwise its folder is blocked for ever, or
\* a closed channel is closed again, which panics.
OneWorkerPerTransition ==
    \A i \in Recorded : Current(i).phase \in Transient =>
        /\ \E w \in Workers : Works(w, i)
        /\ \A v, w \in Workers : Works(v, i) /\ Works(w, i) => v = w

\* A launching or stopping record is the business of exactly one goroutine,
\* and its channel is open for the others until that one has ended it.
TransitionsOwned == TransitionMatchesPhase /\ OneWorkerPerTransition

\* A running code-server keeps its record, which counts it against the limit
\* and lets Delete find it, and its runtime directory with the sockets,
\* whatever single command failed and whatever List, Proxy, Delete or a
\* failed launch clean up meanwhile.
LiveKept == up => live \subseteq Recorded /\ live \subseteq dirs

\* Once Shutdown has completed nothing is left and nothing comes back, though
\* launches were under way when it began.
ShutdownIsFinal ==
    shutdown = "complete" =>
        live = {} /\ dirs = {} /\ proxies = {} /\ Recorded = {}

\* Delete tells its caller "stopped" only when the session is gone
\* (manager_test.go: "Delete succeeded without confirming exact session absence").
AckedDeleteStopped == acked \cap live = {}

\* Every request is answered, also when it waits for the transition of another
\* that fails, and when a shutdown begins in the middle of it.
RequestsEnd == \A w \in Workers : pc[w] # "idle" ~> pc[w] = "idle"

=============================================================================
