------------------------------ MODULE Sessions ------------------------------
(***************************************************************************)
(* The terminal-session manager of remoteterminal                          *)
(* (remoteterminal/internal/sessions/manager.go): sessions live in a       *)
(* private tmux server; a connected session has one ttyd child that serves *)
(* it on a Unix socket; mouse selections wait in tmux paste buffers.       *)
(*                                                                         *)
(* m.mu is held over a whole request, tmux commands and waits included, so *)
(* at most one request is under way: op is what it is doing. What goes on  *)
(* without the mutex is the world (sessions that end, ttyd processes that  *)
(* bind their socket or exit, users who select text), the watcher          *)
(* goroutine of each process (waitProcess), and a shutdown's wait.         *)
(***************************************************************************)
EXTENDS Naturals, Sequences, FiniteSets, SequencesExt

CONSTANTS
    Ids,            \* random session ids, each generated at most once
    Names,
    Procs,          \* ttyd processes, in whatever order they are started
    MaxSessions,    \* Config.MaxSessions
    MaxSelections,  \* bound: selections users make
    MaxFaults,      \* bound: tmux clients or process starts that fail
    MaxRestarts,    \* bound: crashes of the daemon
    None

Hidden == {"bare", "tagged"}  \* created, but not yet or never listed
Over   == {"unused", "ended", "orphan"}

ASSUME BoundsAssumption ==
    /\ MaxSessions \in Nat /\ MaxSelections \in Nat
    /\ MaxFaults \in Nat /\ MaxRestarts \in Nat
ASSUME NamesAssumption == Names \cap (Hidden \cup Over) = {}
ASSUME NoneAssumption == None \notin Procs /\ None \notin Ids /\ None \notin Names

VARIABLES
    session,       \* tmux: per id its name option, or why there is none
    buffers,       \* tmux paste buffers of the mouse binding; n is their age
    ttyd,          \* the processes and the watcher goroutine of each
    managed,       \* m.processes
    file,          \* whose socket lies at ttydSocket(id)
    op,            \* the request that holds m.mu
    shuttingDown,
    leaving,       \* processes Shutdown has taken out of the map and waits for
    made, faults, restarts,
    taken,         \* history: selections returned, in order
    barred,        \* history: selections a Connect or a discard has removed
    deleted        \* history: ids for which Delete returned nil

tmux    == <<session, buffers>>
terms   == <<ttyd, managed, file>>
history == <<taken, barred, deleted>>
vars    == <<session, buffers, ttyd, managed, file, op, shuttingDown, leaving,
             made, faults, restarts, taken, barred, deleted>>

-----------------------------------------------------------------------------

Selection == [id : Ids, n : 1..MaxSelections]
Listing   == [id : Ids, name : Names]

\* state: not started, before and after it listens, exited.
\* term: it was sent SIGTERM or SIGKILL.
\* watcher: in Wait, done closed, past the mutex with the socket to remove, over.
Process == [id    : Ids \cup {None},
            state : {"unused", "starting", "bound", "exited"},
            term  : BOOLEAN,
            watcher : {"none", "waiting", "reported", "removing", "gone"}]

NewProcess(id, state, term, watcher) ==
    [id |-> id, state |-> state, term |-> term, watcher |-> watcher]

Unstarted    == NewProcess(None, "unused", FALSE, "none")
Started(i)   == NewProcess(i, "starting", FALSE, "waiting")
Terminated(r) == NewProcess(r.id, r.state, TRUE, r.watcher)
Exited(r)    == NewProcess(r.id, IF r.state = "unused" THEN "unused" ELSE "exited", r.term, r.watcher)
Killed(r)    == Exited(Terminated(r))
Watched(r, watcher) == NewProcess(r.id, r.state, r.term, watcher)

Running  == {p \in Procs : ttyd[p].state \in {"starting", "bound"}}
Finished == {p \in Procs : ttyd[p].watcher \in {"reported", "removing", "gone"}}
Unused   == {p \in Procs : ttyd[p].state = "unused"}

Managed == {i \in Ids : managed[i] # None}
Named   == {i \in Ids : session[i] \in Names}
Live    == {i \in Ids : session[i] \notin Over}
Listed  == {l \in Listing : session[l.id] = l.name}

\* The tmux server and its buffers go with its last session.
End(i) ==
    /\ session' = [session EXCEPT ![i] = "ended"]
    /\ buffers' = IF Live \subseteq {i} THEN {} ELSE buffers

Matching(i) == {b \in buffers : b.id = i}
Newest(S)   == {b \in S : \A c \in S : c.n <= b.n}
Oldest(S)   == {b \in S : \A c \in S : b.n <= c.n}

Kinds == {"list", "create", "delete", "connect", "proxy", "take", "discard"}

\* pc: the next thing the request does. seen: what listLocked returned.
\* stop: the ids whose process it is stopping, and then the pc to go on with.
\* victim: the process it waits for. doomed: the buffers it is deleting.
Request == [kind   : Kinds \cup {"none"},
            id     : Ids \cup {None},
            name   : Names \cup {None},
            pc     : {"idle", "list", "dispatch", "stop", "stopWait", "create", "tag", "name",
                      "cleanup", "buffers", "show", "drop", "kill", "configure", "reuse",
                      "start", "await", "answer"},
            seen   : SUBSET Listing,
            stop   : SUBSET Ids,
            then   : {"idle", "dispatch", "buffers", "start", "answer"},
            victim : Procs \cup {None},
            doomed : SUBSET Selection,
            listed : SUBSET Selection,
            text   : 0..MaxSelections]

Idle == [kind |-> "none", id |-> None, name |-> None, pc |-> "idle", seen |-> {}, stop |-> {},
         then |-> "idle", victim |-> None, doomed |-> {}, listed |-> {}, text |-> 0]

SeenIds == {l.id : l \in op.seen}

Init ==
    /\ session = [i \in Ids |-> "unused"]
    /\ buffers = {}
    /\ ttyd = [p \in Procs |-> Unstarted]
    /\ managed = [i \in Ids |-> None]
    /\ file = [i \in Ids |-> None]
    /\ op = Idle
    /\ shuttingDown = FALSE
    /\ leaving = {}
    /\ made = 0 /\ faults = 0 /\ restarts = 0
    /\ taken = <<>> /\ barred = {} /\ deleted = {}

-----------------------------------------------------------------------------
(* Steps of any request.                                                   *)

At(kinds, pc) == op.kind \in kinds /\ op.pc = pc
Goto(pc)      == op' = [op EXCEPT !.pc = pc]
Return        == op' = Idle

Fault == faults < MaxFaults /\ faults' = faults + 1
Works == UNCHANGED faults

\* stopProcessLocked of every id of S, one after the other, then on to pc.
StopAll(S, pc) == op' = [op EXCEPT !.pc = IF S = {} THEN pc ELSE "stop", !.stop = S, !.then = pc]

\* A new request takes the mutex; those that name a session name one that was created.
Start(kind, i, n) ==
    /\ op = Idle
    /\ kind \notin {"list", "proxy"} => ~shuttingDown
    /\ kind \in {"list", "create"} => i = None
    /\ kind \notin {"list", "create"} => i # None /\ session[i] # "unused"
    /\ IF kind = "create" THEN n # None ELSE n = None
    /\ kind = "connect" => Unused # {}
    /\ kind = "create" => \E j \in Ids : session[j] = "unused"
    /\ op' = [Idle EXCEPT !.kind = kind, !.id = i, !.name = n, !.pc = "list"]
    /\ UNCHANGED <<tmux, terms, shuttingDown, leaving, made, faults, restarts, history>>

\* listLocked: a missing socket, a dead server and an empty one all list nothing.
ListSessions ==
    /\ op.pc = "list"
    /\ op' = [op EXCEPT !.seen = Listed, !.then = "dispatch",
                        !.stop = Managed \ {l.id : l \in Listed},
                        !.pc = IF Managed \subseteq {l.id : l \in Listed} THEN "dispatch" ELSE "stop"]
    /\ UNCHANGED <<tmux, terms, shuttingDown, leaving, made, faults, restarts, history>>

ListFails ==
    /\ op.pc = "list"
    /\ Fault
    /\ Return
    /\ UNCHANGED <<tmux, terms, shuttingDown, leaving, made, restarts, history>>

\* "error connecting": the socket is removed whether or not a server listens
\* there; its sessions live on where no client finds them.
ListMisreports ==
    /\ op.pc = "list"
    /\ Fault
    /\ session' = [i \in Ids |-> IF i \in Live THEN "orphan" ELSE session[i]]
    /\ buffers' = {}
    /\ StopAll(Managed, "dispatch")
    /\ UNCHANGED <<terms, shuttingDown, leaving, made, restarts, history>>

\* stopProcessLocked: out of the map and SIGTERM ...
StopSignal(i) ==
    /\ op.pc = "stop"
    /\ i \in op.stop
    /\ \/ /\ managed[i] = None
          /\ file' = [file EXCEPT ![i] = None]
          /\ StopAll(op.stop \ {i}, op.then)
          /\ UNCHANGED <<ttyd, managed>>
       \/ /\ managed[i] # None
          /\ managed' = [managed EXCEPT ![i] = None]
          /\ ttyd' = [ttyd EXCEPT ![managed[i]] = Terminated(@)]
          /\ op' = [op EXCEPT !.pc = "stopWait", !.victim = managed[i]]
          /\ UNCHANGED file
    /\ UNCHANGED <<tmux, shuttingDown, leaving, made, faults, restarts, history>>

\* ... then its end, or the timer and SIGKILL, and the socket is removed.
Stopped ==
    /\ op.pc = "stopWait"
    /\ \/ op.victim \in Finished /\ UNCHANGED ttyd
       \/ ttyd' = [ttyd EXCEPT ![op.victim] = Killed(@)]
    /\ LET i == ttyd[op.victim].id IN
         /\ file' = [file EXCEPT ![i] = None]
         /\ op' = [op EXCEPT !.stop = @ \ {i}, !.victim = None,
                             !.pc = IF op.stop = {i} THEN op.then ELSE "stop"]
    /\ UNCHANGED <<tmux, managed, shuttingDown, leaving, made, faults, restarts, history>>

\* What comes after listLocked or findLocked.
Dispatch ==
    /\ op.pc = "dispatch"
    /\ CASE op.kind = "list" -> Return
         [] op.kind = "create" -> Goto("create")
         [] op.kind \notin {"list", "create"} /\ op.id \notin SeenIds -> Return
         [] op.kind = "proxy" /\ op.id \in SeenIds -> Goto("answer")
         [] op.kind = "delete" /\ op.id \in SeenIds -> StopAll({op.id}, "buffers")
         [] op.kind \in {"connect", "take", "discard"} /\ op.id \in SeenIds -> Goto("buffers")
    /\ UNCHANGED <<tmux, terms, shuttingDown, leaving, made, faults, restarts, history>>

\* Proxy's handler or ErrTerminalNotRunning, or the error of a Connect.
Answer ==
    /\ op.pc = "answer"
    /\ Return
    /\ UNCHANGED <<tmux, terms, shuttingDown, leaving, made, faults, restarts, history>>

-----------------------------------------------------------------------------
(* Create.                                                                 *)

AtLimit == Cardinality(op.seen) >= MaxSessions

\* new-session: a client that fails may have created the session.
CreateSession(i) ==
    /\ At({"create"}, "create")
    /\ ~AtLimit
    /\ \A l \in op.seen : l.name # op.name
    /\ session[i] = "unused"
    /\ \/ /\ Works
          /\ session' = [session EXCEPT ![i] = "bare"]
          /\ op' = [op EXCEPT !.pc = "tag", !.id = i]
       \/ /\ Fault
          /\ \E s \in {"bare", "ended"} : session' = [session EXCEPT ![i] = s]
          /\ op' = [op EXCEPT !.pc = "cleanup", !.id = i]
    /\ UNCHANGED <<buffers, terms, shuttingDown, leaving, made, restarts, history>>

CreateRefused ==
    /\ At({"create"}, "create")
    /\ AtLimit \/ \E l \in op.seen : l.name = op.name
    /\ Return
    /\ UNCHANGED <<tmux, terms, shuttingDown, leaving, made, faults, restarts, history>>

\* Mutant: a failing set-option returns its error at once.
SetOptionWithoutCleanup(pc, value, ok) ==
    /\ At({"create"}, pc)
    /\ \/ op.id \in Live /\ Works /\ session' = [session EXCEPT ![op.id] = value] /\ ok
       \/ op.id \notin Live /\ Works /\ UNCHANGED session /\ Return
       \/ op.id \in Live /\ Fault /\ UNCHANGED session /\ Return
    /\ UNCHANGED <<buffers, terms, shuttingDown, leaving, made, restarts, history>>

\* set-option on the session, which may have ended; then ok, else the cleanup.
SetOption(pc, value, ok) ==
    /\ At({"create"}, pc)
    /\ \/ op.id \in Live /\ Works /\ session' = [session EXCEPT ![op.id] = value] /\ ok
       \/ op.id \notin Live /\ Works /\ UNCHANGED session /\ Goto("cleanup")
       \/ /\ op.id \in Live
          /\ Fault
          /\ UNCHANGED session \/ session' = [session EXCEPT ![op.id] = value]
          /\ Goto("cleanup")
    /\ UNCHANGED <<buffers, terms, shuttingDown, leaving, made, restarts, history>>

TagId   == SetOption("tag", "tagged", Goto("name"))
TagName == SetOption("name", op.name, Return)

\* The cleanup's kill-session; its own error is dropped.
CleanUp ==
    /\ At({"create"}, "cleanup")
    /\ \/ op.id \in Live /\ Works /\ End(op.id)
       \/ op.id \notin Live /\ Works /\ UNCHANGED tmux
       \/ op.id \in Live /\ Fault /\ UNCHANGED tmux
    /\ Return
    /\ UNCHANGED <<terms, shuttingDown, leaving, made, restarts, history>>

-----------------------------------------------------------------------------
(* Paste buffers: Delete, Connect, TakeLatestSelection, DiscardSelections. *)

AfterBuffers == [take |-> "show", discard |-> "drop", delete |-> "drop", connect |-> "drop"]

\* Mutant: the older selections are left alone.
ListNewestBuffer ==
    /\ op.pc = "buffers"
    /\ \/ /\ Live # {} /\ Works
          /\ op' = IF op.kind = "take" /\ Matching(op.id) = {}
                     THEN Idle
                     ELSE [op EXCEPT !.pc = AfterBuffers[op.kind], !.seen = {},
                                     !.doomed = Newest(Matching(op.id)),
                                     !.listed = Matching(op.id)]
       \/ Live = {} /\ Works /\ Return
       \/ Live # {} /\ Fault /\ Return
    /\ UNCHANGED <<tmux, terms, shuttingDown, leaving, made, restarts, history>>

\* list-buffers: all that match.
ListBuffers ==
    /\ op.pc = "buffers"
    /\ \/ /\ Live # {} /\ Works
          /\ op' = IF op.kind = "take" /\ Matching(op.id) = {}
                     THEN Idle  \* ErrNoSelection
                     ELSE [op EXCEPT !.pc = AfterBuffers[op.kind], !.seen = {},
                                     !.doomed = Matching(op.id), !.listed = Matching(op.id)]
       \/ Live = {} /\ Works /\ Return
       \/ Live # {} /\ Fault /\ Return
    /\ UNCHANGED <<tmux, terms, shuttingDown, leaving, made, restarts, history>>

\* show-buffer of the newest; an empty, too large or invalid one (text 0) is consumed too.
ShowBuffer ==
    /\ op.pc = "show"
    /\ \/ /\ Live # {} /\ Works
          /\ \E b \in Newest(op.listed) : \E t \in {0, b.n} : op' = [op EXCEPT !.pc = "drop", !.text = t]
       \/ Live = {} /\ Works /\ Return
       \/ Live # {} /\ Fault /\ Return
    /\ UNCHANGED <<tmux, terms, shuttingDown, leaving, made, restarts, history>>

\* delete-buffer, the oldest first.
DropBuffer ==
    /\ op.pc = "drop"
    /\ \E oldest \in Oldest(op.doomed) :
         \/ /\ Works
            /\ IF oldest \in buffers
                 THEN buffers' = buffers \ {oldest} /\ op' = [op EXCEPT !.doomed = @ \ {oldest}]
                 ELSE Return /\ UNCHANGED buffers
         \/ /\ Fault
            /\ Return
            /\ UNCHANGED buffers \/ buffers' = buffers \ {oldest}
    /\ UNCHANGED <<session, terms, shuttingDown, leaving, made, restarts, history>>

BuffersDropped ==
    /\ op.pc = "drop"
    /\ op.doomed = {}
    /\ taken' = IF op.kind = "take" /\ op.text # 0 THEN Append(taken, op.text) ELSE taken
    /\ barred' = IF op.kind \in {"connect", "discard"}
                   THEN barred \cup {b.n : b \in op.listed} ELSE barred
    /\ CASE op.kind \in {"take", "discard"} -> Return
         [] op.kind = "delete" -> op' = [op EXCEPT !.pc = "kill", !.listed = {}]
         [] op.kind = "connect" -> op' = [op EXCEPT !.pc = "configure", !.listed = {}]
    /\ UNCHANGED <<tmux, terms, shuttingDown, leaving, made, faults, restarts, deleted>>

\* kill-session, the end of Delete.
KillSession ==
    /\ At({"delete"}, "kill")
    /\ \/ /\ op.id \in Live /\ Works
          /\ End(op.id)
          /\ deleted' = deleted \cup {op.id}
       \/ op.id \notin Live /\ Works /\ UNCHANGED <<tmux, deleted>>
       \/ /\ op.id \in Live /\ Fault
          /\ UNCHANGED tmux \/ End(op.id)
          /\ UNCHANGED deleted
    /\ Return
    /\ UNCHANGED <<terms, shuttingDown, leaving, made, restarts, taken, barred>>

-----------------------------------------------------------------------------
(* Connect.                                                                *)

\* The window, option, environment and key-binding commands.
Configure ==
    /\ op.pc = "configure"
    /\ \/ op.id \in Live /\ Works /\ Goto("reuse")
       \/ op.id \notin Live /\ Works /\ Return
       \/ op.id \in Live /\ Fault /\ Return
    /\ UNCHANGED <<tmux, terms, shuttingDown, leaving, made, restarts, history>>

\* A live process with its socket is used again, any other is stopped.
Reuse ==
    /\ op.pc = "reuse"
    /\ LET p == managed[op.id] IN
         \/ p # None /\ p \notin Finished /\ file[op.id] # None /\ Return
         \/ p # None /\ (p \in Finished \/ file[op.id] = None) /\ StopAll({op.id}, "start")
         \/ p = None /\ Goto("start")
    /\ UNCHANGED <<tmux, terms, shuttingDown, leaving, made, faults, restarts, history>>

\* Mutant: the path is not cleared first.
StartTtydOverSocket(p) ==
    /\ op.pc = "start"
    /\ p \in Unused
    /\ Works
    /\ ttyd' = [ttyd EXCEPT ![p] = Started(op.id)]
    /\ managed' = [managed EXCEPT ![op.id] = p]
    /\ Goto("await")
    /\ UNCHANGED <<tmux, file, shuttingDown, leaving, made, restarts, history>>

StartTtyd(p) ==
    /\ op.pc = "start"
    /\ p \in Unused
    /\ file' = [file EXCEPT ![op.id] = None]
    /\ \/ /\ Works
          /\ ttyd' = [ttyd EXCEPT ![p] = Started(op.id)]
          /\ managed' = [managed EXCEPT ![op.id] = p]
          /\ Goto("await")
       \/ /\ Fault
          /\ Return
          /\ UNCHANGED <<ttyd, managed>>
    /\ UNCHANGED <<tmux, shuttingDown, leaving, made, restarts, history>>

\* The loop's first look, then ctx.Done or the deadline, or managed.done.
SocketReady ==
    /\ op.pc = "await"
    /\ file[op.id] # None
    /\ Return
    /\ UNCHANGED <<tmux, terms, shuttingDown, leaving, made, faults, restarts, history>>

\* Mutant: the loop has no deadline.
SocketTimeoutNever ==
    /\ op.pc = "await"
    /\ FALSE
    /\ UNCHANGED vars

SocketTimeout ==
    /\ op.pc = "await"
    /\ StopAll({op.id}, "answer")
    /\ UNCHANGED <<tmux, terms, shuttingDown, leaving, made, faults, restarts, history>>

TtydExitedEarly ==
    /\ op.pc = "await"
    /\ managed[op.id] \in Finished
    /\ managed' = [managed EXCEPT ![op.id] = None]
    /\ Return
    /\ UNCHANGED <<tmux, ttyd, file, shuttingDown, leaving, made, faults, restarts, history>>

-----------------------------------------------------------------------------
(* waitProcess.                                                            *)

\* Wait returns and done is closed.
Report(p) ==
    /\ ttyd[p].state = "exited"
    /\ ttyd[p].watcher = "waiting"
    /\ ttyd' = [ttyd EXCEPT ![p] = Watched(@, "reported")]
    /\ UNCHANGED <<tmux, managed, file, op, shuttingDown, leaving, made, faults, restarts, history>>

\* The section under m.mu.
Disown(p) ==
    /\ op = Idle
    /\ ttyd[p].watcher = "reported"
    /\ IF managed[ttyd[p].id] = p
         THEN /\ managed' = [managed EXCEPT ![ttyd[p].id] = None]
              /\ ttyd' = [ttyd EXCEPT ![p] = Watched(@, "removing")]
         ELSE /\ ttyd' = [ttyd EXCEPT ![p] = Watched(@, "gone")]
              /\ UNCHANGED managed
    /\ UNCHANGED <<tmux, file, op, shuttingDown, leaving, made, faults, restarts, history>>

\* os.Remove(socket), after the mutex was released.
RemoveSocket(p) ==
    /\ ttyd[p].watcher = "removing"
    /\ file' = [file EXCEPT ![ttyd[p].id] = None]
    /\ ttyd' = [ttyd EXCEPT ![p] = Watched(@, "gone")]
    /\ UNCHANGED <<tmux, managed, op, shuttingDown, leaving, made, faults, restarts, history>>

-----------------------------------------------------------------------------
(* Shutdown, and the daemon starting again.                                *)

ShutdownBegin ==
    /\ op = Idle
    /\ ~shuttingDown
    /\ shuttingDown' = TRUE
    /\ leaving' = {managed[i] : i \in Managed}
    /\ managed' = [i \in Ids |-> None]
    /\ ttyd' = [p \in Procs |-> IF p \in leaving' THEN Terminated(ttyd[p]) ELSE ttyd[p]]
    /\ UNCHANGED <<tmux, file, op, made, faults, restarts, history>>

ShutdownReap(p) ==
    /\ p \in leaving \cap Finished
    /\ leaving' = leaving \ {p}
    /\ file' = [file EXCEPT ![ttyd[p].id] = None]
    /\ UNCHANGED <<tmux, ttyd, managed, op, shuttingDown, made, faults, restarts, history>>

\* ctx.Done: everything that was taken out of the map is killed.
ShutdownExpire ==
    /\ leaving # {}
    /\ leaving' = {}
    /\ ttyd' = [p \in Procs |-> IF p \in leaving THEN Killed(ttyd[p]) ELSE ttyd[p]]
    /\ file' = [i \in Ids |-> IF \E p \in leaving : ttyd[p].id = i THEN None ELSE file[i]]
    /\ UNCHANGED <<tmux, managed, op, shuttingDown, made, faults, restarts, history>>

\* The daemon dies with its ttyd children; its sessions may live on. Initialize
\* removes every socket and every paste buffer of the service.
Restart ==
    /\ restarts < MaxRestarts
    /\ restarts' = restarts + 1
    /\ \/ UNCHANGED session
       \/ session' = [i \in Ids |-> IF i \in Live THEN "ended" ELSE session[i]]
    /\ buffers' = {}
    /\ ttyd' = [p \in Procs |-> IF p \in Unused THEN ttyd[p] ELSE Watched(Exited(ttyd[p]), "gone")]
    /\ managed' = [i \in Ids |-> None]
    /\ file' = [i \in Ids |-> None]
    /\ op' = Idle
    /\ shuttingDown' = FALSE
    /\ leaving' = {}
    /\ UNCHANGED <<made, faults, history>>

-----------------------------------------------------------------------------
(* The world.                                                              *)

\* The user leaves the last shell.
SessionEnds(i) ==
    /\ i \in Live
    /\ End(i)
    /\ UNCHANGED <<terms, op, shuttingDown, leaving, made, faults, restarts, history>>

\* A drag in a terminal page that a ttyd serves.
Select(i) ==
    /\ i \in Named
    /\ \E p \in Running : ttyd[p].id = i /\ ttyd[p].state = "bound"
    /\ made < MaxSelections
    /\ made' = made + 1
    /\ buffers' = buffers \cup {[id |-> i, n |-> made + 1]}
    /\ UNCHANGED <<session, terms, op, shuttingDown, leaving, faults, restarts, history>>

TtydBinds(p) ==
    /\ ttyd[p].state = "starting"
    /\ ttyd' = [ttyd EXCEPT ![p] = NewProcess(@.id, "bound", @.term, @.watcher)]
    /\ file' = [file EXCEPT ![ttyd[p].id] = p]
    /\ UNCHANGED <<tmux, managed, op, shuttingDown, leaving, made, faults, restarts, history>>

\* By itself or on SIGTERM, with or without unlinking the path of its socket.
TtydExits(p) ==
    /\ p \in Running
    /\ ttyd' = [ttyd EXCEPT ![p] = Exited(@)]
    /\ \/ UNCHANGED file
       \/ ttyd[p].state = "bound" /\ file' = [file EXCEPT ![ttyd[p].id] = None]
    /\ UNCHANGED <<tmux, managed, op, shuttingDown, leaving, made, faults, restarts, history>>

-----------------------------------------------------------------------------

RequestStep ==
    \/ ListSessions \/ ListFails \/ ListMisreports
    \/ (\E i \in Ids : StopSignal(i)) \/ Stopped
    \/ Dispatch \/ Answer
    \/ (\E i \in Ids : CreateSession(i)) \/ CreateRefused \/ TagId \/ TagName \/ CleanUp
    \/ ListBuffers \/ ShowBuffer \/ DropBuffer \/ BuffersDropped \/ KillSession
    \/ Configure \/ Reuse \/ (\E p \in Procs : StartTtyd(p))
    \/ SocketReady \/ SocketTimeout \/ TtydExitedEarly

Watcher(p) == Report(p) \/ Disown(p) \/ RemoveSocket(p)

Next ==
    \/ \E k \in Kinds, i \in Ids \cup {None}, n \in Names \cup {None} : Start(k, i, n)
    \/ RequestStep
    \/ \E p \in Procs : Watcher(p) \/ ShutdownReap(p) \/ TtydBinds(p) \/ TtydExits(p)
    \/ ShutdownBegin \/ ShutdownExpire \/ Restart
    \/ \E i \in Ids : SessionEnds(i) \/ Select(i)

Spec == Init /\ [][Next]_vars

\* Timers expire, tmux clients return or fail, and sync.Mutex does not starve
\* a watcher. Nobody has to ask for anything, to bind or to exit.
FairSpec ==
    /\ Spec
    /\ WF_vars(RequestStep)
    /\ WF_vars(ShutdownExpire)
    /\ \A p \in Procs : WF_vars(Report(p)) /\ SF_vars(Disown(p)) /\ WF_vars(RemoveSocket(p))

-----------------------------------------------------------------------------

TypeOK ==
    /\ session \in [Ids -> Names \cup Hidden \cup Over]
    /\ buffers \subseteq Selection
    /\ ttyd \in [Procs -> Process]
    /\ managed \in [Ids -> Procs \cup {None}]
    /\ file \in [Ids -> Procs \cup {None}]
    /\ op \in Request
    /\ shuttingDown \in BOOLEAN
    /\ leaving \subseteq Procs
    /\ made \in 0..MaxSelections /\ faults \in 0..MaxFaults /\ restarts \in 0..MaxRestarts
    /\ taken \in Seq(1..MaxSelections)
    /\ barred \subseteq 1..MaxSelections
    /\ deleted \subseteq Ids

(***************************************************************************)
(* Every running ttyd is in the map under its session, or a request or a   *)
(* shutdown is stopping it and will see its end: no path out of Connect,   *)
(* Delete or a list forgets a child that still serves a terminal.          *)
(***************************************************************************)
TtydTracked ==
    \A p \in Running : managed[ttyd[p].id] = p \/ p = op.victim \/ p \in leaving

(***************************************************************************)
(* A session's socket path never leads to another process than the one in  *)
(* the map: Connect and Proxy take any file there for that process.        *)
(***************************************************************************)
SocketOfManaged ==
    \A i \in Managed : file[i] \in {None, managed[i]}

(***************************************************************************)
(* When Shutdown has returned, with nil or at its deadline, no ttyd runs   *)
(* and none is started by a request that arrives later.                    *)
(***************************************************************************)
ShutdownStopsAll ==
    shuttingDown /\ leaving = {} => Running = {} /\ Managed = {}

(***************************************************************************)
(* The variables keep their types, and the three above hold: a child, its  *)
(* map entry and its socket stay together from StartTtyd until somebody    *)
(* has seen the child's end.                                               *)
(***************************************************************************)
TerminalsTracked == TypeOK /\ TtydTracked /\ SocketOfManaged /\ ShutdownStopsAll

(***************************************************************************)
(* Sessions a list shows never exceed MaxSessions, and no two have a name  *)
(* in common, also when commands of a Create fail after they took effect;  *)
(* and between requests a list shows every live session of the server,     *)
(* because a Create that fails removes the session it may have made        *)
(* (manager.go:602).                                                       *)
(***************************************************************************)
SessionsListed ==
    /\ Cardinality(Named) <= MaxSessions
    /\ \A i, j \in Named : session[i] = session[j] => i = j
    /\ op = Idle => \A i \in Ids : session[i] \notin Hidden

(***************************************************************************)
(* "A successful selection can therefore be returned only once"            *)
(* (manager.go:246), whichever of its tmux commands fail; what a           *)
(* successful Connect or DiscardSelections found is never returned         *)
(* afterwards, for older selections cannot reappear (manager.go:306, 703); *)
(* and once Delete has returned nil no selection made in that session is   *)
(* left on the server for the same account to read.                        *)
(***************************************************************************)
SelectionsGuarded ==
    /\ \A j, k \in DOMAIN taken : taken[j] = taken[k] => j = k
    /\ ToSet(taken) \cap barred = {}
    /\ \A b \in buffers : b.id \notin deleted

(***************************************************************************)
(* Every ttyd that has exited is waited for and its watcher ends, although *)
(* requests hold the mutex the watcher needs; every request lets go of     *)
(* that mutex, although it waits for processes that may never bind their   *)
(* socket nor exit; and a shutdown comes to an end with no ttyd left.      *)
(***************************************************************************)
ChildrenReaped ==
    /\ \A p \in Procs : ttyd[p].state = "exited" ~> ttyd[p].watcher = "gone"
    /\ op # Idle ~> op = Idle
    /\ shuttingDown ~> (~shuttingDown \/ leaving = {})
=============================================================================
