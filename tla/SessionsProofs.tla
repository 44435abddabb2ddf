---------------------------- MODULE SessionsProofs ----------------------------
(***************************************************************************)
(* Proofs about the terminal sessions, for any number of ids, names, ttyd  *)
(* processes, sessions, selections, failing commands and restarts.         *)
(***************************************************************************)
EXTENDS Sessions, FiniteSetTheorems, SequenceTheorems, TLAPS

(* The tmux side, the ttyd side, the request, the history. *)
TmuxType  == session \in [Ids -> Names \cup Hidden \cup Over] /\ buffers \subseteq Selection
TermsType ==
    /\ ttyd \in [Procs -> Process]
    /\ managed \in [Ids -> Procs \cup {None}]
    /\ file \in [Ids -> Procs \cup {None}]
    /\ leaving \subseteq Procs
CountsType ==
    /\ shuttingDown \in BOOLEAN
    /\ made \in 0..MaxSelections /\ faults \in 0..MaxFaults /\ restarts \in 0..MaxRestarts
HistoryType ==
    /\ taken \in Seq(1..MaxSelections)
    /\ barred \subseteq 1..MaxSelections
    /\ deleted \subseteq Ids

(* Which requests reach which step, and what they carry there. *)
StepOfKind ==
    /\ op.kind = "none" <=> op.pc = "idle"
    /\ op.pc \in {"create", "tag", "name", "cleanup"} => op.kind = "create"
    /\ op.pc = "buffers" => op.kind \in {"take", "discard", "delete", "connect"}
    /\ op.pc = "show" => op.kind = "take"
    /\ op.pc = "drop" => op.kind \in {"take", "discard", "delete", "connect"}
    /\ op.pc = "kill" => op.kind = "delete"
    /\ op.pc \in {"configure", "reuse", "start", "await"} => op.kind = "connect"
    /\ op.pc = "answer" => op.kind \in {"proxy", "connect"}
    /\ op.pc = "idle" => op = Idle
    /\ op.pc = "list" => op.seen = {}

Arguments ==
    /\ op.kind \notin {"none", "list", "create"} => op.id \in Ids
    /\ op.pc \in {"tag", "name", "cleanup"} => op.id \in Ids
    /\ op.kind = "create" => op.name \in Names

(* A request that stops processes goes on with what it was for. *)
StopsFor ==
    op.pc \in {"stop", "stopWait"} =>
      /\ op.stop # {}
      /\ \/ op.then = "dispatch"
         \/ op.kind = "delete" /\ op.then = "buffers" /\ op.stop = {op.id}
         \/ op.kind = "connect" /\ op.then \in {"start", "answer"} /\ op.stop = {op.id}

RequestInv == op \in Request /\ StepOfKind /\ Arguments /\ StopsFor

(* A process has its session and its watcher from its start; the watcher has
   reported only what has exited; the map holds processes under their session. *)
ProcessOk(p) ==
    /\ ttyd[p].state = "unused" <=> ttyd[p].watcher = "none"
    /\ ttyd[p].state # "unused" => ttyd[p].id \in Ids
    /\ ttyd[p].watcher \in {"reported", "removing", "gone"} => ttyd[p].state = "exited"

MapOk(i) == managed[i] # None => ttyd[managed[i]].id = i /\ ttyd[managed[i]].state # "unused"

ProcessesOk == (\A p \in Procs : ProcessOk(p)) /\ (\A i \in Ids : MapOk(i))

(* The process a request waits for is out of the map. Connect starts one, and
   Delete reaches for the buffers, only with none in the map. *)
VictimOut ==
    /\ op.pc = "stopWait" =>
         /\ op.victim \in Procs
         /\ ttyd[op.victim].state # "unused"
         /\ ttyd[op.victim].id \in op.stop
         /\ managed[ttyd[op.victim].id] = None
    /\ op.pc # "stopWait" => op.victim = None

NoneManaged ==
    /\ op.pc = "start" => managed[op.id] = None
    /\ op.kind = "delete" /\ op.pc \in {"buffers", "drop", "kill"} => managed[op.id] = None

(* After Shutdown's section only lists and proxies come, and they find nothing. *)
ShutdownOwns ==
    /\ shuttingDown => (\A i \in Ids : managed[i] = None) /\ op.pc \in {"idle", "list", "dispatch", "answer"}
                       /\ op.kind \in {"none", "list", "proxy"}
    /\ ~shuttingDown => leaving = {}

TermsInv == TermsType /\ ProcessesOk /\ VictimOut /\ NoneManaged /\ ShutdownOwns /\ TtydTracked /\ SocketOfManaged

(* A Create knows every named session until it has named its own. *)
NamedFinite == IsFiniteSet(Named) /\ Cardinality(Named) <= MaxSessions

NamesUnique == \A i, j \in Named : session[i] = session[j] => i = j

CreateKnows ==
    /\ IsFiniteSet(op.seen)
    /\ op.kind = "create" /\ op.pc # "list" /\ op.pc # "cleanup" =>
         \A i \in Named : [id |-> i, name |-> session[i]] \in op.seen
    /\ op.pc \in {"tag", "name"} =>
         /\ Cardinality(op.seen) < MaxSessions
         /\ \A l \in op.seen : l.name # op.name

(* A session without its options belongs to the Create under way, unless its
   cleanup failed as well or the daemon has died. *)
InCreation(i) ==
    /\ op.kind = "create" /\ op.id = i
    /\ op.pc \in {"tag", "name", "cleanup"}
    /\ op.pc = "cleanup" => faults >= 1

HiddenOwned == \A i \in Ids : session[i] \in Hidden => InCreation(i) \/ faults >= 2 \/ restarts >= 1

ListedInv == NamedFinite /\ NamesUnique /\ CreateKnows /\ HiddenOwned

(* A selection on the server is new: neither returned, nor barred, nor of a
   deleted session; what a request has listed goes before it is consumed. *)
Consumed == ToSet(taken) \cup barred

BuffersFresh ==
    /\ \A b \in buffers : b.n <= made /\ b.n \notin Consumed /\ b.id \notin deleted
    /\ \A b, c \in buffers : b.n = c.n => b = c
    /\ \A n \in Consumed : n <= made
    /\ \A i \in deleted : session[i] \in {"ended", "orphan"}

ListedFresh ==
    op.pc \in {"show", "drop"} =>
      \A b \in op.listed :
        /\ b.n <= made /\ b.n \notin Consumed
        /\ \A c \in buffers : c.n = b.n => c \in op.doomed

TextListed == op.kind = "take" /\ op.pc = "drop" /\ op.text # 0 => \E b \in op.listed : b.n = op.text

DeleteClears ==
    /\ op.kind = "delete" /\ op.pc = "drop" => \A b \in buffers : b.id = op.id => b \in op.doomed
    /\ op.pc = "kill" => \A b \in buffers : b.id # op.id

TakenOnce == (\A j, k \in DOMAIN taken : taken[j] = taken[k] => j = k) /\ ToSet(taken) \cap barred = {}

SelectInv == BuffersFresh /\ ListedFresh /\ TextListed /\ DeleteClears /\ TakenOnce

SessionsInv == TmuxType /\ CountsType /\ HistoryType /\ RequestInv /\ TermsInv /\ ListedInv /\ SelectInv

-----------------------------------------------------------------------------
(* How a request moves.                                                     *)

Pcs == {"idle", "list", "dispatch", "stop", "stopWait", "create", "tag", "name", "cleanup", "buffers", "show",
        "drop", "kill", "configure", "reuse", "start", "await", "answer"}

Thens == {"idle", "dispatch", "buffers", "start", "answer"}

(* What a request keeps for good. *)
SameRequest == op'.kind = op.kind /\ op'.name = op.name

LEMMA GoesTo ==
    ASSUME op \in Request, NEW pc \in Pcs, Goto(pc)
    PROVE  /\ op' \in Request /\ op'.pc = pc /\ SameRequest
           /\ op'.id = op.id /\ op'.seen = op.seen /\ op'.stop = op.stop /\ op'.then = op.then
           /\ op'.victim = op.victim /\ op'.doomed = op.doomed /\ op'.listed = op.listed /\ op'.text = op.text
BY DEF Request, Pcs, Goto, SameRequest

LEMMA Returns ==
    ASSUME Return
    PROVE  /\ op' = Idle /\ op' \in Request /\ op'.pc = "idle" /\ op'.kind = "none" /\ op'.victim = None
           /\ op'.seen = {} /\ op'.id = None /\ op'.stop = {}
BY BoundsAssumption DEF Request, Return, Idle

LEMMA StopsAll ==
    ASSUME op \in Request, NEW S \in SUBSET Ids, NEW then \in Thens \ {"idle"}, StopAll(S, then)
    PROVE  /\ op' \in Request /\ op'.pc = (IF S = {} THEN then ELSE "stop") /\ op'.stop = S /\ op'.then = then
           /\ SameRequest
           /\ op'.id = op.id /\ op'.seen = op.seen
           /\ op'.victim = op.victim /\ op'.doomed = op.doomed /\ op'.listed = op.listed /\ op'.text = op.text
BY DEF Request, Thens, StopAll, SameRequest

LEMMA Begins ==
    ASSUME NEW kind \in Kinds, NEW i \in Ids \cup {None}, NEW n \in Names \cup {None}, Start(kind, i, n)
    PROVE  /\ op = Idle /\ op' \in Request /\ op'.pc = "list" /\ op'.kind = kind /\ op'.id = i /\ op'.name = n
           /\ op'.seen = {} /\ op'.victim = None
<1>1. op = Idle
  BY DEF Start
<1>2. Idle \in Request /\ Idle.seen = {} /\ Idle.victim = None
  BY BoundsAssumption DEF Idle, Request
<1>3. op' = [Idle EXCEPT !.kind = kind, !.id = i, !.name = n, !.pc = "list"]
  BY DEF Start
<1> HIDE DEF Idle
<1> QED
  BY <1>1, <1>2, <1>3 DEF Request

LEMMA Lists ==
    ASSUME op \in Request, ListSessions
    PROVE  /\ op' \in Request /\ SameRequest /\ op'.id = op.id /\ op'.seen = Listed /\ op'.then = "dispatch"
           /\ op'.stop = Managed \ {l.id : l \in Listed}
           /\ op'.pc = (IF op'.stop = {} THEN "dispatch" ELSE "stop")
           /\ op'.victim = op.victim
<1>1. Listed \in SUBSET Listing /\ Managed \ {l.id : l \in Listed} \in SUBSET Ids
  BY DEF Listed, Managed
<1>2. Managed \subseteq {l.id : l \in Listed} <=> Managed \ {l.id : l \in Listed} = {}
  OBVIOUS
<1> HIDE DEF Listed, Managed
<1> QED
  BY <1>1, <1>2 DEF Request, ListSessions, SameRequest

LEMMA Signals ==
    ASSUME op \in Request, NEW i \in Ids, NEW q \in Procs,
           op' = [op EXCEPT !.pc = "stopWait", !.victim = q]
    PROVE  /\ op' \in Request /\ SameRequest /\ op'.id = op.id /\ op'.seen = op.seen /\ op'.then = op.then
           /\ op'.stop = op.stop /\ op'.pc = "stopWait" /\ op'.victim = q
BY DEF Request, SameRequest

LEMMA Stops ==
    ASSUME op \in Request, op.pc = "stopWait", NEW i \in Ids, op.then # "idle",
           op' = [op EXCEPT !.stop = @ \ {i}, !.victim = None, !.pc = IF op.stop = {i} THEN op.then ELSE "stop"]
    PROVE  /\ op' \in Request /\ SameRequest /\ op'.id = op.id /\ op'.seen = op.seen /\ op'.then = op.then
           /\ op'.stop = op.stop \ {i} /\ op'.pc = (IF op.stop = {i} THEN op.then ELSE "stop")
           /\ op'.victim = None
<1>1. op.then \in Thens /\ op.stop \ {i} \in SUBSET Ids
  BY DEF Request, Thens
<1> QED
  BY <1>1 DEF Request, Thens, SameRequest

LEMMA Creates ==
    ASSUME op \in Request, NEW i \in Ids, NEW pc \in {"tag", "cleanup"}, op' = [op EXCEPT !.pc = pc, !.id = i]
    PROVE  /\ op' \in Request /\ SameRequest /\ op'.id = i /\ op'.seen = op.seen /\ op'.pc = pc
           /\ op'.victim = op.victim
BY DEF Request, SameRequest

LEMMA ListsBuffers ==
    ASSUME op \in Request, buffers \subseteq Selection, NEW pc \in {"show", "drop"},
           op' = [op EXCEPT !.pc = pc, !.seen = {}, !.doomed = Matching(op.id), !.listed = Matching(op.id)]
    PROVE  /\ op' \in Request /\ SameRequest /\ op'.id = op.id /\ op'.seen = {} /\ op'.pc = pc
           /\ op'.doomed = Matching(op.id) /\ op'.listed = Matching(op.id)
           /\ op'.text = op.text /\ op'.victim = op.victim
<1>1. Matching(op.id) \in SUBSET Selection
  BY DEF Matching
<1> HIDE DEF Matching
<1> QED
  BY <1>1 DEF Request, SameRequest

LEMMA Shows ==
    ASSUME op \in Request, NEW t \in 0..MaxSelections, op' = [op EXCEPT !.pc = "drop", !.text = t]
    PROVE  /\ op' \in Request /\ SameRequest /\ op'.id = op.id /\ op'.seen = op.seen /\ op'.pc = "drop"
           /\ op'.doomed = op.doomed /\ op'.listed = op.listed /\ op'.text = t /\ op'.victim = op.victim
BY DEF Request, SameRequest

LEMMA Drops ==
    ASSUME op \in Request, NEW b, op' = [op EXCEPT !.doomed = @ \ {b}]
    PROVE  /\ op' \in Request /\ SameRequest /\ op'.id = op.id /\ op'.seen = op.seen /\ op'.pc = op.pc
           /\ op'.doomed = op.doomed \ {b} /\ op'.listed = op.listed /\ op'.text = op.text
           /\ op'.victim = op.victim /\ op'.stop = op.stop /\ op'.then = op.then
BY DEF Request, SameRequest

LEMMA Cleared ==
    ASSUME op \in Request, NEW pc \in {"kill", "configure"}, op' = [op EXCEPT !.pc = pc, !.listed = {}]
    PROVE  /\ op' \in Request /\ SameRequest /\ op'.id = op.id /\ op'.seen = op.seen /\ op'.pc = pc
           /\ op'.victim = op.victim
BY DEF Request, SameRequest

-----------------------------------------------------------------------------
(* Which actions write a variable: what the proofs below need not look at.  *)

USE DEF vars, tmux, terms, history, Next, RequestStep, Watcher, Start, ListSessions, ListFails, ListMisreports,
       StopSignal, Stopped, Dispatch, Answer, CreateSession, CreateRefused, SetOption, TagId, TagName, CleanUp,
       ListBuffers, ShowBuffer, DropBuffer, BuffersDropped, KillSession, Configure, Reuse, StartTtyd,
       SocketReady, SocketTimeout, TtydExitedEarly, Report, Disown, RemoveSocket, ShutdownBegin,
       ShutdownReap, ShutdownExpire, Restart, SessionEnds, Select, TtydBinds, TtydExits, Works

(* The actions that write the request under way. *)
LEMMA RequestWriters ==
    ASSUME [Next]_vars, ~UNCHANGED op
    PROVE  \/ \E k \in Kinds, i \in Ids \cup {None}, n \in Names \cup {None} : Start(k, i, n)
           \/ RequestStep \/ Restart
BY ZenonT(100)

(* The actions that write what the tmux server holds. *)
LEMMA TmuxWriters ==
    ASSUME [Next]_vars, ~UNCHANGED tmux
    PROVE  \/ ListMisreports \/ \E i \in Ids : CreateSession(i)
           \/ TagId \/ TagName \/ CleanUp \/ DropBuffer \/ KillSession \/ Restart
           \/ \E i \in Ids : SessionEnds(i) \/ Select(i)
BY ZenonT(100)

(* The actions that write a process, the map or a socket. *)
LEMMA TermsWriters ==
    ASSUME [Next]_vars, ~UNCHANGED <<terms, leaving, shuttingDown>>
    PROVE  \/ \E i \in Ids : StopSignal(i)
           \/ Stopped \/ \E p \in Procs : StartTtyd(p)
           \/ TtydExitedEarly
           \/ \E p \in Procs : Watcher(p) \/ ShutdownReap(p) \/ TtydBinds(p) \/ TtydExits(p)
           \/ ShutdownBegin \/ ShutdownExpire \/ Restart
BY ZenonT(100)

(* The actions that write a counter of the bounds. *)
LEMMA CountWriters ==
    ASSUME [Next]_vars, ~UNCHANGED <<made, faults, restarts>>
    PROVE  RequestStep \/ Restart \/ \E i \in Ids : Select(i)
BY ZenonT(100)

(* The actions that write the history. *)
LEMMA HistoryWriters ==
    ASSUME [Next]_vars, ~UNCHANGED history
    PROVE  BuffersDropped \/ KillSession
BY ZenonT(100)

HIDE DEF vars, tmux, terms, history, Next, RequestStep, Watcher, Start, ListSessions, ListFails, ListMisreports,
       StopSignal, Stopped, Dispatch, Answer, CreateSession, CreateRefused, SetOption, TagId, TagName, CleanUp,
       ListBuffers, ShowBuffer, DropBuffer, BuffersDropped, KillSession, Configure, Reuse, StartTtyd,
       SocketReady, SocketTimeout, TtydExitedEarly, Report, Disown, RemoveSocket, ShutdownBegin,
       ShutdownReap, ShutdownExpire, Restart, SessionEnds, Select, TtydBinds, TtydExits, Works

-----------------------------------------------------------------------------
(* Every step leaves the request in order.                                  *)

LEMMA OrderlyReturn ==
    ASSUME Return
    PROVE  RequestInv'
<1>1. /\ op' = Idle /\ op' \in Request /\ op'.pc = "idle" /\ op'.kind = "none"
  BY Returns
<1> QED
  BY <1>1 DEF RequestInv, StepOfKind, Arguments, StopsFor

LEMMA OrderlyStopAll ==
    ASSUME RequestInv, NEW S \in SUBSET Ids, NEW then \in Thens \ {"idle"}, StopAll(S, then),
           op.kind # "none",
           \/ then = "dispatch"
           \/ op.kind = "delete" /\ then = "buffers" /\ S = {op.id}
           \/ op.kind = "connect" /\ then \in {"start", "answer"} /\ S = {op.id}
    PROVE  RequestInv'
<1>1. op \in Request
  BY DEF RequestInv
<1>2. /\ op' \in Request /\ op'.pc = (IF S = {} THEN then ELSE "stop") /\ op'.stop = S /\ op'.then = then
      /\ SameRequest /\ op'.id = op.id
  BY <1>1, StopsAll
<1>3. op'.pc \in {"stop", "dispatch", "buffers", "start", "answer"}
  BY <1>2 DEF Thens
<1>4. StopsFor'
  BY <1>2, <1>3 DEF StopsFor, SameRequest, Thens
<1>5. StepOfKind'
  BY <1>2, <1>3 DEF RequestInv, StepOfKind, SameRequest, Thens
<1>6. Arguments'
  BY <1>2, <1>3 DEF RequestInv, Arguments, SameRequest, Thens
<1> QED
  BY <1>2, <1>4, <1>5, <1>6 DEF RequestInv

LEMMA OrderlyGoto ==
    ASSUME RequestInv, NEW pc \in Pcs, Goto(pc),
           \/ pc = "create" /\ op.kind = "create"
           \/ pc = "name" /\ op.pc = "tag"
           \/ pc = "cleanup" /\ op.pc \in {"tag", "name"}
           \/ pc = "buffers" /\ op.kind \in {"connect", "take", "discard"}
           \/ pc = "answer" /\ op.kind = "proxy"
           \/ pc \in {"reuse", "start", "await"} /\ op.kind = "connect"
    PROVE  RequestInv'
<1>1. op \in Request
  BY DEF RequestInv
<1>2. op' \in Request /\ op'.pc = pc /\ SameRequest /\ op'.id = op.id
  BY <1>1, GoesTo
<1>3. StepOfKind'
  BY <1>2 DEF RequestInv, StepOfKind, SameRequest
<1>4. Arguments'
  BY <1>2 DEF RequestInv, StepOfKind, Arguments, SameRequest
<1>5. StopsFor'
  BY <1>2 DEF StopsFor
<1> QED
  BY <1>2, <1>3, <1>4, <1>5 DEF RequestInv

LEMMA OrderlyStart ==
    ASSUME NEW kind \in Kinds, NEW i \in Ids \cup {None}, NEW n \in Names \cup {None}, Start(kind, i, n)
    PROVE  RequestInv'
<1>1. op' \in Request /\ op'.pc = "list" /\ op'.kind = kind /\ op'.id = i /\ op'.name = n /\ op'.seen = {}
  BY Begins
<1>2. kind # "none"
  BY DEF Kinds
<1>3. Arguments'
  BY <1>1 DEF Arguments, Start
<1>4. StepOfKind'
  BY <1>1, <1>2 DEF StepOfKind
<1>5. StopsFor'
  BY <1>1 DEF StopsFor
<1> QED
  BY <1>1, <1>3, <1>4, <1>5 DEF RequestInv

(* Any other step of a request. *)
LEMMA OrderlyMove ==
    ASSUME RequestInv, op' \in Request, SameRequest, op'.id = op.id \/ (op'.pc \in {"tag", "cleanup"} /\ op'.id \in Ids),
           \/ op'.pc = "dispatch" /\ op.pc \in {"list", "stop", "stopWait"}
           \/ op'.pc \in {"stop", "stopWait"} /\ op'.then = op.then /\ op'.stop # {} /\ op'.stop \subseteq op.stop
                /\ op.pc \in {"stop", "stopWait"}
           \/ op'.pc = op.then /\ op.pc \in {"stop", "stopWait"}
           \/ op'.pc \in {"tag", "cleanup"} /\ op.pc = "create" /\ op'.id \in Ids
           \/ op'.pc = "show" /\ op.kind = "take"
           \/ op'.pc = "drop" /\ op.kind \in {"take", "discard", "delete", "connect"}
           \/ op'.pc = "kill" /\ op.kind = "delete"
           \/ op'.pc = "configure" /\ op.kind = "connect"
           \/ op'.pc = "await" /\ op.kind = "connect"
           \/ op'.pc = "stop" /\ op'.then = "dispatch" /\ op'.stop # {} /\ op.pc = "list"
    PROVE  RequestInv'
<1>1. op.pc \in Pcs /\ op.then \in Thens
  BY DEF RequestInv, Request, Pcs, Thens
<1>2. StopsFor'
  BY <1>1 DEF RequestInv, StopsFor, SameRequest, Thens
<1>3. StepOfKind'
  BY <1>1 DEF RequestInv, StepOfKind, StopsFor, SameRequest, Thens
<1>4. Arguments'
  BY <1>1 DEF RequestInv, StepOfKind, Arguments, StopsFor, SameRequest, Thens
<1> QED
  BY <1>2, <1>3, <1>4 DEF RequestInv

LEMMA RequestNext ==
    ASSUME SessionsInv, [Next]_vars
    PROVE  RequestInv'
<1>1. /\ RequestInv /\ op \in Request /\ StepOfKind /\ Arguments /\ StopsFor
      /\ TmuxType /\ TermsInv /\ VictimOut /\ ProcessesOk
  BY DEF SessionsInv, RequestInv, TermsInv
<1>2. ASSUME NEW kind \in Kinds, NEW i \in Ids \cup {None}, NEW n \in Names \cup {None}, Start(kind, i, n)
      PROVE  RequestInv'
  BY <1>2, OrderlyStart
<1>3. CASE ListSessions
  <2>1. op.pc = "list"
    BY <1>3 DEF ListSessions
  <2>2. /\ op' \in Request /\ SameRequest /\ op'.id = op.id /\ op'.then = "dispatch"
        /\ op'.pc = (IF op'.stop = {} THEN "dispatch" ELSE "stop")
    BY <1>1, <1>3, Lists
  <2> QED
    BY <1>1, <2>1, <2>2, OrderlyMove
<1>4. CASE ListFails \/ Answer \/ CreateRefused \/ CleanUp \/ KillSession \/ SocketReady \/ TtydExitedEarly
  BY <1>4, OrderlyReturn DEF ListFails, Answer, CreateRefused, CleanUp, KillSession, SocketReady, TtydExitedEarly
<1>5. CASE ListMisreports
  <2>1. /\ StopAll(Managed, "dispatch") /\ op.kind # "none" /\ Managed \in SUBSET Ids
    BY <1>1, <1>5 DEF ListMisreports, StepOfKind, Managed
  <2> QED
    BY <1>1, <2>1, OrderlyStopAll DEF Thens
<1>6. ASSUME NEW i \in Ids, StopSignal(i) PROVE RequestInv'
  <2>1. op.pc = "stop" /\ i \in op.stop /\ op.then \in Thens \ {"idle"} /\ op.kind # "none"
        /\ op.stop \in SUBSET Ids
    BY <1>1, <1>6 DEF StopSignal, StopsFor, StepOfKind, Thens, Request
  <2>2. CASE StopAll(op.stop \ {i}, op.then)
    <3>1. PICK S \in SUBSET Ids, then \in Thens \ {"idle"} : S = op.stop \ {i} /\ then = op.then
      BY <2>1
    <3>2. StopAll(S, then)
      BY <2>2, <3>1
    <3>3. /\ op' \in Request /\ op'.pc = (IF S = {} THEN then ELSE "stop") /\ op'.stop = S /\ op'.then = then
          /\ SameRequest /\ op'.id = op.id
      BY <1>1, <3>2, StopsAll
    <3> QED
      BY <1>1, <2>1, <3>1, <3>3, OrderlyMove
  <2>3. CASE managed[i] # None /\ op' = [op EXCEPT !.pc = "stopWait", !.victim = managed[i]]
    <3>1. PICK q \in Procs : q = managed[i]
      BY <1>1, <2>3 DEF TermsInv, TermsType
    <3>2. /\ op' \in Request /\ SameRequest /\ op'.id = op.id /\ op'.then = op.then /\ op'.stop = op.stop
          /\ op'.pc = "stopWait"
      BY <1>1, <2>3, <3>1, Signals
    <3> QED
      BY <1>1, <2>1, <3>2, OrderlyMove
  <2> QED
    BY <1>6, <2>2, <2>3 DEF StopSignal
<1>7. CASE Stopped
  <2>1. /\ op.pc = "stopWait" /\ op.then # "idle" /\ ttyd[op.victim].id \in Ids /\ ttyd[op.victim].id \in op.stop
    BY <1>1, <1>7 DEF Stopped, VictimOut, ProcessesOk, ProcessOk, StopsFor
  <2>2. PICK i \in Ids : i = ttyd[op.victim].id
    BY <2>1
  <2>3. op' = [op EXCEPT !.stop = @ \ {i}, !.victim = None, !.pc = IF op.stop = {i} THEN op.then ELSE "stop"]
    BY <1>7, <2>2 DEF Stopped
  <2>4. /\ op' \in Request /\ SameRequest /\ op'.id = op.id /\ op'.then = op.then
        /\ op'.stop = op.stop \ {i} /\ op'.pc = (IF op.stop = {i} THEN op.then ELSE "stop")
    BY <1>1, <2>1, <2>3, Stops
  <2> QED
    BY <1>1, <2>1, <2>2, <2>4, OrderlyMove
<1>8. CASE Dispatch
  <2>1. op.pc = "dispatch" /\ op.kind \in Kinds
    BY <1>1, <1>8 DEF Dispatch, StepOfKind, Request
  <2>2. \/ Return
        \/ op.kind = "create" /\ Goto("create")
        \/ op.kind = "proxy" /\ Goto("answer")
        \/ op.kind = "delete" /\ op.id \in Ids /\ StopAll({op.id}, "buffers")
        \/ op.kind \in {"connect", "take", "discard"} /\ Goto("buffers")
    BY <1>1, <1>8, <2>1 DEF Dispatch, Kinds, Arguments
  <2> QED
    BY <1>1, <2>2, OrderlyReturn, OrderlyGoto, OrderlyStopAll DEF Thens, Pcs
<1>9. ASSUME NEW i \in Ids, CreateSession(i) PROVE RequestInv'
  <2>1. PICK pc \in {"tag", "cleanup"} : op' = [op EXCEPT !.pc = pc, !.id = i]
    BY <1>9 DEF CreateSession
  <2>2. op.pc = "create"
    BY <1>9 DEF CreateSession, At
  <2>3. /\ op' \in Request /\ SameRequest /\ op'.id = i /\ op'.pc = pc
    BY <1>1, <2>1, Creates
  <2> QED
    BY <1>1, <2>2, <2>3, OrderlyMove
<1>10. CASE TagId
  <2>1. op.pc = "tag" /\ (Goto("name") \/ Return \/ Goto("cleanup"))
    BY <1>10 DEF TagId, SetOption, At
  <2> QED
    BY <1>1, <2>1, OrderlyReturn, OrderlyGoto DEF Pcs
<1>11. CASE TagName
  <2>1. op.pc = "name" /\ (Return \/ Goto("cleanup"))
    BY <1>11 DEF TagName, SetOption, At
  <2> QED
    BY <1>1, <2>1, OrderlyReturn, OrderlyGoto DEF Pcs
<1>12. CASE ListBuffers
  <2>1. op.pc = "buffers" /\ op.kind \in {"take", "discard", "delete", "connect"}
    BY <1>1, <1>12 DEF ListBuffers, StepOfKind
  <2>2. CASE Return \/ op' = Idle
    BY <2>2, OrderlyReturn DEF Return
  <2>3. CASE op' = [op EXCEPT !.pc = AfterBuffers[op.kind], !.seen = {},
                              !.doomed = Matching(op.id), !.listed = Matching(op.id)]
    <3>1. PICK pc \in {"show", "drop"} : pc = AfterBuffers[op.kind] /\ (pc = "show" => op.kind = "take")
      BY <2>1 DEF AfterBuffers
    <3>2. /\ op' \in Request /\ SameRequest /\ op'.id = op.id /\ op'.pc = pc
      BY <1>1, <2>3, <3>1, ListsBuffers DEF TmuxType
    <3> QED
      BY <1>1, <2>1, <3>1, <3>2, OrderlyMove
  <2> QED
    BY <1>12, <2>2, <2>3 DEF ListBuffers
<1>13. CASE ShowBuffer
  <2>1. op.pc = "show" /\ op.kind = "take" /\ op.listed \subseteq Selection
    BY <1>1, <1>13 DEF ShowBuffer, StepOfKind, Request
  <2>2. CASE Return
    BY <2>2, OrderlyReturn
  <2>3. ASSUME NEW b \in Newest(op.listed), NEW t \in {0, b.n}, op' = [op EXCEPT !.pc = "drop", !.text = t]
        PROVE  RequestInv'
    <3>1. b.n \in 1..MaxSelections
      BY <2>1 DEF Newest, Selection
    <3>2. t \in 0..MaxSelections
      BY <3>1, BoundsAssumption
    <3>3. /\ op' \in Request /\ SameRequest /\ op'.id = op.id /\ op'.pc = "drop"
      BY <1>1, <2>3, <3>2, Shows
    <3> QED
      BY <1>1, <2>1, <3>3, OrderlyMove
  <2> QED
    BY <1>13, <2>2, <2>3 DEF ShowBuffer
<1>14. CASE DropBuffer
  <2>1. op.pc = "drop" /\ op.kind \in {"take", "discard", "delete", "connect"}
    BY <1>1, <1>14 DEF DropBuffer, StepOfKind
  <2>2. CASE Return
    BY <2>2, OrderlyReturn
  <2>3. ASSUME NEW b, op' = [op EXCEPT !.doomed = @ \ {b}]
        PROVE  RequestInv'
    <3>1. op' \in Request /\ SameRequest /\ op'.id = op.id /\ op'.pc = op.pc
      BY <1>1, <2>3, Drops
    <3> QED
      BY <1>1, <2>1, <3>1, OrderlyMove
  <2> QED
    BY <1>14, <2>2, <2>3 DEF DropBuffer
<1>15. CASE BuffersDropped
  <2>1. op.pc = "drop" /\ op.kind \in {"take", "discard", "delete", "connect"}
    BY <1>1, <1>15 DEF BuffersDropped, StepOfKind
  <2>2. CASE Return
    BY <2>2, OrderlyReturn
  <2>3. ASSUME NEW pc \in {"kill", "configure"}, op' = [op EXCEPT !.pc = pc, !.listed = {}],
               pc = "kill" <=> op.kind = "delete", pc = "configure" <=> op.kind = "connect"
        PROVE  RequestInv'
    <3>1. op' \in Request /\ SameRequest /\ op'.id = op.id /\ op'.pc = pc
      BY <1>1, <2>3, Cleared
    <3> QED
      BY <1>1, <2>1, <2>3, <3>1, OrderlyMove
  <2> QED
    BY <1>15, <2>1, <2>2, <2>3 DEF BuffersDropped
<1>16. CASE Configure
  <2>1. op.kind = "connect" /\ (Return \/ Goto("reuse"))
    BY <1>1, <1>16 DEF Configure, StepOfKind
  <2> QED
    BY <1>1, <2>1, OrderlyReturn, OrderlyGoto DEF Pcs
<1>17. CASE Reuse
  <2>1. op.kind = "connect" /\ op.id \in Ids /\ (Return \/ Goto("start") \/ StopAll({op.id}, "start"))
    BY <1>1, <1>17 DEF Reuse, StepOfKind, Arguments
  <2> QED
    BY <1>1, <2>1, OrderlyReturn, OrderlyGoto, OrderlyStopAll DEF Thens, Pcs
<1>18. ASSUME NEW p \in Procs, StartTtyd(p) PROVE RequestInv'
  <2>1. op.kind = "connect" /\ (Return \/ Goto("await"))
    BY <1>1, <1>18 DEF StartTtyd, StepOfKind
  <2> QED
    BY <1>1, <2>1, OrderlyReturn, OrderlyGoto DEF Pcs
<1>19. CASE SocketTimeout
  <2>1. op.kind = "connect" /\ op.id \in Ids /\ StopAll({op.id}, "answer")
    BY <1>1, <1>19 DEF SocketTimeout, StepOfKind, Arguments
  <2> QED
    BY <1>1, <2>1, OrderlyStopAll DEF Thens
<1>20. CASE Restart
  BY <1>20, OrderlyReturn DEF Restart, Return
<1>21. CASE UNCHANGED op
  BY <1>1, <1>21 DEF RequestInv, StepOfKind, Arguments, StopsFor
<1>22. CASE RequestStep
  BY <1>3, <1>4, <1>5, <1>6, <1>7, <1>8, <1>9, <1>10, <1>11, <1>12, <1>13, <1>14, <1>15, <1>16, <1>17, <1>18,
     <1>19, <1>22 DEF RequestStep
<1> QED
  BY <1>2, <1>20, <1>21, <1>22, RequestWriters
-----------------------------------------------------------------------------
(* How a process moves.                                                     *)

(* A record of a process whose own part of the invariant holds. *)
Sound(r) ==
    /\ r \in Process
    /\ r.state = "unused" <=> r.watcher = "none"
    /\ r.state # "unused" => r.id \in Ids
    /\ r.watcher \in {"reported", "removing", "gone"} => r.state = "exited"

(* r is what a step makes of q: the same process, not running again. *)
Follows(r, q) ==
    /\ Sound(r)
    /\ r.id = q.id
    /\ r.state = "unused" <=> q.state = "unused"
    /\ r.state \in {"starting", "bound"} => q.state \in {"starting", "bound"}

LEMMA TerminatedFollows ==
    ASSUME NEW q, Sound(q)
    PROVE  Follows(Terminated(q), q) /\ Terminated(q).watcher = q.watcher
BY DEF Follows, Sound, Terminated, NewProcess, Process

LEMMA ExitedFollows ==
    ASSUME NEW q, Sound(q)
    PROVE  /\ Follows(Exited(q), q) /\ Exited(q).state \notin {"starting", "bound"}
           /\ q.state # "unused" => Exited(q).state = "exited"
BY DEF Follows, Sound, Exited, NewProcess, Process

LEMMA KilledFollows ==
    ASSUME NEW q, Sound(q)
    PROVE  /\ Follows(Killed(q), q) /\ Killed(q).state \notin {"starting", "bound"}
BY DEF Follows, Sound, Killed, Exited, Terminated, NewProcess, Process

LEMMA WatchedFollows ==
    ASSUME NEW q, Sound(q), q.state = "exited", NEW w \in {"reported", "removing", "gone"}
    PROVE  Follows(Watched(q, w), q)
BY DEF Follows, Sound, Watched, NewProcess, Process

LEMMA BoundFollows ==
    ASSUME NEW q, Sound(q), q.state = "starting"
    PROVE  Follows(NewProcess(q.id, "bound", q.term, q.watcher), q)
BY DEF Follows, Sound, NewProcess, Process

LEMMA SameFollows ==
    ASSUME NEW q, Sound(q)
    PROVE  Follows(q, q)
BY DEF Follows

LEMMA StartedSound ==
    ASSUME NEW i \in Ids
    PROVE  /\ Sound(Started(i)) /\ Started(i).id = i /\ Started(i).state = "starting"
BY DEF Sound, Started, NewProcess, Process

LEMMA AllSound ==
    ASSUME TermsType, ProcessesOk
    PROVE  \A p \in Procs : Sound(ttyd[p])
BY DEF TermsType, ProcessesOk, ProcessOk, Sound

(* Every step follows every process, or starts one that was not used. *)
StartedBy(p) ==
    /\ op.pc = "start" /\ op' = [op EXCEPT !.pc = "await"]
    /\ ttyd[p].state = "unused"
    /\ ttyd' = [ttyd EXCEPT ![p] = Started(op.id)]
    /\ managed' = [managed EXCEPT ![op.id] = p]
    /\ file' = [file EXCEPT ![op.id] = None]
    /\ UNCHANGED <<leaving, shuttingDown>>

LEMMA OneFollows ==
    ASSUME ttyd \in [Procs -> Process], \A q \in Procs : Sound(ttyd[q]), NEW p \in Procs, NEW r,
           ttyd' = [ttyd EXCEPT ![p] = r], Follows(r, ttyd[p])
    PROVE  ttyd' \in [Procs -> Process] /\ \A q \in Procs : Follows(ttyd'[q], ttyd[q])
<1>1. r \in Process
  BY DEF Follows, Sound
<1>2. \A q \in Procs : Follows(ttyd[q], ttyd[q])
  BY SameFollows
<1> QED
  BY <1>1, <1>2

LEMMA ProcessesFollow ==
    ASSUME SessionsInv, [Next]_vars
    PROVE  /\ ttyd' \in [Procs -> Process]
           /\ \/ \A p \in Procs : Follows(ttyd'[p], ttyd[p])
              \/ \E p \in Procs : StartedBy(p)
<1> DEFINE Goal == /\ ttyd' \in [Procs -> Process]
                   /\ \/ \A p \in Procs : Follows(ttyd'[p], ttyd[p])
                      \/ \E p \in Procs : StartedBy(p)
<1>1. /\ RequestInv /\ StepOfKind /\ Arguments /\ TermsType /\ VictimOut /\ ProcessesOk /\ ShutdownOwns
      /\ ttyd \in [Procs -> Process] /\ managed \in [Ids -> Procs \cup {None}] /\ leaving \subseteq Procs
  BY DEF SessionsInv, RequestInv, TermsInv, TermsType
<1>2. \A p \in Procs : Sound(ttyd[p])
  BY <1>1, AllSound
<1>3. CASE UNCHANGED ttyd
  BY <1>1, <1>2, <1>3, SameFollows
<1>4. ASSUME NEW i \in Ids, StopSignal(i) PROVE Goal
  <2>1. CASE managed[i] # None /\ ttyd' = [ttyd EXCEPT ![managed[i]] = Terminated(@)]
    <3>1. managed[i] \in Procs
      BY <1>1, <2>1
    <3>2. Follows(Terminated(ttyd[managed[i]]), ttyd[managed[i]])
      BY <1>2, <3>1, TerminatedFollows
    <3> QED
      BY <1>1, <1>2, <2>1, <3>1, <3>2, OneFollows
  <2> QED
    BY <1>3, <1>4, <2>1 DEF StopSignal
<1>5. CASE Stopped
  <2>1. op.victim \in Procs
    BY <1>1, <1>5 DEF Stopped, VictimOut
  <2>2. CASE ttyd' = [ttyd EXCEPT ![op.victim] = Killed(@)]
    BY <1>1, <1>2, <2>1, <2>2, KilledFollows, OneFollows
  <2> QED
    BY <1>3, <1>5, <2>2 DEF Stopped
<1>6. ASSUME NEW p \in Procs, StartTtyd(p) PROVE Goal
  <2>1. CASE Goto("await") /\ ttyd' = [ttyd EXCEPT ![p] = Started(op.id)]
             /\ managed' = [managed EXCEPT ![op.id] = p]
    <3>1. op.kind = "connect" /\ op.id \in Ids /\ StartedBy(p)
      BY <1>1, <1>6, <2>1 DEF StartTtyd, StepOfKind, Arguments, StartedBy, Goto, Unused
    <3>2. Started(op.id) \in Process
      BY <3>1, StartedSound DEF Sound
    <3> QED
      BY <1>1, <2>1, <3>1, <3>2
  <2> QED
    BY <1>3, <1>6, <2>1 DEF StartTtyd
<1>7. ASSUME NEW p \in Procs, Report(p) PROVE Goal
  BY <1>1, <1>2, <1>7, WatchedFollows, OneFollows DEF Report
<1>8. ASSUME NEW p \in Procs, Disown(p) PROVE Goal
  <2>1. ttyd[p].state = "exited"
    BY <1>2, <1>8 DEF Disown, Sound
  <2>2. PICK w \in {"removing", "gone"} : ttyd' = [ttyd EXCEPT ![p] = Watched(@, w)]
    BY <1>8 DEF Disown
  <2> QED
    BY <1>1, <1>2, <2>1, <2>2, WatchedFollows, OneFollows
<1>9. ASSUME NEW p \in Procs, RemoveSocket(p) PROVE Goal
  <2>1. ttyd[p].state = "exited"
    BY <1>2, <1>9 DEF RemoveSocket, Sound
  <2> QED
    BY <1>1, <1>2, <1>9, <2>1, WatchedFollows, OneFollows DEF RemoveSocket
<1>10. CASE ShutdownBegin
  <2>1. \A p \in Procs : Follows(Terminated(ttyd[p]), ttyd[p]) /\ Follows(ttyd[p], ttyd[p])
    BY <1>2, TerminatedFollows, SameFollows
  <2>2. ttyd' = [p \in Procs |-> IF p \in leaving' THEN Terminated(ttyd[p]) ELSE ttyd[p]]
    BY <1>10 DEF ShutdownBegin
  <2>3. \A p \in Procs : Follows(ttyd'[p], ttyd[p])
    BY <2>1, <2>2
  <2>4. \A p \in Procs : (IF p \in leaving' THEN Terminated(ttyd[p]) ELSE ttyd[p]) \in Process
    BY <2>1 DEF Follows, Sound
  <2> QED
    BY <2>2, <2>3, <2>4
<1>11. CASE ShutdownExpire
  <2>1. \A p \in Procs : Follows(Killed(ttyd[p]), ttyd[p]) /\ Follows(ttyd[p], ttyd[p])
    BY <1>2, KilledFollows, SameFollows
  <2>2. ttyd' = [p \in Procs |-> IF p \in leaving THEN Killed(ttyd[p]) ELSE ttyd[p]]
    BY <1>11 DEF ShutdownExpire
  <2>3. \A p \in Procs : Follows(ttyd'[p], ttyd[p])
    BY <2>1, <2>2
  <2>4. \A p \in Procs : (IF p \in leaving THEN Killed(ttyd[p]) ELSE ttyd[p]) \in Process
    BY <2>1 DEF Follows, Sound
  <2> QED
    BY <2>2, <2>3, <2>4
<1>12. CASE Restart
  <2>1. \A p \in Procs : p \notin Unused => Follows(Watched(Exited(ttyd[p]), "gone"), ttyd[p])
    <3> SUFFICES ASSUME NEW p \in Procs, p \notin Unused
                 PROVE  Follows(Watched(Exited(ttyd[p]), "gone"), ttyd[p])
      OBVIOUS
    <3>1. PICK q : q = ttyd[p]
      OBVIOUS
    <3>2. Sound(q) /\ q.state # "unused"
      BY <1>2, <3>1 DEF Unused
    <3>3. Follows(Exited(q), q) /\ Exited(q).state = "exited"
      BY <3>2, ExitedFollows
    <3>4. Follows(Watched(Exited(q), "gone"), Exited(q))
      BY <3>3, WatchedFollows DEF Follows
    <3> QED
      BY <3>1, <3>3, <3>4 DEF Follows
  <2>2. ttyd' = [p \in Procs |-> IF p \in Unused THEN ttyd[p] ELSE Watched(Exited(ttyd[p]), "gone")]
    BY <1>12 DEF Restart
  <2>3. \A p \in Procs : Follows(ttyd[p], ttyd[p])
    BY <1>2, SameFollows
  <2>4. \A p \in Procs : Follows(ttyd'[p], ttyd[p])
    BY <2>1, <2>2, <2>3
  <2>5. \A p \in Procs : (IF p \in Unused THEN ttyd[p] ELSE Watched(Exited(ttyd[p]), "gone")) \in Process
    BY <2>1, <2>3 DEF Follows, Sound
  <2> QED
    BY <2>2, <2>4, <2>5
<1>13. ASSUME NEW p \in Procs, TtydBinds(p) PROVE Goal
  BY <1>1, <1>2, <1>13, BoundFollows, OneFollows DEF TtydBinds
<1>14. ASSUME NEW p \in Procs, TtydExits(p) PROVE Goal
  BY <1>1, <1>2, <1>14, ExitedFollows, OneFollows DEF TtydExits
<1>15. ASSUME NEW p \in Procs, ShutdownReap(p) PROVE Goal
  BY <1>3, <1>15 DEF ShutdownReap
<1>16. CASE TtydExitedEarly
  BY <1>3, <1>16 DEF TtydExitedEarly
<1>17. CASE UNCHANGED <<terms, leaving, shuttingDown>>
  BY <1>3, <1>17 DEF terms
<1> QED
  BY <1>4, <1>5, <1>6, <1>7, <1>8, <1>9, <1>10, <1>11, <1>12, <1>13, <1>14, <1>15, <1>16, <1>17, TermsWriters
     DEF Watcher

-----------------------------------------------------------------------------
(* What a step does to the map and to the sockets.                          *)

LEMMA TermsTyped ==
    ASSUME SessionsInv, [Next]_vars
    PROVE  TermsType'
<1>1. /\ ttyd \in [Procs -> Process] /\ managed \in [Ids -> Procs \cup {None}]
      /\ file \in [Ids -> Procs \cup {None}] /\ leaving \subseteq Procs
      /\ StepOfKind /\ Arguments
  BY DEF SessionsInv, RequestInv, TermsInv, TermsType
<1>2. ttyd' \in [Procs -> Process]
  BY ProcessesFollow
<1> DEFINE Goal == /\ managed' \in [Ids -> Procs \cup {None}]
                   /\ file' \in [Ids -> Procs \cup {None}] /\ leaving' \subseteq Procs
<1>3. ASSUME NEW i \in Ids, StopSignal(i) PROVE Goal
  BY <1>1, <1>3 DEF StopSignal
<1>4. ASSUME Stopped PROVE Goal
  BY <1>1, <1>4 DEF Stopped
<1>5. ASSUME NEW p \in Procs, StartTtyd(p) PROVE Goal
  BY <1>1, <1>5 DEF StartTtyd
<1>6. ASSUME TtydExitedEarly PROVE Goal
  BY <1>1, <1>6 DEF TtydExitedEarly
<1>7. ASSUME NEW p \in Procs, Report(p) PROVE Goal
  BY <1>1, <1>7 DEF Report
<1>8. ASSUME NEW p \in Procs, Disown(p) PROVE Goal
  BY <1>1, <1>8 DEF Disown
<1>9. ASSUME NEW p \in Procs, RemoveSocket(p) PROVE Goal
  BY <1>1, <1>9 DEF RemoveSocket
<1>10. ASSUME NEW p \in Procs, ShutdownReap(p) PROVE Goal
  BY <1>1, <1>10 DEF ShutdownReap
<1>11. ASSUME NEW p \in Procs, TtydBinds(p) PROVE Goal
  BY <1>1, <1>11 DEF TtydBinds
<1>12. ASSUME NEW p \in Procs, TtydExits(p) PROVE Goal
  BY <1>1, <1>12 DEF TtydExits
<1>13. ASSUME ShutdownBegin PROVE Goal
  BY <1>1, <1>13 DEF ShutdownBegin, Managed
<1>14. ASSUME ShutdownExpire PROVE Goal
  BY <1>1, <1>14 DEF ShutdownExpire
<1>15. ASSUME Restart PROVE Goal
  BY <1>1, <1>15 DEF Restart
<1>16. ASSUME UNCHANGED <<terms, leaving, shuttingDown>> PROVE Goal
  BY <1>1, <1>16 DEF terms
<1>17. Goal
  BY <1>3, <1>4, <1>5, <1>6, <1>7, <1>8, <1>9, <1>10, <1>11, <1>12, <1>13, <1>14, <1>15, <1>16, TermsWriters
     DEF Watcher
<1> QED
  BY <1>2, <1>17 DEF TermsType

(* The map only loses entries, except when Connect starts a process. *)
Shrinks == \A i \in Ids : managed'[i] \in {managed[i], None}

LEMMA MapShrinks ==
    ASSUME SessionsInv, [Next]_vars
    PROVE  Shrinks \/ \E p \in Procs : StartedBy(p)
<1>1. managed \in [Ids -> Procs \cup {None}] /\ StepOfKind
  BY DEF SessionsInv, RequestInv, TermsInv, TermsType
<1>2. ASSUME UNCHANGED managed PROVE Shrinks
  BY <1>2 DEF Shrinks
<1>3. ASSUME NEW i \in Ids, managed' = [managed EXCEPT ![i] = None]
      PROVE  Shrinks
  BY <1>1, <1>3 DEF Shrinks
<1>4. ASSUME NEW i, i \notin Ids, managed' = [managed EXCEPT ![i] = None]
      PROVE  Shrinks
  BY <1>1, <1>4 DEF Shrinks
<1>5. ASSUME NEW i \in Ids, StopSignal(i) PROVE Shrinks
  BY <1>2, <1>3, <1>5 DEF StopSignal
<1>6. ASSUME NEW p \in Procs, StartTtyd(p) PROVE Shrinks \/ StartedBy(p)
  <2>1. CASE UNCHANGED managed
    BY <1>2, <2>1
  <2>2. CASE ~UNCHANGED managed
    BY <1>1, <1>6, <2>2 DEF StartTtyd, StartedBy, Goto, Unused
  <2> QED
    BY <2>1, <2>2
<1>7. ASSUME TtydExitedEarly PROVE Shrinks
  BY <1>3, <1>4, <1>7 DEF TtydExitedEarly
<1>8. ASSUME NEW p \in Procs, Disown(p) PROVE Shrinks
  BY <1>2, <1>3, <1>4, <1>8 DEF Disown
<1>9. ASSUME ShutdownBegin \/ Restart PROVE Shrinks
  BY <1>9 DEF ShutdownBegin, Restart, Shrinks
<1>10. ASSUME Stopped \/ ShutdownExpire PROVE Shrinks
  BY <1>2, <1>10 DEF Stopped, ShutdownExpire
<1>11. ASSUME NEW p \in Procs, Report(p) \/ RemoveSocket(p) \/ ShutdownReap(p) \/ TtydBinds(p) \/ TtydExits(p)
       PROVE Shrinks
  BY <1>2, <1>11 DEF Report, RemoveSocket, ShutdownReap, TtydBinds, TtydExits
<1>12. ASSUME UNCHANGED <<terms, leaving, shuttingDown>> PROVE Shrinks
  BY <1>2, <1>12 DEF terms
<1> QED
  BY <1>5, <1>6, <1>7, <1>8, <1>9, <1>10, <1>11, <1>12, TermsWriters DEF Watcher

LEMMA ProcessesOkNext ==
    ASSUME SessionsInv, [Next]_vars
    PROVE  ProcessesOk'
<1>1. /\ ttyd \in [Procs -> Process] /\ managed \in [Ids -> Procs \cup {None}] /\ StepOfKind /\ Arguments
      /\ TermsType /\ ProcessesOk
  BY DEF SessionsInv, RequestInv, TermsInv, TermsType
<1>2. \A p \in Procs : Sound(ttyd[p])
  BY <1>1, AllSound
<1>3. CASE (\A p \in Procs : Follows(ttyd'[p], ttyd[p])) /\ Shrinks
  <2>1. \A p \in Procs : ProcessOk(p)'
    BY <1>3 DEF Follows, Sound, ProcessOk
  <2>2. \A i \in Ids : MapOk(i)'
    BY <1>1, <1>3 DEF Follows, ProcessesOk, MapOk, Shrinks
  <2> QED
    BY <2>1, <2>2 DEF ProcessesOk
<1>4. ASSUME NEW p \in Procs, StartedBy(p)
      PROVE  ProcessesOk'
  <2>1. op.id \in Ids /\ ttyd[p].state = "unused"
    BY <1>1, <1>4 DEF StartedBy, StepOfKind, Arguments
  <2>2. Sound(Started(op.id)) /\ Started(op.id).id = op.id /\ Started(op.id).state = "starting"
    BY <2>1, StartedSound
  <2>3. ttyd'[p] = Started(op.id) /\ \A q \in Procs \ {p} : ttyd'[q] = ttyd[q]
    BY <1>1, <1>4 DEF StartedBy
  <2>4. managed'[op.id] = p /\ \A i \in Ids \ {op.id} : managed'[i] = managed[i]
    BY <1>1, <1>4, <2>1 DEF StartedBy
  <2>5. \A q \in Procs : Sound(ttyd'[q])
    BY <1>2, <2>2, <2>3
  <2>6. \A q \in Procs : ProcessOk(q)'
    BY <2>5 DEF Sound, ProcessOk
  <2>7. \A i \in Ids : MapOk(i)'
    BY <1>1, <2>1, <2>2, <2>3, <2>4, NoneAssumption DEF ProcessesOk, MapOk
  <2> QED
    BY <2>6, <2>7 DEF ProcessesOk
<1>5. CASE ~(\A p \in Procs : Follows(ttyd'[p], ttyd[p])) \/ ~Shrinks
  BY <1>4, <1>5, ProcessesFollow, MapShrinks
<1> QED
  BY <1>3, <1>5

-----------------------------------------------------------------------------
(* What a request stops, and what it may start.                             *)

Reached == VictimOut /\ NoneManaged /\ ShutdownOwns

OwnSteps == {"buffers", "drop", "kill"}

LEMMA Settled ==
    ASSUME TermsInv, Shrinks, UNCHANGED <<leaving, shuttingDown>>,
           op'.pc # "stopWait", op'.victim = None,
           op'.pc = "start" => op'.id \in Ids /\ managed[op'.id] = None,
           op'.kind = "delete" /\ op'.pc \in OwnSteps => op'.id \in Ids /\ managed[op'.id] = None,
           shuttingDown => op'.pc \in {"idle", "list", "dispatch", "answer"} /\ op'.kind \in {"none", "list", "proxy"}
    PROVE  Reached'
BY DEF TermsInv, Shrinks, Reached, VictimOut, NoneManaged, ShutdownOwns, OwnSteps

(* A step of the request that leaves the processes alone. *)
Calm == UNCHANGED <<terms, leaving, shuttingDown>>

LEMMA CalmShrinks ==
    ASSUME Calm
    PROVE  Shrinks /\ UNCHANGED <<ttyd, managed, file, leaving, shuttingDown>>
BY DEF Calm, Shrinks, terms

LEMMA SettledReturn ==
    ASSUME TermsInv, Shrinks, UNCHANGED <<leaving, shuttingDown>>, Return
    PROVE  Reached'
<1>1. op'.pc = "idle" /\ op'.kind = "none" /\ op'.victim = None
  BY Returns
<1> QED
  BY <1>1, Settled DEF OwnSteps

LEMMA SettledGoto ==
    ASSUME SessionsInv, Shrinks, UNCHANGED <<leaving, shuttingDown>>, NEW pc \in Pcs, Goto(pc),
           pc # "stopWait", op.pc # "stopWait",
           pc = "start" => op.id \in Ids /\ managed[op.id] = None,
           op.kind = "delete" => pc \notin OwnSteps,
           op.pc # "dispatch" \/ pc # "answer" => ~shuttingDown
    PROVE  Reached'
<1>1. op \in Request /\ TermsInv /\ VictimOut /\ ShutdownOwns
  BY DEF SessionsInv, RequestInv, TermsInv
<1>2. op'.pc = pc /\ SameRequest /\ op'.id = op.id /\ op'.victim = op.victim
  BY <1>1, GoesTo
<1>3. op'.victim = None
  BY <1>1, <1>2 DEF VictimOut
<1>4. shuttingDown => op'.pc \in {"idle", "list", "dispatch", "answer"} /\ op'.kind \in {"none", "list", "proxy"}
  BY <1>1, <1>2 DEF ShutdownOwns, SameRequest
<1> QED
  BY <1>1, <1>2, <1>3, <1>4, Settled DEF SameRequest

LEMMA SettledStopAll ==
    ASSUME SessionsInv, Shrinks, UNCHANGED <<leaving, shuttingDown>>,
           NEW S \in SUBSET Ids, NEW then \in Thens \ {"idle"}, StopAll(S, then), op.pc # "stopWait",
           S # {} \/ then \in {"dispatch", "answer"}
                  \/ (op.id \in Ids /\ managed[op.id] = None),
           shuttingDown => S = {} /\ then = "dispatch"
    PROVE  Reached'
<1>1. op \in Request /\ TermsInv /\ VictimOut /\ ShutdownOwns
  BY DEF SessionsInv, RequestInv, TermsInv
<1>2. /\ op'.pc = (IF S = {} THEN then ELSE "stop") /\ SameRequest /\ op'.id = op.id /\ op'.victim = op.victim
  BY <1>1, StopsAll
<1>3. op'.victim = None /\ op'.pc # "stopWait"
  BY <1>1, <1>2 DEF VictimOut, Thens
<1>4. shuttingDown => op'.pc \in {"idle", "list", "dispatch", "answer"} /\ op'.kind \in {"none", "list", "proxy"}
  BY <1>1, <1>2 DEF ShutdownOwns, SameRequest
<1>5. S # {} => op'.pc = "stop"
  BY <1>2
<1>6. S = {} => op'.pc = then
  BY <1>2
<1> QED
  BY <1>1, <1>2, <1>3, <1>4, <1>5, <1>6, Settled DEF SameRequest, OwnSteps

LEMMA ReachedNext ==
    ASSUME SessionsInv, [Next]_vars
    PROVE  Reached'
<1>1. /\ RequestInv /\ op \in Request /\ StepOfKind /\ Arguments /\ StopsFor
      /\ TmuxType /\ TermsInv /\ TermsType /\ VictimOut /\ NoneManaged /\ ShutdownOwns /\ ProcessesOk
      /\ managed \in [Ids -> Procs \cup {None}] /\ leaving \subseteq Procs
  BY DEF SessionsInv, RequestInv, TermsInv, TermsType
<1>2. Shrinks \/ \E p \in Procs : StartedBy(p)
  BY MapShrinks
<1>3. ASSUME NEW kind \in Kinds, NEW i \in Ids \cup {None}, NEW n \in Names \cup {None}, Start(kind, i, n)
      PROVE  Reached'
  <2>1. Calm /\ (shuttingDown => kind \in {"list", "proxy"})
    BY <1>3 DEF Start, Calm
  <2>2. op'.pc = "list" /\ op'.kind = kind /\ op'.victim = None
    BY <1>3, Begins
  <2> QED
    BY <1>1, <2>1, <2>2, CalmShrinks, Settled DEF OwnSteps
<1>4. ASSUME ListSessions PROVE Reached'
  <2>1. op.pc = "list" /\ Calm
    BY <1>4 DEF ListSessions, Calm
  <2>2. /\ SameRequest /\ op'.victim = op.victim /\ op'.stop = Managed \ {l.id : l \in Listed}
        /\ op'.pc = (IF op'.stop = {} THEN "dispatch" ELSE "stop")
    BY <1>1, <1>4, Lists
  <2>3. shuttingDown => op'.stop = {}
    BY <1>1, <2>2 DEF ShutdownOwns, Managed
  <2>4. op'.victim = None /\ op'.pc \in {"dispatch", "stop"} /\ (shuttingDown => op'.pc = "dispatch")
    BY <1>1, <2>1, <2>2, <2>3 DEF VictimOut
  <2>5. shuttingDown => op'.kind \in {"none", "list", "proxy"}
    BY <1>1, <2>2 DEF ShutdownOwns, SameRequest
  <2> QED
    BY <1>1, <2>1, <2>4, <2>5, CalmShrinks, Settled DEF OwnSteps
<1>5. ASSUME ListFails \/ Answer \/ CreateRefused \/ CleanUp \/ KillSession \/ SocketReady PROVE Reached'
  <2>1. Calm /\ Return
    BY <1>5 DEF ListFails, Answer, CreateRefused, CleanUp, KillSession, SocketReady, Calm
  <2> QED
    BY <1>1, <2>1, CalmShrinks, SettledReturn
<1>6. ASSUME ListMisreports PROVE Reached'
  <2>1. op.pc = "list" /\ Calm /\ StopAll(Managed, "dispatch") /\ Managed \in SUBSET Ids
    BY <1>6 DEF ListMisreports, Calm, Managed
  <2>2. shuttingDown => Managed = {}
    BY <1>1 DEF ShutdownOwns, Managed
  <2>3. PICK S \in SUBSET Ids, then \in Thens \ {"idle"} : S = Managed /\ then = "dispatch"
    BY <2>1 DEF Thens
  <2> QED
    BY <2>1, <2>2, <2>3, CalmShrinks, SettledStopAll
<1>7. ASSUME NEW i \in Ids, StopSignal(i) PROVE Reached'
  <2>1. /\ op.pc = "stop" /\ i \in op.stop /\ op.then \in Thens \ {"idle"} /\ op.stop \in SUBSET Ids
        /\ UNCHANGED <<leaving, shuttingDown>> /\ ~shuttingDown
    BY <1>1, <1>7 DEF StopSignal, StopsFor, Thens, Request, ShutdownOwns
  <2>2. CASE managed[i] = None /\ UNCHANGED managed /\ StopAll(op.stop \ {i}, op.then)
    <3>1. PICK S \in SUBSET Ids, then \in Thens \ {"idle"} : S = op.stop \ {i} /\ then = op.then
      BY <2>1
    <3>2. StopAll(S, then) /\ Shrinks
      BY <2>2, <3>1 DEF Shrinks
    <3>3. S # {} \/ then \in {"dispatch", "answer"} \/ (op.id \in Ids /\ managed[op.id] = None)
      BY <1>1, <2>1, <2>2, <3>1 DEF StopsFor
    <3> QED
      BY <2>1, <3>2, <3>3, SettledStopAll
  <2>3. CASE /\ managed[i] # None /\ managed' = [managed EXCEPT ![i] = None]
             /\ ttyd' = [ttyd EXCEPT ![managed[i]] = Terminated(@)]
             /\ op' = [op EXCEPT !.pc = "stopWait", !.victim = managed[i]]
    <3>1. PICK q \in Procs : q = managed[i]
      BY <1>1, <2>3
    <3>2. /\ op'.id = op.id /\ op'.stop = op.stop /\ op'.pc = "stopWait" /\ op'.victim = q
      BY <1>1, <2>3, <3>1, Signals
    <3>3. ttyd[q].id = i /\ ttyd[q].state # "unused"
      BY <1>1, <3>1, <2>3 DEF ProcessesOk, MapOk
    <3>4. Sound(ttyd[q])
      BY <1>1, AllSound
    <3>5. ttyd'[q] = Terminated(ttyd[q])
      BY <1>1, <2>3, <3>1 DEF TermsType
    <3>6. ttyd'[q].id = i /\ ttyd'[q].state # "unused"
      BY <3>3, <3>4, <3>5, TerminatedFollows DEF Follows
    <3>7. managed'[i] = None
      BY <1>1, <2>3
    <3>8. VictimOut'
      BY <2>1, <3>2, <3>6, <3>7 DEF VictimOut
    <3>9. NoneManaged'
      BY <3>2 DEF NoneManaged
    <3>10. ShutdownOwns'
      BY <1>1, <2>1 DEF ShutdownOwns
    <3> QED
      BY <3>8, <3>9, <3>10 DEF Reached
  <2> QED
    BY <1>7, <2>2, <2>3 DEF StopSignal
<1>8. ASSUME Stopped PROVE Reached'
  <2>1. /\ op.pc = "stopWait" /\ op.then # "idle" /\ ttyd[op.victim].id \in Ids /\ ttyd[op.victim].id \in op.stop
        /\ managed[ttyd[op.victim].id] = None /\ UNCHANGED <<managed, leaving, shuttingDown>> /\ ~shuttingDown
    BY <1>1, <1>8 DEF Stopped, VictimOut, ProcessesOk, ProcessOk, StopsFor, ShutdownOwns
  <2>2. PICK i \in Ids : i = ttyd[op.victim].id
    BY <2>1
  <2>3. op' = [op EXCEPT !.stop = @ \ {i}, !.victim = None, !.pc = IF op.stop = {i} THEN op.then ELSE "stop"]
    BY <1>8, <2>2 DEF Stopped
  <2>4. /\ SameRequest /\ op'.id = op.id /\ op'.victim = None
        /\ op'.pc = (IF op.stop = {i} THEN op.then ELSE "stop")
    BY <1>1, <2>1, <2>3, Stops
  <2>5. op'.pc # "stopWait" /\ Shrinks
    BY <1>1, <2>1, <2>4 DEF StopsFor, Shrinks
  <2>6. op'.pc \in {"start", "buffers", "drop", "kill"} => op'.id = i
    BY <1>1, <2>1, <2>4 DEF StopsFor
  <2> QED
    BY <1>1, <2>1, <2>2, <2>4, <2>5, <2>6, Settled DEF OwnSteps
<1>9. ASSUME Dispatch PROVE Reached'
  <2>1. op.pc = "dispatch" /\ op.kind \in Kinds /\ Calm
    BY <1>1, <1>9 DEF Dispatch, StepOfKind, Request, Calm
  <2>2. \/ Return
        \/ op.kind = "create" /\ Goto("create")
        \/ op.kind = "proxy" /\ Goto("answer")
        \/ op.kind = "delete" /\ op.id \in Ids /\ StopAll({op.id}, "buffers")
        \/ op.kind \in {"connect", "take", "discard"} /\ Goto("buffers")
    BY <1>1, <1>9, <2>1 DEF Dispatch, Kinds, Arguments
  <2>3. shuttingDown => op.kind \in {"list", "proxy"}
    BY <1>1, <2>1 DEF ShutdownOwns, StepOfKind
  <2>4. CASE Return
    BY <1>1, <2>1, <2>4, CalmShrinks, SettledReturn
  <2>5. CASE op.kind = "delete" /\ op.id \in Ids /\ StopAll({op.id}, "buffers")
    <3>1. PICK S \in SUBSET Ids, then \in Thens \ {"idle"} : S = {op.id} /\ then = "buffers"
      BY <2>5 DEF Thens
    <3> QED
      BY <2>1, <2>3, <2>5, <3>1, CalmShrinks, SettledStopAll
  <2>6. ASSUME NEW pc \in {"create", "answer", "buffers"}, Goto(pc), op.kind # "delete",
               pc = "answer" => op.kind = "proxy", pc # "answer" => op.kind \notin {"list", "proxy"}
        PROVE  Reached'
    BY <1>1, <2>1, <2>3, <2>6, CalmShrinks, SettledGoto DEF Pcs, OwnSteps
  <2>7. PICK a, b, c : a = "create" /\ b = "answer" /\ c = "buffers"
    OBVIOUS
  <2> QED
    BY <2>2, <2>4, <2>5, <2>6, <2>7
<1>10. ASSUME NEW i \in Ids, CreateSession(i) PROVE Reached'
  <2>1. PICK pc \in {"tag", "cleanup"} : op' = [op EXCEPT !.pc = pc, !.id = i]
    BY <1>10 DEF CreateSession
  <2>2. op.pc = "create" /\ Calm /\ ~shuttingDown
    BY <1>1, <1>10 DEF CreateSession, At, Calm, ShutdownOwns
  <2>3. /\ SameRequest /\ op'.pc = pc /\ op'.victim = None
    BY <1>1, <2>1, <2>2, Creates DEF VictimOut
  <2> QED
    BY <1>1, <2>2, <2>3, CalmShrinks, Settled DEF OwnSteps
<1>11. ASSUME TagId \/ TagName PROVE Reached'
  <2>1. op.pc \in {"tag", "name"} /\ Calm /\ ~shuttingDown
    BY <1>1, <1>11 DEF TagId, TagName, SetOption, At, Calm, ShutdownOwns
  <2>2. Return \/ \E pc \in {"name", "cleanup"} : Goto(pc)
    BY <1>11 DEF TagId, TagName, SetOption
  <2>3. ASSUME NEW pc \in {"name", "cleanup"}, Goto(pc) PROVE Reached'
    BY <1>1, <2>1, <2>3, CalmShrinks, SettledGoto DEF Pcs, OwnSteps
  <2>4. CASE Return
    BY <1>1, <2>1, <2>4, CalmShrinks, SettledReturn
  <2> QED
    BY <2>2, <2>3, <2>4
<1>12. ASSUME ListBuffers PROVE Reached'
  <2>1. /\ op.pc = "buffers" /\ op.kind \in {"take", "discard", "delete", "connect"}
        /\ Calm /\ ~shuttingDown /\ op.id \in Ids /\ op.victim = None
    BY <1>1, <1>12 DEF ListBuffers, StepOfKind, Calm, ShutdownOwns, Arguments, VictimOut
  <2>2. CASE Return \/ op' = Idle
    BY <1>1, <2>1, <2>2, CalmShrinks, SettledReturn DEF Return
  <2>3. CASE op' = [op EXCEPT !.pc = AfterBuffers[op.kind], !.seen = {},
                              !.doomed = Matching(op.id), !.listed = Matching(op.id)]
    <3>1. PICK pc \in {"show", "drop"} : pc = AfterBuffers[op.kind]
      BY <2>1 DEF AfterBuffers
    <3>2. /\ SameRequest /\ op'.id = op.id /\ op'.pc = pc /\ op'.victim = None
      BY <1>1, <2>1, <2>3, <3>1, ListsBuffers DEF TmuxType
    <3>3. op'.kind = "delete" => managed[op'.id] = None
      BY <1>1, <2>1, <3>2 DEF NoneManaged, SameRequest
    <3> QED
      BY <1>1, <2>1, <3>2, <3>3, CalmShrinks, Settled
  <2> QED
    BY <1>12, <2>2, <2>3 DEF ListBuffers
<1>13. ASSUME ShowBuffer PROVE Reached'
  <2>1. /\ op.pc = "show" /\ op.kind = "take" /\ op.listed \subseteq Selection /\ Calm /\ ~shuttingDown
        /\ op.victim = None
    BY <1>1, <1>13 DEF ShowBuffer, StepOfKind, Request, Calm, ShutdownOwns, VictimOut
  <2>2. CASE Return
    BY <1>1, <2>1, <2>2, CalmShrinks, SettledReturn
  <2>3. ASSUME NEW b \in Newest(op.listed), NEW t \in {0, b.n}, op' = [op EXCEPT !.pc = "drop", !.text = t]
        PROVE  Reached'
    <3>1. b.n \in 1..MaxSelections
      BY <2>1 DEF Newest, Selection
    <3>2. t \in 0..MaxSelections
      BY <3>1, BoundsAssumption
    <3>3. SameRequest /\ op'.pc = "drop" /\ op'.victim = None
      BY <1>1, <2>1, <2>3, <3>2, Shows
    <3> QED
      BY <1>1, <2>1, <3>3, CalmShrinks, Settled DEF SameRequest
  <2> QED
    BY <1>13, <2>2, <2>3 DEF ShowBuffer
<1>14. ASSUME DropBuffer PROVE Reached'
  <2>1. op.pc = "drop" /\ Calm /\ ~shuttingDown /\ op.victim = None
    BY <1>1, <1>14 DEF DropBuffer, Calm, ShutdownOwns, VictimOut
  <2>2. CASE Return
    BY <1>1, <2>1, <2>2, CalmShrinks, SettledReturn
  <2>3. ASSUME NEW b, op' = [op EXCEPT !.doomed = @ \ {b}]
        PROVE  Reached'
    <3>1. SameRequest /\ op'.id = op.id /\ op'.pc = op.pc /\ op'.victim = op.victim
      BY <1>1, <2>3, Drops
    <3>2. op'.kind = "delete" => op'.id \in Ids /\ managed[op'.id] = None
      BY <1>1, <2>1, <3>1 DEF NoneManaged, SameRequest, Arguments
    <3> QED
      BY <1>1, <2>1, <3>1, <3>2, CalmShrinks, Settled
  <2> QED
    BY <1>14, <2>2, <2>3 DEF DropBuffer
<1>15. ASSUME BuffersDropped PROVE Reached'
  <2>1. /\ op.pc = "drop" /\ op.kind \in {"take", "discard", "delete", "connect"} /\ Calm /\ ~shuttingDown
        /\ op.victim = None
    BY <1>1, <1>15 DEF BuffersDropped, StepOfKind, Calm, ShutdownOwns, VictimOut
  <2>2. CASE Return
    BY <1>1, <2>1, <2>2, CalmShrinks, SettledReturn
  <2>3. ASSUME NEW pc \in {"kill", "configure"}, op' = [op EXCEPT !.pc = pc, !.listed = {}]
        PROVE  Reached'
    <3>1. SameRequest /\ op'.id = op.id /\ op'.pc = pc /\ op'.victim = op.victim
      BY <1>1, <2>3, Cleared
    <3>2. op'.kind = "delete" => op'.id \in Ids /\ managed[op'.id] = None
      BY <1>1, <2>1, <3>1 DEF NoneManaged, SameRequest, Arguments
    <3> QED
      BY <1>1, <2>1, <3>1, <3>2, CalmShrinks, Settled
  <2> QED
    BY <1>15, <2>1, <2>2, <2>3 DEF BuffersDropped
<1>16. ASSUME Configure PROVE Reached'
  <2>1. op.pc = "configure" /\ op.kind = "connect" /\ Calm /\ ~shuttingDown /\ (Return \/ Goto("reuse"))
    BY <1>1, <1>16 DEF Configure, StepOfKind, Calm, ShutdownOwns
  <2>2. PICK pc \in Pcs : pc = "reuse"
    BY DEF Pcs
  <2> QED
    BY <1>1, <2>1, <2>2, CalmShrinks, SettledReturn, SettledGoto
<1>17. ASSUME Reuse PROVE Reached'
  <2>1. /\ op.pc = "reuse" /\ op.kind = "connect" /\ op.id \in Ids /\ Calm /\ ~shuttingDown
        /\ Return \/ (Goto("start") /\ managed[op.id] = None) \/ StopAll({op.id}, "start")
    BY <1>1, <1>17 DEF Reuse, StepOfKind, Arguments, Calm, ShutdownOwns
  <2>2. PICK pc \in Pcs : pc = "start"
    BY DEF Pcs
  <2>3. PICK S \in SUBSET Ids, then \in Thens \ {"idle"} : S = {op.id} /\ then = "start"
    BY <2>1 DEF Thens
  <2>4. CASE Return
    BY <1>1, <2>1, <2>4, CalmShrinks, SettledReturn
  <2>5. CASE Goto("start") /\ managed[op.id] = None
    BY <1>1, <2>1, <2>2, <2>5, CalmShrinks, SettledGoto
  <2>6. CASE StopAll({op.id}, "start")
    BY <2>1, <2>3, <2>6, CalmShrinks, SettledStopAll
  <2> QED
    BY <2>1, <2>4, <2>5, <2>6
<1>18. ASSUME NEW p \in Procs, StartTtyd(p) PROVE Reached'
  <2>1. op.pc = "start" /\ op.kind = "connect" /\ (Return \/ Goto("await")) /\ UNCHANGED <<leaving, shuttingDown>>
        /\ ~shuttingDown
    BY <1>1, <1>18 DEF StartTtyd, StepOfKind, ShutdownOwns
  <2>2. CASE Return
    <3>1. Shrinks
      BY <1>18, <2>1, <2>2, Returns, GoesTo, <1>1 DEF StartTtyd, Shrinks, Pcs
    <3> QED
      BY <1>1, <2>1, <2>2, <3>1, SettledReturn
  <2>3. CASE Goto("await")
    <3>1. PICK pc \in Pcs : pc = "await"
      BY DEF Pcs
    <3>2. op'.pc = pc /\ op'.victim = op.victim
      BY <1>1, <2>3, <3>1, GoesTo
    <3>3. VictimOut' /\ NoneManaged'
      BY <1>1, <2>1, <3>1, <3>2 DEF VictimOut, NoneManaged
    <3>4. ShutdownOwns'
      BY <1>1, <2>1 DEF ShutdownOwns
    <3> QED
      BY <3>3, <3>4 DEF Reached
  <2> QED
    BY <2>1, <2>2, <2>3
<1>19. ASSUME SocketTimeout PROVE Reached'
  <2>1. op.pc = "await" /\ op.id \in Ids /\ Calm /\ ~shuttingDown /\ StopAll({op.id}, "answer")
    BY <1>1, <1>19 DEF SocketTimeout, StepOfKind, Arguments, Calm, ShutdownOwns
  <2>2. PICK S \in SUBSET Ids, then \in Thens \ {"idle"} : S = {op.id} /\ then = "answer"
    BY <2>1 DEF Thens
  <2> QED
    BY <2>1, <2>2, CalmShrinks, SettledStopAll
<1>20. ASSUME TtydExitedEarly PROVE Reached'
  <2>1. op.pc = "await" /\ Return /\ UNCHANGED <<leaving, shuttingDown>>
    BY <1>20 DEF TtydExitedEarly
  <2>2. Shrinks
    BY <1>1, <1>2, <2>1, Returns DEF StartedBy
  <2> QED
    BY <1>1, <2>1, <2>2, SettledReturn
<1>21. ASSUME Restart PROVE Reached'
  <2>1. Return /\ ~shuttingDown' /\ leaving' = {}
    BY <1>21 DEF Restart, Return
  <2>2. op'.pc = "idle" /\ op'.kind = "none" /\ op'.victim = None
    BY <2>1, Returns
  <2> QED
    BY <2>1, <2>2 DEF Reached, VictimOut, NoneManaged, ShutdownOwns
<1>22. ASSUME UNCHANGED op PROVE Reached'
  <2>1. Shrinks
    BY <1>1, <1>2, <1>22 DEF StartedBy, Request
  <2>2. (\A p \in Procs : Follows(ttyd'[p], ttyd[p])) \/ \E p \in Procs : StartedBy(p)
    BY ProcessesFollow
  <2>3. \A p \in Procs : Follows(ttyd'[p], ttyd[p])
    BY <1>1, <1>22, <2>2 DEF StartedBy, Request
  <2>4. VictimOut'
    BY <1>1, <1>22, <2>1, <2>3 DEF VictimOut, Follows, StopsFor, Request, Shrinks
  <2>5. NoneManaged'
    BY <1>1, <1>22, <2>1 DEF NoneManaged, Shrinks, Arguments, StepOfKind
  <2>6. ShutdownOwns'
    <3>1. CASE UNCHANGED <<leaving, shuttingDown>>
      BY <1>1, <1>22, <2>1, <3>1 DEF ShutdownOwns, Shrinks
    <3>2. CASE ShutdownBegin
      <4>1. op.pc = "idle" /\ op.kind = "none"
        BY <3>2 DEF ShutdownBegin, Idle
      <4> QED
        BY <1>22, <3>2, <4>1 DEF ShutdownBegin, ShutdownOwns
    <3>3. CASE (\E p \in Procs : ShutdownReap(p)) \/ ShutdownExpire
      <4>1. leaving' \subseteq leaving /\ UNCHANGED <<managed, shuttingDown>>
        BY <3>3 DEF ShutdownReap, ShutdownExpire
      <4> QED
        BY <1>1, <1>22, <4>1 DEF ShutdownOwns
    <3>4. CASE UNCHANGED <<terms, leaving, shuttingDown>>
      BY <3>1, <3>4
    <3>5. ASSUME NEW i \in Ids, StopSignal(i) PROVE ShutdownOwns'
      BY <3>1, <3>5 DEF StopSignal
    <3>6. ASSUME NEW p \in Procs, \/ StartTtyd(p) \/ Report(p) \/ Disown(p) \/ RemoveSocket(p)
                                  \/ TtydBinds(p) \/ TtydExits(p)
          PROVE  ShutdownOwns'
      BY <3>1, <3>6 DEF StartTtyd, Report, Disown, RemoveSocket, TtydBinds, TtydExits
    <3>7. CASE Stopped \/ TtydExitedEarly
      BY <3>1, <3>7 DEF Stopped, TtydExitedEarly
    <3>8. CASE Restart
      BY <1>21, <3>8 DEF Reached
    <3> QED
      BY <3>2, <3>3, <3>4, <3>5, <3>6, <3>7, <3>8, TermsWriters DEF Watcher
  <2> QED
    BY <2>4, <2>5, <2>6 DEF Reached
<1>23. ASSUME RequestStep PROVE Reached'
  BY <1>4, <1>5, <1>6, <1>7, <1>8, <1>9, <1>10, <1>11, <1>12, <1>13, <1>14, <1>15, <1>16, <1>17, <1>18,
     <1>19, <1>20, <1>23 DEF RequestStep
<1> QED
  BY <1>3, <1>21, <1>22, <1>23, RequestWriters

-----------------------------------------------------------------------------
(* Nobody forgets a process.                                                *)

LEMMA VictimLeft ==
    ASSUME SessionsInv, [Next]_vars
    PROVE  op'.victim = op.victim \/ op.victim = None \/ Stopped \/ Restart
<1>1. op.victim # None => op.pc = "stopWait"
  BY DEF SessionsInv, TermsInv, VictimOut
<1>2. ASSUME NEW kind, NEW i, NEW n, Start(kind, i, n) PROVE op.pc = "idle"
  BY <1>2 DEF Start, Idle
<1>3. ASSUME RequestStep, ~Stopped PROVE op.pc # "stopWait"
  BY <1>3 DEF RequestStep, ListSessions, ListFails, ListMisreports, StopSignal, Dispatch, Answer, CreateSession,
     CreateRefused, SetOption, TagId, TagName, CleanUp, ListBuffers, ShowBuffer, DropBuffer, BuffersDropped,
     KillSession, Configure, Reuse, StartTtyd, SocketReady, SocketTimeout, TtydExitedEarly, At
<1> QED
  BY <1>1, <1>2, <1>3, RequestWriters

(* An entry leaves the map with its process stopped, seen to end, or handed to a shutdown. *)
LEMMA EntryLeft ==
    ASSUME SessionsInv, [Next]_vars, NEW i \in Ids, managed[i] # None, managed'[i] # managed[i]
    PROVE  \/ StopSignal(i)
           \/ managed[i] \in Finished /\ UNCHANGED <<leaving, op>>
           \/ managed[i] \in Finished /\ UNCHANGED leaving /\ TtydExitedEarly
           \/ ShutdownBegin \/ Restart
<1>1. managed \in [Ids -> Procs \cup {None}] /\ managed[i] \in Procs /\ StepOfKind /\ NoneManaged /\ Arguments
  BY DEF SessionsInv, RequestInv, TermsInv, TermsType
<1>2. ASSUME NEW k \in Ids, StopSignal(k) PROVE k = i
  BY <1>1, <1>2 DEF StopSignal
<1>3. ASSUME NEW p \in Procs, StartTtyd(p) PROVE FALSE
  BY <1>1, <1>3 DEF StartTtyd, NoneManaged
<1>4. ASSUME TtydExitedEarly PROVE managed[i] \in Finished /\ UNCHANGED leaving
  BY <1>1, <1>4 DEF TtydExitedEarly
<1>5. ASSUME NEW p \in Procs, Disown(p) PROVE managed[i] \in Finished /\ UNCHANGED <<leaving, op>>
  BY <1>1, <1>5 DEF Disown, Finished
<1>6. ~(Stopped \/ ShutdownExpire \/ UNCHANGED <<terms, leaving, shuttingDown>>)
  BY DEF Stopped, ShutdownExpire, terms
<1>7. ASSUME NEW p \in Procs, Report(p) \/ RemoveSocket(p) \/ ShutdownReap(p) \/ TtydBinds(p) \/ TtydExits(p)
      PROVE  FALSE
  BY <1>7 DEF Report, RemoveSocket, ShutdownReap, TtydBinds, TtydExits
<1> QED
  BY <1>2, <1>3, <1>4, <1>5, <1>6, <1>7, TermsWriters DEF Watcher

(* A shutdown lets go of a process that has ended. *)
LEMMA LeavingLeft ==
    ASSUME SessionsInv, [Next]_vars, NEW p \in leaving, p \notin leaving'
    PROVE  p \in Finished \/ ShutdownExpire \/ Restart
<1>1. ShutdownOwns
  BY DEF SessionsInv, TermsInv
<1>2. ~ShutdownBegin
  BY <1>1 DEF ShutdownOwns, ShutdownBegin
<1>3. ASSUME NEW i \in Ids, StopSignal(i) PROVE FALSE
  BY <1>3 DEF StopSignal
<1>4. ASSUME NEW q \in Procs, ShutdownReap(q) PROVE p \in Finished
  BY <1>4 DEF ShutdownReap
<1>5. ASSUME NEW q \in Procs, StartTtyd(q) \/ Report(q) \/ Disown(q) \/ RemoveSocket(q) \/ TtydBinds(q) \/ TtydExits(q)
      PROVE FALSE
  BY <1>5 DEF StartTtyd, Report, Disown, RemoveSocket, TtydBinds, TtydExits
<1>6. ~(Stopped \/ TtydExitedEarly \/ UNCHANGED <<terms, leaving, shuttingDown>>)
  BY DEF Stopped, TtydExitedEarly
<1> QED
  BY <1>2, <1>3, <1>4, <1>5, <1>6, TermsWriters DEF Watcher

LEMMA EndedNotRunning ==
    ASSUME SessionsInv
    PROVE  Finished \cap Running = {}
<1>1. \A p \in Procs : Sound(ttyd[p])
  BY AllSound DEF SessionsInv, TermsInv
<1> QED
  BY <1>1 DEF Sound, Finished, Running

LEMMA TrackedNext ==
    ASSUME SessionsInv, [Next]_vars
    PROVE  TtydTracked'
<1>1. /\ ttyd \in [Procs -> Process] /\ managed \in [Ids -> Procs \cup {None}] /\ StepOfKind /\ Arguments
      /\ TermsType /\ ProcessesOk /\ TtydTracked /\ VictimOut /\ NoneManaged /\ ShutdownOwns
  BY DEF SessionsInv, RequestInv, TermsInv, TermsType
<1>2. \A p \in Procs : Sound(ttyd[p])
  BY <1>1, AllSound
<1>3. \A p \in Procs : p \in Running => ttyd[p].id \in Ids
  BY <1>2 DEF Sound, Running
<1>4. ASSUME NEW p \in Procs, StartedBy(p) PROVE TtydTracked'
  <2>1. op.id \in Ids /\ op.victim = None /\ managed[op.id] = None
    BY <1>1, <1>4 DEF StartedBy, StepOfKind, Arguments, VictimOut, NoneManaged
  <2>2. ttyd'[p].id = op.id /\ \A q \in Procs \ {p} : ttyd'[q] = ttyd[q]
    BY <1>1, <1>4, <2>1, StartedSound DEF StartedBy
  <2>3. managed'[op.id] = p /\ \A i \in Ids \ {op.id} : managed'[i] = managed[i]
    BY <1>1, <1>4, <2>1 DEF StartedBy
  <2> SUFFICES ASSUME NEW q \in Procs, q \in Running'
               PROVE  managed'[ttyd'[q].id] = q \/ q = op'.victim \/ q \in leaving'
    BY DEF TtydTracked, Running
  <2>4. CASE q = p
    BY <2>2, <2>3, <2>4
  <2>5. CASE q # p
    <3>1. q \in Running /\ ttyd'[q] = ttyd[q]
      BY <2>2, <2>5 DEF Running
    <3>2. managed[ttyd[q].id] = q \/ q \in leaving
      BY <1>1, <2>1, <3>1, NoneAssumption DEF TtydTracked
    <3>3. q \in leaving => q \in leaving'
      BY <1>4 DEF StartedBy
    <3> QED
      BY <1>3, <2>1, <2>3, <3>1, <3>2, <3>3, NoneAssumption
  <2> QED
    BY <2>4, <2>5
<1>5. CASE \A p \in Procs : Follows(ttyd'[p], ttyd[p])
  <2> SUFFICES ASSUME NEW q \in Procs, q \in Running'
               PROVE  managed'[ttyd'[q].id] = q \/ q = op'.victim \/ q \in leaving'
    BY DEF TtydTracked, Running
  <2>1. q \in Running /\ ttyd'[q].id = ttyd[q].id /\ ttyd[q].id \in Ids
    BY <1>3, <1>5 DEF Follows, Running
  <2>2. managed[ttyd[q].id] = q \/ q = op.victim \/ q \in leaving
    BY <1>1, <2>1 DEF TtydTracked
  <2>3. q \notin Finished
    BY <2>1, EndedNotRunning
  <2>4. ~Restart
    <3>1. ASSUME Restart PROVE FALSE
      <4>1. ttyd'[q] = Watched(Exited(ttyd[q]), "gone")
        BY <2>1, <3>1 DEF Restart, Unused, Running
      <4>2. ttyd'[q].state \notin {"starting", "bound"}
        BY <4>1 DEF Watched, Exited, NewProcess
      <4> QED
        BY <4>2 DEF Running
    <3> QED
      BY <3>1
  <2>5. CASE managed[ttyd[q].id] = q
    <3>1. PICK i \in Ids : i = ttyd[q].id
      BY <2>1
    <3>2. CASE StopSignal(i)
      <4>1. op' = [op EXCEPT !.pc = "stopWait", !.victim = q]
        BY <2>5, <3>1, <3>2, NoneAssumption DEF StopSignal
      <4>2. op'.victim = q
        BY <4>1, Signals DEF SessionsInv, RequestInv
      <4> QED
        BY <4>2
    <3>3. CASE ShutdownBegin
      <4>1. q \in leaving'
        BY <2>5, <3>1, <3>3, NoneAssumption DEF ShutdownBegin, Managed
      <4> QED
        BY <4>1
    <3>4. CASE managed'[i] = managed[i]
      BY <2>1, <2>5, <3>1, <3>4
    <3> QED
      BY <2>3, <2>4, <2>5, <3>1, <3>2, <3>3, <3>4, EntryLeft, NoneAssumption
  <2>6. CASE q = op.victim
    <3>1. ASSUME Stopped PROVE FALSE
      <4>1. ttyd' = [ttyd EXCEPT ![q] = Killed(@)]
        BY <2>3, <2>6, <3>1 DEF Stopped
      <4>2. ttyd'[q].state \notin {"starting", "bound"}
        BY <1>1, <1>2, <4>1, KilledFollows
      <4> QED
        BY <4>2 DEF Running
    <3> QED
      BY <2>4, <2>6, <3>1, VictimLeft, NoneAssumption
  <2>7. CASE q \in leaving
    <3>1. ASSUME ShutdownExpire PROVE FALSE
      <4>1. ttyd'[q] = Killed(ttyd[q])
        BY <2>7, <3>1 DEF ShutdownExpire
      <4>2. ttyd'[q].state \notin {"starting", "bound"}
        BY <1>1, <1>2, <4>1, KilledFollows
      <4> QED
        BY <4>2 DEF Running
    <3> QED
      BY <2>3, <2>4, <2>7, <3>1, LeavingLeft
  <2> QED
    BY <2>2, <2>5, <2>6, <2>7
<1> QED
  BY <1>4, <1>5, ProcessesFollow

(* A path changes only by going away, or because a process binds it. *)
LEMMA PathChanges ==
    ASSUME SessionsInv, [Next]_vars
    PROVE  (\A i \in Ids : file'[i] \in {file[i], None}) \/ \E p \in Procs : TtydBinds(p)
<1> DEFINE Goal == \A i \in Ids : file'[i] \in {file[i], None}
<1>1. file \in [Ids -> Procs \cup {None}]
  BY DEF SessionsInv, TermsInv, TermsType
<1>2. ASSUME UNCHANGED file PROVE Goal
  BY <1>2
<1>3. ASSUME NEW k, file' = [file EXCEPT ![k] = None] PROVE Goal
  BY <1>1, <1>3
<1>4. ASSUME NEW i \in Ids, StopSignal(i) PROVE Goal
  BY <1>2, <1>3, <1>4 DEF StopSignal
<1>5. ASSUME NEW p \in Procs, \/ StartTtyd(p) \/ Report(p) \/ Disown(p) \/ RemoveSocket(p) \/ ShutdownReap(p)
                              \/ TtydExits(p)
      PROVE  Goal
  BY <1>2, <1>3, <1>5 DEF StartTtyd, Report, Disown, RemoveSocket, ShutdownReap, TtydExits
<1>6. ASSUME Stopped \/ TtydExitedEarly \/ ShutdownBegin PROVE Goal
  BY <1>2, <1>3, <1>6 DEF Stopped, TtydExitedEarly, ShutdownBegin
<1>7. ASSUME ShutdownExpire \/ Restart PROVE Goal
  BY <1>7 DEF ShutdownExpire, Restart
<1>8. ASSUME UNCHANGED <<terms, leaving, shuttingDown>> PROVE Goal
  BY <1>2, <1>8 DEF terms
<1> QED
  BY <1>4, <1>5, <1>6, <1>7, <1>8, TermsWriters DEF Watcher

LEMMA SocketNext ==
    ASSUME SessionsInv, [Next]_vars
    PROVE  SocketOfManaged'
<1>1. /\ ttyd \in [Procs -> Process] /\ managed \in [Ids -> Procs \cup {None}]
      /\ file \in [Ids -> Procs \cup {None}] /\ StepOfKind /\ Arguments
      /\ TermsType /\ ProcessesOk /\ TtydTracked /\ VictimOut /\ ShutdownOwns /\ SocketOfManaged
  BY DEF SessionsInv, RequestInv, TermsInv, TermsType
<1>2. SUFFICES ASSUME NEW i \in Ids, managed'[i] # None
               PROVE  file'[i] \in {None, managed'[i]}
  BY DEF SocketOfManaged, Managed
<1>3. ASSUME NEW p \in Procs, StartedBy(p) PROVE file'[i] \in {None, managed'[i]}
  <2>1. op.id \in Ids
    BY <1>1, <1>3 DEF StartedBy, StepOfKind, Arguments
  <2>2. CASE i = op.id
    BY <1>1, <1>3, <2>2 DEF StartedBy
  <2>3. CASE i # op.id
    BY <1>1, <1>2, <1>3, <2>3 DEF StartedBy, SocketOfManaged, Managed
  <2> QED
    BY <2>2, <2>3
<1>4. ASSUME NEW p \in Procs, TtydBinds(p) PROVE file'[i] \in {None, managed'[i]}
  <2>1. UNCHANGED managed /\ file' = [file EXCEPT ![ttyd[p].id] = p] /\ p \in Running
    BY <1>4 DEF TtydBinds, Running
  <2>2. CASE i = ttyd[p].id
    <3>1. ~shuttingDown
      BY <1>1, <1>2, <2>1 DEF ShutdownOwns
    <3>2. p \notin leaving
      BY <1>1, <3>1 DEF ShutdownOwns
    <3>3. p # op.victim
      BY <1>1, <1>2, <2>1, <2>2, NoneAssumption DEF VictimOut
    <3>4. managed[i] = p
      BY <1>1, <2>1, <2>2, <3>2, <3>3 DEF TtydTracked
    <3> QED
      BY <1>1, <2>1, <2>2, <3>4
  <2>3. CASE i # ttyd[p].id
    BY <1>1, <1>2, <2>1, <2>3 DEF SocketOfManaged, Managed
  <2> QED
    BY <2>2, <2>3
<1>5. CASE Shrinks /\ \A k \in Ids : file'[k] \in {file[k], None}
  <2>1. managed'[i] = managed[i] /\ file'[i] \in {file[i], None}
    BY <1>2, <1>5 DEF Shrinks
  <2> QED
    BY <1>1, <1>2, <2>1 DEF SocketOfManaged, Managed
<1> QED
  BY <1>3, <1>4, <1>5, MapShrinks, PathChanges

LEMMA TermsNext ==
    ASSUME SessionsInv, [Next]_vars
    PROVE  TermsInv'
BY TermsTyped, ProcessesOkNext, ReachedNext, TrackedNext, SocketNext DEF TermsInv, Reached

-----------------------------------------------------------------------------
(* The tmux server, the counters and the history keep their types.          *)

LEMMA TmuxTyped ==
    ASSUME SessionsInv, [Next]_vars
    PROVE  TmuxType'
<1>1. /\ session \in [Ids -> Names \cup Hidden \cup Over] /\ buffers \subseteq Selection /\ op \in Request
      /\ StepOfKind /\ Arguments /\ made \in Nat
  BY BoundsAssumption DEF SessionsInv, TmuxType, RequestInv, CountsType
<1> DEFINE Goal == session' \in [Ids -> Names \cup Hidden \cup Over] /\ buffers' \subseteq Selection
<1>2. ASSUME NEW i, End(i) PROVE Goal
  BY <1>1, <1>2 DEF End, Over
<1>3. ASSUME UNCHANGED tmux PROVE Goal
  BY <1>1, <1>3 DEF tmux
<1>4. ASSUME ListMisreports PROVE Goal
  BY <1>1, <1>4 DEF ListMisreports, Over
<1>5. ASSUME NEW i \in Ids, CreateSession(i) PROVE Goal
  BY <1>1, <1>5 DEF CreateSession, Over, Hidden
<1>6. ASSUME NEW pc, NEW value \in Names \cup Hidden, NEW ok, SetOption(pc, value, ok) PROVE Goal
  BY <1>1, <1>6 DEF SetOption
<1>7. ASSUME TagId PROVE Goal
  <2>1. session' \in [Ids -> Names \cup Hidden \cup Over] /\ UNCHANGED buffers
    BY <1>1, <1>7 DEF TagId, SetOption, Hidden
  <2> QED
    BY <1>1, <2>1
<1>8. ASSUME TagName PROVE Goal
  <2>1. op.name \in Names
    BY <1>1, <1>8 DEF TagName, SetOption, At, StepOfKind, Arguments
  <2>2. session' \in [Ids -> Names \cup Hidden \cup Over] /\ UNCHANGED buffers
    BY <1>1, <1>8, <2>1 DEF TagName, SetOption
  <2> QED
    BY <1>1, <2>2
<1>9. ASSUME CleanUp \/ KillSession PROVE Goal
  BY <1>2, <1>3, <1>9 DEF CleanUp, KillSession
<1>10. ASSUME DropBuffer PROVE Goal
  BY <1>1, <1>10 DEF DropBuffer
<1>11. ASSUME Restart PROVE Goal
  BY <1>1, <1>11 DEF Restart, Over
<1>12. ASSUME NEW i \in Ids, SessionEnds(i) PROVE Goal
  BY <1>2, <1>12 DEF SessionEnds
<1>13. ASSUME NEW i \in Ids, Select(i) PROVE Goal
  <2>1. [id |-> i, n |-> made + 1] \in Selection
    BY <1>1, <1>13, BoundsAssumption DEF Select, Selection
  <2> QED
    BY <1>1, <1>13, <2>1 DEF Select
<1>14. Goal
  BY <1>3, <1>4, <1>5, <1>7, <1>8, <1>9, <1>10, <1>11, <1>12, <1>13, TmuxWriters
<1> QED
  BY <1>14 DEF TmuxType

(* A step spends at most one fault, one restart and one selection. *)
LEMMA CountsGrow ==
    ASSUME SessionsInv, [Next]_vars
    PROVE  /\ shuttingDown' \in BOOLEAN
           /\ made' = made \/ \E i \in Ids : Select(i)
           /\ faults' = faults \/ Fault
           /\ restarts' = restarts \/ Restart
<1>1. shuttingDown \in BOOLEAN
  BY DEF SessionsInv, CountsType
<1>2. ASSUME RequestStep PROVE UNCHANGED <<made, restarts, shuttingDown>> /\ (UNCHANGED faults \/ Fault)
  <2>1. CASE ListSessions \/ ListFails \/ ListMisreports \/ Stopped \/ Dispatch \/ Answer \/ CreateRefused
    BY <2>1 DEF ListSessions, ListFails, ListMisreports, Stopped, Dispatch, Answer, CreateRefused
  <2>2. ASSUME NEW i \in Ids, StopSignal(i) \/ CreateSession(i)
        PROVE UNCHANGED <<made, restarts, shuttingDown>> /\ (UNCHANGED faults \/ Fault)
    BY <2>2 DEF StopSignal, CreateSession, Works
  <2>3. CASE TagId \/ TagName \/ CleanUp \/ ListBuffers \/ ShowBuffer \/ DropBuffer \/ BuffersDropped \/ KillSession
    BY <2>3 DEF TagId, TagName, SetOption, CleanUp, ListBuffers, ShowBuffer, DropBuffer, BuffersDropped,
       KillSession, Works
  <2>4. CASE Configure \/ Reuse \/ SocketReady \/ SocketTimeout \/ TtydExitedEarly
    BY <2>4 DEF Configure, Reuse, SocketReady, SocketTimeout, TtydExitedEarly, Works
  <2>5. ASSUME NEW p \in Procs, StartTtyd(p)
        PROVE UNCHANGED <<made, restarts, shuttingDown>> /\ (UNCHANGED faults \/ Fault)
    BY <2>5 DEF StartTtyd, Works
  <2> QED
    BY <1>2, <2>1, <2>2, <2>3, <2>4, <2>5 DEF RequestStep
<1>3. ASSUME Restart PROVE UNCHANGED <<made, faults>> /\ shuttingDown' \in BOOLEAN
  BY <1>3 DEF Restart
<1>4. ASSUME NEW i \in Ids, Select(i) PROVE UNCHANGED <<faults, restarts, shuttingDown>>
  BY <1>4 DEF Select
<1>5. shuttingDown' \in BOOLEAN
  <2>1. ASSUME NEW i \in Ids, StopSignal(i) PROVE UNCHANGED shuttingDown
    BY <2>1 DEF StopSignal
  <2>2. ASSUME NEW p \in Procs, \/ StartTtyd(p) \/ Report(p) \/ Disown(p) \/ RemoveSocket(p) \/ ShutdownReap(p)
                                \/ TtydBinds(p) \/ TtydExits(p)
        PROVE  UNCHANGED shuttingDown
    BY <2>2 DEF StartTtyd, Report, Disown, RemoveSocket, ShutdownReap, TtydBinds, TtydExits
  <2>3. ASSUME Stopped \/ TtydExitedEarly \/ ShutdownExpire PROVE UNCHANGED shuttingDown
    BY <2>3 DEF Stopped, TtydExitedEarly, ShutdownExpire
  <2>4. ASSUME ShutdownBegin PROVE shuttingDown' \in BOOLEAN
    BY <2>4 DEF ShutdownBegin
  <2>5. ASSUME UNCHANGED <<terms, leaving, shuttingDown>> PROVE UNCHANGED shuttingDown
    BY <2>5
  <2> QED
    BY <1>1, <1>3, <2>1, <2>2, <2>3, <2>4, <2>5, TermsWriters DEF Watcher
<1>6. (UNCHANGED <<made, faults, restarts>>) \/ RequestStep \/ Restart \/ \E i \in Ids : Select(i)
  BY CountWriters
<1> QED
  BY <1>2, <1>3, <1>4, <1>5, <1>6

LEMMA CountsNext ==
    ASSUME SessionsInv, [Next]_vars
    PROVE  CountsType' /\ made <= made' /\ faults <= faults' /\ restarts <= restarts'
<1>1. made \in 0..MaxSelections /\ faults \in 0..MaxFaults /\ restarts \in 0..MaxRestarts
  BY DEF SessionsInv, CountsType
<1>2. made' \in 0..MaxSelections /\ made <= made'
  BY <1>1, CountsGrow, BoundsAssumption DEF Select
<1>3. faults' \in 0..MaxFaults /\ faults <= faults'
  BY <1>1, CountsGrow, BoundsAssumption DEF Fault
<1>4. restarts' \in 0..MaxRestarts /\ restarts <= restarts'
  <2>1. Restart => restarts < MaxRestarts /\ restarts' = restarts + 1
    BY DEF Restart
  <2> QED
    BY <1>1, <2>1, CountsGrow, BoundsAssumption
<1> QED
  BY <1>2, <1>3, <1>4, CountsGrow DEF CountsType

LEMMA HistoryNext ==
    ASSUME SessionsInv, [Next]_vars
    PROVE  HistoryType'
<1>1. /\ taken \in Seq(1..MaxSelections) /\ barred \subseteq 1..MaxSelections /\ deleted \subseteq Ids
      /\ op \in Request /\ StepOfKind /\ Arguments
  BY DEF SessionsInv, HistoryType, RequestInv
<1>2. CASE UNCHANGED history
  BY <1>1, <1>2 DEF HistoryType, history
<1>3. CASE BuffersDropped
  <2>1. UNCHANGED deleted
    BY <1>3 DEF BuffersDropped
  <2>2. barred' \subseteq 1..MaxSelections
    <3>1. op.listed \subseteq Selection
      BY <1>1 DEF Request
    <3>2. barred' \subseteq barred \cup {b.n : b \in op.listed}
      BY <1>3 DEF BuffersDropped
    <3> QED
      BY <1>1, <3>1, <3>2 DEF Selection
  <2>3. taken' \in Seq(1..MaxSelections)
    <3>1. op.text \in 0..MaxSelections
      BY <1>1 DEF Request
    <3>2. taken' = taken \/ (op.text # 0 /\ taken' = Append(taken, op.text))
      BY <1>3 DEF BuffersDropped
    <3> QED
      BY <1>1, <3>1, <3>2, BoundsAssumption
  <2> QED
    BY <1>1, <2>1, <2>2, <2>3 DEF HistoryType
<1>4. CASE KillSession
  <2>1. op.id \in Ids /\ UNCHANGED <<taken, barred>>
    BY <1>1, <1>4 DEF KillSession, At, StepOfKind, Arguments
  <2>2. deleted' \subseteq deleted \cup {op.id}
    BY <1>4 DEF KillSession
  <2> QED
    BY <1>1, <2>1, <2>2 DEF HistoryType
<1> QED
  BY <1>2, <1>3, <1>4, HistoryWriters

-----------------------------------------------------------------------------
(* The sessions a list shows.                                               *)

(* The list as a function of the named sessions. *)
Shown == [i \in Named |-> [id |-> i, name |-> session[i]]]

LEMMA ListedFinite ==
    ASSUME TmuxType, NamedFinite
    PROVE  /\ IsFiniteSet(Listed)
           /\ \A i \in Named : [id |-> i, name |-> session[i]] \in Listed
<1>1. \A i \in Named : i \in Ids /\ session[i] \in Names
  BY DEF Named
<1>2. \A i \in Named : [id |-> i, name |-> session[i]] \in Listed
  BY <1>1 DEF Listed, Listing
<1>3. ASSUME NEW l \in Listed PROVE \E i \in Named : Shown[i] = l
  <2>1. l \in [id : Ids, name : Names] /\ session[l.id] = l.name
    BY <1>3 DEF Listed, Listing
  <2>2. l.id \in Named /\ l = [id |-> l.id, name |-> session[l.id]]
    BY <2>1 DEF Named
  <2> QED
    BY <2>2 DEF Shown
<1>4. Shown \in Surjection(Named, Listed)
  BY <1>2, <1>3 DEF Shown, Surjection
<1>5. IsFiniteSet(Listed)
  BY <1>4, FS_Surjection DEF NamedFinite
<1> QED
  BY <1>2, <1>5

(* Whoever knows every named session knows how many there are. *)
LEMMA NamedCounted ==
    ASSUME NEW S, IsFiniteSet(S), \A i \in Named : [id |-> i, name |-> session[i]] \in S
    PROVE  IsFiniteSet(Named) /\ Cardinality(Named) <= Cardinality(S)
<1>1. Shown \in [Named -> S]
  BY DEF Shown
<1>2. ASSUME NEW a \in Named, NEW b \in Named, Shown[a] = Shown[b] PROVE a = b
  <2>1. [id |-> a, name |-> session[a]] = [id |-> b, name |-> session[b]]
    BY <1>2 DEF Shown
  <2>2. [id |-> a, name |-> session[a]].id = [id |-> b, name |-> session[b]].id
    BY <2>1
  <2> QED
    BY <2>2
<1>3. Shown \in Injection(Named, S)
  BY <1>1, <1>2 DEF Injection, IsInjective, Shown
<1> QED
  BY <1>3, FS_Injection

(* How a step changes the state of a session. *)
Ended(i) == session'[i] \in {"ended", "orphan"}
Made(i)  == CreateSession(i) /\ session[i] = "unused" /\ session'[i] \in {"bare", "ended"}
Set(i)   == op.id = i /\ i \in Live /\ ((TagId /\ session'[i] = "tagged") \/ (TagName /\ session'[i] = op.name))

LEMMA SessionChanges ==
    ASSUME SessionsInv, [Next]_vars
    PROVE  \A i \in Ids : session'[i] = session[i] \/ Ended(i) \/ Made(i) \/ Set(i)
<1> DEFINE Goal == \A i \in Ids : session'[i] = session[i] \/ Ended(i) \/ Made(i) \/ Set(i)
<1>1. session \in [Ids -> Names \cup Hidden \cup Over]
  BY DEF SessionsInv, TmuxType
<1>2. ASSUME NEW i, End(i) PROVE Goal
  BY <1>1, <1>2 DEF End, Over, Ended
<1>3. ASSUME UNCHANGED session PROVE Goal
  BY <1>1, <1>3
<1>4. ASSUME ListMisreports PROVE Goal
  <2>1. session' = [i \in Ids |-> IF i \in Live THEN "orphan" ELSE session[i]]
    BY <1>4 DEF ListMisreports
  <2> QED
    BY <2>1 DEF Over, Ended
<1>5. ASSUME NEW i \in Ids, CreateSession(i) PROVE Goal
  <2>1. PICK s \in {"bare", "ended"} : session' = [session EXCEPT ![i] = s]
    BY <1>5 DEF CreateSession
  <2>2. Made(i)
    BY <1>1, <1>5, <2>1 DEF CreateSession, Made
  <2> QED
    BY <1>1, <2>1, <2>2
<1>6. ASSUME TagId PROVE Goal
  <2>1. UNCHANGED session \/ (op.id \in Live /\ session' = [session EXCEPT ![op.id] = "tagged"])
    BY <1>6 DEF TagId, SetOption
  <2> QED
    BY <1>1, <1>6, <2>1 DEF Set
<1>7. ASSUME TagName PROVE Goal
  <2>1. UNCHANGED session \/ (op.id \in Live /\ session' = [session EXCEPT ![op.id] = op.name])
    BY <1>7 DEF TagName, SetOption
  <2> QED
    BY <1>1, <1>7, <2>1 DEF Set
<1>8. ASSUME CleanUp \/ KillSession PROVE Goal
  BY <1>2, <1>3, <1>8 DEF CleanUp, KillSession, tmux
<1>9. ASSUME DropBuffer PROVE Goal
  BY <1>3, <1>9 DEF DropBuffer
<1>10. ASSUME Restart PROVE Goal
  <2>1. UNCHANGED session \/ session' = [i \in Ids |-> IF i \in Live THEN "ended" ELSE session[i]]
    BY <1>10 DEF Restart
  <2> QED
    BY <2>1 DEF Over, Ended
<1>11. ASSUME NEW i \in Ids, SessionEnds(i) PROVE Goal
  BY <1>2, <1>11 DEF SessionEnds
<1>12. ASSUME NEW i \in Ids, Select(i) PROVE Goal
  BY <1>3, <1>12 DEF Select
<1>13. ASSUME UNCHANGED tmux PROVE Goal
  BY <1>3, <1>13 DEF tmux
<1> QED
  BY <1>4, <1>5, <1>6, <1>7, <1>8, <1>9, <1>10, <1>11, <1>12, <1>13, TmuxWriters

(* Only Create's last command adds to the sessions a list shows. *)
LEMMA NamedGrows ==
    ASSUME SessionsInv, [Next]_vars
    PROVE  \/ \A i \in Named' : i \in Named /\ session'[i] = session[i]
           \/ /\ TagName /\ op.id \in Ids
              /\ \A i \in Named' : (i \in Named /\ session'[i] = session[i]) \/ (i = op.id /\ session'[i] = op.name)
<1>1. \A i \in Ids : session'[i] = session[i] \/ Ended(i) \/ Made(i) \/ Set(i)
  BY SessionChanges
<1>2. ASSUME NEW i \in Named', ~(i \in Named /\ session'[i] = session[i])
      PROVE  TagName /\ i = op.id /\ session'[i] = op.name
  <2>1. i \in Ids /\ session'[i] \in Names
    BY DEF Named
  <2>2. ~Ended(i) /\ ~Made(i) /\ session'[i] # "tagged"
    BY <2>1, NamesAssumption DEF Ended, Made, Hidden, Over
  <2>3. session'[i] # session[i]
    BY <1>2, <2>1 DEF Named
  <2> QED
    BY <1>1, <2>1, <2>2, <2>3 DEF Set
<1> QED
  BY <1>2 DEF Named

(* How a Create moves. *)
Creating ==
    /\ op.kind = "create" /\ op.pc \in {"dispatch", "stop", "stopWait", "create", "tag", "name"}
    /\ op'.seen = op.seen /\ op'.name = op.name
    /\ \/ op'.pc \in {"dispatch", "stop", "stopWait", "create"}
       \/ op.pc = "create" /\ op'.pc \in {"tag", "cleanup"} /\ op'.id \in Ids /\ CreateSession(op'.id)
       \/ TagId /\ op.pc = "tag" /\ op'.id = op.id /\ op'.pc \in {"name", "cleanup"}
       \/ TagName /\ op.pc = "name" /\ op'.id = op.id /\ op'.pc = "cleanup"

CreateMove ==
    \/ op'.kind # "create" \/ op'.pc = "list"
    \/ UNCHANGED op
    \/ ListSessions /\ op'.seen = Listed /\ op'.pc \in {"dispatch", "stop"}
    \/ ListMisreports /\ op'.seen = {} /\ op'.pc \in {"dispatch", "stop"}
    \/ Creating

SeenMove == op'.seen = op.seen \/ op'.seen = {} \/ op'.seen = Listed

(* How a request comes to its paste buffers. *)
BufferSteps == ListBuffers \/ ShowBuffer \/ DropBuffer \/ BuffersDropped

BufferMove == op'.pc \in {"show", "drop", "kill"} => UNCHANGED op \/ BufferSteps

LEMMA RequestMoves ==
    ASSUME SessionsInv, [Next]_vars
    PROVE  CreateMove /\ SeenMove /\ BufferMove
<1> DEFINE Goal == CreateMove /\ SeenMove /\ BufferMove
<1>1. /\ RequestInv /\ op \in Request /\ StepOfKind /\ Arguments /\ StopsFor /\ VictimOut /\ ProcessesOk
      /\ TmuxType /\ managed \in [Ids -> Procs \cup {None}]
  BY DEF SessionsInv, RequestInv, TermsInv, TermsType
<1>2. ASSUME Return PROVE Goal
  BY <1>2, Returns DEF CreateMove, SeenMove, BufferMove
<1>3. ASSUME NEW kind \in Kinds, NEW i \in Ids \cup {None}, NEW n \in Names \cup {None}, Start(kind, i, n)
      PROVE  Goal
  BY <1>3, Begins DEF CreateMove, SeenMove, BufferMove
<1>4. ASSUME ListSessions PROVE Goal
  <2>1. op'.seen = Listed /\ op'.pc \in {"dispatch", "stop"}
    BY <1>1, <1>4, Lists
  <2> QED
    BY <1>4, <2>1 DEF CreateMove, SeenMove, BufferMove
<1>5. ASSUME ListFails \/ Answer \/ CreateRefused \/ CleanUp \/ KillSession \/ SocketReady \/ TtydExitedEarly PROVE Goal
  BY <1>2, <1>5 DEF ListFails, Answer, CreateRefused, CleanUp, KillSession, SocketReady, TtydExitedEarly
<1>6. ASSUME ListMisreports PROVE Goal
  <2>1. op.pc = "list" /\ StopAll(Managed, "dispatch") /\ Managed \in SUBSET Ids
    BY <1>6 DEF ListMisreports, Managed
  <2>2. PICK S \in SUBSET Ids, then \in Thens \ {"idle"} : S = Managed /\ then = "dispatch"
    BY <2>1 DEF Thens
  <2>3. op'.seen = op.seen /\ op'.pc \in {"dispatch", "stop"} /\ op.seen = {}
    BY <1>1, <2>1, <2>2, StopsAll DEF StepOfKind
  <2> QED
    BY <1>6, <2>3 DEF CreateMove, SeenMove, BufferMove
<1>7. ASSUME NEW i \in Ids, StopSignal(i) PROVE Goal
  <2>1. op.pc = "stop" /\ i \in op.stop /\ op.then \in Thens \ {"idle"} /\ op.stop \in SUBSET Ids
    BY <1>1, <1>7 DEF StopSignal, StopsFor, Thens, Request
  <2>2. CASE StopAll(op.stop \ {i}, op.then)
    <3>1. PICK S \in SUBSET Ids, then \in Thens \ {"idle"} : S = op.stop \ {i} /\ then = op.then
      BY <2>1
    <3>2. op'.seen = op.seen /\ SameRequest /\ op'.pc \in {op.then, "stop"}
      BY <1>1, <2>2, <3>1, StopsAll
    <3> QED
      BY <1>1, <2>1, <3>2 DEF SameRequest, CreateMove, SeenMove, BufferMove, Creating, StopsFor
  <2>3. CASE managed[i] # None /\ op' = [op EXCEPT !.pc = "stopWait", !.victim = managed[i]]
    <3>1. PICK q \in Procs : q = managed[i]
      BY <1>1, <2>3
    <3>2. op'.seen = op.seen /\ SameRequest /\ op'.pc = "stopWait"
      BY <1>1, <2>3, <3>1, Signals
    <3> QED
      BY <2>1, <3>2 DEF SameRequest, CreateMove, SeenMove, BufferMove, Creating
  <2> QED
    BY <1>7, <2>2, <2>3 DEF StopSignal
<1>8. ASSUME Stopped PROVE Goal
  <2>1. op.pc = "stopWait" /\ op.then # "idle" /\ ttyd[op.victim].id \in Ids
    BY <1>1, <1>8 DEF Stopped, VictimOut, ProcessesOk, ProcessOk, StopsFor
  <2>2. PICK i \in Ids : i = ttyd[op.victim].id
    BY <2>1
  <2>3. op' = [op EXCEPT !.stop = @ \ {i}, !.victim = None, !.pc = IF op.stop = {i} THEN op.then ELSE "stop"]
    BY <1>8, <2>2 DEF Stopped
  <2>4. SameRequest /\ op'.seen = op.seen /\ op'.pc \in {op.then, "stop"}
    BY <1>1, <2>1, <2>3, Stops
  <2> QED
    BY <1>1, <2>1, <2>4 DEF SameRequest, CreateMove, SeenMove, BufferMove, Creating, StopsFor
<1>9. ASSUME Dispatch PROVE Goal
  <2>1. op.pc = "dispatch" /\ op.kind \in Kinds
    BY <1>1, <1>9 DEF Dispatch, StepOfKind, Request
  <2>2. \/ Return
        \/ op.kind = "create" /\ Goto("create")
        \/ op.kind = "proxy" /\ Goto("answer")
        \/ op.kind = "delete" /\ op.id \in Ids /\ StopAll({op.id}, "buffers")
        \/ op.kind \in {"connect", "take", "discard"} /\ Goto("buffers")
    BY <1>1, <1>9, <2>1 DEF Dispatch, Kinds, Arguments
  <2>3. PICK S \in SUBSET Ids, then \in Thens \ {"idle"} :
          (op.id \in Ids => S = {op.id}) /\ then = "buffers"
    BY DEF Thens
  <2>4. CASE op.kind = "delete" /\ op.id \in Ids /\ StopAll({op.id}, "buffers")
    <3>1. op'.seen = op.seen /\ SameRequest /\ op'.pc \in {"buffers", "stop"}
      BY <1>1, <2>3, <2>4, StopsAll
    <3> QED
      BY <2>4, <3>1 DEF SameRequest, CreateMove, SeenMove, BufferMove
  <2>5. ASSUME NEW pc \in Pcs \ {"show", "drop", "kill"}, Goto(pc), op.kind = "create" => pc = "create"
        PROVE  Goal
    <3>1. op'.seen = op.seen /\ SameRequest /\ op'.pc = pc
      BY <1>1, <2>5, GoesTo
    <3> QED
      BY <2>1, <2>5, <3>1 DEF SameRequest, CreateMove, SeenMove, BufferMove, Creating
  <2>6. PICK a, b, c \in Pcs \ {"show", "drop", "kill"} : a = "create" /\ b = "answer" /\ c = "buffers"
    BY DEF Pcs
  <2> QED
    BY <1>2, <2>2, <2>4, <2>5, <2>6
<1>10. ASSUME NEW i \in Ids, CreateSession(i) PROVE Goal
  <2>1. PICK pc \in {"tag", "cleanup"} : op' = [op EXCEPT !.pc = pc, !.id = i]
    BY <1>10 DEF CreateSession
  <2>2. op.pc = "create" /\ op.kind = "create"
    BY <1>10 DEF CreateSession, At
  <2>3. SameRequest /\ op'.pc = pc /\ op'.seen = op.seen /\ op'.id = i
    BY <1>1, <2>1, <2>2, Creates
  <2> QED
    BY <1>10, <2>2, <2>3 DEF SameRequest, CreateMove, SeenMove, BufferMove, Creating
<1>11. ASSUME TagId PROVE Goal
  <2>1. op.pc = "tag" /\ op.kind = "create"
    BY <1>11 DEF TagId, SetOption, At
  <2>2. Return \/ \E pc \in {"name", "cleanup"} : Goto(pc)
    BY <1>11 DEF TagId, SetOption
  <2>3. ASSUME NEW pc \in {"name", "cleanup"}, Goto(pc) PROVE Goal
    <3>1. op'.seen = op.seen /\ SameRequest /\ op'.pc = pc /\ op'.id = op.id
      BY <1>1, <2>3, GoesTo DEF Pcs
    <3> QED
      BY <1>11, <2>1, <3>1 DEF SameRequest, CreateMove, SeenMove, BufferMove, Creating
  <2> QED
    BY <1>2, <2>2, <2>3
<1>12. ASSUME TagName PROVE Goal
  <2>1. op.pc = "name" /\ op.kind = "create"
    BY <1>12 DEF TagName, SetOption, At
  <2>2. Return \/ \E pc \in {"cleanup"} : Goto(pc)
    BY <1>12 DEF TagName, SetOption
  <2>3. ASSUME NEW pc \in {"cleanup"}, Goto(pc) PROVE Goal
    <3>1. op'.seen = op.seen /\ SameRequest /\ op'.pc = pc /\ op'.id = op.id
      BY <1>1, <2>3, GoesTo DEF Pcs
    <3> QED
      BY <1>12, <2>1, <3>1 DEF SameRequest, CreateMove, SeenMove, BufferMove, Creating
  <2> QED
    BY <1>2, <2>2, <2>3
<1>13. ASSUME SameRequest, op.kind # "create", op'.seen = op.seen \/ op'.seen = {},
              op'.pc \notin {"show", "drop", "kill"} \/ BufferSteps
       PROVE  Goal
  BY <1>13 DEF SameRequest, CreateMove, SeenMove, BufferMove
<1>14. ASSUME ListBuffers PROVE Goal
  <2>1. op.pc = "buffers" /\ op.kind \in {"take", "discard", "delete", "connect"}
    BY <1>1, <1>14 DEF ListBuffers, StepOfKind
  <2>2. CASE Return \/ op' = Idle
    BY <1>2, <2>2 DEF Return
  <2>3. CASE op' = [op EXCEPT !.pc = AfterBuffers[op.kind], !.seen = {},
                              !.doomed = Matching(op.id), !.listed = Matching(op.id)]
    <3>1. PICK pc \in {"show", "drop"} : pc = AfterBuffers[op.kind]
      BY <2>1 DEF AfterBuffers
    <3>2. SameRequest /\ op'.seen = {}
      BY <1>1, <2>3, <3>1, ListsBuffers DEF TmuxType
    <3> QED
      BY <1>13, <1>14, <2>1, <3>2 DEF BufferSteps
  <2> QED
    BY <1>14, <2>2, <2>3 DEF ListBuffers
<1>15. ASSUME ShowBuffer PROVE Goal
  <2>1. op.pc = "show" /\ op.kind = "take" /\ op.listed \subseteq Selection
    BY <1>1, <1>15 DEF ShowBuffer, StepOfKind, Request
  <2>2. ASSUME NEW b \in Newest(op.listed), NEW t \in {0, b.n}, op' = [op EXCEPT !.pc = "drop", !.text = t]
        PROVE  Goal
    <3>1. b.n \in 1..MaxSelections
      BY <2>1 DEF Newest, Selection
    <3>2. t \in 0..MaxSelections
      BY <3>1, BoundsAssumption
    <3>3. SameRequest /\ op'.seen = op.seen
      BY <1>1, <2>2, <3>2, Shows
    <3> QED
      BY <1>13, <1>15, <2>1, <3>3 DEF BufferSteps
  <2> QED
    BY <1>2, <1>15, <2>2 DEF ShowBuffer
<1>16. ASSUME DropBuffer PROVE Goal
  <2>1. op.pc = "drop" /\ op.kind # "create"
    BY <1>1, <1>16 DEF DropBuffer, StepOfKind
  <2>2. ASSUME NEW b, op' = [op EXCEPT !.doomed = @ \ {b}]
        PROVE  Goal
    <3>1. SameRequest /\ op'.seen = op.seen
      BY <1>1, <2>2, Drops
    <3> QED
      BY <1>13, <1>16, <2>1, <3>1 DEF BufferSteps
  <2> QED
    BY <1>2, <1>16, <2>2 DEF DropBuffer
<1>17. ASSUME BuffersDropped PROVE Goal
  <2>1. op.pc = "drop" /\ op.kind \in {"take", "discard", "delete", "connect"}
    BY <1>1, <1>17 DEF BuffersDropped, StepOfKind
  <2>2. ASSUME NEW pc \in {"kill", "configure"}, op' = [op EXCEPT !.pc = pc, !.listed = {}]
        PROVE  Goal
    <3>1. SameRequest /\ op'.seen = op.seen
      BY <1>1, <2>2, Cleared
    <3> QED
      BY <1>13, <1>17, <2>1, <3>1 DEF BufferSteps
  <2> QED
    BY <1>2, <1>17, <2>1, <2>2 DEF BuffersDropped
<1>18. ASSUME NEW pc \in Pcs \ {"show", "drop", "kill"}, Goto(pc), op.kind # "create" PROVE Goal
  <2>1. op'.seen = op.seen /\ SameRequest /\ op'.pc = pc
    BY <1>1, <1>18, GoesTo
  <2> QED
    BY <1>13, <1>18, <2>1
<1>19. ASSUME NEW S \in SUBSET Ids, NEW then \in Thens \ {"idle"}, StopAll(S, then), op.kind # "create" PROVE Goal
  <2>1. op'.seen = op.seen /\ SameRequest /\ op'.pc \in Thens \cup {"stop"}
    BY <1>1, <1>19, StopsAll
  <2> QED
    BY <1>13, <1>19, <2>1 DEF Thens
<1>20. PICK reuse, start, await \in Pcs \ {"show", "drop", "kill"} : reuse = "reuse" /\ start = "start" /\ await = "await"
  BY DEF Pcs
<1>21. ASSUME Configure PROVE Goal
  <2>1. op.kind = "connect" /\ (Return \/ Goto("reuse"))
    BY <1>1, <1>21 DEF Configure, StepOfKind
  <2> QED
    BY <1>2, <1>18, <1>20, <2>1
<1>22. ASSUME Reuse PROVE Goal
  <2>1. op.kind = "connect" /\ op.id \in Ids /\ (Return \/ Goto("start") \/ StopAll({op.id}, "start"))
    BY <1>1, <1>22 DEF Reuse, StepOfKind, Arguments
  <2>2. PICK S \in SUBSET Ids, then \in Thens \ {"idle"} : S = {op.id} /\ then = "start"
    BY <2>1 DEF Thens
  <2> QED
    BY <1>2, <1>18, <1>19, <1>20, <2>1, <2>2
<1>23. ASSUME NEW p \in Procs, StartTtyd(p) PROVE Goal
  <2>1. op.kind = "connect" /\ (Return \/ Goto("await"))
    BY <1>1, <1>23 DEF StartTtyd, StepOfKind
  <2> QED
    BY <1>2, <1>18, <1>20, <2>1
<1>24. ASSUME SocketTimeout PROVE Goal
  <2>1. op.kind = "connect" /\ op.id \in Ids /\ StopAll({op.id}, "answer")
    BY <1>1, <1>24 DEF SocketTimeout, StepOfKind, Arguments
  <2>2. PICK S \in SUBSET Ids, then \in Thens \ {"idle"} : S = {op.id} /\ then = "answer"
    BY <2>1 DEF Thens
  <2> QED
    BY <1>19, <2>1, <2>2
<1>25. ASSUME Restart PROVE Goal
  BY <1>2, <1>25 DEF Restart, Return
<1>26. ASSUME UNCHANGED op PROVE Goal
  BY <1>26 DEF CreateMove, SeenMove, BufferMove
<1>27. ASSUME RequestStep PROVE Goal
  BY <1>4, <1>5, <1>6, <1>7, <1>8, <1>9, <1>10, <1>11, <1>12, <1>14, <1>15, <1>16, <1>17, <1>21, <1>22, <1>23,
     <1>24, <1>27 DEF RequestStep
<1> QED
  BY <1>3, <1>25, <1>26, <1>27, RequestWriters

LEMMA SeenFinite ==
    ASSUME SessionsInv, [Next]_vars
    PROVE  IsFiniteSet(op'.seen)
<1>1. IsFiniteSet(op.seen) /\ IsFiniteSet(Listed) /\ IsFiniteSet({})
  BY ListedFinite, FS_EmptySet DEF SessionsInv, ListedInv, CreateKnows
<1> QED
  BY <1>1, RequestMoves DEF SeenMove

LEMMA NamedNext ==
    ASSUME SessionsInv, [Next]_vars
    PROVE  NamedFinite' /\ NamesUnique'
<1>1. /\ IsFiniteSet(Named) /\ Cardinality(Named) <= MaxSessions /\ NamesUnique /\ CreateKnows /\ StepOfKind
      /\ Cardinality(Named) \in Nat
  BY FS_CardinalityType DEF SessionsInv, ListedInv, NamedFinite, RequestInv
<1>2. CASE \A i \in Named' : i \in Named /\ session'[i] = session[i]
  <2>1. Named' \in SUBSET Named
    BY <1>2
  <2>2. IsFiniteSet(Named') /\ Cardinality(Named') <= Cardinality(Named) /\ Cardinality(Named') \in Nat
    BY <1>1, <2>1, FS_Subset, FS_CardinalityType
  <2>3. NamedFinite'
    BY <1>1, <2>2, BoundsAssumption DEF NamedFinite
  <2>4. NamesUnique'
    BY <1>1, <1>2 DEF NamesUnique
  <2> QED
    BY <2>3, <2>4
<1>3. CASE /\ TagName /\ op.id \in Ids
           /\ \A i \in Named' : (i \in Named /\ session'[i] = session[i]) \/ (i = op.id /\ session'[i] = op.name)
  <2>1. op.kind = "create" /\ op.pc = "name"
    BY <1>3 DEF TagName, SetOption, At
  <2>2. /\ IsFiniteSet(op.seen) /\ Cardinality(op.seen) < MaxSessions
        /\ \A i \in Named : [id |-> i, name |-> session[i]] \in op.seen
        /\ \A l \in op.seen : l.name # op.name
    BY <1>1, <2>1 DEF CreateKnows
  <2>3. Cardinality(Named) <= Cardinality(op.seen) /\ Cardinality(op.seen) \in Nat
    BY <2>2, NamedCounted, FS_CardinalityType
  <2>4. IsFiniteSet(Named \cup {op.id}) /\ Cardinality(Named \cup {op.id}) <= Cardinality(Named) + 1
    BY <1>1, FS_AddElement
  <2>5. Named' \in SUBSET (Named \cup {op.id})
    BY <1>3
  <2>6. IsFiniteSet(Named') /\ Cardinality(Named') <= Cardinality(Named \cup {op.id})
    BY <2>4, <2>5, FS_Subset
  <2>7. Cardinality(Named') \in Nat /\ Cardinality(Named \cup {op.id}) \in Nat
    BY <2>4, <2>6, FS_CardinalityType
  <2>8. NamedFinite'
    BY <1>1, <2>2, <2>3, <2>4, <2>6, <2>7, BoundsAssumption DEF NamedFinite
  <2>9. \A i \in Named : session[i] # op.name
    <3> SUFFICES ASSUME NEW i \in Named PROVE session[i] # op.name
      OBVIOUS
    <3>1. [id |-> i, name |-> session[i]].name # op.name
      BY <2>2
    <3> QED
      BY <3>1
  <2>10. NamesUnique'
    BY <1>1, <1>3, <2>9 DEF NamesUnique
  <2> QED
    BY <2>8, <2>10
<1> QED
  BY <1>2, <1>3, NamedGrows

LEMMA CreateKnowsNext ==
    ASSUME SessionsInv, [Next]_vars
    PROVE  CreateKnows'
<1>1. /\ TmuxType /\ session \in [Ids -> Names \cup Hidden \cup Over] /\ StepOfKind /\ CreateKnows /\ NamedFinite
      /\ IsFiniteSet(op.seen)
  BY DEF SessionsInv, RequestInv, TmuxType, ListedInv, CreateKnows
<1>2. IsFiniteSet(op'.seen)
  BY SeenFinite
<1> DEFINE Knows == \A i \in Named' : [id |-> i, name |-> session'[i]] \in op'.seen
           Room  == op'.pc \in {"tag", "name"} =>
                      Cardinality(op'.seen) < MaxSessions /\ \A l \in op'.seen : l.name # op'.name
<1>3. ASSUME op'.kind # "create" \/ op'.pc = "list" PROVE CreateKnows'
  <2>1. op'.pc \notin {"tag", "name"}
    BY <1>3, RequestNext DEF RequestInv, StepOfKind
  <2> QED
    BY <1>2, <1>3, <2>1 DEF CreateKnows
<1>4. ASSUME op'.pc = "cleanup" PROVE CreateKnows'
  BY <1>2, <1>4 DEF CreateKnows
<1>5. ASSUME UNCHANGED op, op'.kind = "create", op'.pc # "list", op'.pc # "cleanup" PROVE CreateKnows'
  <2>1. ~TagName
    <3>1. ASSUME TagName PROVE FALSE
      <4>1. op.kind = "create" /\ (Return \/ Goto("cleanup"))
        BY <3>1 DEF TagName, SetOption, At
      <4>2. PICK pc \in Pcs : pc = "cleanup"
        BY DEF Pcs
      <4>3. op'.kind = "none" \/ op'.pc = "cleanup"
        BY <4>1, <4>2, Returns, GoesTo DEF SessionsInv, RequestInv
      <4> QED
        BY <1>5, <4>3
    <3> QED
      BY <3>1
  <2>2. \A i \in Named' : i \in Named /\ session'[i] = session[i]
    BY <2>1, NamedGrows
  <2>3. Knows
    BY <1>1, <1>5, <2>2 DEF CreateKnows
  <2> QED
    BY <1>1, <1>5, <2>3 DEF CreateKnows
<1>6. ASSUME ListSessions, op'.seen = Listed, op'.pc \in {"dispatch", "stop"} PROVE CreateKnows'
  <2>1. session' = session
    BY <1>6 DEF ListSessions, tmux
  <2>2. Named' = Named
    BY <2>1 DEF Named
  <2>3. Knows
    BY <1>1, <1>6, <2>1, <2>2, ListedFinite
  <2> QED
    BY <1>2, <1>6, <2>3 DEF CreateKnows
<1>7. ASSUME ListMisreports, op'.seen = {}, op'.pc \in {"dispatch", "stop"} PROVE CreateKnows'
  <2>1. session' = [i \in Ids |-> IF i \in Live THEN "orphan" ELSE session[i]]
    BY <1>7 DEF ListMisreports
  <2>2. Named' = {}
    BY <1>1, <2>1, NamesAssumption DEF Named, Live, Over
  <2> QED
    BY <1>2, <1>7, <2>2 DEF CreateKnows
<1>8. ASSUME Creating, op'.pc # "cleanup" PROVE CreateKnows'
  <2>1. op.kind = "create" /\ op.pc \notin {"list", "cleanup"} /\ op'.seen = op.seen /\ op'.name = op.name
    BY <1>8 DEF Creating
  <2>2. ~TagName
    <3>1. ASSUME TagName PROVE FALSE
      <4>1. op.pc = "name" /\ (Return \/ Goto("cleanup"))
        BY <3>1 DEF TagName, SetOption, At
      <4>2. PICK pc \in Pcs : pc = "cleanup"
        BY DEF Pcs
      <4>3. op'.pc = "idle" \/ op'.pc = "cleanup"
        BY <4>1, <4>2, Returns, GoesTo DEF SessionsInv, RequestInv
      <4>4. op'.pc = "idle"
        BY <1>8, <4>3
      <4> QED
        BY <1>8, <4>1, <4>4 DEF Creating
    <3> QED
      BY <3>1
  <2>3. \A i \in Named' : i \in Named /\ session'[i] = session[i]
    BY <2>2, NamedGrows
  <2>4. Knows
    BY <1>1, <2>1, <2>3 DEF CreateKnows
  <2>5. Room
    <3>1. CASE op.pc = "tag"
      BY <1>1, <2>1, <3>1 DEF CreateKnows
    <3>2. CASE op.pc = "create" /\ CreateSession(op'.id)
      <4>1. ~(Cardinality(op.seen) >= MaxSessions) /\ \A l \in op.seen : l.name # op.name
        BY <3>2 DEF CreateSession, AtLimit
      <4>2. Cardinality(op.seen) \in Nat
        BY <1>1, FS_CardinalityType
      <4> QED
        BY <2>1, <4>1, <4>2, BoundsAssumption
    <3>3. CASE op'.pc \in {"dispatch", "stop", "stopWait", "create"}
      BY <3>3
    <3> QED
      BY <1>8, <3>1, <3>2, <3>3 DEF Creating
  <2> QED
    BY <1>2, <2>4, <2>5 DEF CreateKnows
<1> QED
  BY <1>3, <1>4, <1>5, <1>6, <1>7, <1>8, RequestMoves DEF CreateMove

(* A Create that has made a session ends it, or leaves it after a second failure. *)
LEMMA CreationMoves ==
    ASSUME SessionsInv, [Next]_vars, op.kind = "create", op.pc \in {"tag", "name", "cleanup"}
    PROVE  UNCHANGED op \/ TagId \/ TagName \/ CleanUp \/ Restart
<1>1. ASSUME NEW kind, NEW i, NEW n, Start(kind, i, n) PROVE FALSE
  BY <1>1 DEF Start, Idle
<1>2. ASSUME RequestStep PROVE TagId \/ TagName \/ CleanUp
  BY <1>2 DEF RequestStep, ListSessions, ListFails, ListMisreports, StopSignal, Stopped, Dispatch, Answer,
     CreateSession, CreateRefused, ListBuffers, ShowBuffer, DropBuffer, BuffersDropped,
     KillSession, Configure, Reuse, StartTtyd, SocketReady, SocketTimeout, TtydExitedEarly, At
<1> QED
  BY <1>1, <1>2, RequestWriters

LEMMA HiddenNext ==
    ASSUME SessionsInv, [Next]_vars
    PROVE  HiddenOwned'
<1>1. /\ session \in [Ids -> Names \cup Hidden \cup Over] /\ HiddenOwned /\ StepOfKind /\ Arguments /\ op \in Request
      /\ faults \in Nat /\ restarts \in Nat
  BY DEF SessionsInv, RequestInv, TmuxType, ListedInv, CountsType
<1>2. faults' \in Nat /\ restarts' \in Nat /\ faults <= faults' /\ restarts <= restarts'
  BY CountsNext DEF CountsType
<1>3. SUFFICES ASSUME NEW i \in Ids, session'[i] \in Hidden
               PROVE  InCreation(i)' \/ faults' >= 2 \/ restarts' >= 1
  BY DEF HiddenOwned
<1>4. ~Ended(i)
  BY <1>3, NamesAssumption DEF Hidden, Over, Ended
<1>5. PICK clean \in Pcs, named \in Pcs : clean = "cleanup" /\ named = "name"
  BY DEF Pcs
<1>6. CASE Made(i)
  <2>1. CreateSession(i)
    BY <1>6 DEF Made
  <2>2. PICK pc \in {"tag", "cleanup"} : /\ op' = [op EXCEPT !.pc = pc, !.id = i]
                                         /\ pc = "cleanup" => Fault
    BY <2>1 DEF CreateSession
  <2>3. op.kind = "create"
    BY <2>1 DEF CreateSession, At
  <2>4. op'.pc = pc /\ op'.id = i /\ op'.kind = "create"
    BY <1>1, <2>2, <2>3, Creates DEF SameRequest
  <2>5. pc = "cleanup" => faults' >= 1
    BY <1>1, <2>2 DEF Fault
  <2> QED
    BY <2>4, <2>5 DEF InCreation
<1>7. CASE TagId /\ op.id = i
  <2>1. /\ op.kind = "create" /\ op.pc = "tag"
        /\ \/ Goto("name")
           \/ op.id \notin Live /\ UNCHANGED session
           \/ Goto("cleanup") /\ Fault
    BY <1>7 DEF TagId, SetOption, At
  <2>2. ~(op.id \notin Live /\ UNCHANGED session)
    BY <1>3, <1>7, NamesAssumption DEF Live, Hidden, Over
  <2>3. CASE Goto("name")
    <3>1. op'.pc = "name" /\ op'.id = i /\ op'.kind = "create"
      BY <1>1, <1>5, <1>7, <2>1, <2>3, GoesTo DEF SameRequest
    <3> QED
      BY <3>1 DEF InCreation
  <2>4. CASE Goto("cleanup") /\ Fault
    <3>1. op'.pc = "cleanup" /\ op'.id = i /\ op'.kind = "create"
      BY <1>1, <1>5, <1>7, <2>1, <2>4, GoesTo DEF SameRequest
    <3>2. faults' >= 1
      BY <1>1, <2>4 DEF Fault
    <3> QED
      BY <3>1, <3>2 DEF InCreation
  <2> QED
    BY <2>1, <2>2, <2>3, <2>4
<1>8. CASE TagName /\ op.id = i
  <2>1. /\ op.kind = "create" /\ op.pc = "name" /\ op.name \in Names
        /\ \/ op.id \in Live /\ session' = [session EXCEPT ![op.id] = op.name]
           \/ op.id \notin Live /\ UNCHANGED session
           \/ Goto("cleanup") /\ Fault
    BY <1>1, <1>8 DEF TagName, SetOption, At, Arguments
  <2>2. ~(op.id \notin Live /\ UNCHANGED session)
    BY <1>3, <1>8, NamesAssumption DEF Live, Hidden, Over
  <2>3. ~(op.id \in Live /\ session' = [session EXCEPT ![op.id] = op.name])
    BY <1>1, <1>3, <1>8, <2>1, NamesAssumption DEF Hidden, Over
  <2>4. op'.pc = "cleanup" /\ op'.id = i /\ op'.kind = "create" /\ Fault
    BY <1>1, <1>5, <1>8, <2>1, <2>2, <2>3, GoesTo DEF SameRequest
  <2>5. faults' >= 1
    BY <1>1, <2>4 DEF Fault
  <2> QED
    BY <2>4, <2>5 DEF InCreation
<1>9. CASE session'[i] = session[i] /\ ~(TagId /\ op.id = i) /\ ~(TagName /\ op.id = i)
  <2>1. InCreation(i) \/ faults >= 2 \/ restarts >= 1
    BY <1>1, <1>3, <1>9 DEF HiddenOwned
  <2>2. CASE faults >= 2 \/ restarts >= 1
    BY <1>1, <1>2, <2>2
  <2>3. CASE InCreation(i)
    <3>1. UNCHANGED op \/ CleanUp \/ Restart
      BY <1>9, <2>3, CreationMoves DEF InCreation
    <3>2. CASE UNCHANGED op
      BY <1>1, <1>2, <2>3, <3>2 DEF InCreation
    <3>3. CASE CleanUp
      <4>1. i \in Live /\ op.id = i /\ faults >= 1
        BY <1>3, <1>9, <2>3, <3>3, NamesAssumption DEF InCreation, CleanUp, At, Live, Hidden, Over
      <4>2. End(i) \/ Fault
        BY <3>3, <4>1 DEF CleanUp
      <4>3. ~End(i)
        BY <1>1, <1>3 DEF End, Hidden
      <4> QED
        BY <1>1, <4>1, <4>2, <4>3 DEF Fault
    <3>4. CASE Restart
      <4>1. restarts' = restarts + 1
        BY <3>4 DEF Restart
      <4> QED
        BY <1>1, <4>1
    <3> QED
      BY <3>1, <3>2, <3>3, <3>4
  <2> QED
    BY <2>1, <2>2, <2>3
<1>10. session'[i] = session[i] \/ Made(i) \/ Set(i)
  BY <1>4, SessionChanges
<1> QED
  BY <1>6, <1>7, <1>8, <1>9, <1>10 DEF Set

LEMMA ListedNext ==
    ASSUME SessionsInv, [Next]_vars
    PROVE  ListedInv'
BY NamedNext, CreateKnowsNext, HiddenNext DEF ListedInv

-----------------------------------------------------------------------------
(* Selections.                                                              *)

LEMMA BuffersChange ==
    ASSUME SessionsInv, [Next]_vars
    PROVE  buffers' \subseteq buffers \/ \E i \in Ids : Select(i)
<1> DEFINE Goal == buffers' \subseteq buffers
<1>1. ASSUME NEW i, End(i) PROVE Goal
  BY <1>1 DEF End
<1>2. ASSUME UNCHANGED buffers PROVE Goal
  BY <1>2
<1>3. ASSUME ListMisreports \/ Restart PROVE Goal
  BY <1>3 DEF ListMisreports, Restart
<1>4. ASSUME NEW i \in Ids, CreateSession(i) PROVE Goal
  BY <1>4 DEF CreateSession
<1>5. ASSUME TagId \/ TagName PROVE Goal
  BY <1>5 DEF TagId, TagName, SetOption
<1>6. ASSUME CleanUp \/ KillSession PROVE Goal
  BY <1>1, <1>2, <1>6 DEF CleanUp, KillSession, tmux
<1>7. ASSUME DropBuffer PROVE Goal
  BY <1>7 DEF DropBuffer
<1>8. ASSUME NEW i \in Ids, SessionEnds(i) PROVE Goal
  BY <1>1, <1>8 DEF SessionEnds
<1>9. ASSUME UNCHANGED tmux PROVE Goal
  BY <1>9 DEF tmux
<1> QED
  BY <1>3, <1>4, <1>5, <1>6, <1>7, <1>8, <1>9, TmuxWriters

(* A selection that a user makes is newer than everything recorded. *)
LEMMA SelectAdds ==
    ASSUME NEW i \in Ids, Select(i)
    PROVE  /\ buffers' = buffers \cup {[id |-> i, n |-> made + 1]} /\ made' = made + 1
           /\ session[i] \in Names /\ UNCHANGED <<op, session, taken, barred, deleted>>
           /\ \E p \in Procs : p \in Running /\ ttyd[p].id = i
<1>1. buffers' = buffers \cup {[id |-> i, n |-> made + 1]} /\ made' = made + 1
  BY DEF Select
<1>2. session[i] \in Names
  BY DEF Select, Named
<1>3. UNCHANGED <<op, session, taken, barred, deleted>>
  BY DEF Select, history
<1>4. \E p \in Procs : p \in Running /\ ttyd[p].id = i
  BY DEF Select, Running
<1> QED
  BY <1>1, <1>2, <1>3, <1>4

(* Nobody selects in the session that Delete has disconnected. *)
LEMMA SelectElsewhere ==
    ASSUME SessionsInv, op.kind = "delete", op.pc \in {"drop", "kill"}, NEW i \in Ids, Select(i)
    PROVE  i # op.id
<1>1. /\ managed[op.id] = None /\ op.victim = None /\ leaving = {} /\ TtydTracked
  BY DEF SessionsInv, TermsInv, NoneManaged, VictimOut, ShutdownOwns
<1>2. PICK p \in Procs : p \in Running /\ ttyd[p].id = i
  BY SelectAdds
<1>3. managed[i] = p
  BY <1>1, <1>2, NoneAssumption DEF TtydTracked
<1> QED
  BY <1>1, <1>3, NoneAssumption

(* What a step records as consumed was listed, and is gone from the server. *)
LEMMA ConsumedGrows ==
    ASSUME SessionsInv, [Next]_vars
    PROVE  \/ UNCHANGED <<taken, barred>>
           \/ /\ BuffersDropped
              /\ \/ barred' = barred /\ op.kind = "take" /\ op.text # 0 /\ taken' = Append(taken, op.text)
                 \/ taken' = taken /\ barred' = barred \cup {b.n : b \in op.listed}
<1>1. ASSUME KillSession PROVE UNCHANGED <<taken, barred>>
  BY <1>1 DEF KillSession
<1>2. ASSUME BuffersDropped
      PROVE  \/ UNCHANGED <<taken, barred>>
             \/ barred' = barred /\ op.kind = "take" /\ op.text # 0 /\ taken' = Append(taken, op.text)
             \/ taken' = taken /\ barred' = barred \cup {b.n : b \in op.listed}
  BY <1>2 DEF BuffersDropped
<1>3. ASSUME UNCHANGED history PROVE UNCHANGED <<taken, barred>>
  BY <1>3 DEF history
<1> QED
  BY <1>1, <1>2, <1>3, HistoryWriters

LEMMA AppendRange ==
    ASSUME NEW T, NEW s \in Seq(T), NEW x \in T
    PROVE  /\ ToSet(Append(s, x)) = ToSet(s) \cup {x}
           /\ (\A j, k \in DOMAIN s : s[j] = s[k] => j = k) /\ x \notin ToSet(s) =>
                \A j, k \in DOMAIN Append(s, x) : Append(s, x)[j] = Append(s, x)[k] => j = k
<1> DEFINE r == Append(s, x)
<1>1. /\ Len(s) \in Nat /\ DOMAIN s = 1..Len(s) /\ DOMAIN r = 1..(Len(s) + 1)
      /\ r[Len(s) + 1] = x /\ \A i \in 1..Len(s) : r[i] = s[i]
  OBVIOUS
<1> HIDE DEF r
<1>2. DOMAIN r = DOMAIN s \cup {Len(s) + 1} /\ Len(s) + 1 \notin DOMAIN s
  BY <1>1
<1>3. \A i \in DOMAIN s : r[i] = s[i]
  BY <1>1
<1>4. ToSet(r) = ToSet(s) \cup {x}
  BY <1>1, <1>2, <1>3 DEF ToSet
<1>5. ASSUME \A j, k \in DOMAIN s : s[j] = s[k] => j = k, x \notin ToSet(s)
      PROVE  \A j, k \in DOMAIN r : r[j] = r[k] => j = k
  <2>1. \A i \in DOMAIN s : r[i] # x
    BY <1>3, <1>5 DEF ToSet
  <2> QED
    BY <1>1, <1>2, <1>3, <1>5, <2>1
<1> QED
  BY <1>4, <1>5 DEF r

(* What BuffersDropped adds to the history. *)
Spent == {b.n : b \in op.listed}

LEMMA SpentFresh ==
    ASSUME SessionsInv, [Next]_vars
    PROVE  /\ Consumed' \subseteq Consumed \cup Spent
           /\ UNCHANGED <<taken, barred>> \/ (BuffersDropped /\ op.pc = "drop" /\ op.doomed = {})
           /\ TakenOnce'
<1>1. /\ TakenOnce /\ ListedFresh /\ TextListed /\ taken \in Seq(1..MaxSelections) /\ op \in Request
  BY DEF SessionsInv, SelectInv, HistoryType, RequestInv
<1>2. BuffersDropped => op.pc = "drop" /\ op.doomed = {}
  BY DEF BuffersDropped
<1>3. CASE UNCHANGED <<taken, barred>>
  BY <1>1, <1>3 DEF Consumed, TakenOnce
<1>4. CASE BuffersDropped /\ barred' = barred /\ op.kind = "take" /\ op.text # 0 /\ taken' = Append(taken, op.text)
  <2>1. PICK b \in op.listed : b.n = op.text
    BY <1>1, <1>2, <1>4 DEF TextListed
  <2>2. op.text \in Spent /\ op.text \notin Consumed
    BY <1>1, <1>2, <1>4, <2>1 DEF Spent, ListedFresh
  <2>3. op.text \in 1..MaxSelections
    BY <1>1, <1>4 DEF Request
  <2>4. ToSet(taken') = ToSet(taken) \cup {op.text}
    <3>1. PICK T, s, x : T = 1..MaxSelections /\ s = taken /\ x = op.text
      OBVIOUS
    <3>2. ToSet(Append(s, x)) = ToSet(s) \cup {x}
      <4>1. s \in Seq(T) /\ x \in T
        BY <1>1, <2>3, <3>1
      <4> QED
        BY <4>1, AppendRange
    <3>3. taken' = Append(s, x)
      BY <1>4, <3>1
    <3>4. ToSet(taken') = ToSet(Append(s, x))
      BY <3>3 DEF ToSet
    <3> QED
      BY <3>1, <3>2, <3>4
  <2>5. \A j, k \in DOMAIN taken' : taken'[j] = taken'[k] => j = k
    BY <1>1, <1>4, <2>2, <2>3, AppendRange DEF TakenOnce, Consumed
  <2>6. TakenOnce'
    BY <1>1, <1>4, <2>2, <2>4, <2>5 DEF TakenOnce, Consumed
  <2>7. Consumed' \subseteq Consumed \cup Spent
    BY <1>4, <2>2, <2>4 DEF Consumed
  <2> QED
    BY <1>2, <1>4, <2>6, <2>7
<1>5. CASE BuffersDropped /\ taken' = taken /\ barred' = barred \cup {b.n : b \in op.listed}
  <2>1. Consumed' \subseteq Consumed \cup Spent
    BY <1>5 DEF Consumed, Spent
  <2>2. Spent \cap ToSet(taken) = {}
    BY <1>1, <1>2, <1>5 DEF Spent, ListedFresh, Consumed
  <2>3. TakenOnce'
    BY <1>1, <1>5, <2>2 DEF TakenOnce, Spent
  <2> QED
    BY <1>2, <1>5, <2>1, <2>3
<1> QED
  BY <1>3, <1>4, <1>5, ConsumedGrows

LEMMA FreshNext ==
    ASSUME SessionsInv, [Next]_vars
    PROVE  BuffersFresh'
<1>1. /\ BuffersFresh /\ ListedFresh /\ DeleteClears /\ made \in Nat /\ made' \in Nat /\ made <= made'
      /\ op \in Request /\ StepOfKind /\ Arguments /\ deleted \subseteq Ids /\ buffers \subseteq Selection
      /\ TmuxType /\ session \in [Ids -> Names \cup Hidden \cup Over] /\ Consumed \subseteq Nat
  <2>1. Consumed \subseteq Nat
    <3>1. taken \in Seq(1..MaxSelections) /\ barred \subseteq 1..MaxSelections
      BY DEF SessionsInv, HistoryType
    <3>2. DOMAIN taken = 1..Len(taken) /\ \A j \in 1..Len(taken) : taken[j] \in 1..MaxSelections
      BY <3>1, ElementOfSeq, LenProperties
    <3>3. ToSet(taken) \subseteq 1..MaxSelections
      BY <3>2 DEF ToSet
    <3>4. 1..MaxSelections \subseteq Nat
      BY BoundsAssumption
    <3> QED
      BY <3>1, <3>3, <3>4 DEF Consumed
  <2> QED
    BY <2>1, CountsNext DEF SessionsInv, SelectInv, CountsType, RequestInv, HistoryType, TmuxType
<1>2. \A n \in Consumed' : n \in Nat /\ n <= made
  <2>1. \A n \in Consumed : n \in Nat /\ n <= made
    BY <1>1 DEF BuffersFresh
  <2>2. CASE UNCHANGED <<taken, barred>>
    BY <2>1, <2>2 DEF Consumed
  <2>3. CASE op.pc = "drop"
    <3>1. \A n \in Spent : n \in Nat /\ n <= made
      BY <1>1, <2>3 DEF Spent, ListedFresh, Request, Selection
    <3> QED
      BY <2>1, <3>1, SpentFresh
  <2> QED
    BY <2>2, <2>3, SpentFresh
<1>3. \A n \in Consumed' : n <= made'
  BY <1>1, <1>2
<1>4. \A b \in buffers : b.n \notin Consumed'
  <2>1. CASE UNCHANGED <<taken, barred>>
    BY <1>1, <2>1 DEF BuffersFresh, Consumed
  <2>2. CASE op.pc = "drop" /\ op.doomed = {}
    <3>1. \A b \in buffers : b.n \notin Spent
      BY <1>1, <2>2 DEF Spent, ListedFresh
    <3> QED
      BY <1>1, <3>1, SpentFresh DEF BuffersFresh
  <2> QED
    BY <2>1, <2>2, SpentFresh
<1>5. \A i \in deleted : session'[i] \in {"ended", "orphan"}
  <2> SUFFICES ASSUME NEW i \in deleted PROVE session'[i] \in {"ended", "orphan"}
    OBVIOUS
  <2>1. i \in Ids /\ session[i] \in {"ended", "orphan"}
    BY <1>1 DEF BuffersFresh
  <2>2. ~Made(i) /\ ~Set(i)
    BY <2>1 DEF Made, Set, Live, Over
  <2> QED
    BY <2>1, <2>2, SessionChanges DEF Ended
<1>6. \/ UNCHANGED deleted
      \/ /\ op.pc = "kill" /\ op.id \in Ids /\ deleted' = deleted \cup {op.id} /\ session'[op.id] = "ended"
  <2>1. CASE BuffersDropped \/ UNCHANGED history
    BY <2>1 DEF BuffersDropped, history
  <2>2. CASE KillSession
    <3>1. op.pc = "kill" /\ op.id \in Ids
      BY <1>1, <2>2 DEF KillSession, At, StepOfKind, Arguments
    <3>2. UNCHANGED deleted \/ (End(op.id) /\ deleted' = deleted \cup {op.id})
      BY <2>2 DEF KillSession
    <3> QED
      BY <1>1, <3>1, <3>2 DEF End
  <2> QED
    BY <2>1, <2>2, HistoryWriters
<1>7. \A i \in deleted' : session'[i] \in {"ended", "orphan"}
  BY <1>5, <1>6
<1>8. \A b \in buffers : b.id \notin deleted'
  BY <1>1, <1>6 DEF BuffersFresh, DeleteClears
<1>9. CASE buffers' \subseteq buffers
  <2>1. \A b \in buffers' : b.n <= made' /\ b.n \notin Consumed' /\ b.id \notin deleted'
    BY <1>1, <1>4, <1>8, <1>9 DEF BuffersFresh, Selection
  <2>2. \A b, c \in buffers' : b.n = c.n => b = c
    BY <1>1, <1>9 DEF BuffersFresh
  <2> QED
    BY <1>3, <1>7, <2>1, <2>2 DEF BuffersFresh
<1>10. ASSUME NEW i \in Ids, Select(i) PROVE BuffersFresh'
  <2>1. PICK s : s = [id |-> i, n |-> made + 1]
    OBVIOUS
  <2>2. s.id = i /\ s.n = made + 1
    BY <2>1
  <2>3. buffers' = buffers \cup {s} /\ made' = made + 1 /\ session[i] \in Names
        /\ UNCHANGED <<session, taken, barred, deleted>>
    BY <1>10, <2>1, SelectAdds
  <2>4. i \notin deleted'
    BY <1>7, <2>3, NamesAssumption DEF Over
  <2>5. s.n \notin Consumed'
    BY <1>1, <1>2, <2>2
  <2>6. \A b \in buffers : b.n \in Nat /\ b.n <= made
    BY <1>1 DEF BuffersFresh, Selection
  <2>7. \A b \in buffers' : b.n <= made' /\ b.n \notin Consumed' /\ b.id \notin deleted'
    BY <1>1, <1>4, <1>8, <2>2, <2>3, <2>4, <2>5, <2>6
  <2>8. \A b, c \in buffers' : b.n = c.n => b = c
    BY <1>1, <2>2, <2>3, <2>6 DEF BuffersFresh
  <2> QED
    BY <1>3, <1>7, <2>7, <2>8 DEF BuffersFresh
<1> QED
  BY <1>9, <1>10, BuffersChange

(* The steps that read or delete paste buffers. *)
LEMMA ListsBuffersStep ==
    ASSUME SessionsInv, ListBuffers, op'.pc # "idle"
    PROVE  /\ SameRequest /\ op'.id = op.id /\ op'.pc \in {"show", "drop"}
           /\ op.kind = "take" => op'.pc = "show"
           /\ op'.doomed = Matching(op.id) /\ op'.listed = Matching(op.id)
           /\ UNCHANGED <<buffers, made, taken, barred>>
<1>1. op \in Request /\ StepOfKind /\ TmuxType
  BY DEF SessionsInv, RequestInv
<1>2. op.kind \in {"take", "discard", "delete", "connect"}
  BY <1>1 DEF ListBuffers, StepOfKind
<1>3. ~Return /\ op' # Idle
  BY DEF Return, Idle
<1>4. op' = [op EXCEPT !.pc = AfterBuffers[op.kind], !.seen = {},
                       !.doomed = Matching(op.id), !.listed = Matching(op.id)]
  BY <1>3 DEF ListBuffers
<1>5. PICK pc \in {"show", "drop"} : pc = AfterBuffers[op.kind] /\ (op.kind = "take" => pc = "show")
  BY <1>2 DEF AfterBuffers
<1>6. /\ SameRequest /\ op'.id = op.id /\ op'.pc = pc
      /\ op'.doomed = Matching(op.id) /\ op'.listed = Matching(op.id)
  BY <1>1, <1>4, <1>5, ListsBuffers DEF TmuxType
<1>7. UNCHANGED <<buffers, made, taken, barred>>
  BY DEF ListBuffers, tmux, history
<1> QED
  BY <1>5, <1>6, <1>7

LEMMA ShowsStep ==
    ASSUME SessionsInv, ShowBuffer, op'.pc # "idle"
    PROVE  /\ op.pc = "show" /\ op.kind = "take" /\ SameRequest /\ op'.id = op.id /\ op'.pc = "drop"
           /\ op'.doomed = op.doomed /\ op'.listed = op.listed
           /\ op'.text # 0 => \E b \in op.listed : b.n = op'.text
           /\ UNCHANGED <<buffers, made, taken, barred>>
<1>1. op \in Request /\ StepOfKind
  BY DEF SessionsInv, RequestInv
<1>2. op.pc = "show" /\ op.kind = "take" /\ op.listed \subseteq Selection
  BY <1>1 DEF ShowBuffer, StepOfKind, Request
<1>3. ~Return
  BY DEF Return, Idle
<1>4. PICK b \in Newest(op.listed) : \E t \in {0, b.n} : op' = [op EXCEPT !.pc = "drop", !.text = t]
  BY <1>3 DEF ShowBuffer
<1>5. PICK t \in {0, b.n} : op' = [op EXCEPT !.pc = "drop", !.text = t]
  BY <1>4
<1>6. b \in op.listed /\ b.n \in 1..MaxSelections
  BY <1>2 DEF Newest, Selection
<1>7. t \in 0..MaxSelections
  BY <1>6, BoundsAssumption
<1>8. /\ SameRequest /\ op'.id = op.id /\ op'.pc = "drop"
      /\ op'.doomed = op.doomed /\ op'.listed = op.listed /\ op'.text = t
  BY <1>1, <1>5, <1>7, Shows
<1>9. UNCHANGED <<buffers, made, taken, barred>>
  BY DEF ShowBuffer, tmux, history
<1> QED
  BY <1>2, <1>6, <1>8, <1>9

LEMMA DropsStep ==
    ASSUME SessionsInv, DropBuffer, op'.pc # "idle"
    PROVE  /\ op.pc = "drop" /\ SameRequest /\ op'.id = op.id /\ op'.pc = "drop"
           /\ \E oldest : buffers' = buffers \ {oldest} /\ op'.doomed = op.doomed \ {oldest}
           /\ op'.listed = op.listed /\ op'.text = op.text
           /\ UNCHANGED <<made, taken, barred>>
<1>1. op \in Request
  BY DEF SessionsInv, RequestInv
<1>2. ~Return
  BY DEF Return, Idle
<1>3. PICK oldest : buffers' = buffers \ {oldest} /\ op' = [op EXCEPT !.doomed = @ \ {oldest}]
  BY <1>2 DEF DropBuffer
<1>4. /\ SameRequest /\ op'.id = op.id /\ op'.pc = op.pc /\ op'.doomed = op.doomed \ {oldest}
      /\ op'.listed = op.listed /\ op'.text = op.text
  BY <1>1, <1>3, Drops
<1>5. op.pc = "drop" /\ UNCHANGED <<made, taken, barred>>
  BY DEF DropBuffer, history
<1> QED
  BY <1>3, <1>4, <1>5

LEMMA DroppedStep ==
    ASSUME SessionsInv, BuffersDropped
    PROVE  /\ op'.pc \notin {"show", "drop"}
           /\ op'.pc = "kill" => op.kind = "delete" /\ op'.id = op.id /\ op'.kind = "delete"
           /\ op.pc = "drop" /\ op.doomed = {} /\ UNCHANGED buffers
<1>1. op \in Request /\ StepOfKind
  BY DEF SessionsInv, RequestInv
<1>2. op.pc = "drop" /\ op.doomed = {} /\ UNCHANGED buffers /\ op.kind \in {"take", "discard", "delete", "connect"}
  BY <1>1 DEF BuffersDropped, StepOfKind, tmux
<1>3. CASE Return
  BY <1>2, <1>3, Returns
<1>4. ASSUME NEW pc \in {"kill", "configure"}, op' = [op EXCEPT !.pc = pc, !.listed = {}],
             pc = "kill" => op.kind = "delete"
      PROVE  /\ op'.pc \notin {"show", "drop"}
             /\ op'.pc = "kill" => op.kind = "delete" /\ op'.id = op.id /\ op'.kind = "delete"
  <2>1. SameRequest /\ op'.id = op.id /\ op'.pc = pc
    BY <1>1, <1>4, Cleared
  <2> QED
    BY <1>4, <2>1 DEF SameRequest
<1>5. \/ Return
      \/ \E pc \in {"kill", "configure"} : op' = [op EXCEPT !.pc = pc, !.listed = {}] /\ (pc = "kill" => op.kind = "delete")
  BY <1>2 DEF BuffersDropped
<1> QED
  BY <1>2, <1>3, <1>4, <1>5

LEMMA PendingNext ==
    ASSUME SessionsInv, [Next]_vars
    PROVE  ListedFresh' /\ TextListed' /\ DeleteClears'
<1> DEFINE Goal == ListedFresh' /\ TextListed' /\ DeleteClears'
<1>1. /\ BuffersFresh /\ ListedFresh /\ TextListed /\ DeleteClears /\ op \in Request /\ StepOfKind
      /\ buffers \subseteq Selection /\ made \in Nat /\ made' \in Nat /\ made <= made'
  BY CountsNext DEF SessionsInv, SelectInv, RequestInv, TmuxType, CountsType
<1>2. ASSUME op'.pc \notin {"show", "drop", "kill"} PROVE Goal
  BY <1>2 DEF ListedFresh, TextListed, DeleteClears
<1>3. ASSUME UNCHANGED op, op.pc \in {"show", "drop", "kill"} PROVE Goal
  <2>1. UNCHANGED <<taken, barred>>
    <3>1. ASSUME BuffersDropped PROVE FALSE
      BY <1>3, <3>1, DroppedStep
    <3> QED
      BY <3>1, SpentFresh
  <2>2. \A b \in op.listed : op.pc \in {"show", "drop"} => b.n \in Nat /\ b.n <= made
    BY <1>1 DEF ListedFresh, Request, Selection
  <2>3. TextListed'
    BY <1>1, <1>3 DEF TextListed
  <2>4. CASE buffers' \subseteq buffers
    <3>1. ListedFresh'
      BY <1>1, <1>3, <2>1, <2>2, <2>4 DEF ListedFresh, Consumed
    <3>2. DeleteClears'
      BY <1>1, <1>3, <2>4 DEF DeleteClears
    <3> QED
      BY <2>3, <3>1, <3>2
  <2>5. ASSUME NEW i \in Ids, Select(i) PROVE Goal
    <3>1. PICK s : s = [id |-> i, n |-> made + 1]
      OBVIOUS
    <3>2. s.id = i /\ s.n = made + 1
      BY <3>1
    <3>3. buffers' = buffers \cup {s}
      BY <2>5, <3>1, SelectAdds
    <3>4. ListedFresh'
      BY <1>1, <1>3, <2>1, <2>2, <3>2, <3>3 DEF ListedFresh, Consumed
    <3>5. op.kind = "delete" \/ op.pc = "kill" => i # op.id
      BY <1>1, <1>3, <2>5, SelectElsewhere DEF StepOfKind, SessionsInv, RequestInv, DeleteClears
    <3>6. DeleteClears'
      BY <1>1, <1>3, <3>2, <3>3, <3>5 DEF DeleteClears
    <3> QED
      BY <2>3, <3>4, <3>6
  <2> QED
    BY <2>4, <2>5, BuffersChange
<1>4. ASSUME ListBuffers, op'.pc # "idle" PROVE Goal
  <2>1. /\ SameRequest /\ op'.id = op.id /\ op'.pc \in {"show", "drop"} /\ (op.kind = "take" => op'.pc = "show")
        /\ op'.doomed = Matching(op.id) /\ op'.listed = Matching(op.id)
        /\ UNCHANGED <<buffers, made, taken, barred>>
    BY <1>4, ListsBuffersStep
  <2>2. ListedFresh'
    BY <1>1, <2>1 DEF ListedFresh, BuffersFresh, Consumed, Matching
  <2>3. TextListed' /\ DeleteClears'
    BY <2>1 DEF TextListed, DeleteClears, SameRequest, Matching
  <2> QED
    BY <2>2, <2>3
<1>5. ASSUME ShowBuffer, op'.pc # "idle" PROVE Goal
  <2>1. /\ op.pc = "show" /\ op.kind = "take" /\ SameRequest /\ op'.id = op.id /\ op'.pc = "drop"
        /\ op'.doomed = op.doomed /\ op'.listed = op.listed
        /\ op'.text # 0 => \E b \in op.listed : b.n = op'.text
        /\ UNCHANGED <<buffers, made, taken, barred>>
    BY <1>5, ShowsStep
  <2>2. ListedFresh'
    BY <1>1, <2>1 DEF ListedFresh, Consumed
  <2>3. TextListed'
    BY <2>1 DEF TextListed
  <2>4. DeleteClears'
    BY <2>1 DEF DeleteClears, SameRequest
  <2> QED
    BY <2>2, <2>3, <2>4
<1>6. ASSUME DropBuffer, op'.pc # "idle" PROVE Goal
  <2>1. /\ op.pc = "drop" /\ SameRequest /\ op'.id = op.id /\ op'.pc = "drop"
        /\ op'.listed = op.listed /\ op'.text = op.text
        /\ UNCHANGED <<made, taken, barred>>
    BY <1>6, DropsStep
  <2>2. PICK oldest : buffers' = buffers \ {oldest} /\ op'.doomed = op.doomed \ {oldest}
    BY <1>6, DropsStep
  <2>3. ListedFresh'
    BY <1>1, <2>1, <2>2 DEF ListedFresh, Consumed
  <2>4. TextListed'
    BY <1>1, <2>1 DEF TextListed, SameRequest
  <2>5. DeleteClears'
    BY <1>1, <2>1, <2>2 DEF DeleteClears, SameRequest
  <2> QED
    BY <2>3, <2>4, <2>5
<1>7. ASSUME BuffersDropped PROVE Goal
  <2>1. /\ op'.pc \notin {"show", "drop"}
        /\ op'.pc = "kill" => op.kind = "delete" /\ op'.id = op.id
        /\ op.pc = "drop" /\ op.doomed = {} /\ UNCHANGED buffers
    BY <1>7, DroppedStep
  <2>2. DeleteClears'
    BY <1>1, <2>1 DEF DeleteClears
  <2> QED
    BY <2>1, <2>2 DEF ListedFresh, TextListed
<1> QED
  BY <1>2, <1>3, <1>4, <1>5, <1>6, <1>7, RequestMoves DEF BufferMove, BufferSteps

LEMMA SelectNext ==
    ASSUME SessionsInv, [Next]_vars
    PROVE  SelectInv'
BY FreshNext, PendingNext, SpentFresh DEF SelectInv

-----------------------------------------------------------------------------
(* The theorems.                                                            *)

LEMMA SessionsInitially ==
    ASSUME Init
    PROVE  SessionsInv
<1>1. \A i \in Ids : session[i] = "unused" /\ managed[i] = None /\ file[i] = None
  BY DEF Init
<1>2. \A p \in Procs : ttyd[p] = Unstarted
  BY DEF Init
<1>3. /\ Unstarted \in Process /\ Unstarted.state = "unused" /\ Unstarted.watcher = "none"
  BY DEF Unstarted, NewProcess, Process
<1>4. /\ op = Idle /\ op \in Request /\ op.pc = "idle" /\ op.kind = "none" /\ op.victim = None
      /\ op.seen = {} /\ op.id = None /\ op.stop = {}
  BY BoundsAssumption DEF Init, Request, Idle
<1>5. /\ buffers = {} /\ shuttingDown = FALSE /\ leaving = {} /\ made = 0 /\ faults = 0 /\ restarts = 0
      /\ taken = <<>> /\ barred = {} /\ deleted = {}
  BY DEF Init
<1>6. TmuxType
  BY <1>5 DEF Init, TmuxType, Over
<1>7. CountsType
  <2>1. 0 \in 0..MaxSelections /\ 0 \in 0..MaxFaults /\ 0 \in 0..MaxRestarts
    BY BoundsAssumption
  <2>2. shuttingDown \in BOOLEAN
    BY <1>5
  <2> QED
    BY <1>5, <2>1, <2>2 DEF CountsType
<1>8. HistoryType
  BY <1>5 DEF HistoryType
<1>9. RequestInv
  BY <1>4 DEF RequestInv, StepOfKind, Arguments, StopsFor
<1>10. Named = {}
  BY <1>1, NamesAssumption DEF Named, Over
<1>11. Running = {}
  BY <1>2, <1>3 DEF Running
<1>12. TermsType
  BY <1>2, <1>3, <1>5 DEF Init, TermsType
<1>13. ProcessesOk
  BY <1>1, <1>2, <1>3 DEF ProcessesOk, ProcessOk, MapOk
<1>14. VictimOut /\ NoneManaged /\ ShutdownOwns
  BY <1>4, <1>5 DEF VictimOut, NoneManaged, ShutdownOwns
<1>15. TtydTracked /\ SocketOfManaged
  BY <1>1, <1>11 DEF TtydTracked, SocketOfManaged, Managed
<1>16. ListedInv
  <2>1. NamedFinite
    BY <1>10, FS_EmptySet, BoundsAssumption DEF NamedFinite
  <2>2. NamesUnique
    BY <1>10 DEF NamesUnique
  <2>3. CreateKnows
    BY <1>4, FS_EmptySet DEF CreateKnows
  <2>4. HiddenOwned
    BY <1>1 DEF HiddenOwned, Hidden
  <2> QED
    BY <2>1, <2>2, <2>3, <2>4 DEF ListedInv
<1>17. SelectInv
  <2>1. Consumed = {} /\ DOMAIN taken = {} /\ ToSet(taken) = {}
    BY <1>5 DEF Consumed, ToSet
  <2>2. BuffersFresh
    BY <1>5, <2>1 DEF BuffersFresh
  <2>3. ListedFresh /\ TextListed /\ DeleteClears
    BY <1>4 DEF ListedFresh, TextListed, DeleteClears
  <2>4. TakenOnce
    BY <2>1 DEF TakenOnce
  <2> QED
    BY <2>2, <2>3, <2>4 DEF SelectInv
<1> QED
  BY <1>6, <1>7, <1>8, <1>9, <1>12, <1>13, <1>14, <1>15, <1>16, <1>17 DEF SessionsInv, TermsInv

LEMMA SessionsNext ==
    ASSUME SessionsInv, [Next]_vars
    PROVE  SessionsInv'
BY RequestNext, TmuxTyped, CountsNext, HistoryNext, TermsNext, ListedNext, SelectNext DEF SessionsInv

LEMMA TrackedFromInvariant ==
    ASSUME SessionsInv
    PROVE  TerminalsTracked
<1>1. TypeOK
  BY DEF SessionsInv, TmuxType, CountsType, HistoryType, RequestInv, TermsInv, TermsType, TypeOK
<1>2. TtydTracked /\ SocketOfManaged /\ VictimOut /\ ShutdownOwns /\ ProcessesOk
  BY DEF SessionsInv, TermsInv
<1>3. ShutdownStopsAll
  <2> SUFFICES ASSUME shuttingDown, leaving = {} PROVE Running = {} /\ Managed = {}
    BY DEF ShutdownStopsAll
  <2>1. (\A i \in Ids : managed[i] = None) /\ op.victim = None
    BY <1>2 DEF ShutdownOwns, VictimOut
  <2>2. Managed = {}
    BY <2>1 DEF Managed
  <2>3. ASSUME NEW p \in Procs, p \in Running PROVE FALSE
    <3>1. ttyd[p].id \in Ids
      BY <1>2, <2>3 DEF Running, ProcessesOk, ProcessOk
    <3> QED
      BY <1>2, <2>1, <2>3, <3>1, NoneAssumption DEF TtydTracked
  <2> QED
    BY <2>2, <2>3 DEF Running
<1> QED
  BY <1>1, <1>2, <1>3 DEF TerminalsTracked

LEMMA GuardedFromInvariant ==
    ASSUME SessionsInv
    PROVE  SelectionsGuarded
BY DEF SessionsInv, SelectInv, TakenOnce, BuffersFresh, SelectionsGuarded

LEMMA HiddenFromInvariant ==
    ASSUME SessionsInv, faults <= 1, restarts = 0, op = Idle
    PROVE  \A i \in Ids : session[i] \notin Hidden
<1>1. HiddenOwned /\ faults \in Nat /\ restarts \in Nat
  BY BoundsAssumption DEF SessionsInv, ListedInv, CountsType
<1>2. \A i \in Ids : ~InCreation(i)
  BY DEF InCreation, Idle
<1> QED
  BY <1>1, <1>2 DEF HiddenOwned

(***************************************************************************)
(* The inductive invariant: the types; which requests reach which step and *)
(* with what; processes, map and sockets stay together; a Create knows     *)
(* every named session; and what lies on the server was never consumed.    *)
(***************************************************************************)
THEOREM SessionsInvariant == Spec => []SessionsInv
<1>1. Init => SessionsInv
  BY SessionsInitially
<1>2. SessionsInv /\ [Next]_vars => SessionsInv'
  BY SessionsNext
<1> QED
  BY <1>1, <1>2, PTL DEF Spec

(***************************************************************************)
(* However requests, watchers, a shutdown and crashes interleave, every    *)
(* ttyd that runs is in the map under its session or is being stopped, a   *)
(* socket path leads only to the process in the map, and a shutdown that   *)
(* has returned leaves no ttyd (startTTYD, stopProcessLocked, waitProcess, *)
(* Shutdown).                                                              *)
(***************************************************************************)
THEOREM TerminalsAreTracked == Spec => []TerminalsTracked
<1>1. SessionsInv => TerminalsTracked
  BY TrackedFromInvariant
<1> QED
  BY <1>1, SessionsInvariant, PTL

(***************************************************************************)
(* A selection is returned at most once, never after a successful Connect  *)
(* or DiscardSelections has removed it, and none of a deleted session is   *)
(* left, whichever tmux commands fail (TakeLatestSelection,                *)
(* DiscardSelections, Connect, Delete).                                    *)
(***************************************************************************)
THEOREM SelectionsAreGuarded == Spec => []SelectionsGuarded
<1>1. SessionsInv => SelectionsGuarded
  BY GuardedFromInvariant
<1> QED
  BY <1>1, SessionsInvariant, PTL

(***************************************************************************)
(* The first two parts of SessionsListed, for any number of failures and   *)
(* crashes: no more named sessions than MaxSessions and no two with the    *)
(* same name, although Create reads the list, and creates, tags and names  *)
(* the session, in separate commands.                                      *)
(***************************************************************************)
THEOREM LimitAndNamesHold == Spec => [](Cardinality(Named) <= MaxSessions /\ NamesUnique)
<1>1. SessionsInv => Cardinality(Named) <= MaxSessions /\ NamesUnique
  BY DEF SessionsInv, ListedInv, NamedFinite
<1> QED
  BY <1>1, SessionsInvariant, PTL

(***************************************************************************)
(* All of SessionsListed until a second command fails or the daemon dies:  *)
(* one failing command of a Create is followed by a cleanup that works, so *)
(* no session is left that no list shows. After that the third part does   *)
(* not hold, since the error of the cleanup's kill-session is dropped.     *)
(***************************************************************************)
THEOREM SessionsAreListed == Spec => [](faults <= 1 /\ restarts = 0 => SessionsListed)
<1>1. SessionsInv => (faults <= 1 /\ restarts = 0 => SessionsListed)
  BY HiddenFromInvariant DEF SessionsInv, ListedInv, NamedFinite, NamesUnique, SessionsListed
<1> QED
  BY <1>1, SessionsInvariant, PTL
=============================================================================
