------------------------------ MODULE JobsProofs ------------------------------
(***************************************************************************)
(* Proofs about the jobs, for any number of rows, setups, keys, uploads,   *)
(* cancellations, edits and deaths of the process.                         *)
(***************************************************************************)
EXTENDS Jobs, FiniteSetTheorems, TLAPS

(* The parts of TypeOK: rows, workers, clients, and everything else. *)
RowsType ==
    /\ revision \in [Setups -> Nat]
    /\ job \in [JobIds -> Job \cup {None}]
    /\ run \in [JobIds -> {"none", "queued", "running", "done", "conflict", "failed", "cancelled"}]
    /\ published \in [JobIds -> Bodies \cup {"set", None}]
    /\ digest \in [JobIds -> Bodies \cup {"set", None}]
    /\ claim \in [Keys -> {"none", "in_progress", "completed", "failed"}]

WorkerPositions ==
    {"none", "launch", "heavy", "mark", "begin", "lock", "work", "abort", "finish", "leave", "ended"}

WorkersType ==
    /\ pc \in [Workers -> WorkerPositions]
    /\ cause \in [Workers -> Causes]
    /\ registered \in [JobIds -> Workers \cup {None}]
    /\ counted \subseteq Workers /\ signalled \subseteq Workers
    /\ slots \subseteq Workers /\ IsFiniteSet(slots) /\ Cardinality(slots) <= HeavySlots
    /\ lock \in [Setups -> Workers \cup {None}]

ClientsType ==
    /\ canceller \in [JobIds -> {"none", "unqueue", "drop", "dropRun", "request", "requestRun", "late", "signal"}]
    /\ request \in [Keys -> Request \cup {None}]

ServiceType ==
    /\ service \in {"open", "closing", "closed", "waited", "down"}
    /\ plan \in Plans /\ cancels \in 0..MaxCancels /\ edits \in 0..MaxEdits
    /\ sends \in 0..MaxSends /\ crashes \in 0..MaxCrashes

(* Whatever refers to a job finds its row. *)
JobsRooted ==
    /\ \A w \in Workers : pc[w] # "none" => JobOf(w) \in Rows
    /\ \A j \in JobIds : canceller[j] # "none" \/ run[j] # "none" => j \in Rows

ClientsRooted ==
    /\ \A k \in Keys : request[k] # None => request[k].job \in Rows
    /\ \A k \in Keys : claim[k] # "none" => request[k] # None

Rooted == JobsRooted /\ ClientsRooted

(* An upload that runs has one worker, and the request it runs for. *)
Runs(k, j) == request[k] # None /\ request[k].job = j /\ request[k].pc = "run"

Written ==
    \A w \in Workers : Kind(JobOf(w)) = "upload" /\ pc[w] # "none" => w \in JobIds /\ \E k \in Keys : Runs(k, w)

(* A worker that has committed says so, and leaves only a terminal row. *)
CauseOk(w) ==
    /\ pc[w] = "finish" /\ cause[w] = "none" => job[JobOf(w)].state = "succeeded"
    /\ pc[w] = "abort" => cause[w] # "none"
    /\ pc[w] = "leave" => Ended(JobOf(w))

CauseTold == \A w \in Workers : CauseOk(w)

(* The result, the row and the bytes it remembers. *)
ResultOk(j) ==
    /\ published[j] # None <=> j \in Rows /\ job[j].state = "succeeded"
    /\ run[j] = "done" => job[j].state = "succeeded"
    /\ run[j] = "conflict" => job[j].state = "conflict"
    /\ digest[j] # None => Ended(j)
    /\ digest[j] # None /\ published[j] # None => digest[j] = published[j]

Resulted == \A j \in JobIds : ResultOk(j)

(* A claim is completed only after its job, and nothing is answered early. *)
AnswerOk(k) == request[k] # None /\ request[k].pc # "answered" => request[k].answer = "none"

ClaimsFollow == \A k \in Keys : (claim[k] = "completed" => Ended(request[k].job)) /\ AnswerOk(k)

(* A cancellation asks for more than the queue only when the row had left it. *)
LeftQueue == \A j \in JobIds : canceller[j] \in {"request", "requestRun"} => job[j].state # "queued"

(* Until its row ends, the row's own worker is there. *)
AttendedOk(j) ==
    Up /\ j \in Rows
       /\ (job[j].state \in {"running", "cancelling"} \/ (job[j].state = "queued" /\ Kind(j) # "upload"))
    => AtWork(j)

Owned == \A j \in JobIds : AttendedOk(j)

(* The registration of a row is there from the launch of a worker to the end of the row. *)
Registered == \A w \in Workers : pc[w] \in {"heavy", "mark"} /\ Active(JobOf(w)) => registered[JobOf(w)] # None

TypeInv == RowsType /\ WorkersType /\ ClientsType /\ ServiceType
DataInv == Rooted /\ Written /\ CauseTold /\ Resulted /\ ClaimsFollow /\ LeftQueue
JobsInv == TypeInv /\ DataInv /\ Owned /\ Registered /\ Reachable /\ BarrierAfterWait

-----------------------------------------------------------------------------
(* Which actions write a variable: what the proofs below need not look at.  *)

USE DEF vars, rows, registry, workers, clients, bounds, Next, Work, Ends, Serve, Unwind, Clients, Lifecycle,
       Start, ValidateSetup, DuplicateSetup, RepeatDuplicate, RestoreSetup, Prepare, Launch, Acquire, MarkRunning,
       BeginValidation, TakeLock, Commit, Conflict, Interrupt, Abort, Finish, FinishUpload, Leave,
       LeaveUpload, Cancel, Unqueue, Drop, RequestCancel, Late, Signal, Load, Begin, Send, Expire,
       Disconnect, Edit, Close, SignalAll, Wait, Die, Restart

(* The actions that write a client's request. *)
LEMMA RequestWriters ==
    ASSUME [Next]_vars, ~UNCHANGED request
    PROVE  \/ \E w \in Workers : LeaveUpload(w)
           \/ \E k \in Keys : Load(k) \/ Begin(k) \/ Expire(k)
           \/ \E k \in Keys, j \in JobIds, body \in Bodies : Send(k, j, body)
           \/ Die
BY ZenonT(100)

(* The actions that write an idempotency claim. *)
LEMMA ClaimWriters ==
    ASSUME [Next]_vars, ~UNCHANGED claim
    PROVE  \/ \E w \in Workers : Commit(w) \/ FinishUpload(w)
           \/ \E k \in Keys : Load(k) \/ Begin(k) \/ Expire(k)
           \/ \E k \in Keys, j \in JobIds, body \in Bodies : Send(k, j, body)
           \/ Restart
BY ZenonT(100)

(* The actions that write a cancellation under way. *)
LEMMA CancellerWriters ==
    ASSUME [Next]_vars, ~UNCHANGED canceller
    PROVE  \/ \E j \in JobIds : Cancel(j) \/ Unqueue(j) \/ Drop(j) \/ RequestCancel(j) \/ Late(j) \/ Signal(j)
           \/ Die
BY ZenonT(100)

(* The actions that move a worker. *)
LEMMA PcWriters ==
    ASSUME [Next]_vars, ~UNCHANGED <<pc, cause>>
    PROVE  \/ \E j \in JobIds, s \in Setups : ValidateSetup(j, s) \/ DuplicateSetup(j, s)
                                              \/ RestoreSetup(j, s)
           \/ \E w \in Repeats : RepeatDuplicate(w)
           \/ \E w \in Workers : Launch(w) \/ Acquire(w) \/ MarkRunning(w) \/ BeginValidation(w) \/ TakeLock(w)
                                 \/ Commit(w) \/ Conflict(w) \/ Interrupt(w) \/ Abort(w) \/ Finish(w)
                                 \/ FinishUpload(w) \/ Leave(w) \/ LeaveUpload(w)
           \/ \E k \in Keys : Begin(k)
           \/ Die
BY ZenonT(100)

(* The actions that write a job's row, its run or its result. *)
LEMMA JobWriters ==
    ASSUME [Next]_vars, ~UNCHANGED <<job, run, published, digest>>
    PROVE  \/ \E j \in JobIds, s \in Setups : ValidateSetup(j, s) \/ DuplicateSetup(j, s)
                                              \/ RestoreSetup(j, s) \/ Prepare(j, s)
           \/ \E w \in Workers : MarkRunning(w) \/ BeginValidation(w) \/ Commit(w) \/ Conflict(w) \/ Abort(w)
                                 \/ Finish(w) \/ FinishUpload(w)
           \/ \E j \in JobIds : Unqueue(j) \/ Drop(j) \/ RequestCancel(j) \/ Late(j)
           \/ Restart
BY ZenonT(100)

(* The actions that edit a setup. *)
LEMMA RevisionWriters ==
    ASSUME [Next]_vars, ~UNCHANGED revision
    PROVE  \/ \E w \in Workers : Commit(w)
           \/ \E s \in Setups : Edit(s)
BY ZenonT(100)

(* The actions that register a worker or end its registration. *)
LEMMA RegisteredWriters ==
    ASSUME [Next]_vars, ~UNCHANGED <<registered, counted>>
    PROVE  \/ \E w \in Workers : Launch(w) \/ Leave(w) \/ LeaveUpload(w)
           \/ \E k \in Keys : Begin(k)
           \/ Die
BY ZenonT(100)

(* The actions that count against a bound or change the life of the service. *)
LEMMA ServiceWriters ==
    ASSUME [Next]_vars, ~UNCHANGED <<service, bounds>>
    PROVE  \/ \E j \in JobIds : Cancel(j)
           \/ \E k \in Keys, j \in JobIds, body \in Bodies : Send(k, j, body)
           \/ \E s \in Setups : Edit(s)
           \/ Close \/ SignalAll \/ Wait \/ Die \/ Restart
BY ZenonT(100)

(* The mix of jobs and the configured budget never change. *)
LEMMA PlanKept == [Next]_vars => plan' = plan
BY ZenonT(100)

HIDE DEF vars, rows, registry, workers, clients, bounds, Next, Work, Ends, Serve, Unwind, Clients, Lifecycle,
       Start, ValidateSetup, DuplicateSetup, RepeatDuplicate, RestoreSetup, Prepare, Launch, Acquire, MarkRunning,
       BeginValidation, TakeLock, Commit, Conflict, Interrupt, Abort, Finish, FinishUpload, Leave,
       LeaveUpload, Cancel, Unqueue, Drop, RequestCancel, Late, Signal, Load, Begin, Send, Expire,
       Disconnect, Edit, Close, SignalAll, Wait, Die, Restart

-----------------------------------------------------------------------------
(* How the rows of jobs move.                                               *)

(* Every worker has a row; a row's own worker bears its name. *)
LEMMA WorkersHaveJobs ==
    /\ \A w \in Workers : JobOf(w) \in JobIds
    /\ \A j \in JobIds : j \in Workers /\ JobOf(j) = j
    /\ \A r \in Repeats : r \in Workers /\ JobOf(r) = RepeatOf[r] /\ r \notin JobIds
BY RepeatsAssumption DEF Workers, JobOf

(* The budget of heavy work is a number, and stays what it is. *)
LEMMA BudgetKept == ServiceType /\ [Next]_vars => HeavySlots \in Nat \ {0} /\ HeavySlots' = HeavySlots
BY PlanKept, PlansAssumption DEF ServiceType, HeavySlots

(* The parts of RowsType besides the rows of jobs. *)
OthersType ==
    /\ revision \in [Setups -> Nat]
    /\ run \in [JobIds -> {"none", "queued", "running", "done", "conflict", "failed", "cancelled"}]
    /\ published \in [JobIds -> Bodies \cup {"set", None}]
    /\ digest \in [JobIds -> Bodies \cup {"set", None}]
    /\ claim \in [Keys -> {"none", "in_progress", "completed", "failed"}]

(* What a step makes of a job's row. *)
JobsType == job \in [JobIds -> Job \cup {None}]

Moved(i) ==
    \/ job'[i] = job[i]
    \/ job[i] = None /\ job'[i] \in Job /\ job'[i].state = "queued"
    \/ Active(i) /\ job'[i] \in Job /\ job'[i].state # "queued"

(* Writing the state of an active row. *)
LEMMA StateSet ==
    ASSUME JobsType, NEW j \in JobIds, NEW x \in (ActiveStates \cup TerminalStates) \ {"queued"}, Active(j),
           job' = [job EXCEPT ![j].state = x]
    PROVE  /\ JobsType' /\ job'[j] \in Job /\ job'[j].state = x
           /\ \A i \in JobIds : Moved(i)
BY NoneAssumption DEF JobsType, Active, Rows, Job, Moved

(* insertJobTx adds a row in the queue. *)
LEMMA RowInserted ==
    ASSUME JobsType, NEW j \in JobIds, NEW s \in Setups, revision \in [Setups -> Nat], Insert(j, s)
    PROVE  JobsType' /\ \A i \in JobIds : Moved(i)
BY DEF JobsType, Insert, Moved, Job, ActiveStates

(* terminalJobUpdateSQL ends an active row and leaves any other alone. *)
LEMMA RowEnded ==
    ASSUME JobsType, NEW j \in JobIds, NEW x \in TerminalStates, job' = Terminal(j, x)
    PROVE  JobsType' /\ \A i \in JobIds : Moved(i)
<1>1. CASE Active(j)
  BY <1>1, StateSet DEF Terminal, TerminalStates
<1>2. CASE ~Active(j)
  BY <1>2 DEF Terminal, Moved, JobsType
<1> QED
  BY <1>1, <1>2

(* cancelQueuedValidation ends an active row or does nothing. *)
LEMMA RowUnqueued ==
    ASSUME JobsType, NEW j \in JobIds, EndQueuedRun(j)
    PROVE  JobsType' /\ \A i \in JobIds : Moved(i)
<1>1. CASE run[j] = "queued" /\ Active(j)
  BY <1>1, StateSet DEF EndQueuedRun, TerminalStates
<1>2. CASE ~(run[j] = "queued" /\ Active(j))
  BY <1>2 DEF EndQueuedRun, Moved, JobsType
<1> QED
  BY <1>1, <1>2

(* A step that leaves the rows alone. *)
LEMMA RowKept ==
    ASSUME JobsType, UNCHANGED job
    PROVE  JobsType' /\ \A i \in JobIds : Moved(i)
BY DEF JobsType, Moved

(* Every step inserts a queued row, moves an active one, or leaves a row alone. *)
LEMMA JobsMove ==
    JobsInv /\ [Next]_vars => JobsType' /\ \A i \in JobIds : Moved(i)
<1> DEFINE Goal == JobsType' /\ \A i \in JobIds : Moved(i)
<1> USE WorkersHaveJobs
<1>1. SUFFICES ASSUME JobsInv, [Next]_vars PROVE Goal
  OBVIOUS
<1>2. JobsType /\ revision \in [Setups -> Nat]
  BY <1>1 DEF JobsInv, TypeInv, RowsType, JobsType
<1> HIDE DEF Goal
<1>3. ASSUME NEW j \in JobIds, NEW s \in Setups, ValidateSetup(j, s) PROVE Goal
  BY <1>2, <1>3, RowInserted DEF ValidateSetup, Start, Goal
<1>4. ASSUME NEW j \in JobIds, NEW s \in Setups, DuplicateSetup(j, s) PROVE Goal
  BY <1>2, <1>4, RowInserted DEF DuplicateSetup, Start, Goal
<1>5. ASSUME NEW j \in JobIds, NEW s \in Setups, RestoreSetup(j, s) PROVE Goal
  BY <1>2, <1>5, RowInserted DEF RestoreSetup, Start, Goal
<1>6. ASSUME NEW j \in JobIds, NEW s \in Setups, Prepare(j, s) PROVE Goal
  BY <1>2, <1>6, RowInserted DEF Prepare, Goal
<1>7. ASSUME NEW w \in Workers, MarkRunning(w) PROVE Goal
  <2>1. CASE w \notin signalled /\ job[JobOf(w)].state = "queued"
    BY <1>1, <1>2, <1>7, <2>1, StateSet DEF MarkRunning, Goto, JobsInv, TypeInv, DataInv, Rooted, JobsRooted,
         ClientsRooted, Active, Rows, ActiveStates, TerminalStates, Goal
  <2>2. CASE ~(w \notin signalled /\ job[JobOf(w)].state = "queued")
    BY <1>2, <1>7, <2>2, RowKept DEF MarkRunning, Goto, JobsInv, TypeInv, DataInv, Rooted, JobsRooted,
         ClientsRooted, Active, Rows, ActiveStates, TerminalStates, Goal
  <2> QED
    BY <2>1, <2>2
<1>8. ASSUME NEW w \in Workers, BeginValidation(w) PROVE Goal
  BY <1>2, <1>8, RowKept DEF BeginValidation, Goal
<1>9. ASSUME NEW w \in Workers, Commit(w) PROVE Goal
  BY <1>2, <1>9, StateSet DEF Commit, FinishTx, TerminalStates, Goal
<1>10. ASSUME NEW w \in Workers, Conflict(w) PROVE Goal
  <2>1. CASE Kind(JobOf(w)) = "validate"
    BY <1>1, <1>2, <1>10, <2>1, StateSet DEF Conflict, FinishTx, Working, TerminalStates, Goal
  <2>2. CASE ~(Kind(JobOf(w)) = "validate")
    BY <1>2, <1>10, <2>2, RowKept DEF Conflict, FinishTx, Working, TerminalStates, Goal
  <2> QED
    BY <2>1, <2>2
<1>11. ASSUME NEW w \in Workers, Abort(w) PROVE Goal
  <2>1. CASE run[JobOf(w)] \in {"queued", "running"} /\ Active(JobOf(w))
    BY <1>1, <1>2, <1>11, <2>1, RowEnded DEF Abort, Outcome, JobsInv, TypeInv, WorkersType, Causes,
         TerminalStates, Goal
  <2>2. CASE ~(run[JobOf(w)] \in {"queued", "running"} /\ Active(JobOf(w)))
    BY <1>2, <1>11, <2>2, RowKept DEF Abort, Goal
  <2> QED
    BY <2>1, <2>2
<1>12. ASSUME NEW w \in Workers, Finish(w) PROVE Goal
  BY <1>1, <1>2, <1>12, RowEnded DEF Finish, Outcome, JobsInv, TypeInv, WorkersType, Causes, TerminalStates,
       Goal
<1>13. ASSUME NEW w \in Workers, FinishUpload(w) PROVE Goal
  BY <1>1, <1>2, <1>13, RowEnded DEF FinishUpload, Outcome, JobsInv, TypeInv, WorkersType, Causes,
       TerminalStates, Goal
<1>14. ASSUME NEW j \in JobIds, Unqueue(j) PROVE Goal
  BY <1>2, <1>14, RowUnqueued DEF Unqueue, Goal
<1>15. ASSUME NEW j \in JobIds, Drop(j) PROVE Goal
  <2>1. CASE job[j].state = "queued"
    BY <1>1, <1>2, <1>15, <2>1, StateSet DEF Drop, JobsInv, TypeInv, DataInv, Rooted, JobsRooted, ClientsRooted,
         Active, Rows, ActiveStates, TerminalStates, Goal
  <2>2. CASE ~(job[j].state = "queued")
    BY <1>2, <1>15, <2>2, RowKept DEF Drop, JobsInv, TypeInv, DataInv, Rooted, JobsRooted, ClientsRooted,
         Active, Rows, ActiveStates, TerminalStates, Goal
  <2> QED
    BY <2>1, <2>2
<1>16. ASSUME NEW j \in JobIds, RequestCancel(j) PROVE Goal
  <2>1. CASE job[j].state \in {"queued", "running"}
    BY <1>1, <1>2, <1>16, <2>1, StateSet DEF RequestCancel, JobsInv, TypeInv, DataInv, Rooted, JobsRooted,
         ClientsRooted, Active, Rows, ActiveStates, TerminalStates, Goal
  <2>2. CASE ~(job[j].state \in {"queued", "running"})
    BY <1>2, <1>16, <2>2, RowKept DEF RequestCancel, JobsInv, TypeInv, DataInv, Rooted, JobsRooted,
         ClientsRooted, Active, Rows, ActiveStates, TerminalStates, Goal
  <2> QED
    BY <2>1, <2>2
<1>17. ASSUME NEW j \in JobIds, Late(j) PROVE Goal
  BY <1>2, <1>17, RowUnqueued DEF Late, Goal
<1>18. ASSUME Restart PROVE Goal
  <2>1. \A i \in JobIds : job'[i] = IF Active(i) THEN [job[i] EXCEPT !.state = "failed"] ELSE job[i]
    BY <1>18 DEF Restart
  <2>2. \A i \in JobIds : Active(i) => job[i] \in Job
    BY <1>2 DEF Active, Rows, JobsType
  <2>3. \A i \in JobIds : Active(i) => job'[i] \in Job /\ job'[i].state # "queued"
    BY <2>1, <2>2 DEF Job, TerminalStates
  <2> QED
    BY <1>2, <1>18, <2>1, <2>3 DEF Restart, Goal, Moved, JobsType
<1>19. CASE UNCHANGED <<job, run, published, digest>>
  BY <1>2, <1>19, RowKept DEF vars, rows, Goal
<1> QED
  BY <1>1, <1>3, <1>4, <1>5, <1>6, <1>7, <1>8, <1>9, <1>10, <1>11, <1>12, <1>13, <1>14, <1>15, <1>16, <1>17,
       <1>18, <1>19, JobWriters

(* A revision stays a number. *)
LEMMA EditedRevision ==
    ASSUME revision \in [Setups -> Nat], NEW s, revision' = [revision EXCEPT ![s] = @ + 1]
    PROVE  revision' \in [Setups -> Nat]
<1> SUFFICES ASSUME NEW x \in Setups PROVE revision'[x] \in Nat
  OBVIOUS
<1>1. CASE x = s
  BY <1>1
<1>2. CASE x # s
  BY <1>2
<1> QED
  BY <1>1, <1>2

(* The key that Writer chooses for a running upload is one whose request runs it. *)
LEMMA WriterRuns ==
    ASSUME NEW w \in Workers, Written, ClientsType, Kind(JobOf(w)) = "upload", pc[w] # "none"
    PROVE  /\ w \in JobIds /\ JobOf(w) = w
           /\ Writer(w) \in Keys /\ Runs(Writer(w), w) /\ request[Writer(w)] \in Request
BY WorkersHaveJobs DEF Written, Runs, Writer, ClientsType

-----------------------------------------------------------------------------
(* The types.                                                               *)

(* The types of revisions, runs, results and claims are kept. *)
LEMMA OthersTyped == JobsInv /\ [Next]_vars => OthersType'
<1> USE WorkersHaveJobs DEF vars, rows, registry, workers, clients, bounds, JobsInv, TypeInv, RowsType, OthersType
<1>1. SUFFICES ASSUME JobsInv, [Next]_vars PROVE OthersType'
  OBVIOUS
<1>2. ASSUME NEW j \in JobIds, NEW s \in Setups, ValidateSetup(j, s) PROVE OthersType'
  BY <1>1, <1>2 DEF ValidateSetup, Start, Insert
<1>3. ASSUME NEW j \in JobIds, NEW s \in Setups, DuplicateSetup(j, s) PROVE OthersType'
  BY <1>1, <1>3 DEF DuplicateSetup, Start, Insert
<1>4. ASSUME NEW j \in JobIds, NEW s \in Setups, RestoreSetup(j, s) PROVE OthersType'
  BY <1>1, <1>4 DEF RestoreSetup, Start, Insert
<1>5. ASSUME NEW j \in JobIds, NEW s \in Setups, Prepare(j, s) PROVE OthersType'
  BY <1>1, <1>5 DEF Prepare, Insert
<1>6. ASSUME NEW w \in Workers, MarkRunning(w) PROVE OthersType'
  BY <1>1, <1>6 DEF MarkRunning, Goto
<1>7. ASSUME NEW w \in Workers, BeginValidation(w) PROVE OthersType'
  BY <1>1, <1>7 DEF BeginValidation, Goto
<1>8. ASSUME NEW w \in Workers, Commit(w) PROVE OthersType'
  <2>1. CASE CommitValidation(w)
    BY <1>1, <1>8, <2>1 DEF CommitValidation
  <2>2. CASE CommitDuplicate(w)
    BY <1>1, <1>8, <2>2 DEF CommitDuplicate
  <2>3. CASE CommitRestore(w)
    BY <1>1, <1>8, <2>3 DEF CommitRestore
  <2>4. CASE CommitUpload(w)
    <3>1. Writer(JobOf(w)) \in Keys /\ request[Writer(JobOf(w))].body \in Bodies
      BY <1>1, <1>8, <2>4, WriterRuns DEF Commit, Working, CommitUpload, DataInv, Request
    <3>2. revision' \in [Setups -> Nat]
      BY <1>1, <2>4, EditedRevision DEF CommitUpload
    <3> QED
      BY <1>1, <1>8, <2>4, <3>1, <3>2 DEF CommitUpload, FinishClaim
  <2> QED
    BY <1>8, <2>1, <2>2, <2>3, <2>4 DEF Commit
<1>9. ASSUME NEW w \in Workers, Conflict(w) PROVE OthersType'
  BY <1>1, <1>9 DEF Conflict, Working, FinishTx, Goto
<1>10. ASSUME NEW w \in Workers, Abort(w) PROVE OthersType'
  BY <1>1, <1>10 DEF Abort, Terminal, Outcome
<1>11. ASSUME NEW w \in Workers, Finish(w) PROVE OthersType'
  BY <1>1, <1>11 DEF Finish, Terminal, Outcome
<1>12. ASSUME NEW w \in Workers, FinishUpload(w) PROVE OthersType'
  BY <1>1, <1>12, WriterRuns DEF FinishUpload, FinishClaim, DataInv, Request
<1>13. ASSUME NEW j \in JobIds, Unqueue(j) PROVE OthersType'
  BY <1>1, <1>13 DEF Unqueue, EndQueuedRun, Cancelling
<1>14. ASSUME NEW j \in JobIds, Drop(j) PROVE OthersType'
  BY <1>1, <1>14 DEF Drop, Cancelling
<1>15. ASSUME NEW j \in JobIds, RequestCancel(j) PROVE OthersType'
  BY <1>1, <1>15 DEF RequestCancel, Cancelling
<1>16. ASSUME NEW j \in JobIds, Late(j) PROVE OthersType'
  BY <1>1, <1>16 DEF Late, EndQueuedRun, Cancelling
<1>17. ASSUME NEW k \in Keys, Load(k) PROVE OthersType'
  BY <1>1, <1>17 DEF Load, FinishClaim, Answer
<1>18. ASSUME NEW k \in Keys, Begin(k) PROVE OthersType'
  BY <1>1, <1>18 DEF Begin, Register, FinishClaim, Answer, Goto
<1>19. ASSUME NEW k \in Keys, NEW j \in JobIds, NEW body \in Bodies, Send(k, j, body) PROVE OthersType'
  BY <1>1, <1>19 DEF Send
<1>20. ASSUME NEW k \in Keys, Expire(k) PROVE OthersType'
  BY <1>1, <1>20 DEF Expire
<1>21. ASSUME NEW s \in Setups, Edit(s) PROVE OthersType'
  BY <1>1, <1>21 DEF Edit
<1>22. ASSUME Restart PROVE OthersType'
  BY <1>1, <1>22 DEF Restart
<1>23. CASE UNCHANGED <<job, run, published, digest, claim, revision>>
  BY <1>1, <1>23
<1> QED
  BY <1>1, <1>2, <1>3, <1>4, <1>5, <1>6, <1>7, <1>8, <1>9, <1>10, <1>11, <1>12, <1>13, <1>14, <1>15, <1>16,
       <1>17, <1>18, <1>19, <1>20, <1>21, <1>22, <1>23, JobWriters, ClaimWriters, RevisionWriters

(* The types of the workers, their slots and the setups' locks are kept. *)
LEMMA WorkersTyped == JobsInv /\ [Next]_vars => WorkersType'
<1> USE WorkersHaveJobs, NoneAssumption DEF vars, rows, registry, workers, clients, bounds,
        JobsInv, TypeInv, RowsType, WorkersType,
    WorkerPositions, Causes
<1>1. SUFFICES ASSUME JobsInv, [Next]_vars PROVE WorkersType'
  OBVIOUS
<1>0. HeavySlots \in Nat /\ HeavySlots' = HeavySlots
  BY <1>1, BudgetKept
<1>2. ASSUME NEW j \in JobIds, NEW s \in Setups, ValidateSetup(j, s) PROVE WorkersType'
  BY <1>0, <1>1, <1>2 DEF ValidateSetup, Start, Insert
<1>3. ASSUME NEW j \in JobIds, NEW s \in Setups, DuplicateSetup(j, s) PROVE WorkersType'
  BY <1>0, <1>1, <1>3 DEF DuplicateSetup, Start, Insert
<1>4. ASSUME NEW j \in JobIds, NEW s \in Setups, RestoreSetup(j, s) PROVE WorkersType'
  BY <1>0, <1>1, <1>4 DEF RestoreSetup, Start, Insert
<1>5. ASSUME NEW j \in JobIds, NEW s \in Setups, Prepare(j, s) PROVE WorkersType'
  BY <1>0, <1>1, <1>5 DEF Prepare, Insert
<1>6. ASSUME NEW w \in Workers, Launch(w) PROVE WorkersType'
  BY <1>0, <1>1, <1>6 DEF Launch, Register
<1>7. ASSUME NEW w \in Workers, Acquire(w) PROVE WorkersType'
  <2>1. CASE UNCHANGED slots
    BY <1>0, <1>1, <1>7, <2>1 DEF Acquire, Goto
  <2>2. CASE Cardinality(slots) < HeavySlots /\ slots' = slots \cup {w}
    <3>1. IsFiniteSet(slots)
      BY <1>1
    <3>2. Cardinality(slots) \in Nat
      BY <3>1, FS_CardinalityType
    <3>3. IsFiniteSet(slots') /\ Cardinality(slots') \in {Cardinality(slots), Cardinality(slots) + 1}
      BY <2>2, <3>1, FS_AddElement, Zenon
    <3>4. Cardinality(slots') <= HeavySlots
      BY <2>2, <3>2, <3>3, <1>0
    <3> QED
      BY <1>0, <1>1, <1>7, <2>2, <3>3, <3>4 DEF Acquire, Goto
  <2> QED
    BY <1>7, <2>1, <2>2 DEF Acquire
<1>8. ASSUME NEW w \in Workers, MarkRunning(w) PROVE WorkersType'
  BY <1>0, <1>1, <1>8 DEF MarkRunning, Goto
<1>9. ASSUME NEW w \in Workers, BeginValidation(w) PROVE WorkersType'
  BY <1>0, <1>1, <1>9 DEF BeginValidation, Goto
<1>10. ASSUME NEW w \in Workers, TakeLock(w) PROVE WorkersType'
  BY <1>0, <1>1, <1>10 DEF TakeLock
<1>11. ASSUME NEW w \in Workers, Commit(w) PROVE WorkersType'
  <2>1. lock' \in [Setups -> Workers \cup {None}]
    BY <1>0, <1>1, <1>11 DEF Commit, Working
  <2>2. pc' \in [Workers -> WorkerPositions] /\ cause' \in [Workers -> Causes]
    BY <1>0, <1>1, <1>11 DEF Commit, CommitValidation, CommitDuplicate, CommitRestore, CommitUpload, Goto
  <2> QED
    BY <1>0, <1>1, <1>11, <2>1, <2>2 DEF Commit
<1>12. ASSUME NEW w \in Workers, Conflict(w) PROVE WorkersType'
  <2>1. lock' \in [Setups -> Workers \cup {None}]
    BY <1>0, <1>1, <1>12 DEF Conflict, Working
  <2>2. pc' \in [Workers -> WorkerPositions] /\ cause' \in [Workers -> Causes]
    BY <1>0, <1>1, <1>12 DEF Conflict, Goto
  <2> QED
    BY <1>0, <1>1, <1>12, <2>1, <2>2 DEF Conflict
<1>13. ASSUME NEW w \in Workers, Interrupt(w) PROVE WorkersType'
  <2>1. lock' \in [Setups -> Workers \cup {None}]
    BY <1>0, <1>1, <1>13 DEF Interrupt, Working
  <2>2. PICK why \in Causes : Goto(w, IF Kind(JobOf(w)) = "validate" THEN "abort" ELSE "finish", why)
    BY <1>13 DEF Interrupt
  <2>3. pc' \in [Workers -> WorkerPositions] /\ cause' \in [Workers -> Causes]
    BY <1>0, <1>1, <2>2 DEF Goto
  <2> QED
    BY <1>0, <1>1, <1>13, <2>1, <2>3 DEF Interrupt
<1>14. ASSUME NEW w \in Workers, Abort(w) PROVE WorkersType'
  BY <1>0, <1>1, <1>14 DEF Abort, Terminal, Outcome
<1>15. ASSUME NEW w \in Workers, Finish(w) PROVE WorkersType'
  BY <1>0, <1>1, <1>15 DEF Finish, Terminal, Outcome
<1>16. ASSUME NEW w \in Workers, FinishUpload(w) PROVE WorkersType'
  BY <1>0, <1>1, <1>16 DEF FinishUpload, Terminal, Outcome, FinishClaim
<1>17. ASSUME NEW w \in Workers, Leave(w) PROVE WorkersType'
  <2>1. IsFiniteSet(slots') /\ Cardinality(slots') <= Cardinality(slots)
    BY <1>0, <1>1, <1>17, FS_Subset, FS_RemoveElement DEF Leave, Deregister
  <2>2. Cardinality(slots) \in Nat /\ Cardinality(slots') \in Nat
    BY <1>0, <1>1, <2>1, FS_CardinalityType
  <2>3. Cardinality(slots') <= HeavySlots
    BY <1>0, <1>1, <2>1, <2>2, <1>0
  <2> QED
    BY <1>0, <1>1, <1>17, <2>1, <2>3 DEF Leave, Deregister
<1>18. ASSUME NEW w \in Workers, LeaveUpload(w) PROVE WorkersType'
  BY <1>0, <1>1, <1>18 DEF LeaveUpload, Deregister
<1>19. ASSUME NEW j \in JobIds, Cancel(j) PROVE WorkersType'
  BY <1>0, <1>1, <1>19 DEF Cancel, Cancelling
<1>20. ASSUME NEW j \in JobIds, Unqueue(j) PROVE WorkersType'
  BY <1>0, <1>1, <1>20 DEF Unqueue, EndQueuedRun, Cancelling
<1>21. ASSUME NEW j \in JobIds, Drop(j) PROVE WorkersType'
  BY <1>0, <1>1, <1>21 DEF Drop, Cancelling
<1>22. ASSUME NEW j \in JobIds, RequestCancel(j) PROVE WorkersType'
  BY <1>0, <1>1, <1>22 DEF RequestCancel, Cancelling
<1>23. ASSUME NEW j \in JobIds, Late(j) PROVE WorkersType'
  BY <1>0, <1>1, <1>23 DEF Late, EndQueuedRun, Cancelling
<1>24. ASSUME NEW j \in JobIds, Signal(j) PROVE WorkersType'
  BY <1>0, <1>1, <1>24 DEF Signal, Cancelling
<1>25. ASSUME NEW k \in Keys, Load(k) PROVE WorkersType'
  BY <1>0, <1>1, <1>25 DEF Load, FinishClaim, Answer
<1>26. ASSUME NEW k \in Keys, Begin(k) PROVE WorkersType'
  BY <1>0, <1>1, <1>26 DEF Begin, Register, Goto, ClientsType, Request
<1>27. ASSUME NEW k \in Keys, NEW j \in JobIds, NEW body \in Bodies, Send(k, j, body) PROVE WorkersType'
  BY <1>0, <1>1, <1>27 DEF Send
<1>28. ASSUME NEW k \in Keys, Expire(k) PROVE WorkersType'
  BY <1>0, <1>1, <1>28 DEF Expire
<1>29. ASSUME NEW k \in Keys, Disconnect(k) PROVE WorkersType'
  BY <1>0, <1>1, <1>29 DEF Disconnect, ClientsType, Request
<1>30. ASSUME NEW s \in Setups, Edit(s) PROVE WorkersType'
  BY <1>0, <1>1, <1>30 DEF Edit
<1>31. ASSUME Close PROVE WorkersType'
  BY <1>0, <1>1, <1>31 DEF Close
<1>32. ASSUME SignalAll PROVE WorkersType'
  BY <1>0, <1>1, <1>32 DEF SignalAll
<1>33. ASSUME Wait PROVE WorkersType'
  BY <1>0, <1>1, <1>33 DEF Wait
<1>34. ASSUME Die PROVE WorkersType'
  <2>1. slots' = {} /\ IsFiniteSet(slots') /\ Cardinality(slots') = 0
    BY <1>34, FS_EmptySet DEF Die
  <2>2. Cardinality(slots') <= HeavySlots
    BY <1>0, <2>1
  <2>3. registered' \in [JobIds -> Workers \cup {None}] /\ counted' = {} /\ signalled' = {}
        /\ lock' \in [Setups -> Workers \cup {None}]
    BY <1>34 DEF Die
  <2>4. pc' \in [Workers -> WorkerPositions] /\ cause' \in [Workers -> Causes]
    BY <1>34 DEF Die
  <2> QED
    BY <1>0, <2>1, <2>2, <2>3, <2>4
<1>35. ASSUME Restart PROVE WorkersType'
  BY <1>0, <1>1, <1>35 DEF Restart
<1>36. ASSUME NEW r \in Repeats, RepeatDuplicate(r) PROVE WorkersType'
  BY <1>0, <1>1, <1>36 DEF RepeatDuplicate
<1>37. CASE UNCHANGED vars
  BY <1>0, <1>1, <1>37
<1> QED
  BY <1>1, <1>2, <1>3, <1>4, <1>5, <1>6, <1>7, <1>8, <1>9, <1>10, <1>11, <1>12, <1>13, <1>14, <1>15, <1>16,
       <1>17, <1>18, <1>19, <1>20, <1>21, <1>22, <1>23, <1>24, <1>25, <1>26, <1>27, <1>28, <1>29, <1>30, <1>31,
       <1>32, <1>33, <1>34, <1>35, <1>36, <1>37 DEF Next, Work, Ends, Serve, Unwind, Clients, Lifecycle

(* The types of cancellations and requests are kept. *)
LEMMA ClientsTyped == JobsInv /\ [Next]_vars => ClientsType'
<1> USE NoneAssumption DEF vars, rows, registry, workers, clients, bounds, JobsInv, TypeInv, RowsType, ClientsType,
    Request
<1>1. SUFFICES ASSUME JobsInv, [Next]_vars PROVE ClientsType'
  OBVIOUS
<1>2. ASSUME NEW w \in Workers, LeaveUpload(w) PROVE ClientsType'
  BY <1>1, <1>2, WriterRuns, WorkersHaveJobs DEF LeaveUpload, Deregister, DataInv, CauseTold, CauseOk, Ended, Rows,
       Job, TerminalStates
<1>3. ASSUME NEW j \in JobIds, Cancel(j) PROVE ClientsType'
  BY <1>1, <1>3 DEF Cancel, Cancelling
<1>4. ASSUME NEW j \in JobIds, Unqueue(j) PROVE ClientsType'
  BY <1>1, <1>4 DEF Unqueue, EndQueuedRun, Cancelling
<1>5. ASSUME NEW j \in JobIds, Drop(j) PROVE ClientsType'
  BY <1>1, <1>5 DEF Drop, Cancelling
<1>6. ASSUME NEW j \in JobIds, RequestCancel(j) PROVE ClientsType'
  BY <1>1, <1>6 DEF RequestCancel, Cancelling
<1>7. ASSUME NEW j \in JobIds, Late(j) PROVE ClientsType'
  BY <1>1, <1>7 DEF Late, EndQueuedRun, Cancelling
<1>8. ASSUME NEW j \in JobIds, Signal(j) PROVE ClientsType'
  BY <1>1, <1>8 DEF Signal, Cancelling
<1>9. ASSUME NEW k \in Keys, Load(k) PROVE ClientsType'
  BY <1>1, <1>9 DEF Load, FinishClaim, Answer, Ended, Rows, Job
<1>10. ASSUME NEW k \in Keys, Begin(k) PROVE ClientsType'
  BY <1>1, <1>10 DEF Begin, Register, FinishClaim, Answer, Goto
<1>11. ASSUME NEW k \in Keys, NEW j \in JobIds, NEW body \in Bodies, Send(k, j, body) PROVE ClientsType'
  <2> DEFINE sent == [job |-> j, body |-> body, pc |-> "load", answer |-> "none"]
  <2>1. sent \in Request
    OBVIOUS
  <2>2. ASSUME SameBytes(j, body) PROVE job[j].state \in TerminalStates
    BY <1>1, <2>2 DEF SameBytes, DataInv, Resulted, ResultOk, Ended
  <2>3. \A answer \in TerminalStates \cup {"refused"} : [sent EXCEPT !.pc = "answered", !.answer = answer] \in Request
    OBVIOUS
  <2>4. \/ request' = [request EXCEPT ![k] = sent]
        \/ \E answer \in TerminalStates \cup {"refused"} :
              request' = [request EXCEPT ![k] = [sent EXCEPT !.pc = "answered", !.answer = answer]]
    BY <1>11, <2>2 DEF Send
  <2> HIDE DEF sent
  <2>5. \E r \in Request : request' = [request EXCEPT ![k] = r]
    BY <2>1, <2>3, <2>4
  <2>6. request' \in [Keys -> Request \cup {None}]
    <3> HIDE DEF Request
    <3> QED
      BY <1>1, <2>5
  <2> QED
    BY <1>1, <1>11, <2>6 DEF Send
<1>12. ASSUME NEW k \in Keys, Expire(k) PROVE ClientsType'
  BY <1>1, <1>12 DEF Expire
<1>13. ASSUME Die PROVE ClientsType'
  BY <1>1, <1>13 DEF Die
<1>14. CASE UNCHANGED <<request, canceller>>
  BY <1>1, <1>14
<1> QED
  BY <1>1, <1>2, <1>3, <1>4, <1>5, <1>6, <1>7, <1>8, <1>9, <1>10, <1>11, <1>12, <1>13, <1>14, RequestWriters,
       CancellerWriters

(* The types of the service and of the bounds are kept. *)
LEMMA ServiceTyped == JobsInv /\ [Next]_vars => ServiceType'
<1> USE DEF vars, rows, registry, workers, clients, bounds, JobsInv, TypeInv, RowsType, ServiceType
<1>1. SUFFICES ASSUME JobsInv, [Next]_vars PROVE ServiceType'
  OBVIOUS
<1>2. ASSUME NEW j \in JobIds, Cancel(j) PROVE ServiceType'
  BY <1>1, <1>2, BoundsAssumption DEF Cancel, Cancelling
<1>3. ASSUME NEW k \in Keys, NEW j \in JobIds, NEW body \in Bodies, Send(k, j, body) PROVE ServiceType'
  BY <1>1, <1>3, BoundsAssumption DEF Send
<1>4. ASSUME NEW s \in Setups, Edit(s) PROVE ServiceType'
  BY <1>1, <1>4, BoundsAssumption DEF Edit
<1>5. ASSUME Close PROVE ServiceType'
  BY <1>1, <1>5 DEF Close
<1>6. ASSUME SignalAll PROVE ServiceType'
  BY <1>1, <1>6 DEF SignalAll
<1>7. ASSUME Wait PROVE ServiceType'
  BY <1>1, <1>7 DEF Wait
<1>8. ASSUME Die PROVE ServiceType'
  <2>1. crashes \in 0..MaxCrashes /\ crashes < MaxCrashes /\ crashes' = crashes + 1
    BY <1>1, <1>8 DEF Die
  <2>2. crashes' \in 0..MaxCrashes
    BY <2>1, BoundsAssumption
  <2>3. service' = "down" /\ UNCHANGED <<plan, cancels, edits, sends>>
    BY <1>8 DEF Die
  <2> QED
    BY <1>1, <2>2, <2>3
<1>9. ASSUME Restart PROVE ServiceType'
  BY <1>1, <1>9 DEF Restart
<1>10. CASE UNCHANGED <<service, bounds>>
  BY <1>1, <1>10
<1> QED
  BY <1>1, <1>2, <1>3, <1>4, <1>5, <1>6, <1>7, <1>8, <1>9, <1>10, ServiceWriters

(* The four lemmas together. *)
LEMMA Typed == JobsInv /\ [Next]_vars => TypeInv'
BY JobsMove, OthersTyped, WorkersTyped, ClientsTyped, ServiceTyped DEF TypeInv, RowsType, OthersType, JobsType

-----------------------------------------------------------------------------
(* Who refers to a row, and who attends to it.                              *)

(* Rows are never deleted, an ended row never changes, and no row returns to the queue. *)
LEMMA RowsStay ==
    JobsInv /\ [Next]_vars =>
        /\ Rows \subseteq Rows'
        /\ \A i \in JobIds : Ended(i) => job'[i] = job[i]
        /\ \A i \in Rows : job[i].state # "queued" => job'[i].state # "queued"
<1> SUFFICES ASSUME JobsInv, [Next]_vars
             PROVE  /\ Rows \subseteq Rows'
                    /\ \A i \in JobIds : Ended(i) => job'[i] = job[i]
                    /\ \A i \in Rows : job[i].state # "queued" => job'[i].state # "queued"
  OBVIOUS
<1>1. \A i \in JobIds : Moved(i)
  BY JobsMove
<1> QED
  BY <1>1, NoneAssumption DEF Moved, Active, Ended, Rows, ActiveStates, TerminalStates

(* What is a function of what, for the steps that update one element. *)
Functions ==
    /\ DOMAIN job = JobIds /\ DOMAIN run = JobIds /\ DOMAIN published = JobIds /\ DOMAIN digest = JobIds
    /\ DOMAIN pc = Workers /\ DOMAIN cause = Workers /\ DOMAIN canceller = JobIds
    /\ DOMAIN claim = Keys /\ DOMAIN request = Keys

(* They are, in every state. *)
LEMMA AreFunctions == JobsInv => Functions
BY DEF JobsInv, TypeInv, RowsType, WorkersType, ClientsType, Functions

(* A row that was inserted is there. *)
LEMMA Inserted ==
    ASSUME JobsInv, NEW j \in JobIds, NEW s \in Setups, Insert(j, s)
    PROVE  j \in Rows'
<1>1. job' = [job EXCEPT ![j] = [setup |-> s, base |-> revision[s], state |-> "queued"]] /\ DOMAIN job = JobIds
  BY AreFunctions DEF Insert, Functions
<1>2. [setup |-> s, base |-> revision[s], state |-> "queued"] \in Job
  BY DEF JobsInv, TypeInv, RowsType, Job, ActiveStates
<1> QED
  BY <1>1, <1>2, NoneAssumption DEF Rows

(* Workers, cancellations and runs never outlive their row. *)
LEMMA JobsRootedKept == JobsInv /\ [Next]_vars => JobsRooted'
<1> USE WorkersHaveJobs DEF vars, rows, registry, workers, clients, bounds, Functions, JobsRooted
<1>1. SUFFICES ASSUME JobsInv, [Next]_vars PROVE JobsRooted'
  OBVIOUS
<1>2. JobsRooted
  BY <1>1 DEF JobsInv, DataInv, Rooted, JobsRooted, ClientsRooted
<1>3. ClientsRooted
  BY <1>1 DEF JobsInv, DataInv, Rooted, JobsRooted, ClientsRooted
<1>4. Functions
  BY <1>1, AreFunctions
<1>5. Rows \subseteq Rows'
  BY <1>1, RowsStay
<1>6. ASSUME NEW j \in JobIds, NEW s \in Setups, ValidateSetup(j, s) PROVE JobsRooted'
  BY <1>2, <1>3, <1>4, <1>5, <1>6, <1>1, Inserted DEF ValidateSetup, Start
<1>7. ASSUME NEW j \in JobIds, NEW s \in Setups, DuplicateSetup(j, s) PROVE JobsRooted'
  BY <1>2, <1>3, <1>4, <1>5, <1>7, <1>1, Inserted DEF DuplicateSetup, Start
<1>8. ASSUME NEW j \in JobIds, NEW s \in Setups, RestoreSetup(j, s) PROVE JobsRooted'
  BY <1>2, <1>3, <1>4, <1>5, <1>8, <1>1, Inserted DEF RestoreSetup, Start
<1>9. ASSUME NEW j \in JobIds, NEW s \in Setups, Prepare(j, s) PROVE JobsRooted'
  BY <1>2, <1>3, <1>4, <1>5, <1>9 DEF Prepare
<1>10. ASSUME NEW w \in Workers, Launch(w) PROVE JobsRooted'
  BY <1>2, <1>3, <1>4, <1>5, <1>10 DEF Launch, Register
<1>11. ASSUME NEW w \in Workers, Acquire(w) PROVE JobsRooted'
  BY <1>2, <1>3, <1>4, <1>5, <1>11 DEF Acquire, Goto
<1>12. ASSUME NEW w \in Workers, MarkRunning(w) PROVE JobsRooted'
  BY <1>2, <1>3, <1>4, <1>5, <1>12 DEF MarkRunning, Goto
<1>13. ASSUME NEW w \in Workers, BeginValidation(w) PROVE JobsRooted'
  BY <1>2, <1>3, <1>4, <1>5, <1>13 DEF BeginValidation, Goto
<1>14. ASSUME NEW w \in Workers, TakeLock(w) PROVE JobsRooted'
  BY <1>2, <1>3, <1>4, <1>5, <1>14 DEF TakeLock
<1>15. ASSUME NEW w \in Workers, Commit(w) PROVE JobsRooted'
  BY <1>2, <1>3, <1>4, <1>5, <1>15 DEF Commit, Working, FinishTx, CommitValidation, CommitDuplicate,
       CommitRestore, CommitUpload, FinishClaim, Goto
<1>16. ASSUME NEW w \in Workers, Conflict(w) PROVE JobsRooted'
  BY <1>2, <1>3, <1>4, <1>5, <1>16 DEF Conflict, Working, FinishTx, Goto
<1>17. ASSUME NEW w \in Workers, Interrupt(w) PROVE JobsRooted'
  BY <1>2, <1>3, <1>4, <1>5, <1>17 DEF Interrupt, Working, Goto
<1>18. ASSUME NEW w \in Workers, Abort(w) PROVE JobsRooted'
  BY <1>2, <1>3, <1>4, <1>5, <1>18 DEF Abort, Terminal, Outcome
<1>19. ASSUME NEW w \in Workers, Finish(w) PROVE JobsRooted'
  BY <1>2, <1>3, <1>4, <1>5, <1>19 DEF Finish, Terminal, Outcome
<1>20. ASSUME NEW w \in Workers, FinishUpload(w) PROVE JobsRooted'
  BY <1>2, <1>3, <1>4, <1>5, <1>20 DEF FinishUpload, Terminal, Outcome, FinishClaim
<1>21. ASSUME NEW w \in Workers, Leave(w) PROVE JobsRooted'
  BY <1>2, <1>3, <1>4, <1>5, <1>21 DEF Leave, Deregister
<1>22. ASSUME NEW w \in Workers, LeaveUpload(w) PROVE JobsRooted'
  BY <1>2, <1>3, <1>4, <1>5, <1>22 DEF LeaveUpload, Deregister
<1>23. ASSUME NEW j \in JobIds, Cancel(j) PROVE JobsRooted'
  BY <1>2, <1>3, <1>4, <1>5, <1>23 DEF Cancel, Cancelling, Active
<1>24. ASSUME NEW j \in JobIds, Unqueue(j) PROVE JobsRooted'
  BY <1>2, <1>3, <1>4, <1>5, <1>24 DEF Unqueue, EndQueuedRun, Cancelling
<1>25. ASSUME NEW j \in JobIds, Drop(j) PROVE JobsRooted'
  BY <1>2, <1>3, <1>4, <1>5, <1>25 DEF Drop, Cancelling
<1>26. ASSUME NEW j \in JobIds, RequestCancel(j) PROVE JobsRooted'
  BY <1>2, <1>3, <1>4, <1>5, <1>26 DEF RequestCancel, Cancelling
<1>27. ASSUME NEW j \in JobIds, Late(j) PROVE JobsRooted'
  BY <1>2, <1>3, <1>4, <1>5, <1>27 DEF Late, EndQueuedRun, Cancelling
<1>28. ASSUME NEW j \in JobIds, Signal(j) PROVE JobsRooted'
  BY <1>2, <1>3, <1>4, <1>5, <1>28 DEF Signal, Cancelling
<1>29. ASSUME NEW k \in Keys, Begin(k) PROVE JobsRooted'
  <2>1. request[k].job \in Rows /\ request[k].job \in JobIds
    BY <1>3, <1>29 DEF Begin, ClientsRooted, Rows
  <2>2. \A w \in Workers : w # request[k].job => pc'[w] = pc[w]
    BY <1>4, <1>29 DEF Begin, Goto
  <2>3. \A w \in Workers : pc'[w] # "none" => JobOf(w) \in Rows'
    BY <1>2, <1>5, <2>1, <2>2
  <2>4. UNCHANGED <<canceller, run>>
    BY <1>29 DEF Begin
  <2> QED
    BY <1>2, <1>5, <2>3, <2>4
<1>30. ASSUME Die PROVE JobsRooted'
  BY <1>2, <1>3, <1>4, <1>5, <1>30 DEF Die
<1>31. ASSUME Restart PROVE JobsRooted'
  BY <1>2, <1>3, <1>4, <1>5, <1>31 DEF Restart
<1>32. ASSUME NEW r \in Repeats, RepeatDuplicate(r) PROVE JobsRooted'
  BY <1>2, <1>3, <1>4, <1>5, <1>32 DEF RepeatDuplicate
<1>33. CASE UNCHANGED <<pc, cause, job, run, published, digest, canceller>>
  BY <1>2, <1>3, <1>4, <1>5, <1>33
<1> QED
  BY <1>1, <1>6, <1>7, <1>8, <1>9, <1>10, <1>11, <1>12, <1>13, <1>14, <1>15, <1>16, <1>17, <1>18, <1>19, <1>20,
       <1>21, <1>22, <1>23, <1>24, <1>25, <1>26, <1>27, <1>28, <1>29, <1>30, <1>31, <1>32, <1>33, PcWriters,
       JobWriters, CancellerWriters

RequestMoved(k) ==
    \/ request'[k] = request[k]
    \/ /\ request'[k] \in Request
       /\ request[k] # None => request'[k].job = request[k].job
       /\ request[k] = None => request'[k].job \in Rows

(* A request whose position or answer is edited is still a request for the same job and bytes. *)
LEMMA RequestEdited ==
    ASSUME ClientsType, NEW k \in Keys, request[k] # None, NEW r,
           \/ \E p \in {"load", "begin", "run", "answered"} : r = [request[k] EXCEPT !.pc = p]
           \/ \E a \in TerminalStates \cup {"none", "refused"} : r = [request[k] EXCEPT !.answer = a]
           \/ \E p \in {"load", "begin", "run", "answered"}, a \in TerminalStates \cup {"none", "refused"} :
                 r = [request[k] EXCEPT !.pc = p, !.answer = a]
    PROVE  r \in Request /\ r.job = request[k].job /\ r.body = request[k].body
<1>1. request[k] \in Request
  BY DEF ClientsType
<1> QED
  BY <1>1 DEF Request

(* Writing one request moves no other. *)
LEMMA OneRequest ==
    ASSUME Functions, NEW k \in Keys, NEW r \in Request, request' = [request EXCEPT ![k] = r],
           request[k] # None => r.job = request[k].job, request[k] = None => r.job \in Rows
    PROVE  \A i \in Keys : RequestMoved(i)
BY DEF Functions, RequestMoved

(* A request is left alone, edited, or sent about a job that exists. *)
LEMMA RequestsMove == JobsInv /\ [Next]_vars => \A i \in Keys : RequestMoved(i)
<1> USE WorkersHaveJobs DEF vars, rows, registry, workers, clients, bounds, Functions, RequestMoved
<1>1. SUFFICES ASSUME JobsInv, [Next]_vars PROVE \A i \in Keys : RequestMoved(i)
  OBVIOUS
<1>2. Functions /\ ClientsType
  BY <1>1, AreFunctions DEF JobsInv, TypeInv
<1>3. Written /\ CauseTold /\ Resulted
  BY <1>1 DEF JobsInv, DataInv
<1>4. ASSUME NEW w \in Workers, LeaveUpload(w) PROVE \A i \in Keys : RequestMoved(i)
  <2> DEFINE k == Writer(JobOf(w))
  <2> DEFINE r == [request[k] EXCEPT !.pc = "answered", !.answer = job[JobOf(w)].state]
  <2>1. k \in Keys /\ request[k] # None
    BY <1>2, <1>3, <1>4, WriterRuns DEF LeaveUpload, Deregister, Runs
  <2>2. job[JobOf(w)].state \in TerminalStates
    BY <1>3, <1>4 DEF LeaveUpload, Deregister, CauseTold, CauseOk, Ended
  <2>3. r \in Request /\ r.job = request[k].job
    BY <1>2, <2>1, <2>2, RequestEdited
  <2>4. request' = [request EXCEPT ![k] = r]
    BY <1>2, <1>4, <2>1 DEF LeaveUpload, Deregister, ClientsType, Request
  <2> HIDE DEF r, k
  <2> QED
    BY <1>2, <2>1, <2>3, <2>4, OneRequest
<1>5. ASSUME NEW k \in Keys, Load(k) PROVE \A i \in Keys : RequestMoved(i)
  <2>1. k \in Keys /\ request[k] # None
    BY <1>5 DEF Load, Begin
  <2>2. CASE Ended(request[k].job) /\ SameBytes(request[k].job, request[k].body)
    <3> DEFINE r == [request[k] EXCEPT !.pc = "answered", !.answer = job[request[k].job].state]
    <3>1. r \in Request /\ r.job = request[k].job
      BY <1>2, <2>1, <2>2, RequestEdited DEF Ended
    <3>2. request' = [request EXCEPT ![k] = r]
      <4>1. Answer(k, job[request[k].job].state)
        BY <1>5, <2>2 DEF Load, Ended, TerminalStates
      <4> QED
        BY <1>2, <2>1, <4>1 DEF Answer, ClientsType, Request
    <3> HIDE DEF r
    <3> QED
      BY <1>2, <2>1, <3>1, <3>2, OneRequest
  <2>3. CASE ~(Ended(request[k].job) /\ SameBytes(request[k].job, request[k].body))
             /\ job[request[k].job].state = "queued"
    <3> DEFINE r == [request[k] EXCEPT !.pc = "begin"]
    <3>1. r \in Request /\ r.job = request[k].job
      BY <1>2, <2>1, <2>3, RequestEdited
    <3>2. request' = [request EXCEPT ![k] = r]
      BY <1>2, <1>5, <2>1, <2>3 DEF Load, FinishClaim, Answer, ClientsType, Request
    <3> HIDE DEF r
    <3> QED
      BY <1>2, <2>1, <3>1, <3>2, OneRequest
  <2>4. CASE ~(Ended(request[k].job) /\ SameBytes(request[k].job, request[k].body))
             /\ job[request[k].job].state # "queued"
    <3> DEFINE r == [request[k] EXCEPT !.pc = "answered", !.answer = "refused"]
    <3>1. r \in Request /\ r.job = request[k].job
      BY <1>2, <2>1, <2>4, RequestEdited
    <3>2. request' = [request EXCEPT ![k] = r]
      BY <1>2, <1>5, <2>1, <2>4 DEF Load, FinishClaim, Answer, ClientsType, Request
    <3> HIDE DEF r
    <3> QED
      BY <1>2, <2>1, <3>1, <3>2, OneRequest
  <2> QED
    BY <2>2, <2>3, <2>4
<1>6. ASSUME NEW k \in Keys, Begin(k) PROVE \A i \in Keys : RequestMoved(i)
  <2>1. k \in Keys /\ request[k] # None
    BY <1>6 DEF Load, Begin
  <2>2. CASE Closing \/ registered[request[k].job] # None
    <3> DEFINE r == [request[k] EXCEPT !.pc = "answered", !.answer = "refused"]
    <3>1. r \in Request /\ r.job = request[k].job
      BY <1>2, <2>1, <2>2, RequestEdited
    <3>2. request' = [request EXCEPT ![k] = r]
      BY <1>2, <1>6, <2>1, <2>2 DEF Begin, Register, FinishClaim, Answer, Goto, ClientsType, Request
    <3> HIDE DEF r
    <3> QED
      BY <1>2, <2>1, <3>1, <3>2, OneRequest
  <2>3. CASE ~(Closing \/ registered[request[k].job] # None)
    <3> DEFINE r == [request[k] EXCEPT !.pc = "run"]
    <3>1. r \in Request /\ r.job = request[k].job
      BY <1>2, <2>1, <2>3, RequestEdited
    <3>2. request' = [request EXCEPT ![k] = r]
      BY <1>2, <1>6, <2>1, <2>3 DEF Begin, Register, Goto, ClientsType, Request
    <3> HIDE DEF r
    <3> QED
      BY <1>2, <2>1, <3>1, <3>2, OneRequest
  <2> QED
    BY <2>2, <2>3
<1>7. ASSUME NEW k \in Keys, NEW j \in JobIds, NEW body \in Bodies, Send(k, j, body)
      PROVE  \A i \in Keys : RequestMoved(i)
  <2> DEFINE sent == [job |-> j, body |-> body, pc |-> "load", answer |-> "none"]
  <2>1. sent \in Request /\ sent.job = j
    BY DEF Request
  <2>2. SameBytes(j, body) => job[j].state \in TerminalStates
    BY <1>3, NoneAssumption DEF SameBytes, Resulted, ResultOk, Ended
  <2>3. \A answer \in TerminalStates \cup {"refused"} :
          LET r == [sent EXCEPT !.pc = "answered", !.answer = answer] IN r \in Request /\ r.job = j
    BY DEF Request
  <2>4. \E r \in Request : r.job = j /\ request' = [request EXCEPT ![k] = r]
    <3>1. CASE request' = [request EXCEPT ![k] = sent]
      BY <2>1, <3>1
    <3>2. ASSUME NEW answer \in TerminalStates \cup {"refused"},
                 request' = [request EXCEPT ![k] = [sent EXCEPT !.pc = "answered", !.answer = answer]]
          PROVE  \E r \in Request : r.job = j /\ request' = [request EXCEPT ![k] = r]
      BY <2>3, <3>2
    <3> QED
      BY <1>7, <2>2, <3>1, <3>2 DEF Send
  <2> HIDE DEF sent
  <2>5. j \in Rows /\ (request[k] # None => request[k].job = j)
    BY <1>7 DEF Send
  <2> QED
    BY <1>2, <2>4, <2>5, OneRequest
<1>8. ASSUME NEW k \in Keys, Expire(k) PROVE \A i \in Keys : RequestMoved(i)
  <2> DEFINE r == [request[k] EXCEPT !.answer = "none"]
  <2>1. k \in Keys /\ request[k] # None
    BY <1>8 DEF Expire
  <2>2. r \in Request /\ r.job = request[k].job
    BY <1>2, <2>1, RequestEdited
  <2>3. request' = [request EXCEPT ![k] = r]
    BY <1>2, <1>8, <2>1 DEF Expire, ClientsType, Request
  <2> HIDE DEF r
  <2> QED
    BY <1>2, <2>1, <2>2, <2>3, OneRequest
<1>9. ASSUME Die PROVE \A i \in Keys : RequestMoved(i)
  <2> SUFFICES ASSUME NEW i \in Keys PROVE RequestMoved(i)
    OBVIOUS
  <2>1. CASE request[i] = None
    BY <1>9, <2>1 DEF Die
  <2>2. CASE request[i] # None
    <3>1. request'[i] = [request[i] EXCEPT !.pc = "answered", !.answer = "none"]
      BY <1>9, <2>2 DEF Die
    <3> QED
      BY <1>2, <2>2, <3>1, RequestEdited
  <2> QED
    BY <2>1, <2>2
<1>10. CASE UNCHANGED request
  BY <1>2, <1>3, <1>10
<1> QED
  BY <1>1, <1>4, <1>5, <1>6, <1>7, <1>8, <1>9, <1>10, RequestWriters

(* Requests and claims never outlive what they refer to. *)
LEMMA ClientsRootedKept == JobsInv /\ [Next]_vars => ClientsRooted'
<1> USE WorkersHaveJobs, NoneAssumption
    DEF vars, rows, registry, workers, clients, bounds, Functions, RequestMoved, ClientsRooted
<1>1. SUFFICES ASSUME JobsInv, [Next]_vars PROVE ClientsRooted'
  OBVIOUS
<1>2. ClientsRooted
  BY <1>1 DEF JobsInv, DataInv, Rooted, JobsRooted, ClientsRooted
<1>3. Functions
  BY <1>1, AreFunctions
<1>4. \A i \in Keys : RequestMoved(i)
  BY <1>1, RequestsMove
<1>5. Rows \subseteq Rows'
  BY <1>1, RowsStay
<1>6. Written /\ ClientsType
  BY <1>1 DEF JobsInv, DataInv, TypeInv
<1>a. UNCHANGED claim => ClientsRooted'
  BY <1>2, <1>3, <1>4, <1>5
<1>7. ASSUME NEW w \in Workers, Commit(w) PROVE ClientsRooted'
  <2>1. CASE UNCHANGED claim
    BY <1>a, <2>1
  <2>2. CASE claim' = [claim EXCEPT ![Writer(JobOf(w))] = "completed"] /\ Kind(JobOf(w)) = "upload"
    <3>1. Writer(JobOf(w)) \in Keys /\ request[Writer(JobOf(w))] # None
      BY <1>6, <1>7, <2>2, WriterRuns DEF Commit, Working, Runs
    <3> QED
      BY <1>2, <1>3, <1>4, <1>5, <2>2, <3>1
  <2> QED
    BY <1>7, <2>1, <2>2 DEF Commit, CommitValidation, CommitDuplicate, CommitRestore, CommitUpload, FinishClaim
<1>8. ASSUME NEW w \in Workers, FinishUpload(w) PROVE ClientsRooted'
  <2>1. Writer(JobOf(w)) \in Keys /\ request[Writer(JobOf(w))] # None
    BY <1>6, <1>8, WriterRuns DEF FinishUpload, Runs
  <2> QED
    BY <1>2, <1>3, <1>4, <1>5, <1>8, <2>1 DEF FinishUpload, FinishClaim
<1>9. ASSUME NEW w \in Workers, LeaveUpload(w) PROVE ClientsRooted'
  BY <1>2, <1>3, <1>4, <1>5, <1>6, <1>9 DEF LeaveUpload, Deregister
<1>10. ASSUME NEW k \in Keys, Load(k) PROVE ClientsRooted'
  BY <1>2, <1>3, <1>4, <1>5, <1>6, <1>10 DEF Load, FinishClaim, Answer
<1>11. ASSUME NEW k \in Keys, Begin(k) PROVE ClientsRooted'
  BY <1>2, <1>3, <1>4, <1>5, <1>6, <1>11 DEF Begin, Register, FinishClaim, Answer, Goto
<1>12. ASSUME NEW k \in Keys, NEW j \in JobIds, NEW body \in Bodies, Send(k, j, body) PROVE ClientsRooted'
  <2>1. CASE UNCHANGED claim
    BY <1>a, <2>1
  <2>2. CASE /\ claim' = [claim EXCEPT ![k] = "in_progress"]
              /\ request' = [request EXCEPT ![k] = [job |-> j, body |-> body, pc |-> "load", answer |-> "none"]]
    <3>1. [job |-> j, body |-> body, pc |-> "load", answer |-> "none"] \in Request
      BY DEF Request
    <3> QED
      BY <1>2, <1>3, <1>4, <1>5, <2>2, <3>1
  <2> QED
    BY <1>12, <2>1, <2>2 DEF Send
<1>13. ASSUME NEW k \in Keys, Expire(k) PROVE ClientsRooted'
  BY <1>2, <1>3, <1>4, <1>5, <1>6, <1>13 DEF Expire
<1>14. ASSUME Die PROVE ClientsRooted'
  BY <1>a, <1>14 DEF Die
<1>15. ASSUME Restart PROVE ClientsRooted'
  BY <1>2, <1>3, <1>4, <1>5, <1>6, <1>15 DEF Restart
<1>16. CASE UNCHANGED <<request, claim>>
  BY <1>2, <1>3, <1>4, <1>5, <1>6, <1>16
<1> QED
  BY <1>1, <1>7, <1>8, <1>9, <1>10, <1>11, <1>12, <1>13, <1>14, <1>15, <1>16, RequestWriters, ClaimWriters

(* An upload that runs keeps the request it runs for. *)
LEMMA WrittenKept == JobsInv /\ [Next]_vars => Written'
<1> USE WorkersHaveJobs DEF vars, rows, registry, workers, clients, bounds, Functions, Written, Runs, Kind
<1>1. SUFFICES ASSUME JobsInv, [Next]_vars PROVE Written'
  OBVIOUS
<1>2. Written /\ ClientsType
  BY <1>1 DEF JobsInv, DataInv, TypeInv
<1>3. Functions
  BY <1>1, AreFunctions
<1>4. ASSUME NEW j \in JobIds, NEW s \in Setups, ValidateSetup(j, s) PROVE Written'
  BY <1>2, <1>3, <1>4 DEF ValidateSetup, Start
<1>5. ASSUME NEW j \in JobIds, NEW s \in Setups, DuplicateSetup(j, s) PROVE Written'
  BY <1>2, <1>3, <1>5 DEF DuplicateSetup, Start
<1>6. ASSUME NEW j \in JobIds, NEW s \in Setups, RestoreSetup(j, s) PROVE Written'
  BY <1>2, <1>3, <1>6 DEF RestoreSetup, Start
<1>7. ASSUME NEW w \in Workers, Launch(w) PROVE Written'
  BY <1>2, <1>3, <1>7 DEF Launch, Register
<1>8. ASSUME NEW w \in Workers, Acquire(w) PROVE Written'
  BY <1>2, <1>3, <1>8 DEF Acquire, Goto
<1>9. ASSUME NEW w \in Workers, MarkRunning(w) PROVE Written'
  BY <1>2, <1>3, <1>9 DEF MarkRunning, Goto
<1>10. ASSUME NEW w \in Workers, BeginValidation(w) PROVE Written'
  BY <1>2, <1>3, <1>10 DEF BeginValidation, Goto
<1>11. ASSUME NEW w \in Workers, TakeLock(w) PROVE Written'
  BY <1>2, <1>3, <1>11 DEF TakeLock
<1>12. ASSUME NEW w \in Workers, Commit(w) PROVE Written'
  BY <1>2, <1>3, <1>12 DEF Commit, Working, FinishTx, CommitValidation, CommitDuplicate, CommitRestore,
       CommitUpload, FinishClaim, Goto
<1>13. ASSUME NEW w \in Workers, Conflict(w) PROVE Written'
  BY <1>2, <1>3, <1>13 DEF Conflict, Working, FinishTx, Goto
<1>14. ASSUME NEW w \in Workers, Interrupt(w) PROVE Written'
  BY <1>2, <1>3, <1>14 DEF Interrupt, Working, Goto
<1>15. ASSUME NEW w \in Workers, Abort(w) PROVE Written'
  BY <1>2, <1>3, <1>15 DEF Abort, Terminal, Outcome
<1>16. ASSUME NEW w \in Workers, Finish(w) PROVE Written'
  BY <1>2, <1>3, <1>16 DEF Finish, Terminal, Outcome
<1>17. ASSUME NEW w \in Workers, FinishUpload(w) PROVE Written'
  BY <1>2, <1>3, <1>17 DEF FinishUpload, Terminal, Outcome, FinishClaim
<1>18. ASSUME NEW w \in Workers, Leave(w) PROVE Written'
  BY <1>2, <1>3, <1>18 DEF Leave, Deregister
<1>19. ASSUME NEW w \in Workers, LeaveUpload(w) PROVE Written'
  <2>1. Writer(JobOf(w)) \in Keys /\ request[Writer(JobOf(w))].job = JobOf(w)
    BY <1>2, <1>19, WriterRuns DEF LeaveUpload, Deregister
  <2>2. \A k \in Keys : k # Writer(JobOf(w)) => request'[k] = request[k]
    BY <1>3, <1>19 DEF LeaveUpload, Deregister
  <2> QED
    BY <1>2, <1>3, <1>19, <2>1, <2>2 DEF LeaveUpload, Deregister
<1>20. ASSUME NEW j \in JobIds, Cancel(j) PROVE Written'
  BY <1>2, <1>3, <1>20 DEF Cancel, Cancelling
<1>21. ASSUME NEW k \in Keys, Load(k) PROVE Written'
  BY <1>2, <1>3, <1>21 DEF Load, FinishClaim, Answer
<1>22. ASSUME NEW k \in Keys, Begin(k) PROVE Written'
  <2>1. CASE UNCHANGED pc
    <3>1. \A i \in Keys : request[i] # None /\ request[i].pc = "run" => request'[i] = request[i]
      BY <1>3, <1>22 DEF Begin, Register, Answer, Goto
    <3> QED
      BY <1>2, <1>3, <1>22, <2>1, <3>1 DEF Begin, Register
  <2>2. CASE /\ pc' = [pc EXCEPT ![request[k].job] = "mark"]
              /\ request' = [request EXCEPT ![k].pc = "run"]
    <3>1. request[k] \in Request /\ request'[k] = [request[k] EXCEPT !.pc = "run"]
      BY <1>2, <1>22, <2>2 DEF Begin, Register, ClientsType
    <3>2. request'[k] # None /\ request'[k].job = request[k].job /\ request'[k].pc = "run"
      BY <1>2, <1>3, <1>22, <2>2, <3>1, NoneAssumption, RequestEdited DEF Begin, Register, Request
    <3>3. \A i \in Keys : request[i] # None /\ request[i].pc = "run" => request'[i] = request[i]
      BY <1>3, <1>22, <2>2 DEF Begin, Register
    <3>4. request[k].job \in JobIds /\ \A w \in Workers : w # request[k].job => pc'[w] = pc[w]
      BY <1>2, <1>3, <2>2, <3>1 DEF Request
    <3>5. plan' = plan
      BY <1>1, PlanKept
    <3>6. \A w \in Workers : w # request[k].job /\ Kind(JobOf(w)) = "upload" /\ pc'[w] # "none"
                              => w \in JobIds /\ \E i \in Keys : Runs(i, w)'
      BY <1>2, <3>3, <3>4
    <3> QED
      BY <3>2, <3>4, <3>5, <3>6
  <2> QED
    BY <1>22, <2>1, <2>2 DEF Begin, Register, Goto
<1>23. ASSUME NEW k \in Keys, NEW j \in JobIds, NEW body \in Bodies, Send(k, j, body) PROVE Written'
  BY <1>2, <1>3, <1>23 DEF Send
<1>24. ASSUME NEW k \in Keys, Expire(k) PROVE Written'
  BY <1>2, <1>3, <1>24 DEF Expire
<1>25. ASSUME NEW s \in Setups, Edit(s) PROVE Written'
  BY <1>2, <1>3, <1>25 DEF Edit
<1>26. ASSUME Close PROVE Written'
  BY <1>2, <1>3, <1>26 DEF Close
<1>27. ASSUME SignalAll PROVE Written'
  BY <1>2, <1>3, <1>27 DEF SignalAll
<1>28. ASSUME Wait PROVE Written'
  BY <1>2, <1>3, <1>28 DEF Wait
<1>29. ASSUME Die PROVE Written'
  BY <1>2, <1>3, <1>29 DEF Die
<1>30. ASSUME Restart PROVE Written'
  BY <1>2, <1>3, <1>30 DEF Restart
<1>31. ASSUME NEW r \in Repeats, RepeatDuplicate(r) PROVE Written'
  BY <1>2, <1>3, <1>31 DEF RepeatDuplicate
<1>32. CASE UNCHANGED <<pc, cause, request, service, bounds>>
  BY <1>2, <1>3, <1>32
<1> QED
  BY <1>1, <1>4, <1>5, <1>6, <1>7, <1>8, <1>9, <1>10, <1>11, <1>12, <1>13, <1>14, <1>15, <1>16, <1>17, <1>18,
       <1>19, <1>20, <1>21, <1>22, <1>23, <1>24, <1>25, <1>26, <1>27, <1>28, <1>29, <1>30, <1>31, <1>32, PcWriters,
       RequestWriters, ServiceWriters

(* A row that has left the queue does not return to it while it is being cancelled. *)
LEMMA LeftQueueKept == JobsInv /\ [Next]_vars => LeftQueue'
<1> USE DEF vars, rows, registry, workers, clients, bounds, Functions
<1>1. SUFFICES ASSUME JobsInv, [Next]_vars PROVE LeftQueue'
  OBVIOUS
<1>2. LeftQueue
  BY <1>1 DEF JobsInv, DataInv, TypeInv
<1>3. Functions
  BY <1>1, AreFunctions
<1>4. UNCHANGED canceller => LeftQueue'
  BY <1>1, RowsStay DEF JobsInv, DataInv, Rooted, JobsRooted, ClientsRooted, LeftQueue
<1>5. \A i \in Rows : job[i].state # "queued" => job'[i].state # "queued"
  BY <1>1, RowsStay
<1>6. JobsRooted
  BY <1>1 DEF JobsInv, DataInv, Rooted, JobsRooted, ClientsRooted
<1>7. ASSUME NEW j \in JobIds, Cancel(j) PROVE LeftQueue'
  BY <1>2, <1>3, <1>4, <1>5, <1>6, <1>7 DEF Cancel, Cancelling, Active, LeftQueue, JobsRooted
<1>8. ASSUME NEW j \in JobIds, Unqueue(j) PROVE LeftQueue'
  BY <1>2, <1>3, <1>4, <1>5, <1>6, <1>8 DEF Unqueue, EndQueuedRun, Cancelling, LeftQueue, JobsRooted
<1>9. ASSUME NEW j \in JobIds, Drop(j) PROVE LeftQueue'
  BY <1>2, <1>3, <1>4, <1>5, <1>6, <1>9 DEF Drop, Cancelling, LeftQueue, JobsRooted
<1>10. ASSUME NEW j \in JobIds, RequestCancel(j) PROVE LeftQueue'
  BY <1>2, <1>3, <1>4, <1>5, <1>6, <1>10 DEF RequestCancel, Cancelling, LeftQueue, JobsRooted
<1>11. ASSUME NEW j \in JobIds, Late(j) PROVE LeftQueue'
  BY <1>2, <1>3, <1>4, <1>5, <1>6, <1>11 DEF Late, EndQueuedRun, Cancelling, LeftQueue, JobsRooted
<1>12. ASSUME NEW j \in JobIds, Signal(j) PROVE LeftQueue'
  BY <1>2, <1>3, <1>4, <1>5, <1>6, <1>12 DEF Signal, Cancelling, LeftQueue, JobsRooted
<1>13. ASSUME Die PROVE LeftQueue'
  BY <1>2, <1>3, <1>4, <1>5, <1>6, <1>13 DEF Die, LeftQueue, JobsRooted
<1>14. CASE UNCHANGED canceller
  BY <1>2, <1>3, <1>4, <1>5, <1>6, <1>14
<1> QED
  BY <1>1, <1>7, <1>8, <1>9, <1>10, <1>11, <1>12, <1>13, <1>14, CancellerWriters

(* No worker is registered once Wait has returned. *)
LEMMA BarrierKept == JobsInv /\ [Next]_vars => BarrierAfterWait'
<1> USE DEF vars, rows, registry, workers, clients, bounds, BarrierAfterWait
<1>1. SUFFICES ASSUME JobsInv, [Next]_vars PROVE BarrierAfterWait'
  OBVIOUS
<1>2. BarrierAfterWait
  BY <1>1 DEF JobsInv
<1>3. ASSUME NEW w \in Workers, Launch(w) PROVE BarrierAfterWait'
  BY <1>2, <1>3 DEF Launch, Register, Closing
<1>4. ASSUME NEW w \in Workers, Leave(w) PROVE BarrierAfterWait'
  BY <1>2, <1>4 DEF Leave, Deregister
<1>5. ASSUME NEW w \in Workers, LeaveUpload(w) PROVE BarrierAfterWait'
  BY <1>2, <1>5 DEF LeaveUpload, Deregister
<1>6. ASSUME NEW j \in JobIds, Cancel(j) PROVE BarrierAfterWait'
  BY <1>2, <1>6 DEF Cancel, Cancelling
<1>7. ASSUME NEW k \in Keys, Begin(k) PROVE BarrierAfterWait'
  BY <1>2, <1>7 DEF Begin, Register, Closing, FinishClaim, Answer, Goto
<1>8. ASSUME NEW k \in Keys, NEW j \in JobIds, NEW body \in Bodies, Send(k, j, body) PROVE BarrierAfterWait'
  BY <1>2, <1>8 DEF Send
<1>9. ASSUME NEW s \in Setups, Edit(s) PROVE BarrierAfterWait'
  BY <1>2, <1>9 DEF Edit
<1>10. ASSUME Close PROVE BarrierAfterWait'
  BY <1>2, <1>10 DEF Close
<1>11. ASSUME SignalAll PROVE BarrierAfterWait'
  BY <1>2, <1>11 DEF SignalAll
<1>12. ASSUME Wait PROVE BarrierAfterWait'
  BY <1>2, <1>12 DEF Wait
<1>13. ASSUME Die PROVE BarrierAfterWait'
  BY <1>2, <1>13 DEF Die
<1>14. ASSUME Restart PROVE BarrierAfterWait'
  BY <1>2, <1>14 DEF Restart
<1>15. CASE UNCHANGED <<registered, counted, service, bounds>>
  BY <1>2, <1>15
<1> QED
  BY <1>1, <1>3, <1>4, <1>5, <1>6, <1>7, <1>8, <1>9, <1>10, <1>11, <1>12, <1>13, <1>14, <1>15,
       RegisteredWriters, ServiceWriters

-----------------------------------------------------------------------------
(* Workers, results and claims.                                             *)

(* A worker that does not move keeps what its position says of the row. *)
LEMMA CauseStays ==
    ASSUME JobsInv, [Next]_vars, NEW i \in Workers, pc'[i] = pc[i], cause'[i] = cause[i]
    PROVE  CauseOk(i)'
<1>1. CauseOk(i) /\ (pc[i] # "none" => JobOf(i) \in Rows)
  BY DEF JobsInv, DataInv, CauseTold, CauseOk, Rooted, JobsRooted, ClientsRooted
<1>2. Ended(JobOf(i)) => job'[JobOf(i)] = job[JobOf(i)] /\ JobOf(i) \in Rows'
  BY RowsStay, WorkersHaveJobs DEF Ended
<1> QED
  BY <1>1, <1>2 DEF CauseOk, Ended, TerminalStates

(* What a worker's position says of its row survives every step of anybody. *)
LEMMA CausesKept == JobsInv /\ [Next]_vars => \A i \in Workers : CauseOk(i)'
<1> USE WorkersHaveJobs DEF vars, rows, registry, workers, clients, bounds, Functions
<1>1. SUFFICES ASSUME JobsInv, [Next]_vars PROVE \A i \in Workers : CauseOk(i)'
  OBVIOUS
<1>2. Functions
  BY <1>1, AreFunctions
<1>3. WorkersType /\ JobsRooted /\ RowsType /\ \A j \in Workers : CauseOk(j)
  BY <1>1 DEF JobsInv, DataInv, TypeInv, CauseTold, CauseOk, Rooted, JobsRooted, ClientsRooted
<1>4. ASSUME NEW j \in JobIds, NEW s \in Setups, ValidateSetup(j, s) PROVE \A i \in Workers : CauseOk(i)'
  <2>1. \A i \in Workers : i # j => CauseOk(i)'
    BY <1>1, <1>2, <1>4, CauseStays DEF ValidateSetup, Start
  <2>2. CauseOk(j)'
    BY <1>2, <1>4 DEF ValidateSetup, Start, CauseOk
  <2> QED
    BY <2>1, <2>2
<1>5. ASSUME NEW j \in JobIds, NEW s \in Setups, DuplicateSetup(j, s) PROVE \A i \in Workers : CauseOk(i)'
  <2>1. \A i \in Workers : i # j => CauseOk(i)'
    BY <1>1, <1>2, <1>5, CauseStays DEF DuplicateSetup, Start
  <2>2. CauseOk(j)'
    BY <1>2, <1>5 DEF DuplicateSetup, Start, CauseOk
  <2> QED
    BY <2>1, <2>2
<1>6. ASSUME NEW j \in JobIds, NEW s \in Setups, RestoreSetup(j, s) PROVE \A i \in Workers : CauseOk(i)'
  <2>1. \A i \in Workers : i # j => CauseOk(i)'
    BY <1>1, <1>2, <1>6, CauseStays DEF RestoreSetup, Start
  <2>2. CauseOk(j)'
    BY <1>2, <1>6 DEF RestoreSetup, Start, CauseOk
  <2> QED
    BY <2>1, <2>2
<1>7. ASSUME NEW w \in Workers, Launch(w) PROVE \A i \in Workers : CauseOk(i)'
  <2>1. \A i \in Workers : i # w => CauseOk(i)'
    BY <1>1, <1>2, <1>7, CauseStays DEF Launch, Register
  <2>2. CauseOk(w)'
    BY <1>2, <1>7 DEF Launch, CauseOk
  <2> QED
    BY <2>1, <2>2
<1>8. ASSUME NEW w \in Workers, Acquire(w) PROVE \A i \in Workers : CauseOk(i)'
  <2>1. \A i \in Workers : i # w => CauseOk(i)'
    BY <1>1, <1>2, <1>8, CauseStays DEF Acquire, Goto
  <2>2. CauseOk(w)'
    BY <1>2, <1>8 DEF Acquire, Goto, CauseOk
  <2> QED
    BY <2>1, <2>2
<1>9. ASSUME NEW w \in Workers, MarkRunning(w) PROVE \A i \in Workers : CauseOk(i)'
  <2>1. \A i \in Workers : i # w => CauseOk(i)'
    BY <1>1, <1>2, <1>9, CauseStays DEF MarkRunning, Goto
  <2>2. CauseOk(w)'
    BY <1>2, <1>9 DEF MarkRunning, Goto, CauseOk
  <2> QED
    BY <2>1, <2>2
<1>10. ASSUME NEW w \in Workers, BeginValidation(w) PROVE \A i \in Workers : CauseOk(i)'
  <2>1. \A i \in Workers : i # w => CauseOk(i)'
    BY <1>1, <1>2, <1>10, CauseStays DEF BeginValidation, Goto
  <2>2. CauseOk(w)'
    BY <1>2, <1>10 DEF BeginValidation, Goto, CauseOk
  <2> QED
    BY <2>1, <2>2
<1>11. ASSUME NEW w \in Workers, TakeLock(w) PROVE \A i \in Workers : CauseOk(i)'
  <2>1. \A i \in Workers : i # w => CauseOk(i)'
    BY <1>1, <1>2, <1>11, CauseStays DEF TakeLock
  <2>2. CauseOk(w)'
    BY <1>2, <1>11 DEF TakeLock, CauseOk
  <2> QED
    BY <2>1, <2>2
<1>12. ASSUME NEW w \in Workers, Commit(w) PROVE \A i \in Workers : CauseOk(i)'
  <2>1. \A i \in Workers : i # w => CauseOk(i)'
    BY <1>1, <1>2, <1>12, CauseStays DEF Commit, CommitValidation, CommitDuplicate, CommitRestore, CommitUpload,
         Goto
  <2>2. CauseOk(w)'
    <3>1. pc'[w] \in {"finish", "leave"} /\ job'[JobOf(w)].state = "succeeded" /\ JobOf(w) \in Rows'
      <4>1. Active(JobOf(w)) /\ job' = [job EXCEPT ![JobOf(w)].state = "succeeded"]
        BY <1>12 DEF Commit, FinishTx
      <4>2. pc'[w] \in {"finish", "leave"}
        BY <1>2, <1>12 DEF Commit, CommitValidation, CommitDuplicate, CommitRestore, CommitUpload, Goto
      <4> QED
        BY <1>1, <1>2, <4>1, <4>2, RowsStay DEF Active
    <3> QED
      BY <3>1 DEF CauseOk, Ended, TerminalStates
  <2> QED
    BY <2>1, <2>2
<1>13. ASSUME NEW w \in Workers, Conflict(w) PROVE \A i \in Workers : CauseOk(i)'
  <2>1. \A i \in Workers : i # w => CauseOk(i)'
    BY <1>1, <1>2, <1>13, CauseStays DEF Conflict, Goto
  <2>2. CauseOk(w)'
    BY <1>2, <1>13 DEF Conflict, Goto, CauseOk
  <2> QED
    BY <2>1, <2>2
<1>14. ASSUME NEW w \in Workers, Interrupt(w) PROVE \A i \in Workers : CauseOk(i)'
  <2>1. \A i \in Workers : i # w => CauseOk(i)'
    BY <1>1, <1>2, <1>14, CauseStays DEF Interrupt, Goto, Causes
  <2>2. CauseOk(w)'
    BY <1>2, <1>14 DEF Interrupt, Goto, Causes, CauseOk
  <2> QED
    BY <2>1, <2>2
<1>15. ASSUME NEW w \in Workers, Abort(w) PROVE \A i \in Workers : CauseOk(i)'
  <2>1. \A i \in Workers : i # w => CauseOk(i)'
    BY <1>1, <1>2, <1>15, CauseStays DEF Abort
  <2>2. CauseOk(w)'
    BY <1>2, <1>3, <1>15 DEF Abort, CauseOk
  <2> QED
    BY <2>1, <2>2
<1>16. ASSUME NEW w \in Workers, Finish(w) PROVE \A i \in Workers : CauseOk(i)'
  <2>1. \A i \in Workers : i # w => CauseOk(i)'
    BY <1>1, <1>2, <1>16, CauseStays DEF Finish
  <2>2. CauseOk(w)'
    <3>1. pc'[w] = "leave" /\ job' = Terminal(JobOf(w), Outcome(cause[w])) /\ JobOf(w) \in Rows
          /\ Outcome(cause[w]) \in TerminalStates
      BY <1>2, <1>3, <1>16 DEF Finish, JobsRooted, WorkersType, Causes, Outcome, TerminalStates
    <3>2. CASE Active(JobOf(w))
      <4>1. job'[JobOf(w)].state \in TerminalStates
        BY <1>2, <3>1, <3>2 DEF Terminal, RowsType, Rows, Job
      <4> QED
        BY <1>1, <3>1, <4>1, RowsStay DEF CauseOk, Ended
    <3>3. CASE ~Active(JobOf(w))
      <4>1. Ended(JobOf(w)) /\ job' = job
        BY <1>3, <3>1, <3>3 DEF Active, Ended, Terminal, RowsType, Rows, Job
      <4> QED
        BY <1>1, <3>1, <4>1, RowsStay DEF CauseOk, Ended
    <3> QED
      BY <3>2, <3>3
  <2> QED
    BY <2>1, <2>2
<1>17. ASSUME NEW w \in Workers, FinishUpload(w) PROVE \A i \in Workers : CauseOk(i)'
  <2>1. \A i \in Workers : i # w => CauseOk(i)'
    BY <1>1, <1>2, <1>17, CauseStays DEF FinishUpload
  <2>2. CauseOk(w)'
    <3>1. pc'[w] = "leave" /\ job' = Terminal(JobOf(w), Outcome(cause[w])) /\ JobOf(w) \in Rows
          /\ Outcome(cause[w]) \in TerminalStates
      BY <1>2, <1>3, <1>17 DEF FinishUpload, JobsRooted, WorkersType, Causes, Outcome, TerminalStates
    <3>2. CASE Active(JobOf(w))
      <4>1. job'[JobOf(w)].state \in TerminalStates
        BY <1>2, <3>1, <3>2 DEF Terminal, RowsType, Rows, Job
      <4> QED
        BY <1>1, <3>1, <4>1, RowsStay DEF CauseOk, Ended
    <3>3. CASE ~Active(JobOf(w))
      <4>1. Ended(JobOf(w)) /\ job' = job
        BY <1>3, <3>1, <3>3 DEF Active, Ended, Terminal, RowsType, Rows, Job
      <4> QED
        BY <1>1, <3>1, <4>1, RowsStay DEF CauseOk, Ended
    <3> QED
      BY <3>2, <3>3
  <2> QED
    BY <2>1, <2>2
<1>18. ASSUME NEW w \in Workers, Leave(w) PROVE \A i \in Workers : CauseOk(i)'
  <2>1. \A i \in Workers : i # w => CauseOk(i)'
    BY <1>1, <1>2, <1>18, CauseStays DEF Leave, Deregister
  <2>2. CauseOk(w)'
    BY <1>2, <1>18 DEF Leave, Deregister, CauseOk
  <2> QED
    BY <2>1, <2>2
<1>19. ASSUME NEW w \in Workers, LeaveUpload(w) PROVE \A i \in Workers : CauseOk(i)'
  <2>1. \A i \in Workers : i # w => CauseOk(i)'
    BY <1>1, <1>2, <1>19, CauseStays DEF LeaveUpload, Deregister
  <2>2. CauseOk(w)'
    BY <1>2, <1>19 DEF LeaveUpload, Deregister, CauseOk
  <2> QED
    BY <2>1, <2>2
<1>20. ASSUME NEW k \in Keys, Begin(k) PROVE \A i \in Workers : CauseOk(i)'
  <2> SUFFICES ASSUME NEW i \in Workers PROVE CauseOk(i)'
    OBVIOUS
  <2>1. (pc'[i] = pc[i] /\ cause'[i] = cause[i]) \/ pc'[i] = "mark"
    BY <1>2, <1>20 DEF Begin, Register, Goto
  <2> QED
    BY <1>1, <2>1, CauseStays DEF CauseOk
<1>21. ASSUME Die PROVE \A i \in Workers : CauseOk(i)'
  <2> QED
    BY <1>21 DEF Die, CauseOk
<1>22. ASSUME NEW r \in Repeats, RepeatDuplicate(r) PROVE \A i \in Workers : CauseOk(i)'
  <2>1. \A i \in Workers : i # r => CauseOk(i)'
    BY <1>1, <1>2, <1>22, CauseStays DEF RepeatDuplicate
  <2>2. CauseOk(r)'
    BY <1>2, <1>22 DEF RepeatDuplicate, CauseOk
  <2> QED
    BY <2>1, <2>2
<1>23. CASE UNCHANGED <<pc, cause>>
  BY <1>2, <1>3, <1>23, <1>1, CauseStays
<1> QED
  BY <1>1, <1>4, <1>5, <1>6, <1>7, <1>8, <1>9, <1>10, <1>11, <1>12, <1>13, <1>14, <1>15, <1>16, <1>17, <1>18,
       <1>19, <1>20, <1>21, <1>22, <1>23, PcWriters

(* A row without a result may move, as long as it does not become a success. *)
LEMMA ResultStays ==
    ASSUME JobsInv, [Next]_vars, NEW i \in JobIds,
           published'[i] = published[i], digest'[i] = digest[i],
           run'[i] = run[i] \/ run'[i] \notin {"done", "conflict"},
           job'[i] = job[i] \/ job'[i].state # "succeeded"
    PROVE  ResultOk(i)'
<1>1. ResultOk(i)
  BY DEF JobsInv, DataInv, Resulted, ResultOk
<1>2. Ended(i) => job'[i] = job[i] /\ i \in Rows'
  BY RowsStay DEF Ended
<1>3. (i \in Rows => i \in Rows') /\ (run[i] # "none" => i \in Rows)
  BY RowsStay DEF JobsInv, DataInv, Rooted, JobsRooted, ClientsRooted
<1>4. job'[i] = job[i] => (i \in Rows' <=> i \in Rows)
  BY DEF Rows
<1> QED
  BY <1>1, <1>2, <1>3, <1>4 DEF ResultOk, Ended, TerminalStates

(* Rows, runs, results and remembered bytes change together or not at all. *)
LEMMA ResultsKept == JobsInv /\ [Next]_vars => \A i \in JobIds : ResultOk(i)'
<1> USE WorkersHaveJobs DEF vars, rows, registry, workers, clients, bounds, Functions
<1>1. SUFFICES ASSUME JobsInv, [Next]_vars PROVE \A i \in JobIds : ResultOk(i)'
  OBVIOUS
<1>2. Functions /\ JobsRooted /\ RowsType /\ WorkersType /\ ClientsType /\ Written
      /\ (\A j \in JobIds : ResultOk(j)) /\ \A j \in Workers : CauseOk(j)
  BY <1>1, AreFunctions DEF JobsRooted, Rooted, ClientsRooted, JobsInv, DataInv, TypeInv, CauseTold, CauseOk,
       Resulted, ResultOk
<1>3. ASSUME NEW j \in JobIds, NEW s \in Setups, ValidateSetup(j, s) PROVE \A i \in JobIds : ResultOk(i)'
  <2>1. \A i \in JobIds : i # j => ResultOk(i)'
    BY <1>1, <1>2, <1>3, ResultStays DEF ValidateSetup, Start, Insert
  <2>2. ResultOk(j)'
    BY <1>1, <1>2, <1>3, ResultStays DEF ValidateSetup, Start, Insert, RowsType, Job, Active, Rows
  <2> QED
    BY <2>1, <2>2
<1>4. ASSUME NEW j \in JobIds, NEW s \in Setups, DuplicateSetup(j, s) PROVE \A i \in JobIds : ResultOk(i)'
  <2>1. \A i \in JobIds : i # j => ResultOk(i)'
    BY <1>1, <1>2, <1>4, ResultStays DEF DuplicateSetup, Start, Insert
  <2>2. ResultOk(j)'
    BY <1>1, <1>2, <1>4, ResultStays DEF DuplicateSetup, Start, Insert, RowsType, Job, Active, Rows
  <2> QED
    BY <2>1, <2>2
<1>5. ASSUME NEW j \in JobIds, NEW s \in Setups, RestoreSetup(j, s) PROVE \A i \in JobIds : ResultOk(i)'
  <2>1. \A i \in JobIds : i # j => ResultOk(i)'
    BY <1>1, <1>2, <1>5, ResultStays DEF RestoreSetup, Start, Insert
  <2>2. ResultOk(j)'
    BY <1>1, <1>2, <1>5, ResultStays DEF RestoreSetup, Start, Insert, RowsType, Job, Active, Rows
  <2> QED
    BY <2>1, <2>2
<1>6. ASSUME NEW j \in JobIds, NEW s \in Setups, Prepare(j, s) PROVE \A i \in JobIds : ResultOk(i)'
  <2>1. \A i \in JobIds : i # j => ResultOk(i)'
    BY <1>1, <1>2, <1>6, ResultStays DEF Prepare, Insert
  <2>2. ResultOk(j)'
    BY <1>1, <1>2, <1>6, ResultStays DEF Prepare, Insert, RowsType, Job, Active, Rows
  <2> QED
    BY <2>1, <2>2
<1>7. ASSUME NEW w \in Workers, MarkRunning(w) PROVE \A i \in JobIds : ResultOk(i)'
  <2>1. \A i \in JobIds : i # JobOf(w) => ResultOk(i)'
    BY <1>1, <1>2, <1>7, ResultStays DEF MarkRunning
  <2>2. ResultOk(JobOf(w))'
    <3>1. job[JobOf(w)] \in Job
      BY <1>2, <1>7 DEF MarkRunning, JobsRooted, Rows, RowsType
    <3>2. job'[JobOf(w)] = job[JobOf(w)]
          \/ \E x \in {"running", "cancelled", "cancelling"} : job'[JobOf(w)] = [job[JobOf(w)] EXCEPT !.state = x]
      BY <1>2, <1>7 DEF MarkRunning
    <3>3. job'[JobOf(w)] = job[JobOf(w)] \/ job'[JobOf(w)].state # "succeeded"
      BY <3>1, <3>2 DEF Job
    <3> QED
      BY <1>1, <1>7, <3>3, ResultStays DEF MarkRunning
  <2> QED
    BY <2>1, <2>2
<1>8. ASSUME NEW w \in Workers, BeginValidation(w) PROVE \A i \in JobIds : ResultOk(i)'
  BY <1>1, <1>2, <1>8, ResultStays DEF BeginValidation
<1>9. ASSUME NEW w \in Workers, Commit(w) PROVE \A i \in JobIds : ResultOk(i)'
  <2>1. \A i \in JobIds : i # JobOf(w) => ResultOk(i)'
    BY <1>1, <1>2, <1>9, ResultStays DEF Commit, FinishTx, CommitValidation, CommitDuplicate, CommitRestore,
         CommitUpload
  <2>2. ResultOk(JobOf(w))'
    <3>1. Active(JobOf(w)) /\ job' = [job EXCEPT ![JobOf(w)].state = "succeeded"] /\ JobOf(w) \in Rows'
      BY <1>1, <1>9, RowsStay DEF Commit, FinishTx, Active
    <3>2. job'[JobOf(w)].state = "succeeded"
      BY <1>2, <3>1 DEF RowsType, Job, Active, Rows
    <3>3. ResultOk(JobOf(w)) /\ run[JobOf(w)] # "conflict" /\ digest[JobOf(w)] = None
      BY <1>2, <3>1 DEF ResultOk, Active, Ended, ActiveStates, TerminalStates
    <3>4. run'[JobOf(w)] # "conflict"
      BY <1>2, <1>9, <3>3 DEF Commit, CommitValidation, CommitDuplicate, CommitRestore, CommitUpload
    <3>5. published'[JobOf(w)] # None /\ (digest'[JobOf(w)] = None \/ digest'[JobOf(w)] = published'[JobOf(w)])
      <4>1. CASE Kind(JobOf(w)) = "upload"
        <5>1. request[Writer(JobOf(w))] \in Request
          BY <1>2, <1>9, <4>1, WriterRuns DEF Commit, Working
        <5>2. published'[JobOf(w)] = request[Writer(JobOf(w))].body /\ digest'[JobOf(w)] = published'[JobOf(w)]
          BY <1>2, <1>9, <4>1 DEF Commit, CommitValidation, CommitDuplicate, CommitRestore, CommitUpload
        <5> QED
          BY <5>1, <5>2, NoneAssumption DEF Request
      <4>2. CASE Kind(JobOf(w)) # "upload"
        BY <1>2, <1>9, <3>3, <4>2, NoneAssumption DEF Commit, CommitValidation, CommitDuplicate, CommitRestore,
             CommitUpload
      <4> QED
        BY <4>1, <4>2
    <3> QED
      BY <3>1, <3>2, <3>4, <3>5 DEF ResultOk, Ended, TerminalStates
  <2> QED
    BY <2>1, <2>2
<1>10. ASSUME NEW w \in Workers, Conflict(w) PROVE \A i \in JobIds : ResultOk(i)'
  <2>1. \A i \in JobIds : i # JobOf(w) => ResultOk(i)'
    BY <1>1, <1>2, <1>10, ResultStays DEF Conflict, FinishTx
  <2>2. ResultOk(JobOf(w))'
    <3>1. CASE Kind(JobOf(w)) = "validate"
      <4>1. Active(JobOf(w)) /\ job' = [job EXCEPT ![JobOf(w)].state = "conflict"]
            /\ run' = [run EXCEPT ![JobOf(w)] = "conflict"]
        BY <1>10, <3>1 DEF Conflict, FinishTx
      <4>2. job'[JobOf(w)].state = "conflict" /\ JobOf(w) \in Rows'
        BY <1>1, <1>2, <4>1, RowsStay DEF RowsType, Job, Active, Rows
      <4>3. ResultOk(JobOf(w)) /\ published[JobOf(w)] = None /\ digest[JobOf(w)] = None
            /\ UNCHANGED <<published, digest>>
        BY <1>2, <1>10, <4>1 DEF ResultOk, Active, Ended, ActiveStates, TerminalStates, Conflict
      <4> QED
        BY <1>2, <4>1, <4>2, <4>3 DEF ResultOk
    <3>2. CASE Kind(JobOf(w)) # "validate"
      BY <1>1, <1>10, <3>2, ResultStays DEF Conflict
    <3> QED
      BY <3>1, <3>2
  <2> QED
    BY <2>1, <2>2
<1>11. ASSUME NEW w \in Workers, Abort(w) PROVE \A i \in JobIds : ResultOk(i)'
  <2>1. \A i \in JobIds : i # JobOf(w) => ResultOk(i)'
    BY <1>1, <1>2, <1>11, ResultStays DEF Abort, Terminal
  <2>2. ResultOk(JobOf(w))'
    <3>1. job'[JobOf(w)] = job[JobOf(w)] \/ job'[JobOf(w)].state # "succeeded"
      <4>1. CASE Active(JobOf(w)) /\ job' = Terminal(JobOf(w), Outcome(cause[w]))
        <5>1. cause[w] # "none" /\ cause[w] \in Causes
          BY <1>2, <1>11, <4>1 DEF Abort, CauseOk, Active, ActiveStates, WorkersType
        <5> QED
          BY <1>2, <4>1, <5>1 DEF Terminal, Outcome, Causes, RowsType, Job, Active, Rows
      <4>2. CASE ~(Active(JobOf(w)) /\ job' = Terminal(JobOf(w), Outcome(cause[w])))
        BY <1>11, <4>2 DEF Abort, Terminal
      <4> QED
        BY <4>1, <4>2
    <3> QED
      BY <1>1, <1>2, <1>11, <3>1, ResultStays DEF Abort
  <2> QED
    BY <2>1, <2>2
<1>12. ASSUME NEW w \in Workers, Finish(w) PROVE \A i \in JobIds : ResultOk(i)'
  <2>1. \A i \in JobIds : i # JobOf(w) => ResultOk(i)'
    BY <1>1, <1>2, <1>12, ResultStays DEF Finish, Terminal
  <2>2. ResultOk(JobOf(w))'
    <3>1. job'[JobOf(w)] = job[JobOf(w)] \/ job'[JobOf(w)].state # "succeeded"
      <4>1. CASE Active(JobOf(w)) /\ job' = Terminal(JobOf(w), Outcome(cause[w]))
        <5>1. cause[w] # "none" /\ cause[w] \in Causes
          BY <1>2, <1>12, <4>1 DEF Finish, CauseOk, Active, ActiveStates, WorkersType
        <5> QED
          BY <1>2, <4>1, <5>1 DEF Terminal, Outcome, Causes, RowsType, Job, Active, Rows
      <4>2. CASE ~(Active(JobOf(w)) /\ job' = Terminal(JobOf(w), Outcome(cause[w])))
        BY <1>12, <4>2 DEF Finish, Terminal
      <4> QED
        BY <4>1, <4>2
    <3> QED
      BY <1>1, <1>12, <3>1, ResultStays DEF Finish
  <2> QED
    BY <2>1, <2>2
<1>13. ASSUME NEW w \in Workers, FinishUpload(w) PROVE \A i \in JobIds : ResultOk(i)'
  <2>1. \A i \in JobIds : i # JobOf(w) => ResultOk(i)'
    BY <1>1, <1>2, <1>13, ResultStays DEF FinishUpload, Terminal
  <2>2. ResultOk(JobOf(w))'
    <3>1. job'[JobOf(w)] = job[JobOf(w)] \/ job'[JobOf(w)].state # "succeeded"
      <4>1. CASE Active(JobOf(w)) /\ job' = Terminal(JobOf(w), Outcome(cause[w]))
        <5>1. cause[w] # "none" /\ cause[w] \in Causes
          BY <1>2, <1>13, <4>1 DEF FinishUpload, CauseOk, Active, ActiveStates, WorkersType
        <5> QED
          BY <1>2, <4>1, <5>1 DEF Terminal, Outcome, Causes, RowsType, Job, Active, Rows
      <4>2. CASE ~(Active(JobOf(w)) /\ job' = Terminal(JobOf(w), Outcome(cause[w])))
        BY <1>13, <4>2 DEF FinishUpload, Terminal
      <4> QED
        BY <4>1, <4>2
    <3>2. CASE UNCHANGED digest
      BY <1>1, <1>13, <3>1, <3>2, ResultStays DEF FinishUpload
    <3>3. CASE Active(JobOf(w)) /\ digest' = [digest EXCEPT ![JobOf(w)] = request[Writer(JobOf(w))].body]
      <4>1. ResultOk(JobOf(w)) /\ published[JobOf(w)] = None /\ run[JobOf(w)] # "done" /\ run[JobOf(w)] # "conflict"
        BY <1>2, <3>3 DEF ResultOk, Active, ActiveStates
      <4>2. pc'[w] = "leave" /\ UNCHANGED <<published, run>>
        BY <1>2, <1>13 DEF FinishUpload
      <4>3. Ended(JobOf(w))'
        BY <1>1, <4>2, CausesKept DEF CauseOk
      <4>4. job'[JobOf(w)].state # "succeeded"
        BY <3>1, <3>3, <4>1, <4>3 DEF Active, Ended, ActiveStates, TerminalStates
      <4> QED
        BY <4>1, <4>2, <4>3, <4>4 DEF ResultOk
    <3> QED
      BY <1>13, <3>2, <3>3 DEF FinishUpload
  <2> QED
    BY <2>1, <2>2
<1>14. ASSUME NEW j \in JobIds, Unqueue(j) PROVE \A i \in JobIds : ResultOk(i)'
  <2>1. \A i \in JobIds : i # j => ResultOk(i)'
    BY <1>1, <1>2, <1>14, ResultStays DEF Unqueue, EndQueuedRun
  <2>2. ResultOk(j)'
    BY <1>1, <1>2, <1>14, ResultStays DEF Unqueue, EndQueuedRun, RowsType, Job, Active, Rows
  <2> QED
    BY <2>1, <2>2
<1>15. ASSUME NEW j \in JobIds, Drop(j) PROVE \A i \in JobIds : ResultOk(i)'
  <2>1. \A i \in JobIds : i # j => ResultOk(i)'
    BY <1>1, <1>2, <1>15, ResultStays DEF Drop
  <2>2. ResultOk(j)'
    <3>1. job[j] \in Job
      BY <1>2, <1>15 DEF Drop, JobsRooted, Rows, RowsType
    <3>2. job'[j] = job[j] \/ \E x \in {"running", "cancelled", "cancelling"} : job'[j] = [job[j] EXCEPT !.state = x]
      BY <1>2, <1>15 DEF Drop
    <3>3. job'[j] = job[j] \/ job'[j].state # "succeeded"
      BY <3>1, <3>2 DEF Job
    <3> QED
      BY <1>1, <1>15, <3>3, ResultStays DEF Drop
  <2> QED
    BY <2>1, <2>2
<1>16. ASSUME NEW j \in JobIds, RequestCancel(j) PROVE \A i \in JobIds : ResultOk(i)'
  <2>1. \A i \in JobIds : i # j => ResultOk(i)'
    BY <1>1, <1>2, <1>16, ResultStays DEF RequestCancel
  <2>2. ResultOk(j)'
    <3>1. job[j] \in Job
      BY <1>2, <1>16 DEF RequestCancel, JobsRooted, Rows, RowsType
    <3>2. job'[j] = job[j] \/ \E x \in {"running", "cancelled", "cancelling"} : job'[j] = [job[j] EXCEPT !.state = x]
      BY <1>2, <1>16 DEF RequestCancel
    <3>3. job'[j] = job[j] \/ job'[j].state # "succeeded"
      BY <3>1, <3>2 DEF Job
    <3> QED
      BY <1>1, <1>16, <3>3, ResultStays DEF RequestCancel
  <2> QED
    BY <2>1, <2>2
<1>17. ASSUME NEW j \in JobIds, Late(j) PROVE \A i \in JobIds : ResultOk(i)'
  <2>1. \A i \in JobIds : i # j => ResultOk(i)'
    BY <1>1, <1>2, <1>17, ResultStays DEF Late, EndQueuedRun
  <2>2. ResultOk(j)'
    BY <1>1, <1>2, <1>17, ResultStays DEF Late, EndQueuedRun, RowsType, Job, Active, Rows
  <2> QED
    BY <2>1, <2>2
<1>18. ASSUME Restart PROVE \A i \in JobIds : ResultOk(i)'
  <2> SUFFICES ASSUME NEW i \in JobIds PROVE ResultOk(i)'
    OBVIOUS
  <2>1. UNCHANGED <<published, digest>> /\ (run'[i] = run[i] \/ run'[i] \notin {"done", "conflict"})
    BY <1>18 DEF Restart
  <2>2. job'[i] = IF Active(i) THEN [job[i] EXCEPT !.state = "failed"] ELSE job[i]
    BY <1>18 DEF Restart
  <2>3. job'[i] = job[i] \/ job'[i].state # "succeeded"
    BY <1>2, <2>2 DEF Active, Rows, RowsType, Job
  <2> QED
    BY <1>1, <2>1, <2>3, ResultStays
<1>19. CASE UNCHANGED <<job, run, published, digest>>
  BY <1>2, <1>19, <1>1, ResultStays
<1> QED
  BY <1>1, <1>3, <1>4, <1>5, <1>6, <1>7, <1>8, <1>9, <1>10, <1>11, <1>12, <1>13, <1>14, <1>15, <1>16, <1>17,
       <1>18, <1>19, JobWriters

(* A claim that was completed keeps its ended job. *)
LEMMA ClaimStays ==
    ASSUME JobsInv, [Next]_vars, NEW k \in Keys, claim'[k] = claim[k] \/ claim'[k] # "completed"
    PROVE  claim'[k] = "completed" => Ended(request[k].job)'
<1>1. claim[k] = "completed" => request[k] # None /\ Ended(request[k].job)
  BY DEF JobsInv, DataInv, ClaimsFollow, AnswerOk, Rooted, JobsRooted, ClientsRooted
<1>2. request[k] # None => request'[k].job = request[k].job
  BY RequestsMove DEF RequestMoved
<1>3. ASSUME NEW i \in JobIds, Ended(i) PROVE Ended(i)'
  BY <1>3, RowsStay DEF Ended
<1>4. request[k] # None => request[k].job \in JobIds
  BY DEF JobsInv, TypeInv, ClientsType, Request
<1> QED
  BY <1>1, <1>2, <1>3, <1>4

(* A claim is completed only after its job has ended. *)
LEMMA ClaimsKept == JobsInv /\ [Next]_vars => \A k \in Keys : claim'[k] = "completed" => Ended(request[k].job)'
<1> USE WorkersHaveJobs DEF vars, rows, registry, workers, clients, bounds, Functions
<1>1. SUFFICES ASSUME JobsInv, [Next]_vars PROVE
     \A i \in Keys : claim'[i] = "completed" => Ended(request[i].job)'
  OBVIOUS
<1>2. Functions /\ ClientsType /\ Written
  BY <1>1, AreFunctions DEF JobsInv, DataInv, TypeInv
<1>3. ASSUME NEW w \in Workers, Commit(w) PROVE
     \A i \in Keys : claim'[i] = "completed" => Ended(request[i].job)'
  <2>1. CASE UNCHANGED claim
    BY <1>1, <2>1, ClaimStays
  <2>2. CASE CommitUpload(w)
    <3> DEFINE k == Writer(JobOf(w))
    <3>1. k \in Keys /\ request[k].job = JobOf(w)
      BY <1>2, <1>3, <2>2, WriterRuns DEF Commit, Working, CommitUpload, Runs
    <3>2. Ended(JobOf(w))'
      BY <1>1, <1>2, <1>3, <2>2, CausesKept DEF CommitUpload, Goto, CauseOk
    <3>3. UNCHANGED request /\ claim' = [claim EXCEPT ![k] = "completed"]
      BY <1>3, <2>2 DEF Commit, CommitUpload, FinishClaim
    <3> HIDE DEF k
    <3> QED
      BY <1>1, <1>2, <3>1, <3>2, <3>3, ClaimStays
  <2> QED
    BY <1>3, <2>1, <2>2 DEF Commit, CommitValidation, CommitDuplicate, CommitRestore
<1>4. ASSUME NEW w \in Workers, FinishUpload(w) PROVE
     \A i \in Keys : claim'[i] = "completed" => Ended(request[i].job)'
  <2> DEFINE k == Writer(JobOf(w))
  <2>1. k \in Keys /\ request[k].job = JobOf(w)
    BY <1>2, <1>4, WriterRuns DEF FinishUpload, Runs
  <2>2. Ended(JobOf(w))'
    BY <1>1, <1>2, <1>4, CausesKept DEF FinishUpload, CauseOk
  <2>3. UNCHANGED request /\ claim' = [claim EXCEPT ![k] = "completed"]
    BY <1>4 DEF FinishUpload, FinishClaim
  <2> HIDE DEF k
  <2> QED
    BY <1>1, <1>2, <2>1, <2>2, <2>3, ClaimStays
<1>5. ASSUME NEW k \in Keys, Load(k) PROVE
     \A i \in Keys : claim'[i] = "completed" => Ended(request[i].job)'
  <2>1. CASE Ended(request[k].job)
    <3>1. UNCHANGED job /\ request[k] # None /\ request[k].job \in JobIds
      BY <1>2, <1>5 DEF Load, ClientsType, Request
    <3>2. request'[k].job = request[k].job
      BY <3>1, <1>1, RequestsMove DEF RequestMoved
    <3>3. Ended(request[k].job)'
      BY <2>1, <3>1, <3>2 DEF Ended, Rows
    <3>4. \A i \in Keys : i # k => claim'[i] = claim[i]
      BY <1>2, <1>5 DEF Load, FinishClaim
    <3> QED
      BY <1>1, <3>3, <3>4, ClaimStays
  <2>2. CASE ~Ended(request[k].job)
    <3>1. \A i \in Keys : claim'[i] = claim[i] \/ claim'[i] # "completed"
      BY <1>2, <1>5, <2>2 DEF Load, FinishClaim
    <3> QED
      BY <1>1, <3>1, ClaimStays
  <2> QED
    BY <2>1, <2>2
<1>6. ASSUME NEW k \in Keys, Begin(k) PROVE
     \A i \in Keys : claim'[i] = "completed" => Ended(request[i].job)'
  <2>1. \A i \in Keys : claim'[i] = claim[i] \/ claim'[i] # "completed"
    BY <1>2, <1>6 DEF Begin, Register, FinishClaim
  <2> QED
    BY <1>1, <2>1, ClaimStays
<1>7. ASSUME NEW k \in Keys, NEW j \in JobIds, NEW body \in Bodies, Send(k, j, body) PROVE
     \A i \in Keys : claim'[i] = "completed" => Ended(request[i].job)'
  <2>1. \A i \in Keys : claim'[i] = claim[i] \/ claim'[i] # "completed"
    BY <1>2, <1>7 DEF Send
  <2> QED
    BY <1>1, <2>1, ClaimStays
<1>8. ASSUME NEW k \in Keys, Expire(k) PROVE
     \A i \in Keys : claim'[i] = "completed" => Ended(request[i].job)'
  <2>1. \A i \in Keys : claim'[i] = claim[i] \/ claim'[i] # "completed"
    BY <1>2, <1>8 DEF Expire
  <2> QED
    BY <1>1, <2>1, ClaimStays
<1>9. ASSUME Restart PROVE
     \A i \in Keys : claim'[i] = "completed" => Ended(request[i].job)'
  <2>1. \A i \in Keys : claim'[i] = claim[i] \/ claim'[i] # "completed"
    BY <1>2, <1>9 DEF Restart
  <2> QED
    BY <1>1, <2>1, ClaimStays
<1>10. CASE UNCHANGED claim
  BY <1>2, <1>10, <1>1, ClaimStays
<1> QED
  BY <1>1, <1>3, <1>4, <1>5, <1>6, <1>7, <1>8, <1>9, <1>10, ClaimWriters

(* A request carries no answer before it is answered. *)
LEMMA AnswersKept == JobsInv /\ [Next]_vars => \A i \in Keys : AnswerOk(i)'
<1> USE WorkersHaveJobs DEF vars, rows, registry, workers, clients, bounds, Functions, AnswerOk
<1>1. SUFFICES ASSUME JobsInv, [Next]_vars PROVE \A i \in Keys : AnswerOk(i)'
  OBVIOUS
<1>2. Functions /\ ClientsType /\ Written /\ \A i \in Keys : AnswerOk(i)
  BY <1>1, AreFunctions DEF JobsInv, DataInv, TypeInv, ClaimsFollow, AnswerOk
<1>3. ASSUME NEW w \in Workers, LeaveUpload(w) PROVE \A i \in Keys : AnswerOk(i)'
  BY <1>2, <1>3, WriterRuns DEF LeaveUpload, Deregister, ClientsType, Request
<1>4. ASSUME NEW k \in Keys, Load(k) PROVE \A i \in Keys : AnswerOk(i)'
  BY <1>2, <1>4 DEF Load, Answer, ClientsType, Request
<1>5. ASSUME NEW k \in Keys, Begin(k) PROVE \A i \in Keys : AnswerOk(i)'
  BY <1>2, <1>5 DEF Begin, Register, Answer, ClientsType, Request
<1>6. ASSUME NEW k \in Keys, NEW j \in JobIds, NEW body \in Bodies, Send(k, j, body)
      PROVE  \A i \in Keys : AnswerOk(i)'
  <2> DEFINE sent == [job |-> j, body |-> body, pc |-> "load", answer |-> "none"]
  <2>1. \E r : request' = [request EXCEPT ![k] = r] /\ (r.pc = "answered" \/ r.answer = "none")
    <3>0. sent.answer = "none"
      OBVIOUS
    <3>1. CASE request' = [request EXCEPT ![k] = sent]
      BY <3>0, <3>1
    <3>2. ASSUME NEW answer, request' = [request EXCEPT ![k] = [sent EXCEPT !.pc = "answered", !.answer = answer]]
          PROVE  \E r : request' = [request EXCEPT ![k] = r] /\ (r.pc = "answered" \/ r.answer = "none")
      <4> DEFINE r == [sent EXCEPT !.pc = "answered", !.answer = answer]
      <4>1. r.pc = "answered"
        OBVIOUS
      <4> QED
        BY <3>2, <4>1
    <3> QED
      BY <1>6, <3>1, <3>2 DEF Send
  <2>2. PICK r : request' = [request EXCEPT ![k] = r] /\ (r.pc = "answered" \/ r.answer = "none")
    BY <2>1
  <2>3. request'[k] = r /\ \A i \in Keys : i # k => request'[i] = request[i]
    BY <1>2, <2>2
  <2> HIDE DEF sent
  <2> QED
    BY <1>2, <2>2, <2>3
<1>7. ASSUME NEW k \in Keys, Expire(k) PROVE \A i \in Keys : AnswerOk(i)'
  BY <1>2, <1>7 DEF Expire
<1>8. ASSUME Die PROVE \A i \in Keys : AnswerOk(i)'
  <2> SUFFICES ASSUME NEW i \in Keys, request'[i] # None PROVE request'[i].answer = "none"
    OBVIOUS
  <2>1. request[i] # None /\ request'[i] = [request[i] EXCEPT !.pc = "answered", !.answer = "none"]
    BY <1>8 DEF Die
  <2> QED
    BY <1>2, <2>1 DEF ClientsType, Request
<1>9. CASE UNCHANGED request
  BY <1>2, <1>9
<1> QED
  BY <1>1, <1>3, <1>4, <1>5, <1>6, <1>7, <1>8, <1>9, RequestWriters

-----------------------------------------------------------------------------
(* Attendance.                                                              *)

(* Ending a row ends it or leaves it alone. *)
LEMMA RowsEnd ==
    ASSUME JobsType, NEW j \in JobIds, NEW x \in TerminalStates, NEW i \in JobIds,
           job' = Terminal(j, x) \/ (Active(j) /\ job' = [job EXCEPT ![j].state = x])
    PROVE  job'[i] = job[i] \/ job'[i].state \in TerminalStates
BY DEF JobsType, Terminal, Active, Rows, Job

(* A restart leaves only rows that have ended. *)
LEMMA RestartEnds ==
    ASSUME JobsInv, Restart, NEW i \in JobIds, i \in Rows'
    PROVE  job'[i].state \in TerminalStates
<1>1. job'[i] = IF Active(i) THEN [job[i] EXCEPT !.state = "failed"] ELSE job[i]
  BY DEF Restart
<1>2. job[i] \in Job
  BY <1>1 DEF JobsInv, TypeInv, Rows, Active, RowsType
<1> QED
  BY <1>1, <1>2 DEF Active, Rows, Job, TerminalStates, RowsType

(* A row stays as it is, ends, is inserted with its worker (an upload has none), or is moved on by a
   worker or a cancellation that finds it where it was. *)
RowStep(i) ==
    \/ job'[i] = job[i]
    \/ job'[i].state \in TerminalStates
    \/ job[i] = None /\ job'[i].state = "queued" /\ (Kind(i) = "upload" \/ pc'[i] = "launch")
    \/ Active(i) /\ \E w \in Workers : pc[w] = "mark" /\ JobOf(w) = i /\ (w = i \/ Kind(i) # "upload")
    \/ Active(i) /\ job[i].state = "running"

(* Every step is such a step of every row. *)
LEMMA RowSteps == JobsInv /\ [Next]_vars => \A i \in JobIds : RowStep(i)
<1> USE WorkersHaveJobs DEF vars, rows, Functions
<1>1. SUFFICES ASSUME JobsInv, [Next]_vars, NEW i \in JobIds PROVE RowStep(i)
  OBVIOUS
<1>2. Functions /\ JobsType /\ JobsRooted /\ Written /\ LeftQueue /\ cause \in [Workers -> Causes]
  BY <1>1, AreFunctions DEF JobsInv, DataInv, TypeInv, RowsType, WorkersType, JobsType, Rooted
<1>3. ASSUME NEW w \in Workers PROVE Outcome(cause[w]) \in TerminalStates
  BY <1>2 DEF Outcome, Causes, TerminalStates
<1>4. ASSUME NEW j \in JobIds, NEW s \in Setups, NEW kind, Start(j, s, kind) PROVE RowStep(i)
  BY <1>2, <1>4 DEF Start, Insert, RowStep
<1>5. ASSUME NEW j \in JobIds, NEW s \in Setups, Prepare(j, s) PROVE RowStep(i)
  BY <1>2, <1>5 DEF Prepare, Insert, RowStep
<1>6. ASSUME NEW w \in Workers, MarkRunning(w) PROVE RowStep(i)
  <2>1. JobOf(w) \in Rows /\ (Kind(JobOf(w)) = "upload" => w = JobOf(w))
    BY <1>2, <1>6 DEF MarkRunning, JobsRooted, Written
  <2>2. (job' = [job EXCEPT ![JobOf(w)].state = "running"] /\ Active(JobOf(w))) \/ UNCHANGED job
    BY <1>6, <2>1 DEF MarkRunning, Active, ActiveStates
  <2> QED
    BY <1>2, <1>6, <2>1, <2>2 DEF MarkRunning, RowStep
<1>7. ASSUME NEW w \in Workers, Commit(w) PROVE RowStep(i)
  BY <1>2, <1>7, RowsEnd DEF Commit, FinishTx, RowStep, TerminalStates
<1>8. ASSUME NEW w \in Workers, Conflict(w) PROVE RowStep(i)
  BY <1>2, <1>8, RowsEnd DEF Conflict, FinishTx, RowStep, TerminalStates
<1>9. ASSUME NEW w \in Workers, Abort(w) PROVE RowStep(i)
  BY <1>2, <1>3, <1>9, RowsEnd DEF Abort, RowStep
<1>10. ASSUME NEW w \in Workers, Finish(w) \/ FinishUpload(w) PROVE RowStep(i)
  BY <1>2, <1>3, <1>10, RowsEnd DEF Finish, FinishUpload, RowStep
<1>11. ASSUME NEW j \in JobIds, EndQueuedRun(j) PROVE RowStep(i)
  BY <1>2, <1>11, RowsEnd DEF EndQueuedRun, RowStep, TerminalStates
<1>12. ASSUME NEW j \in JobIds, Drop(j) PROVE RowStep(i)
  <2>1. j \in Rows
    BY <1>2, <1>12 DEF Drop, JobsRooted
  <2>2. CASE job[j].state = "queued"
    BY <1>2, <1>12, <2>1, <2>2, RowsEnd DEF Drop, RowStep, Active, ActiveStates, TerminalStates
  <2> QED
    BY <1>12, <2>2 DEF Drop, RowStep
<1>13. ASSUME NEW j \in JobIds, RequestCancel(j) PROVE RowStep(i)
  BY <1>2, <1>13 DEF RequestCancel, RowStep, JobsRooted, LeftQueue, Active, ActiveStates
<1>14. ASSUME Restart PROVE RowStep(i)
  <2>1. CASE i \in Rows'
    BY <1>1, <1>14, <2>1, RestartEnds DEF RowStep
  <2>2. CASE i \notin Rows'
    <3>1. job'[i] = None
      BY <2>2 DEF Rows
    <3>2. i \notin Rows
      BY <1>1, <2>2, RowsStay
    <3> QED
      BY <3>1, <3>2 DEF RowStep, Rows
  <2> QED
    BY <2>1, <2>2
<1>15. CASE UNCHANGED job
  BY <1>15 DEF RowStep
<1> QED
  BY <1>1, <1>4, <1>5, <1>6, <1>7, <1>8, <1>9, <1>10, <1>11, <1>12, <1>13, <1>14, <1>15, JobWriters
     DEF ValidateSetup, DuplicateSetup, RestoreSetup, Unqueue, Late, BeginValidation

(* A worker stays where it is, leaves the row it ended, dies, or goes on to the end of its row; it waits
   for its slot and marks its row only after it was registered. *)
WorkerStep(w) ==
    \/ pc'[w] = pc[w]
    \/ pc[w] = "leave"
    \/ pc'[w] = "leave"
    \/ Die
    \/ /\ AtWork(w)'
       /\ pc'[w] \in {"heavy", "mark"} => pc[w] = "heavy" \/ registered'[JobOf(w)] # None

(* Every step is such a step of every worker. *)
LEMMA WorkerSteps == JobsInv /\ [Next]_vars => \A w \in Workers : WorkerStep(w)
<1> USE WorkersHaveJobs DEF Functions, AtWork
<1>1. SUFFICES ASSUME JobsInv, [Next]_vars, NEW i \in Workers PROVE WorkerStep(i)
  OBVIOUS
<1>2. Functions /\ DOMAIN registered = JobIds /\ None \notin Workers
  BY <1>1, AreFunctions, NoneAssumption DEF JobsInv, TypeInv, WorkersType, Workers
<1>3. ASSUME NEW j \in JobIds, NEW s \in Setups, NEW kind, Start(j, s, kind) PROVE WorkerStep(i)
  BY <1>2, <1>3 DEF Start, WorkerStep
<1>4. ASSUME NEW r \in Repeats, RepeatDuplicate(r) PROVE WorkerStep(i)
  BY <1>2, <1>4 DEF RepeatDuplicate, WorkerStep
<1>5. ASSUME NEW w \in Workers, Launch(w) PROVE WorkerStep(i)
  BY <1>2, <1>5 DEF Launch, Register, WorkerStep
<1>6. ASSUME NEW w \in Workers, Acquire(w) PROVE WorkerStep(i)
  BY <1>2, <1>6 DEF Acquire, Goto, WorkerStep
<1>7. ASSUME NEW w \in Workers, MarkRunning(w) PROVE WorkerStep(i)
  BY <1>2, <1>7 DEF MarkRunning, Goto, WorkerStep
<1>8. ASSUME NEW w \in Workers, BeginValidation(w) PROVE WorkerStep(i)
  BY <1>2, <1>8 DEF BeginValidation, Goto, WorkerStep
<1>9. ASSUME NEW w \in Workers, TakeLock(w) PROVE WorkerStep(i)
  BY <1>2, <1>9 DEF TakeLock, WorkerStep
<1>10. ASSUME NEW w \in Workers, Commit(w) PROVE WorkerStep(i)
  BY <1>2, <1>10 DEF Commit, CommitValidation, CommitDuplicate, CommitRestore, CommitUpload, Goto, WorkerStep
<1>11. ASSUME NEW w \in Workers, Conflict(w) PROVE WorkerStep(i)
  BY <1>2, <1>11 DEF Conflict, Goto, WorkerStep
<1>12. ASSUME NEW w \in Workers, Interrupt(w) PROVE WorkerStep(i)
  BY <1>2, <1>12 DEF Interrupt, Goto, WorkerStep
<1>13. ASSUME NEW w \in Workers, Abort(w) PROVE WorkerStep(i)
  BY <1>2, <1>13 DEF Abort, WorkerStep
<1>14. ASSUME NEW w \in Workers, Finish(w) \/ FinishUpload(w) PROVE WorkerStep(i)
  BY <1>2, <1>14 DEF Finish, FinishUpload, WorkerStep
<1>15. ASSUME NEW w \in Workers, Leave(w) \/ LeaveUpload(w) PROVE WorkerStep(i)
  BY <1>2, <1>15 DEF Leave, LeaveUpload, WorkerStep
<1>16. ASSUME NEW k \in Keys, Begin(k) PROVE WorkerStep(i)
  <2>1. request[k].job \in JobIds
    BY <1>1, <1>16 DEF Begin, JobsInv, TypeInv, ClientsType, Request
  <2> QED
    BY <1>2, <1>16, <2>1 DEF Begin, Register, Goto, WorkerStep
<1>17. CASE UNCHANGED <<pc, cause>>
  BY <1>17 DEF WorkerStep
<1> QED
  BY <1>1, <1>3, <1>4, <1>5, <1>6, <1>7, <1>8, <1>9, <1>10, <1>11, <1>12, <1>13, <1>14, <1>15, <1>16, <1>17,
     PcWriters DEF ValidateSetup, DuplicateSetup, RestoreSetup, WorkerStep

(* The entry of s.jobs is replaced by another, and deleted only once the row has ended. *)
LEMMA RegistrationStays ==
    ASSUME JobsInv, [Next]_vars, NEW i \in JobIds, registered[i] # None
    PROVE  registered'[i] # None \/ Ended(i) \/ Die
<1> USE WorkersHaveJobs
<1>1. DOMAIN registered = JobIds /\ None \notin Workers /\ CauseTold
  BY NoneAssumption DEF JobsInv, TypeInv, WorkersType, Workers, DataInv
<1>2. ASSUME NEW w \in Workers, Launch(w) PROVE registered'[i] # None
  BY <1>1, <1>2 DEF Launch, Register
<1>3. ASSUME NEW w \in Workers, Leave(w) \/ LeaveUpload(w) PROVE registered'[i] # None \/ Ended(i)
  BY <1>1, <1>3 DEF Leave, LeaveUpload, Deregister, CauseTold, CauseOk
<1>4. ASSUME NEW k \in Keys, Begin(k) PROVE registered'[i] # None
  <2>1. request[k].job \in JobIds
    BY <1>4 DEF Begin, JobsInv, TypeInv, ClientsType, Request
  <2>2. request[k].job # None /\ (UNCHANGED registered \/ Register(request[k].job))
    BY <1>4, <2>1, NoneAssumption DEF Begin
  <2> QED
    BY <1>1, <2>1, <2>2 DEF Register
<1>5. CASE UNCHANGED <<registered, counted>>
  BY <1>5
<1> QED
  BY <1>2, <1>3, <1>4, <1>5, RegisteredWriters

(* The process comes up only by Restart. *)
LEMMA UpStays == [Next]_vars /\ Up' => (Up /\ ~Die) \/ Restart
<1>1. Die => ~Up'
  BY DEF Die, Up
<1>2. ASSUME NEW j \in JobIds, Cancel(j) PROVE Up
  BY <1>2 DEF Cancel
<1>3. ASSUME NEW k \in Keys, NEW j \in JobIds, NEW body \in Bodies, Send(k, j, body) PROVE Up
  BY <1>3 DEF Send
<1>4. ASSUME NEW s \in Setups, Edit(s) PROVE Up
  BY <1>4 DEF Edit
<1>5. ASSUME Close \/ SignalAll \/ Wait PROVE Up
  BY <1>5 DEF Close, SignalAll, Wait, Up
<1>6. UNCHANGED <<service, bounds>> /\ Up' => Up
  BY DEF Up
<1> QED
  BY <1>1, <1>2, <1>3, <1>4, <1>5, <1>6, ServiceWriters

(* A worker that moves off its row has seen it end. *)
LEMMA StaysAtWork ==
    ASSUME JobsInv, [Next]_vars, ~Die, NEW w \in Workers, AtWork(w)
    PROVE  AtWork(w)' \/ Ended(JobOf(w))'
<1>1. WorkerStep(w) /\ CauseOk(w)'
  BY WorkerSteps, CausesKept
<1> QED
  BY <1>1 DEF WorkerStep, AtWork, CauseOk

(* No step leaves an unfinished row without its own worker. *)
LEMMA OwnedKept == JobsInv /\ [Next]_vars => Owned'
<1>1. SUFFICES ASSUME JobsInv, [Next]_vars, NEW j \in JobIds, Up', j \in Rows',
                      job'[j].state \notin TerminalStates, Kind(j)' = "upload" => job'[j].state # "queued"
               PROVE  AtWork(j)'
  BY DEF Owned, AttendedOk, TerminalStates
<1>2. Up /\ ~Die
  BY <1>1, UpStays, RestartEnds
<1>3. AttendedOk(j) /\ RowStep(j) /\ Kind(j)' = Kind(j) /\ j \in Workers /\ JobOf(j) = j
  BY <1>1, RowSteps, PlanKept, WorkersHaveJobs DEF JobsInv, Owned, Kind
<1>4. AtWork(j) => AtWork(j)'
  BY <1>1, <1>2, <1>3, StaysAtWork DEF Ended
<1>5. CASE Active(j)
  <2>1. job[j].state = "queued" /\ Kind(j) = "upload" => pc[j] = "mark"
    BY <1>1, <1>3, <1>5 DEF RowStep
  <2> QED
    BY <1>2, <1>3, <1>4, <1>5, <2>1 DEF AttendedOk, AtWork, Active, ActiveStates
<1>6. CASE ~Active(j)
  <2>1. j \notin Rows
    BY <1>1, <1>6, RowsStay DEF Active, Ended, JobsInv, TypeInv, RowsType, Job, Rows
  <2> QED
    BY <1>1, <1>3, <1>6, <2>1 DEF RowStep, Rows, AtWork
<1> QED
  BY <1>5, <1>6

(* A row that is active after a step was active before it, or has just been inserted. *)
LEMMA WasActive ==
    ASSUME JobsInv, [Next]_vars, NEW i \in Rows, Active(i)'
    PROVE  Active(i)
<1>1. Moved(i)
  BY JobsMove DEF Rows
<1> QED
  BY <1>1 DEF Moved, Active, Rows

(* No step takes the registration of a row away before the row has ended. *)
LEMMA RegisteredKept == JobsInv /\ [Next]_vars => Registered'
<1>1. SUFFICES ASSUME JobsInv, [Next]_vars, NEW w \in Workers, pc'[w] \in {"heavy", "mark"}, Active(JobOf(w))'
               PROVE  registered'[JobOf(w)] # None
  BY DEF Registered
<1>2. JobOf(w) \in JobIds /\ WorkerStep(w) /\ CauseOk(w)
  BY <1>1, WorkersHaveJobs, WorkerSteps DEF JobsInv, DataInv, CauseTold
<1>3. ~Die
  BY <1>1 DEF Die
<1>4. ~Ended(JobOf(w))
  BY <1>1, <1>2, RowsStay DEF Ended, Active, ActiveStates, TerminalStates
<1>5. CASE pc[w] \in {"heavy", "mark"}
  <2>1. Active(JobOf(w))
    BY <1>1, <1>5, WasActive DEF JobsInv, DataInv, Rooted, JobsRooted
  <2>2. registered[JobOf(w)] # None
    BY <1>1, <1>5, <2>1 DEF JobsInv, Registered
  <2> QED
    BY <1>1, <1>2, <1>3, <1>4, <2>2, RegistrationStays
<1>6. CASE pc[w] \notin {"heavy", "mark"}
  BY <1>1, <1>2, <1>3, <1>4, <1>6 DEF WorkerStep, CauseOk
<1> QED
  BY <1>5, <1>6

(* Nor is a row that runs ever out of the reach of a cancellation. *)
LEMMA ReachableKept == JobsInv /\ [Next]_vars => Reachable'
<1>1. SUFFICES ASSUME JobsInv, [Next]_vars, Up', NEW j \in Rows', job'[j].state \in {"running", "cancelling"}
               PROVE  registered'[j] # None
  BY DEF Reachable
<1>2. j \in JobIds /\ Up /\ ~Die
  BY <1>1, UpStays, RestartEnds DEF TerminalStates, Rows
<1>3. j \in Rows /\ registered[j] # None
  <2>1. RowStep(j) /\ Registered /\ Reachable
    BY <1>1, <1>2, RowSteps DEF JobsInv
  <2>2. CASE job'[j] = job[j] \/ (Active(j) /\ job[j].state = "running")
    BY <1>1, <1>2, <2>1, <2>2 DEF Reachable, Active, Rows
  <2>3. CASE Active(j) /\ \E w \in Workers : pc[w] = "mark" /\ JobOf(w) = j
    BY <2>1, <2>3 DEF Registered, Active
  <2> QED
    BY <1>1, <2>1, <2>2, <2>3 DEF RowStep, TerminalStates
<1>4. ~Ended(j)
  BY <1>1, <1>2, RowsStay DEF Ended, TerminalStates
<1> QED
  BY <1>1, <1>2, <1>3, <1>4, RegistrationStays

-----------------------------------------------------------------------------
(* Replays.                                                                 *)

(* What a client that was not the writer learns from a step. *)
TaughtOk(k) ==
    request'[k] # None /\ request'[k].answer = "succeeded"
        /\ (request[k] # None => request[k].pc # "run") /\ request'[k] # request[k]
    => published[request'[k].job] = request'[k].body

(* The bytes a succeeded row remembers are the ones it published. *)
LEMMA RememberedBytes ==
    ASSUME JobsInv, NEW j \in JobIds, NEW body \in Bodies, SameBytes(j, body), job[j].state = "succeeded"
    PROVE  published[j] = body
BY NoneAssumption DEF JobsInv, DataInv, Resulted, ResultOk, SameBytes, Ended

(* No step tells a client of a success for other bytes than the published ones. *)
LEMMA RepliesKept == JobsInv /\ [Next]_vars => \A i \in Keys : TaughtOk(i)
<1> USE WorkersHaveJobs DEF vars, rows, registry, workers, clients, bounds, Functions
<1>1. SUFFICES ASSUME JobsInv, [Next]_vars PROVE \A i \in Keys : TaughtOk(i)
  OBVIOUS
<1>2. Functions /\ ClientsType /\ Written /\ \A i \in Keys : AnswerOk(i)
  BY <1>1, AreFunctions DEF JobsInv, DataInv, TypeInv, ClaimsFollow, AnswerOk
<1>3. ASSUME NEW w \in Workers, LeaveUpload(w) PROVE \A i \in Keys : TaughtOk(i)
  <2> DEFINE k == Writer(JobOf(w))
  <2>1. k \in Keys /\ request[k] # None /\ request[k].pc = "run"
    BY <1>2, <1>3, WriterRuns DEF LeaveUpload, Deregister, Runs
  <2>2. \A i \in Keys : i # k => request'[i] = request[i]
    BY <1>2, <1>3 DEF LeaveUpload, Deregister
  <2> HIDE DEF k
  <2> QED
    BY <2>1, <2>2 DEF TaughtOk
<1>4. ASSUME NEW k \in Keys, Load(k) PROVE \A i \in Keys : TaughtOk(i)
  <2> DEFINE j == request[k].job
  <2>1. request[k] \in Request /\ j \in JobIds /\ request[k].body \in Bodies /\ request[k].answer = "none"
        /\ UNCHANGED published
    BY <1>2, <1>4 DEF Load, ClientsType, Request, AnswerOk
  <2>2. \A i \in Keys : i # k => request'[i] = request[i]
    BY <1>2, <1>4 DEF Load, Answer
  <2>3. CASE Ended(j) /\ SameBytes(j, request[k].body)
    <3>1. Answer(k, job[j].state)
      BY <1>4, <2>3 DEF Load, Ended, TerminalStates
    <3>2. request'[k].answer = job[j].state /\ request'[k].body = request[k].body /\ request'[k].job = j
      BY <1>2, <2>1, <3>1 DEF Answer, Request
    <3> QED
      BY <1>1, <2>1, <2>2, <2>3, <3>2, RememberedBytes DEF TaughtOk
  <2>4. CASE ~(Ended(j) /\ SameBytes(j, request[k].body))
    <3>1. request'[k].answer # "succeeded"
      BY <1>2, <1>4, <2>1, <2>4 DEF Load, Answer, Request
    <3> QED
      BY <2>2, <3>1 DEF TaughtOk
  <2> QED
    BY <2>3, <2>4
<1>5. ASSUME NEW k \in Keys, Begin(k) PROVE \A i \in Keys : TaughtOk(i)
  <2>1. \A i \in Keys : request'[i] # request[i] /\ request'[i] # None => request'[i].answer \in {"none", "refused"}
    <3>1. request[k] \in Request /\ request[k].answer = "none"
      BY <1>2, <1>5 DEF Begin, Register, ClientsType, AnswerOk
    <3> QED
      BY <1>2, <1>5, <3>1 DEF Begin, Register, Answer, ClientsType, Request
  <2> QED
    BY <2>1 DEF TaughtOk
<1>6. ASSUME NEW k \in Keys, NEW j \in JobIds, NEW body \in Bodies, Send(k, j, body) PROVE \A i \in Keys : TaughtOk(i)
  <2> DEFINE sent == [job |-> j, body |-> body, pc |-> "load", answer |-> "none"]
  <2>1. PICK r : /\ request' = [request EXCEPT ![k] = r] /\ r.job = j /\ r.body = body
                 /\ r.answer = "succeeded" => SameBytes(j, body) /\ job[j].state = "succeeded"
    <3>1. CASE request' = [request EXCEPT ![k] = sent]
      <4>1. sent.job = j /\ sent.body = body /\ sent.answer = "none"
        OBVIOUS
      <4> HIDE DEF sent
      <4> QED
        BY <3>1, <4>1
    <3>2. ASSUME NEW answer, answer = "succeeded" => SameBytes(j, body) /\ job[j].state = "succeeded",
                 request' = [request EXCEPT ![k] = [sent EXCEPT !.pc = "answered", !.answer = answer]]
          PROVE  \E r : /\ request' = [request EXCEPT ![k] = r] /\ r.job = j /\ r.body = body
                        /\ r.answer = "succeeded" => SameBytes(j, body) /\ job[j].state = "succeeded"
      <4> DEFINE r == [sent EXCEPT !.pc = "answered", !.answer = answer]
      <4>1. r.job = j /\ r.body = body /\ r.answer = answer
        OBVIOUS
      <4> HIDE DEF r
      <4>2. request' = [request EXCEPT ![k] = r]
        BY <3>2 DEF r
      <4> QED
        BY <3>2, <4>1, <4>2
    <3>3. \/ request' = [request EXCEPT ![k] = sent]
          \/ \E answer : /\ request' = [request EXCEPT ![k] = [sent EXCEPT !.pc = "answered", !.answer = answer]]
                         /\ answer = "succeeded" => SameBytes(j, body) /\ job[j].state = "succeeded"
      <4> DEFINE a == IF claim[k] = "completed" /\ SameBytes(j, body) THEN job[j].state ELSE "refused"
      <4>1. \/ request' = [request EXCEPT ![k] = sent]
            \/ request' = [request EXCEPT ![k] = [sent EXCEPT !.pc = "answered", !.answer = a]]
        BY <1>6 DEF Send
      <4>2. a = "succeeded" => SameBytes(j, body) /\ job[j].state = "succeeded"
        OBVIOUS
      <4> HIDE DEF a, sent
      <4> QED
        BY <4>1, <4>2
    <3> QED
      BY <3>1, <3>2, <3>3
  <2>2. request'[k] = r /\ \A i \in Keys : i # k => request'[i] = request[i]
    BY <1>2, <2>1
  <2> HIDE DEF sent
  <2>3. r.answer = "succeeded" => published[j] = body
    BY <1>1, <2>1, RememberedBytes
  <2> QED
    BY <2>1, <2>2, <2>3 DEF TaughtOk
<1>7. ASSUME NEW k \in Keys, Expire(k) PROVE \A i \in Keys : TaughtOk(i)
  BY <1>2, <1>7 DEF Expire, TaughtOk, ClientsType, Request
<1>8. ASSUME Die PROVE \A i \in Keys : TaughtOk(i)
  <2> SUFFICES ASSUME NEW i \in Keys, request'[i] # None PROVE request'[i].answer = "none"
    BY DEF TaughtOk
  <2>1. request[i] # None /\ request'[i] = [request[i] EXCEPT !.pc = "answered", !.answer = "none"]
    BY <1>8 DEF Die
  <2> QED
    BY <1>2, <2>1 DEF ClientsType, Request
<1>9. CASE UNCHANGED request
  BY <1>2, <1>9, <1>1 DEF TaughtOk
<1> QED
  BY <1>1, <1>3, <1>4, <1>5, <1>6, <1>7, <1>8, <1>9, RequestWriters

-----------------------------------------------------------------------------
(* The invariant and what it implies.                                       *)

(* The initial state has its types. *)
LEMMA InitTyped == Init => TypeInv
<1>1. {} \subseteq Workers /\ IsFiniteSet({}) /\ Cardinality({}) = 0
  BY FS_EmptySet
<1>2. 0 \in 0..MaxCancels /\ 0 \in 0..MaxEdits /\ 0 \in 0..MaxSends /\ 0 \in 0..MaxCrashes
  BY BoundsAssumption
<1>3. Init => 0 <= HeavySlots
  BY PlansAssumption DEF Init, HeavySlots
<1>4. Init => RowsType
  BY DEF Init, RowsType
<1>5. Init => WorkersType
  BY <1>1, <1>3 DEF Init, WorkersType, WorkerPositions, Causes
<1>6. Init => ClientsType /\ ServiceType
  BY <1>2 DEF Init, ClientsType, ServiceType
<1> QED
  BY <1>4, <1>5, <1>6 DEF TypeInv

(* The initial state satisfies the other parts. *)
LEMMA InitKept == Init => DataInv /\ Owned /\ Registered /\ Reachable /\ BarrierAfterWait
BY WorkersHaveJobs DEF Init, DataInv, Rooted, JobsRooted, ClientsRooted, Written, CauseTold, CauseOk, Resulted,
     ResultOk, ClaimsFollow, AnswerOk, LeftQueue, Owned, AttendedOk, Registered, Reachable, BarrierAfterWait, Rows,
     Ended

(* JobsInvariant: the inductive invariant of the jobs, for any number of rows, setups, keys, repeated
   requests and crashes. *)
THEOREM JobsInvariant == Spec => []JobsInv
<1>1. Init => JobsInv
  BY InitTyped, InitKept DEF JobsInv
<1>2. JobsInv /\ [Next]_vars => JobsInv'
  <2> SUFFICES ASSUME JobsInv, [Next]_vars PROVE JobsInv'
    OBVIOUS
  <2>1. TypeInv' /\ Written' /\ LeftQueue' /\ BarrierAfterWait'
    BY Typed, WrittenKept, LeftQueueKept, BarrierKept
  <2>2. Owned' /\ Registered' /\ Reachable'
    BY OwnedKept, RegisteredKept, ReachableKept
  <2>3. Rooted'
    BY JobsRootedKept, ClientsRootedKept DEF Rooted, JobsRooted, ClientsRooted
  <2>4. CauseTold'
    BY CausesKept DEF CauseTold, CauseOk
  <2>5. Resulted'
    BY ResultsKept DEF Resulted, ResultOk
  <2>6. ClaimsFollow'
    BY ClaimsKept, AnswersKept DEF ClaimsFollow, AnswerOk
  <2> QED
    BY <2>1, <2>2, <2>3, <2>4, <2>5, <2>6 DEF JobsInv, DataInv
<1> QED
  BY <1>1, <1>2, PTL DEF Spec

(* The type invariant that the run checks is part of the proved one. *)
LEMMA TypesImplied == TypeInv => TypeOK
BY DEF TypeInv, RowsType, WorkersType, WorkerPositions, ClientsType, ServiceType, TypeOK

(* RowsAlwaysAgree: rows, runs, results and claims agree at every moment (finishJobTx, finalizeUploadJobTx,
   RecoverInterrupted). *)
THEOREM RowsAlwaysAgree == Spec => []RowsAgree
<1>1. JobsInv => RowsAgree
  <2> SUFFICES ASSUME JobsInv PROVE RowsAgree
    OBVIOUS
  <2>1. ResultWithJob
    BY DEF ResultWithJob, JobsInv, DataInv, Resulted, ResultOk, Rows
  <2>2. ClaimEndsWithJob
    BY DEF ClaimEndsWithJob, JobsInv, DataInv, ClaimsFollow, AnswerOk
  <2> QED
    BY <2>1, <2>2, TypesImplied DEF RowsAgree, JobsInv
<1> QED
  BY <1>1, JobsInvariant, PTL

(* WorkersAlwaysKept: no unfinished row is without a goroutine that will end it, none that runs is without
   an entry in s.jobs for a cancellation to find, however many workers a repeated key of DuplicateSetup has
   added to it, and none is counted once Wait has returned. *)
THEOREM WorkersAlwaysKept == Spec => []WorkersKept
<1>1. JobsInv => WorkersKept
  <2> SUFFICES ASSUME JobsInv PROVE WorkersKept
    OBVIOUS
  <2>1. ASSUME NEW j \in JobIds, AtWork(j) PROVE \E w \in Workers : JobOf(w) = j /\ AtWork(w)
    BY <2>1, WorkersHaveJobs
  <2>2. Attended
    BY <2>1 DEF JobsInv, Owned, AttendedOk, Attended, Rows
  <2> QED
    BY <2>2 DEF JobsInv, WorkersKept
<1> QED
  BY <1>1, JobsInvariant, PTL

(* TerminalRowsStay: terminalJobUpdateSQL and RecoverInterrupted never rewrite a row that has ended. *)
THEOREM TerminalRowsStay == Spec => TerminalStable
<1>1. JobsInv /\ [Next]_vars => [\A j \in JobIds : Ended(j) => job'[j] = job[j]]_vars
  BY RowsStay
<1> QED
  BY <1>1, JobsInvariant, PTL DEF Spec, TerminalStable

(* RepliesSameBytes: verifyUploadReplay answers with a success only for the bytes that were published. *)
THEOREM RepliesSameBytes == Spec => ReplaySameBytes
<1>1. JobsInv /\ [Next]_vars
      => [\A k \in Keys : request'[k] # None /\ request'[k].answer = "succeeded"
              /\ (request[k] # None => request[k].pc # "run") /\ request'[k] # request[k]
              => published[request'[k].job] = request'[k].body]_vars
  BY RepliesKept DEF TaughtOk
<1> QED
  BY <1>1, JobsInvariant, PTL DEF Spec, ReplaySameBytes

===============================================================================
