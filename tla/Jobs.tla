-------------------------------- MODULE Jobs --------------------------------
(***************************************************************************)
(* websetupmanager's background jobs (internal/service/jobs.go,            *)
(* upload_jobs.go, and the job halves of validation.go, duplicate.go and   *)
(* state.go): how a job is started, run, cancelled, committed and ended,   *)
(* while clients cancel it, repeat its upload, edit its setup, and while   *)
(* the service closes, dies and starts again.                              *)
(*                                                                         *)
(* A transaction is one step. What a job does to its setup is abstracted   *)
(* to the revision and to whether its domain transaction committed; the    *)
(* data are the subject of Setups and of Library.                          *)
(***************************************************************************)
EXTENDS Naturals, FiniteSets

CONSTANTS
    Setups,      \* setups a job can be about
    JobIds,      \* bound: jobs rows
    Repeats,     \* bound: repetitions of the request for a duplicate, each a worker of its own
    RepeatOf,    \* the row each of them is about
    Keys,        \* idempotency keys of runUploadJob, one client request each
    Bodies,      \* what an upload can carry
    Plans,       \* bound: the mixes of jobs that clients ask for, each a kind or None for every row,
                 \* with the configured budget of heavy work
    MaxCancels, MaxEdits, MaxSends, MaxCrashes,   \* bounds
    None

Launched == {"validate", "duplicate", "restore"}

Kinds    == Launched \cup {"upload"}

ActiveStates   == {"queued", "running", "cancelling"}
TerminalStates == {"succeeded", "failed", "cancelled", "conflict"}
Causes         == {"none", "failed", "cancelled", "conflict"}

Job     == [setup : Setups, base : Nat, state : ActiveStates \cup TerminalStates]
Request == [job : JobIds, body : Bodies, pc : {"load", "begin", "run", "answered"},
            answer : TerminalStates \cup {"none", "refused"}]

ASSUME PlansAssumption == Plans \subseteq [kind : [JobIds -> Kinds \cup {None}], heavySlots : Nat \ {0}]
ASSUME BoundsAssumption == MaxCancels \in Nat /\ MaxEdits \in Nat /\ MaxSends \in Nat /\ MaxCrashes \in Nat
ASSUME RepeatsAssumption == RepeatOf \in [Repeats -> JobIds] /\ Repeats \cap JobIds = {}
ASSUME NoneAssumption ==
    /\ None \notin Setups /\ None \notin JobIds /\ None \notin Repeats /\ None \notin Bodies
    /\ None # "set" /\ None \notin Kinds /\ None \notin Job /\ None \notin Request

VARIABLES
    revision,              \* setups.revision
    job,                   \* jobs
    run,                   \* validation_runs.state of a job's run
    published, digest,     \* what a job's domain transaction committed; the bytes its row remembers
    claim,                 \* idempotency_requests of runUploadJob
    pc, cause,             \* per worker, where it is and the error it carries
    registered,            \* s.jobs: per job, the worker whose context a cancellation finds
    counted, signalled,    \* the workers of jobsWG, and those whose context is cancelled
    slots, lock,           \* heavy, and withSetupLock
    canceller,             \* per job, a DELETE of it under way
    request,               \* per key, the client's runUploadJob
    service,               \* the life of the service
    plan,                  \* the mix of this run, and its budget
    cancels, edits, sends, crashes

rows     == <<revision, job, run, published, digest, claim>>
registry == <<registered, counted, signalled>>
workers  == <<pc, cause, registry, slots, lock>>
clients  == <<canceller, request>>
bounds   == <<plan, cancels, edits, sends, crashes>>
vars     == <<rows, workers, clients, service, bounds>>

-----------------------------------------------------------------------------

Rows      == {j \in JobIds : job[j] # None}
Active(j) == j \in Rows /\ job[j].state \in ActiveStates
Ended(j)  == j \in Rows /\ job[j].state \in TerminalStates
Busy(s)   == \E j \in JobIds : Active(j) /\ job[j].setup = s
Kind(j)   == plan.kind[j]
Of(j)     == job[j].setup

HeavySlots == plan.heavySlots

\* A row's own worker bears its name; a repeated request may start another.
Workers  == JobIds \cup Repeats
JobOf(w) == IF w \in JobIds THEN w ELSE RepeatOf[w]

Closing == service # "open"
Up      == service # "down"

\* The key whose request runs an upload inline.
Writer(j) == CHOOSE k \in Keys : request[k] # None /\ request[k].job = j /\ request[k].pc = "run"

Init ==
    /\ revision = [s \in Setups |-> 1]
    /\ job = [j \in JobIds |-> None] /\ run = [j \in JobIds |-> "none"]
    /\ published = [j \in JobIds |-> None] /\ digest = published /\ claim = [k \in Keys |-> "none"]
    /\ pc = [w \in Workers |-> "none"] /\ cause = [w \in Workers |-> "none"]
    /\ registered = [j \in JobIds |-> None] /\ counted = {} /\ signalled = {}
    /\ slots = {} /\ lock = [s \in Setups |-> None]
    /\ canceller = [j \in JobIds |-> "none"] /\ request = [k \in Keys |-> None]
    /\ service = "open"
    /\ plan \in Plans /\ cancels = 0 /\ edits = 0 /\ sends = 0 /\ crashes = 0

-----------------------------------------------------------------------------
\* Starting a job.

\* insertJobTx: one active job for a setup.
Insert(j, s) ==
    /\ Up /\ job[j] = None /\ ~Busy(s)
    /\ job' = [job EXCEPT ![j] = [setup |-> s, base |-> revision[s], state |-> "queued"]]

\* A job with a goroutine, started under the setup's lock.
Start(j, s, kind) ==
    /\ Kind(j) = kind /\ lock[s] = None
    /\ Insert(j, s)
    /\ pc' = [pc EXCEPT ![j] = "launch"]
    /\ UNCHANGED <<revision, published, digest, claim, cause, registry, slots, lock, clients, service, bounds>>

\* ValidateSetup, with its run in the same transaction.
ValidateSetup(j, s)  == Start(j, s, "validate") /\ run' = [run EXCEPT ![j] = "queued"]
DuplicateSetup(j, s) == Start(j, s, "duplicate") /\ UNCHANGED run
RestoreSetup(j, s)   == Start(j, s, "restore") /\ UNCHANGED run

\* DuplicateSetup with the key of a request that was served: no row is
\* inserted, but launchJob is called again for the row that is there.
RepeatDuplicate(r) ==
    LET j == RepeatOf[r] IN
    /\ Up /\ j \in Rows /\ Kind(j) = "duplicate" /\ lock[Of(j)] = None
    /\ pc[r] = "none" /\ pc' = [pc EXCEPT ![r] = "launch"]
    /\ UNCHANGED <<rows, cause, registry, slots, lock, clients, service, bounds>>

\* PrepareUploadJob: a job without a worker.
Prepare(j, s) ==
    /\ Kind(j) = "upload"
    /\ Insert(j, s)
    /\ UNCHANGED <<revision, run, published, digest, claim, workers, clients, service, bounds>>

\* s.jobs and jobsWG.
Register(w) == registered' = [registered EXCEPT ![JobOf(w)] = w] /\ counted' = counted \cup {w}

\* Mutant: a job that finds the service closed is dropped.
LaunchOrDrop(w) ==
    /\ pc[w] = "launch"
    /\ IF Closing THEN pc' = [pc EXCEPT ![w] = "none"] /\ UNCHANGED <<registered, counted>>
       ELSE Register(w) /\ pc' = [pc EXCEPT ![w] = "heavy"]
    /\ UNCHANGED <<rows, cause, signalled, slots, lock, clients, service, bounds>>

\* launchJob, under jobsMu: whoever was registered for the row is replaced.
Launch(w) ==
    /\ pc[w] = "launch"
    /\ IF Closing
       THEN /\ pc' = [pc EXCEPT ![w] = "finish"] /\ cause' = [cause EXCEPT ![w] = "cancelled"]
            /\ UNCHANGED <<registered, counted>>
       ELSE Register(w) /\ pc' = [pc EXCEPT ![w] = "heavy"] /\ UNCHANGED cause
    /\ UNCHANGED <<rows, signalled, slots, lock, clients, service, bounds>>

-----------------------------------------------------------------------------
\* The worker.

Goto(w, next, why) == pc' = [pc EXCEPT ![w] = next] /\ cause' = [cause EXCEPT ![w] = why]

\* acquireHeavy.
Acquire(w) ==
    /\ pc[w] = "heavy"
    /\ \/ Cardinality(slots) < HeavySlots /\ slots' = slots \cup {w} /\ Goto(w, "mark", "none")
       \/ (w \in signalled \/ Closing) /\ Goto(w, "finish", "cancelled") /\ UNCHANGED slots
    /\ UNCHANGED <<rows, registry, lock, clients, service, bounds>>

\* markJobRunning.
MarkRunning(w) ==
    LET j == JobOf(w) IN
    /\ pc[w] = "mark"
    /\ IF w \notin signalled /\ job[j].state = "queued"
       THEN /\ job' = [job EXCEPT ![j].state = "running"]
            /\ Goto(w, IF Kind(j) = "validate" THEN "begin" ELSE "lock", "none")
       ELSE /\ Goto(w, "finish", IF w \in signalled \/ job[j].state \in {"cancelling", "cancelled"}
                                 THEN "cancelled" ELSE "failed")
            /\ UNCHANGED job
    /\ UNCHANGED <<revision, run, published, digest, claim, registry, slots, lock, clients, service, bounds>>

\* markValidationRunning: its error is not followed by markValidationAborted.
BeginValidation(w) ==
    LET j == JobOf(w) IN
    /\ pc[w] = "begin"
    /\ IF w \notin signalled /\ run[j] = "queued"
       THEN run' = [run EXCEPT ![j] = "running"] /\ Goto(w, "lock", "none")
       ELSE Goto(w, "finish", IF w \in signalled THEN "cancelled" ELSE "failed") /\ UNCHANGED run
    /\ UNCHANGED <<revision, job, published, digest, claim, registry, slots, lock, clients, service, bounds>>

TakeLock(w) ==
    LET j == JobOf(w) IN
    /\ pc[w] = "lock" /\ lock[Of(j)] = None
    /\ lock' = [lock EXCEPT ![Of(j)] = w] /\ pc' = [pc EXCEPT ![w] = "work"]
    /\ UNCHANGED <<rows, cause, registry, slots, clients, service, bounds>>

Working(w) == pc[w] = "work" /\ lock' = [lock EXCEPT ![Of(JobOf(w))] = None]

\* Mutant: the terminal row is written after the domain transaction.
FinishLater(j, state) == Active(j) /\ UNCHANGED job

\* Mutant: finishJob writes the row whatever its state.
TerminalAny(j, state) == [job EXCEPT ![j].state = state]

Current(j) == revision[Of(j)] = job[j].base

\* terminalJobUpdateSQL: only an active row changes; finishJobTx: it must.
Outcome(why)       == IF why = "none" THEN "succeeded" ELSE why
Terminal(j, state) == IF Active(j) THEN [job EXCEPT ![j].state = state] ELSE job
FinishTx(j, state) == Active(j) /\ job' = [job EXCEPT ![j].state = state]

\* finishIdempotencyTx.
FinishClaim(k, state) == claim' = [claim EXCEPT ![k] = state]

\* commitValidationResult, commitDuplicate, the transaction of
\* changeArchiveState and the one of an upload, finalizeUploadJobTx.
CommitValidation(w) ==
    LET j == JobOf(w) IN
    /\ Kind(j) = "validate" /\ run[j] = "running"
    /\ run' = [run EXCEPT ![j] = "done"] /\ published' = [published EXCEPT ![j] = "set"]
    /\ Goto(w, "finish", "none") /\ UNCHANGED <<revision, digest, claim>>
CommitDuplicate(w) ==
    /\ Kind(JobOf(w)) = "duplicate" /\ published' = [published EXCEPT ![JobOf(w)] = "set"]
    /\ Goto(w, "finish", "none") /\ UNCHANGED <<revision, run, digest, claim>>
CommitRestore(w) ==
    /\ Kind(JobOf(w)) = "restore" /\ published' = [published EXCEPT ![JobOf(w)] = "set"]
    /\ Goto(w, "finish", "none") /\ UNCHANGED <<revision, run, digest, claim>>
CommitUpload(w) ==
    LET j == JobOf(w)  k == Writer(j) IN
    /\ Kind(j) = "upload"
    /\ published' = [published EXCEPT ![j] = request[k].body] /\ digest' = [digest EXCEPT ![j] = request[k].body]
    /\ revision' = [revision EXCEPT ![Of(j)] = @ + 1]
    /\ FinishClaim(k, "completed") /\ Goto(w, "leave", "none") /\ UNCHANGED run

Commit(w) ==
    LET j == JobOf(w) IN
    /\ Working(w) /\ w \notin signalled /\ Current(j)
    /\ FinishTx(j, "succeeded")
    /\ CommitValidation(w) \/ CommitDuplicate(w) \/ CommitRestore(w) \/ CommitUpload(w)
    /\ UNCHANGED <<registry, slots, clients, service, bounds>>

\* finishValidationConflict; the other kinds only return the error.
Conflict(w) ==
    LET j == JobOf(w) IN
    /\ Working(w) /\ w \notin signalled /\ ~Current(j)
    /\ IF Kind(j) = "validate"
       THEN FinishTx(j, "conflict") /\ run' = [run EXCEPT ![j] = "conflict"] /\ Goto(w, "abort", "conflict")
       ELSE UNCHANGED <<run, job>> /\ Goto(w, "finish", "conflict")
    /\ UNCHANGED <<revision, published, digest, claim, registry, slots, clients, service, bounds>>

\* updateJobProgress: a report of a row that is no longer running.
Unreported(j) == job[j].state # "running"

\* The work is stopped by its context or by a report, or it fails.
Interrupt(w) ==
    LET j == JobOf(w) IN
    /\ Working(w)
    /\ \E why \in {"failed"} \cup (IF w \in signalled \/ Unreported(j) THEN {"cancelled"} ELSE {}) :
          Goto(w, IF Kind(j) = "validate" THEN "abort" ELSE "finish", why)
    /\ UNCHANGED <<rows, registry, slots, clients, service, bounds>>

\* markValidationAborted.
Abort(w) ==
    LET j == JobOf(w) IN
    /\ pc[w] = "abort" /\ pc' = [pc EXCEPT ![w] = "finish"]
    /\ IF run[j] \in {"queued", "running"} /\ Active(j)
       THEN /\ run' = [run EXCEPT ![j] = IF cause[w] = "cancelled" THEN "cancelled" ELSE "failed"]
            /\ job' = Terminal(j, Outcome(cause[w]))
       ELSE UNCHANGED <<run, job>>
    /\ UNCHANGED <<revision, published, digest, claim, cause, registry, slots, lock, clients, service, bounds>>

\* finishJob.
Finish(w) ==
    /\ pc[w] = "finish" /\ Kind(JobOf(w)) # "upload" /\ pc' = [pc EXCEPT ![w] = "leave"]
    /\ job' = Terminal(JobOf(w), Outcome(cause[w]))
    /\ UNCHANGED <<revision, run, published, digest, claim, cause, registry, slots, lock, clients, service, bounds>>

\* finalizeUploadRun; a row that ends here remembers the bytes if all were read.
FinishUpload(w) ==
    LET j == JobOf(w) IN
    /\ pc[w] = "finish" /\ Kind(j) = "upload" /\ pc' = [pc EXCEPT ![w] = "leave"]
    /\ job' = Terminal(j, Outcome(cause[w]))
    /\ FinishClaim(Writer(j), "completed")
    /\ \/ UNCHANGED digest
       \/ Active(j) /\ digest' = [digest EXCEPT ![j] = request[Writer(j)].body]
    /\ UNCHANGED <<revision, run, published, cause, registry, slots, lock, clients, service, bounds>>

\* The entry of s.jobs goes by the row, whoever put it there.
Deregister(w) ==
    /\ registered' = IF w \in counted THEN [registered EXCEPT ![JobOf(w)] = None] ELSE registered
    /\ counted' = counted \ {w} /\ signalled' = signalled \ {w}

\* Mutant: the slot is not released.
LeaveHolding(w) ==
    /\ pc[w] = "leave" /\ Kind(JobOf(w)) # "upload" /\ pc' = [pc EXCEPT ![w] = "ended"]
    /\ Deregister(w) /\ UNCHANGED slots
    /\ UNCHANGED <<rows, cause, lock, clients, service, bounds>>

\* The deferred calls of runJob.
Leave(w) ==
    /\ pc[w] = "leave" /\ Kind(JobOf(w)) # "upload" /\ pc' = [pc EXCEPT ![w] = "ended"]
    /\ Deregister(w) /\ slots' = slots \ {w}
    /\ UNCHANGED <<rows, cause, lock, clients, service, bounds>>

\* endInlineJob, after the answer of the request.
LeaveUpload(w) ==
    LET j == JobOf(w) IN
    /\ pc[w] = "leave" /\ Kind(j) = "upload" /\ pc' = [pc EXCEPT ![w] = "none"]
    /\ Deregister(w)
    /\ request' = [request EXCEPT ![Writer(j)].pc = "answered", ![Writer(j)].answer = job[j].state]
    /\ UNCHANGED <<rows, cause, slots, lock, canceller, service, bounds>>

-----------------------------------------------------------------------------
\* RunUploadJob.

\* Mutant: a row that has ended answers any bytes.
AnyBytes(j, body) == TRUE

\* verifyUploadReplay: the bytes the job's row remembers are sent again.
SameBytes(j, body) == digest[j] = body

Answer(k, answer) == request' = [request EXCEPT ![k].pc = "answered", ![k].answer = answer]

\* claimIdempotency; a terminal claim is replayed after verifyUploadReplay.
Send(k, j, body) ==
    /\ Up /\ sends < MaxSends /\ sends' = sends + 1
    /\ j \in Rows /\ Kind(j) = "upload"
    /\ request[k] # None => request[k].pc = "answered" /\ request[k].job = j
    /\ LET sent == [job |-> j, body |-> body, pc |-> "load", answer |-> "none"] IN
       \/ claim[k] = "none" /\ claim' = [claim EXCEPT ![k] = "in_progress"]
          /\ request' = [request EXCEPT ![k] = sent]
       \/ /\ claim[k] \in {"completed", "failed"} /\ UNCHANGED claim
          /\ request' = [request EXCEPT ![k] = [sent EXCEPT !.pc = "answered",
                 !.answer = IF claim[k] = "completed" /\ SameBytes(j, body) THEN job[j].state ELSE "refused"]]
    /\ UNCHANGED <<revision, job, run, published, digest, workers, canceller, service, plan, cancels, edits, crashes>>

\* A terminal claim expires.
Expire(k) ==
    /\ Up /\ claim[k] \in {"completed", "failed"} /\ request[k] # None /\ request[k].pc = "answered"
    /\ claim' = [claim EXCEPT ![k] = "none"]
    /\ request' = [request EXCEPT ![k].answer = "none"]
    /\ UNCHANGED <<revision, job, run, published, digest, workers, canceller, service, bounds>>

\* GetJob and what follows from the state it finds.
Load(k) ==
    LET j == request[k].job IN
    /\ request[k] # None /\ request[k].pc = "load"
    /\ CASE Ended(j) /\ SameBytes(j, request[k].body) ->
                FinishClaim(k, "completed") /\ Answer(k, job[j].state)
         [] job[j].state = "queued" -> request' = [request EXCEPT ![k].pc = "begin"] /\ UNCHANGED claim
         [] OTHER -> FinishClaim(k, "failed") /\ Answer(k, "refused")
    /\ UNCHANGED <<revision, job, run, published, digest, workers, canceller, service, bounds>>

\* beginInlineJob, under jobsMu.
Begin(k) ==
    LET j == request[k].job IN
    /\ request[k] # None /\ request[k].pc = "begin"
    /\ IF Closing \/ registered[j] # None
       THEN FinishClaim(k, "failed") /\ Answer(k, "refused") /\ UNCHANGED <<pc, cause, registered, counted>>
       ELSE /\ Register(j) /\ Goto(j, "mark", "none")
            /\ request' = [request EXCEPT ![k].pc = "run"] /\ UNCHANGED claim
    /\ UNCHANGED <<revision, job, run, published, digest, signalled, slots, lock, canceller, service, bounds>>

\* The client goes away: the worker's context has the request's as parent.
Disconnect(k) ==
    /\ request[k] # None /\ request[k].pc = "run" /\ request[k].job \notin signalled
    /\ signalled' = signalled \cup {request[k].job}
    /\ UNCHANGED <<rows, pc, cause, registered, counted, slots, lock, clients, service, bounds>>

-----------------------------------------------------------------------------
\* cancelJob, from the state that GetJob has read.

Cancelling(j, at, next) == canceller[j] = at /\ canceller' = [canceller EXCEPT ![j] = next]

Cancel(j) ==
    /\ Up /\ cancels < MaxCancels /\ cancels' = cancels + 1
    /\ Active(j)
    /\ Cancelling(j, "none", IF job[j].state # "queued" THEN "request"
                             ELSE IF Kind(j) = "validate" THEN "unqueue" ELSE "drop")
    /\ UNCHANGED <<rows, workers, request, service, plan, edits, sends, crashes>>

\* cancelQueuedValidation.
EndQueuedRun(j) ==
    IF run[j] = "queued" /\ Active(j)
    THEN run' = [run EXCEPT ![j] = "cancelled"] /\ job' = [job EXCEPT ![j].state = "cancelled"]
    ELSE UNCHANGED <<run, job>>

Unqueue(j) ==
    /\ \/ (run[j] = "queued" \/ Ended(j)) /\ Cancelling(j, "unqueue", "signal")
       \/ ~(run[j] = "queued" \/ Ended(j)) /\ Cancelling(j, "unqueue", "dropRun")
    /\ EndQueuedRun(j)
    /\ UNCHANGED <<revision, published, digest, claim, workers, request, service, bounds>>

\* The update of a row that is still queued.
Drop(j) ==
    /\ canceller[j] \in {"drop", "dropRun"}
    /\ IF job[j].state = "queued"
       THEN /\ job' = [job EXCEPT ![j].state = "cancelled"]
            /\ Cancelling(j, "drop", "signal") \/ Cancelling(j, "dropRun", "signal")
       ELSE /\ UNCHANGED job
            /\ Cancelling(j, "drop", "request") \/ Cancelling(j, "dropRun", "requestRun")
    /\ UNCHANGED <<revision, run, published, digest, claim, workers, request, service, bounds>>

RequestCancel(j) ==
    /\ canceller[j] \in {"request", "requestRun"}
    /\ IF job[j].state \in {"queued", "running"}
       THEN /\ job' = [job EXCEPT ![j].state = "cancelling"]
            /\ Cancelling(j, "request", "signal") \/ Cancelling(j, "requestRun", "late")
       ELSE /\ UNCHANGED job
            /\ Cancelling(j, "request", "none") \/ Cancelling(j, "requestRun", "none")
    /\ UNCHANGED <<revision, run, published, digest, claim, workers, request, service, bounds>>

Late(j) ==
    /\ Cancelling(j, "late", "signal") /\ EndQueuedRun(j)
    /\ UNCHANGED <<revision, published, digest, claim, workers, request, service, bounds>>

\* signalJobCancellation: one context, the registered one.
Signal(j) ==
    /\ Cancelling(j, "signal", "none")
    /\ signalled' = signalled \cup ({registered[j]} \ {None})
    /\ UNCHANGED <<rows, pc, cause, registered, counted, slots, lock, request, service, bounds>>

-----------------------------------------------------------------------------
\* Other mutations of a setup, and the life of the service.

\* UpdateSetup and the other mutations made under the setup's lock.
Edit(s) ==
    /\ Up /\ edits < MaxEdits /\ edits' = edits + 1
    /\ lock[s] = None /\ revision' = [revision EXCEPT ![s] = @ + 1]
    /\ UNCHANGED <<job, run, published, digest, claim, workers, clients, service, plan, cancels, sends, crashes>>

\* CloseContext: the closed channel, then the registered jobs under jobsMu.
Close == service = "open" /\ service' = "closing" /\ UNCHANGED <<rows, workers, clients, bounds>>

SignalAll ==
    /\ service = "closing" /\ service' = "closed"
    /\ signalled' = signalled \cup ({registered[j] : j \in JobIds} \ {None})
    /\ UNCHANGED <<rows, pc, cause, registered, counted, slots, lock, clients, bounds>>

Wait == service = "closed" /\ counted = {} /\ service' = "waited" /\ UNCHANGED <<rows, workers, clients, bounds>>

\* The process ends, by itself once Wait has returned or at any time.
Die ==
    /\ Up /\ crashes < MaxCrashes /\ crashes' = crashes + 1 /\ service' = "down"
    /\ pc' = [w \in Workers |-> "none"] /\ cause' = [w \in Workers |-> "none"]
    /\ registered' = [j \in JobIds |-> None] /\ counted' = {} /\ signalled' = {}
    /\ slots' = {} /\ lock' = [s \in Setups |-> None]
    /\ canceller' = [j \in JobIds |-> "none"]
    /\ request' = [k \in Keys |-> IF request[k] = None THEN None
                                  ELSE [request[k] EXCEPT !.pc = "answered", !.answer = "none"]]
    /\ UNCHANGED <<rows, plan, cancels, edits, sends>>

\* RecoverInterrupted.
Restart ==
    /\ service = "down" /\ service' = "open"
    /\ job' = [j \in JobIds |-> IF Active(j) THEN [job[j] EXCEPT !.state = "failed"] ELSE job[j]]
    /\ run' = [j \in JobIds |-> IF run[j] \in {"queued", "running"} THEN "failed" ELSE run[j]]
    /\ claim' = [k \in Keys |-> IF claim[k] = "in_progress" THEN "failed" ELSE claim[k]]
    /\ UNCHANGED <<revision, published, digest, workers, clients, bounds>>

-----------------------------------------------------------------------------

Ends(w)    == Commit(w) \/ Conflict(w) \/ Interrupt(w)
Work(w)    == Launch(w) \/ Acquire(w) \/ MarkRunning(w) \/ BeginValidation(w) \/ TakeLock(w) \/ Ends(w) \/ Abort(w)
                \/ Finish(w) \/ FinishUpload(w) \/ Leave(w) \/ LeaveUpload(w)
Serve(k)   == Load(k) \/ Begin(k)
Unwind(j)  == Unqueue(j) \/ Drop(j) \/ RequestCancel(j) \/ Late(j) \/ Signal(j)
Clients    == \/ \E j \in JobIds, s \in Setups :
                    ValidateSetup(j, s) \/ DuplicateSetup(j, s) \/ RestoreSetup(j, s) \/ Prepare(j, s) \/ Edit(s)
              \/ \E r \in Repeats : RepeatDuplicate(r)
              \/ \E k \in Keys, j \in JobIds, body \in Bodies : Send(k, j, body)
              \/ \E k \in Keys : Expire(k) \/ Disconnect(k)
              \/ \E j \in JobIds : Cancel(j)
Lifecycle  == Close \/ SignalAll \/ Wait \/ Die \/ Restart

Next ==
    \/ \E w \in Workers : Work(w)
    \/ \E j \in JobIds : Unwind(j)
    \/ \E k \in Keys : Serve(k)
    \/ Clients \/ Lifecycle

Spec == Init /\ [][Next]_vars

\* Goroutines and handlers run; a Go mutex and a channel starve nobody.
FairSpec ==
    /\ Spec /\ WF_vars(SignalAll) /\ WF_vars(Wait)
    /\ \A w \in Workers : SF_vars(Acquire(w) \/ TakeLock(w)) /\ WF_vars(Work(w))
    /\ \A j \in JobIds : WF_vars(Unwind(j))
    /\ \A k \in Keys : WF_vars(Serve(k))

-----------------------------------------------------------------------------
\* Properties.

\* TYPE: rows, workers and requests stay in their domains.
TypeOK ==
    /\ revision \in [Setups -> Nat]
    /\ job \in [JobIds -> Job \cup {None}]
    /\ run \in [JobIds -> {"none", "queued", "running", "done", "conflict", "failed", "cancelled"}]
    /\ published \in [JobIds -> Bodies \cup {"set", None}] /\ digest \in [JobIds -> Bodies \cup {"set", None}]
    /\ claim \in [Keys -> {"none", "in_progress", "completed", "failed"}]
    /\ pc \in [Workers -> {"none", "launch", "heavy", "mark", "begin", "lock", "work", "abort", "finish", "leave",
                          "ended"}]
    /\ cause \in [Workers -> Causes]
    /\ registered \in [JobIds -> Workers \cup {None}]
    /\ counted \subseteq Workers /\ signalled \subseteq Workers /\ slots \subseteq Workers
    /\ Cardinality(slots) <= HeavySlots /\ lock \in [Setups -> Workers \cup {None}]
    /\ canceller \in [JobIds -> {"none", "unqueue", "drop", "dropRun", "request", "requestRun", "late", "signal"}]
    /\ request \in [Keys -> Request \cup {None}]
    /\ service \in {"open", "closing", "closed", "waited", "down"}
    /\ plan \in Plans /\ cancels \in 0..MaxCancels /\ edits \in 0..MaxEdits
    /\ sends \in 0..MaxSends /\ crashes \in 0..MaxCrashes

\* ResultWithJob: what a job has published and the state of its row never
\* contradict each other, whatever cancels, closes or kills it in between
\* (DECISIONS.md, D-020: one commit).
ResultWithJob ==
    \A j \in Rows :
        /\ published[j] # None <=> job[j].state = "succeeded"
        /\ run[j] = "done" => job[j].state = "succeeded"
        /\ run[j] = "conflict" => job[j].state = "conflict"

\* TerminalStable: a terminal row never changes again (API-007), by a late
\* cancellation, by its own worker or by a restart.
TerminalStable == [][\A j \in JobIds : Ended(j) => job'[j] = job[j]]_vars

AtWork(w) == pc[w] \notin {"none", "ended", "leave"}

\* Attended: a row that is not waiting for an upload has a worker that will
\* end it, however many a repeated request has added to it; a cancellation, a
\* close or a restart leaves no row behind.
Attended ==
    Up => \A j \in Rows :
        job[j].state \in {"running", "cancelling"} \/ (job[j].state = "queued" /\ Kind(j) # "upload")
        => \E w \in Workers : JobOf(w) = j /\ AtWork(w)

\* Reachable: a row that has left the queue has an entry in s.jobs until it
\* ends, so that a cancellation finds a context although a second worker of
\* the row replaces the entry and deletes it when it leaves.
Reachable == Up => \A j \in Rows : job[j].state \in {"running", "cancelling"} => registered[j] # None

\* BarrierAfterWait: once Wait has returned no goroutine is left, although
\* handlers that began before still start jobs and uploads.
BarrierAfterWait == service = "waited" => counted = {}

\* ClaimEndsWithJob: a claim that is completed belongs to a job that has
\* ended, and a request that ran is answered with the row it left.
ClaimEndsWithJob ==
    \A k \in Keys : request[k] # None /\ claim[k] = "completed" => Ended(request[k].job)

\* ReplaySameBytes: a client that was not itself the writer is told of a
\* success only for the bytes that were published.
ReplaySameBytes ==
    [][\A k \in Keys : request'[k] # None /\ request'[k].answer = "succeeded"
           /\ (request[k] # None => request[k].pc # "run") /\ request'[k] # request[k]
           => published[request'[k].job] = request'[k].body]_vars

\* JobsEnd: a job that was started ends, and so does an upload that runs or
\* is being cancelled, unless the process dies first.
JobsEnd ==
    \A j \in JobIds :
        (job[j] # None /\ (Kind(j) # "upload" \/ job[j].state # "queued")) ~> (Ended(j) \/ ~Up)

\* RowsAgree: the variables keep their types, and the rows of jobs, of what
\* they publish and of claims agree with each other at every moment.
RowsAgree == TypeOK /\ ResultWithJob /\ ClaimEndsWithJob

\* WorkersKept: no row waits for a worker that is gone, none that runs is out
\* of the reach of a cancellation, and no worker is left once Wait has returned.
WorkersKept == Attended /\ Reachable /\ BarrierAfterWait

=============================================================================
