------------------------------- MODULE Logins -------------------------------
(***************************************************************************)
(* remoteterminal's browser sessions (internal/auth/auth.go), the          *)
(* connections opened under them (internal/httpapi/connections.go) and the *)
(* requests that use both (login, logout, any authenticated request, a     *)
(* WebSocket upgrade, the shutdown: internal/httpapi/server.go).           *)
(*                                                                         *)
(* A critical section of a mutex is one step; a request, the callback of a *)
(* timer and the shutdown are processes that other steps come between.     *)
(* Time is a small counter, which the store and the throttler read before  *)
(* they take their mutex. The opaque token stands for its hash and for the *)
(* CSRF secret made with it.                                               *)
(***************************************************************************)
EXTENDS Integers, FiniteSets, Sequences, SequencesExt

CONSTANTS
    Handlers,        \* bound: requests being served at once
    Tokens, Conns,   \* bounds: sessions ever made, connections ever hijacked
    Users, AllowedUser, Address,   \* submitted names, the configured one, the peer's address
    Capacity, Idle, Absolute, Remember,   \* the store's capacity and lifetimes
    Limit, Window, AuthConcurrency,       \* the throttler and the slots of login
    MaxKeys, KeepKeys,   \* the throttler's bound on its keys and what an eviction keeps
    Plans,               \* bound: how often each thing happens in a run; the clock's steps too
    None

Work  == {"login", "malformed", "touch", "logout", "upgrade", "shutdown", "restart", "fault", "end",
          "wrong", "remembered", "time"}
Keys  == Users \cup {Address}

Session == [expires : Nat, idleAt : Nat, idle : Nat, remembered : BOOLEAN]
Conn    == [token : Tokens, socket : {"open", "leaving", "closed"}, timer : Nat \cup {None}]

ASSUME PlansAssumption == Plans \subseteq [Work -> Nat]
ASSUME UsersAssumption == AllowedUser \in Users /\ Address \notin Users
ASSUME LimitsAssumption == /\ Capacity \in Nat \ {0} /\ Limit \in Nat \ {0} /\ AuthConcurrency \in Nat \ {0}
                           /\ Idle \in Nat \ {0} /\ Absolute \in Nat \ {0} /\ Remember \in Nat \ {0}
                           /\ Idle <= Absolute /\ Window \in Nat \ {0}
                           /\ MaxKeys \in Nat /\ KeepKeys \in 0 .. MaxKeys
ASSUME BoundsAssumption == IsFiniteSet(Handlers) /\ IsFiniteSet(Tokens)
ASSUME NoneAssumption == /\ None \notin Tokens \cup Conns \cup Users \cup Nat
                         /\ None \notin Session /\ None \notin Conn

VARIABLES
    now,        \* the clock
    sessions,   \* Store.sessions, by token
    file,       \* remembered-sessions.json: the expiry of each remembered session
    issued,     \* tokens ever generated
    cookies,    \* tokens that a browser was answered and still holds
    attempts,   \* Throttler.attempts
    handlers,   \* the requests being served
    tracked,    \* connectionTracker.byToken
    closed,     \* connectionTracker.closed
    conns,      \* every connection: its token, its socket and its timer
    callbacks,  \* timers that fired and whose function has not ended
    shutdown,   \* BeginShutdown: what it is doing
    plan,       \* what is left of this run
    promised,   \* the expiry announced with each remembered cookie
    goneFor,    \* tokens that a logout was asked for
    loggedOut,  \* tokens whose logout was answered
    refused,    \* a start that failed with ErrSessionCapacity
    latest      \* the latest deadline that each session ever had

store  == <<sessions, file, issued>>
wires  == <<tracked, closed, conns, callbacks>>
ghosts == <<promised, goneFor, loggedOut, refused, latest>>
vars   == <<now, store, cookies, attempts, handlers, wires, shutdown, plan, ghosts>>

-----------------------------------------------------------------------------
\* States.

Steps    == {"idle", "allow address", "allow user", "slot", "pam", "fail address", "fail user", "create",
             "clear address", "clear user", "deny address", "count address", "deny user", "count user",
             "get", "refresh", "revoke", "close token", "closing", "hijack", "track", "validate", "renew"}
Handler  == [at : Steps, since : Nat, work : Work \cup {"none"}, user : Users \cup {None}, remember : BOOLEAN,
             token : Tokens \cup {None}, deadline : Nat, closing : SUBSET Conns]
Callback == [conn : Conns, at : {"check", "reset", "expire", "closing"}, since : Nat, current : BOOLEAN,
             deadline : Nat, closing : SUBSET Conns]

Resting == [at |-> "idle", since |-> 0, work |-> "none", user |-> None, remember |-> FALSE, token |-> None,
            deadline |-> 0, closing |-> {}]

Smaller(a, b) == IF a < b THEN a ELSE b
Larger(a, b)  == IF a < b THEN b ELSE a

\* What Allow, Failure, create, Get and DeadlineFor read from the clock: its
\* value at some moment since the process came to this step.
Readings(process) == process.since .. now

\* Session.Deadline.
Deadline(s) == Smaller(s.idleAt, s.expires)
Known(t)    == sessions[t] # None
Live(t, clock) == Known(t) /\ clock < sessions[t].expires /\ clock < sessions[t].idleAt
Remembered(m) == {t \in Tokens : m[t] # None /\ m[t].remembered}
Count(m)      == Cardinality({t \in Tokens : m[t] # None})

\* Tokens and connections are taken in some order: which one it is says nothing.
NextToken(t) == issued # Tokens /\ t = CHOOSE u \in Tokens \ issued : TRUE
Unused       == {c \in Conns : conns[c] = None}
NextConn(c)  == Unused # {} /\ c = CHOOSE d \in Unused : TRUE

Slots == Cardinality({h \in Handlers : handlers[h].at \in
            {"pam", "fail address", "fail user", "create", "clear address", "clear user"}})
Spend(what) == plan[what] > 0 /\ plan' = [plan EXCEPT ![what] = @ - 1]
At(h, step) == handlers[h].at = step
Arrived(h, step) == [handlers[h] EXCEPT !.at = step, !.since = now]
Go(h, step) == handlers' = [handlers EXCEPT ![h] = Arrived(h, step)]
End(h)      == handlers' = [handlers EXCEPT ![h] = Resting]
Serving     == shutdown.at = "no"

Init ==
    /\ now = 0
    /\ sessions = [t \in Tokens |-> None] /\ file = sessions /\ issued = {}
    /\ cookies = {} /\ attempts = [k \in Keys |-> <<>>]
    /\ handlers = [h \in Handlers |-> Resting]
    /\ tracked = {} /\ closed = FALSE /\ conns = [c \in Conns |-> None] /\ callbacks = {}
    /\ shutdown = [at |-> "no", closing |-> {}]
    /\ plan \in Plans
    /\ promised = [t \in Tokens |-> 0] /\ goneFor = {} /\ loggedOut = {} /\ refused = FALSE
    /\ latest = [t \in Tokens |-> 0]

-----------------------------------------------------------------------------
\* The throttler.

\* pruneLocked drops the failures before the first one that is still in the window.
Old(times, n, clock) == \A i \in 1..n : times[i] <= clock - Window
First(times, clock)  ==
    CHOOSE n \in 0..Len(times) : Old(times, n, clock) /\ (n < Len(times) => times[n + 1] > clock - Window)
Recent(times, clock) == SubSeq(times, First(times, clock) + 1, Len(times))

\* Mutant: one attempt too many is let through.
AllowedOneMore(times) == Len(times) <= Limit

Allowed(times) == Len(times) < Limit

\* Allow: a request goes on to one step or to another.
Allow(h, k, yes, no) ==
    /\ \E clock \in Readings(handlers[h]) : attempts' = [attempts EXCEPT ![k] = Recent(@, clock)]
    /\ IF Allowed(attempts'[k]) THEN Go(h, yes) ELSE IF no = "idle" THEN End(h) ELSE Go(h, no)

\* evictLocked keeps the entries whose last attempt is the youngest.
Evicted(all) ==
    LET used == {k \in Keys : all[k] # <<>>}
        Kept(keep) == /\ Cardinality(keep) = KeepKeys
                      /\ \A k \in keep, g \in used \ keep : Last(all[k]) >= Last(all[g])
    IN  IF Cardinality(used) <= MaxKeys THEN {all}
        ELSE {[k \in Keys |-> IF k \in keep THEN all[k] ELSE <<>>] : keep \in {s \in SUBSET used : Kept(s)}}

\* Failure.
Fail(h, k, next) ==
    /\ \E clock \in Readings(handlers[h]) :
          attempts' \in Evicted([attempts EXCEPT ![k] = Append(Recent(@, clock), clock)])
    /\ IF next = "idle" THEN End(h) ELSE Go(h, next)

\* Success.
Clear(k) == attempts' = [attempts EXCEPT ![k] = <<>>]

-----------------------------------------------------------------------------
\* The store.

NewSession(remember, clock) ==
    LET idle == IF remember THEN Remember ELSE Idle
        absolute == IF remember THEN Remember ELSE Absolute
    IN  [expires |-> clock + absolute, idleAt |-> clock + Smaller(idle, absolute), idle |-> idle,
         remembered |-> remember]

Full(m) == Count(m) >= Capacity

\* removeExpiredLocked.
WithoutExpired(clock) == [t \in Tokens |-> IF Live(t, clock) THEN sessions[t] ELSE None]

\* persistLocked: the file is replaced by what the map holds, or stays, or is
\* replaced and the directory cannot be synchronised.
Saved(m) == [t \in Tokens |-> IF t \in Remembered(m) THEN m[t].expires ELSE None]

\* Mutant: the file is written in place, and a failure leaves it empty.
PersistInPlace(m, result) ==
    \/ result = "saved" /\ file' = Saved(m) /\ UNCHANGED plan
    \/ result = "failed" /\ Spend("fault") /\ file' = [t \in Tokens |-> None]

Persist(m, result) ==
    \/ result = "saved" /\ file' = Saved(m) /\ UNCHANGED plan
    \/ result = "failed" /\ Spend("fault") /\ file' \in {file, Saved(m)}

\* Get moves the idle deadline, by an older reading also back, or removes an
\* expired session from the map alone.
Refreshed(s, clock) == [s EXCEPT !.idleAt = Smaller(clock + s.idle, s.expires)]
Get(t, clock) ==
    /\ sessions' = [sessions EXCEPT ![t] = IF Live(t, clock) THEN Refreshed(@, clock) ELSE None]
    /\ latest' = [latest EXCEPT ![t] = IF Live(t, clock) THEN Larger(@, Deadline(sessions'[t])) ELSE @]

\* DeadlineFor.
Look(t, clock) == sessions' = [sessions EXCEPT ![t] = IF Live(t, clock) THEN @ ELSE None]

\* Delete puts the record back when the file cannot be written.
Delete(t, result) ==
    LET without == [sessions EXCEPT ![t] = None]
    IN  \/ /\ t \notin Remembered(sessions) /\ result = "saved"
           /\ sessions' = without /\ UNCHANGED <<file, plan>>
        \/ /\ t \in Remembered(sessions)
           /\ Persist(without, result)
           /\ sessions' = IF result = "saved" THEN without ELSE sessions

\* loadPersistent after a restart: the sessions of the file that have not expired.
Restored(t) == file[t] # None /\ now < file[t]
Loaded == [t \in Tokens |-> IF Restored(t) THEN [expires |-> file[t], idleAt |-> file[t], idle |-> Remember,
                                                 remembered |-> TRUE]
                            ELSE None]

-----------------------------------------------------------------------------
\* The tracker. An operation under its mutex is given the timers it resets and
\* the connections it takes out; their sockets are closed after the unlock.

Of(t) == {c \in tracked : conns[c].token = t}

\* resetTimerLocked, whose generation makes the older callbacks void.
Armed(all, set, deadline) ==
    [c \in Conns |-> IF c \in set THEN [all[c] EXCEPT !.timer = deadline] ELSE all[c]]
Void(set) == {[b EXCEPT !.current = @ /\ b.conn \notin set] : b \in callbacks}

\* refreshKey.
RefreshKey(t, deadline) ==
    /\ conns' = Armed(conns, Of(t), deadline)
    /\ callbacks' = Void(Of(t))
    /\ UNCHANGED <<tracked, closed>>

\* closeKey up to its unlock.
Untrack(set) ==
    /\ tracked' = tracked \ set
    /\ conns' = Armed(conns, set, None)
    /\ UNCHANGED closed

\* closeUnderlying of each of them; the one that Close already took stays its own.
CloseSockets(set) ==
    conns' = [c \in Conns |-> IF c \in set /\ conns[c].socket = "open"
                              THEN [conns[c] EXCEPT !.socket = "closed"] ELSE conns[c]]

-----------------------------------------------------------------------------
\* Login.

\* A POST of /api/auth/login that the server still takes.
StartLogin(h) ==
    /\ Serving /\ At(h, "idle") /\ Spend("login")
    /\ \E u \in Users, remember \in BOOLEAN :
          /\ u # AllowedUser => plan["wrong"] > 0 /\ ~remember
          /\ remember => plan["remembered"] > 0
          /\ handlers' = [handlers EXCEPT ![h] = [Resting EXCEPT !.at = "allow address", !.since = now,
                                                             !.work = "login", !.user = u, !.remember = remember]]
    /\ UNCHANGED <<now, store, cookies, attempts, wires, shutdown, ghosts>>

AllowAddress(h) == At(h, "allow address") /\ Allow(h, Address, "allow user", "idle")
AllowUser(h)    == At(h, "allow user") /\ Allow(h, handlers[h].user, "slot", "idle")

\* The slot is taken without waiting.
TakeSlot(h) ==
    /\ At(h, "slot")
    /\ IF Slots < AuthConcurrency THEN Go(h, "pam") ELSE End(h)
    /\ UNCHANGED attempts

\* PAM is asked about the configured account whatever name was sent.
Authenticate(h) ==
    /\ At(h, "pam")
    /\ \/ Spend("wrong") /\ Go(h, "fail address")
       \/ handlers[h].user = AllowedUser /\ Go(h, "create") /\ UNCHANGED plan
    /\ UNCHANGED <<now, store, cookies, attempts, wires, shutdown, ghosts>>

FailAddress(h) == At(h, "fail address") /\ Fail(h, Address, "fail user")
FailUser(h)    == At(h, "fail user") /\ Fail(h, handlers[h].user, "idle")

\* Store.create. A token that could not be saved is not answered.
CreateAt(h, t, result, clock) ==
    LET pruned == WithoutExpired(clock)
        all    == [pruned EXCEPT ![t] = NewSession(handlers[h].remember, clock)]
    IN  /\ \/ Full(pruned) /\ result = "failed"
              /\ sessions' = pruned /\ UNCHANGED <<file, issued, plan>> /\ End(h)
           \/ /\ ~Full(pruned) /\ issued' = issued \cup {t}
              /\ \/ handlers[h].remember /\ Persist(all, result)
                 \/ ~handlers[h].remember /\ result = "saved" /\ UNCHANGED <<file, plan>>
              /\ sessions' = IF result = "saved" THEN all ELSE pruned
              /\ IF result = "saved"
                 THEN handlers' = [handlers EXCEPT ![h] = [Arrived(h, "clear address") EXCEPT !.token = t]]
                 ELSE End(h)
        /\ promised' = [promised EXCEPT ![t] = IF result = "saved" /\ handlers[h].remember THEN all[t].expires ELSE 0]
        /\ latest' = [latest EXCEPT ![t] = Larger(@, Deadline(all[t]))]

Create(h, t, result) ==
    /\ At(h, "create") /\ NextToken(t)
    /\ \E clock \in Readings(handlers[h]) : CreateAt(h, t, result, clock)
    /\ UNCHANGED <<now, cookies, attempts, wires, shutdown, goneFor, loggedOut, refused>>

ClearAddress(h) == At(h, "clear address") /\ Clear(Address) /\ Go(h, "clear user")

\* The last step of a login answers its cookie.
Answer(h) ==
    /\ At(h, "clear user") /\ Clear(handlers[h].user) /\ End(h)
    /\ cookies' = cookies \cup {handlers[h].token}
    /\ UNCHANGED <<now, store, wires, shutdown, plan, ghosts>>

\* loginFailure, for a request that is not well formed.
StartMalformed(h) ==
    /\ Serving /\ At(h, "idle") /\ Spend("malformed")
    /\ \E u \in Users : handlers' = [handlers EXCEPT ![h] = [Resting EXCEPT !.at = "deny address",
                                                                !.since = now, !.work = "malformed", !.user = u]]
    /\ UNCHANGED <<now, store, cookies, attempts, wires, shutdown, ghosts>>

DenyAddress(h)  == At(h, "deny address") /\ Allow(h, Address, "count address", "deny user")
CountAddress(h) == At(h, "count address") /\ Fail(h, Address, "deny user")
DenyUser(h)     == At(h, "deny user") /\ Allow(h, handlers[h].user, "count user", "idle")
CountUser(h)    == At(h, "count user") /\ Fail(h, handlers[h].user, "idle")

Throttled(h) ==
    /\ \/ AllowAddress(h) \/ AllowUser(h) \/ TakeSlot(h) \/ FailAddress(h) \/ FailUser(h) \/ ClearAddress(h)
       \/ DenyAddress(h) \/ CountAddress(h) \/ DenyUser(h) \/ CountUser(h)
    /\ UNCHANGED <<now, store, cookies, wires, shutdown, plan, ghosts>>

-----------------------------------------------------------------------------
\* Requests with a cookie: any (touch), logout, and an upgrade.

StartRequest(h, work) ==
    /\ Serving /\ At(h, "idle") /\ Spend(work)
    /\ \E t \in cookies : handlers' = [handlers EXCEPT ![h] = [Resting EXCEPT !.at = "get", !.since = now,
                                                                           !.work = work, !.token = t]]
    /\ goneFor' = IF work = "logout" THEN goneFor \cup {handlers'[h].token} ELSE goneFor
    /\ UNCHANGED <<now, store, cookies, attempts, wires, shutdown, promised, loggedOut, refused, latest>>

\* authenticate looks the session up, then moves or closes its connections.
GetSession(h) ==
    LET t == handlers[h].token
        live(clock) == [Arrived(h, "refresh") EXCEPT !.deadline = Deadline(Refreshed(sessions[t], clock))]
        over        == [Arrived(h, "close token") EXCEPT !.deadline = 0, !.work = "touch"]
    IN  /\ At(h, "get")
        /\ \E clock \in Readings(handlers[h]) :
              Get(t, clock) /\ handlers' = [handlers EXCEPT ![h] = IF Live(t, clock) THEN live(clock) ELSE over]
        /\ UNCHANGED <<now, file, issued, cookies, attempts, wires, shutdown, plan, promised, goneFor, loggedOut,
                       refused>>

\* Refresh, and what the request does next.
RefreshConnections(h) ==
    /\ At(h, "refresh") /\ RefreshKey(handlers[h].token, handlers[h].deadline)
    /\ CASE handlers[h].work = "touch"   -> End(h)
         [] handlers[h].work = "logout"  -> Go(h, "revoke")
         [] handlers[h].work = "upgrade" -> Go(h, "hijack")
    /\ UNCHANGED <<now, store, cookies, attempts, shutdown, plan, ghosts>>

\* logout removes the session before it closes the connections.
Revoke(h, result) ==
    /\ At(h, "revoke") /\ Delete(handlers[h].token, result)
    /\ IF result = "saved" THEN Go(h, "close token") ELSE End(h)
    /\ UNCHANGED <<now, issued, cookies, attempts, wires, shutdown, ghosts>>

\* CloseToken, of a logout, a refused request or an upgrade that came too late.
CloseToken(h) ==
    /\ At(h, "close token")
    /\ Untrack(Of(handlers[h].token)) /\ UNCHANGED callbacks
    /\ handlers' = [handlers EXCEPT ![h] = [Arrived(h, "closing") EXCEPT !.closing = Of(handlers[h].token)]]
    /\ UNCHANGED <<now, store, cookies, attempts, shutdown, plan, ghosts>>

\* The sockets are closed and the request ends; a logout and a refusal clear the cookie.
CloseOthers(h) ==
    LET r == handlers[h]
    IN  /\ At(h, "closing") /\ CloseSockets(r.closing) /\ End(h)
        /\ cookies' = IF r.work = "upgrade" THEN cookies ELSE cookies \ {r.token}
        /\ loggedOut' = IF r.work = "logout" THEN loggedOut \cup {r.token} ELSE loggedOut
        /\ UNCHANGED <<now, store, attempts, tracked, closed, callbacks, shutdown, plan, promised, goneFor, refused,
                       latest>>

-----------------------------------------------------------------------------
\* An upgrade, its connection and its timer.

\* The proxy reaches its upstream and takes the connection over, or gives up.
Hijack(h) ==
    /\ At(h, "hijack") /\ (Go(h, "track") \/ End(h))
    /\ UNCHANGED <<now, store, cookies, attempts, wires, shutdown, plan, ghosts>>

\* Track up to its unlock. A closed tracker closes the connection at once.
Track(h, c) ==
    LET t == handlers[h].token
        conn(timer) == [token |-> t, socket |-> "open", timer |-> timer]
    IN  /\ At(h, "track") /\ NextConn(c)
        /\ IF closed
           THEN /\ conns' = [conns EXCEPT ![c] = conn(None)]
                /\ handlers' = [handlers EXCEPT ![h] = [Arrived(h, "closing") EXCEPT !.closing = {c}]]
                /\ UNCHANGED tracked
           ELSE /\ tracked' = tracked \cup {c}
                /\ conns' = [conns EXCEPT ![c] = conn(handlers[h].deadline)]
                /\ Go(h, "validate")
        /\ UNCHANGED <<now, store, cookies, attempts, closed, callbacks, shutdown, plan, ghosts>>

\* The session is looked up again after the connection is tracked.
Validate(h) ==
    LET t     == handlers[h].token
        renew == [Arrived(h, "renew") EXCEPT !.deadline = Deadline(sessions[t])]
    IN  /\ At(h, "validate")
        /\ \E clock \in Readings(handlers[h]) :
              /\ Look(t, clock)
              /\ CASE ~Live(t, clock) -> Go(h, "close token")
                   [] Live(t, clock) /\ Deadline(sessions[t]) # handlers[h].deadline ->
                         handlers' = [handlers EXCEPT ![h] = renew]
                   [] OTHER -> End(h)
        /\ UNCHANGED <<now, file, issued, cookies, attempts, wires, shutdown, plan, ghosts>>

Renew(h) ==
    /\ At(h, "renew") /\ RefreshKey(handlers[h].token, handlers[h].deadline) /\ End(h)
    /\ UNCHANGED <<now, store, cookies, attempts, shutdown, plan, ghosts>>

\* trackedConn.Close, when the proxy or its peer ends, and its removal from the tracker.
Leave(c) ==
    /\ conns[c] # None /\ conns[c].socket = "open" /\ Spend("end")
    /\ conns' = [conns EXCEPT ![c].socket = "leaving"]
    /\ UNCHANGED <<now, store, cookies, attempts, handlers, tracked, closed, callbacks, shutdown, ghosts>>

Drop(c) ==
    /\ conns[c] # None /\ conns[c].socket = "leaving"
    /\ tracked' = tracked \ {c}
    /\ conns' = [conns EXCEPT ![c].socket = "closed", ![c].timer = None]
    /\ UNCHANGED <<now, store, cookies, attempts, handlers, closed, callbacks, shutdown, plan, ghosts>>

\* A timer fires and starts expire.
Fire(c) ==
    /\ conns[c] # None /\ conns[c].timer # None /\ conns[c].timer <= now
    /\ conns' = [conns EXCEPT ![c].timer = None]
    /\ callbacks' = callbacks \cup {[conn |-> c, at |-> "check", since |-> now, current |-> TRUE, deadline |-> 0,
                                     closing |-> {}]}
    /\ UNCHANGED <<now, store, cookies, attempts, handlers, tracked, closed, shutdown, plan, ghosts>>

Replace(b, next) == (callbacks \ {b}) \cup {next}

\* Mutant: a callback takes the zero time of a session that is gone for a deadline.
CheckAgain(b) ==
    LET t == conns[b.conn].token
        deadline(clock) == IF Live(t, clock) THEN Deadline(sessions[t]) ELSE 0
    IN  /\ b \in callbacks /\ b.at = "check"
        /\ \E clock \in Readings(b) :
              Look(t, clock) /\ callbacks' = Replace(b, [b EXCEPT !.at = "reset", !.deadline = deadline(clock)])
        /\ UNCHANGED <<now, file, issued, cookies, attempts, handlers, tracked, closed, conns, shutdown, plan, ghosts>>

\* expire asks for the session first.
CheckSession(b) ==
    LET t     == conns[b.conn].token
        reset == [b EXCEPT !.at = "reset", !.deadline = Deadline(sessions[t])]
    IN  /\ b \in callbacks /\ b.at = "check"
        /\ \E clock \in Readings(b) :
              /\ Look(t, clock)
              /\ callbacks' = Replace(b, IF Live(t, clock) THEN reset ELSE [b EXCEPT !.at = "expire"])
        /\ UNCHANGED <<now, file, issued, cookies, attempts, handlers, tracked, closed, conns, shutdown, plan, ghosts>>

Present(b) == b.conn \in tracked /\ b.current

\* Mutant: a callback that finds the session alive sets no timer.
ResetNothing(b) ==
    /\ b \in callbacks /\ b.at = "reset" /\ callbacks' = callbacks \ {b}
    /\ UNCHANGED <<now, store, cookies, attempts, handlers, tracked, closed, conns, shutdown, plan, ghosts>>

\* A session that lives sets the timers of all its connections again.
ResetTimers(b) ==
    LET set == IF Present(b) THEN Of(conns[b.conn].token) ELSE {}
    IN  /\ b \in callbacks /\ b.at = "reset"
        /\ conns' = Armed(conns, set, b.deadline)
        /\ callbacks' = Void(set) \ {b, [b EXCEPT !.current = FALSE]}
        /\ UNCHANGED <<now, store, cookies, attempts, handlers, tracked, closed, shutdown, plan, ghosts>>

\* A session that ended takes them out of the tracker.
ExpireConnections(b) ==
    LET set == IF Present(b) THEN Of(conns[b.conn].token) ELSE {}
    IN  /\ b \in callbacks /\ b.at = "expire"
        /\ Untrack(set)
        /\ callbacks' = IF set = {} THEN callbacks \ {b} ELSE Replace(b, [b EXCEPT !.at = "closing", !.closing = set])
        /\ UNCHANGED <<now, store, cookies, attempts, handlers, shutdown, plan, ghosts>>

CloseExpired(b) ==
    /\ b \in callbacks /\ b.at = "closing" /\ CloseSockets(b.closing)
    /\ callbacks' = callbacks \ {b}
    /\ UNCHANGED <<now, store, cookies, attempts, handlers, tracked, closed, shutdown, plan, ghosts>>

-----------------------------------------------------------------------------
\* The shutdown, the end of the process and its restart, and time.

\* BeginShutdown raises the flag, then CloseAll.
BeginShutdown ==
    /\ Serving /\ Spend("shutdown") /\ shutdown' = [shutdown EXCEPT !.at = "flag"]
    /\ UNCHANGED <<now, store, cookies, attempts, handlers, wires, ghosts>>

CloseAll ==
    /\ shutdown.at = "flag" /\ shutdown' = [at |-> "closing", closing |-> tracked]
    /\ closed' = TRUE /\ tracked' = {} /\ conns' = Armed(conns, tracked, None)
    /\ UNCHANGED <<now, store, cookies, attempts, handlers, callbacks, plan, ghosts>>

CloseRest ==
    /\ shutdown.at = "closing" /\ CloseSockets(shutdown.closing)
    /\ shutdown' = [at |-> "done", closing |-> {}]
    /\ UNCHANGED <<now, store, cookies, attempts, handlers, tracked, closed, callbacks, plan, ghosts>>

\* The process ends at any moment and starts again from the file alone.
Restart ==
    /\ Spend("restart")
    /\ handlers' = [h \in Handlers |-> Resting] /\ attempts' = [k \in Keys |-> <<>>]
    /\ tracked' = {} /\ closed' = FALSE /\ callbacks' = {}
    /\ conns' = [c \in Conns |-> IF conns[c] = None THEN None
                                 ELSE [conns[c] EXCEPT !.socket = "closed", !.timer = None]]
    /\ shutdown' = [at |-> "no", closing |-> {}]
    /\ refused' = (refused \/ Count(Loaded) > Capacity)
    /\ sessions' = Loaded
    /\ file' = [t \in Tokens |-> IF Restored(t) THEN file[t] ELSE None]
    /\ UNCHANGED <<now, issued, cookies, promised, goneFor, loggedOut, latest>>

Tick ==
    /\ Spend("time") /\ now' = now + 1
    /\ UNCHANGED <<store, cookies, attempts, handlers, wires, shutdown, ghosts>>

Results == {"saved", "failed"}

\* What the server does by itself, once it was asked.
Serve(h) ==
    \/ Throttled(h) \/ Answer(h) \/ GetSession(h) \/ RefreshConnections(h)
    \/ CloseToken(h) \/ CloseOthers(h) \/ Validate(h) \/ Renew(h)
    \/ \E t \in Tokens, r \in Results : Create(h, t, r)
    \/ \E r \in Results : Revoke(h, r)
    \/ \E c \in Conns : Track(h, c)

Expire == \E b \in callbacks : CheckSession(b) \/ ResetTimers(b) \/ ExpireConnections(b) \/ CloseExpired(b)

Internal == \/ \E h \in Handlers : Serve(h)
            \/ \E c \in Conns : Fire(c) \/ Drop(c)
            \/ Expire \/ CloseAll \/ CloseRest

\* PAM and the upstream of a proxy answer when they please.
External ==
    \/ \E h \in Handlers : \/ StartLogin(h) \/ StartMalformed(h) \/ Hijack(h)
                           \/ Authenticate(h)
                           \/ \E work \in {"touch", "logout", "upgrade"} : StartRequest(h, work)
    \/ \E c \in Conns : Leave(c)
    \/ BeginShutdown \/ Restart \/ Tick

Next == Internal \/ External

Spec     == Init /\ [][Next]_vars
FairSpec == Spec /\ WF_vars(Internal)

-----------------------------------------------------------------------------
\* What can be said of it.

\* Every variable has its type (the state of auth.go and connections.go).
TypeOK ==
    /\ now \in Nat
    /\ sessions \in [Tokens -> Session \cup {None}] /\ file \in [Tokens -> Nat \cup {None}]
    /\ issued \subseteq Tokens /\ cookies \subseteq issued
    /\ attempts \in [Keys -> Seq(Nat)]
    /\ \A h \in Handlers : handlers[h] \in Handler
    /\ tracked \subseteq Conns /\ closed \in BOOLEAN
    /\ \A c \in Conns : conns[c] \in Conn \cup {None}
    /\ \A b \in callbacks : b \in Callback
    /\ shutdown.at \in {"no", "flag", "closing", "done"} /\ shutdown.closing \subseteq Conns
    /\ promised \in [Tokens -> Nat] /\ goneFor \subseteq issued /\ loggedOut \subseteq goneFor /\ refused \in BOOLEAN
    /\ latest \in [Tokens -> Nat]

Open(c) == conns[c] # None /\ conns[c].socket = "open"

\* Somebody is on the way to close connection c.
Closing(c) ==
    \/ \E h \in Handlers : \/ c \in handlers[h].closing
                           \/ handlers[h].token = conns[c].token /\ handlers[h].at \in {"validate", "close token"}
    \/ \E b \in callbacks : c \in b.closing \/ (b.current /\ conns[b.conn].token = conns[c].token /\ b.conn \in tracked)
    \/ \E d \in tracked : conns[d].token = conns[c].token /\ conns[d].timer # None /\ conns[d].timer <= now
    \/ c \in shutdown.closing \/ shutdown.at = "flag"

\* A logout took the session of token t away.
LoggingOut(t) == \E h \in Handlers : /\ handlers[h].token = t /\ handlers[h].work = "logout"
                                     /\ handlers[h].at \in {"close token", "closing"}
\* The session of token t has ended for good: a deadline may have gone back,
\* and a timer still have the latest one.
Over(t) == t \in loggedOut \/ LoggingOut(t) \/ now >= latest[t]

\* An open connection whose session is over, by a logout or because its latest
\* deadline has passed, is about to be closed: connections.go:62-71 and
\* server.go:330-335 leave no order of upgrade, extension, expiry and logout in
\* which it stays.
NoConnectionAlone == \A c \in Conns : Open(c) /\ Over(conns[c].token) => Closing(c)

\* A tracked connection has a timer, or a callback that acts for it, and no
\* timer is later than the latest deadline its session had, nor than the end of
\* a session that still exists: the timers replace the cleared read deadline
\* (connections.go:86, 221; auth.go:176, 199).
TimedByItsSession ==
    \A c \in tracked : conns[c].socket = "open" =>
        LET t == conns[c].token
        IN  /\ \/ conns[c].timer # None
               \/ \E b \in callbacks : b.conn = c /\ b.current
            /\ conns[c].timer # None => /\ conns[c].timer <= latest[t]
                                        /\ Known(t) => conns[c].timer <= sessions[t].expires

\* A token whose logout was answered is in no map, and in no file
\* that a restart would read it from (auth.go:245).
LogoutIsFinal == \A t \in loggedOut : ~Known(t) /\ ~Restored(t)

\* A remembered cookie is accepted until its date or its logout, whatever other
\* logins, failed saves and restarts come between (auth.go:124, 263, 383).
RememberedIsKept == \A t \in Tokens : promised[t] > now /\ t \notin goneFor => Live(t, now)

\* A start never meets more saved sessions than the store takes (auth.go:330).
StartsAgain == ~refused

\* Allow and Failure are apart, so parallel logins pass the limit, but only by
\* those that were under way (server.go:242, 259).
FailuresBounded ==
    \A k \in Keys : Len(Recent(attempts[k], now)) <= Limit - 1 + Cardinality(Handlers)

\* After the shutdown closed the tracker no connection is left or comes in but
\* those that are being closed (connections.go:48, 156).
ShutdownLeavesNone ==
    closed => tracked = {} /\ \A c \in Conns : Open(c) => Closing(c)

\* A connection whose session was logged out or has passed its latest deadline
\* is closed in the end, unless a request that had read the clock before that
\* moment extends the session once more (connections.go:101, auth.go:183).
EndedCloses ==
    \A c \in Conns : (Open(c) /\ Over(conns[c].token)) ~> (~Open(c) \/ ~Over(conns[c].token))

\* Variables keep their types, and a connection lives as long as its session
\* and the server: the three properties of connections above.
ConnectionsFollow == TypeOK /\ NoConnectionAlone /\ TimedByItsSession /\ ShutdownLeavesNone

\* What a login or a logout promised outlives failed saves and restarts.
PromisesKept == LogoutIsFinal /\ RememberedIsKept /\ StartsAgain

=============================================================================
