---------------------------- MODULE LoginsProofs ----------------------------
(***************************************************************************)
(* Proofs about the logins and connections of remoteterminal, for any      *)
(* number of requests, sessions, connections, names, limits, lifetimes and *)
(* failures: connections follow their sessions, promises of logins and     *)
(* logouts are kept, and failed logins stay under their limit.             *)
(***************************************************************************)
EXTENDS Logins, FiniteSetTheorems, SequenceTheorems, WellFoundedInduction, TLAPS

(* The connections that were made. *)
Used == {c \in Conns : conns[c] # None}

(* Steps of a login, that hold a name; steps of a request that holds a token. *)
UserSteps  == {"allow address", "allow user", "slot", "pam", "fail address", "fail user", "create", "clear address",
               "clear user", "deny address", "count address", "deny user", "count user"}
TokenSteps == {"clear address", "clear user", "get", "refresh", "revoke", "close token", "closing", "hijack",
               "track", "validate", "renew"}

(* What a request has when it is at a step, and what it holds. *)
ProgressOk(r) ==
    /\ r.at \in UserSteps => r.user \in Users /\ r.work \in {"login", "malformed"}
    /\ r.at \in TokenSteps => r.token # None
    /\ r.at \in {"get", "refresh"} => r.work \in {"touch", "logout", "upgrade"}
    /\ r.at = "revoke" => r.work = "logout"
    /\ r.at # "closing" => r.closing = {}

HoldingsOk(r) ==
    /\ r.token # None => r.token \in issued
    /\ r.work = "logout" => r.token \in goneFor
    /\ r.closing \subseteq Used

(* Types. *)
StoreType ==
    /\ now \in Nat
    /\ sessions \in [Tokens -> Session \cup {None}] /\ file \in [Tokens -> Nat \cup {None}]
    /\ issued \subseteq Tokens
BrowserType ==
    /\ cookies \subseteq issued /\ goneFor \subseteq issued /\ loggedOut \subseteq goneFor
    /\ promised \in [Tokens -> Nat] /\ refused \in BOOLEAN /\ latest \in [Tokens -> Nat]
AttemptsType == attempts \in [Keys -> Seq(Nat)]
HandlersType == handlers \in [Handlers -> Handler] /\ \A h \in Handlers : ProgressOk(handlers[h]) /\ HoldingsOk(handlers[h])
ConnsType == conns \in [Conns -> Conn \cup {None}] /\ \A c \in Used : conns[c].token \in issued
TrackerType == tracked \subseteq Used /\ closed \in BOOLEAN /\ (closed => tracked = {})
CallbacksType == /\ \A b \in callbacks : b \in Callback /\ b.conn \in Used /\ b.closing \subseteq Used
                                       /\ (b.at # "closing" => b.closing = {})
                                       /\ (b.at = "closing" => b.conn \notin tracked)
ShutdownType == /\ shutdown \in [at : {"no", "flag", "closing", "done"}, closing : SUBSET Used]
                /\ shutdown.at # "closing" => shutdown.closing = {}

(* A session's deadlines, and those of the file: never farther than a lifetime ahead. *)
SessionOk(t) == Known(t) =>
   /\ t \in issued
   /\ sessions[t].idleAt <= sessions[t].expires /\ sessions[t].idleAt <= now + sessions[t].idle
   /\ sessions[t].remembered => /\ sessions[t].idleAt = sessions[t].expires /\ sessions[t].expires <= now + Remember
                                /\ sessions[t].idle = Remember
FileOk(t) == file[t] # None => t \in issued /\ file[t] <= now + Remember
(* A token that a failed save left in the file, and that nobody was given. *)
Lost(t) == t \notin cookies \cup goneFor /\ promised[t] = 0 /\ \A h \in Handlers : handlers[h].token # t
(* What a start would restore is in the map as it is in the file, or nobody was given it. *)
Backed(t) == Known(t) /\ sessions[t].remembered /\ sessions[t].expires = file[t]
FileFollows == \A t \in Tokens : Restored(t) => Backed(t) \/ Lost(t)
(* A date that was promised is the one in the map and in the file. *)
PromiseInv == \A t \in Tokens : /\ promised[t] > 0 => t \in issued
                                /\ promised[t] > now /\ t \notin goneFor => Backed(t) /\ file[t] = promised[t]
(* Once a logout is past its deletion neither map nor file has the token. *)
Revoked(t) == t \in loggedOut \/ LoggingOut(t)
LogoutInv == \A t \in Tokens : Revoked(t) => ~Known(t) /\ ~Restored(t)
(* Neither the map nor the file outgrows the store. *)
CapacityInv == Count(sessions) <= Capacity /\ Cardinality({t \in Tokens : file[t] # None}) <= Capacity /\ ~refused

(* Somebody has every open connection: the tracker, or who is about to close its socket. *)
Held(c) == c \in tracked \/ (\E h \in Handlers : c \in handlers[h].closing) \/ (\E b \in callbacks : c \in b.closing) \/ c \in shutdown.closing
HeldInv == \A c \in Conns : Open(c) => Held(c)
(* No session, in the map or in the file, is later than the latest deadline it had. *)
LatestInv == \A t \in Tokens : /\ Known(t) => Deadline(sessions[t]) <= latest[t]
                               /\ file[t] # None => file[t] <= latest[t]
(* No deadline that is on its way to a timer is later than that, nor than the session's end. *)
Within(t, deadline) == deadline <= latest[t] /\ (Known(t) => deadline <= sessions[t].expires)
DeadlineInv == /\ \A h \in Handlers : handlers[h].token # None => Within(handlers[h].token, handlers[h].deadline)
               /\ \A b \in callbacks : b.at = "reset" => Within(conns[b.conn].token, b.deadline)
(* A look-up may have read the clock long ago, but not before the session was made. *)
ReadingsInv == \A h \in Handlers :
   LET t == handlers[h].token
   IN  handlers[h].at = "get" /\ Known(t) /\ sessions[t].remembered => sessions[t].expires <= handlers[h].since + Remember
(* When a session is logged out, a request that still tracks a connection under its token *)
(* looks again, or the logout goes on to close them. *)
Watch(t) == \E h \in Handlers : handlers[h].token = t /\ handlers[h].at \in {"validate", "close token"}
GoneInv == \A t \in issued : Revoked(t) => Of(t) = {} \/ Watch(t)
(* A tracked connection has a timer or a current callback, and its timer is in time. *)
Timed == \A c \in tracked : conns[c].socket = "open" => (conns[c].timer # None \/ \E b \in callbacks : b.conn = c /\ b.current)
TimersWithin == \A c \in tracked : conns[c].timer # None => Within(conns[c].token, conns[c].timer)
(* Requests that were let through for a key and may still count a failure of it. *)
Waits(r, k) == \/ k = Address /\ r.at \in {"allow user", "slot", "pam", "fail address", "count address"}
               \/ k = r.user /\ r.at \in {"slot", "pam", "fail address", "fail user", "count user"}
Pending(k) == {h \in Handlers : Waits(handlers[h], k)}
FailureInv == \A k \in Keys : Len(Recent(attempts[k], now)) + Cardinality(Pending(k)) <= Limit - 1 + Cardinality(Handlers)
(* What a request does goes with where it is. *)
RequestsInv == \A h \in Handlers : /\ handlers[h].at \in {"hijack", "track", "validate"} => handlers[h].work = "upgrade"
                                   /\ handlers[h].token = None => handlers[h].deadline = 0
                                   /\ handlers[h].at \in UserSteps \ TokenSteps => handlers[h].token = None
(* The inductive invariant. *)
LoginsInv == /\ StoreType /\ BrowserType /\ AttemptsType /\ HandlersType /\ ConnsType /\ TrackerType /\ CallbacksType /\ ShutdownType
             /\ \A t \in Tokens : SessionOk(t) /\ FileOk(t)
             /\ FileFollows /\ PromiseInv /\ LogoutInv /\ CapacityInv /\ LatestInv /\ ReadingsInv
             /\ RequestsInv /\ HeldInv /\ DeadlineInv /\ GoneInv /\ Timed /\ TimersWithin /\ FailureInv

USE DEF vars, store, wires, ghosts, Next, Internal, External, Expire, Serve, RefreshKey, Untrack, StartLogin,
        Throttled, Authenticate, Create, Answer, StartMalformed, StartRequest, GetSession,
        RefreshConnections, Revoke, CloseToken, CloseOthers, Hijack, Track, Validate, Renew, Leave, Drop,
        Fire, CheckSession, ResetTimers, ExpireConnections, CloseExpired, BeginShutdown, CloseAll,
        CloseRest, Restart, Tick

(* The actions that write the sessions of the store. *)
LEMMA SessionsWriters ==
    ASSUME [Next]_vars, ~UNCHANGED sessions
    PROVE  \/ \E h \in Handlers, t \in Tokens, r \in Results : Create(h, t, r)
           \/ \E h \in Handlers : GetSession(h) \/ Validate(h)
           \/ \E h \in Handlers, r \in Results : Revoke(h, r)
           \/ \E b \in callbacks : CheckSession(b)
           \/ Restart
BY ZenonT(100)

(* The actions that write the file of remembered sessions. *)
LEMMA FileWriters ==
    ASSUME [Next]_vars, ~UNCHANGED file
    PROVE  \/ \E h \in Handlers, t \in Tokens, r \in Results : Create(h, t, r)
           \/ \E h \in Handlers, r \in Results : Revoke(h, r)
           \/ Restart
BY ZenonT(100)

(* The actions that write what was issued and promised. *)
LEMMA IssuedWriters ==
    ASSUME [Next]_vars, ~UNCHANGED <<issued, promised>>
    PROVE  \/ \E h \in Handlers, t \in Tokens, r \in Results : Create(h, t, r)
BY ZenonT(100)

(* The actions that write the cookies that a browser holds. *)
LEMMA CookieWriters ==
    ASSUME [Next]_vars, ~UNCHANGED cookies
    PROVE  \/ \E h \in Handlers : Answer(h) \/ CloseOthers(h)
BY ZenonT(100)

(* The actions that write the failures that the throttler remembers. *)
LEMMA AttemptsWriters ==
    ASSUME [Next]_vars, ~UNCHANGED attempts
    PROVE  \/ \E h \in Handlers : Throttled(h) \/ Answer(h)
           \/ Restart
BY ZenonT(100)

(* The actions that write a request being served. *)
LEMMA HandlersWriters ==
    ASSUME [Next]_vars, ~UNCHANGED handlers
    PROVE  \/ \E h \in Handlers : \/ StartLogin(h) \/ Throttled(h) \/ Authenticate(h) \/ Answer(h)
                                  \/ StartMalformed(h) \/ GetSession(h) \/ RefreshConnections(h)
                                  \/ CloseToken(h) \/ CloseOthers(h) \/ Hijack(h) \/ Validate(h) \/ Renew(h)
           \/ \E h \in Handlers, t \in Tokens, r \in Results : Create(h, t, r)
           \/ \E h \in Handlers, work \in {"touch", "logout", "upgrade"} : StartRequest(h, work)
           \/ \E h \in Handlers, r \in Results : Revoke(h, r)
           \/ \E h \in Handlers, c \in Conns : Track(h, c)
           \/ Restart
BY ZenonT(100)

(* The actions that write the tracked connections. *)
LEMMA TrackedWriters ==
    ASSUME [Next]_vars, ~UNCHANGED tracked
    PROVE  \/ \E h \in Handlers : CloseToken(h)
           \/ \E h \in Handlers, c \in Conns : Track(h, c)
           \/ \E c \in Conns : Drop(c)
           \/ \E b \in callbacks : ExpireConnections(b)
           \/ CloseAll \/ Restart
BY ZenonT(100)

(* The actions that write the mark of a closed tracker. *)
LEMMA ClosedWriters ==
    ASSUME [Next]_vars, ~UNCHANGED closed
    PROVE  \/ CloseAll \/ Restart
BY ZenonT(100)

(* The actions that write a connection. *)
LEMMA ConnsWriters ==
    ASSUME [Next]_vars, ~UNCHANGED conns
    PROVE  \/ \E h \in Handlers : RefreshConnections(h) \/ CloseToken(h) \/ CloseOthers(h) \/ Renew(h)
           \/ \E h \in Handlers, c \in Conns : Track(h, c)
           \/ \E c \in Conns : Leave(c) \/ Drop(c) \/ Fire(c)
           \/ \E b \in callbacks : ResetTimers(b) \/ ExpireConnections(b) \/ CloseExpired(b)
           \/ CloseAll \/ CloseRest \/ Restart
BY ZenonT(100)

(* The actions that write the callbacks of timers. *)
LEMMA CallbacksWriters ==
    ASSUME [Next]_vars, ~UNCHANGED callbacks
    PROVE  \/ \E h \in Handlers : RefreshConnections(h) \/ Renew(h)
           \/ \E c \in Conns : Fire(c)
           \/ \E b \in callbacks : CheckSession(b) \/ ResetTimers(b) \/ ExpireConnections(b) \/ CloseExpired(b)
           \/ Restart
BY ZenonT(100)

(* The actions that write the shutdown. *)
LEMMA ShutdownWriters ==
    ASSUME [Next]_vars, ~UNCHANGED shutdown
    PROVE  \/ BeginShutdown \/ CloseAll \/ CloseRest \/ Restart
BY ZenonT(100)

(* The actions that write the logouts asked for and answered. *)
LEMMA GhostsWriters ==
    ASSUME [Next]_vars, ~UNCHANGED <<goneFor, loggedOut>>
    PROVE  \/ \E h \in Handlers, work \in {"touch", "logout", "upgrade"} : StartRequest(h, work)
           \/ \E h \in Handlers : CloseOthers(h)
BY ZenonT(100)

(* The actions that write the mark of a refused start. *)
LEMMA RefusedWriters ==
    ASSUME [Next]_vars, ~UNCHANGED refused
    PROVE  \/ Restart
BY ZenonT(100)

(* The actions that write the latest deadline that a session had. *)
LEMMA LatestWriters ==
    ASSUME [Next]_vars, ~UNCHANGED latest
    PROVE  \/ \E h \in Handlers, t \in Tokens, r \in Results : Create(h, t, r)
           \/ \E h \in Handlers : GetSession(h)
BY ZenonT(100)

(* The actions that write the clock. *)
LEMMA ClockWriters ==
    ASSUME [Next]_vars, ~UNCHANGED now
    PROVE  \/ Tick
BY ZenonT(100)

HIDE DEF vars, store, wires, ghosts, Next, Internal, External, Expire, Serve, RefreshKey, Untrack, StartLogin,
        Throttled, Authenticate, Create, Answer, StartMalformed, StartRequest, GetSession,
        RefreshConnections, Revoke, CloseToken, CloseOthers, Hijack, Track, Validate, Renew, Leave, Drop,
        Fire, CheckSession, ResetTimers, ExpireConnections, CloseExpired, BeginShutdown, CloseAll,
        CloseRest, Restart, Tick

-----------------------------------------------------------------------------
(* The store.                                                               *)

SessionsType == sessions \in [Tokens -> Session \cup {None}]
FileType     == file \in [Tokens -> Nat \cup {None}]

(* A session that was over at an earlier moment is over now. *)
LEMMA NotLiveLater ==
    ASSUME now \in Nat, SessionsType, NEW clock \in Nat, clock <= now, NEW t \in Tokens, ~Live(t, clock)
    PROVE  ~Live(t, now)
<1>1. Known(t) => sessions[t].expires \in Nat /\ sessions[t].idleAt \in Nat
  BY DEF SessionsType, Known, Session
<1> QED
  BY <1>1 DEF Live

(* What is left of the map without the expired sessions, and what the file is given. *)
LEMMA PrunedTyped ==
    ASSUME SessionsType, NEW clock
    PROVE  /\ WithoutExpired(clock) \in [Tokens -> Session \cup {None}]
           /\ \A t \in Tokens : WithoutExpired(clock)[t] = IF Live(t, clock) THEN sessions[t] ELSE None
BY DEF SessionsType, WithoutExpired

(* The file that a save writes: the expiry of each remembered session, and nothing else. *)
LEMMA SavedTyped ==
    ASSUME NEW m \in [Tokens -> Session \cup {None}]
    PROVE  /\ Saved(m) \in [Tokens -> Nat \cup {None}]
           /\ \A t \in Tokens : Saved(m)[t] = IF m[t] # None /\ m[t].remembered THEN m[t].expires ELSE None
BY DEF Saved, Remembered, Session

(* A new session ends with its lifetime and not before. *)
LEMMA NewSessionTyped ==
    ASSUME NEW clock \in Nat, NEW x \in BOOLEAN
    PROVE  /\ NewSession(x, clock) \in Session
           /\ NewSession(x, clock).idleAt <= NewSession(x, clock).expires
           /\ NewSession(x, clock).idleAt <= clock + NewSession(x, clock).idle
           /\ NewSession(x, clock).remembered = x
           /\ x => /\ NewSession(x, clock).idle = Remember /\ NewSession(x, clock).expires = clock + Remember
                   /\ NewSession(x, clock).idleAt = clock + Remember
BY LimitsAssumption DEF NewSession, Session, Smaller

(* Get moves the idle deadline of a session, never past its expiry, and nothing else of it. *)
LEMMA RefreshedTyped ==
    ASSUME NEW clock \in Nat, NEW s \in Session
    PROVE  /\ Refreshed(s, clock) \in Session
           /\ Refreshed(s, clock).expires = s.expires /\ Refreshed(s, clock).idle = s.idle
           /\ Refreshed(s, clock).remembered = s.remembered
           /\ Refreshed(s, clock).idleAt = Smaller(clock + s.idle, s.expires)
BY DEF Refreshed, Session, Smaller

(* The earlier of a session's two deadlines is a moment, and no later than its end. *)
LEMMA DeadlineTyped ==
    ASSUME NEW s \in Session
    PROVE  Deadline(s) \in Nat /\ Deadline(s) <= s.expires /\ Deadline(s) <= s.idleAt
BY DEF Deadline, Smaller, Session

(* loadPersistent makes sessions of the file's rows. *)
LEMMA LoadedTyped ==
    ASSUME now \in Nat, FileType
    PROVE  /\ Loaded \in [Tokens -> Session \cup {None}]
           /\ \A t \in Tokens : Loaded[t] = IF Restored(t) THEN [expires |-> file[t], idleAt |-> file[t],
                                                                idle |-> Remember, remembered |-> TRUE]
                                            ELSE None
<1>1. \A t \in Tokens : Restored(t) => file[t] \in Nat
  BY DEF Restored, FileType
<1> QED
  BY <1>1, LimitsAssumption DEF Loaded, Session

(* A token that a step makes was not issued before. *)
LEMMA NextTokenNew ==
    ASSUME issued \subseteq Tokens, NEW t, NextToken(t)
    PROVE  t \in Tokens /\ t \notin issued
BY DEF NextToken

(* What may become of one session when the service does not start again. *)
Removed(t)      == \E h \in Handlers : Revoke(h, "saved") /\ handlers[h].token = t
Extended(t)     == \E clock \in 0 .. now :
    /\ Live(t, clock) /\ sessions'[t] = Refreshed(sessions[t], clock)
    /\ \E h \in Handlers : handlers[h].at = "get" /\ handlers[h].token = t /\ handlers[h].since <= clock
SessionMoved(t) ==
    \/ sessions'[t] = sessions[t]
    \/ ~Live(t, now) /\ sessions'[t] = None
    \/ Extended(t)
    \/ t \notin issued /\ t \in issued' /\ \E x \in BOOLEAN, clock \in 0 .. now : sessions'[t] = NewSession(x, clock)
    \/ Removed(t) /\ sessions'[t] = None

(* The clock that a process has read is no later than it is now. *)
LEMMA ReadingsTyped ==
    ASSUME now \in Nat, NEW p, p.since \in Nat
    PROVE  \A clock \in Readings(p) : clock \in 0 .. now /\ clock \in Nat /\ clock <= now /\ p.since <= clock
BY DEF Readings

(* A look-up leaves a session, or removes it when it is over. *)
LEMMA LookedUp ==
    ASSUME StoreType, NEW t \in Tokens, NEW clock \in 0 .. now, Look(t, clock)
    PROVE  SessionsType' /\ \A u \in Tokens : SessionMoved(u)
<1>1. clock \in Nat /\ clock <= now /\ now \in Nat /\ SessionsType
  BY DEF StoreType, SessionsType
<1>2. ~Live(t, clock) => ~Live(t, now)
  BY <1>1, NotLiveLater
<1> QED
  BY <1>2 DEF Look, StoreType, SessionsType, SessionMoved

(* An authenticated request moves the idle deadline of a session, or removes it when it is over. *)
LEMMA GotSession ==
    ASSUME StoreType, HandlersType, NEW h \in Handlers, GetSession(h)
    PROVE  SessionsType' /\ \A u \in Tokens : SessionMoved(u)
<1> DEFINE t == handlers[h].token
<1>1. t \in Tokens /\ handlers[h].since \in Nat /\ handlers[h].at = "get"
  BY DEF HandlersType, HoldingsOk, ProgressOk, TokenSteps, GetSession, At, StoreType, Handler
<1>2. PICK clock \in Readings(handlers[h]) : Get(t, clock)
  BY DEF GetSession
<1>3. clock \in 0 .. now /\ clock \in Nat /\ clock <= now /\ handlers[h].since <= clock /\ now \in Nat /\ SessionsType
  BY <1>1, ReadingsTyped DEF StoreType, SessionsType
<1>4. ~Live(t, clock) => ~Live(t, now)
  BY <1>1, <1>3, NotLiveLater
<1>5. Live(t, clock) => Refreshed(sessions[t], clock) \in Session
  BY <1>1, <1>3, RefreshedTyped DEF SessionsType, Live, Known
<1>6. sessions' = [sessions EXCEPT ![t] = IF Live(t, clock) THEN Refreshed(sessions[t], clock) ELSE None]
  BY <1>2 DEF Get
<1>7. SessionMoved(t)
  <2>1. CASE Live(t, clock)
    <3>1. sessions'[t] = Refreshed(sessions[t], clock)
      BY <1>1, <1>3, <1>6, <2>1 DEF SessionsType
    <3>2. Extended(t)
      BY <1>1, <1>3, <2>1, <3>1 DEF Extended
    <3> QED
      BY <3>2 DEF SessionMoved
  <2>2. CASE ~Live(t, clock)
    BY <1>1, <1>3, <1>4, <1>6, <2>2 DEF SessionMoved, SessionsType
  <2> QED
    BY <2>1, <2>2
<1>8. \A u \in Tokens : u # t => sessions'[u] = sessions[u]
  BY <1>3, <1>6 DEF SessionsType
<1> QED
  BY <1>1, <1>3, <1>5, <1>6, <1>7, <1>8 DEF SessionsType, SessionMoved

(* A created session is new, and the expired ones go. *)
LEMMA SessionCreated ==
    ASSUME StoreType, HandlersType, NEW h \in Handlers, NEW t \in Tokens, NEW r \in Results, Create(h, t, r)
    PROVE  /\ SessionsType' /\ FileType' /\ issued' \subseteq Tokens /\ issued \subseteq issued'
           /\ \A u \in Tokens : SessionMoved(u)
<1>0. handlers[h].since \in Nat /\ handlers[h].remember \in BOOLEAN /\ now \in Nat /\ SessionsType
  BY DEF HandlersType, Handler, StoreType, SessionsType
<1>10. PICK clock \in Readings(handlers[h]) : CreateAt(h, t, r, clock)
  BY DEF Create
<1>11. clock \in 0 .. now /\ clock \in Nat /\ clock <= now
  BY <1>0, ReadingsTyped
<1> DEFINE s   == NewSession(handlers[h].remember, clock)
           pruned == WithoutExpired(clock)
           all == [pruned EXCEPT ![t] = s]
<1>1. t \notin issued
  BY NextTokenNew DEF Create, StoreType
<1>2. handlers[h].remember \in BOOLEAN /\ s \in Session
  BY <1>0, <1>11, NewSessionTyped
<1>3. /\ pruned \in [Tokens -> Session \cup {None}]
      /\ \A u \in Tokens : pruned[u] = IF Live(u, clock) THEN sessions[u] ELSE None
      /\ \A u \in Tokens : ~Live(u, clock) => ~Live(u, now)
  BY <1>0, <1>11, PrunedTyped, NotLiveLater
<1>4. all \in [Tokens -> Session \cup {None}]
  BY <1>2, <1>3
<1>5. Saved(all) \in [Tokens -> Nat \cup {None}]
  BY <1>4, SavedTyped
<1>6. sessions' = pruned \/ (sessions' = all /\ t \in issued')
  <2>1. CASE Full(pruned)
    BY <1>10, <2>1 DEF CreateAt
  <2>2. CASE ~Full(pruned) /\ r = "saved"
    BY <1>10, <2>2 DEF CreateAt
  <2>3. CASE ~Full(pruned) /\ r # "saved"
    BY <1>10, <2>3 DEF CreateAt
  <2> QED
    BY <2>1, <2>2, <2>3
<1>7. file' = file \/ file' = Saved(all)
  BY <1>10 DEF CreateAt, Persist
<1>8. issued' = issued \/ issued' = issued \cup {t}
  BY <1>10 DEF CreateAt
<1>9. ASSUME NEW u \in Tokens PROVE SessionMoved(u)
  <2>1. CASE sessions' = pruned
    BY <1>3, <2>1 DEF SessionMoved
  <2>2. CASE sessions' = all /\ t \in issued' /\ u = t
    BY <1>1, <1>2, <1>3, <1>11, <2>2 DEF SessionMoved
  <2>3. CASE sessions' = all /\ t \in issued' /\ u # t
    BY <1>3, <2>3 DEF SessionMoved
  <2> QED
    BY <1>6, <2>1, <2>2, <2>3
<1> HIDE DEF all, s, pruned
<1> QED
  BY <1>3, <1>4, <1>5, <1>6, <1>7, <1>8, <1>9 DEF SessionsType, FileType, StoreType

(* A revoked session is gone, or stays when the file cannot be written. *)
LEMMA SessionRevoked ==
    ASSUME StoreType, HandlersType, NEW h \in Handlers, NEW r \in Results, Revoke(h, r)
    PROVE  /\ SessionsType' /\ FileType'
           /\ \A u \in Tokens : SessionMoved(u)
<1> DEFINE t == handlers[h].token
           without == [sessions EXCEPT ![t] = None]
<1>1. t \in Tokens
  BY DEF HandlersType, HoldingsOk, ProgressOk, TokenSteps, Revoke, At, StoreType
<1>2. without \in [Tokens -> Session \cup {None}]
  BY DEF StoreType
<1>3. Saved(without) \in [Tokens -> Nat \cup {None}]
  BY <1>2, SavedTyped
<1>4. file' = file \/ file' = Saved(without)
  BY DEF Revoke, Delete, Persist
<1>5. sessions' = sessions \/ (sessions' = without /\ Removed(t))
  <2>1. CASE r = "saved"
    <3>1. sessions' = without
      BY <2>1 DEF Revoke, Delete
    <3>2. Revoke(h, "saved")
      BY <2>1
    <3> QED
      BY <3>1, <3>2 DEF Removed
  <2>2. CASE r # "saved"
    BY <2>2 DEF Revoke, Delete
  <2> QED
    BY <2>1, <2>2
<1>6. ASSUME NEW u \in Tokens PROVE SessionMoved(u)
  BY <1>1, <1>5 DEF SessionMoved, StoreType
<1> HIDE DEF without
<1> QED
  BY <1>2, <1>3, <1>4, <1>5, <1>6 DEF SessionsType, FileType, StoreType

(* Every step but a restart moves each session in one of these ways. *)
LEMMA SessionsMove ==
    ASSUME StoreType, HandlersType, CallbacksType, ConnsType, [Next]_vars, ~Restart
    PROVE  SessionsType' /\ \A u \in Tokens : SessionMoved(u)
<1> DEFINE Goal == SessionsType' /\ \A u \in Tokens : SessionMoved(u)
<1> HIDE DEF Goal
<1>1. ASSUME NEW h \in Handlers, NEW t \in Tokens, NEW r \in Results, Create(h, t, r) PROVE Goal
  BY <1>1, SessionCreated DEF Goal
<1>2. ASSUME NEW h \in Handlers, NEW r \in Results, Revoke(h, r) PROVE Goal
  BY <1>2, SessionRevoked DEF Goal
<1>3. ASSUME NEW h \in Handlers, GetSession(h) PROVE Goal
  BY <1>3, GotSession DEF Goal
<1>4. ASSUME NEW h \in Handlers, Validate(h) PROVE Goal
  <2>1. handlers[h].token \in Tokens /\ handlers[h].since \in Nat /\ now \in Nat
    BY <1>4 DEF HandlersType, HoldingsOk, ProgressOk, TokenSteps, Validate, At, StoreType, Handler
  <2>2. PICK clock \in Readings(handlers[h]) : Look(handlers[h].token, clock)
    BY <1>4 DEF Validate
  <2> QED
    BY <2>1, <2>2, LookedUp, ReadingsTyped DEF Goal
<1>5. ASSUME NEW b \in callbacks, CheckSession(b) PROVE Goal
  <2>1. conns[b.conn].token \in Tokens /\ b.since \in Nat /\ now \in Nat
    BY <1>5 DEF CallbacksType, Callback, ConnsType, StoreType
  <2>2. PICK clock \in Readings(b) : Look(conns[b.conn].token, clock)
    BY <1>5 DEF CheckSession
  <2> QED
    BY <2>1, <2>2, LookedUp, ReadingsTyped DEF Goal
<1>6. CASE UNCHANGED sessions
  BY <1>6 DEF Goal, SessionsType, StoreType, SessionMoved
<1> QED
  BY <1>1, <1>2, <1>3, <1>4, <1>5, <1>6, SessionsWriters DEF Goal

(* Tokens are issued by logins alone and stay issued. *)
LEMMA IssuedGrows ==
    ASSUME issued \subseteq Tokens, [Next]_vars
    PROVE  issued' \subseteq Tokens /\ issued \subseteq issued'
<1>1. ASSUME NEW h \in Handlers, NEW t \in Tokens, NEW r \in Results, Create(h, t, r)
      PROVE  issued' = issued \/ issued' = issued \cup {t}
  BY <1>1 DEF Create, CreateAt
<1> QED
  BY <1>1, IssuedWriters

(* The clock goes forward, and in a step of its own. *)
LEMMA ClockMoves ==
    ASSUME now \in Nat, [Next]_vars
    PROVE  now' \in Nat /\ now <= now' /\ (now' # now => Tick)
BY ClockWriters DEF Tick

(* The types of the store. *)
LEMMA StoreTyped == LoginsInv /\ [Next]_vars => StoreType'
<1>1. SUFFICES ASSUME LoginsInv, [Next]_vars PROVE StoreType'
  OBVIOUS
<1>2. StoreType /\ HandlersType /\ CallbacksType /\ ConnsType
  BY <1>1 DEF LoginsInv
<1>3. SessionsType'
  <2>1. CASE Restart
    BY <1>2, <2>1, LoadedTyped DEF Restart, SessionsType, StoreType, FileType
  <2> QED
    BY <1>1, <1>2, <2>1, SessionsMove
<1>4. FileType'
  <2>1. ASSUME NEW h \in Handlers, NEW t \in Tokens, NEW r \in Results, Create(h, t, r) PROVE FileType'
    BY <1>2, <2>1, SessionCreated
  <2>2. ASSUME NEW h \in Handlers, NEW r \in Results, Revoke(h, r) PROVE FileType'
    BY <1>2, <2>2, SessionRevoked
  <2>3. CASE Restart
    BY <1>2, <2>3 DEF Restart, FileType, StoreType
  <2>4. CASE UNCHANGED file
    BY <1>2, <2>4 DEF FileType, StoreType
  <2> QED
    BY <1>1, <2>1, <2>2, <2>3, <2>4, FileWriters
<1> QED
  BY <1>1, <1>2, <1>3, <1>4, IssuedGrows, ClockMoves DEF StoreType, SessionsType, FileType

-----------------------------------------------------------------------------
(* Connections and requests: what stays.                                    *)

(* A connection keeps its token for ever, and timers and sockets move only.  *)
ConnMoved(c) ==
    /\ conns'[c] \in Conn \cup {None}
    /\ conns[c] # None => conns'[c] # None /\ conns'[c].token = conns[c].token

(* A reset of timers writes the timers of its set alone. *)
LEMMA ArmedTyped ==
    ASSUME conns \in [Conns -> Conn \cup {None}], NEW set, set \subseteq Used, NEW d \in Nat \cup {None},
           conns' = Armed(conns, set, d)
    PROVE  /\ conns' \in [Conns -> Conn \cup {None}]
           /\ \A c \in Conns : ConnMoved(c)
           /\ \A c \in Conns : conns'[c] = IF c \in set THEN [conns[c] EXCEPT !.timer = d] ELSE conns[c]
<1>1. \A c \in Conns : conns'[c] = IF c \in set THEN [conns[c] EXCEPT !.timer = d] ELSE conns[c]
  BY DEF Armed
<1>2. \A c \in Conns : c \in set => conns[c] \in Conn
  BY DEF Used
<1>3. ASSUME NEW c \in Conns PROVE ConnMoved(c)
  <2>1. CASE conns'[c] = [conns[c] EXCEPT !.timer = d] /\ conns[c] \in Conn
    <3>1. conns'[c] \in Conn /\ conns'[c].token = conns[c].token
      BY <2>1 DEF Conn
    <3> QED
      BY <3>1, NoneAssumption DEF ConnMoved
  <2>2. CASE conns'[c] = conns[c]
    BY <2>2 DEF ConnMoved
  <2> QED
    BY <1>1, <1>2, <2>1, <2>2
<1> QED
  BY <1>1, <1>3 DEF Armed, ConnMoved

(* Closing sockets writes the open sockets of its set alone. *)
LEMMA ClosedTyped ==
    ASSUME conns \in [Conns -> Conn \cup {None}], NEW set, set \subseteq Used, CloseSockets(set)
    PROVE  /\ conns' \in [Conns -> Conn \cup {None}]
           /\ \A c \in Conns : ConnMoved(c)
           /\ \A c \in Conns : conns'[c] = IF c \in set /\ conns[c].socket = "open"
                                           THEN [conns[c] EXCEPT !.socket = "closed"] ELSE conns[c]
<1>1. \A c \in Conns : conns'[c] = IF c \in set /\ conns[c].socket = "open"
                                   THEN [conns[c] EXCEPT !.socket = "closed"] ELSE conns[c]
  BY DEF CloseSockets
<1>2. \A c \in Conns : c \in set => conns[c] \in Conn
  BY DEF Used
<1>3. ASSUME NEW c \in Conns PROVE ConnMoved(c)
  <2>1. CASE conns'[c] = [conns[c] EXCEPT !.socket = "closed"] /\ conns[c] \in Conn
    <3>1. conns'[c] \in Conn /\ conns'[c].token = conns[c].token
      BY <2>1 DEF Conn
    <3> QED
      BY <3>1, NoneAssumption DEF ConnMoved
  <2>2. CASE conns'[c] = conns[c]
    BY <2>2 DEF ConnMoved
  <2> QED
    BY <1>1, <1>2, <2>1, <2>2
<1> QED
  BY <1>1, <1>3 DEF CloseSockets, ConnMoved

(* Every step keeps the connections and what they belong to. *)
LEMMA ConnsMove ==
    ASSUME LoginsInv, [Next]_vars
    PROVE  conns' \in [Conns -> Conn \cup {None}] /\ \A c \in Conns : ConnMoved(c)
<1> DEFINE Goal == conns' \in [Conns -> Conn \cup {None}] /\ \A c \in Conns : ConnMoved(c)
<1>1. /\ conns \in [Conns -> Conn \cup {None}] /\ tracked \subseteq Used
      /\ \A h \in Handlers : handlers[h] \in Handler /\ HoldingsOk(handlers[h]) /\ ProgressOk(handlers[h])
      /\ \A b \in callbacks : b \in Callback /\ b.closing \subseteq Used
      /\ shutdown.closing \subseteq Used /\ issued \subseteq Tokens
  BY DEF LoginsInv, ConnsType, TrackerType, HandlersType, CallbacksType, ShutdownType, StoreType
<1>2. \A t : Of(t) \subseteq Used
  BY <1>1 DEF Of
<1> HIDE DEF Goal
<1>3. ASSUME NEW h \in Handlers, RefreshConnections(h) PROVE Goal
  BY <1>1, <1>2, <1>3, ArmedTyped DEF RefreshConnections, RefreshKey, Handler, Goal
<1>4. ASSUME NEW h \in Handlers, CloseToken(h) PROVE Goal
  BY <1>1, <1>2, <1>4, ArmedTyped DEF CloseToken, Untrack, Goal
<1>5. ASSUME NEW h \in Handlers, CloseOthers(h) PROVE Goal
  BY <1>1, <1>5, ClosedTyped DEF CloseOthers, HoldingsOk, Goal
<1>6. ASSUME NEW h \in Handlers, Renew(h) PROVE Goal
  BY <1>1, <1>2, <1>6, ArmedTyped DEF Renew, RefreshKey, Handler, Goal
<1>7. ASSUME NEW h \in Handlers, NEW c \in Conns, Track(h, c) PROVE Goal
  <2> DEFINE new(d) == [token |-> handlers[h].token, socket |-> "open", timer |-> d]
  <2>1. handlers[h].token \in Tokens /\ handlers[h].deadline \in Nat
    BY <1>1, <1>7 DEF Track, At, ProgressOk, HoldingsOk, TokenSteps, Handler
  <2>2. new(None) \in Conn /\ new(handlers[h].deadline) \in Conn
    BY <2>1 DEF Conn
  <2>3. conns[c] = None
    BY <1>7 DEF Track, NextConn, Unused
  <2>4. \E x \in Conn : conns' = [conns EXCEPT ![c] = x]
    <3>1. CASE closed
      BY <1>7, <2>2, <3>1 DEF Track
    <3>2. CASE ~closed
      BY <1>7, <2>2, <3>2 DEF Track
    <3> QED
      BY <3>1, <3>2
  <2> QED
    BY <1>1, <2>3, <2>4, NoneAssumption DEF Goal, ConnMoved
<1>8. ASSUME NEW c \in Conns, Leave(c) PROVE Goal
  <2>1. [conns[c] EXCEPT !.socket = "leaving"] \in Conn
    BY <1>1, <1>8 DEF Leave, Conn
  <2>2. conns' = [conns EXCEPT ![c] = [conns[c] EXCEPT !.socket = "leaving"]]
    BY <1>8 DEF Leave
  <2>3. [conns[c] EXCEPT !.socket = "leaving"].token = conns[c].token
    BY <1>1, <1>8 DEF Leave, Conn
  <2> QED
    BY <1>1, <2>1, <2>2, <2>3, NoneAssumption DEF Goal, ConnMoved
<1>9. ASSUME NEW c \in Conns, Drop(c) PROVE Goal
  <2>1. [conns[c] EXCEPT !.socket = "closed", !.timer = None] \in Conn
    BY <1>1, <1>9 DEF Drop, Conn
  <2>2. conns' = [conns EXCEPT ![c] = [conns[c] EXCEPT !.socket = "closed", !.timer = None]]
    BY <1>9 DEF Drop
  <2>3. [conns[c] EXCEPT !.socket = "closed", !.timer = None].token = conns[c].token
    BY <1>1, <1>9 DEF Drop, Conn
  <2> QED
    BY <1>1, <2>1, <2>2, <2>3, NoneAssumption DEF Goal, ConnMoved
<1>10. ASSUME NEW c \in Conns, Fire(c) PROVE Goal
  <2>1. [conns[c] EXCEPT !.timer = None] \in Conn
    BY <1>1, <1>10 DEF Fire, Conn
  <2>2. conns' = [conns EXCEPT ![c] = [conns[c] EXCEPT !.timer = None]]
    BY <1>10 DEF Fire
  <2>3. [conns[c] EXCEPT !.timer = None].token = conns[c].token
    BY <1>1, <1>10 DEF Fire, Conn
  <2> QED
    BY <1>1, <2>1, <2>2, <2>3, NoneAssumption DEF Goal, ConnMoved
<1>11. ASSUME NEW b \in callbacks, ResetTimers(b) PROVE Goal
  BY <1>1, <1>2, <1>11, ArmedTyped DEF ResetTimers, Callback, Goal
<1>12. ASSUME NEW b \in callbacks, ExpireConnections(b) PROVE Goal
  BY <1>1, <1>2, <1>12, ArmedTyped DEF ExpireConnections, Untrack, Goal
<1>13. ASSUME NEW b \in callbacks, CloseExpired(b) PROVE Goal
  BY <1>1, <1>13, ClosedTyped DEF CloseExpired, Goal
<1>14. CASE CloseAll
  BY <1>1, <1>14, ArmedTyped DEF CloseAll, Goal
<1>15. CASE CloseRest
  BY <1>1, <1>15, ClosedTyped DEF CloseRest, Goal
<1>16. CASE Restart
  <2>1. ASSUME NEW c \in Conns, conns[c] # None
        PROVE  /\ [conns[c] EXCEPT !.socket = "closed", !.timer = None] \in Conn
               /\ [conns[c] EXCEPT !.socket = "closed", !.timer = None].token = conns[c].token
    BY <1>1, <2>1 DEF Conn
  <2>2. \A c \in Conns : conns'[c] = IF conns[c] = None THEN None
                                     ELSE [conns[c] EXCEPT !.socket = "closed", !.timer = None]
    BY <1>16 DEF Restart
  <2>3. ASSUME NEW c \in Conns PROVE ConnMoved(c)
    <3>1. CASE conns[c] = None
      BY <2>2, <3>1 DEF ConnMoved
    <3>2. CASE conns[c] # None
      BY <2>1, <2>2, <3>2, NoneAssumption DEF ConnMoved
    <3> QED
      BY <3>1, <3>2
  <2> QED
    BY <1>16, <2>3 DEF Goal, ConnMoved, Restart
<1>17. CASE UNCHANGED conns
  BY <1>1, <1>17 DEF Goal, ConnMoved
<1> QED
  BY <1>3, <1>4, <1>5, <1>6, <1>7, <1>8, <1>9, <1>10, <1>11, <1>12, <1>13, <1>14, <1>15, <1>16, <1>17,
     ConnsWriters DEF Goal

(* Connections that exist go on to exist. *)
LEMMA UsedGrows ==
    ASSUME LoginsInv, [Next]_vars
    PROVE  Used \subseteq Used' /\ \A c \in Used : conns'[c].token = conns[c].token
BY ConnsMove DEF Used, ConnMoved

(* A logout that was asked for stays asked for. *)
LEMMA GoneForGrows ==
    ASSUME LoginsInv, [Next]_vars
    PROVE  goneFor' \subseteq issued' /\ goneFor \subseteq goneFor'
<1>1. goneFor \subseteq issued /\ cookies \subseteq issued /\ issued \subseteq issued'
  BY IssuedGrows DEF LoginsInv, BrowserType, StoreType
<1>2. ASSUME NEW h \in Handlers, NEW work \in {"touch", "logout", "upgrade"}, StartRequest(h, work)
      PROVE  goneFor' \subseteq issued' /\ goneFor \subseteq goneFor'
  <2>1. PICK t \in cookies : handlers' = [handlers EXCEPT ![h] = [Resting EXCEPT !.at = "get", !.since = now,
                                                                             !.work = work, !.token = t]]
    BY <1>2 DEF StartRequest
  <2>2. handlers'[h].token = t
    BY <2>1 DEF LoginsInv, HandlersType, Resting
  <2> QED
    BY <1>1, <1>2, <2>2 DEF StartRequest
<1>3. CASE UNCHANGED goneFor
  BY <1>1, <1>3
<1>4. ASSUME NEW h \in Handlers, CloseOthers(h) PROVE UNCHANGED goneFor
  BY <1>4 DEF CloseOthers
<1> QED
  BY <1>2, <1>3, <1>4, GhostsWriters

(* What the types of the requests say of one of them. *)
LEMMA HandlerKnown ==
    ASSUME HandlersType, issued \subseteq Tokens, NEW h \in Handlers
    PROVE  /\ handlers[h] \in Handler /\ ProgressOk(handlers[h]) /\ HoldingsOk(handlers[h])
           /\ handlers[h].token # None => handlers[h].token \in Tokens
BY DEF HandlersType, HoldingsOk

(* One request goes on, and the others stay as they are. *)
Others(h) ==
    handlers' = [g \in Handlers |-> handlers'[g]] /\ \A g \in Handlers : g # h => handlers'[g] = handlers[g]

(* A request that comes to a step can read the clock from now on, and is otherwise as it was. *)
LEMMA ArrivedTyped ==
    ASSUME HandlersType, now \in Nat, NEW h \in Handlers, NEW x \in Steps
    PROVE  /\ Arrived(h, x) \in Handler /\ Arrived(h, x).at = x /\ Arrived(h, x).since = now
           /\ Arrived(h, x).work = handlers[h].work /\ Arrived(h, x).user = handlers[h].user
           /\ Arrived(h, x).token = handlers[h].token /\ Arrived(h, x).deadline = handlers[h].deadline
           /\ Arrived(h, x).closing = handlers[h].closing /\ Arrived(h, x).remember = handlers[h].remember
<1>1. handlers[h] \in Handler
  BY DEF HandlersType
<1> QED
  BY <1>1 DEF Arrived, Handler

(* Going to another step changes nothing else of a request. *)
LEMMA Gone ==
    ASSUME HandlersType, now \in Nat, NEW h \in Handlers, NEW x \in Steps, Go(h, x)
    PROVE  /\ Others(h) /\ handlers'[h] \in Handler /\ handlers'[h].at = x
           /\ handlers'[h].work = handlers[h].work /\ handlers'[h].user = handlers[h].user
           /\ handlers'[h].token = handlers[h].token /\ handlers'[h].deadline = handlers[h].deadline
           /\ handlers'[h].closing = handlers[h].closing /\ handlers'[h].remember = handlers[h].remember
<1>1. Others(h) /\ handlers'[h] = Arrived(h, x)
  BY DEF Go, HandlersType, Others
<1> QED
  BY <1>1, ArrivedTyped

(* The end of a request. *)
LEMMA Ended ==
    ASSUME HandlersType, NEW h \in Handlers, End(h)
    PROVE  /\ Others(h) /\ handlers'[h] = Resting
           /\ Resting \in Handler /\ Resting.at = "idle" /\ Resting.work = "none" /\ Resting.user = None
           /\ Resting.token = None /\ Resting.deadline = 0 /\ Resting.closing = {}
<1>1. Resting \in Handler
  BY DEF Resting, Handler, Steps
<1> QED
  BY <1>1 DEF End, HandlersType, Others, Resting

(* The types of the requests when one of them goes on. *)
LEMMA HandlerSet ==
    ASSUME LoginsInv, [Next]_vars, NEW h \in Handlers, Others(h), handlers'[h] \in Handler,
           ProgressOk(handlers[h])', HoldingsOk(handlers[h])', DOMAIN handlers = Handlers
    PROVE  HandlersType'
<1>1. issued \subseteq issued' /\ goneFor \subseteq goneFor' /\ Used \subseteq Used'
  BY IssuedGrows, GoneForGrows, UsedGrows DEF LoginsInv, StoreType
<1>2. ASSUME NEW g \in Handlers PROVE handlers'[g] \in Handler /\ ProgressOk(handlers[g])' /\ HoldingsOk(handlers[g])'
  <2>1. CASE g = h
    BY <2>1
  <2>2. CASE g # h
    <3>1. handlers'[g] = handlers[g] /\ handlers[g] \in Handler /\ ProgressOk(handlers[g]) /\ HoldingsOk(handlers[g])
      BY <2>2 DEF Others, LoginsInv, HandlersType
    <3>2. HoldingsOk(handlers[g])'
      BY <1>1, <3>1 DEF HoldingsOk
    <3>3. ProgressOk(handlers[g])'
      BY <3>1 DEF ProgressOk, UserSteps, TokenSteps
    <3> QED
      BY <3>1, <3>2, <3>3
  <2> QED
    BY <2>1, <2>2
<1> QED
  BY <1>2 DEF HandlersType, Others

(* Going on without taking anything new. *)
LEMMA WentOn ==
    ASSUME LoginsInv, [Next]_vars, NEW h \in Handlers, NEW x \in Steps, Go(h, x), x # "closing",
           handlers[h].at # "closing",
           x \in UserSteps => handlers[h].at \in UserSteps,
           x \in TokenSteps => handlers[h].at \in TokenSteps,
           x \notin {"get", "refresh"}, x = "revoke" => handlers[h].work = "logout"
    PROVE  HandlersType'
<1>1. HandlersType /\ issued \subseteq Tokens /\ now \in Nat
  BY DEF LoginsInv, StoreType
<1>2. handlers[h] \in Handler /\ ProgressOk(handlers[h]) /\ HoldingsOk(handlers[h]) /\ DOMAIN handlers = Handlers
  BY <1>1 DEF HandlersType
<1>3. /\ Others(h) /\ handlers'[h] \in Handler /\ handlers'[h].at = x
      /\ handlers'[h].work = handlers[h].work /\ handlers'[h].user = handlers[h].user
      /\ handlers'[h].token = handlers[h].token /\ handlers'[h].closing = handlers[h].closing
  BY <1>1, Gone
<1>4. issued \subseteq issued' /\ goneFor \subseteq goneFor' /\ Used \subseteq Used'
  BY <1>1, IssuedGrows, GoneForGrows, UsedGrows
<1>5. ProgressOk(handlers[h])'
  BY <1>2, <1>3 DEF ProgressOk, UserSteps, TokenSteps
<1>6. HoldingsOk(handlers[h])'
  BY <1>2, <1>3, <1>4 DEF HoldingsOk
<1> QED
  BY <1>2, <1>3, <1>5, <1>6, HandlerSet

(* A request that ends keeps the types of the requests. *)
LEMMA WentToRest ==
    ASSUME LoginsInv, [Next]_vars, NEW h \in Handlers, End(h)
    PROVE  HandlersType'
<1>1. HandlersType /\ DOMAIN handlers = Handlers
  BY DEF LoginsInv, HandlersType
<1>2. /\ Others(h) /\ handlers'[h] \in Handler /\ handlers'[h].at = "idle" /\ handlers'[h].work = "none"
      /\ handlers'[h].token = None /\ handlers'[h].closing = {}
  BY <1>1, Ended
<1>3. ProgressOk(handlers[h])'
  BY <1>2 DEF ProgressOk, UserSteps, TokenSteps
<1>4. HoldingsOk(handlers[h])'
  BY <1>2 DEF HoldingsOk
<1> QED
  BY <1>1, <1>2, <1>3, <1>4, HandlerSet

(* Where a step of the throttler takes a request. *)
Path(x, y) ==
    \/ x = "allow address" /\ y = "allow user"
    \/ x = "allow user" /\ y = "slot"
    \/ x = "slot" /\ y = "pam"
    \/ x = "fail address" /\ y = "fail user"
    \/ x = "clear address" /\ y = "clear user"
    \/ x = "deny address" /\ y = "count address"
    \/ x = "deny address" /\ y = "deny user"
    \/ x = "count address" /\ y = "deny user"
    \/ x = "deny user" /\ y = "count user"

(* A step of the throttler takes a request along its path or ends it. *)
LEMMA ThrottledMoves ==
    ASSUME NEW h \in Handlers, Throttled(h)
    PROVE  End(h) \/ \E x, y \in Steps : Path(x, y) /\ At(h, x) /\ Go(h, y)
<1> DEFINE Goal == End(h) \/ \E x, y \in Steps : Path(x, y) /\ At(h, x) /\ Go(h, y)
<1>1. CASE AllowAddress(h)
  BY <1>1 DEF AllowAddress, Allow, Path, Steps
<1>2. CASE AllowUser(h)
  BY <1>2 DEF AllowUser, Allow, Path, Steps
<1>3. CASE TakeSlot(h)
  BY <1>3 DEF TakeSlot, Path, Steps
<1>4. CASE FailAddress(h)
  BY <1>4 DEF FailAddress, Fail, Path, Steps
<1>5. CASE FailUser(h)
  BY <1>5 DEF FailUser, Fail
<1>6. CASE ClearAddress(h)
  BY <1>6 DEF ClearAddress, Path, Steps
<1>7. CASE DenyAddress(h)
  BY <1>7 DEF DenyAddress, Allow, Path, Steps
<1>8. CASE CountAddress(h)
  BY <1>8 DEF CountAddress, Fail, Path, Steps
<1>9. CASE DenyUser(h)
  BY <1>9 DEF DenyUser, Allow, Path, Steps
<1>10. CASE CountUser(h)
  BY <1>10 DEF CountUser, Fail
<1> QED
  BY <1>1, <1>2, <1>3, <1>4, <1>5, <1>6, <1>7, <1>8, <1>9, <1>10 DEF Throttled

(* The types of the requests. *)
LEMMA HandlersTyped == LoginsInv /\ [Next]_vars => HandlersType'
<1>1. SUFFICES ASSUME LoginsInv, [Next]_vars PROVE HandlersType'
  OBVIOUS
<1>2. /\ HandlersType /\ issued \subseteq Tokens /\ issued \subseteq issued' /\ goneFor \subseteq goneFor'
      /\ cookies \subseteq issued /\ Used \subseteq Used' /\ tracked \subseteq Used /\ issued' \subseteq Tokens
      /\ DOMAIN handlers = Handlers /\ now \in Nat /\ \A t : Of(t) \subseteq Used
  BY <1>1, IssuedGrows, GoneForGrows, UsedGrows DEF LoginsInv, StoreType, BrowserType, TrackerType, HandlersType, Of
<1>3. \A h \in Handlers : /\ handlers[h] \in Handler /\ ProgressOk(handlers[h]) /\ HoldingsOk(handlers[h])
                          /\ handlers[h].token # None => handlers[h].token \in Tokens
  BY <1>2, HandlerKnown
<1>4. ASSUME NEW h \in Handlers, StartLogin(h) PROVE HandlersType'
  <2>1. PICK u \in Users, x \in BOOLEAN :
           handlers' = [handlers EXCEPT ![h] = [Resting EXCEPT !.at = "allow address", !.since = now,
                                                               !.work = "login", !.user = u, !.remember = x]]
    BY <1>4 DEF StartLogin
  <2>2. /\ Others(h) /\ handlers'[h] \in Handler /\ handlers'[h].at = "allow address" /\ handlers'[h].user = u
        /\ handlers'[h].token = None /\ handlers'[h].work = "login" /\ handlers'[h].closing = {}
    BY <1>2, <2>1 DEF Others, Resting, Handler, Steps, Work
  <2>3. ProgressOk(handlers[h])' /\ HoldingsOk(handlers[h])'
    BY <2>2 DEF ProgressOk, HoldingsOk, UserSteps, TokenSteps
  <2> QED
    BY <1>1, <1>2, <2>2, <2>3, HandlerSet
<1>5. ASSUME NEW h \in Handlers, StartMalformed(h) PROVE HandlersType'
  <2>1. PICK u \in Users : handlers' = [handlers EXCEPT ![h] = [Resting EXCEPT !.at = "deny address",
                                                               !.since = now, !.work = "malformed", !.user = u]]
    BY <1>5 DEF StartMalformed
  <2>2. /\ Others(h) /\ handlers'[h] \in Handler /\ handlers'[h].at = "deny address" /\ handlers'[h].user = u
        /\ handlers'[h].token = None /\ handlers'[h].work = "malformed" /\ handlers'[h].closing = {}
    BY <1>2, <2>1 DEF Others, Resting, Handler, Steps, Work
  <2>3. ProgressOk(handlers[h])' /\ HoldingsOk(handlers[h])'
    BY <2>2 DEF ProgressOk, HoldingsOk, UserSteps, TokenSteps
  <2> QED
    BY <1>1, <1>2, <2>2, <2>3, HandlerSet
<1>6. ASSUME NEW h \in Handlers, Throttled(h) PROVE HandlersType'
  <2>1. CASE End(h)
    BY <1>1, <2>1, WentToRest
  <2>2. ASSUME NEW x \in Steps, NEW y \in Steps, Path(x, y), At(h, x), Go(h, y) PROVE HandlersType'
    <3>1. /\ x \in UserSteps /\ y \in UserSteps /\ x # "closing" /\ y \notin {"closing", "get", "refresh", "revoke"}
          /\ y \in TokenSteps => x \in TokenSteps
      BY <2>2 DEF Path, UserSteps, TokenSteps
    <3> QED
      BY <1>1, <2>2, <3>1, WentOn DEF At
  <2> QED
    BY <1>6, <2>1, <2>2, ThrottledMoves
<1>7. ASSUME NEW h \in Handlers, Authenticate(h) PROVE HandlersType'
  <2>1. At(h, "pam") /\ (Go(h, "fail address") \/ Go(h, "create"))
    BY <1>7 DEF Authenticate
  <2> QED
    BY <1>1, <2>1, WentOn DEF At, Steps, UserSteps, TokenSteps
<1>8. ASSUME NEW h \in Handlers, NEW t \in Tokens, NEW r \in Results, Create(h, t, r) PROVE HandlersType'
  <2>1. CASE End(h)
    BY <1>1, <2>1, WentToRest
  <2> DEFINE made == [Arrived(h, "clear address") EXCEPT !.token = t]
  <2>2. CASE handlers' = [handlers EXCEPT ![h] = made] /\ issued' = issued \cup {t}
    <3>0. "clear address" \in Steps
      BY DEF Steps
    <3>1. handlers'[h] = made /\ Others(h)
      BY <1>2, <2>2 DEF Others
    <3>2. /\ handlers'[h] \in Handler /\ handlers'[h].at = "clear address" /\ handlers'[h].user = handlers[h].user
          /\ handlers'[h].token = t /\ handlers'[h].work = handlers[h].work
          /\ handlers'[h].closing = handlers[h].closing
      <4> DEFINE a == Arrived(h, "clear address")
      <4>1. /\ a \in Handler /\ a.at = "clear address" /\ a.work = handlers[h].work /\ a.user = handlers[h].user
            /\ a.closing = handlers[h].closing /\ handlers'[h] = [a EXCEPT !.token = t]
        BY <1>2, <3>0, <3>1, ArrivedTyped
      <4> HIDE DEF a
      <4> QED
        BY <4>1 DEF Handler
    <3>3. At(h, "create") /\ t \in issued' /\ t # None
      BY <1>8, <2>2, NoneAssumption DEF Create
    <3>4. ProgressOk(handlers[h])'
      BY <1>3, <3>2, <3>3 DEF ProgressOk, UserSteps, TokenSteps, At
    <3>5. HoldingsOk(handlers[h])'
      BY <1>2, <1>3, <3>2, <3>3 DEF HoldingsOk, ProgressOk, UserSteps, At
    <3> QED
      BY <1>1, <1>2, <3>1, <3>2, <3>4, <3>5, HandlerSet
  <2>3. End(h) \/ (handlers' = [handlers EXCEPT ![h] = made] /\ issued' = issued \cup {t})
    BY <1>8 DEF Create, CreateAt
  <2> QED
    BY <2>1, <2>2, <2>3
<1>9. ASSUME NEW h \in Handlers, Answer(h) PROVE HandlersType'
  BY <1>1, <1>9, WentToRest DEF Answer
<1>10. ASSUME NEW h \in Handlers, NEW work \in {"touch", "logout", "upgrade"}, StartRequest(h, work) PROVE HandlersType'
  <2>1. PICK t \in cookies :
           handlers' = [handlers EXCEPT ![h] = [Resting EXCEPT !.at = "get", !.since = now, !.work = work,
                                                               !.token = t]]
    BY <1>10 DEF StartRequest
  <2>2. /\ Others(h) /\ handlers'[h] \in Handler /\ handlers'[h].at = "get" /\ handlers'[h].work = work
        /\ handlers'[h].token = t /\ handlers'[h].closing = {}
    BY <1>2, <2>1 DEF Others, Resting, Handler, Steps, Work
  <2>3. t \in issued' /\ t # None /\ (work = "logout" => t \in goneFor')
    BY <1>2, <1>10, <2>2, NoneAssumption DEF StartRequest
  <2>4. ProgressOk(handlers[h])'
    BY <2>2, <2>3 DEF ProgressOk, UserSteps, TokenSteps
  <2>5. HoldingsOk(handlers[h])'
    BY <2>2, <2>3 DEF HoldingsOk
  <2> QED
    BY <1>1, <1>2, <2>2, <2>4, <2>5, HandlerSet
<1>11. ASSUME NEW h \in Handlers, GetSession(h) PROVE HandlersType'
  <2> DEFINE t == handlers[h].token
  <2>1. At(h, "get") /\ t \in Tokens /\ t \in issued
    BY <1>3, <1>11 DEF GetSession, At, ProgressOk, HoldingsOk, TokenSteps
  <2>2. PICK x \in {"refresh", "close token"}, d \in Nat, w \in {"touch", "logout", "upgrade"} :
           /\ handlers' = [handlers EXCEPT ![h] = [Arrived(h, x) EXCEPT !.deadline = d, !.work = w]]
           /\ w = "logout" => handlers[h].work = "logout"
    <3>1. PICK clock \in Readings(handlers[h]) :
             handlers' = [handlers EXCEPT ![h] =
                IF Live(t, clock) THEN [Arrived(h, "refresh") EXCEPT !.deadline = Deadline(Refreshed(sessions[t], clock))]
                                  ELSE [Arrived(h, "close token") EXCEPT !.deadline = 0, !.work = "touch"]]
      BY <1>11 DEF GetSession
    <3>2. clock \in Nat /\ "refresh" \in Steps /\ "close token" \in Steps
      BY <1>2, <1>3, ReadingsTyped DEF Handler, Steps
    <3>3. CASE Live(t, clock)
      <4>1. Deadline(Refreshed(sessions[t], clock)) \in Nat
        BY <1>1, <2>1, <3>2, <3>3, RefreshedTyped, DeadlineTyped DEF LoginsInv, StoreType, Live, Known
      <4> DEFINE a == Arrived(h, "refresh")
                 e == Deadline(Refreshed(sessions[t], clock))
      <4>2. handlers[h].work \in {"touch", "logout", "upgrade"}
        BY <1>3, <2>1 DEF ProgressOk, At
      <4>3. a \in Handler /\ a.work = handlers[h].work
        BY <1>2, <3>2, ArrivedTyped
      <4>4. handlers' = [handlers EXCEPT ![h] = [a EXCEPT !.deadline = e]]
        BY <3>1, <3>3
      <4> HIDE DEF a, e
      <4>5. [a EXCEPT !.deadline = e] = [a EXCEPT !.deadline = e, !.work = handlers[h].work]
        BY <4>3 DEF Handler
      <4>6. handlers' = [handlers EXCEPT ![h] = [a EXCEPT !.deadline = e, !.work = handlers[h].work]]
        BY <4>4, <4>5
      <4> QED
        BY <4>1, <4>2, <4>6 DEF a, e
    <3>4. CASE ~Live(t, clock)
      BY <3>1, <3>4
    <3> QED
      BY <3>3, <3>4
  <2>3. handlers'[h] = [Arrived(h, x) EXCEPT !.deadline = d, !.work = w] /\ Others(h) /\ x \in Steps
    BY <1>2, <2>2 DEF Others, Steps
  <2>4. /\ handlers'[h] \in Handler /\ handlers'[h].at = x /\ handlers'[h].work = w
        /\ handlers'[h].token = t /\ handlers'[h].closing = handlers[h].closing
    <3> DEFINE a == Arrived(h, x)
    <3>1. /\ a \in Handler /\ a.at = x /\ a.token = t /\ a.closing = handlers[h].closing
          /\ handlers'[h] = [a EXCEPT !.deadline = d, !.work = w]
      BY <1>2, <2>3, ArrivedTyped
    <3> HIDE DEF a
    <3> QED
      BY <3>1 DEF Handler, Work
  <2> HIDE DEF t
  <2>5. ProgressOk(handlers[h])'
    BY <1>3, <2>1, <2>4, NoneAssumption DEF ProgressOk, UserSteps, TokenSteps, At
  <2>6. HoldingsOk(handlers[h])'
    BY <1>2, <1>3, <2>1, <2>2, <2>4 DEF HoldingsOk, ProgressOk, At, t
  <2> QED
    BY <1>1, <1>2, <2>3, <2>4, <2>5, <2>6, HandlerSet
<1>12. ASSUME NEW h \in Handlers, RefreshConnections(h) PROVE HandlersType'
  <2>1. At(h, "refresh") /\ handlers[h].work \in {"touch", "logout", "upgrade"}
    BY <1>3, <1>12 DEF RefreshConnections, ProgressOk, At
  <2>2. End(h) \/ (handlers[h].work = "logout" /\ Go(h, "revoke")) \/ Go(h, "hijack")
    BY <1>12, <2>1 DEF RefreshConnections
  <2> QED
    BY <1>1, <2>1, <2>2, WentOn, WentToRest DEF At, Steps, UserSteps, TokenSteps
<1>13. ASSUME NEW h \in Handlers, NEW r \in Results, Revoke(h, r) PROVE HandlersType'
  <2>1. At(h, "revoke") /\ (End(h) \/ Go(h, "close token"))
    BY <1>13 DEF Revoke
  <2> QED
    BY <1>1, <2>1, WentOn, WentToRest DEF At, Steps, UserSteps, TokenSteps
<1>14. ASSUME NEW h \in Handlers, NEW set \in SUBSET Used', handlers[h].at \in {"close token", "track"},
              handlers' = [handlers EXCEPT ![h] = [Arrived(h, "closing") EXCEPT !.closing = set]]
       PROVE  HandlersType'
  <2>1. handlers'[h] = [Arrived(h, "closing") EXCEPT !.closing = set] /\ Others(h) /\ "closing" \in Steps
    BY <1>2, <1>14 DEF Others, Steps
  <2>2. /\ handlers'[h] \in Handler /\ handlers'[h].at = "closing" /\ handlers'[h].work = handlers[h].work
        /\ handlers'[h].token = handlers[h].token /\ handlers'[h].closing = set
    <3>1. set \subseteq Conns
      BY <1>14 DEF Used
    <3> QED
      BY <1>2, <2>1, <3>1, ArrivedTyped DEF Handler
  <2>3. ProgressOk(handlers[h])'
    BY <1>3, <1>14, <2>2 DEF ProgressOk, UserSteps, TokenSteps
  <2>4. HoldingsOk(handlers[h])'
    BY <1>2, <1>3, <2>2 DEF HoldingsOk
  <2> QED
    BY <1>1, <1>2, <2>1, <2>2, <2>3, <2>4, HandlerSet
<1>15. ASSUME NEW h \in Handlers, CloseToken(h) PROVE HandlersType'
  BY <1>2, <1>14, <1>15 DEF CloseToken, At
<1>16. ASSUME NEW h \in Handlers, CloseOthers(h) PROVE HandlersType'
  BY <1>1, <1>16, WentToRest DEF CloseOthers
<1>17. ASSUME NEW h \in Handlers, Hijack(h) PROVE HandlersType'
  <2>1. At(h, "hijack") /\ (End(h) \/ Go(h, "track"))
    BY <1>17 DEF Hijack
  <2> QED
    BY <1>1, <2>1, WentOn, WentToRest DEF At, Steps, UserSteps, TokenSteps
<1>18. ASSUME NEW h \in Handlers, NEW c \in Conns, Track(h, c) PROVE HandlersType'
  <2>1. At(h, "track")
    BY <1>18 DEF Track
  <2>2. CASE closed
    <3>1. conns'[c] # None
      <4>1. handlers[h].token \in Tokens /\ DOMAIN conns = Conns
        BY <1>1, <1>3, <2>1 DEF ProgressOk, TokenSteps, At, LoginsInv, ConnsType
      <4>2. [token |-> handlers[h].token, socket |-> "open", timer |-> None] \in Conn
        BY <4>1 DEF Conn
      <4> QED
        BY <1>18, <2>2, <4>1, <4>2, NoneAssumption DEF Track
    <3>2. {c} \in SUBSET Used'
      BY <3>1 DEF Used
    <3> QED
      BY <1>14, <1>18, <2>1, <2>2, <3>2 DEF Track, At
  <2>3. CASE ~closed
    <3>1. Go(h, "validate")
      BY <1>18, <2>3 DEF Track
    <3> QED
      BY <1>1, <2>1, <3>1, WentOn DEF At, Steps, UserSteps, TokenSteps
  <2> QED
    BY <2>2, <2>3
<1>19. ASSUME NEW h \in Handlers, Validate(h) PROVE HandlersType'
  <2> DEFINE t == handlers[h].token
  <2>1. At(h, "validate") /\ t \in Tokens
    BY <1>3, <1>19 DEF Validate, At, ProgressOk, TokenSteps
  <2>2. CASE Go(h, "close token") \/ End(h)
    BY <1>1, <2>1, <2>2, WentOn, WentToRest DEF At, Steps, UserSteps, TokenSteps
  <2> DEFINE renew == [Arrived(h, "renew") EXCEPT !.deadline = Deadline(sessions[t])]
  <2>3. CASE Known(t) /\ handlers' = [handlers EXCEPT ![h] = renew]
    <3>1. Deadline(sessions[t]) \in Nat /\ "renew" \in Steps
      BY <1>1, <2>1, <2>3, DeadlineTyped DEF LoginsInv, StoreType, Known, Steps
    <3>2. handlers'[h] = renew /\ Others(h)
      BY <1>2, <2>3 DEF Others
    <3>3. /\ handlers'[h] \in Handler /\ handlers'[h].at = "renew" /\ handlers'[h].work = handlers[h].work
          /\ handlers'[h].token = handlers[h].token /\ handlers'[h].closing = handlers[h].closing
      BY <1>2, <3>1, <3>2, ArrivedTyped DEF Handler
    <3>4. ProgressOk(handlers[h])'
      BY <1>3, <2>1, <3>3 DEF ProgressOk, UserSteps, TokenSteps, At
    <3>5. HoldingsOk(handlers[h])'
      BY <1>2, <1>3, <3>3 DEF HoldingsOk
    <3> QED
      BY <1>1, <1>2, <3>2, <3>3, <3>4, <3>5, HandlerSet
  <2>4. Go(h, "close token") \/ End(h) \/ (Known(t) /\ handlers' = [handlers EXCEPT ![h] = renew])
    BY <1>19 DEF Validate, Live
  <2> QED
    BY <2>2, <2>3, <2>4
<1>20. ASSUME NEW h \in Handlers, Renew(h) PROVE HandlersType'
  BY <1>1, <1>20, WentToRest DEF Renew
<1>21. CASE Restart
  <2>1. \A h \in Handlers : handlers'[h] = Resting
    BY <1>21 DEF Restart
  <2>2. /\ Resting \in Handler /\ Resting.at = "idle" /\ Resting.work = "none"
        /\ Resting.token = None /\ Resting.closing = {}
    BY DEF Resting, Handler, Steps
  <2>3. \A h \in Handlers : ProgressOk(handlers[h])' /\ HoldingsOk(handlers[h])'
    BY <2>1, <2>2 DEF ProgressOk, HoldingsOk, UserSteps, TokenSteps
  <2> QED
    BY <1>21, <2>1, <2>2, <2>3 DEF Restart, HandlersType
<1>22. CASE UNCHANGED handlers
  <2>1. \A h \in Handlers : ProgressOk(handlers[h])' /\ HoldingsOk(handlers[h])'
    BY <1>2, <1>3, <1>22 DEF ProgressOk, HoldingsOk
  <2> QED
    BY <1>2, <1>22, <2>1 DEF HandlersType
<1> QED
  BY <1>1, <1>4, <1>5, <1>6, <1>7, <1>8, <1>9, <1>10, <1>11, <1>12, <1>13, <1>15, <1>16, <1>17, <1>18, <1>19,
     <1>20, <1>21, <1>22, HandlersWriters

(* The later of two moments. *)
LEMMA LargerIs == \A a, b \in Nat : Larger(a, b) \in Nat /\ a <= Larger(a, b) /\ b <= Larger(a, b)
BY DEF Larger

(* The latest deadline of a session only grows, and with the deadline that a step gives it. *)
LEMMA LatestMoves ==
    ASSUME LoginsInv, [Next]_vars
    PROVE  /\ latest' \in [Tokens -> Nat]
           /\ \A u \in Tokens : latest[u] <= latest'[u]
           /\ \A u \in Tokens : ~Restart /\ sessions'[u] # None /\ sessions'[u] # sessions[u]
                                 => Deadline(sessions'[u]) <= latest'[u]
<1> DEFINE Goal == /\ latest' \in [Tokens -> Nat]
                   /\ \A u \in Tokens : latest[u] <= latest'[u]
                   /\ \A u \in Tokens : ~Restart /\ sessions'[u] # None /\ sessions'[u] # sessions[u]
                                         => Deadline(sessions'[u]) <= latest'[u]
<1>1. /\ latest \in [Tokens -> Nat] /\ now \in Nat /\ HandlersType /\ issued \subseteq Tokens
      /\ sessions \in [Tokens -> Session \cup {None}] /\ StoreType
  BY DEF LoginsInv, BrowserType, StoreType
<1>2. \A h \in Handlers : /\ handlers[h] \in Handler /\ ProgressOk(handlers[h])
                          /\ handlers[h].token # None => handlers[h].token \in Tokens
  BY <1>1, HandlerKnown
<1>3. ASSUME NEW h \in Handlers, NEW t \in Tokens, NEW r \in Results, Create(h, t, r) PROVE Goal
  <2>1. PICK clock \in Readings(handlers[h]) : CreateAt(h, t, r, clock)
    BY <1>3 DEF Create
  <2>2. clock \in Nat /\ handlers[h].remember \in BOOLEAN
    BY <1>1, <1>2, ReadingsTyped DEF Handler
  <2> DEFINE s      == NewSession(handlers[h].remember, clock)
             pruned == WithoutExpired(clock)
             all    == [pruned EXCEPT ![t] = s]
  <2>3. /\ s \in Session
        /\ \A u \in Tokens : pruned[u] \in {sessions[u], None} /\ pruned \in [Tokens -> Session \cup {None}]
    BY <1>1, <2>2, NewSessionTyped, PrunedTyped DEF SessionsType
  <2>4. latest' = [latest EXCEPT ![t] = Larger(@, Deadline(all[t]))] /\ sessions' \in {pruned, all}
    BY <2>1 DEF CreateAt
  <2> HIDE DEF s, pruned
  <2>5. all[t] = s /\ Deadline(s) \in Nat /\ \A u \in Tokens : u # t => all[u] = pruned[u]
    BY <2>3, DeadlineTyped
  <2>6. latest'[t] = Larger(latest[t], Deadline(s)) /\ \A u \in Tokens : u # t => latest'[u] = latest[u]
    BY <1>1, <2>4, <2>5
  <2>7. latest[t] <= latest'[t] /\ latest'[t] \in Nat /\ Deadline(s) <= latest'[t]
    BY <1>1, <2>5, <2>6, LargerIs
  <2>8. \A u \in Tokens : sessions'[u] \in {sessions[u], None} \/ (u = t /\ sessions'[u] = s)
    BY <2>3, <2>4, <2>5
  <2>9. latest' \in [Tokens -> Nat] /\ \A u \in Tokens : latest[u] <= latest'[u]
    BY <1>1, <2>4, <2>6, <2>7
  <2> QED
    BY <2>7, <2>8, <2>9
<1>4. ASSUME NEW h \in Handlers, GetSession(h) PROVE Goal
  <2> DEFINE t == handlers[h].token
  <2>1. t \in Tokens
    BY <1>2, <1>4 DEF GetSession, At, ProgressOk, TokenSteps
  <2>2. PICK clock \in Readings(handlers[h]) : Get(t, clock)
    BY <1>4 DEF GetSession
  <2>3. clock \in Nat
    BY <1>1, <1>2, ReadingsTyped DEF Handler
  <2>4. Live(t, clock) => Refreshed(sessions[t], clock) \in Session
    BY <1>1, <2>1, <2>3, RefreshedTyped DEF Live, Known
  <2>5. /\ sessions'[t] = IF Live(t, clock) THEN Refreshed(sessions[t], clock) ELSE None
        /\ \A u \in Tokens : u # t => sessions'[u] = sessions[u]
    BY <1>1, <2>1, <2>2 DEF Get
  <2>6. latest' = [latest EXCEPT ![t] = IF Live(t, clock) THEN Larger(latest[t], Deadline(sessions'[t])) ELSE latest[t]]
    BY <2>2 DEF Get
  <2>7. Live(t, clock) => Deadline(sessions'[t]) \in Nat
    <3>1. Live(t, clock) => sessions'[t] \in Session
      BY <2>4, <2>5
    <3> HIDE DEF t
    <3> QED
      BY <3>1, DeadlineTyped
  <2>8. latest[t] <= latest'[t] /\ latest'[t] \in Nat /\ (Live(t, clock) => Deadline(sessions'[t]) <= latest'[t])
    <3> DEFINE e == Deadline(sessions'[t])
    <3>1. latest'[t] = (IF Live(t, clock) THEN Larger(latest[t], e) ELSE latest[t]) /\ latest[t] \in Nat
      BY <1>1, <2>1, <2>6
    <3> HIDE DEF e
    <3>2. Live(t, clock) => e \in Nat
      BY <2>7 DEF e
    <3>3. latest[t] <= latest'[t] /\ latest'[t] \in Nat /\ (Live(t, clock) => e <= latest'[t])
      <4> DEFINE l == Larger(latest[t], e)
      <4>1. CASE Live(t, clock)
        <5>1. l \in Nat /\ latest[t] <= l /\ e <= l
          BY <3>1, <3>2, <4>1, LargerIs
        <5> HIDE DEF t, l
        <5> QED
          BY <3>1, <4>1, <5>1 DEF l
      <4>2. CASE ~Live(t, clock)
        BY <3>1, <4>2
      <4> QED
        BY <4>1, <4>2
    <3> QED
      BY <3>3 DEF e
  <2>9. latest' \in [Tokens -> Nat] /\ \A u \in Tokens : u # t => latest'[u] = latest[u]
    BY <1>1, <2>1, <2>6, <2>8
  <2> QED
    BY <1>1, <2>5, <2>8, <2>9
<1>5. CASE UNCHANGED <<latest, sessions>>
  BY <1>1, <1>5
<1>6. CASE Restart
  <2>1. UNCHANGED latest
    BY <1>6 DEF Restart
  <2> QED
    BY <1>1, <1>6, <2>1
<1>7. ASSUME NEW t, NEW clock, Look(t, clock), UNCHANGED latest PROVE Goal
  BY <1>1, <1>7 DEF Look
<1>8. ASSUME NEW h \in Handlers, Validate(h) PROVE Goal
  BY <1>7, <1>8 DEF Validate, ghosts
<1>9. ASSUME NEW b \in callbacks, CheckSession(b) PROVE Goal
  BY <1>7, <1>9 DEF CheckSession, ghosts
<1>10. ASSUME NEW h \in Handlers, NEW r \in Results, Revoke(h, r) PROVE Goal
  <2>1. UNCHANGED latest /\ Delete(handlers[h].token, r)
    BY <1>10 DEF Revoke, ghosts
  <2>2. sessions' \in {sessions, [sessions EXCEPT ![handlers[h].token] = None]}
    BY <2>1 DEF Delete
  <2> QED
    BY <1>1, <2>1, <2>2
<1> QED
  BY <1>3, <1>4, <1>5, <1>6, <1>8, <1>9, <1>10, LatestWriters, SessionsWriters

(* The types of what browsers hold and were promised. *)
LEMMA BrowserTyped == LoginsInv /\ [Next]_vars => BrowserType'
<1>1. SUFFICES ASSUME LoginsInv, [Next]_vars PROVE BrowserType'
  OBVIOUS
<1>2. /\ HandlersType /\ issued \subseteq Tokens /\ issued \subseteq issued' /\ goneFor \subseteq goneFor'
      /\ goneFor' \subseteq issued' /\ BrowserType /\ now \in Nat
  BY <1>1, IssuedGrows, GoneForGrows DEF LoginsInv, StoreType, BrowserType
<1>3. \A h \in Handlers : /\ handlers[h] \in Handler /\ ProgressOk(handlers[h]) /\ HoldingsOk(handlers[h])
  BY <1>2, HandlerKnown
<1>4. cookies' \subseteq issued'
  <2>1. ASSUME NEW h \in Handlers, Answer(h) PROVE cookies' \subseteq issued
    BY <1>2, <1>3, <2>1 DEF Answer, At, ProgressOk, HoldingsOk, TokenSteps, BrowserType
  <2>2. ASSUME NEW h \in Handlers, CloseOthers(h) PROVE cookies' \subseteq issued
    BY <1>2, <2>2 DEF CloseOthers, BrowserType
  <2> QED
    BY <1>1, <1>2, <2>1, <2>2, CookieWriters DEF BrowserType
<1>5. loggedOut' \subseteq goneFor'
  <2>1. ASSUME NEW h \in Handlers, CloseOthers(h) PROVE loggedOut' \subseteq goneFor
    BY <1>2, <1>3, <2>1 DEF CloseOthers, HoldingsOk, BrowserType
  <2>2. ASSUME NEW h \in Handlers, NEW work \in {"touch", "logout", "upgrade"}, StartRequest(h, work)
        PROVE  UNCHANGED loggedOut
    BY <2>2 DEF StartRequest
  <2> QED
    BY <1>1, <1>2, <2>1, <2>2, GhostsWriters DEF BrowserType
<1>6. promised' \in [Tokens -> Nat]
  <2>1. ASSUME NEW h \in Handlers, NEW t \in Tokens, NEW r \in Results, Create(h, t, r)
        PROVE  promised' \in [Tokens -> Nat]
    <3>1. handlers[h].remember \in BOOLEAN
      BY <1>3 DEF Handler
    <3>2. PICK clock \in Readings(handlers[h]) : CreateAt(h, t, r, clock)
      BY <2>1 DEF Create
    <3>3. clock \in Nat
      BY <1>2, <1>3, ReadingsTyped DEF Handler
    <3>4. [WithoutExpired(clock) EXCEPT ![t] = NewSession(handlers[h].remember, clock)][t].expires \in Nat
      BY <3>1, <3>3, NewSessionTyped DEF WithoutExpired, Session
    <3>5. \E n \in Nat : promised' = [promised EXCEPT ![t] = n]
      BY <3>2, <3>4 DEF CreateAt
    <3> QED
      BY <1>2, <3>5 DEF BrowserType
  <2> QED
    BY <1>1, <1>2, <2>1, IssuedWriters DEF BrowserType
<1>7. refused' \in BOOLEAN
  BY <1>1, <1>2, RefusedWriters DEF BrowserType, Restart
<1>8. latest' \in [Tokens -> Nat]
  BY <1>1, LatestMoves
<1> QED
  BY <1>2, <1>4, <1>5, <1>6, <1>7, <1>8 DEF BrowserType

(* Every connection belongs to a token that was issued. *)
LEMMA ConnsTyped == LoginsInv /\ [Next]_vars => ConnsType'
<1>1. SUFFICES ASSUME LoginsInv, [Next]_vars PROVE ConnsType'
  OBVIOUS
<1>2. /\ conns' \in [Conns -> Conn \cup {None}] /\ \A c \in Conns : ConnMoved(c)
      /\ issued \subseteq issued' /\ issued \subseteq Tokens
  BY <1>1, ConnsMove, IssuedGrows DEF LoginsInv, StoreType
<1>3. ASSUME NEW c \in Conns, conns[c] = None, conns'[c] # None PROVE conns'[c].token \in issued'
  <2>1. ASSUME NEW h \in Handlers, Track(h, c) PROVE conns'[c].token \in issued'
    <3>1. handlers[h].token \in issued
      BY <1>1, <2>1 DEF LoginsInv, HandlersType, Track, At, ProgressOk, HoldingsOk, TokenSteps
    <3>2. conns'[c].token = handlers[h].token
      BY <1>1, <2>1 DEF Track, LoginsInv, ConnsType
    <3> QED
      BY <1>2, <3>1, <3>2
  <2>2. ASSUME NEW h \in Handlers, NEW d \in Conns, Track(h, d) PROVE d = c
    BY <1>1, <1>3, <2>2 DEF Track, LoginsInv, ConnsType
  <2>3. \A t : Of(t) \subseteq Used
    BY <1>1 DEF Of, LoginsInv, TrackerType
  <2>4. ASSUME NEW set, NEW d, set \subseteq Used, conns' = Armed(conns, set, d) PROVE FALSE
    BY <1>3, <2>4 DEF Armed, Used
  <2>5. ASSUME NEW set, set \subseteq Used, CloseSockets(set) PROVE FALSE
    BY <1>3, <2>5 DEF CloseSockets, Used
  <2>6. ~UNCHANGED conns
    BY <1>3
  <2>7. ASSUME NEW h \in Handlers, RefreshConnections(h) \/ Renew(h) PROVE FALSE
    BY <2>3, <2>4, <2>7 DEF RefreshConnections, Renew, RefreshKey
  <2>8. ASSUME NEW h \in Handlers, CloseToken(h) PROVE FALSE
    BY <2>3, <2>4, <2>8 DEF CloseToken, Untrack
  <2>9. ASSUME NEW h \in Handlers, CloseOthers(h) PROVE FALSE
    BY <1>1, <2>5, <2>9 DEF CloseOthers, LoginsInv, HandlersType, HoldingsOk
  <2>10. ASSUME NEW d \in Conns, Leave(d) \/ Drop(d) \/ Fire(d) PROVE FALSE
    BY <1>1, <1>3, <2>10 DEF Leave, Drop, Fire, LoginsInv, ConnsType
  <2>11. ASSUME NEW b \in callbacks, ResetTimers(b) PROVE FALSE
    BY <2>3, <2>4, <2>11 DEF ResetTimers
  <2>12. ASSUME NEW b \in callbacks, ExpireConnections(b) PROVE FALSE
    BY <2>3, <2>4, <2>12 DEF ExpireConnections, Untrack
  <2>13. ASSUME NEW b \in callbacks, CloseExpired(b) PROVE FALSE
    BY <1>1, <2>5, <2>13 DEF CloseExpired, LoginsInv, CallbacksType
  <2>14. ~CloseAll
    BY <1>1, <2>4 DEF CloseAll, LoginsInv, TrackerType
  <2>15. ~CloseRest
    BY <1>1, <2>5 DEF CloseRest, LoginsInv, ShutdownType
  <2>16. ~Restart
    BY <1>3 DEF Restart
  <2> QED
    BY <1>1, <2>1, <2>2, <2>6, <2>7, <2>8, <2>9, <2>10, <2>11, <2>12, <2>13, <2>14, <2>15, <2>16, ConnsWriters
<1>4. ASSUME NEW c \in Used' PROVE conns'[c].token \in issued'
  <2>1. c \in Conns /\ conns'[c] # None
    BY <1>4 DEF Used
  <2>2. CASE conns[c] = None
    BY <1>3, <2>1, <2>2
  <2>3. CASE conns[c] # None
    BY <1>1, <1>2, <2>1, <2>3 DEF ConnMoved, LoginsInv, ConnsType, Used
  <2> QED
    BY <2>2, <2>3
<1> QED
  BY <1>2, <1>4 DEF ConnsType

(* A request acts, and no other. *)
HandlerActs(h) ==
    \/ StartLogin(h) \/ Throttled(h) \/ Authenticate(h) \/ Answer(h) \/ StartMalformed(h) \/ GetSession(h)
    \/ RefreshConnections(h) \/ CloseToken(h) \/ CloseOthers(h) \/ Hijack(h) \/ Validate(h) \/ Renew(h)
    \/ \E t \in Tokens, r \in Results : Create(h, t, r)
    \/ \E work \in {"touch", "logout", "upgrade"} : StartRequest(h, work)
    \/ \E r \in Results : Revoke(h, r)
    \/ \E c \in Conns : Track(h, c)

Keeps(h) == /\ handlers'[h].token = handlers[h].token /\ handlers'[h].deadline = handlers[h].deadline
            /\ handlers'[h].work = handlers[h].work

WaitSteps == {"allow user", "slot", "pam", "fail address", "count address", "fail user", "count user"}

(* What becomes of a request in a step. *)
Rested(h)   == /\ handlers'[h] = Resting /\ handlers[h].at # "close token"
               /\ handlers[h].at = "closing" => CloseOthers(h)
               /\ handlers[h].at = "validate" => Known(handlers[h].token)
Started(h)  == /\ At(h, "idle") /\ handlers'[h].at \in {"allow address", "deny address"}
               /\ handlers'[h].token = None /\ handlers'[h].deadline = 0 /\ handlers'[h].closing = {}
Asked(h)    == /\ At(h, "idle") /\ handlers'[h].at = "get"
               /\ handlers'[h].token \in cookies /\ handlers'[h].deadline = 0 /\ handlers'[h].closing = {}
               /\ handlers'[h].since = now
Created(h)  == /\ At(h, "create") /\ handlers'[h].at = "clear address"
               /\ handlers'[h].token \in issued' \ issued /\ handlers'[h].deadline = handlers[h].deadline
               /\ handlers'[h].work = handlers[h].work /\ handlers'[h].closing = handlers[h].closing
Found(h)    == /\ At(h, "get") /\ sessions'[handlers[h].token] # None /\ handlers'[h].at = "refresh" /\ GetSession(h)
               /\ handlers'[h].token = handlers[h].token /\ handlers'[h].closing = handlers[h].closing
               /\ handlers'[h].deadline = Deadline(sessions'[handlers[h].token])
Missed(h)   == /\ At(h, "get") /\ handlers'[h].at = "close token"
               /\ handlers'[h].token = handlers[h].token /\ handlers'[h].closing = handlers[h].closing
               /\ handlers'[h].deadline = 0 /\ handlers'[h].work = "touch"
Passed(h)   == /\ Keeps(h) /\ handlers[h].at \notin {"closing", "close token", "validate", "idle"}
               /\ handlers'[h].closing = handlers[h].closing
               /\ handlers'[h].at \notin {"closing", "close token", "validate", "idle", "get"}
               /\ handlers'[h].at = "hijack" => handlers[h].work = "upgrade"
               /\ handlers'[h].at = "track" => At(h, "hijack")
               /\ handlers'[h].at \in UserSteps \ TokenSteps => handlers[h].at \in UserSteps \ TokenSteps
               /\ handlers'[h].at \in WaitSteps => \/ Throttled(h)
                                                   \/ /\ At(h, "pam") /\ handlers'[h].at = "fail address"
                                                      /\ handlers'[h].user = handlers[h].user
Revokes(h)  == /\ Keeps(h) /\ At(h, "revoke") /\ handlers'[h].at = "close token" /\ Revoke(h, "saved")
               /\ handlers'[h].closing = handlers[h].closing
TooLate(h)  == /\ Keeps(h) /\ At(h, "validate") /\ handlers'[h].at = "close token"
               /\ handlers'[h].closing = handlers[h].closing
Tracks(h)   == /\ Keeps(h) /\ At(h, "track") /\ handlers'[h].at = "validate" /\ ~closed
               /\ handlers'[h].closing = handlers[h].closing
TakesOut(h) == /\ Keeps(h) /\ At(h, "close token") /\ handlers'[h].at = "closing" /\ CloseToken(h)
               /\ handlers'[h].closing = Of(handlers[h].token)
Refuses(h)  == Keeps(h) /\ At(h, "track") /\ handlers'[h].at = "closing" /\ closed
Extends(h)  == /\ At(h, "validate") /\ Known(handlers[h].token) /\ handlers'[h].at = "renew" /\ Validate(h)
               /\ handlers'[h].token = handlers[h].token /\ handlers'[h].work = handlers[h].work
               /\ handlers'[h].closing = handlers[h].closing
               /\ handlers'[h].deadline = Deadline(sessions[handlers[h].token]) /\ UNCHANGED sessions
Moved(h) == \/ handlers'[h] = handlers[h] \/ Rested(h) \/ Started(h) \/ Asked(h) \/ Created(h) \/ Found(h) \/ Missed(h)
            \/ Passed(h) \/ Revokes(h) \/ TooLate(h) \/ Tracks(h) \/ TakesOut(h) \/ Refuses(h) \/ Extends(h)

(* The moves of the request that acts. *)
LEMMA ActorMoves ==
    ASSUME LoginsInv, NEW h \in Handlers, HandlerActs(h)
    PROVE  Moved(h) /\ Others(h)
<1> DEFINE Goal == Moved(h) /\ Others(h)
<1>1. /\ HandlersType /\ handlers \in [Handlers -> Handler] /\ handlers[h] \in Handler /\ ProgressOk(handlers[h])
      /\ HoldingsOk(handlers[h]) /\ now \in Nat /\ sessions \in [Tokens -> Session \cup {None}]
      /\ handlers[h].token # None => handlers[h].token \in Tokens
  BY DEF LoginsInv, HandlersType, StoreType, HoldingsOk
<1>2. ASSUME NEW x \in Steps, Go(h, x), handlers[h].at \notin {"closing", "close token", "validate", "idle"},
             x \notin {"closing", "close token", "validate", "idle", "get"},
             x = "hijack" => handlers[h].work = "upgrade", x = "track" => At(h, "hijack"),
             x \in UserSteps \ TokenSteps => handlers[h].at \in UserSteps \ TokenSteps,
             x \in WaitSteps => Throttled(h) \/ (At(h, "pam") /\ x = "fail address")
      PROVE  Goal
  BY <1>1, <1>2, Gone DEF Moved, Passed, Keeps
<1>3. ASSUME End(h), handlers[h].at # "close token", handlers[h].at = "closing" => CloseOthers(h),
             handlers[h].at = "validate" => Known(handlers[h].token)
      PROVE  Goal
  BY <1>1, <1>3, Ended DEF Moved, Rested
<1>4. ASSUME NEW f \in Handler, handlers' = [handlers EXCEPT ![h] = f]
      PROVE  handlers'[h] = f /\ Others(h)
  BY <1>1, <1>4 DEF Others
<1>5. CASE StartLogin(h)
  <2>1. PICK u \in Users, x \in BOOLEAN :
           handlers' = [handlers EXCEPT ![h] = [Resting EXCEPT !.at = "allow address", !.since = now,
                                                               !.work = "login", !.user = u, !.remember = x]]
    BY <1>5 DEF StartLogin
  <2>2. At(h, "idle") /\ Others(h) /\ handlers'[h] = [Resting EXCEPT !.at = "allow address", !.since = now,
                                                               !.work = "login", !.user = u, !.remember = x]
    BY <1>1, <1>5, <2>1 DEF StartLogin, Others
  <2> QED
    BY <2>2 DEF Moved, Started, Resting
<1>6. CASE StartMalformed(h)
  <2>1. PICK u \in Users : handlers' = [handlers EXCEPT ![h] = [Resting EXCEPT !.at = "deny address",
                                                               !.since = now, !.work = "malformed", !.user = u]]
    BY <1>6 DEF StartMalformed
  <2>2. At(h, "idle") /\ Others(h) /\ handlers'[h] = [Resting EXCEPT !.at = "deny address",
                                                               !.since = now, !.work = "malformed", !.user = u]
    BY <1>1, <1>6, <2>1 DEF StartMalformed, Others
  <2> QED
    BY <2>2 DEF Moved, Started, Resting
<1>7. CASE Throttled(h)
  <2>1. CASE End(h)
    <3>1. handlers[h].at \notin {"closing", "close token", "validate"}
      BY <1>7 DEF Throttled, AllowAddress, AllowUser, TakeSlot, FailAddress, FailUser, ClearAddress, DenyAddress,
                  CountAddress, DenyUser, CountUser, At
    <3> QED
      BY <1>3, <2>1, <3>1
  <2>2. ASSUME NEW x \in Steps, NEW y \in Steps, Path(x, y), At(h, x), Go(h, y) PROVE Goal
    <3>1. /\ x \notin {"closing", "close token", "validate", "idle"}
          /\ y \notin {"closing", "close token", "validate", "idle", "get", "hijack", "track"}
          /\ y \in UserSteps \ TokenSteps => x \in UserSteps \ TokenSteps
      BY <2>2 DEF Path, UserSteps, TokenSteps
    <3> QED
      BY <1>2, <1>7, <2>2, <3>1 DEF At
  <2> QED
    BY <1>7, <2>1, <2>2, ThrottledMoves
<1>8. CASE Authenticate(h)
  <2>1. At(h, "pam") /\ (Go(h, "fail address") \/ Go(h, "create"))
    BY <1>8 DEF Authenticate
  <2> QED
    BY <1>2, <2>1 DEF At, Steps, UserSteps, TokenSteps, WaitSteps
<1>9. CASE Answer(h)
  BY <1>3, <1>9 DEF Answer, At
<1>10. ASSUME NEW t \in Tokens, NEW r \in Results, Create(h, t, r) PROVE Goal
  <2>1. At(h, "create")
    BY <1>10 DEF Create
  <2>2. CASE End(h)
    BY <1>3, <2>1, <2>2 DEF At
  <2> DEFINE made == [Arrived(h, "clear address") EXCEPT !.token = t]
  <2>3. CASE handlers' = [handlers EXCEPT ![h] = made] /\ issued' = issued \cup {t}
    <3>1. t \in issued' \ issued
      BY <1>10, <2>3, NextTokenNew DEF Create, LoginsInv, StoreType
    <3>2. handlers'[h] = made /\ Others(h) /\ "clear address" \in Steps
      BY <1>1, <2>3 DEF Others, Steps
    <3>3. /\ handlers'[h].at = "clear address" /\ handlers'[h].token = t /\ handlers'[h].deadline = handlers[h].deadline
          /\ handlers'[h].work = handlers[h].work /\ handlers'[h].closing = handlers[h].closing
      <4> DEFINE a == Arrived(h, "clear address")
      <4>1. /\ a \in Handler /\ a.at = "clear address" /\ a.deadline = handlers[h].deadline
            /\ a.work = handlers[h].work /\ a.closing = handlers[h].closing /\ handlers'[h] = [a EXCEPT !.token = t]
        BY <1>1, <3>2, ArrivedTyped
      <4> HIDE DEF a
      <4> QED
        BY <4>1 DEF Handler
    <3>4. Created(h)
      BY <2>1, <3>1, <3>3 DEF Created
    <3> QED
      BY <3>2, <3>4 DEF Moved
  <2>4. End(h) \/ (handlers' = [handlers EXCEPT ![h] = made] /\ issued' = issued \cup {t})
    BY <1>10 DEF Create, CreateAt
  <2> QED
    BY <2>2, <2>3, <2>4
<1>11. ASSUME NEW work \in {"touch", "logout", "upgrade"}, StartRequest(h, work) PROVE Goal
  <2>1. PICK t \in cookies :
           handlers' = [handlers EXCEPT ![h] = [Resting EXCEPT !.at = "get", !.since = now, !.work = work,
                                                               !.token = t]]
    BY <1>11 DEF StartRequest
  <2>2. At(h, "idle") /\ Others(h) /\ handlers'[h] = [Resting EXCEPT !.at = "get", !.since = now, !.work = work,
                                                                     !.token = t]
    BY <1>1, <1>11, <2>1 DEF StartRequest, Others
  <2> QED
    BY <2>2 DEF Moved, Asked, Resting
<1>12. CASE GetSession(h)
  <2> DEFINE t == handlers[h].token
  <2>1. PICK clock \in Readings(handlers[h]) :
           /\ sessions' = [sessions EXCEPT ![t] = IF Live(t, clock) THEN Refreshed(sessions[t], clock) ELSE None]
           /\ handlers' = [handlers EXCEPT ![h] =
                IF Live(t, clock) THEN [Arrived(h, "refresh") EXCEPT !.deadline = Deadline(Refreshed(sessions[t], clock))]
                                  ELSE [Arrived(h, "close token") EXCEPT !.deadline = 0, !.work = "touch"]]
    BY <1>12 DEF GetSession, Get
  <2>2. At(h, "get") /\ t \in Tokens /\ clock \in Nat /\ "refresh" \in Steps /\ "close token" \in Steps
    BY <1>1, <1>12, ReadingsTyped DEF GetSession, At, ProgressOk, TokenSteps, Handler, Steps
  <2>3. CASE Live(t, clock)
    <3> DEFINE a == Arrived(h, "refresh")
               s == Refreshed(sessions[t], clock)
    <3>1. s \in Session
      BY <1>1, <2>2, <2>3, RefreshedTyped DEF Live, Known
    <3>2. sessions'[t] = s /\ s # None
      BY <1>1, <2>1, <2>2, <2>3, <3>1, NoneAssumption
    <3>3. /\ a \in Handler /\ a.at = "refresh" /\ a.token = t /\ a.closing = handlers[h].closing
          /\ handlers'[h] = [a EXCEPT !.deadline = Deadline(s)] /\ Others(h)
      BY <1>1, <2>1, <2>2, <2>3, ArrivedTyped DEF Others
    <3> HIDE DEF a, s, t
    <3>4. /\ handlers'[h].at = "refresh" /\ handlers'[h].token = t /\ handlers'[h].closing = handlers[h].closing
          /\ handlers'[h].deadline = Deadline(s)
      BY <3>3 DEF Handler
    <3> QED
      BY <1>12, <2>2, <3>2, <3>3, <3>4 DEF Moved, Found, t
  <2>4. CASE ~Live(t, clock)
    <3> DEFINE a == Arrived(h, "close token")
    <3>1. /\ a \in Handler /\ a.at = "close token" /\ a.token = t /\ a.closing = handlers[h].closing
          /\ handlers'[h] = [a EXCEPT !.deadline = 0, !.work = "touch"] /\ Others(h)
      BY <1>1, <2>1, <2>2, <2>4, ArrivedTyped DEF Others
    <3> HIDE DEF a, t
    <3>2. /\ handlers'[h].at = "close token" /\ handlers'[h].token = t /\ handlers'[h].closing = handlers[h].closing
          /\ handlers'[h].deadline = 0 /\ handlers'[h].work = "touch"
      BY <3>1 DEF Handler
    <3> QED
      BY <2>2, <3>1, <3>2 DEF Moved, Missed, t
  <2> QED
    BY <2>3, <2>4
<1>13. CASE RefreshConnections(h)
  <2>1. At(h, "refresh") /\ handlers[h].work \in {"touch", "logout", "upgrade"}
    BY <1>1, <1>13 DEF RefreshConnections, ProgressOk, At
  <2>2. End(h) \/ (handlers[h].work = "logout" /\ Go(h, "revoke")) \/ (handlers[h].work = "upgrade" /\ Go(h, "hijack"))
    BY <1>13, <2>1 DEF RefreshConnections
  <2> QED
    BY <1>2, <1>3, <2>1, <2>2 DEF At, Steps, UserSteps, TokenSteps, WaitSteps
<1>14. ASSUME NEW r \in Results, Revoke(h, r) PROVE Goal
  <2>1. At(h, "revoke") /\ (End(h) \/ (r = "saved" /\ Go(h, "close token")))
    BY <1>14 DEF Revoke
  <2>2. CASE End(h)
    BY <1>3, <2>1, <2>2 DEF At
  <2>3. CASE r = "saved" /\ Go(h, "close token")
    <3>1. Revoke(h, "saved")
      BY <1>14, <2>3
    <3>2. "close token" \in Steps
      BY DEF Steps
    <3> QED
      BY <1>1, <2>1, <2>3, <3>1, <3>2, Gone DEF Moved, Revokes, Keeps
  <2> QED
    BY <2>1, <2>2, <2>3
<1>15. ASSUME NEW set, handlers' = [handlers EXCEPT ![h] = [Arrived(h, "closing") EXCEPT !.closing = set]]
       PROVE  Keeps(h) /\ Others(h) /\ handlers'[h].at = "closing" /\ handlers'[h].closing = set
  <2> DEFINE a == Arrived(h, "closing")
  <2>1. handlers'[h] = [a EXCEPT !.closing = set] /\ Others(h) /\ "closing" \in Steps
    BY <1>1, <1>15 DEF Others, Steps
  <2>2. /\ a \in Handler /\ a.at = "closing" /\ a.token = handlers[h].token /\ a.deadline = handlers[h].deadline
        /\ a.work = handlers[h].work
    BY <1>1, <2>1, ArrivedTyped
  <2> HIDE DEF a
  <2> QED
    BY <2>1, <2>2 DEF Handler, Keeps
<1>16. CASE CloseToken(h)
  BY <1>15, <1>16 DEF CloseToken, Moved, TakesOut
<1>17. CASE CloseOthers(h)
  BY <1>3, <1>17 DEF CloseOthers, At
<1>18. CASE Hijack(h)
  <2>1. At(h, "hijack") /\ (End(h) \/ Go(h, "track"))
    BY <1>18 DEF Hijack
  <2> QED
    BY <1>2, <1>3, <2>1 DEF At, Steps, UserSteps, TokenSteps, WaitSteps
<1>19. ASSUME NEW c \in Conns, Track(h, c) PROVE Goal
  <2>1. At(h, "track") /\ "validate" \in Steps
    BY <1>19 DEF Track, Steps
  <2>2. CASE closed
    BY <1>15, <1>19, <2>1, <2>2 DEF Track, Moved, Refuses
  <2>3. CASE ~closed
    <3>1. Go(h, "validate")
      BY <1>19, <2>3 DEF Track
    <3> QED
      BY <1>1, <2>1, <2>3, <3>1, Gone DEF Moved, Tracks, Keeps
  <2> QED
    BY <2>2, <2>3
<1>20. CASE Validate(h)
  <2> DEFINE t == handlers[h].token
  <2>1. At(h, "validate") /\ "close token" \in Steps
    BY <1>20 DEF Validate, Steps
  <2>2. PICK clock \in Readings(handlers[h]) :
           /\ sessions' = [sessions EXCEPT ![t] = IF Live(t, clock) THEN @ ELSE None]
           /\ \/ Go(h, "close token")
              \/ Known(t) /\ End(h)
              \/ /\ Live(t, clock)
                 /\ handlers' = [handlers EXCEPT ![h] = [Arrived(h, "renew") EXCEPT !.deadline = Deadline(sessions[t])]]
    BY <1>20 DEF Validate, Look, Live
  <2>3. CASE Go(h, "close token")
    BY <1>1, <2>1, <2>3, Gone DEF Moved, TooLate, Keeps
  <2>4. CASE Known(t) /\ End(h)
    BY <1>3, <2>1, <2>4 DEF At
  <2>5. CASE Live(t, clock) /\ handlers' = [handlers EXCEPT ![h] = [Arrived(h, "renew") EXCEPT !.deadline = Deadline(sessions[t])]]
    <3> DEFINE a == Arrived(h, "renew")
               d == Deadline(sessions[t])
    <3>1. UNCHANGED sessions /\ Known(t)
      BY <1>1, <2>2, <2>5 DEF Live
    <3>2. /\ a \in Handler /\ a.at = "renew" /\ a.token = t /\ a.closing = handlers[h].closing
          /\ a.work = handlers[h].work /\ handlers'[h] = [a EXCEPT !.deadline = d] /\ Others(h)
      <4>1. "renew" \in Steps
        BY DEF Steps
      <4>2. a \in Handler /\ a.at = "renew" /\ a.token = t /\ a.closing = handlers[h].closing /\ a.work = handlers[h].work
        BY <1>1, <4>1, ArrivedTyped
      <4>3. handlers' = [handlers EXCEPT ![h] = [a EXCEPT !.deadline = d]]
        BY <2>5
      <4> HIDE DEF a, d
      <4>4. handlers'[h] = [a EXCEPT !.deadline = d] /\ Others(h)
        BY <1>1, <4>3 DEF Others
      <4> QED
        BY <4>2, <4>4
    <3> HIDE DEF a, d, t
    <3>3. /\ handlers'[h].at = "renew" /\ handlers'[h].work = handlers[h].work
          /\ handlers'[h].token = t /\ handlers'[h].closing = handlers[h].closing /\ handlers'[h].deadline = d
      BY <3>2 DEF Handler
    <3> QED
      BY <1>20, <2>1, <3>1, <3>2, <3>3 DEF Moved, Extends, t, d
  <2> QED
    BY <2>2, <2>3, <2>4, <2>5
<1>21. CASE Renew(h)
  BY <1>3, <1>21 DEF Renew, At
<1> QED
  BY <1>5, <1>6, <1>7, <1>8, <1>9, <1>10, <1>11, <1>12, <1>13, <1>14, <1>16, <1>17, <1>18, <1>19, <1>20, <1>21
     DEF HandlerActs

(* A request only moves by itself, unless the service ends. *)
LEMMA HandlersMove ==
    ASSUME LoginsInv, [Next]_vars, ~Restart
    PROVE  \/ handlers' = handlers
           \/ \E h \in Handlers : HandlerActs(h) /\ Moved(h) /\ Others(h)
<1>1. handlers' # handlers => \E h \in Handlers : HandlerActs(h)
  BY HandlersWriters DEF HandlerActs
<1> QED
  BY <1>1, ActorMoves

(* Seen from one request, a step is one of its own moves, or leaves it alone. *)
LEMMA EachMoves ==
    ASSUME LoginsInv, [Next]_vars, ~Restart, NEW h \in Handlers
    PROVE  Moved(h)
BY HandlersMove DEF Moved, Others

(* The fields of a request at rest. *)
LEMMA RestingIs ==
    /\ Resting.at = "idle" /\ Resting.work = "none" /\ Resting.user = None /\ Resting.token = None
    /\ Resting.deadline = 0 /\ Resting.closing = {}
BY DEF Resting

(* The invariants of requests, tracker, callbacks and shutdown.             *)
(* A connection is made for an upgrade alone, and a request without a token has no deadline. *)
LEMMA RequestsKept == LoginsInv /\ [Next]_vars => RequestsInv'
<1>1. SUFFICES ASSUME LoginsInv, [Next]_vars, NEW h \in Handlers
               PROVE  /\ handlers'[h].at \in {"hijack", "track", "validate"} => handlers'[h].work = "upgrade"
                      /\ handlers'[h].token = None => handlers'[h].deadline = 0
                      /\ handlers'[h].at \in UserSteps \ TokenSteps => handlers'[h].token = None
  BY DEF RequestsInv
<1>2. /\ handlers[h].at \in {"hijack", "track", "validate"} => handlers[h].work = "upgrade"
      /\ handlers[h].token = None => handlers[h].deadline = 0
      /\ handlers[h].at \in UserSteps \ TokenSteps => handlers[h].token = None
      /\ ProgressOk(handlers[h]) /\ cookies \subseteq issued /\ issued \subseteq Tokens /\ issued' \subseteq Tokens
  BY <1>1, IssuedGrows DEF LoginsInv, RequestsInv, HandlersType, BrowserType, StoreType
<1>3. CASE Restart
  BY <1>3, RestingIs DEF Restart, UserSteps
<1>4. CASE ~Restart
  <2>1. Moved(h)
    BY <1>1, <1>4, EachMoves
  <2>2. CASE handlers'[h] = handlers[h] \/ Started(h)
    BY <1>2, <2>2 DEF Started, UserSteps
  <2>7. CASE Rested(h)
    BY <2>7, RestingIs DEF Rested, UserSteps
  <2>3. CASE Asked(h) \/ Created(h)
    BY <1>2, <2>3, NoneAssumption DEF Asked, Created, UserSteps, TokenSteps
  <2>4. CASE Found(h) \/ Missed(h) \/ Extends(h)
    BY <1>2, <2>4 DEF Found, Missed, Extends, At, ProgressOk, UserSteps, TokenSteps
  <2>5. CASE Passed(h) \/ Tracks(h)
    BY <1>2, <2>5 DEF Passed, Tracks, Keeps, At, UserSteps, TokenSteps
  <2>6. CASE Revokes(h) \/ TooLate(h) \/ TakesOut(h) \/ Refuses(h)
    BY <1>2, <2>6 DEF Revokes, TooLate, TakesOut, Refuses, Keeps, UserSteps
  <2> QED
    BY <2>1, <2>2, <2>3, <2>4, <2>5, <2>6, <2>7 DEF Moved
<1> QED
  BY <1>3, <1>4

(* A closed tracker is empty, and what is tracked was made. *)
LEMMA TrackerTyped == LoginsInv /\ [Next]_vars => TrackerType'
<1>1. SUFFICES ASSUME LoginsInv, [Next]_vars PROVE TrackerType'
  OBVIOUS
<1>2. /\ tracked \subseteq Used /\ closed \in BOOLEAN /\ (closed => tracked = {}) /\ Used \subseteq Used'
      /\ DOMAIN conns = Conns /\ \A h \in Handlers : handlers[h].at = "track" => handlers[h].token \in Tokens
      /\ HandlersType
  BY <1>1, UsedGrows DEF LoginsInv, TrackerType, ConnsType, HandlersType, HoldingsOk, ProgressOk, TokenSteps, StoreType
<1>3. ASSUME NEW h \in Handlers, NEW c \in Conns, Track(h, c) PROVE TrackerType'
  <2>1. CASE closed
    BY <1>2, <1>3, <2>1 DEF Track, TrackerType
  <2>2. CASE ~closed
    <3> DEFINE new == [token |-> handlers[h].token, socket |-> "open", timer |-> handlers[h].deadline]
    <3>1. conns'[c] = new /\ tracked' = tracked \cup {c} /\ closed' = closed
      BY <1>2, <1>3, <2>2 DEF Track
    <3>2. new \in Conn
      BY <1>2, <1>3 DEF Conn, Track, At, HandlersType, Handler
    <3> QED
      BY <1>2, <2>2, <3>1, <3>2, NoneAssumption DEF TrackerType, Used
  <2> QED
    BY <2>1, <2>2
<1>4. ASSUME NEW h \in Handlers, CloseToken(h) PROVE TrackerType'
  BY <1>2, <1>4 DEF CloseToken, Untrack, TrackerType
<1>5. ASSUME NEW c \in Conns, Drop(c) PROVE TrackerType'
  BY <1>2, <1>5 DEF Drop, TrackerType
<1>6. ASSUME NEW b \in callbacks, ExpireConnections(b) PROVE TrackerType'
  BY <1>2, <1>6 DEF ExpireConnections, Untrack, TrackerType
<1>7. CASE CloseAll \/ Restart
  BY <1>7 DEF CloseAll, Restart, TrackerType
<1>8. CASE UNCHANGED <<tracked, closed>>
  BY <1>2, <1>8 DEF TrackerType
<1> QED
  BY <1>1, <1>3, <1>4, <1>5, <1>6, <1>7, <1>8, TrackedWriters, ClosedWriters

(* What a step does to the tracker, seen from its connections: a new one comes  *)
(* in, and one that goes is taken out by the logout, the expiry or the shutdown  *)
(* that closes it, or closed itself. *)
LEMMA TrackedMoves ==
    ASSUME LoginsInv, [Next]_vars, NEW c \in Conns
    PROVE  /\ c \in tracked' \ tracked => conns[c] = None /\ \E h \in Handlers : Track(h, c) /\ ~closed
           /\ c \in tracked \ tracked' => \/ \E h \in Handlers : CloseToken(h) /\ c \in Of(handlers[h].token)
                                          \/ Drop(c)
                                          \/ \E b \in callbacks : /\ ExpireConnections(b) /\ Present(b)
                                                                  /\ c \in Of(conns[b.conn].token)
                                          \/ CloseAll \/ Restart
<1>1. ASSUME NEW h \in Handlers, NEW d \in Conns, Track(h, d)
      PROVE  /\ c \in tracked' \ tracked => conns[c] = None /\ \E g \in Handlers : Track(g, c) /\ ~closed
             /\ c \notin tracked \ tracked'
  BY <1>1 DEF Track, NextConn, Unused
<1>2. ASSUME NEW h \in Handlers, CloseToken(h)
      PROVE  c \notin tracked' \ tracked /\ (c \in tracked \ tracked' => c \in Of(handlers[h].token))
  BY <1>2 DEF CloseToken, Untrack
<1>3. ASSUME NEW d \in Conns, Drop(d)
      PROVE  c \notin tracked' \ tracked /\ (c \in tracked \ tracked' => Drop(c))
  BY <1>3 DEF Drop
<1>4. ASSUME NEW b \in callbacks, ExpireConnections(b)
      PROVE  c \notin tracked' \ tracked /\ (c \in tracked \ tracked' => Present(b) /\ c \in Of(conns[b.conn].token))
  BY <1>4 DEF ExpireConnections, Untrack
<1>5. CASE CloseAll \/ Restart
  BY <1>5 DEF CloseAll, Restart
<1> QED
  BY <1>1, <1>2, <1>3, <1>4, <1>5, TrackedWriters

(* What a step does to one callback: only its currency, or the step it takes itself. *)
VoidOf(b, c) == c.conn = b.conn /\ c.at = b.at /\ c.deadline = b.deadline /\ c.closing = b.closing

(* A reset of timers leaves every callback but for its currency. *)
LEMMA VoidKeeps ==
    ASSUME NEW set, \A b \in callbacks : b \in Callback
    PROVE  \A c \in Void(set) : /\ c \in Callback
                                /\ \E b \in callbacks : VoidOf(b, c) /\ c.current = (b.current /\ b.conn \notin set)
<1>1. SUFFICES ASSUME NEW b \in callbacks
               PROVE  LET c == [b EXCEPT !.current = @ /\ b.conn \notin set]
                      IN  c \in Callback /\ VoidOf(b, c) /\ c.current = (b.current /\ b.conn \notin set)
  BY DEF Void
<1> QED
  BY DEF Callback, VoidOf

(* The types of the callbacks. *)
CallbackOk(b) == /\ b \in Callback /\ b.conn \in Used /\ b.closing \subseteq Used
                 /\ (b.at # "closing" => b.closing = {}) /\ (b.at = "closing" => b.conn \notin tracked)

(* The types of the callbacks. *)
LEMMA CallbacksTyped == LoginsInv /\ [Next]_vars => CallbacksType'
<1>1. SUFFICES ASSUME LoginsInv, [Next]_vars PROVE CallbacksType'
  OBVIOUS
<1>2. /\ CallbacksType /\ Used \subseteq Used' /\ tracked \subseteq Used /\ Used \subseteq Conns
      /\ \A b \in callbacks : b \in Callback
      /\ conns \in [Conns -> Conn \cup {None}]
  BY <1>1, UsedGrows DEF LoginsInv, CallbacksType, TrackerType, Used, ConnsType
<1>3. ASSUME NEW b, CallbackOk(b) PROVE CallbackOk(b)'
  <2>1. b.at = "closing" => b.conn \notin tracked'
    BY <1>1, <1>2, <1>3, TrackedMoves DEF CallbackOk, Used
  <2> QED
    BY <1>2, <1>3, <2>1 DEF CallbackOk
<1>4. \A b \in callbacks : CallbackOk(b)
  BY <1>2 DEF CallbacksType, CallbackOk
<1>5. ASSUME NEW set, NEW c \in Void(set) PROVE CallbackOk(c)
  BY <1>2, <1>4, <1>5, VoidKeeps DEF CallbackOk, VoidOf
<1> SUFFICES \A b \in callbacks' : CallbackOk(b)'
  BY DEF CallbacksType, CallbackOk
<1>6. ASSUME NEW h \in Handlers, RefreshConnections(h) \/ Renew(h) PROVE \A b \in callbacks' : CallbackOk(b)'
  <2>1. callbacks' = Void(Of(handlers[h].token))
    BY <1>6 DEF RefreshConnections, Renew, RefreshKey
  <2> QED
    BY <1>3, <1>5, <2>1
<1>7. ASSUME NEW c \in Conns, Fire(c) PROVE \A b \in callbacks' : CallbackOk(b)'
  <2> DEFINE new == [conn |-> c, at |-> "check", since |-> now, current |-> TRUE, deadline |-> 0, closing |-> {}]
  <2>1. callbacks' = callbacks \cup {new} /\ conns[c] # None /\ now \in Nat
    BY <1>1, <1>7 DEF Fire, LoginsInv, StoreType
  <2>2. CallbackOk(new)
    BY <2>1 DEF CallbackOk, Callback, Used
  <2> HIDE DEF new
  <2> QED
    BY <1>3, <1>4, <2>1, <2>2
<1>8. ASSUME NEW b \in callbacks, CheckSession(b) PROVE \A x \in callbacks' : CallbackOk(x)'
  <2> DEFINE t == conns[b.conn].token
             new(clock) == IF Live(t, clock) THEN [b EXCEPT !.at = "reset", !.deadline = Deadline(sessions[t])]
                                             ELSE [b EXCEPT !.at = "expire"]
  <2>1. PICK clock \in Readings(b) : callbacks' = (callbacks \ {b}) \cup {new(clock)} /\ b.at = "check"
    BY <1>8 DEF CheckSession, Replace
  <2>2. conns[b.conn] \in Conn /\ t \in Tokens
    BY <1>2, <1>4 DEF CallbackOk, Used, Conn
  <2>3. Live(t, clock) => Deadline(sessions[t]) \in Nat
    BY <1>1, <2>2, DeadlineTyped DEF LoginsInv, StoreType, Live, Known
  <2>4. CallbackOk(new(clock))
    <3> HIDE DEF t
    <3> QED
      BY <1>4, <2>1, <2>3 DEF CallbackOk, Callback
  <2> HIDE DEF new
  <2> QED
    BY <1>3, <1>4, <2>1, <2>4
<1>9. ASSUME NEW b \in callbacks, ResetTimers(b) PROVE \A x \in callbacks' : CallbackOk(x)'
  <2>1. \E set : callbacks' \subseteq Void(set)
    BY <1>9 DEF ResetTimers
  <2> QED
    BY <1>3, <1>5, <2>1
<1>10. ASSUME NEW b \in callbacks, ExpireConnections(b) PROVE \A x \in callbacks' : CallbackOk(x)'
  <2>1. PICK set, new : /\ set = IF Present(b) THEN Of(conns[b.conn].token) ELSE {}
                        /\ new = [b EXCEPT !.at = "closing", !.closing = set]
                        /\ callbacks' = IF set = {} THEN callbacks \ {b} ELSE (callbacks \ {b}) \cup {new}
                        /\ tracked' = tracked \ set
    BY <1>10 DEF ExpireConnections, Untrack, Replace
  <2>2. set # {} => CallbackOk(new)'
    <3>1. SUFFICES ASSUME set # {} PROVE CallbackOk(new)'
      OBVIOUS
    <3>2. b.conn \in set /\ set \subseteq tracked
      BY <2>1, <3>1 DEF Present, Of
    <3>3. new \in Callback /\ new.conn = b.conn /\ new.closing = set /\ new.at = "closing"
      BY <1>2, <1>4, <2>1, <3>2 DEF CallbackOk, Callback, Used
    <3>4. b.conn \notin tracked' /\ b.conn \in Used' /\ set \subseteq Used'
      BY <1>2, <1>4, <2>1, <3>2 DEF CallbackOk
    <3> QED
      BY <3>3, <3>4 DEF CallbackOk
  <2> QED
    BY <1>3, <1>4, <2>1, <2>2
<1>11. ASSUME NEW b \in callbacks, CloseExpired(b) PROVE \A x \in callbacks' : CallbackOk(x)'
  BY <1>3, <1>4, <1>11 DEF CloseExpired
<1>12. CASE Restart
  BY <1>12 DEF Restart
<1>13. CASE UNCHANGED callbacks
  BY <1>3, <1>4, <1>13
<1> QED
  BY <1>1, <1>6, <1>7, <1>8, <1>9, <1>10, <1>11, <1>12, <1>13, CallbacksWriters

(* The types of the shutdown. *)
LEMMA ShutdownTyped == LoginsInv /\ [Next]_vars => ShutdownType'
<1>1. SUFFICES ASSUME LoginsInv, [Next]_vars PROVE ShutdownType'
  OBVIOUS
<1>2. ShutdownType /\ Used \subseteq Used' /\ tracked \subseteq Used
  BY <1>1, UsedGrows DEF LoginsInv, TrackerType
<1>3. CASE BeginShutdown
  BY <1>2, <1>3 DEF BeginShutdown, Serving, ShutdownType
<1>4. CASE CloseAll
  BY <1>2, <1>4 DEF CloseAll, ShutdownType
<1>5. CASE CloseRest
  BY <1>5 DEF CloseRest, ShutdownType
<1>6. CASE Restart
  BY <1>6 DEF Restart, ShutdownType
<1>7. CASE UNCHANGED shutdown
  BY <1>2, <1>7 DEF ShutdownType
<1> QED
  BY <1>1, <1>3, <1>4, <1>5, <1>6, <1>7, ShutdownWriters

-----------------------------------------------------------------------------
(* Sessions, their deadlines and the file.                                  *)

(* Facts of a session that the deadlines of timers rest on. *)
LEMMA SessionKept == LoginsInv /\ [Next]_vars => \A t \in Tokens : SessionOk(t)'
<1>1. SUFFICES ASSUME LoginsInv, [Next]_vars, NEW t \in Tokens, Known(t)' PROVE SessionOk(t)'
  BY DEF SessionOk
<1>2. /\ now \in Nat /\ now' \in Nat /\ now <= now' /\ issued \subseteq issued' /\ StoreType /\ SessionOk(t) /\ FileOk(t)
      /\ sessions'[t] # None /\ (now' # now => Tick)
  BY <1>1, ClockMoves, IssuedGrows DEF LoginsInv, StoreType, Known
<1>3. CASE Restart
  <2>1. Restored(t) /\ sessions'[t] = [expires |-> file[t], idleAt |-> file[t], idle |-> Remember, remembered |-> TRUE]
    BY <1>2, <1>3, LoadedTyped DEF Restart, StoreType, FileType
  <2>2. file[t] # None /\ file[t] \in Nat
    BY <1>2, <2>1 DEF Restored, StoreType
  <2> QED
    BY <1>2, <2>1, <2>2, LimitsAssumption DEF SessionOk, FileOk
<1>4. CASE ~Restart
  <2>1. SessionMoved(t)
    BY <1>1, <1>4, SessionsMove DEF LoginsInv
  <2>2. CASE sessions'[t] = sessions[t]
    <3>1. sessions[t] \in Session
      BY <1>2, <2>2 DEF StoreType
    <3> QED
      BY <1>2, <2>2, <3>1, LimitsAssumption DEF SessionOk, Known, Session
  <2>3. CASE Extended(t)
    <3>1. PICK clock \in 0 .. now, h \in Handlers :
             /\ Live(t, clock) /\ sessions'[t] = Refreshed(sessions[t], clock)
             /\ handlers[h].at = "get" /\ handlers[h].token = t /\ handlers[h].since <= clock
      BY <2>3 DEF Extended
    <3>2. sessions[t] \in Session /\ Known(t)
      BY <1>2, <3>1 DEF StoreType, Live, Known
    <3>3. clock \in Nat /\ clock <= now /\ handlers[h].since \in Nat
      BY <1>1, <1>2, <3>1 DEF LoginsInv, HandlersType, Handler
    <3>4. /\ sessions'[t].expires = sessions[t].expires /\ sessions'[t].idle = sessions[t].idle
          /\ sessions'[t].remembered = sessions[t].remembered
          /\ sessions'[t].idleAt = Smaller(clock + sessions[t].idle, sessions[t].expires)
      BY <3>1, <3>2, <3>3, RefreshedTyped
    <3>5. sessions[t].remembered => sessions[t].expires <= handlers[h].since + Remember
      BY <1>1, <3>1, <3>2 DEF LoginsInv, ReadingsInv
    <3>6. sessions[t].remembered => sessions[t].expires <= clock + Remember
      BY <3>1, <3>2, <3>3, <3>5, LimitsAssumption DEF Session
    <3> QED
      BY <1>2, <3>2, <3>3, <3>4, <3>6, LimitsAssumption DEF SessionOk, Session, Smaller
  <2>4. CASE t \in issued' /\ \E x \in BOOLEAN, clock \in 0 .. now : sessions'[t] = NewSession(x, clock)
    <3>1. PICK x \in BOOLEAN, clock \in 0 .. now : sessions'[t] = NewSession(x, clock)
      BY <2>4
    <3>2. clock \in Nat /\ clock <= now
      BY <1>2
    <3> DEFINE s == NewSession(x, clock)
    <3>3. /\ s \in Session /\ s.idleAt <= s.expires /\ s.idleAt <= clock + s.idle /\ s.remembered = x
          /\ x => s.idle = Remember /\ s.expires = clock + Remember /\ s.idleAt = clock + Remember
      BY <3>2, NewSessionTyped
    <3> HIDE DEF s
    <3> QED
      BY <1>2, <2>4, <3>1, <3>2, <3>3, LimitsAssumption DEF SessionOk, Session, s
  <2> QED
    BY <1>2, <2>1, <2>2, <2>3, <2>4 DEF SessionMoved
<1> QED
  BY <1>3, <1>4

(* A session that stays keeps its end, whatever becomes of its idle deadline. *)
LEMMA ExpiryStays ==
    ASSUME LoginsInv, [Next]_vars, ~Restart, NEW t \in issued, sessions'[t] # None
    PROVE  /\ Known(t) /\ sessions'[t].expires = sessions[t].expires /\ sessions'[t].remembered = sessions[t].remembered
           /\ sessions[t].expires \in Nat
<1>1. now \in Nat /\ StoreType /\ t \in Tokens /\ SessionMoved(t)
  BY SessionsMove DEF LoginsInv, StoreType
<1>2. CASE sessions'[t] = sessions[t]
  BY <1>1, <1>2 DEF StoreType, Known, Session
<1>3. CASE Extended(t)
  <2>1. PICK clock \in 0 .. now : Live(t, clock) /\ sessions'[t] = Refreshed(sessions[t], clock)
    BY <1>3 DEF Extended
  <2>2. sessions[t] \in Session /\ Known(t) /\ clock \in Nat
    BY <1>1, <2>1 DEF StoreType, Live, Known
  <2> QED
    BY <2>1, <2>2, RefreshedTyped DEF Session
<1> QED
  BY <1>1, <1>2, <1>3 DEF SessionMoved

WithinNext(t, d) == d <= latest'[t] /\ (sessions'[t] # None => d <= sessions'[t].expires)

(* A bound by the latest deadline and the end of a session holds on. *)
LEMMA WithinStays ==
    ASSUME LoginsInv, [Next]_vars, ~Restart, NEW t \in issued, NEW d \in Nat, Within(t, d)
    PROVE  WithinNext(t, d)
<1>1. t \in Tokens /\ latest[t] \in Nat /\ latest'[t] \in Nat /\ latest[t] <= latest'[t]
  BY LatestMoves DEF LoginsInv, StoreType, BrowserType
<1> QED
  BY <1>1, ExpiryStays DEF Within, WithinNext

(* The deadline that a session has after a step is one of its own. *)
LEMMA WithinOwn ==
    ASSUME LoginsInv, [Next]_vars, ~Restart, NEW t \in Tokens, sessions'[t] # None
    PROVE  WithinNext(t, Deadline(sessions'[t])) /\ Deadline(sessions'[t]) \in Nat
<1>1. sessions'[t] \in Session
  BY SessionsMove DEF LoginsInv, SessionsType
<1>2. Deadline(sessions'[t]) \in Nat /\ Deadline(sessions'[t]) <= sessions'[t].expires
  BY <1>1, DeadlineTyped
<1>3. latest[t] \in Nat /\ latest'[t] \in Nat /\ latest[t] <= latest'[t]
  BY LatestMoves DEF LoginsInv, BrowserType
<1>4. CASE sessions'[t] = sessions[t]
  <2>1. Deadline(sessions[t]) <= latest[t]
    BY <1>4 DEF LoginsInv, LatestInv, Known
  <2> QED
    BY <1>2, <1>3, <1>4, <2>1 DEF WithinNext
<1>5. CASE sessions'[t] # sessions[t]
  BY <1>2, <1>5, LatestMoves DEF WithinNext
<1> QED
  BY <1>4, <1>5

(* Requests and callbacks hold no deadline later than their session's. *)
LEMMA DeadlinesKept == LoginsInv /\ [Next]_vars => DeadlineInv'
<1>1. SUFFICES ASSUME LoginsInv, [Next]_vars PROVE DeadlineInv'
  OBVIOUS
<1>2. CASE Restart
  <2>1. \A h \in Handlers : handlers'[h].token = None
    BY <1>2 DEF Restart, Resting
  <2> QED
    BY <1>2, <2>1 DEF Restart, DeadlineInv
<1>3. CASE ~Restart
  <2>1. /\ StoreType /\ HandlersType /\ RequestsInv /\ CallbacksType /\ DeadlineInv /\ issued \subseteq Tokens
        /\ cookies \subseteq issued /\ Used \subseteq Used' /\ \A c \in Used : conns'[c].token = conns[c].token
        /\ \A c \in Used : conns[c].token \in issued
        /\ SessionsType' /\ issued' \subseteq Tokens /\ now \in Nat
    BY <1>1, <1>3, UsedGrows, IssuedGrows, SessionsMove
       DEF LoginsInv, BrowserType, StoreType, ConnsType
  <2>2. ASSUME NEW h \in Handlers, handlers'[h].token # None PROVE WithinNext(handlers'[h].token, handlers'[h].deadline)
    <3> DEFINE t == handlers[h].token
               u == handlers'[h].token
    <3>1. /\ handlers[h] \in Handler /\ ProgressOk(handlers[h]) /\ Moved(h)
          /\ (t # None => t \in issued) /\ handlers[h].deadline \in Nat /\ (t = None => handlers[h].deadline = 0)
          /\ t # None => Within(t, handlers[h].deadline)
      BY <1>1, <1>3, <2>1, EachMoves DEF HandlersType, HoldingsOk, Handler, RequestsInv, DeadlineInv
    <3>2. \A v \in Tokens : latest'[v] \in Nat /\ (sessions'[v] # None => sessions'[v].expires \in Nat)
      BY <1>1, <2>1, LatestMoves DEF SessionsType, Session
    <3>3. ASSUME u \in Tokens, handlers'[h].deadline = 0 PROVE WithinNext(u, handlers'[h].deadline)
      BY <3>2, <3>3 DEF WithinNext
    <3>4. CASE t # None /\ u = t /\ handlers'[h].deadline = handlers[h].deadline
      BY <1>1, <1>3, <3>1, <3>4, WithinStays
    <3>5. CASE Started(h) \/ Rested(h)
      BY <2>2, <3>5, RestingIs DEF Started, Rested
    <3>6. CASE Asked(h)
      BY <2>1, <3>3, <3>6 DEF Asked
    <3>7. CASE Missed(h)
      BY <2>1, <3>1, <3>3, <3>7 DEF Missed, At, ProgressOk, TokenSteps
    <3>8. CASE Created(h)
      <4>1. t = None
        BY <2>1, <3>8 DEF Created, RequestsInv, At, UserSteps, TokenSteps
      <4> QED
        BY <2>1, <3>1, <3>3, <3>8, <4>1 DEF Created
    <3>9. CASE Found(h)
      <4>1. t \in Tokens /\ sessions'[t] # None /\ u = t /\ handlers'[h].deadline = Deadline(sessions'[t])
        BY <2>1, <3>1, <3>9 DEF Found, At, ProgressOk, TokenSteps
      <4> QED
        BY <1>1, <1>3, <4>1, WithinOwn
    <3>10. CASE Extends(h)
      <4>1. /\ t \in Tokens /\ sessions'[t] # None /\ UNCHANGED sessions
            /\ u = t /\ handlers'[h].deadline = Deadline(sessions'[t])
        BY <2>1, <3>1, <3>10 DEF Extends, Known, At, ProgressOk, TokenSteps
      <4> QED
        BY <1>1, <1>3, <4>1, WithinOwn
    <3>11. CASE handlers'[h] = handlers[h] \/ Keeps(h)
      BY <2>2, <3>4, <3>11 DEF Keeps
    <3> QED
      BY <3>1, <3>5, <3>6, <3>7, <3>8, <3>9, <3>10, <3>11 DEF Moved, Passed, Revokes, TooLate, Tracks, TakesOut, Refuses
  <2>3. ASSUME NEW c \in Used, NEW d \in Nat, Within(conns[c].token, d) PROVE WithinNext(conns'[c].token, d)
    <3>1. PICK t \in issued : t = conns[c].token /\ t = conns'[c].token
      BY <2>1
    <3> QED
      BY <1>1, <1>3, <2>3, <3>1, WithinStays
  <2>4. ASSUME NEW b \in callbacks, b.at = "reset" PROVE WithinNext(conns'[b.conn].token, b.deadline) /\ b.conn \in Used
    BY <2>1, <2>3, <2>4 DEF DeadlineInv, CallbacksType, Callback
  <2>5. ASSUME NEW set, NEW x \in Void(set), x.at = "reset" PROVE WithinNext(conns'[x.conn].token, x.deadline)
    <3>1. PICK b \in callbacks : VoidOf(b, x)
      BY <2>1, VoidKeeps DEF CallbacksType
    <3> QED
      BY <2>4, <2>5, <3>1 DEF VoidOf
  <2>6. ASSUME NEW x \in callbacks', x.at = "reset" PROVE WithinNext(conns'[x.conn].token, x.deadline)
    <3>1. CASE \E b \in callbacks : CheckSession(b)
      <4>1. PICK b \in callbacks : CheckSession(b)
        BY <3>1
      <4> DEFINE t == conns[b.conn].token
      <4>2. PICK clock, y : /\ callbacks' = (callbacks \ {b}) \cup {y} /\ b.at = "check"
                            /\ y = IF Live(t, clock) THEN [b EXCEPT !.at = "reset", !.deadline = Deadline(sessions[t])]
                                                     ELSE [b EXCEPT !.at = "expire"]
                            /\ sessions' = [sessions EXCEPT ![t] = IF Live(t, clock) THEN @ ELSE None]
        BY <4>1 DEF CheckSession, Replace, Look
      <4>3. b \in Callback /\ b.conn \in Used /\ t \in issued /\ t \in Tokens /\ t = conns'[b.conn].token
        BY <2>1 DEF CallbacksType
      <4>4. CASE x = y
        <5> HIDE DEF t
        <5>1. Live(t, clock) /\ y.deadline = Deadline(sessions[t]) /\ y.conn = b.conn
          BY <2>6, <4>2, <4>3, <4>4 DEF Callback
        <5>2. sessions'[t] = sessions[t] /\ sessions'[t] # None
          BY <2>1, <4>2, <4>3, <5>1 DEF StoreType, Live, Known
        <5>3. WithinNext(t, Deadline(sessions[t]))
          BY <1>1, <1>3, <4>3, <5>2, WithinOwn
        <5> QED
          BY <4>3, <4>4, <5>1, <5>3
      <4>5. CASE x # y
        BY <2>4, <2>6, <4>2, <4>5
      <4> QED
        BY <4>4, <4>5
    <3>2. CASE \E c \in Conns : Fire(c)
      BY <2>4, <2>6, <3>2 DEF Fire
    <3>3. CASE \E h \in Handlers : RefreshConnections(h) \/ Renew(h)
      BY <2>5, <2>6, <3>3 DEF RefreshConnections, Renew, RefreshKey
    <3>4. CASE \E b \in callbacks : ResetTimers(b)
      <4>1. \E set : callbacks' \subseteq Void(set)
        BY <3>4 DEF ResetTimers
      <4> QED
        BY <2>5, <2>6, <4>1
    <3>5. CASE \E b \in callbacks : ExpireConnections(b)
      <4>1. PICK b \in callbacks : ExpireConnections(b)
        BY <3>5
      <4>2. PICK set : callbacks' \subseteq callbacks \cup {[b EXCEPT !.at = "closing", !.closing = set]}
        BY <4>1 DEF ExpireConnections, Replace
      <4>3. [b EXCEPT !.at = "closing", !.closing = set].at = "closing"
        BY <2>1 DEF CallbacksType, Callback
      <4> QED
        BY <2>4, <2>6, <4>2, <4>3
    <3>6. CASE \E b \in callbacks : CloseExpired(b)
      BY <2>4, <2>6, <3>6 DEF CloseExpired
    <3>7. CASE UNCHANGED callbacks
      BY <2>4, <2>6, <3>7
    <3> QED
      BY <1>1, <1>3, <3>1, <3>2, <3>3, <3>4, <3>5, <3>6, <3>7, CallbacksWriters
  <2> QED
    BY <2>2, <2>6 DEF DeadlineInv, Within, WithinNext, Known
<1> QED
  BY <1>2, <1>3

-----------------------------------------------------------------------------
(* The connections and who watches them.                                    *)

(* What a step does to one connection that was made before. *)
Rearmed(c)  == \/ \E h \in Handlers : /\ RefreshConnections(h) \/ Renew(h)
                                      /\ c \in Of(handlers[h].token)
                                      /\ conns'[c] = [conns[c] EXCEPT !.timer = handlers[h].deadline]
               \/ \E b \in callbacks : /\ ResetTimers(b) /\ Present(b) /\ c \in Of(conns[b.conn].token)
                                       /\ conns'[c] = [conns[c] EXCEPT !.timer = b.deadline]
TakenOut(c) == conns'[c] = [conns[c] EXCEPT !.timer = None] /\ c \in tracked /\ c \notin tracked'
Fired(c)    == Fire(c) /\ conns'[c] = [conns[c] EXCEPT !.timer = None]
Shut(c)     == Drop(c) \/ Restart
Left(c)     == conns'[c] = [conns[c] EXCEPT !.socket = "leaving"]
Cut(c)      == conns'[c] = [conns[c] EXCEPT !.socket = "closed"]

(* Every step changes a connection in one of these ways, or not at all. *)
LEMMA ConnSteps ==
    ASSUME LoginsInv, [Next]_vars, NEW c \in Used
    PROVE  conns'[c] = conns[c] \/ Rearmed(c) \/ TakenOut(c) \/ Fired(c) \/ Shut(c) \/ Left(c) \/ Cut(c)
<1> DEFINE Goal == conns'[c] = conns[c] \/ Rearmed(c) \/ TakenOut(c) \/ Fired(c) \/ Shut(c) \/ Left(c) \/ Cut(c)
<1>1. /\ conns \in [Conns -> Conn \cup {None}] /\ c \in Conns /\ conns[c] # None /\ \A t : Of(t) \subseteq tracked
      /\ conns[c] \in Conn
  BY DEF LoginsInv, ConnsType, Used, Of
<1>2. ASSUME NEW set, NEW d, conns' = Armed(conns, set, d)
      PROVE  conns'[c] = IF c \in set THEN [conns[c] EXCEPT !.timer = d] ELSE conns[c]
  BY <1>1, <1>2 DEF Armed
<1>3. ASSUME NEW h \in Handlers, RefreshConnections(h) \/ Renew(h) PROVE Goal
  <2>1. conns' = Armed(conns, Of(handlers[h].token), handlers[h].deadline)
    BY <1>3 DEF RefreshConnections, Renew, RefreshKey
  <2>2. CASE c \in Of(handlers[h].token)
    <3>1. conns'[c] = [conns[c] EXCEPT !.timer = handlers[h].deadline]
      BY <1>2, <2>1, <2>2
    <3> QED
      BY <1>3, <2>2, <3>1 DEF Rearmed
  <2>3. CASE c \notin Of(handlers[h].token)
    BY <1>2, <2>1, <2>3
  <2> QED
    BY <2>2, <2>3
<1>4. ASSUME NEW b \in callbacks, ResetTimers(b) PROVE Goal
  <2>1. CASE Present(b)
    BY <1>2, <1>4, <2>1 DEF ResetTimers, Rearmed
  <2>2. CASE ~Present(b)
    <3>1. conns' = Armed(conns, {}, b.deadline)
      BY <1>4, <2>2 DEF ResetTimers
    <3>2. conns'[c] = conns[c]
      BY <1>1, <3>1 DEF Armed
    <3> QED
      BY <3>2
  <2> QED
    BY <2>1, <2>2
<1>5. ASSUME NEW set, set \subseteq tracked, conns' = Armed(conns, set, None), tracked' = tracked \ set PROVE Goal
  BY <1>2, <1>5 DEF TakenOut
<1>6. ASSUME NEW h \in Handlers, CloseToken(h) PROVE Goal
  BY <1>1, <1>5, <1>6 DEF CloseToken, Untrack
<1>7. ASSUME NEW b \in callbacks, ExpireConnections(b) PROVE Goal
  <2>1. PICK set \in SUBSET tracked : Untrack(set)
    BY <1>1, <1>7 DEF ExpireConnections
  <2> QED
    BY <1>5, <2>1 DEF Untrack
<1>8. CASE CloseAll
  BY <1>2, <1>8 DEF CloseAll, TakenOut
<1>9. ASSUME NEW set, CloseSockets(set) PROVE Goal
  BY <1>1, <1>9 DEF CloseSockets, Cut
<1>10. ASSUME NEW h \in Handlers, CloseOthers(h) PROVE Goal
  BY <1>9, <1>10 DEF CloseOthers
<1>11. ASSUME NEW b \in callbacks, CloseExpired(b) PROVE Goal
  BY <1>9, <1>11 DEF CloseExpired
<1>12. CASE CloseRest
  BY <1>9, <1>12 DEF CloseRest
<1>13. ASSUME NEW d \in Conns, Leave(d) PROVE Goal
  BY <1>1, <1>13 DEF Leave, Left
<1>14. ASSUME NEW d \in Conns, Drop(d) PROVE Goal
  <2>1. CASE d = c
    BY <1>14, <2>1 DEF Shut
  <2>2. CASE d # c
    BY <1>1, <1>14, <2>2 DEF Drop
  <2> QED
    BY <2>1, <2>2
<1>15. ASSUME NEW d \in Conns, Fire(d) PROVE Goal
  <2>1. CASE d = c
    BY <1>1, <1>15, <2>1 DEF Fire, Fired
  <2>2. CASE d # c
    BY <1>1, <1>15, <2>2 DEF Fire
  <2> QED
    BY <2>1, <2>2
<1>16. ASSUME NEW h \in Handlers, NEW d \in Conns, Track(h, d) PROVE Goal
  <2>1. d # c /\ d \in Conns
    BY <1>1, <1>16 DEF Track, NextConn, Unused
  <2>2. \E x : conns' = [conns EXCEPT ![d] = x]
    <3>1. CASE closed
      BY <1>16, <3>1 DEF Track
    <3>2. CASE ~closed
      BY <1>16, <3>2 DEF Track
    <3> QED
      BY <3>1, <3>2
  <2> QED
    BY <1>1, <2>1, <2>2
<1>17. CASE Restart
  BY <1>17 DEF Shut
<1>18. CASE UNCHANGED conns
  BY <1>18
<1> QED
  BY <1>3, <1>4, <1>6, <1>7, <1>8, <1>10, <1>11, <1>12, <1>13, <1>14, <1>15, <1>16, <1>17, <1>18, ConnsWriters

(* The timer of a tracked connection is set by what holds a deadline of its session. *)
LEMMA TimersKept == LoginsInv /\ [Next]_vars => TimersWithin'
<1>1. SUFFICES ASSUME LoginsInv, [Next]_vars, NEW c \in tracked', conns'[c].timer # None
               PROVE  WithinNext(conns'[c].token, conns'[c].timer)
  BY DEF TimersWithin, Within, WithinNext, Known
<1>2. ~Restart
  BY <1>1 DEF Restart
<1>3. /\ TrackerType' /\ conns \in [Conns -> Conn \cup {None}] /\ TimersWithin /\ DeadlineInv /\ HandlersType /\ CallbacksType
      /\ \A d \in Used : conns[d].token \in issued /\ conns'[d].token = conns[d].token
      /\ tracked \subseteq Used
  BY <1>1, TrackerTyped, UsedGrows DEF LoginsInv, ConnsType, TrackerType
<1>4. ASSUME NEW d \in Nat, NEW t \in issued, Within(t, d) PROVE WithinNext(t, d)
  BY <1>1, <1>2, <1>4, WithinStays
<1>5. CASE c \in tracked
  <2>1. c \in Used /\ c \in Conns /\ conns[c] \in Conn /\ conns[c] # None /\ conns'[c].token = conns[c].token /\ conns[c].token \in issued
    BY <1>3, <1>5 DEF Used
  <2>2. CASE conns'[c].timer = conns[c].timer
    BY <1>1, <1>3, <1>4, <1>5, <2>1, <2>2 DEF TimersWithin, Conn
  <2>3. CASE Rearmed(c)
    <3>1. ASSUME NEW h \in Handlers, RefreshConnections(h) \/ Renew(h), c \in Of(handlers[h].token),
                 conns'[c] = [conns[c] EXCEPT !.timer = handlers[h].deadline]
          PROVE  WithinNext(conns'[c].token, conns'[c].timer)
      <4>1. handlers[h].token = conns[c].token /\ conns'[c].timer = handlers[h].deadline /\ handlers[h].deadline \in Nat
        BY <1>3, <2>1, <3>1 DEF Of, Conn, HandlersType, Handler
      <4>2. Within(handlers[h].token, handlers[h].deadline)
        BY <1>3, <3>1 DEF DeadlineInv, RefreshConnections, Renew, At, HandlersType, ProgressOk, TokenSteps
      <4> QED
        BY <1>4, <2>1, <4>1, <4>2
    <3>2. ASSUME NEW b \in callbacks, ResetTimers(b), c \in Of(conns[b.conn].token),
                 conns'[c] = [conns[c] EXCEPT !.timer = b.deadline]
          PROVE  WithinNext(conns'[c].token, conns'[c].timer)
      <4>1. conns[b.conn].token = conns[c].token /\ conns'[c].timer = b.deadline /\ b.deadline \in Nat
        BY <1>3, <2>1, <3>2 DEF Of, Conn, CallbacksType, Callback
      <4>2. Within(conns[b.conn].token, b.deadline)
        BY <1>3, <3>2 DEF DeadlineInv, ResetTimers
      <4> QED
        BY <1>4, <2>1, <4>1, <4>2
    <3> QED
      BY <2>3, <3>1, <3>2 DEF Rearmed
  <2>4. CASE TakenOut(c) \/ Fired(c)
    BY <1>1, <2>1, <2>4 DEF TakenOut, Fired, Conn
  <2>5. CASE Shut(c)
    BY <1>1, <1>2, <1>3, <2>1, <2>5 DEF Shut, Drop
  <2>6. CASE Left(c) \/ Cut(c)
    BY <2>1, <2>2, <2>6 DEF Left, Cut, Conn
  <2> QED
    BY <1>1, <2>1, <2>2, <2>3, <2>4, <2>5, <2>6, ConnSteps
<1>6. CASE c \notin tracked
  <2>1. c \in Conns
    BY <1>1, <1>3 DEF TrackerType, Used
  <2>2. PICK h \in Handlers : Track(h, c) /\ ~closed
    BY <1>1, <1>6, <2>1, TrackedMoves
  <2>3. /\ conns'[c].token = handlers[h].token /\ conns'[c].timer = handlers[h].deadline
        /\ handlers[h].token \in issued /\ handlers[h].deadline \in Nat
    <3>1. handlers[h].token \in issued /\ handlers[h].deadline \in Nat
      BY <1>3, <2>2 DEF Track, HandlersType, HoldingsOk, ProgressOk, TokenSteps, At, Handler
    <3>2. conns'[c] = [token |-> handlers[h].token, socket |-> "open", timer |-> handlers[h].deadline]
      BY <1>3, <2>1, <2>2 DEF Track
    <3> QED
      BY <3>1, <3>2
  <2>4. Within(handlers[h].token, handlers[h].deadline)
    BY <1>3, <2>2 DEF DeadlineInv, HandlersType, ProgressOk, TokenSteps, Track, At
  <2> QED
    BY <1>4, <2>3, <2>4
<1> QED
  BY <1>5, <1>6

(* A tracked connection keeps a timer or the callback that acts for it. *)
LEMMA TimedKept == LoginsInv /\ [Next]_vars => Timed'
<1>1. SUFFICES ASSUME LoginsInv, [Next]_vars, NEW c \in tracked', conns'[c].socket = "open", conns'[c].timer = None
               PROVE  \E b \in callbacks' : b.conn = c /\ b.current
  BY DEF Timed
<1>2. ~Restart
  BY <1>1 DEF Restart
<1>3. /\ TrackerType' /\ conns \in [Conns -> Conn \cup {None}] /\ Timed /\ HandlersType /\ CallbacksType
      /\ tracked \subseteq Used
  BY <1>1, TrackerTyped DEF LoginsInv, ConnsType, TrackerType
<1>4. c \in tracked
  <2>1. SUFFICES ASSUME c \notin tracked PROVE FALSE
    OBVIOUS
  <2>2. c \in Conns
    BY <1>1, <1>3 DEF TrackerType, Used
  <2>3. PICK h \in Handlers : Track(h, c) /\ ~closed
    BY <1>1, <2>1, <2>2, TrackedMoves
  <2> QED
    BY <1>1, <1>3, <2>2, <2>3, NoneAssumption DEF Track, HandlersType, Handler
<1>5. c \in Used /\ c \in Conns /\ conns[c] \in Conn /\ conns[c] # None
  BY <1>3, <1>4 DEF Used
<1>6. CASE Fired(c)
  <2>1. [conn |-> c, at |-> "check", since |-> now, current |-> TRUE, deadline |-> 0, closing |-> {}] \in callbacks'
    BY <1>6 DEF Fired, Fire
  <2> QED
    BY <2>1
<1>7. CASE ~Fired(c)
  <2>1. conns[c].timer = None /\ conns[c].socket = "open"
    <3>1. CASE Rearmed(c)
      BY <1>1, <1>3, <1>5, <3>1, NoneAssumption DEF Rearmed, Conn, HandlersType, Handler, CallbacksType, Callback
    <3>2. CASE TakenOut(c)
      BY <1>1, <3>2 DEF TakenOut
    <3>3. CASE Shut(c)
      BY <1>1, <1>2, <1>5, <3>3 DEF Shut, Drop
    <3>4. CASE Left(c) \/ Cut(c)
      BY <1>1, <1>5, <3>4 DEF Left, Cut, Conn
    <3> QED
      BY <1>1, <1>5, <1>7, <3>1, <3>2, <3>3, <3>4, ConnSteps
  <2>2. PICK b \in callbacks : b.conn = c /\ b.current
    BY <1>3, <1>4, <2>1 DEF Timed
  <2>3. ASSUME NEW set, c \notin set PROVE b \in Void(set)
    <3>1. [b EXCEPT !.current = @ /\ b.conn \notin set] = b
      BY <1>3, <2>2, <2>3 DEF CallbacksType, Callback
    <3> QED
      BY <2>2, <3>1 DEF Void
  <2>4. ASSUME NEW t, conns[c].token = t PROVE c \in Of(t)
    BY <1>4, <2>4 DEF Of
  <2>5. ASSUME NEW set, NEW d \in Nat, c \in set, conns' = Armed(conns, set, d) PROVE FALSE
    BY <1>1, <1>5, <2>5, NoneAssumption DEF Armed, Conn
  <2>6. ASSUME NEW h \in Handlers, RefreshConnections(h) \/ Renew(h) PROVE b \in callbacks'
    <3>1. /\ conns' = Armed(conns, Of(handlers[h].token), handlers[h].deadline) /\ callbacks' = Void(Of(handlers[h].token))
          /\ handlers[h].deadline \in Nat
      BY <1>3, <2>6 DEF RefreshConnections, Renew, RefreshKey, HandlersType, Handler
    <3> QED
      BY <2>3, <2>5, <3>1
  <2>7. ASSUME NEW d \in Conns, Fire(d) PROVE b \in callbacks'
    BY <2>2, <2>7 DEF Fire
  <2>8. ASSUME NEW x \in callbacks, CheckSession(x) PROVE \E y \in callbacks' : y.conn = c /\ y.current
    <3>1. PICK y : /\ callbacks' = (callbacks \ {x}) \cup {y}
                   /\ \/ \E d : y = [x EXCEPT !.at = "reset", !.deadline = d]
                      \/ y = [x EXCEPT !.at = "expire"]
      BY <2>8 DEF CheckSession, Replace
    <3>2. y.conn = x.conn /\ y.current = x.current
      BY <1>3, <3>1 DEF CallbacksType, Callback
    <3> QED
      BY <2>2, <3>1, <3>2
  <2>9. ASSUME NEW x \in callbacks, ResetTimers(x) PROVE b \in callbacks'
    <3>1. PICK set : /\ set = IF Present(x) THEN Of(conns[x.conn].token) ELSE {}
                     /\ conns' = Armed(conns, set, x.deadline)
                     /\ callbacks' = Void(set) \ {x, [x EXCEPT !.current = FALSE]}
      BY <2>9 DEF ResetTimers
    <3>2. c \notin set
      BY <1>3, <2>5, <3>1 DEF CallbacksType, Callback
    <3>3. b # x
      BY <1>4, <2>2, <2>4, <3>1, <3>2 DEF Present
    <3>4. b # [x EXCEPT !.current = FALSE]
      BY <1>3, <2>2 DEF CallbacksType, Callback
    <3> QED
      BY <2>3, <3>1, <3>2, <3>3, <3>4
  <2>10. ASSUME NEW x \in callbacks, ExpireConnections(x) PROVE b \in callbacks'
    <3>1. x # b
      <4>1. SUFFICES ASSUME x = b PROVE FALSE
        OBVIOUS
      <4>2. Present(b) /\ c \in Of(conns[b.conn].token)
        BY <1>4, <2>2, <2>4 DEF Present
      <4> QED
        BY <1>1, <2>10, <4>1, <4>2 DEF ExpireConnections, Untrack
    <3> QED
      BY <2>2, <2>10, <3>1 DEF ExpireConnections, Replace
  <2>11. ASSUME NEW x \in callbacks, CloseExpired(x) PROVE b \in callbacks'
    BY <1>3, <1>4, <2>2, <2>11 DEF CloseExpired, CallbacksType
  <2> QED
    BY <1>1, <1>2, <2>2, <2>6, <2>7, <2>8, <2>9, <2>10, <2>11, CallbacksWriters
<1> QED
  BY <1>6, <1>7

(* What a request that takes connections out of the tracker is about to close. *)
LEMMA ClosingSet ==
    ASSUME HandlersType, now \in Nat, NEW h \in Handlers, NEW set \in SUBSET Conns,
           handlers' = [handlers EXCEPT ![h] = [Arrived(h, "closing") EXCEPT !.closing = set]]
    PROVE  handlers'[h].closing = set
<1> DEFINE a == Arrived(h, "closing")
<1>1. a \in Handler
  BY ArrivedTyped DEF Steps
<1>2. handlers'[h] = [a EXCEPT !.closing = set]
  BY DEF HandlersType
<1> HIDE DEF a
<1> QED
  BY <1>1, <1>2 DEF Handler

(* An open connection is tracked or about to be closed by somebody. *)
LEMMA HeldKept == LoginsInv /\ [Next]_vars => HeldInv'
<1>1. SUFFICES ASSUME LoginsInv, [Next]_vars, NEW c \in Conns, Open(c)' PROVE Held(c)'
  BY DEF HeldInv
<1>2. ~Restart
  <2>1. conns[c] # None => [conns[c] EXCEPT !.socket = "closed", !.timer = None].socket = "closed"
    BY <1>1 DEF LoginsInv, ConnsType, Conn
  <2> QED
    BY <1>1, <2>1 DEF Restart, Open
<1>3. /\ conns \in [Conns -> Conn \cup {None}] /\ HandlersType /\ CallbacksType /\ ShutdownType /\ HeldInv
      /\ conns'[c] # None /\ conns'[c].socket = "open" /\ \A b \in callbacks : b \in Callback
  BY <1>1 DEF LoginsInv, ConnsType, Open, CallbacksType
<1>4. CASE conns[c] = None
  <2>1. PICK h \in Handlers : Track(h, c)
    <3>1. c \notin Used
      BY <1>4 DEF Used
    <3>2. ASSUME NEW set, NEW d, set \subseteq Used, conns' = Armed(conns, set, d) PROVE FALSE
      BY <1>3, <1>4, <3>1, <3>2 DEF Armed
    <3>3. ASSUME NEW set, set \subseteq Used, CloseSockets(set) PROVE FALSE
      BY <1>3, <1>4, <3>1, <3>3 DEF CloseSockets
    <3>4. \A t : Of(t) \subseteq Used
      BY <1>1 DEF Of, LoginsInv, TrackerType
    <3>5. ASSUME NEW d \in Conns, Leave(d) \/ Drop(d) \/ Fire(d) PROVE FALSE
      BY <1>3, <1>4, <3>5 DEF Leave, Drop, Fire
    <3>6. ASSUME NEW h \in Handlers, RefreshConnections(h) \/ Renew(h) PROVE FALSE
      BY <3>2, <3>4, <3>6 DEF RefreshConnections, Renew, RefreshKey
    <3>7. ASSUME NEW h \in Handlers, CloseToken(h) PROVE FALSE
      BY <3>2, <3>4, <3>7 DEF CloseToken, Untrack
    <3>8. ASSUME NEW h \in Handlers, CloseOthers(h) PROVE FALSE
      BY <1>3, <3>3, <3>8 DEF CloseOthers, HandlersType, HoldingsOk
    <3>9. ASSUME NEW b \in callbacks, ResetTimers(b) PROVE FALSE
      BY <3>2, <3>4, <3>9 DEF ResetTimers
    <3>10. ASSUME NEW b \in callbacks, ExpireConnections(b) PROVE FALSE
      BY <3>2, <3>4, <3>10 DEF ExpireConnections, Untrack
    <3>11. ASSUME NEW b \in callbacks, CloseExpired(b) PROVE FALSE
      BY <1>3, <3>3, <3>11 DEF CloseExpired, CallbacksType
    <3>12. ~CloseAll /\ ~CloseRest
      BY <1>1, <1>3, <3>2, <3>3 DEF CloseAll, CloseRest, LoginsInv, TrackerType, ShutdownType
    <3>13. ASSUME NEW h \in Handlers, NEW d \in Conns, Track(h, d), d # c PROVE FALSE
      BY <1>3, <1>4, <3>13 DEF Track
    <3> QED
      BY <1>1, <1>2, <1>3, <1>4, <3>5, <3>6, <3>7, <3>8, <3>9, <3>10, <3>11, <3>12, <3>13, ConnsWriters
  <2>2. CASE closed
    <3>1. c \in handlers'[h].closing
      <4> DEFINE one == {c}
      <4>1. handlers' = [handlers EXCEPT ![h] = [Arrived(h, "closing") EXCEPT !.closing = one]]
        BY <2>1, <2>2 DEF Track
      <4>2. now \in Nat /\ one \in SUBSET Conns /\ c \in one
        BY <1>1 DEF LoginsInv, StoreType
      <4> HIDE DEF one
      <4>3. handlers'[h].closing = one
        BY <1>3, <4>1, <4>2, ClosingSet
      <4> QED
        BY <4>2, <4>3
    <3> QED
      BY <3>1 DEF Held
  <2>3. CASE ~closed
    BY <2>1, <2>3 DEF Track, Held
  <2> QED
    BY <2>2, <2>3
<1>5. CASE conns[c] # None
  <2>1. c \in Used /\ conns[c] \in Conn
    BY <1>3, <1>5 DEF Used
  <2>2. conns[c].socket = "open" /\ ~Drop(c)
    <3>1. ~Drop(c)
      <4>1. [conns[c] EXCEPT !.socket = "closed", !.timer = None].socket = "closed"
        BY <2>1 DEF Conn
      <4>2. Drop(c) => conns'[c] = [conns[c] EXCEPT !.socket = "closed", !.timer = None]
        BY <1>3, <2>1 DEF Drop
      <4> QED
        BY <1>3, <4>1, <4>2
    <3>2. CASE Rearmed(c) \/ TakenOut(c) \/ Fired(c)
      <4>1. PICK d : conns'[c] = [conns[c] EXCEPT !.timer = d]
        BY <3>2 DEF Rearmed, TakenOut, Fired
      <4>2. ~Drop(c) /\ conns'[c].socket = conns[c].socket
        BY <2>1, <3>1, <4>1 DEF Conn
      <4> QED
        BY <1>3, <4>2
    <3>3. CASE Left(c) \/ Cut(c)
      BY <1>3, <2>1, <3>3 DEF Left, Cut, Conn
    <3> QED
      BY <1>1, <1>2, <1>3, <2>1, <3>1, <3>2, <3>3, ConnSteps DEF Shut
  <2>3. ASSUME NEW set, CloseSockets(set), c \in set PROVE FALSE
    BY <1>3, <2>1, <2>2, <2>3 DEF CloseSockets, Conn
  <2>4. CASE c \in tracked
    <3>1. CASE \E h \in Handlers : CloseToken(h) /\ c \in Of(handlers[h].token)
      <4>1. PICK h \in Handlers : CloseToken(h) /\ c \in Of(handlers[h].token)
        BY <3>1
      <4>2. handlers'[h].closing = Of(handlers[h].token)
        <5>1. handlers' = [handlers EXCEPT ![h] = [Arrived(h, "closing") EXCEPT !.closing = Of(handlers[h].token)]]
          BY <4>1 DEF CloseToken
        <5>2. Of(handlers[h].token) \in SUBSET Conns /\ now \in Nat
          BY <1>1 DEF LoginsInv, StoreType, TrackerType, Of, Used
        <5> QED
          BY <1>3, <5>1, <5>2, ClosingSet
      <4> QED
        BY <4>1, <4>2 DEF Held
    <3>2. CASE \E b \in callbacks : ExpireConnections(b) /\ Present(b) /\ c \in Of(conns[b.conn].token)
      <4>1. PICK b \in callbacks : ExpireConnections(b) /\ Present(b) /\ c \in Of(conns[b.conn].token)
        BY <3>2
      <4>2. [b EXCEPT !.at = "closing", !.closing = Of(conns[b.conn].token)] \in callbacks'
        BY <4>1 DEF ExpireConnections, Replace
      <4>3. [b EXCEPT !.at = "closing", !.closing = Of(conns[b.conn].token)].closing = Of(conns[b.conn].token)
        BY <1>3 DEF Callback
      <4> QED
        BY <4>1, <4>2, <4>3 DEF Held
    <3>3. CASE CloseAll
      BY <2>4, <3>3 DEF CloseAll, Held
    <3>4. CASE c \in tracked'
      BY <3>4 DEF Held
    <3> QED
      BY <1>1, <1>2, <2>2, <2>4, <3>1, <3>2, <3>3, <3>4, TrackedMoves
  <2>5. ASSUME NEW h \in Handlers, c \in handlers[h].closing PROVE Held(c)'
    <3>1. handlers[h].at = "closing" /\ Moved(h)
      BY <1>1, <1>2, <1>3, <2>5, EachMoves DEF HandlersType, ProgressOk
    <3>2. ~CloseOthers(h)
      BY <2>3, <2>5 DEF CloseOthers
    <3>3. handlers'[h] = handlers[h]
      BY <3>1, <3>2 DEF Moved, Rested, Started, Asked, Created, Found, Missed, Passed, Revokes, TooLate, Tracks,
                        TakesOut, Refuses, Extends, At
    <3> QED
      BY <2>5, <3>3 DEF Held
  <2>6. ASSUME NEW b \in callbacks, c \in b.closing PROVE Held(c)'
    <3>1. b.at = "closing" /\ b.conn \notin tracked /\ b \in Callback
      BY <1>3, <2>6 DEF CallbacksType
    <3>2. ASSUME NEW set PROVE \E x \in Void(set) : x.closing = b.closing /\ x.at = "closing"
      <4>1. [b EXCEPT !.current = @ /\ b.conn \notin set] \in Void(set)
        BY DEF Void
      <4>2. /\ [b EXCEPT !.current = @ /\ b.conn \notin set].closing = b.closing
            /\ [b EXCEPT !.current = @ /\ b.conn \notin set].at = b.at
        BY <3>1 DEF Callback
      <4> QED
        BY <3>1, <4>1, <4>2
    <3>3. ASSUME NEW x \in callbacks', x.closing = b.closing PROVE Held(c)'
      BY <2>6, <3>3 DEF Held
    <3>4. ASSUME NEW h \in Handlers, RefreshConnections(h) \/ Renew(h) PROVE Held(c)'
      BY <3>2, <3>3, <3>4 DEF RefreshConnections, Renew, RefreshKey
    <3>5. ASSUME NEW d \in Conns, Fire(d) PROVE Held(c)'
      BY <3>3, <3>5 DEF Fire
    <3>6. ASSUME NEW x \in callbacks, CheckSession(x) PROVE Held(c)'
      BY <3>1, <3>3, <3>6 DEF CheckSession, Replace
    <3>7. ASSUME NEW x \in callbacks, ResetTimers(x) PROVE Held(c)'
      <4>1. PICK set : callbacks' = Void(set) \ {x, [x EXCEPT !.current = FALSE]}
        BY <3>7 DEF ResetTimers
      <4>2. PICK y \in Void(set) : y.closing = b.closing /\ y.at = "closing"
        BY <3>2
      <4>3. x.at = "reset" /\ [x EXCEPT !.current = FALSE].at = "reset"
        BY <1>3, <3>7 DEF ResetTimers, Callback
      <4> QED
        BY <3>3, <4>1, <4>2, <4>3
    <3>8. ASSUME NEW x \in callbacks, ExpireConnections(x) PROVE Held(c)'
      BY <3>1, <3>3, <3>8 DEF ExpireConnections, Replace
    <3>9. ASSUME NEW x \in callbacks, CloseExpired(x) PROVE Held(c)'
      BY <2>3, <2>6, <3>3, <3>9 DEF CloseExpired
    <3>10. CASE UNCHANGED callbacks
      BY <3>3, <3>10
    <3> QED
      BY <1>1, <1>2, <3>4, <3>5, <3>6, <3>7, <3>8, <3>9, <3>10, CallbacksWriters
  <2>7. ASSUME c \in shutdown.closing PROVE Held(c)'
    <3>1. shutdown.at = "closing"
      BY <1>3, <2>7 DEF ShutdownType
    <3>2. ~CloseRest
      BY <2>3, <2>7 DEF CloseRest
    <3>3. ~BeginShutdown /\ ~CloseAll
      BY <3>1 DEF BeginShutdown, CloseAll, Serving
    <3>4. UNCHANGED shutdown
      BY <1>1, <1>2, <3>2, <3>3, ShutdownWriters
    <3> QED
      BY <2>7, <3>4 DEF Held
  <2>8. Open(c)
    BY <1>5, <2>2 DEF Open
  <2> QED
    BY <1>3, <2>4, <2>5, <2>6, <2>7, <2>8 DEF HeldInv, Held
<1> QED
  BY <1>4, <1>5

(* A token that a step revokes was revoked before, or its session is removed in this step. *)
LEMMA RevokedMoves ==
    ASSUME LoginsInv, [Next]_vars, ~Restart, NEW t \in Tokens, Revoked(t)'
    PROVE  t \in issued /\ (Revoked(t) \/ \E h \in Handlers : Revoke(h, "saved") /\ handlers[h].token = t)
<1>1. HandlersType /\ loggedOut \subseteq goneFor /\ goneFor \subseteq issued
  BY DEF LoginsInv, BrowserType
<1>2. ASSUME NEW h \in Handlers, handlers'[h].token = t, handlers'[h].work = "logout",
             handlers'[h].at \in {"close token", "closing"}
      PROVE  \/ handlers[h].token = t /\ handlers[h].work = "logout" /\ handlers[h].at \in {"close token", "closing"}
             \/ Revoke(h, "saved") /\ handlers[h].token = t
  <2>1. Moved(h)
    BY EachMoves
  <2>2. CASE Rested(h)
    BY <1>2, <2>2, RestingIs DEF Rested
  <2>3. CASE TooLate(h) \/ Refuses(h)
    <3>1. handlers[h].work = "upgrade" \/ handlers[h].at = "track"
      BY <2>3 DEF TooLate, Refuses, At, LoginsInv, RequestsInv
    <3>2. handlers[h].work = "upgrade"
      BY <3>1 DEF LoginsInv, RequestsInv
    <3> QED
      BY <1>2, <2>3, <3>2 DEF TooLate, Refuses, Keeps
  <2> QED
    BY <1>2, <2>1, <2>2, <2>3 DEF Moved, Started, Asked, Created, Found, Missed, Passed, Revokes, Tracks, TakesOut,
       Extends, Keeps, At
<1>3. ASSUME NEW h \in Handlers, handlers[h].token = t, t # None PROVE t \in issued
  BY <1>1, <1>3 DEF HandlersType, HoldingsOk
<1>4. t # None
  BY NoneAssumption
<1>5. CASE t \in loggedOut'
  <2>1. t \in loggedOut \/ \E h \in Handlers : /\ handlers[h].token = t /\ handlers[h].work = "logout"
                                             /\ handlers[h].at = "closing"
    <3>1. ASSUME NEW h \in Handlers, CloseOthers(h), t \notin loggedOut
          PROVE  handlers[h].token = t /\ handlers[h].work = "logout" /\ handlers[h].at = "closing"
      BY <1>5, <3>1 DEF CloseOthers, At
    <3>2. ASSUME NEW h \in Handlers, NEW work \in {"touch", "logout", "upgrade"}, StartRequest(h, work)
          PROVE  UNCHANGED loggedOut
      BY <3>2 DEF StartRequest
    <3> QED
      BY <1>5, <3>1, <3>2, GhostsWriters
  <2> QED
    BY <1>1, <1>3, <1>4, <2>1 DEF Revoked, LoggingOut
<1>6. CASE LoggingOut(t)'
  BY <1>2, <1>3, <1>4, <1>6 DEF Revoked, LoggingOut
<1> QED
  BY <1>5, <1>6 DEF Revoked

(* Nothing is tracked under a token that was logged out, but by a request that looks again. *)
LEMMA GoneKept == LoginsInv /\ [Next]_vars => GoneInv'
<1>1. SUFFICES ASSUME LoginsInv, [Next]_vars, NEW t \in issued', Revoked(t)'
               PROVE  Of(t)' = {} \/ Watch(t)'
  BY DEF GoneInv
<1>2. CASE Restart
  BY <1>2 DEF Restart, Of
<1>3. CASE ~Restart
  <2>1. /\ now \in Nat /\ issued \subseteq Tokens /\ issued' \subseteq Tokens /\ t \in Tokens /\ tracked \subseteq Used
        /\ HandlersType /\ ConnsType /\ GoneInv /\ LogoutInv /\ RequestsInv
        /\ \A c \in Used : conns[c].token \in issued /\ conns'[c].token = conns[c].token
        /\ \A c \in Conns : conns[c] = None => c \notin tracked
        /\ tracked' \subseteq Conns /\ Used \subseteq Conns
    BY <1>1, <1>3, IssuedGrows, UsedGrows, TrackerTyped
       DEF LoginsInv, StoreType, ConnsType, TrackerType, Used
  <2>2. ASSUME NEW c \in Of(t)', c \notin Of(t) PROVE Watch(t)'
    <3>1. c \in tracked' /\ c \in Conns /\ conns'[c].token = t /\ c \notin tracked
      BY <2>1, <2>2 DEF Of
    <3>2. PICK h \in Handlers : Track(h, c) /\ ~closed
      BY <1>1, <3>1, TrackedMoves
    <3>3. conns'[c] = [token |-> handlers[h].token, socket |-> "open", timer |-> handlers[h].deadline]
      BY <2>1, <3>1, <3>2 DEF Track, ConnsType
    <3>4. Go(h, "validate") /\ "validate" \in Steps
      BY <3>2 DEF Track, Steps
    <3>5. handlers'[h].at = "validate" /\ handlers'[h].token = handlers[h].token
      BY <2>1, <3>4, Gone
    <3>6. handlers'[h].token = t
      BY <3>1, <3>3, <3>5
    <3> QED
      BY <3>5, <3>6 DEF Watch
  <2>3. t \in issued /\ (Revoked(t) \/ \E h \in Handlers : Revoke(h, "saved") /\ handlers[h].token = t)
    BY <1>1, <1>3, <2>1, RevokedMoves
  <2>4. CASE \E h \in Handlers : Revoke(h, "saved") /\ handlers[h].token = t
    <3>1. PICK h \in Handlers : Revoke(h, "saved") /\ handlers[h].token = t
      BY <2>4
    <3>2. Go(h, "close token") /\ "close token" \in Steps
      BY <3>1 DEF Revoke, Steps
    <3>3. handlers'[h].at = "close token" /\ handlers'[h].token = t
      BY <2>1, <3>1, <3>2, Gone
    <3> QED
      BY <3>3 DEF Watch
  <2>5. CASE Revoked(t)
    <3>1. ~Known(t)
      BY <2>1, <2>5 DEF LogoutInv
    <3>2. CASE Of(t) = {}
      BY <2>2, <3>2
    <3>3. ASSUME NEW h \in Handlers, handlers[h].token = t, handlers[h].at \in {"validate", "close token"}
          PROVE  Of(t)' = {} \/ Watch(t)'
      <4>1. Moved(h)
        BY <1>1, <1>3, EachMoves
      <4>2. CASE handlers'[h] = handlers[h]
        BY <3>3, <4>2 DEF Watch
      <4>3. CASE TooLate(h)
        BY <3>3, <4>3 DEF TooLate, Keeps, Watch
      <4>4. CASE TakesOut(h)
        <5>1. tracked' = tracked \ Of(t)
          BY <3>3, <4>4 DEF TakesOut, CloseToken, Untrack
        <5>2. ASSUME NEW c \in Of(t)' PROVE FALSE
          BY <2>1, <5>1, <5>2 DEF Of
        <5> QED
          BY <5>2
      <4> QED
        BY <3>1, <3>3, <4>1, <4>2, <4>3, <4>4 DEF Moved, Rested, Started, Asked, Created, Found, Missed, Passed,
           Revokes, Tracks, Refuses, Extends, At
    <3> QED
      BY <2>3, <2>5, <2>1, <3>2, <3>3 DEF GoneInv, Watch
  <2> QED
    BY <2>3, <2>4, <2>5
<1> QED
  BY <1>2, <1>3

-----------------------------------------------------------------------------
(* The file and what was promised.                                          *)

(* What the file holds when it was replaced by a map. *)
Filed(m) == \A u \in Tokens : file'[u] = IF m[u] # None /\ m[u].remembered THEN m[u].expires ELSE None

(* What a creation does to the map and the file: it is saved, and all of it  *)
(* is in the map, or it fails, and the map has lost expired ones alone.      *)
Made(h, t, s, m) ==
    /\ s \in Session /\ s.remembered = handlers[h].remember
    /\ s.remembered => s.expires <= now + Remember /\ s.idleAt = s.expires
    /\ m \in [Tokens -> Session \cup {None}] /\ m[t] = None
    /\ \A u \in Tokens : (m[u] = sessions[u] \/ m[u] = None) /\ (Live(u, now) => m[u] = sessions[u])
    /\ issued' \in {issued, issued \cup {t}}
    /\ \A u \in Tokens : u # t => sessions'[u] = m[u] /\ promised'[u] = promised[u]
    /\ Deadline(s) <= latest'[t]
    /\ \/ /\ ~Full(m) /\ t \in issued' /\ sessions'[t] = s
          /\ IF handlers[h].remember THEN Filed(sessions') /\ promised'[t] = s.expires
                                     ELSE file' = file /\ promised'[t] = 0
       \/ /\ sessions'[t] = None /\ End(h) /\ promised'[t] = 0
          /\ \/ file' = file
             \/ /\ ~Full(m) /\ handlers[h].remember /\ t \in issued'
                /\ Filed([sessions' EXCEPT ![t] = s])

(* A creation, spelled out. *)
LEMMA CreateMoves ==
    ASSUME LoginsInv, NEW h \in Handlers, NEW t \in Tokens, NEW r \in Results, Create(h, t, r)
    PROVE  t \notin issued /\ \E s, m : Made(h, t, s, m)
<1>1. /\ t \notin issued /\ handlers[h].remember \in BOOLEAN /\ StoreType /\ promised \in [Tokens -> Nat]
      /\ issued \subseteq Tokens /\ SessionOk(t) /\ now \in Nat /\ handlers[h].since \in Nat
      /\ latest \in [Tokens -> Nat] /\ SessionsType
  BY NextTokenNew DEF Create, LoginsInv, StoreType, HandlersType, Handler, BrowserType, SessionsType
<1>2. PICK clock \in Readings(handlers[h]) : CreateAt(h, t, r, clock)
  BY DEF Create
<1>3. clock \in Nat /\ clock <= now
  BY <1>1, ReadingsTyped
<1> DEFINE s      == NewSession(handlers[h].remember, clock)
           pruned == WithoutExpired(clock)
           all    == [pruned EXCEPT ![t] = s]
<1>4. /\ s \in Session /\ s.remembered = handlers[h].remember
      /\ s.remembered => s.expires <= now + Remember /\ s.idleAt = s.expires
  <2>1. /\ s \in Session /\ s.remembered = handlers[h].remember
        /\ handlers[h].remember => s.expires = clock + Remember /\ s.idleAt = clock + Remember
    BY <1>1, <1>3, NewSessionTyped
  <2> HIDE DEF s
  <2> QED
    BY <1>1, <1>3, <2>1, LimitsAssumption
<1>5. /\ pruned \in [Tokens -> Session \cup {None}]
      /\ \A u \in Tokens : (pruned[u] = sessions[u] \/ pruned[u] = None) /\ (Live(u, now) => pruned[u] = sessions[u])
  <2>1. \A u \in Tokens : Live(u, now) => Live(u, clock)
    BY <1>1, <1>3, NotLiveLater
  <2> QED
    BY <1>1, <2>1, PrunedTyped
<1>6. pruned[t] = None
  BY <1>1, <1>5 DEF SessionOk, Known
<1>7. /\ all \in [Tokens -> Session \cup {None}] /\ all[t] = s
      /\ \A u \in Tokens : u # t => all[u] = pruned[u]
  <2> HIDE DEF s, pruned
  <2> QED
    BY <1>4, <1>5
<1>8. \A u \in Tokens : Saved(all)[u] = IF all[u] # None /\ all[u].remembered THEN all[u].expires ELSE None
  BY <1>7, SavedTyped
<1>9. /\ promised' = [promised EXCEPT ![t] = IF r = "saved" /\ handlers[h].remember THEN all[t].expires ELSE 0]
      /\ latest' = [latest EXCEPT ![t] = Larger(@, Deadline(all[t]))]
  BY <1>2 DEF CreateAt
<1>10. \/ /\ r = "saved" /\ ~Full(pruned) /\ issued' = issued \cup {t} /\ sessions' = all
          /\ \/ handlers[h].remember /\ file' = Saved(all)
             \/ ~handlers[h].remember /\ file' = file
       \/ /\ r = "failed" /\ sessions' = pruned /\ End(h)
          /\ \/ file' = file /\ issued' \in {issued, issued \cup {t}}
             \/ ~Full(pruned) /\ handlers[h].remember /\ issued' = issued \cup {t} /\ file' = Saved(all)
  <2>1. CASE Full(pruned)
    BY <1>2, <2>1 DEF CreateAt
  <2>2. CASE ~Full(pruned) /\ handlers[h].remember
    <3>1. CASE r = "saved"
      BY <1>2, <2>2, <3>1 DEF CreateAt, Persist
    <3>2. CASE r # "saved"
      BY <1>2, <2>2, <3>2 DEF CreateAt, Persist, Results
    <3> QED
      BY <3>1, <3>2
  <2>3. CASE ~Full(pruned) /\ ~handlers[h].remember
    BY <1>2, <2>3 DEF CreateAt
  <2> QED
    BY <2>1, <2>2, <2>3
<1>11. [pruned EXCEPT ![t] = s] = all
  OBVIOUS
<1> HIDE DEF all, s, pruned
<1>12. /\ \A u \in Tokens : u # t => promised'[u] = promised[u]
       /\ promised'[t] = IF r = "saved" /\ handlers[h].remember THEN s.expires ELSE 0
       /\ Deadline(s) <= latest'[t]
  <2>1. Deadline(s) \in Nat
    BY <1>4, DeadlineTyped
  <2>2. latest'[t] = Larger(latest[t], Deadline(s))
    BY <1>1, <1>7, <1>9
  <2> QED
    BY <1>1, <1>7, <1>9, <2>1, <2>2, LargerIs
<1>13. CASE /\ r = "saved" /\ ~Full(pruned) /\ issued' = issued \cup {t} /\ sessions' = all
            /\ \/ handlers[h].remember /\ file' = Saved(all)
               \/ ~handlers[h].remember /\ file' = file
  <2>1. t \in issued' /\ sessions'[t] = s /\ \A u \in Tokens : u # t => sessions'[u] = pruned[u]
    BY <1>7, <1>13
  <2>2. handlers[h].remember => Filed(sessions')
    BY <1>8, <1>13 DEF Filed
  <2>3. Made(h, t, s, pruned)
    BY <1>4, <1>5, <1>6, <1>12, <1>13, <2>1, <2>2 DEF Made
  <2> QED
    BY <1>1, <2>3
<1>14. CASE /\ r = "failed" /\ sessions' = pruned /\ End(h)
            /\ \/ file' = file /\ issued' \in {issued, issued \cup {t}}
               \/ ~Full(pruned) /\ handlers[h].remember /\ issued' = issued \cup {t} /\ file' = Saved(all)
  <2>1. [sessions' EXCEPT ![t] = s] = all
    BY <1>11, <1>14
  <2>2. file' = Saved(all) => Filed([sessions' EXCEPT ![t] = s])
    BY <1>8, <2>1 DEF Filed
  <2>3. promised'[t] = 0 /\ sessions'[t] = None /\ \A u \in Tokens : u # t => sessions'[u] = pruned[u]
    BY <1>6, <1>12, <1>14
  <2>4. Made(h, t, s, pruned)
    BY <1>4, <1>5, <1>6, <1>12, <1>14, <2>2, <2>3 DEF Made
  <2> QED
    BY <1>1, <2>4
<1> QED
  BY <1>10, <1>13, <1>14

(* What a deletion does to the map and the file: both lose the session, or    *)
(* the map keeps it because the file could not be written, or need not be.    *)
LEMMA RevokeMoves ==
    ASSUME LoginsInv, NEW h \in Handlers, NEW r \in Results, Revoke(h, r)
    PROVE  LET t == handlers[h].token
               without == [sessions EXCEPT ![t] = None]
           IN  /\ t \in Tokens /\ t \in goneFor
               /\ \/ /\ r = "saved" /\ sessions' = without
                     /\ \/ file' = file /\ (Known(t) => ~sessions[t].remembered)
                        \/ Filed(without)
                  \/ r = "failed" /\ sessions' = sessions /\ (file' = file \/ Filed(without))
<1> DEFINE t == handlers[h].token
           without == [sessions EXCEPT ![t] = None]
<1>1. t \in Tokens /\ t \in goneFor /\ StoreType
  BY DEF LoginsInv, HandlersType, HoldingsOk, ProgressOk, TokenSteps, Revoke, At, StoreType
<1>2. without \in [Tokens -> Session \cup {None}]
  BY <1>1 DEF StoreType
<1>3. \A u \in Tokens : Saved(without)[u] = IF without[u] # None /\ without[u].remembered THEN without[u].expires ELSE None
  BY <1>2, SavedTyped
<1>4. Delete(t, r)
  BY DEF Revoke
<1> HIDE DEF t
<1>5. CASE t \notin Remembered(sessions) /\ r = "saved" /\ sessions' = without /\ file' = file
  BY <1>1, <1>5 DEF Remembered, Known, t
<1>6. CASE Persist(without, r) /\ sessions' = IF r = "saved" THEN without ELSE sessions
  <2>1. ASSUME file' = Saved(without) PROVE Filed(without)
    <3> HIDE DEF without
    <3> QED
      BY <1>3, <2>1 DEF Filed
  <2>2. CASE r = "saved"
    <3>1. file' = Saved(without)
      BY <1>6, <2>2 DEF Persist
    <3> QED
      BY <1>1, <1>6, <2>1, <2>2, <3>1 DEF t
  <2>3. CASE r # "saved"
    <3>1. r = "failed" /\ (file' = file \/ file' = Saved(without))
      BY <1>6, <2>3 DEF Persist, Results
    <3> QED
      BY <1>1, <1>6, <2>1, <2>3, <3>1 DEF t
  <2> QED
    BY <2>2, <2>3
<1> QED
  BY <1>4, <1>5, <1>6 DEF Delete

(* A restart makes of the file's rows the sessions that have not expired. *)
LEMMA RestartMoves ==
    ASSUME LoginsInv, Restart, NEW t \in Tokens
    PROVE  /\ ~Restored(t) => sessions'[t] = None /\ file'[t] = None
           /\ Restored(t) => /\ file'[t] = file[t] /\ file[t] \in Nat /\ file[t] > now
                             /\ sessions'[t] = [expires |-> file[t], idleAt |-> file[t], idle |-> Remember,
                                                remembered |-> TRUE]
           /\ now' = now
BY LoadedTyped DEF LoginsInv, StoreType, FileType, Restart, Restored

(* A token that no browser was given is never given. *)
LEMMA LostStays ==
    ASSUME LoginsInv, [Next]_vars, NEW t \in issued, Lost(t)
    PROVE  Lost(t)'
<1>1. /\ t \in Tokens /\ t \notin cookies /\ t \notin goneFor /\ promised[t] = 0 /\ \A h \in Handlers : handlers[h].token # t
      /\ \A h \in Handlers : ProgressOk(handlers[h])
  BY DEF Lost, LoginsInv, StoreType, HandlersType
<1>2. t \notin cookies'
  BY <1>1, CookieWriters DEF Answer, CloseOthers
<1>3. \A h \in Handlers : handlers'[h].token # t
  <2>1. CASE Restart
    BY <1>1, <2>1, RestingIs, NoneAssumption DEF Restart
  <2>2. ASSUME ~Restart, NEW h \in Handlers, handlers'[h].token = t PROVE FALSE
    <3>1. Moved(h)
      BY <2>2, EachMoves
    <3> QED
      BY <1>1, <2>2, <3>1, RestingIs, NoneAssumption DEF Moved, Rested, Started, Asked, Created, Found, Missed, Passed,
         Revokes, TooLate, Tracks, TakesOut, Refuses, Extends, Keeps
  <2> QED
    BY <2>1, <2>2
<1>4. t \notin goneFor'
  <2>1. ASSUME NEW h \in Handlers, NEW work \in {"touch", "logout", "upgrade"}, StartRequest(h, work)
        PROVE  t \notin goneFor'
    BY <1>1, <1>3, <2>1 DEF StartRequest
  <2>2. ASSUME NEW h \in Handlers, CloseOthers(h) PROVE goneFor' = goneFor
    BY <2>2 DEF CloseOthers
  <2> QED
    BY <1>1, <2>1, <2>2, GhostsWriters
<1>5. promised'[t] = 0
  <2>1. ASSUME NEW h \in Handlers, NEW u \in Tokens, NEW r \in Results, Create(h, u, r) PROVE promised'[t] = 0
    <3>1. PICK s, m : Made(h, u, s, m)
      BY <1>1, <2>1, CreateMoves
    <3>2. u # t
      BY <1>1, <2>1, CreateMoves
    <3> QED
      BY <1>1, <3>1, <3>2 DEF Made
  <2> QED
    BY <1>1, <2>1, IssuedWriters
<1> QED
  BY <1>1, <1>2, <1>3, <1>4, <1>5 DEF Lost

(* A session that the file backs lives on in both, but for its logout. *)
LEMMA BackedStays ==
    ASSUME LoginsInv, [Next]_vars, NEW t \in Tokens, Restored(t), Backed(t)
    PROVE  \/ Backed(t)' /\ file'[t] = file[t]
           \/ t \in goneFor /\ file'[t] = None
<1>1. /\ sessions[t] \in Session /\ sessions[t] # None /\ sessions[t].remembered /\ sessions[t].expires = file[t]
      /\ now < file[t] /\ file[t] # None /\ Live(t, now) /\ t \in issued /\ StoreType
  BY DEF Restored, Backed, Known, LoginsInv, StoreType, SessionOk, Live, Session
<1>2. ASSUME sessions'[t] = sessions[t], file'[t] = file[t] PROVE Backed(t)' /\ file'[t] = file[t]
  BY <1>1, <1>2 DEF Backed, Known
<1>3. ASSUME NEW h \in Handlers, NEW u \in Tokens, NEW r \in Results, Create(h, u, r) PROVE sessions'[t] = sessions[t] /\ file'[t] = file[t]
  <2>1. PICK s, m : Made(h, u, s, m)
    BY <1>1, <1>3, CreateMoves
  <2>2. u # t /\ sessions'[t] = sessions[t]
    <3>1. u # t
      BY <1>1, <1>3, CreateMoves
    <3> QED
      BY <1>1, <2>1, <3>1 DEF Made
  <2>3. CASE file' = file
    BY <2>2, <2>3
  <2>4. CASE Filed(sessions')
    BY <1>1, <2>2, <2>4 DEF Filed
  <2>5. CASE Filed([sessions' EXCEPT ![u] = s])
    <3>1. [sessions' EXCEPT ![u] = s][t] = sessions'[t]
      <4>1. t \in DOMAIN sessions'
        BY <1>3, StoreTyped DEF StoreType
      <4> QED
        BY <2>2, <4>1
    <3> QED
      BY <1>1, <2>2, <2>5, <3>1 DEF Filed
  <2> QED
    BY <2>1, <2>2, <2>3, <2>4, <2>5 DEF Made
<1>4. ASSUME NEW h \in Handlers, NEW r \in Results, Revoke(h, r)
      PROVE  \/ sessions'[t] = sessions[t] /\ file'[t] = file[t]
             \/ t \in goneFor /\ file'[t] = None
  <2> DEFINE without == [sessions EXCEPT ![handlers[h].token] = None]
  <2>1. /\ handlers[h].token \in Tokens /\ handlers[h].token \in goneFor
        /\ \/ /\ r = "saved" /\ sessions' = without
              /\ \/ file' = file /\ (Known(handlers[h].token) => ~sessions[handlers[h].token].remembered)
                 \/ Filed(without)
           \/ r = "failed" /\ sessions' = sessions /\ (file' = file \/ Filed(without))
    BY <1>4, RevokeMoves
  <2>2. without[t] = IF t = handlers[h].token THEN None ELSE sessions[t]
    BY <1>1, <2>1 DEF StoreType
  <2>3. Filed(without) => file'[t] = IF t = handlers[h].token THEN None ELSE file[t]
    <3> HIDE DEF without
    <3> QED
      BY <1>1, <2>2 DEF Filed
  <2> HIDE DEF without
  <2>4. CASE t # handlers[h].token
    BY <2>1, <2>2, <2>3, <2>4
  <2>5. CASE t = handlers[h].token
    BY <1>1, <2>1, <2>3, <2>5 DEF Known
  <2> QED
    BY <2>4, <2>5
<1>5. CASE Restart
  <2>1. /\ file'[t] = file[t]
        /\ sessions'[t] = [expires |-> file[t], idleAt |-> file[t], idle |-> Remember, remembered |-> TRUE]
    BY <1>5, RestartMoves
  <2>2. sessions'[t] \in Session
    <3>1. file[t] \in Nat
      BY <1>5, RestartMoves
    <3> QED
      BY <2>1, <3>1, LimitsAssumption DEF Session
  <2>3. sessions'[t] # None
    BY <2>2, NoneAssumption
  <2>4. sessions'[t].remembered /\ sessions'[t].expires = file[t]
    BY <2>1
  <2> QED
    BY <2>1, <2>3, <2>4 DEF Backed, Known
<1>6. CASE UNCHANGED file
  <2>1. CASE ~Restart
    <3>1. SessionMoved(t)
      BY <2>1, SessionsMove DEF LoginsInv
    <3>2. CASE Extended(t)
      <4>1. PICK clock \in 0 .. now : sessions'[t] = Refreshed(sessions[t], clock)
        BY <3>2 DEF Extended
      <4>2. /\ sessions'[t] \in Session /\ sessions'[t].expires = sessions[t].expires
            /\ sessions'[t].remembered = sessions[t].remembered
        <5>1. clock \in Nat
          BY <1>1 DEF StoreType
        <5> QED
          BY <1>1, <4>1, <5>1, RefreshedTyped
      <4> QED
        BY <1>1, <1>6, <4>2, NoneAssumption DEF Backed, Known
    <3>3. CASE Removed(t)
      <4>1. PICK h \in Handlers : Revoke(h, "saved") /\ handlers[h].token = t
        BY <3>3 DEF Removed
      <4>2. "saved" \in Results
        BY DEF Results
      <4> QED
        BY <1>2, <1>4, <4>1, <4>2
    <3> QED
      BY <1>1, <1>2, <1>6, <3>1, <3>2, <3>3 DEF SessionMoved
  <2> QED
    BY <1>5, <2>1
<1> QED
  BY <1>2, <1>3, <1>4, <1>5, <1>6, FileWriters

(* What the file has after a step it had before, or a session of the map backs it, *)
(* or it is the token of a login that could not be answered.                        *)
LEMMA FileGains ==
    ASSUME LoginsInv, [Next]_vars, NEW t \in Tokens, file'[t] # None
    PROVE  file'[t] = file[t] \/ Backed(t)' \/ (Lost(t)' /\ t \notin issued)
<1>1. StoreType /\ HandlersType /\ cookies \subseteq issued /\ goneFor \subseteq issued
  BY DEF LoginsInv, BrowserType
<1>2. ASSUME NEW h \in Handlers, NEW u \in Tokens, NEW r \in Results, Create(h, u, r)
      PROVE  file'[t] = file[t] \/ Backed(t)' \/ (Lost(t)' /\ t \notin issued)
  <2>0. PICK s, m : Made(h, u, s, m)
    BY <1>2, CreateMoves
  <2>1. CASE file' = file
    BY <2>1
  <2>2. CASE Filed(sessions')
    BY <2>2 DEF Filed, Backed, Known
  <2>3. CASE sessions'[u] = None /\ End(h) /\ promised'[u] = 0 /\ Filed([sessions' EXCEPT ![u] = s])
    <3>0. DOMAIN sessions' = Tokens
      BY StoreTyped DEF StoreType
    <3>1. CASE t # u
      <4>1. [sessions' EXCEPT ![u] = s][t] = sessions'[t]
        BY <3>0, <3>1
      <4> QED
        BY <2>3, <4>1 DEF Filed, Backed, Known
    <3>2. CASE t = u
      <4>1. t \notin issued
        BY <1>2, <3>2, CreateMoves
      <4>2. cookies' = cookies /\ goneFor' = goneFor
        BY <1>2 DEF Create
      <4>3. \A g \in Handlers : handlers'[g].token # t
        BY <1>1, <2>3, <4>1, Ended, NoneAssumption DEF Others, HandlersType, HoldingsOk
      <4> QED
        BY <1>1, <2>3, <3>2, <4>1, <4>2, <4>3 DEF Lost
    <3> QED
      BY <3>1, <3>2
  <2> QED
    BY <1>1, <2>0, <2>1, <2>2, <2>3 DEF Made
<1>3. ASSUME NEW h \in Handlers, NEW r \in Results, Revoke(h, r) PROVE file'[t] = file[t] \/ Backed(t)'
  <2> DEFINE without == [sessions EXCEPT ![handlers[h].token] = None]
  <2>1. /\ handlers[h].token \in Tokens
        /\ sessions' = without \/ sessions' = sessions
        /\ file' = file \/ Filed(without)
    BY <1>3, RevokeMoves
  <2>2. without[t] = None \/ without[t] = sessions[t]
    BY <1>1, <2>1 DEF StoreType
  <2> HIDE DEF without
  <2> QED
    BY <2>1, <2>2 DEF Filed, Backed, Known
<1>4. CASE Restart
  BY <1>4, RestartMoves
<1> QED
  BY <1>2, <1>3, <1>4, FileWriters

(* What a start would restore is in the map too, or nobody was given it. *)
LEMMA FileFollowsKept == LoginsInv /\ [Next]_vars => FileFollows'
<1>1. SUFFICES ASSUME LoginsInv, [Next]_vars, NEW t \in Tokens, Restored(t)' PROVE Backed(t)' \/ Lost(t)'
  BY DEF FileFollows
<1>2. now \in Nat /\ now' \in Nat /\ now <= now' /\ file'[t] # None /\ now' < file'[t] /\ StoreType /\ FileOk(t) /\ FileFollows
  BY <1>1, ClockMoves DEF LoginsInv, StoreType, Restored
<1>3. CASE file'[t] = file[t]
  <2>1. Restored(t) /\ t \in issued
    BY <1>2, <1>3 DEF Restored, StoreType, FileOk
  <2>2. CASE Lost(t)
    BY <1>1, <2>1, <2>2, LostStays
  <2>3. CASE Backed(t)
    BY <1>1, <1>2, <2>1, <2>3, BackedStays
  <2> QED
    BY <1>2, <2>1, <2>2, <2>3 DEF FileFollows
<1> QED
  BY <1>1, <1>2, <1>3, FileGains

(* A remembered cookie has its session in the map and in the file, until its logout. *)
LEMMA PromiseKept == LoginsInv /\ [Next]_vars => PromiseInv'
<1>1. SUFFICES ASSUME LoginsInv, [Next]_vars, NEW t \in Tokens
               PROVE  /\ promised'[t] > 0 => t \in issued'
                      /\ promised'[t] > now' /\ t \notin goneFor' => Backed(t)' /\ file'[t] = promised'[t]
  BY DEF PromiseInv
<1>2. /\ now \in Nat /\ now' \in Nat /\ now <= now' /\ StoreType /\ PromiseInv /\ issued \subseteq issued'
      /\ goneFor \subseteq goneFor' /\ promised \in [Tokens -> Nat]
  BY <1>1, ClockMoves, IssuedGrows, GoneForGrows DEF LoginsInv, StoreType, BrowserType
<1>3. ASSUME promised'[t] = promised[t]
      PROVE  /\ promised'[t] > 0 => t \in issued'
             /\ promised'[t] > now' /\ t \notin goneFor' => Backed(t)' /\ file'[t] = promised'[t]
  <2>1. promised'[t] > 0 => t \in issued'
    BY <1>2, <1>3 DEF PromiseInv
  <2>2. ASSUME promised'[t] > now', t \notin goneFor' PROVE Backed(t)' /\ file'[t] = promised'[t]
    <3>1. promised[t] > now /\ t \notin goneFor
      BY <1>2, <1>3, <2>2
    <3>2. Backed(t) /\ file[t] = promised[t]
      BY <1>2, <3>1 DEF PromiseInv
    <3>3. Restored(t)
      BY <1>2, <3>1, <3>2, NoneAssumption DEF Restored
    <3> QED
      BY <1>1, <1>3, <3>1, <3>2, <3>3, BackedStays
  <2> QED
    BY <2>1, <2>2
<1>4. ASSUME NEW h \in Handlers, NEW r \in Results, Create(h, t, r), promised'[t] # 0
      PROVE  t \in issued' /\ Backed(t)' /\ file'[t] = promised'[t]
  <2>0. PICK s, m : Made(h, t, s, m)
    BY <1>1, <1>4, CreateMoves
  <2>1. /\ t \in issued' /\ sessions'[t] = s /\ handlers[h].remember /\ Filed(sessions') /\ promised'[t] = s.expires
        /\ s \in Session /\ s.remembered
    BY <1>4, <2>0 DEF Made
  <2>2. sessions'[t] # None
    BY <2>1, NoneAssumption
  <2>3. file'[t] = s.expires
    BY <2>1, <2>2 DEF Filed
  <2> QED
    BY <2>1, <2>2, <2>3 DEF Backed, Known
<1>5. promised' \in [Tokens -> Nat]
  BY <1>1, BrowserTyped DEF BrowserType
<1>6. ASSUME NEW h \in Handlers, NEW u \in Tokens, NEW r \in Results, Create(h, u, r)
      PROVE  promised'[t] = promised[t] \/ u = t
  <2>1. PICK s, m : Made(h, u, s, m)
    BY <1>1, <1>6, CreateMoves
  <2> QED
    BY <2>1 DEF Made
<1> QED
  BY <1>1, <1>2, <1>3, <1>4, <1>5, <1>6, IssuedWriters

(* A token whose session is gone from the map and from the file is back in neither. *)
LEMMA NoReturn ==
    ASSUME LoginsInv, [Next]_vars, NEW t \in issued, ~Known(t), ~Restored(t)
    PROVE  ~Known(t)' /\ ~Restored(t)'
<1>1. t \in Tokens /\ now \in Nat /\ now' \in Nat /\ now <= now' /\ StoreType /\ StoreType'
  BY ClockMoves, StoreTyped DEF LoginsInv, StoreType
<1>2. ~Known(t)'
  <2>1. CASE Restart
    BY <1>1, <2>1, RestartMoves DEF Known
  <2>2. CASE ~Restart
    BY <1>1, <2>2, ExpiryStays DEF Known
  <2> QED
    BY <2>1, <2>2
<1>3. ~Restored(t)'
  <2>1. SUFFICES ASSUME Restored(t)' PROVE FALSE
    OBVIOUS
  <2>2. file'[t] # None /\ now' < file'[t]
    BY <2>1 DEF Restored
  <2>3. file'[t] = file[t]
    BY <1>1, <1>2, <2>2, FileGains DEF Backed
  <2> QED
    BY <1>1, <2>2, <2>3 DEF Restored, StoreType
<1> QED
  BY <1>2, <1>3

(* A logout that was saved is for good. *)
LEMMA LogoutKept == LoginsInv /\ [Next]_vars => LogoutInv'
<1>1. SUFFICES ASSUME LoginsInv, [Next]_vars, NEW t \in Tokens, Revoked(t)' PROVE ~Known(t)' /\ ~Restored(t)'
  BY DEF LogoutInv
<1>2. /\ StoreType /\ LogoutInv /\ FileFollows /\ loggedOut \subseteq issued /\ now \in Nat /\ now' \in Nat /\ now <= now'
  BY <1>1, ClockMoves DEF LoginsInv, BrowserType, StoreType
<1>3. ASSUME t \in issued, Revoked(t) PROVE ~Known(t)' /\ ~Restored(t)'
  BY <1>1, <1>2, <1>3, NoReturn DEF LogoutInv
<1>4. CASE Restart
  <2>1. t \in loggedOut
    <3>1. \A h \in Handlers : handlers'[h] = Resting
      BY <1>4 DEF Restart
    <3>2. ~LoggingOut(t)'
      BY <3>1, RestingIs DEF LoggingOut
    <3> QED
      BY <1>1, <1>4, <3>2 DEF Revoked, Restart
  <2> QED
    BY <1>2, <1>3, <2>1 DEF Revoked
<1>5. ASSUME NEW h \in Handlers, Revoke(h, "saved"), handlers[h].token = t PROVE ~Known(t)' /\ ~Restored(t)'
  <2> DEFINE without == [sessions EXCEPT ![t] = None]
  <2>1. "saved" \in Results
    BY DEF Results
  <2>2. /\ sessions' = without /\ t \in goneFor
        /\ \/ file' = file /\ (Known(t) => ~sessions[t].remembered)
           \/ Filed(without)
    BY <1>1, <1>5, <2>1, RevokeMoves
  <2>3. without[t] = None
    BY <1>2 DEF StoreType
  <2> HIDE DEF without
  <2>4. ~Known(t)'
    BY <2>2, <2>3 DEF Known
  <2>5. CASE Filed(without)
    BY <2>3, <2>4, <2>5 DEF Filed, Restored
  <2>6. CASE file' = file /\ (Known(t) => ~sessions[t].remembered)
    <3>1. ~Restored(t)
      BY <1>2, <2>2, <2>6 DEF FileFollows, Backed, Lost
    <3> QED
      BY <1>2, <2>4, <2>6, <3>1 DEF Restored, StoreType
  <2> QED
    BY <2>2, <2>5, <2>6
<1> QED
  BY <1>1, <1>3, <1>4, <1>5, RevokedMoves

(* No remembered session is saved for longer than its lifetime, or for a token never issued. *)
LEMMA FileKept == LoginsInv /\ [Next]_vars => \A t \in Tokens : FileOk(t)'
<1>1. SUFFICES ASSUME LoginsInv, [Next]_vars, NEW t \in Tokens, file'[t] # None
               PROVE  t \in issued' /\ file'[t] <= now' + Remember
  BY DEF FileOk
<1>2. /\ now \in Nat /\ now' \in Nat /\ now <= now' /\ issued \subseteq issued' /\ FileOk(t) /\ StoreType /\ StoreType'
      /\ SessionOk(t)'
  BY <1>1, ClockMoves, IssuedGrows, StoreTyped, SessionKept DEF LoginsInv, StoreType
<1>3. CASE file'[t] = file[t]
  BY <1>1, <1>2, <1>3, LimitsAssumption DEF FileOk, StoreType
<1>4. CASE Backed(t)'
  BY <1>2, <1>4 DEF Backed, SessionOk, Known
<1>5. CASE t \notin issued /\ file'[t] # file[t] /\ ~Backed(t)'
  <2>1. ASSUME NEW h \in Handlers, NEW u \in Tokens, NEW r \in Results, Create(h, u, r)
        PROVE  t \in issued' /\ file'[t] <= now' + Remember
    <3>0. PICK s, m : Made(h, u, s, m)
      BY <1>1, <2>1, CreateMoves
    <3>1. /\ issued' \in {issued, issued \cup {u}} /\ s \in Session /\ now' = now
          /\ handlers[h].remember => s.expires <= now + Remember
      BY <2>1, <3>0 DEF Create, Made
    <3>2. /\ handlers[h].remember /\ u \in issued' /\ Filed([sessions' EXCEPT ![u] = s])
      <4>1. ~Filed(sessions')
        BY <1>1, <1>5 DEF Filed, Backed, Known
      <4> QED
        BY <1>1, <1>5, <3>0, <4>1 DEF Made
    <3>3. t = u
      <4>1. t # u => [sessions' EXCEPT ![u] = s][t] = sessions'[t]
        BY <1>2 DEF StoreType
      <4> QED
        BY <1>1, <1>5, <3>2, <4>1 DEF Filed, Backed, Known
    <3>4. [sessions' EXCEPT ![u] = s][t] = s
      BY <1>2, <3>3 DEF StoreType
    <3>5. file'[t] = s.expires
      BY <1>1, <3>2, <3>4 DEF Filed
    <3> QED
      BY <1>2, <3>1, <3>2, <3>3, <3>5, LimitsAssumption DEF Session
  <2>2. ASSUME NEW h \in Handlers, NEW r \in Results, Revoke(h, r) PROVE FALSE
    <3> DEFINE without == [sessions EXCEPT ![handlers[h].token] = None]
    <3>1. handlers[h].token \in Tokens /\ (sessions' = without \/ sessions' = sessions) /\ (file' = file \/ Filed(without))
      BY <1>1, <2>2, RevokeMoves
    <3>2. without[t] = None \/ without[t] = sessions[t]
      BY <1>2, <3>1 DEF StoreType
    <3> HIDE DEF without
    <3> QED
      BY <1>1, <1>5, <3>1, <3>2 DEF Filed, Backed, Known
  <2>3. ~Restart
    BY <1>1, <1>5, RestartMoves
  <2> QED
    BY <1>1, <1>5, <2>1, <2>2, <2>3, FileWriters
<1> QED
  BY <1>1, <1>3, <1>4, <1>5, FileGains

(* The tokens that a map has something for. *)
Rows(m) == {t \in Tokens : m[t] # None}

(* A map has finitely many entries. *)
LEMMA RowsFinite ==
    ASSUME NEW m
    PROVE  IsFiniteSet(Rows(m)) /\ Cardinality(Rows(m)) \in Nat
<1>1. Rows(m) \subseteq Tokens
  BY DEF Rows
<1>2. IsFiniteSet(Rows(m))
  BY <1>1, BoundsAssumption, FS_Subset
<1> QED
  BY <1>2, FS_CardinalityType

(* A map with no entry that a small one lacks is small. *)
LEMMA RowsBound ==
    ASSUME NEW m, NEW n, Rows(m) \subseteq Rows(n), Cardinality(Rows(n)) <= Capacity
    PROVE  Cardinality(Rows(m)) <= Capacity
<1>1. Cardinality(Rows(m)) <= Cardinality(Rows(n))
  BY RowsFinite, FS_Subset
<1> QED
  BY <1>1, RowsFinite, LimitsAssumption

(* The store and its file take at most so many sessions, so a start is never refused. *)
LEMMA CapacityKept == LoginsInv /\ [Next]_vars => CapacityInv'
<1>1. SUFFICES ASSUME LoginsInv, [Next]_vars PROVE CapacityInv'
  OBVIOUS
<1>2. /\ StoreType /\ StoreType' /\ Capacity \in Nat /\ IsFiniteSet(Tokens) /\ ~refused
      /\ Cardinality(Rows(sessions)) <= Capacity /\ Cardinality(Rows(file)) <= Capacity
  BY <1>1, StoreTyped, BoundsAssumption, LimitsAssumption DEF LoginsInv, CapacityInv, Count, Rows
<1>3. /\ Count(sessions') = Cardinality(Rows(sessions')) /\ Count(Loaded) = Cardinality(Rows(Loaded))
      /\ Cardinality({t \in Tokens : file'[t] # None}) = Cardinality(Rows(file'))
      /\ \A m : Count(m) = Cardinality(Rows(m))
  BY DEF Count, Rows
<1>4. ASSUME Cardinality(Rows(sessions')) <= Capacity, Cardinality(Rows(file')) <= Capacity, ~refused' PROVE CapacityInv'
  BY <1>3, <1>4 DEF CapacityInv, Count
<1>5. ASSUME NEW h \in Handlers, NEW u \in Tokens, NEW r \in Results, Create(h, u, r)
      PROVE  Cardinality(Rows(sessions')) <= Capacity /\ Cardinality(Rows(file')) <= Capacity
  <2>1. PICK s, m : Made(h, u, s, m)
    BY <1>1, <1>5, CreateMoves
  <2>2. \A t \in Tokens : m[t] = None \/ m[t] = sessions[t]
    BY <2>1 DEF Made
  <2>3. /\ \A t \in Tokens : t # u => sessions'[t] = m[t]
        /\ \/ ~Full(m) /\ (Filed(sessions') \/ file' = file)
           \/ /\ sessions'[u] = None
              /\ file' = file \/ (~Full(m) /\ Filed([sessions' EXCEPT ![u] = s]))
    BY <2>1 DEF Made
  <2>4. Rows(sessions') \subseteq Rows(m) \cup {u}
    BY <2>3 DEF Rows
  <2>5. ASSUME ~Full(m), NEW n, Rows(n) \subseteq Rows(m) \cup {u}
        PROVE  Cardinality(Rows(n)) <= Capacity
    <3> DEFINE W == Rows(m)
    <3>1. Cardinality(W) < Capacity /\ Cardinality(W) \in Nat /\ IsFiniteSet(W)
      BY <1>2, <1>3, <2>5, RowsFinite DEF Full
    <3> HIDE DEF W
    <3>2. IsFiniteSet(W \cup {u}) /\ Cardinality(W \cup {u}) <= Cardinality(W) + 1 /\ Cardinality(W \cup {u}) \in Nat
      <4>1. IsFiniteSet(W \cup {u}) /\ (Cardinality(W \cup {u}) = Cardinality(W) \/ Cardinality(W \cup {u}) = Cardinality(W) + 1)
        BY <3>1, FS_AddElement
      <4> QED
        BY <3>1, <4>1
    <3>3. Cardinality(Rows(n)) <= Cardinality(W \cup {u})
      BY <2>5, <3>2, FS_Subset, RowsFinite DEF W
    <3> QED
      BY <1>2, <3>1, <3>2, <3>3, RowsFinite
  <2>6. ASSUME sessions'[u] = None PROVE Cardinality(Rows(sessions')) <= Capacity
    <3>1. Rows(sessions') \subseteq Rows(sessions)
      BY <2>2, <2>3, <2>6 DEF Rows
    <3> QED
      BY <1>2, <3>1, RowsBound
  <2>7. ASSUME ~Full(m), Filed(sessions') PROVE Cardinality(Rows(file')) <= Capacity
    <3>1. Rows(file') \subseteq Rows(sessions')
      BY <2>7 DEF Filed, Rows
    <3> QED
      BY <2>4, <2>5, <2>7, <3>1
  <2>8. ASSUME ~Full(m), sessions'[u] = None, Filed([sessions' EXCEPT ![u] = s])
        PROVE  Cardinality(Rows(file')) <= Capacity
    <3>1. \A t \in Tokens : t # u => [sessions' EXCEPT ![u] = s][t] = sessions'[t]
      BY <1>2 DEF StoreType
    <3>2. Rows(file') \subseteq Rows(sessions') \cup {u}
      BY <2>8, <3>1 DEF Filed, Rows
    <3> QED
      BY <2>4, <2>5, <2>8, <3>2
  <2> QED
    BY <1>2, <2>3, <2>4, <2>5, <2>6, <2>7, <2>8
<1>6. ASSUME NEW h \in Handlers, NEW r \in Results, Revoke(h, r)
      PROVE  Cardinality(Rows(sessions')) <= Capacity /\ Cardinality(Rows(file')) <= Capacity
  <2> DEFINE without == [sessions EXCEPT ![handlers[h].token] = None]
  <2>1. handlers[h].token \in Tokens /\ (sessions' = without \/ sessions' = sessions) /\ (file' = file \/ Filed(without))
    BY <1>1, <1>6, RevokeMoves
  <2>2. Rows(without) \subseteq Rows(sessions)
    BY <1>2, <2>1 DEF StoreType, Rows
  <2> HIDE DEF without
  <2>3. Filed(without) => Rows(file') \subseteq Rows(without)
    BY DEF Filed, Rows
  <2>4. Cardinality(Rows(without)) <= Capacity
    BY <1>2, <2>2, RowsBound
  <2>5. Filed(without) => Cardinality(Rows(file')) <= Capacity
    BY <2>3, <2>4, RowsBound
  <2> QED
    BY <1>2, <2>1, <2>4, <2>5
<1>7. CASE Restart
  <2>1. Rows(Loaded) \subseteq Rows(file) /\ Rows(file') \subseteq Rows(file)
    <3>1. \A t \in Tokens : Loaded[t] # None => file[t] # None
      BY <1>2, LoadedTyped DEF StoreType, FileType, Restored
    <3> QED
      BY <1>1, <1>7, <3>1, RestartMoves DEF Restored, Rows
  <2>2. Cardinality(Rows(Loaded)) <= Capacity /\ Cardinality(Rows(file')) <= Capacity
    BY <1>2, <2>1, RowsBound
  <2>3. ~refused'
    <3>1. ~(Count(Loaded) > Capacity)
      BY <1>2, <1>3, <2>2, RowsFinite
    <3>2. refused' = (refused \/ Count(Loaded) > Capacity)
      BY <1>7 DEF Restart
    <3> QED
      BY <1>2, <3>1, <3>2, Zenon
  <2> QED
    BY <1>4, <1>7, <2>2, <2>3 DEF Restart
<1>8. CASE ~Restart
  <2>1. ~refused'
    BY <1>1, <1>2, <1>8, RefusedWriters
  <2>2. CASE UNCHANGED file
    <3>1. CASE \E h \in Handlers, u \in Tokens, r \in Results : Create(h, u, r)
      BY <1>4, <1>5, <2>1, <3>1
    <3>2. CASE ~\E h \in Handlers, u \in Tokens, r \in Results : Create(h, u, r)
      <4>1. ASSUME NEW t \in Tokens, sessions[t] = None PROVE sessions'[t] = None
        <5>1. SessionMoved(t)
          BY <1>1, <1>8, SessionsMove DEF LoginsInv
        <5>2. issued' = issued
          BY <1>1, <3>2, IssuedWriters
        <5> QED
          BY <4>1, <5>1, <5>2 DEF SessionMoved, Extended, Live, Known
      <4>2. Rows(sessions') \subseteq Rows(sessions)
        BY <4>1 DEF Rows
      <4>3. Cardinality(Rows(sessions')) <= Capacity
        BY <1>2, <4>2, RowsBound
      <4> QED
        BY <1>2, <1>4, <2>1, <2>2, <4>3
    <3> QED
      BY <3>1, <3>2
  <2>3. CASE ~UNCHANGED file
    BY <1>1, <1>4, <1>5, <1>6, <1>8, <2>1, <2>3, FileWriters
  <2> QED
    BY <2>2, <2>3
<1> QED
  BY <1>7, <1>8

(* No session, and no row of the file, is later than the latest deadline it had. *)
LEMMA LatestKept == LoginsInv /\ [Next]_vars => LatestInv'
<1>1. SUFFICES ASSUME LoginsInv, [Next]_vars, NEW t \in Tokens
               PROVE  /\ sessions'[t] # None => Deadline(sessions'[t]) <= latest'[t]
                      /\ file'[t] # None => file'[t] <= latest'[t]
  BY DEF LatestInv, Known
<1>2. /\ latest[t] \in Nat /\ latest'[t] \in Nat /\ latest[t] <= latest'[t] /\ StoreType
      /\ Known(t) => Deadline(sessions[t]) <= latest[t]
      /\ file[t] # None => file[t] <= latest[t] /\ file[t] \in Nat
  BY <1>1, LatestMoves DEF LoginsInv, BrowserType, LatestInv, StoreType
<1>3. ASSUME sessions'[t] # None PROVE Deadline(sessions'[t]) <= latest'[t]
  <2>1. CASE ~Restart
    BY <1>1, <1>3, <2>1, WithinOwn DEF WithinNext
  <2>2. CASE Restart
    <3>1. /\ file[t] # None /\ file[t] \in Nat
          /\ sessions'[t] = [expires |-> file[t], idleAt |-> file[t], idle |-> Remember, remembered |-> TRUE]
      BY <1>1, <1>3, <2>2, RestartMoves DEF Restored
    <3>2. Deadline(sessions'[t]) = file[t]
      BY <3>1 DEF Deadline, Smaller
    <3> QED
      BY <1>2, <3>1, <3>2
  <2> QED
    BY <2>1, <2>2
<1>4. ASSUME file'[t] # None PROVE file'[t] <= latest'[t]
  <2>1. CASE file'[t] = file[t]
    BY <1>2, <1>4, <2>1
  <2>2. CASE Backed(t)'
    <3>1. sessions'[t] # None /\ sessions'[t].remembered /\ sessions'[t].expires = file'[t]
      BY <2>2 DEF Backed, Known
    <3>2. sessions'[t] \in Session /\ sessions'[t].idleAt = sessions'[t].expires
      BY <1>1, <3>1, SessionKept, StoreTyped DEF SessionOk, Known, StoreType
    <3>3. Deadline(sessions'[t]) = file'[t]
      BY <3>1, <3>2 DEF Deadline, Smaller
    <3> QED
      BY <1>3, <3>1, <3>3
  <2>3. ASSUME NEW h \in Handlers, NEW u \in Tokens, NEW r \in Results, Create(h, u, r), file'[t] # file[t], ~Backed(t)'
        PROVE  file'[t] <= latest'[t]
    <3>1. PICK s, m : Made(h, u, s, m)
      BY <1>1, <2>3, CreateMoves
    <3>2. ~Filed(sessions')
      BY <1>4, <2>3 DEF Filed, Backed, Known
    <3>3. Filed([sessions' EXCEPT ![u] = s]) /\ handlers[h].remember
      BY <2>3, <3>1, <3>2 DEF Made
    <3>4. DOMAIN sessions' = Tokens
      BY <1>1, StoreTyped DEF StoreType
    <3>5. t = u
      <4>1. t # u => [sessions' EXCEPT ![u] = s][t] = sessions'[t]
        BY <3>4
      <4> QED
        BY <1>4, <2>3, <3>3, <4>1 DEF Filed, Backed, Known
    <3>6. [sessions' EXCEPT ![u] = s][t] = s
      BY <3>4, <3>5
    <3>7. file'[t] = s.expires
      BY <1>4, <3>3, <3>6 DEF Filed
    <3>8. s \in Session /\ s.idleAt = s.expires /\ Deadline(s) <= latest'[t]
      BY <3>1, <3>3, <3>5 DEF Made
    <3> QED
      BY <3>7, <3>8 DEF Deadline, Smaller
  <2>4. ASSUME NEW h \in Handlers, NEW r \in Results, Revoke(h, r) PROVE file'[t] = file[t] \/ Backed(t)'
    <3> DEFINE without == [sessions EXCEPT ![handlers[h].token] = None]
    <3>1. /\ handlers[h].token \in Tokens
          /\ sessions' = without \/ sessions' = sessions
          /\ file' = file \/ Filed(without)
      BY <1>1, <2>4, RevokeMoves
    <3>2. without[t] = None \/ without[t] = sessions[t]
      BY <1>2, <3>1 DEF StoreType
    <3> HIDE DEF without
    <3> QED
      BY <1>4, <3>1, <3>2 DEF Filed, Backed, Known
  <2>5. CASE Restart
    BY <1>1, <1>4, <2>1, <2>5, RestartMoves
  <2> QED
    BY <1>1, <2>1, <2>2, <2>3, <2>4, <2>5, FileWriters
<1> QED
  BY <1>3, <1>4

(* A request that is about to look a remembered session up came after it was made. *)
LEMMA ReadingsKept == LoginsInv /\ [Next]_vars => ReadingsInv'
<1>1. SUFFICES ASSUME LoginsInv, [Next]_vars, NEW h \in Handlers, NEW t, handlers'[h].token = t, handlers'[h].at = "get",
                      sessions'[t] # None, sessions'[t].remembered
               PROVE  sessions'[t].expires <= handlers'[h].since + Remember
  BY DEF ReadingsInv, Known
<1>2. t \in issued' /\ t \in Tokens
  <2>1. HandlersType' /\ StoreType'
    BY <1>1, HandlersTyped, StoreTyped
  <2>2. t # None
    BY <1>1, <2>1 DEF HandlersType, ProgressOk, TokenSteps
  <2> QED
    BY <1>1, <2>1, <2>2 DEF HandlersType, HoldingsOk, StoreType
<1>3. ~Restart
  BY <1>1, RestingIs DEF Restart
<1>4. CASE handlers'[h] = handlers[h]
  <2>1. handlers[h].at = "get" /\ handlers[h].token = t
    BY <1>1, <1>4
  <2>2. t \in issued
    BY <1>1, <2>1 DEF LoginsInv, HandlersType, ProgressOk, HoldingsOk, TokenSteps
  <2>3. Known(t) /\ sessions'[t].expires = sessions[t].expires /\ sessions[t].remembered
    BY <1>1, <1>3, <2>2, ExpiryStays
  <2> QED
    BY <1>1, <1>4, <2>1, <2>3 DEF LoginsInv, ReadingsInv
<1>5. CASE handlers'[h] # handlers[h]
  <2>1. Moved(h)
    BY <1>1, <1>3, EachMoves
  <2>2. Asked(h)
    BY <1>1, <1>5, <2>1, RestingIs DEF Moved, Rested, Started, Asked, Created, Found, Missed, Passed,
       Revokes, TooLate, Tracks, TakesOut, Refuses, Extends
  <2>3. now' = now /\ now \in Nat
    <3>1. now' # now => Tick
      BY <1>1, ClockWriters
    <3>2. Tick => handlers' = handlers
      BY DEF Tick
    <3> QED
      BY <1>1, <1>5, <3>1, <3>2 DEF LoginsInv, StoreType
  <2>4. SessionOk(t)'
    BY <1>1, <1>2, SessionKept
  <2>5. sessions'[t].expires <= now' + Remember
    BY <1>1, <2>4 DEF SessionOk, Known
  <2> QED
    BY <2>2, <2>3, <2>5 DEF Asked
<1> QED
  BY <1>4, <1>5

-----------------------------------------------------------------------------
(* The throttler.                                                           *)

(* Every nonempty set of numbers has a least one. *)
LEMMA Least ==
    ASSUME NEW T \in SUBSET Nat, T # {}
    PROVE  \E n \in T : \A m \in T : n <= m
<1> DEFINE R == OpToRel(<, Nat)
<1>1. IsWellFoundedOn(R, Nat)
  BY NatLessThanWellFounded
<1> HIDE DEF R
<1>2. PICK n \in T : \A m \in T : ~(<<m, n>> \in R)
  BY <1>1, WFMin, Zenon
<1>3. \A m \in T : ~(m < n)
  BY <1>2 DEF R, OpToRel
<1> QED
  BY <1>3

(* The first failure after a date. *)
IsFirst(times, date, n) == /\ n \in 0 .. Len(times) /\ \A i \in 1 .. n : times[i] <= date
                           /\ n < Len(times) => times[n + 1] > date

(* There is a first failure after a date, or the list ends. *)
LEMMA FirstExists ==
    ASSUME NEW times \in Seq(Nat), NEW date \in Int
    PROVE  \E n \in 0 .. Len(times) : IsFirst(times, date, n)
<1> DEFINE T == {n \in 0 .. Len(times) : n < Len(times) => times[n + 1] > date}
<1>1. Len(times) \in Nat /\ \A i \in 1 .. Len(times) : times[i] \in Nat
  OBVIOUS
<1>2. Len(times) \in T /\ T \in SUBSET Nat
  BY <1>1
<1>3. PICK n \in T : \A m \in T : n <= m
  <2> HIDE DEF T
  <2> QED
    BY <1>2, Least
<1>4. n \in 0 .. Len(times) /\ (n < Len(times) => times[n + 1] > date)
  BY <1>3
<1>5. ASSUME NEW i \in 1 .. n PROVE times[i] <= date
  <2>1. i - 1 \in 0 .. Len(times) /\ i - 1 < n /\ i - 1 < Len(times) /\ i - 1 + 1 = i /\ i \in 1 .. Len(times)
    BY <1>1, <1>4, <1>5
  <2>2. i - 1 \notin T
    BY <1>3, <1>4, <2>1
  <2> QED
    BY <1>1, <2>1, <2>2
<1> HIDE DEF T
<1> QED
  BY <1>4, <1>5 DEF IsFirst

(* There is one first failure. *)
LEMMA FirstUnique ==
    ASSUME NEW times \in Seq(Nat), NEW date \in Int, NEW m, NEW n, IsFirst(times, date, m), IsFirst(times, date, n)
    PROVE  m = n
<1>1. ASSUME NEW i, NEW j, IsFirst(times, date, i), IsFirst(times, date, j), i < j PROVE FALSE
  <2>1. i \in Nat /\ j \in Nat /\ j <= Len(times) /\ i + 1 \in 1 .. j /\ Len(times) \in Nat /\ i < Len(times)
    BY <1>1 DEF IsFirst
  <2>2. times[i + 1] <= date /\ times[i + 1] > date /\ times[i + 1] \in Nat
    BY <1>1, <2>1 DEF IsFirst
  <2> QED
    BY <2>2
<1>2. m \in Nat /\ n \in Nat
  BY DEF IsFirst
<1>3. ~(m < n)
  BY <1>1
<1>4. ~(n < m)
  BY <1>1
<1> QED
  BY <1>2, <1>3, <1>4

(* The model's First is that place. *)
LEMMA FirstFound ==
    ASSUME NEW clock \in Nat, NEW times \in Seq(Nat)
    PROVE  IsFirst(times, clock - Window, First(times, clock)) /\ clock - Window \in Int
<1>1. clock - Window \in Int
  BY LimitsAssumption
<1>2. \E n \in 0 .. Len(times) : Old(times, n, clock) /\ (n < Len(times) => times[n + 1] > clock - Window)
  BY <1>1, FirstExists DEF IsFirst, Old
<1>3. /\ First(times, clock) \in 0 .. Len(times) /\ Old(times, First(times, clock), clock)
      /\ First(times, clock) < Len(times) => times[First(times, clock) + 1] > clock - Window
  BY <1>2 DEF First
<1> QED
  BY <1>1, <1>3 DEF IsFirst, Old

(* What pruneLocked leaves: a suffix. *)
LEMMA RecentTyped ==
    ASSUME NEW clock \in Nat, NEW times \in Seq(Nat)
    PROVE  /\ Recent(times, clock) \in Seq(Nat) /\ Len(Recent(times, clock)) = Len(times) - First(times, clock)
           /\ Len(Recent(times, clock)) \in Nat /\ Len(times) \in Nat
           /\ Len(Recent(times, clock)) <= Len(times)
           /\ First(times, clock) \in 0 .. Len(times) /\ First(times, clock) \in Nat
           /\ \A i \in 1 .. Len(Recent(times, clock)) : Recent(times, clock)[i] = times[First(times, clock) + i]
<1> DEFINE n == First(times, clock)
<1>1. n \in 0 .. Len(times) /\ Len(times) \in Nat
  BY FirstFound DEF IsFirst
<1>2. \A i \in 1 .. Len(times) : times[i] \in Nat
  OBVIOUS
<1> HIDE DEF n
<1>3. /\ SubSeq(times, n + 1, Len(times)) \in Seq(Nat)
      /\ Len(SubSeq(times, n + 1, Len(times))) = Len(times) - n
      /\ \A i \in 1 .. Len(times) - n : SubSeq(times, n + 1, Len(times))[i] = times[n + i]
  BY <1>1, <1>2
<1> QED
  BY <1>1, <1>3 DEF Recent, n

(* Subtraction keeps the order. *)
LEMMA Earlier ==
    ASSUME NEW x \in Int, NEW y \in Int, NEW d \in Int, x <= y
    PROVE  y - d \in Int /\ x - d <= y - d
OBVIOUS

(* The first failure after a later date comes no sooner. *)
LEMMA FirstLater ==
    ASSUME NEW c \in Nat, NEW d \in Nat, c <= d, NEW times \in Seq(Nat)
    PROVE  First(times, c) <= First(times, d)
<1> DEFINE n == First(times, c)
           m == First(times, d)
<1>1. /\ IsFirst(times, c - Window, n) /\ IsFirst(times, d - Window, m)
      /\ c - Window \in Int /\ d - Window \in Int /\ c - Window <= d - Window
  BY FirstFound, Earlier, LimitsAssumption
<1> HIDE DEF n, m
<1>2. ASSUME m < n PROVE FALSE
  <2>1. m + 1 \in 1 .. n /\ m < Len(times) /\ m + 1 \in 1 .. Len(times)
    BY <1>1, <1>2 DEF IsFirst
  <2>2. times[m + 1] <= c - Window /\ times[m + 1] > d - Window /\ times[m + 1] \in Nat
    BY <1>1, <2>1 DEF IsFirst
  <2> QED
    BY <1>1, <2>2
<1>3. n \in Nat /\ m \in Nat
  BY <1>1 DEF IsFirst
<1> QED
  BY <1>2, <1>3 DEF n, m

(* Time only takes failures out of the window. *)
LEMMA RecentShrinks ==
    ASSUME NEW c \in Nat, NEW d \in Nat, c <= d, NEW times \in Seq(Nat)
    PROVE  Len(Recent(times, d)) <= Len(Recent(times, c))
<1> DEFINE n == First(times, c)
           m == First(times, d)
<1>1. n <= m
  BY FirstLater
<1>2. n \in Nat /\ Len(times) \in Nat /\ Len(Recent(times, c)) = Len(times) - n
  BY RecentTyped
<1>3. m \in Nat /\ Len(Recent(times, d)) = Len(times) - m
  BY RecentTyped
<1> HIDE DEF n, m
<1> QED
  BY <1>1, <1>2, <1>3

(* A list that was pruned by an earlier reading of the clock has no failure more in the window. *)
LEMMA RecentAgain ==
    ASSUME NEW c \in Nat, NEW d \in Nat, c <= d, NEW times \in Seq(Nat)
    PROVE  Len(Recent(Recent(times, c), d)) <= Len(Recent(times, d))
<1> DEFINE x == Recent(times, c)
           n == First(times, c)
           m == First(times, d)
           k == First(x, d)
<1>1. /\ x \in Seq(Nat) /\ Len(x) = Len(times) - n /\ n \in 0 .. Len(times) /\ Len(times) \in Nat
      /\ \A i \in 1 .. Len(x) : x[i] = times[n + i]
  BY RecentTyped
<1>2. n <= m /\ m \in 0 .. Len(times) /\ IsFirst(times, d - Window, m) /\ d - Window \in Int
      /\ Len(Recent(times, d)) = Len(times) - m
  BY FirstFound, FirstLater, RecentTyped
<1> HIDE DEF x
<1>3. k \in 0 .. Len(x) /\ IsFirst(x, d - Window, k) /\ Len(Recent(x, d)) = Len(x) - k
  BY <1>1, FirstFound, RecentTyped
<1> HIDE DEF n, m, k
<1>4. ASSUME k < m - n PROVE FALSE
  <2>1. k + 1 \in 1 .. Len(x) /\ k < Len(x) /\ n + (k + 1) \in 1 .. m /\ n + (k + 1) \in 1 .. Len(times)
    BY <1>1, <1>2, <1>3, <1>4
  <2>2. x[k + 1] > d - Window /\ x[k + 1] = times[n + (k + 1)] /\ times[n + (k + 1)] <= d - Window
    BY <1>1, <1>2, <1>3, <2>1 DEF IsFirst
  <2>3. times[n + (k + 1)] \in Nat
    BY <2>1
  <2> QED
    BY <1>2, <2>2, <2>3
<1>5. Len(Recent(x, d)) <= Len(Recent(times, d))
  BY <1>1, <1>2, <1>3, <1>4
<1> QED
  BY <1>5 DEF x

(* A failure more makes the window at most one longer, whenever it was. *)
LEMMA RecentAppended ==
    ASSUME NEW c \in Nat, NEW d \in Nat, NEW times \in Seq(Nat)
    PROVE  Append(times, c) \in Seq(Nat) /\ Len(Recent(Append(times, c), d)) <= Len(Recent(times, d)) + 1
<1> DEFINE x == Append(times, c)
           n == First(times, d)
           k == First(x, d)
<1>1. /\ x \in Seq(Nat) /\ Len(x) = Len(times) + 1 /\ Len(times) \in Nat
      /\ \A i \in 1 .. Len(times) : x[i] = times[i]
  OBVIOUS
<1>2. n \in 0 .. Len(times) /\ IsFirst(times, d - Window, n) /\ d - Window \in Int /\ Len(Recent(times, d)) = Len(times) - n
  BY FirstFound, RecentTyped
<1> HIDE DEF x
<1>3. k \in 0 .. Len(x) /\ IsFirst(x, d - Window, k) /\ Len(Recent(x, d)) = Len(x) - k
  BY <1>1, FirstFound, RecentTyped
<1> HIDE DEF n, k
<1>4. ASSUME k < n PROVE FALSE
  <2>1. k + 1 \in 1 .. n /\ k < Len(x) /\ k + 1 \in 1 .. Len(times)
    BY <1>1, <1>2, <1>3, <1>4
  <2>2. x[k + 1] > d - Window /\ x[k + 1] = times[k + 1] /\ times[k + 1] <= d - Window
    BY <1>1, <1>2, <1>3, <2>1 DEF IsFirst
  <2>3. times[k + 1] \in Nat
    BY <2>1
  <2> QED
    BY <1>2, <2>2, <2>3
<1>5. Len(Recent(x, d)) <= Len(Recent(times, d)) + 1
  BY <1>1, <1>2, <1>3, <1>4
<1> QED
  BY <1>1, <1>5 DEF x

(* Pruning by an earlier reading, and then a failure at that reading: what of it is in the window. *)
LEMMA PrunedInWindow ==
    ASSUME NEW c \in Nat, NEW d \in Nat, c <= d, NEW times \in Seq(Nat), NEW left, left = Recent(times, c)
    PROVE  /\ left \in Seq(Nat) /\ Len(Recent(left, d)) <= Len(Recent(times, d))
           /\ Len(left) < Limit => Len(Recent(left, d)) < Limit
           /\ Append(left, c) \in Seq(Nat) /\ Len(Recent(Append(left, c), d)) <= Len(Recent(times, d)) + 1
<1> DEFINE x == Append(left, c)
<1>1. left \in Seq(Nat) /\ Len(Recent(left, d)) <= Len(Recent(times, d))
  BY RecentTyped, RecentAgain
<1>2. /\ Len(Recent(left, d)) <= Len(left) /\ Len(Recent(left, d)) \in Nat /\ Len(left) \in Nat
      /\ Len(Recent(times, d)) \in Nat
  BY <1>1, RecentTyped
<1>3. x \in Seq(Nat) /\ Len(Recent(x, d)) <= Len(Recent(left, d)) + 1
  BY <1>1, RecentAppended
<1> HIDE DEF x
<1>4. Len(Recent(x, d)) \in Nat
  BY <1>3, RecentTyped
<1> DEFINE m == Len(Recent(x, d))
           n == Len(Recent(left, d))
           k == Len(Recent(times, d))
           l == Len(left)
<1>5. m <= n + 1 /\ n <= k /\ n <= l /\ m \in Nat /\ n \in Nat /\ k \in Nat /\ l \in Nat /\ Limit \in Nat
  BY <1>1, <1>2, <1>3, <1>4, LimitsAssumption
<1> HIDE DEF m, n, k, l
<1>6. m <= k + 1 /\ (l < Limit => n < Limit)
  BY <1>5
<1> QED
  BY <1>1, <1>3, <1>6 DEF m, n, k, l, x

(* No failure is in the window of an empty list. *)
LEMMA RecentEmpty ==
    ASSUME NEW clock \in Nat
    PROVE  Len(Recent(<<>>, clock)) = 0
<1> DEFINE x == <<>>
<1>1. x \in Seq(Nat) /\ Len(x) = 0
  OBVIOUS
<1> HIDE DEF x
<1>2. Len(Recent(x, clock)) \in Nat /\ Len(Recent(x, clock)) <= Len(x)
  BY <1>1, RecentTyped
<1>3. Len(Recent(x, clock)) = 0
  BY <1>1, <1>2
<1> QED
  BY <1>3 DEF x

(* No failure is a list of failures. *)
LEMMA EmptyTyped == <<>> \in Seq(Nat)
OBVIOUS

(* An eviction keeps what it keeps whole. *)
LEMMA EvictedKeeps ==
    ASSUME NEW all \in [Keys -> Seq(Nat)], NEW x \in Evicted(all)
    PROVE  x \in [Keys -> Seq(Nat)] /\ \A k \in Keys : x[k] \in {all[k], <<>>}
<1>1. x = all \/ \E keep : x = [k \in Keys |-> IF k \in keep THEN all[k] ELSE <<>>]
  BY DEF Evicted
<1>2. <<>> \in Seq(Nat)
  OBVIOUS
<1> QED
  BY <1>1, <1>2

(* A step of the throttler, seen from one key: it forgets, and no request more is   *)
(* let through for the key; or it lets one through, under the limit; or a request   *)
(* that was let through counts its failure.                                         *)
Counted(all, k) == Len(Recent(all[k], now))
Forgets(h, k) == /\ Counted(attempts', k) <= Counted(attempts, k)
                 /\ Waits(handlers'[h], k) => Waits(handlers[h], k)
Passes(k)     == Counted(attempts', k) < Limit
Counts(h, k)  == /\ Counted(attempts', k) <= Counted(attempts, k) + 1
                 /\ Waits(handlers[h], k) /\ ~Waits(handlers'[h], k)
Throttles(h)  == /\ attempts' \in [Keys -> Seq(Nat)]
                 /\ \A k \in Keys : Forgets(h, k) \/ Passes(k) \/ Counts(h, k)

(* The failures of a key in the window are a number, and an empty list has none. *)
LEMMA CountedTyped ==
    ASSUME now \in Nat, NEW all \in [Keys -> Seq(Nat)], NEW k \in Keys
    PROVE  Counted(all, k) \in Nat /\ (all[k] = <<>> => Counted(all, k) = 0)
<1>1. all[k] \in Seq(Nat)
  OBVIOUS
<1>2. Len(Recent(all[k], now)) \in Nat
  BY <1>1, RecentTyped
<1> QED
  BY <1>2, RecentEmpty DEF Counted

(* A number is at most itself, and at most one more. *)
LEMMA Same == \A m, n : n \in Nat /\ m = n => m <= n /\ m <= n + 1
OBVIOUS

(* Nothing is at most a number. *)
LEMMA Nothing == \A m, n : n \in Nat /\ m = 0 => m <= n /\ m <= n + 1
OBVIOUS

(* Allow forgets, and lets a request through for its own key under the limit alone. *)
LEMMA AllowThrottles ==
    ASSUME LoginsInv, NEW h \in Handlers, NEW a \in Keys, NEW yes \in Steps, NEW no \in Steps, Allow(h, a, yes, no),
           \A k \in Keys : k # a /\ Waits([at |-> yes, user |-> handlers[h].user], k) => Waits(handlers[h], k),
           no \in {"idle", "deny user"}
    PROVE  Throttles(h)
<1>1. attempts \in [Keys -> Seq(Nat)] /\ now \in Nat /\ HandlersType /\ handlers[h].since \in Nat
  BY DEF LoginsInv, AttemptsType, StoreType, HandlersType, Handler
<1>2. PICK clock \in Readings(handlers[h]) : attempts' = [attempts EXCEPT ![a] = Recent(@, clock)]
  BY DEF Allow
<1>3. clock \in Nat /\ clock <= now
  BY <1>1, ReadingsTyped
<1> DEFINE left == Recent(attempts[a], clock)
<1>4. attempts[a] \in Seq(Nat)
  BY <1>1
<1>5. /\ left \in Seq(Nat) /\ Len(Recent(left, now)) <= Len(Recent(attempts[a], now))
      /\ Len(left) < Limit => Len(Recent(left, now)) < Limit
  BY <1>1, <1>3, <1>4, PrunedInWindow
<1>6. /\ attempts' \in [Keys -> Seq(Nat)] /\ attempts'[a] = left
      /\ \A k \in Keys : k # a => attempts'[k] = attempts[k]
  BY <1>1, <1>2, <1>5
<1> HIDE DEF left
<1>7. \A k \in Keys : Counted(attempts', k) <= Counted(attempts, k)
  <2>1. SUFFICES ASSUME NEW k \in Keys PROVE Counted(attempts', k) <= Counted(attempts, k)
    OBVIOUS
  <2>2. CASE k = a
    BY <1>5, <1>6, <2>2 DEF Counted
  <2>3. CASE k # a
    <3>1. Counted(attempts, k) \in Nat
      BY <1>1, CountedTyped
    <3>2. Counted(attempts', k) = Counted(attempts, k)
      BY <1>6, <2>3 DEF Counted
    <3> QED
      BY <3>1, <3>2, Same
  <2> QED
    BY <2>2, <2>3
<1>8. CASE Allowed(attempts'[a])
  <2>1. Go(h, yes)
    BY <1>8 DEF Allow
  <2>2. handlers'[h].at = yes /\ handlers'[h].user = handlers[h].user
    BY <1>1, <2>1, Gone
  <2>3. \A k \in Keys : Waits(handlers'[h], k) => Waits([at |-> yes, user |-> handlers[h].user], k)
    BY <2>2 DEF Waits
  <2>4. Passes(a)
    <3>1. Len(left) < Limit
      BY <1>6, <1>8 DEF Allowed
    <3>2. Len(Recent(attempts'[a], now)) < Limit
      BY <1>5, <1>6, <3>1
    <3> QED
      BY <3>2 DEF Passes, Counted
  <2> QED
    BY <1>6, <1>7, <2>3, <2>4 DEF Throttles, Forgets
<1>9. CASE ~Allowed(attempts'[a])
  <2>1. End(h) \/ Go(h, no)
    BY <1>9 DEF Allow
  <2>2. handlers'[h].at \in {"idle", "deny user"}
    BY <1>1, <2>1, Gone, Ended
  <2>3. \A k \in Keys : ~Waits(handlers'[h], k)
    BY <2>2 DEF Waits
  <2> QED
    BY <1>6, <1>7, <2>3 DEF Throttles, Forgets
<1> QED
  BY <1>8, <1>9

(* Failure adds one for a request that was let through and no longer waits. *)
LEMMA FailThrottles ==
    ASSUME LoginsInv, NEW h \in Handlers, NEW a \in Keys, NEW next \in Steps, Fail(h, a, next),
           Waits(handlers[h], a), next \in {"idle", "deny user", "fail user"}, next = "fail user" => At(h, "fail address"),
           next = "fail user" => a = Address /\ handlers[h].user # Address
    PROVE  Throttles(h)
<1>1. attempts \in [Keys -> Seq(Nat)] /\ now \in Nat /\ HandlersType /\ handlers[h].since \in Nat
  BY DEF LoginsInv, AttemptsType, StoreType, HandlersType, Handler
<1>2. PICK clock \in Readings(handlers[h]) :
         attempts' \in Evicted([attempts EXCEPT ![a] = Append(Recent(@, clock), clock)])
  BY DEF Fail
<1>3. clock \in Nat /\ clock <= now
  BY <1>1, ReadingsTyped
<1> DEFINE left == Recent(attempts[a], clock)
           more == Append(left, clock)
           all  == [attempts EXCEPT ![a] = more]
<1>4. attempts[a] \in Seq(Nat)
  BY <1>1
<1>6. more \in Seq(Nat) /\ Len(Recent(more, now)) <= Len(Recent(attempts[a], now)) + 1
  BY <1>1, <1>3, <1>4, PrunedInWindow
<1> HIDE DEF more, left
<1>7. /\ all \in [Keys -> Seq(Nat)] /\ all[a] = more /\ \A k \in Keys : k # a => all[k] = attempts[k]
  BY <1>1, <1>6
<1>8. attempts' \in Evicted(all)
  BY <1>2 DEF more, left
<1> HIDE DEF all
<1>9. attempts' \in [Keys -> Seq(Nat)] /\ \A k \in Keys : attempts'[k] \in {all[k], <<>>}
  BY <1>7, <1>8, EvictedKeeps
<1>10. Counted(attempts', a) <= Counted(attempts, a) + 1
  <2>1. Counted(attempts, a) \in Nat /\ (attempts'[a] = <<>> => Counted(attempts', a) = 0)
    BY <1>1, <1>9, CountedTyped
  <2>2. CASE attempts'[a] = more
    BY <1>6, <2>2 DEF Counted
  <2>3. CASE attempts'[a] = <<>>
    BY <2>1, <2>3, Nothing
  <2> QED
    BY <1>7, <1>9, <2>2, <2>3
<1>11. ASSUME NEW k \in Keys, k # a PROVE Counted(attempts', k) <= Counted(attempts, k)
  <2>1. Counted(attempts, k) \in Nat /\ (attempts'[k] = <<>> => Counted(attempts', k) = 0)
    BY <1>1, <1>9, CountedTyped
  <2>2. attempts'[k] = attempts[k] => Counted(attempts', k) = Counted(attempts, k)
    BY DEF Counted
  <2>3. attempts'[k] = attempts[k] \/ attempts'[k] = <<>>
    BY <1>7, <1>9, <1>11
  <2> QED
    BY <2>1, <2>2, <2>3, Same, Nothing
<1>12. (End(h) \/ Go(h, next)) /\ (next = "idle" => End(h))
  BY DEF Fail
<1>13. handlers'[h].at \in {"idle", next} /\ (handlers'[h].at # "idle" => handlers'[h].user = handlers[h].user)
  BY <1>1, <1>12, Gone, Ended
<1>14. \A k \in Keys : Waits(handlers'[h], k) => k # a /\ Waits(handlers[h], k)
  BY <1>13 DEF Waits, At
<1> QED
  BY <1>9, <1>10, <1>11, <1>14 DEF Throttles, Forgets, Counts

(* Success forgets. *)
LEMMA ClearThrottles ==
    ASSUME LoginsInv, NEW h \in Handlers, NEW a \in Keys, Clear(a), handlers'[h].at \in {"idle", "clear user"}
    PROVE  Throttles(h)
<1>1. attempts \in [Keys -> Seq(Nat)] /\ now \in Nat
  BY DEF LoginsInv, AttemptsType, StoreType
<1>2. <<>> \in Seq(Nat)
  BY EmptyTyped
<1>3. /\ attempts' \in [Keys -> Seq(Nat)] /\ \A k \in Keys : attempts'[k] \in {attempts[k], <<>>}
  BY <1>1, <1>2 DEF Clear
<1>4. \A k \in Keys : ~Waits(handlers'[h], k)
  BY DEF Waits
<1>5. ASSUME NEW k \in Keys PROVE Counted(attempts', k) <= Counted(attempts, k)
  <2>1. Counted(attempts, k) \in Nat /\ (attempts'[k] = <<>> => Counted(attempts', k) = 0)
    BY <1>1, <1>3, CountedTyped
  <2>2. attempts'[k] = attempts[k] => Counted(attempts', k) = Counted(attempts, k)
    BY DEF Counted
  <2> QED
    BY <1>3, <2>1, <2>2, Same, Nothing
<1> QED
  BY <1>3, <1>4, <1>5 DEF Throttles, Forgets

(* Each step of the throttler and the answer of a login. *)
LEMMA ThrottlesAll ==
    ASSUME LoginsInv, NEW h \in Handlers, Throttled(h) \/ Answer(h)
    PROVE  Throttles(h)
<1>1. /\ Address \in Keys /\ HandlersType /\ ProgressOk(handlers[h]) /\ Address \notin Users /\ now \in Nat
      /\ handlers[h].at \in UserSteps => handlers[h].user \in Users /\ handlers[h].user \in Keys /\ handlers[h].user # Address
  BY UsersAssumption DEF Keys, LoginsInv, HandlersType, ProgressOk, StoreType
<1>2. CASE AllowAddress(h)
  <2>1. /\ Allow(h, Address, "allow user", "idle") /\ "allow user" \in Steps /\ "idle" \in Steps
        /\ \A k \in Keys : k # Address => ~Waits([at |-> "allow user", user |-> handlers[h].user], k)
    BY <1>2 DEF AllowAddress, Steps, Waits
  <2> QED
    BY <1>1, <2>1, AllowThrottles
<1>3. CASE AllowUser(h)
  <2>1. /\ Allow(h, handlers[h].user, "slot", "idle") /\ "slot" \in Steps /\ "idle" \in Steps /\ handlers[h].at = "allow user"
    BY <1>3 DEF AllowUser, Steps, At
  <2>2. handlers[h].user \in Keys
    BY <1>1, <2>1 DEF UserSteps
  <2>3. \A k \in Keys : k # handlers[h].user /\ Waits([at |-> "slot", user |-> handlers[h].user], k) => Waits(handlers[h], k)
    BY <2>1 DEF Waits
  <2> QED
    BY <2>1, <2>2, <2>3, AllowThrottles
<1>4. CASE TakeSlot(h)
  <2>1. handlers[h].at = "slot" /\ (Go(h, "pam") \/ End(h)) /\ attempts' = attempts /\ "pam" \in Steps
    BY <1>4 DEF TakeSlot, At, Steps
  <2>2. handlers'[h].at = "idle" \/ (handlers'[h].at = "pam" /\ handlers'[h].user = handlers[h].user)
    BY <1>1, <2>1, Gone, Ended
  <2>3. \A k \in Keys : Waits(handlers'[h], k) => Waits(handlers[h], k)
    BY <2>1, <2>2 DEF Waits
  <2>4. attempts' \in [Keys -> Seq(Nat)] /\ now \in Nat
    BY <2>1 DEF LoginsInv, AttemptsType, StoreType
  <2>5. \A k \in Keys : Counted(attempts', k) \in Nat /\ Counted(attempts', k) = Counted(attempts, k)
    BY <2>1, <2>4, CountedTyped
  <2> QED
    BY <2>3, <2>4, <2>5 DEF Throttles, Forgets
<1>5. CASE FailAddress(h)
  <2>1. handlers[h].at = "fail address" /\ Fail(h, Address, "fail user") /\ "fail user" \in Steps
    BY <1>5 DEF FailAddress, At, Steps
  <2>2. handlers[h].user # Address /\ Waits(handlers[h], Address)
    BY <1>1, <2>1 DEF UserSteps, Waits
  <2> QED
    BY <1>1, <2>1, <2>2, FailThrottles DEF At
<1>6. CASE FailUser(h)
  <2>1. handlers[h].at = "fail user" /\ Fail(h, handlers[h].user, "idle") /\ "idle" \in Steps
    BY <1>6 DEF FailUser, At, Steps
  <2>2. handlers[h].user \in Keys /\ Waits(handlers[h], handlers[h].user)
    BY <1>1, <2>1 DEF UserSteps, Waits
  <2> QED
    BY <2>1, <2>2, FailThrottles
<1>7. CASE ClearAddress(h)
  <2>1. Clear(Address) /\ Go(h, "clear user") /\ "clear user" \in Steps
    BY <1>7 DEF ClearAddress, Steps
  <2> QED
    BY <1>1, <2>1, Gone, ClearThrottles
<1>8. CASE DenyAddress(h)
  <2>1. /\ Allow(h, Address, "count address", "deny user") /\ "count address" \in Steps /\ "deny user" \in Steps
        /\ \A k \in Keys : k # Address => ~Waits([at |-> "count address", user |-> handlers[h].user], k)
    BY <1>8 DEF DenyAddress, Steps, Waits
  <2> QED
    BY <1>1, <2>1, AllowThrottles
<1>9. CASE CountAddress(h)
  <2>1. handlers[h].at = "count address" /\ Fail(h, Address, "deny user") /\ "deny user" \in Steps
    BY <1>9 DEF CountAddress, At, Steps
  <2>2. Waits(handlers[h], Address)
    BY <2>1 DEF Waits
  <2> QED
    BY <1>1, <2>1, <2>2, FailThrottles
<1>10. CASE DenyUser(h)
  <2>1. /\ Allow(h, handlers[h].user, "count user", "idle") /\ "count user" \in Steps /\ "idle" \in Steps
        /\ handlers[h].at = "deny user"
    BY <1>10 DEF DenyUser, Steps, At
  <2>2. handlers[h].user \in Keys
    BY <1>1, <2>1 DEF UserSteps
  <2>3. \A k \in Keys : k # handlers[h].user => ~Waits([at |-> "count user", user |-> handlers[h].user], k)
    BY DEF Waits
  <2> QED
    BY <2>1, <2>2, <2>3, AllowThrottles
<1>11. CASE CountUser(h)
  <2>1. handlers[h].at = "count user" /\ Fail(h, handlers[h].user, "idle") /\ "idle" \in Steps
    BY <1>11 DEF CountUser, At, Steps
  <2>2. handlers[h].user \in Keys /\ Waits(handlers[h], handlers[h].user)
    BY <1>1, <2>1 DEF UserSteps, Waits
  <2> QED
    BY <2>1, <2>2, FailThrottles
<1>12. CASE Answer(h)
  <2>1. handlers[h].at = "clear user" /\ Clear(handlers[h].user) /\ End(h)
    BY <1>12 DEF Answer, At
  <2>2. handlers[h].user \in Keys
    BY <1>1, <2>1 DEF UserSteps
  <2> QED
    BY <1>1, <2>1, <2>2, Ended, ClearThrottles
<1> QED
  BY <1>2, <1>3, <1>4, <1>5, <1>6, <1>7, <1>8, <1>9, <1>10, <1>11, <1>12 DEF Throttled

(* The types of what the throttler remembers. *)
LEMMA AttemptsTyped == LoginsInv /\ [Next]_vars => AttemptsType'
<1>1. SUFFICES ASSUME LoginsInv, [Next]_vars PROVE AttemptsType'
  OBVIOUS
<1>2. CASE Restart
  <2>1. <<>> \in Seq(Nat)
    OBVIOUS
  <2> QED
    BY <1>2, <2>1 DEF Restart, AttemptsType
<1>3. ASSUME NEW h \in Handlers, Throttled(h) \/ Answer(h) PROVE AttemptsType'
  BY <1>1, <1>3, ThrottlesAll DEF Throttles, AttemptsType
<1>4. CASE UNCHANGED attempts
  BY <1>1, <1>4 DEF LoginsInv, AttemptsType
<1> QED
  BY <1>1, <1>2, <1>3, <1>4, AttemptsWriters

(* Failures that count and requests that may still add one are bounded together. *)
LEMMA FailuresKept == LoginsInv /\ [Next]_vars => FailureInv'
<1>1. SUFFICES ASSUME LoginsInv, [Next]_vars, NEW k \in Keys
               PROVE  Len(Recent(attempts'[k], now')) + Cardinality(Pending(k)') <= Limit - 1 + Cardinality(Handlers)
  BY DEF FailureInv
<1> DEFINE R  == Len(Recent(attempts[k], now))
           R1 == Len(Recent(attempts'[k], now'))
           P  == Pending(k)
           P1 == Pending(k)'
           H  == Cardinality(Handlers)
<1>2. /\ now \in Nat /\ now' \in Nat /\ now <= now' /\ attempts[k] \in Seq(Nat) /\ attempts'[k] \in Seq(Nat)
      /\ R + Cardinality(P) <= Limit - 1 + H /\ HandlersType /\ attempts \in [Keys -> Seq(Nat)]
      /\ now' # now => Tick
  BY <1>1, ClockMoves, AttemptsTyped DEF LoginsInv, StoreType, AttemptsType, FailureInv
<1>3. IsFiniteSet(Handlers) /\ H \in Nat /\ Limit \in Nat \ {0} /\ P \subseteq Handlers /\ P1 \subseteq Handlers
  BY BoundsAssumption, LimitsAssumption, FS_CardinalityType DEF Pending
<1>4. /\ IsFiniteSet(P) /\ IsFiniteSet(P1) /\ Cardinality(P) \in Nat /\ Cardinality(P1) \in Nat
      /\ Cardinality(P1) <= H
  <2> HIDE DEF P, P1
  <2> QED
    BY <1>3, FS_Subset, FS_CardinalityType
<1>5. R \in Nat
  BY <1>2, RecentTyped
<1>6. /\ R1 \in Nat
      /\ now' = now => R1 = Counted(attempts', k)
      /\ R = Counted(attempts, k)
  BY <1>2, RecentTyped DEF Counted
<1>7. \A h \in Handlers : h \in P1 <=> Waits(handlers'[h], k)
  BY DEF Pending
<1>8. \A h \in Handlers : h \in P <=> Waits(handlers[h], k)
  BY DEF Pending
<1> HIDE DEF R, R1, P, P1, H
<1>9. ASSUME R1 <= R, R1 \in Nat, P1 \subseteq P PROVE R1 + Cardinality(P1) <= Limit - 1 + H
  <2>1. Cardinality(P1) <= Cardinality(P)
    BY <1>4, <1>9, FS_Subset
  <2> QED
    BY <1>2, <1>3, <1>4, <1>5, <1>9, <2>1
<1>10. ASSUME Restart PROVE R1 + Cardinality(P1) <= Limit - 1 + H
  <2>1. attempts'[k] = <<>> /\ now' = now
    BY <1>10 DEF Restart
  <2>2. R1 = 0
    BY <1>2, <2>1, RecentEmpty DEF R1
  <2> QED
    BY <1>3, <1>4, <2>2
<1>11. ASSUME Tick PROVE R1 + Cardinality(P1) <= Limit - 1 + H
  <2>1. attempts' = attempts /\ handlers' = handlers
    BY <1>11 DEF Tick
  <2>2. R1 <= R
    BY <1>2, <2>1, RecentShrinks DEF R, R1
  <2>3. P1 \subseteq P
    BY <1>3, <1>7, <1>8, <2>1
  <2> QED
    BY <1>6, <1>9, <2>2, <2>3
<1>12. ASSUME now' = now, NEW h \in Handlers, Throttled(h) \/ Answer(h)
       PROVE  R1 + Cardinality(P1) <= Limit - 1 + H
  <2>1. Throttles(h) /\ \A g \in Handlers : g # h => handlers'[g] = handlers[g]
    BY <1>1, <1>12, ThrottlesAll, ActorMoves DEF HandlerActs, Others
  <2>2. R1 = Counted(attempts', k) /\ R = Counted(attempts, k)
    BY <1>6, <1>12
  <2>3. CASE Forgets(h, k)
    <3>1. R1 <= R
      BY <2>2, <2>3 DEF Forgets
    <3>2. P1 \subseteq P
      BY <1>3, <1>7, <1>8, <2>1, <2>3 DEF Forgets
    <3> QED
      BY <1>6, <1>9, <3>1, <3>2
  <2>4. CASE Passes(k)
    <3>1. R1 <= Limit - 1
      BY <1>3, <1>6, <2>2, <2>4 DEF Passes
    <3> QED
      BY <1>3, <1>4, <1>6, <3>1
  <2>5. CASE Counts(h, k)
    <3>1. R1 <= R + 1
      BY <2>2, <2>5 DEF Counts
    <3>2. h \in P /\ P1 \subseteq P \ {h}
      BY <1>3, <1>7, <1>8, <2>1, <2>5 DEF Counts
    <3>3. Cardinality(P \ {h}) = Cardinality(P) - 1 /\ IsFiniteSet(P \ {h})
      BY <1>4, <3>2, FS_RemoveElement
    <3>4. Cardinality(P1) <= Cardinality(P) - 1
      BY <3>2, <3>3, FS_Subset
    <3> QED
      BY <1>2, <1>3, <1>4, <1>5, <1>6, <3>1, <3>4
  <2> QED
    BY <2>1, <2>3, <2>4, <2>5 DEF Throttles
<1>13. ASSUME now' = now, ~Restart, \A h \in Handlers : ~(Throttled(h) \/ Answer(h))
       PROVE  R1 + Cardinality(P1) <= Limit - 1 + H
  <2>1. attempts' = attempts
    BY <1>1, <1>13, AttemptsWriters
  <2>2. R1 = R
    BY <1>13, <2>1 DEF R, R1
  <2>3. ASSUME NEW h \in Handlers, Waits(handlers'[h], k) PROVE Waits(handlers[h], k)
    <3>1. Moved(h) /\ handlers'[h].at \in WaitSteps
      BY <1>1, <1>13, <2>3, EachMoves DEF Waits, WaitSteps
    <3>2. handlers'[h] = handlers[h] \/ Passed(h)
      BY <3>1, RestingIs DEF Moved, Rested, Started, Asked, Created, Found, Missed, Revokes, TooLate, Tracks, TakesOut,
         Refuses, Extends, WaitSteps
    <3>3. CASE Passed(h)
      <4>1. At(h, "pam") /\ handlers'[h].at = "fail address" /\ handlers'[h].user = handlers[h].user
        BY <1>13, <3>1, <3>3 DEF Passed
      <4> QED
        BY <2>3, <4>1 DEF Waits, At
    <3> QED
      BY <2>3, <3>2, <3>3
  <2>4. P1 \subseteq P
    BY <1>3, <1>7, <1>8, <2>3
  <2> QED
    BY <1>5, <1>9, <2>2, <2>4
<1>14. R1 + Cardinality(P1) <= Limit - 1 + H
  <2>1. CASE Tick
    BY <1>11, <2>1
  <2>2. CASE Restart
    BY <1>10, <2>2
  <2>3. CASE now' = now /\ \E h \in Handlers : Throttled(h) \/ Answer(h)
    BY <1>12, <2>3
  <2>4. CASE now' = now /\ ~Restart /\ \A h \in Handlers : ~(Throttled(h) \/ Answer(h))
    BY <1>13, <2>4
  <2> QED
    BY <1>2, <2>1, <2>2, <2>3, <2>4
<1> QED
  BY <1>14 DEF R1, P1, H

-----------------------------------------------------------------------------
(* The invariant, and what it says.                                         *)

(* The service starts in the invariant. *)
LEMMA LoginsStart == Init => LoginsInv
<1>1. SUFFICES ASSUME Init PROVE LoginsInv
  OBVIOUS
<1>2. /\ now = 0 /\ sessions = [t \in Tokens |-> None] /\ file = [t \in Tokens |-> None] /\ issued = {} /\ cookies = {}
      /\ attempts = [k \in Keys |-> <<>>] /\ handlers = [h \in Handlers |-> Resting]
      /\ tracked = {} /\ closed = FALSE /\ conns = [c \in Conns |-> None] /\ callbacks = {}
      /\ shutdown = [at |-> "no", closing |-> {}]
      /\ promised = [t \in Tokens |-> 0] /\ goneFor = {} /\ loggedOut = {} /\ refused = FALSE
      /\ latest = [t \in Tokens |-> 0]
  BY <1>1 DEF Init
<1>3. Used = {}
  BY <1>2 DEF Used
<1>4. StoreType /\ BrowserType /\ ConnsType /\ TrackerType /\ CallbacksType /\ ShutdownType
  BY <1>2, <1>3 DEF StoreType, BrowserType, ConnsType, TrackerType, CallbacksType, ShutdownType
<1>5. AttemptsType
  BY <1>2, EmptyTyped DEF AttemptsType
<1>6. Resting \in Handler
  BY DEF Resting, Handler, Steps
<1>7. \A h \in Handlers : handlers[h] = Resting
  BY <1>2
<1>8. HandlersType
  <2>1. \A h \in Handlers : ProgressOk(handlers[h]) /\ HoldingsOk(handlers[h])
    BY <1>7, RestingIs DEF ProgressOk, HoldingsOk, UserSteps, TokenSteps
  <2> QED
    BY <1>2, <1>6, <2>1 DEF HandlersType
<1>9. \A t \in Tokens : SessionOk(t) /\ FileOk(t) /\ ~Known(t) /\ ~Restored(t)
  BY <1>2 DEF SessionOk, FileOk, Known, Restored
<1>10. FileFollows /\ PromiseInv /\ LogoutInv /\ LatestInv /\ ReadingsInv
  BY <1>2, <1>7, <1>9, RestingIs DEF FileFollows, PromiseInv, LogoutInv, LatestInv, ReadingsInv
<1>11. CapacityInv
  <2>1. Count(sessions) = Cardinality({}) /\ Cardinality({t \in Tokens : file[t] # None}) = Cardinality({})
    BY <1>2 DEF Count
  <2> QED
    BY <1>2, <2>1, FS_EmptySet, LimitsAssumption DEF CapacityInv
<1>12. RequestsInv
  BY <1>7, RestingIs DEF RequestsInv, UserSteps
<1>13. HeldInv /\ DeadlineInv /\ GoneInv /\ Timed /\ TimersWithin
  BY <1>2, <1>7, RestingIs DEF HeldInv, Open, DeadlineInv, GoneInv, Timed, TimersWithin
<1>14. FailureInv
  <2>1. SUFFICES ASSUME NEW k \in Keys PROVE Len(Recent(attempts[k], now)) + Cardinality(Pending(k)) <= Limit - 1 + Cardinality(Handlers)
    BY DEF FailureInv
  <2>2. Pending(k) = {}
    BY <1>7, RestingIs DEF Pending, Waits
  <2>3. Cardinality(Pending(k)) = 0 /\ Cardinality(Handlers) \in Nat
    BY <2>2, BoundsAssumption, FS_EmptySet, FS_CardinalityType
  <2>4. Len(Recent(attempts[k], now)) = 0
    <3>1. attempts[k] = <<>>
      BY <1>2
    <3>2. Len(Recent(<<>>, now)) = 0
      BY <1>2, RecentEmpty
    <3> QED
      BY <3>1, <3>2
  <2> QED
    BY <2>3, <2>4, LimitsAssumption
<1> QED
  BY <1>4, <1>5, <1>8, <1>9, <1>10, <1>11, <1>12, <1>13, <1>14 DEF LoginsInv

(* Every step keeps the invariant. *)
LEMMA LoginsKept == LoginsInv /\ [Next]_vars => LoginsInv'
<1>1. SUFFICES ASSUME LoginsInv, [Next]_vars PROVE LoginsInv'
  OBVIOUS
<1>2. StoreType' /\ BrowserType' /\ AttemptsType' /\ HandlersType'
  BY <1>1, StoreTyped, BrowserTyped, AttemptsTyped, HandlersTyped
<1>3. ConnsType' /\ TrackerType' /\ CallbacksType' /\ ShutdownType'
  BY <1>1, ConnsTyped, TrackerTyped, CallbacksTyped, ShutdownTyped
<1>4. \A t \in Tokens : SessionOk(t)' /\ FileOk(t)'
  BY <1>1, SessionKept, FileKept
<1>5. FileFollows' /\ PromiseInv' /\ LogoutInv' /\ CapacityInv'
  BY <1>1, FileFollowsKept, PromiseKept, LogoutKept, CapacityKept
<1>6. RequestsInv' /\ HeldInv' /\ DeadlineInv' /\ GoneInv'
  BY <1>1, RequestsKept, HeldKept, DeadlinesKept, GoneKept
<1>7. Timed' /\ TimersWithin' /\ FailureInv' /\ LatestInv' /\ ReadingsInv'
  BY <1>1, TimedKept, TimersKept, FailuresKept, LatestKept, ReadingsKept
<1> QED
  BY <1>2, <1>3, <1>4, <1>5, <1>6, <1>7 DEF LoginsInv

(* The inductive invariant holds in every state of the service: what auth.go keeps  *)
(* of its sessions, their file and the throttler, and connections.go of what is     *)
(* open under them.                                                                 *)
THEOREM LoginsInvariant == Spec => []LoginsInv
<1>1. Init => LoginsInv
  BY LoginsStart
<1>2. LoginsInv /\ [Next]_vars => LoginsInv'
  BY LoginsKept
<1> QED
  BY <1>1, <1>2, PTL DEF Spec

(* The parts say that the variables have their types. *)
LEMMA TypesFollow == LoginsInv => TypeOK
<1>1. SUFFICES ASSUME LoginsInv PROVE TypeOK
  OBVIOUS
<1>2. Used \subseteq Conns
  BY DEF Used
<1> QED
  BY <1>1, <1>2 DEF LoginsInv, StoreType, BrowserType, AttemptsType, HandlersType, ConnsType, TrackerType, CallbacksType,
     ShutdownType, TypeOK

(* A connection that is held by nobody but the tracker is on its way out when its session is over. *)
LEMMA NoneAlone == LoginsInv => NoConnectionAlone
<1>1. SUFFICES ASSUME LoginsInv, NEW c \in Conns, Open(c), Over(conns[c].token) PROVE Closing(c)
  BY DEF NoConnectionAlone
<1> DEFINE t == conns[c].token
<1>2. Held(c) /\ c \in Used /\ t \in issued /\ conns[c].timer \in Nat \cup {None} /\ now \in Nat
  BY <1>1 DEF LoginsInv, HeldInv, Open, Used, ConnsType, StoreType, Conn
<1>3. CASE c \in tracked
  <2>1. CASE Revoked(t)
    <3>1. Of(t) # {}
      BY <1>3 DEF Of
    <3>2. Watch(t)
      BY <1>1, <1>2, <2>1, <3>1 DEF LoginsInv, GoneInv
    <3> QED
      BY <3>2 DEF Watch, Closing
  <2>2. CASE now >= latest[t]
    <3>1. conns[c].timer # None \/ \E b \in callbacks : b.conn = c /\ b.current
      BY <1>1, <1>3 DEF LoginsInv, Timed, Open
    <3>2. CASE conns[c].timer # None
      <4>1. conns[c].timer <= latest[t] /\ conns[c].timer \in Nat
        BY <1>1, <1>2, <1>3, <3>2 DEF LoginsInv, TimersWithin, Within
      <4>2. latest[t] \in Nat
        BY <1>1, <1>2 DEF LoginsInv, BrowserType, StoreType
      <4>3. conns[c].timer <= now
        BY <1>2, <2>2, <4>1, <4>2
      <4> QED
        BY <1>3, <3>2, <4>3 DEF Closing
    <3>3. CASE \E b \in callbacks : b.conn = c /\ b.current
      BY <1>3, <3>3 DEF Closing
    <3> QED
      BY <3>1, <3>2, <3>3
  <2> QED
    BY <1>1, <2>1, <2>2 DEF Over, Revoked
<1> QED
  BY <1>2, <1>3 DEF Held, Closing

(* Timers follow sessions. *)
LEMMA TimersFollow == LoginsInv => TimedByItsSession
<1>1. SUFFICES ASSUME LoginsInv, NEW c \in tracked, conns[c].socket = "open"
               PROVE  /\ conns[c].timer # None \/ \E b \in callbacks : b.conn = c /\ b.current
                      /\ conns[c].timer # None => Within(conns[c].token, conns[c].timer)
  BY DEF TimedByItsSession, Within
<1> QED
  BY <1>1 DEF LoginsInv, Timed, TimersWithin

(* A closed tracker leaves none. *)
LEMMA ShutdownFollows == LoginsInv => ShutdownLeavesNone
<1>1. SUFFICES ASSUME LoginsInv, closed PROVE tracked = {} /\ \A c \in Conns : Open(c) => Closing(c)
  BY DEF ShutdownLeavesNone
<1>2. tracked = {} /\ \A c \in Conns : Open(c) => Held(c)
  BY <1>1 DEF LoginsInv, TrackerType, HeldInv
<1> QED
  BY <1>2 DEF Held, Closing

(* In every state each open connection whose session is over, by a logout           *)
(* or because its latest deadline has passed, is about to be closed, each tracked   *)
(* one has a timer no later than that deadline or a callback that acts for it, and  *)
(* a shutdown leaves none, whatever order upgrades, extensions by readings of the   *)
(* clock old and new, expiries, logouts and the shutdown come in.                   *)
THEOREM ConnectionsAlwaysFollow == Spec => []ConnectionsFollow
<1>1. LoginsInv => ConnectionsFollow
  BY TypesFollow, NoneAlone, TimersFollow, ShutdownFollows DEF ConnectionsFollow
<1> QED
  BY <1>1, LoginsInvariant, PTL

(* In every state an answered logout is final, a remembered cookie is accepted      *)
(* until its date or its logout, and no start was refused: whatever logins, failed  *)
(* saves and restarts come between.                                                 *)
THEOREM PromisesAlwaysKept == Spec => []PromisesKept
<1>1. LoginsInv => PromisesKept
  <2>1. SUFFICES ASSUME LoginsInv PROVE PromisesKept
    OBVIOUS
  <2>2. LogoutIsFinal
    BY <2>1 DEF LoginsInv, LogoutInv, Revoked, LogoutIsFinal, BrowserType, StoreType
  <2>3. ASSUME NEW t \in Tokens, promised[t] > now, t \notin goneFor PROVE Live(t, now)
    <3>1. Known(t) /\ sessions[t].remembered /\ sessions[t].expires = promised[t] /\ SessionOk(t)
      BY <2>1, <2>3 DEF LoginsInv, PromiseInv, Backed
    <3>2. now \in Nat /\ promised[t] \in Nat
      BY <2>1 DEF LoginsInv, StoreType, BrowserType
    <3> QED
      BY <2>3, <3>1, <3>2 DEF SessionOk, Live
  <2>4. StartsAgain
    BY <2>1 DEF LoginsInv, CapacityInv, StartsAgain
  <2> QED
    BY <2>2, <2>3, <2>4 DEF PromisesKept, RememberedIsKept
<1> QED
  BY <1>1, LoginsInvariant, PTL

(* In every state the failures of the window stay under the limit but for those of  *)
(* requests that were let through at once: Allow and Failure are apart.             *)
THEOREM FailuresAlwaysBounded == Spec => []FailuresBounded
<1>1. LoginsInv => FailuresBounded
  <2>1. SUFFICES ASSUME LoginsInv, NEW k \in Keys
                 PROVE  Len(Recent(attempts[k], now)) <= Limit - 1 + Cardinality(Handlers)
    BY DEF FailuresBounded
  <2>2. Len(Recent(attempts[k], now)) \in Nat
    BY <2>1, RecentTyped DEF LoginsInv, AttemptsType, StoreType
  <2>3. Pending(k) \subseteq Handlers
    BY DEF Pending
  <2>4. Cardinality(Pending(k)) \in Nat /\ Cardinality(Handlers) \in Nat
    BY <2>3, BoundsAssumption, FS_Subset, FS_CardinalityType
  <2>5. Len(Recent(attempts[k], now)) + Cardinality(Pending(k)) <= Limit - 1 + Cardinality(Handlers)
    BY <2>1 DEF LoginsInv, FailureInv
  <2> QED
    BY <2>2, <2>4, <2>5, LimitsAssumption
<1> QED
  BY <1>1, LoginsInvariant, PTL

=============================================================================
