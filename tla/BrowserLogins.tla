---------------------------- MODULE BrowserLogins ----------------------------
(***************************************************************************)
(* websetupmanager's browser sessions: the store with its remembered rows  *)
(* (internal/auth/auth.go), the requests that use it (internal/httpapi/    *)
(* authentication.go, and server.go for the shutdown), and the tabs of one *)
(* browser that log in through it (web/src/App.tsx, api.ts).               *)
(*                                                                         *)
(* A login is provisional: the tab first notes its fingerprint in a        *)
(* journal that outlives the tab, then has it activated, and removes the   *)
(* note when its continuation ended well. The tabs share the cookie and    *)
(* the journal; answers come in any order or not at all; the server loses  *)
(* its memory in a restart. A token stands for its hash and for the CSRF   *)
(* secret made with it. A critical section of the store is one step, and   *)
(* so is what a tab does between two awaits.                               *)
(***************************************************************************)
EXTENDS Naturals, FiniteSets

CONSTANTS
    Tabs,       \* the tabs of one browser
    Tokens,     \* bound: sessions ever made
    Capacity,   \* the store's capacity
    Plans,      \* bound: how often each thing happens in a run
    None

Events == {"login", "remember", "load", "logout", "work", "close", "lose", "unsealed", "expire", "fault",
           "restart", "shutdown"}
Roles  == {"load", "login", "again", "logout", "work"}
Continuations == {"login", "again"}     \* an old login's may still run when the next one logs in

ASSUME PlansAssumption    == Plans \subseteq [Events -> Nat]
ASSUME CapacityAssumption == Capacity \in Nat \ {0}
ASSUME NoneAssumption     == None \notin Tokens \cup Tabs

VARIABLES
    sessions,   \* Store.sessions: what is known of a token
    rows,       \* auth_sessions
    issued, expired,   \* tokens made, and those whose deadline has passed
    jar,        \* the browser's cookie
    journal,    \* the fingerprints in Cache Storage and localStorage
    tab,        \* per tab, its view, csrfToken and staleAuthSessionFallback
    thread,     \* per tab and role, the asynchronous function under way
    wire,       \* per tab and role, its HTTP exchange
    server,     \* the shutdown of the server
    plan,       \* what is left of this run
    sealed,     \* fingerprints that were ever journaled
    accepted,   \* logins whose continuation removed its note
    confirmed,  \* remembered sessions whose activation succeeded
    ended       \* tokens that a logout, a rotation or a revocation removed

store  == <<sessions, rows, issued>>
browser == <<jar, journal, tab, thread>>
ghosts == <<sealed, accepted, confirmed, ended>>
vars   == <<store, expired, browser, wire, server, plan, ghosts>>

-----------------------------------------------------------------------------
\* States.

Session == [remembered : BOOLEAN, activated : BOOLEAN]
Kinds   == {"login", "session", "capabilities", "work", "activate", "logout", "revoke"}
Status  == {"none", "ok", "guest", "unauthorized", "csrf", "failed"}
Cookie  == Tokens \cup {None, "keep", "clear"}
Exchange == [kind : Kinds, cookie : Tokens \cup {None}, csrf : Tokens \cup {None}, remember : BOOLEAN,
             at : {"sent", "route", "create", "rotate", "act", "answered"}, status : Status,
             token : Tokens \cup {None}, set : Cookie, cancelled : BOOLEAN]
Thread  == [at : {"idle", "wait", "reconcile", "seal", "accept", "finish", "revoke"}, token : Tokens \cup {None},
            superseded : SUBSET Tokens, current : BOOLEAN, retried : BOOLEAN, then : {"guest", "unavailable"}]
Tab     == [view : {"closed", "loading", "guest", "ready", "unavailable"}, csrf : Tokens \cup {None},
            fallback : SUBSET Tokens]

\* None stands for nothing, and no token is an instruction about the cookie.
ASSUME ValuesAssumption == None \notin Session \cup Exchange /\ {"keep", "clear"} \cap (Tokens \cup {None}) = {}

Resting  == [at |-> "idle", token |-> None, superseded |-> {}, current |-> FALSE, retried |-> FALSE, then |-> "guest"]
Waiting  == [Resting EXCEPT !.at = "wait", !.current = TRUE]
Closed   == [view |-> "closed", csrf |-> None, fallback |-> {}]
Mutation(kind) == kind \notin {"session", "capabilities"}

Known(t) == t # None /\ sessions[t] # None
Live(t)  == server.at # "closed" /\ Known(t) /\ t \notin expired
Count(m) == Cardinality({t \in Tokens : m[t] # None})

\* Tokens are taken in some order: which one it is says nothing.
NextToken(t) == issued # Tokens /\ t = CHOOSE u \in Tokens \ issued : TRUE

Spend(what) == plan[what] > 0 /\ plan' = [plan EXCEPT ![what] = @ - 1]

Init ==
    /\ sessions = [t \in Tokens |-> None] /\ rows = sessions /\ issued = {} /\ expired = {}
    /\ jar = None /\ journal = {}
    /\ tab = [b \in Tabs |-> Closed] /\ thread = [b \in Tabs |-> [r \in Roles |-> Resting]]
    /\ wire = [b \in Tabs |-> [r \in Roles |-> None]]
    /\ server = [at |-> "open", collected |-> {}]
    /\ plan \in Plans
    /\ sealed = {} /\ accepted = {} /\ confirmed = {} /\ ended = {}

-----------------------------------------------------------------------------
\* The store. Every statement on auth_sessions may fail.

\* removeExpiredLocked prunes rows and map, or fails before it touched either.
Pruned(m) == [t \in Tokens |-> IF t \in expired THEN None ELSE m[t]]

\* create: a remembered row is inserted before the session can be seen.
Create(t, remember, done) ==
    LET new == [remembered |-> remember, activated |-> FALSE]
    IN  \/ /\ done /\ NextToken(t) /\ server.at # "closed" /\ Count(Pruned(sessions)) < Capacity
           /\ sessions' = [Pruned(sessions) EXCEPT ![t] = new]
           /\ rows' = IF remember THEN [Pruned(rows) EXCEPT ![t] = new] ELSE Pruned(rows)
           /\ issued' = issued \cup {t} /\ UNCHANGED plan
        \/ /\ ~done /\ (server.at = "closed" \/ Count(Pruned(sessions)) >= Capacity) /\ UNCHANGED <<issued, plan>>
           /\ IF server.at = "closed" THEN UNCHANGED <<sessions, rows>>
              ELSE sessions' = Pruned(sessions) /\ rows' = Pruned(rows)
        \/ /\ ~done /\ server.at # "closed" /\ Spend("fault") /\ UNCHANGED issued
           /\ \/ UNCHANGED <<sessions, rows>>
              \/ remember /\ sessions' = Pruned(sessions) /\ rows' = Pruned(rows)

\* Get removes an expired session and tries to remove its row.
Get(t) ==
    IF Known(t) /\ server.at # "closed" /\ t \in expired
    THEN /\ sessions' = [sessions EXCEPT ![t] = None]
         /\ \/ rows' = [rows EXCEPT ![t] = None] /\ UNCHANGED plan
            \/ rows[t] # None /\ Spend("fault") /\ UNCHANGED rows
    ELSE UNCHANGED <<sessions, rows, plan>>

\* Delete removes the row first; a session whose row stays is put back.
Delete(t, done) ==
    \/ /\ done /\ server.at # "closed" /\ UNCHANGED plan
       /\ IF Known(t) THEN /\ sessions' = [sessions EXCEPT ![t] = None]
                           /\ rows' = [rows EXCEPT ![t] = None] /\ ended' = ended \cup {t}
                      ELSE UNCHANGED <<sessions, rows, ended>>
    \/ /\ ~done /\ UNCHANGED <<sessions, rows, ended>>
       /\ \/ server.at = "closed" /\ UNCHANGED plan
          \/ server.at # "closed" /\ Known(t) /\ sessions[t].remembered /\ Spend("fault")

\* EqualCSRF of a session and of what a request carries.
Matches(t, csrf) == t = csrf

\* Activate: the row is promoted before the session.
Promoted(m, t) == [m EXCEPT ![t].activated = TRUE]
\* Mutant: the session is promoted before its row.
ActivateFirst(t, csrf, done) ==
    LET may == Live(t) /\ t = csrf
    IN  \/ /\ done = may /\ UNCHANGED plan
           /\ IF may THEN /\ sessions' = [sessions EXCEPT ![t].activated = TRUE]
                          /\ rows' = IF sessions[t].remembered THEN [rows EXCEPT ![t].activated = TRUE] ELSE rows
                     ELSE UNCHANGED <<sessions, rows>>
        \/ /\ ~done /\ may /\ Spend("fault") /\ UNCHANGED rows
           /\ sessions' = [sessions EXCEPT ![t].activated = TRUE]

Activate(t, csrf, done) ==
    LET may == Live(t) /\ Matches(t, csrf)
    IN  \/ /\ done /\ may /\ UNCHANGED plan
           /\ sessions' = Promoted(sessions, t)
           /\ rows' = IF sessions[t].remembered THEN Promoted(rows, t) ELSE rows
        \/ /\ ~done /\ ~may /\ UNCHANGED <<sessions, rows, plan>>
        \/ /\ ~done /\ may /\ sessions[t].remembered /\ ~sessions[t].activated
           /\ Spend("fault") /\ UNCHANGED <<sessions, rows>>

\* loadPersistent: the rows that have not expired, with their activation.
Loaded == Pruned(rows)

-----------------------------------------------------------------------------
\* The requests on the server.

Request(b, r, step) == wire[b][r] # None /\ wire[b][r].at = step
To(b, r, step)      == wire' = [wire EXCEPT ![b][r].at = step]
Answer(b, r, status, set) ==
    wire' = [wire EXCEPT ![b][r].at = "answered", ![b][r].status = status, ![b][r].set = set]
Give(b, r, t) ==
    wire' = [wire EXCEPT ![b][r].at = "answered", ![b][r].status = "ok", ![b][r].token = t,
                         ![b][r].set = IF wire[b][r].kind = "login" THEN t ELSE "keep"]
Clearing(cookie) == IF cookie = None THEN "keep" ELSE "clear"

\* trackRequest, under the lock that the shutdown collects the requests with.
Track(b, r) ==
    /\ Request(b, r, "sent")
    /\ wire' = [wire EXCEPT ![b][r].at = "route",
                            ![b][r].cancelled = Mutation(wire[b][r].kind) /\ server.at # "open"]
    /\ UNCHANGED <<store, expired, browser, server, plan, ghosts>>

\* ServeHTTP refuses mutations in a shutdown; login goes on, and any other
\* request finds its session first (browserSession).
Route(b, r) ==
    LET x == wire[b][r] t == x.cookie
    IN  /\ Request(b, r, "route")
        /\ IF Mutation(x.kind) /\ server.at # "open"
           THEN Answer(b, r, "failed", "keep") /\ UNCHANGED <<sessions, rows, plan>>
           ELSE IF x.kind = "login" THEN To(b, r, "create") /\ UNCHANGED <<sessions, rows, plan>>
           ELSE /\ Get(t)
                /\ CASE x.kind = "session" /\ ~Live(t) -> Answer(b, r, "guest", Clearing(t))
                     [] x.kind = "session" /\ Live(t) ->
                            IF sessions[t].activated THEN Give(b, r, t) ELSE Answer(b, r, "guest", "keep")
                     [] x.kind \in {"capabilities", "work", "logout"} /\ ~Live(t) ->
                            Answer(b, r, "unauthorized", Clearing(t))
                     [] x.kind \in {"activate", "revoke"} /\ ~Live(t) -> Answer(b, r, "unauthorized", "keep")
                     [] x.kind \in {"capabilities", "work"} /\ Live(t) /\ ~sessions[t].activated ->
                            Answer(b, r, "unauthorized", "keep")
                     [] x.kind = "capabilities" /\ Live(t) /\ sessions[t].activated -> Answer(b, r, "ok", "keep")
                     [] x.kind = "work" /\ Live(t) /\ sessions[t].activated ->
                            Answer(b, r, IF Matches(t, x.csrf) THEN "ok" ELSE "csrf", "keep")
                     [] x.kind \in {"logout", "revoke", "activate"} /\ Live(t) ->
                            IF Matches(t, x.csrf) THEN To(b, r, "act") ELSE Answer(b, r, "csrf", "keep")
        /\ UNCHANGED <<issued, expired, browser, server, ghosts>>

\* login makes the new session.
CreateSession(b, r, t, done) ==
    /\ Request(b, r, "create") /\ Create(t, wire[b][r].remember, done)
    /\ IF done THEN wire' = [wire EXCEPT ![b][r].at = "rotate", ![b][r].token = t]
               ELSE Answer(b, r, "failed", "keep")
    /\ UNCHANGED <<expired, browser, server, ghosts>>

\* Then it removes the one of the request's cookie; if that fails it tries to
\* remove the new one.
Rotate(b, r) ==
    LET x == wire[b][r]
    IN  /\ Request(b, r, "rotate") /\ UNCHANGED <<issued, expired, browser, server, sealed, accepted, confirmed>>
        /\ \/ ~Live(x.cookie) /\ Get(x.cookie) /\ Give(b, r, x.token) /\ UNCHANGED ended
           \/ Live(x.cookie) /\ Delete(x.cookie, TRUE) /\ Give(b, r, x.token)
           \/ /\ Live(x.cookie) /\ Delete(x.cookie, FALSE)
              /\ wire' = [wire EXCEPT ![b][r].at = "act", ![b][r].cookie = None]

\* The second store operation of a request.
Act(b, r, done) ==
    LET x == wire[b][r]
    IN  /\ Request(b, r, "act") /\ UNCHANGED <<issued, expired, browser, server, sealed, accepted>>
        /\ CASE x.kind = "activate" ->
                    /\ Activate(x.cookie, x.csrf, done) /\ UNCHANGED ended
                    /\ Answer(b, r, IF done THEN "ok"
                                    ELSE IF server.at = "closed" \/ Live(x.cookie) THEN "failed" ELSE "unauthorized", "keep")
                    /\ confirmed' = IF done /\ sessions[x.cookie].remembered
                                    THEN confirmed \cup {x.cookie} ELSE confirmed
             [] x.kind \in {"logout", "revoke"} ->
                    /\ Delete(x.cookie, done) /\ UNCHANGED confirmed
                    /\ Answer(b, r, IF done THEN "ok" ELSE "failed",
                              IF done /\ x.kind = "logout" THEN "clear" ELSE "keep")
             [] x.kind = "login" ->
                    Delete(x.token, done) /\ Answer(b, r, "failed", "keep") /\ UNCHANGED confirmed

-----------------------------------------------------------------------------
\* The server's shutdown and restart, and the clock.

\* The flag first, then the tracked requests are collected, then cancelled.
UnderWay(x) == x # None /\ x.at \notin {"sent", "answered"} /\ Mutation(x.kind) /\ ~x.cancelled
Tracked == {p \in Tabs \X Roles : UnderWay(wire[p[1]][p[2]])}
BeginShutdown ==
    /\ server.at = "open" /\ Spend("shutdown") /\ server' = [server EXCEPT !.at = "flag"]
    /\ UNCHANGED <<store, expired, browser, wire, ghosts>>
CollectRequests ==
    /\ server.at = "flag" /\ server' = [at |-> "cancelling", collected |-> Tracked]
    /\ UNCHANGED <<store, expired, browser, wire, plan, ghosts>>
CancelRequests ==
    /\ server.at = "cancelling" /\ server' = [at |-> "done", collected |-> {}]
    /\ wire' = [b \in Tabs |-> [r \in Roles |->
                    IF <<b, r>> \in server.collected /\ wire[b][r] # None
                    THEN [wire[b][r] EXCEPT !.cancelled = TRUE] ELSE wire[b][r]]]
    /\ UNCHANGED <<store, expired, browser, plan, ghosts>>

\* main's deferred Close of the store, even if requests outlast the shutdown.
CloseStore ==
    /\ server.at = "done" /\ server' = [server EXCEPT !.at = "closed"]
    /\ sessions' = [t \in Tokens |-> None]
    /\ UNCHANGED <<rows, issued, expired, browser, wire, plan, ghosts>>

\* The process may also die at any point; requests under way fail.
Restart ==
    /\ Spend("restart") /\ server' = [at |-> "open", collected |-> {}]
    /\ sessions' = Loaded /\ rows' = Pruned(rows)
    /\ wire' = [b \in Tabs |-> [r \in Roles |->
                    IF wire[b][r] = None \/ wire[b][r].at = "answered" THEN wire[b][r]
                    ELSE [wire[b][r] EXCEPT !.at = "answered", !.status = "failed", !.set = "keep"]]]
    /\ UNCHANGED <<issued, expired, browser, ghosts>>

Expire(t) ==
    /\ t \in issued \ expired /\ Spend("expire") /\ expired' = expired \cup {t}
    /\ UNCHANGED <<store, browser, wire, server, ghosts>>

-----------------------------------------------------------------------------
\* A tab. fetch sends the cookie of its moment; an answer sets the cookie
\* before the function that awaits it goes on.

Send(b, r, kind, csrf, remember) ==
    wire' = [wire EXCEPT ![b][r] = [kind |-> kind, cookie |-> jar', csrf |-> csrf, remember |-> remember,
                                    at |-> "sent", status |-> "none", token |-> None, set |-> "keep",
                                    cancelled |-> FALSE]]
Fetch(b, r, kind) == Send(b, r, kind, tab[b].csrf, FALSE)
Over(b, r)        == wire' = [wire EXCEPT ![b][r] = None]
Holds(b, r, step) == thread[b][r].at = step
Free(b, r)        == Holds(b, r, "idle") /\ wire[b][r] = None

\* The answer of an exchange, or its loss on the way there or back.
Heard(b, r, kind, status) ==
    LET x == wire[b][r]
    IN  /\ x # None /\ x.kind = kind
        /\ \/ /\ x.at = "answered" /\ status = x.status /\ UNCHANGED plan
              /\ jar' = CASE x.set = "keep" -> jar [] x.set = "clear" -> None [] OTHER -> x.set
           \/ x.at \in {"sent", "answered"} /\ status = "failed" /\ Spend("lose") /\ UNCHANGED jar

\* A new generation: no continuation of this tab is current any more.
Cancelled(b) == [r \in Roles |-> [thread[b][r] EXCEPT !.current = FALSE]]

\* expireApiSession and the handler App gave it.
ExpiredTab(b)     == [tab[b] EXCEPT !.csrf = None, !.view = IF tab[b].csrf # None THEN "guest" ELSE @]
ExpiredThreads(b) == IF tab[b].csrf # None THEN Cancelled(b) ELSE thread[b]

\* adoptAuthSession; persistStaleAuthSessionMarker and the removal, each under
\* the lock of the origin.
Adopted(b, t)  == [tab[b] EXCEPT !.csrf = t]
Persisted(t)   == journal \cup {t}
Removed(notes) == journal \ notes

\* Mutant: only this tab's memory is asked.
MarkersHere(b) == tab[b].fallback

\* What the journal and this tab's memory say together.
Markers(b) == tab[b].fallback \cup journal

SetTab(b, value)    == tab' = [tab EXCEPT ![b] = value]
SetThreads(b, value) == thread' = [thread EXCEPT ![b] = value]
Resume(b, r, step) == SetThreads(b, [thread[b] EXCEPT ![r].at = step])
Stop(b, r)         == SetThreads(b, [thread[b] EXCEPT ![r] = Resting])

serverSide == <<store, expired, server>>

\* The page opens, or is asked to try again.
Open(b) ==
    /\ tab[b].view \in {"closed", "unavailable"} /\ Free(b, "load") /\ Spend("load")
    /\ SetTab(b, [tab[b] EXCEPT !.view = "loading"])
    /\ SetThreads(b, [Cancelled(b) EXCEPT !["load"] = Waiting])
    /\ UNCHANGED jar /\ Fetch(b, "load", "session")
    /\ UNCHANGED <<serverSide, journal, ghosts>>

\* What closing loses; the journal stays, and the server does not notice.
CloseTab(b) ==
    /\ tab[b].view # "closed" /\ Spend("close")
    /\ SetTab(b, Closed) /\ SetThreads(b, [r \in Roles |-> Resting])
    /\ UNCHANGED <<serverSide, jar, journal, wire, ghosts>>

\* An answer that nobody waits for any more still sets the cookie.
Ignore(b, r, status) ==
    /\ Holds(b, r, "idle") /\ wire[b][r] # None /\ Heard(b, r, wire[b][r].kind, status) /\ Over(b, r)
    /\ UNCHANGED <<serverSide, journal, tab, thread, ghosts>>

-----------------------------------------------------------------------------
\* App's load: adopt the session, reconcile, ask for the capabilities.

HearSession(b, status) ==
    LET t == wire[b]["load"].token
        current == thread[b]["load"].current
    IN  /\ Holds(b, "load", "wait") /\ Heard(b, "load", "session", status) /\ Over(b, "load")
        /\ CASE status = "ok" ->
                    /\ SetTab(b, Adopted(b, t))
                    /\ IF current THEN SetThreads(b, [thread[b] EXCEPT !["load"].at = "reconcile", !["load"].token = t])
                       ELSE Stop(b, "load")
             [] status = "guest" ->
                    /\ SetTab(b, [ExpiredTab(b) EXCEPT !.view = IF current THEN "guest" ELSE @])
                    /\ SetThreads(b, [ExpiredThreads(b) EXCEPT !["load"] = Resting])
             [] OTHER ->
                    /\ SetTab(b, [tab[b] EXCEPT !.view = IF current THEN "unavailable" ELSE @]) /\ Stop(b, "load")
        /\ UNCHANGED <<serverSide, journal, ghosts>>

\* With any note left, the session is revoked rather than adopted. Without a
\* current load the rest goes on all the same.
Reconcile(b) ==
    LET kept == [tab[b] EXCEPT !.fallback = Markers(b)]
        own  == tab[b].csrf = thread[b]["load"].token
    IN  /\ Holds(b, "load", "reconcile") /\ UNCHANGED jar
        /\ IF Markers(b) = {} \/ own
           THEN /\ Fetch(b, "load", IF Markers(b) = {} THEN "capabilities" ELSE "revoke")
                /\ SetTab(b, kept) /\ Resume(b, "load", "wait")
           ELSE /\ SetTab(b, IF thread[b]["load"].current THEN [kept EXCEPT !.csrf = None, !.view = "guest"] ELSE kept)
                /\ Stop(b, "load") /\ UNCHANGED wire
        /\ UNCHANGED <<serverSide, journal, plan, ghosts>>

\* logoutSessionIfCurrent once its request ended: the note goes if the
\* session is gone, else it is made again.
Revoked(status) == status \in {"ok", "unauthorized"}
AfterRevoke(b, t, status) ==
    IF Revoked(status)
    THEN [tab[b] EXCEPT !.fallback = @ \ {t}, !.csrf = IF @ = t THEN None ELSE @]
    ELSE [tab[b] EXCEPT !.fallback = IF tab[b].csrf = t THEN @ \cup {t} ELSE @]
\* Mutant: the note goes even if the revocation failed.
JournalCleared(b, t, status) == journal \ {t}

Journaled(b, t, status) ==
    IF Revoked(status) THEN Removed({t}) ELSE IF tab[b].csrf = t THEN Persisted(t) ELSE journal

HearLoadRevoke(b, status) ==
    LET th == thread[b]["load"]
        after == AfterRevoke(b, th.token, status)
    IN  /\ Holds(b, "load", "wait") /\ Heard(b, "load", "revoke", status) /\ Over(b, "load")
        /\ SetTab(b, IF th.current THEN [after EXCEPT !.csrf = None, !.view = "guest"] ELSE after)
        /\ journal' = Journaled(b, th.token, status)
        /\ sealed' = sealed \cup journal' /\ Stop(b, "load")
        /\ UNCHANGED <<serverSide, accepted, confirmed, ended>>

HearLoadCapabilities(b, status) ==
    LET current == thread[b]["load"].current
    IN  /\ Holds(b, "load", "wait") /\ Heard(b, "load", "capabilities", status) /\ Over(b, "load")
        /\ IF status = "unauthorized"
           THEN /\ SetTab(b, [ExpiredTab(b) EXCEPT !.view = IF current THEN "guest" ELSE @])
                /\ SetThreads(b, [ExpiredThreads(b) EXCEPT !["load"] = Resting])
           ELSE /\ SetTab(b, [tab[b] EXCEPT !.view = IF ~current THEN @ ELSE IF status = "ok" THEN "ready"
                                                     ELSE "unavailable"])
                /\ Stop(b, "load")
        /\ UNCHANGED <<serverSide, journal, ghosts>>

-----------------------------------------------------------------------------
\* A login (LoginView) and its continuation (App's onAuthenticated).

Submitting(b) == \E r \in Continuations : Holds(b, r, "wait") /\ wire[b][r].kind = "login"
Login(b, r, remember) ==
    /\ tab[b].view = "guest" /\ ~Submitting(b) /\ Free(b, r) /\ (r = "again" => ~Free(b, "login"))
    /\ Spend(IF remember THEN "remember" ELSE "login")
    /\ SetThreads(b, [thread[b] EXCEPT ![r] = [Resting EXCEPT !.at = "wait"]])
    /\ UNCHANGED jar /\ Send(b, r, "login", None, remember)
    /\ UNCHANGED <<serverSide, journal, tab, ghosts>>

HearLogin(b, r, status) ==
    LET t == wire[b][r].token
    IN  /\ Holds(b, r, "wait") /\ Heard(b, r, "login", status) /\ Over(b, r)
        /\ IF status = "ok"
           THEN /\ SetTab(b, [Adopted(b, t) EXCEPT !.view = "loading"])
                /\ SetThreads(b, [Cancelled(b) EXCEPT ![r] = [Waiting EXCEPT !.at = "seal", !.token = t]])
           ELSE Stop(b, r) /\ UNCHANGED tab
        /\ UNCHANGED <<serverSide, journal, ghosts>>

\* quarantineExplicitAuthSession, under the lock of the origin: if the browser
\* cannot store the note, the session is not activated.
Seal(b, r) ==
    LET t == thread[b][r].token
    IN  /\ Holds(b, r, "seal") /\ UNCHANGED jar
        /\ SetTab(b, [tab[b] EXCEPT !.fallback = @ \cup {t}])
        /\ \/ /\ journal' = Persisted(t) /\ sealed' = sealed \cup {t}
              /\ Send(b, r, "activate", t, FALSE)
              /\ SetThreads(b, [thread[b] EXCEPT ![r].at = "wait", ![r].superseded = Markers(b)])
              /\ UNCHANGED plan
           \/ Spend("unsealed") /\ Resume(b, r, "revoke") /\ UNCHANGED <<journal, sealed, wire>>
        /\ UNCHANGED <<serverSide, accepted, confirmed, ended>>

HearActivate(b, r, status) ==
    /\ Holds(b, r, "wait") /\ Heard(b, r, "activate", status)
    /\ IF status = "ok" /\ thread[b][r].current
       THEN Fetch(b, r, "capabilities") /\ UNCHANGED thread
       ELSE Over(b, r) /\ Resume(b, r, "revoke")
    /\ UNCHANGED <<serverSide, journal, tab, ghosts>>

\* The continuation's signal: only its request for capabilities has it.
Abort(b, r) ==
    /\ Holds(b, r, "wait") /\ wire[b][r].kind = "capabilities" /\ ~thread[b][r].current
    /\ Over(b, r) /\ Resume(b, r, "revoke")
    /\ UNCHANGED <<serverSide, jar, journal, tab, plan, ghosts>>

HearCapabilities(b, r, status) ==
    /\ Holds(b, r, "wait") /\ thread[b][r].current /\ Heard(b, r, "capabilities", status) /\ Over(b, r)
    /\ CASE status = "ok" -> Resume(b, r, "accept") /\ UNCHANGED tab
         [] status = "unauthorized" ->
                SetTab(b, ExpiredTab(b)) /\ SetThreads(b, [ExpiredThreads(b) EXCEPT ![r].at = "revoke"])
         [] OTHER ->
                /\ SetThreads(b, [thread[b] EXCEPT ![r].at = "revoke", ![r].then = "unavailable"]) /\ UNCHANGED tab
    /\ UNCHANGED <<serverSide, journal, ghosts>>

\* acceptExplicitAuthSession awaits the journal, and only then the tab shows
\* itself ready.
Accept(b, r) ==
    LET done == thread[b][r].superseded \cup {thread[b][r].token}
    IN  /\ Holds(b, r, "accept") /\ SetTab(b, [tab[b] EXCEPT !.fallback = @ \ done])
        /\ journal' = Removed(done) /\ accepted' = accepted \cup {thread[b][r].token}
        /\ Resume(b, r, "finish")
        /\ UNCHANGED <<serverSide, jar, wire, plan, sealed, confirmed, ended>>

Finish(b, r) ==
    /\ Holds(b, r, "finish")
    /\ IF thread[b][r].current
       THEN SetTab(b, [tab[b] EXCEPT !.view = "ready"]) /\ Stop(b, r)
       ELSE Resume(b, r, "revoke") /\ UNCHANGED tab
    /\ UNCHANGED <<serverSide, jar, journal, wire, plan, ghosts>>

\* Mutant: a failed continuation shows nothing.
ShownNothing(value, th) == value

\* revokeStaleLogin: only while this tab still holds the session's secret.
Shown(value, th) == IF th.current THEN [value EXCEPT !.view = th.then] ELSE value
Revoke(b, r) ==
    LET th == thread[b][r]
    IN  /\ Holds(b, r, "revoke") /\ UNCHANGED jar
        /\ IF tab[b].csrf = th.token
           THEN Fetch(b, r, "revoke") /\ Resume(b, r, "wait") /\ UNCHANGED tab
           ELSE SetTab(b, Shown(tab[b], th)) /\ Stop(b, r) /\ UNCHANGED wire
        /\ UNCHANGED <<serverSide, journal, plan, ghosts>>

HearRevoke(b, r, status) ==
    LET th == thread[b][r]
    IN  /\ Holds(b, r, "wait") /\ Heard(b, r, "revoke", status) /\ Over(b, r)
        /\ SetTab(b, Shown(AfterRevoke(b, th.token, status), th))
        /\ journal' = Journaled(b, th.token, status) /\ sealed' = sealed \cup journal'
        /\ Stop(b, r)
        /\ UNCHANGED <<serverSide, accepted, confirmed, ended>>

-----------------------------------------------------------------------------
\* A ready tab: mutations, and the logout, which cancels the continuations.

Operation(b, r) ==
    /\ r \in {"work", "logout"} /\ tab[b].view = "ready" /\ tab[b].csrf # None /\ Free(b, r) /\ Spend(r)
    /\ SetThreads(b, [IF r = "logout" THEN Cancelled(b) ELSE thread[b] EXCEPT ![r] = Waiting])
    /\ UNCHANGED jar /\ Fetch(b, r, r)
    /\ UNCHANGED <<serverSide, journal, tab, ghosts>>

\* A refused CSRF token is asked for again, once.
HearOperation(b, r, status) ==
    LET guest(value) == IF r = "logout" THEN [value EXCEPT !.view = "guest"] ELSE value
    IN  /\ r \in {"work", "logout"} /\ Holds(b, r, "wait") /\ Heard(b, r, r, status)
        /\ IF status = "csrf" /\ ~thread[b][r].retried
           THEN /\ Fetch(b, r, "session") /\ SetThreads(b, [thread[b] EXCEPT ![r].retried = TRUE])
                /\ UNCHANGED tab
           ELSE /\ Over(b, r)
                /\ CASE status = "ok" ->
                            /\ SetTab(b, guest(IF r = "logout" THEN [tab[b] EXCEPT !.csrf = None] ELSE tab[b]))
                            /\ Stop(b, r)
                     [] status = "unauthorized" ->
                            /\ SetTab(b, guest(ExpiredTab(b)))
                            /\ SetThreads(b, [ExpiredThreads(b) EXCEPT ![r] = Resting])
                     [] OTHER -> Stop(b, r) /\ UNCHANGED tab
        /\ UNCHANGED <<serverSide, journal, ghosts>>

HearRetry(b, r, status) ==
    LET t == wire[b][r].token
    IN  /\ r \in {"work", "logout"} /\ Holds(b, r, "wait") /\ Heard(b, r, "session", status)
        /\ CASE status = "ok" ->
                    SetTab(b, Adopted(b, t)) /\ Send(b, r, r, t, FALSE) /\ UNCHANGED thread
             [] status = "guest" ->
                    /\ SetTab(b, ExpiredTab(b)) /\ Over(b, r)
                    /\ SetThreads(b, [ExpiredThreads(b) EXCEPT ![r] = Resting])
             [] OTHER -> Over(b, r) /\ Stop(b, r) /\ UNCHANGED tab
        /\ UNCHANGED <<serverSide, journal, ghosts>>

-----------------------------------------------------------------------------
Handles(b, r) ==
    \/ Track(b, r) \/ Route(b, r) \/ Rotate(b, r)
    \/ \E t \in Tokens, done \in BOOLEAN : CreateSession(b, r, t, done)
    \/ \E done \in BOOLEAN : Act(b, r, done)

Continues(b, r, status) ==
    \/ Ignore(b, r, status)
    \/ r = "load" /\ (HearSession(b, status) \/ HearLoadRevoke(b, status) \/ HearLoadCapabilities(b, status))
    \/ HearOperation(b, r, status) \/ HearRetry(b, r, status)
    \/ /\ r \in Continuations
       /\ \/ HearLogin(b, r, status) \/ HearActivate(b, r, status)
          \/ HearCapabilities(b, r, status) \/ HearRevoke(b, r, status)

Locally(b, r) ==
    \/ r = "load" /\ Reconcile(b)
    \/ r \in Continuations /\ (Seal(b, r) \/ Abort(b, r) \/ Accept(b, r) \/ Finish(b, r) \/ Revoke(b, r))

Begins(b) ==
    \/ Open(b) \/ CloseTab(b)
    \/ \E r \in Roles : Operation(b, r)
    \/ \E r \in Continuations, remember \in BOOLEAN : Login(b, r, remember)

\* What happens of itself, apart from what users, clocks and failures do.
Internal ==
    \/ \E b \in Tabs, r \in Roles : Handles(b, r) \/ Locally(b, r) \/ \E status \in Status : Continues(b, r, status)
    \/ CollectRequests \/ CancelRequests

Next ==
    \/ Internal
    \/ \E b \in Tabs : Begins(b)
    \/ \E t \in Tokens : Expire(t)
    \/ BeginShutdown \/ CloseStore \/ Restart

Spec     == Init /\ [][Next]_vars
FairSpec == Spec /\ WF_vars(Internal)

-----------------------------------------------------------------------------
\* Every variable has its type, and what a tab waits for is on its way.
TypeOK ==
    /\ sessions \in [Tokens -> Session \cup {None}] /\ rows \in [Tokens -> Session \cup {None}]
    /\ issued \subseteq Tokens /\ expired \subseteq issued
    /\ jar \in Tokens \cup {None} /\ journal \subseteq Tokens
    /\ tab \in [Tabs -> Tab] /\ thread \in [Tabs -> [Roles -> Thread]]
    /\ wire \in [Tabs -> [Roles -> Exchange \cup {None}]]
    /\ server.at \in {"open", "flag", "cancelling", "done", "closed"}
    /\ \A b \in Tabs, r \in Roles : Holds(b, r, "wait") => wire[b][r] # None

\* A session is activated only once a note of it was stored: activation is
\* bound to the CSRF secret of the very session (auth.go Activate), so the
\* cookie of another tab's login cannot be activated by this tab's request.
ActivatedIsSealed == \A t \in Tokens : sessions[t] # None /\ sessions[t].activated => t \in sealed

\* The remembered sessions in memory are the rows, with the same activation:
\* every change of one goes to SQLite first and is undone if that fails.
RowsMirror ==
    server.at # "closed" =>
        \A t \in Tokens \ expired :
            IF Known(t) /\ sessions[t].remembered THEN rows[t] = sessions[t] ELSE rows[t] = None

\* A remembered login whose activation succeeded is there and active, also
\* after restarts, until it expires or a logout, revocation or rotation ends it.
RememberedSurvives ==
    server.at # "closed" =>
        \A t \in confirmed \ (expired \cup ended) : Known(t) /\ sessions[t].activated

\* The session of the browser's cookie is not usable without a note of it
\* before its login is finished: whatever tab dies or answer is lost, the
\* next page load finds the note.
CookieIsQuarantined ==
    Live(jar) /\ sessions[jar].activated => jar \in journal \cup accepted

\* A page load shows the workspace for the browser's session only if its login
\* was finished, or it is gone by then (reconcileStaleAuthSession). The tab may
\* hold an unfinished session whose cookie another tab's login has replaced:
\* that login removes the note, and the load goes on with the new cookie.
AdoptsFinished ==
    [][\A b \in Tabs :
          LET t == thread[b]["load"].token
          IN  /\ thread[b]["load"].at = "wait" /\ thread'[b]["load"].at = "idle"
              /\ tab[b].view # "ready" /\ tab'[b].view = "ready" /\ jar = t
              => t \in accepted \/ ~Live(t)]_vars

\* A shutdown leaves no mutation under way that was not told to stop: it was
\* tracked before the flag, or sees the flag (BeginShutdown, trackRequest).
ShutdownCancels ==
    server.at \in {"done", "closed"} => Tracked = {}

\* A tab does not stay "loading": page load and login end in a view, whatever
\* is lost or cancelled.
LoadingEnds == \A b \in Tabs : tab[b].view = "loading" ~> tab[b].view # "loading"

\* Variables keep their types, and memory, rows and remembered sessions say
\* the same, also while the server shuts down.
SessionsMirrored == TypeOK /\ RowsMirror /\ RememberedSurvives /\ ShutdownCancels

\* No session can be used before its login is finished: it has been sealed
\* by a stored note, and the cookie's session is in that note until then.
LoginsGuarded == ActivatedIsSealed /\ CookieIsQuarantined

=============================================================================
