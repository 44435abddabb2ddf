-------------------------- MODULE BrowserLoginsProofs --------------------------
(***************************************************************************)
(* Proofs about websetupmanager's browser sessions, for any number of      *)
(* tabs and tokens and any sequence of logins, reloads, lost answers,      *)
(* failing statements, expiries, shutdowns and restarts: memory and rows   *)
(* say the same, no session is used before its login is finished, and a    *)
(* page load adopts none that is not.                                      *)
(***************************************************************************)
EXTENDS BrowserLogins, TLAPS

-----------------------------------------------------------------------------
(* The invariant. *)

TypeInv ==
    /\ TypeOK
    /\ sealed \subseteq Tokens /\ accepted \subseteq Tokens /\ confirmed \subseteq Tokens /\ ended \subseteq Tokens
    /\ plan \in [Events -> Nat]
    /\ server \in [at : {"open", "flag", "cancelling", "done", "closed"}, collected : SUBSET (Tabs \X Roles)]

(* A token that is gone never comes back: it has expired, or neither memory *)
(* nor the database know it.                                               *)
Present(t) == sessions[t] # None \/ rows[t] # None
Gone(t)    == t \in expired \/ ~Present(t)

(* What the browser, its requests and the promises about it name. A login's *)
(* answer is not named by the browser until it has been heard.             *)
Named(t) ==
    \/ t = jar \/ t \in journal \cup sealed \cup accepted \cup confirmed
    \/ \E b \in Tabs : \/ t = tab[b].csrf \/ t \in tab[b].fallback
                       \/ \E r \in Roles : t = thread[b][r].token \/ t \in thread[b][r].superseded

Carries(x) == {x.cookie, x.csrf} \cup IF x.kind = "login" THEN {} ELSE {x.token}

Unnamed(t) == ~Named(t) /\ \A b \in Tabs, r \in Roles : wire[b][r] # None => t \notin Carries(wire[b][r])

LoginOf(b, r, t) == wire[b][r] # None /\ wire[b][r].kind = "login" /\ wire[b][r].token = t

(* A token that was never made is unknown everywhere; one that its login's  *)
(* answer carries is known to that answer alone.                           *)
FreshInv ==
    \A t \in Tokens :
        /\ t \notin issued => /\ Unnamed(t) /\ ~Present(t)
                              /\ \A b \in Tabs, r \in Roles : ~LoginOf(b, r, t)
        /\ \A b \in Tabs, r \in Roles : LoginOf(b, r, t) =>
              Unnamed(t) /\ \A c \in Tabs, q \in Roles : LoginOf(c, q, t) => c = b /\ q = r

(* The rows and the sessions in memory. *)
StoreInv ==
    /\ RowsMirror
    /\ \A t \in Tokens : rows[t] # None => rows[t].remembered
    /\ server.at = "closed" => \A t \in Tokens : sessions[t] = None
    /\ \A t \in Tokens : /\ sessions[t] # None /\ sessions[t].activated => t \in sealed
                         /\ rows[t] # None /\ rows[t].activated => t \in sealed
    /\ \A t \in confirmed \ (expired \cup ended) : rows[t] # None /\ rows[t].activated

(* The session of the cookie, once it may become active: its note is there  *)
(* until its login is finished.                                            *)
GuardInv ==
    /\ journal \subseteq sealed
    /\ jar \in sealed /\ ~Gone(jar) => jar \in journal \cup accepted

(* What an exchange carries. A revocation answered for a token shows it     *)
(* gone, unless the cookie had moved on when it was sent.                   *)
ExchangeOk(x) ==
    /\ x.set \in Tokens => x.kind = "login" /\ x.set = x.token /\ x.at = "answered"
    /\ x.kind # "login" /\ x.token # None => x.at = "answered"
    /\ x.at \in {"sent", "route", "create"} => x.token = None
    /\ x.at \in {"create", "rotate"} => x.kind = "login"
    /\ x.at = "rotate" => x.token # None
    /\ x.at = "act" => \/ x.kind = "login" /\ x.token # None
                       \/ x.kind \in {"activate", "logout", "revoke"} /\ x.cookie = x.csrf /\ x.cookie # None
    /\ x.kind \in {"login", "session"} /\ x.at = "answered" /\ x.status = "ok" => x.token # None
    /\ x.kind = "session" /\ x.at = "answered" /\ x.status = "ok" => x.token \in sealed
    /\ x.kind = "activate" => x.csrf \in sealed /\ (x.at = "answered" /\ x.status = "ok" => x.cookie = x.csrf)
    /\ x.kind = "revoke" => /\ x.csrf # None
                            /\ x.cookie # x.csrf => jar # x.csrf
                            /\ x.at = "answered" /\ Revoked(x.status) /\ jar = x.csrf => Gone(x.csrf)

WireInv == \A b \in Tabs, r \in Roles : wire[b][r] # None => ExchangeOk(wire[b][r])

(* What the functions under way in a tab rely on. While a login goes on to   *)
(* be finished, none of the notes that it will remove is of the cookie's     *)
(* session, except its own.                                                *)
Finishing(th, x) ==
    \/ th.at = "accept"
    \/ th.at = "wait" /\ x.kind = "capabilities"
    \/ th.at = "wait" /\ x.kind = "activate" /\ x.cookie = x.csrf

ThreadOk(r, th, x) ==
    /\ th.at = "wait" => x # None
    /\ th.at \in {"seal", "accept", "finish", "revoke", "reconcile"} => th.token # None
    /\ th.at = "wait" /\ x.kind = "revoke" => x.csrf = th.token
    /\ r = "load" /\ th.at = "reconcile" => th.token \in sealed
    /\ r = "load" /\ th.at = "wait" /\ x.kind = "capabilities" /\ jar = th.token =>
          th.token \in accepted \/ Gone(th.token)
    /\ r \in Continuations \cup {"load"} /\ th.at = "wait" /\ x.kind \in {"activate", "capabilities"} => th.token # None
    /\ r \in Continuations /\ th.at = "wait" /\ x.kind = "activate" => x.csrf = th.token
    /\ r \in Continuations /\ Finishing(th, x) => \A u \in th.superseded \ {th.token} : jar # u

ThreadsInv == \A b \in Tabs, r \in Roles : ThreadOk(r, thread[b][r], wire[b][r])

(* The mutations under way while the server shuts down. *)
ShutdownInv ==
    /\ server.at = "cancelling" => Tracked \subseteq server.collected
    /\ ShutdownCancels

LoginsInv == TypeInv /\ FreshInv /\ StoreInv /\ GuardInv /\ WireInv /\ ThreadsInv /\ ShutdownInv

-----------------------------------------------------------------------------
(* What a step leaves alone.                                               *)

LEMMA PresentAsBefore ==
    ASSUME UNCHANGED <<sessions, rows>>
    PROVE  \A t : Present(t)' <=> Present(t)
BY DEF Present

(* A token that something names has been made. *)
LEMMA NamedIsMade ==
    ASSUME LoginsInv, NEW t \in Tokens, ~Unnamed(t)
    PROVE  t \in issued /\ \A b \in Tabs, r \in Roles : ~LoginOf(b, r, t)
BY DEF LoginsInv, FreshInv

LEMMA NamedByTab ==
    ASSUME NEW b \in Tabs
    PROVE  /\ ~Unnamed(jar) /\ ~Unnamed(tab[b].csrf)
           /\ \A t \in tab[b].fallback : ~Unnamed(t)
           /\ \A t \in journal \cup sealed \cup accepted \cup confirmed : ~Unnamed(t)
           /\ \A r \in Roles : ~Unnamed(thread[b][r].token) /\ \A t \in thread[b][r].superseded : ~Unnamed(t)
BY DEF Unnamed, Named

LEMMA NamedByWire ==
    ASSUME NEW b \in Tabs, NEW r \in Roles, wire[b][r] # None
    PROVE  /\ ~Unnamed(wire[b][r].cookie) /\ ~Unnamed(wire[b][r].csrf)
           /\ wire[b][r].kind # "login" => ~Unnamed(wire[b][r].token)
<1>1. \A t \in Carries(wire[b][r]) : ~Unnamed(t)
  BY DEF Unnamed
<1>2. /\ wire[b][r].cookie \in Carries(wire[b][r]) /\ wire[b][r].csrf \in Carries(wire[b][r])
      /\ wire[b][r].kind # "login" => wire[b][r].token \in Carries(wire[b][r])
  BY DEF Carries
<1> QED BY <1>1, <1>2

LEMMA WireType ==
    ASSUME LoginsInv, NEW b \in Tabs, NEW r \in Roles, wire[b][r] # None
    PROVE  wire[b][r] \in Exchange /\ ExchangeOk(wire[b][r])
BY DEF LoginsInv, TypeInv, TypeOK, WireInv

LEMMA TabType ==
    ASSUME LoginsInv, NEW b \in Tabs
    PROVE  /\ tab[b] \in Tab /\ tab[b].csrf \in Tokens \cup {None} /\ tab[b].fallback \subseteq Tokens
           /\ thread[b] \in [Roles -> Thread]
           /\ \A r \in Roles : thread[b][r].token \in Tokens \cup {None} /\ thread[b][r].superseded \subseteq Tokens
<1>1. tab[b] \in Tab /\ thread[b] \in [Roles -> Thread]
  BY DEF LoginsInv, TypeInv, TypeOK
<1>2. \A r \in Roles : thread[b][r] \in Thread
  BY <1>1
<1> QED BY <1>1, <1>2 DEF Tab, Thread

(* The requests on the server go on, without the browser. *)
Follows(x, y) ==
    /\ y.kind = x.kind /\ y.csrf = x.csrf
    /\ IF x.kind = "login" THEN y.cookie \in {x.cookie, None} /\ (y.token = x.token \/ y.token \in issued' \ issued)
                           ELSE y.cookie = x.cookie /\ y.token \in {x.token, x.cookie}

WireFollows ==
    /\ \A b \in Tabs, r \in Roles :
          IF wire[b][r] = None THEN wire'[b][r] = None ELSE wire'[b][r] # None /\ Follows(wire[b][r], wire'[b][r])
    /\ \A b, c \in Tabs, r, q \in Roles :
          wire[b][r] # None /\ wire'[b][r].token \in issued' \ issued
          /\ wire[c][q] # None /\ wire'[c][q].token = wire'[b][r].token => c = b /\ q = r

StoreGoesOn ==
    /\ issued \subseteq issued' /\ expired \subseteq expired'
    /\ \A t \in issued : Gone(t) => Gone(t)'
    /\ \A t \in Tokens \ issued' : ~Present(t)'
    /\ \A t \in Tokens : Unnamed(t) => t \notin confirmed'

LEMMA ServerFresh ==
    ASSUME LoginsInv, UNCHANGED <<browser, sealed, accepted>>, WireFollows, StoreGoesOn
    PROVE  FreshInv'
<1>1. ASSUME NEW t \in Tokens, Unnamed(t) PROVE Unnamed(t)'
  <2>1. ~Named(t)'
    BY <1>1 DEF Unnamed, Named, browser, StoreGoesOn
  <2>2. ASSUME NEW b \in Tabs, NEW r \in Roles, wire'[b][r] # None PROVE t \notin Carries(wire[b][r])'
    <3>1. wire[b][r] # None /\ Follows(wire[b][r], wire'[b][r]) /\ t \notin Carries(wire[b][r])
      BY <1>1, <2>2 DEF WireFollows, Unnamed
    <3>2. t # None
      BY NoneAssumption
    <3> QED BY <3>1, <3>2 DEF Follows, Carries
  <2> QED BY <2>1, <2>2 DEF Unnamed
<1>2. ASSUME NEW t \in Tokens, t \notin issued'
      PROVE  Unnamed(t)' /\ ~Present(t)' /\ \A b \in Tabs, r \in Roles : ~LoginOf(b, r, t)'
  <2>1. t \notin issued /\ Unnamed(t) /\ \A b \in Tabs, r \in Roles : ~LoginOf(b, r, t)
    BY <1>2 DEF LoginsInv, FreshInv, StoreGoesOn
  <2>2. ASSUME NEW b \in Tabs, NEW r \in Roles PROVE ~LoginOf(b, r, t)'
    BY <1>2, <2>1 DEF LoginOf, WireFollows, Follows
  <2> QED BY <1>1, <1>2, <2>1, <2>2 DEF StoreGoesOn
<1>3. ASSUME NEW t \in Tokens, NEW b \in Tabs, NEW r \in Roles, LoginOf(b, r, t)'
      PROVE  Unnamed(t)' /\ \A c \in Tabs, q \in Roles : LoginOf(c, q, t)' => c = b /\ q = r
  <2>1. /\ wire[b][r] # None /\ wire[b][r].kind = "login" /\ wire'[b][r].token = t
        /\ wire[b][r].token = t \/ t \in issued' \ issued
    BY <1>3 DEF LoginOf, WireFollows, Follows
  <2>2. CASE t \in issued' \ issued
    <3>1. Unnamed(t)'
      BY <1>1, <2>2 DEF LoginsInv, FreshInv
    <3>2. ASSUME NEW c \in Tabs, NEW q \in Roles, LoginOf(c, q, t)' PROVE c = b /\ q = r
      BY <2>1, <2>2, <3>2 DEF LoginOf, WireFollows
    <3> QED BY <3>1, <3>2
  <2>3. CASE t \notin issued' \ issued
    <3>1. LoginOf(b, r, t)
      BY <2>1, <2>3 DEF LoginOf
    <3>2. Unnamed(t) /\ \A c \in Tabs, q \in Roles : LoginOf(c, q, t) => c = b /\ q = r
      BY <3>1 DEF LoginsInv, FreshInv
    <3>3. ASSUME NEW c \in Tabs, NEW q \in Roles, LoginOf(c, q, t)' PROVE LoginOf(c, q, t)
      BY <2>3, <3>3 DEF LoginOf, WireFollows, Follows
    <3> QED BY <1>1, <3>2, <3>3
  <2> QED BY <2>2, <2>3
<1> QED BY <1>2, <1>3 DEF FreshInv

LEMMA ServerThreads ==
    ASSUME LoginsInv, UNCHANGED <<browser, sealed, accepted>>, WireFollows, StoreGoesOn, NEW b \in Tabs, NEW r \in Roles
    PROVE  ThreadOk(r, thread[b][r], wire[b][r])'
<1>1. ThreadOk(r, thread[b][r], wire[b][r]) /\ thread' = thread /\ jar' = jar
  BY DEF LoginsInv, ThreadsInv, browser
<1>2. CASE thread[b][r].at = "wait"
  <2>1. wire[b][r] # None /\ wire'[b][r] # None /\ Follows(wire[b][r], wire'[b][r])
    BY <1>1, <1>2 DEF ThreadOk, WireFollows
  <2>2. thread[b][r].token # None => (Gone(thread[b][r].token) => Gone(thread[b][r].token)')
    BY <1>1, TabType, NamedByTab, NamedIsMade DEF StoreGoesOn, Gone, Present
  <2>3. wire'[b][r].kind = wire[b][r].kind /\ wire'[b][r].csrf = wire[b][r].csrf
        /\ (wire[b][r].kind = "activate" => wire'[b][r].cookie = wire[b][r].cookie)
    BY <2>1 DEF Follows
  <2>4. Finishing(thread[b][r], wire[b][r])' => Finishing(thread[b][r], wire[b][r])
    BY <1>1, <2>3 DEF Finishing
  <2> QED BY <1>1, <1>2, <2>1, <2>2, <2>3, <2>4 DEF ThreadOk
<1>3. CASE thread[b][r].at # "wait"
  BY <1>1, <1>3 DEF ThreadOk, Finishing
<1> QED BY <1>2, <1>3

LEMMA ServerStep ==
    ASSUME LoginsInv, UNCHANGED <<browser, sealed, accepted>>, WireFollows, StoreGoesOn, TypeInv', StoreInv', ShutdownInv',
           \A b \in Tabs, r \in Roles : wire'[b][r] # None /\ wire'[b][r] # wire[b][r] => ExchangeOk(wire[b][r])'
    PROVE  LoginsInv'
<1>1. ThreadsInv'
  BY ServerThreads DEF ThreadsInv
<1>2. GuardInv'
  <2>1. jar \in sealed => jar \in Tokens /\ (Gone(jar) => Gone(jar)')
    BY NamedByTab, NamedIsMade DEF LoginsInv, TypeInv, StoreGoesOn, Gone, Present, Unnamed, Named, browser
  <2> QED BY <2>1 DEF LoginsInv, GuardInv, browser, Gone, Present
<1>3. WireInv'
  <2> SUFFICES ASSUME NEW b \in Tabs, NEW r \in Roles, wire'[b][r] = wire[b][r], wire[b][r] # None
      PROVE  ExchangeOk(wire[b][r])'
    BY DEF WireInv
  <2>1. ExchangeOk(wire[b][r]) /\ wire[b][r] \in Exchange /\ wire[b][r].csrf \in Tokens \cup {None}
    BY WireType DEF Exchange
  <2>2. wire[b][r].csrf # None => (Gone(wire[b][r].csrf) => Gone(wire[b][r].csrf)')
    BY <2>1, NamedByWire, NamedIsMade DEF StoreGoesOn, Gone, Present
  <2> QED BY <2>1, <2>2 DEF ExchangeOk, browser
<1> QED BY <1>1, <1>2, <1>3, ServerFresh DEF LoginsInv

-----------------------------------------------------------------------------
(* The functions of a tab go on, without the server.                       *)

(* What tab b and its exchange r have come to name is no longer fresh. *)
Untold(b, r, t) ==
    /\ jar' # t /\ t \notin journal' \cup sealed' \cup accepted'
    /\ tab'[b].csrf # t /\ t \notin tab'[b].fallback
    /\ \A q \in Roles : thread'[b][q].token # t /\ t \notin thread'[b][q].superseded
    /\ wire'[b][r] # None => t \notin Carries(wire[b][r])'

(* The token that an exchange brings to the browser, if it does. *)
Brought(b, r) ==
    IF wire[b][r] # None /\ wire[b][r].kind = "login" /\ wire'[b][r] # wire[b][r] THEN {wire[b][r].token} \ {None} ELSE {}

IsSent(x) == /\ x.at = "sent" /\ x.token = None /\ x.set = "keep"

(* The other functions of the tab are the same, cancelled, or forgotten. *)
SameThread(new, old) ==
    new.at = "idle" \/ (new.at = old.at /\ new.token = old.token /\ new.superseded = old.superseded)

OneTab(b, r) ==
    /\ \A c \in Tabs \ {b} : tab'[c] = tab[c] /\ thread'[c] = thread[c] /\ wire'[c] = wire[c]
    /\ \A q \in Roles \ {r} : wire'[b][q] = wire[b][q] /\ SameThread(thread'[b][q], thread[b][q])
    /\ wire'[b][r] = None \/ wire'[b][r] = wire[b][r] \/ IsSent(wire'[b][r])

OthersGoOn ==
    /\ UNCHANGED <<serverSide, confirmed, ended>>
    /\ sealed \subseteq sealed' /\ accepted \subseteq accepted'

CookieGoesOn(b, r) == jar' = jar \/ jar' = None \/ jar' \in Brought(b, r)

LEMMA BrowserFresh ==
    ASSUME LoginsInv, NEW b \in Tabs, NEW r \in Roles, OthersGoOn, OneTab(b, r),
           \A t \in Tokens : Unnamed(t) /\ t \notin Brought(b, r) => Untold(b, r, t)
    PROVE  FreshInv'
<1> USE NoneAssumption
<1>1. ASSUME NEW t \in Tokens, Unnamed(t), t \notin Brought(b, r) PROVE Unnamed(t)'
  <2>1. Untold(b, r, t)
    BY <1>1
  <2>2. ~Named(t)'
    <3>1. jar' # t /\ t \notin journal' \cup sealed' \cup accepted' \cup confirmed'
      BY <1>1, <2>1 DEF Untold, OthersGoOn, Unnamed, Named
    <3>2. ASSUME NEW c \in Tabs
          PROVE  /\ tab'[c].csrf # t /\ t \notin tab'[c].fallback
                 /\ \A q \in Roles : thread'[c][q].token # t /\ t \notin thread'[c][q].superseded
      <4>1. CASE c = b
        BY <2>1, <4>1 DEF Untold
      <4>2. CASE c # b
        BY <1>1, <4>2 DEF OneTab, Unnamed, Named
      <4> QED BY <4>1, <4>2
    <3> QED BY <3>1, <3>2 DEF Named
  <2>3. ASSUME NEW c \in Tabs, NEW q \in Roles, wire'[c][q] # None PROVE t \notin Carries(wire[c][q])'
    <3>1. CASE c = b /\ q = r
      BY <2>1, <2>3, <3>1 DEF Untold
    <3>2. CASE ~(c = b /\ q = r)
      <4>1. wire'[c][q] = wire[c][q]
        BY <3>2 DEF OneTab
      <4> QED BY <1>1, <2>3, <4>1 DEF Unnamed, Carries
    <3> QED BY <3>1, <3>2
  <2> QED BY <2>2, <2>3 DEF Unnamed
<1>2. ASSUME NEW t \in Tokens, NEW c \in Tabs, NEW q \in Roles, LoginOf(c, q, t)'
      PROVE  LoginOf(c, q, t) /\ t \notin Brought(b, r)
  <2>1. LoginOf(c, q, t) /\ (c = b /\ q = r => wire'[b][r] = wire[b][r])
    BY <1>2 DEF LoginOf, OneTab, IsSent
  <2>2. t \in Brought(b, r) => LoginOf(b, r, t) /\ wire'[b][r] # wire[b][r]
    BY DEF Brought, LoginOf
  <2> QED BY <2>1, <2>2 DEF LoginsInv, FreshInv
<1>3. ASSUME NEW t \in Tokens, t \in Brought(b, r) PROVE t \in issued
  BY <1>3 DEF Brought, LoginOf, LoginsInv, FreshInv
<1> QED BY <1>1, <1>2, <1>3 DEF FreshInv, LoginsInv, OthersGoOn, serverSide, store, Present

(* A cookie that is named is the cookie before. *)
LEMMA CookieStays ==
    ASSUME LoginsInv, NEW b \in Tabs, NEW r \in Roles, CookieGoesOn(b, r), NEW t \in Tokens, ~Unnamed(t), jar' = t
    PROVE  jar = t
<1>1. t \notin Brought(b, r)
  BY NamedIsMade DEF Brought, LoginOf
<1> QED BY <1>1, NoneAssumption DEF CookieGoesOn

LEMMA BrowserThreads ==
    ASSUME LoginsInv, NEW b \in Tabs, NEW r \in Roles, OthersGoOn, OneTab(b, r), CookieGoesOn(b, r),
           ThreadOk(r, thread[b][r], wire[b][r])'
    PROVE  ThreadsInv'
<1> SUFFICES ASSUME NEW c \in Tabs, NEW q \in Roles, ~(c = b /\ q = r)
    PROVE  ThreadOk(q, thread[c][q], wire[c][q])'
  BY DEF ThreadsInv
<1>1. ThreadOk(q, thread[c][q], wire[c][q]) /\ wire'[c][q] = wire[c][q] /\ SameThread(thread'[c][q], thread[c][q])
  BY DEF LoginsInv, ThreadsInv, OneTab, SameThread
<1>2. \A t : Gone(t)' <=> Gone(t)
  BY DEF Gone, Present, OthersGoOn, serverSide, store
<1>3. CASE thread'[c][q].at = "idle"
  BY <1>3 DEF ThreadOk, Finishing
<1>4. CASE thread'[c][q].at # "idle"
  <2>1. thread'[c][q].at = thread[c][q].at /\ thread'[c][q].token = thread[c][q].token
        /\ thread'[c][q].superseded = thread[c][q].superseded
    BY <1>1, <1>4 DEF SameThread
  <2>2. \A u \in thread[c][q].superseded : jar' = u => jar = u
    BY TabType, NamedByTab, CookieStays
  <2>3. thread[c][q].token # None => (jar' = thread[c][q].token => jar = thread[c][q].token)
    BY TabType, NamedByTab, CookieStays
  <2>4. Finishing(thread[c][q], wire[c][q])' => Finishing(thread[c][q], wire[c][q])
    BY <1>1, <2>1 DEF Finishing
  <2> QED BY <1>1, <1>2, <2>1, <2>2, <2>3, <2>4 DEF ThreadOk, OthersGoOn
<1> QED BY <1>3, <1>4

LEMMA BrowserStep ==
    ASSUME LoginsInv, NEW b \in Tabs, NEW r \in Roles, OthersGoOn, OneTab(b, r), CookieGoesOn(b, r),
           \A t \in Tokens : Unnamed(t) /\ t \notin Brought(b, r) => Untold(b, r, t),
           TypeInv', GuardInv', ThreadOk(r, thread[b][r], wire[b][r])',
           wire'[b][r] # None /\ wire'[b][r] # wire[b][r] => ExchangeOk(wire[b][r])'
    PROVE  LoginsInv'
<1>1. \A t : Gone(t)' <=> Gone(t)
  BY DEF Gone, Present, OthersGoOn, serverSide, store
<1>2. WireInv'
  <2> SUFFICES ASSUME NEW c \in Tabs, NEW q \in Roles, wire'[c][q] = wire[c][q], wire[c][q] # None
      PROVE  ExchangeOk(wire[c][q])'
    BY DEF WireInv, OneTab
  <2>1. ExchangeOk(wire[c][q]) /\ wire[c][q].csrf \in Tokens \cup {None}
    BY WireType DEF Exchange
  <2>2. wire[c][q].csrf # None => (jar' = wire[c][q].csrf => jar = wire[c][q].csrf)
    BY <2>1, NamedByWire, CookieStays
  <2> QED BY <1>1, <2>1, <2>2 DEF ExchangeOk, OthersGoOn
<1>3. StoreInv'
  <2>1. RowsMirror'
    BY DEF LoginsInv, StoreInv, RowsMirror, OthersGoOn, serverSide, store, Known
  <2> QED BY <2>1 DEF LoginsInv, StoreInv, OthersGoOn, serverSide, store
<1>4. ShutdownInv'
  <2>1. Tracked' \subseteq Tracked
    <3> SUFFICES ASSUME NEW c \in Tabs, NEW q \in Roles, UnderWay(wire[c][q])' PROVE UnderWay(wire[c][q])
      BY DEF Tracked
    <3> QED BY DEF UnderWay, OneTab, IsSent
  <2> QED BY <2>1 DEF LoginsInv, ShutdownInv, ShutdownCancels, OthersGoOn, serverSide
<1> QED BY <1>2, <1>3, <1>4, BrowserFresh, BrowserThreads DEF LoginsInv

-----------------------------------------------------------------------------
(* One exchange changes.                                                   *)

WireFunctions == [Tabs -> [Roles -> Exchange \cup {None}]]

OnlyWire(b, r, y) ==
    /\ wire' \in WireFunctions /\ wire'[b][r] = y
    /\ \A c \in Tabs, q \in Roles : ~(c = b /\ q = r) => wire'[c][q] = wire[c][q]

LEMMA OneExchange ==
    ASSUME LoginsInv, NEW b \in Tabs, NEW r \in Roles, NEW y \in Exchange \cup {None}, wire' = [wire EXCEPT ![b][r] = y]
    PROVE  OnlyWire(b, r, y)
BY DEF LoginsInv, TypeInv, TypeOK, OnlyWire, WireFunctions

LEMMA AnswerIs ==
    ASSUME LoginsInv, NEW b \in Tabs, NEW r \in Roles, wire[b][r] # None, NEW status \in Status, NEW set \in Cookie,
           Answer(b, r, status, set)
    PROVE  OnlyWire(b, r, [wire[b][r] EXCEPT !.at = "answered", !.status = status, !.set = set])
<1>1. wire[b][r] \in Exchange
  BY WireType
<1>2. [wire[b][r] EXCEPT !.at = "answered", !.status = status, !.set = set] \in Exchange
  BY <1>1 DEF Exchange
<1>3. wire' = [wire EXCEPT ![b][r] = [wire[b][r] EXCEPT !.at = "answered", !.status = status, !.set = set]]
  BY DEF Answer, LoginsInv, TypeInv, TypeOK
<1> QED BY <1>2, <1>3, OneExchange

LEMMA ToIs ==
    ASSUME LoginsInv, NEW b \in Tabs, NEW r \in Roles, wire[b][r] # None, To(b, r, "create") \/ To(b, r, "act")
    PROVE  \E step \in {"create", "act"} : To(b, r, step) /\ OnlyWire(b, r, [wire[b][r] EXCEPT !.at = step])
<1>1. PICK step \in {"create", "act"} : To(b, r, step)
  OBVIOUS
<1>2. wire[b][r] \in Exchange
  BY WireType
<1>3. [wire[b][r] EXCEPT !.at = step] \in Exchange
  BY <1>2 DEF Exchange
<1>4. wire' = [wire EXCEPT ![b][r] = [wire[b][r] EXCEPT !.at = step]]
  BY <1>1 DEF To, LoginsInv, TypeInv, TypeOK
<1> QED BY <1>1, <1>3, <1>4, OneExchange

LEMMA GiveIs ==
    ASSUME LoginsInv, NEW b \in Tabs, NEW r \in Roles, wire[b][r] # None, NEW t \in Tokens, Give(b, r, t)
    PROVE  OnlyWire(b, r, [wire[b][r] EXCEPT !.at = "answered", !.status = "ok", !.token = t,
                                            !.set = IF wire[b][r].kind = "login" THEN t ELSE "keep"])
<1> DEFINE y == [wire[b][r] EXCEPT !.at = "answered", !.status = "ok", !.token = t,
                                   !.set = IF wire[b][r].kind = "login" THEN t ELSE "keep"]
<1>1. wire[b][r] \in Exchange
  BY WireType
<1>2. y \in Exchange
  BY <1>1 DEF Exchange, Cookie, Status
<1>3. wire' = [wire EXCEPT ![b][r] = y]
  <2> DEFINE set == IF wire[b][r].kind = "login" THEN t ELSE "keep"
  <2>1. wire' = [wire EXCEPT ![b][r].at = "answered", ![b][r].status = "ok", ![b][r].token = t, ![b][r].set = set]
    BY DEF Give
  <2>2. y = [wire[b][r] EXCEPT !.at = "answered", !.status = "ok", !.token = t, !.set = set]
    OBVIOUS
  <2> HIDE DEF set, y
  <2> QED BY <2>1, <2>2 DEF LoginsInv, TypeInv, TypeOK
<1> QED BY <1>2, <1>3, OneExchange

(* What a step of the server keeps of its own state. *)
StoreTypes ==
    /\ sessions' \in [Tokens -> Session \cup {None}] /\ rows' \in [Tokens -> Session \cup {None}]
    /\ issued' \subseteq Tokens /\ issued \subseteq issued' /\ expired' \subseteq issued' /\ expired \subseteq expired'
    /\ confirmed' \subseteq Tokens /\ ended' \subseteq Tokens /\ plan' \in [Events -> Nat]

StoreNext ==
    /\ StoreTypes /\ StoreInv'
    /\ \A t \in issued : Gone(t) => Gone(t)'
    /\ \A t \in Tokens \ issued' : ~Present(t)'

(* A step of the server on one exchange. *)
LEMMA ServerOne ==
    ASSUME LoginsInv, NEW b \in Tabs, NEW r \in Roles, wire[b][r] # None, NEW y \in Exchange, OnlyWire(b, r, y),
           UNCHANGED <<browser, sealed, accepted, server>>, StoreNext,
           Follows(wire[b][r], y),
           confirmed' \subseteq confirmed \cup ({wire[b][r].cookie} \ {None}),
           server.at \in {"cancelling", "done", "closed"} /\ UnderWay(y) => UnderWay(wire[b][r]),
           ExchangeOk(y)'
    PROVE  LoginsInv'
<1> DEFINE x == wire[b][r]
<1>1. y # None /\ x \in Exchange /\ ExchangeOk(x)
  BY WireType, ValuesAssumption
<1>2. WireFollows
  <2>1. ASSUME NEW c \in Tabs, NEW q \in Roles, wire[c][q] # None
        PROVE  wire'[c][q] # None /\ Follows(wire[c][q], wire'[c][q])
    BY <1>1, <2>1 DEF OnlyWire, Follows
  <2>2. ASSUME NEW c \in Tabs, NEW q \in Roles, wire[c][q] # None, wire'[c][q].token \in issued' \ issued
        PROVE  c = b /\ q = r
    <3> SUFFICES ASSUME ~(c = b /\ q = r) PROVE FALSE
      OBVIOUS
    <3>1. wire'[c][q] = wire[c][q] /\ wire[c][q] \in Exchange
      BY <2>2, WireType DEF OnlyWire
    <3>2. wire[c][q].token \in Tokens /\ wire[c][q].token \notin issued
      BY <2>2, <3>1 DEF StoreNext, StoreTypes
    <3>3. LoginOf(c, q, wire[c][q].token) \/ ~Unnamed(wire[c][q].token)
      BY <2>2, NamedByWire DEF LoginOf
    <3> QED BY <3>2, <3>3 DEF LoginsInv, FreshInv
  <2> QED BY <2>1, <2>2 DEF WireFollows, OnlyWire
<1>3. StoreGoesOn
  <2>1. ASSUME NEW t \in Tokens, Unnamed(t) PROVE t \notin confirmed'
    BY <2>1, NamedByWire DEF Unnamed, Named
  <2> QED BY <2>1 DEF StoreNext, StoreTypes, StoreGoesOn
<1>4. TypeInv'
  <2>1. ASSUME NEW c \in Tabs, NEW q \in Roles, Holds(c, q, "wait")' PROVE wire'[c][q] # None
    BY <1>1, <2>1 DEF LoginsInv, TypeInv, TypeOK, Holds, OnlyWire, browser
  <2> QED BY <2>1 DEF LoginsInv, TypeInv, TypeOK, StoreNext, StoreTypes, browser, OnlyWire, WireFunctions
<1>5. ShutdownInv'
  <2>1. server.at \in {"cancelling", "done", "closed"} => Tracked' \subseteq Tracked
    BY DEF Tracked, OnlyWire
  <2> QED BY <2>1 DEF LoginsInv, ShutdownInv, ShutdownCancels
<1>6. ASSUME NEW c \in Tabs, NEW q \in Roles, wire'[c][q] # None, wire'[c][q] # wire[c][q] PROVE ExchangeOk(wire[c][q])'
  BY <1>6 DEF OnlyWire
<1> QED BY <1>2, <1>3, <1>4, <1>5, <1>6, ServerStep DEF StoreNext

-----------------------------------------------------------------------------
(* The store.                                                              *)

LEMMA StoreFacts ==
    ASSUME LoginsInv
    PROVE  /\ sessions \in [Tokens -> Session \cup {None}] /\ rows \in [Tokens -> Session \cup {None}]
           /\ issued \subseteq Tokens /\ expired \subseteq issued /\ confirmed \subseteq issued /\ ended \subseteq Tokens
           /\ plan \in [Events -> Nat] /\ StoreInv /\ None \notin Session /\ None \notin Tokens
           /\ \A t \in Tokens \ issued : ~Present(t) /\ t \notin sealed
<1>1. \A t \in confirmed : t \in issued
  BY NamedByTab, NamedIsMade DEF LoginsInv, TypeInv, FreshInv, Unnamed, Named
<1>2. \A t \in Tokens \ issued : ~Present(t) /\ t \notin sealed
  BY DEF LoginsInv, FreshInv, Unnamed, Named
<1> QED BY <1>1, <1>2, NoneAssumption, ValuesAssumption DEF LoginsInv, TypeInv, TypeOK

LEMMA SpendType ==
    ASSUME LoginsInv, NEW what \in Events, Spend(what)
    PROVE  plan' \in [Events -> Nat]
BY SMT DEF LoginsInv, TypeInv, Spend

(* Sessions go together with their rows, or when they have expired. *)
LEMMA StoreShrinks ==
    ASSUME LoginsInv, UNCHANGED <<issued, expired, server, confirmed, sealed>>, plan' \in [Events -> Nat],
           sessions' \in [Tokens -> Session \cup {None}], rows' \in [Tokens -> Session \cup {None}],
           ended \subseteq ended', ended' \subseteq Tokens,
           \A t \in Tokens : /\ sessions'[t] \in {sessions[t], None} /\ rows'[t] \in {rows[t], None}
                             /\ t \notin expired => \/ sessions'[t] = sessions[t] /\ rows'[t] = rows[t]
                                                    \/ sessions'[t] = None /\ rows'[t] = None /\ t \in ended'
    PROVE  StoreNext
<1> USE StoreFacts
<1>1. StoreTypes
  BY DEF StoreTypes
<1>2. RowsMirror'
  BY DEF StoreInv, RowsMirror, Known
<1>3. ASSUME NEW t \in confirmed \ (expired \cup ended') PROVE rows'[t] # None /\ rows'[t].activated
  BY <1>3 DEF StoreInv
<1>4. StoreInv'
  BY <1>2, <1>3 DEF StoreInv
<1>5. \A t \in Tokens : Gone(t) => Gone(t)'
  BY DEF Gone, Present
<1> QED BY <1>1, <1>4, <1>5 DEF StoreNext, Gone, Present

LEMMA StoreStays ==
    ASSUME LoginsInv, UNCHANGED <<sessions, rows, issued, expired, server, confirmed, sealed, ended>>, plan' \in [Events -> Nat]
    PROVE  StoreNext
BY StoreFacts, StoreShrinks

LEMMA GetStore ==
    ASSUME LoginsInv, NEW t \in Tokens \cup {None}, Get(t), UNCHANGED <<issued, expired, server, confirmed, sealed, ended>>
    PROVE  /\ StoreNext
           /\ server.at # "closed" /\ ~Live(t) /\ t # None => Gone(t)'
<1> USE StoreFacts
<1>1. StoreNext
  <2>1. plan' \in [Events -> Nat]
    BY SpendType DEF Get, Events
  <2>2. CASE Known(t) /\ server.at # "closed" /\ t \in expired
    BY <2>1, <2>2, StoreShrinks DEF Get, Known
  <2>3. CASE ~(Known(t) /\ server.at # "closed" /\ t \in expired)
    BY <2>1, <2>3, StoreStays DEF Get
  <2> QED BY <2>2, <2>3
<1>2. ASSUME server.at # "closed", ~Live(t), t # None PROVE Gone(t)'
  <2>1. CASE t \in expired
    BY <2>1 DEF Gone
  <2>2. CASE t \notin expired
    <3>1. ~Known(t) /\ sessions' = sessions /\ rows' = rows
      BY <1>2, <2>2 DEF Live, Get
    <3>2. rows[t] = None
      BY <1>2, <2>2, <3>1 DEF StoreInv, RowsMirror
    <3> QED BY <1>2, <3>1, <3>2 DEF Gone, Present, Known
  <2> QED BY <2>1, <2>2
<1> QED BY <1>1, <1>2

LEMMA DeleteStore ==
    ASSUME LoginsInv, NEW t \in Tokens \cup {None}, NEW done \in BOOLEAN, Delete(t, done),
           UNCHANGED <<issued, expired, server, confirmed, sealed>>
    PROVE  /\ StoreNext
           /\ done /\ t # None => Gone(t)'
<1> USE StoreFacts
<1>1. plan' \in [Events -> Nat]
  BY SpendType DEF Delete, Events
<1>2. CASE done /\ Known(t)
  <2>1. /\ sessions' = [sessions EXCEPT ![t] = None] /\ rows' = [rows EXCEPT ![t] = None] /\ ended' = ended \cup {t}
        /\ t \in Tokens
    BY <1>2 DEF Delete, Known
  <2> QED BY <1>1, <2>1, StoreShrinks DEF Gone, Present
<1>3. CASE ~(done /\ Known(t))
  <2>1. UNCHANGED <<sessions, rows, ended>>
    BY <1>3 DEF Delete
  <2>2. done /\ t # None => rows[t] = None \/ t \in expired
    BY <1>3 DEF Delete, StoreInv, RowsMirror
  <2> QED BY <1>1, <1>3, <2>1, <2>2, StoreStays DEF Gone, Present, Known
<1> QED BY <1>2, <1>3

LEMMA CreateStore ==
    ASSUME LoginsInv, NEW t \in Tokens, NEW remember \in BOOLEAN, NEW done \in BOOLEAN, Create(t, remember, done),
           UNCHANGED <<expired, server, confirmed, sealed, ended>>
    PROVE  /\ StoreNext
           /\ done => t \in issued' \ issued /\ issued' = issued \cup {t}
<1> USE StoreFacts
<1>1. /\ Pruned(sessions) \in [Tokens -> Session \cup {None}] /\ Pruned(rows) \in [Tokens -> Session \cup {None}]
      /\ \A u \in Tokens : /\ Pruned(sessions)[u] = IF u \in expired THEN None ELSE sessions[u]
                           /\ Pruned(rows)[u] = IF u \in expired THEN None ELSE rows[u]
  BY DEF Pruned
<1>2. CASE done
  <2> DEFINE new == [remembered |-> remember, activated |-> FALSE]
  <2>1. /\ t \notin issued /\ issued' = issued \cup {t} /\ server.at # "closed" /\ plan' = plan
        /\ sessions' = [Pruned(sessions) EXCEPT ![t] = new]
        /\ rows' = IF remember THEN [Pruned(rows) EXCEPT ![t] = new] ELSE Pruned(rows)
    <3>1. NextToken(t)
      BY <1>2 DEF Create
    <3>2. Tokens \ issued # {} /\ t = CHOOSE u \in Tokens \ issued : TRUE
      BY <3>1 DEF NextToken
    <3>3. t \notin issued
      BY <3>2
    <3> QED BY <1>2, <3>3 DEF Create
  <2>2. new \in Session /\ new # None /\ new.remembered = remember /\ ~new.activated
    <3>1. new \in Session
      BY SMT DEF Session
    <3> QED BY <3>1, ValuesAssumption
  <2> HIDE DEF new
  <2>3. /\ sessions' \in [Tokens -> Session \cup {None}] /\ rows' \in [Tokens -> Session \cup {None}]
        /\ sessions'[t] = new /\ rows'[t] = IF remember THEN new ELSE None
        /\ \A u \in Tokens \ {t} : /\ sessions'[u] = IF u \in expired THEN None ELSE sessions[u]
                                   /\ rows'[u] = IF u \in expired THEN None ELSE rows[u]
    BY <1>1, <2>1, <2>2 DEF Present
  <2>4. RowsMirror'
    <3> SUFFICES ASSUME NEW u \in Tokens \ expired
        PROVE  IF sessions'[u] # None /\ sessions'[u].remembered THEN rows'[u] = sessions'[u] ELSE rows'[u] = None
      BY NoneAssumption DEF RowsMirror, Known
    <3> QED BY <2>1, <2>2, <2>3, NoneAssumption DEF StoreInv, RowsMirror, Known
  <2>5. \A u \in confirmed \ (expired \cup ended) : u # t /\ rows'[u] # None /\ rows'[u].activated
    BY <2>1, <2>3 DEF StoreInv
  <2>6. StoreInv'
    BY <2>1, <2>2, <2>3, <2>4, <2>5 DEF StoreInv
  <2>7. StoreTypes
    BY <2>1, <2>3 DEF StoreTypes
  <2>8. /\ \A u \in issued : Gone(u) => Gone(u)'
        /\ \A u \in Tokens \ issued' : ~Present(u)'
    BY <2>1, <2>3 DEF Gone, Present
  <2> QED BY <2>1, <2>6, <2>7, <2>8 DEF StoreNext
<1>3. CASE ~done
  <2>1. plan' \in [Events -> Nat] /\ issued' = issued
    BY <1>3, SpendType DEF Create, Events
  <2>2. UNCHANGED <<sessions, rows>> \/ (sessions' = Pruned(sessions) /\ rows' = Pruned(rows))
    BY <1>3 DEF Create
  <2> QED BY <1>1, <1>3, <2>1, <2>2, StoreShrinks, StoreStays
<1> QED BY <1>2, <1>3

LEMMA ActivateStore ==
    ASSUME LoginsInv, NEW t \in Tokens \cup {None}, NEW csrf, NEW done \in BOOLEAN, Activate(t, csrf, done), t = csrf => t \in sealed,
           UNCHANGED <<issued, expired, server, sealed, ended>>,
           confirmed' = IF done /\ sessions[t].remembered THEN confirmed \cup {t} ELSE confirmed
    PROVE  StoreNext /\ (done => t \in Tokens /\ t = csrf)
<1> USE StoreFacts
<1>1. plan' \in [Events -> Nat]
  BY SpendType DEF Activate, Events
<1>2. CASE done
  <2>1. /\ server.at # "closed" /\ t \in Tokens /\ sessions[t] # None /\ t \notin expired /\ t \in sealed /\ t = csrf
        /\ sessions' = [sessions EXCEPT ![t].activated = TRUE]
        /\ rows' = IF sessions[t].remembered THEN [rows EXCEPT ![t].activated = TRUE] ELSE rows
    BY <1>2 DEF Activate, Live, Known, Matches, Promoted
  <2>2. rows[t] = IF sessions[t].remembered THEN sessions[t] ELSE None
    BY <2>1 DEF StoreInv, RowsMirror, Known
  <2> DEFINE new == [sessions[t] EXCEPT !.activated = TRUE]
  <2>3. sessions[t] \in Session /\ new \in Session /\ new.remembered = sessions[t].remembered /\ new.activated /\ new # None
    BY <2>1 DEF Session
  <2>4. /\ sessions' \in [Tokens -> Session \cup {None}] /\ rows' \in [Tokens -> Session \cup {None}]
        /\ sessions'[t] = new /\ rows'[t] = IF sessions[t].remembered THEN new ELSE None
        /\ \A u \in Tokens \ {t} : sessions'[u] = sessions[u] /\ rows'[u] = rows[u]
    BY <2>1, <2>2, <2>3
  <2> HIDE DEF new
  <2>5. RowsMirror'
    <3> SUFFICES ASSUME NEW u \in Tokens \ expired
        PROVE  IF sessions'[u] # None /\ sessions'[u].remembered THEN rows'[u] = sessions'[u] ELSE rows'[u] = None
      BY NoneAssumption DEF RowsMirror, Known
    <3>1. CASE u = t
      BY <2>1, <2>3, <2>4, <3>1
    <3>2. CASE u # t
      <4>1. IF sessions[u] # None /\ sessions[u].remembered THEN rows[u] = sessions[u] ELSE rows[u] = None
        BY <2>1 DEF StoreInv, RowsMirror, Known
      <4> QED BY <2>4, <3>2, <4>1
    <3> QED BY <3>1, <3>2
  <2>6. ASSUME NEW u \in confirmed' \ (expired \cup ended) PROVE rows'[u] # None /\ rows'[u].activated
    <3>1. CASE u = t
      <4>1. sessions[t].remembered
        <5>1. u \in confirmed => rows[t] # None
          BY <3>1 DEF StoreInv
        <5> QED BY <1>2, <2>2, <3>1, <5>1
      <4> QED BY <2>3, <2>4, <3>1, <4>1
    <3>2. CASE u # t
      <4>1. u \in confirmed /\ u \in Tokens
        BY <3>2
      <4> QED BY <2>4, <3>2, <4>1 DEF StoreInv
    <3> QED BY <3>1, <3>2
  <2>7. StoreInv'
    BY <2>1, <2>3, <2>4, <2>5, <2>6 DEF StoreInv
  <2>8. StoreTypes
    BY <1>1, <2>1, <2>4 DEF StoreTypes
  <2>9. \A u \in Tokens : Present(u)' => Present(u)
    BY <2>1, <2>4 DEF Present
  <2> QED BY <2>1, <2>7, <2>8, <2>9 DEF StoreNext, Gone
<1>3. CASE ~done
  BY <1>1, <1>3, StoreStays DEF Activate
<1> QED BY <1>2, <1>3

-----------------------------------------------------------------------------
(* The requests on the server.                                             *)

(* An answer that brings no token. *)
LEMMA AnswerOne ==
    ASSUME LoginsInv, NEW b \in Tabs, NEW r \in Roles, wire[b][r] # None, NEW status \in Status, NEW set \in {"keep", "clear"},
           Answer(b, r, status, set), UNCHANGED <<browser, sealed, accepted, server>>, StoreNext,
           confirmed' \subseteq confirmed \cup ({wire[b][r].cookie} \ {None}),
           status = "ok" => /\ wire[b][r].kind \notin {"login", "session"}
                            /\ wire[b][r].kind = "activate" => wire[b][r].cookie = wire[b][r].csrf,
           \A t : wire[b][r].kind = "revoke" /\ Revoked(status) /\ t = wire[b][r].csrf /\ t = jar => Gone(t)'
    PROVE  LoginsInv'
<1>1. wire[b][r] \in Exchange /\ ExchangeOk(wire[b][r])
  BY WireType
<1>2. PICK x \in Exchange : x = wire[b][r]
  BY <1>1
<1>3. PICK y : y = [x EXCEPT !.at = "answered", !.status = status, !.set = set]
  OBVIOUS
<1>4. y \in Exchange /\ OnlyWire(b, r, y)
  <2>1. set \in Cookie
    BY DEF Cookie
  <2>2. OnlyWire(b, r, [wire[b][r] EXCEPT !.at = "answered", !.status = status, !.set = set])
    BY <2>1, AnswerIs, Zenon
  <2>3. y \in Exchange
    BY <1>3, <2>1 DEF Exchange
  <2> QED BY <1>2, <1>3, <2>2, <2>3
<1>5. /\ y.at = "answered" /\ y.status = status /\ y.set = set /\ y.kind = x.kind /\ y.csrf = x.csrf
      /\ y.cookie = x.cookie /\ y.token = x.token
  BY <1>3 DEF Exchange
<1>6. y.set \notin Tokens
  BY <1>5, ValuesAssumption
<1>7. ExchangeOk(y)'
  <2>1. x.kind = "activate" => x.csrf \in sealed
    BY <1>1, <1>2 DEF ExchangeOk
  <2>2. x.kind = "revoke" => x.csrf # None /\ (x.cookie # x.csrf => jar # x.csrf)
    BY <1>1, <1>2 DEF ExchangeOk
  <2>3. x.kind = "revoke" /\ Revoked(status) /\ jar = x.csrf => Gone(x.csrf)'
    BY <1>2
  <2>4. status = "ok" => x.kind \notin {"login", "session"} /\ (x.kind = "activate" => x.cookie = x.csrf)
    BY <1>2
  <2>5. y.kind = "revoke" /\ Revoked(y.status)' /\ jar' = y.csrf => Gone(y.csrf)'
    BY <1>5, <2>3 DEF Revoked, Gone, Present, browser
  <2>6. /\ y.kind = "activate" => y.csrf \in sealed' /\ (y.status = "ok" => y.cookie = y.csrf)
        /\ y.kind = "revoke" => y.csrf # None /\ (y.cookie # y.csrf => jar' # y.csrf)
        /\ y.status = "ok" => y.kind \notin {"login", "session"}
    BY <1>5, <2>1, <2>2, <2>4 DEF browser
  <2> QED BY <1>5, <1>6, <2>5, <2>6 DEF ExchangeOk
<1>8. Follows(x, y) /\ ~UnderWay(y)
  BY <1>5 DEF Follows, UnderWay
<1> QED BY <1>2, <1>4, <1>7, <1>8, ServerOne

(* A step to the next stage of a request. *)
LEMMA MovesOne ==
    ASSUME LoginsInv, NEW b \in Tabs, NEW r \in Roles, wire[b][r] # None, NEW y \in Exchange, OnlyWire(b, r, y),
           UNCHANGED <<browser, sealed, accepted, server>>, StoreNext, confirmed' = confirmed,
           y.kind = wire[b][r].kind, y.csrf = wire[b][r].csrf, y.set = wire[b][r].set, wire[b][r].at # "answered",
           y.cookie = wire[b][r].cookie \/ (y.kind = "login" /\ y.cookie = None),
           y.token = wire[b][r].token \/ (y.kind = "login" /\ y.at = "rotate" /\ y.token \in issued' \ issued),
           y.cancelled = wire[b][r].cancelled \/ (y.cancelled = (Mutation(y.kind) /\ server.at # "open")),
           wire[b][r].at = "sent" => y.cancelled = (Mutation(y.kind) /\ server.at # "open"),
           \/ y.at = "route" /\ wire[b][r].at = "sent"
           \/ y.at = "create" /\ y.kind = "login" /\ wire[b][r].at = "route"
           \/ y.at = "rotate" /\ y.kind = "login" /\ y.token # None
           \/ y.at = "act" /\ y.kind = "login" /\ y.token # None
           \/ y.at = "act" /\ y.kind \in {"activate", "logout", "revoke"} /\ y.cookie = y.csrf /\ y.cookie # None
    PROVE  LoginsInv'
<1>1. wire[b][r] \in Exchange /\ ExchangeOk(wire[b][r])
  BY WireType
<1>2. PICK x \in Exchange : x = wire[b][r]
  BY <1>1
<1>3. y.set \notin Tokens /\ (x.at \in {"sent", "route", "create"} => x.token = None) /\ (x.kind # "login" => x.token = None)
  BY <1>1, <1>2 DEF ExchangeOk
<1>4. ExchangeOk(y)'
  <2>1. x.kind = "activate" => x.csrf \in sealed
    BY <1>1, <1>2 DEF ExchangeOk
  <2>2. x.kind = "revoke" => x.csrf # None /\ (x.cookie # x.csrf => jar # x.csrf)
    BY <1>1, <1>2 DEF ExchangeOk
  <2>3. y.kind # "login" => y.token = None /\ y.cookie = x.cookie
    BY <1>2, <1>3
  <2>5. y.at = "create" => y.kind = "login"
    BY <1>2
  <2>6. y.at # "answered" /\ y.at # "sent"
    BY <1>2
  <2>7. y.at \in {"route", "create"} => y.token = None
    BY <1>2, <1>3
  <2>8. y.at = "act" => \/ y.kind = "login" /\ y.token # None
                        \/ y.kind \in {"activate", "logout", "revoke"} /\ y.cookie = y.csrf /\ y.cookie # None
    BY <1>2
  <2>9. y.at = "rotate" => y.kind = "login" /\ y.token # None
    BY <1>2
  <2>10. /\ y.kind = "activate" => y.csrf \in sealed'
         /\ y.kind = "revoke" => y.csrf # None /\ (y.cookie # y.csrf => jar' # y.csrf)
    BY <1>2, <2>1, <2>2, <2>3 DEF browser
  <2> QED BY <1>3, <2>3, <2>5, <2>6, <2>7, <2>8, <2>9, <2>10 DEF ExchangeOk
<1>5. Follows(x, y)
  BY <1>2, <1>3 DEF Follows
<1>6. server.at \in {"cancelling", "done", "closed"} /\ UnderWay(y) => UnderWay(x)
  BY <1>1, <1>2, ValuesAssumption DEF UnderWay
<1> QED BY <1>2, <1>4, <1>5, <1>6, ServerOne

LEMMA TrackStep ==
    ASSUME LoginsInv, NEW b \in Tabs, NEW r \in Roles, Track(b, r)
    PROVE  LoginsInv'
<1>1. wire[b][r] # None /\ wire[b][r].at = "sent" /\ UNCHANGED <<store, expired, browser, server, plan, ghosts>>
  BY DEF Track, Request
<1>2. wire[b][r] \in Exchange
  BY <1>1, WireType
<1>3. PICK c \in BOOLEAN : c = (Mutation(wire[b][r].kind) /\ server.at # "open")
  OBVIOUS
<1>4. PICK y : y = [wire[b][r] EXCEPT !.at = "route", !.cancelled = c]
  OBVIOUS
<1>5. y \in Exchange
  BY <1>2, <1>4 DEF Exchange
<1>6. wire' = [wire EXCEPT ![b][r] = y]
  <2>1. wire' = [wire EXCEPT ![b][r].at = "route", ![b][r].cancelled = c]
    BY <1>3 DEF Track
  <2> QED BY <1>4, <2>1 DEF LoginsInv, TypeInv, TypeOK
<1>7. OnlyWire(b, r, y)
  BY <1>5, <1>6, OneExchange
<1>8. /\ y.at = "route" /\ y.cancelled = c /\ y.kind = wire[b][r].kind /\ y.csrf = wire[b][r].csrf
      /\ y.set = wire[b][r].set /\ y.cookie = wire[b][r].cookie /\ y.token = wire[b][r].token
  BY <1>2, <1>4 DEF Exchange
<1>9. StoreNext
  BY <1>1, StoreStays, StoreFacts DEF store, ghosts
<1> QED BY <1>1, <1>3, <1>5, <1>7, <1>8, <1>9, MovesOne DEF ghosts

(* A request goes on to its next stage. *)
LEMMA ToStep ==
    ASSUME LoginsInv, NEW b \in Tabs, NEW r \in Roles, Request(b, r, "route"), StoreNext,
           UNCHANGED <<browser, sealed, accepted, server, confirmed>>,
           \/ To(b, r, "create") /\ wire[b][r].kind = "login"
           \/ /\ To(b, r, "act") /\ wire[b][r].kind \in {"activate", "logout", "revoke"}
              /\ wire[b][r].cookie = wire[b][r].csrf /\ wire[b][r].cookie # None
    PROVE  LoginsInv'
<1>1. wire[b][r] # None /\ wire[b][r].at = "route"
  BY DEF Request
<1>2. wire[b][r] \in Exchange
  BY <1>1, WireType
<1>3. PICK step \in {"create", "act"} :
          /\ To(b, r, step)
          /\ \/ step = "create" /\ wire[b][r].kind = "login"
             \/ /\ step = "act" /\ wire[b][r].kind \in {"activate", "logout", "revoke"}
                /\ wire[b][r].cookie = wire[b][r].csrf /\ wire[b][r].cookie # None
  OBVIOUS
<1>4. PICK y : y = [wire[b][r] EXCEPT !.at = step]
  OBVIOUS
<1>5. y \in Exchange
  BY <1>2, <1>4 DEF Exchange
<1>6. wire' = [wire EXCEPT ![b][r] = y]
  BY <1>3, <1>4 DEF To, LoginsInv, TypeInv, TypeOK
<1>7. OnlyWire(b, r, y)
  BY <1>5, <1>6, OneExchange
<1>8. /\ y.at = step /\ y.cancelled = wire[b][r].cancelled /\ y.kind = wire[b][r].kind /\ y.csrf = wire[b][r].csrf
      /\ y.set = wire[b][r].set /\ y.cookie = wire[b][r].cookie /\ y.token = wire[b][r].token
  BY <1>2, <1>4 DEF Exchange
<1> QED BY <1>1, <1>3, <1>5, <1>7, <1>8, MovesOne

(* An answer that hands out a token: a session's, or a login's own. *)
LEMMA GiveStep ==
    ASSUME LoginsInv, NEW b \in Tabs, NEW r \in Roles, wire[b][r] # None, NEW t \in Tokens, Give(b, r, t), StoreNext,
           UNCHANGED <<browser, sealed, accepted, server, confirmed>>,
           \/ wire[b][r].kind = "session" /\ t = wire[b][r].cookie /\ t \in sealed
           \/ wire[b][r].kind = "login" /\ t = wire[b][r].token
    PROVE  LoginsInv'
<1>1. wire[b][r] \in Exchange /\ ExchangeOk(wire[b][r])
  BY WireType
<1>2. PICK set : set = (IF wire[b][r].kind = "login" THEN t ELSE "keep")
  OBVIOUS
<1>3. PICK y : y = [wire[b][r] EXCEPT !.at = "answered", !.status = "ok", !.token = t, !.set = set]
  OBVIOUS
<1>4. /\ y.at = "answered" /\ y.status = "ok" /\ y.token = t /\ y.kind = wire[b][r].kind /\ y.csrf = wire[b][r].csrf
      /\ y.cookie = wire[b][r].cookie /\ y.set = (IF wire[b][r].kind = "login" THEN t ELSE "keep")
  BY <1>1, <1>2, <1>3 DEF Exchange
<1>5. y \in Exchange /\ OnlyWire(b, r, y)
  <2>1. set \in Cookie
    BY <1>2 DEF Cookie
  <2>2. y \in Exchange
    BY <1>1, <1>3, <2>1 DEF Exchange, Status
  <2>3. OnlyWire(b, r, [wire[b][r] EXCEPT !.at = "answered", !.status = "ok", !.token = t,
                                          !.set = IF wire[b][r].kind = "login" THEN t ELSE "keep"])
    BY GiveIs, Zenon
  <2> QED BY <1>2, <1>3, <2>2, <2>3
<1>6. ExchangeOk(y)'
  BY <1>4, ValuesAssumption, NoneAssumption DEF ExchangeOk, Revoked
<1>7. Follows(wire[b][r], y) /\ ~UnderWay(y)
  BY <1>4 DEF Follows, UnderWay
<1> QED BY <1>5, <1>6, <1>7, ServerOne

LEMMA RouteStep ==
    ASSUME LoginsInv, NEW b \in Tabs, NEW r \in Roles, Route(b, r)
    PROVE  LoginsInv'
<1>1. wire[b][r] # None /\ Request(b, r, "route") /\ UNCHANGED <<issued, expired, browser, server, ghosts>>
  BY DEF Route, Request
<1>2. wire[b][r] \in Exchange /\ ExchangeOk(wire[b][r])
  BY <1>1, WireType
<1>3. UNCHANGED <<browser, sealed, accepted, server, confirmed, ended>>
  BY <1>1 DEF ghosts
<1>4. PICK t \in Tokens \cup {None} : t = wire[b][r].cookie
  BY <1>2 DEF Exchange
<1>5. "guest" \in Status /\ "failed" \in Status /\ "ok" \in Status /\ "csrf" \in Status /\ "unauthorized" \in Status
  BY DEF Status
<1>6. CASE Mutation(wire[b][r].kind) /\ server.at # "open"
  <2>1. Answer(b, r, "failed", "keep") /\ UNCHANGED <<sessions, rows, plan>>
    BY <1>6 DEF Route
  <2>2. StoreNext
    BY <1>1, <1>3, <2>1, StoreStays, StoreFacts
  <2>3. ~Revoked("failed")
    BY DEF Revoked
  <2> QED BY <1>1, <1>3, <1>5, <2>1, <2>2, <2>3, AnswerOne
<1>7. CASE ~(Mutation(wire[b][r].kind) /\ server.at # "open") /\ wire[b][r].kind = "login"
  <2>1. To(b, r, "create") /\ UNCHANGED <<sessions, rows, plan>>
    BY <1>7 DEF Route
  <2>2. StoreNext
    BY <1>1, <1>3, <2>1, StoreStays, StoreFacts
  <2> QED BY <1>1, <1>3, <1>7, <2>1, <2>2, ToStep
<1>8. CASE ~(Mutation(wire[b][r].kind) /\ server.at # "open") /\ wire[b][r].kind # "login"
  <2>1. Get(t)
    BY <1>4, <1>8 DEF Route
  <2>2. StoreNext /\ (server.at # "closed" /\ ~Live(t) /\ t # None => Gone(t)')
    BY <1>1, <1>3, <2>1, GetStore
  <2>3. \/ To(b, r, "act") /\ wire[b][r].kind \in {"logout", "revoke", "activate"} /\ Live(t) /\ t = wire[b][r].csrf
        \/ wire[b][r].kind = "session" /\ Live(t) /\ sessions[t].activated /\ Give(b, r, t)
        \/ \E status \in Status, set \in {"keep", "clear"} :
              /\ Answer(b, r, status, set)
              /\ status = "ok" => wire[b][r].kind \in {"capabilities", "work"}
              /\ wire[b][r].kind = "revoke" /\ status = "unauthorized" => ~Live(t)
              /\ wire[b][r].kind = "revoke" => status # "ok"
    <3>1. PICK x : x = wire[b][r]
      OBVIOUS
    <3>2. Clearing(t) \in {"keep", "clear"}
      BY DEF Clearing
    <3>3. x.kind \in Kinds
      BY <1>2, <3>1 DEF Exchange
    <3>4. CASE x.kind = "session"
      <4>1. CASE Live(t)
        BY <1>4, <1>5, <1>8, <3>1, <3>4, <4>1 DEF Route
      <4>2. CASE ~Live(t)
        BY <1>4, <1>5, <1>8, <3>1, <3>2, <3>4, <4>2 DEF Route
      <4> QED BY <4>1, <4>2
    <3>5. CASE x.kind = "capabilities"
      <4>1. CASE Live(t)
        BY <1>4, <1>5, <1>8, <3>1, <3>5, <4>1 DEF Route
      <4>2. CASE ~Live(t)
        BY <1>4, <1>5, <1>8, <3>1, <3>2, <3>5, <4>2 DEF Route
      <4> QED BY <4>1, <4>2
    <3>6. CASE x.kind = "work"
      <4>1. CASE Live(t)
        BY <1>4, <1>5, <1>8, <3>1, <3>6, <4>1 DEF Route
      <4>2. CASE ~Live(t)
        BY <1>4, <1>5, <1>8, <3>1, <3>2, <3>6, <4>2 DEF Route
      <4> QED BY <4>1, <4>2
    <3>7. CASE x.kind \in {"logout", "revoke", "activate"}
      <4>1. CASE Live(t)
        BY <1>4, <1>5, <1>8, <3>1, <3>7, <4>1 DEF Route, Matches
      <4>2. CASE ~Live(t)
        BY <1>4, <1>5, <1>8, <3>1, <3>2, <3>7, <4>2 DEF Route
      <4> QED BY <4>1, <4>2
    <3> QED BY <1>8, <3>1, <3>3, <3>4, <3>5, <3>6, <3>7 DEF Kinds
  <2>4. CASE To(b, r, "act") /\ wire[b][r].kind \in {"logout", "revoke", "activate"} /\ Live(t) /\ t = wire[b][r].csrf
    BY <1>1, <1>3, <1>4, <2>2, <2>4, ToStep DEF Live, Known
  <2>5. CASE wire[b][r].kind = "session" /\ Live(t) /\ sessions[t].activated /\ Give(b, r, t)
    <3>1. t \in Tokens /\ t \in sealed
      BY <2>5, StoreFacts DEF Live, Known, StoreInv
    <3> QED BY <1>1, <1>3, <1>4, <2>2, <2>5, <3>1, GiveStep
  <2>6. ASSUME NEW status \in Status, NEW set \in {"keep", "clear"}, Answer(b, r, status, set),
               status = "ok" => wire[b][r].kind \in {"capabilities", "work"},
               wire[b][r].kind = "revoke" /\ status = "unauthorized" => ~Live(t),
               wire[b][r].kind = "revoke" => status # "ok"
        PROVE  LoginsInv'
    <3>1. ASSUME NEW u, wire[b][r].kind = "revoke", Revoked(status), u = wire[b][r].csrf, u = jar PROVE Gone(u)'
      <4>1. status = "unauthorized" /\ ~Live(t) /\ u = t /\ t # None
        BY <1>2, <1>4, <2>6, <3>1 DEF Revoked, ExchangeOk
      <4>2. server.at # "closed"
        BY <1>8, <3>1 DEF Mutation
      <4> QED BY <2>2, <4>1, <4>2
    <3>2. status = "ok" => wire[b][r].kind \notin {"login", "session", "activate"}
      BY <2>6
    <3> QED BY <1>1, <1>3, <2>2, <2>6, <3>1, <3>2, AnswerOne
  <2> QED BY <2>3, <2>4, <2>5, <2>6
<1> QED BY <1>6, <1>7, <1>8

LEMMA CreateSessionStep ==
    ASSUME LoginsInv, NEW b \in Tabs, NEW r \in Roles, NEW t \in Tokens, NEW done \in BOOLEAN, CreateSession(b, r, t, done)
    PROVE  LoginsInv'
<1>1. /\ wire[b][r] # None /\ wire[b][r].at = "create" /\ Create(t, wire[b][r].remember, done)
      /\ UNCHANGED <<browser, sealed, accepted, server, confirmed>> /\ UNCHANGED <<expired, ended>>
  BY DEF CreateSession, Request, ghosts
<1>2. wire[b][r] \in Exchange /\ wire[b][r].remember \in BOOLEAN /\ wire[b][r].kind = "login"
  BY <1>1, WireType DEF Exchange, ExchangeOk
<1>3. StoreNext /\ (done => t \in issued' \ issued /\ issued' = issued \cup {t})
  BY <1>1, <1>2, CreateStore
<1>4. CASE done
  <2>1. PICK y : y = [wire[b][r] EXCEPT !.at = "rotate", !.token = t]
    OBVIOUS
  <2>2. y \in Exchange
    BY <1>2, <2>1 DEF Exchange
  <2>3. wire' = [wire EXCEPT ![b][r] = y]
    <3>1. wire' = [wire EXCEPT ![b][r].at = "rotate", ![b][r].token = t]
      BY <1>4 DEF CreateSession
    <3> QED BY <2>1, <3>1 DEF LoginsInv, TypeInv, TypeOK
  <2>4. OnlyWire(b, r, y)
    BY <2>2, <2>3, OneExchange
  <2>5. /\ y.at = "rotate" /\ y.token = t /\ y.cancelled = wire[b][r].cancelled /\ y.kind = wire[b][r].kind
        /\ y.csrf = wire[b][r].csrf /\ y.set = wire[b][r].set /\ y.cookie = wire[b][r].cookie
    BY <1>2, <2>1 DEF Exchange
  <2>6. y.token \in issued' \ issued /\ y.token # None
    BY <1>3, <1>4, <2>5, NoneAssumption
  <2> QED BY <1>1, <1>2, <1>3, <2>2, <2>4, <2>5, <2>6, MovesOne
<1>5. CASE ~done
  <2>1. Answer(b, r, "failed", "keep")
    BY <1>5 DEF CreateSession
  <2>2. "failed" \in Status
    BY DEF Status
  <2> QED BY <1>1, <1>2, <1>3, <2>1, <2>2, AnswerOne
<1> QED BY <1>4, <1>5

LEMMA RotateStep ==
    ASSUME LoginsInv, NEW b \in Tabs, NEW r \in Roles, Rotate(b, r)
    PROVE  LoginsInv'
<1>1. /\ wire[b][r] # None /\ wire[b][r].at = "rotate"
      /\ UNCHANGED <<browser, sealed, accepted, server, confirmed>> /\ UNCHANGED <<issued, expired>>
  BY DEF Rotate, Request
<1>2. /\ wire[b][r] \in Exchange /\ wire[b][r].kind = "login" /\ wire[b][r].token \in Tokens
      /\ wire[b][r].cookie \in Tokens \cup {None}
  BY <1>1, WireType DEF Exchange, ExchangeOk
<1>3. CASE Get(wire[b][r].cookie) /\ Give(b, r, wire[b][r].token) /\ UNCHANGED ended
  <2>1. StoreNext
    BY <1>1, <1>2, <1>3, GetStore
  <2> QED BY <1>1, <1>2, <1>3, <2>1, GiveStep
<1>4. CASE Delete(wire[b][r].cookie, TRUE) /\ Give(b, r, wire[b][r].token)
  <2>1. StoreNext
    BY <1>1, <1>2, <1>4, DeleteStore
  <2> QED BY <1>1, <1>2, <1>4, <2>1, GiveStep
<1>5. CASE Delete(wire[b][r].cookie, FALSE) /\ wire' = [wire EXCEPT ![b][r].at = "act", ![b][r].cookie = None]
  <2>1. StoreNext
    BY <1>1, <1>2, <1>5, DeleteStore
  <2>2. PICK y : y = [wire[b][r] EXCEPT !.at = "act", !.cookie = None]
    OBVIOUS
  <2>3. y \in Exchange
    BY <1>2, <2>2 DEF Exchange
  <2>4. wire' = [wire EXCEPT ![b][r] = y]
    BY <1>5, <2>2 DEF LoginsInv, TypeInv, TypeOK
  <2>5. OnlyWire(b, r, y)
    BY <2>3, <2>4, OneExchange
  <2>6. /\ y.at = "act" /\ y.token = wire[b][r].token /\ y.cancelled = wire[b][r].cancelled /\ y.kind = wire[b][r].kind
        /\ y.csrf = wire[b][r].csrf /\ y.set = wire[b][r].set /\ y.cookie = None
    BY <1>2, <2>2 DEF Exchange
  <2>7. y.token # None
    BY <1>2, <2>6, NoneAssumption
  <2> QED BY <1>1, <1>2, <2>1, <2>3, <2>5, <2>6, <2>7, MovesOne
<1> QED BY <1>3, <1>4, <1>5 DEF Rotate

LEMMA ActStep ==
    ASSUME LoginsInv, NEW b \in Tabs, NEW r \in Roles, NEW done \in BOOLEAN, Act(b, r, done)
    PROVE  LoginsInv'
<1>1. /\ wire[b][r] # None /\ wire[b][r].at = "act"
      /\ UNCHANGED <<browser, sealed, accepted, server>> /\ UNCHANGED <<issued, expired>>
  BY DEF Act, Request
<1>2. PICK x \in Exchange : x = wire[b][r]
  BY <1>1, WireType
<1>3. /\ x.cookie \in Tokens \cup {None} /\ x.token \in Tokens \cup {None} /\ x.kind \in {"activate", "logout", "revoke", "login"}
      /\ x.kind # "login" => x.cookie = x.csrf /\ x.cookie # None
      /\ x.kind = "activate" => x.csrf \in sealed
  BY <1>1, <1>2, WireType DEF Exchange, ExchangeOk
<1>4. "ok" \in Status /\ "failed" \in Status /\ "unauthorized" \in Status
  BY DEF Status
<1>5. CASE x.kind = "activate"
  <2>1. /\ Activate(x.cookie, x.csrf, done) /\ UNCHANGED ended
        /\ Answer(b, r, IF done THEN "ok" ELSE IF server.at = "closed" \/ Live(x.cookie) THEN "failed" ELSE "unauthorized", "keep")
        /\ confirmed' = IF done /\ sessions[x.cookie].remembered THEN confirmed \cup {x.cookie} ELSE confirmed
    BY <1>2, <1>5 DEF Act
  <2>2. StoreNext /\ (done => x.cookie \in Tokens)
    BY <1>1, <1>3, <1>5, <2>1, ActivateStore
  <2>3. PICK status \in Status : Answer(b, r, status, "keep")
    BY <1>4, <2>1
  <2>4. confirmed' \subseteq confirmed \cup ({x.cookie} \ {None})
    BY <1>3, <1>5, <2>1
  <2> QED BY <1>1, <1>2, <1>3, <1>5, <2>2, <2>3, <2>4, AnswerOne
<1>6. CASE x.kind \in {"logout", "revoke"}
  <2>1. /\ Delete(x.cookie, done) /\ UNCHANGED confirmed
        /\ Answer(b, r, IF done THEN "ok" ELSE "failed", IF done /\ x.kind = "logout" THEN "clear" ELSE "keep")
    BY <1>2, <1>6 DEF Act
  <2>2. StoreNext /\ (done => Gone(x.cookie)')
    BY <1>1, <1>3, <1>6, <2>1, DeleteStore
  <2>3. PICK status \in Status, set \in {"keep", "clear"} : Answer(b, r, status, set) /\ status = (IF done THEN "ok" ELSE "failed")
    BY <1>4, <2>1
  <2>4. \A t : Revoked(status) /\ t = x.csrf => Gone(t)'
    BY <1>3, <1>6, <2>2, <2>3 DEF Revoked
  <2> QED BY <1>1, <1>2, <1>6, <2>1, <2>2, <2>3, <2>4, AnswerOne
<1>7. CASE x.kind = "login"
  <2>1. Delete(x.token, done) /\ Answer(b, r, "failed", "keep") /\ UNCHANGED confirmed
    BY <1>2, <1>7 DEF Act
  <2>2. StoreNext
    BY <1>1, <1>3, <2>1, DeleteStore
  <2> QED BY <1>1, <1>2, <1>4, <1>7, <2>1, <2>2, AnswerOne
<1> QED BY <1>3, <1>5, <1>6, <1>7

-----------------------------------------------------------------------------
(* The server's shutdown and restart, and the clock.                       *)

(* Requests are cancelled or fail, and say nothing new. *)
Fails(x, y) ==
    \/ y = x
    \/ /\ x # None /\ y # None /\ y.kind = x.kind /\ y.csrf = x.csrf /\ y.cookie = x.cookie /\ y.token = x.token
       /\ \/ y.at = x.at /\ y.status = x.status /\ y.set = x.set
          \/ y.at = "answered" /\ y.status = "failed" /\ y.set = "keep"

LEMMA ServerAlone ==
    ASSUME LoginsInv, UNCHANGED <<issued, browser, ghosts>>, TypeInv', StoreInv', ShutdownInv', expired \subseteq expired',
           \A t \in Tokens : Present(t)' => Present(t),
           \A b \in Tabs, r \in Roles : Fails(wire[b][r], wire'[b][r])
    PROVE  LoginsInv'
<1> USE StoreFacts DEF ghosts
<1>1. WireFollows
  <2>1. ASSUME NEW b \in Tabs, NEW r \in Roles, wire[b][r] # None
        PROVE  wire'[b][r] # None /\ Follows(wire[b][r], wire'[b][r])
    BY <2>1 DEF Fails, Follows
  <2>2. ASSUME NEW b \in Tabs, NEW r \in Roles, wire[b][r] = None
        PROVE  wire'[b][r] = None
    BY <2>2 DEF Fails
  <2> QED BY <2>1, <2>2 DEF WireFollows
<1>2. StoreGoesOn
  BY DEF StoreGoesOn, Gone, Unnamed, Named
<1>3. ASSUME NEW b \in Tabs, NEW r \in Roles, wire'[b][r] # None, wire'[b][r] # wire[b][r]
      PROVE  ExchangeOk(wire[b][r])'
  <2>1. PICK x, y : x = wire[b][r] /\ y = wire'[b][r]
    OBVIOUS
  <2>2. x \in Exchange /\ ExchangeOk(x) /\ x # None /\ y # None /\ Fails(x, y)
    BY <1>3, <2>1, WireType DEF Fails
  <2>3. x.csrf # None => (Gone(x.csrf) => Gone(x.csrf)')
    <3>1. x.csrf \in Tokens \cup {None}
      BY <2>2 DEF Exchange
    <3> QED BY <3>1 DEF Gone
  <2>4. jar' = jar /\ sealed' = sealed /\ "keep" \notin Tokens
    BY ValuesAssumption DEF browser
  <2>5. y.kind = x.kind /\ y.csrf = x.csrf /\ y.cookie = x.cookie /\ y.token = x.token
    BY <1>3, <2>1, <2>2 DEF Fails
  <2>6. CASE y.at = x.at /\ y.status = x.status /\ y.set = x.set
    BY <2>1, <2>2, <2>3, <2>4, <2>5, <2>6 DEF ExchangeOk
  <2>7. CASE y.at = "answered" /\ y.status = "failed" /\ y.set = "keep"
    BY <2>1, <2>2, <2>3, <2>4, <2>5, <2>7 DEF ExchangeOk, Revoked
  <2> QED BY <1>3, <2>1, <2>2, <2>6, <2>7 DEF Fails
<1> QED BY <1>1, <1>2, <1>3, ServerStep

LEMMA BeginShutdownStep ==
    ASSUME LoginsInv, BeginShutdown
    PROVE  LoginsInv'
<1>1. server.at = "open" /\ server'.at = "flag" /\ server'.collected = server.collected /\ plan' \in [Events -> Nat]
  BY SpendType DEF BeginShutdown, LoginsInv, TypeInv, Events
<1>2. UNCHANGED <<sessions, rows, issued, expired, wire, browser, ghosts>>
  BY DEF BeginShutdown, store
<1>3. TypeInv'
  BY <1>1, <1>2 DEF BeginShutdown, LoginsInv, TypeInv, TypeOK, browser, ghosts, Holds
<1>4. StoreInv' /\ ShutdownInv'
  BY <1>1, <1>2 DEF LoginsInv, StoreInv, RowsMirror, ShutdownInv, ShutdownCancels, Known, ghosts
<1> QED BY <1>2, <1>3, <1>4, ServerAlone DEF Fails, Present

LEMMA CollectRequestsStep ==
    ASSUME LoginsInv, CollectRequests
    PROVE  LoginsInv'
<1>1. /\ server.at = "flag" /\ server' = [at |-> "cancelling", collected |-> Tracked]
      /\ UNCHANGED <<sessions, rows, issued, expired, wire, plan, browser, ghosts>>
  BY DEF CollectRequests, store
<1>2. server'.at = "cancelling" /\ server'.collected = Tracked /\ Tracked \subseteq Tabs \X Roles /\ Tracked' = Tracked
  BY <1>1 DEF Tracked
<1>3. TypeInv'
  BY <1>1, <1>2 DEF LoginsInv, TypeInv, TypeOK, browser, ghosts, Holds
<1>4. StoreInv' /\ ShutdownInv'
  BY <1>1, <1>2 DEF LoginsInv, StoreInv, RowsMirror, ShutdownInv, ShutdownCancels, Known, ghosts
<1> QED BY <1>1, <1>3, <1>4, ServerAlone DEF Fails, Present

LEMMA CancelRequestsStep ==
    ASSUME LoginsInv, CancelRequests
    PROVE  LoginsInv'
<1>1. /\ server.at = "cancelling" /\ server' = [at |-> "done", collected |-> {}]
      /\ UNCHANGED <<sessions, rows, issued, expired, plan, browser, ghosts>>
  BY DEF CancelRequests, store
<1>2. ASSUME NEW b \in Tabs, NEW r \in Roles
      PROVE  wire'[b][r] = IF <<b, r>> \in server.collected /\ wire[b][r] # None
                           THEN [wire[b][r] EXCEPT !.cancelled = TRUE] ELSE wire[b][r]
  BY DEF CancelRequests
<1>3. ASSUME NEW b \in Tabs, NEW r \in Roles
      PROVE  /\ wire'[b][r] \in Exchange \cup {None} /\ Fails(wire[b][r], wire'[b][r])
             /\ wire[b][r] # None => wire'[b][r] # None
             /\ ~UnderWay(wire[b][r])'
  <2>1. CASE <<b, r>> \in server.collected /\ wire[b][r] # None
    <3>1. wire[b][r] \in Exchange /\ wire'[b][r] = [wire[b][r] EXCEPT !.cancelled = TRUE]
      BY <1>2, <2>1, WireType
    <3>2. /\ wire'[b][r] \in Exchange /\ wire'[b][r].cancelled /\ wire'[b][r].kind = wire[b][r].kind
          /\ wire'[b][r].csrf = wire[b][r].csrf /\ wire'[b][r].cookie = wire[b][r].cookie
          /\ wire'[b][r].token = wire[b][r].token /\ wire'[b][r].at = wire[b][r].at
          /\ wire'[b][r].status = wire[b][r].status /\ wire'[b][r].set = wire[b][r].set
      BY <3>1 DEF Exchange
    <3> QED BY <2>1, <3>2, ValuesAssumption DEF Fails, UnderWay
  <2>2. CASE ~(<<b, r>> \in server.collected /\ wire[b][r] # None)
    <3>1. wire'[b][r] = wire[b][r]
      BY <1>2, <2>2
    <3>2. ~UnderWay(wire[b][r])
      <4> SUFFICES ASSUME UnderWay(wire[b][r]) PROVE FALSE
        OBVIOUS
      <4>1. <<b, r>> \in Tracked
        BY DEF Tracked
      <4> QED BY <1>1, <2>2, <4>1 DEF LoginsInv, ShutdownInv, UnderWay
    <3> QED BY <3>1, <3>2 DEF Fails, UnderWay, LoginsInv, TypeInv, TypeOK
  <2> QED BY <2>1, <2>2
<1>4. wire' \in [Tabs -> [Roles -> Exchange \cup {None}]]
  <2>1. wire' = [b \in Tabs |-> [r \in Roles |-> wire'[b][r]]]
    BY DEF CancelRequests
  <2> QED BY <1>3, <2>1
<1>5. TypeInv'
  BY <1>1, <1>3, <1>4 DEF LoginsInv, TypeInv, TypeOK, browser, ghosts, Holds
<1>6. StoreInv'
  BY <1>1 DEF LoginsInv, StoreInv, RowsMirror, Known, ghosts
<1>7. ShutdownInv'
  BY <1>1, <1>3 DEF ShutdownInv, ShutdownCancels, Tracked
<1> QED BY <1>1, <1>3, <1>5, <1>6, <1>7, ServerAlone DEF Present

LEMMA CloseStoreStep ==
    ASSUME LoginsInv, CloseStore
    PROVE  LoginsInv'
<1>1. server.at = "done" /\ server'.at = "closed" /\ server'.collected = server.collected
  BY DEF CloseStore, LoginsInv, TypeInv
<1>2. UNCHANGED <<rows, issued, expired, wire, plan, browser, ghosts>> /\ sessions' = [t \in Tokens |-> None]
  BY DEF CloseStore
<1>3. TypeInv'
  BY <1>1, <1>2 DEF CloseStore, LoginsInv, TypeInv, TypeOK, browser, ghosts, Holds
<1>4. StoreInv' /\ ShutdownInv'
  <2>1. Tracked' = Tracked
    BY <1>2 DEF Tracked
  <2> QED BY <1>1, <1>2, <2>1 DEF LoginsInv, StoreInv, RowsMirror, ShutdownInv, ShutdownCancels, ghosts
<1> QED BY <1>2, <1>3, <1>4, ServerAlone DEF Fails, Present

Failed(x) == [x EXCEPT !.at = "answered", !.status = "failed", !.set = "keep"]

LEMMA RestartStep ==
    ASSUME LoginsInv, Restart
    PROVE  LoginsInv'
<1> USE StoreFacts
<1>1. /\ server' = [at |-> "open", collected |-> {}] /\ plan' \in [Events -> Nat]
      /\ UNCHANGED <<issued, expired, browser, ghosts>>
  <2>1. Spend("restart") /\ server' = [at |-> "open", collected |-> {}] /\ UNCHANGED <<issued, expired, browser, ghosts>>
    BY Zenon DEF Restart
  <2> QED BY <2>1, SpendType DEF Events
<1>2. /\ \A t \in Tokens : sessions'[t] = rows'[t] /\ rows'[t] = IF t \in expired THEN None ELSE rows[t]
      /\ sessions' \in [Tokens -> Session \cup {None}] /\ rows' \in [Tokens -> Session \cup {None}]
  <2>1. sessions' = Pruned(rows) /\ rows' = Pruned(rows)
    BY Zenon DEF Restart, Loaded
  <2> QED BY <2>1 DEF Pruned
<1>3. ASSUME NEW b \in Tabs, NEW r \in Roles
      PROVE  wire'[b][r] = IF wire[b][r] = None \/ wire[b][r].at = "answered" THEN wire[b][r]
                           ELSE Failed(wire[b][r])
  BY Zenon DEF Restart, Failed
<1>4. ASSUME NEW b \in Tabs, NEW r \in Roles
      PROVE  /\ wire'[b][r] \in Exchange \cup {None} /\ Fails(wire[b][r], wire'[b][r])
             /\ wire[b][r] # None => wire'[b][r] # None
  <2>1. CASE wire[b][r] = None \/ wire[b][r].at = "answered"
    BY <1>3, <2>1 DEF Fails, LoginsInv, TypeInv, TypeOK
  <2>2. CASE ~(wire[b][r] = None \/ wire[b][r].at = "answered")
    <3>1. /\ wire[b][r] \in Exchange
          /\ wire'[b][r] = Failed(wire[b][r])
      BY <1>3, <2>2, WireType
    <3>2. wire'[b][r] \in Exchange
      BY <3>1 DEF Exchange, Cookie, Status, Failed
    <3>3. /\ wire'[b][r].kind = wire[b][r].kind
          /\ wire'[b][r].csrf = wire[b][r].csrf /\ wire'[b][r].cookie = wire[b][r].cookie
          /\ wire'[b][r].token = wire[b][r].token /\ wire'[b][r].at = "answered"
          /\ wire'[b][r].status = "failed" /\ wire'[b][r].set = "keep"
      BY <3>1 DEF Exchange, Failed
    <3> QED BY <2>2, <3>2, <3>3, ValuesAssumption DEF Fails
  <2> QED BY <2>1, <2>2
<1>5. wire' \in [Tabs -> [Roles -> Exchange \cup {None}]]
  <2>1. wire' = [b \in Tabs |-> [r \in Roles |-> wire'[b][r]]]
    BY <1>3, Zenon DEF Restart, Failed
  <2> QED BY <1>4, <2>1
<1>6. TypeInv'
  BY <1>1, <1>2, <1>4, <1>5 DEF LoginsInv, TypeInv, TypeOK, browser, ghosts, Holds
<1>7. StoreInv'
  <2>1. RowsMirror'
    BY <1>1, <1>2 DEF StoreInv, RowsMirror, Known
  <2> QED BY <1>1, <1>2, <2>1 DEF StoreInv, ghosts
<1>8. ShutdownInv'
  BY <1>1 DEF ShutdownInv, ShutdownCancels
<1> QED BY <1>1, <1>2, <1>4, <1>6, <1>7, <1>8, ServerAlone DEF Present

LEMMA ExpireStep ==
    ASSUME LoginsInv, NEW t \in Tokens, Expire(t)
    PROVE  LoginsInv'
<1>1. /\ t \in issued /\ expired' = expired \cup {t} /\ plan' \in [Events -> Nat]
      /\ UNCHANGED <<sessions, rows, issued, wire, server, browser, ghosts>>
  BY SpendType DEF Expire, Events, store
<1>2. TypeInv'
  BY <1>1 DEF LoginsInv, TypeInv, TypeOK, browser, ghosts, Holds
<1>3. StoreInv' /\ ShutdownInv'
  <2>1. Tracked' = Tracked
    BY <1>1 DEF Tracked
  <2> QED BY <1>1, <2>1 DEF LoginsInv, StoreInv, RowsMirror, ShutdownInv, ShutdownCancels, Known, ghosts
<1> QED BY <1>1, <1>2, <1>3, ServerAlone DEF Fails, Present

-----------------------------------------------------------------------------
(* The functions of a tab.                                                 *)

(* What a tab may come to name: what something names, or what it hears. *)
Old(b, r, u) == u = None \/ ~Unnamed(u) \/ u \in Brought(b, r)

SameOrResting(new, old) ==
    new = Resting \/ (new.at = old.at /\ new.token = old.token /\ new.superseded = old.superseded)

(* Tab b becomes v, its functions ths, and its exchange r becomes y. *)
TabBecomes(b, r, v, ths, y) ==
    /\ v \in Tab /\ ths \in [Roles -> Thread]
    /\ SetTab(b, v) \/ (v = tab[b] /\ UNCHANGED tab)
    /\ SetThreads(b, ths) \/ (ths = thread[b] /\ UNCHANGED thread)
    /\ y \in Exchange \cup {None} /\ OnlyWire(b, r, y)
    /\ y \in {None, wire[b][r]} \/ (IsSent(y) /\ y.cookie = jar' /\ Old(b, r, y.csrf))
    /\ \A q \in Roles \ {r} : SameOrResting(ths[q], thread[b][q])
    /\ Old(b, r, v.csrf) /\ \A u \in v.fallback : Old(b, r, u)
    /\ Old(b, r, ths[r].token) /\ \A u \in ths[r].superseded : Old(b, r, u)
    /\ CookieGoesOn(b, r) /\ jar' \in Tokens \cup {None} /\ plan' \in [Events -> Nat]

LEMMA TabStep ==
    ASSUME LoginsInv, NEW b \in Tabs, NEW r \in Roles, NEW v, NEW ths, NEW y, TabBecomes(b, r, v, ths, y), OthersGoOn,
           journal' \subseteq Tokens, sealed' \subseteq Tokens, accepted' \subseteq Tokens,
           \A u \in journal' \cup sealed' \cup accepted' : Old(b, r, u),
           GuardInv', ThreadOk(r, ths[r], y)', y \in {None, wire[b][r]} \/ ExchangeOk(y)'
    PROVE  LoginsInv'
<1> USE NoneAssumption
<1>1. /\ tab' \in [Tabs -> Tab] /\ tab'[b] = v /\ \A c \in Tabs \ {b} : tab'[c] = tab[c]
      /\ thread' \in [Tabs -> [Roles -> Thread]] /\ thread'[b] = ths /\ \A c \in Tabs \ {b} : thread'[c] = thread[c]
  <2>1. tab \in [Tabs -> Tab] /\ thread \in [Tabs -> [Roles -> Thread]]
    BY DEF LoginsInv, TypeInv, TypeOK
  <2>2. v \in Tab /\ (tab' = [tab EXCEPT ![b] = v] \/ (v = tab[b] /\ tab' = tab))
    BY DEF TabBecomes, SetTab
  <2>3. ths \in [Roles -> Thread] /\ (thread' = [thread EXCEPT ![b] = ths] \/ (ths = thread[b] /\ thread' = thread))
    BY DEF TabBecomes, SetThreads
  <2> QED BY <2>1, <2>2, <2>3
<1>2. /\ wire' \in WireFunctions /\ wire'[b][r] = y /\ \A q \in Roles \ {r} : wire'[b][q] = wire[b][q]
      /\ \A c \in Tabs \ {b}, q \in Roles : wire'[c][q] = wire[c][q]
  BY DEF TabBecomes, OnlyWire
<1>3. \A c \in Tabs \ {b} : wire'[c] = wire[c]
  <2> SUFFICES ASSUME NEW c \in Tabs \ {b} PROVE wire'[c] = wire[c]
    OBVIOUS
  <2>1. wire'[c] \in [Roles -> Exchange \cup {None}] /\ wire[c] \in [Roles -> Exchange \cup {None}]
    BY <1>2 DEF LoginsInv, TypeInv, TypeOK, WireFunctions
  <2> QED BY <1>2, <2>1
<1>4. \A q \in Roles \ {r} : SameThread(ths[q], thread[b][q])
  BY DEF TabBecomes, SameOrResting, SameThread, Resting
<1>5. OneTab(b, r)
  BY <1>1, <1>2, <1>3, <1>4 DEF OneTab, TabBecomes
<1>6. ASSUME NEW t \in Tokens, Unnamed(t), t \notin Brought(b, r) PROVE Untold(b, r, t)
  <2>1. ~Old(b, r, t)
    BY <1>6 DEF Old
  <2>2. jar' # t
    BY <1>6, NamedByTab DEF TabBecomes, CookieGoesOn
  <2>3. ASSUME NEW q \in Roles PROVE ths[q].token # t /\ t \notin ths[q].superseded
    <3>1. CASE q = r
      BY <2>1, <3>1 DEF TabBecomes
    <3>2. CASE q # r
      BY <1>6, <3>2, NamedByTab DEF TabBecomes, SameOrResting, Resting
    <3> QED BY <3>1, <3>2
  <2>4. ASSUME y # None PROVE t \notin Carries(y)
    <3>1. CASE y = wire[b][r]
      BY <1>6, <2>4, <3>1 DEF Unnamed
    <3>2. CASE IsSent(y) /\ y.cookie = jar' /\ Old(b, r, y.csrf)
      BY <2>1, <2>2, <3>2 DEF Carries, IsSent
    <3> QED BY <2>4, <3>1, <3>2 DEF TabBecomes
  <2>5. t \notin Carries(wire'[b][r]) \/ y = None
    BY <1>2, <2>4
  <2> QED BY <1>1, <1>2, <2>1, <2>2, <2>3, <2>5 DEF Untold, TabBecomes, Carries
<1>7. TypeInv'
  <2>1. ASSUME NEW c \in Tabs, NEW q \in Roles, Holds(c, q, "wait")' PROVE wire'[c][q] # None
    <3>1. CASE c = b /\ q = r
      BY <1>1, <1>2, <2>1, <3>1 DEF ThreadOk, Holds
    <3>2. CASE ~(c = b /\ q = r)
      <4>1. wire'[c][q] = wire[c][q] /\ thread[c][q].at = "wait"
        BY <1>1, <1>2, <1>4, <2>1, <3>2 DEF SameThread, Holds
      <4> QED BY <4>1 DEF LoginsInv, TypeInv, TypeOK, Holds
    <3> QED BY <3>1, <3>2
  <2> QED BY <1>1, <1>2, <2>1 DEF LoginsInv, TypeInv, TypeOK, OthersGoOn, serverSide, store, TabBecomes, WireFunctions
<1>8. ThreadOk(r, thread[b][r], wire[b][r])'
  BY <1>1, <1>2 DEF ThreadOk, Finishing, Gone, Present
<1>9. wire'[b][r] # None /\ wire'[b][r] # wire[b][r] => ExchangeOk(wire[b][r])'
  BY <1>2 DEF ExchangeOk, Revoked, Gone, Present
<1> QED BY <1>5, <1>6, <1>7, <1>8, <1>9, BrowserStep DEF TabBecomes

(* Most steps of a tab leave the notes alone. *)
LEMMA TabQuiet ==
    ASSUME LoginsInv, NEW b \in Tabs, NEW r \in Roles, NEW v, NEW ths, NEW y, TabBecomes(b, r, v, ths, y),
           UNCHANGED <<serverSide, journal, ghosts>>,
           ThreadOk(r, ths[r], y)', y \in {None, wire[b][r]} \/ ExchangeOk(y)'
    PROVE  LoginsInv'
<1>1. OthersGoOn
  BY DEF OthersGoOn, ghosts
<1>2. \A u \in journal' \cup sealed' \cup accepted' : Old(b, r, u)
  BY NamedByTab DEF Old, ghosts
<1>3. GuardInv'
  <2>1. ASSUME NEW t \in sealed, jar' = t PROVE jar = t
    <3>1. t \in Tokens /\ ~Unnamed(t)
      BY NamedByTab DEF LoginsInv, TypeInv
    <3> QED BY <2>1, <3>1, CookieStays DEF TabBecomes
  <2>2. jar' = jar => (Gone(jar) => Gone(jar)')
    BY DEF Gone, Present, serverSide, store
  <2> QED BY <2>1, <2>2 DEF LoginsInv, GuardInv, ghosts
<1> QED BY <1>1, <1>2, <1>3, TabStep DEF LoginsInv, TypeInv, TypeOK, ghosts

LEMMA OldNames ==
    ASSUME LoginsInv, NEW b \in Tabs, NEW r \in Roles
    PROVE  /\ Old(b, r, None) /\ Old(b, r, jar) /\ Old(b, r, tab[b].csrf)
           /\ \A u \in tab[b].fallback \cup journal \cup sealed \cup accepted : Old(b, r, u)
           /\ \A q \in Roles : Old(b, r, thread[b][q].token) /\ \A u \in thread[b][q].superseded : Old(b, r, u)
BY NamedByTab DEF Old

(* What every step of a tab finds. *)
LEMMA TabFacts ==
    ASSUME LoginsInv, NEW b \in Tabs, NEW r \in Roles
    PROVE  /\ tab[b] \in Tab /\ tab[b].csrf \in Tokens \cup {None} /\ tab[b].fallback \subseteq Tokens
           /\ thread[b] \in [Roles -> Thread] /\ thread[b][r] \in Thread
           /\ thread[b][r].token \in Tokens \cup {None} /\ thread[b][r].superseded \subseteq Tokens
           /\ ThreadOk(r, thread[b][r], wire[b][r])
           /\ wire[b][r] \in Exchange \cup {None} /\ (wire[b][r] # None => ExchangeOk(wire[b][r]))
           /\ journal \subseteq Tokens /\ sealed \subseteq Tokens /\ accepted \subseteq Tokens /\ jar \in Tokens \cup {None}
           /\ Resting \in Thread /\ Resting.at = "idle" /\ Resting.token = None /\ Resting.superseded = {}
           /\ plan \in [Events -> Nat]
<1>1. Resting \in Thread /\ Resting.at = "idle" /\ Resting.token = None /\ Resting.superseded = {}
  BY DEF Resting, Thread
<1>2. ThreadOk(r, thread[b][r], wire[b][r]) /\ (wire[b][r] # None => ExchangeOk(wire[b][r]))
  BY DEF LoginsInv, ThreadsInv, WireInv
<1>3. /\ wire[b][r] \in Exchange \cup {None} /\ plan \in [Events -> Nat]
      /\ journal \subseteq Tokens /\ sealed \subseteq Tokens /\ accepted \subseteq Tokens /\ jar \in Tokens \cup {None}
  BY DEF LoginsInv, TypeInv, TypeOK
<1>4. thread[b][r] \in Thread
  BY TabType
<1> QED BY <1>1, <1>2, <1>3, <1>4, TabType

LEMMA RestingOk ==
    ASSUME NEW r \in Roles, NEW y
    PROVE  ThreadOk(r, Resting, y)'
BY DEF ThreadOk, Finishing, Resting

(* The continuations of a tab are cancelled, or stay. *)
LEMMA CancelledIs ==
    ASSUME LoginsInv, NEW b \in Tabs
    PROVE  \A ths \in {Cancelled(b), ExpiredThreads(b), thread[b]} :
              /\ ths \in [Roles -> Thread]
              /\ \A q \in Roles : /\ ths[q] \in Thread
                                  /\ ths[q].at = thread[b][q].at /\ ths[q].token = thread[b][q].token
                                  /\ ths[q].superseded = thread[b][q].superseded
<1>1. \A q \in Roles : thread[b][q] \in Thread
  BY TabType
<1>2. \A q \in Roles : [thread[b][q] EXCEPT !.current = FALSE] \in Thread
  BY <1>1 DEF Thread
<1>3. \A q \in Roles : /\ [thread[b][q] EXCEPT !.current = FALSE].at = thread[b][q].at
                       /\ [thread[b][q] EXCEPT !.current = FALSE].token = thread[b][q].token
                       /\ [thread[b][q] EXCEPT !.current = FALSE].superseded = thread[b][q].superseded
  BY <1>1 DEF Thread
<1> DEFINE cancelled == [q \in Roles |-> [thread[b][q] EXCEPT !.current = FALSE]]
<1>4. Cancelled(b) = cancelled /\ ExpiredThreads(b) \in {cancelled, thread[b]}
  BY DEF Cancelled, ExpiredThreads
<1>5. \A q \in Roles : cancelled[q] = [thread[b][q] EXCEPT !.current = FALSE]
  OBVIOUS
<1>6. cancelled \in [Roles -> Thread]
  BY <1>2
<1>7. \A q \in Roles : /\ cancelled[q] \in Thread
                       /\ cancelled[q].at = thread[b][q].at /\ cancelled[q].token = thread[b][q].token
                       /\ cancelled[q].superseded = thread[b][q].superseded
  BY <1>2, <1>3, <1>5
<1> HIDE DEF cancelled
<1> QED BY <1>1, <1>4, <1>6, <1>7, TabType

LEMMA ExpiredIs ==
    ASSUME LoginsInv, NEW b \in Tabs
    PROVE  ExpiredTab(b) \in Tab /\ ExpiredTab(b).csrf = None /\ ExpiredTab(b).fallback = tab[b].fallback
<1>1. tab[b] \in Tab
  BY TabType
<1>2. PICK view \in {"closed", "loading", "guest", "ready", "unavailable"} :
          view = IF tab[b].csrf # None THEN "guest" ELSE tab[b].view
  BY <1>1 DEF Tab
<1>3. ExpiredTab(b) = [tab[b] EXCEPT !.csrf = None, !.view = view]
  BY <1>1, <1>2 DEF ExpiredTab, Tab
<1> QED BY <1>1, <1>3 DEF Tab

(* A request goes out with the cookie of its moment. *)
LEMMA SendIs ==
    ASSUME LoginsInv, NEW b \in Tabs, NEW r \in Roles, NEW kind \in Kinds, NEW csrf \in Tokens \cup {None},
           NEW remember \in BOOLEAN, jar' \in Tokens \cup {None}, Send(b, r, kind, csrf, remember),
           kind = "activate" => csrf \in sealed', kind = "revoke" => csrf # None
    PROVE  \E y \in Exchange : /\ OnlyWire(b, r, y) /\ y # None /\ IsSent(y) /\ ExchangeOk(y)'
                               /\ y.kind = kind /\ y.cookie = jar' /\ y.csrf = csrf /\ y.at = "sent"
<1>1. PICK cookie \in Tokens \cup {None} : cookie = jar'
  OBVIOUS
<1>2. PICK y : y = [kind |-> kind, cookie |-> cookie, csrf |-> csrf, remember |-> remember, at |-> "sent",
                    status |-> "none", token |-> None, set |-> "keep", cancelled |-> FALSE]
  OBVIOUS
<1>3. y \in Exchange
  BY <1>2 DEF Exchange, Cookie, Status
<1>4. OnlyWire(b, r, y)
  BY <1>1, <1>2, <1>3, OneExchange DEF Send
<1>5. ExchangeOk(y)'
  BY <1>1, <1>2, ValuesAssumption DEF ExchangeOk
<1> QED BY <1>1, <1>2, <1>3, <1>4, <1>5, ValuesAssumption DEF IsSent

LEMMA FetchIs ==
    ASSUME LoginsInv, NEW b \in Tabs, NEW r \in Roles, NEW kind \in Kinds \ {"activate"}, jar' \in Tokens \cup {None},
           Fetch(b, r, kind), kind = "revoke" => tab[b].csrf # None
    PROVE  \E y \in Exchange : /\ OnlyWire(b, r, y) /\ y # None /\ IsSent(y) /\ ExchangeOk(y)'
                               /\ y.kind = kind /\ y.cookie = jar' /\ y.csrf = tab[b].csrf /\ y.at = "sent"
<1>1. PICK csrf \in Tokens \cup {None} : csrf = tab[b].csrf
  BY TabFacts
<1>2. PICK remember \in BOOLEAN : remember = FALSE
  OBVIOUS
<1>3. Send(b, r, kind, csrf, remember)
  BY <1>1, <1>2 DEF Fetch
<1>4. \E y \in Exchange : /\ OnlyWire(b, r, y) /\ y # None /\ IsSent(y) /\ ExchangeOk(y)'
                          /\ y.kind = kind /\ y.cookie = jar' /\ y.csrf = csrf /\ y.at = "sent"
  <2>1. kind = "revoke" => csrf # None
    BY <1>1
  <2>2. kind # "activate" /\ kind \in Kinds
    OBVIOUS
  <2> QED BY <1>1, <1>3, <2>1, <2>2, SendIs
<1> QED BY <1>1, <1>4

LEMMA OverIs ==
    ASSUME LoginsInv, NEW b \in Tabs, NEW r \in Roles, Over(b, r)
    PROVE  OnlyWire(b, r, None) /\ wire'[b][r] = None
<1>1. wire' = [wire EXCEPT ![b][r] = None]
  BY DEF Over
<1>2. OnlyWire(b, r, None)
  BY <1>1, OneExchange
<1> QED BY <1>2 DEF OnlyWire

LEMMA SameWire ==
    ASSUME LoginsInv, NEW b \in Tabs, NEW r \in Roles, UNCHANGED wire
    PROVE  OnlyWire(b, r, wire[b][r]) /\ wire[b][r] \in Exchange \cup {None}
BY DEF OnlyWire, LoginsInv, TypeInv, TypeOK, WireFunctions

(* What a tab hears. *)
LEMMA HeardIs ==
    ASSUME LoginsInv, NEW b \in Tabs, NEW r \in Roles, NEW kind, NEW status, Heard(b, r, kind, status),
           wire'[b][r] # wire[b][r] \/ kind # "login"
    PROVE  /\ wire[b][r] # None /\ wire[b][r].kind = kind /\ wire[b][r] \in Exchange /\ ExchangeOk(wire[b][r])
           /\ plan' \in [Events -> Nat] /\ jar' \in Tokens \cup {None} /\ CookieGoesOn(b, r)
           /\ status # "failed" => wire[b][r].at = "answered" /\ wire[b][r].status = status
           /\ ~(wire[b][r].at = "answered" /\ wire[b][r].status = status) => jar' = jar
<1>1. wire[b][r] # None /\ wire[b][r].kind = kind /\ wire[b][r] \in Exchange /\ ExchangeOk(wire[b][r])
  BY WireType DEF Heard
<1>2. CASE /\ wire[b][r].at = "answered" /\ status = wire[b][r].status /\ UNCHANGED plan
           /\ jar' = CASE wire[b][r].set = "keep" -> jar [] wire[b][r].set = "clear" -> None [] OTHER -> wire[b][r].set
  <2>1. wire[b][r].set \in Cookie
    BY <1>1 DEF Exchange
  <2>2. jar' = jar \/ jar' = None \/ (jar' = wire[b][r].set /\ jar' \in Tokens)
    <3>1. CASE wire[b][r].set = "keep"
      BY <1>2, <3>1
    <3>2. CASE wire[b][r].set = "clear"
      BY <1>2, <3>2, ValuesAssumption
    <3>3. CASE wire[b][r].set \notin {"keep", "clear"}
      BY <1>2, <2>1, <3>3 DEF Cookie
    <3> QED BY <3>1, <3>2, <3>3
  <2>3. jar' = wire[b][r].set /\ jar' \in Tokens => jar' \in Brought(b, r)
    BY <1>1, NoneAssumption DEF ExchangeOk, Brought
  <2> QED BY <1>1, <1>2, <2>2, <2>3, TabFacts DEF CookieGoesOn
<1>3. CASE wire[b][r].at \in {"sent", "answered"} /\ status = "failed" /\ Spend("lose") /\ UNCHANGED jar
  BY <1>1, <1>3, SpendType, TabFacts DEF CookieGoesOn, Events
<1> QED BY <1>2, <1>3 DEF Heard

LEMMA ViewIs ==
    ASSUME NEW v \in Tab, NEW view \in {"closed", "loading", "guest", "ready", "unavailable"}
    PROVE  /\ [v EXCEPT !.view = view] \in Tab /\ [v EXCEPT !.view = view].csrf = v.csrf
           /\ [v EXCEPT !.view = view].fallback = v.fallback
BY DEF Tab

LEMMA OpenStep ==
    ASSUME LoginsInv, NEW b \in Tabs, Open(b)
    PROVE  LoginsInv'
<1> DEFINE r == "load"
<1> USE DEF Roles
<1>1. PICK v : v = [tab[b] EXCEPT !.view = "loading"]
  OBVIOUS
<1>2. v \in Tab /\ v.csrf = tab[b].csrf /\ v.fallback = tab[b].fallback
  BY <1>1, TabFacts, ViewIs
<1>3. PICK ths : ths = [Cancelled(b) EXCEPT !["load"] = Waiting]
  OBVIOUS
<1>4. /\ ths \in [Roles -> Thread] /\ ths[r] = Waiting /\ Waiting.token = None /\ Waiting.superseded = {} /\ Waiting.at = "wait"
      /\ \A q \in Roles \ {r} : SameOrResting(ths[q], thread[b][q])
  <2>1. Waiting \in Thread /\ Waiting.token = None /\ Waiting.superseded = {} /\ Waiting.at = "wait"
    BY DEF Waiting, Resting, Thread
  <2> QED BY <1>3, <2>1, CancelledIs DEF SameOrResting
<1>5. /\ UNCHANGED <<serverSide, journal, ghosts>> /\ UNCHANGED jar /\ plan' \in [Events -> Nat]
      /\ SetTab(b, v) /\ SetThreads(b, ths) /\ Fetch(b, r, "session")
  BY <1>1, <1>3, SpendType DEF Open, Events
<1>6. PICK y \in Exchange : /\ OnlyWire(b, r, y) /\ y # None /\ IsSent(y) /\ ExchangeOk(y)'
                            /\ y.kind = "session" /\ y.cookie = jar' /\ y.csrf = tab[b].csrf
  BY <1>5, FetchIs, TabFacts DEF Kinds
<1>7. TabBecomes(b, r, v, ths, y)
  BY <1>2, <1>4, <1>5, <1>6, OldNames, TabFacts DEF TabBecomes, CookieGoesOn
<1>8. ThreadOk(r, ths[r], y)'
  BY <1>4, <1>6 DEF ThreadOk, Continuations, Finishing
<1> QED BY <1>5, <1>6, <1>7, <1>8, TabQuiet

LEMMA CloseTabStep ==
    ASSUME LoginsInv, NEW b \in Tabs, CloseTab(b)
    PROVE  LoginsInv'
<1> DEFINE r == "load"
<1> USE DEF Roles
<1>1. Closed \in Tab /\ Closed.csrf = None /\ Closed.fallback = {}
  BY DEF Closed, Tab
<1>2. PICK ths : ths = [q \in Roles |-> Resting]
  OBVIOUS
<1>3. /\ ths \in [Roles -> Thread] /\ ths[r] = Resting
      /\ \A q \in Roles \ {r} : SameOrResting(ths[q], thread[b][q])
  BY <1>2, TabFacts DEF SameOrResting
<1>4. /\ UNCHANGED <<serverSide, jar, journal, wire, ghosts>> /\ plan' \in [Events -> Nat]
      /\ SetTab(b, Closed) /\ SetThreads(b, ths)
  BY <1>2, SpendType DEF CloseTab, Events
<1>5. PICK y : y = wire[b][r]
  OBVIOUS
<1>6. TabBecomes(b, r, Closed, ths, y)
  BY <1>1, <1>3, <1>4, <1>5, SameWire, OldNames, TabFacts DEF TabBecomes, CookieGoesOn
<1> QED BY <1>3, <1>4, <1>5, <1>6, RestingOk, TabQuiet

LEMMA IgnoreStep ==
    ASSUME LoginsInv, NEW b \in Tabs, NEW r \in Roles, NEW status \in Status, Ignore(b, r, status)
    PROVE  LoginsInv'
<1>1. /\ wire[b][r] # None /\ Heard(b, r, wire[b][r].kind, status) /\ Over(b, r) /\ thread[b][r].at = "idle"
      /\ UNCHANGED <<serverSide, journal, ghosts>> /\ UNCHANGED <<tab, thread>>
  BY DEF Ignore, Holds
<1>2. OnlyWire(b, r, None) /\ wire'[b][r] # wire[b][r]
  BY <1>1, OverIs
<1>3. plan' \in [Events -> Nat] /\ jar' \in Tokens \cup {None} /\ CookieGoesOn(b, r)
  <2>1. PICK kind : kind = wire[b][r].kind
    OBVIOUS
  <2> QED BY <1>1, <1>2, <2>1, HeardIs
<1>4. PICK v, ths : v = tab[b] /\ ths = thread[b]
  OBVIOUS
<1>5. TabBecomes(b, r, v, ths, None)
  BY <1>1, <1>2, <1>3, <1>4, OldNames, TabFacts DEF TabBecomes, SameOrResting
<1>6. ThreadOk(r, ths[r], None)'
  BY <1>1, <1>4 DEF ThreadOk, Finishing
<1> QED BY <1>1, <1>5, <1>6, TabQuiet

LEMMA HearSessionStep ==
    ASSUME LoginsInv, NEW b \in Tabs, NEW status \in Status, HearSession(b, status)
    PROVE  LoginsInv'
<1> DEFINE r == "load"
<1> USE DEF Roles
<1>1. /\ Heard(b, r, "session", status) /\ Over(b, r) /\ thread[b][r].at = "wait" /\ UNCHANGED <<serverSide, journal, ghosts>>
  BY DEF HearSession, Holds
<1>2. OnlyWire(b, r, None)
  BY <1>1, OverIs
<1>3. /\ plan' \in [Events -> Nat] /\ jar' \in Tokens \cup {None} /\ CookieGoesOn(b, r)
      /\ wire[b][r] # None /\ wire[b][r].kind = "session" /\ wire[b][r] \in Exchange /\ ExchangeOk(wire[b][r])
      /\ status # "failed" => wire[b][r].at = "answered" /\ wire[b][r].status = status
  BY <1>1, HeardIs
<1>4. PICK t : t = wire[b][r].token
  OBVIOUS
<1>5. t \in Tokens \cup {None} /\ ~Unnamed(t)
  BY <1>3, <1>4, NamedByWire DEF Exchange
<1>6. SUFFICES \E v, ths : /\ v \in Tab /\ ths \in [Roles -> Thread]
                           /\ SetTab(b, v) /\ SetThreads(b, ths)
                           /\ v.csrf \in {t, None, tab[b].csrf} /\ v.fallback = tab[b].fallback
                           /\ \A q \in Roles \ {r} : SameOrResting(ths[q], thread[b][q])
                           /\ \/ ths[r] = Resting
                              \/ /\ ths[r].at = "reconcile" /\ ths[r].token = t /\ t # None /\ t \in sealed
                                 /\ ths[r].superseded = thread[b][r].superseded
  <2>1. PICK v, ths : /\ v \in Tab /\ ths \in [Roles -> Thread]
                      /\ SetTab(b, v) /\ SetThreads(b, ths)
                      /\ v.csrf \in {t, None, tab[b].csrf} /\ v.fallback = tab[b].fallback
                      /\ \A q \in Roles \ {r} : SameOrResting(ths[q], thread[b][q])
                      /\ \/ ths[r] = Resting
                         \/ /\ ths[r].at = "reconcile" /\ ths[r].token = t /\ t # None /\ t \in sealed
                            /\ ths[r].superseded = thread[b][r].superseded
    BY <1>6
  <2>2. TabBecomes(b, r, v, ths, None)
    BY <1>2, <1>3, <1>5, <2>1, OldNames, TabFacts DEF TabBecomes, Old
  <2>3. ThreadOk(r, ths[r], None)'
    BY <1>1, <2>1, RestingOk DEF ThreadOk, Continuations, Finishing, ghosts
  <2> QED BY <1>1, <2>2, <2>3, TabQuiet
<1>7. CASE status = "ok"
  <2>1. t # None /\ t \in sealed
    BY <1>3, <1>4, <1>7 DEF ExchangeOk
  <2>2. PICK v : v = Adopted(b, t)
    OBVIOUS
  <2>3. v \in Tab /\ v.csrf = t /\ v.fallback = tab[b].fallback /\ SetTab(b, v)
    <3>1. SetTab(b, v)
      BY <1>4, <1>7, <2>2 DEF HearSession
    <3> QED BY <1>5, <2>2, <3>1, TabFacts DEF Adopted, Tab
  <2>4. CASE thread[b]["load"].current
    <3>1. PICK ths : ths = [thread[b] EXCEPT !["load"].at = "reconcile", !["load"].token = t]
      OBVIOUS
    <3>2. /\ ths \in [Roles -> Thread] /\ ths[r].at = "reconcile" /\ ths[r].token = t
          /\ ths[r].superseded = thread[b][r].superseded /\ \A q \in Roles \ {r} : ths[q] = thread[b][q]
      BY <1>5, <3>1, TabFacts DEF Thread
    <3>3. SetThreads(b, ths)
      BY <1>4, <1>7, <2>4, <3>1 DEF HearSession
    <3> QED BY <2>1, <2>3, <3>2, <3>3 DEF SameOrResting
  <2>5. CASE ~thread[b]["load"].current
    <3>1. PICK ths : ths = [thread[b] EXCEPT !["load"] = Resting]
      OBVIOUS
    <3>2. ths \in [Roles -> Thread] /\ ths[r] = Resting /\ \A q \in Roles \ {r} : ths[q] = thread[b][q]
      BY <3>1, TabFacts
    <3>3. SetThreads(b, ths)
      BY <1>4, <1>7, <2>5, <3>1 DEF HearSession, Stop
    <3> QED BY <2>3, <3>2, <3>3 DEF SameOrResting
  <2> QED BY <2>4, <2>5
<1>8. CASE status = "guest"
  <2>1. ExpiredTab(b) \in Tab /\ ExpiredTab(b).csrf = None /\ ExpiredTab(b).fallback = tab[b].fallback
    BY ExpiredIs
  <2>2. PICK view \in {"closed", "loading", "guest", "ready", "unavailable"} :
            view = IF thread[b]["load"].current THEN "guest" ELSE ExpiredTab(b).view
    BY <2>1 DEF Tab
  <2>3. PICK v : v = [ExpiredTab(b) EXCEPT !.view = view]
    OBVIOUS
  <2>4. v \in Tab /\ v.csrf = None /\ v.fallback = tab[b].fallback
    BY <2>1, <2>3, ViewIs
  <2>5. PICK ths : ths = [ExpiredThreads(b) EXCEPT !["load"] = Resting]
    OBVIOUS
  <2>6. /\ ths \in [Roles -> Thread] /\ ths[r] = Resting
        /\ \A q \in Roles \ {r} : SameOrResting(ths[q], thread[b][q])
    BY <2>5, CancelledIs, TabFacts DEF SameOrResting
  <2>7. SetTab(b, v) /\ SetThreads(b, ths)
    BY <1>8, <2>2, <2>3, <2>5 DEF HearSession
  <2> QED BY <2>4, <2>6, <2>7
<1>9. CASE status \notin {"ok", "guest"}
  <2>1. PICK view \in {"closed", "loading", "guest", "ready", "unavailable"} :
            view = IF thread[b]["load"].current THEN "unavailable" ELSE tab[b].view
    BY TabFacts DEF Tab
  <2>2. PICK v : v = [tab[b] EXCEPT !.view = view]
    OBVIOUS
  <2>3. v \in Tab /\ v.csrf = tab[b].csrf /\ v.fallback = tab[b].fallback
    <3>1. tab[b] \in Tab
      BY TabType
    <3> QED BY <2>2, <3>1, ViewIs
  <2>4. PICK ths : ths = [thread[b] EXCEPT !["load"] = Resting]
    OBVIOUS
  <2>5. ths \in [Roles -> Thread] /\ ths[r] = Resting /\ \A q \in Roles \ {r} : ths[q] = thread[b][q]
    BY <2>4, TabFacts
  <2>6. SetTab(b, v) /\ SetThreads(b, ths)
    BY <1>9, <2>1, <2>2, <2>4 DEF HearSession, Stop
  <2> QED BY <2>3, <2>5, <2>6 DEF SameOrResting
<1> QED BY <1>7, <1>8, <1>9

LEMMA ReconcileStep ==
    ASSUME LoginsInv, NEW b \in Tabs, Reconcile(b)
    PROVE  LoginsInv'
<1> DEFINE r == "load"
<1> USE DEF Roles
<1>1. thread[b][r].at = "reconcile" /\ UNCHANGED <<serverSide, journal, ghosts>> /\ UNCHANGED <<jar, plan>>
  BY Zenon DEF Reconcile, Holds
<1>2. thread[b][r].token \in Tokens /\ thread[b][r].token \in sealed /\ jar' \in Tokens \cup {None} /\ plan' \in [Events -> Nat]
  BY <1>1, TabFacts DEF ThreadOk
<1>3. PICK kept : kept = [tab[b] EXCEPT !.fallback = Markers(b)]
  OBVIOUS
<1>4. kept \in Tab /\ kept.csrf = tab[b].csrf /\ kept.fallback = tab[b].fallback \cup journal
  <2>1. tab[b].fallback \cup journal \subseteq Tokens
    BY TabFacts
  <2> QED BY <1>3, <2>1, TabFacts DEF Tab, Markers
<1>5. CASE Markers(b) = {} \/ tab[b].csrf = thread[b][r].token
  <2>1. PICK kind \in Kinds \ {"activate"} : kind = IF Markers(b) = {} THEN "capabilities" ELSE "revoke"
    BY DEF Kinds
  <2>2. Fetch(b, r, kind) /\ SetTab(b, kept) /\ Resume(b, r, "wait")
    BY <1>3, <1>5, <2>1 DEF Reconcile
  <2>3. kind = "revoke" => tab[b].csrf # None /\ tab[b].csrf = thread[b][r].token
    BY <1>2, <1>5, <2>1, NoneAssumption
  <2>4. PICK y \in Exchange : /\ OnlyWire(b, r, y) /\ y # None /\ IsSent(y) /\ ExchangeOk(y)'
                              /\ y.kind = kind /\ y.cookie = jar' /\ y.csrf = tab[b].csrf
    BY <1>2, <2>2, <2>3, FetchIs
  <2>5. PICK ths : ths = [thread[b] EXCEPT ![r].at = "wait"]
    OBVIOUS
  <2>6. /\ ths \in [Roles -> Thread] /\ SetThreads(b, ths) /\ ths[r].at = "wait" /\ ths[r].token = thread[b][r].token
        /\ ths[r].superseded = thread[b][r].superseded /\ \A q \in Roles \ {r} : ths[q] = thread[b][q]
    BY <2>2, <2>5, TabFacts DEF Thread, Resume
  <2>7. TabBecomes(b, r, kept, ths, y)
    BY <1>1, <1>2, <1>4, <2>2, <2>4, <2>6, OldNames, TabFacts DEF TabBecomes, CookieGoesOn, SameOrResting
  <2>8. kind = "capabilities" /\ jar = thread[b][r].token => thread[b][r].token \in accepted \/ Gone(thread[b][r].token)
    BY <1>2, <2>1 DEF LoginsInv, GuardInv, Markers
  <2>9. ThreadOk(r, ths[r], y)'
    <3>1. PICK t : t = thread[b][r].token
      OBVIOUS
    <3>2. kind = "capabilities" /\ jar' = t => t \in accepted' \/ Gone(t)'
      BY <1>1, <2>8, <3>1 DEF Gone, Present, serverSide, store, ghosts
    <3>3. ths[r].token = t /\ t # None
      BY <1>2, <2>6, <3>1, NoneAssumption
    <3>4. ths[r].at = "wait" /\ y # None /\ y.kind = kind /\ r \notin Continuations /\ (y.kind = "revoke" => y.csrf = t)
      BY <2>3, <2>4, <2>6, <3>1 DEF Continuations
    <3>5. kind \in {"capabilities", "revoke"}
      BY <2>1
    <3> QED BY <3>2, <3>3, <3>4, <3>5 DEF ThreadOk, Gone, Present
  <2> QED BY <1>1, <2>4, <2>7, <2>9, TabQuiet
<1>6. CASE ~(Markers(b) = {} \/ tab[b].csrf = thread[b][r].token)
  <2>1. PICK v : v = IF thread[b]["load"].current THEN [kept EXCEPT !.csrf = None, !.view = "guest"] ELSE kept
    OBVIOUS
  <2>2. v \in Tab /\ v.csrf \in {None, tab[b].csrf} /\ v.fallback = tab[b].fallback \cup journal
    BY <1>4, <2>1 DEF Tab
  <2>3. PICK ths : ths = [thread[b] EXCEPT !["load"] = Resting]
    OBVIOUS
  <2>4. ths \in [Roles -> Thread] /\ ths[r] = Resting /\ \A q \in Roles \ {r} : ths[q] = thread[b][q]
    BY <2>3, TabFacts
  <2>5. SetTab(b, v) /\ SetThreads(b, ths) /\ UNCHANGED wire
    BY <1>3, <1>6, <2>1, <2>3 DEF Reconcile, Stop
  <2>6. PICK y : y = wire[b][r]
    OBVIOUS
  <2>7. TabBecomes(b, r, v, ths, y)
    BY <1>1, <1>2, <2>2, <2>4, <2>5, <2>6, SameWire, OldNames, TabFacts DEF TabBecomes, CookieGoesOn, SameOrResting
  <2> QED BY <1>1, <2>4, <2>6, <2>7, RestingOk, TabQuiet
<1> QED BY <1>5, <1>6

LEMMA AfterRevokeIs ==
    ASSUME LoginsInv, NEW b \in Tabs, NEW t \in Tokens, NEW status
    PROVE  /\ AfterRevoke(b, t, status) \in Tab /\ AfterRevoke(b, t, status).csrf \in {None, tab[b].csrf}
           /\ AfterRevoke(b, t, status).fallback \subseteq tab[b].fallback \cup {t}
<1>1. tab[b] \in Tab /\ tab[b].csrf \in Tokens \cup {None} /\ tab[b].fallback \subseteq Tokens
  BY TabType
<1>2. PICK csrf \in {None, tab[b].csrf} : csrf = IF tab[b].csrf = t THEN None ELSE tab[b].csrf
  OBVIOUS
<1>3. PICK notes : notes = IF tab[b].csrf = t THEN tab[b].fallback \cup {t} ELSE tab[b].fallback
  OBVIOUS
<1>4. CASE Revoked(status)
  <2>1. PICK rest : rest = tab[b].fallback \ {t}
    OBVIOUS
  <2>2. AfterRevoke(b, t, status) = [tab[b] EXCEPT !.fallback = rest, !.csrf = csrf]
    BY <1>1, <1>2, <1>4, <2>1 DEF AfterRevoke, Tab
  <2>3. rest \subseteq Tokens /\ rest \subseteq tab[b].fallback /\ csrf \in Tokens \cup {None}
    BY <1>1, <1>2, <2>1
  <2> QED BY <1>1, <1>2, <2>2, <2>3 DEF Tab
<1>5. CASE ~Revoked(status)
  <2>1. AfterRevoke(b, t, status) = [tab[b] EXCEPT !.fallback = notes]
    BY <1>1, <1>3, <1>5 DEF AfterRevoke, Tab
  <2>2. notes \subseteq Tokens /\ notes \subseteq tab[b].fallback \cup {t}
    BY <1>1, <1>3
  <2> QED BY <1>1, <2>1, <2>2 DEF Tab
<1> QED BY <1>4, <1>5

(* A revocation ended: its note goes only if the session is gone. *)
LEMMA RevocationEnds ==
    ASSUME LoginsInv, NEW b \in Tabs, NEW r \in Roles, NEW status \in Status, NEW t, t = thread[b][r].token,
           thread[b][r].at = "wait", Heard(b, r, "revoke", status), Over(b, r), NEW v \in Tab, SetTab(b, v),
           v.csrf \in {None, tab[b].csrf}, v.fallback \subseteq tab[b].fallback \cup {t},
           journal' = Journaled(b, t, status), sealed' = sealed \cup journal', Stop(b, r),
           UNCHANGED <<serverSide, accepted, confirmed, ended>>
    PROVE  LoginsInv'
<1>1. /\ plan' \in [Events -> Nat] /\ jar' \in Tokens \cup {None} /\ CookieGoesOn(b, r)
      /\ wire[b][r] # None /\ wire[b][r].kind = "revoke" /\ ExchangeOk(wire[b][r])
      /\ status # "failed" => wire[b][r].at = "answered" /\ wire[b][r].status = status
  BY HeardIs
<1>2. OnlyWire(b, r, None)
  BY OverIs
<1>3. t \in Tokens /\ ~Unnamed(t) /\ wire[b][r].csrf = t /\ Old(b, r, t)
  BY <1>1, TabFacts, NamedByTab DEF ThreadOk, ExchangeOk, Old
<1>4. PICK ths : ths = [thread[b] EXCEPT ![r] = Resting]
  OBVIOUS
<1>5. ths \in [Roles -> Thread] /\ ths[r] = Resting /\ SetThreads(b, ths) /\ \A q \in Roles \ {r} : ths[q] = thread[b][q]
  BY <1>4, TabFacts DEF Stop
<1>6. TabBecomes(b, r, v, ths, None)
  BY <1>1, <1>2, <1>3, <1>5, OldNames, TabFacts DEF TabBecomes, SameOrResting
<1>7. /\ journal' \subseteq journal \cup {t} /\ sealed' \subseteq sealed \cup {t}
      /\ Revoked(status) => journal' = journal \ {t} /\ sealed' = sealed
      /\ ~Revoked(status) => journal \subseteq journal' /\ (sealed' = sealed \/ t \in journal')
  BY TabFacts DEF Journaled, Removed, Persisted, LoginsInv, GuardInv
<1>8. GuardInv'
  <2>1. journal' \subseteq sealed'
    OBVIOUS
  <2>2. ASSUME NEW u \in sealed', jar' = u, ~Gone(jar)' PROVE u \in journal' \cup accepted'
    <3>1. CASE u \in sealed
      <4>1. jar = u
        BY <1>1, <2>2, <3>1, NamedByTab, CookieStays, TabFacts
      <4>2. ~Gone(u)
        BY <2>2, <3>1, <4>1 DEF Gone, Present, serverSide, store
      <4>3. u \in journal \cup accepted
        BY <3>1, <4>1, <4>2 DEF LoginsInv, GuardInv
      <4>4. Revoked(status) => u # t
        BY <1>1, <1>3, <4>1, <4>2 DEF ExchangeOk, Revoked
      <4> QED BY <1>7, <4>3, <4>4
    <3>2. CASE u \notin sealed
      BY <1>7, <2>2, <3>2
    <3> QED BY <3>1, <3>2
  <2> QED BY <2>1, <2>2 DEF GuardInv
<1>9. OthersGoOn
  BY DEF OthersGoOn
<1>10. journal' \subseteq Tokens /\ sealed' \subseteq Tokens /\ accepted' \subseteq Tokens
  BY <1>3, <1>7, TabFacts
<1>11. \A u \in journal' \cup sealed' \cup accepted' : Old(b, r, u)
  BY <1>3, <1>7, OldNames
<1>12. ThreadOk(r, ths[r], None)'
  BY <1>5, RestingOk
<1> QED BY <1>6, <1>8, <1>9, <1>10, <1>11, <1>12, TabStep

LEMMA HearLoadRevokeStep ==
    ASSUME LoginsInv, NEW b \in Tabs, NEW status \in Status, HearLoadRevoke(b, status)
    PROVE  LoginsInv'
<1> DEFINE r == "load"
<1> USE DEF Roles
<1>1. PICK t : t = thread[b][r].token
  OBVIOUS
<1>2. /\ thread[b][r].at = "wait" /\ Heard(b, r, "revoke", status) /\ Over(b, r) /\ Stop(b, r)
      /\ journal' = Journaled(b, t, status) /\ sealed' = sealed \cup journal'
      /\ UNCHANGED <<serverSide, accepted, confirmed, ended>>
  BY <1>1 DEF HearLoadRevoke, Holds
<1>3. t \in Tokens
  <2>1. wire[b][r] # None /\ wire[b][r].kind = "revoke"
    BY <1>2 DEF Heard
  <2>2. ExchangeOk(wire[b][r]) /\ ThreadOk(r, thread[b][r], wire[b][r]) /\ t \in Tokens \cup {None}
    BY <1>1, <2>1, TabFacts
  <2> QED BY <1>1, <1>2, <2>1, <2>2 DEF ThreadOk, ExchangeOk
<1>4. PICK after : after = AfterRevoke(b, t, status)
  OBVIOUS
<1>5. after \in Tab /\ after.csrf \in {None, tab[b].csrf} /\ after.fallback \subseteq tab[b].fallback \cup {t}
  BY <1>3, <1>4, AfterRevokeIs
<1>6. PICK v : v = IF thread[b][r].current THEN [after EXCEPT !.csrf = None, !.view = "guest"] ELSE after
  OBVIOUS
<1>7. v \in Tab /\ v.csrf \in {None, tab[b].csrf} /\ v.fallback \subseteq tab[b].fallback \cup {t}
  BY <1>5, <1>6 DEF Tab
<1>8. SetTab(b, v)
  BY <1>1, <1>4, <1>6 DEF HearLoadRevoke
<1> QED BY <1>1, <1>2, <1>7, <1>8, RevocationEnds

LEMMA HearRevokeStep ==
    ASSUME LoginsInv, NEW b \in Tabs, NEW r \in Roles, NEW status \in Status, HearRevoke(b, r, status)
    PROVE  LoginsInv'
<1>1. PICK t : t = thread[b][r].token
  OBVIOUS
<1>2. /\ thread[b][r].at = "wait" /\ Heard(b, r, "revoke", status) /\ Over(b, r) /\ Stop(b, r)
      /\ journal' = Journaled(b, t, status) /\ sealed' = sealed \cup journal'
      /\ UNCHANGED <<serverSide, accepted, confirmed, ended>>
  BY <1>1 DEF HearRevoke, Holds
<1>3. t \in Tokens
  <2>1. wire[b][r] # None /\ wire[b][r].kind = "revoke"
    BY <1>2 DEF Heard
  <2>2. ExchangeOk(wire[b][r]) /\ ThreadOk(r, thread[b][r], wire[b][r]) /\ t \in Tokens \cup {None}
    BY <1>1, <2>1, TabFacts
  <2> QED BY <1>1, <1>2, <2>1, <2>2 DEF ThreadOk, ExchangeOk
<1>4. PICK after : after = AfterRevoke(b, t, status)
  OBVIOUS
<1>5. after \in Tab /\ after.csrf \in {None, tab[b].csrf} /\ after.fallback \subseteq tab[b].fallback \cup {t}
  BY <1>3, <1>4, AfterRevokeIs
<1>6. PICK v : v = Shown(after, thread[b][r])
  OBVIOUS
<1>7. v \in Tab /\ v.csrf \in {None, tab[b].csrf} /\ v.fallback \subseteq tab[b].fallback \cup {t}
  <2>1. PICK view \in {"closed", "loading", "guest", "ready", "unavailable"} : view = thread[b][r].then
    BY TabFacts DEF Thread
  <2>2. v = after \/ v = [after EXCEPT !.view = view]
    BY <1>6, <2>1 DEF Shown
  <2>3. /\ [after EXCEPT !.view = view] \in Tab /\ [after EXCEPT !.view = view].csrf = after.csrf
        /\ [after EXCEPT !.view = view].fallback = after.fallback
    BY <1>5, <2>1, ViewIs
  <2> QED BY <1>5, <2>2, <2>3
<1>8. SetTab(b, v)
  BY <1>1, <1>4, <1>6 DEF HearRevoke
<1> QED BY <1>1, <1>2, <1>7, <1>8, RevocationEnds

(* The tab loses its session, and the function that heard so is over, or *)
(* goes on to another step of its own. *)
LEMMA ExpireOrStop ==
    ASSUME LoginsInv, NEW b \in Tabs, NEW r \in Roles, NEW th \in Thread, NEW ths, NEW v \in Tab,
           \/ ths = [ExpiredThreads(b) EXCEPT ![r] = th]
           \/ ths = [thread[b] EXCEPT ![r] = th]
           \/ ths = [Cancelled(b) EXCEPT ![r] = th],
           SetThreads(b, ths), SetTab(b, v) \/ (v = tab[b] /\ UNCHANGED tab),
           Over(b, r), CookieGoesOn(b, r), jar' \in Tokens \cup {None}, plan' \in [Events -> Nat],
           Old(b, r, v.csrf), v.fallback = tab[b].fallback,
           Old(b, r, th.token), th.superseded \subseteq thread[b][r].superseded,
           ThreadOk(r, th, None)', UNCHANGED <<serverSide, journal, ghosts>>
    PROVE  LoginsInv'
<1>1. ths \in [Roles -> Thread] /\ ths[r] = th /\ \A q \in Roles \ {r} : SameOrResting(ths[q], thread[b][q])
  <2>1. PICK old \in {Cancelled(b), ExpiredThreads(b), thread[b]} : ths = [old EXCEPT ![r] = th]
    OBVIOUS
  <2> QED BY <2>1, CancelledIs DEF SameOrResting
<1>2. OnlyWire(b, r, None)
  BY OverIs
<1>3. TabBecomes(b, r, v, ths, None)
  BY <1>1, <1>2, OldNames DEF TabBecomes
<1>4. ThreadOk(r, ths[r], None)'
  BY <1>1 DEF ThreadOk, Finishing, Gone, Present
<1> QED BY <1>3, <1>4, TabQuiet

LEMMA HearLoadCapabilitiesStep ==
    ASSUME LoginsInv, NEW b \in Tabs, NEW status \in Status, HearLoadCapabilities(b, status)
    PROVE  LoginsInv'
<1> DEFINE r == "load"
<1> USE DEF Roles
<1>1. /\ Heard(b, r, "capabilities", status) /\ Over(b, r) /\ UNCHANGED <<serverSide, journal, ghosts>>
  BY DEF HearLoadCapabilities
<1>2. plan' \in [Events -> Nat] /\ jar' \in Tokens \cup {None} /\ CookieGoesOn(b, r)
  BY <1>1, HeardIs
<1>3. Resting \in Thread /\ Old(b, r, Resting.token) /\ Resting.superseded \subseteq thread[b][r].superseded
  BY TabFacts, OldNames
<1>4. ThreadOk(r, Resting, None)'
  BY RestingOk
<1>5. CASE status = "unauthorized"
  <2>1. ExpiredTab(b) \in Tab /\ ExpiredTab(b).csrf = None /\ ExpiredTab(b).fallback = tab[b].fallback
    BY ExpiredIs
  <2>2. PICK view \in {"closed", "loading", "guest", "ready", "unavailable"} :
            view = IF thread[b]["load"].current THEN "guest" ELSE ExpiredTab(b).view
    BY <2>1 DEF Tab
  <2>3. PICK v : v = [ExpiredTab(b) EXCEPT !.view = view]
    OBVIOUS
  <2>4. v \in Tab /\ v.csrf = None /\ v.fallback = tab[b].fallback
    BY <2>1, <2>3, ViewIs
  <2>5. PICK ths : ths = [ExpiredThreads(b) EXCEPT ![r] = Resting]
    OBVIOUS
  <2>6. SetTab(b, v) /\ SetThreads(b, ths)
    BY <1>5, <2>2, <2>3, <2>5 DEF HearLoadCapabilities
  <2> QED BY <1>1, <1>2, <1>3, <1>4, <2>4, <2>5, <2>6, OldNames, ExpireOrStop
<1>6. CASE status # "unauthorized"
  <2>0. tab[b] \in Tab
    BY TabType
  <2>1. PICK view \in {"closed", "loading", "guest", "ready", "unavailable"} :
            view = IF ~thread[b]["load"].current THEN tab[b].view ELSE IF status = "ok" THEN "ready" ELSE "unavailable"
    BY <2>0 DEF Tab
  <2>2. PICK v : v = [tab[b] EXCEPT !.view = view]
    OBVIOUS
  <2>3. v \in Tab /\ v.csrf = tab[b].csrf /\ v.fallback = tab[b].fallback
    BY <2>0, <2>2, ViewIs
  <2>4. PICK ths : ths = [thread[b] EXCEPT ![r] = Resting]
    OBVIOUS
  <2>5. SetTab(b, v) /\ SetThreads(b, ths)
    BY <1>6, <2>1, <2>2, <2>4 DEF HearLoadCapabilities, Stop
  <2> QED BY <1>1, <1>2, <1>3, <1>4, <2>3, <2>4, <2>5, OldNames, ExpireOrStop
<1> QED BY <1>5, <1>6

LEMMA LoginStep ==
    ASSUME LoginsInv, NEW b \in Tabs, NEW r \in Continuations, NEW remember \in BOOLEAN, Login(b, r, remember)
    PROVE  LoginsInv'
<1>1. r \in Roles
  BY DEF Continuations, Roles
<1>2. /\ UNCHANGED <<serverSide, journal, ghosts>> /\ UNCHANGED <<jar, tab>> /\ Send(b, r, "login", None, remember)
      /\ plan' \in [Events -> Nat]
  BY SpendType DEF Login, Events
<1>3. PICK th : th = [Resting EXCEPT !.at = "wait"]
  OBVIOUS
<1>4. th \in Thread /\ th.at = "wait" /\ th.token = None /\ th.superseded = {}
  BY <1>3 DEF Resting, Thread
<1>5. PICK ths : ths = [thread[b] EXCEPT ![r] = th]
  OBVIOUS
<1>6. ths \in [Roles -> Thread] /\ ths[r] = th /\ SetThreads(b, ths) /\ \A q \in Roles \ {r} : ths[q] = thread[b][q]
  BY <1>1, <1>3, <1>4, <1>5, TabFacts DEF Login
<1>7. PICK y \in Exchange : /\ OnlyWire(b, r, y) /\ y # None /\ IsSent(y) /\ ExchangeOk(y)'
                            /\ y.kind = "login" /\ y.cookie = jar' /\ y.csrf = None
  <2>1. PICK kind, csrf : kind = "login" /\ csrf = None
    OBVIOUS
  <2>2. kind \in Kinds /\ csrf \in Tokens \cup {None} /\ Send(b, r, kind, csrf, remember) /\ jar' \in Tokens \cup {None}
        /\ kind # "activate" /\ kind # "revoke"
    BY <1>1, <1>2, <2>1, TabFacts DEF Kinds
  <2> QED BY <1>1, <2>1, <2>2, SendIs
<1>8. PICK v : v = tab[b]
  OBVIOUS
<1>9. TabBecomes(b, r, v, ths, y)
  BY <1>1, <1>2, <1>4, <1>6, <1>7, <1>8, OldNames, TabFacts DEF TabBecomes, CookieGoesOn, SameOrResting
<1>10. ThreadOk(r, ths[r], y)'
  BY <1>4, <1>6, <1>7 DEF ThreadOk, Finishing
<1> QED BY <1>1, <1>2, <1>7, <1>9, <1>10, TabQuiet

LEMMA HearLoginStep ==
    ASSUME LoginsInv, NEW b \in Tabs, NEW r \in Continuations, NEW status \in Status, HearLogin(b, r, status)
    PROVE  LoginsInv'
<1>1. r \in Roles
  BY DEF Continuations, Roles
<1>2. Heard(b, r, "login", status) /\ Over(b, r) /\ UNCHANGED <<serverSide, journal, ghosts>>
  BY DEF HearLogin
<1>3. wire'[b][r] # wire[b][r]
  BY <1>1, <1>2, OverIs DEF Heard
<1>4. /\ plan' \in [Events -> Nat] /\ jar' \in Tokens \cup {None} /\ CookieGoesOn(b, r)
      /\ wire[b][r] # None /\ wire[b][r].kind = "login" /\ wire[b][r] \in Exchange /\ ExchangeOk(wire[b][r])
      /\ status # "failed" => wire[b][r].at = "answered" /\ wire[b][r].status = status
  BY <1>1, <1>2, <1>3, HeardIs
<1>5. CASE status = "ok"
  <2>1. PICK t : t = wire[b][r].token
    OBVIOUS
  <2>2. t # None /\ t \in Tokens /\ Old(b, r, t)
    BY <1>3, <1>4, <1>5, <2>1 DEF ExchangeOk, Exchange, Brought, Old
  <2>3. PICK v : v = [Adopted(b, t) EXCEPT !.view = "loading"]
    OBVIOUS
  <2>4. v \in Tab /\ v.csrf = t /\ v.fallback = tab[b].fallback
    BY <2>2, <2>3, TabType DEF Adopted, Tab
  <2>5. PICK th : th = [Waiting EXCEPT !.at = "seal", !.token = t]
    OBVIOUS
  <2>6. th \in Thread /\ th.at = "seal" /\ th.token = t /\ th.superseded = {}
    BY <2>2, <2>5 DEF Waiting, Resting, Thread
  <2>7. PICK ths : ths = [Cancelled(b) EXCEPT ![r] = th]
    OBVIOUS
  <2>8. SetTab(b, v) /\ SetThreads(b, ths)
    BY <1>5, <2>1, <2>3, <2>5, <2>7 DEF HearLogin
  <2>9. ThreadOk(r, th, None)'
    BY <2>2, <2>6 DEF ThreadOk, Finishing
  <2> QED BY <1>1, <1>2, <1>4, <2>2, <2>4, <2>6, <2>7, <2>8, <2>9, ExpireOrStop
<1>6. CASE status # "ok"
  <2>1. PICK ths, v : ths = [thread[b] EXCEPT ![r] = Resting] /\ v = tab[b]
    OBVIOUS
  <2>2. SetThreads(b, ths) /\ UNCHANGED tab
    BY <1>6, <2>1 DEF HearLogin, Stop
  <2>3. Resting \in Thread /\ Resting.token = None /\ Resting.superseded = {} /\ v \in Tab
    BY <1>1, <2>1, TabFacts
  <2> QED BY <1>1, <1>2, <1>4, <2>1, <2>2, <2>3, OldNames, RestingOk, ExpireOrStop
<1> QED BY <1>5, <1>6

LEMMA SealStep ==
    ASSUME LoginsInv, NEW b \in Tabs, NEW r \in Continuations, Seal(b, r)
    PROVE  LoginsInv'
<1>1. r \in Roles
  BY DEF Continuations, Roles
<1>2. PICK t : t = thread[b][r].token
  OBVIOUS
<1>3. thread[b][r].at = "seal" /\ UNCHANGED <<serverSide, accepted, confirmed, ended>> /\ UNCHANGED jar
  BY DEF Seal, Holds
<1>4. t \in Tokens /\ t # None /\ Old(b, r, t) /\ jar' \in Tokens \cup {None} /\ CookieGoesOn(b, r)
  BY <1>1, <1>2, <1>3, TabFacts, OldNames DEF ThreadOk, CookieGoesOn
<1>5. PICK notes : notes = tab[b].fallback \cup {t}
  OBVIOUS
<1>6. PICK v : v = [tab[b] EXCEPT !.fallback = notes]
  OBVIOUS
<1>7. v \in Tab /\ v.csrf = tab[b].csrf /\ v.fallback = tab[b].fallback \cup {t}
  <2>1. notes \subseteq Tokens
    BY <1>4, <1>5, TabType
  <2> QED BY <1>5, <1>6, <2>1, TabType DEF Tab
<1>8. SetTab(b, v)
  BY <1>2, <1>5, <1>6 DEF Seal
<1>9. CASE /\ journal' = Persisted(t) /\ sealed' = sealed \cup {t} /\ Send(b, r, "activate", t, FALSE)
           /\ SetThreads(b, [thread[b] EXCEPT ![r].at = "wait", ![r].superseded = Markers(b)]) /\ UNCHANGED plan
  <2>1. PICK y \in Exchange : /\ OnlyWire(b, r, y) /\ y # None /\ IsSent(y) /\ ExchangeOk(y)'
                              /\ y.kind = "activate" /\ y.cookie = jar' /\ y.csrf = t
    <3>1. PICK kind, remember : kind = "activate" /\ remember = FALSE
      OBVIOUS
    <3>2. kind \in Kinds /\ remember \in BOOLEAN /\ Send(b, r, kind, t, remember) /\ t \in sealed' /\ kind # "revoke"
      BY <1>9, <3>1 DEF Kinds
    <3> QED BY <1>1, <1>4, <3>1, <3>2, SendIs
  <2>2. PICK old : old = Markers(b)
    OBVIOUS
  <2>3. old \subseteq Tokens /\ \A u \in old : Old(b, r, u)
    BY <1>1, <2>2, TabFacts, OldNames DEF Markers
  <2>4. PICK ths, th : ths = [thread[b] EXCEPT ![r] = th] /\ th = [thread[b][r] EXCEPT !.at = "wait", !.superseded = old]
    OBVIOUS
  <2>5. /\ ths \in [Roles -> Thread] /\ ths[r].at = "wait" /\ ths[r].token = t /\ ths[r].superseded = old
        /\ \A q \in Roles \ {r} : ths[q] = thread[b][q]
        /\ ths = [thread[b] EXCEPT ![r].at = "wait", ![r].superseded = old]
    <3>1. thread[b] \in [Roles -> Thread] /\ thread[b][r] \in Thread
      BY <1>1, TabFacts
    <3>2. th \in Thread /\ th.at = "wait" /\ th.token = t /\ th.superseded = old
      BY <1>2, <2>3, <2>4, <3>1 DEF Thread
    <3>3. ths = [thread[b] EXCEPT ![r].at = "wait", ![r].superseded = old]
      BY <1>1, <2>4, <3>1
    <3> QED BY <1>1, <2>4, <3>1, <3>2, <3>3
  <2>6. SetThreads(b, ths)
    BY <1>9, <2>2, <2>5
  <2>7. TabBecomes(b, r, v, ths, y)
    BY <1>1, <1>4, <1>7, <1>8, <1>9, <2>1, <2>3, <2>5, <2>6, OldNames, TabFacts DEF TabBecomes, SameOrResting
  <2>8. /\ journal' = journal \cup {t} /\ accepted' = accepted
        /\ journal' \subseteq Tokens /\ sealed' \subseteq Tokens /\ accepted' \subseteq Tokens
    BY <1>1, <1>3, <1>4, <1>9, TabFacts DEF Persisted
  <2>9. \A u \in journal' \cup sealed' \cup accepted' : Old(b, r, u)
    <3>1. \A u \in journal' \cup sealed' \cup accepted' : u = t \/ u \in tab[b].fallback \cup journal \cup sealed \cup accepted
      BY <1>9, <2>8
    <3> QED BY <1>1, <1>4, <3>1, OldNames
  <2>10. GuardInv'
    <3>1. Gone(jar)' <=> Gone(jar)
      BY <1>3 DEF Gone, Present, serverSide, store
    <3> QED BY <1>3, <1>9, <2>8, <3>1 DEF LoginsInv, GuardInv
  <2>11. ThreadOk(r, ths[r], y)'
    <3>1. y.cookie = y.csrf => \A u \in old \ {t} : jar' # u
      BY <2>1
    <3>2. r # "load" /\ y # None /\ ths[r].at = "wait" /\ ths[r].token = t
      BY <2>1, <2>5 DEF Continuations
    <3> QED BY <1>4, <2>1, <2>5, <3>1, <3>2 DEF ThreadOk, Finishing
  <2>12. OthersGoOn
    BY <1>3, <1>9 DEF OthersGoOn
  <2> QED BY <1>1, <2>1, <2>7, <2>8, <2>9, <2>10, <2>11, <2>12, TabStep
<1>10. CASE Spend("unsealed") /\ Resume(b, r, "revoke") /\ UNCHANGED <<journal, sealed, wire>>
  <2>1. PICK ths, y : ths = [thread[b] EXCEPT ![r].at = "revoke"] /\ y = wire[b][r]
    OBVIOUS
  <2>2. /\ ths \in [Roles -> Thread] /\ ths[r].at = "revoke" /\ ths[r].token = t /\ ths[r].superseded = thread[b][r].superseded
        /\ SetThreads(b, ths) /\ \A q \in Roles \ {r} : ths[q] = thread[b][q]
    BY <1>1, <1>2, <1>10, <2>1, TabFacts DEF Thread, Resume
  <2>3. plan' \in [Events -> Nat]
    BY <1>10, SpendType DEF Events
  <2>4. TabBecomes(b, r, v, ths, y)
    BY <1>1, <1>4, <1>7, <1>8, <1>10, <2>1, <2>2, <2>3, SameWire, OldNames, TabFacts DEF TabBecomes, SameOrResting
  <2>5. ThreadOk(r, ths[r], y)'
    BY <1>4, <2>2 DEF ThreadOk, Finishing
  <2>6. UNCHANGED <<serverSide, journal, ghosts>>
    BY <1>3, <1>10 DEF ghosts
  <2> QED BY <1>1, <2>1, <2>4, <2>5, <2>6, TabQuiet
<1> QED BY <1>2, <1>9, <1>10 DEF Seal

LEMMA HearActivateStep ==
    ASSUME LoginsInv, NEW b \in Tabs, NEW r \in Continuations, NEW status \in Status, HearActivate(b, r, status)
    PROVE  LoginsInv'
<1>1. r \in Roles /\ r # "load"
  BY DEF Continuations, Roles
<1>2. /\ Heard(b, r, "activate", status) /\ UNCHANGED <<serverSide, journal, ghosts>> /\ UNCHANGED tab
      /\ thread[b][r].at = "wait"
  BY DEF HearActivate, Holds
<1>3. /\ plan' \in [Events -> Nat] /\ jar' \in Tokens \cup {None} /\ CookieGoesOn(b, r)
      /\ wire[b][r] # None /\ wire[b][r].kind = "activate" /\ ExchangeOk(wire[b][r])
      /\ status # "failed" => wire[b][r].at = "answered" /\ wire[b][r].status = status
  BY <1>1, <1>2, HeardIs
<1>4. PICK v, th : v = tab[b] /\ th = thread[b][r]
  OBVIOUS
<1>5. v \in Tab /\ th \in Thread /\ th.token # None /\ th.token \in Tokens /\ ThreadOk(r, th, wire[b][r])
  BY <1>1, <1>2, <1>3, <1>4, TabFacts DEF ThreadOk
<1>6. CASE status = "ok" /\ thread[b][r].current
  <2>1. Fetch(b, r, "capabilities") /\ UNCHANGED thread
    BY <1>6 DEF HearActivate
  <2>2. PICK y \in Exchange : /\ OnlyWire(b, r, y) /\ y # None /\ IsSent(y) /\ ExchangeOk(y)'
                              /\ y.kind = "capabilities" /\ y.cookie = jar' /\ y.csrf = tab[b].csrf
    BY <1>1, <1>3, <2>1, FetchIs DEF Kinds
  <2>3. PICK ths : ths = thread[b]
    OBVIOUS
  <2>4. TabBecomes(b, r, v, ths, y)
    BY <1>1, <1>2, <1>3, <1>4, <2>1, <2>2, <2>3, OldNames, TabFacts DEF TabBecomes, SameOrResting
  <2>5. \A u \in th.superseded \ {th.token} : jar' # u
    <3>1. Finishing(th, wire[b][r])
      BY <1>2, <1>3, <1>4, <1>6 DEF ExchangeOk, Finishing
    <3>2. \A u \in th.superseded \ {th.token} : jar # u
      BY <1>5, <3>1 DEF ThreadOk
    <3>3. \A u \in th.superseded : u \in Tokens /\ ~Unnamed(u)
      BY <1>1, <1>4, TabFacts, NamedByTab
    <3> QED BY <1>1, <1>3, <3>2, <3>3, CookieStays
  <2>6. ThreadOk(r, ths[r], y)'
    <3>1. ths[r] = th
      BY <1>4, <2>3
    <3>2. ThreadOk(r, th, y)'
      BY <1>1, <1>2, <1>4, <1>5, <2>2, <2>5 DEF ThreadOk
    <3> QED BY <3>1, <3>2
  <2> QED BY <1>1, <1>2, <2>2, <2>4, <2>6, TabQuiet
<1>7. CASE ~(status = "ok" /\ thread[b][r].current)
  <2>1. Over(b, r) /\ Resume(b, r, "revoke")
    BY <1>7 DEF HearActivate
  <2>2. PICK new : new = [th EXCEPT !.at = "revoke"]
    OBVIOUS
  <2>3. new \in Thread /\ new.at = "revoke" /\ new.token = th.token /\ new.superseded = th.superseded
    BY <1>5, <2>2 DEF Thread
  <2>4. PICK ths : ths = [thread[b] EXCEPT ![r] = new]
    OBVIOUS
  <2>5. SetThreads(b, ths)
    BY <1>1, <1>4, <2>1, <2>2, <2>4, TabFacts DEF Resume
  <2>6. ThreadOk(r, new, None)'
    BY <1>5, <2>3 DEF ThreadOk, Finishing
  <2> QED BY <1>1, <1>2, <1>3, <1>4, <1>5, <2>1, <2>3, <2>4, <2>5, <2>6, OldNames, ExpireOrStop
<1> QED BY <1>6, <1>7

LEMMA AbortStep ==
    ASSUME LoginsInv, NEW b \in Tabs, NEW r \in Continuations, Abort(b, r)
    PROVE  LoginsInv'
<1>1. r \in Roles /\ r # "load"
  BY DEF Continuations, Roles
<1>2. /\ thread[b][r].at = "wait" /\ wire[b][r].kind = "capabilities" /\ Over(b, r) /\ Resume(b, r, "revoke")
      /\ UNCHANGED <<serverSide, journal, ghosts>> /\ UNCHANGED <<jar, tab, plan>>
  BY DEF Abort, Holds
<1>3. PICK v, th : v = tab[b] /\ th = thread[b][r]
  OBVIOUS
<1>4. v \in Tab /\ th \in Thread /\ th.token # None /\ jar' \in Tokens \cup {None} /\ CookieGoesOn(b, r) /\ plan' \in [Events -> Nat]
  BY <1>1, <1>2, <1>3, TabFacts DEF ThreadOk, CookieGoesOn
<1>5. PICK new : new = [th EXCEPT !.at = "revoke"]
  OBVIOUS
<1>6. new \in Thread /\ new.at = "revoke" /\ new.token = th.token /\ new.superseded = th.superseded
  BY <1>4, <1>5 DEF Thread
<1>7. PICK ths : ths = [thread[b] EXCEPT ![r] = new]
  OBVIOUS
<1>8. SetThreads(b, ths)
  BY <1>1, <1>2, <1>3, <1>5, <1>7, TabFacts DEF Resume
<1>9. ThreadOk(r, new, None)'
  BY <1>4, <1>6 DEF ThreadOk, Finishing
<1> QED BY <1>1, <1>2, <1>3, <1>4, <1>6, <1>7, <1>8, <1>9, OldNames, ExpireOrStop

LEMMA HearCapabilitiesStep ==
    ASSUME LoginsInv, NEW b \in Tabs, NEW r \in Continuations, NEW status \in Status, HearCapabilities(b, r, status)
    PROVE  LoginsInv'
<1>1. r \in Roles /\ r # "load"
  BY DEF Continuations, Roles
<1>2. /\ Heard(b, r, "capabilities", status) /\ Over(b, r) /\ UNCHANGED <<serverSide, journal, ghosts>>
      /\ thread[b][r].at = "wait"
  BY DEF HearCapabilities, Holds
<1>3. /\ plan' \in [Events -> Nat] /\ jar' \in Tokens \cup {None} /\ CookieGoesOn(b, r)
      /\ wire[b][r] # None /\ wire[b][r].kind = "capabilities"
  BY <1>1, <1>2, HeardIs
<1>4. PICK th : th = thread[b][r]
  OBVIOUS
<1>5. th \in Thread /\ th.token # None /\ th.token \in Tokens /\ ThreadOk(r, th, wire[b][r]) /\ Old(b, r, th.token)
  BY <1>1, <1>2, <1>3, <1>4, TabFacts, OldNames DEF ThreadOk
<1>6. CASE status = "ok"
  <2>1. PICK v, new : v = tab[b] /\ new = [th EXCEPT !.at = "accept"]
    OBVIOUS
  <2>2. new \in Thread /\ new.at = "accept" /\ new.token = th.token /\ new.superseded = th.superseded
    BY <1>5, <2>1 DEF Thread
  <2>3. PICK ths : ths = [thread[b] EXCEPT ![r] = new]
    OBVIOUS
  <2>4. SetThreads(b, ths) /\ UNCHANGED tab
    BY <1>1, <1>4, <1>6, <2>1, <2>3, TabFacts DEF HearCapabilities, Resume
  <2>5. \A u \in th.superseded \ {th.token} : jar' # u
    <3>1. Finishing(th, wire[b][r])
      BY <1>2, <1>3, <1>4 DEF Finishing
    <3>2. \A u \in th.superseded \ {th.token} : jar # u
      BY <1>5, <3>1 DEF ThreadOk
    <3>3. \A u \in th.superseded : u \in Tokens /\ ~Unnamed(u)
      BY <1>1, <1>4, TabFacts, NamedByTab
    <3> QED BY <1>1, <1>3, <3>2, <3>3, CookieStays
  <2>6. ThreadOk(r, new, None)'
    BY <1>5, <2>2, <2>5 DEF ThreadOk
  <2>7. v \in Tab
    BY <2>1, TabType
  <2> QED BY <1>1, <1>2, <1>3, <1>4, <1>5, <2>1, <2>2, <2>3, <2>4, <2>6, <2>7, OldNames, ExpireOrStop
<1>7. CASE status = "unauthorized"
  <2>1. ExpiredTab(b) \in Tab /\ ExpiredTab(b).csrf = None /\ ExpiredTab(b).fallback = tab[b].fallback
    BY ExpiredIs
  <2>2. PICK v, old : v = ExpiredTab(b) /\ old = ExpiredThreads(b)
    OBVIOUS
  <2>3. old \in [Roles -> Thread] /\ old[r] \in Thread /\ old[r].token = th.token /\ old[r].superseded = th.superseded
    BY <1>1, <1>4, <2>2, CancelledIs
  <2>4. PICK new : new = [old[r] EXCEPT !.at = "revoke"]
    OBVIOUS
  <2>5. new \in Thread /\ new.at = "revoke" /\ new.token = th.token /\ new.superseded = th.superseded
    BY <2>3, <2>4 DEF Thread
  <2>6. PICK ths : ths = [ExpiredThreads(b) EXCEPT ![r] = new]
    OBVIOUS
  <2>7. SetTab(b, v) /\ SetThreads(b, ths)
    <3>1. SetTab(b, v) /\ SetThreads(b, [ExpiredThreads(b) EXCEPT ![r].at = "revoke"])
      BY <1>7, <2>2 DEF HearCapabilities
    <3>2. ths = [ExpiredThreads(b) EXCEPT ![r].at = "revoke"]
      BY <1>1, <2>2, <2>3, <2>4, <2>6
    <3> QED BY <3>1, <3>2
  <2>8. ThreadOk(r, new, None)'
    BY <1>5, <2>5 DEF ThreadOk, Finishing
  <2>9. v \in Tab /\ Old(b, r, v.csrf) /\ v.fallback = tab[b].fallback /\ new.superseded \subseteq thread[b][r].superseded
    BY <1>1, <1>4, <2>1, <2>2, <2>5, OldNames
  <2> QED BY <1>1, <1>2, <1>3, <1>5, <2>5, <2>6, <2>7, <2>8, <2>9, ExpireOrStop
<1>8. CASE status \notin {"ok", "unauthorized"}
  <2>1. PICK v, new : v = tab[b] /\ new = [th EXCEPT !.at = "revoke", !.then = "unavailable"]
    OBVIOUS
  <2>2. new \in Thread /\ new.at = "revoke" /\ new.token = th.token /\ new.superseded = th.superseded
    BY <1>5, <2>1 DEF Thread
  <2>3. PICK ths : ths = [thread[b] EXCEPT ![r] = new]
    OBVIOUS
  <2>4. SetThreads(b, ths) /\ UNCHANGED tab
    <3>1. SetThreads(b, [thread[b] EXCEPT ![r].at = "revoke", ![r].then = "unavailable"]) /\ UNCHANGED tab
      BY <1>8 DEF HearCapabilities
    <3>2. ths = [thread[b] EXCEPT ![r].at = "revoke", ![r].then = "unavailable"]
      BY <1>1, <1>4, <2>1, <2>3, TabType
    <3> QED BY <3>1, <3>2
  <2>5. ThreadOk(r, new, None)'
    BY <1>5, <2>2 DEF ThreadOk, Finishing
  <2>6. v \in Tab
    BY <2>1, TabType
  <2> QED BY <1>1, <1>2, <1>3, <1>4, <1>5, <2>1, <2>2, <2>3, <2>4, <2>5, <2>6, OldNames, ExpireOrStop
<1> QED BY <1>6, <1>7, <1>8

LEMMA AcceptStep ==
    ASSUME LoginsInv, NEW b \in Tabs, NEW r \in Continuations, Accept(b, r)
    PROVE  LoginsInv'
<1>1. r \in Roles /\ r # "load"
  BY DEF Continuations, Roles
<1>2. PICK th : th = thread[b][r]
  OBVIOUS
<1>3. PICK done : done = th.superseded \cup {th.token}
  OBVIOUS
<1>4. /\ thread[b][r].at = "accept" /\ journal' = journal \ done /\ accepted' = accepted \cup {th.token} /\ Resume(b, r, "finish")
      /\ SetTab(b, [tab[b] EXCEPT !.fallback = @ \ done])
      /\ UNCHANGED <<serverSide, jar, wire, plan, sealed, confirmed, ended>>
  BY <1>2, <1>3 DEF Accept, Removed, Holds
<1>5. /\ th \in Thread /\ th.token # None /\ th.token \in Tokens /\ Old(b, r, th.token)
      /\ \A u \in th.superseded \ {th.token} : jar # u
  BY <1>1, <1>2, <1>4, TabFacts, OldNames DEF ThreadOk, Finishing
<1>6. PICK notes : notes = tab[b].fallback \ done
  OBVIOUS
<1>7. PICK v : v = [tab[b] EXCEPT !.fallback = notes]
  OBVIOUS
<1>8. v \in Tab /\ v.csrf = tab[b].csrf /\ v.fallback \subseteq tab[b].fallback /\ SetTab(b, v)
  <2>1. notes \subseteq Tokens /\ notes \subseteq tab[b].fallback /\ tab[b] \in Tab
    BY <1>6, TabType
  <2>2. SetTab(b, v)
    BY <1>4, <1>6, <1>7
  <2> QED BY <1>7, <2>1, <2>2 DEF Tab
<1>9. PICK ths, y : ths = [thread[b] EXCEPT ![r].at = "finish"] /\ y = wire[b][r]
  OBVIOUS
<1>10. /\ ths \in [Roles -> Thread] /\ ths[r].at = "finish" /\ ths[r].token = th.token /\ ths[r].superseded = th.superseded
       /\ SetThreads(b, ths) /\ \A q \in Roles \ {r} : ths[q] = thread[b][q]
  BY <1>1, <1>2, <1>4, <1>9, TabFacts DEF Thread, Resume
<1>11. TabBecomes(b, r, v, ths, y)
  BY <1>1, <1>2, <1>4, <1>8, <1>9, <1>10, SameWire, OldNames, TabFacts DEF TabBecomes, SameOrResting, CookieGoesOn
<1>12. GuardInv'
  <2>1. Gone(jar)' <=> Gone(jar)
    BY <1>4 DEF Gone, Present, serverSide, store
  <2>2. jar \in done => jar = th.token
    BY <1>3, <1>5
  <2> QED BY <1>4, <2>1, <2>2 DEF LoginsInv, GuardInv
<1>13. ThreadOk(r, ths[r], y)'
  BY <1>5, <1>10 DEF ThreadOk, Finishing
<1>14. OthersGoOn /\ journal' \subseteq Tokens /\ sealed' \subseteq Tokens /\ accepted' \subseteq Tokens
  BY <1>1, <1>4, <1>5, TabFacts DEF OthersGoOn
<1>15. \A u \in journal' \cup sealed' \cup accepted' : Old(b, r, u)
  <2>1. \A u \in journal' \cup sealed' \cup accepted' : u = th.token \/ u \in tab[b].fallback \cup journal \cup sealed \cup accepted
    BY <1>4
  <2> QED BY <1>1, <1>5, <2>1, OldNames
<1> QED BY <1>1, <1>9, <1>11, <1>12, <1>13, <1>14, <1>15, TabStep

LEMMA FinishStep ==
    ASSUME LoginsInv, NEW b \in Tabs, NEW r \in Continuations, Finish(b, r)
    PROVE  LoginsInv'
<1>1. r \in Roles /\ r # "load"
  BY DEF Continuations, Roles
<1>2. thread[b][r].at = "finish" /\ UNCHANGED <<serverSide, jar, journal, wire, plan, ghosts>>
  BY DEF Finish, Holds
<1>3. PICK y : y = wire[b][r]
  OBVIOUS
<1>4. thread[b][r].token # None
  BY <1>1, <1>2, TabFacts DEF ThreadOk
<1>5. CASE thread[b][r].current
  <2>1. PICK v, ths : v = [tab[b] EXCEPT !.view = "ready"] /\ ths = [thread[b] EXCEPT ![r] = Resting]
    OBVIOUS
  <2>2. v \in Tab /\ v.csrf = tab[b].csrf /\ v.fallback = tab[b].fallback
    <3>1. tab[b] \in Tab
      BY TabType
    <3> QED BY <2>1, <3>1, ViewIs
  <2>3. ths \in [Roles -> Thread] /\ ths[r] = Resting /\ \A q \in Roles \ {r} : ths[q] = thread[b][q]
    BY <1>1, <2>1, TabFacts
  <2>4. SetTab(b, v) /\ SetThreads(b, ths)
    BY <1>5, <2>1 DEF Finish, Stop
  <2>5. TabBecomes(b, r, v, ths, y)
    BY <1>1, <1>2, <1>3, <2>2, <2>3, <2>4, SameWire, OldNames, TabFacts DEF TabBecomes, SameOrResting, CookieGoesOn
  <2> QED BY <1>1, <1>2, <1>3, <2>3, <2>5, RestingOk, TabQuiet
<1>6. CASE ~thread[b][r].current
  <2>1. PICK v, ths : v = tab[b] /\ ths = [thread[b] EXCEPT ![r].at = "revoke"]
    OBVIOUS
  <2>2. /\ ths \in [Roles -> Thread] /\ ths[r].at = "revoke" /\ ths[r].token = thread[b][r].token
        /\ ths[r].superseded = thread[b][r].superseded /\ \A q \in Roles \ {r} : ths[q] = thread[b][q]
    BY <1>1, <2>1, TabFacts DEF Thread
  <2>3. UNCHANGED tab /\ SetThreads(b, ths)
    BY <1>6, <2>1 DEF Finish, Resume
  <2>4. TabBecomes(b, r, v, ths, y)
    BY <1>1, <1>2, <1>3, <2>1, <2>2, <2>3, SameWire, OldNames, TabFacts DEF TabBecomes, SameOrResting, CookieGoesOn
  <2>5. ThreadOk(r, ths[r], y)'
    BY <1>4, <2>2 DEF ThreadOk, Finishing
  <2> QED BY <1>1, <1>2, <1>3, <2>4, <2>5, TabQuiet
<1> QED BY <1>5, <1>6

LEMMA RevokeStep ==
    ASSUME LoginsInv, NEW b \in Tabs, NEW r \in Continuations, Revoke(b, r)
    PROVE  LoginsInv'
<1>1. r \in Roles /\ r # "load"
  BY DEF Continuations, Roles
<1>2. thread[b][r].at = "revoke" /\ UNCHANGED <<serverSide, journal, ghosts>> /\ UNCHANGED <<jar, plan>>
  BY DEF Revoke, Holds
<1>3. thread[b][r].token # None /\ jar' \in Tokens \cup {None}
  BY <1>1, <1>2, TabFacts DEF ThreadOk
<1>4. CASE tab[b].csrf = thread[b][r].token
  <2>1. Fetch(b, r, "revoke") /\ Resume(b, r, "wait") /\ UNCHANGED tab
    BY <1>4 DEF Revoke
  <2>2. PICK y \in Exchange : /\ OnlyWire(b, r, y) /\ y # None /\ IsSent(y) /\ ExchangeOk(y)'
                              /\ y.kind = "revoke" /\ y.cookie = jar' /\ y.csrf = tab[b].csrf
    BY <1>1, <1>3, <1>4, <2>1, FetchIs DEF Kinds
  <2>3. PICK v, ths : v = tab[b] /\ ths = [thread[b] EXCEPT ![r].at = "wait"]
    OBVIOUS
  <2>4. /\ ths \in [Roles -> Thread] /\ ths[r].at = "wait" /\ ths[r].token = thread[b][r].token
        /\ ths[r].superseded = thread[b][r].superseded /\ SetThreads(b, ths) /\ \A q \in Roles \ {r} : ths[q] = thread[b][q]
    BY <1>1, <2>1, <2>3, TabFacts DEF Thread, Resume
  <2>5. TabBecomes(b, r, v, ths, y)
    BY <1>1, <1>2, <2>1, <2>2, <2>3, <2>4, OldNames, TabFacts DEF TabBecomes, SameOrResting, CookieGoesOn
  <2>6. ThreadOk(r, ths[r], y)'
    <3>1. y.csrf = ths[r].token
      BY <1>4, <2>2, <2>4
    <3> QED BY <1>1, <2>2, <2>4, <3>1 DEF ThreadOk, Finishing
  <2> QED BY <1>1, <1>2, <2>2, <2>5, <2>6, TabQuiet
<1>5. CASE tab[b].csrf # thread[b][r].token
  <2>1. PICK v, ths, y : v = Shown(tab[b], thread[b][r]) /\ ths = [thread[b] EXCEPT ![r] = Resting] /\ y = wire[b][r]
    OBVIOUS
  <2>2. SetTab(b, v) /\ SetThreads(b, ths) /\ UNCHANGED wire
    BY <1>5, <2>1 DEF Revoke, Stop
  <2>3. v \in Tab /\ v.csrf = tab[b].csrf /\ v.fallback = tab[b].fallback
    <3>1. tab[b] \in Tab /\ thread[b][r].then \in {"closed", "loading", "guest", "ready", "unavailable"}
      BY <1>1, TabFacts DEF Thread
    <3>2. PICK view \in {"closed", "loading", "guest", "ready", "unavailable"} : view = thread[b][r].then
      BY <3>1
    <3>3. v = tab[b] \/ v = [tab[b] EXCEPT !.view = view]
      BY <2>1, <3>2 DEF Shown
    <3>4. /\ [tab[b] EXCEPT !.view = view] \in Tab /\ [tab[b] EXCEPT !.view = view].csrf = tab[b].csrf
          /\ [tab[b] EXCEPT !.view = view].fallback = tab[b].fallback
      BY <3>1, ViewIs
    <3> QED BY <3>1, <3>3, <3>4
  <2>4. ths \in [Roles -> Thread] /\ ths[r] = Resting /\ \A q \in Roles \ {r} : ths[q] = thread[b][q]
    BY <1>1, <2>1, TabFacts
  <2>5. TabBecomes(b, r, v, ths, y)
    BY <1>1, <1>2, <2>1, <2>2, <2>3, <2>4, SameWire, OldNames, TabFacts DEF TabBecomes, SameOrResting, CookieGoesOn
  <2> QED BY <1>1, <1>2, <2>1, <2>4, <2>5, RestingOk, TabQuiet
<1> QED BY <1>4, <1>5

LEMMA OperationStep ==
    ASSUME LoginsInv, NEW b \in Tabs, NEW r \in Roles, Operation(b, r)
    PROVE  LoginsInv'
<1>1. /\ r \in {"work", "logout"} /\ r \notin Continuations /\ r # "load" /\ UNCHANGED <<serverSide, journal, ghosts>>
      /\ UNCHANGED <<jar, tab>> /\ Spend(r) /\ Fetch(b, r, r)
  BY DEF Operation, Continuations
<1>2. plan' \in [Events -> Nat] /\ jar' \in Tokens \cup {None}
  BY <1>1, SpendType, TabFacts DEF Events
<1>3. PICK y \in Exchange : /\ OnlyWire(b, r, y) /\ y # None /\ IsSent(y) /\ ExchangeOk(y)'
                            /\ y.kind = r /\ y.cookie = jar' /\ y.csrf = tab[b].csrf
  <2>1. PICK kind : kind = r
    OBVIOUS
  <2>2. kind \in Kinds \ {"activate"} /\ kind # "revoke" /\ Fetch(b, r, kind)
    BY <1>1, <2>1 DEF Kinds
  <2> QED BY <1>2, <2>1, <2>2, FetchIs
<1>4. PICK v, ths : v = tab[b] /\ ths = [IF r = "logout" THEN Cancelled(b) ELSE thread[b] EXCEPT ![r] = Waiting]
  OBVIOUS
<1>5. /\ ths \in [Roles -> Thread] /\ ths[r] = Waiting /\ Waiting.token = None /\ Waiting.superseded = {} /\ Waiting.at = "wait"
      /\ \A q \in Roles \ {r} : SameOrResting(ths[q], thread[b][q])
  <2>1. Waiting \in Thread /\ Waiting.token = None /\ Waiting.superseded = {} /\ Waiting.at = "wait"
    BY DEF Waiting, Resting, Thread
  <2>2. PICK old \in {Cancelled(b), ExpiredThreads(b), thread[b]} : ths = [old EXCEPT ![r] = Waiting]
    BY <1>4
  <2> QED BY <2>1, <2>2, CancelledIs DEF SameOrResting
<1>6. SetThreads(b, ths)
  BY <1>4 DEF Operation
<1>7. TabBecomes(b, r, v, ths, y)
  BY <1>1, <1>2, <1>3, <1>4, <1>5, <1>6, OldNames, TabFacts DEF TabBecomes, CookieGoesOn
<1>8. ThreadOk(r, ths[r], y)'
  BY <1>1, <1>3, <1>5 DEF ThreadOk, Finishing
<1> QED BY <1>1, <1>3, <1>7, <1>8, TabQuiet

LEMMA HearOperationStep ==
    ASSUME LoginsInv, NEW b \in Tabs, NEW r \in Roles, NEW status \in Status, HearOperation(b, r, status)
    PROVE  LoginsInv'
<1>1. /\ r \in {"work", "logout"} /\ r \notin Continuations /\ r # "load" /\ UNCHANGED <<serverSide, journal, ghosts>>
      /\ thread[b][r].at = "wait" /\ Heard(b, r, r, status)
  BY DEF HearOperation, Continuations, Holds
<1>2. plan' \in [Events -> Nat] /\ jar' \in Tokens \cup {None} /\ CookieGoesOn(b, r)
  <2>1. PICK kind : kind = r
    OBVIOUS
  <2>2. Heard(b, r, kind, status) /\ kind # "login"
    BY <1>1, <2>1
  <2> QED BY <2>2, HeardIs
<1>3. tab[b] \in Tab /\ thread[b][r] \in Thread
  BY TabFacts
<1>4. CASE status = "csrf" /\ ~thread[b][r].retried
  <2>1. Fetch(b, r, "session") /\ UNCHANGED tab
    BY <1>4 DEF HearOperation
  <2>2. PICK y \in Exchange : /\ OnlyWire(b, r, y) /\ y # None /\ IsSent(y) /\ ExchangeOk(y)'
                              /\ y.kind = "session" /\ y.cookie = jar' /\ y.csrf = tab[b].csrf
    BY <1>2, <2>1, FetchIs DEF Kinds
  <2>3. PICK v, ths : v = tab[b] /\ ths = [thread[b] EXCEPT ![r].retried = TRUE]
    OBVIOUS
  <2>4. /\ ths \in [Roles -> Thread] /\ ths[r].at = "wait" /\ ths[r].token = thread[b][r].token
        /\ ths[r].superseded = thread[b][r].superseded /\ \A q \in Roles \ {r} : ths[q] = thread[b][q]
    <3>1. thread[b] \in [Roles -> Thread]
      BY TabType
    <3>2. PICK th : th = [thread[b][r] EXCEPT !.retried = TRUE]
      OBVIOUS
    <3>3. th \in Thread /\ th.at = "wait" /\ th.token = thread[b][r].token /\ th.superseded = thread[b][r].superseded
      BY <1>1, <1>3, <3>2 DEF Thread
    <3>4. ths = [thread[b] EXCEPT ![r] = th]
      BY <2>3, <3>1, <3>2
    <3> QED BY <3>1, <3>3, <3>4
  <2>5. SetThreads(b, ths)
    BY <1>4, <2>3 DEF HearOperation
  <2>6. TabBecomes(b, r, v, ths, y)
    BY <1>2, <1>3, <2>1, <2>2, <2>3, <2>4, <2>5, OldNames, TabFacts DEF TabBecomes, SameOrResting
  <2>7. ThreadOk(r, ths[r], y)'
    BY <1>1, <2>2, <2>4 DEF ThreadOk, Finishing
  <2> QED BY <1>1, <2>2, <2>6, <2>7, TabQuiet
<1>5. CASE ~(status = "csrf" /\ ~thread[b][r].retried)
  <2>1. Over(b, r)
    BY <1>5 DEF HearOperation
  <2>2. SUFFICES \E v, ths : /\ v \in Tab /\ v.csrf \in {None, tab[b].csrf} /\ v.fallback = tab[b].fallback
                             /\ SetTab(b, v) \/ (v = tab[b] /\ UNCHANGED tab)
                             /\ SetThreads(b, ths)
                             /\ \/ ths = [ExpiredThreads(b) EXCEPT ![r] = Resting]
                                \/ ths = [thread[b] EXCEPT ![r] = Resting]
    <3>1. PICK v, ths : /\ v \in Tab /\ v.csrf \in {None, tab[b].csrf} /\ v.fallback = tab[b].fallback
                        /\ SetTab(b, v) \/ (v = tab[b] /\ UNCHANGED tab)
                        /\ SetThreads(b, ths)
                        /\ \/ ths = [ExpiredThreads(b) EXCEPT ![r] = Resting]
                           \/ ths = [thread[b] EXCEPT ![r] = Resting]
      BY <2>2
    <3>2. Resting \in Thread /\ Resting.superseded \subseteq thread[b][r].superseded /\ Old(b, r, Resting.token) /\ Old(b, r, v.csrf)
      BY <3>1, TabFacts, OldNames
    <3>3. ThreadOk(r, Resting, None)'
      BY RestingOk
    <3> QED BY <1>1, <1>2, <2>1, <3>1, <3>2, <3>3, ExpireOrStop
  <2>3. ASSUME NEW u \in Tab
        PROVE  /\ [u EXCEPT !.view = "guest"] \in Tab /\ [u EXCEPT !.view = "guest"].csrf = u.csrf
               /\ [u EXCEPT !.view = "guest"].fallback = u.fallback
    BY DEF Tab
  <2>4. CASE status = "ok"
    <3>1. PICK w : w = [tab[b] EXCEPT !.csrf = None]
      OBVIOUS
    <3>2. w \in Tab /\ w.csrf = None /\ w.fallback = tab[b].fallback
      BY <1>3, <3>1 DEF Tab
    <3>3. PICK v, ths : v = (IF r = "logout" THEN [w EXCEPT !.view = "guest"] ELSE tab[b])
                        /\ ths = [thread[b] EXCEPT ![r] = Resting]
      OBVIOUS
    <3>4. v \in Tab /\ v.csrf \in {None, tab[b].csrf} /\ v.fallback = tab[b].fallback
      BY <1>3, <2>3, <3>2, <3>3
    <3>5. SetTab(b, v) /\ SetThreads(b, ths)
      BY <1>5, <2>4, <3>1, <3>3 DEF HearOperation, Stop
    <3> QED BY <3>3, <3>4, <3>5
  <2>5. CASE status = "unauthorized"
    <3>1. PICK w : w = ExpiredTab(b)
      OBVIOUS
    <3>2. w \in Tab /\ w.csrf = None /\ w.fallback = tab[b].fallback
      BY <3>1, ExpiredIs
    <3>3. PICK v, ths : v = (IF r = "logout" THEN [w EXCEPT !.view = "guest"] ELSE w)
                        /\ ths = [ExpiredThreads(b) EXCEPT ![r] = Resting]
      OBVIOUS
    <3>4. v \in Tab /\ v.csrf \in {None, tab[b].csrf} /\ v.fallback = tab[b].fallback
      BY <2>3, <3>2, <3>3
    <3>5. SetTab(b, v) /\ SetThreads(b, ths)
      BY <1>5, <2>5, <3>1, <3>3 DEF HearOperation
    <3> QED BY <3>3, <3>4, <3>5
  <2>6. CASE status \notin {"ok", "unauthorized"}
    <3>1. SetThreads(b, [thread[b] EXCEPT ![r] = Resting]) /\ UNCHANGED tab
      BY <1>5, <2>6 DEF HearOperation, Stop
    <3> QED BY <1>3, <3>1
  <2> QED BY <2>4, <2>5, <2>6
<1> QED BY <1>4, <1>5

LEMMA HearRetryStep ==
    ASSUME LoginsInv, NEW b \in Tabs, NEW r \in Roles, NEW status \in Status, HearRetry(b, r, status)
    PROVE  LoginsInv'
<1>1. /\ r \in {"work", "logout"} /\ r \notin Continuations /\ r # "load" /\ UNCHANGED <<serverSide, journal, ghosts>>
      /\ thread[b][r].at = "wait" /\ Heard(b, r, "session", status)
  BY DEF HearRetry, Continuations, Holds
<1>2. /\ plan' \in [Events -> Nat] /\ jar' \in Tokens \cup {None} /\ CookieGoesOn(b, r)
      /\ wire[b][r] # None /\ wire[b][r].kind = "session" /\ wire[b][r] \in Exchange
  BY <1>1, HeardIs
<1>3. /\ tab[b] \in Tab /\ Resting \in Thread /\ Resting.superseded \subseteq thread[b][r].superseded
      /\ Old(b, r, Resting.token) /\ ThreadOk(r, Resting, None)'
  BY TabFacts, OldNames, RestingOk
<1>4. CASE status = "ok"
  <2>1. PICK t : t = wire[b][r].token
    OBVIOUS
  <2>2. t \in Tokens \cup {None} /\ Old(b, r, t)
    BY <1>2, <2>1, NamedByWire DEF Exchange, Old
  <2>3. SetTab(b, Adopted(b, t)) /\ Send(b, r, r, t, FALSE) /\ UNCHANGED thread
    BY <1>4, <2>1 DEF HearRetry
  <2>4. PICK v, ths : v = Adopted(b, t) /\ ths = thread[b]
    OBVIOUS
  <2>5. v \in Tab /\ v.csrf = t /\ v.fallback = tab[b].fallback
    BY <1>3, <2>2, <2>4 DEF Adopted, Tab
  <2>6. PICK y \in Exchange : /\ OnlyWire(b, r, y) /\ y # None /\ IsSent(y) /\ ExchangeOk(y)'
                              /\ y.kind = r /\ y.cookie = jar' /\ y.csrf = t
    <3>1. PICK kind, remember : kind = r /\ remember = FALSE
      OBVIOUS
    <3>2. kind \in Kinds /\ remember \in BOOLEAN /\ Send(b, r, kind, t, remember) /\ kind # "activate" /\ kind # "revoke"
      BY <1>1, <2>3, <3>1 DEF Kinds
    <3> QED BY <1>2, <2>2, <3>1, <3>2, SendIs
  <2>7. TabBecomes(b, r, v, ths, y)
    BY <1>2, <2>2, <2>3, <2>4, <2>5, <2>6, OldNames, TabFacts DEF TabBecomes, SameOrResting
  <2>8. ThreadOk(r, ths[r], y)'
    BY <1>1, <2>4, <2>6 DEF ThreadOk, Finishing
  <2> QED BY <1>1, <2>6, <2>7, <2>8, TabQuiet
<1>5. CASE status = "guest"
  <2>1. PICK v, ths : v = ExpiredTab(b) /\ ths = [ExpiredThreads(b) EXCEPT ![r] = Resting]
    OBVIOUS
  <2>2. v \in Tab /\ v.fallback = tab[b].fallback /\ Old(b, r, v.csrf)
    BY <2>1, ExpiredIs, OldNames
  <2>3. Over(b, r) /\ SetTab(b, v) /\ SetThreads(b, ths)
    BY <1>5, <2>1 DEF HearRetry
  <2> QED BY <1>1, <1>2, <1>3, <2>1, <2>2, <2>3, ExpireOrStop
<1>6. CASE status \notin {"ok", "guest"}
  <2>1. PICK v, ths : v = tab[b] /\ ths = [thread[b] EXCEPT ![r] = Resting]
    OBVIOUS
  <2>2. Over(b, r) /\ UNCHANGED tab /\ SetThreads(b, ths)
    BY <1>6, <2>1 DEF HearRetry, Stop
  <2>3. v \in Tab /\ v.fallback = tab[b].fallback /\ Old(b, r, v.csrf)
    BY <1>3, <2>1, OldNames
  <2> QED BY <1>1, <1>2, <1>3, <2>1, <2>2, <2>3, ExpireOrStop
<1> QED BY <1>4, <1>5, <1>6

-----------------------------------------------------------------------------
(* Every step.                                                             *)

LEMMA LoginsInit ==
    ASSUME Init
    PROVE  LoginsInv
<1> USE NoneAssumption, ValuesAssumption
<1>1. /\ sessions = [t \in Tokens |-> None] /\ rows = sessions /\ issued = {} /\ expired = {} /\ jar = None /\ journal = {}
      /\ tab = [b \in Tabs |-> Closed] /\ thread = [b \in Tabs |-> [r \in Roles |-> Resting]]
      /\ wire = [b \in Tabs |-> [r \in Roles |-> None]] /\ server = [at |-> "open", collected |-> {}]
      /\ plan \in [Events -> Nat] /\ sealed = {} /\ accepted = {} /\ confirmed = {} /\ ended = {}
  BY PlansAssumption DEF Init
<1>2. /\ Closed \in Tab /\ Closed.csrf = None /\ Closed.fallback = {}
      /\ Resting \in Thread /\ Resting.at = "idle" /\ Resting.token = None /\ Resting.superseded = {}
  BY DEF Closed, Tab, Resting, Thread
<1>3. TypeInv
  <2>1. /\ sessions \in [Tokens -> Session \cup {None}] /\ rows \in [Tokens -> Session \cup {None}]
        /\ issued \subseteq Tokens /\ expired \subseteq issued /\ jar \in Tokens \cup {None} /\ journal \subseteq Tokens
    BY <1>1
  <2>2. /\ tab \in [Tabs -> Tab] /\ thread \in [Tabs -> [Roles -> Thread]]
        /\ wire \in [Tabs -> [Roles -> Exchange \cup {None}]]
    BY <1>1, <1>2
  <2>3. \A b \in Tabs, r \in Roles : Holds(b, r, "wait") => wire[b][r] # None
    BY <1>1, <1>2 DEF Holds
  <2>4. /\ server.at \in {"open", "flag", "cancelling", "done", "closed"}
        /\ server \in [at : {"open", "flag", "cancelling", "done", "closed"}, collected : SUBSET (Tabs \X Roles)]
    BY <1>1
  <2> QED BY <1>1, <2>1, <2>2, <2>3, <2>4 DEF TypeInv, TypeOK
<1>4. FreshInv
  BY <1>1, <1>2 DEF FreshInv, Unnamed, Named, Present, LoginOf
<1>5. StoreInv
  BY <1>1 DEF StoreInv, RowsMirror, Known
<1>6. GuardInv /\ WireInv
  BY <1>1 DEF GuardInv, WireInv
<1>7. ThreadsInv
  BY <1>1, <1>2 DEF ThreadsInv, ThreadOk, Finishing
<1>8. ShutdownInv
  BY <1>1 DEF ShutdownInv, ShutdownCancels
<1> QED BY <1>3, <1>4, <1>5, <1>6, <1>7, <1>8 DEF LoginsInv

LEMMA LoginsStutter ==
    ASSUME LoginsInv, UNCHANGED vars
    PROVE  LoginsInv'
<1>1. UNCHANGED <<issued, browser, ghosts>> /\ UNCHANGED <<sessions, rows, expired, wire, server, plan>>
  BY DEF vars, store
<1>2. TypeInv'
  BY <1>1 DEF LoginsInv, TypeInv, TypeOK, browser, ghosts, Holds
<1>3. StoreInv' /\ ShutdownInv'
  <2>1. Tracked' = Tracked
    BY <1>1 DEF Tracked
  <2> QED BY <1>1, <2>1 DEF LoginsInv, StoreInv, RowsMirror, ShutdownInv, ShutdownCancels, Known, ghosts
<1> QED BY <1>1, <1>2, <1>3, ServerAlone DEF Fails, Present

LEMMA HandlesStep ==
    ASSUME LoginsInv, NEW b \in Tabs, NEW r \in Roles, Handles(b, r)
    PROVE  LoginsInv'
BY TrackStep, RouteStep, RotateStep, CreateSessionStep, ActStep DEF Handles

LEMMA LocallyStep ==
    ASSUME LoginsInv, NEW b \in Tabs, NEW r \in Roles, Locally(b, r)
    PROVE  LoginsInv'
BY ReconcileStep, SealStep, AbortStep, AcceptStep, FinishStep, RevokeStep DEF Locally

LEMMA ContinuesStep ==
    ASSUME LoginsInv, NEW b \in Tabs, NEW r \in Roles, NEW status \in Status, Continues(b, r, status)
    PROVE  LoginsInv'
BY IgnoreStep, HearSessionStep, HearLoadRevokeStep, HearLoadCapabilitiesStep, HearOperationStep, HearRetryStep,
   HearLoginStep, HearActivateStep, HearCapabilitiesStep, HearRevokeStep DEF Continues

LEMMA BeginsStep ==
    ASSUME LoginsInv, NEW b \in Tabs, Begins(b)
    PROVE  LoginsInv'
BY OpenStep, CloseTabStep, OperationStep, LoginStep DEF Begins

LEMMA LoginsNext ==
    ASSUME LoginsInv, [Next]_vars
    PROVE  LoginsInv'
<1>1. CASE UNCHANGED vars
  BY <1>1, LoginsStutter
<1>2. CASE Internal
  <2>1. CASE \E b \in Tabs, r \in Roles : Handles(b, r) \/ Locally(b, r) \/ \E status \in Status : Continues(b, r, status)
    BY <2>1, HandlesStep, LocallyStep, ContinuesStep
  <2>2. CASE CollectRequests \/ CancelRequests
    BY <2>2, CollectRequestsStep, CancelRequestsStep
  <2> QED BY <1>2, <2>1, <2>2 DEF Internal
<1>3. CASE \E b \in Tabs : Begins(b)
  BY <1>3, BeginsStep
<1>4. CASE \E t \in Tokens : Expire(t)
  BY <1>4, ExpireStep
<1>5. CASE BeginShutdown \/ CloseStore \/ Restart
  BY <1>5, BeginShutdownStep, CloseStoreStep, RestartStep
<1> QED BY <1>1, <1>2, <1>3, <1>4, <1>5 DEF Next

(* The invariant holds however logins, loads, answers, failing statements, *)
(* expiries, shutdowns and restarts interleave.                            *)
THEOREM LoginsInvariant == Spec => []LoginsInv
<1>1. Init => LoginsInv
  BY LoginsInit
<1>2. LoginsInv /\ [Next]_vars => LoginsInv'
  BY LoginsNext
<1> QED BY <1>1, <1>2, PTL DEF Spec

(* The remembered sessions in memory are the rows with the same activation, *)
(* whichever statement fails; a remembered login whose activation succeeded *)
(* is there, also after restarts, until it expires or is ended; and no     *)
(* mutation outlasts the shutdown unless it was told to stop (auth.go and   *)
(* server.go).                                                             *)
THEOREM SessionsMirroredAlways == Spec => []SessionsMirrored
<1>1. LoginsInv => SessionsMirrored
  <2> SUFFICES ASSUME LoginsInv PROVE SessionsMirrored
    OBVIOUS
  <2>1. TypeOK /\ RowsMirror /\ ShutdownCancels
    BY DEF LoginsInv, TypeInv, StoreInv, ShutdownInv
  <2>2. RememberedSurvives
    <3> SUFFICES ASSUME server.at # "closed", NEW t \in confirmed \ (expired \cup ended)
        PROVE  Known(t) /\ sessions[t].activated
      BY DEF RememberedSurvives
    <3>1. t \in Tokens /\ rows[t] # None /\ rows[t].activated
      BY StoreFacts DEF StoreInv
    <3>2. IF Known(t) /\ sessions[t].remembered THEN rows[t] = sessions[t] ELSE rows[t] = None
      BY <3>1, StoreFacts DEF StoreInv, RowsMirror
    <3> QED BY <3>1, <3>2
  <2> QED BY <2>1, <2>2 DEF SessionsMirrored
<1> QED BY <1>1, LoginsInvariant, PTL

(* No session can be used before its login was noted, and the session of   *)
(* the browser's cookie stays noted until its login is finished, whatever   *)
(* tabs close, answers get lost or logins replace each other                *)
(* (quarantineExplicitAuthSession and acceptExplicitAuthSession of api.ts). *)
THEOREM LoginsGuardedAlways == Spec => []LoginsGuarded
<1>1. LoginsInv => LoginsGuarded
  <2> SUFFICES ASSUME LoginsInv PROVE LoginsGuarded
    OBVIOUS
  <2>1. ActivatedIsSealed
    BY StoreFacts DEF StoreInv, ActivatedIsSealed
  <2>2. CookieIsQuarantined
    <3> SUFFICES ASSUME Live(jar), sessions[jar].activated PROVE jar \in journal \cup accepted
      BY DEF CookieIsQuarantined
    <3>1. jar \in Tokens /\ sessions[jar] # None /\ jar \notin expired
      BY DEF Live, Known, LoginsInv, TypeInv, TypeOK
    <3>2. jar \in sealed /\ ~Gone(jar)
      BY <3>1, StoreFacts DEF StoreInv, Gone, Present
    <3> QED BY <3>2 DEF LoginsInv, GuardInv
  <2> QED BY <2>1, <2>2 DEF LoginsGuarded
<1> QED BY <1>1, LoginsInvariant, PTL

-----------------------------------------------------------------------------
(* A page load.                                                            *)

(* The step does not end tab b's load with the workspace. *)
GoesOn(b) ==
    thread[b]["load"].at = "wait" /\ thread'[b]["load"].at = "idle" =>
        ~(tab[b].view # "ready" /\ tab'[b].view = "ready")

LEMMA SameLoad ==
    ASSUME LoginsInv, NEW b \in Tabs, NEW c \in Tabs, NEW ths, SetThreads(c, ths), ths["load"].at = thread[c]["load"].at
    PROVE  GoesOn(b)
<1>1. thread'[b] = IF b = c THEN ths ELSE thread[b]
  BY DEF SetThreads, LoginsInv, TypeInv, TypeOK
<1> QED BY <1>1 DEF GoesOn

LEMMA SameView ==
    ASSUME LoginsInv, NEW b \in Tabs, NEW c \in Tabs, NEW v, SetTab(c, v), v.view # "ready" \/ v.view = tab[c].view
    PROVE  GoesOn(b)
<1>1. tab'[b] = IF b = c THEN v ELSE tab[b]
  BY DEF SetTab, LoginsInv, TypeInv, TypeOK
<1> QED BY <1>1 DEF GoesOn

LEMMA Unchanged ==
    ASSUME NEW b \in Tabs, UNCHANGED tab \/ UNCHANGED thread
    PROVE  GoesOn(b)
BY DEF GoesOn

(* What a step of a role other than the load does to the load. *)
LEMMA OtherRole ==
    ASSUME LoginsInv, NEW b \in Tabs, NEW c \in Tabs, NEW r \in Roles \ {"load"}, NEW th,
           \/ SetThreads(c, [thread[c] EXCEPT ![r] = th])
           \/ SetThreads(c, [Cancelled(c) EXCEPT ![r] = th])
           \/ SetThreads(c, [ExpiredThreads(c) EXCEPT ![r] = th])
    PROVE  GoesOn(b)
<1>1. PICK old \in {Cancelled(c), ExpiredThreads(c), thread[c]} : SetThreads(c, [old EXCEPT ![r] = th])
  OBVIOUS
<1>2. PICK ths : ths = [old EXCEPT ![r] = th]
  OBVIOUS
<1>3. ths["load"].at = thread[c]["load"].at
  BY <1>1, <1>2, CancelledIs DEF Roles
<1> QED BY <1>1, <1>2, <1>3, SameLoad

LEMMA OtherResumes ==
    ASSUME LoginsInv, NEW b \in Tabs, NEW c \in Tabs, NEW r \in Roles \ {"load"}, NEW step, Resume(c, r, step)
    PROVE  GoesOn(b)
<1>1. PICK th : th = [thread[c][r] EXCEPT !.at = step]
  OBVIOUS
<1>2. [thread[c] EXCEPT ![r].at = step] = [thread[c] EXCEPT ![r] = th]
  BY <1>1, TabType
<1> QED BY <1>2, OtherRole DEF Resume

LEMMA OtherEnds ==
    ASSUME LoginsInv, NEW b \in Tabs, NEW c \in Tabs, NEW r \in Roles \ {"load"}, NEW status \in Status,
           \/ Ignore(c, r, status) \/ HearOperation(c, r, status) \/ HearRetry(c, r, status)
           \/ HearLogin(c, r, status) \/ HearActivate(c, r, status)
           \/ HearCapabilities(c, r, status) \/ HearRevoke(c, r, status)
           \/ Seal(c, r) \/ Abort(c, r) \/ Accept(c, r) \/ Finish(c, r) \/ Revoke(c, r)
    PROVE  GoesOn(b)
<1>1. CASE Ignore(c, r, status) \/ HearActivate(c, r, status) \/ Abort(c, r)
  BY <1>1, Unchanged DEF Ignore, HearActivate, Abort
<1>2. CASE HearOperation(c, r, status)
  <2>1. UNCHANGED tab \/ Stop(c, r) \/ SetThreads(c, [ExpiredThreads(c) EXCEPT ![r] = Resting])
    BY <1>2 DEF HearOperation
  <2> QED BY <2>1, Unchanged, OtherRole DEF Stop
<1>3. CASE HearRetry(c, r, status)
  <2>1. UNCHANGED thread \/ Stop(c, r) \/ SetThreads(c, [ExpiredThreads(c) EXCEPT ![r] = Resting])
    BY <1>3 DEF HearRetry
  <2> QED BY <2>1, Unchanged, OtherRole DEF Stop
<1>4. CASE HearLogin(c, r, status)
  <2>1. UNCHANGED tab \/ SetThreads(c, [Cancelled(c) EXCEPT ![r] = [Waiting EXCEPT !.at = "seal", !.token = wire[c][r].token]])
    BY <1>4, Zenon DEF HearLogin
  <2> QED BY <2>1, Unchanged, OtherRole
<1>5. CASE HearCapabilities(c, r, status)
  <2>1. CASE status = "ok"
    BY <1>5, <2>1, Unchanged DEF HearCapabilities
  <2>2. CASE status = "unauthorized"
    <3>1. PICK old : old = ExpiredThreads(c)
      OBVIOUS
    <3>2. old \in [Roles -> Thread] /\ old[r] \in Thread
      BY <3>1, CancelledIs
    <3>3. PICK th : th = [old[r] EXCEPT !.at = "revoke"]
      OBVIOUS
    <3>4. [old EXCEPT ![r].at = "revoke"] = [old EXCEPT ![r] = th]
      BY <3>2, <3>3
    <3>5. SetThreads(c, [ExpiredThreads(c) EXCEPT ![r].at = "revoke"])
      BY <1>5, <2>2 DEF HearCapabilities
    <3> QED BY <3>1, <3>4, <3>5, OtherRole
  <2>3. CASE status \notin {"ok", "unauthorized"}
    BY <1>5, <2>3, Unchanged DEF HearCapabilities
  <2> QED BY <2>1, <2>2, <2>3
<1>6. CASE HearRevoke(c, r, status)
  BY <1>6, OtherRole DEF HearRevoke, Stop
<1>7. CASE Seal(c, r)
  <2>1. CASE Resume(c, r, "revoke")
    BY <2>1, OtherResumes
  <2>2. CASE ~Resume(c, r, "revoke")
    <3>0. PICK old : old = Markers(c)
      OBVIOUS
    <3>1. PICK th : th = [thread[c][r] EXCEPT !.at = "wait", !.superseded = old]
      OBVIOUS
    <3>2. SetThreads(c, [thread[c] EXCEPT ![r].at = "wait", ![r].superseded = old])
      BY <1>7, <2>2, <3>0 DEF Seal
    <3>3. [thread[c] EXCEPT ![r].at = "wait", ![r].superseded = old] = [thread[c] EXCEPT ![r] = th]
      BY <3>1, TabType
    <3> QED BY <3>2, <3>3, OtherRole
  <2> QED BY <2>1, <2>2
<1>8. CASE Accept(c, r)
  BY <1>8, OtherResumes DEF Accept
<1>9. CASE Finish(c, r)
  BY <1>9, OtherRole, OtherResumes DEF Finish, Stop
<1>10. CASE Revoke(c, r)
  BY <1>10, OtherRole, OtherResumes DEF Revoke, Stop
<1> QED BY <1>1, <1>2, <1>3, <1>4, <1>5, <1>6, <1>7, <1>8, <1>9, <1>10

LEMMA LoadEnds ==
    ASSUME LoginsInv, NEW b \in Tabs, [Next]_vars, \A status \in Status : ~HearLoadCapabilities(b, status)
    PROVE  GoesOn(b)
<1>1. ASSUME NEW c \in Tabs, NEW status \in Status, HearSession(c, status) PROVE GoesOn(b)
  <2>1. CASE status = "ok"
    <3>1. PICK v : v = Adopted(c, wire[c]["load"].token)
      OBVIOUS
    <3>2. SetTab(c, v) /\ v.view = tab[c].view
      BY <1>1, <2>1, <3>1, TabType DEF HearSession, Adopted, Tab
    <3> QED BY <3>2, SameView
  <2>2. CASE status = "guest"
    <3>1. PICK view : view = IF thread[c]["load"].current THEN "guest" ELSE ExpiredTab(c).view
      OBVIOUS
    <3>2. PICK v : v = [ExpiredTab(c) EXCEPT !.view = view]
      OBVIOUS
    <3>3. SetTab(c, v)
      BY <1>1, <2>2, <3>1, <3>2 DEF HearSession
    <3>4. v.view = view
      BY <3>2, ExpiredIs DEF Tab
    <3>5. ExpiredTab(c).view \in {"guest", tab[c].view}
      BY TabType DEF ExpiredTab, Tab
    <3> QED BY <3>1, <3>3, <3>4, <3>5, SameView
  <2>3. CASE status \notin {"ok", "guest"}
    <3>1. PICK view : view = IF thread[c]["load"].current THEN "unavailable" ELSE tab[c].view
      OBVIOUS
    <3>2. PICK v : v = [tab[c] EXCEPT !.view = view]
      OBVIOUS
    <3>3. SetTab(c, v)
      BY <1>1, <2>3, <3>1, <3>2 DEF HearSession
    <3>4. v.view = view
      BY <3>2, TabType DEF Tab
    <3> QED BY <3>1, <3>3, <3>4, SameView
  <2> QED BY <2>1, <2>2, <2>3
<1>2. ASSUME NEW c \in Tabs, NEW status \in Status, HearLoadRevoke(c, status) PROVE GoesOn(b)
  <2>1. PICK after : after = AfterRevoke(c, thread[c]["load"].token, status)
    OBVIOUS
  <2>2. after.view = tab[c].view /\ after \in [view : {tab[c].view}, csrf : {after.csrf}, fallback : {after.fallback}]
    BY <2>1, TabType DEF AfterRevoke, Tab
  <2>3. PICK v : v = IF thread[c]["load"].current THEN [after EXCEPT !.csrf = None, !.view = "guest"] ELSE after
    OBVIOUS
  <2>4. SetTab(c, v)
    BY <1>2, <2>1, <2>3 DEF HearLoadRevoke
  <2>5. v.view \in {"guest", tab[c].view}
    BY <2>2, <2>3
  <2> QED BY <2>4, <2>5, SameView
<1>3. ASSUME NEW c \in Tabs, NEW status \in Status, HearLoadCapabilities(c, status) PROVE GoesOn(b)
  <2>1. c # b
    BY <1>3
  <2>2. tab'[b] = tab[b]
    BY <1>3, <2>1 DEF HearLoadCapabilities, SetTab, LoginsInv, TypeInv, TypeOK
  <2> QED BY <2>2 DEF GoesOn
<1>4. ASSUME NEW c \in Tabs, Reconcile(c) PROVE GoesOn(b)
  <2>1. \E ths : SetThreads(c, ths) /\ thread[c]["load"].at = "reconcile"
    BY <1>4, Zenon DEF Reconcile, Resume, Stop, Holds
  <2>2. thread[c]["load"].at = "reconcile" /\ (b # c => thread'[b] = thread[b])
    BY <2>1 DEF SetThreads, LoginsInv, TypeInv, TypeOK
  <2> QED BY <2>2 DEF GoesOn
<1>5. ASSUME NEW c \in Tabs, Open(c) PROVE GoesOn(b)
  <2>1. PICK v : v = [tab[c] EXCEPT !.view = "loading"]
    OBVIOUS
  <2>2. SetTab(c, v) /\ v.view = "loading"
    BY <1>5, <2>1, TabType DEF Open, Tab
  <2> QED BY <2>2, SameView
<1>6. ASSUME NEW c \in Tabs, CloseTab(c) PROVE GoesOn(b)
  BY <1>6, SameView DEF CloseTab, Closed
<1>7. ASSUME NEW c \in Tabs, NEW r \in Roles, Handles(c, r) PROVE GoesOn(b)
  <2>1. UNCHANGED tab
    <3>1. UNCHANGED browser
      <4>1. Track(c, r) \/ Route(c, r) \/ Rotate(c, r) => UNCHANGED browser
        BY Zenon DEF Track, Route, Rotate
      <4>2. ASSUME NEW t \in Tokens, NEW done \in BOOLEAN, CreateSession(c, r, t, done) PROVE UNCHANGED browser
        BY <4>2, Zenon DEF CreateSession
      <4>3. ASSUME NEW done \in BOOLEAN, Act(c, r, done) PROVE UNCHANGED browser
        BY <4>3, Zenon DEF Act
      <4> QED BY <1>7, <4>1, <4>2, <4>3 DEF Handles
    <3> QED BY <3>1 DEF browser
  <2> QED BY <2>1, Unchanged
<1>8. ASSUME NEW c \in Tabs, NEW r \in Roles, Locally(c, r) PROVE GoesOn(b)
  <2>1. "failed" \in Status /\ "load" \notin Continuations
    BY DEF Status, Continuations
  <2> QED BY <1>4, <1>8, <2>1, OtherEnds DEF Locally
<1>9. ASSUME NEW c \in Tabs, NEW r \in Roles, NEW status \in Status, Continues(c, r, status) PROVE GoesOn(b)
  <2>1. CASE r = "load"
    <3>1. \/ Ignore(c, r, status) \/ HearSession(c, status) \/ HearLoadRevoke(c, status) \/ HearLoadCapabilities(c, status)
      BY <1>9, <2>1 DEF Continues, Continuations, HearOperation, HearRetry
    <3>2. Ignore(c, r, status) => UNCHANGED tab
      BY DEF Ignore
    <3> QED BY <1>1, <1>2, <1>3, <3>1, <3>2, Unchanged
  <2>2. CASE r # "load"
    BY <1>9, <2>2, OtherEnds DEF Continues
  <2> QED BY <2>1, <2>2
<1>10. ASSUME NEW c \in Tabs, Begins(c) PROVE GoesOn(b)
  <2>1. ASSUME NEW r \in Roles, Operation(c, r) PROVE GoesOn(b)
    BY <2>1, Unchanged DEF Operation
  <2>2. ASSUME NEW r \in Continuations, NEW remember \in BOOLEAN, Login(c, r, remember) PROVE GoesOn(b)
    BY <2>2, Unchanged DEF Login
  <2> QED BY <1>5, <1>6, <1>10, <2>1, <2>2 DEF Begins
<1>11. ASSUME \/ BeginShutdown \/ CollectRequests \/ CancelRequests \/ CloseStore \/ UNCHANGED vars
              \/ \E t \in Tokens : Expire(t)
       PROVE  GoesOn(b)
  <2>1. UNCHANGED tab
    BY <1>11 DEF BeginShutdown, CollectRequests, CancelRequests, CloseStore, Expire, browser, vars
  <2> QED BY <2>1, Unchanged
<1>12. ASSUME Restart PROVE GoesOn(b)
  <2>1. UNCHANGED browser
    BY <1>12, Zenon DEF Restart
  <2> QED BY <2>1, Unchanged DEF browser
<1> QED BY <1>7, <1>8, <1>9, <1>10, <1>11, <1>12 DEF Next, Internal

(* A page load shows the workspace for the session of the cookie only if    *)
(* its login was finished, or the session is gone by then: the load asks    *)
(* for the capabilities only when it found no note (reconcileStaleAuthSession *)
(* of api.ts), and a note goes only with its session or its login's end.    *)
THEOREM AdoptsFinishedAlways == Spec => AdoptsFinished
<1>1. LoginsInv /\ [Next]_vars =>
          [\A b \in Tabs :
              LET t == thread[b]["load"].token
              IN  /\ thread[b]["load"].at = "wait" /\ thread'[b]["load"].at = "idle"
                  /\ tab[b].view # "ready" /\ tab'[b].view = "ready" /\ jar = t
                  => t \in accepted \/ ~Live(t)]_vars
  <2> SUFFICES ASSUME LoginsInv, [Next]_vars, NEW b \in Tabs,
                      thread[b]["load"].at = "wait", thread'[b]["load"].at = "idle",
                      tab[b].view # "ready", tab'[b].view = "ready", jar = thread[b]["load"].token
      PROVE  thread[b]["load"].token \in accepted \/ ~Live(thread[b]["load"].token)
    OBVIOUS
  <2>1. PICK status \in Status : HearLoadCapabilities(b, status)
    BY LoadEnds DEF GoesOn
  <2>2. PICK t : t = thread[b]["load"].token
    OBVIOUS
  <2>3. t \in accepted \/ Gone(t)
    BY <2>1, <2>2, TabFacts DEF HearLoadCapabilities, Heard, ThreadOk, Roles
  <2>4. Gone(t) => ~Live(t)
    BY DEF Gone, Present, Live, Known
  <2> QED BY <2>2, <2>3, <2>4
<1> QED BY <1>1, LoginsInvariant, PTL DEF Spec, AdoptsFinished
=============================================================================
