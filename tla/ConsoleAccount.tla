--------------------------- MODULE ConsoleAccount ---------------------------
(***************************************************************************)
(* The web console's account boundary (src/web/default/src).               *)
(*                                                                         *)
(* The tabs of one browser share the session cookie and localStorage       *)
(* (`stored`); each tab keeps its own auth store (`user`, `version`), its   *)
(* React Query cache and its requests.  Any tab may sign in or out while   *)
(* the others have requests on the wire, so lib/api.ts stamps every         *)
(* request with the account scope it was made in and compares that scope   *)
(* again when the answer arrives, and main.tsx reloads a tab whose stored   *)
(* account was replaced by another tab.                                    *)
(*                                                                         *)
(* A request goes through four steps: it is asked (api.get), dispatched    *)
(* (the request interceptor; the browser attaches the cookie), answered    *)
(* (the server judges header and cookie; the browser stores a Set-Cookie)   *)
(* and delivered (the response interceptor and the caller's continuation). *)
(* Steps of different requests and tabs interleave freely.                 *)
(***************************************************************************)
EXTENDS Naturals, FiniteSets

CONSTANTS
    Tabs,       \* the tabs of one browser
    Users,      \* accounts
    None,       \* no account
    Reqs,       \* slots for requests in flight
    MaxAsks     \* bound: requests the users start in one behaviour

ASSUME TabsAssumption == Tabs # {}
ASSUME NoneAssumption == None \notin Users
ASSUME BoundAssumption == MaxAsks \in Nat

Accounts == Users \cup {None}
Kinds == {"query", "guard", "login", "oauth", "finalize", "self", "logout", "leave"}
Phases == {"free", "asked", "sent", "answered"}
Answers == {"none", "ok", "refused", "failed"}
Scopes == Nat \X Accounts

VARIABLES
    cookie,     \* the account of the session cookie in the browser's jar
    stored,     \* localStorage: the `user` and `uid` keys
    user,       \* user[t]: auth.user of tab t's store
    version,    \* version[t]: auth.sessionVersion
    cache,      \* cache[t]: the accounts whose data tab t's query cache holds
    verified,   \* verified[t]: auth.user is the snapshot the route guard verified
    events,     \* events[t]: `storage` events of the key `user` not handled yet
    reqs,       \* reqs[r]: the request in slot r
    asks        \* requests started so far

tabVars == <<user, version, cache, verified>>
vars == <<cookie, stored, user, version, cache, verified, events, reqs, asks>>

\* live: the page that made the request still exists.  asked: the scopes its
\* callers were in; scope: config.accountScope; uid: the New-Api-User header;
\* sentCookie: the cookie sent along; owner: the account a login asks for,
\* later the account whose data the answer carries.
Request ==
    [phase : Phases, kind : Kinds, tab : Tabs, live : BOOLEAN,
     asked : SUBSET Scopes, scope : Scopes, uid : Accounts,
     sentCookie : Accounts, answer : Answers, owner : Accounts]

TypeOK ==
    /\ cookie \in Accounts
    /\ stored \in [user : Accounts, uid : Accounts]
    /\ user \in [Tabs -> Accounts]
    /\ version \in [Tabs -> Nat]
    /\ cache \in [Tabs -> SUBSET Users]
    /\ verified \in [Tabs -> BOOLEAN]
    /\ events \in [Tabs -> Nat]
    /\ reqs \in [Reqs -> Request]
    /\ asks \in Nat

\* An empty slot.
Free ==
    [phase |-> "free", kind |-> "query", tab |-> CHOOSE t \in Tabs : TRUE,
     live |-> FALSE,
     asked |-> {}, scope |-> <<0, None>>, uid |-> None,
     sentCookie |-> None, answer |-> "none", owner |-> None]

\* A request as api.get or api.post leaves it: stamped with the caller's scope.
Asked(t, kind, scope, who) ==
    [phase |-> "asked", kind |-> kind, tab |-> t, live |-> TRUE,
     asked |-> {scope}, scope |-> scope, uid |-> None,
     sentCookie |-> None, answer |-> "none", owner |-> who]

\* The browser was used before: nobody, or one account, is signed in everywhere.
Init ==
    /\ cookie \in Accounts
    /\ stored = [user |-> cookie, uid |-> cookie]
    /\ user = [t \in Tabs |-> cookie]
    /\ version = [t \in Tabs |-> 0]
    /\ cache = [t \in Tabs |-> {}]
    /\ verified = [t \in Tabs |-> FALSE]
    /\ events = [t \in Tabs |-> 0]
    /\ reqs = [r \in Reqs |-> Free]
    /\ asks = 0

-----------------------------------------------------------------------------
(* The auth store (stores/auth-store.ts)                                     *)

\* The store is written without anyone being told.
AnnounceNothing(t, u) == UNCHANGED events

\* Writing the key `user` raises a storage event in every other tab when the
\* stored account changes.
Announce(t, u) ==
    events' = [s \in Tabs |-> IF s # t /\ stored.user # u
                              THEN events[s] + 1 ELSE events[s]]

\* The query cache survives a change of account.
BumpVersionOnly(t, n) ==
    /\ version' = [version EXCEPT ![t] = @ + n]
    /\ UNCHANGED cache

\* bindAccountQueryCache: a new session version empties the query cache.
BumpSession(t, n) ==
    /\ version' = [version EXCEPT ![t] = @ + n]
    /\ cache' = IF n > 0 THEN [cache EXCEPT ![t] = {}] ELSE cache

setUser(t, u) ==
    /\ stored' = [user |-> u, uid |-> u]
    /\ Announce(t, u)
    /\ user' = [user EXCEPT ![t] = u]
    /\ BumpSession(t, IF user[t] # u THEN 1 ELSE 0)

reset(t, times) ==
    /\ stored' = [user |-> None, uid |-> None]
    /\ Announce(t, None)
    /\ user' = [user EXCEPT ![t] = None]
    /\ BumpSession(t, times)
    /\ verified' = [verified EXCEPT ![t] = FALSE]

-----------------------------------------------------------------------------
(* Requests (lib/api.ts)                                                     *)

getAccountScope(t) == <<version[t], stored.uid>>

Busy(t) == \E r \in Reqs : /\ reqs[r].phase # "free"
                           /\ reqs[r].live
                           /\ reqs[r].tab = t
                           /\ reqs[r].kind # "query"

\* A key without the account scope.
InFlightUrl(r, t) ==
    /\ reqs[r].phase # "free"
    /\ reqs[r].live
    /\ reqs[r].kind = "query"
    /\ reqs[r].tab = t

\* A GET in flight that a new one with the same key joins.
InFlightKey(r, t) ==
    /\ reqs[r].phase # "free"
    /\ reqs[r].live
    /\ reqs[r].kind = "query"
    /\ reqs[r].tab = t
    /\ reqs[r].scope = getAccountScope(t)

\* A component's query; `own` when it carries an abort signal or opts out of
\* deduplication.
Query(t, own) ==
    /\ asks < MaxAsks
    /\ asks' = asks + 1
    /\ \/ /\ ~own
          /\ \E r \in Reqs :
               /\ InFlightKey(r, t)
               /\ reqs' = [reqs EXCEPT ![r].asked = @ \cup {getAccountScope(t)}]
       \/ /\ own \/ \A r \in Reqs : ~InFlightKey(r, t)
          /\ \E r \in Reqs :
               /\ reqs[r].phase = "free"
               /\ reqs' = [reqs EXCEPT ![r] =
                                Asked(t, "query", getAccountScope(t), None)]
    /\ UNCHANGED <<cookie, stored, user, version, cache, verified, events>>

\* Starts one of the account flows of a tab.
Start(t, kind, who) ==
    /\ asks < MaxAsks
    /\ asks' = asks + 1
    /\ ~Busy(t)
    /\ \E r \in Reqs : /\ reqs[r].phase = "free"
                       /\ reqs' = [reqs EXCEPT ![r] =
                                        Asked(t, kind, getAccountScope(t), who)]

\* The route guard of the signed-in pages: beforeLoad up to its await.
Guard(t) ==
    /\ user[t] # None
    /\ ~verified[t]
    /\ Start(t, "guard", None)
    /\ UNCHANGED <<cookie, stored, user, version, cache, verified, events>>

\* The sign-in page (it redirects a signed-in user): POST the credentials.
Login(t, u) ==
    /\ user[t] = None
    /\ Start(t, "login", u)
    /\ UNCHANGED <<cookie, stored, user, version, cache, verified, events>>

\* The sign-out dialog: handleSignOut up to its await.
SignOut(t) ==
    /\ user[t] # None
    /\ Start(t, "logout", None)
    /\ UNCHANGED <<cookie, stored, user, version, cache, verified, events>>

\* resetSession before the redirect to an OAuth provider.
OAuthStart(t) ==
    /\ asks < MaxAsks
    /\ asks' = asks + 1
    /\ ~Busy(t)
    /\ reset(t, 1)
    /\ \E r \in Reqs : /\ reqs[r].phase = "free"
                       /\ reqs' = [reqs EXCEPT ![r] =
                             Asked(t, "leave", <<version'[t], None>>, None)]
    /\ UNCHANGED cookie

\* What becomes of a tab's requests when its page goes away: the ones on the
\* wire may still reach the server, the others are gone.
Abandoned(t) ==
    [r \in Reqs |->
        IF reqs[r].tab # t THEN reqs[r]
        ELSE IF reqs[r].phase = "sent" THEN [reqs[r] EXCEPT !.live = FALSE]
        ELSE Free]

\* A page load restores the store from localStorage.
PageLoad(t) ==
    /\ user' = [user EXCEPT ![t] = stored.user]
    /\ version' = [version EXCEPT ![t] = 0]
    /\ cache' = [cache EXCEPT ![t] = {}]
    /\ verified' = [verified EXCEPT ![t] = FALSE]

\* The provider redirects back: the callback page loads and exchanges its code.
OAuthCallback(t, u) ==
    /\ asks < MaxAsks
    /\ asks' = asks + 1
    /\ PageLoad(t)
    /\ events' = [events EXCEPT ![t] = 0]
    /\ \E r \in Reqs :
          /\ Abandoned(t)[r].phase = "free"
          /\ reqs' = [Abandoned(t) EXCEPT ![r] =
                           Asked(t, "oauth", <<0, stored.uid>>, u)]
    /\ UNCHANGED <<cookie, stored>>

\* A listener that leaves the tab as it is.
StorageEventIgnored(t) ==
    /\ events[t] > 0
    /\ events' = [events EXCEPT ![t] = @ - 1]
    /\ UNCHANGED <<cookie, stored, tabVars, reqs, asks>>

\* The storage listener of main.tsx.
StorageEvent(t) ==
    /\ events[t] > 0
    /\ \/ /\ stored.user # user[t]
          /\ PageLoad(t)
          /\ reqs' = Abandoned(t)
          /\ events' = [events EXCEPT ![t] = 0]
       \/ /\ stored.user = user[t]
          /\ events' = [events EXCEPT ![t] = @ - 1]
          /\ UNCHANGED <<user, version, cache, verified, reqs>>
    /\ UNCHANGED <<cookie, stored, asks>>

\* The request interceptor, then the request leaves with the current cookie.
\* Only api.get has stamped its request before: a login is a POST.
Dispatch(r) ==
    LET q == reqs[r] IN
    /\ q.phase = "asked"
    /\ reqs' = [reqs EXCEPT ![r] =
          IF q.kind # "login" /\ q.scope # getAccountScope(q.tab)
          THEN [q EXCEPT !.phase = "answered", !.answer = "failed"]
          ELSE [q EXCEPT !.phase = "sent", !.scope = getAccountScope(q.tab),
                         !.uid = stored.uid, !.sentCookie = cookie]]
    /\ UNCHANGED <<cookie, stored, tabVars, events, asks>>

\* Any session will do.
authHelperSessionOnly(q) == q.sentCookie # None

\* authHelper: the session must exist and be the one the header names.
authHelper(q) == q.sentCookie # None /\ q.uid = q.sentCookie

\* The server's answer arrives at the browser.  Sessions are kept in the cookie
\* itself, so a login or logout takes effect here, also for a page that left.
Answer(r) ==
    LET q == reqs[r]
        Arrive(answer, owner) ==
            IF q.live
            THEN [q EXCEPT !.phase = "answered", !.answer = answer, !.owner = owner]
            ELSE Free
    IN
    /\ q.phase = "sent"
    /\ \/ /\ q.kind \in {"query", "guard", "self", "finalize"}
          /\ reqs' = [reqs EXCEPT ![r] =
                IF authHelper(q) THEN Arrive("ok", q.sentCookie)
                                 ELSE Arrive("refused", None)]
          /\ UNCHANGED cookie
       \/ /\ q.kind \in {"login", "oauth"}
          /\ cookie' = q.owner
          /\ reqs' = [reqs EXCEPT ![r] = Arrive("ok", q.owner)]
       \/ /\ q.kind \in {"logout", "leave"}
          /\ cookie' = None
          /\ reqs' = [reqs EXCEPT ![r] = Arrive("ok", None)]
       \/ /\ reqs' = [reqs EXCEPT ![r] = Arrive("failed", q.owner)]
          /\ UNCHANGED cookie
    /\ UNCHANGED <<stored, tabVars, events, asks>>

-----------------------------------------------------------------------------
(* The response interceptor and the callers' continuations                   *)

SameScope(q) == q.scope = getAccountScope(q.tab)

Accepted(q) == q.answer = "ok" /\ SameScope(q)
Refused(q) == q.answer = "refused" /\ SameScope(q)

Answered(r, kinds) == reqs[r].phase = "answered" /\ reqs[r].kind \in kinds

Done(r) == reqs' = [reqs EXCEPT ![r] = Free]

\* A 401 of the current scope signs the tab out; the route guard's own handler
\* signs it out a second time.
DeliverRefusal(r) ==
    LET q == reqs[r] IN
    /\ Answered(r, Kinds)
    /\ Refused(q)
    /\ reset(q.tab, IF q.kind = "guard" THEN 2 ELSE 1)
    /\ Done(r)
    /\ UNCHANGED <<cookie, asks>>

\* Everything else a caller ends on: a cancellation, a failure, the end of
\* resetSession.
DeliverNothing(r) ==
    LET q == reqs[r] IN
    /\ Answered(r, {"query", "guard", "login", "self", "finalize", "leave"})
    /\ ~Refused(q)
    /\ ~Accepted(q) \/ q.kind = "leave"
    /\ Done(r)
    /\ UNCHANGED <<cookie, stored, tabVars, events, asks>>

\* React Query stores the data of a query it has not dropped meanwhile.
DeliverQuery(r) ==
    LET q == reqs[r] IN
    /\ Answered(r, {"query"})
    /\ Accepted(q)
    /\ cache' = [cache EXCEPT ![q.tab] = @ \cup {q.owner}]
    /\ Done(r)
    /\ UNCHANGED <<cookie, stored, user, version, verified, events, asks>>

\* The guard stores the verified profile.
DeliverGuard(r) ==
    LET q == reqs[r] IN
    /\ Answered(r, {"guard"})
    /\ Accepted(q)
    /\ setUser(q.tab, q.owner)
    /\ verified' = [verified EXCEPT ![q.tab] = TRUE]
    /\ Done(r)
    /\ UNCHANGED <<cookie, asks>>

\* handleLoginSuccess: saveUserId, then getSelf.
DeliverLogin(r) ==
    LET q == reqs[r] IN
    /\ Answered(r, {"login"})
    /\ Accepted(q)
    /\ stored' = [stored EXCEPT !.uid = q.owner]
    /\ reqs' = [reqs EXCEPT ![r] =
                    Asked(q.tab, "self", <<version[q.tab], q.owner>>, None)]
    /\ UNCHANGED <<cookie, tabVars, events, asks>>

\* The callback page: a login stores the profile it was given and goes on like
\* the form; anything else tries getSelf before it gives up.
DeliverOAuth(r) ==
    LET q == reqs[r] IN
    /\ Answered(r, {"oauth"})
    /\ \/ /\ Accepted(q)
          /\ setUser(q.tab, q.owner)
          /\ verified' = [verified EXCEPT ![q.tab] = FALSE]
          /\ reqs' = [reqs EXCEPT ![r] =
                Asked(q.tab, "self", <<version'[q.tab], q.owner>>, None)]
       \/ /\ ~Accepted(q)
          /\ reqs' = [reqs EXCEPT ![r] =
                Asked(q.tab, "finalize", getAccountScope(q.tab), None)]
          /\ UNCHANGED <<stored, tabVars, events>>
    /\ UNCHANGED <<cookie, asks>>

\* getSelf answered: setUser and saveUserId.  finalizeLogin is followed by the
\* getSelf of handleLoginSuccess.
DeliverSelf(r) ==
    LET q == reqs[r] IN
    /\ Answered(r, {"self", "finalize"})
    /\ Accepted(q)
    /\ setUser(q.tab, q.owner)
    /\ verified' = [verified EXCEPT ![q.tab] = FALSE]
    /\ reqs' = [reqs EXCEPT ![r] =
          IF q.kind = "finalize"
          THEN Asked(q.tab, "self", <<version'[q.tab], q.owner>>, None)
          ELSE Free]
    /\ UNCHANGED <<cookie, asks>>

\* handleSignOut signs the tab out whatever became of the request.
DeliverSignOut(r) ==
    LET q == reqs[r] IN
    /\ Answered(r, {"logout"})
    /\ reset(q.tab, 1)
    /\ Done(r)
    /\ UNCHANGED <<cookie, asks>>

Deliver(r) ==
    \/ DeliverRefusal(r)
    \/ DeliverNothing(r)
    \/ DeliverQuery(r)
    \/ DeliverGuard(r)
    \/ DeliverLogin(r)
    \/ DeliverOAuth(r)
    \/ DeliverSelf(r)
    \/ DeliverSignOut(r)

TabStep(t) ==
    \/ \E own \in BOOLEAN : Query(t, own)
    \/ Guard(t)
    \/ \E u \in Users : Login(t, u)
    \/ SignOut(t)
    \/ OAuthStart(t)
    \/ \E u \in Users : OAuthCallback(t, u)
    \/ StorageEvent(t)

Next ==
    \/ \E t \in Tabs : TabStep(t)
    \/ \E r \in Reqs : Dispatch(r) \/ Answer(r) \/ Deliver(r)

\* The browser delivers storage events; nothing else is promised.
Fairness == \A t \in Tabs : WF_vars(StorageEvent(t))

Spec == Init /\ [][Next]_vars /\ Fairness
-----------------------------------------------------------------------------
(* Properties                                                                *)

\* A tab whose account is not the stored one has a storage event coming that
\* will tell it (auth-store.ts writes `user` with every change of auth.user, so
\* main.tsx's listener never misses a switch made by another tab).
SwitchAnnounced == \A t \in Tabs : user[t] # stored.user => events[t] > 0

\* Callers share a request in flight only within one account scope: the key of
\* inFlightGet carries the scope (api.ts), so a caller of the new account never
\* waits for an answer that will be cancelled for the old one.
SharedWithinScope ==
    \A r \in Reqs : /\ reqs[r].phase # "free"
                    /\ reqs[r].kind = "query"
                    => reqs[r].asked = {reqs[r].scope}

\* Data that enters a tab's query cache belongs to the account whose id is
\* stored at that moment and was asked for in the session the tab is still in:
\* the interceptors' two scope checks and authHelper's comparison of header and
\* cookie leave no order of steps in which a late answer is kept.
KeptForTheCaller ==
    \A t \in Tabs : \A u \in cache'[t] \ cache[t] :
        /\ u = stored.uid
        /\ \E r \in Reqs : /\ reqs[r].tab = t
                           /\ reqs[r].owner = u
                           /\ getAccountScope(t) \in reqs[r].asked

LateAnswersDropped == [][KeptForTheCaller]_vars

\* Tab t shows one account and caches data of another.
Mixed(t) == user[t] # None /\ ~(cache[t] \subseteq {user[t]})

\* A tab comes to hold another account's data only while an account switch of
\* another tab is under way: its `uid` is stored and its `user` is not, or the
\* event that reloads this tab is still to be delivered.
MixingNeedsASwitch ==
    [][\A t \in Tabs : ~Mixed(t) /\ Mixed(t)' =>
            stored.uid # stored.user \/ events[t] > 0]_vars

\* A tab follows the stored account: sooner or later it is reloaded.
FollowsStoredAccount ==
    \A t \in Tabs : (user[t] # stored.user) ~> (user[t] = stored.user)

\* What main.tsx says its storage listener is for: another tab's identity is not
\* mixed with this tab's private state, at the latest once every storage event
\* has been handled.
NeverMixed == \A t \in Tabs : events[t] = 0 => ~Mixed(t)
=============================================================================
