------------------------ MODULE ConsoleAccountProofs ------------------------
(***************************************************************************)
(* Safety of the console's account boundary, for any number of tabs,       *)
(* accounts and requests in flight.                                        *)
(***************************************************************************)
EXTENDS ConsoleAccount, TLAPS

\* What ties a request to the account it was made for: its callers share its
\* scope; on the wire it names the account of its scope; a positive answer to
\* a query carries the data of that account.
RequestFits(q) ==
    /\ q.phase # "free" /\ q.kind = "query" => q.asked = {q.scope}
    /\ q.phase = "sent" => q.uid = q.scope[2]
    /\ /\ q.phase = "answered" /\ q.answer = "ok"
       /\ q.kind \in {"query", "guard", "self", "finalize"}
       => q.owner \in Users /\ q.owner = q.scope[2]

AccountInv == TypeOK /\ SwitchAnnounced /\ \A r \in Reqs : RequestFits(reqs[r])

-----------------------------------------------------------------------------
(* Requests                                                                  *)

LEMMA FreeFits == Free \in Request /\ RequestFits(Free) /\ Free.phase = "free"
<1>1. (CHOOSE t \in Tabs : TRUE) \in Tabs
  BY TabsAssumption
<1>2. Free \in Request
  BY <1>1 DEF Free, Request, Phases, Kinds, Scopes, Accounts, Answers
<1> QED
  BY <1>2 DEF Free, RequestFits

LEMMA AskedFits ==
    ASSUME NEW t \in Tabs, NEW k \in Kinds, NEW s \in Scopes, NEW w \in Accounts
    PROVE  Asked(t, k, s, w) \in Request /\ RequestFits(Asked(t, k, s, w))
<1>1. Asked(t, k, s, w) \in Request
  BY DEF Asked, Request, Phases, Scopes, Accounts, Answers
<1> QED
  BY <1>1 DEF Asked, RequestFits

LEMMA ScopeTyped == ASSUME TypeOK, NEW t \in Tabs PROVE getAccountScope(t) \in Scopes
  BY DEF TypeOK, getAccountScope, Scopes

\* The browser and the server move a request along.
LEMMA DispatchedFits ==
    ASSUME NEW q \in Request, RequestFits(q), q.phase = "asked", NEW s \in Scopes,
           NEW c \in Accounts, q.kind # "login" => q.scope = s
    PROVE  /\ [q EXCEPT !.phase = "sent", !.scope = s, !.uid = s[2], !.sentCookie = c]
                  \in Request
           /\ RequestFits([q EXCEPT !.phase = "sent", !.scope = s, !.uid = s[2],
                                    !.sentCookie = c])
<1> DEFINE n == [q EXCEPT !.phase = "sent", !.scope = s, !.uid = s[2], !.sentCookie = c]
<1>1. "sent" \in Phases /\ s[2] \in Accounts
  BY DEF Phases, Scopes
<1>2. n \in Request
  BY <1>1, Zenon DEF Request
<1>3. n.phase = "sent" /\ n.scope = s /\ n.uid = s[2] /\ n.kind = q.kind /\ n.asked = q.asked
  BY DEF Request
<1>4. RequestFits(n)
  <2> HIDE DEF n
  <2> QED
    BY <1>3 DEF RequestFits
<1> QED
  BY <1>2, <1>4

LEMMA AnsweredFits ==
    ASSUME NEW q \in Request, RequestFits(q), q.phase # "free", NEW a \in Answers,
           NEW o \in Accounts,
           a = "ok" /\ q.kind \in {"query", "guard", "self", "finalize"} =>
               o \in Users /\ o = q.scope[2]
    PROVE  /\ [q EXCEPT !.phase = "answered", !.answer = a, !.owner = o] \in Request
           /\ RequestFits([q EXCEPT !.phase = "answered", !.answer = a, !.owner = o])
<1> DEFINE n == [q EXCEPT !.phase = "answered", !.answer = a, !.owner = o]
<1>1. "answered" \in Phases
  BY DEF Phases
<1>2. n \in Request
  BY <1>1, Zenon DEF Request
<1>3. /\ n.phase = "answered" /\ n.scope = q.scope /\ n.answer = a /\ n.owner = o
      /\ n.kind = q.kind /\ n.asked = q.asked
  BY DEF Request
<1>4. RequestFits(n)
  <2> HIDE DEF n
  <2> QED
    BY <1>3 DEF RequestFits
<1> QED
  BY <1>2, <1>4

\* A slot may be given any request that fits.
LEMMA SlotSet ==
    ASSUME AccountInv, NEW r \in Reqs, NEW q \in Request, RequestFits(q),
           reqs' = [reqs EXCEPT ![r] = q]
    PROVE  reqs' \in [Reqs -> Request] /\ \A s \in Reqs : RequestFits(reqs'[s])
<1>1. reqs \in [Reqs -> Request] /\ \A s \in Reqs : RequestFits(reqs[s])
  BY DEF AccountInv, TypeOK
<1>2. reqs' \in [Reqs -> Request]
  BY <1>1
<1>3. ASSUME NEW s \in Reqs PROVE RequestFits(reqs'[s])
  <2>1. reqs'[s] = reqs[s] \/ reqs'[s] = q
    BY <1>1
  <2> QED
    BY <1>1, <2>1
<1> QED
  BY <1>2, <1>3

\* The requests of a page that goes away.
LEMMA AbandonedFits ==
    ASSUME AccountInv, NEW t \in Tabs
    PROVE  /\ Abandoned(t) \in [Reqs -> Request]
           /\ \A s \in Reqs : RequestFits(Abandoned(t)[s])
<1>1. reqs \in [Reqs -> Request] /\ \A s \in Reqs : RequestFits(reqs[s])
  BY DEF AccountInv, TypeOK
<1>2. ASSUME NEW s \in Reqs
      PROVE  /\ [reqs[s] EXCEPT !.live = FALSE] \in Request
             /\ RequestFits([reqs[s] EXCEPT !.live = FALSE])
  <2>1. reqs[s] \in Request
    BY <1>1
  <2>2. [reqs[s] EXCEPT !.live = FALSE] \in Request
    BY <2>1, Zenon DEF Request
  <2>3. RequestFits([reqs[s] EXCEPT !.live = FALSE])
    BY <1>1, <2>1 DEF Request, RequestFits
  <2> QED
    BY <2>2, <2>3
<1>3. ASSUME NEW s \in Reqs
      PROVE  \/ Abandoned(t)[s] = reqs[s]
             \/ Abandoned(t)[s] = [reqs[s] EXCEPT !.live = FALSE]
             \/ Abandoned(t)[s] = Free
  BY DEF Abandoned
<1>4. ASSUME NEW s \in Reqs
      PROVE  Abandoned(t)[s] \in Request /\ RequestFits(Abandoned(t)[s])
  BY <1>1, <1>2, <1>3, FreeFits
<1>5. Abandoned(t) = [s \in Reqs |-> Abandoned(t)[s]]
  BY DEF Abandoned
<1> QED
  BY <1>4, <1>5

-----------------------------------------------------------------------------
(* The auth store                                                            *)

\* Everything but the cookie, the requests and the counter of asks.
StoreFits ==
    /\ stored \in [user : Accounts, uid : Accounts]
    /\ user \in [Tabs -> Accounts]
    /\ version \in [Tabs -> Nat]
    /\ cache \in [Tabs -> SUBSET Users]
    /\ verified \in [Tabs -> BOOLEAN]
    /\ events \in [Tabs -> Nat]
    /\ SwitchAnnounced

LEMMA StoreOfInv == ASSUME AccountInv PROVE StoreFits
  BY DEF AccountInv, StoreFits, TypeOK

LEMMA StoreUnchanged ==
    ASSUME StoreFits, UNCHANGED <<stored, user, version, cache, verified, events>>
    PROVE  StoreFits'
  BY DEF StoreFits, SwitchAnnounced

\* A tab that writes the store tells every other tab.
LEMMA Announced ==
    ASSUME StoreFits, NEW t \in Tabs, NEW u \in Accounts, Announce(t, u),
           stored' = [user |-> u, uid |-> u], user' = [user EXCEPT ![t] = u]
    PROVE  events' \in [Tabs -> Nat] /\ SwitchAnnounced'
<1>1. events \in [Tabs -> Nat] /\ user \in [Tabs -> Accounts]
  BY DEF StoreFits
<1>2. events' \in [Tabs -> Nat]
  BY <1>1 DEF Announce
<1>3. ASSUME NEW s \in Tabs, user'[s] # u PROVE events'[s] > 0
  <2>1. s # t /\ user'[s] = user[s]
    BY <1>1, <1>3
  <2>2. CASE stored.user # u
    BY <1>1, <2>1, <2>2 DEF Announce
  <2>3. CASE stored.user = u
    <3>1. events[s] > 0
      BY <1>3, <2>1, <2>3 DEF StoreFits, SwitchAnnounced
    <3> QED
      BY <2>3, <3>1 DEF Announce
  <2> QED
    BY <2>2, <2>3
<1> QED
  BY <1>2, <1>3 DEF SwitchAnnounced

LEMMA SetUserFits ==
    ASSUME StoreFits, NEW t \in Tabs, NEW u \in Accounts, NEW b \in BOOLEAN, setUser(t, u),
           verified' = [verified EXCEPT ![t] = b]
    PROVE  StoreFits'
<1>1. events' \in [Tabs -> Nat] /\ SwitchAnnounced'
  BY Announced DEF setUser
<1>2. version' \in [Tabs -> Nat] /\ cache' \in [Tabs -> SUBSET Users]
  BY DEF setUser, BumpSession, StoreFits
<1> QED
  BY <1>1, <1>2 DEF setUser, StoreFits

LEMMA ResetFits ==
    ASSUME StoreFits, NEW t \in Tabs, NEW n \in Nat, reset(t, n)
    PROVE  StoreFits'
<1>1. None \in Accounts
  BY DEF Accounts
<1>2. events' \in [Tabs -> Nat] /\ SwitchAnnounced'
  BY <1>1, Announced DEF reset
<1>3. version' \in [Tabs -> Nat] /\ cache' \in [Tabs -> SUBSET Users]
  BY DEF reset, BumpSession, StoreFits
<1> QED
  BY <1>1, <1>2, <1>3 DEF reset, StoreFits

LEMMA PageLoadFits ==
    ASSUME StoreFits, NEW t \in Tabs, PageLoad(t), UNCHANGED stored,
           events' = [events EXCEPT ![t] = 0]
    PROVE  StoreFits'
<1>1. \A s \in Tabs : s # t => user'[s] = user[s] /\ events'[s] = events[s]
  BY DEF PageLoad, StoreFits
<1>2. user'[t] = stored.user
  BY DEF PageLoad, StoreFits
<1>3. SwitchAnnounced'
  BY <1>1, <1>2 DEF SwitchAnnounced, StoreFits
<1>4. /\ user' \in [Tabs -> Accounts] /\ version' \in [Tabs -> Nat]
      /\ cache' \in [Tabs -> SUBSET Users] /\ verified' \in [Tabs -> BOOLEAN]
      /\ events' \in [Tabs -> Nat]
  BY DEF PageLoad, StoreFits
<1> QED
  BY <1>3, <1>4 DEF StoreFits

\* The parts make up the invariant.
LEMMA InvOfParts ==
    ASSUME StoreFits', cookie' \in Accounts, asks' \in Nat,
           reqs' \in [Reqs -> Request], \A s \in Reqs : RequestFits(reqs'[s])
    PROVE  AccountInv'
  BY DEF AccountInv, TypeOK, StoreFits

-----------------------------------------------------------------------------
(* Steps of a tab                                                            *)

LEMMA StartFits ==
    ASSUME AccountInv, NEW t \in Tabs, NEW k \in Kinds, NEW w \in Accounts,
           Start(t, k, w), UNCHANGED <<cookie, stored, user, version, cache, verified, events>>
    PROVE  AccountInv'
<1>1. PICK r \in Reqs : reqs' = [reqs EXCEPT ![r] = Asked(t, k, getAccountScope(t), w)]
  BY DEF Start
<1>2. Asked(t, k, getAccountScope(t), w) \in Request
      /\ RequestFits(Asked(t, k, getAccountScope(t), w))
  BY AskedFits, ScopeTyped DEF AccountInv
<1>3. reqs' \in [Reqs -> Request] /\ \A s \in Reqs : RequestFits(reqs'[s])
  BY <1>1, <1>2, SlotSet
<1>4. asks' \in Nat /\ cookie' \in Accounts
  BY DEF AccountInv, TypeOK, Start
<1> QED
  BY <1>3, <1>4, StoreOfInv, StoreUnchanged, InvOfParts

LEMMA QueryFits ==
    ASSUME AccountInv, NEW t \in Tabs, NEW own \in BOOLEAN, Query(t, own)
    PROVE  AccountInv'
<1>1. /\ asks' \in Nat /\ cookie' \in Accounts
      /\ UNCHANGED <<stored, user, version, cache, verified, events>>
  BY DEF AccountInv, TypeOK, Query
<1>2. None \in Accounts /\ "query" \in Kinds
  BY DEF Accounts, Kinds
<1>3. getAccountScope(t) \in Scopes
  BY ScopeTyped DEF AccountInv
<1>4. CASE \E r \in Reqs : /\ InFlightKey(r, t)
                           /\ reqs' = [reqs EXCEPT ![r].asked = @ \cup {getAccountScope(t)}]
  <2>1. PICK r \in Reqs : /\ InFlightKey(r, t)
                          /\ reqs' = [reqs EXCEPT ![r].asked = @ \cup {getAccountScope(t)}]
    BY <1>4
  <2>2. reqs \in [Reqs -> Request] /\ RequestFits(reqs[r]) /\ reqs[r] \in Request
    BY DEF AccountInv, TypeOK
  <2>3. reqs[r].asked \cup {getAccountScope(t)} = reqs[r].asked
    BY <2>1, <2>2 DEF RequestFits, InFlightKey
  <2>4. reqs' = [reqs EXCEPT ![r] = reqs[r]]
    BY <2>1, <2>2, <2>3 DEF Request
  <2>5. reqs' \in [Reqs -> Request] /\ \A s \in Reqs : RequestFits(reqs'[s])
    BY <2>2, <2>4, SlotSet
  <2> QED
    BY <1>1, <2>5, StoreOfInv, StoreUnchanged, InvOfParts
<1>5. CASE \E r \in Reqs :
               reqs' = [reqs EXCEPT ![r] = Asked(t, "query", getAccountScope(t), None)]
  <2>1. PICK r \in Reqs :
            reqs' = [reqs EXCEPT ![r] = Asked(t, "query", getAccountScope(t), None)]
    BY <1>5
  <2>2. reqs' \in [Reqs -> Request] /\ \A s \in Reqs : RequestFits(reqs'[s])
    BY <1>2, <1>3, <2>1, AskedFits, SlotSet
  <2> QED
    BY <1>1, <2>2, StoreOfInv, StoreUnchanged, InvOfParts
<1> QED
  BY <1>4, <1>5 DEF Query

LEMMA OAuthStartFits ==
    ASSUME AccountInv, NEW t \in Tabs, OAuthStart(t) PROVE AccountInv'
<1>1. StoreFits'
  BY StoreOfInv, ResetFits DEF OAuthStart
<1>2. asks' \in Nat /\ cookie' \in Accounts
  BY DEF AccountInv, TypeOK, OAuthStart
<1>3. <<version'[t], None>> \in Scopes /\ None \in Accounts /\ "leave" \in Kinds
  BY <1>1 DEF StoreFits, Scopes, Accounts, Kinds
<1>4. PICK r \in Reqs : reqs' = [reqs EXCEPT ![r] = Asked(t, "leave", <<version'[t], None>>, None)]
  BY DEF OAuthStart
<1>5. reqs' \in [Reqs -> Request] /\ \A s \in Reqs : RequestFits(reqs'[s])
  BY <1>3, <1>4, AskedFits, SlotSet
<1> QED
  BY <1>1, <1>2, <1>5, InvOfParts

LEMMA OAuthCallbackFits ==
    ASSUME AccountInv, NEW t \in Tabs, NEW u \in Users, OAuthCallback(t, u)
    PROVE  AccountInv'
<1>1. StoreFits'
  BY StoreOfInv, PageLoadFits DEF OAuthCallback
<1>2. asks' \in Nat /\ cookie' \in Accounts
  BY DEF AccountInv, TypeOK, OAuthCallback
<1>3. <<0, stored.uid>> \in Scopes /\ u \in Accounts /\ "oauth" \in Kinds
  BY DEF AccountInv, TypeOK, Scopes, Accounts, Kinds
<1>4. PICK r \in Reqs :
          reqs' = [Abandoned(t) EXCEPT ![r] = Asked(t, "oauth", <<0, stored.uid>>, u)]
  BY DEF OAuthCallback
<1>5. /\ Asked(t, "oauth", <<0, stored.uid>>, u) \in Request
      /\ RequestFits(Asked(t, "oauth", <<0, stored.uid>>, u))
  BY <1>3, AskedFits
<1>6. /\ Abandoned(t) \in [Reqs -> Request]
      /\ \A s \in Reqs : RequestFits(Abandoned(t)[s])
  BY AbandonedFits
<1>7. reqs' \in [Reqs -> Request]
  BY <1>4, <1>5, <1>6
<1>8. ASSUME NEW s \in Reqs PROVE RequestFits(reqs'[s])
  <2>1. \/ reqs'[s] = Abandoned(t)[s]
        \/ reqs'[s] = Asked(t, "oauth", <<0, stored.uid>>, u)
    BY <1>4, <1>6
  <2> QED
    BY <1>5, <1>6, <2>1
<1> QED
  BY <1>1, <1>2, <1>7, <1>8, InvOfParts

LEMMA StorageEventFits ==
    ASSUME AccountInv, NEW t \in Tabs, StorageEvent(t) PROVE AccountInv'
<1>1. asks' \in Nat /\ cookie' \in Accounts /\ UNCHANGED stored
  BY DEF AccountInv, TypeOK, StorageEvent
<1>2. CASE PageLoad(t) /\ reqs' = Abandoned(t) /\ events' = [events EXCEPT ![t] = 0]
  BY <1>1, <1>2, StoreOfInv, PageLoadFits, AbandonedFits, InvOfParts
<1>3. CASE /\ stored.user = user[t]
           /\ events' = [events EXCEPT ![t] = @ - 1]
           /\ UNCHANGED <<user, version, cache, verified, reqs>>
  <2>1. events' \in [Tabs -> Nat]
    BY <1>3 DEF StorageEvent, AccountInv, TypeOK
  <2>2. SwitchAnnounced'
    BY <1>1, <1>3 DEF AccountInv, SwitchAnnounced, TypeOK
  <2> QED
    BY <1>1, <1>3, <2>1, <2>2 DEF AccountInv, TypeOK
<1> QED
  BY <1>2, <1>3 DEF StorageEvent

-----------------------------------------------------------------------------
(* Steps of a request                                                        *)

LEMMA DispatchFits ==
    ASSUME AccountInv, NEW r \in Reqs, Dispatch(r) PROVE AccountInv'
<1> DEFINE q == reqs[r]
           s == getAccountScope(q.tab)
<1>1. q \in Request /\ RequestFits(q) /\ q.phase = "asked" /\ q.tab \in Tabs
  BY DEF AccountInv, TypeOK, Dispatch, Request
<1>2. s \in Scopes /\ cookie \in Accounts /\ stored.uid = s[2]
  BY <1>1, ScopeTyped DEF AccountInv, TypeOK, getAccountScope
<1>3. /\ asks' \in Nat /\ cookie' \in Accounts
      /\ UNCHANGED <<stored, user, version, cache, verified, events>>
  BY DEF AccountInv, TypeOK, Dispatch, tabVars
<1>4. reqs' \in [Reqs -> Request] /\ \A x \in Reqs : RequestFits(reqs'[x])
  <2>1. CASE q.kind # "login" /\ q.scope # s
    <3>1. reqs' = [reqs EXCEPT ![r] =
                      [q EXCEPT !.phase = "answered", !.answer = "failed", !.owner = q.owner]]
      BY <1>1, <2>1 DEF Dispatch, Request
    <3>2. "failed" \in Answers /\ q.owner \in Accounts
      BY <1>1 DEF Answers, Request
    <3>3. /\ [q EXCEPT !.phase = "answered", !.answer = "failed", !.owner = q.owner]
                 \in Request
          /\ RequestFits([q EXCEPT !.phase = "answered", !.answer = "failed",
                                   !.owner = q.owner])
      BY <1>1, <3>2, AnsweredFits
    <3> QED
      BY <3>1, <3>3, SlotSet
  <2>2. CASE ~(q.kind # "login" /\ q.scope # s)
    <3>1. reqs' = [reqs EXCEPT ![r] = [q EXCEPT !.phase = "sent", !.scope = s,
                                                !.uid = s[2], !.sentCookie = cookie]]
      BY <1>2, <2>2 DEF Dispatch
    <3>2. /\ [q EXCEPT !.phase = "sent", !.scope = s, !.uid = s[2], !.sentCookie = cookie]
                 \in Request
          /\ RequestFits([q EXCEPT !.phase = "sent", !.scope = s, !.uid = s[2],
                                   !.sentCookie = cookie])
      BY <1>1, <1>2, <2>2, DispatchedFits
    <3> QED
      BY <3>1, <3>2, SlotSet
  <2> QED
    BY <2>1, <2>2
<1> QED
  BY <1>3, <1>4, StoreOfInv, StoreUnchanged, InvOfParts

LEMMA AnswerFits ==
    ASSUME AccountInv, NEW r \in Reqs, Answer(r) PROVE AccountInv'
<1> DEFINE q == reqs[r]
           Arrive(a, o) ==
               IF q.live THEN [q EXCEPT !.phase = "answered", !.answer = a, !.owner = o]
                         ELSE Free
<1>1. q \in Request /\ RequestFits(q) /\ q.phase = "sent"
  BY DEF AccountInv, TypeOK, Answer
<1>2. /\ q.owner \in Accounts /\ q.sentCookie \in Accounts /\ None \in Accounts
      /\ q.uid = q.scope[2]
      /\ "ok" \in Answers /\ "refused" \in Answers /\ "failed" \in Answers
  BY <1>1 DEF Request, Accounts, Answers, RequestFits
<1>3. ASSUME NEW a \in Answers, NEW o \in Accounts,
             a = "ok" /\ q.kind \in {"query", "guard", "self", "finalize"} =>
                 o \in Users /\ o = q.scope[2],
             reqs' = [reqs EXCEPT ![r] = Arrive(a, o)]
      PROVE  reqs' \in [Reqs -> Request] /\ \A s \in Reqs : RequestFits(reqs'[s])
  <2>1. /\ [q EXCEPT !.phase = "answered", !.answer = a, !.owner = o] \in Request
        /\ RequestFits([q EXCEPT !.phase = "answered", !.answer = a, !.owner = o])
    BY <1>1, <1>3, AnsweredFits
  <2>2. Arrive(a, o) \in Request /\ RequestFits(Arrive(a, o))
    BY <2>1, FreeFits
  <2> HIDE DEF Arrive
  <2> QED
    BY <1>3, <2>2, SlotSet
<1>4. /\ reqs' \in [Reqs -> Request] /\ \A s \in Reqs : RequestFits(reqs'[s])
      /\ cookie' \in Accounts
  <2>1. cookie' \in Accounts
    BY <1>2 DEF AccountInv, TypeOK, Answer
  <2>2. CASE /\ q.kind \in {"query", "guard", "self", "finalize"}
             /\ reqs' = [reqs EXCEPT ![r] = IF authHelper(q) THEN Arrive("ok", q.sentCookie)
                                                             ELSE Arrive("refused", None)]
    <3>1. CASE authHelper(q)
      <4>1. q.sentCookie \in Users /\ q.sentCookie = q.scope[2]
        BY <1>2, <3>1 DEF authHelper, Accounts
      <4>2. reqs' = [reqs EXCEPT ![r] = Arrive("ok", q.sentCookie)]
        BY <2>2, <3>1
      <4> HIDE DEF Arrive
      <4> QED
        BY <1>2, <1>3, <2>1, <4>1, <4>2
    <3>2. CASE ~authHelper(q)
      <4>1. reqs' = [reqs EXCEPT ![r] = Arrive("refused", None)]
        BY <2>2, <3>2
      <4> HIDE DEF Arrive
      <4> QED
        BY <1>2, <1>3, <2>1, <4>1
    <3> QED
      BY <3>1, <3>2
  <2>3. CASE q.kind \in {"login", "oauth"} /\ reqs' = [reqs EXCEPT ![r] = Arrive("ok", q.owner)]
    <3> HIDE DEF Arrive
    <3> QED
      BY <1>2, <1>3, <2>1, <2>3
  <2>4. CASE q.kind \in {"logout", "leave"} /\ reqs' = [reqs EXCEPT ![r] = Arrive("ok", None)]
    <3> HIDE DEF Arrive
    <3> QED
      BY <1>2, <1>3, <2>1, <2>4
  <2>5. CASE reqs' = [reqs EXCEPT ![r] = Arrive("failed", q.owner)]
    <3> HIDE DEF Arrive
    <3> QED
      BY <1>2, <1>3, <2>1, <2>5
  <2> QED
    BY <2>2, <2>3, <2>4, <2>5 DEF Answer
<1>5. asks' \in Nat /\ UNCHANGED <<stored, user, version, cache, verified, events>>
  BY DEF AccountInv, TypeOK, Answer, tabVars
<1> QED
  BY <1>4, <1>5, StoreOfInv, StoreUnchanged, InvOfParts

\* A delivery that ends a request, or follows it up with another.
LEMMA EndFits ==
    ASSUME AccountInv, NEW r \in Reqs, StoreFits', cookie' = cookie, asks' = asks,
           \/ Done(r)
           \/ \E t \in Tabs, k \in Kinds, s \in Scopes :
                  reqs' = [reqs EXCEPT ![r] = Asked(t, k, s, None)]
    PROVE  AccountInv'
<1>1. None \in Accounts
  BY DEF Accounts
<1>2. reqs' \in [Reqs -> Request] /\ \A s \in Reqs : RequestFits(reqs'[s])
  <2>1. CASE Done(r)
    BY <2>1, FreeFits, SlotSet DEF Done
  <2>2. ASSUME NEW t \in Tabs, NEW k \in Kinds, NEW s \in Scopes,
               reqs' = [reqs EXCEPT ![r] = Asked(t, k, s, None)]
        PROVE  reqs' \in [Reqs -> Request] /\ \A x \in Reqs : RequestFits(reqs'[x])
    BY <1>1, <2>2, AskedFits, SlotSet
  <2> QED
    BY <2>1, <2>2
<1>3. asks' \in Nat /\ cookie' \in Accounts
  BY DEF AccountInv, TypeOK
<1> QED
  BY <1>2, <1>3, InvOfParts

LEMMA DeliverFits ==
    ASSUME AccountInv, NEW r \in Reqs, Deliver(r) PROVE AccountInv'
<1> DEFINE q == reqs[r]
<1>1. /\ q \in Request /\ RequestFits(q) /\ q.tab \in Tabs /\ q.owner \in Accounts
      /\ "self" \in Kinds /\ "finalize" \in Kinds
  BY DEF AccountInv, TypeOK, Request, Kinds
<1>2. CASE DeliverRefusal(r)
  <2>1. (IF q.kind = "guard" THEN 2 ELSE 1) \in Nat
    OBVIOUS
  <2>2. StoreFits'
    BY <1>1, <1>2, <2>1, StoreOfInv, ResetFits DEF DeliverRefusal
  <2> QED
    BY <1>2, <2>2, EndFits DEF DeliverRefusal
<1>3. CASE DeliverNothing(r)
  BY <1>3, StoreOfInv, StoreUnchanged, EndFits DEF DeliverNothing, tabVars
<1>4. CASE DeliverQuery(r)
  <2>1. q.owner \in Users
    BY <1>1, <1>4 DEF DeliverQuery, Answered, Accepted, RequestFits
  <2>2. StoreFits'
    BY <1>1, <1>4, <2>1, StoreOfInv DEF DeliverQuery, StoreFits, SwitchAnnounced
  <2> QED
    BY <1>4, <2>2, EndFits DEF DeliverQuery
<1>5. CASE DeliverGuard(r)
  <2>1. StoreFits'
    BY <1>1, <1>5, StoreOfInv, SetUserFits DEF DeliverGuard
  <2> QED
    BY <1>5, <2>1, EndFits DEF DeliverGuard
<1>6. CASE DeliverLogin(r)
  <2>1. StoreFits'
    BY <1>1, <1>6, StoreOfInv DEF DeliverLogin, StoreFits, SwitchAnnounced, tabVars
  <2>2. <<version[q.tab], q.owner>> \in Scopes
    BY <1>1 DEF AccountInv, TypeOK, Scopes
  <2>3. reqs' = [reqs EXCEPT ![r] = Asked(q.tab, "self", <<version[q.tab], q.owner>>, None)]
    BY <1>6 DEF DeliverLogin
  <2> QED
    BY <1>1, <1>6, <2>1, <2>2, <2>3, EndFits DEF DeliverLogin
<1>7. CASE DeliverOAuth(r)
  <2>1. CASE Accepted(q)
    <3>1. StoreFits'
      BY <1>1, <1>7, <2>1, StoreOfInv, SetUserFits DEF DeliverOAuth
    <3>2. <<version'[q.tab], q.owner>> \in Scopes
      BY <1>1, <3>1 DEF StoreFits, Scopes
    <3>3. reqs' = [reqs EXCEPT ![r] = Asked(q.tab, "self", <<version'[q.tab], q.owner>>, None)]
      BY <1>7, <2>1 DEF DeliverOAuth
    <3> QED
      BY <1>1, <1>7, <3>1, <3>2, <3>3, EndFits DEF DeliverOAuth
  <2>2. CASE ~Accepted(q)
    <3>1. StoreFits'
      BY <1>7, <2>2, StoreOfInv, StoreUnchanged DEF DeliverOAuth, tabVars
    <3>2. getAccountScope(q.tab) \in Scopes
      BY <1>1, ScopeTyped DEF AccountInv
    <3>3. reqs' = [reqs EXCEPT ![r] = Asked(q.tab, "finalize", getAccountScope(q.tab), None)]
      BY <1>7, <2>2 DEF DeliverOAuth
    <3> QED
      BY <1>1, <1>7, <3>1, <3>2, <3>3, EndFits DEF DeliverOAuth
  <2> QED
    BY <2>1, <2>2
<1>8. CASE DeliverSelf(r)
  <2>1. StoreFits'
    BY <1>1, <1>8, StoreOfInv, SetUserFits DEF DeliverSelf
  <2>2. <<version'[q.tab], q.owner>> \in Scopes
    BY <1>1, <2>1 DEF StoreFits, Scopes
  <2>3. CASE q.kind = "finalize"
    <3>1. reqs' = [reqs EXCEPT ![r] = Asked(q.tab, "self", <<version'[q.tab], q.owner>>, None)]
      BY <1>8, <2>3 DEF DeliverSelf
    <3> QED
      BY <1>1, <1>8, <2>1, <2>2, <3>1, EndFits DEF DeliverSelf
  <2>4. CASE q.kind # "finalize"
    <3>1. Done(r)
      BY <1>8, <2>4 DEF DeliverSelf, Done
    <3> QED
      BY <1>8, <2>1, <3>1, EndFits DEF DeliverSelf
  <2> QED
    BY <2>3, <2>4
<1>9. CASE DeliverSignOut(r)
  <2>1. StoreFits'
    BY <1>1, <1>9, StoreOfInv, ResetFits DEF DeliverSignOut
  <2> QED
    BY <1>9, <2>1, EndFits DEF DeliverSignOut
<1> QED
  BY <1>2, <1>3, <1>4, <1>5, <1>6, <1>7, <1>8, <1>9 DEF Deliver

-----------------------------------------------------------------------------
(* The invariant                                                             *)

LEMMA AccountInit == Init => AccountInv
<1> SUFFICES ASSUME Init PROVE AccountInv
  OBVIOUS
<1>1. reqs \in [Reqs -> Request] /\ \A r \in Reqs : RequestFits(reqs[r])
  BY FreeFits DEF Init
<1>2. TypeOK
  BY <1>1 DEF Init, TypeOK
<1>3. SwitchAnnounced
  BY DEF Init, SwitchAnnounced
<1> QED
  BY <1>1, <1>2, <1>3 DEF AccountInv

LEMMA AccountNext == AccountInv /\ [Next]_vars => AccountInv'
<1> SUFFICES ASSUME AccountInv, [Next]_vars PROVE AccountInv'
  OBVIOUS
<1>1. ASSUME NEW t \in Tabs, TabStep(t) PROVE AccountInv'
  <2>1. None \in Accounts /\ Users \subseteq Accounts
    BY DEF Accounts
  <2>2. "guard" \in Kinds /\ "login" \in Kinds /\ "logout" \in Kinds
    BY DEF Kinds
  <2>3. ASSUME NEW own \in BOOLEAN, Query(t, own) PROVE AccountInv'
    BY <2>3, QueryFits
  <2>4. CASE Guard(t)
    BY <2>1, <2>2, <2>4, StartFits DEF Guard
  <2>5. ASSUME NEW u \in Users, Login(t, u) PROVE AccountInv'
    BY <2>1, <2>2, <2>5, StartFits DEF Login
  <2>6. CASE SignOut(t)
    BY <2>1, <2>2, <2>6, StartFits DEF SignOut
  <2>7. CASE OAuthStart(t)
    BY <2>7, OAuthStartFits
  <2>8. ASSUME NEW u \in Users, OAuthCallback(t, u) PROVE AccountInv'
    BY <2>8, OAuthCallbackFits
  <2>9. CASE StorageEvent(t)
    BY <2>9, StorageEventFits
  <2> QED
    BY <1>1, <2>3, <2>4, <2>5, <2>6, <2>7, <2>8, <2>9 DEF TabStep
<1>2. ASSUME NEW r \in Reqs, Dispatch(r) \/ Answer(r) \/ Deliver(r) PROVE AccountInv'
  BY <1>2, DispatchFits, AnswerFits, DeliverFits
<1>3. CASE UNCHANGED vars
  <2>1. UNCHANGED <<stored, user, version, cache, verified, events>>
    BY <1>3 DEF vars
  <2>2. StoreFits'
    BY <2>1, StoreOfInv, StoreUnchanged
  <2> QED
    BY <1>3, <2>2 DEF vars, AccountInv, TypeOK, StoreFits
<1> QED
  BY <1>1, <1>2, <1>3 DEF Next

\* Types, requests and storage events agree in every state.
THEOREM AccountInvariant == Spec => []AccountInv
  BY AccountInit, AccountNext, PTL DEF Spec

\* The types of the console's state.
THEOREM AccountTypes == Spec => []TypeOK
<1>1. AccountInv => TypeOK
  BY DEF AccountInv
<1> QED
  BY <1>1, AccountInvariant, PTL

\* No tab misses a switch made by another tab: the storage event that tells it
\* is on its way (auth-store.ts, main.tsx).
THEOREM SwitchesAreAnnounced == Spec => []SwitchAnnounced
<1>1. AccountInv => SwitchAnnounced
  BY DEF AccountInv
<1> QED
  BY <1>1, AccountInvariant, PTL

\* Callers share a request in flight only within one account scope (api.get).
THEOREM SharingStaysInScope == Spec => []SharedWithinScope
<1>1. AccountInv => SharedWithinScope
  BY DEF AccountInv, SharedWithinScope, RequestFits
<1> QED
  BY <1>1, AccountInvariant, PTL

-----------------------------------------------------------------------------
(* What enters a tab's cache                                                 *)

\* A tab's cache grows only by the answer to one of its queries; every other
\* step leaves the tab's account alone, signs it out or empties the cache.
CacheShrinks(t) ==
    /\ cache'[t] \subseteq cache[t]
    /\ user'[t] = user[t] \/ user'[t] = None \/ cache'[t] = {}

LEMMA CacheUnchanged ==
    ASSUME NEW t \in Tabs, UNCHANGED <<user, cache>> PROVE CacheShrinks(t)
  BY DEF CacheShrinks

LEMMA CacheSteps ==
    ASSUME AccountInv, Next, NEW t \in Tabs
    PROVE  CacheShrinks(t) \/ \E r \in Reqs : DeliverQuery(r) /\ reqs[r].tab = t
<1>1. /\ user \in [Tabs -> Accounts] /\ version \in [Tabs -> Nat]
      /\ cache \in [Tabs -> SUBSET Users]
  BY DEF AccountInv, TypeOK
<1>2. ASSUME NEW s \in Tabs, NEW u \in Accounts, setUser(s, u) PROVE CacheShrinks(t)
  BY <1>1, <1>2 DEF setUser, BumpSession, CacheShrinks
<1>3. ASSUME NEW s \in Tabs, NEW n \in Nat, reset(s, n) PROVE CacheShrinks(t)
  BY <1>1, <1>3 DEF reset, BumpSession, CacheShrinks
<1>4. ASSUME NEW s \in Tabs, PageLoad(s) PROVE CacheShrinks(t)
  BY <1>1, <1>4 DEF PageLoad, CacheShrinks
<1>5. ASSUME NEW s \in Tabs, TabStep(s) PROVE CacheShrinks(t)
  <2>1. \/ UNCHANGED <<user, cache>>
        \/ reset(s, 1)
        \/ PageLoad(s)
    BY <1>5 DEF TabStep, Query, Guard, Login, SignOut, OAuthStart, OAuthCallback, StorageEvent
  <2> QED
    BY <1>3, <1>4, <2>1, CacheUnchanged
<1>6. ASSUME NEW r \in Reqs, Dispatch(r) \/ Answer(r) PROVE CacheShrinks(t)
  BY <1>6, CacheUnchanged DEF Dispatch, Answer, tabVars
<1>7. ASSUME NEW r \in Reqs, Deliver(r)
      PROVE  CacheShrinks(t) \/ (DeliverQuery(r) /\ reqs[r].tab = t)
  <2>1. reqs[r].tab \in Tabs /\ reqs[r].owner \in Accounts
    BY DEF AccountInv, TypeOK, Request
  <2>2. CASE DeliverRefusal(r) \/ DeliverSignOut(r)
    <3>1. reset(reqs[r].tab, 1) \/ reset(reqs[r].tab, 2)
      BY <2>2 DEF DeliverRefusal, DeliverSignOut
    <3> QED
      BY <1>3, <2>1, <3>1
  <2>3. CASE DeliverNothing(r) \/ DeliverLogin(r)
    BY <2>3, CacheUnchanged DEF DeliverNothing, DeliverLogin, tabVars
  <2>4. CASE DeliverQuery(r)
    <3>1. reqs[r].tab # t => cache'[t] = cache[t] /\ user'[t] = user[t]
      BY <1>1, <2>1, <2>4 DEF DeliverQuery
    <3> QED
      BY <2>4, <3>1 DEF CacheShrinks
  <2>5. CASE DeliverGuard(r) \/ DeliverSelf(r)
    BY <1>2, <2>1, <2>5 DEF DeliverGuard, DeliverSelf
  <2>6. CASE DeliverOAuth(r)
    <3>1. setUser(reqs[r].tab, reqs[r].owner) \/ UNCHANGED <<user, cache>>
      BY <2>6 DEF DeliverOAuth, tabVars
    <3> QED
      BY <1>2, <2>1, <3>1, CacheUnchanged
  <2> QED
    BY <1>7, <2>2, <2>3, <2>4, <2>5, <2>6 DEF Deliver
<1> QED
  BY <1>5, <1>6, <1>7 DEF Next

\* The data of an accepted query is that of the stored account, asked for in the
\* scope the tab is in.
LEMMA QueryDelivers ==
    ASSUME AccountInv, NEW r \in Reqs, DeliverQuery(r)
    PROVE  /\ reqs[r].tab \in Tabs /\ reqs[r].owner = stored.uid
           /\ getAccountScope(reqs[r].tab) \in reqs[r].asked
           /\ cache'[reqs[r].tab] = cache[reqs[r].tab] \cup {reqs[r].owner}
           /\ UNCHANGED <<user, stored>>
<1>1. /\ reqs[r] \in Request /\ RequestFits(reqs[r]) /\ reqs[r].tab \in Tabs
      /\ cache \in [Tabs -> SUBSET Users]
  BY DEF AccountInv, TypeOK, Request
<1>2. /\ reqs[r].phase = "answered" /\ reqs[r].kind = "query" /\ reqs[r].answer = "ok"
      /\ reqs[r].scope = getAccountScope(reqs[r].tab)
  BY DEF DeliverQuery, Answered, Accepted, SameScope
<1>3. reqs[r].owner = reqs[r].scope[2] /\ reqs[r].asked = {reqs[r].scope}
  BY <1>1, <1>2 DEF RequestFits
<1> QED
  BY <1>1, <1>2, <1>3 DEF DeliverQuery, getAccountScope

LEMMA CacheKeeps == AccountInv /\ [Next]_vars => [KeptForTheCaller]_vars
<1> SUFFICES ASSUME AccountInv, Next PROVE KeptForTheCaller
  OBVIOUS
<1> SUFFICES ASSUME NEW t \in Tabs, NEW u \in cache'[t] \ cache[t]
             PROVE  /\ u = stored.uid
                    /\ \E r \in Reqs : /\ reqs[r].tab = t
                                       /\ reqs[r].owner = u
                                       /\ getAccountScope(t) \in reqs[r].asked
  BY DEF KeptForTheCaller
<1>1. PICK r \in Reqs : DeliverQuery(r) /\ reqs[r].tab = t
  BY CacheSteps DEF CacheShrinks
<1>2. u = reqs[r].owner
  BY <1>1, QueryDelivers
<1> QED
  BY <1>1, <1>2, QueryDelivers

\* Whatever the order of switches, dispatches and answers, what enters a tab's
\* query cache belongs to the stored account and was asked for in the tab's
\* present session (the interceptors of lib/api.ts and authHelper).
THEOREM LateAnswersAreDropped == Spec => LateAnswersDropped
<1>1. AccountInv /\ [Next]_vars => [KeptForTheCaller]_vars
  BY CacheKeeps
<1> QED
  BY <1>1, AccountInvariant, PTL DEF Spec, LateAnswersDropped

LEMMA MixingSteps ==
    AccountInv /\ [Next]_vars =>
        [\A t \in Tabs : ~Mixed(t) /\ Mixed(t)' =>
              stored.uid # stored.user \/ events[t] > 0]_vars
<1> SUFFICES ASSUME AccountInv, Next, NEW t \in Tabs, ~Mixed(t), Mixed(t)'
             PROVE  stored.uid # stored.user \/ events[t] > 0
  OBVIOUS
<1>1. PICK r \in Reqs : DeliverQuery(r) /\ reqs[r].tab = t
  BY CacheSteps DEF CacheShrinks, Mixed
<1>2. user'[t] = user[t] /\ cache'[t] = cache[t] \cup {stored.uid}
  BY <1>1, QueryDelivers
<1>3. user[t] # stored.uid
  BY <1>2 DEF Mixed
<1> QED
  BY <1>3 DEF AccountInv, SwitchAnnounced

\* A tab comes to hold another account's data only while a switch of another tab
\* is under way.
THEOREM MixingMeansASwitch == Spec => MixingNeedsASwitch
<1>1. AccountInv /\ [Next]_vars =>
          [\A t \in Tabs : ~Mixed(t) /\ Mixed(t)' =>
                stored.uid # stored.user \/ events[t] > 0]_vars
  BY MixingSteps
<1> QED
  BY <1>1, AccountInvariant, PTL DEF Spec, MixingNeedsASwitch
=============================================================================
