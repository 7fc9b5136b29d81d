---------------------------- MODULE LoginSession ----------------------------
(***************************************************************************)
(* One user's session: the axios client of the frontend (api/request.js),  *)
(* its auth store and route guard, and AuthService behind them.            *)
(*                                                                         *)
(* A first 401 starts a silent refresh; the 401s that come in meanwhile    *)
(* wait for it.  A refresh exchanges the refresh token for a new pair, and *)
(* Redis holds one refresh token per user, so a token works once.  The     *)
(* tabs of a browser share localStorage and nothing else.                  *)
(***************************************************************************)
EXTENDS Naturals, FiniteSets

CONSTANTS
    Tabs,      \* tabs of the browser
    Reqs,      \* requests a tab may have open at once
    Logout,    \* the request of auth.logout()
    MaxTokens  \* bound: pairs of tokens the server issues

ASSUME SessionAssumption ==
    /\ Logout \notin Reqs
    /\ MaxTokens \in Nat \ {0}

\* A pair of tokens is the number of its issue; 0 is no token.
NoToken == 0

Slots == Reqs \cup {Logout}

VARIABLES
    issued,       \* pairs issued so far
    live,         \* pairs whose access token the server accepts
    stored,       \* the refresh token Redis holds for the user
    lsAccess,     \* access_token in localStorage
    lsRefresh,    \* refresh_token in localStorage
    loggedIn,     \* isLoggedIn of the auth store of each tab
    page,         \* the route each tab shows
    isRefreshing, \* the client's flag, in each tab
    pending,      \* pendingRequests, in each tab
    call,         \* the tab's call of refresh-token
    req,          \* the tab's requests
    disturbed     \* history: a logout, another device, 30 days or a lost answer came between

server == <<issued, live, stored>>
storage == <<lsAccess, lsRefresh>>
vars == <<issued, live, stored, lsAccess, lsRefresh, loggedIn, page,
          isRefreshing, pending, call, req, disturbed>>

\* A request is idle, under way, waiting for a refresh, or the one that started it.
Requests == [st : {"idle", "sent", "queued", "refreshing"}, tok : Nat, retry : BOOLEAN]

\* A refresh: sent, then the three steps of AuthService.refreshToken, then its answer.
Calls == [st : {"none", "sent", "checked", "deleted", "granted", "refused"},
          tok : Nat, new : Nat]

Idle == [st |-> "idle", tok |-> NoToken, retry |-> FALSE]
NoCall == [st |-> "none", tok |-> NoToken, new |-> NoToken]

TypeOK ==
    /\ issued \in Nat
    /\ live \subseteq Nat
    /\ stored \in Nat
    /\ lsAccess \in Nat
    /\ lsRefresh \in Nat
    /\ loggedIn \in [Tabs -> BOOLEAN]
    /\ page \in [Tabs -> {"app", "login"}]
    /\ isRefreshing \in [Tabs -> BOOLEAN]
    /\ pending \in [Tabs -> SUBSET Slots]
    /\ call \in [Tabs -> Calls]
    /\ req \in [Tabs -> [Slots -> Requests]]
    /\ disturbed \in BOOLEAN

\* The user has logged in and opened the tabs.
Init ==
    /\ issued = 1
    /\ live = {1}
    /\ stored = 1
    /\ lsAccess = 1
    /\ lsRefresh = 1
    /\ loggedIn = [t \in Tabs |-> TRUE]
    /\ page = [t \in Tabs |-> "app"]
    /\ isRefreshing = [t \in Tabs |-> FALSE]
    /\ pending = [t \in Tabs |-> {}]
    /\ call = [t \in Tabs |-> NoCall]
    /\ req = [t \in Tabs |-> [s \in Slots |-> Idle]]
    /\ disturbed = FALSE
-----------------------------------------------------------------------------
(* Leaving the session.                                                    *)

\* The guard of router.beforeEach on a push to /login.
PageAfterPush(t) == IF loggedIn[t] THEN "app" ELSE "login"

\* clearAuth of the store, after a logout.
ClearAuth(t) ==
    /\ lsAccess' = NoToken
    /\ lsRefresh' = NoToken
    /\ loggedIn' = [loggedIn EXCEPT ![t] = FALSE]
    /\ page' = [page EXCEPT ![t] = "login"]

\* clearAuthAndRedirect of the client; it does not reach the store.  A logout
\* that was waiting for its answer then goes through clearAuth.
ClearAuthAndRedirect(t, s) ==
    /\ isRefreshing' = [isRefreshing EXCEPT ![t] = FALSE]
    /\ pending' = [pending EXCEPT ![t] = {}]
    /\ IF s = Logout
       THEN ClearAuth(t)
       ELSE /\ lsAccess' = NoToken
            /\ lsRefresh' = NoToken
            /\ page' = [page EXCEPT ![t] = PageAfterPush(t)]
            /\ UNCHANGED loggedIn
-----------------------------------------------------------------------------
(* Requests and their answers.                                             *)

Outstanding == {p \in Tabs \X Slots : req[p[1]][p[2]].st # "idle"}

\* Each open request may cost one new pair.
RoomForToken == issued + Cardinality(Outstanding) < MaxTokens

\* The request interceptor takes the access token from localStorage.
Send(t, s) ==
    /\ page[t] = "app"
    /\ req[t][s].st = "idle"
    /\ RoomForToken
    /\ req' = [req EXCEPT ![t][s] = [st |-> "sent", tok |-> lsAccess, retry |-> FALSE]]
    /\ UNCHANGED <<server, storage, loggedIn, page, isRefreshing, pending, call, disturbed>>

\* A plausible slip: a status that nothing else knows.
SettledAsDone(t, s) == req' = [req EXCEPT ![t][s].st = "done"]

Settled(t, s) == req' = [req EXCEPT ![t][s] = Idle]

Accepted(t, s) == req[t][s].st = "sent" /\ req[t][s].tok \in live

Served(t, s) ==
    /\ s \in Reqs
    /\ Accepted(t, s)
    /\ Settled(t, s)
    /\ UNCHANGED <<server, storage, loggedIn, page, isRefreshing, pending, call, disturbed>>

\* AuthService.logout, then clearAuth in the tab.
LogoutServed(t) ==
    /\ Accepted(t, Logout)
    /\ Settled(t, Logout)
    /\ live' = live \ {req[t][Logout].tok}
    /\ stored' = NoToken
    /\ ClearAuth(t)
    /\ disturbed' = TRUE
    /\ UNCHANGED <<issued, isRefreshing, pending, call>>

\* Any other error: no token (403), a 401 of a request already retried, 30 seconds
\* without an answer.
Failed(t, s) ==
    /\ req[t][s].st = "sent"
    /\ Settled(t, s)
    /\ IF s = Logout
       THEN ClearAuth(t) /\ disturbed' = TRUE
       ELSE UNCHANGED <<storage, loggedIn, page, disturbed>>
    /\ UNCHANGED <<server, isRefreshing, pending, call>>

\* The answer is a first 401.
Unauthorized(t, s) ==
    /\ req[t][s].st = "sent"
    /\ req[t][s].tok # NoToken
    /\ req[t][s].tok \notin live
    /\ ~req[t][s].retry

AddPendingRequest(t, s) ==
    /\ Unauthorized(t, s)
    /\ isRefreshing[t]
    /\ req' = [req EXCEPT ![t][s].st = "queued"]
    /\ pending' = [pending EXCEPT ![t] = @ \cup {s}]
    /\ UNCHANGED <<server, storage, loggedIn, page, isRefreshing, call, disturbed>>

\* A plausible slip: the flag is not looked at.
RefreshRegardless(t, s) ==
    /\ Unauthorized(t, s)
    /\ lsRefresh # NoToken
    /\ req' = [req EXCEPT ![t][s] = [st |-> "refreshing", tok |-> @.tok, retry |-> TRUE]]
    /\ isRefreshing' = [isRefreshing EXCEPT ![t] = TRUE]
    /\ call' = [call EXCEPT ![t] = [st |-> "sent", tok |-> lsRefresh, new |-> NoToken]]
    /\ UNCHANGED <<server, storage, loggedIn, page, pending, disturbed>>

TryRefreshToken(t, s) ==
    /\ Unauthorized(t, s)
    /\ ~isRefreshing[t]
    /\ lsRefresh # NoToken
    /\ req' = [req EXCEPT ![t][s] = [st |-> "refreshing", tok |-> @.tok, retry |-> TRUE]]
    /\ isRefreshing' = [isRefreshing EXCEPT ![t] = TRUE]
    /\ call' = [call EXCEPT ![t] = [st |-> "sent", tok |-> lsRefresh, new |-> NoToken]]
    /\ UNCHANGED <<server, storage, loggedIn, page, pending, disturbed>>

\* tryRefreshToken without a refresh token in localStorage.
NothingToRefresh(t, s) ==
    /\ Unauthorized(t, s)
    /\ ~isRefreshing[t]
    /\ lsRefresh = NoToken
    /\ Settled(t, s)
    /\ ClearAuthAndRedirect(t, s)
    /\ disturbed' = (disturbed \/ s = Logout)
    /\ UNCHANGED <<server, call>>
-----------------------------------------------------------------------------
(* AuthService.refreshToken: a check, a DEL and a SET on Redis, not atomic. *)

CheckStoredToken(t) ==
    /\ call[t].st = "sent"
    /\ call' = [call EXCEPT ![t].st = IF stored = call[t].tok THEN "checked" ELSE "refused"]
    /\ UNCHANGED <<server, storage, loggedIn, page, isRefreshing, pending, req, disturbed>>

DeleteRefreshToken(t) ==
    /\ call[t].st = "checked"
    /\ call' = [call EXCEPT ![t].st = "deleted"]
    /\ stored' = NoToken
    /\ UNCHANGED <<issued, live, storage, loggedIn, page, isRefreshing, pending, req, disturbed>>

SetRefreshToken(t) ==
    /\ call[t].st = "deleted"
    /\ issued' = issued + 1
    /\ live' = live \cup {issued + 1}
    /\ stored' = issued + 1
    /\ call' = [call EXCEPT ![t] = [st |-> "granted", tok |-> @.tok, new |-> issued + 1]]
    /\ UNCHANGED <<storage, loggedIn, page, isRefreshing, pending, req, disturbed>>

\* The answer is lost on the way, whatever the server has done.
RefreshLost(t) ==
    /\ call[t].st \in {"sent", "granted"}
    /\ call' = [call EXCEPT ![t].st = "refused"]
    /\ disturbed' = TRUE
    /\ UNCHANGED <<server, storage, loggedIn, page, isRefreshing, pending, req>>
-----------------------------------------------------------------------------
(* The answer of the refresh in the tab.                                   *)

\* The requests that go out again: those that waited and the one that refreshed.
Resent(t) == {s \in Slots : s \in pending[t] \/ req[t][s].st = "refreshing"}

Retried == [st |-> "sent", tok |-> lsAccess', retry |-> TRUE]

\* A plausible slip: only the request that refreshed is sent again.
ResendOne(t) ==
    /\ call[t].st = "granted"
    /\ lsAccess' = call[t].new
    /\ lsRefresh' = call[t].new
    /\ req' = [req EXCEPT ![t] = [s \in Slots |->
                   IF req[t][s].st = "refreshing" THEN Retried ELSE req[t][s]]]
    /\ isRefreshing' = [isRefreshing EXCEPT ![t] = FALSE]
    /\ call' = [call EXCEPT ![t] = NoCall]
    /\ UNCHANGED <<server, loggedIn, page, pending, disturbed>>

\* A plausible slip: the flag stays up.
FlagStaysUp(t) ==
    /\ call[t].st = "granted"
    /\ lsAccess' = call[t].new
    /\ lsRefresh' = call[t].new
    /\ req' = [req EXCEPT ![t] = [s \in Slots |->
                   IF s \in Resent(t) THEN Retried ELSE req[t][s]]]
    /\ pending' = [pending EXCEPT ![t] = {}]
    /\ call' = [call EXCEPT ![t] = NoCall]
    /\ UNCHANGED <<server, loggedIn, page, isRefreshing, disturbed>>

\* tryRefreshToken stores the new pair, onRefreshed empties the queue.
OnRefreshed(t) ==
    /\ call[t].st = "granted"
    /\ lsAccess' = call[t].new
    /\ lsRefresh' = call[t].new
    /\ req' = [req EXCEPT ![t] = [s \in Slots |->
                   IF s \in Resent(t) THEN Retried ELSE req[t][s]]]
    /\ isRefreshing' = [isRefreshing EXCEPT ![t] = FALSE]
    /\ pending' = [pending EXCEPT ![t] = {}]
    /\ call' = [call EXCEPT ![t] = NoCall]
    /\ UNCHANGED <<server, loggedIn, page, disturbed>>

\* The promises of the requests that waited are dropped: they stay "queued".
RefreshFailed(t) ==
    /\ call[t].st = "refused"
    /\ \E s \in Slots :
          /\ req[t][s].st = "refreshing"
          /\ Settled(t, s)
          /\ ClearAuthAndRedirect(t, s)
          /\ disturbed' = (disturbed \/ s = Logout)
    /\ call' = [call EXCEPT ![t] = NoCall]
    /\ UNCHANGED server
-----------------------------------------------------------------------------
(* The user, time and other devices.                                       *)

\* AuthService.login and setAuthData.
Login(t) ==
    /\ page[t] = "login"
    /\ RoomForToken
    /\ issued' = issued + 1
    /\ live' = live \cup {issued + 1}
    /\ stored' = issued + 1
    /\ lsAccess' = issued + 1
    /\ lsRefresh' = issued + 1
    /\ loggedIn' = [loggedIn EXCEPT ![t] = TRUE]
    /\ page' = [page EXCEPT ![t] = "app"]
    /\ UNCHANGED <<isRefreshing, pending, call, req, disturbed>>

\* The page is loaded again, with no refresh under way; what waited is forgotten.
Reload(t) ==
    /\ call[t] = NoCall
    /\ req' = [req EXCEPT ![t] = [s \in Slots |-> Idle]]
    /\ pending' = [pending EXCEPT ![t] = {}]
    /\ loggedIn' = [loggedIn EXCEPT ![t] = lsAccess # NoToken]
    /\ page' = [page EXCEPT ![t] = IF lsAccess # NoToken THEN "app" ELSE "login"]
    /\ UNCHANGED <<server, storage, isRefreshing, call, disturbed>>

AccessExpires(k) ==
    /\ k \in live
    /\ live' = live \ {k}
    /\ UNCHANGED <<issued, stored, storage, loggedIn, page, isRefreshing, pending, call, req, disturbed>>

\* Redis keeps a refresh token for 30 days.
RefreshExpires ==
    /\ stored # NoToken
    /\ stored' = NoToken
    /\ disturbed' = TRUE
    /\ UNCHANGED <<issued, live, storage, loggedIn, page, isRefreshing, pending, call, req>>

LoginElsewhere ==
    /\ RoomForToken
    /\ issued' = issued + 1
    /\ stored' = issued + 1
    /\ disturbed' = TRUE
    /\ UNCHANGED <<live, storage, loggedIn, page, isRefreshing, pending, call, req>>
-----------------------------------------------------------------------------
Answered(t, s) ==
    \/ Served(t, s)
    \/ Failed(t, s)
    \/ AddPendingRequest(t, s)
    \/ TryRefreshToken(t, s)
    \/ NothingToRefresh(t, s)
    \/ s = Logout /\ LogoutServed(t)

RefreshStep(t) ==
    \/ CheckStoredToken(t)
    \/ DeleteRefreshToken(t)
    \/ SetRefreshToken(t)
    \/ OnRefreshed(t)
    \/ RefreshFailed(t)

TabStep(t) ==
    \/ \E s \in Slots : Send(t, s) \/ Answered(t, s)
    \/ RefreshStep(t)
    \/ RefreshLost(t)
    \/ Login(t)
    \/ Reload(t)

Next ==
    \/ \E t \in Tabs : TabStep(t)
    \/ \E k \in live : AccessExpires(k)
    \/ RefreshExpires
    \/ LoginElsewhere

Spec == Init /\ [][Next]_vars

\* Requests end (axios gives them 30 seconds) and the server answers a refresh.
Fairness ==
    \A t \in Tabs :
        /\ WF_vars(RefreshStep(t))
        /\ \A s \in Slots : WF_vars(Answered(t, s))

FairSpec == Spec /\ Fairness
-----------------------------------------------------------------------------
(* Properties.                                                             *)

\* A request waits only for a refresh that is under way and that some request of
\* the same tab will see the answer of: no request is queued behind nothing.
QueuedHaveRefresher ==
    \A t \in Tabs : pending[t] # {} =>
        /\ isRefreshing[t]
        /\ call[t].st # "none"
        /\ \E s \in Slots \ pending[t] : req[t][s].st = "refreshing"

\* A user with one tab who has neither logged out nor logged in elsewhere nor stayed
\* away for 30 days, and whose refreshes were answered, is never thrown out: no refresh
\* is refused, and the browser holds the refresh token that Redis holds, except while
\* one replaces it.
SessionSurvives ==
    \A t \in Tabs : Tabs = {t} /\ ~disturbed =>
        /\ call[t].st # "refused"
        /\ call[t].st \in {"none", "sent", "checked"} => stored = lsRefresh
        /\ call[t].st = "granted" => stored = call[t].new
        /\ lsRefresh # NoToken /\ page[t] = "app"

\* A request that waits for a refresh is sent again, or the session has ended.
QueuedAreResent ==
    \A t \in Tabs : \A s \in Slots :
        s \in pending[t] ~> (req[t][s].st = "sent" \/ lsAccess = NoToken)
=============================================================================
