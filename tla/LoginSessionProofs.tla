------------------------- MODULE LoginSessionProofs -------------------------
(* Proofs about the session: its types, the queue behind a refresh, and the *)
(* session of a user with one tab.                                          *)
EXTENDS LoginSession, TLAPS

\* The flag is up exactly while a refresh is under way; some request then waits for
\* its answer, and only requests that wait are in the queue.
RefreshInv ==
    \A t \in Tabs :
        /\ isRefreshing[t] <=> call[t].st # "none"
        /\ isRefreshing[t] => \E s \in Slots : req[t][s].st = "refreshing"
        /\ \A s \in pending[t] : req[t][s].st = "queued"
        /\ pending[t] # {} => isRefreshing[t]

\* What a tab on its own holds at each step of a refresh.
TabHoldsToken(t) ==
    /\ call[t].st # "refused"
    /\ call[t].st = "none" => stored = lsRefresh
    /\ call[t].st \in {"sent", "checked"} => stored = lsRefresh /\ call[t].tok = stored
    /\ call[t].st = "granted" => stored = call[t].new /\ stored # NoToken
    /\ lsAccess # NoToken
    /\ lsRefresh # NoToken
    /\ page[t] = "app"

SessionInv == \A t \in Tabs : Tabs = {t} /\ ~disturbed => TabHoldsToken(t)

IInv == TypeOK /\ RefreshInv /\ SessionInv
-----------------------------------------------------------------------------
LEMMA SlotFacts == Reqs \subseteq Slots /\ Logout \in Slots
  BY DEF Slots

LEMMA InitIInv == Init => IInv
<1> SUFFICES ASSUME Init PROVE IInv
  OBVIOUS
<1>1. TypeOK
  <2>1. Idle \in Requests /\ NoCall \in Calls
    BY DEF Idle, NoCall, NoToken, Requests, Calls
  <2>2. [s \in Slots |-> Idle] \in [Slots -> Requests]
    BY <2>1
  <2>3. req \in [Tabs -> [Slots -> Requests]]
    BY <2>2 DEF Init
  <2>4. /\ call \in [Tabs -> Calls]
        /\ pending \in [Tabs -> SUBSET Slots]
        /\ loggedIn \in [Tabs -> BOOLEAN] /\ isRefreshing \in [Tabs -> BOOLEAN]
        /\ page \in [Tabs -> {"app", "login"}]
    BY <2>1 DEF Init
  <2>5. /\ issued \in Nat /\ live \subseteq Nat /\ stored \in Nat
        /\ lsAccess \in Nat /\ lsRefresh \in Nat
    BY DEF Init
  <2>6. disturbed \in BOOLEAN
    BY DEF Init
  <2> QED
    BY <2>3, <2>4, <2>5, <2>6 DEF TypeOK
<1>2. RefreshInv
  BY DEF Init, RefreshInv, NoCall
<1>3. SessionInv
  BY DEF Init, SessionInv, TabHoldsToken, NoCall, NoToken
<1> QED
  BY <1>1, <1>2, <1>3 DEF IInv
-----------------------------------------------------------------------------
(* Types.                                                                  *)

LEMMA RequestTypes ==
  ASSUME TypeOK, NEW t \in Tabs, NEW s \in Slots
  PROVE  /\ \A r \in Requests : [req EXCEPT ![t][s] = r] \in [Tabs -> [Slots -> Requests]]
         /\ \A f \in [Slots -> Requests] : [req EXCEPT ![t] = f] \in [Tabs -> [Slots -> Requests]]
         /\ \A c \in Calls : [call EXCEPT ![t] = c] \in [Tabs -> Calls]
         /\ req[t][s] \in Requests
         /\ call[t] \in Calls
  BY DEF TypeOK

LEMMA ClearAuthTypes ==
  ASSUME TypeOK, NEW t \in Tabs, ClearAuth(t)
  PROVE  /\ lsAccess' \in Nat /\ lsRefresh' \in Nat
         /\ loggedIn' \in [Tabs -> BOOLEAN]
         /\ page' \in [Tabs -> {"app", "login"}]
  BY DEF TypeOK, ClearAuth, NoToken

LEMMA RedirectTypes ==
  ASSUME TypeOK, NEW t \in Tabs, NEW s \in Slots, ClearAuthAndRedirect(t, s)
  PROVE  /\ lsAccess' \in Nat /\ lsRefresh' \in Nat
         /\ loggedIn' \in [Tabs -> BOOLEAN]
         /\ page' \in [Tabs -> {"app", "login"}]
         /\ isRefreshing' \in [Tabs -> BOOLEAN]
         /\ pending' \in [Tabs -> SUBSET Slots]
  BY ClearAuthTypes DEF TypeOK, ClearAuthAndRedirect, PageAfterPush, NoToken

LEMMA RequestStepTypes ==
  ASSUME TypeOK, NEW t \in Tabs, NEW s \in Slots,
         \/ Send(t, s) \/ Served(t, s) \/ Failed(t, s) \/ AddPendingRequest(t, s)
         \/ TryRefreshToken(t, s) \/ NothingToRefresh(t, s) \/ LogoutServed(t)
  PROVE  TypeOK'
<1>0. Idle \in Requests
  BY DEF Idle, Requests, NoToken
<1>1. CASE Send(t, s)
  <2>1. [st |-> "sent", tok |-> lsAccess, retry |-> FALSE] \in Requests
    BY DEF TypeOK, Requests
  <2> QED
    BY <1>1, <2>1, RequestTypes DEF Send, TypeOK, server, storage
<1>2. CASE Served(t, s)
  BY <1>0, <1>2, RequestTypes DEF Served, Settled, TypeOK, server, storage
<1>3. CASE Failed(t, s)
  <2>1. req' \in [Tabs -> [Slots -> Requests]]
    BY <1>0, <1>3, RequestTypes DEF Failed, Settled
  <2>2. CASE s = Logout
    BY <1>3, <2>1, <2>2, ClearAuthTypes DEF Failed, TypeOK, server
  <2>3. CASE s # Logout
    BY <1>3, <2>1, <2>3 DEF Failed, TypeOK, server, storage
  <2> QED
    BY <2>2, <2>3
<1>4. CASE AddPendingRequest(t, s)
  <2>1. [req[t][s] EXCEPT !.st = "queued"] \in Requests
    BY RequestTypes DEF Requests
  <2>2. req' = [req EXCEPT ![t][s] = [req[t][s] EXCEPT !.st = "queued"]]
    BY <1>4 DEF AddPendingRequest
  <2>3. req' \in [Tabs -> [Slots -> Requests]]
    BY <2>1, <2>2, RequestTypes
  <2> QED
    BY <1>4, <2>3 DEF AddPendingRequest, TypeOK, server, storage
<1>5. CASE TryRefreshToken(t, s)
  <2> DEFINE r == [st |-> "refreshing", tok |-> req[t][s].tok, retry |-> TRUE]
  <2>0. r \in Requests
    BY RequestTypes DEF Requests
  <2>1. req' \in [Tabs -> [Slots -> Requests]]
    <3>1. req' = [req EXCEPT ![t][s] = r]
      BY <1>5 DEF TryRefreshToken
    <3> QED
      BY <2>0, <3>1, RequestTypes
  <2>2. [st |-> "sent", tok |-> lsRefresh, new |-> NoToken] \in Calls
    BY DEF TypeOK, Calls, NoToken
  <2> QED
    BY <1>5, <2>1, <2>2, RequestTypes DEF TryRefreshToken, TypeOK, server, storage
<1>6. CASE NothingToRefresh(t, s)
  BY <1>0, <1>6, RequestTypes, RedirectTypes DEF NothingToRefresh, Settled, TypeOK, server
<1>7. CASE LogoutServed(t)
  BY <1>0, <1>7, RequestTypes, ClearAuthTypes, SlotFacts DEF LogoutServed, Settled, TypeOK, NoToken
<1> QED
  BY <1>1, <1>2, <1>3, <1>4, <1>5, <1>6, <1>7

LEMMA CallStepTypes ==
  ASSUME TypeOK, NEW t \in Tabs,
         \/ CheckStoredToken(t) \/ DeleteRefreshToken(t) \/ SetRefreshToken(t) \/ RefreshLost(t)
         \/ OnRefreshed(t) \/ RefreshFailed(t)
  PROVE  TypeOK'
<1>0. NoCall \in Calls /\ Idle \in Requests /\ call[t] \in Calls
  BY DEF TypeOK, NoCall, NoToken, Calls, Idle, Requests
<1>1. CASE CheckStoredToken(t)
  <2>1. \A c \in {"checked", "refused"} : [call[t] EXCEPT !.st = c] \in Calls
    BY <1>0 DEF Calls
  <2>2. call' \in [Tabs -> Calls]
    BY <1>1, <2>1 DEF CheckStoredToken, TypeOK
  <2> QED
    BY <1>1, <2>2 DEF CheckStoredToken, TypeOK, server, storage
<1>2. CASE DeleteRefreshToken(t)
  BY <1>2 DEF DeleteRefreshToken, TypeOK, Calls, NoToken, storage
<1>3. CASE SetRefreshToken(t)
  <2>1. [st |-> "granted", tok |-> call[t].tok, new |-> issued + 1] \in Calls
    BY <1>0 DEF TypeOK, Calls
  <2>2. call' \in [Tabs -> Calls]
    BY <1>3, <2>1 DEF SetRefreshToken, TypeOK
  <2> QED
    BY <1>3, <2>2 DEF SetRefreshToken, TypeOK, storage
<1>4. CASE RefreshLost(t)
  BY <1>4 DEF RefreshLost, TypeOK, Calls, server, storage
<1>5. CASE OnRefreshed(t)
  <2>1. call[t].new \in Nat
    BY <1>0 DEF Calls
  <2>2. Retried \in Requests
    BY <1>5, <2>1 DEF OnRefreshed, Retried, Requests
  <2>3. [s \in Slots |-> IF s \in Resent(t) THEN Retried ELSE req[t][s]] \in [Slots -> Requests]
    BY <2>2 DEF TypeOK
  <2>4. req' \in [Tabs -> [Slots -> Requests]]
    BY <1>5, <2>3 DEF OnRefreshed, TypeOK
  <2> QED
    BY <1>0, <1>5, <2>1, <2>4 DEF OnRefreshed, TypeOK, server
<1>6. CASE RefreshFailed(t)
  <2>1. PICK s \in Slots : Settled(t, s) /\ ClearAuthAndRedirect(t, s)
                           /\ disturbed' = (disturbed \/ s = Logout)
    BY <1>6 DEF RefreshFailed
  <2>2. req' \in [Tabs -> [Slots -> Requests]]
    BY <1>0, <2>1, RequestTypes DEF Settled
  <2>3. call' \in [Tabs -> Calls]
    BY <1>0, <1>6 DEF RefreshFailed, TypeOK
  <2> QED
    BY <1>6, <2>1, <2>2, <2>3, RedirectTypes DEF RefreshFailed, TypeOK, server
<1> QED
  BY <1>1, <1>2, <1>3, <1>4, <1>5, <1>6

LEMMA UserStepTypes ==
  ASSUME TypeOK, NEW t \in Tabs,
         Login(t) \/ Reload(t) \/ RefreshExpires \/ LoginElsewhere \/ \E k \in live : AccessExpires(k)
  PROVE  TypeOK'
<1>1. CASE Login(t)
  BY <1>1 DEF Login, TypeOK
<1>2. CASE Reload(t)
  <2>1. Idle \in Requests
    BY DEF Idle, Requests, NoToken
  <2> QED
    BY <1>2, <2>1 DEF Reload, TypeOK, server, storage
<1>3. CASE LoginElsewhere
  BY <1>3 DEF LoginElsewhere, TypeOK, storage
<1>5. CASE RefreshExpires
  BY <1>5 DEF RefreshExpires, TypeOK, NoToken, storage
<1>4. CASE \E k \in live : AccessExpires(k)
  BY <1>4 DEF AccessExpires, TypeOK, storage
<1> QED
  BY <1>1, <1>2, <1>3, <1>4, <1>5
-----------------------------------------------------------------------------
(* The queue behind a refresh.                                             *)

LEMMA RequestStepRefreshInv ==
  ASSUME TypeOK, RefreshInv, NEW t \in Tabs, NEW s \in Slots,
         \/ Send(t, s) \/ Served(t, s) \/ Failed(t, s) \/ AddPendingRequest(t, s)
         \/ TryRefreshToken(t, s) \/ NothingToRefresh(t, s) \/ LogoutServed(t)
  PROVE  RefreshInv'
<1>0. Logout \in Slots
  BY SlotFacts
<1> SUFFICES ASSUME NEW u \in Tabs
             PROVE  /\ (isRefreshing[u] <=> call[u].st # "none")'
                    /\ (isRefreshing[u] => \E r \in Slots : req[u][r].st = "refreshing")'
                    /\ (\A r \in pending[u] : req[u][r].st = "queued")'
                    /\ (pending[u] # {} => isRefreshing[u])'
  BY DEF RefreshInv
<1>1. CASE Send(t, s)
  BY <1>1 DEF Send, TypeOK, RefreshInv, Requests
<1>2. CASE Served(t, s)
  BY <1>2 DEF Served, Accepted, Settled, Idle, TypeOK, RefreshInv, Requests
<1>3. CASE Failed(t, s)
  BY <1>3 DEF Failed, Settled, Idle, TypeOK, RefreshInv, Requests
<1>4. CASE AddPendingRequest(t, s)
  BY <1>4 DEF AddPendingRequest, Unauthorized, TypeOK, RefreshInv, Requests
<1>5. CASE TryRefreshToken(t, s)
  BY <1>5 DEF TryRefreshToken, Unauthorized, TypeOK, RefreshInv, Requests
<1>6. CASE NothingToRefresh(t, s)
  BY <1>6 DEF NothingToRefresh, ClearAuthAndRedirect, Unauthorized, Settled, Idle, TypeOK,
              RefreshInv, Requests
<1>7. CASE LogoutServed(t)
  BY <1>0, <1>7 DEF LogoutServed, Accepted, Settled, Idle, TypeOK, RefreshInv, Requests
<1> QED
  BY <1>1, <1>2, <1>3, <1>4, <1>5, <1>6, <1>7

LEMMA CallStepRefreshInv ==
  ASSUME TypeOK, RefreshInv, NEW t \in Tabs,
         \/ CheckStoredToken(t) \/ DeleteRefreshToken(t) \/ SetRefreshToken(t) \/ RefreshLost(t)
         \/ OnRefreshed(t) \/ RefreshFailed(t)
  PROVE  RefreshInv'
<1> SUFFICES ASSUME NEW u \in Tabs
             PROVE  /\ (isRefreshing[u] <=> call[u].st # "none")'
                    /\ (isRefreshing[u] => \E r \in Slots : req[u][r].st = "refreshing")'
                    /\ (\A r \in pending[u] : req[u][r].st = "queued")'
                    /\ (pending[u] # {} => isRefreshing[u])'
  BY DEF RefreshInv
<1>1. CASE CheckStoredToken(t)
  BY <1>1 DEF CheckStoredToken, TypeOK, RefreshInv, Calls
<1>2. CASE DeleteRefreshToken(t)
  BY <1>2 DEF DeleteRefreshToken, TypeOK, RefreshInv, Calls
<1>3. CASE SetRefreshToken(t)
  BY <1>3 DEF SetRefreshToken, TypeOK, RefreshInv, Calls
<1>4. CASE RefreshLost(t)
  BY <1>4 DEF RefreshLost, TypeOK, RefreshInv, Calls
<1>5. CASE OnRefreshed(t)
  <2>1. CASE u = t
    BY <1>5, <2>1 DEF OnRefreshed, NoCall, TypeOK
  <2>2. CASE u # t
    BY <1>5, <2>2 DEF OnRefreshed, TypeOK, RefreshInv
  <2> QED
    BY <2>1, <2>2
<1>6. CASE RefreshFailed(t)
  <2>1. PICK s \in Slots : Settled(t, s) /\ ClearAuthAndRedirect(t, s)
    BY <1>6 DEF RefreshFailed
  <2>2. CASE u = t
    BY <1>6, <2>1, <2>2 DEF RefreshFailed, ClearAuthAndRedirect, NoCall, TypeOK
  <2>3. CASE u # t
    BY <1>6, <2>1, <2>3 DEF RefreshFailed, ClearAuthAndRedirect, Settled, TypeOK, RefreshInv
  <2> QED
    BY <2>2, <2>3
<1> QED
  BY <1>1, <1>2, <1>3, <1>4, <1>5, <1>6

LEMMA UserStepRefreshInv ==
  ASSUME TypeOK, RefreshInv, NEW t \in Tabs,
         Login(t) \/ Reload(t) \/ RefreshExpires \/ LoginElsewhere \/ \E k \in live : AccessExpires(k)
  PROVE  RefreshInv'
<1>1. CASE Login(t)
  BY <1>1 DEF Login, RefreshInv
<1>2. CASE Reload(t)
  BY <1>2 DEF Reload, NoCall, TypeOK, RefreshInv
<1>3. CASE LoginElsewhere
  BY <1>3 DEF LoginElsewhere, RefreshInv
<1>5. CASE RefreshExpires
  BY <1>5 DEF RefreshExpires, RefreshInv
<1>4. CASE \E k \in live : AccessExpires(k)
  BY <1>4 DEF AccessExpires, RefreshInv
<1> QED
  BY <1>1, <1>2, <1>3, <1>4, <1>5
-----------------------------------------------------------------------------
(* The session of a user with one tab.                                     *)

LEMMA RequestStepSessionInv ==
  ASSUME TypeOK, RefreshInv, SessionInv, NEW t \in Tabs, NEW s \in Slots,
         \/ Send(t, s) \/ Served(t, s) \/ Failed(t, s) \/ AddPendingRequest(t, s)
         \/ TryRefreshToken(t, s) \/ NothingToRefresh(t, s) \/ LogoutServed(t)
  PROVE  SessionInv'
<1> SUFFICES ASSUME Tabs = {t}, ~disturbed'
             PROVE  TabHoldsToken(t)'
  BY DEF SessionInv
<1>0. ~disturbed => TabHoldsToken(t)
  BY DEF SessionInv
<1>1. CASE Send(t, s)
  BY <1>0, <1>1 DEF Send, TabHoldsToken, server, storage
<1>2. CASE Served(t, s)
  BY <1>0, <1>2 DEF Served, TabHoldsToken, server, storage
<1>3. CASE Failed(t, s)
  BY <1>0, <1>3 DEF Failed, TabHoldsToken, server, storage
<1>4. CASE AddPendingRequest(t, s)
  BY <1>0, <1>4 DEF AddPendingRequest, TabHoldsToken, server, storage
<1>5. CASE TryRefreshToken(t, s)
  <2>1. call[t].st = "none"
    BY <1>5 DEF TryRefreshToken, RefreshInv
  <2> QED
    BY <1>0, <1>5, <2>1 DEF TryRefreshToken, TabHoldsToken, TypeOK, Calls, server, storage
<1>6. CASE NothingToRefresh(t, s)
  BY <1>0, <1>6 DEF NothingToRefresh, TabHoldsToken, TypeOK
<1>7. CASE LogoutServed(t)
  BY <1>7 DEF LogoutServed
<1> QED
  BY <1>1, <1>2, <1>3, <1>4, <1>5, <1>6, <1>7

LEMMA CallStepSessionInv ==
  ASSUME TypeOK, RefreshInv, SessionInv, NEW t \in Tabs,
         \/ CheckStoredToken(t) \/ DeleteRefreshToken(t) \/ SetRefreshToken(t) \/ RefreshLost(t)
         \/ OnRefreshed(t) \/ RefreshFailed(t)
  PROVE  SessionInv'
<1> SUFFICES ASSUME Tabs = {t}, ~disturbed'
             PROVE  TabHoldsToken(t)'
  BY DEF SessionInv
<1>0. ~disturbed => TabHoldsToken(t)
  BY DEF SessionInv
<1>1. CASE CheckStoredToken(t)
  BY <1>0, <1>1 DEF CheckStoredToken, TabHoldsToken, TypeOK, Calls, server, storage
<1>2. CASE DeleteRefreshToken(t)
  BY <1>0, <1>2 DEF DeleteRefreshToken, TabHoldsToken, TypeOK, Calls, storage
<1>3. CASE SetRefreshToken(t)
  BY <1>0, <1>3 DEF SetRefreshToken, TabHoldsToken, TypeOK, Calls, NoToken, storage
<1>4. CASE RefreshLost(t)
  BY <1>4 DEF RefreshLost
<1>5. CASE OnRefreshed(t)
  BY <1>0, <1>5 DEF OnRefreshed, TabHoldsToken, TypeOK, Calls, NoCall, server
<1>6. CASE RefreshFailed(t)
  BY <1>0, <1>6 DEF RefreshFailed, TabHoldsToken, TypeOK
<1> QED
  BY <1>1, <1>2, <1>3, <1>4, <1>5, <1>6

LEMMA UserStepSessionInv ==
  ASSUME TypeOK, SessionInv, NEW t \in Tabs,
         Login(t) \/ Reload(t) \/ RefreshExpires \/ LoginElsewhere \/ \E k \in live : AccessExpires(k)
  PROVE  SessionInv'
<1> SUFFICES ASSUME Tabs = {t}, ~disturbed'
             PROVE  TabHoldsToken(t)'
  BY DEF SessionInv
<1>0. ~disturbed => TabHoldsToken(t)
  BY DEF SessionInv
<1>1. CASE Login(t)
  BY <1>0, <1>1 DEF Login, TabHoldsToken
<1>2. CASE Reload(t)
  BY <1>0, <1>2 DEF Reload, TabHoldsToken, TypeOK, server, storage
<1>3. CASE LoginElsewhere
  BY <1>3 DEF LoginElsewhere
<1>5. CASE RefreshExpires
  BY <1>5 DEF RefreshExpires
<1>4. CASE \E k \in live : AccessExpires(k)
  BY <1>0, <1>4 DEF AccessExpires, TabHoldsToken, storage
<1> QED
  BY <1>1, <1>2, <1>3, <1>4, <1>5
-----------------------------------------------------------------------------
LEMMA StepIInv == IInv /\ [Next]_vars => IInv'
<1> SUFFICES ASSUME IInv, [Next]_vars PROVE IInv'
  OBVIOUS
<1>0. TypeOK /\ RefreshInv /\ SessionInv
  BY DEF IInv
<1>1. ASSUME NEW t \in Tabs, NEW s \in Slots, Send(t, s) \/ Answered(t, s)
      PROVE  IInv'
  BY <1>0, <1>1, RequestStepTypes, RequestStepRefreshInv, RequestStepSessionInv DEF IInv, Answered
<1>2. ASSUME NEW t \in Tabs, RefreshStep(t) \/ RefreshLost(t)
      PROVE  IInv'
  BY <1>0, <1>2, CallStepTypes, CallStepRefreshInv, CallStepSessionInv DEF IInv, RefreshStep
<1>3. ASSUME NEW t \in Tabs, Login(t) \/ Reload(t)
      PROVE  IInv'
  BY <1>0, <1>3, UserStepTypes, UserStepRefreshInv, UserStepSessionInv DEF IInv
<1>4. ASSUME RefreshExpires \/ LoginElsewhere \/ \E k \in live : AccessExpires(k)
      PROVE  IInv'
  <2>1. CASE Tabs = {}
    <3>1. RefreshInv' /\ SessionInv'
      BY <2>1 DEF RefreshInv, SessionInv
    <3>2. CASE LoginElsewhere
      BY <1>0, <3>1, <3>2 DEF IInv, TypeOK, LoginElsewhere, storage
    <3>4. CASE RefreshExpires
      BY <1>0, <3>1, <3>4 DEF IInv, TypeOK, RefreshExpires, NoToken, storage
    <3>3. CASE \E k \in live : AccessExpires(k)
      BY <1>0, <3>1, <3>3 DEF IInv, TypeOK, AccessExpires, storage
    <3> QED
      BY <1>4, <3>2, <3>3, <3>4
  <2>2. ASSUME NEW t \in Tabs PROVE IInv'
    BY <1>0, <1>4, <2>2, UserStepTypes, UserStepRefreshInv, UserStepSessionInv DEF IInv
  <2> QED
    BY <2>1, <2>2
<1>5. CASE UNCHANGED vars
  BY <1>0, <1>5 DEF IInv, TypeOK, RefreshInv, SessionInv, TabHoldsToken, vars
<1> QED
  BY <1>1, <1>2, <1>3, <1>4, <1>5 DEF Next, TabStep

LEMMA InvariantIInv == Spec => []IInv
  BY InitIInv, StepIInv, PTL DEF Spec

\* The state of tabs, storage and server keeps its types.
THEOREM SessionTypes == Spec => []TypeOK
<1>1. IInv => TypeOK
  BY DEF IInv
<1> QED
  BY <1>1, InvariantIInv, PTL

\* In every tab, whatever the other tabs do, no request waits behind a refresh that
\* nobody will answer for.
THEOREM QueueHasRefresher == Spec => []QueuedHaveRefresher
<1>1. IInv => QueuedHaveRefresher
  BY DEF IInv, RefreshInv, QueuedHaveRefresher
<1> QED
  BY <1>1, InvariantIInv, PTL

\* With one tab, a session that nothing disturbs survives any number of refreshes.
THEOREM OneTabSurvives == Spec => []SessionSurvives
<1>1. IInv => SessionSurvives
  BY DEF IInv, SessionInv, TabHoldsToken, SessionSurvives
<1> QED
  BY <1>1, InvariantIInv, PTL
=============================================================================
