--------------------------- MODULE SessionProofs ---------------------------
(***************************************************************************)
(* Safety of BrowserSession for any number of requests, tabs and calls.    *)
(***************************************************************************)
EXTENDS BrowserSession, TLAPS

USE NoneAssumption, TabsAssumption

---------------------------------------------------------------------------
(* Types *)

\* The variables of Sessions, and those of the browser.
SessionTypes ==
    /\ token \in [Requests -> TokenState]
    /\ expired \subseteq Requests
    /\ zoned \in BOOLEAN
    /\ active \in BOOLEAN
    /\ pc \in [Requests -> Labels]
    /\ job \in [Requests -> Jobs]
    /\ presented \in [Requests -> Token]
    /\ listed \in [Requests -> SUBSET Requests]
    /\ family \in [Requests -> SUBSET Requests]
    /\ revoked \subseteq Requests
    /\ alarm \subseteq Requests

ClientTypes ==
    /\ cookie \in Token
    /\ tab \in [Requests -> Tabs \cup {None}]
    /\ refreshing \in [Tabs -> Token]
    /\ call \in [Calls -> CallRecord]
    /\ failed \subseteq Requests
    /\ alone \in Token

LEMMA TypesSplit == TypeOK <=> SessionTypes /\ ClientTypes
  BY DEF TypeOK, SessionTypes, ClientTypes

LEMMA TypesJoin == ASSUME SessionTypes', ClientTypes' PROVE TypeOK'
  BY DEF TypeOK, SessionTypes, ClientTypes

LEMMA TypeInit == ASSUME Init PROVE TypeOK
<1>1. PICK r \in Requests : SessionsInit(r) /\ cookie = r
  BY DEF Init
<1>2. SessionTypes
  BY <1>1 DEF SessionsInit, SessionTypes, TokenState, Labels, Jobs, BrowserJobs, Token
<1>3. ClientTypes
  BY <1>1 DEF Init, ClientTypes, Token, CallRecord, NoCall
<1> QED
  BY <1>2, <1>3, TypesSplit

LEMMA GotoType ==
    ASSUME SessionTypes, NEW r \in Requests, NEW label \in Labels, Goto(r, label)
    PROVE  pc' \in [Requests -> Labels]
  BY DEF SessionTypes, Goto

LEMMA SaveType ==
    ASSUME SessionTypes, NEW t \in Requests, SaveConsumed(t)
    PROVE  token' \in [Requests -> TokenState]
  BY DEF SessionTypes, SaveConsumed, TokenState

LEMMA AfterRevokeType ==
    ASSUME NEW r PROVE AfterRevoke(r) \in {"denied", "ok", "settled"}
  BY DEF AfterRevoke

LEMMA RevokeTypes ==
    ASSUME SessionTypes, NEW r \in Requests, FamilyList(r) \/ Revoke(r)
    PROVE  SessionTypes'
<1>1. CASE FamilyList(r)
  <2>1. pc' \in [Requests -> Labels]
    BY <1>1, GotoType, AfterRevokeType DEF FamilyList, ListTokens, Labels, Answers
  <2> QED
    BY <1>1, <2>1 DEF FamilyList, ListTokens, Live, Unchanged, SessionTypes
<1>2. CASE Revoke(r)
  <2>1. PICK t \in listed[r] :
          /\ SaveConsumed(t)
          /\ listed' = [listed EXCEPT ![r] = @ \ {t}]
          /\ IF listed[r] = {t} THEN Revoked(r) ELSE UNCHANGED <<pc, family, revoked>>
    BY <1>2 DEF Revoke
  <2>2. t \in Requests
    BY <2>1 DEF SessionTypes
  <2>3. pc' \in [Requests -> Labels]
    BY <2>1, GotoType, AfterRevokeType DEF Revoked, SessionTypes, Labels, Answers
  <2>4. family' \in [Requests -> SUBSET Requests] /\ revoked' \subseteq Requests
    BY <2>1 DEF Revoked, SessionTypes
  <2>5. listed' \in [Requests -> SUBSET Requests]
    BY <2>1 DEF SessionTypes
  <2> QED
    BY <1>2, <2>1, <2>2, <2>3, <2>4, <2>5, SaveType DEF Revoke, Unchanged, SessionTypes
<1> QED
  BY <1>1, <1>2

LEMMA HandlerTypes ==
    ASSUME SessionTypes, NEW r \in Requests,
           pc[r] \in AtRefresh => presented[r] # None,
           \/ LoginUser(r) \/ RefreshFind(r) \/ RefreshExpire(r) \/ RefreshUser(r)
           \/ RefreshConsume(r) \/ Issue(r) \/ LogoutFind(r)
    PROVE  SessionTypes'
<1>1. CASE LoginUser(r) \/ RefreshUser(r) \/ LogoutFind(r)
  <2>1. pc' \in [Requests -> Labels]
    BY <1>1, GotoType DEF LoginUser, RefreshUser, LogoutFind, Labels, Answers
  <2> QED
    BY <1>1, <2>1 DEF LoginUser, RefreshUser, LogoutFind, Unchanged, revokeVars, SessionTypes
<1>2. CASE RefreshFind(r)
  <2>0. PICK l \in {"family", "error", "refresh_expire", "refresh_user"} : Goto(r, l)
    BY <1>2 DEF RefreshFind
  <2>1. pc' \in [Requests -> Labels]
    BY <2>0, GotoType DEF Labels, Answers
  <2> QED
    BY <1>2, <2>1 DEF RefreshFind, tokenVars, revokeVars, SessionTypes
<1>3. CASE RefreshExpire(r) \/ RefreshConsume(r)
  <2>1. pc' \in [Requests -> Labels]
    BY <1>3, GotoType DEF RefreshExpire, RefreshConsume, Labels, Answers
  <2>2. presented[r] \in Requests
    BY <1>3 DEF RefreshExpire, RefreshConsume, AtRefresh, SessionTypes, Token
  <2>3. token' \in [Requests -> TokenState]
    BY <1>3, <2>2, SaveType DEF RefreshExpire, RefreshConsume
  <2> QED
    BY <1>3, <2>1, <2>3 DEF RefreshExpire, RefreshConsume, Unchanged, revokeVars, SessionTypes
<1>4. CASE Issue(r)
  <2>1. pc' \in [Requests -> Labels]
    BY <1>4, GotoType DEF Issue, Labels, Answers
  <2>2. token' \in [Requests -> TokenState]
    BY <1>4 DEF Issue, TokenState, SessionTypes
  <2> QED
    BY <1>4, <2>1, <2>2 DEF Issue, Unchanged, revokeVars, SessionTypes
<1> QED
  BY <1>1, <1>2, <1>3, <1>4

LEMMA OtherTypes ==
    ASSUME SessionTypes, NEW r \in Requests, UserSave(r) \/ Arrive(r) \/ Expire(r)
    PROVE  SessionTypes'
<1>1. CASE UserSave(r)
  <2>1. pc' \in [Requests -> Labels]
    BY <1>1, GotoType DEF UserSave, Labels
  <2>2. active' \in BOOLEAN
    BY <1>1, Zenon DEF UserSave, SessionTypes
  <2> QED
    BY <1>1, <2>1, <2>2 DEF UserSave, tokenVars, revokeVars, SessionTypes
<1>2. CASE Arrive(r)
  <2>1. pc' \in [Requests -> Labels]
    BY <1>2, GotoType DEF Arrive, Labels
  <2>2. job' \in [Requests -> Jobs]
    BY <1>2 DEF Arrive, Jobs, SessionTypes
  <2>3. UNCHANGED <<token, expired, zoned, active, presented, listed, family, revoked, alarm>>
    BY <1>2 DEF Arrive, tokenVars, revokeVars
  <2> QED
    BY <2>1, <2>2, <2>3 DEF SessionTypes
<1>3. CASE Expire(r)
  BY <1>3 DEF Expire, revokeVars, SessionTypes
<1> QED
  BY <1>1, <1>2, <1>3

LEMMA ServerType ==
    ASSUME SessionTypes, KnownIssued, NEW r \in Requests, Server(r)
    PROVE  SessionTypes'
  BY RevokeTypes, HandlerTypes, OtherTypes DEF Server, Continue, KnownIssued

---------------------------------------------------------------------------

LEMMA EntryType ==
    ASSUME NEW j \in BrowserJobs
    PROVE  Entry(j) \in {"login_user", "denied", "refresh_find", "ok", "logout_find"}
  BY DEF Entry, BrowserJobs

LEMMA SendTypes ==
    ASSUME TypeOK, NEW r \in Requests, NEW j \in BrowserJobs, NEW t \in Tabs, Send(r, j, t)
    PROVE  /\ SessionTypes'
           /\ cookie' \in Token /\ alone' \in Token
           /\ tab' \in [Requests -> Tabs \cup {None}]
           /\ failed' \subseteq Requests
<1>1. pc' \in [Requests -> Labels]
  BY GotoType, EntryType, TypesSplit DEF Send, Labels, Answers
<1>2. job' \in [Requests -> Jobs] /\ presented' \in [Requests -> Token]
  BY DEF Send, TypeOK, Jobs, Token
<1> QED
  BY <1>1, <1>2 DEF Send, TypeOK, Token, tokenVars, revokeVars, SessionTypes

LEMMA CallTypes ==
    ASSUME TypeOK, PromiseIsRefresh, NEW c \in Calls,
           CallDenied(c) \/ \E t \in Tabs : SendCall(c, t)
    PROVE  TypeOK'
<1>1. CASE CallDenied(c)
  <2>1. call' \in [Calls -> CallRecord]
    BY <1>1 DEF CallDenied, TypeOK, CallRecord
  <2>2. call[c].tab \in Tabs
    BY <1>1 DEF CallDenied, PromiseIsRefresh
  <2>3. ASSUME NEW r \in Requests, Send(r, "refresh", call[c].tab),
               refreshing' = [refreshing EXCEPT ![call[c].tab] = r]
        PROVE  TypeOK'
    <3>1. refreshing' \in [Tabs -> Token]
      BY <2>3 DEF TypeOK, Token
    <3>2. "refresh" \in BrowserJobs
      BY DEF BrowserJobs
    <3>3. ClientTypes' /\ SessionTypes'
      BY <2>1, <2>2, <2>3, <3>1, <3>2, SendTypes DEF ClientTypes
    <3> QED
      BY <3>3, TypesJoin
  <2>4. CASE UNCHANGED <<sessionVars, cookie, tab, refreshing, failed, alone>>
    BY <2>1, <2>4 DEF TypeOK, sessionVars, tokenVars, revokeVars
  <2> QED
    BY <1>1, <2>3, <2>4 DEF CallDenied
<1>2. ASSUME NEW t \in Tabs, SendCall(c, t) PROVE TypeOK'
  <2>1. call' \in [Calls -> CallRecord]
    BY <1>2 DEF SendCall, TypeOK, CallRecord
  <2> QED
    BY <1>2, <2>1 DEF SendCall, TypeOK, sessionVars, tokenVars, revokeVars
<1> QED
  BY <1>1, <1>2

LEMMA PageTypes ==
    ASSUME TypeOK, NEW r \in Requests, PageSettles(r)
    PROVE  /\ refreshing' \in [Tabs -> Token]
           /\ call' \in [Calls -> CallRecord]
<1>1. refreshing' \in [Tabs -> Token]
  BY DEF PageSettles, RefreshSettled, SettlePromise, TypeOK, Token
<1>2. call' \in [Calls -> CallRecord]
  <2>1. NoCall \in CallRecord
    BY DEF NoCall, CallRecord
  <2>2. CASE UNCHANGED call
    BY <2>2 DEF TypeOK
  <2>3. CASE call' = [c \in Calls |-> IF WaitsFor(c, r) THEN NoCall ELSE call[c]]
    BY <2>1, <2>3 DEF TypeOK
  <2> QED
    BY <2>2, <2>3 DEF PageSettles, RefreshSettled
<1> QED
  BY <1>1, <1>2

LEMMA DeliveryType ==
    ASSUME TypeOK, NEW r \in Requests, Delivery(r)
    PROVE  TypeOK'
<1>1. SessionTypes'
  <2>1. Settle(r)
    BY DEF Delivery, Receive, Lose
  <2>2. pc' \in [Requests -> Labels]
    BY <2>1, GotoType, TypesSplit DEF Settle, Labels
  <2> QED
    BY <2>1, <2>2 DEF Settle, TypeOK, tokenVars, revokeVars, SessionTypes
<1>2. cookie' \in Token /\ failed' \subseteq Requests /\ UNCHANGED <<tab, alone>>
  BY DEF Delivery, Receive, Lose, Settle, CookieAfter, TypeOK, Token
<1>3. PageSettles(r)
  BY DEF Delivery, Receive, Lose
<1>4. ClientTypes'
  BY <1>2, <1>3, PageTypes DEF TypeOK, ClientTypes
<1> QED
  BY <1>1, <1>4, TypesJoin

LEMMA TypeStep == ASSUME TypeOK, KnownIssued, PromiseIsRefresh, [Next]_vars PROVE TypeOK'
<1>1. ASSUME NEW r \in Requests, Server(r) PROVE TypeOK'
  <2>1. SessionTypes'
    BY <1>1, ServerType, TypesSplit
  <2>2. ClientTypes'
    BY <1>1 DEF Server, clientVars, TypeOK, ClientTypes
  <2> QED
    BY <2>1, <2>2, TypesJoin
<1>2. ASSUME NEW r \in Requests, Delivery(r) PROVE TypeOK'
  BY <1>2, DeliveryType
<1>3. ASSUME NEW r \in Requests, NEW t \in Tabs, SignIn(r, t) PROVE TypeOK'
  <2>1. PICK j \in BrowserJobs : Send(r, j, t)
    BY <1>3 DEF SignIn, BrowserJobs
  <2>2. ClientTypes' /\ SessionTypes'
    BY <1>3, <2>1, SendTypes DEF SignIn, TypeOK, ClientTypes
  <2> QED
    BY <2>2, TypesJoin
<1>4. ASSUME NEW c \in Calls, CallDenied(c) \/ \E t \in Tabs : SendCall(c, t) PROVE TypeOK'
  BY <1>4, CallTypes
<1>5. CASE UNCHANGED vars
  BY <1>5 DEF vars, clientVars, TypeOK, sessionVars, tokenVars, revokeVars
<1> QED
  BY <1>1, <1>2, <1>3, <1>4, <1>5 DEF Next

---------------------------------------------------------------------------
(* Refresh tokens *)

\* What the steps that are not the server's do to the requests: one is sent,
\* one is settled, or none is touched.
Sent == \E r \in Requests, j \in BrowserJobs, t \in Tabs : Send(r, j, t)

Settled ==
    \E r \in Requests :
        /\ pc[r] \in Answers /\ tab[r] # None
        /\ Settle(r)
        /\ UNCHANGED cookie \/ (pc[r] = "ok" /\ cookie' = CookieAfter(r))

Untouched == UNCHANGED <<sessionVars, cookie, tab>>

LEMMA ClientSteps ==
    ASSUME IInv, [Next]_vars, \A r \in Requests : ~Server(r)
    PROVE  Sent \/ Settled \/ Untouched
<1>1. ASSUME NEW r \in Requests, Delivery(r) PROVE Settled
  BY <1>1 DEF Delivery, Receive, Lose, Settled, Answers
<1>2. ASSUME NEW r \in Requests, NEW t \in Tabs, SignIn(r, t) PROVE Sent
  BY <1>2 DEF SignIn, Sent, BrowserJobs
<1>3. ASSUME NEW c \in Calls, CallDenied(c) PROVE Sent \/ Untouched
  <2>1. call[c].tab \in Tabs
    BY <1>3 DEF CallDenied, IInv, PromiseIsRefresh
  <2> QED
    BY <1>3, <2>1 DEF CallDenied, Sent, Untouched, BrowserJobs
<1>4. ASSUME NEW c \in Calls, NEW t \in Tabs, SendCall(c, t) PROVE Untouched
  BY <1>4 DEF SendCall, Untouched
<1>5. CASE UNCHANGED vars
  BY <1>5 DEF vars, clientVars, Untouched
<1> QED
  BY <1>1, <1>2, <1>3, <1>4, <1>5 DEF Next

\* The only writes of a token: it is issued, by the step that ends its
\* request, or one that was issued is consumed.
Issuing(r) ==
    /\ pc[r] = "issue" /\ Goto(r, "ok")
    /\ token' = [token EXCEPT ![r] = "live"]

Consuming == \E t \in Requests : token[t] # "absent" /\ SaveConsumed(t)

LEMMA TokenWrites ==
    ASSUME IInv, [Next]_vars
    PROVE  \/ UNCHANGED token \/ Consuming
           \/ \E r \in Requests : Issuing(r)
<1>1. ASSUME NEW r \in Requests, Server(r)
      PROVE  UNCHANGED token \/ Consuming \/ Issuing(r)
  <2> USE DEF IInv
  <2>1. CASE RefreshExpire(r) \/ RefreshConsume(r)
    <3>1. presented[r] \in Requests /\ token[presented[r]] # "absent"
      BY <2>1 DEF RefreshExpire, RefreshConsume, KnownIssued, AtRefresh, TypeOK, Token
    <3> QED
      BY <2>1, <3>1 DEF RefreshExpire, RefreshConsume, Consuming
  <2>2. CASE Revoke(r)
    <3>1. PICK t \in listed[r] : SaveConsumed(t)
      BY <2>2 DEF Revoke
    <3>2. t \in Requests /\ token[t] # "absent"
      BY <3>1 DEF KnownIssued, TypeOK
    <3> QED
      BY <3>1, <3>2 DEF Consuming
  <2>3. CASE Issue(r)
    BY <2>3 DEF Issue, Issuing
  <2>4. CASE \/ FamilyList(r) \/ LoginUser(r) \/ RefreshFind(r) \/ RefreshUser(r)
             \/ LogoutFind(r) \/ UserSave(r) \/ Arrive(r) \/ Expire(r)
    BY <2>4 DEF FamilyList, ListTokens, LoginUser, RefreshFind, RefreshUser, LogoutFind,
       UserSave, Arrive, Expire, tokenVars
  <2> QED
    BY <1>1, <2>1, <2>2, <2>3, <2>4 DEF Server, Continue
<1>2. CASE Sent \/ Settled \/ Untouched
  BY <1>2 DEF Sent, Send, Settled, Settle, Untouched, sessionVars, tokenVars
<1> QED
  BY <1>1, <1>2, ClientSteps

\* A token once issued is never forgotten, and once consumed never live.
LEMMA TokenMonotone ==
    ASSUME IInv, [Next]_vars, NEW t \in Requests
    PROVE  /\ token[t] # "absent" => token'[t] # "absent"
           /\ token[t] = "consumed" => token'[t] = "consumed"
<1>1. CASE Consuming
  BY <1>1 DEF Consuming, SaveConsumed, IInv, TypeOK
<1>2. ASSUME NEW r \in Requests, Issuing(r)
      PROVE  /\ token[t] # "absent" => token'[t] # "absent"
             /\ token[t] = "consumed" => token'[t] = "consumed"
  BY <1>2 DEF Issuing, IInv, TypeOK, IssuedLast
<1> QED
  BY <1>1, <1>2, TokenWrites

\* The label of a request changes by its own steps, and not once it is
\* answered, except that it is settled.
LEMMA PcStep ==
    ASSUME IInv, [Next]_vars, NEW r \in Requests
    PROVE  /\ pc[r] \in {"ok", "settled"} => pc'[r] \in {pc[r], "settled"}
           /\ pc'[r] = "ok" /\ pc[r] # "ok" =>
                 \/ Issuing(r)
                 \/ job'[r] = "logout"
<1> USE DEF IInv, TypeOK, Goto
<1>1. ASSUME NEW q \in Requests, Server(q)
      PROVE  /\ pc[r] \in {"ok", "settled"} => pc'[r] \in {pc[r], "settled"}
             /\ pc'[r] = "ok" /\ pc[r] # "ok" => Issuing(r) \/ job'[r] = "logout"
  <2>1. CASE FamilyList(q)
    BY <2>1 DEF FamilyList, ListTokens, AfterRevoke, Unchanged
  <2>2. CASE Revoke(q)
    BY <2>2 DEF Revoke, Revoked, AfterRevoke, Unchanged
  <2>3. CASE Issue(q)
    BY <2>3 DEF Issue, Issuing
  <2>4. CASE \/ LoginUser(q) \/ RefreshFind(q) \/ RefreshUser(q) \/ RefreshExpire(q)
             \/ RefreshConsume(q) \/ LogoutFind(q) \/ UserSave(q) \/ Arrive(q) \/ Expire(q)
    BY <2>4 DEF LoginUser, RefreshFind, RefreshUser, RefreshExpire, RefreshConsume,
       LogoutFind, UserSave, Arrive, Expire
  <2> QED
    BY <1>1, <2>1, <2>2, <2>3, <2>4 DEF Server, Continue
<1>2. CASE Sent
  <2>1. PICK q \in Requests, j \in BrowserJobs, t \in Tabs : Send(q, j, t)
    BY <1>2 DEF Sent
  <2>2. Entry(j) = "ok" => j = "logout"
    BY DEF Entry, BrowserJobs
  <2> QED
    BY <2>1, <2>2 DEF Send
<1>3. CASE Settled \/ Untouched
  BY <1>3 DEF Settled, Settle, Untouched, sessionVars
<1> QED
  BY <1>1, <1>2, <1>3, ClientSteps

\* A request keeps its job, its tab and its cookie.
LEMMA JobKept ==
    ASSUME IInv, [Next]_vars, NEW r \in Requests, pc[r] # "idle"
    PROVE  job'[r] = job[r] /\ tab'[r] = tab[r] /\ presented'[r] = presented[r]
<1> USE DEF IInv, TypeOK
<1>1. ASSUME NEW q \in Requests, Server(q)
      PROVE  job'[r] = job[r] /\ tab'[r] = tab[r] /\ presented'[r] = presented[r]
  BY <1>1 DEF Server, clientVars, Continue, Unchanged, FamilyList, ListTokens, Revoke,
     LoginUser, RefreshFind, RefreshExpire, RefreshUser, RefreshConsume, Issue,
     LogoutFind, UserSave, Arrive, Expire
<1>2. CASE Sent \/ Settled \/ Untouched
  BY <1>2 DEF Sent, Send, Settled, Settle, Untouched, sessionVars
<1> QED
  BY <1>1, <1>2, ClientSteps

LEMMA IssuedLastStep == ASSUME IInv, [Next]_vars PROVE IssuedLast'
<1> SUFFICES ASSUME NEW r \in Requests
             PROVE  /\ token'[r] # "absent" => pc'[r] \in {"ok", "settled"}
                    /\ pc'[r] = "ok" /\ job'[r] # "logout" => token'[r] # "absent"
  BY DEF IssuedLast
<1> USE DEF IInv, TypeOK
<1>1. ASSUME token'[r] # "absent" PROVE pc'[r] \in {"ok", "settled"}
  <2>1. CASE token[r] # "absent"
    BY <2>1, PcStep DEF IssuedLast
  <2>2. CASE token[r] = "absent"
    BY <1>1, <2>2, TokenWrites DEF Consuming, SaveConsumed, Issuing, Goto
  <2> QED
    BY <2>1, <2>2
<1>2. ASSUME pc'[r] = "ok", job'[r] # "logout" PROVE token'[r] # "absent"
  <2>1. CASE pc[r] = "ok"
    <3>1. job'[r] = job[r]
      BY <1>2, <2>1, JobKept
    <3> QED
      BY <1>2, <2>1, <3>1, TokenMonotone DEF IssuedLast
  <2>2. CASE pc[r] # "ok"
    BY <1>2, <2>2, PcStep DEF Issuing
  <2> QED
    BY <2>1, <2>2
<1> QED
  BY <1>1, <1>2

\* The label that a request gets to at a refresh, it gets to with a token
\* that was issued.
LEMMA AtRefreshStep ==
    ASSUME IInv, [Next]_vars, NEW r \in Requests, pc'[r] \in AtRefresh
    PROVE  presented'[r] # None /\ token'[presented'[r]] # "absent"
<1> USE DEF IInv, TypeOK, AtRefresh, Goto
<1>1. CASE pc[r] \in AtRefresh
  <2>1. presented[r] \in Requests /\ token[presented[r]] # "absent"
    BY <1>1 DEF KnownIssued, Token
  <2> QED
    BY <1>1, <2>1, JobKept, TokenMonotone
<1>2. CASE pc[r] \notin AtRefresh
  <2>1. ASSUME NEW q \in Requests, Server(q) PROVE FALSE
    <3>1. CASE FamilyList(q) \/ Revoke(q)
      BY <1>2, <3>1 DEF FamilyList, ListTokens, Revoke, Revoked, AfterRevoke
    <3>2. CASE \/ LoginUser(q) \/ RefreshFind(q) \/ RefreshUser(q) \/ RefreshExpire(q)
               \/ RefreshConsume(q) \/ LogoutFind(q) \/ UserSave(q) \/ Arrive(q) \/ Expire(q)
               \/ Issue(q)
      BY <1>2, <3>2 DEF LoginUser, RefreshFind, RefreshUser, RefreshExpire, RefreshConsume,
         LogoutFind, UserSave, Arrive, Expire, Issue
    <3> QED
      BY <2>1, <3>1, <3>2 DEF Server, Continue
  <2>2. CASE Settled \/ Untouched
    BY <1>2, <2>2 DEF Settled, Settle, Untouched, sessionVars
  <2>3. ASSUME NEW q \in Requests, NEW j \in BrowserJobs, NEW t \in Tabs, Send(q, j, t)
        PROVE  presented'[r] # None /\ token'[presented'[r]] # "absent"
    <3>1. q = r /\ Entry(j) = "refresh_find"
      BY <1>2, <2>3, EntryType DEF Send
    <3>2. j = "refresh" /\ cookie # None
      BY <3>1 DEF Entry, BrowserJobs
    <3> QED
      BY <2>3, <3>1, <3>2 DEF Send, KnownIssued, tokenVars, Token
  <2> QED
    BY <2>1, <2>2, <2>3, ClientSteps DEF Sent
<1> QED
  BY <1>1, <1>2

LEMMA ListedStep ==
    ASSUME IInv, [Next]_vars, NEW r \in Requests, NEW t \in listed'[r]
    PROVE  token'[t] # "absent"
<1> USE DEF IInv, TypeOK
<1>1. t \in Requests /\ token[t] # "absent"
  <2>1. ASSUME NEW q \in Requests, FamilyList(q) PROVE t \in Requests /\ token[t] # "absent"
    BY <2>1 DEF FamilyList, ListTokens, Live, KnownIssued
  <2>2. ASSUME NEW q \in Requests, Revoke(q) PROVE t \in Requests /\ token[t] # "absent"
    BY <2>2 DEF Revoke, KnownIssued
  <2>3. CASE UNCHANGED listed
    BY <2>3 DEF KnownIssued
  <2>4. ASSUME NEW q \in Requests, Server(q), ~FamilyList(q), ~Revoke(q) PROVE UNCHANGED listed
    BY <2>4 DEF Server, Continue, revokeVars, LoginUser, RefreshFind, RefreshUser,
       RefreshExpire, RefreshConsume, LogoutFind, UserSave, Arrive, Expire, Issue
  <2>5. CASE Sent \/ Settled \/ Untouched
    BY <2>3, <2>5 DEF Sent, Send, Settled, Settle, Untouched, sessionVars, revokeVars
  <2> QED
    BY <2>1, <2>2, <2>3, <2>4, <2>5, ClientSteps
<1> QED
  BY <1>1, TokenMonotone

LEMMA CookieStep ==
    ASSUME IInv, [Next]_vars, cookie' # None
    PROVE  token'[cookie'] # "absent"
<1> USE DEF IInv, TypeOK
<1>1. cookie' \in Requests /\ token[cookie'] # "absent"
  <2>1. CASE UNCHANGED cookie
    BY <2>1 DEF KnownIssued, Token
  <2>2. ASSUME NEW r \in Requests, pc[r] = "ok", cookie' = CookieAfter(r)
        PROVE  cookie' \in Requests /\ token[cookie'] # "absent"
    BY <2>2 DEF CookieAfter, IssuedLast
  <2>3. (\E r \in Requests : Server(r)) \/ Sent \/ Untouched => UNCHANGED cookie
    BY DEF Server, clientVars, Sent, Send, Untouched
  <2> QED
    BY <2>1, <2>2, <2>3, ClientSteps DEF Settled
<1> QED
  BY <1>1, TokenMonotone

LEMMA KnownIssuedStep == ASSUME IInv, [Next]_vars PROVE KnownIssued'
  BY AtRefreshStep, ListedStep, CookieStep DEF KnownIssued

LEMMA ConsumedFirstStep == ASSUME IInv, [Next]_vars PROVE ConsumedFirst'
<1> SUFFICES ASSUME NEW r \in Requests, job'[r] = "refresh",
                    pc'[r] = "issue" \/ token'[r] # "absent"
             PROVE  presented'[r] # None /\ token'[presented'[r]] = "consumed"
  BY DEF ConsumedFirst
<1> USE DEF IInv, TypeOK
<1>1. pc[r] # "idle"
  <2>1. SUFFICES ASSUME pc[r] = "idle" PROVE FALSE
    OBVIOUS
  <2>2. token[r] = "absent"
    BY <2>1 DEF IssuedLast
  <2>3. token'[r] = "absent"
    BY <2>1, <2>2, TokenWrites DEF Consuming, SaveConsumed, Issuing
  <2>4. pc'[r] # "issue"
    <3>1. ASSUME NEW q \in Requests, Server(q) PROVE pc'[r] # "issue"
      BY <2>1, <3>1 DEF Server, Continue, FamilyList, ListTokens, Revoke, Revoked, AfterRevoke,
         LoginUser, RefreshFind, RefreshUser, RefreshExpire, RefreshConsume,
         LogoutFind, UserSave, Arrive, Expire, Issue, Goto
    <3>2. CASE Sent \/ Settled \/ Untouched
      BY <2>1, <3>2, EntryType DEF Sent, Send, Settled, Settle, Goto, Untouched, sessionVars
    <3> QED
      BY <3>1, <3>2, ClientSteps
  <2> QED
    BY <2>3, <2>4
<1>2. job[r] = "refresh" /\ presented'[r] = presented[r]
  BY <1>1, JobKept
<1>3. CASE pc[r] = "issue" \/ token[r] # "absent"
  <2>1. presented[r] \in Requests /\ token[presented[r]] = "consumed"
    BY <1>2, <1>3 DEF ConsumedFirst, Token
  <2> QED
    BY <1>2, <2>1, TokenMonotone
<1>4. CASE pc[r] # "issue" /\ token[r] = "absent"
  <2>1. token'[r] = "absent"
    BY <1>4, TokenWrites DEF Consuming, SaveConsumed, Issuing
  <2>2. RefreshConsume(r)
    <3>1. ASSUME NEW q \in Requests, Server(q) PROVE RefreshConsume(r)
      BY <1>2, <1>4, <2>1, <3>1 DEF Server, Continue, FamilyList, ListTokens, Revoke, Revoked,
         AfterRevoke, LoginUser, RefreshFind, RefreshUser, RefreshExpire, RefreshConsume,
         LogoutFind, UserSave, Arrive, Expire, Issue, Goto, JobAt
    <3>2. CASE Sent \/ Settled \/ Untouched
      BY <1>4, <2>1, <3>2, EntryType DEF Sent, Send, Settled, Settle, Goto, Untouched, sessionVars
    <3> QED
      BY <3>1, <3>2, ClientSteps
  <2>3. presented[r] \in Requests
    BY <2>2 DEF RefreshConsume, KnownIssued, AtRefresh, Token
  <2> QED
    BY <1>2, <2>2, <2>3 DEF RefreshConsume, SaveConsumed
<1> QED
  BY <1>3, <1>4

LEMMA StaysRevokedStep == ASSUME IInv, [Next]_vars PROVE StaysRevoked'
<1> USE DEF IInv, TypeOK
<1>1. ASSUME NEW t \in revoked' PROVE token'[t] = "consumed"
  <2>1. CASE t \in revoked
    BY <2>1, TokenMonotone DEF StaysRevoked
  <2>2. CASE t \notin revoked
    <3>1. PICK q \in Requests : Revoke(q)
      <4>1. ASSUME NEW q \in Requests, Server(q), ~Revoke(q) PROVE UNCHANGED revoked
        BY <4>1 DEF Server, Continue, FamilyList, ListTokens, revokeVars, LoginUser,
           RefreshFind, RefreshUser, RefreshExpire, RefreshConsume, LogoutFind, UserSave,
           Arrive, Expire, Issue
      <4>2. Sent \/ Settled \/ Untouched => UNCHANGED revoked
        BY DEF Sent, Send, Settled, Settle, Untouched, sessionVars, revokeVars
      <4> QED
        BY <1>1, <2>2, <4>1, <4>2, ClientSteps
    <3>2. PICK u \in listed[q] :
            /\ SaveConsumed(u)
            /\ IF listed[q] = {u} THEN Revoked(q) ELSE UNCHANGED <<pc, family, revoked>>
      BY <3>1 DEF Revoke
    <3>3. listed[q] = {u} /\ t \in family[q]
      BY <1>1, <2>2, <3>2 DEF Revoked
    <3>4. CASE t = u
      BY <3>2, <3>4 DEF SaveConsumed
    <3>5. CASE t # u
      BY <3>3, <3>5, TokenMonotone DEF StaysRevoked
    <3> QED
      BY <3>4, <3>5
  <2> QED
    BY <2>1, <2>2
<1>2. ASSUME NEW r \in Requests, NEW t \in family'[r] \ listed'[r] PROVE token'[t] = "consumed"
  <2>1. ASSUME NEW q \in Requests, FamilyList(q) PROVE t \in family[r] \ listed[r]
    BY <1>2, <2>1 DEF FamilyList, ListTokens
  <2>2. ASSUME NEW q \in Requests, Revoke(q) PROVE token'[t] = "consumed"
    <3>1. PICK u \in listed[q] :
            /\ SaveConsumed(u)
            /\ listed' = [listed EXCEPT ![q] = @ \ {u}]
            /\ IF listed[q] = {u} THEN Revoked(q) ELSE UNCHANGED <<pc, family, revoked>>
      BY <2>2 DEF Revoke
    <3>2. t \in family[r] /\ t \in Requests
      BY <1>2, <3>1 DEF Revoked
    <3>3. CASE t = u
      BY <3>1, <3>2, <3>3 DEF SaveConsumed
    <3>4. CASE t # u
      <4>1. t \notin listed[r]
        BY <1>2, <3>1, <3>4
      <4> QED
        BY <3>2, <4>1, TokenMonotone DEF StaysRevoked
    <3> QED
      BY <3>3, <3>4
  <2>3. CASE UNCHANGED <<family, listed>>
    BY <1>2, <2>3, TokenMonotone DEF StaysRevoked
  <2>4. ASSUME NEW q \in Requests, Server(q), ~FamilyList(q), ~Revoke(q)
        PROVE  UNCHANGED <<family, listed>>
    BY <2>4 DEF Server, Continue, revokeVars, LoginUser, RefreshFind, RefreshUser,
       RefreshExpire, RefreshConsume, LogoutFind, UserSave, Arrive, Expire, Issue
  <2>5. Sent \/ Settled \/ Untouched => UNCHANGED <<family, listed>>
    BY DEF Sent, Send, Settled, Settle, Untouched, sessionVars, revokeVars
  <2>6. t \in family[r] \ listed[r] => token'[t] = "consumed"
    BY TokenMonotone DEF StaysRevoked
  <2> QED
    BY <2>1, <2>2, <2>3, <2>4, <2>5, <2>6, ClientSteps
<1> QED
  BY <1>1, <1>2 DEF StaysRevoked

---------------------------------------------------------------------------
(* The promise of a tab *)

\* JobAt of one request.
JobFits(r) ==
    /\ pc[r] = "idle" => tab[r] = None
    /\ tab[r] # None => job[r] \in BrowserJobs
    /\ pc[r] = "login_user" => job[r] = "login"
    /\ pc[r] \in AtRefresh => job[r] = "refresh"
    /\ pc[r] = "logout_find" => job[r] = "logout"
    /\ pc[r] = "user_save" => job[r] \in OtherJobs
    /\ pc[r] \in {"family", "revoke"} => job[r] # "login"

LEMMA JobFitsAll == JobAt <=> \A r \in Requests : JobFits(r)
  BY DEF JobAt, JobFits

LEMMA JobFitsLater ==
    ASSUME NEW r \in Requests, JobFits(r), job'[r] = job[r], tab'[r] = tab[r],
           \/ pc'[r] = pc[r]
           \/ pc'[r] \in {"settled", "issue"} \cup Answers
           \/ pc'[r] \in AtRefresh /\ pc[r] \in AtRefresh
           \/ pc'[r] \in {"family", "revoke"} /\ job[r] # "login"
    PROVE  JobFits(r)'
  BY DEF JobFits, AtRefresh, Answers

LEMMA JobAtStep == ASSUME IInv, [Next]_vars PROVE JobAt'
<1> SUFFICES ASSUME NEW r \in Requests PROVE JobFits(r)'
  BY DEF JobAt, JobFits
<1>0. JobFits(r) /\ pc \in [Requests -> Labels] /\ job \in [Requests -> Jobs]
      /\ tab \in [Requests -> Tabs \cup {None}]
  BY JobFitsAll DEF IInv, TypeOK
<1>1. ASSUME NEW q \in Requests, Server(q) PROVE JobFits(r)'
  <2>1. CASE Arrive(q)
    BY <1>0, <1>1, <2>1 DEF Server, clientVars, Arrive, Goto, JobFits, OtherJobs, AtRefresh
  <2>2. CASE ~Arrive(q)
    <3>1. job'[r] = job[r] /\ tab'[r] = tab[r]
      BY <1>1, <2>2 DEF Server, clientVars, Continue, Unchanged, FamilyList, ListTokens, Revoke,
         LoginUser, RefreshFind, RefreshExpire, RefreshUser, RefreshConsume, Issue,
         LogoutFind, UserSave, Expire
    <3>2. \/ pc'[r] = pc[r]
          \/ pc'[r] \in {"settled", "issue"} \cup Answers
          \/ pc'[r] \in AtRefresh /\ pc[r] \in AtRefresh
          \/ pc'[r] \in {"family", "revoke"} /\ job[r] # "login"
      <4>1. CASE FamilyList(q) \/ Revoke(q)
        BY <1>0, <4>1 DEF FamilyList, ListTokens, Revoke, Revoked, AfterRevoke, Goto, JobFits,
           Answers
      <4>2. CASE UserSave(q) \/ LogoutFind(q) \/ Expire(q)
        BY <1>0, <4>2 DEF UserSave, LogoutFind, Expire, Goto, JobFits, OtherJobs
      <4>3. CASE \/ LoginUser(q) \/ RefreshFind(q) \/ RefreshUser(q) \/ RefreshExpire(q)
                 \/ RefreshConsume(q) \/ Issue(q)
        BY <1>0, <4>3 DEF LoginUser, RefreshFind, RefreshUser, RefreshExpire, RefreshConsume,
           Issue, Goto, JobFits, AtRefresh, Answers
      <4> QED
        BY <1>1, <2>2, <4>1, <4>2, <4>3 DEF Server, Continue
    <3> QED
      BY <1>0, <3>1, <3>2, JobFitsLater
  <2> QED
    BY <2>1, <2>2
<1>2. ASSUME NEW q \in Requests, NEW j \in BrowserJobs, NEW t \in Tabs, Send(q, j, t)
      PROVE  JobFits(r)'
  <2>1. CASE q = r
    <3>1. job'[r] = j /\ pc'[r] = Entry(j)
      BY <1>0, <1>2, <2>1 DEF Send, Goto
    <3>2. /\ Entry(j) = "login_user" => j = "login"
          /\ Entry(j) = "refresh_find" => j = "refresh"
          /\ Entry(j) = "logout_find" => j = "logout"
      BY DEF Entry, BrowserJobs
    <3> QED
      BY <3>1, <3>2, EntryType DEF JobFits, AtRefresh
  <2>2. CASE q # r
    BY <1>0, <1>2, <2>2, JobFitsLater DEF Send, Goto
  <2> QED
    BY <2>1, <2>2
<1>3. CASE Settled \/ Untouched
  <2>1. /\ job'[r] = job[r] /\ tab'[r] = tab[r]
        /\ pc'[r] \in {pc[r], "settled"}
    BY <1>0, <1>3 DEF Settled, Settle, Goto, Untouched, sessionVars
  <2> QED
    BY <1>0, <2>1, JobFitsLater
<1> QED
  BY <1>1, <1>2, <1>3, ClientSteps DEF Sent

\* A request of the browser is under way until the browser has the answer.
LEMMA InFlightServed ==
    ASSUME IInv, NEW r \in InFlight, NEW q \in Requests, Server(q)
    PROVE  pc'[r] \notin {"idle", "settled"}
<1>0. /\ r \in Requests /\ pc[r] \notin {"idle", "settled"} /\ tab[r] # None
      /\ JobFits(r) /\ pc \in [Requests -> Labels]
  BY JobFitsAll DEF InFlight, IInv, TypeOK
<1>1. CASE FamilyList(q) \/ Revoke(q)
  BY <1>0, <1>1 DEF FamilyList, ListTokens, Revoke, Revoked, AfterRevoke, Goto, JobFits,
     BrowserJobs
<1>2. CASE UserSave(q) \/ Arrive(q)
  BY <1>0, <1>2 DEF UserSave, Arrive, Goto, JobFits, BrowserJobs, OtherJobs
<1>3. CASE \/ LoginUser(q) \/ RefreshFind(q) \/ RefreshUser(q) \/ RefreshExpire(q)
           \/ RefreshConsume(q) \/ Issue(q) \/ LogoutFind(q) \/ Expire(q)
  BY <1>0, <1>3 DEF LoginUser, RefreshFind, RefreshUser, RefreshExpire, RefreshConsume,
     Issue, LogoutFind, Expire, Goto
<1> QED
  BY <1>1, <1>2, <1>3 DEF Server, Continue

LEMMA InFlightKept ==
    ASSUME IInv, [Next]_vars, NEW r \in InFlight, ~Settle(r)
    PROVE  r \in InFlight' /\ job'[r] = job[r] /\ tab'[r] = tab[r]
<1>0. /\ r \in Requests /\ pc[r] \notin {"idle", "settled"} /\ tab[r] # None
      /\ pc \in [Requests -> Labels]
  BY DEF InFlight, IInv, TypeOK
<1>1. job'[r] = job[r] /\ tab'[r] = tab[r]
  BY <1>0, JobKept
<1>2. pc'[r] \notin {"idle", "settled"}
  <2>1. CASE Sent
    BY <1>0, <2>1, EntryType DEF Sent, Send, Goto
  <2>2. CASE Settled \/ Untouched
    BY <1>0, <2>2 DEF Settled, Settle, Untouched, sessionVars, Goto
  <2> QED
    BY <2>1, <2>2, InFlightServed, ClientSteps
<1> QED
  BY <1>0, <1>1, <1>2 DEF InFlight

\* No request but one that is sent gets under way.
LEMMA InFlightNew ==
    ASSUME IInv, [Next]_vars, NEW r \in InFlight', r \notin InFlight
    PROVE  \E j \in BrowserJobs, t \in Tabs : Send(r, j, t)
<1> USE DEF IInv, TypeOK, InFlight
<1>1. ASSUME NEW q \in Requests, Server(q) PROVE FALSE
  BY <1>1 DEF JobAt, Server, clientVars, Continue, FamilyList, ListTokens, Revoke, Revoked,
     LoginUser, RefreshFind, RefreshUser, RefreshExpire, RefreshConsume, LogoutFind,
     UserSave, Arrive, Expire, Issue, Goto
<1>2. ~Settled /\ ~Untouched
  BY DEF Settled, Settle, Untouched, sessionVars, Goto
<1>3. PICK q \in Requests, j \in BrowserJobs, t \in Tabs : Send(q, j, t)
  BY <1>1, <1>2, ClientSteps DEF Sent
<1>4. q = r
  BY <1>3 DEF Send, Goto
<1> QED
  BY <1>3, <1>4

\* What a step does to the promises and the calls: a call that is refused
\* waits for a refresh that it sends, or for the one there is; a refresh that
\* settles is forgotten, with the calls that waited for it; a call is made.
Waits(c) ==
    /\ call[c].at = "sent" /\ call[c].tab \in Tabs
    /\ call' = [call EXCEPT ![c] = [at |-> "waiting", tab |-> call[c].tab]]

Refreshes(c, r) ==
    /\ refreshing[call[c].tab] = None
    /\ Send(r, "refresh", call[c].tab)
    /\ refreshing' = [refreshing EXCEPT ![call[c].tab] = r]

Joins(c) == refreshing[call[c].tab] # None /\ UNCHANGED <<refreshing, sessionVars, tab>>

Forgets(r) ==
    /\ Settle(r) /\ job[r] = "refresh"
    /\ refreshing' = [t \in Tabs |-> IF refreshing[t] = r THEN None ELSE refreshing[t]]
    /\ call' = [c \in Calls |-> IF WaitsFor(c, r) THEN NoCall ELSE call[c]]

Calling(c) ==
    \E t \in Tabs : call' = [call EXCEPT ![c] = [at |-> "sent", tab |-> t]]

\* No refresh is sent or settles.
NoRefresh ==
    /\ UNCHANGED refreshing
    /\ UNCHANGED call \/ \E c \in Calls : Calling(c)
    /\ \/ \E r \in Requests : Server(r)
       \/ \E r \in Requests, t \in Tabs, j \in {"login", "logout"} : Send(r, j, t)
       \/ \E r \in Requests : Settle(r) /\ job[r] # "refresh"
       \/ Untouched

LEMMA PromiseSteps ==
    ASSUME IInv, [Next]_vars
    PROVE  \/ \E c \in Calls, r \in Requests : Waits(c) /\ Refreshes(c, r)
           \/ \E c \in Calls : Waits(c) /\ Joins(c)
           \/ \E r \in Requests : Forgets(r)
           \/ NoRefresh
<1>1. ASSUME NEW c \in Calls, CallDenied(c)
      PROVE  Waits(c) /\ (Joins(c) \/ \E r \in Requests : Refreshes(c, r))
  <2>1. Waits(c)
    BY <1>1 DEF CallDenied, Waits, IInv, PromiseIsRefresh
  <2> QED
    BY <1>1, <2>1 DEF CallDenied, Joins, Refreshes
<1>2. ASSUME NEW r \in Requests, Delivery(r) PROVE Forgets(r) \/ NoRefresh
  <2>1. PageSettles(r) /\ Settle(r)
    BY <1>2 DEF Delivery, Receive, Lose
  <2>2. CASE job[r] = "refresh"
    BY <2>1, <2>2 DEF PageSettles, RefreshSettled, SettlePromise, Forgets
  <2>3. CASE job[r] # "refresh"
    BY <2>1, <2>3 DEF PageSettles, NoRefresh
  <2> QED
    BY <2>2, <2>3
<1>3. ASSUME NEW r \in Requests, NEW t \in Tabs, SignIn(r, t) PROVE NoRefresh
  BY <1>3 DEF SignIn, NoRefresh
<1>4. ASSUME NEW c \in Calls, NEW t \in Tabs, SendCall(c, t) PROVE NoRefresh
  BY <1>4 DEF SendCall, NoRefresh, Untouched, Calling
<1>5. ASSUME NEW r \in Requests, Server(r) PROVE NoRefresh
  BY <1>5 DEF Server, clientVars, NoRefresh
<1>6. CASE UNCHANGED vars
  BY <1>6 DEF vars, clientVars, Untouched, NoRefresh
<1> QED
  BY <1>1, <1>2, <1>3, <1>4, <1>5, <1>6 DEF Next

LEMMA SingleFlightStep == ASSUME IInv, [Next]_vars PROVE SingleFlight'
<1> SUFFICES ASSUME NEW r \in InFlight', job'[r] = "refresh"
             PROVE  refreshing'[tab'[r]] = r
  BY DEF SingleFlight
<1>0. /\ r \in Requests /\ refreshing \in [Tabs -> Token] /\ tab \in [Requests -> Tabs \cup {None}]
      /\ pc \in [Requests -> Labels] /\ job \in [Requests -> Jobs]
  BY DEF InFlight, IInv, TypeOK
<1>1. CASE r \in InFlight
  <2>1. ~Settle(r)
    BY <1>0 DEF InFlight, Settle, Goto
  <2>2. job[r] = "refresh" /\ tab'[r] = tab[r] /\ tab[r] \in Tabs
    BY <1>0, <1>1, <2>1, InFlightKept DEF InFlight
  <2>3. refreshing[tab[r]] = r
    BY <1>1, <2>2 DEF SingleFlight, IInv
  <2>4. ASSUME NEW c \in Calls, NEW q \in Requests, Waits(c), Refreshes(c, q)
        PROVE  refreshing'[tab[r]] = r
    BY <1>0, <2>2, <2>3, <2>4 DEF Waits, Refreshes
  <2>5. ASSUME NEW q \in Requests, Forgets(q) PROVE refreshing'[tab[r]] = r
    <3>1. q # r
      BY <2>1, <2>5 DEF Forgets
    <3> QED
      BY <2>2, <2>3, <2>5, <3>1 DEF Forgets
  <2>6. (\E c \in Calls : Joins(c)) \/ NoRefresh => UNCHANGED refreshing
    BY DEF Joins, NoRefresh
  <2> QED
    BY <2>2, <2>3, <2>4, <2>5, <2>6, PromiseSteps
<1>2. CASE r \notin InFlight
  <2>1. PICK j \in BrowserJobs, t \in Tabs : Send(r, j, t)
    BY <1>2, InFlightNew
  <2>2. pc[r] = "idle" /\ pc'[r] # "idle" /\ tab'[r] = t /\ j = "refresh"
    BY <1>0, <2>1 DEF Send, InFlight
  <2>3. ASSUME NEW c \in Calls, NEW q \in Requests, Waits(c), Refreshes(c, q)
        PROVE  refreshing'[t] = r
    <3>1. q = r /\ call[c].tab = t
      BY <1>0, <2>2, <2>3 DEF Waits, Refreshes, Send, Goto
    <3> QED
      BY <1>0, <2>3, <3>1 DEF Refreshes
  <2>4. /\ pc'[r] \notin {"idle", "settled"} /\ tab'[r] # None /\ tab[r] = None
    BY <2>2, JobFitsAll DEF InFlight, JobFits, IInv
  <2>5. ~(\E c \in Calls : Joins(c)) /\ ~(\E q \in Requests : Settle(q))
    BY <1>0, <2>2, <2>4 DEF Joins, sessionVars, Settle, Goto
  <2>6. ~NoRefresh
    <3>1. ASSUME NEW q \in Requests, Server(q) PROVE FALSE
      BY <2>4, <3>1 DEF Server, clientVars
    <3>2. ASSUME NEW q \in Requests, NEW u \in Tabs, NEW i \in {"login", "logout"}, Send(q, i, u)
          PROVE  FALSE
      <4>1. q = r
        BY <1>0, <2>2, <3>2 DEF Send, Goto
      <4> QED
        BY <1>0, <3>2, <4>1 DEF Send
    <3>3. ~Untouched
      BY <2>2 DEF Untouched, sessionVars
    <3> QED
      BY <2>5, <3>1, <3>2, <3>3 DEF NoRefresh
  <2> QED
    BY <2>2, <2>3, <2>5, <2>6, PromiseSteps DEF Forgets
<1> QED
  BY <1>1, <1>2

LEMMA PromiseIsRefreshStep == ASSUME IInv, [Next]_vars PROVE PromiseIsRefresh'
<1>0. /\ refreshing \in [Tabs -> Token] /\ tab \in [Requests -> Tabs \cup {None}]
      /\ pc \in [Requests -> Labels] /\ job \in [Requests -> Jobs]
      /\ call \in [Calls -> CallRecord]
  BY DEF IInv, TypeOK
<1>1. ASSUME NEW t \in Tabs, refreshing'[t] # None
      PROVE  /\ refreshing'[t] \in InFlight'
             /\ job'[refreshing'[t]] = "refresh" /\ tab'[refreshing'[t]] = t
  <2>1. CASE refreshing'[t] = refreshing[t]
    <3> DEFINE r == refreshing[t]
    <3>1. r \in InFlight /\ job[r] = "refresh" /\ tab[r] = t
      BY <1>1, <2>1 DEF IInv, PromiseIsRefresh
    <3>2. ~Settle(r)
      <4>1. SUFFICES ASSUME Settle(r) PROVE FALSE
        OBVIOUS
      <4>2. r \in Requests /\ pc[r] \notin {"idle", "settled"} /\ pc'[r] = "settled" /\ job' = job
        BY <1>0, <3>1, <4>1 DEF InFlight, Settle, Goto
      <4>3. ASSUME NEW q \in Requests, Forgets(q) PROVE FALSE
        <5>1. q = r
          BY <1>0, <4>2, <4>3 DEF Forgets, Settle, Goto
        <5> QED
          BY <1>1, <2>1, <4>3, <5>1 DEF Forgets
      <4>4. ~NoRefresh
        <5>1. ASSUME NEW q \in Requests, Server(q) PROVE FALSE
          BY <4>2, <3>1, <5>1, InFlightServed
        <5>2. ASSUME NEW q \in Requests, NEW u \in Tabs, NEW i \in {"login", "logout"}, Send(q, i, u)
              PROVE  FALSE
          BY <1>0, <4>2, <5>2 DEF Send, Goto, Entry
        <5>3. ASSUME NEW q \in Requests, Settle(q), job[q] # "refresh" PROVE FALSE
          BY <1>0, <3>1, <4>2, <5>3 DEF Settle, Goto
        <5>4. ~Untouched
          BY <4>2 DEF Untouched, sessionVars
        <5> QED
          BY <5>1, <5>2, <5>3, <5>4 DEF NoRefresh
      <4>5. ~(\E c \in Calls, q \in Requests : Waits(c) /\ Refreshes(c, q))
        BY <1>0, <4>2, EntryType DEF Refreshes, Send, Goto, BrowserJobs
      <4>6. ~(\E c \in Calls : Joins(c))
        BY <4>2 DEF Joins, sessionVars
      <4> QED
        BY <4>3, <4>4, <4>5, <4>6, PromiseSteps
    <3> QED
      BY <2>1, <3>1, <3>2, InFlightKept
  <2>2. CASE refreshing'[t] # refreshing[t]
    <3>1. PICK c \in Calls, r \in Requests : Waits(c) /\ Refreshes(c, r)
      BY <1>0, <1>1, <2>2, PromiseSteps DEF Forgets, Joins, NoRefresh
    <3>2. refreshing'[t] = r /\ call[c].tab = t
      BY <1>0, <2>2, <3>1 DEF Refreshes, Waits
    <3>3. r \in InFlight' /\ job'[r] = "refresh" /\ tab'[r] = t
      <4>1. Send(r, "refresh", t)
        BY <3>1, <3>2 DEF Refreshes
      <4> QED
        BY <1>0, <4>1, EntryType DEF Send, InFlight, Goto, BrowserJobs
    <3> QED
      BY <3>2, <3>3
  <2> QED
    BY <2>1, <2>2
<1>2. ASSUME NEW c \in Calls
      PROVE  /\ call'[c].at # "none" => call'[c].tab \in Tabs
             /\ call'[c].at = "waiting" => refreshing'[call'[c].tab] # None
  <2>0. /\ call[c].at # "none" => call[c].tab \in Tabs
        /\ call[c].at = "waiting" => refreshing[call[c].tab] # None
    BY DEF IInv, PromiseIsRefresh
  <2>1. ASSUME NEW d \in Calls, NEW r \in Requests, Waits(d), Refreshes(d, r)
        PROVE  /\ call'[c].at # "none" => call'[c].tab \in Tabs
               /\ call'[c].at = "waiting" => refreshing'[call'[c].tab] # None
    BY <1>0, <2>0, <2>1 DEF Waits, Refreshes
  <2>2. ASSUME NEW d \in Calls, Waits(d), Joins(d)
        PROVE  /\ call'[c].at # "none" => call'[c].tab \in Tabs
               /\ call'[c].at = "waiting" => refreshing'[call'[c].tab] # None
    BY <1>0, <2>0, <2>2 DEF Waits, Joins
  <2>3. ASSUME NEW r \in Requests, Forgets(r)
        PROVE  /\ call'[c].at # "none" => call'[c].tab \in Tabs
               /\ call'[c].at = "waiting" => refreshing'[call'[c].tab] # None
    BY <1>0, <2>0, <2>3 DEF Forgets, WaitsFor, NoCall
  <2>4. ASSUME NoRefresh
        PROVE  /\ call'[c].at # "none" => call'[c].tab \in Tabs
               /\ call'[c].at = "waiting" => refreshing'[call'[c].tab] # None
    BY <1>0, <2>0, <2>4 DEF NoRefresh, Calling
  <2> QED
    BY <2>1, <2>2, <2>3, <2>4, PromiseSteps
<1> QED
  BY <1>1, <1>2 DEF PromiseIsRefresh

---------------------------------------------------------------------------
(* Theorems *)

LEMMA IInvInit == ASSUME Init PROVE IInv
<1>1. PICK r \in Requests : SessionsInit(r) /\ cookie = r
  BY DEF Init
<1>2. IssuedLast /\ ConsumedFirst /\ StaysRevoked
  BY <1>1 DEF SessionsInit, IssuedLast, ConsumedFirst, StaysRevoked
<1>3. KnownIssued
  BY <1>1 DEF SessionsInit, KnownIssued, AtRefresh
<1>4. JobAt /\ SingleFlight
  BY <1>1 DEF Init, SessionsInit, JobAt, AtRefresh, SingleFlight, InFlight
<1>5. PromiseIsRefresh
  BY DEF Init, PromiseIsRefresh, NoCall
<1> QED
  BY <1>2, <1>3, <1>4, <1>5, TypeInit DEF IInv

LEMMA IInvStep == ASSUME IInv, [Next]_vars PROVE IInv'
<1>1. TypeOK'
  BY TypeStep DEF IInv
<1>2. IssuedLast' /\ KnownIssued' /\ ConsumedFirst' /\ StaysRevoked' /\ JobAt'
  BY IssuedLastStep, KnownIssuedStep, ConsumedFirstStep, StaysRevokedStep, JobAtStep
<1>3. PromiseIsRefresh' /\ SingleFlight'
  BY PromiseIsRefreshStep, SingleFlightStep
<1> QED
  BY <1>1, <1>2, <1>3 DEF IInv

\* The inductive invariant of the browser's sessions holds for any requests,
\* tabs and calls.
THEOREM SessionInvariance == Spec => []IInv
  BY IInvInit, IInvStep, PTL DEF Spec

\* The handlers of auth/service.py and the interceptors of api/client.ts
\* keep every variable in its type.
THEOREM SessionTypeCorrect == Spec => []TypeOK
<1>1. IInv => TypeOK
  BY DEF IInv
<1> QED
  BY <1>1, SessionInvariance, PTL

\* refresh_user_session never leaves both a token and the token it was
\* rotated to, whatever other handlers run between its awaits.  (It is where
\* times are read with a zone that a refresh gets to the rotation at all.)
THEOREM RotationConsumesCorrect == Spec => []RotationConsumes
<1>1. IInv => RotationConsumes
  BY DEF IInv, ConsumedFirst, RotationConsumes
<1> QED
  BY <1>1, SessionInvariance, PTL

\* What _revoke_user_refresh_family has saved revoked is never live again.
THEOREM RevocationHoldsCorrect == Spec => []RevocationHolds
<1>1. IInv => RevocationHolds
  BY DEF IInv, StaysRevoked, RevocationHolds
<1> QED
  BY <1>1, SessionInvariance, PTL

\* refreshAccessToken of api/client.ts has one refresh of a tab under way.
THEOREM SingleFlightCorrect == Spec => []SingleFlight
<1>1. IInv => SingleFlight
  BY DEF IInv
<1> QED
  BY <1>1, SessionInvariance, PTL

\* A call that waits for a new access token waits for a refresh that is
\* under way, which will settle it.
THEOREM WaitersAreServedCorrect == Spec => []WaitersAreServed
<1>1. IInv => WaitersAreServed
  <2>1. SUFFICES ASSUME IInv, NEW c \in Calls, call[c].at = "waiting"
                 PROVE  \E r \in InFlight : job[r] = "refresh" /\ refreshing[call[c].tab] = r
    BY DEF WaitersAreServed
  <2> QED
    BY <2>1 DEF IInv, PromiseIsRefresh
<1> QED
  BY <1>1, SessionInvariance, PTL

---------------------------------------------------------------------------
(* What the browser's cookie can be *)

\* What a revocation has listed is remembered until it is done.
Listing ==
    \A r \in Requests :
        /\ listed[r] \subseteq family[r]
        /\ family[r] # {} => pc[r] = "revoke"

\* Only the browser signs in, refreshes and signs out.
InBrowser ==
    \A r \in Requests :
        /\ job[r] \in {"refresh", "logout"} => tab[r] # None /\ pc[r] # "idle"
        /\ pc[r] \in {"login_user", "issue"} \cup AtRefresh => tab[r] # None
        /\ r \in alarm => job[r] = "refresh"

\* The browser presents the tokens of requests that it has settled.
SettledBefore ==
    /\ cookie # None => pc[cookie] = "settled"
    /\ \A r \in failed : pc[r] = "settled"
    /\ \A r \in Requests : presented[r] # None =>
            presented[r] # r /\ pc[presented[r]] = "settled"

\* A refresh that may have consumed the token it was presented.
PastConsume == {"denied", "issue", "ok", "error", "settled"}

Spends(q, t) == job[q] = "refresh" /\ presented[q] = t /\ pc[q] \in PastConsume

\* A token is consumed by a revocation or by a refresh that presented it.
WhyConsumed ==
    \A t \in Requests :
        token[t] = "consumed" => SomeoneRevoked(t) \/ \E q \in Requests : Spends(q, t)

\* A refresh that did not fail has moved the cookie on.
CookieMoved ==
    \A q \in Requests :
        job[q] = "refresh" /\ pc[q] = "settled" /\ q \notin failed /\ presented[q] # None =>
            cookie # presented[q]

\* A tab presents a token again only if the refresh that did so failed.
OneTry ==
    \A q, r \in Requests :
        /\ q # r /\ job[q] = "refresh" /\ job[r] = "refresh"
        /\ tab[q] = tab[r] /\ presented[q] = presented[r] /\ presented[r] # None
        => q \in failed \/ r \in failed

\* How far a logout that overlaps nothing has got.
LoneLogout ==
    alone # None =>
        /\ InFlight \subseteq {alone}
        /\ job[alone] = "logout"
        /\ pc[alone] \in {"logout_find", "family", "revoke", "ok", "settled"}
        /\ presented[alone] # None =>
            /\ pc[alone] = "revoke" => Live \subseteq listed[alone]
            /\ pc[alone] \in {"ok", "settled"} => Live = {}
            /\ pc[alone] = "settled" /\ alone \notin failed => cookie = None

CookieInv ==
    /\ IInv
    /\ Listing
    /\ InBrowser
    /\ SettledBefore
    /\ WhyConsumed
    /\ CookieMoved
    /\ OneTry
    /\ NoFalseAlarm
    /\ LoneLogout

\* What the steps that are not the server's do to the history of the browser.
Answered(r) ==
    /\ pc[r] \in Answers /\ tab[r] # None
    /\ Settle(r)
    /\ \/ pc[r] = "ok" /\ cookie' = CookieAfter(r) /\ UNCHANGED failed
       \/ failed' = failed \cup {r} /\ UNCHANGED cookie
    /\ UNCHANGED alone

Quiet == UNCHANGED <<sessionVars, cookie, tab, failed, alone>>

LEMMA BrowserSteps ==
    ASSUME IInv, [Next]_vars, \A r \in Requests : ~Server(r)
    PROVE  Sent \/ Quiet \/ \E r \in Requests : Answered(r)
<1>1. ASSUME NEW r \in Requests, Delivery(r) PROVE Answered(r)
  BY <1>1 DEF Delivery, Receive, Lose, Answered, Answers
<1>2. ASSUME NEW r \in Requests, NEW t \in Tabs, SignIn(r, t) PROVE Sent
  BY <1>2 DEF SignIn, Sent, BrowserJobs
<1>3. ASSUME NEW c \in Calls, CallDenied(c) PROVE Sent \/ Quiet
  <2>1. call[c].tab \in Tabs
    BY <1>3 DEF CallDenied, IInv, PromiseIsRefresh
  <2> QED
    BY <1>3, <2>1 DEF CallDenied, Sent, Quiet, BrowserJobs
<1>4. ASSUME NEW c \in Calls, NEW t \in Tabs, SendCall(c, t) PROVE Quiet
  BY <1>4 DEF SendCall, Quiet
<1>5. CASE UNCHANGED vars
  BY <1>5 DEF vars, clientVars, Quiet
<1> QED
  BY <1>1, <1>2, <1>3, <1>4, <1>5 DEF Next

\* The handlers that list and revoke nothing.
Plain(r) ==
    \/ LoginUser(r) \/ RefreshFind(r) \/ RefreshExpire(r) \/ RefreshUser(r)
    \/ RefreshConsume(r) \/ Issue(r) \/ LogoutFind(r) \/ UserSave(r) \/ Arrive(r)

LEMMA PlainStep ==
    ASSUME IInv, NEW q \in Requests, Plain(q)
    PROVE  /\ UNCHANGED <<listed, family, revoked>>
           /\ pc[q] \notin {"family", "revoke", "settled"} \cup Answers
           /\ \A r \in Requests : r # q => pc'[r] = pc[r]
  BY DEF Plain, LoginUser, RefreshFind, RefreshExpire, RefreshUser, RefreshConsume, Issue,
     LogoutFind, UserSave, Arrive, revokeVars, Goto, Answers, IInv, TypeOK

LEMMA ServerSteps ==
    ASSUME NEW q \in Requests, Server(q)
    PROVE  /\ UNCHANGED clientVars
           /\ FamilyList(q) \/ Revoke(q) \/ Plain(q) \/ Expire(q)
  BY DEF Server, Continue, Plain

\* The steps that are not of a revocation.
LEMMA ListingKept ==
    ASSUME IInv, [Next]_vars, \A q \in Requests : ~FamilyList(q) /\ ~Revoke(q)
    PROVE  /\ UNCHANGED <<listed, family, revoked>>
           /\ \A r \in Requests : pc[r] = "revoke" => pc'[r] = "revoke"
<1>1. ASSUME NEW q \in Requests, Server(q)
      PROVE  /\ UNCHANGED <<listed, family, revoked>>
             /\ \A r \in Requests : pc[r] = "revoke" => pc'[r] = "revoke"
  <2>1. CASE Plain(q)
    BY <2>1, PlainStep
  <2>2. CASE Expire(q)
    BY <2>2 DEF Expire, revokeVars
  <2> QED
    BY <1>1, <2>1, <2>2, ServerSteps
<1>2. CASE Sent \/ Settled \/ Untouched
  BY <1>2 DEF Sent, Send, Settled, Settle, Untouched, sessionVars, revokeVars, Goto, Answers,
     IInv, TypeOK
<1> QED
  BY <1>1, <1>2, ClientSteps

LEMMA ListingStep == ASSUME CookieInv, [Next]_vars PROVE Listing'
<1> USE DEF CookieInv
<1> SUFFICES ASSUME NEW r \in Requests
             PROVE  listed'[r] \subseteq family'[r] /\ (family'[r] # {} => pc'[r] = "revoke")
  BY DEF Listing
<1>0. /\ listed[r] \subseteq family[r]
      /\ family[r] # {} => pc[r] = "revoke"
      /\ TypeOK
  BY DEF Listing, IInv
<1>1. ASSUME NEW q \in Requests, FamilyList(q)
      PROVE  listed'[r] \subseteq family'[r] /\ (family'[r] # {} => pc'[r] = "revoke")
  BY <1>0, <1>1 DEF FamilyList, ListTokens, Goto, TypeOK
<1>2. ASSUME NEW q \in Requests, Revoke(q)
      PROVE  listed'[r] \subseteq family'[r] /\ (family'[r] # {} => pc'[r] = "revoke")
  <2>1. PICK u \in listed[q] :
          /\ listed' = [listed EXCEPT ![q] = @ \ {u}]
          /\ IF listed[q] = {u} THEN Revoked(q) ELSE UNCHANGED <<pc, family, revoked>>
    BY <1>2 DEF Revoke
  <2>2. CASE listed[q] = {u}
    BY <1>0, <2>1, <2>2 DEF Revoked, Goto, TypeOK
  <2>3. CASE listed[q] # {u}
    BY <1>0, <2>1, <2>3 DEF TypeOK
  <2> QED
    BY <2>2, <2>3
<1>3. CASE \A q \in Requests : ~FamilyList(q) /\ ~Revoke(q)
  BY <1>0, <1>3, ListingKept
<1> QED
  BY <1>1, <1>2, <1>3

\* What was revoked, or is listed to be, is not forgotten.
LEMMA RevokedStays ==
    ASSUME CookieInv, [Next]_vars, NEW t \in Requests, SomeoneRevoked(t)
    PROVE  SomeoneRevoked(t)'
<1> USE DEF CookieInv
<1>1. ASSUME NEW q \in Requests, FamilyList(q) PROVE SomeoneRevoked(t)'
  <2>1. family[q] = {}
    BY <1>1 DEF FamilyList, ListTokens, Listing
  <2> QED
    BY <1>1, <2>1 DEF FamilyList, ListTokens, SomeoneRevoked, IInv, TypeOK
<1>2. ASSUME NEW q \in Requests, Revoke(q) PROVE SomeoneRevoked(t)'
  <2>1. Revoked(q) \/ UNCHANGED <<pc, family, revoked>>
    BY <1>2 DEF Revoke
  <2> QED
    BY <2>1 DEF Revoked, SomeoneRevoked, IInv, TypeOK
<1>3. CASE \A q \in Requests : ~FamilyList(q) /\ ~Revoke(q)
  BY <1>3, ListingKept DEF SomeoneRevoked
<1> QED
  BY <1>1, <1>2, <1>3

LEMMA SpendsStays ==
    ASSUME CookieInv, [Next]_vars, NEW q \in Requests, NEW t \in Requests, Spends(q, t)
    PROVE  Spends(q, t)'
<1> USE DEF CookieInv
<1>0. pc[q] \in PastConsume /\ TypeOK /\ IInv
  BY DEF Spends, IInv
<1>1. job'[q] = job[q] /\ presented'[q] = presented[q]
  BY <1>0, JobKept DEF PastConsume
<1>2. pc'[q] \in PastConsume
  <2>1. ASSUME NEW r \in Requests, Server(r) PROVE pc'[q] \in PastConsume
    <3>1. CASE FamilyList(r) \/ Revoke(r)
      BY <1>0, <3>1 DEF FamilyList, ListTokens, Revoke, Revoked, Goto, PastConsume, TypeOK
    <3>2. CASE Plain(r)
      BY <1>0, <3>2 DEF Plain, LoginUser, RefreshFind, RefreshExpire, RefreshUser,
         RefreshConsume, Issue, LogoutFind, UserSave, Arrive, Goto, PastConsume, TypeOK
    <3>3. CASE Expire(r)
      BY <1>0, <3>3 DEF Expire
    <3> QED
      BY <2>1, <3>1, <3>2, <3>3, ServerSteps
  <2>2. CASE Sent \/ Settled \/ Untouched
    BY <1>0, <2>2 DEF Sent, Send, Settled, Settle, Untouched, sessionVars, Goto, PastConsume,
       TypeOK
  <2> QED
    BY <1>0, <2>1, <2>2, ClientSteps
<1> QED
  BY <1>1, <1>2 DEF Spends

\* A token that a step consumes.
LEMMA ConsumedStep ==
    ASSUME CookieInv, [Next]_vars, NEW t \in Requests,
           token[t] # "consumed", token'[t] = "consumed"
    PROVE  SomeoneRevoked(t)' \/ \E q \in Requests : Spends(q, t)'
<1> USE DEF CookieInv
<1>0. TypeOK /\ IInv
  BY DEF IInv
<1>1. ASSUME NEW q \in Requests, Server(q)
      PROVE  SomeoneRevoked(t)' \/ Spends(q, t)'
  <2>1. CASE Revoke(q)
    <3>1. PICK u \in listed[q] : SaveConsumed(u)
      BY <2>1 DEF Revoke
    <3>2. t = u
      BY <1>0, <3>1 DEF SaveConsumed, TypeOK
    <3>3. SomeoneRevoked(t)
      BY <3>1, <3>2 DEF Listing, SomeoneRevoked
    <3> QED
      BY <3>3, RevokedStays
  <2>2. CASE RefreshExpire(q) \/ RefreshConsume(q)
    <3>1. job[q] = "refresh" /\ UNCHANGED <<job, presented>>
      BY <1>0, <2>2 DEF RefreshExpire, RefreshConsume, Unchanged, IInv, JobAt, AtRefresh
    <3>2. presented[q] = t
      BY <1>0, <2>2 DEF RefreshExpire, RefreshConsume, SaveConsumed, TypeOK
    <3>3. pc'[q] \in PastConsume
      BY <1>0, <2>2 DEF RefreshExpire, RefreshConsume, Goto, PastConsume, TypeOK
    <3> QED
      BY <3>1, <3>2, <3>3 DEF Spends
  <2>3. CASE FamilyList(q) \/ Expire(q) \/ (Plain(q) /\ ~RefreshExpire(q) /\ ~RefreshConsume(q))
    BY <1>0, <2>3 DEF FamilyList, ListTokens, Expire, Plain, LoginUser, RefreshFind,
       RefreshUser, Issue, LogoutFind, UserSave, Arrive, tokenVars, TypeOK
  <2> QED
    BY <1>1, <2>1, <2>2, <2>3, ServerSteps
<1>2. CASE Sent \/ Settled \/ Untouched
  BY <1>2 DEF Sent, Send, Settled, Settle, Untouched, sessionVars, tokenVars
<1> QED
  BY <1>0, <1>1, <1>2, ClientSteps

LEMMA WhyConsumedStep == ASSUME CookieInv, [Next]_vars PROVE WhyConsumed'
<1> SUFFICES ASSUME NEW t \in Requests, token'[t] = "consumed"
             PROVE  SomeoneRevoked(t)' \/ \E q \in Requests : Spends(q, t)'
  BY DEF WhyConsumed
<1>1. CASE token[t] = "consumed"
  <2>1. CASE SomeoneRevoked(t)
    BY <2>1, RevokedStays
  <2>2. ASSUME NEW q \in Requests, Spends(q, t)
        PROVE  \E p \in Requests : Spends(p, t)'
    BY <2>2, SpendsStays
  <2> QED
    BY <1>1, <2>1, <2>2 DEF CookieInv, WhyConsumed
<1>2. CASE token[t] # "consumed"
  BY <1>2, ConsumedStep
<1> QED
  BY <1>1, <1>2

\* The steps that set off an alarm.
LEMMA AlarmStep ==
    ASSUME IInv, [Next]_vars, NEW r \in alarm', r \notin alarm
    PROVE  /\ r \in Requests /\ pc[r] = "refresh_find"
           /\ token[presented[r]] = "consumed"
           /\ RefreshFind(r) /\ UNCHANGED clientVars
<1>1. ASSUME NEW q \in Requests, Server(q)
      PROVE  UNCHANGED alarm \/ RefreshFind(q)
  BY <1>1 DEF Server, Continue, FamilyList, ListTokens, Revoke, LoginUser, RefreshExpire,
     RefreshUser, RefreshConsume, Issue, LogoutFind, UserSave, Arrive, Expire, Unchanged
<1>2. Sent \/ Settled \/ Untouched => UNCHANGED alarm
  BY DEF Sent, Send, Settled, Settle, Untouched, sessionVars
<1>3. PICK q \in Requests : Server(q) /\ RefreshFind(q)
  BY <1>1, <1>2, ClientSteps
<1>4. q = r
  BY <1>3 DEF RefreshFind
<1> QED
  BY <1>3, <1>4 DEF RefreshFind, Server

LEMMA InBrowserStep == ASSUME CookieInv, [Next]_vars PROVE InBrowser'
<1> USE DEF CookieInv
<1>0. TypeOK /\ IInv
  BY DEF IInv
<1> SUFFICES ASSUME NEW r \in Requests
             PROVE  /\ job'[r] \in {"refresh", "logout"} => tab'[r] # None /\ pc'[r] # "idle"
                    /\ pc'[r] \in {"login_user", "issue"} \cup AtRefresh => tab'[r] # None
                    /\ r \in alarm' => job'[r] = "refresh"
  BY DEF InBrowser
<1>1. pc[r] # "idle" => pc'[r] # "idle" /\ job'[r] = job[r] /\ tab'[r] = tab[r]
  <2>1. ASSUME NEW q \in Requests, Server(q), pc[r] # "idle" PROVE pc'[r] # "idle"
    <3>1. CASE FamilyList(q) \/ Revoke(q)
      BY <1>0, <2>1, <3>1 DEF FamilyList, ListTokens, Revoke, Revoked, AfterRevoke, Goto, TypeOK
    <3>2. CASE Plain(q) \/ Expire(q)
      BY <1>0, <2>1, <3>2 DEF Plain, LoginUser, RefreshFind, RefreshExpire, RefreshUser,
         RefreshConsume, Issue, LogoutFind, UserSave, Arrive, Expire, Goto, TypeOK
    <3> QED
      BY <2>1, <3>1, <3>2, ServerSteps
  <2>2. CASE Sent \/ Settled \/ Untouched
    BY <1>0, <2>2, EntryType DEF Sent, Send, Settled, Settle, Untouched, sessionVars, Goto, TypeOK
  <2> QED
    BY <1>0, <2>1, <2>2, ClientSteps, JobKept
<1>2. r \in alarm' => job'[r] = "refresh"
  <2>1. CASE r \in alarm
    BY <1>1, <2>1 DEF InBrowser
  <2>2. CASE r \notin alarm
    BY <1>0, <1>1, <2>2, AlarmStep DEF IInv, JobAt, AtRefresh
  <2> QED
    BY <2>1, <2>2
<1>3. ASSUME NEW q \in Requests, Server(q)
      PROVE  /\ job'[r] \in {"refresh", "logout"} => tab'[r] # None /\ pc'[r] # "idle"
             /\ pc'[r] \in {"login_user", "issue"} \cup AtRefresh => tab'[r] # None
  <2>1. CASE pc[r] = "idle"
    <3>1. (job'[r] = job[r] \/ job'[r] \in OtherJobs) /\ pc'[r] \in {"idle", "user_save"}
      BY <1>0, <1>3, <2>1 DEF Server, Continue, FamilyList, ListTokens, Revoke, LoginUser,
         RefreshFind, RefreshExpire, RefreshUser, RefreshConsume, Issue, LogoutFind, UserSave,
         Arrive, Expire, Unchanged, Revoked, AfterRevoke, Goto, TypeOK
    <3> QED
      BY <2>1, <3>1 DEF InBrowser, OtherJobs, AtRefresh
  <2>2. CASE pc[r] # "idle"
    <3>1. pc'[r] \in {"login_user", "issue"} \cup AtRefresh =>
              pc[r] \in {"login_user", "issue"} \cup AtRefresh
      <4>1. CASE FamilyList(q) \/ Revoke(q)
        BY <1>0, <4>1 DEF FamilyList, ListTokens, Revoke, Revoked, AfterRevoke, Goto,
           AtRefresh, TypeOK
      <4>2. CASE Plain(q) \/ Expire(q)
        BY <1>0, <4>2 DEF Plain, LoginUser, RefreshFind, RefreshExpire, RefreshUser,
           RefreshConsume, Issue, LogoutFind, UserSave, Arrive, Expire, Goto, AtRefresh, TypeOK
      <4> QED
        BY <1>3, <4>1, <4>2, ServerSteps
    <3> QED
      BY <1>1, <2>2, <3>1 DEF InBrowser
  <2> QED
    BY <2>1, <2>2
<1>4. ASSUME NEW q \in Requests, NEW j \in BrowserJobs, NEW t \in Tabs, Send(q, j, t)
      PROVE  /\ job'[r] \in {"refresh", "logout"} => tab'[r] # None /\ pc'[r] # "idle"
             /\ pc'[r] \in {"login_user", "issue"} \cup AtRefresh => tab'[r] # None
  <2>1. CASE r = q
    <3>1. tab'[r] = t /\ pc'[r] = Entry(j)
      BY <1>0, <1>4, <2>1 DEF Send, Goto, TypeOK
    <3> QED
      BY <3>1 DEF Entry, BrowserJobs
  <2>2. CASE r # q
    <3>1. job'[r] = job[r] /\ pc'[r] = pc[r] /\ tab'[r] = tab[r]
      BY <1>0, <1>4, <2>2 DEF Send, Goto, TypeOK
    <3> QED
      BY <3>1 DEF InBrowser
  <2> QED
    BY <2>1, <2>2
<1>5. CASE Settled \/ Untouched
  BY <1>0, <1>1, <1>5 DEF Settled, Settle, Untouched, sessionVars, Goto, InBrowser, AtRefresh,
     TypeOK
<1> QED
  BY <1>0, <1>2, <1>3, <1>4, <1>5, ClientSteps DEF Sent

LEMMA FailedGrows == ASSUME IInv, [Next]_vars PROVE failed \subseteq failed'
<1>1. (\E r \in Requests : Server(r)) \/ Sent \/ Quiet => UNCHANGED failed
  BY DEF Server, clientVars, Sent, Send, Quiet
<1>2. (\E r \in Requests : Answered(r)) => failed \subseteq failed'
  BY DEF Answered
<1> QED
  BY <1>1, <1>2, BrowserSteps

LEMMA SettledBeforeStep == ASSUME CookieInv, [Next]_vars PROVE SettledBefore'
<1> USE DEF CookieInv
<1>0. TypeOK /\ IInv
  BY DEF IInv
<1>1. ASSUME cookie' # None PROVE pc'[cookie'] = "settled"
  <2>1. CASE UNCHANGED cookie
    BY <1>0, <1>1, <2>1, PcStep DEF SettledBefore, TypeOK, Token
  <2>2. ASSUME NEW r \in Requests, Answered(r) PROVE pc'[cookie'] = "settled"
    BY <1>0, <1>1, <2>1, <2>2 DEF Answered, CookieAfter, Settle, Goto, TypeOK
  <2>3. (\E r \in Requests : Server(r)) \/ Sent \/ Quiet => UNCHANGED cookie
    BY DEF Server, clientVars, Sent, Send, Quiet
  <2> QED
    BY <1>0, <2>1, <2>2, <2>3, BrowserSteps
<1>2. ASSUME NEW r \in failed' PROVE pc'[r] = "settled"
  <2>1. CASE r \in failed
    BY <1>0, <2>1, PcStep DEF SettledBefore, TypeOK
  <2>2. CASE r \notin failed
    <3>1. (\E q \in Requests : Server(q)) \/ Sent \/ Quiet => UNCHANGED failed
      BY DEF Server, clientVars, Sent, Send, Quiet
    <3>2. PICK q \in Requests : Answered(q)
      BY <1>0, <1>2, <2>2, <3>1, BrowserSteps
    <3> QED
      BY <1>0, <1>2, <2>2, <3>2 DEF Answered, Settle, Goto, TypeOK
  <2> QED
    BY <2>1, <2>2
<1>3. ASSUME NEW r \in Requests, presented'[r] # None
      PROVE  presented'[r] # r /\ pc'[presented'[r]] = "settled"
  <2>1. CASE presented'[r] = presented[r]
    BY <1>0, <1>3, <2>1, PcStep DEF SettledBefore, TypeOK, Token
  <2>2. CASE presented'[r] # presented[r]
    <3>1. ~UNCHANGED presented
      BY <2>2
    <3>2. (\E q \in Requests : Server(q)) => UNCHANGED presented
      BY DEF Server, Continue, FamilyList, ListTokens, Revoke, LoginUser, RefreshFind,
         RefreshExpire, RefreshUser, RefreshConsume, Issue, LogoutFind, UserSave, Arrive,
         Expire, Unchanged
    <3>3. Settled \/ Untouched => UNCHANGED presented
      BY DEF Settled, Settle, Untouched, sessionVars
    <3>4. PICK q \in Requests, j \in BrowserJobs, t \in Tabs : Send(q, j, t)
      BY <1>0, <3>1, <3>2, <3>3, ClientSteps DEF Sent
    <3>5. q = r /\ pc[r] = "idle" /\ presented'[r] = cookie /\ cookie' = cookie
      BY <1>0, <1>3, <2>2, <3>4 DEF Send, TypeOK
    <3>6. pc[cookie] = "settled"
      BY <1>3, <3>5 DEF SettledBefore
    <3> QED
      BY <1>1, <1>3, <3>5, <3>6
  <2> QED
    BY <2>1, <2>2
<1> QED
  BY <1>1, <1>2, <1>3 DEF SettledBefore

\* A refresh is settled only when the browser has its answer.
LEMMA RefreshSettles ==
    ASSUME CookieInv, [Next]_vars, NEW q \in Requests,
           job'[q] = "refresh", pc'[q] = "settled"
    PROVE  /\ pc[q] # "idle" /\ job[q] = "refresh"
           /\ pc[q] = "settled" \/ Answered(q)
<1> USE DEF CookieInv
<1>0. TypeOK /\ IInv
  BY DEF IInv
<1>1. pc[q] # "idle"
  <2>1. ASSUME NEW r \in Requests, Server(r), pc[q] = "idle" PROVE pc'[q] # "settled"
    BY <1>0, <2>1 DEF Server, Continue, FamilyList, ListTokens, Revoke, LoginUser,
         RefreshFind, RefreshExpire, RefreshUser, RefreshConsume, Issue, LogoutFind, UserSave,
         Arrive, Expire, Revoked, AfterRevoke, Goto, TypeOK
  <2>2. CASE Sent \/ Settled \/ Untouched
    BY <1>0, <2>2, EntryType DEF Sent, Send, Settled, Settle, Untouched, sessionVars, Goto,
       Answers, Entry, BrowserJobs, TypeOK
  <2> QED
    BY <1>0, <2>1, <2>2, ClientSteps
<1>2. job[q] = "refresh"
  BY <1>0, <1>1, JobKept
<1>3. CASE pc[q] # "settled"
  <2>1. q \in InFlight
    BY <1>1, <1>2, <1>3 DEF InBrowser, InFlight
  <2>2. Settle(q)
    BY <1>0, <2>1, InFlightKept DEF InFlight
  <2>3. \A r \in Requests : ~Server(r)
    BY <1>0, <2>1, InFlightServed
  <2>4. ~Sent /\ ~Quiet
    BY <1>0, <1>1, <1>3 DEF Sent, Send, Quiet, sessionVars, Goto, TypeOK
  <2>5. PICK r \in Requests : Answered(r)
    BY <1>0, <2>3, <2>4, BrowserSteps
  <2>6. r = q
    BY <1>0, <1>3, <2>5 DEF Answered, Settle, Goto, TypeOK
  <2> QED
    BY <1>1, <1>2, <2>5, <2>6
<1> QED
  BY <1>1, <1>2, <1>3

LEMMA CookieMovedStep == ASSUME CookieInv, [Next]_vars PROVE CookieMoved'
<1> USE DEF CookieInv
<1>0. TypeOK /\ IInv
  BY DEF IInv
<1> SUFFICES ASSUME NEW q \in Requests, job'[q] = "refresh", pc'[q] = "settled",
                    q \notin failed', presented'[q] # None
             PROVE  cookie' # presented'[q]
  BY DEF CookieMoved
<1>1. /\ pc[q] # "idle" /\ job[q] = "refresh"
      /\ pc[q] = "settled" \/ Answered(q)
      /\ presented'[q] = presented[q] /\ q \notin failed
  BY <1>0, RefreshSettles, JobKept, FailedGrows
<1>2. CASE Answered(q)
  BY <1>1, <1>2 DEF Answered, CookieAfter, SettledBefore
<1>3. CASE pc[q] = "settled" /\ UNCHANGED cookie
  BY <1>1, <1>3 DEF CookieMoved
<1>4. ASSUME pc[q] = "settled", NEW r \in Requests, Answered(r)
      PROVE  cookie' # presented'[q]
  <2>1. cookie' \in {None, r, cookie}
    BY <1>4 DEF Answered, CookieAfter
  <2>2. r # presented[q]
    BY <1>1, <1>4 DEF Answered, Answers, SettledBefore
  <2>3. cookie # presented[q]
    BY <1>1, <1>4 DEF CookieMoved
  <2> QED
    BY <1>1, <2>1, <2>2, <2>3
<1>5. (\E r \in Requests : Server(r)) \/ Sent \/ Quiet => UNCHANGED cookie
  BY DEF Server, clientVars, Sent, Send, Quiet
<1> QED
  BY <1>0, <1>1, <1>2, <1>3, <1>4, <1>5, BrowserSteps

\* A refresh is sent by a tab that has none under way.
LEMMA RefreshSent ==
    ASSUME CookieInv, [Next]_vars, NEW r \in Requests, pc[r] = "idle", job'[r] = "refresh"
    PROVE  \E t \in Tabs : refreshing[t] = None /\ Send(r, "refresh", t)
<1> USE DEF CookieInv
<1>0. TypeOK /\ IInv
  BY DEF IInv
<1>1. job'[r] # job[r]
  BY DEF InBrowser
<1>2. \A q \in Requests : ~Server(q)
  BY <1>0, <1>1 DEF Server, Continue, FamilyList, ListTokens, Revoke, LoginUser, RefreshFind,
     RefreshExpire, RefreshUser, RefreshConsume, Issue, LogoutFind, UserSave, Arrive, Expire,
     Unchanged, OtherJobs, TypeOK
<1>3. \A q \in Requests : ~Delivery(q)
  BY <1>1 DEF Delivery, Receive, Lose, Settle
<1>4. \A q \in Requests, t \in Tabs : ~SignIn(q, t)
  BY <1>0, <1>1 DEF SignIn, Send, TypeOK
<1>5. \A c \in Calls, t \in Tabs : ~SendCall(c, t)
  BY <1>1 DEF SendCall, sessionVars
<1>6. ~UNCHANGED vars
  BY <1>1 DEF vars, sessionVars
<1>7. PICK c \in Calls : CallDenied(c)
  BY <1>2, <1>3, <1>4, <1>5, <1>6 DEF Next
<1>8. call[c].tab \in Tabs
  BY <1>7 DEF CallDenied, IInv, PromiseIsRefresh
<1>9. PICK q \in Requests : refreshing[call[c].tab] = None /\ Send(q, "refresh", call[c].tab)
  BY <1>1, <1>7 DEF CallDenied, sessionVars
<1>10. q = r
  BY <1>0, <1>1, <1>9 DEF Send, TypeOK
<1> QED
  BY <1>8, <1>9, <1>10

\* The refreshes of a tab that sends another with the same cookie failed.
LEMMA FreshTry ==
    ASSUME CookieInv, [Next]_vars, NEW r \in Requests, pc[r] = "idle", job'[r] = "refresh",
           NEW q \in Requests, q # r, job'[q] = "refresh",
           tab'[q] = tab'[r], presented'[q] = presented'[r], presented'[r] # None
    PROVE  q \in failed
<1> USE DEF CookieInv
<1>0. TypeOK /\ IInv
  BY DEF IInv
<1>1. PICK t \in Tabs : refreshing[t] = None /\ Send(r, "refresh", t)
  BY RefreshSent
<1>2. /\ tab'[r] = t /\ presented'[r] = cookie
      /\ job'[q] = job[q] /\ tab'[q] = tab[q] /\ presented'[q] = presented[q]
  BY <1>0, <1>1 DEF Send, TypeOK
<1>3. pc[q] # "idle" /\ tab[q] # None
  BY <1>2 DEF InBrowser
<1>4. pc[q] = "settled"
  <2>1. SUFFICES ASSUME q \in InFlight PROVE FALSE
    BY <1>3 DEF InFlight
  <2> QED
    BY <1>1, <1>2, <2>1 DEF IInv, SingleFlight
<1> QED
  BY <1>2, <1>4 DEF CookieMoved

LEMMA OneTryStep == ASSUME CookieInv, [Next]_vars PROVE OneTry'
<1> USE DEF CookieInv
<1>0. TypeOK /\ IInv /\ failed \subseteq failed'
  BY FailedGrows DEF IInv
<1> SUFFICES ASSUME NEW q \in Requests, NEW r \in Requests, q # r,
                    job'[q] = "refresh", job'[r] = "refresh", tab'[q] = tab'[r],
                    presented'[q] = presented'[r], presented'[r] # None
             PROVE  q \in failed' \/ r \in failed'
  BY DEF OneTry
<1>1. CASE pc[r] = "idle"
  BY <1>0, <1>1, FreshTry
<1>2. CASE pc[q] = "idle"
  BY <1>0, <1>2, FreshTry
<1>3. CASE pc[q] # "idle" /\ pc[r] # "idle"
  BY <1>0, <1>3, JobKept DEF OneTry
<1> QED
  BY <1>1, <1>2, <1>3

\* What NoFalseAlarm says of one alarm.
Excused(r) ==
    \/ SomeoneRevoked(presented[r])
    \/ \E q \in Requests \ {r} :
           /\ job[q] = "refresh" /\ presented[q] = presented[r]
           /\ tab[q] # tab[r] \/ q \in failed

LEMMA NoFalseAlarmStep == ASSUME CookieInv, [Next]_vars PROVE NoFalseAlarm'
<1> USE DEF CookieInv
<1>0. TypeOK /\ IInv /\ failed \subseteq failed'
  BY FailedGrows DEF IInv
<1> SUFFICES ASSUME NEW r \in alarm'
             PROVE  Excused(r)'
  BY DEF NoFalseAlarm, Excused
<1>1. /\ r \in Requests /\ pc[r] # "idle"
      /\ presented'[r] = presented[r] /\ tab'[r] = tab[r]
  <2>1. r \in Requests /\ pc[r] # "idle"
    BY <1>0, AlarmStep DEF InBrowser, TypeOK
  <2> QED
    BY <1>0, <2>1, JobKept
<1>2. Excused(r)
  <2>1. CASE r \in alarm
    BY <2>1 DEF NoFalseAlarm, Excused
  <2>2. CASE r \notin alarm
    <3>1. pc[r] = "refresh_find" /\ token[presented[r]] = "consumed"
      BY <1>0, <2>2, AlarmStep
    <3>2. presented[r] \in Requests /\ job[r] = "refresh"
      BY <1>0, <1>1, <3>1 DEF IInv, KnownIssued, AtRefresh, TypeOK, Token, JobAt
    <3>3. ASSUME NEW q \in Requests, Spends(q, presented[r])
          PROVE  q # r /\ (tab[q] # tab[r] \/ q \in failed)
      <4>1. q # r /\ r \notin failed
        BY <1>1, <3>1, <3>3 DEF Spends, PastConsume, SettledBefore
      <4> QED
        BY <1>1, <3>2, <3>3, <4>1 DEF OneTry, Spends
    <3> QED
      BY <3>1, <3>2, <3>3 DEF WhyConsumed, Spends, Excused
  <2> QED
    BY <2>1, <2>2
<1>3. CASE SomeoneRevoked(presented[r])
  <2>1. presented[r] \in Requests
    BY <1>0, <1>3 DEF SomeoneRevoked, TypeOK
  <2>2. PICK t \in Requests : t = presented[r] /\ SomeoneRevoked(t)
    BY <1>3, <2>1
  <2>3. SomeoneRevoked(t)'
    BY <2>2, RevokedStays
  <2>4. t = presented'[r]
    BY <1>1, <2>2
  <2> QED
    BY <2>3, <2>4 DEF SomeoneRevoked, Excused
<1>4. ASSUME NEW q \in Requests \ {r}, job[q] = "refresh", presented[q] = presented[r],
             tab[q] # tab[r] \/ q \in failed
      PROVE  /\ job'[q] = "refresh" /\ presented'[q] = presented'[r]
             /\ tab'[q] # tab'[r] \/ q \in failed'
  <2>1. pc[q] # "idle"
    BY <1>4 DEF InBrowser
  <2> QED
    BY <1>0, <1>1, <1>4, <2>1, JobKept
<1> QED
  BY <1>2, <1>3, <1>4 DEF Excused

\* How far the logout r has got, if it overlaps nothing.
Alone(r) ==
    /\ InFlight \subseteq {r}
    /\ job[r] = "logout"
    /\ pc[r] \in {"logout_find", "family", "revoke", "ok", "settled"}
    /\ presented[r] # None =>
        /\ pc[r] = "revoke" => Live \subseteq listed[r]
        /\ pc[r] \in {"ok", "settled"} => Live = {}
        /\ pc[r] = "settled" /\ r \notin failed => cookie = None

LEMMA LogoutSent ==
    ASSUME CookieInv, NEW q \in Requests, NEW j \in BrowserJobs, NEW t \in Tabs,
           Send(q, j, t), alone' # None
    PROVE  alone' = q /\ Alone(q)'
<1>0. TypeOK /\ IInv
  BY DEF IInv, CookieInv
<1>1. alone' = q /\ j = "logout" /\ InFlight = {}
  BY DEF Send
<1>2. /\ job'[q] = "logout" /\ pc'[q] = Entry("logout") /\ presented'[q] = cookie
      /\ \A r \in Requests : r # q => pc'[r] = pc[r] /\ tab'[r] = tab[r]
  BY <1>0, <1>1 DEF Send, Goto, TypeOK
<1>3. InFlight' \subseteq {q}
  BY <1>1, <1>2 DEF InFlight
<1>4. /\ pc'[q] \in {"logout_find", "ok"}
      /\ presented'[q] # None => pc'[q] = "logout_find"
  BY <1>2 DEF Entry
<1> QED
  BY <1>1, <1>2, <1>3, <1>4 DEF Alone

\* While a logout is alone nobody issues a token.
LEMMA NoIssue ==
    ASSUME CookieInv, [Next]_vars, NEW r \in Requests, Alone(r)
    PROVE  Live' \subseteq Live
<1> USE DEF CookieInv
<1>1. ASSUME NEW q \in Requests, Issuing(q) PROVE FALSE
  <2>1. pc[q] = "issue" /\ tab[q] # None
    BY <1>1 DEF Issuing, InBrowser
  <2>2. q = r
    BY <2>1 DEF InFlight, Alone
  <2> QED
    BY <2>1, <2>2 DEF Alone
<1>2. CASE UNCHANGED token \/ Consuming
  BY <1>2 DEF Consuming, SaveConsumed, Live, IInv, TypeOK
<1> QED
  BY <1>1, <1>2, TokenWrites

\* What the server does while the logout r is alone.
LEMMA AloneServed ==
    ASSUME CookieInv, [Next]_vars, NEW r \in Requests, Alone(r), presented[r] # None,
           NEW q \in Requests, Server(q)
    PROVE  /\ pc'[r] \in {"logout_find", "family", "revoke", "ok", "settled"}
           /\ pc'[r] = "settled" => pc[r] = "settled"
           /\ pc'[r] = "revoke" => Live' \subseteq listed'[r]
           /\ pc'[r] \in {"ok", "settled"} => Live' = {}
<1>0. TypeOK /\ IInv
  BY DEF IInv, CookieInv
<1>1. /\ Live' \subseteq Live /\ job[r] = "logout"
      /\ pc[r] \in {"logout_find", "family", "revoke", "ok", "settled"}
      /\ pc[r] = "revoke" => Live \subseteq listed[r]
      /\ pc[r] \in {"ok", "settled"} => Live = {}
  BY NoIssue DEF Alone
<1>2. CASE FamilyList(r)
  <2>1. /\ listed'[r] = Live /\ Live' = Live
        /\ pc'[r] = IF Live = {} THEN "ok" ELSE "revoke"
    BY <1>0, <1>1, <1>2 DEF FamilyList, ListTokens, AfterRevoke, Goto, Live, TypeOK
  <2> QED
    BY <2>1
<1>3. CASE Revoke(r)
  <2>1. PICK u \in listed[r] :
          /\ SaveConsumed(u)
          /\ listed' = [listed EXCEPT ![r] = @ \ {u}]
          /\ IF listed[r] = {u} THEN Revoked(r) ELSE UNCHANGED <<pc, family, revoked>>
    BY <1>3 DEF Revoke
  <2>2. pc[r] = "revoke" /\ u \notin Live' /\ listed'[r] = listed[r] \ {u}
    BY <1>0, <1>3, <2>1 DEF Revoke, SaveConsumed, Live, TypeOK
  <2>3. Live' \subseteq listed'[r]
    BY <1>1, <2>2
  <2>4. CASE listed[r] = {u}
    <3>1. pc'[r] = "ok"
      BY <1>0, <1>1, <2>1, <2>4 DEF Revoked, AfterRevoke, Goto, TypeOK
    <3> QED
      BY <2>2, <2>3, <2>4, <3>1
  <2>5. CASE listed[r] # {u}
    <3>1. pc' = pc
      BY <2>1, <2>5
    <3> QED
      BY <2>2, <2>3, <3>1
  <2> QED
    BY <2>4, <2>5
<1>4. CASE LogoutFind(r)
  <2>1. pc'[r] = "family"
    BY <1>0, <1>4 DEF LogoutFind, Goto, TypeOK
  <2> QED
    BY <2>1
<1>5. CASE ~FamilyList(r) /\ ~Revoke(r) /\ ~LogoutFind(r)
  <2> SUFFICES pc'[r] = pc[r] /\ listed'[r] = listed[r]
    BY <1>1
  <2>1. CASE FamilyList(q) \/ Revoke(q)
    BY <1>0, <1>5, <2>1 DEF FamilyList, ListTokens, Revoke, Revoked, Goto, TypeOK
  <2>2. CASE Plain(q)
    BY <1>0, <1>1, <1>5, <2>2 DEF Plain, LoginUser, RefreshFind, RefreshExpire, RefreshUser,
       RefreshConsume, Issue, LogoutFind, UserSave, Arrive, Goto, revokeVars, TypeOK
  <2>3. CASE Expire(q)
    BY <2>3 DEF Expire, revokeVars
  <2> QED
    BY <2>1, <2>2, <2>3, ServerSteps
<1> QED
  BY <1>2, <1>3, <1>4, <1>5

LEMMA AloneStep ==
    ASSUME CookieInv, [Next]_vars, ~Sent, NEW r \in Requests, alone = r, Alone(r)
    PROVE  alone' = r /\ Alone(r)'
<1> USE DEF CookieInv
<1>0. TypeOK /\ IInv
  BY DEF IInv
<1>1. InFlight' \subseteq {r}
  <2>1. \A q \in Requests, j \in BrowserJobs, t \in Tabs : ~Send(q, j, t)
    BY DEF Sent
  <2>2. ASSUME NEW x \in InFlight' PROVE x \in InFlight
    BY <1>0, <2>1, <2>2, InFlightNew DEF InFlight
  <2> QED
    BY <2>2 DEF Alone
<1>2. job'[r] = "logout" /\ presented'[r] = presented[r]
  BY <1>0, JobKept DEF Alone
<1>3. Live' \subseteq Live
  BY NoIssue
<1>4. ASSUME NEW q \in Requests, Server(q)
      PROVE  alone' = r /\ Alone(r)'
  <2>1. alone' = r /\ UNCHANGED <<failed, cookie>>
    BY <1>4 DEF Server, clientVars
  <2>2. pc'[r] \in {"logout_find", "family", "revoke", "ok", "settled"}
    <3>1. CASE FamilyList(q) \/ Revoke(q)
      BY <1>0, <3>1 DEF FamilyList, ListTokens, Revoke, Revoked, AfterRevoke, Goto, Alone, TypeOK
    <3>2. CASE Plain(q)
      BY <1>0, <3>2 DEF Plain, LoginUser, RefreshFind, RefreshExpire, RefreshUser,
         RefreshConsume, Issue, LogoutFind, UserSave, Arrive, Goto, Alone, TypeOK
    <3>3. CASE Expire(q)
      BY <3>3 DEF Expire, Alone
    <3> QED
      BY <1>4, <3>1, <3>2, <3>3, ServerSteps
  <2>3. ASSUME presented[r] # None
        PROVE  /\ pc'[r] = "revoke" => Live' \subseteq listed'[r]
               /\ pc'[r] \in {"ok", "settled"} => Live' = {}
               /\ pc'[r] = "settled" /\ r \notin failed' => cookie' = None
    <3>1. /\ pc'[r] = "settled" => pc[r] = "settled"
          /\ pc'[r] = "revoke" => Live' \subseteq listed'[r]
          /\ pc'[r] \in {"ok", "settled"} => Live' = {}
      BY <1>4, <2>3, AloneServed
    <3> QED
      BY <2>1, <2>3, <3>1 DEF Alone
  <2> QED
    BY <1>1, <1>2, <2>1, <2>2, <2>3 DEF Alone
<1>5. ASSUME NEW q \in Requests, Answered(q)
      PROVE  alone' = r /\ Alone(r)'
  <2>1. q = r
    BY <1>5 DEF Answered, Answers, InFlight, Alone
  <2>2. /\ pc[r] = "ok" /\ pc'[r] = "settled" /\ alone' = r
        /\ r \notin failed' => cookie' = None
    BY <1>0, <1>5, <2>1 DEF Answered, Answers, Alone, CookieAfter, Settle, Goto, TypeOK
  <2>3. presented[r] # None => Live' = {}
    BY <1>3, <2>2 DEF Alone
  <2> QED
    BY <1>1, <1>2, <2>2, <2>3 DEF Alone
<1>6. CASE Quiet
  <2>1. alone' = r /\ UNCHANGED <<pc, listed, failed, cookie>>
    BY <1>6 DEF Quiet, sessionVars, revokeVars
  <2>2. UNCHANGED token
    BY <1>6 DEF Quiet, sessionVars, tokenVars
  <2>3. Live' = Live
    BY <2>2 DEF Live
  <2> QED
    BY <1>1, <1>2, <2>1, <2>3 DEF Alone
<1> QED
  BY <1>0, <1>4, <1>5, <1>6, BrowserSteps

LEMMA LoneLogoutStep == ASSUME CookieInv, [Next]_vars PROVE LoneLogout'
<1> SUFFICES ASSUME alone' # None PROVE \E r \in Requests : alone' = r /\ Alone(r)'
  BY DEF LoneLogout, Alone
<1>1. CASE Sent
  BY <1>1, LogoutSent DEF Sent
<1>2. CASE ~Sent
  <2>1. alone # None
    <3>1. UNCHANGED alone
      <4>1. (\E r \in Requests : Server(r) \/ Answered(r)) \/ Quiet => UNCHANGED alone
        BY DEF Server, clientVars, Answered, Quiet
      <4> QED
        BY <1>2, <4>1, BrowserSteps DEF CookieInv
    <3> QED
      BY <3>1
  <2>2. PICK r \in Requests : r = alone
    BY <2>1 DEF CookieInv, IInv, TypeOK, Token
  <2>3. Alone(r)
    BY <2>1, <2>2 DEF CookieInv, LoneLogout, Alone
  <2> QED
    BY <1>2, <2>2, <2>3, AloneStep
<1> QED
  BY <1>1, <1>2

LEMMA CookieInvInit == ASSUME Init PROVE CookieInv
<1>1. PICK r \in Requests : SessionsInit(r) /\ cookie = r
  BY DEF Init
<1>2. Listing /\ InBrowser /\ NoFalseAlarm
  BY <1>1 DEF Init, SessionsInit, Listing, InBrowser, NoFalseAlarm, AtRefresh
<1>3. SettledBefore /\ CookieMoved /\ OneTry /\ LoneLogout
  BY <1>1 DEF Init, SessionsInit, SettledBefore, CookieMoved, OneTry, LoneLogout
<1>4. WhyConsumed
  BY <1>1 DEF SessionsInit, WhyConsumed
<1> QED
  BY <1>2, <1>3, <1>4, IInvInit DEF CookieInv

LEMMA CookieInvStep == ASSUME CookieInv, [Next]_vars PROVE CookieInv'
<1>1. IInv'
  BY IInvStep DEF CookieInv
<1>2. Listing' /\ InBrowser' /\ SettledBefore'
  BY ListingStep, InBrowserStep, SettledBeforeStep
<1>3. WhyConsumed' /\ CookieMoved' /\ OneTry'
  BY WhyConsumedStep, CookieMovedStep, OneTryStep
<1>4. NoFalseAlarm' /\ LoneLogout'
  BY NoFalseAlarmStep, LoneLogoutStep
<1> QED
  BY <1>1, <1>2, <1>3, <1>4 DEF CookieInv

\* What the browser's cookie can be, and who can have consumed a token, are
\* the same however many requests, tabs and calls there are, and whether or
\* not refreshes succeed.
THEOREM CookieInvariance == Spec => []CookieInv
  BY CookieInvInit, CookieInvStep, PTL DEF Spec

\* The calls of one tab never set off the reuse detection of
\* refresh_user_session, which would end every session of the account: it
\* takes a revocation, another tab, or a refresh that failed.  (A token that
\* a refresh consumed is found only where times are read with a zone.)
THEOREM NoFalseAlarmCorrect == Spec => []NoFalseAlarm
<1>1. CookieInv => NoFalseAlarm
  BY DEF CookieInv
<1> QED
  BY <1>1, CookieInvariance, PTL

\* With nothing under way the cookie of the browser is not one that a
\* refresh rotated, in whatever order answers come, unless that refresh failed:
\* with or without a zone in the times that decide whether refreshes rotate.
THEOREM CookieIsGoodCorrect == Spec => []CookieIsGood
<1>1. CookieInv => CookieIsGood
  <2> SUFFICES ASSUME CookieInv, InFlight = {}, cookie # None,
                      token[cookie] # "live", ~SomeoneRevoked(cookie)
               PROVE  \E q \in failed : presented[q] = cookie
    BY DEF CookieIsGood
  <2>1. cookie \in Requests /\ token[cookie] = "consumed"
    BY DEF CookieInv, IInv, KnownIssued, TypeOK, Token, TokenState
  <2>2. PICK q \in Requests : Spends(q, cookie)
    BY <2>1 DEF CookieInv, WhyConsumed
  <2>3. pc[q] = "settled"
    BY <2>2 DEF Spends, PastConsume, CookieInv, InBrowser, InFlight
  <2> QED
    BY <2>1, <2>2, <2>3 DEF Spends, CookieInv, CookieMoved
<1> QED
  BY <1>1, CookieInvariance, PTL

\* A logout that nothing in the browser overlaps leaves no session of the
\* account and no cookie, whatever the account's other requests do meanwhile.
THEOREM QuietLogoutCorrect == Spec => []QuietLogout
<1>1. CookieInv => QuietLogout
  BY DEF CookieInv, LoneLogout, QuietLogout
<1> QED
  BY <1>1, CookieInvariance, PTL

---------------------------------------------------------------------------
(* What a refresh comes to, with and without zones. *)

\* How stored times are read is settled for good.
LEMMA ZonedKept == ASSUME IInv, [Next]_vars PROVE zoned' = zoned
<1>1. ASSUME NEW q \in Requests, Server(q)
      PROVE  zoned' = zoned
  <2>1. CASE FamilyList(q) \/ Revoke(q)
    BY <2>1 DEF FamilyList, ListTokens, Revoke, Unchanged
  <2>2. CASE \/ LoginUser(q) \/ RefreshFind(q) \/ RefreshExpire(q) \/ RefreshUser(q)
             \/ RefreshConsume(q)
    BY <2>2 DEF LoginUser, RefreshFind, RefreshExpire, RefreshUser, RefreshConsume, Unchanged,
                tokenVars
  <2>3. CASE Issue(q) \/ LogoutFind(q) \/ UserSave(q) \/ Arrive(q) \/ Expire(q)
    BY <2>3 DEF Issue, LogoutFind, UserSave, Arrive, Expire, Unchanged, tokenVars
  <2> QED
    BY <1>1, <2>1, <2>2, <2>3 DEF Server, Continue
<1>2. ASSUME NEW q \in Requests, NEW j \in BrowserJobs, NEW t \in Tabs, Send(q, j, t)
      PROVE  zoned' = zoned
  BY <1>2 DEF Send, tokenVars
<1>3. CASE Settled \/ Untouched
  BY <1>3 DEF Settled, Settle, Untouched, sessionVars, tokenVars
<1> QED
  BY <1>1, <1>2, <1>3, ClientSteps DEF Sent

\* A refresh that has ended, other than in a refusal, consumed its token.
EndedConsumed(r) ==
    job[r] = "refresh" /\ pc[r] \in {"ok", "error"} =>
        presented[r] # None /\ token[presented[r]] = "consumed"

\* The labels of a refresh whose token was found neither consumed nor expired.
RotationLabels == {"refresh_user", "consume", "issue", "ok"}

\* The ways into the labels of a rotation, and into the end of a refresh.
LEMMA RefreshAdvance ==
    ASSUME IInv, [Next]_vars, NEW r \in Requests, job'[r] = "refresh", pc'[r] # pc[r]
    PROVE  /\ pc'[r] \in RotationLabels =>
                 \/ zoned /\ pc[r] = "refresh_find"
                 \/ pc[r] \in RotationLabels
           /\ pc'[r] \in {"ok", "error"} =>
                 \/ ~zoned
                 \/ job[r] = "refresh" /\ pc[r] = "issue"
<1> USE DEF IInv, TypeOK, Goto, RotationLabels
<1>1. ASSUME NEW q \in Requests, Server(q)
      PROVE  /\ pc'[r] \in RotationLabels =>
                   (zoned /\ pc[r] = "refresh_find") \/ pc[r] \in RotationLabels
             /\ pc'[r] \in {"ok", "error"} =>
                   ~zoned \/ (job[r] = "refresh" /\ pc[r] = "issue")
  <2>1. CASE FamilyList(q)
    BY <2>1 DEF FamilyList, ListTokens, AfterRevoke, Unchanged
  <2>2. CASE Revoke(q)
    BY <2>2 DEF Revoke, Revoked, AfterRevoke, Unchanged
  <2>3. CASE Issue(q)
    BY <2>3 DEF Issue, Unchanged
  <2>4. CASE RefreshFind(q)
    <3>1. CASE zoned
      <4>1. \E label \in {"family", "refresh_expire", "refresh_user"} : Goto(q, label)
        BY <2>4, <3>1 DEF RefreshFind
      <4> QED
        BY <2>4, <3>1, <4>1 DEF RefreshFind
    <3>2. CASE ~zoned
      <4>1. \E label \in {"family", "error"} : Goto(q, label)
        BY <2>4, <3>2 DEF RefreshFind
      <4> QED
        BY <2>4, <3>2, <4>1 DEF RefreshFind
    <3> QED
      BY <3>1, <3>2
  <2>5. CASE LoginUser(q)
    BY <2>5 DEF LoginUser, Unchanged, JobAt
  <2>6. CASE \/ RefreshUser(q) \/ RefreshExpire(q) \/ RefreshConsume(q) \/ LogoutFind(q)
             \/ UserSave(q) \/ Arrive(q) \/ Expire(q)
    BY <2>6 DEF RefreshUser, RefreshExpire, RefreshConsume, LogoutFind, UserSave, Arrive, Expire
  <2> QED
    BY <1>1, <2>1, <2>2, <2>3, <2>4, <2>5, <2>6 DEF Server, Continue
<1>2. ASSUME NEW q \in Requests, NEW j \in BrowserJobs, NEW t \in Tabs, Send(q, j, t)
      PROVE  pc'[r] \notin RotationLabels \cup {"error"}
  <2>1. q = r /\ j = "refresh" /\ pc'[r] = Entry(j)
    BY <1>2 DEF Send
  <2> QED
    BY <2>1 DEF Entry
<1>3. CASE Settled \/ Untouched
  BY <1>3 DEF Settled, Settle, Untouched, sessionVars
<1> QED
  BY <1>1, <1>2, <1>3, ClientSteps DEF Sent

LEMMA EndedConsumedStep ==
    ASSUME IInv, [Next]_vars, zoned, NEW r \in Requests, EndedConsumed(r)
    PROVE  EndedConsumed(r)'
<1> SUFFICES ASSUME job'[r] = "refresh", pc'[r] \in {"ok", "error"}
             PROVE  presented'[r] # None /\ token'[presented'[r]] = "consumed"
  BY DEF EndedConsumed
<1>1. job[r] = "refresh" /\ pc[r] \in {"ok", "error", "issue"}
  <2>1. CASE pc'[r] = pc[r]
    BY <2>1, JobKept
  <2>2. CASE pc'[r] # pc[r]
    BY <2>2, RefreshAdvance
  <2> QED
    BY <2>1, <2>2
<1>2. presented[r] # None /\ token[presented[r]] = "consumed"
  BY <1>1 DEF EndedConsumed, IInv, ConsumedFirst
<1>3. presented[r] \in Requests
  BY <1>2 DEF IInv, TypeOK, Token
<1> QED
  BY <1>1, <1>2, <1>3, JobKept, TokenMonotone

\* Where times are read with a zone, refresh_user_session does what its
\* endpoint says: a refresh that is not refused has consumed its token.
THEOREM RefreshConsumesCorrect == Spec => []RefreshConsumesItsToken
<1> DEFINE Ended == zoned => \A r \in Requests : EndedConsumed(r)
<1>1. Init => Ended
  BY DEF Init, SessionsInit, EndedConsumed
<1>2. Ended /\ IInv /\ [Next]_vars => Ended'
  BY EndedConsumedStep, ZonedKept
<1>3. Ended => RefreshConsumesItsToken
  BY DEF EndedConsumed, RefreshConsumesItsToken
<1> QED
  BY <1>1, <1>2, <1>3, SessionInvariance, PTL DEF Spec

\* Where stored times are read without a zone, no refresh succeeds.
NoRefreshSucceeds == ~zoned => \A r \in Requests : job[r] = "refresh" => pc[r] # "ok"

\* Where times are read without a zone, as in every configuration of the
\* repository, refresh_user_session never gets past the comparison of
\* expires_at, whatever else happens: no refresh succeeds.
THEOREM NoRefreshWithoutZone == Spec => []NoRefreshSucceeds
<1> DEFINE Before == ~zoned => \A r \in Requests : job[r] = "refresh" => pc[r] \notin RotationLabels
<1>1. Init => Before
  BY DEF Init, SessionsInit, RotationLabels
<1>2. Before /\ IInv /\ [Next]_vars => Before'
  <2> SUFFICES ASSUME Before, IInv, [Next]_vars, ~zoned, NEW r \in Requests,
                      job'[r] = "refresh", pc'[r] \in RotationLabels
               PROVE  FALSE
    BY ZonedKept
  <2>1. pc[r] \in RotationLabels
    BY RefreshAdvance
  <2>2. job[r] = "refresh"
    BY <2>1, JobKept DEF RotationLabels
  <2> QED
    BY <2>1, <2>2
<1>3. Before => NoRefreshSucceeds
  BY DEF RotationLabels, NoRefreshSucceeds
<1> QED
  BY <1>1, <1>2, <1>3, SessionInvariance, PTL DEF Spec
=============================================================================
