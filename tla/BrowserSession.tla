--------------------------- MODULE BrowserSession ---------------------------
(***************************************************************************)
(* The pages that one browser has open on the account, and Sessions behind *)
(* them: api/client.ts, api/token.ts and api/auth.ts.  The refresh cookie  *)
(* is the browser's, shared by its tabs; the promise of a refresh under    *)
(* way is in the memory of each tab.  So is the access token, left out     *)
(* here: it gets too old by itself, so that any call may be answered 401,  *)
(* and it decides nothing else.  A reload is the end of one tab and the    *)
(* start of another.                                                       *)
(***************************************************************************)
EXTENDS Sessions

CONSTANTS
    Tabs,       \* the pages open in the browser
    Calls       \* the API calls answered with 401 they can have at a time

ASSUME TabsAssumption == None \notin Tabs

VARIABLES
    cookie,     \* the refresh token the browser holds
    tab,        \* the tab a request was sent by
    refreshing, \* refreshPromise: the refresh each tab is waiting for
    call,       \* where each such call is
    failed,     \* history: the requests that the browser saw fail
    alone       \* history: a logout that nothing else in the browser overlaps

clientVars == <<cookie, tab, refreshing, call, failed, alone>>
vars == <<sessionVars, clientVars>>

---------------------------------------------------------------------------
(* Requests of the browser *)

\* A refresh without the cookie is a 401, a logout without it does nothing.
Entry(j) ==
    [login |-> "login_user",
     refresh |-> IF cookie = None THEN "denied" ELSE "refresh_find",
     logout |-> IF cookie = None THEN "ok" ELSE "logout_find"][j]

\* The requests that the browser has not had an answer to.
InFlight == {r \in Requests : pc[r] \notin {"idle", "settled"} /\ tab[r] # None}

Send(r, j, t) ==
    /\ pc[r] = "idle"
    /\ job' = [job EXCEPT ![r] = j]
    /\ presented' = [presented EXCEPT ![r] = IF j = "login" THEN None ELSE cookie]
    /\ tab' = [tab EXCEPT ![r] = t]
    /\ Goto(r, Entry(j))
    /\ alone' = IF j = "logout" /\ InFlight = {} THEN r ELSE None
    /\ UNCHANGED <<tokenVars, active, revokeVars, alarm, cookie, failed>>

\* login() and logout() of api/auth.ts, by the user.
SignIn(r, t) ==
    /\ \E j \in {"login", "logout"} : Send(r, j, t)
    /\ UNCHANGED <<refreshing, call>>

---------------------------------------------------------------------------
(* API calls: the interceptors of apiClient *)

NoCall == [at |-> "none", tab |-> None]

\* The access token it carries is missing or, when the call arrives, too old.
\* A call that the server accepts, or refuses with 403, changes nothing here.
SendCall(c, t) ==
    /\ call[c] = NoCall
    /\ call' = [call EXCEPT ![c] = [at |-> "sent", tab |-> t]]
    /\ UNCHANGED <<sessionVars, cookie, tab, refreshing, failed, alone>>

\* Mutant of CallDenied: every 401 posts its own refresh.
CallDeniedAlways(c) ==
    /\ call[c].at = "sent"
    /\ call' = [call EXCEPT ![c] = [at |-> "waiting", tab |-> call[c].tab]]
    /\ \E r \in Requests :
        /\ Send(r, "refresh", call[c].tab)
        /\ refreshing' = [refreshing EXCEPT ![call[c].tab] = r]

\* Its 401: the call waits for the refresh of its tab, which it starts
\* unless there is one (refreshAccessToken).
CallDenied(c) ==
    /\ call[c].at = "sent"
    /\ call' = [call EXCEPT ![c] = [at |-> "waiting", tab |-> call[c].tab]]
    /\ \/ /\ refreshing[call[c].tab] = None
          /\ \E r \in Requests :
              /\ Send(r, "refresh", call[c].tab)
              /\ refreshing' = [refreshing EXCEPT ![call[c].tab] = r]
       \/ /\ refreshing[call[c].tab] # None
          /\ UNCHANGED <<sessionVars, cookie, tab, refreshing, failed, alone>>

---------------------------------------------------------------------------
(* The browser gets an answer, or learns that there will be none *)

Settle(r) ==
    /\ Goto(r, "settled")
    /\ UNCHANGED <<tokenVars, active, job, presented, revokeVars, alarm, tab>>

WaitsFor(c, r) == call[c].at = "waiting" /\ refreshing[call[c].tab] = r

\* Mutant of CookieAfter: a refresh does not send the rotated cookie.
CookieKept(r) ==
    IF job[r] = "logout" THEN None ELSE IF job[r] = "refresh" THEN cookie ELSE r

\* The Set-Cookie of a 200.
CookieAfter(r) == IF job[r] = "logout" THEN None ELSE r

SettlePromise(r) ==
    refreshing' = [t \in Tabs |-> IF refreshing[t] = r THEN None ELSE refreshing[t]]

\* Mutant of RefreshSettled: a failed refresh leaves its calls waiting.
RefreshSettledSilently(r) ==
    /\ SettlePromise(r)
    /\ call' = [c \in Calls |-> IF WaitsFor(c, r) /\ pc[r] = "ok" THEN NoCall ELSE call[c]]

\* refreshPromise settles: the calls that waited fail after
\* notifyAuthFailure, or are sent once more with the new access token, and
\* whatever that brings is final (_retried).
RefreshSettled(r) ==
    /\ SettlePromise(r)
    /\ call' = [c \in Calls |-> IF WaitsFor(c, r) THEN NoCall ELSE call[c]]

\* What the page does with a 200 or a failure.
PageSettles(r) ==
    IF job[r] = "refresh" THEN RefreshSettled(r) ELSE UNCHANGED <<refreshing, call>>

Receive(r) ==
    /\ tab[r] # None
    /\ \/ /\ pc[r] = "ok"
          /\ cookie' = CookieAfter(r)
          /\ UNCHANGED failed
       \/ /\ pc[r] \in Answers \ {"ok"}
          /\ failed' = failed \cup {r}
          /\ UNCHANGED cookie
    /\ PageSettles(r)
    /\ Settle(r)
    /\ UNCHANGED alone

\* A network error in place of a 200.
Lose(r) ==
    /\ tab[r] # None
    /\ pc[r] = "ok"
    /\ PageSettles(r)
    /\ failed' = failed \cup {r}
    /\ Settle(r)
    /\ UNCHANGED <<cookie, alone>>

---------------------------------------------------------------------------
Server(r) == (Arrive(r) \/ Continue(r) \/ Expire(r)) /\ UNCHANGED clientVars

Delivery(r) == Receive(r) \/ Lose(r)

Next ==
    \/ \E r \in Requests : Server(r) \/ Delivery(r)
    \/ \E r \in Requests, t \in Tabs : SignIn(r, t)
    \/ \E c \in Calls : CallDenied(c) \/ \E t \in Tabs : SendCall(c, t)

\* Pages loaded in a browser that signed in earlier.
Init ==
    /\ \E r \in Requests : SessionsInit(r) /\ cookie = r
    /\ tab = [r \in Requests |-> None]
    /\ refreshing = [t \in Tabs |-> None]
    /\ call = [c \in Calls |-> NoCall]
    /\ failed = {}
    /\ alone = None

Spec == Init /\ [][Next]_vars

---------------------------------------------------------------------------
(* Correctness *)

Labels == {"idle", "login_user", "refresh_find", "refresh_expire", "refresh_user",
           "consume", "issue", "logout_find", "family", "revoke",
           "user_save", "settled"} \cup Answers

Token == Requests \cup {None}

CallRecord == [at : {"none", "sent", "waiting"}, tab : Tabs \cup {None}]

TypeOK ==
    /\ token \in [Requests -> TokenState]
    /\ expired \subseteq Requests
    /\ zoned \in BOOLEAN
    /\ active \in BOOLEAN
    /\ pc \in [Requests -> Labels]
    /\ job \in [Requests -> Jobs]
    /\ presented \in [Requests -> Token]
    /\ listed \in [Requests -> SUBSET Requests]
    /\ family \in [Requests -> SUBSET Requests]
    /\ revoked \subseteq Requests
    /\ alarm \subseteq Requests
    /\ cookie \in Token
    /\ tab \in [Requests -> Tabs \cup {None}]
    /\ refreshing \in [Tabs -> Token]
    /\ call \in [Calls -> CallRecord]
    /\ failed \subseteq Requests
    /\ alone \in Token

\* A refresh token that was rotated is no longer live, whatever refreshes,
\* revocations and expiries overlap: there are never a token and the token
\* that replaced it.
RotationConsumes ==
    \A r \in Requests :
        job[r] = "refresh" /\ token[r] # "absent" => token[presented[r]] # "live"

\* "Consumes the current refresh token cookie, rotates it": where stored times
\* are read with a zone, a refresh that is not refused (401, 403) has consumed
\* the token it was presented, even when it goes wrong later.
RefreshConsumesItsToken ==
    zoned => \A r \in Requests :
        job[r] = "refresh" /\ pc[r] \in {"ok", "error"} => token[presented[r]] = "consumed"

\* What a revocation (logout, password change, deactivation, reuse) has
\* saved stays revoked: no other handler's save brings a session back.
RevocationHolds ==
    /\ \A t \in revoked : token[t] # "live"
    /\ \A r \in Requests : \A t \in family[r] \ listed[r] : token[t] # "live"

\* "Single-flight refresh": a tab never has two refreshes under way, and its
\* calls wait for the one that is.
SingleFlight ==
    \A r \in InFlight : job[r] = "refresh" => refreshing[tab[r]] = r

SomeoneRevoked(t) == t \in revoked \/ \E q \in Requests : t \in family[q]

\* Reuse detection, which ends every session of the account, is set off only
\* by a token that was revoked, that another tab presented too, or that was
\* presented by a refresh that failed; never by the calls of one tab.
NoFalseAlarm ==
    \A r \in alarm :
        \/ SomeoneRevoked(presented[r])
        \/ \E q \in Requests \ {r} :
               /\ job[q] = "refresh" /\ presented[q] = presented[r]
               /\ tab[q] # tab[r] \/ q \in failed

\* When nothing is under way the cookie of the browser is good for the next
\* refresh, unless it expired or was revoked, or a refresh with it failed:
\* answers that overtake each other never put back a cookie already rotated.
CookieIsGood ==
    InFlight = {} /\ cookie # None =>
        \/ token[cookie] = "live"
        \/ cookie \in expired
        \/ SomeoneRevoked(cookie)
        \/ \E q \in failed : presented[q] = cookie

\* "Revokes refresh tokens for the current session family and clears auth
\* cookies": after a logout with a cookie that overlaps nothing, and until the
\* browser sends something else, no session of the account is left.
QuietLogout ==
    /\ alone # None /\ pc[alone] = "settled" /\ alone \notin failed
    /\ presented[alone] # None
    => cookie = None /\ Live = {}

\* No lost wake-up: a call that waits does so for a refresh that is under
\* way, so that it is sent again or fails when that refresh settles.
WaitersAreServed ==
    \A c \in Calls :
        call[c].at = "waiting" =>
            \E r \in InFlight : job[r] = "refresh" /\ refreshing[call[c].tab] = r

---------------------------------------------------------------------------
(* The inductive invariant behind the safety properties *)

\* A token is issued by the last step of its request, and its request can
\* give the browser none but that.
IssuedLast ==
    \A r \in Requests :
        /\ token[r] # "absent" => pc[r] \in {"ok", "settled"}
        /\ pc[r] = "ok" /\ job[r] # "logout" => token[r] # "absent"

AtRefresh == {"refresh_find", "refresh_expire", "refresh_user", "consume"}

\* The tokens that requests and the browser know of were issued.
KnownIssued ==
    /\ cookie # None => token[cookie] # "absent"
    /\ \A r \in Requests :
        /\ pc[r] \in AtRefresh => presented[r] # None /\ token[presented[r]] # "absent"
        /\ \A t \in listed[r] : token[t] # "absent"

\* A refresh that issues, or issued, has consumed what it was presented.
ConsumedFirst ==
    \A r \in Requests :
        job[r] = "refresh" /\ (pc[r] = "issue" \/ token[r] # "absent") =>
            presented[r] # None /\ token[presented[r]] = "consumed"

StaysRevoked ==
    /\ \A t \in revoked : token[t] = "consumed"
    /\ \A r \in Requests : \A t \in family[r] \ listed[r] : token[t] = "consumed"

\* Which jobs get to which labels, and which of them are the browser's.
JobAt ==
    \A r \in Requests :
        /\ pc[r] = "idle" => tab[r] = None
        /\ tab[r] # None => job[r] \in BrowserJobs
        /\ pc[r] = "login_user" => job[r] = "login"
        /\ pc[r] \in AtRefresh => job[r] = "refresh"
        /\ pc[r] = "logout_find" => job[r] = "logout"
        /\ pc[r] = "user_save" => job[r] \in OtherJobs
        /\ pc[r] \in {"family", "revoke"} => job[r] # "login"

\* The shared promise is a refresh under way, and a waiting call has one.
PromiseIsRefresh ==
    /\ \A t \in Tabs : refreshing[t] # None =>
            /\ refreshing[t] \in InFlight
            /\ job[refreshing[t]] = "refresh" /\ tab[refreshing[t]] = t
    /\ \A c \in Calls :
        /\ call[c].at # "none" => call[c].tab \in Tabs
        /\ call[c].at = "waiting" => refreshing[call[c].tab] # None

IInv ==
    /\ TypeOK
    /\ IssuedLast
    /\ KnownIssued
    /\ ConsumedFirst
    /\ StaysRevoked
    /\ JobAt
    /\ PromiseIsRefresh
    /\ SingleFlight
=============================================================================
