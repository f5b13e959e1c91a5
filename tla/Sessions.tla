------------------------------ MODULE Sessions ------------------------------
(***************************************************************************)
(* The refresh tokens of one account: auth/service.py, with the other      *)
(* handlers that revoke them (users/service.py change_password,            *)
(* admin/service.py reset_user_password and deactivate_user).  A handler   *)
(* is cut at every database await.  AuthToken documents have no revision,  *)
(* so save() always writes; every copy that is saved is saved consumed.    *)
(* A token is named after the request that issued it.                      *)
(***************************************************************************)
EXTENDS FiniteSets

CONSTANTS
    Requests,   \* the requests of this run, each answered once
    None        \* no request, no token, no tab

ASSUME NoneAssumption == None \notin Requests

VARIABLES
    token,      \* the authtokens collection: the refresh token a request issued
    expired,    \* the refresh tokens whose expires_at has passed
    zoned,      \* stored times are read with a zone: mongodb_uri may ask PyMongo
                \* for it (?tz_aware=true), and no URI of the repository does
    active,     \* the user's status is not DEACTIVATED
    pc, job,
    presented,  \* the refresh cookie a request came with
    listed,     \* the tokens _revoke_user_refresh_family has still to save
    family,     \* history: all the tokens that it listed
    revoked,    \* history: the tokens of the revocations that are done
    alarm       \* history: the refreshes that found their token consumed

tokenVars == <<token, expired, zoned>>
revokeVars == <<listed, family, revoked>>
sessionVars == <<tokenVars, active, pc, job, presented, revokeVars, alarm>>

---------------------------------------------------------------------------
TokenState == {"absent", "live", "consumed"}

BrowserJobs == {"login", "refresh", "logout"}
OtherJobs == {"password", "deactivate"}
Jobs == BrowserJobs \cup OtherJobs

\* ok: 200; denied: 401; refused: 403; error: 500.  The answers of the other
\* jobs matter to nobody here: they are "settled" at once.
Answers == {"ok", "denied", "refused", "error"}

Goto(r, label) == pc' = [pc EXCEPT ![r] = label]

Live == {t \in Requests : token[t] = "live"}

\* AuthToken.save() of a copy whose consumed_at was set.
SaveConsumed(t) == token' = [token EXCEPT ![t] = "consumed"]

Unchanged == UNCHANGED <<active, expired, zoned, job, presented, alarm>>

---------------------------------------------------------------------------
(* _revoke_user_refresh_family *)

\* What the caller answers when all are revoked.
AfterRevoke(r) ==
    IF job[r] = "refresh" THEN "denied" ELSE IF job[r] = "logout" THEN "ok" ELSE "settled"

Revoked(r) ==
    /\ Goto(r, AfterRevoke(r))
    /\ revoked' = revoked \cup family[r]
    /\ family' = [family EXCEPT ![r] = {}]

ListTokens(r, found) ==
    /\ pc[r] = "family"
    /\ listed' = [listed EXCEPT ![r] = found]
    /\ family' = [family EXCEPT ![r] = found]
    /\ Goto(r, IF found = {} THEN AfterRevoke(r) ELSE "revoke")
    /\ UNCHANGED <<token, revoked>>
    /\ Unchanged

\* Mutant of FamilyList: only the session that the cookie names.
FamilyListOne(r) == ListTokens(r, Live \cap {presented[r]})

FamilyList(r) == ListTokens(r, Live)

\* Mutant of Revoke: it returns after the first token.
RevokeFirst(r) ==
    /\ pc[r] = "revoke"
    /\ \E t \in listed[r] : SaveConsumed(t)
    /\ listed' = [listed EXCEPT ![r] = {}]
    /\ Revoked(r)
    /\ Unchanged

\* One save after the other, each an await.
Revoke(r) ==
    /\ pc[r] = "revoke"
    /\ \E t \in listed[r] :
        /\ SaveConsumed(t)
        /\ listed' = [listed EXCEPT ![r] = @ \ {t}]
        /\ IF listed[r] = {t} THEN Revoked(r) ELSE UNCHANGED <<pc, family, revoked>>
    /\ Unchanged

---------------------------------------------------------------------------
(* login_user, refresh_user_session, logout_user_session *)

\* The right password: a wrong one is answered before any token is touched.
LoginUser(r) ==
    /\ pc[r] = "login_user"
    /\ Goto(r, IF active THEN "issue" ELSE "refused")
    /\ UNCHANGED <<token, revokeVars>>
    /\ Unchanged

\* AuthToken.find_one: reused, or not yet consumed and then expired or valid:
\* that comparison of expires_at with the aware now raises TypeError, a 500,
\* when the stored time is read without a zone.  (No token is unknown here:
\* what Mongo's TTL monitor removes the browser's cookie has outlived.)
RefreshFind(r) ==
    LET t == presented[r]
    IN  /\ pc[r] = "refresh_find"
        /\ \/ /\ token[t] = "consumed"
              /\ Goto(r, "family")
              /\ alarm' = alarm \cup {r}
           \/ /\ token[t] = "live"
              /\ Goto(r, IF ~zoned THEN "error"
                         ELSE IF t \in expired THEN "refresh_expire" ELSE "refresh_user")
              /\ UNCHANGED alarm
        /\ UNCHANGED <<active, tokenVars, job, presented, revokeVars>>

RefreshExpire(r) ==
    /\ pc[r] = "refresh_expire"
    /\ SaveConsumed(presented[r])
    /\ Goto(r, "denied")
    /\ UNCHANGED revokeVars
    /\ Unchanged

RefreshUser(r) ==
    /\ pc[r] = "refresh_user"
    /\ Goto(r, IF active THEN "consume" ELSE "refused")
    /\ UNCHANGED <<token, revokeVars>>
    /\ Unchanged

\* Mutant of RefreshConsume: the old token is left as it is.
RefreshConsumeSkipped(r) ==
    /\ pc[r] = "consume"
    /\ Goto(r, "issue")
    /\ UNCHANGED <<token, revokeVars>>
    /\ Unchanged

RefreshConsume(r) ==
    /\ pc[r] = "consume"
    /\ SaveConsumed(presented[r])
    /\ Goto(r, "issue")
    /\ UNCHANGED revokeVars
    /\ Unchanged

\* _issue_refresh_token of a login or a refresh; the insert may raise.
Issue(r) ==
    /\ pc[r] = "issue"
    /\ \/ token' = [token EXCEPT ![r] = "live"] /\ Goto(r, "ok")
       \/ UNCHANGED token /\ Goto(r, "error")
    /\ UNCHANGED revokeVars
    /\ Unchanged

LogoutFind(r) ==
    /\ pc[r] = "logout_find"
    /\ Goto(r, "family")
    /\ UNCHANGED <<token, revokeVars>>
    /\ Unchanged

---------------------------------------------------------------------------
(* change_password, reset_user_password and the reset by mail once its
   one-time token is consumed; deactivate_user *)

\* User.save(): a 500 when another save came in between (Accounts).
UserSave(r) ==
    /\ pc[r] = "user_save"
    /\ \/ /\ active' = (active /\ job[r] # "deactivate")
          /\ Goto(r, "family")
       \/ /\ Goto(r, "settled")
          /\ UNCHANGED active
    /\ UNCHANGED <<tokenVars, job, presented, revokeVars, alarm>>

---------------------------------------------------------------------------
Continue(r) ==
    \/ FamilyList(r) \/ Revoke(r)
    \/ LoginUser(r)
    \/ RefreshFind(r) \/ RefreshExpire(r) \/ RefreshUser(r) \/ RefreshConsume(r)
    \/ Issue(r) \/ LogoutFind(r) \/ UserSave(r)

\* A request that does not come from the browser.
Arrive(r) ==
    /\ pc[r] = "idle"
    /\ \E j \in OtherJobs :
        /\ job' = [job EXCEPT ![r] = j]
        /\ Goto(r, "user_save")
    /\ UNCHANGED <<tokenVars, active, presented, revokeVars, alarm>>

\* auth_refresh_token_ttl_days pass.
Expire(t) ==
    /\ token[t] = "live" /\ t \notin expired
    /\ expired' = expired \cup {t}
    /\ UNCHANGED <<token, zoned, active, pc, job, presented, revokeVars, alarm>>

\* A login has been answered.
SessionsInit(login) ==
    /\ token = [t \in Requests |-> IF t = login THEN "live" ELSE "absent"]
    /\ expired = {}
    /\ zoned \in BOOLEAN
    /\ active = TRUE
    /\ pc = [r \in Requests |-> IF r = login THEN "settled" ELSE "idle"]
    /\ job = [r \in Requests |-> "login"]
    /\ presented = [r \in Requests |-> None]
    /\ listed = [r \in Requests |-> {}]
    /\ family = [r \in Requests |-> {}]
    /\ revoked = {}
    /\ alarm = {}
=============================================================================
