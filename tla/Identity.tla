------------------------------ MODULE Identity ------------------------------
(***************************************************************************)
(* Who an account belongs to: its email, its password, the OAuth           *)
(* identities linked to it, and the one-time tokens that reset the         *)
(* password.  auth/service.py and auth/router.py with the other handlers   *)
(* that save a User: users/service.py, auth/dependencies.py and            *)
(* admin/service.py.  A handler is cut at every await on the database, the *)
(* provider or the mailer; the refresh tokens that a handler issues or     *)
(* revokes at its end are those of Sessions.                               *)
(*                                                                         *)
(* A User has a revision, as in AccountDocuments; an AuthToken has none.   *)
(* An account, a password and a token are named for the request that made  *)
(* them, and emails are in lower case.                                     *)
(***************************************************************************)
EXTENDS FiniteSets

CONSTANTS
    Requests,     \* the requests of this run, each answered once
    Seed,         \* the account that is there at first, and its password
    Emails,
    SeedEmail,
    Identities,   \* pairs of a provider and a user id of it
    None

Accounts == Requests \cup {Seed}

ASSUME SeedAssumption == Seed \notin Requests /\ None \notin Accounts
ASSUME EmailsAssumption == SeedEmail \in Emails /\ None \notin Emails \cup Identities

VARIABLES
    account,      \* the users collection
    holders,      \* the requests whose copy has the stored revision
    copy,         \* the User a request has in memory
    token,        \* the password_reset token that a request issued
    mailed,       \* the tokens that were sent to their users
    zoned,        \* stored times are read with a zone (Sessions)
    cookie,       \* the state cookie of the browser: the sign-in that set it
    pc, job,
    on,           \* the account that a request is about
    email,        \* the email that a request came with, or its account has
    key,          \* the password, identity or token that it came with
    replaced,     \* history: passwords that gave way to another
    signedIn,     \* history: who signed in with which identity
    late          \* history: requests whose token had reset a password before

userVars == <<account, holders, copy, replaced>>
tokenVars == <<token, mailed, zoned>>
inputVars == <<job, on, email, key>>
historyVars == <<signedIn, late>>
vars == <<userVars, tokenVars, cookie, pc, inputVars, historyVars>>

---------------------------------------------------------------------------
User == [email : Emails, password : Accounts \cup {None}, identities : SUBSET Identities,
         verified : BOOLEAN, active : BOOLEAN]

ASSUME UserAssumption == None \notin User

Token == [state : {"absent", "live", "expired", "consumed"}, of : Accounts \cup {None}]

SelfJobs == {"register", "login", "oauth", "forgot", "reset", "change"}
AdminJobs == {"email", "password", "reset_mail", "deactivate", "reactivate"}

\* ok: 2xx; refused: 4xx; error: an unhandled exception, 500.
Answers == {"ok", "refused", "error"}

\* The calls a request may be waiting for.
Labels ==
    {"idle", "register_insert", "login_find", "at_provider", "exchange", "find_identity",
     "find_email", "oauth_insert", "link", "check_active", "audit", "forgot_find",
     "issue_token", "mail", "token_find", "token_consume", "token_expire", "reset_get",
     "current_user", "touch", "verify", "save_password", "admin_get", "email_check",
     "email_save", "status_save"} \cup Answers

Exists == {a \in Accounts : account[a] # None}

With(e) == {a \in Exists : account[a].email = e}

Linked(i) == {a \in Exists : i \in account[a].identities}

Goto(r, label) == pc' = [pc EXCEPT ![r] = label]

---------------------------------------------------------------------------
(* The users collection *)

Load(r, a) ==
    /\ copy' = [copy EXCEPT ![r] = account[a]]
    /\ holders' = [holders EXCEPT ![a] = @ \cup {r}]
    /\ on' = [on EXCEPT ![r] = a]
    /\ UNCHANGED <<account, replaced>>

\* The unique indexes uniq_email_ci and uniq_oauth_identity.
Clashes(a, doc) ==
    \E b \in Exists \ {a} :
        \/ account[b].email = doc.email
        \/ account[b].identities \cap doc.identities # {}

Store(r, a, doc) ==
    /\ account' = [account EXCEPT ![a] = doc]
    /\ holders' = [holders EXCEPT ![a] = {r}]
    /\ copy' = [copy EXCEPT ![r] = doc]
    /\ replaced' = replaced \cup
           (IF account[a] # None /\ account[a].password # doc.password
              THEN {account[a].password} \ {None} ELSE {})

\* User.insert(): DuplicateKeyError is answered 409.
Insert(r, doc, inserted) ==
    /\ IF Clashes(r, doc)
         THEN Goto(r, "refused") /\ UNCHANGED <<userVars, on>>
         ELSE /\ Store(r, r, doc)
              /\ on' = [on EXCEPT ![r] = r]
              /\ Goto(r, inserted)

\* Mutant of Save: the save ignores the revision.
SaveUnchecked(r, doc, saved, taken) == Store(r, on[r], doc) /\ Goto(r, saved)

\* User.save(); nobody handles RevisionIdWasChanged, and only the sign-in with
\* an identity handles DuplicateKeyError.
Save(r, doc, saved, taken) ==
    IF r \in holders[on[r]] /\ ~Clashes(on[r], doc)
      THEN Store(r, on[r], doc) /\ Goto(r, saved)
      ELSE /\ Goto(r, IF r \in holders[on[r]] THEN taken ELSE "error")
           /\ UNCHANGED userVars

---------------------------------------------------------------------------
(* register_user, login_user *)

\* A strong password: a weak one is a 422 before anything is read.
RegisterInsert(r) ==
    /\ pc[r] = "register_insert"
    /\ Insert(r, [email |-> email[r], password |-> r, identities |-> {}, verified |-> FALSE,
                  active |-> TRUE], "audit")
    /\ UNCHANGED <<tokenVars, cookie, job, email, key, historyVars>>

LoginFind(r) ==
    /\ pc[r] = "login_find"
    /\ \/ /\ \A a \in With(email[r]) : account[a].password # key[r] \/ ~account[a].active
          /\ Goto(r, "refused")
          /\ UNCHANGED <<userVars, on>>
       \/ \E a \in With(email[r]) :
            /\ account[a].password = key[r] /\ account[a].active
            /\ Load(r, a)
            /\ Goto(r, "audit")
    /\ UNCHANGED <<tokenVars, cookie, job, email, key, historyVars>>

---------------------------------------------------------------------------
(* oauth_login, oauth_callback, oauth_callback_login *)

\* The browser comes back from the provider: the state cookie must be the one
\* that this sign-in was given, and the cookie path has room for one.
OAuthCallback(r) ==
    /\ pc[r] = "at_provider"
    /\ Goto(r, IF cookie = r THEN "exchange" ELSE "refused")
    /\ UNCHANGED <<userVars, tokenVars, cookie, inputVars, historyVars>>

\* exchange_oauth_code_for_profile: the provider names the identity, with its
\* email if it has one that is verified, or the exchange fails.
Exchange(r) ==
    /\ pc[r] = "exchange"
    /\ \/ /\ \E i \in Identities, e \in Emails \cup {None} :
                /\ key' = [key EXCEPT ![r] = i]
                /\ email' = [email EXCEPT ![r] = e]
          /\ Goto(r, "find_identity")
       \/ /\ \E answer \in {"refused", "error"} : Goto(r, answer)
          /\ UNCHANGED <<key, email>>
    /\ UNCHANGED <<userVars, tokenVars, cookie, job, on, historyVars>>

FindIdentity(r) ==
    /\ pc[r] = "find_identity"
    /\ \/ \E a \in Linked(key[r]) : Load(r, a) /\ Goto(r, "check_active")
       \/ /\ Linked(key[r]) = {}
          /\ Goto(r, IF email[r] = None THEN "refused" ELSE "find_email")
          /\ UNCHANGED <<userVars, on>>
    /\ UNCHANGED <<tokenVars, cookie, job, email, key, historyVars>>

FindEmail(r) ==
    /\ pc[r] = "find_email"
    /\ \/ \E a \in With(email[r]) : Load(r, a) /\ Goto(r, "link")
       \/ With(email[r]) = {} /\ Goto(r, "oauth_insert") /\ UNCHANGED <<userVars, on>>
    /\ UNCHANGED <<tokenVars, cookie, job, email, key, historyVars>>

OAuthInsert(r) ==
    /\ pc[r] = "oauth_insert"
    /\ Insert(r, [email |-> email[r], password |-> None, identities |-> {key[r]},
                  verified |-> TRUE, active |-> TRUE], "check_active")
    /\ UNCHANGED <<tokenVars, cookie, job, email, key, historyVars>>

\* Mutant of Link: the identity takes the place of the others.
LinkInstead(r) ==
    /\ pc[r] = "link"
    /\ Save(r, [copy[r] EXCEPT !.identities = {key[r]}, !.verified = TRUE],
            "check_active", "refused")
    /\ UNCHANGED <<tokenVars, cookie, inputVars, historyVars>>

Link(r) ==
    /\ pc[r] = "link"
    /\ Save(r, [copy[r] EXCEPT !.identities = @ \cup {key[r]}, !.verified = TRUE],
            "check_active", "refused")
    /\ UNCHANGED <<tokenVars, cookie, inputVars, historyVars>>

CheckActive(r) ==
    /\ pc[r] = "check_active"
    /\ Goto(r, IF copy[r].active THEN "audit" ELSE "refused")
    /\ UNCHANGED <<userVars, tokenVars, cookie, inputVars, historyVars>>

\* The audit entry and the refresh token of a sign-in; the entry of a
\* registration or of an admin's request.  Any insert may raise.  The answer to
\* a sign-in with an identity deletes the state cookie.
Audit(r) ==
    /\ pc[r] = "audit"
    /\ \/ /\ Goto(r, "ok")
          /\ cookie' = IF job[r] = "oauth" THEN None ELSE cookie
          /\ signedIn' = signedIn \cup
                 (IF job[r] = "oauth" THEN {<<key[r], on[r]>>} ELSE {})
       \/ Goto(r, "error") /\ UNCHANGED <<cookie, signedIn>>
    /\ UNCHANGED <<userVars, tokenVars, inputVars, late>>

---------------------------------------------------------------------------
(* request_password_reset, reset_password_with_token *)

\* Nothing is told of an email that no account has.
ForgotFind(r) ==
    /\ pc[r] = "forgot_find"
    /\ \/ \E a \in With(email[r]) : Load(r, a) /\ Goto(r, "issue_token")
       \/ /\ With(email[r]) = {}
          /\ Goto(r, IF job[r] = "forgot" THEN "ok" ELSE "audit")
          /\ UNCHANGED <<userVars, on>>
    /\ UNCHANGED <<tokenVars, cookie, job, email, key, historyVars>>

IssueToken(r) ==
    /\ pc[r] = "issue_token"
    /\ token' = [token EXCEPT ![r] = [state |-> "live", of |-> on[r]]]
    /\ Goto(r, "mail")
    /\ UNCHANGED <<userVars, mailed, zoned, cookie, inputVars, historyVars>>

Mail(r) ==
    /\ pc[r] = "mail"
    /\ \/ /\ mailed' = mailed \cup {r}
          /\ Goto(r, IF job[r] = "forgot" THEN "ok" ELSE "audit")
       \/ Goto(r, "error") /\ UNCHANGED mailed
    /\ UNCHANGED <<userVars, token, zoned, cookie, inputVars, historyVars>>

\* AuthToken.find_one: a token already consumed is refused; the expires_at of
\* any other is compared with the aware now, a TypeError if it has no zone.
TokenFind(r) ==
    /\ pc[r] = "token_find"
    /\ LET found == token[key[r]].state
       IN  \/ found \in {"absent", "consumed"} /\ Goto(r, "refused")
           \/ found \in {"live", "expired"} /\ ~zoned /\ Goto(r, "error")
           \/ found = "live" /\ zoned /\ Goto(r, "token_consume")
           \/ found = "expired" /\ zoned /\ Goto(r, "token_expire")
    /\ UNCHANGED <<userVars, tokenVars, cookie, inputVars, historyVars>>

\* AuthToken.save() of the copy with consumed_at set.
SaveConsumed(r) ==
    /\ token' = [token EXCEPT ![key[r]].state = "consumed"]
    /\ UNCHANGED <<mailed, zoned>>

\* Mutant of TokenConsume: the consumption is not saved.
TokenConsumeUnsaved(r) ==
    /\ pc[r] = "token_consume"
    /\ Goto(r, "reset_get")
    /\ UNCHANGED <<userVars, tokenVars, cookie, inputVars, historyVars>>

TokenConsume(r) ==
    /\ pc[r] = "token_consume"
    /\ SaveConsumed(r)
    /\ Goto(r, "reset_get")
    /\ UNCHANGED <<userVars, cookie, inputVars, historyVars>>

TokenExpire(r) ==
    /\ pc[r] = "token_expire"
    /\ SaveConsumed(r)
    /\ Goto(r, "refused")
    /\ UNCHANGED <<userVars, cookie, inputVars, historyVars>>

ResetGet(r) ==
    /\ pc[r] = "reset_get"
    /\ Load(r, token[key[r]].of)
    /\ Goto(r, "save_password")
    /\ UNCHANGED <<tokenVars, cookie, job, email, key, historyVars>>

---------------------------------------------------------------------------
(* The other handlers that save a User *)

\* get_current_user of change_password: the user is active.  The time of its
\* last activity is saved when the stored one is five minutes old.
CurrentUser(r) ==
    /\ pc[r] = "current_user"
    /\ \E a \in Exists :
        /\ IF account[a].active THEN \E label \in {"touch", "verify"} : Goto(r, label)
                                ELSE Goto(r, "refused")
        /\ Load(r, a)
    /\ UNCHANGED <<tokenVars, cookie, job, email, key, historyVars>>

Touch(r) ==
    /\ pc[r] = "touch"
    /\ Save(r, copy[r], "verify", "error")
    /\ UNCHANGED <<tokenVars, cookie, inputVars, historyVars>>

\* change_current_user_password compares with the copy of the dependency.
VerifyCurrent(r) ==
    /\ pc[r] = "verify"
    /\ \E answer \in {"save_password", "refused"} :
        /\ answer = "save_password" => copy[r].password # None
        /\ Goto(r, answer)
    /\ UNCHANGED <<userVars, tokenVars, cookie, inputVars, historyVars>>

\* The new password of a reset, a change or an admin's reset.
SavePassword(r) ==
    /\ pc[r] = "save_password"
    /\ Save(r, [copy[r] EXCEPT !.password = r],
            IF job[r] = "password" THEN "audit" ELSE "ok", "error")
    /\ UNCHANGED <<tokenVars, cookie, inputVars, historyVars>>

\* get_user_or_404 of the admin's handlers.  A reset by mail goes to the email
\* that was loaded.
AdminGet(r) ==
    /\ pc[r] = "admin_get"
    /\ \E a \in Exists :
        /\ Load(r, a)
        /\ IF job[r] = "reset_mail" THEN email' = [email EXCEPT ![r] = account[a].email]
                                    ELSE UNCHANGED email
    /\ Goto(r, CASE job[r] = "email" -> "email_check"
                 [] job[r] = "password" -> "save_password"
                 [] job[r] = "reset_mail" -> "forgot_find"
                 [] OTHER -> "status_save")
    /\ UNCHANGED <<tokenVars, cookie, job, key, historyVars>>

\* update_user: a new email that another account has is a 409.
EmailCheck(r) ==
    /\ pc[r] = "email_check"
    /\ Goto(r, IF email[r] = copy[r].email THEN "ok"
               ELSE IF With(email[r]) \subseteq {on[r]} THEN "email_save" ELSE "refused")
    /\ UNCHANGED <<userVars, tokenVars, cookie, inputVars, historyVars>>

EmailSave(r) ==
    /\ pc[r] = "email_save"
    /\ Save(r, [copy[r] EXCEPT !.email = email[r]], "audit", "error")
    /\ UNCHANGED <<tokenVars, cookie, inputVars, historyVars>>

StatusSave(r) ==
    /\ pc[r] = "status_save"
    /\ Save(r, [copy[r] EXCEPT !.active = (job[r] = "reactivate")], "audit", "error")
    /\ UNCHANGED <<tokenVars, cookie, inputVars, historyVars>>

---------------------------------------------------------------------------
(* The requests arrive, and time passes *)

\* A token is spent when a request that came with it has been answered ok.
Spent(t) == \E q \in Requests : job[q] = "reset" /\ key[q] = t /\ pc[q] = "ok"

Ask(r, j, e, k, first) ==
    /\ pc[r] = "idle"
    /\ job' = [job EXCEPT ![r] = j]
    /\ email' = [email EXCEPT ![r] = e]
    /\ key' = [key EXCEPT ![r] = k]
    /\ Goto(r, first)
    /\ cookie' = IF j = "oauth" THEN r ELSE cookie
    /\ late' = late \cup (IF j = "reset" /\ Spent(k) THEN {r} ELSE {})
    /\ UNCHANGED <<userVars, tokenVars, on, signedIn>>

\* A login comes with a password that is or was some account's.
Passwords == (replaced \cup {account[a].password : a \in Exists}) \ {None}

Arrive(r) ==
    \/ \E e \in Emails : \/ Ask(r, "register", e, None, "register_insert")
                         \/ Ask(r, "forgot", e, None, "forgot_find")
                         \/ Ask(r, "email", e, None, "admin_get")
                         \/ \E p \in Passwords : Ask(r, "login", e, p, "login_find")
    \/ Ask(r, "oauth", None, None, "at_provider")
    \/ Ask(r, "change", None, None, "current_user")
    \/ \E t \in mailed : Ask(r, "reset", None, t, "token_find")
    \/ \E j \in AdminJobs \ {"email"} : Ask(r, j, None, None, "admin_get")

Continue(r) ==
    \/ RegisterInsert(r) \/ LoginFind(r)
    \/ OAuthCallback(r) \/ Exchange(r) \/ FindIdentity(r) \/ FindEmail(r) \/ OAuthInsert(r)
    \/ Link(r) \/ CheckActive(r) \/ Audit(r)
    \/ ForgotFind(r) \/ IssueToken(r) \/ Mail(r)
    \/ TokenFind(r) \/ TokenConsume(r) \/ TokenExpire(r) \/ ResetGet(r)
    \/ CurrentUser(r) \/ Touch(r) \/ VerifyCurrent(r) \/ SavePassword(r)
    \/ AdminGet(r) \/ EmailCheck(r) \/ EmailSave(r) \/ StatusSave(r)

\* An hour passes.
Expire(t) ==
    /\ token[t].state = "live"
    /\ token' = [token EXCEPT ![t].state = "expired"]
    /\ UNCHANGED <<userVars, mailed, zoned, cookie, pc, inputVars, historyVars>>

Init ==
    /\ account = [a \in Accounts |->
                    IF a = Seed THEN [email |-> SeedEmail, password |-> Seed, identities |-> {},
                                      verified |-> FALSE, active |-> TRUE]
                                ELSE None]
    /\ holders = [a \in Accounts |-> {}]
    /\ copy = [r \in Requests |-> None]
    /\ token = [r \in Requests |-> [state |-> "absent", of |-> None]]
    /\ mailed = {}
    /\ zoned \in BOOLEAN
    /\ cookie = None
    /\ pc = [r \in Requests |-> "idle"]
    /\ job = [r \in Requests |-> "idle"]
    /\ on = [r \in Requests |-> None]
    /\ email = [r \in Requests |-> None]
    /\ key = [r \in Requests |-> None]
    /\ replaced = {}
    /\ signedIn = {}
    /\ late = {}

Next == \E r \in Requests : Arrive(r) \/ Continue(r) \/ Expire(r)

Spec == Init /\ [][Next]_vars

---------------------------------------------------------------------------
(* Properties *)

TypeOK ==
    /\ account \in [Accounts -> User \cup {None}]
    /\ holders \in [Accounts -> SUBSET Requests]
    /\ copy \in [Requests -> User \cup {None}]
    /\ token \in [Requests -> Token]
    /\ mailed \subseteq Requests
    /\ zoned \in BOOLEAN
    /\ cookie \in Requests \cup {None}
    /\ pc \in [Requests -> Labels]
    /\ job \in [Requests -> {"idle"} \cup SelfJobs \cup AdminJobs]
    /\ on \in [Requests -> Accounts \cup {None}]
    /\ email \in [Requests -> Emails \cup {None}]
    /\ key \in [Requests -> Accounts \cup Identities \cup {None}]
    /\ replaced \subseteq Accounts
    /\ signedIn \subseteq Identities \X Accounts
    /\ late \subseteq Requests

\* The identity that a callback has signed somebody in with stays linked to
\* that account and to no other: not even a handler that has had the account
\* in memory since before the identity was linked takes the link away.
IdentityStays ==
    \A i \in Identities, a \in Accounts :
        <<i, a>> \in signedIn => Linked(i) = {a}

\* A password that gave way to another is no account's password again:
\* whichever of the saves of a User come late, none restores it.
ReplacedStaysOut == \A a \in Exists : account[a].password \notin replaced

\* "Consumes a single-use password reset token": where stored times are read
\* with a zone, a reset that is not refused has consumed its token, even when it
\* goes wrong later.
ResetConsumesItsToken ==
    zoned => \A r \in Requests :
        job[r] = "reset" /\ pc[r] \in {"ok", "error"} => token[key[r]].state = "consumed"

\* A one-time token that has reset a password is refused to every request that
\* comes with it afterwards.  (Requests that overlap may both be served:
\* _consume_one_time_token reads the token and then saves it.)
TokensAreSpent == \A r \in late : pc[r] \in {"token_find", "refused"}
=============================================================================
