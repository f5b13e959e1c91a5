--------------------------- MODULE IdentityProofs ---------------------------
(***************************************************************************)
(* Safety of the accounts' identities, passwords and reset tokens for any  *)
(* number of requests, emails and identities.                              *)
(***************************************************************************)
EXTENDS Identity, TLAPS

USE SeedAssumption, EmailsAssumption, UserAssumption

---------------------------------------------------------------------------
(* The invariant *)

Over == {"audit"} \cup Answers

LoadedLabels == {"link", "check_active", "issue_token", "touch", "verify", "save_password",
                 "email_check", "email_save", "status_save"}
EmailLabels == {"register_insert", "find_email", "oauth_insert", "email_check", "email_save"}
KeyLabels == {"find_identity", "find_email", "link", "oauth_insert"}
TokenLabels == {"token_find", "token_consume", "token_expire", "reset_get"}
OAuthLabels == {"at_provider", "exchange", "find_identity", "find_email", "link",
                "oauth_insert", "check_active"} \cup Over
ResetLabels == TokenLabels \cup {"save_password"} \cup Answers

\* A reset has got past the comparison of expires_at.
FoundLabels == {"token_consume", "token_expire", "reset_get", "save_password", "ok"}

\* It has consumed its token: without zones an error may be that of the comparison.
Spends(l) == l \in {"reset_get", "save_password", "ok"} \/ (zoned /\ l = "error")

\* A request with a current copy has the stored account; and one that is about
\* to save, or has to check, has an account.
CopiesAgree ==
    /\ \A r \in Requests : on[r] # None => on[r] \in Exists
    /\ \A r \in Requests : pc[r] \in LoadedLabels => on[r] # None
    /\ \A r \in Requests : on[r] # None /\ r \in holders[on[r]] => copy[r] = account[on[r]]

\* What the requests came with.
InputsAgree ==
    \A r \in Requests :
        /\ pc[r] \in EmailLabels => email[r] \in Emails
        /\ pc[r] = "admin_get" /\ job[r] = "email" => email[r] \in Emails
        /\ pc[r] \in KeyLabels => key[r] \in Identities

\* An account is inserted by the request it is named for, once.
Born ==
    \A r \in Requests : account[r] # None => pc[r] \in {"check_active"} \cup Over

\* So is a password: before that it is nobody's, and no two accounts share one.
PasswordsAgree ==
    /\ \A r \in Requests :
          r \in replaced \/ (\E a \in Exists : account[a].password = r) => pc[r] \in Over
    /\ \A a, b \in Exists :
          a # b /\ account[a].password = account[b].password => account[a].password = None
    /\ None \notin replaced
    /\ ReplacedStaysOut

\* No two accounts share an identity, and a sign-in that has found or linked its
\* identity keeps it.
IdentitiesAgree ==
    /\ \A a, b \in Exists : a # b => account[a].identities \cap account[b].identities = {}
    /\ \A r \in Requests : job[r] = "oauth" => pc[r] \in OAuthLabels
    /\ \A r \in Requests :
          job[r] = "oauth" /\ pc[r] \in {"check_active", "audit"} =>
              on[r] # None /\ key[r] \in account[on[r]].identities
    /\ \A i \in Identities, a \in Accounts :
          <<i, a>> \in signedIn => a \in Exists /\ i \in account[a].identities

Issued(t) == token[t].state # "absent" /\ token[t].of \in Exists

Consumed(t) == t \in mailed /\ token[t].state = "consumed"

\* Tokens that were mailed stay issued, and a request that has got past the
\* consumption of its token, or came late with it, finds it consumed.
TokensAgree ==
    /\ \A t \in mailed : Issued(t) /\ pc[t] \in Over
    /\ \A r \in Requests : pc[r] = "mail" => Issued(r)
    /\ \A r \in Requests : pc[r] \in TokenLabels => key[r] \in mailed
    /\ \A r \in Requests :
          job[r] = "reset" => /\ pc[r] \in ResetLabels
                              /\ pc[r] \in FoundLabels => zoned
                              /\ Spends(pc[r]) => Consumed(key[r])
    /\ \A r \in late :
          job[r] = "reset" /\ pc[r] \in {"token_find", "refused"} /\ Consumed(key[r])

IdInv ==
    /\ TypeOK
    /\ CopiesAgree /\ InputsAgree /\ Born
    /\ PasswordsAgree /\ IdentitiesAgree /\ TokensAgree

---------------------------------------------------------------------------
(* What a step of a request does to the accounts, the tokens and itself. *)

LoadsAccount(r) == \E a \in Exists : Load(r, a)

\* It inserts its account, or saves a current copy with the same identities or
\* more, and with the same password or a new one.
Stores(r, a, doc) ==
    /\ Store(r, a, doc) /\ on' = [on EXCEPT ![r] = a]
    /\ ~Clashes(a, doc)
    /\ \/ /\ a = r /\ account[r] = None
          /\ pc'[r] \in {"check_active"} \cup Over
          /\ doc.password = None \/ (doc.password = r /\ pc[r] \notin Over /\ pc'[r] \in Over)
       \/ /\ a = on[r] /\ a \in Exists
          /\ account[a].identities \subseteq doc.identities
          /\ \/ doc.password = account[a].password
             \/ doc.password = r /\ pc[r] \notin Over /\ pc'[r] \in Over

StoresAccount(r) == \E a \in Accounts, doc \in User : Stores(r, a, doc)

UserEffect(r) == UNCHANGED <<userVars, on>> \/ LoadsAccount(r) \/ StoresAccount(r)

TokenEffect(r) ==
    /\ zoned' = zoned
    /\ \/ UNCHANGED tokenVars
       \/ /\ pc[r] = "issue_token" /\ on[r] # None
          /\ token' = [token EXCEPT ![r] = [state |-> "live", of |-> on[r]]]
          /\ UNCHANGED mailed
       \/ /\ pc[r] = "mail" /\ pc'[r] \in Over
          /\ mailed' = mailed \cup {r}
          /\ UNCHANGED token
       \/ /\ key[r] \in mailed
          /\ token' = [token EXCEPT ![key[r]].state = "consumed"]
          /\ UNCHANGED mailed

InputEffect(r) ==
    /\ UNCHANGED <<job, late>>
    /\ email' \in [Requests -> Emails \cup {None}]
    /\ key' \in [Requests -> Accounts \cup Identities \cup {None}]
    /\ \A q \in Requests \ {r} : email'[q] = email[q] /\ key'[q] = key[q]
    /\ cookie' \in Requests \cup {None}
    /\ \/ UNCHANGED signedIn
       \/ /\ job[r] = "oauth" /\ pc[r] = "audit"
          /\ signedIn' = signedIn \cup {<<key[r], on[r]>>}

\* Where the request goes, and with what.
Goes(r, l) ==
    /\ pc' = [pc EXCEPT ![r] = l]
    /\ pc[r] \in Over => l \in Over
    /\ pc[r] = "check_active" => l \in Over
    /\ l \in LoadedLabels => on'[r] # None
    /\ l \in EmailLabels => email'[r] \in Emails
    /\ l \in KeyLabels => key'[r] \in Identities
    /\ l = "mail" => token'[r] = [state |-> "live", of |-> on[r]] /\ on[r] # None

GoesOAuth(r, l) ==
    job[r] = "oauth" =>
        /\ l \in OAuthLabels
        /\ l \in {"check_active", "audit"} =>
              on'[r] # None /\ key'[r] \in account'[on'[r]].identities

GoesReset(r, l) ==
    /\ l \in TokenLabels => key'[r] \in mailed
    /\ job[r] = "reset" =>
          /\ l \in ResetLabels /\ key'[r] = key[r]
          /\ l \in FoundLabels => zoned
          /\ Spends(l) =>
                key[r] \in mailed /\ token'[key[r]].state = "consumed"
    /\ r \in late => l = "refused"

StepEffect(r) ==
    /\ UserEffect(r) /\ TokenEffect(r) /\ InputEffect(r)
    /\ \E l \in Labels \ {"idle", "admin_get"} :
          Goes(r, l) /\ GoesOAuth(r, l) /\ GoesReset(r, l)

---------------------------------------------------------------------------
\* What the invariant says of one request.
LEMMA RequestFacts ==
    ASSUME IdInv, NEW r \in Requests
    PROVE  /\ account \in [Accounts -> User \cup {None}]
           /\ holders \in [Accounts -> SUBSET Requests]
           /\ copy \in [Requests -> User \cup {None}]
           /\ token \in [Requests -> Token] /\ mailed \subseteq Requests
           /\ cookie \in Requests \cup {None} /\ pc \in [Requests -> Labels]
           /\ zoned \in BOOLEAN
           /\ on \in [Requests -> Accounts \cup {None}]
           /\ email \in [Requests -> Emails \cup {None}]
           /\ key \in [Requests -> Accounts \cup Identities \cup {None}]
           /\ on[r] # None => on[r] \in Exists
           /\ pc[r] \in LoadedLabels => on[r] \in Exists
           /\ on[r] # None /\ r \in holders[on[r]] => copy[r] = account[on[r]]
           /\ pc[r] \in EmailLabels => email[r] \in Emails
           /\ pc[r] = "admin_get" /\ job[r] = "email" => email[r] \in Emails
           /\ pc[r] \in KeyLabels => key[r] \in Identities
           /\ account[r] # None => pc[r] \in {"check_active"} \cup Over
           /\ job[r] = "oauth" => pc[r] \in OAuthLabels
           /\ job[r] = "oauth" /\ pc[r] \in {"check_active", "audit"} =>
                  on[r] # None /\ key[r] \in account[on[r]].identities
           /\ pc[r] \in TokenLabels => key[r] \in mailed /\ Issued(key[r])
           /\ job[r] = "reset" => pc[r] \in ResetLabels
           /\ job[r] = "reset" /\ pc[r] \in FoundLabels => zoned
           /\ job[r] = "reset" /\ Spends(pc[r]) => Consumed(key[r])
           /\ r \in late => /\ job[r] = "reset" /\ pc[r] \in {"token_find", "refused"}
                            /\ Consumed(key[r])
  BY DEF IdInv, TypeOK, CopiesAgree, InputsAgree, Born, IdentitiesAgree, TokensAgree

LEMMA ExistsFacts ==
    ASSUME IdInv
    PROVE  /\ Exists \subseteq Accounts /\ None \notin Accounts
           /\ \A a \in Exists : account[a] \in User /\ account[a] # None
           /\ \A e : With(e) \subseteq Exists
           /\ \A i : Linked(i) \subseteq Exists
  BY DEF IdInv, TypeOK, Exists, With, Linked, Accounts

\* A save stores a current copy or nothing.
LEMMA SaveEffect ==
    ASSUME IdInv, NEW r \in Requests, pc[r] \in LoadedLabels,
           NEW doc, NEW l, NEW t, Save(r, doc, l, t), UNCHANGED on,
           r \in holders[on[r]] => /\ doc \in User
                                  /\ copy[r].identities \subseteq doc.identities
                                  /\ \/ doc.password = copy[r].password
                                     \/ doc.password = r /\ l \in Over
    PROVE  /\ UserEffect(r)
           /\ \E m \in {l, t, "error"} : pc' = [pc EXCEPT ![r] = m]
           /\ pc'[r] = l /\ l \notin {t, "error"} =>
                 r \in holders[on[r]] /\ account'[on[r]] = doc
<1> on[r] \in Exists /\ on \in [Requests -> Accounts \cup {None}]
    /\ pc \in [Requests -> Labels] /\ account \in [Accounts -> User \cup {None}]
  BY RequestFacts
<1> on[r] # None /\ on[r] \in Accounts /\ pc[r] \notin Over
  BY ExistsFacts DEF LoadedLabels, Over, Answers
<1>1. CASE r \in holders[on[r]] /\ ~Clashes(on[r], doc)
  <2>1. Store(r, on[r], doc) /\ pc' = [pc EXCEPT ![r] = l]
    BY <1>1 DEF Save, Goto
  <2>2. copy[r] = account[on[r]]
    BY <1>1, RequestFacts
  <2>3. on' = [on EXCEPT ![r] = on[r]]
    OBVIOUS
  <2>4. pc'[r] = l
    BY <2>1
  <2>5. StoresAccount(r)
    BY <1>1, <2>1, <2>2, <2>3, <2>4 DEF StoresAccount, Stores
  <2>6. account'[on[r]] = doc
    BY <2>1 DEF Store
  <2> QED
    BY <1>1, <2>1, <2>5, <2>6 DEF UserEffect
<1>2. CASE ~(r \in holders[on[r]] /\ ~Clashes(on[r], doc))
  <2>1. PICK m \in {t, "error"} : pc' = [pc EXCEPT ![r] = m] /\ UNCHANGED userVars
    BY <1>2 DEF Save, Goto
  <2>2. pc'[r] = m
    BY <2>1
  <2> QED
    BY <2>1, <2>2 DEF UserEffect
<1> QED
  BY <1>1, <1>2

\* An insert is of the account that has no document yet.
LEMMA InsertEffect ==
    ASSUME IdInv, NEW r \in Requests, pc[r] \in {"register_insert", "oauth_insert"},
           NEW doc \in User, NEW l \in {"check_active", "audit"}, Insert(r, doc, l),
           doc.password = None \/ (doc.password = r /\ l = "audit")
    PROVE  /\ UserEffect(r)
           /\ \/ pc' = [pc EXCEPT ![r] = "refused"] /\ on' = on
              \/ /\ pc' = [pc EXCEPT ![r] = l]
                 /\ on'[r] = r /\ r # None /\ account'[r] = doc
<1> account[r] = None /\ pc[r] \notin Over /\ pc \in [Requests -> Labels]
    /\ on \in [Requests -> Accounts \cup {None}] /\ account \in [Accounts -> User \cup {None}]
  BY RequestFacts DEF Over, Answers
<1> r \in Accounts /\ r # None
  BY ExistsFacts DEF Accounts
<1>1. CASE Clashes(r, doc)
  BY <1>1 DEF Insert, UserEffect, Goto
<1>2. CASE ~Clashes(r, doc)
  <2>1. Store(r, r, doc) /\ on' = [on EXCEPT ![r] = r] /\ pc' = [pc EXCEPT ![r] = l]
    BY <1>2 DEF Insert, Goto
  <2>2. account'[r] = doc
    BY <2>1 DEF Store
  <2>3. pc'[r] = l /\ on'[r] = r /\ l \in {"check_active"} \cup Over
    BY <2>1 DEF Over
  <2>4. doc.password = None \/ (doc.password = r /\ pc[r] \notin Over /\ pc'[r] \in Over)
    BY <2>3 DEF Over
  <2>5. StoresAccount(r)
    BY <1>2, <2>1, <2>3, <2>4 DEF StoresAccount, Stores
  <2> QED
    BY <2>1, <2>2, <2>3, <2>5 DEF UserEffect
<1> QED
  BY <1>1, <1>2

LEMMA LoadEffect ==
    ASSUME IdInv, NEW r \in Requests, NEW a \in Exists, Load(r, a)
    PROVE  UserEffect(r) /\ on'[r] = a /\ a # None /\ account' = account
<1> on \in [Requests -> Accounts \cup {None}]
  BY RequestFacts
<1>1. on'[r] = a /\ account' = account
  BY DEF Load
<1>2. a # None
  BY ExistsFacts
<1> QED
  BY <1>1, <1>2 DEF UserEffect, LoadsAccount

\* Most steps touch neither the tokens nor what the requests came with.
LEMMA QuietEffect ==
    ASSUME IdInv, NEW r \in Requests,
           UNCHANGED <<tokenVars, cookie, job, email, key, historyVars>>
    PROVE  TokenEffect(r) /\ InputEffect(r)
  BY RequestFacts DEF TokenEffect, tokenVars, InputEffect, historyVars

---------------------------------------------------------------------------
(* Each step has an effect. *)

LEMMA SignInEffect ==
    ASSUME IdInv, NEW r \in Requests,
           RegisterInsert(r) \/ LoginFind(r) \/ OAuthCallback(r) \/ Exchange(r)
             \/ FindIdentity(r) \/ FindEmail(r) \/ OAuthInsert(r)
    PROVE  StepEffect(r)
<1> USE DEF LoadedLabels, EmailLabels, KeyLabels, TokenLabels, OAuthLabels, ResetLabels,
            Over, Answers, Labels, Goto, Spends, FoundLabels
<1> USE RequestFacts
<1>1. CASE RegisterInsert(r)
  <2> DEFINE doc == [email |-> email[r], password |-> r, identities |-> {}, verified |-> FALSE,
                     active |-> TRUE]
  <2>1. pc[r] = "register_insert" /\ Insert(r, doc, "audit")
        /\ UNCHANGED <<tokenVars, cookie, job, email, key, historyVars>>
    BY <1>1 DEF RegisterInsert
  <2>2. doc \in User /\ doc.password = r
    BY <2>1 DEF User, Accounts
  <2> HIDE DEF doc
  <2>3. UserEffect(r) /\ \E l \in {"refused", "audit"} : pc' = [pc EXCEPT ![r] = l]
    BY <2>1, <2>2, InsertEffect
  <2>4. TokenEffect(r) /\ InputEffect(r)
    BY <2>1, QuietEffect
  <2> QED
    BY <2>1, <2>3, <2>4 DEF StepEffect, Goes, GoesOAuth, GoesReset
<1>2. CASE LoginFind(r)
  <2>1. pc[r] = "login_find" /\ UNCHANGED <<tokenVars, cookie, job, email, key, historyVars>>
        /\ \E l \in {"refused", "audit"} : pc' = [pc EXCEPT ![r] = l]
    BY <1>2 DEF LoginFind
  <2>2. UNCHANGED <<userVars, on>> \/ \E a \in With(email[r]) : Load(r, a)
    BY <1>2 DEF LoginFind
  <2>3. UserEffect(r)
    BY <2>2, LoadEffect, ExistsFacts DEF UserEffect
  <2>4. TokenEffect(r) /\ InputEffect(r)
    BY <2>1, QuietEffect
  <2> QED
    BY <2>1, <2>3, <2>4 DEF StepEffect, Goes, GoesOAuth, GoesReset
<1>3. CASE OAuthCallback(r)
  <2>1. pc[r] = "at_provider" /\ UNCHANGED <<tokenVars, cookie, job, email, key, historyVars>>
        /\ UNCHANGED <<userVars, on>>
        /\ \E l \in {"refused", "exchange"} : pc' = [pc EXCEPT ![r] = l]
    BY <1>3 DEF OAuthCallback, inputVars
  <2>2. TokenEffect(r) /\ InputEffect(r)
    BY <2>1, QuietEffect
  <2> QED
    BY <2>1, <2>2 DEF StepEffect, UserEffect, Goes, GoesOAuth, GoesReset
<1>4. CASE Exchange(r)
  <2>1. pc[r] = "exchange" /\ UNCHANGED <<tokenVars, cookie, job, historyVars>>
        /\ UNCHANGED <<userVars, on>>
    BY <1>4 DEF Exchange
  <2>2. CASE UNCHANGED <<key, email>> /\ \E l \in {"refused", "error"} : pc' = [pc EXCEPT ![r] = l]
    <3>1. TokenEffect(r) /\ InputEffect(r)
      BY <2>1, <2>2, QuietEffect
    <3> QED
      BY <2>1, <2>2, <3>1 DEF StepEffect, UserEffect, Goes, GoesOAuth, GoesReset
  <2>3. CASE /\ pc' = [pc EXCEPT ![r] = "find_identity"]
             /\ \E i \in Identities, e \in Emails \cup {None} :
                   key' = [key EXCEPT ![r] = i] /\ email' = [email EXCEPT ![r] = e]
    <3>1. InputEffect(r) /\ key'[r] \in Identities
      BY <2>1, <2>3 DEF InputEffect, historyVars
    <3> QED
      BY <2>1, <2>3, <3>1
        DEF StepEffect, UserEffect, TokenEffect, tokenVars, Goes, GoesOAuth, GoesReset
  <2> QED
    BY <1>4, <2>2, <2>3 DEF Exchange
<1>5. CASE FindIdentity(r)
  <2>1. pc[r] = "find_identity" /\ UNCHANGED <<tokenVars, cookie, job, email, key, historyVars>>
    BY <1>5 DEF FindIdentity
  <2>2. TokenEffect(r) /\ InputEffect(r)
    BY <2>1, QuietEffect
  <2>3. CASE UNCHANGED <<userVars, on>>
             /\ pc' = [pc EXCEPT ![r] = IF email[r] = None THEN "refused" ELSE "find_email"]
    BY <2>1, <2>2, <2>3 DEF StepEffect, UserEffect, Goes, GoesOAuth, GoesReset
  <2>4. ASSUME NEW a \in Linked(key[r]), Load(r, a), pc' = [pc EXCEPT ![r] = "check_active"]
        PROVE  StepEffect(r)
    <3>1. UserEffect(r) /\ on'[r] = a /\ a # None /\ account' = account
      BY <2>4, LoadEffect, ExistsFacts
    <3>2. key[r] \in account[a].identities
      BY DEF Linked
    <3> QED
      BY <2>1, <2>2, <2>4, <3>1, <3>2 DEF StepEffect, Goes, GoesOAuth, GoesReset
  <2> QED
    BY <1>5, <2>3, <2>4 DEF FindIdentity
<1>6. CASE FindEmail(r)
  <2>1. pc[r] = "find_email" /\ UNCHANGED <<tokenVars, cookie, job, email, key, historyVars>>
    BY <1>6 DEF FindEmail
  <2>2. TokenEffect(r) /\ InputEffect(r)
    BY <2>1, QuietEffect
  <2>3. CASE UNCHANGED <<userVars, on>> /\ pc' = [pc EXCEPT ![r] = "oauth_insert"]
    BY <2>1, <2>2, <2>3 DEF StepEffect, UserEffect, Goes, GoesOAuth, GoesReset
  <2>4. ASSUME NEW a \in With(email[r]), Load(r, a), pc' = [pc EXCEPT ![r] = "link"]
        PROVE  StepEffect(r)
    <3>1. UserEffect(r) /\ on'[r] = a /\ a # None
      BY <2>4, LoadEffect, ExistsFacts
    <3> QED
      BY <2>1, <2>2, <2>4, <3>1 DEF StepEffect, Goes, GoesOAuth, GoesReset
  <2> QED
    BY <1>6, <2>3, <2>4 DEF FindEmail
<1>7. CASE OAuthInsert(r)
  <2> DEFINE doc == [email |-> email[r], password |-> None, identities |-> {key[r]},
                     verified |-> TRUE, active |-> TRUE]
  <2>1. pc[r] = "oauth_insert" /\ Insert(r, doc, "check_active")
        /\ UNCHANGED <<tokenVars, cookie, job, email, key, historyVars>>
    BY <1>7 DEF OAuthInsert
  <2>2. doc \in User /\ doc.password = None /\ key[r] \in doc.identities
    BY <2>1 DEF User
  <2> HIDE DEF doc
  <2>3. UserEffect(r) /\ \/ pc' = [pc EXCEPT ![r] = "refused"]
                         \/ /\ pc' = [pc EXCEPT ![r] = "check_active"]
                            /\ on'[r] = r /\ r # None /\ account'[r] = doc
    BY <2>1, <2>2, InsertEffect
  <2>4. TokenEffect(r) /\ InputEffect(r)
    BY <2>1, QuietEffect
  <2> QED
    BY <2>1, <2>2, <2>3, <2>4 DEF StepEffect, Goes, GoesOAuth, GoesReset
<1> QED
  BY <1>1, <1>2, <1>3, <1>4, <1>5, <1>6, <1>7

LEMMA LinkEffect ==
    ASSUME IdInv, NEW r \in Requests, Link(r) \/ CheckActive(r) \/ Audit(r)
    PROVE  StepEffect(r)
<1> USE DEF LoadedLabels, EmailLabels, KeyLabels, TokenLabels, OAuthLabels, ResetLabels,
            Over, Answers, Labels, Goto, Spends, FoundLabels
<1> USE RequestFacts
<1>1. CASE Link(r)
  <2> DEFINE doc == [copy[r] EXCEPT !.identities = @ \cup {key[r]}, !.verified = TRUE]
  <2>1. pc[r] = "link" /\ Save(r, doc, "check_active", "refused")
        /\ UNCHANGED <<tokenVars, cookie, job, email, key, historyVars>>
        /\ UNCHANGED on
    BY <1>1 DEF Link, inputVars
  <2>2. ASSUME copy[r] \in User
        PROVE  /\ doc \in User /\ copy[r].identities \subseteq doc.identities
               /\ doc.password = copy[r].password /\ key[r] \in doc.identities
    <3>1. copy[r].identities \cup {key[r]} \in SUBSET Identities
      BY <2>1, <2>2 DEF User
    <3>2. doc \in User /\ doc.password = copy[r].password
          /\ doc.identities = copy[r].identities \cup {key[r]}
      BY ONLY <2>2, <3>1, Zenon DEF doc, User
    <3> HIDE DEF doc
    <3> QED
      BY <3>2
  <2>3. r \in holders[on[r]] => copy[r] \in User
    BY <2>1, ExistsFacts
  <2> HIDE DEF doc
  <2>4. /\ UserEffect(r)
        /\ \E l \in {"check_active", "refused", "error"} : pc' = [pc EXCEPT ![r] = l]
        /\ pc'[r] = "check_active" => r \in holders[on[r]] /\ account'[on[r]] = doc
    BY <2>1, <2>2, <2>3, SaveEffect
  <2>5. TokenEffect(r) /\ InputEffect(r)
    BY <2>1, QuietEffect
  <2>6. on[r] # None
    BY <2>1, ExistsFacts
  <2>7. pc'[r] = "check_active" => key[r] \in account'[on[r]].identities
    BY <2>2, <2>3, <2>4
  <2> QED
    BY <2>1, <2>4, <2>5, <2>6, <2>7 DEF StepEffect, Goes, GoesOAuth, GoesReset
<1>2. CASE CheckActive(r)
  <2>1. pc[r] = "check_active" /\ UNCHANGED <<tokenVars, cookie, job, email, key, historyVars>>
        /\ UNCHANGED <<userVars, on>>
        /\ \E l \in {"refused", "audit"} : pc' = [pc EXCEPT ![r] = l]
    BY <1>2 DEF CheckActive, inputVars
  <2>2. account' = account /\ TokenEffect(r) /\ InputEffect(r)
    BY <2>1, QuietEffect DEF userVars
  <2> QED
    BY <2>1, <2>2 DEF StepEffect, UserEffect, Goes, GoesOAuth, GoesReset
<1>3. CASE Audit(r)
  <2>1. pc[r] = "audit" /\ UNCHANGED <<userVars, tokenVars, inputVars, late>>
        /\ \E l \in {"ok", "error"} : pc' = [pc EXCEPT ![r] = l]
    BY <1>3 DEF Audit
  <2>2. cookie' \in Requests \cup {None}
    BY <1>3 DEF Audit
  <2>3. \/ UNCHANGED signedIn
        \/ job[r] = "oauth" /\ signedIn' = signedIn \cup {<<key[r], on[r]>>}
    <3>1. UNCHANGED signedIn \/
            signedIn' = signedIn \cup (IF job[r] = "oauth" THEN {<<key[r], on[r]>>} ELSE {})
      BY <1>3 DEF Audit
    <3>2. CASE job[r] = "oauth"
      BY <3>1, <3>2
    <3>3. CASE job[r] # "oauth"
      BY <3>1, <3>3
    <3> QED
      BY <3>2, <3>3
  <2>4. InputEffect(r)
    BY <2>1, <2>2, <2>3 DEF InputEffect, inputVars
  <2> QED
    BY <2>1, <2>4
      DEF StepEffect, UserEffect, TokenEffect, tokenVars, Goes, GoesOAuth, GoesReset, inputVars
<1> QED
  BY <1>1, <1>2, <1>3

LEMMA ResetEffect ==
    ASSUME IdInv, NEW r \in Requests,
           ForgotFind(r) \/ IssueToken(r) \/ Mail(r)
             \/ TokenFind(r) \/ TokenConsume(r) \/ TokenExpire(r) \/ ResetGet(r)
    PROVE  StepEffect(r)
<1> USE DEF LoadedLabels, EmailLabels, KeyLabels, TokenLabels, OAuthLabels, ResetLabels,
            Over, Answers, Labels, Goto, Spends, FoundLabels
<1> USE RequestFacts
<1>1. CASE ForgotFind(r)
  <2>1. pc[r] = "forgot_find" /\ UNCHANGED <<tokenVars, cookie, job, email, key, historyVars>>
    BY <1>1 DEF ForgotFind
  <2>2. TokenEffect(r) /\ InputEffect(r)
    BY <2>1, QuietEffect
  <2>3. CASE UNCHANGED <<userVars, on>> /\ \E l \in {"ok", "audit"} : pc' = [pc EXCEPT ![r] = l]
    BY <2>1, <2>2, <2>3 DEF StepEffect, UserEffect, Goes, GoesOAuth, GoesReset
  <2>4. ASSUME NEW a \in With(email[r]), Load(r, a), pc' = [pc EXCEPT ![r] = "issue_token"]
        PROVE  StepEffect(r)
    <3>1. UserEffect(r) /\ on'[r] = a /\ a # None
      BY <2>4, LoadEffect, ExistsFacts
    <3> QED
      BY <2>1, <2>2, <2>4, <3>1 DEF StepEffect, Goes, GoesOAuth, GoesReset
  <2> QED
    BY <1>1, <2>3, <2>4 DEF ForgotFind
<1>2. CASE IssueToken(r)
  <2>1. pc[r] = "issue_token" /\ UNCHANGED <<userVars, mailed, zoned, cookie, inputVars, historyVars>>
        /\ token' = [token EXCEPT ![r] = [state |-> "live", of |-> on[r]]]
        /\ pc' = [pc EXCEPT ![r] = "mail"]
    BY <1>2 DEF IssueToken
  <2>2. on[r] # None /\ token'[r] = [state |-> "live", of |-> on[r]]
    BY <2>1, ExistsFacts
  <2>3. TokenEffect(r)
    BY <2>1, <2>2 DEF TokenEffect
  <2>4. InputEffect(r)
    BY <2>1 DEF InputEffect, inputVars, historyVars
  <2> QED
    BY <2>1, <2>2, <2>3, <2>4
      DEF StepEffect, UserEffect, Goes, GoesOAuth, GoesReset, inputVars
<1>3. CASE Mail(r)
  <2>1. pc[r] = "mail" /\ UNCHANGED <<userVars, token, zoned, cookie, inputVars, historyVars>>
        /\ (mailed' = mailed \cup {r} \/ UNCHANGED mailed)
        /\ \E l \in {"ok", "audit", "error"} : pc' = [pc EXCEPT ![r] = l]
    BY <1>3 DEF Mail
  <2>2. TokenEffect(r)
    BY <2>1 DEF TokenEffect, tokenVars
  <2>3. InputEffect(r)
    BY <2>1 DEF InputEffect, inputVars, historyVars
  <2> QED
    BY <2>1, <2>2, <2>3 DEF StepEffect, UserEffect, Goes, GoesOAuth, GoesReset, inputVars
<1>4. CASE TokenFind(r)
  <2>1. pc[r] = "token_find"
        /\ UNCHANGED <<userVars, tokenVars, cookie, inputVars, historyVars>>
    BY <1>4 DEF TokenFind
  <2>2. key[r] \in mailed
    BY <2>1
  <2>3. \E l \in {"token_consume", "token_expire", "error", "refused"} :
           /\ pc' = [pc EXCEPT ![r] = l]
           /\ token[key[r]].state = "consumed" => l = "refused"
           /\ l = "error" => ~zoned
           /\ l \in {"token_consume", "token_expire"} => zoned
    BY <1>4 DEF TokenFind, Goto
  <2>4. TokenEffect(r) /\ InputEffect(r)
    BY <2>1, QuietEffect DEF inputVars
  <2>5. r \in late => token[key[r]].state = "consumed"
    BY DEF Consumed
  <2> QED
    BY <2>1, <2>2, <2>3, <2>4, <2>5
      DEF StepEffect, UserEffect, Goes, GoesOAuth, GoesReset, inputVars
<1>5. CASE TokenConsume(r) \/ TokenExpire(r)
  <2>1. pc[r] \in {"token_consume", "token_expire"}
        /\ UNCHANGED <<userVars, mailed, zoned, cookie, inputVars, historyVars>>
        /\ token' = [token EXCEPT ![key[r]].state = "consumed"]
        /\ \E l \in {"reset_get", "refused"} : pc' = [pc EXCEPT ![r] = l]
    BY <1>5 DEF TokenConsume, TokenExpire, SaveConsumed
  <2>2. key[r] \in mailed /\ key[r] \in Requests
    BY <2>1
  <2>3. TokenEffect(r)
    BY <2>1, <2>2 DEF TokenEffect
  <2>4. InputEffect(r)
    BY <2>1 DEF InputEffect, inputVars, historyVars
  <2>5. token'[key[r]].state = "consumed"
    BY <2>1, <2>2 DEF Token
  <2> QED
    BY <2>1, <2>2, <2>3, <2>4, <2>5
      DEF StepEffect, UserEffect, Goes, GoesOAuth, GoesReset, inputVars
<1>6. CASE ResetGet(r)
  <2>1. pc[r] = "reset_get" /\ UNCHANGED <<tokenVars, cookie, job, email, key, historyVars>>
        /\ pc' = [pc EXCEPT ![r] = "save_password"] /\ Load(r, token[key[r]].of)
    BY <1>6 DEF ResetGet
  <2>2. token[key[r]].of \in Exists
    BY <2>1 DEF Issued
  <2>3. UserEffect(r) /\ on'[r] # None
    BY <2>1, <2>2, LoadEffect
  <2>4. TokenEffect(r) /\ InputEffect(r)
    BY <2>1, QuietEffect
  <2>5. job[r] = "reset" => key[r] \in mailed /\ token'[key[r]].state = "consumed"
    BY <2>1 DEF Consumed, tokenVars
  <2> QED
    BY <2>1, <2>3, <2>4, <2>5 DEF StepEffect, Goes, GoesOAuth, GoesReset
<1> QED
  BY <1>1, <1>2, <1>3, <1>4, <1>5, <1>6

LEMMA EditEffect ==
    ASSUME IdInv, NEW r \in Requests,
           CurrentUser(r) \/ Touch(r) \/ VerifyCurrent(r) \/ SavePassword(r)
             \/ AdminGet(r) \/ EmailCheck(r) \/ EmailSave(r) \/ StatusSave(r)
    PROVE  StepEffect(r)
<1> USE DEF LoadedLabels, EmailLabels, KeyLabels, TokenLabels, OAuthLabels, ResetLabels,
            Over, Answers, Labels, Goto, Spends, FoundLabels
<1> USE RequestFacts
<1>1. CASE CurrentUser(r)
  <2>1. pc[r] = "current_user" /\ UNCHANGED <<tokenVars, cookie, job, email, key, historyVars>>
        /\ \E l \in {"touch", "verify", "refused"} : pc' = [pc EXCEPT ![r] = l]
    BY <1>1 DEF CurrentUser
  <2>2. UserEffect(r) /\ on'[r] # None
    BY <1>1, LoadEffect DEF CurrentUser
  <2>3. TokenEffect(r) /\ InputEffect(r)
    BY <2>1, QuietEffect
  <2> QED
    BY <2>1, <2>2, <2>3 DEF StepEffect, Goes, GoesOAuth, GoesReset
<1>2. CASE VerifyCurrent(r)
  <2>1. pc[r] = "verify" /\ UNCHANGED <<tokenVars, cookie, job, email, key, historyVars>>
        /\ UNCHANGED <<userVars, on>>
        /\ \E l \in {"save_password", "refused"} : pc' = [pc EXCEPT ![r] = l]
    BY <1>2 DEF VerifyCurrent, inputVars
  <2>2. TokenEffect(r) /\ InputEffect(r)
    BY <2>1, QuietEffect
  <2>3. on[r] # None
    BY <2>1, ExistsFacts
  <2> QED
    BY <2>1, <2>2, <2>3 DEF StepEffect, UserEffect, Goes, GoesOAuth, GoesReset
<1>3. CASE AdminGet(r)
  <2>1. pc[r] = "admin_get" /\ UNCHANGED <<tokenVars, cookie, job, key, historyVars>>
        /\ \E l \in {"email_check", "save_password", "forgot_find", "status_save"} :
               /\ pc' = [pc EXCEPT ![r] = l]
               /\ l = "email_check" => job[r] = "email"
    BY <1>3 DEF AdminGet
  <2>2. PICK a \in Exists : /\ Load(r, a)
                            /\ \/ job[r] = "reset_mail" /\ email' = [email EXCEPT ![r] = account[a].email]
                               \/ job[r] # "reset_mail" /\ UNCHANGED email
    BY <1>3 DEF AdminGet
  <2>3. UserEffect(r) /\ on'[r] # None
    BY <2>2, LoadEffect
  <2>4. account[a].email \in Emails
    BY ExistsFacts DEF User
  <2>5. InputEffect(r)
    BY <2>1, <2>2, <2>4 DEF InputEffect, historyVars
  <2>6. job[r] = "email" => email'[r] = email[r]
    BY <2>2
  <2> QED
    BY <2>1, <2>3, <2>5, <2>6 DEF StepEffect, TokenEffect, tokenVars, Goes, GoesOAuth, GoesReset
<1>4. CASE EmailCheck(r)
  <2>1. pc[r] = "email_check" /\ UNCHANGED <<tokenVars, cookie, job, email, key, historyVars>>
        /\ UNCHANGED <<userVars, on>>
        /\ \E l \in {"ok", "email_save", "refused"} : pc' = [pc EXCEPT ![r] = l]
    BY <1>4 DEF EmailCheck, inputVars
  <2>2. TokenEffect(r) /\ InputEffect(r)
    BY <2>1, QuietEffect
  <2>3. on[r] # None
    BY <2>1, ExistsFacts
  <2> QED
    BY <2>1, <2>2, <2>3 DEF StepEffect, UserEffect, Goes, GoesOAuth, GoesReset
<1>5. CASE Touch(r)
  <2> DEFINE doc == copy[r]
  <2>1. pc[r] = "touch" /\ Save(r, doc, "verify", "error")
        /\ UNCHANGED <<tokenVars, cookie, job, email, key, historyVars>>
        /\ UNCHANGED on
    BY <1>5 DEF Touch, inputVars
  <2>2. ASSUME copy[r] \in User
        PROVE  /\ doc \in User /\ copy[r].identities \subseteq doc.identities
               /\ doc.password = copy[r].password
    BY <2>1, <2>2 DEF User, Accounts
  <2>3. r \in holders[on[r]] => copy[r] \in User
    BY <2>1, ExistsFacts
  <2> HIDE DEF doc
  <2>4. UserEffect(r) /\ \E l \in {"verify", "error"} : pc' = [pc EXCEPT ![r] = l]
    BY <2>1, <2>2, <2>3, SaveEffect
  <2>5. TokenEffect(r) /\ InputEffect(r)
    BY <2>1, QuietEffect
  <2>6. on[r] # None
    BY <2>1, ExistsFacts
  <2> QED
    BY <2>1, <2>4, <2>5, <2>6 DEF StepEffect, Goes, GoesOAuth, GoesReset
<1>6. CASE SavePassword(r)
  <2> DEFINE doc == [copy[r] EXCEPT !.password = r]
  <2>1. pc[r] = "save_password" /\ Save(r, doc, IF job[r] = "password" THEN "audit" ELSE "ok", "error")
        /\ UNCHANGED <<tokenVars, cookie, job, email, key, historyVars>>
        /\ UNCHANGED on
    BY <1>6 DEF SavePassword, inputVars
  <2>2. ASSUME copy[r] \in User
        PROVE  /\ doc \in User /\ copy[r].identities \subseteq doc.identities
               /\ doc.password = r
    BY <2>1, <2>2 DEF User, Accounts
  <2>3. r \in holders[on[r]] => copy[r] \in User
    BY <2>1, ExistsFacts
  <2> HIDE DEF doc
  <2>4. UserEffect(r) /\ \E l \in {"audit", "ok", "error"} :
           pc' = [pc EXCEPT ![r] = l] /\ (l = "audit" => job[r] = "password")
    BY <2>1, <2>2, <2>3, SaveEffect
  <2>5. TokenEffect(r) /\ InputEffect(r)
    BY <2>1, QuietEffect
  <2>6. on[r] # None
    BY <2>1, ExistsFacts
  <2>7. job[r] = "reset" => key[r] \in mailed /\ token'[key[r]].state = "consumed"
    BY <2>1 DEF Consumed, tokenVars
  <2> QED
    BY <2>1, <2>4, <2>5, <2>6, <2>7 DEF StepEffect, Goes, GoesOAuth, GoesReset
<1>7. CASE EmailSave(r)
  <2> DEFINE doc == [copy[r] EXCEPT !.email = email[r]]
  <2>1. pc[r] = "email_save" /\ Save(r, doc, "audit", "error")
        /\ UNCHANGED <<tokenVars, cookie, job, email, key, historyVars>>
        /\ UNCHANGED on
    BY <1>7 DEF EmailSave, inputVars
  <2>2. ASSUME copy[r] \in User
        PROVE  /\ doc \in User /\ copy[r].identities \subseteq doc.identities
               /\ doc.password = copy[r].password
    BY <2>1, <2>2 DEF User, Accounts
  <2>3. r \in holders[on[r]] => copy[r] \in User
    BY <2>1, ExistsFacts
  <2> HIDE DEF doc
  <2>4. UserEffect(r) /\ \E l \in {"audit", "error"} : pc' = [pc EXCEPT ![r] = l]
    BY <2>1, <2>2, <2>3, SaveEffect
  <2>5. TokenEffect(r) /\ InputEffect(r)
    BY <2>1, QuietEffect
  <2>6. on[r] # None
    BY <2>1, ExistsFacts
  <2> QED
    BY <2>1, <2>4, <2>5, <2>6 DEF StepEffect, Goes, GoesOAuth, GoesReset
<1>8. CASE StatusSave(r)
  <2> DEFINE doc == [copy[r] EXCEPT !.active = (job[r] = "reactivate")]
  <2>1. pc[r] = "status_save" /\ Save(r, doc, "audit", "error")
        /\ UNCHANGED <<tokenVars, cookie, job, email, key, historyVars>>
        /\ UNCHANGED on
    BY <1>8 DEF StatusSave, inputVars
  <2>2. ASSUME copy[r] \in User
        PROVE  /\ doc \in User /\ copy[r].identities \subseteq doc.identities
               /\ doc.password = copy[r].password
    BY <2>1, <2>2 DEF User, Accounts
  <2>3. r \in holders[on[r]] => copy[r] \in User
    BY <2>1, ExistsFacts
  <2> HIDE DEF doc
  <2>4. UserEffect(r) /\ \E l \in {"audit", "error"} : pc' = [pc EXCEPT ![r] = l]
    BY <2>1, <2>2, <2>3, SaveEffect
  <2>5. TokenEffect(r) /\ InputEffect(r)
    BY <2>1, QuietEffect
  <2>6. on[r] # None
    BY <2>1, ExistsFacts
  <2> QED
    BY <2>1, <2>4, <2>5, <2>6 DEF StepEffect, Goes, GoesOAuth, GoesReset
<1> QED
  BY <1>1, <1>2, <1>3, <1>4, <1>5, <1>6, <1>7, <1>8

LEMMA ContinueEffect ==
    ASSUME IdInv, NEW r \in Requests, Continue(r)
    PROVE  StepEffect(r)
  BY SignInEffect, LinkEffect, ResetEffect, EditEffect DEF Continue

---------------------------------------------------------------------------
(* The effects preserve the invariant. *)

\* Accounts stay, and so do their identities.
LEMMA AccountsGrow ==
    ASSUME IdInv, NEW r \in Requests, UserEffect(r)
    PROVE  /\ account' \in [Accounts -> User \cup {None}]
           /\ holders' \in [Accounts -> SUBSET Requests]
           /\ copy' \in [Requests -> User \cup {None}]
           /\ on' \in [Requests -> Accounts \cup {None}]
           /\ replaced' \subseteq Accounts
           /\ Exists \subseteq Exists'
           /\ \A a \in Exists : account[a].identities \subseteq account'[a].identities
<1> USE RequestFacts
<1> replaced \subseteq Accounts
  BY DEF IdInv, TypeOK
<1>1. CASE UNCHANGED <<userVars, on>>
  BY <1>1 DEF userVars, Exists
<1>2. CASE LoadsAccount(r)
  BY <1>2 DEF LoadsAccount, Load, Exists
<1>3. CASE StoresAccount(r)
  <2>0. PICK a \in Accounts, doc \in User : Stores(r, a, doc)
    BY <1>3 DEF StoresAccount
  <2>1. /\ Store(r, a, doc) /\ on' = [on EXCEPT ![r] = a]
        /\ account[a] = None \/ account[a].identities \subseteq doc.identities
    BY <2>0 DEF Stores
  <2>2. account' = [account EXCEPT ![a] = doc] /\ holders' = [holders EXCEPT ![a] = {r}]
        /\ copy' = [copy EXCEPT ![r] = doc]
    BY <2>1 DEF Store
  <2>3. replaced' \subseteq Accounts
    <3>1. account[a] # None => account[a].password \in Accounts \cup {None}
      BY DEF User
    <3> QED
      BY <2>1, <3>1 DEF Store
  <2>4. Exists \subseteq Exists'
    BY <2>2 DEF Exists
  <2>5. \A b \in Exists : account[b].identities \subseteq account'[b].identities
    BY <2>1, <2>2 DEF Exists
  <2> QED
    BY <2>1, <2>2, <2>3, <2>4, <2>5
<1> QED
  BY <1>1, <1>2, <1>3 DEF UserEffect

LEMMA EffectTypes ==
    ASSUME IdInv, NEW r \in Requests, StepEffect(r)
    PROVE  TypeOK'
<1> USE RequestFacts
<1>1. UserEffect(r) /\ TokenEffect(r) /\ InputEffect(r)
      /\ \E l \in Labels : pc' = [pc EXCEPT ![r] = l]
  BY DEF StepEffect, Goes
<1>2. token' \in [Requests -> Token] /\ mailed' \subseteq Requests
  <2>1. CASE UNCHANGED tokenVars
    BY <2>1 DEF tokenVars
  <2>2. CASE on[r] # None /\ token' = [token EXCEPT ![r] = [state |-> "live", of |-> on[r]]]
             /\ UNCHANGED mailed
    BY <2>2 DEF Token
  <2>3. CASE mailed' = mailed \cup {r} /\ UNCHANGED token
    BY <2>3
  <2>4. CASE key[r] \in mailed /\ token' = [token EXCEPT ![key[r]].state = "consumed"]
             /\ UNCHANGED mailed
    BY <2>4 DEF Token
  <2> QED
    BY <1>1, <2>1, <2>2, <2>3, <2>4 DEF TokenEffect
<1>3. pc' \in [Requests -> Labels]
  BY <1>1
<1>4. signedIn' \subseteq Identities \X Accounts
  <2>1. job[r] = "oauth" /\ pc[r] = "audit" => key[r] \in Identities /\ on[r] \in Accounts
    BY ExistsFacts DEF User
  <2> QED
    BY <1>1, <2>1 DEF InputEffect, IdInv, TypeOK
<1>5. job' \in [Requests -> {"idle"} \cup SelfJobs \cup AdminJobs] /\ late' \subseteq Requests
  BY <1>1 DEF InputEffect, IdInv, TypeOK
<1>6. cookie' \in Requests \cup {None} /\ email' \in [Requests -> Emails \cup {None}]
      /\ key' \in [Requests -> Accounts \cup Identities \cup {None}]
  BY <1>1 DEF InputEffect
<1>7. zoned' \in BOOLEAN
  BY <1>1 DEF TokenEffect
<1> QED
  BY <1>1, <1>2, <1>3, <1>4, <1>5, <1>6, <1>7, AccountsGrow DEF TypeOK

LEMMA EffectInputs ==
    ASSUME IdInv, NEW r \in Requests, StepEffect(r)
    PROVE  InputsAgree'
<1> USE RequestFacts
<1>1. InputEffect(r) /\ \E l \in Labels \ {"idle", "admin_get"} : Goes(r, l)
  BY DEF StepEffect
<1> SUFFICES ASSUME NEW q \in Requests
             PROVE  /\ pc'[q] \in EmailLabels => email'[q] \in Emails
                    /\ pc'[q] = "admin_get" /\ job'[q] = "email" => email'[q] \in Emails
                    /\ pc'[q] \in KeyLabels => key'[q] \in Identities
  BY DEF InputsAgree
<1>2. CASE q = r
  BY <1>1, <1>2 DEF Goes
<1>3. CASE q # r
  BY <1>1, <1>3 DEF Goes, InputEffect
<1> QED
  BY <1>2, <1>3

LEMMA EffectCopies ==
    ASSUME IdInv, NEW r \in Requests, StepEffect(r)
    PROVE  CopiesAgree' /\ Born'
<1> USE RequestFacts
<1>1. UserEffect(r) /\ \E l \in Labels \ {"idle", "admin_get"} : Goes(r, l)
  BY DEF StepEffect
<1>2. \A q \in Requests \ {r} : pc'[q] = pc[q] /\ on'[q] = on[q]
  BY <1>1 DEF Goes, UserEffect, userVars, LoadsAccount, Load, StoresAccount, Stores
<1>3. ASSUME NEW q \in Requests
      PROVE  /\ on'[q] # None => on'[q] \in Exists'
             /\ on'[q] # None /\ q \in holders'[on'[q]] => copy'[q] = account'[on'[q]]
  <2>1. on[q] # None => on[q] \in Exists /\ on[q] \in Accounts
    BY ExistsFacts
  <2>2. CASE UNCHANGED <<userVars, on>>
    BY <2>1, <2>2 DEF userVars, Exists
  <2>3. ASSUME NEW a \in Exists, Load(r, a)
        PROVE  /\ on'[q] # None => on'[q] \in Exists'
               /\ on'[q] # None /\ q \in holders'[on'[q]] => copy'[q] = account'[on'[q]]
    <3>1. a \in Accounts /\ account' = account /\ Exists' = Exists
      BY <2>3 DEF Load, Exists
    <3>2. CASE q = r
      BY <2>3, <3>1, <3>2 DEF Load
    <3>3. CASE q # r
      BY <2>1, <2>3, <3>1, <3>3 DEF Load
    <3> QED
      BY <3>2, <3>3
  <2>4. ASSUME NEW a \in Accounts, NEW doc \in User,
               Store(r, a, doc), on' = [on EXCEPT ![r] = a]
        PROVE  /\ on'[q] # None => on'[q] \in Exists'
               /\ on'[q] # None /\ q \in holders'[on'[q]] => copy'[q] = account'[on'[q]]
    <3>1. account' = [account EXCEPT ![a] = doc] /\ holders' = [holders EXCEPT ![a] = {r}]
          /\ copy' = [copy EXCEPT ![r] = doc]
      BY <2>4 DEF Store
    <3>2. a \in Exists' /\ Exists \subseteq Exists'
      BY <3>1 DEF Exists
    <3>3. CASE q = r
      BY <2>4, <3>1, <3>2, <3>3
    <3>4. CASE q # r
      BY <2>1, <2>4, <3>1, <3>2, <3>4
    <3> QED
      BY <3>3, <3>4
  <2> QED
    BY <1>1, <2>2, <2>3, <2>4 DEF UserEffect, LoadsAccount, StoresAccount, Stores
<1>4. \A q \in Requests : pc'[q] \in LoadedLabels => on'[q] # None
  <2>1. \A q \in Requests : pc[q] \in LoadedLabels => on[q] # None
    BY DEF IdInv, CopiesAgree
  <2> QED
    BY <1>1, <1>2, <2>1 DEF Goes
<1>5. ASSUME NEW q \in Requests, account'[q] # None
      PROVE  pc'[q] \in {"check_active"} \cup Over
  <2>1. q \in Accounts
    BY DEF Accounts
  <2>2. account[q] # None \/ (q = r /\ pc'[r] \in {"check_active"} \cup Over)
    BY <1>1, <1>5, <2>1
      DEF UserEffect, userVars, LoadsAccount, Load, StoresAccount, Stores, Store, Exists
  <2>3. CASE q # r
    BY <1>2, <2>2, <2>3
  <2>4. CASE q = r
    BY <1>1, <2>2, <2>4 DEF Goes
  <2> QED
    BY <2>3, <2>4
<1> QED
  BY <1>3, <1>4, <1>5 DEF CopiesAgree, Born

LEMMA EffectPasswords ==
    ASSUME IdInv, NEW r \in Requests, StepEffect(r)
    PROVE  PasswordsAgree'
<1> USE RequestFacts
<1>1. UserEffect(r) /\ \E l \in Labels \ {"idle", "admin_get"} : Goes(r, l)
  BY DEF StepEffect
<1>2. \A q \in Requests : pc[q] \in Over => pc'[q] \in Over
  BY <1>1 DEF Goes
<1>3. PasswordsAgree
  BY DEF IdInv
<1>4. ASSUME UNCHANGED <<account, replaced>>
      PROVE  PasswordsAgree'
  BY <1>2, <1>3, <1>4 DEF PasswordsAgree, ReplacedStaysOut, Exists
<1>5. ASSUME NEW a \in Accounts, NEW doc \in User, Stores(r, a, doc)
      PROVE  PasswordsAgree'
  <2>1. account' = [account EXCEPT ![a] = doc]
    BY <1>5 DEF Stores, Store
  <2>2. \A b \in Exists' : b # a => b \in Exists /\ account'[b] = account[b]
    BY <2>1 DEF Exists
  <2>3. account'[a] = doc
    BY <2>1
  <2>4. \/ doc.password = None
        \/ a \in Exists /\ doc.password = account[a].password
        \/ doc.password = r /\ pc[r] \notin Over /\ pc'[r] \in Over
    BY <1>5 DEF Stores
  <2>5. \/ replaced' = replaced
        \/ /\ a \in Exists /\ account[a].password # None
           /\ account[a].password # doc.password
           /\ replaced' = replaced \cup {account[a].password}
    <3>1. replaced' = replaced \cup
             (IF account[a] # None /\ account[a].password # doc.password
                THEN {account[a].password} \ {None} ELSE {})
      BY <1>5 DEF Stores, Store
    <3>2. CASE account[a] # None /\ account[a].password # doc.password
      BY <3>1, <3>2 DEF Exists
    <3>3. CASE ~(account[a] # None /\ account[a].password # doc.password)
      BY <3>1, <3>3
    <3> QED
      BY <3>2, <3>3
  <2>6. pc[r] \notin Over => r \notin replaced /\ \A b \in Exists : account[b].password # r
    BY <1>3 DEF PasswordsAgree
  <2>7. r # None
    BY ExistsFacts DEF Accounts
  <2>8. ASSUME NEW q \in Requests, q \in replaced' \/ \E b \in Exists' : account'[b].password = q
        PROVE  pc'[q] \in Over
    <3>1. q # None
      BY ExistsFacts DEF Accounts
    <3>2. q \in replaced \/ (\E b \in Exists : account[b].password = q) => pc'[q] \in Over
      BY <1>2, <1>3 DEF PasswordsAgree
    <3>3. CASE q \in replaced'
      BY <2>5, <3>2, <3>3
    <3>4. ASSUME NEW b \in Exists', account'[b].password = q
          PROVE  pc'[q] \in Over
      BY <2>2, <2>3, <2>4, <3>1, <3>2, <3>4
    <3> QED
      BY <2>8, <3>3, <3>4
  <2>9. ASSUME NEW b \in Exists', NEW c \in Exists', b # c,
               account'[b].password = account'[c].password
        PROVE  account'[b].password = None
    <3>1. \A d \in Exists : d # a /\ doc.password = account[d].password => doc.password = None
      BY <1>3, <2>4, <2>6 DEF PasswordsAgree
    <3>2. CASE b # a /\ c # a
      BY <1>3, <2>2, <2>9, <3>2 DEF PasswordsAgree
    <3>3. CASE b = a \/ c = a
      BY <2>2, <2>3, <2>9, <3>1, <3>3
    <3> QED
      BY <3>2, <3>3
  <2>10. None \notin replaced'
    BY <1>3, <2>5 DEF PasswordsAgree
  <2>11. ASSUME NEW b \in Exists'
         PROVE  account'[b].password \notin replaced'
    <3>1. \A d \in Exists : account[d].password \notin replaced
      BY <1>3 DEF PasswordsAgree, ReplacedStaysOut
    <3>2. None \notin replaced
      BY <1>3 DEF PasswordsAgree
    <3>3. CASE b = a
      BY <2>3, <2>4, <2>5, <2>6, <2>7, <3>1, <3>2, <3>3
    <3>4. CASE b # a
      <4>1. b \in Exists /\ account'[b] = account[b]
        BY <2>2, <3>4
      <4>2. a \in Exists /\ account[b].password = account[a].password =>
                account[a].password = None
        BY <1>3, <3>4, <4>1 DEF PasswordsAgree
      <4> QED
        BY <2>5, <3>1, <4>1, <4>2
    <3> QED
      BY <3>3, <3>4
  <2> QED
    BY <2>8, <2>9, <2>10, <2>11 DEF PasswordsAgree, ReplacedStaysOut
<1> QED
  BY <1>1, <1>4, <1>5 DEF UserEffect, userVars, LoadsAccount, Load, StoresAccount

LEMMA EffectIdentities ==
    ASSUME IdInv, NEW r \in Requests, StepEffect(r)
    PROVE  IdentitiesAgree'
<1> USE RequestFacts
<1>1. /\ UserEffect(r) /\ InputEffect(r)
      /\ \E l \in Labels : pc' = [pc EXCEPT ![r] = l] /\ GoesOAuth(r, l)
  BY DEF StepEffect, Goes
<1>2. IdentitiesAgree /\ job' = job
  BY <1>1 DEF IdInv, InputEffect
<1>3. /\ Exists \subseteq Exists'
      /\ \A a \in Exists : account[a].identities \subseteq account'[a].identities
  BY <1>1, AccountsGrow
<1>4. ASSUME NEW b \in Exists', NEW c \in Exists', b # c
      PROVE  account'[b].identities \cap account'[c].identities = {}
  <2>1. CASE account' = account
    BY <1>2, <1>4, <2>1 DEF IdentitiesAgree, Exists
  <2>2. ASSUME NEW a \in Accounts, NEW doc \in User, Stores(r, a, doc)
        PROVE  account'[b].identities \cap account'[c].identities = {}
    <3>1. account' = [account EXCEPT ![a] = doc]
      BY <2>2 DEF Stores, Store
    <3>2. \A d \in Exists \ {a} : account[d].identities \cap doc.identities = {}
      BY <2>2 DEF Stores, Clashes
    <3>3. \A d \in Exists' : d # a => d \in Exists /\ account'[d] = account[d]
      BY <3>1 DEF Exists
    <3>4. account'[a] = doc
      BY <3>1
    <3>5. CASE b # a /\ c # a
      BY <1>2, <1>4, <3>3, <3>5 DEF IdentitiesAgree
    <3>6. CASE b = a
      BY <1>4, <3>2, <3>3, <3>4, <3>6
    <3>7. CASE c = a
      BY <1>4, <3>2, <3>3, <3>4, <3>7
    <3> QED
      BY <3>5, <3>6, <3>7
  <2> QED
    BY <1>1, <2>1, <2>2 DEF UserEffect, userVars, LoadsAccount, Load, StoresAccount
<1>5. ASSUME NEW q \in Requests, job'[q] = "oauth"
      PROVE  /\ pc'[q] \in OAuthLabels
             /\ pc'[q] \in {"check_active", "audit"} =>
                    on'[q] # None /\ key'[q] \in account'[on'[q]].identities
  <2>1. CASE q = r
    BY <1>1, <1>2, <1>5, <2>1 DEF GoesOAuth
  <2>2. CASE q # r
    <3>1. pc'[q] = pc[q] /\ key'[q] = key[q]
      BY <1>1, <2>2 DEF InputEffect
    <3>2. on'[q] = on[q]
      BY <1>1, <2>2 DEF UserEffect, userVars, LoadsAccount, Load, StoresAccount, Stores
    <3>3. on[q] # None => on[q] \in Exists
      OBVIOUS
    <3> QED
      BY <1>2, <1>3, <1>5, <3>1, <3>2, <3>3 DEF IdentitiesAgree
  <2> QED
    BY <2>1, <2>2
<1>6. ASSUME NEW i \in Identities, NEW a \in Accounts, <<i, a>> \in signedIn'
      PROVE  a \in Exists' /\ i \in account'[a].identities
  <2>1. CASE <<i, a>> \in signedIn
    BY <1>2, <1>3, <2>1 DEF IdentitiesAgree
  <2>2. CASE <<i, a>> \notin signedIn
    <3>1. job[r] = "oauth" /\ pc[r] = "audit" /\ i = key[r] /\ a = on[r]
      BY <1>1, <1>6, <2>2 DEF InputEffect
    <3>2. a \in Exists /\ i \in account[a].identities
      BY <3>1
    <3> QED
      BY <1>3, <3>2
  <2> QED
    BY <2>1, <2>2
<1> QED
  BY <1>4, <1>5, <1>6 DEF IdentitiesAgree

LEMMA EffectTokens ==
    ASSUME IdInv, NEW r \in Requests, StepEffect(r)
    PROVE  TokensAgree'
<1> USE RequestFacts
<1>1. PICK l \in Labels : Goes(r, l) /\ GoesReset(r, l)
  BY DEF StepEffect
<1>2. UserEffect(r) /\ TokenEffect(r) /\ InputEffect(r)
  BY DEF StepEffect
<1>3. TokensAgree /\ job' = job /\ late' = late
  BY <1>2 DEF IdInv, InputEffect
<1>4. Exists \subseteq Exists' /\ None \notin Exists
  BY <1>2, AccountsGrow, ExistsFacts
<1>5. pc' = [pc EXCEPT ![r] = l] /\ \A q \in Requests : pc[q] \in Over => pc'[q] \in Over
  BY <1>1 DEF Goes
<1>6. mailed \subseteq mailed'
  BY <1>2 DEF TokenEffect, tokenVars
<1>7. ASSUME NEW t \in Requests, Issued(t)
      PROVE  Issued(t)'
  <2>1. CASE UNCHANGED token
    BY <1>4, <1>7, <2>1 DEF Issued
  <2>2. CASE on[r] # None /\ token' = [token EXCEPT ![r] = [state |-> "live", of |-> on[r]]]
    BY <1>4, <1>7, <2>2 DEF Issued
  <2>3. CASE key[r] \in mailed /\ token' = [token EXCEPT ![key[r]].state = "consumed"]
    BY <1>4, <1>7, <2>3 DEF Issued, Token
  <2> QED
    BY <1>2, <2>1, <2>2, <2>3 DEF TokenEffect, tokenVars
<1>8. ASSUME NEW t, Consumed(t)
      PROVE  t \in mailed' /\ token'[t].state = "consumed"
  <2>1. t \in mailed /\ t \in Requests /\ pc[t] \in Over
    BY <1>3, <1>8 DEF Consumed, TokensAgree
  <2>2. pc[r] = "issue_token" => t # r
    BY <2>1 DEF Over, Answers
  <2>3. CASE UNCHANGED token
    BY <1>6, <1>8, <2>3 DEF Consumed
  <2>4. CASE pc[r] = "issue_token" /\ token' = [token EXCEPT ![r] = [state |-> "live", of |-> on[r]]]
    BY <1>6, <1>8, <2>1, <2>2, <2>4 DEF Consumed
  <2>5. CASE key[r] \in mailed /\ token' = [token EXCEPT ![key[r]].state = "consumed"]
    BY <1>6, <1>8, <2>1, <2>5 DEF Consumed, Token
  <2> QED
    BY <1>2, <2>3, <2>4, <2>5 DEF TokenEffect, tokenVars
<1>9. ASSUME NEW t \in mailed'
      PROVE  Issued(t)' /\ pc'[t] \in Over
  <2>1. CASE t \in mailed
    BY <1>3, <1>5, <1>7, <2>1 DEF TokensAgree
  <2>2. CASE t \notin mailed
    <3>1. t = r /\ pc[r] = "mail" /\ pc'[r] \in Over
      BY <1>2, <1>9, <2>2 DEF TokenEffect, tokenVars
    <3> QED
      BY <1>3, <1>7, <3>1 DEF TokensAgree
  <2> QED
    BY <2>1, <2>2
<1>10. ASSUME NEW q \in Requests, pc'[q] = "mail"
       PROVE  Issued(q)'
  <2>1. CASE q = r
    <3>1. token'[r] = [state |-> "live", of |-> on[r]] /\ on[r] \in Exists
      BY <1>1, <1>5, <1>10, <2>1 DEF Goes
    <3> QED
      BY <1>4, <2>1, <3>1 DEF Issued
  <2>2. CASE q # r
    BY <1>3, <1>5, <1>7, <1>10, <2>2 DEF TokensAgree
  <2> QED
    BY <2>1, <2>2
<1>11. ASSUME NEW q \in Requests, pc'[q] \in TokenLabels
       PROVE  key'[q] \in mailed'
  <2>1. CASE q = r
    BY <1>1, <1>5, <1>6, <1>11, <2>1 DEF GoesReset
  <2>2. CASE q # r
    BY <1>2, <1>3, <1>5, <1>6, <1>11, <2>2 DEF TokensAgree, InputEffect
  <2> QED
    BY <2>1, <2>2
<1>12. ASSUME NEW q \in Requests, job'[q] = "reset"
       PROVE  /\ pc'[q] \in ResetLabels
              /\ pc'[q] \in FoundLabels => zoned
              /\ Spends(pc'[q]) =>
                    key'[q] \in mailed' /\ token'[key'[q]].state = "consumed"
  <2>1. CASE q = r
    <3>1. pc'[q] = l /\ job[r] = "reset"
      BY <1>3, <1>5, <1>12, <2>1
    <3>2. key'[r] = key[r] /\ l \in ResetLabels /\ (l \in FoundLabels => zoned)
      BY <1>1, <3>1 DEF GoesReset
    <3>3. Spends(l) =>
              key[r] \in mailed' /\ token'[key[r]].state = "consumed"
      BY <1>1, <1>6, <3>1 DEF GoesReset
    <3> QED
      BY <2>1, <3>1, <3>2, <3>3 DEF Consumed
  <2>2. CASE q # r
    <3>1. pc'[q] = pc[q] /\ key'[q] = key[q] /\ job[q] = "reset"
      BY <1>2, <1>3, <1>5, <1>12, <2>2 DEF InputEffect
    <3>2. Spends(pc[q]) =>
              key[q] \in mailed' /\ token'[key[q]].state = "consumed"
      BY <1>3, <1>8, <3>1 DEF TokensAgree
    <3> QED
      BY <1>3, <3>1, <3>2 DEF TokensAgree
  <2> QED
    BY <2>1, <2>2
<1>13. ASSUME NEW q \in late'
       PROVE  /\ job'[q] = "reset" /\ pc'[q] \in {"token_find", "refused"}
              /\ key'[q] \in mailed' /\ token'[key'[q]].state = "consumed"
  <2>1. q \in late /\ late \subseteq Requests
    BY <1>3, <1>13 DEF IdInv, TypeOK
  <2>2. /\ job'[q] = "reset" /\ pc[q] \in {"token_find", "refused"}
        /\ key[q] \in mailed' /\ token'[key[q]].state = "consumed"
    BY <1>3, <1>8, <2>1 DEF TokensAgree
  <2>3. CASE q = r
    <3>1. pc'[r] = "refused" /\ key'[r] = key[r]
      BY <1>1, <1>3, <1>5, <2>1, <2>2, <2>3 DEF GoesReset
    <3> QED
      BY <2>2, <2>3, <3>1
  <2>4. CASE q # r
    <3>1. pc'[q] = pc[q] /\ key'[q] = key[q]
      BY <1>2, <1>5, <2>1, <2>4 DEF InputEffect
    <3> QED
      BY <2>2, <3>1
  <2> QED
    BY <2>3, <2>4
<1>14. zoned' = zoned
  BY <1>2 DEF TokenEffect
<1> QED
  BY <1>9, <1>10, <1>11, <1>12, <1>13, <1>14 DEF TokensAgree, Consumed, Spends

---------------------------------------------------------------------------
(* Requests arrive, and tokens expire. *)

LEMMA AskStep ==
    ASSUME IdInv, NEW r \in Requests, NEW j \in SelfJobs \cup AdminJobs,
           NEW e \in Emails \cup {None}, NEW k \in Accounts \cup Identities \cup {None},
           NEW first \in {"register_insert", "forgot_find", "admin_get", "login_find",
                         "at_provider", "current_user", "token_find"},
           Ask(r, j, e, k, first),
           first = "register_insert" => e \in Emails,
           first = "admin_get" /\ j = "email" => e \in Emails,
           j = "oauth" => first = "at_provider",
           first = "token_find" => k \in mailed,
           j = "reset" => first = "token_find"
    PROVE  IdInv'
<1> USE RequestFacts
<1>1. /\ pc[r] = "idle" /\ UNCHANGED <<userVars, tokenVars, on, signedIn>>
      /\ job' = [job EXCEPT ![r] = j] /\ email' = [email EXCEPT ![r] = e]
      /\ key' = [key EXCEPT ![r] = k] /\ pc' = [pc EXCEPT ![r] = first]
      /\ cookie' \in Requests \cup {None}
      /\ late' = late \cup (IF j = "reset" /\ Spent(k) THEN {r} ELSE {})
  BY DEF Ask, Goto
<1>2. UNCHANGED <<account, holders, copy, replaced, token, mailed, zoned, on, signedIn>>
      /\ Exists' = Exists
  BY <1>1 DEF userVars, tokenVars, Exists
<1>3. /\ ~Spends(first) /\ first \notin FoundLabels
      /\ first \in Labels /\ first \notin Over /\ first \notin LoadedLabels /\ first # "mail"
      /\ first \notin KeyLabels /\ (first \in EmailLabels => first = "register_insert")
      /\ (first \in TokenLabels => first = "token_find")
      /\ "idle" \notin Over /\ "idle" # "check_active" /\ first # "check_active"
      /\ "at_provider" \in OAuthLabels /\ "token_find" \in ResetLabels
      /\ "idle" \notin {"token_find", "refused", "mail"} /\ "audit" \in Over
      /\ "idle" \notin TokenLabels
  BY DEF Labels, Over, Answers, LoadedLabels, KeyLabels, EmailLabels, TokenLabels, OAuthLabels,
         ResetLabels, Spends, FoundLabels
<1>4. TypeOK'
  <2>1. late' \subseteq Requests
    BY <1>1 DEF IdInv, TypeOK
  <2> QED
    BY <1>1, <1>2, <1>3, <2>1 DEF IdInv, TypeOK
<1> job \in [Requests -> {"idle"} \cup SelfJobs \cup AdminJobs]
  BY DEF IdInv, TypeOK
<1>5. CopiesAgree' /\ InputsAgree' /\ Born'
  <2>1. CopiesAgree'
    BY <1>1, <1>2, <1>3 DEF IdInv, CopiesAgree
  <2>2. InputsAgree'
    BY <1>1, <1>3 DEF IdInv, InputsAgree
  <2>3. Born'
    BY <1>1, <1>2, <1>3 DEF IdInv, Born
  <2> QED
    BY <2>1, <2>2, <2>3
<1>6. PasswordsAgree'
  BY <1>1, <1>2, <1>3 DEF IdInv, PasswordsAgree, ReplacedStaysOut
<1>7. IdentitiesAgree'
  <2>1. IdentitiesAgree
    BY DEF IdInv
  <2>2. ASSUME NEW q \in Requests, job'[q] = "oauth"
        PROVE  /\ pc'[q] \in OAuthLabels
               /\ pc'[q] \in {"check_active", "audit"} =>
                     on'[q] # None /\ key'[q] \in account'[on'[q]].identities
    <3>1. CASE q = r
      <4>1. pc'[q] = "at_provider"
        BY <1>1, <2>2, <3>1
      <4> QED
        BY <1>3, <4>1
    <3>2. CASE q # r
      BY <1>1, <1>2, <2>1, <2>2, <3>2 DEF IdentitiesAgree
    <3> QED
      BY <3>1, <3>2
  <2> QED
    BY <1>2, <2>1, <2>2 DEF IdentitiesAgree
<1>8. TokensAgree'
  <2> USE DEF TokensAgree
  <2> TokensAgree
    BY DEF IdInv
  <2>1. \A t : Issued(t)' = Issued(t) /\ Consumed(t)' = Consumed(t)
    BY <1>2 DEF Issued, Consumed
  <2>2. \A t \in mailed' : Issued(t)' /\ pc'[t] \in Over
    BY <1>1, <1>2, <1>3, <2>1
  <2>3. \A q \in Requests : pc'[q] = "mail" => Issued(q)'
    BY <1>1, <1>3, <2>1
  <2>4. \A q \in Requests : pc'[q] \in TokenLabels => key'[q] \in mailed'
    BY <1>1, <1>2, <1>3
  <2>5. ASSUME NEW q \in Requests, job'[q] = "reset"
        PROVE  /\ pc'[q] \in ResetLabels
               /\ pc'[q] \in FoundLabels => zoned
               /\ Spends(pc'[q]) =>
                     key'[q] \in mailed' /\ token'[key'[q]].state = "consumed"
    <3>1. CASE q = r
      <4>1. pc'[q] = "token_find"
        BY <1>1, <2>5, <3>1 DEF IdInv, TypeOK
      <4> QED
        BY <1>3, <4>1 DEF Spends, FoundLabels
    <3>2. CASE q # r
      <4>1. job[q] = "reset" /\ pc'[q] = pc[q] /\ key'[q] = key[q]
        BY <1>1, <2>5, <3>2
      <4> QED
        BY <1>2, <4>1 DEF Consumed
    <3> QED
      BY <3>1, <3>2
  <2>6. ASSUME NEW q \in late'
        PROVE  /\ job'[q] = "reset" /\ pc'[q] \in {"token_find", "refused"}
               /\ key'[q] \in mailed' /\ token'[key'[q]].state = "consumed"
    <3>1. CASE q \in late
      <4>1. q # r /\ q \in Requests
        BY <1>1, <1>3, <3>1 DEF IdInv, TypeOK
      <4> QED
        BY <1>1, <1>2, <3>1, <4>1 DEF Consumed
    <3>2. CASE q \notin late
      <4>1. q = r /\ j = "reset" /\ Spent(k)
        BY <1>1, <2>6, <3>2
      <4>2. PICK p \in Requests : job[p] = "reset" /\ key[p] = k /\ pc[p] = "ok"
        BY <4>1 DEF Spent
      <4>3. k \in mailed /\ token[k].state = "consumed"
        BY <4>2 DEF Consumed, Spends
      <4>4. job'[r] = "reset" /\ pc'[r] = "token_find" /\ key'[r] = k
        BY <1>1, <4>1 DEF IdInv, TypeOK
      <4> QED
        BY <1>2, <4>1, <4>3, <4>4
    <3> QED
      BY <3>1, <3>2
  <2> QED
    BY <1>2, <2>2, <2>3, <2>4, <2>5, <2>6 DEF Consumed, Spends
<1> QED
  BY <1>4, <1>5, <1>6, <1>7, <1>8 DEF IdInv

LEMMA ArriveStep ==
    ASSUME IdInv, NEW r \in Requests, Arrive(r)
    PROVE  IdInv'
<1> USE DEF SelfJobs, AdminJobs
<1>1. ASSUME NEW e \in Emails,
             \/ Ask(r, "register", e, None, "register_insert")
             \/ Ask(r, "forgot", e, None, "forgot_find")
             \/ Ask(r, "email", e, None, "admin_get")
      PROVE  IdInv'
  BY <1>1, AskStep
<1>2. ASSUME NEW e \in Emails, NEW p \in Passwords, Ask(r, "login", e, p, "login_find")
      PROVE  IdInv'
  <2>1. p \in Accounts \cup Identities \cup {None}
    <3>1. replaced \subseteq Accounts
      BY DEF IdInv, TypeOK
    <3>2. \A a \in Exists : account[a].password \in Accounts \cup {None}
      BY ExistsFacts DEF User
    <3> QED
      BY <3>1, <3>2 DEF Passwords
  <2> QED
    BY <1>2, <2>1, AskStep
<1>3. ASSUME Ask(r, "oauth", None, None, "at_provider") \/ Ask(r, "change", None, None, "current_user")
      PROVE  IdInv'
  BY <1>3, AskStep
<1>4. ASSUME NEW t \in mailed, Ask(r, "reset", None, t, "token_find")
      PROVE  IdInv'
  <2>1. t \in Accounts
    BY DEF IdInv, TypeOK, Accounts
  <2> QED
    BY <1>4, <2>1, AskStep
<1>5. ASSUME NEW j \in AdminJobs \ {"email"}, Ask(r, j, None, None, "admin_get")
      PROVE  IdInv'
  BY <1>5, AskStep
<1> QED
  BY <1>1, <1>2, <1>3, <1>4, <1>5 DEF Arrive

LEMMA ExpireStep ==
    ASSUME IdInv, NEW t \in Requests, Expire(t)
    PROVE  IdInv'
<1>1. /\ UNCHANGED <<account, holders, copy, replaced, mailed, cookie, pc, job, on, email, key,
                     signedIn, late, zoned>>
      /\ token[t].state = "live" /\ token' = [token EXCEPT ![t].state = "expired"]
      /\ Exists' = Exists
  BY DEF Expire, userVars, inputVars, historyVars, Exists
<1>2. token \in [Requests -> Token] /\ mailed \subseteq Requests
  BY DEF IdInv, TypeOK
<1>3. token' \in [Requests -> Token]
  BY <1>1, <1>2 DEF Token
<1>5. TypeOK'
  BY <1>1, <1>3 DEF IdInv, TypeOK
<1>6. CopiesAgree' /\ InputsAgree' /\ Born'
  BY <1>1 DEF IdInv, CopiesAgree, InputsAgree, Born
<1>7. PasswordsAgree' /\ IdentitiesAgree'
  BY <1>1 DEF IdInv, PasswordsAgree, ReplacedStaysOut, IdentitiesAgree
<1>8. \A q \in Requests : Consumed(key[q]) => Consumed(key[q])'
  BY <1>1, <1>2 DEF Consumed, Token
<1>9. TokensAgree'
  <2>1. TokensAgree /\ late \subseteq Requests
    BY DEF IdInv, TypeOK
  <2>0. ASSUME NEW q \in Requests, Issued(q)
        PROVE  Issued(q)'
    <3>1. token'[q].state # "absent" /\ token'[q].of = token[q].of
      BY <1>1, <1>2, <2>0 DEF Issued, Token
    <3> QED
      BY <1>1, <2>0, <3>1 DEF Issued
  <2>2. ASSUME NEW q \in mailed'
        PROVE  Issued(q)' /\ pc'[q] \in Over
    <3>1. q \in mailed /\ q \in Requests
      BY <1>1, <1>2
    <3>2. Issued(q) /\ pc[q] \in Over
      BY <2>1, <3>1 DEF TokensAgree
    <3>3. Issued(q)'
      BY <2>0, <3>1, <3>2
    <3> QED
      BY <1>1, <3>2, <3>3
  <2>3. ASSUME NEW q \in Requests, pc'[q] = "mail"
        PROVE  Issued(q)'
    <3>1. Issued(q)
      BY <1>1, <2>1, <2>3 DEF TokensAgree
    <3> QED
      BY <2>0, <3>1
  <2>4. \A q \in Requests : pc'[q] \in TokenLabels => key'[q] \in mailed'
    BY <1>1, <2>1 DEF TokensAgree
  <2>5. \A q \in Requests :
          job'[q] = "reset" => /\ pc'[q] \in ResetLabels
                               /\ pc'[q] \in FoundLabels => zoned
                               /\ Spends(pc'[q]) => Consumed(key[q])'
    BY <1>1, <1>8, <2>1 DEF TokensAgree
  <2>6. \A q \in late' :
          job'[q] = "reset" /\ pc'[q] \in {"token_find", "refused"} /\ Consumed(key[q])'
    BY <1>1, <1>8, <2>1 DEF TokensAgree
  <2> QED
    BY <1>1, <2>2, <2>3, <2>4, <2>5, <2>6 DEF TokensAgree, Spends
<1> QED
  BY <1>5, <1>6, <1>7, <1>9 DEF IdInv

---------------------------------------------------------------------------
LEMMA InitIdInv == Init => IdInv
<1> SUFFICES ASSUME Init PROVE IdInv
  OBVIOUS
<1> USE DEF Init
<1>1. Seed \in Accounts /\ None \notin Accounts
  BY DEF Accounts
<1> DEFINE doc == [email |-> SeedEmail, password |-> Seed, identities |-> {},
                   verified |-> FALSE, active |-> TRUE]
<1>2. doc \in User /\ doc # None /\ doc.password = Seed /\ doc.identities = {}
  <2>1. doc \in User
    BY <1>1 DEF User
  <2>2. doc.password = Seed /\ doc.identities = {}
    OBVIOUS
  <2> HIDE DEF doc
  <2> QED
    BY <2>1, <2>2
<1>3. account = [a \in Accounts |-> IF a = Seed THEN doc ELSE None]
  OBVIOUS
<1> HIDE DEF doc
<1>4. Exists = {Seed} /\ account[Seed] = doc
  <2>1. account[Seed] = doc /\ \A a \in Accounts : a # Seed => account[a] = None
    BY ONLY <1>1, <1>3
  <2> QED
    BY ONLY <1>1, <1>2, <2>1 DEF Exists
<1>5. "idle" \in Labels /\ "idle" \notin Over /\ "idle" \notin LoadedLabels
      /\ "idle" \notin EmailLabels /\ "idle" \notin KeyLabels /\ "idle" \notin TokenLabels
  BY DEF Labels, Over, Answers, LoadedLabels, EmailLabels, KeyLabels, TokenLabels
<1>6. TypeOK
  <2>1. account \in [Accounts -> User \cup {None}]
    BY ONLY <1>2, <1>3
  <2>2. token \in [Requests -> Token]
    BY DEF Token
  <2> QED
    BY <1>5, <2>1, <2>2 DEF TypeOK
<1>7. CopiesAgree /\ InputsAgree
  BY <1>5 DEF CopiesAgree, InputsAgree
<1>8. Born
  BY <1>1, <1>3 DEF Born, Accounts
<1>9. PasswordsAgree
  BY <1>1, <1>2, <1>4 DEF PasswordsAgree, ReplacedStaysOut
<1>10. IdentitiesAgree
  BY <1>4 DEF IdentitiesAgree
<1>11. TokensAgree
  BY <1>5 DEF TokensAgree
<1> QED
  BY <1>6, <1>7, <1>8, <1>9, <1>10, <1>11 DEF IdInv

LEMMA NextIdInv == IdInv /\ [Next]_vars => IdInv'
<1> SUFFICES ASSUME IdInv, [Next]_vars PROVE IdInv'
  OBVIOUS
<1>1. ASSUME NEW r \in Requests, Continue(r)
      PROVE  IdInv'
  BY <1>1, ContinueEffect, EffectTypes, EffectInputs, EffectCopies, EffectPasswords,
     EffectIdentities, EffectTokens DEF IdInv
<1>2. ASSUME NEW r \in Requests, Arrive(r) \/ Expire(r)
      PROVE  IdInv'
  BY <1>2, ArriveStep, ExpireStep
<1>3. CASE UNCHANGED vars
  <2>1. UNCHANGED <<account, holders, copy, replaced, token, mailed, cookie, pc, job, on, email,
                    key, signedIn, late, zoned>> /\ Exists' = Exists
    BY <1>3 DEF vars, userVars, tokenVars, inputVars, historyVars, Exists
  <2>2. TypeOK' /\ CopiesAgree' /\ InputsAgree' /\ Born'
    BY <2>1 DEF IdInv, TypeOK, CopiesAgree, InputsAgree, Born
  <2>3. PasswordsAgree' /\ IdentitiesAgree' /\ TokensAgree'
    BY <2>1 DEF IdInv, PasswordsAgree, ReplacedStaysOut, IdentitiesAgree, TokensAgree, Issued,
                Consumed, Spends
  <2> QED
    BY <2>2, <2>3 DEF IdInv
<1> QED
  BY <1>1, <1>2, <1>3 DEF Next

---------------------------------------------------------------------------
(* The theorems *)

\* The invariant: current copies, who a name and a password belong to, whose an
\* identity is, and which tokens are spent.
THEOREM IdentityInvariance == Spec => []IdInv
  BY InitIdInv, NextIdInv, PTL DEF Spec

\* Every variable keeps its type, whoever signs in or edits.
THEOREM IdentityTypeCorrect == Spec => []TypeOK
<1>1. IdInv => TypeOK
  BY DEF IdInv
<1> QED
  BY <1>1, IdentityInvariance, PTL

\* oauth_callback_login: an identity that signed somebody in stays linked to
\* that account and to no other, whatever else is saved.
THEOREM IdentityStaysCorrect == Spec => []IdentityStays
<1>1. IdInv => IdentityStays
  <2> SUFFICES ASSUME IdInv, NEW i \in Identities, NEW a \in Accounts, <<i, a>> \in signedIn
               PROVE  Linked(i) = {a}
    BY DEF IdentityStays
  <2>1. a \in Exists /\ i \in account[a].identities
    BY DEF IdInv, IdentitiesAgree
  <2>2. \A b \in Exists : i \in account[b].identities => b = a
    BY <2>1 DEF IdInv, IdentitiesAgree
  <2> QED
    BY <2>1, <2>2 DEF Linked
<1> QED
  BY <1>1, IdentityInvariance, PTL

\* The saves of a User: a password that gave way to another is never restored.
THEOREM ReplacedStaysOutCorrect == Spec => []ReplacedStaysOut
<1>1. IdInv => ReplacedStaysOut
  BY DEF IdInv, PasswordsAgree
<1> QED
  BY <1>1, IdentityInvariance, PTL

\* _consume_one_time_token: a token that has reset a password is refused to
\* whoever comes with it afterwards.  (It is where times are read with a zone
\* that a reset gets to its password.)
THEOREM TokensAreSpentCorrect == Spec => []TokensAreSpent
<1>1. IdInv => TokensAreSpent
  BY DEF IdInv, TokensAgree, TokensAreSpent
<1> QED
  BY <1>1, IdentityInvariance, PTL

\* Where times are read with a zone, reset_password_with_token does what its
\* endpoint says: a reset that is not refused has consumed its token.
THEOREM ResetConsumesCorrect == Spec => []ResetConsumesItsToken
<1>1. IdInv => ResetConsumesItsToken
  BY DEF IdInv, TokensAgree, Consumed, Spends, ResetConsumesItsToken
<1> QED
  BY <1>1, IdentityInvariance, PTL

\* Where stored times are read without a zone, no reset by token succeeds.
NoResetSucceeds == ~zoned => \A r \in Requests : job[r] = "reset" => pc[r] # "ok"

\* Where times are read without a zone, as in every configuration of the
\* repository, _consume_one_time_token never gets past the comparison of
\* expires_at, whatever else happens: no reset by token succeeds.
THEOREM NoResetWithoutZone == Spec => []NoResetSucceeds
<1>1. IdInv => NoResetSucceeds
  BY DEF IdInv, TokensAgree, FoundLabels, NoResetSucceeds
<1> QED
  BY <1>1, IdentityInvariance, PTL
=============================================================================
