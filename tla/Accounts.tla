------------------------------ MODULE Accounts ------------------------------
(***************************************************************************)
(* One candidate's requests and the requests of admins about the candidate *)
(* served concurrently: auth/dependencies.py in front of every handler,    *)
(* users/service.py, the user and resume operations of admin/service.py,   *)
(* and ResumeIntake.                                                       *)
(***************************************************************************)
EXTENDS ResumeIntake

---------------------------------------------------------------------------
(* get_current_user *)

\* Where the handler of each operation starts.
Handler == [create |-> "insert", upload |-> "insert", reparse |-> "find",
            update |-> "find", delete |-> "find", profile |-> "user_save"]

\* User.get: an unreadable document raises, a deactivated account is a 403.
\* Five minutes may have passed since last_active_at was written.  A copy
\* that its handler never saves is not kept.
Authenticate(r) ==
    /\ pc[r] = "idle"
    /\ \E j \in UserJobs :
        /\ job' = [job EXCEPT ![r] = j]
        /\ \/ /\ ~UserReadable
              /\ Goto(r, "error")
              /\ UNCHANGED userVars
           \/ /\ UserReadable /\ ~user.active
              /\ Goto(r, "refused")
              /\ UNCHANGED userVars
           \/ /\ UserReadable /\ user.active
              /\ \/ LoadUser(r) /\ Goto(r, "touch")
                 \/ j = "profile" /\ LoadUser(r) /\ Goto(r, Handler[j])
                 \/ j # "profile" /\ UNCHANGED userVars /\ Goto(r, Handler[j])
    /\ FileUnchanged
    /\ UNCHANGED counted

\* _touch_last_active: the whole user is saved.
Touch(r) ==
    /\ pc[r] = "touch"
    /\ SaveUser(r, userCopy[r], Handler[job[r]])
    /\ FileUnchanged
    /\ UNCHANGED <<counted, job>>

---------------------------------------------------------------------------
(* Operations on the user *)

\* get_user_or_404 of an admin's request.
AdminUserFind(r) ==
    /\ pc[r] = "idle"
    /\ \E j \in AdminJobs \ {"admin_delete"} :
        /\ job' = [job EXCEPT ![r] = j]
        /\ \/ /\ ~UserReadable
              /\ Goto(r, "error")
              /\ UNCHANGED userVars
           \/ /\ UserReadable
              /\ LoadUser(r)
              /\ Goto(r, "user_save")
    /\ FileUnchanged
    /\ UNCHANGED counted

\* Names, address and password are abstracted; the status is not.
Edited(doc, j) ==
    [doc EXCEPT !.active = IF j \in {"deactivate", "reactivate"}
                           THEN j = "reactivate" ELSE @]

\* Nothing to change, or a wrong password, a weak one or an address in use.
UserUnsaved(r) ==
    /\ pc[r] = "user_save" /\ job[r] \in {"profile", "admin_update"}
    /\ \E answer \in {"ok", "refused"} : Goto(r, answer)
    /\ FileUnchanged
    /\ UNCHANGED <<userVars, counted, job>>

UserSave(r) ==
    /\ pc[r] = "user_save"
    /\ SaveUser(r, Edited(userCopy[r], job[r]), "ok")
    /\ FileUnchanged
    /\ UNCHANGED <<counted, job>>

---------------------------------------------------------------------------
(* admin_delete_resume, here without its analyses: the owner's counter is
   left alone. *)

AdminFileGet(r) ==
    /\ pc[r] = "idle"
    /\ job' = [job EXCEPT ![r] = "admin_delete"]
    /\ \E x \in Files :
        /\ file[x].state # "absent"
        /\ LoadFile(r, x)
        /\ target' = [target EXCEPT ![r] = x]
        /\ Goto(r, IF file[x].state = "deleted" THEN "ok" ELSE "save")
    /\ UNCHANGED <<userVars, counted>>

AdminFileSave(r) ==
    /\ pc[r] = "save" /\ job[r] = "admin_delete"
    /\ SaveFile(r, target[r], [fileCopy[r] EXCEPT !.state = "deleted"],
                "ok", "error")
    /\ ParseUnchanged

---------------------------------------------------------------------------
Arrive(r) == Authenticate(r) \/ AdminUserFind(r) \/ AdminFileGet(r)

Continue(r) ==
    \/ Touch(r) \/ UserUnsaved(r) \/ UserSave(r)
    \/ Insert(r) \/ CountUp(r)
    \/ ParseGet(r) \/ ParseStart(r) \/ ParseText(r) \/ ParseDone(r)
    \/ ParseError(r) \/ ParseFail(r)
    \/ Find(r) \/ ReparseSave(r) \/ ReparseGet(r) \/ UpdateSave(r)
    \/ DeleteSave(r) \/ CountDown(r)
    \/ AdminFileSave(r)

Underway(r) == pc[r] \notin Answers \cup {"idle"}

\* The process stops; nothing takes its handlers up again.
Crash ==
    /\ \E r \in Requests : Underway(r)
    /\ pc' = [r \in Requests |-> IF Underway(r) THEN "lost" ELSE pc[r]]
    /\ UNCHANGED <<userVars, fileVars, counted, job, target>>

Serve == \E r \in Requests : Arrive(r) \/ Continue(r)

Next == Serve \/ Crash

Init == AccountInit

Spec == Init /\ [][Next]_vars

---------------------------------------------------------------------------
(* Correctness *)

Labels ==
    {"idle", "touch", "user_save", "insert", "count_up", "find", "save",
     "parse_get", "parse_start", "parse_text", "parse_llm", "parse_fail",
     "reparse_get", "count_down"} \cup Answers

TypeOK ==
    /\ user \in UserDoc
    /\ userHolders \subseteq Requests
    /\ userCopy \in [Requests -> UserDoc]
    /\ file \in [Files -> FileDoc]
    /\ fileHolders \in [Files -> SUBSET Requests]
    /\ fileCopy \in [Requests -> FileDoc]
    /\ author \in [Files -> Requests \cup {None}]
    /\ counted \subseteq Requests \X Files \X {1, -1}
    /\ pc \in [Requests -> Labels]
    /\ job \in [Requests -> Jobs]
    /\ target \in [Requests -> Files \cup {None}]

\* The requests that are parsing a resume, from its insert or its reset.
Parsing(r) ==
    \/ pc[r] \in {"parse_get", "parse_start", "parse_text", "parse_llm", "parse_fail"}
    \/ pc[r] = "count_up" /\ job[r] = "upload"

\* No two requests parse the same resume (each run is a paid LLM call),
\* however re-parses race with each other and with the upload itself.
OneParser ==
    \A r, q \in Requests :
        Parsing(r) /\ Parsing(q) /\ target[r] = target[q] => r = q

Unfinished(x) == file[x].parse \in {"pending", "processing"}

\* Who may have kept a parse from being finished: a process that stopped,
\* or an edit or deletion that was saved while it ran.
Interrupted(x) ==
    LET r == author[x]
    IN  pc[r] = "lost" \/ job[r] \in {"update", "delete", "admin_delete"}

\* A parse is left unfinished only when it is running or was interrupted,
\* never because reading the file or the LLM failed.
ParseHasOwner ==
    \A x \in Files :
        Unfinished(x) =>
            Interrupted(x) \/ \E r \in Requests : Parsing(r) /\ target[r] = x

\* The parse status moves as the endpoints promise (UploadParse), whatever
\* edits, deletions and re-parses save from older copies.
Lifecycle == INSTANCE UploadParse WITH status <- [x \in Files |-> file[x].parse]
ParseFollowsLifecycle == Lifecycle!Spec

\* The resume counter is decremented at most once for a resume, and only
\* for a deleted one, even if it is deleted by several requests at once.
DeletedOnce ==
    \A x \in Files :
        LET down == {r \in Requests : <<r, x, -1>> \in counted}
        IN  Cardinality(down) <= 1 /\ (down # {} => file[x].state = "deleted")

\* A deactivated account becomes active again only by a reactivation: no
\* handler that loaded the user before the deactivation undoes it.
DeactivationSticks ==
    [][~user.active /\ user'.active =>
        \E r \in Requests : pc[r] = "user_save" /\ job[r] = "reactivate"]_vars

---------------------------------------------------------------------------
(* What comments and declarations say, and the code does not do *)

\* "resume_count: int = Field(0, ge=0)": the stored counter is never below
\* zero, where no request could load the user any more.
CounterStaysReadable == UserReadable

=============================================================================
