------------------------- MODULE AccountsInvariant -------------------------
(***************************************************************************)
(* The inductive invariant behind the safety properties of Accounts.       *)
(***************************************************************************)
EXTENDS Accounts

\* The labels before a request has found or made its resume.
Unfocused == {"idle", "touch", "user_save", "insert", "find"}

\* The labels at which it has one.
Focused == Labels \ (Answers \cup Unfocused)

\* A resume that a request is about exists.
Targets ==
    \A r \in Requests :
        /\ pc[r] \in Unfocused => target[r] = None
        /\ pc[r] \in Focused => target[r] \in Files
        /\ target[r] \in Files => file[target[r]].state # "absent"

\* What a request was asked to do where its handler depends on it.
JobAt ==
    \A r \in Requests :
        /\ pc[r] = "touch" => job[r] \in UserJobs
        /\ pc[r] \in {"insert", "count_up"} => job[r] \in {"create", "upload"}

\* A copy that holds the stored revision is the stored document.
FileCopies ==
    \A x \in Files : \A r \in fileHolders[x] :
        target[r] = x /\ fileCopy[r] = file[x]

\* A copy of the user that holds the stored revision may lack a $inc, but
\* has the stored status.
UserCopies == \A r \in userHolders : userCopy[r].active = user.active

\* How far the parse of a resume is, whether or not its parser can still
\* save it.
BeforeStart(r) ==
    \/ pc[r] \in {"parse_get", "parse_start"}
    \/ pc[r] = "count_up" /\ job[r] = "upload"

AfterStart(r) == pc[r] \in {"parse_text", "parse_llm", "parse_fail"}

ParserStatus ==
    \A r \in Requests :
        /\ BeforeStart(r) => file[target[r]].parse = "pending"
        /\ AfterStart(r) => file[target[r]].parse = "processing"

\* A re-parse that is able to save has found a failed parse.
ReparserStatus ==
    \A r \in Requests :
        /\ pc[r] = "save" /\ job[r] = "reparse"
        /\ r \in fileHolders[target[r]]
        => file[target[r]].parse = "failed"

\* A delete that is able to save has found a live resume.
DeleterStatus ==
    \A r \in Requests :
        /\ pc[r] = "save" /\ job[r] = "delete"
        /\ r \in fileHolders[target[r]]
        => file[target[r]].state = "live"

\* The requests that have deleted resume x for its owner, counted or not yet.
Deleted(r, x) ==
    \/ <<r, x, -1>> \in counted
    \/ pc[r] = "count_down" /\ target[r] = x

OneDeleter ==
    \A x \in Files : \A r \in Requests :
        Deleted(r, x) =>
            /\ file[x].state = "deleted"
            /\ \A q \in Requests : Deleted(q, x) => q = r

\* A resume that was never inserted has no parse.
AbsentIsUnparsed ==
    \A x \in Files : file[x].state = "absent" => file[x].parse = "none"

FInv ==
    /\ Targets
    /\ FileCopies
    /\ ParserStatus
    /\ ReparserStatus
    /\ DeleterStatus
    /\ OneParser
    /\ OneDeleter
    /\ AbsentIsUnparsed

IInv == TypeOK /\ JobAt /\ UserCopies /\ FInv

---------------------------------------------------------------------------
(* Who answers for an unfinished parse. *)

\* Whoever wrote a resume last holds it until the next write.
Authors ==
    \A x \in Files : file[x].state # "absent" => author[x] \in fileHolders[x]

\* An unfinished parse was written by its parser, or over it.
ParseOwned ==
    \A x \in Files : Unfinished(x) => Interrupted(x) \/ Parsing(author[x])

ParseInv == IInv /\ Authors /\ ParseOwned
=============================================================================
