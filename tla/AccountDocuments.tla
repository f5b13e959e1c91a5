-------------------------- MODULE AccountDocuments --------------------------
(***************************************************************************)
(* The account of one candidate and the resumes it owns, as Mongo holds    *)
(* them.  User and Resume documents carry a revision, so save() behaves as *)
(* in Documents: the whole document from a copy loaded earlier, refused    *)
(* when another save came in between.  A $inc is a raw update: it changes  *)
(* the stored counter and leaves the revision, and so every copy that is   *)
(* about to be saved, as it was.                                           *)
(***************************************************************************)
EXTENDS Integers, FiniteSets

CONSTANTS
    Requests,      \* the HTTP requests of this run, each answered once
    Files,         \* the resume ids that inserts may generate
    None           \* no request, or no resume

ASSUME NoneAssumption == None \notin Requests /\ None \notin Files

VARIABLES
    user,          \* the stored User
    userHolders,   \* the requests whose copy has its stored revision
    userCopy,      \* the User a request has in memory
    file,          \* the resumes collection
    fileHolders,
    fileCopy,      \* the one resume a request has in memory
    author,        \* history: the request whose write of a resume was last
    counted,       \* history: the $inc of the user's resume_count
    pc,            \* where each request is, or how it was answered
    job,           \* what the request was asked to do
    target         \* the resume it is about

userVars == <<user, userHolders, userCopy>>
fileVars == <<file, fileHolders, fileCopy, author>>
vars == <<userVars, fileVars, counted, pc, job, target>>

---------------------------------------------------------------------------
\* count is resume_count, active whether the status is not DEACTIVATED.
UserDoc == [count : Int, active : BOOLEAN]

\* resume_count is declared ge=0: a document below it cannot be loaded.
UserReadable == user.count >= 0

\* "none" for a resume made with the form, else upload_parse.status.
ParseStatus == {"none", "pending", "processing", "completed", "failed"}
FileDoc == [state : {"absent", "live", "deleted"}, parse : ParseStatus]
NoFile == [state |-> "absent", parse |-> "none"]

UserJobs == {"create", "upload", "reparse", "update", "delete", "profile"}
AdminJobs == {"admin_update", "deactivate", "reactivate", "admin_delete"}
Jobs == UserJobs \cup AdminJobs

\* ok: 2xx; refused: 403, 404, 409 or 422; error: an unhandled exception,
\* 500; lost: the process stopped.
Answers == {"ok", "refused", "error", "lost"}

Goto(r, label) == pc' = [pc EXCEPT ![r] = label]

---------------------------------------------------------------------------
LoadUser(r) ==
    /\ userCopy' = [userCopy EXCEPT ![r] = user]
    /\ userHolders' = userHolders \cup {r}
    /\ UNCHANGED user

StoreUser(r, doc) ==
    /\ user' = doc
    /\ userHolders' = {r}
    /\ userCopy' = [userCopy EXCEPT ![r] = doc]

\* Mutant of SaveUser: the save ignores the revision.
SaveUserUnchecked(r, doc, saved) == StoreUser(r, doc) /\ Goto(r, saved)

\* User.save(); nobody handles RevisionIdWasChanged.
SaveUser(r, doc, saved) ==
    \/ /\ r \in userHolders
       /\ StoreUser(r, doc)
       /\ Goto(r, saved)
    \/ /\ r \notin userHolders
       /\ UNCHANGED userVars
       /\ Goto(r, "error")

\* User.find({"_id": user_id}).inc({"resume_count": n}), for resume x.
IncResumeCount(r, x, n) ==
    /\ user' = [user EXCEPT !.count = @ + n]
    /\ counted' = counted \cup {<<r, x, n>>}
    /\ UNCHANGED <<userHolders, userCopy>>

LoadFile(r, x) ==
    /\ fileCopy' = [fileCopy EXCEPT ![r] = file[x]]
    /\ fileHolders' = [fileHolders EXCEPT ![x] = @ \cup {r}]
    /\ UNCHANGED <<file, author>>

StoreFile(r, x, doc) ==
    /\ file' = [file EXCEPT ![x] = doc]
    /\ fileHolders' = [fileHolders EXCEPT ![x] = {r}]
    /\ fileCopy' = [fileCopy EXCEPT ![r] = doc]
    /\ author' = [author EXCEPT ![x] = r]

\* Mutant of SaveFile: the save ignores the revision.
SaveFileUnchecked(r, x, doc, saved, raised) ==
    StoreFile(r, x, doc) /\ Goto(r, saved)

\* Resume.save(): RevisionIdWasChanged takes the handler to `raised`.
SaveFile(r, x, doc, saved, raised) ==
    \/ /\ r \in fileHolders[x]
       /\ StoreFile(r, x, doc)
       /\ Goto(r, saved)
    \/ /\ r \notin fileHolders[x]
       /\ UNCHANGED fileVars
       /\ Goto(r, raised)

\* An insert or a rename may find the name taken by any other live resume
\* of the user: the unique index ignores case, so even an upload whose name
\* was made different from the names listed before may collide.
NameTaken(x) == \E y \in Files \ {x} : file[y].state = "live"

AccountInit ==
    /\ user = [count |-> 0, active |-> TRUE]
    /\ userHolders = {}
    /\ userCopy = [r \in Requests |-> [count |-> 0, active |-> TRUE]]
    /\ file = [x \in Files |-> NoFile]
    /\ fileHolders = [x \in Files |-> {}]
    /\ fileCopy = [r \in Requests |-> NoFile]
    /\ author = [x \in Files |-> None]
    /\ counted = {}
    /\ pc = [r \in Requests |-> "idle"]
    /\ job = [r \in Requests |-> "profile"]
    /\ target = [r \in Requests |-> None]
=============================================================================
