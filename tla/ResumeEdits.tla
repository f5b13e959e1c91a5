---------------------------- MODULE ResumeEdits ----------------------------
(***************************************************************************)
(* A user's own writes to a resume: update_resume and delete_resume of     *)
(* resumes/service.py.  Each loads the live document, changes the copy and *)
(* saves it; neither handles RevisionIdWasChanged, so a version conflict   *)
(* is an unhandled exception.                                              *)
(***************************************************************************)
EXTENDS Documents

\* Resume.find_one for a live resume; a deleted one is a 404.
ResumeFind(r, next) ==
    /\ pc[r] = "idle"
    /\ \E x \in Resumes :
        /\ res' = [res EXCEPT ![r] = x]
        /\ \/ /\ resume[x].deleted
              /\ Goto(r, "refused")
              /\ UNCHANGED resumeVars
           \/ /\ ~resume[x].deleted
              /\ LoadResume(r, x)
              /\ Goto(r, next)
    /\ UNCHANGED <<analysisVars, bell, ana, step, goal, seen, batch>>

EditFind(r) == ResumeFind(r, "edit_save")
DeleteFind(r) == ResumeFind(r, "delete_save")

\* The document with the json_resume of a PATCH in place of its own.
Replaced(doc, shown) == [doc EXCEPT !.writes = (@ \ Content(@)) \cup shown]

\* The PATCH carries no revision: its json_resume is the user's edit of what
\* the page showed when it was loaded, and takes the place of whatever is
\* stored by now.  A PATCH of the name alone leaves it; a name that another
\* resume has is a DuplicateKeyError, answered 409.  (Any content a page may
\* show is there at the find: a save that is accepted has nothing before it.)
EditSave(r) ==
    /\ pc[r] = "edit_save"
    /\ \/ \E shown \in pages[res[r]] :
            SaveResume(r, res[r], Replaced(resumeCopy[r], shown), "edit", "ok", "error")
       \/ SaveResume(r, res[r], resumeCopy[r], "rename", "ok", "error")
       \/ Goto(r, "conflict") /\ UNCHANGED resumeVars
    /\ UNCHANGED <<analysisVars, bell, requestVars>>

DeleteSave(r) ==
    /\ pc[r] = "delete_save"
    /\ SaveResume(r, res[r], [resumeCopy[r] EXCEPT !.deleted = TRUE],
                  "delete", "ok", "error")
    /\ UNCHANGED <<analysisVars, bell, requestVars>>
=============================================================================
