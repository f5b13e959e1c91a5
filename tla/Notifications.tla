--------------------------- MODULE Notifications ---------------------------
(***************************************************************************)
(* The bell: notifications/service.py.  create_notification looks for the  *)
(* ACTIVE notification of the analysis, clears it, and inserts the new     *)
(* one; visiting the analysis or dismissing the entry clears it.  All      *)
(* saves are unconditional.                                                *)
(***************************************************************************)
EXTENDS Documents

\* Where the pipeline continues once its notification is inserted, and
\* where the DuplicateKeyError of the insert takes it: the start
\* notification is outside the pipeline's try, the completion notification
\* is inside it, the failure notification is in its except block.
AfterNote == [in_progress |-> "step", completed |-> "ok", failed |-> "ok"]
NoteRaised == [in_progress |-> "error", completed |-> "fail", failed |-> "error"]

NoteUnchanged == UNCHANGED <<analysisVars, resumeVars>>

\* Notification.find_one for the ACTIVE one of the analysis.
NoteFind(r) ==
    /\ pc[r] = "note_find"
    /\ seen' = [seen EXCEPT ![r] = bell[ana[r]]]
    /\ Goto(r, IF bell[ana[r]] = {} THEN "note_insert" ELSE "note_clear")
    /\ NoteUnchanged
    /\ UNCHANGED <<bell, ana, res, step, goal, batch>>

\* existing.save() with state CLEARED: no revision, so it always succeeds.
NoteClear(r) ==
    /\ pc[r] = "note_clear"
    /\ bell' = [bell EXCEPT ![ana[r]] = @ \ seen[r]]
    /\ Goto(r, "note_insert")
    /\ NoteUnchanged
    /\ UNCHANGED requestVars

\* notification.insert(): the unique partial index on the ACTIVE
\* notifications of the analysis refuses a second one.
NoteInsert(r) ==
    /\ pc[r] = "note_insert"
    /\ \/ /\ bell[ana[r]] = {}
          /\ bell' = [bell EXCEPT ![ana[r]] = {<<r, goal[r]>>}]
          /\ Goto(r, AfterNote[goal[r]])
       \/ /\ bell[ana[r]] # {}
          /\ Goto(r, NoteRaised[goal[r]])
          /\ UNCHANGED bell
    /\ NoteUnchanged
    /\ UNCHANGED requestVars

\* GET /analyses/{id}: reads the analysis, then auto_clear_for_analysis
\* finds its ACTIVE notification.  POST /notifications/{id}/clear reaches
\* the same save from the notification's id.
VisitFind(r) ==
    /\ pc[r] = "idle"
    /\ \E a \in Analyses :
        /\ Live(a)
        /\ ana' = [ana EXCEPT ![r] = a]
        /\ \/ /\ ~Readable(a)
              /\ Goto(r, "error")
              /\ UNCHANGED seen
           \/ /\ Readable(a)
              /\ seen' = [seen EXCEPT ![r] = bell[a]]
              /\ Goto(r, IF bell[a] = {} THEN "ok" ELSE "visit_clear")
    /\ NoteUnchanged
    /\ UNCHANGED <<bell, res, step, goal, batch>>

VisitClear(r) ==
    /\ pc[r] = "visit_clear"
    /\ bell' = [bell EXCEPT ![ana[r]] = @ \ seen[r]]
    /\ Goto(r, "ok")
    /\ NoteUnchanged
    /\ UNCHANGED requestVars
=============================================================================
