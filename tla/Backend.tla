------------------------------ MODULE Backend ------------------------------
(***************************************************************************)
(* The requests that read and write analyses, resumes and notifications,   *)
(* served concurrently by one event loop (or several server processes) on  *)
(* one Mongo database without multi-document transactions.                 *)
(***************************************************************************)
EXTENDS AnalysisPipeline, ResumeEdits, AdminCascade

\* The operations the clients of an instance call; all of them in general.
CONSTANT Offered

Operations == {"create", "retry", "cancel", "visit", "dismiss", "apply",
               "edit", "delete", "cascade"}

ASSUME OfferedAssumption == Offered \subseteq Operations

\* A client's request reaches its handler and makes its first query.
Arrive(r) ==
    \/ "create" \in Offered /\ CreateFind(r)
    \/ "retry" \in Offered /\ RetryFind(r)
    \/ "cancel" \in Offered /\ CancelFind(r)
    \/ "visit" \in Offered /\ VisitFind(r)
    \/ "dismiss" \in Offered /\ DismissFind(r)
    \/ "apply" \in Offered /\ ApplyFind(r)
    \/ "edit" \in Offered /\ EditFind(r)
    \/ "delete" \in Offered /\ DeleteFind(r)
    \/ "cascade" \in Offered /\ CascadeGet(r)

\* A handler makes its next database call.
Continue(r) ==
    \/ CreateCount(r) \/ CreateInsert(r) \/ CreateRollup(r)
    \/ Begin(r) \/ StepStart(r) \/ StepDone(r) \/ StepFailed(r)
    \/ Complete(r) \/ Fail(r) \/ RollupGet(r) \/ RollupSave(r)
    \/ NoteFind(r) \/ NoteClear(r) \/ NoteInsert(r) \/ VisitClear(r)
    \/ RetrySave(r) \/ CancelSave(r) \/ DismissSave(r)
    \/ ApplyResume(r) \/ ApplyAnalysis(r) \/ ApplySave(r)
    \/ EditSave(r) \/ DeleteSave(r)
    \/ CascadeList(r) \/ CascadeAnalysis(r) \/ CascadeFind(r)
    \/ CascadeClear(r) \/ CascadeResume(r)

Underway(r) == pc[r] \notin Answers \cup {"idle"}

\* The server process stops: every handler is abandoned where it is, and
\* what it wrote stays.  Nothing resumes the work at the next start.
Crash ==
    /\ \E r \in Requests : Underway(r)
    /\ pc' = [r \in Requests |-> IF Underway(r) THEN "lost" ELSE pc[r]]
    /\ UNCHANGED <<analysisVars, resumeVars, bell, requestVars>>

Serve == \E r \in Requests : Arrive(r) \/ Continue(r)

Next == Serve \/ Crash

Init == DocumentsInit

Spec == Init /\ [][Next]_vars

\* A server that keeps running: the event loop eventually takes each
\* handler to its next await, and no client is obliged to call.
RunningSpec ==
    /\ Init
    /\ [][Serve]_vars
    /\ \A r \in Requests : WF_vars(Continue(r))
---------------------------------------------------------------------------
(* Correctness *)

Labels ==
    {"idle", "create_count", "create_insert", "create_rollup", "begin", "step",
     "llm", "complete", "fail", "rollup_get", "rollup_save", "note_find",
     "note_clear", "note_insert", "visit_clear", "retry_save", "cancel_save",
     "dismiss_save", "apply_resume", "apply_analysis", "apply_save",
     "edit_save", "delete_save", "cascade_list", "cascade_next",
     "cascade_find", "cascade_clear", "cascade_resume"} \cup Answers

TypeOK ==
    /\ analysis \in [Analyses -> AnalysisDoc]
    /\ analysisHolders \in [Analyses -> SUBSET Requests]
    /\ copy \in [Requests -> [Analyses -> AnalysisDoc]]
    /\ resume \in [Resumes -> ResumeDoc]
    /\ resumeHolders \in [Resumes -> SUBSET Requests]
    /\ resumeCopy \in [Requests -> ResumeDoc]
    /\ pages \in [Resumes -> SUBSET SUBSET Writes]
    /\ accepted \in [Resumes -> SUBSET Writes]
    /\ bell \in [Analyses -> SUBSET Notes]
    /\ pc \in [Requests -> Labels]
    /\ ana \in [Requests -> Analyses \cup {None}]
    /\ res \in [Requests -> Resumes \cup {None}]
    /\ step \in [Requests -> StepKey]
    /\ goal \in [Requests -> Goals]
    /\ seen \in [Requests -> SUBSET Notes]
    /\ batch \in [Requests -> SUBSET Analyses]

\* What an edit of the content does not replace stays: no save of a rollup, a
\* name, an applied suggestion or a deletion takes away any write that the
\* store accepted before, and an edit takes away none of these but content,
\* although every save writes the whole document from a copy loaded some
\* awaits earlier.  And no save brings a deleted resume back.
LosesNoWrite ==
    \A x \in Resumes :
        /\ resume[x].writes \ resume'[x].writes \subseteq
              IF \E r \in Requests : pc[r] = "edit_save" /\ <<r, "edit">> \in accepted'[x]
                THEN Content(resume[x].writes) ELSE {}
        /\ resume[x].deleted => resume'[x].deleted
NoLostResumeWrite == [][LosesNoWrite]_vars

\* "Uses Beanie revision-based optimistic concurrency - a version conflict
\* returns 409": an edit of a version that is no longer the stored one is
\* refused, so that an edit, like the other saves, takes away no write.
EditsOfOldVersionsConflict ==
    [][\A x \in Resumes : resume[x].writes \subseteq resume'[x].writes]_vars

\* A cancelled analysis stays cancelled and a deleted one deleted, whatever
\* a pipeline, a retry or a dismissal that loaded it before writes after.
CancelledIsFinal ==
    [][\A a \in Analyses :
        /\ analysis[a].status = "cancelled" => analysis'[a].status = "cancelled"
        /\ analysis[a].deleted => analysis'[a].deleted]_vars

\* Every analysis goes through the life the endpoints promise
\* (AnalysisLifecycle), although every save writes back a status that was
\* read some awaits before.
Lifecycle == INSTANCE AnalysisLifecycle
    WITH status <- [a \in Analyses |-> analysis[a].status],
         deleted <- [a \in Analyses |-> analysis[a].deleted]
FollowsLifecycle == Lifecycle!Spec

\* The requests that are running the pipeline of a, from the insert or the
\* reset of the analysis to the save of its final status, the flip of a
\* completed analysis to failed included.
Running(r) ==
    \/ pc[r] \in {"create_rollup", "begin", "step", "llm", "complete", "fail"}
    \/ /\ goal[r] \in {"in_progress", "completed"}
       /\ pc[r] \in {"rollup_get", "rollup_save", "note_find", "note_clear",
                     "note_insert"}

\* The steps of an analysis, each a paid LLM call, are never run by two
\* requests at once, however retries of it race.
OneRunner ==
    \A r, q \in Requests :
        Running(r) /\ Running(q) /\ ana[r] = ana[q] => r = q

\* The steps of an analysis are worked off in order, also when a run was
\* retried: a step has begun only if the one before it is completed.
StepsInOrder ==
    \A a \in Analyses : \A k \in {2, 3} :
        analysis[a].steps[k] # "pending" => analysis[a].steps[k - 1] = "completed"

\* A completed analysis carries the whole result of three completed steps.
CompletedIsWhole ==
    \A a \in Analyses :
        analysis[a].status = "completed" =>
            /\ analysis[a].result = "full"
            /\ \A k \in StepKey : analysis[a].steps[k] = "completed"

\* An analysis is left pending, and so counts against its user's budget,
\* only while a request runs it or after a request about it was answered
\* with a server error or lost; never behind a success or a refusal.
NoSilentAbandon ==
    \A a \in Active :
        \E r \in Requests : /\ ana[r] = a
                            /\ Running(r) \/ pc[r] \in {"error", "lost"}

\* The same of the resume's rollup: it says "in progress" only while a
\* request about the resume is underway or after one ended in an error.
RollupHasOwner ==
    \A x \in Resumes :
        resume[x].rollup = "in_progress" =>
            \E r \in Requests :
                /\ <<r, "in_progress">> \in resume[x].writes
                /\ Underway(r) \/ pc[r] \in {"error", "lost"}

\* The bell announces a completion only of an analysis that is completed,
\* not of one cancelled or failed while the announcement was being written.
CompletionBellIsTrue ==
    \A a \in Analyses : \A r \in Requests :
        <<r, "completed">> \in bell[a] => analysis[a].status = "completed"

\* One run's suggestion reaches the resume at most once, however many
\* requests apply it at the same time.
AppliedOncePerRun ==
    \A a \in Analyses :
        Cardinality({r \in Requests : /\ ana[r] = a
                                      /\ <<r, "apply">> \in accepted[ResumeOf[a]]})
            <= 1 + analysis[a].retries

\* A cascade deletes the resume last: when it has, every analysis it found
\* is deleted, so a cascade that stopped half-way can be run again.
CascadeInOrder ==
    \A x \in Resumes : \A r \in Requests :
        <<r, "delete">> \in accepted[x] =>
            \A a \in Analyses : copy[r][a].status # "absent" => analysis[a].deleted

\* While the server keeps running, a pending analysis reaches a final
\* status, or a request about it is answered with a server error.
PipelineSettles ==
    \A a \in Analyses :
        analysis[a].status = "pending" ~>
            \/ analysis[a].status # "pending"
            \/ \E r \in Requests : ana[r] = a /\ pc[r] = "error"

\* While the server keeps running, an "in progress" bell goes away or the
\* request that rang it is answered with a server error.
ProgressBellSettles ==
    \A a \in Analyses : \A r \in Requests :
        <<r, "in_progress">> \in bell[a] ~>
            <<r, "in_progress">> \notin bell[a] \/ pc[r] = "error"
=============================================================================
