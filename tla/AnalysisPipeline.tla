-------------------------- MODULE AnalysisPipeline --------------------------
(***************************************************************************)
(* Analyses: analyses/service.py and the endpoints that drive it.  A POST  *)
(* creates an analysis and runs its three steps before it answers; a retry *)
(* resets a failed analysis and runs them again.  The status stays         *)
(* "pending" while the steps run, so another request may cancel it.        *)
(***************************************************************************)
EXTENDS Notifications

CONSTANT MaxConcurrent  \* settings.max_concurrent_analyses_per_user

ASSUME MaxConcurrentAssumption == MaxConcurrent \in Nat

\* The analyses that count toward the budget; soft-deleted ones do too.
Active == {a \in Analyses : analysis[a].status = "pending"}

---------------------------------------------------------------------------
(* create_analysis *)

\* The resume is found first (404 otherwise).  The id of the analysis to be
\* inserted is fresh, so no other request is about it.
CreateFind(r) ==
    /\ pc[r] = "idle"
    /\ \E a \in Analyses :
        /\ analysis[a].status = "absent"
        /\ \A q \in Requests : ana[q] # a
        /\ ana' = [ana EXCEPT ![r] = a]
        /\ res' = [res EXCEPT ![r] = ResumeOf[a]]
        /\ \/ /\ resume[ResumeOf[a]].deleted
              /\ Goto(r, "refused")
              /\ UNCHANGED resumeVars
           \/ /\ ~resume[ResumeOf[a]].deleted
              /\ LoadResume(r, ResumeOf[a])
              /\ Goto(r, "create_count")
    /\ UNCHANGED <<analysisVars, bell, step, goal, seen, batch>>

\* The cost guard: 429 when the count of active analyses is at the limit.
CreateCount(r) ==
    /\ pc[r] = "create_count"
    /\ Goto(r, IF Cardinality(Active) >= MaxConcurrent
               THEN "refused" ELSE "create_insert")
    /\ UNCHANGED <<analysisVars, resumeVars, bell, requestVars>>

CreateInsert(r) ==
    /\ pc[r] = "create_insert"
    /\ StoreAnalysis(r, ana[r], [Absent EXCEPT !.status = "pending"])
    /\ Goto(r, "create_rollup")
    /\ UNCHANGED <<resumeVars, bell, requestVars>>

\* resume.save() of the copy loaded by CreateFind, two awaits earlier.
CreateRollup(r) ==
    /\ pc[r] = "create_rollup"
    /\ SaveResume(r, res[r], [resumeCopy[r] EXCEPT !.rollup = "in_progress"],
                  "in_progress", "begin", "error")
    /\ UNCHANGED <<analysisVars, bell, requestVars>>

---------------------------------------------------------------------------
(* run_full_pipeline and the three run_step functions *)

WithStep(doc, k, s) == [doc EXCEPT !.steps[k] = s]

\* started_at is saved, outside any try.
Begin(r) ==
    /\ pc[r] = "begin"
    /\ SaveAnalysis(r, ana[r], copy[r][ana[r]], "note_find", "error")
    /\ goal' = [goal EXCEPT ![r] = "in_progress"]
    /\ step' = [step EXCEPT ![r] = 1]
    /\ UNCHANGED <<resumeVars, bell, ana, res, seen, batch>>

\* The step is saved as in progress, and the LLM is called.
StepStart(r) ==
    /\ pc[r] = "step"
    /\ SaveAnalysis(r, ana[r], WithStep(copy[r][ana[r]], step[r], "in_progress"),
                    "llm", "fail")
    /\ UNCHANGED <<resumeVars, bell, requestVars>>

\* The LLM answered.  A conflict of this save takes the step to its own
\* except block, whose save of the same copy conflicts as well.
StepDone(r) ==
    /\ pc[r] = "llm"
    /\ SaveAnalysis(r, ana[r], WithStep(copy[r][ana[r]], step[r], "completed"),
                    IF step[r] = 3 THEN "complete" ELSE "step", "fail")
    /\ step' = IF pc'[r] = "step" THEN [step EXCEPT ![r] = @ + 1] ELSE step
    /\ UNCHANGED <<resumeVars, bell, ana, res, goal, seen, batch>>

\* Mutant of StepFailed: the error is not re-raised.
StepFailedSwallowed(r) ==
    /\ pc[r] = "llm"
    /\ SaveAnalysis(r, ana[r], WithStep(copy[r][ana[r]], step[r], "failed"),
                    "complete", "fail")
    /\ UNCHANGED <<resumeVars, bell, requestVars>>

\* The LLM call raised: the step is saved as failed and the error re-raised.
StepFailed(r) ==
    /\ pc[r] = "llm"
    /\ SaveAnalysis(r, ana[r], WithStep(copy[r][ana[r]], step[r], "failed"),
                    "fail", "fail")
    /\ UNCHANGED <<resumeVars, bell, requestVars>>

\* Mutant of Complete: a conflict of the save goes unnoticed.
CompleteRegardless(r) ==
    /\ pc[r] = "complete"
    /\ SaveAnalysis(r, ana[r],
                    [copy[r][ana[r]] EXCEPT !.status = "completed",
                                            !.result = "full",
                                            !.applied = FALSE],
                    "rollup_get", "rollup_get")
    /\ goal' = [goal EXCEPT ![r] = "completed"]
    /\ UNCHANGED <<resumeVars, bell, ana, res, step, seen, batch>>

\* All three steps returned: result and status are saved together.
Complete(r) ==
    /\ pc[r] = "complete"
    /\ SaveAnalysis(r, ana[r],
                    [copy[r][ana[r]] EXCEPT !.status = "completed",
                                            !.result = "full",
                                            !.applied = FALSE],
                    "rollup_get", "fail")
    /\ goal' = IF pc'[r] = "rollup_get"
               THEN [goal EXCEPT ![r] = "completed"] ELSE goal
    /\ UNCHANGED <<resumeVars, bell, ana, res, step, seen, batch>>

\* Mutant of Fail: the failed status is never saved.
FailUnsaved(r) ==
    /\ pc[r] = "fail"
    /\ Goto(r, "rollup_get")
    /\ goal' = [goal EXCEPT ![r] = "failed"]
    /\ UNCHANGED <<analysisVars, resumeVars, bell, ana, res, step, seen, batch>>

\* The except block of run_full_pipeline.  `result` is not None once step 1
\* returned; after Complete it is the full result.  An exception of its
\* own save leaves the handler.
Fail(r) ==
    LET doc    == copy[r][ana[r]]
        result == IF goal[r] = "completed" THEN "full"
                  ELSE IF step[r] > 1 THEN "partial" ELSE doc.result
    IN  /\ pc[r] = "fail"
        /\ SaveAnalysis(r, ana[r],
                        [doc EXCEPT !.status = "failed",
                                    !.result = result,
                                    !.applied = @ /\ result = "full"],
                        "rollup_get", "error")
        /\ goal' = [goal EXCEPT ![r] = "failed"]
        /\ UNCHANGED <<resumeVars, bell, ana, res, step, seen, batch>>

\* _update_resume_rollup: Resume.get does not filter deleted resumes.
RollupGet(r) ==
    /\ pc[r] = "rollup_get"
    /\ LoadResume(r, res[r])
    /\ Goto(r, "rollup_save")
    /\ UNCHANGED <<analysisVars, bell, requestVars>>

\* Mutant of RollupSave: the status of the rollup is not assigned.
RollupSaveCountOnly(r) ==
    /\ pc[r] = "rollup_save"
    /\ SaveResume(r, res[r], resumeCopy[r], goal[r],
                  "note_find", IF goal[r] = "completed" THEN "fail" ELSE "error")
    /\ UNCHANGED <<analysisVars, bell, requestVars>>

\* Mutant of RollupSave: the notification that follows is forgotten.
RollupSaveSilent(r) ==
    /\ pc[r] = "rollup_save"
    /\ SaveResume(r, res[r], [resumeCopy[r] EXCEPT !.rollup = goal[r]], goal[r],
                  "ok", IF goal[r] = "completed" THEN "fail" ELSE "error")
    /\ UNCHANGED <<analysisVars, bell, requestVars>>

\* After a completion the rollup is still inside the try, so its conflict
\* goes to Fail; in the except block it leaves the handler.
RollupSave(r) ==
    /\ pc[r] = "rollup_save"
    /\ SaveResume(r, res[r], [resumeCopy[r] EXCEPT !.rollup = goal[r]], goal[r],
                  "note_find", IF goal[r] = "completed" THEN "fail" ELSE "error")
    /\ UNCHANGED <<analysisVars, bell, requestVars>>

---------------------------------------------------------------------------
(* retry_analysis, cancel_analysis, dismiss_suggestion, apply_suggestion *)

\* Analysis.find_one for a live analysis, which must be one of the `eligible`
\* (422 otherwise).  Loading a document out of bounds raises.
AnalysisFind(r, eligible, next) ==
    /\ pc[r] = "idle"
    /\ \E a \in Analyses :
        /\ Live(a)
        /\ ana' = [ana EXCEPT ![r] = a]
        /\ res' = [res EXCEPT ![r] = ResumeOf[a]]
        /\ \/ /\ ~Readable(a)
              /\ Goto(r, "error")
              /\ UNCHANGED analysisVars
           \/ /\ Readable(a)
              /\ a \notin eligible
              /\ Goto(r, "refused")
              /\ UNCHANGED analysisVars
           \/ /\ Readable(a)
              /\ a \in eligible
              /\ LoadAnalysis(r, a)
              /\ Goto(r, next)
    /\ UNCHANGED <<resumeVars, bell, step, goal, seen, batch>>

\* Mutant of IsFailed: any analysis may be retried.
IsAnything(doc) == TRUE

IsFailed(doc) == doc.status = "failed"
IsPending(doc) == doc.status = "pending"
HasSuggestion(doc) == doc.result = "full"

\* Mutant of CanApply: an applied suggestion may be applied again.
CanApplyAgain(doc) == doc.result = "full"

CanApply(doc) == doc.result = "full" /\ ~doc.applied

RetryFind(r) ==
    AnalysisFind(r, {a \in Analyses : IsFailed(analysis[a])}, "retry_save")
CancelFind(r) ==
    AnalysisFind(r, {a \in Analyses : IsPending(analysis[a])}, "cancel_save")
DismissFind(r) ==
    AnalysisFind(r, {a \in Analyses : HasSuggestion(analysis[a])}, "dismiss_save")
ApplyFind(r) ==
    AnalysisFind(r, {a \in Analyses : CanApply(analysis[a])}, "apply_resume")

\* Mutant of Reset: the steps are not reset.
ResetStatusOnly(doc) == [doc EXCEPT !.status = "pending",
                                    !.retries = @ + 1]

\* The reset document; the result of the failed run is kept.
Reset(doc) == [doc EXCEPT !.status = "pending",
                          !.steps = FreshSteps,
                          !.retries = @ + 1]

\* save() parses what it stored: a retry_count over the bound is written
\* and then raises.
RetrySave(r) ==
    LET doc == Reset(copy[r][ana[r]])
    IN  /\ pc[r] = "retry_save"
        /\ SaveAnalysis(r, ana[r], doc,
                        IF doc.retries > RetryLimit THEN "error" ELSE "begin",
                        "error")
        /\ UNCHANGED <<resumeVars, bell, requestVars>>

\* Only the analysis changes: neither the resume's rollup nor the bell.
CancelSave(r) ==
    /\ pc[r] = "cancel_save"
    /\ SaveAnalysis(r, ana[r], [copy[r][ana[r]] EXCEPT !.status = "cancelled"],
                    "ok", "error")
    /\ UNCHANGED <<resumeVars, bell, requestVars>>

\* The dismissed flag is abstracted; the write and its revision are not.
DismissSave(r) ==
    /\ pc[r] = "dismiss_save"
    /\ SaveAnalysis(r, ana[r], copy[r][ana[r]], "ok", "error")
    /\ UNCHANGED <<resumeVars, bell, requestVars>>

\* The live resume of the analysis (410 when deleted).  A field_ref of the
\* LLM's that the resume does not have raises ValueError.
ApplyResume(r) ==
    /\ pc[r] = "apply_resume"
    /\ \/ /\ resume[res[r]].deleted
          /\ Goto(r, "refused")
          /\ UNCHANGED resumeVars
       \/ /\ ~resume[res[r]].deleted
          /\ LoadResume(r, res[r])
          /\ \E valid \in BOOLEAN : Goto(r, IF valid THEN "apply_analysis" ELSE "error")
    /\ UNCHANGED <<analysisVars, bell, requestVars>>

\* The analysis is saved first, with the suggestion marked applied ...
ApplyAnalysis(r) ==
    /\ pc[r] = "apply_analysis"
    /\ SaveAnalysis(r, ana[r], [copy[r][ana[r]] EXCEPT !.applied = TRUE],
                    "apply_save", "error")
    /\ UNCHANGED <<resumeVars, bell, requestVars>>

\* ... then the resume; any exception of this save is answered with 409.
ApplySave(r) ==
    /\ pc[r] = "apply_save"
    /\ SaveResume(r, res[r], resumeCopy[r], "apply", "ok", "conflict")
    /\ UNCHANGED <<analysisVars, bell, requestVars>>
=============================================================================
