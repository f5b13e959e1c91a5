-------------------------- MODULE BackendInvariant --------------------------
(***************************************************************************)
(* The inductive invariant behind the safety properties of Backend.        *)
(***************************************************************************)
EXTENDS Backend

\* The labels at which a request has a resume, and those at which it has
\* an analysis too.
ResumeOnly == {"edit_save", "delete_save", "cascade_list", "cascade_next",
               "cascade_resume"}
AboutResume == Labels \ (Answers \cup {"idle", "visit_clear"})
AboutAnalysis == Labels \ (Answers \cup {"idle"} \cup ResumeOnly)

Focus ==
    \A r \in Requests :
        /\ pc[r] \in AboutAnalysis => ana[r] \in Analyses
        /\ pc[r] \in AboutResume => res[r] \in Resumes

\* A copy that holds the stored revision is the stored document.
ResumeCopies ==
    \A x \in Resumes : \A r \in resumeHolders[x] :
        pc[r] # "idle" /\ res[r] = x /\ resumeCopy[r] = resume[x]

\* A resume and the pages of it contain accepted writes only, and it all of
\* these but content.
WritesKept ==
    \A x \in Resumes :
        /\ resume[x].writes \subseteq accepted[x]
        /\ \A shown \in pages[x] : shown \subseteq Content(accepted[x])
        /\ accepted[x] \ Content(accepted[x]) \subseteq resume[x].writes

AnalysisCopies ==
    \A a \in Analyses : \A r \in analysisHolders[a] :
        copy[r][a] = analysis[a] /\ analysis[a].status # "absent"

\* An analysis about to be inserted is nobody else's.
Reserved ==
    \A r \in Requests :
        pc[r] \in {"create_count", "create_insert"} =>
            /\ analysis[ana[r]].status = "absent"
            /\ \A q \in Requests : ana[q] = ana[r] => q = r

\* An analysis that was never inserted was never deleted.
AbsentIsLive ==
    \A a \in Analyses : analysis[a].status = "absent" => ~analysis[a].deleted

\* A cascade works through analyses that exist.
BatchExists ==
    \A r \in Requests : \A a \in batch[r] : analysis[a].status # "absent"

\* What a request knows of its analysis whether or not its copy is current.
RunnerStatus ==
    \A r \in Requests :
        Running(r) => analysis[ana[r]].status \in {"pending", "completed", "cancelled"}

\* What it knows of the analysis while its copy is current.
Current(r) == r \in analysisHolders[ana[r]]

RunnerCurrent ==
    \A r \in Requests :
        /\ Running(r) /\ Current(r) => analysis[ana[r]].status # "cancelled"
        /\ pc[r] = "retry_save" /\ Current(r) => analysis[ana[r]].status = "failed"
        /\ pc[r] = "cancel_save" /\ Current(r) => analysis[ana[r]].status = "pending"

IInv ==
    /\ TypeOK
    /\ Focus
    /\ ResumeCopies
    /\ AnalysisCopies
    /\ Reserved
    /\ AbsentIsLive
    /\ BatchExists
    /\ RunnerStatus
    /\ RunnerCurrent
    /\ OneRunner
    /\ WritesKept

---------------------------------------------------------------------------
(* What a run has made of its analysis: the invariant behind the contents  *)
(* of the documents and behind the refinement of AnalysisLifecycle.        *)

\* What a request reports next follows from where it is: a request runs one
\* pipeline at most, and reports no start after its first bookkeeping.
GoalKnown ==
    \A r \in Requests :
        /\ pc[r] \in {"rollup_get", "rollup_save"} => goal[r] # "in_progress"
        /\ pc[r] = "fail" => goal[r] # "failed"
        /\ pc[r] \in Labels \ ({"fail", "rollup_get", "rollup_save", "note_find",
                                "note_clear", "note_insert"} \cup Answers)
             => goal[r] = "in_progress"

\* The steps of a run whose k-th step is in state s.
WorkedTo(k, s) ==
    [j \in StepKey |-> IF j < k THEN "completed" ELSE IF j = k THEN s ELSE "pending"]

\* A run that announces its start.
Announcing(r) ==
    goal[r] = "in_progress" /\ pc[r] \in {"note_find", "note_clear", "note_insert"}

\* What the document says while the copy of its runner is the stored one.
Progress(r) ==
    LET doc == analysis[ana[r]]
        At(k, s) == doc.status = "pending" /\ doc.steps = WorkedTo(k, s)
    IN  /\ pc[r] \in {"create_rollup", "begin"} => At(1, "pending")
        /\ Announcing(r) => At(1, "pending") /\ step[r] = 1
        /\ pc[r] = "step" => At(step[r], "pending")
        /\ pc[r] = "llm" => At(step[r], "in_progress")
        /\ pc[r] = "complete" => At(3, "completed")

Progressing == \A r \in Requests : Running(r) /\ Current(r) => Progress(r)

\* A run that has stored its completion finds the analysis completed until
\* it is over; before, the analysis is pending, or cancelled under it.
Verdict ==
    \A r \in Requests :
        Running(r) =>
            IF goal[r] = "completed" THEN analysis[ana[r]].status = "completed"
            ELSE analysis[ana[r]].status \in {"pending", "cancelled"}

WorkInv ==
    /\ IInv
    /\ GoalKnown
    /\ StepsInOrder
    /\ CompletedIsWhole
    /\ Progressing
    /\ Verdict

---------------------------------------------------------------------------
(* Who answers for a pending analysis, a rollup, and a bell. *)

\* An analysis whose completion the bell announces has no runner.
BellIsOver ==
    \A a \in Analyses : \A r \in Requests :
        <<r, "completed">> \in bell[a] =>
            /\ analysis[a].status = "completed"
            /\ \A q \in Requests : Running(q) => ana[q] # a

\* A request that reported the start of a run and not yet its end.
Reporting(r) ==
    \/ pc[r] \in {"begin", "step", "llm", "complete", "fail", "rollup_get", "rollup_save"}
    \/ Announcing(r)

RollupOwned ==
    \A x \in Resumes :
        resume[x].rollup = "in_progress" =>
            \E r \in Requests :
                /\ <<r, "in_progress">> \in resume[x].writes
                /\ Reporting(r) \/ pc[r] \in {"error", "lost"}
                /\ res[r] = x

OwnerInv == WorkInv /\ NoSilentAbandon /\ BellIsOver /\ RollupOwned

---------------------------------------------------------------------------
(* How far a cascade is. *)

\* The analyses a request has read or written.
Known(r) == {a \in Analyses : copy[r][a].status # "absent"}
Gone == {a \in Analyses : analysis[a].deleted}

CascadeProgress ==
    \A r \in Requests :
        /\ pc[r] \in {"idle", "edit_save", "delete_save", "cascade_list"} => Known(r) = {}
        /\ pc[r] \in {"cascade_next", "cascade_find", "cascade_clear", "cascade_resume"}
             => Known(r) \subseteq batch[r] \cup Gone
        /\ pc[r] \in {"cascade_find", "cascade_clear"} => ana[r] \in Gone
        /\ pc[r] = "cascade_resume" => batch[r] = {}

\* A request that deleted a resume has been answered.
Deleted ==
    \A x \in Resumes : \A r \in Requests :
        <<r, "delete">> \in accepted[x] => pc[r] \in Answers /\ Known(r) \subseteq Gone

CascadeInv == IInv /\ CascadeProgress /\ Deleted

---------------------------------------------------------------------------
(* How often the suggestion of an analysis is applied. *)

\* The requests that marked the suggestion of a as applied, and did not
\* fail to save the resume.
Appliers(a) ==
    {r \in Requests : /\ ana[r] = a
                      /\ \/ pc[r] = "apply_save"
                         \/ <<r, "apply">> \in accepted[ResumeOf[a]]}

\* A run whose result is not stored.
Producing(r) ==
    \/ pc[r] \in {"create_rollup", "begin", "step", "llm", "complete"}
    \/ Announcing(r)

Uses == [a \in Analyses |-> Cardinality(Appliers(a))]

\* A further applier finds a retry, or the first run, that has none.
ApplyBudget ==
    /\ \A a \in Analyses :
        /\ Uses[a] <= 1 + analysis[a].retries
        /\ CanApply(analysis[a]) => Uses[a] <= analysis[a].retries
    /\ \A r \in Requests :
        /\ Producing(r) /\ Current(r) => Uses[ana[r]] <= analysis[ana[r]].retries
        /\ pc[r] \in {"apply_resume", "apply_analysis"} /\ Current(r) =>
             CanApply(analysis[ana[r]])

\* An apply is the last write of its request, to the resume of its analysis.
ApplyLast ==
    \A r \in Requests :
        /\ pc[r] \in {"apply_resume", "apply_analysis", "apply_save"} => res[r] = ResumeOf[ana[r]]
        /\ \A x \in Resumes : <<r, "apply">> \in accepted[x] => pc[r] \in Answers

ApplyInv == WorkInv /\ ApplyLast /\ ApplyBudget
=============================================================================
