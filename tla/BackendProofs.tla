--------------------------- MODULE BackendProofs ---------------------------
(***************************************************************************)
(* Safety of Backend, for any number of requests, analyses and resumes:    *)
(* types, the lost writes that revisions prevent, the contents and the     *)
(* lifecycle of an analysis, who answers for what is unfinished, the order *)
(* of a cascade, and how often a suggestion is applied.                    *)
(*                                                                         *)
(* Every action is reduced to what it does to the resumes (ResumeEffect)   *)
(* and to the analyses (AnalysisEffect); the invariants are proved from    *)
(* these effects, not action by action.  Those of BackendInvariant are     *)
(* layers above IInv.                                                      *)
(***************************************************************************)
EXTENDS BackendInvariant, FiniteSetTheorems, TLAPS

USE NoneAssumption, ResumeOfAssumption, RetryLimitAssumption

---------------------------------------------------------------------------
(* What a step may assume and must show of the types. *)

\* The documents that the handlers build are documents.
LEMMA FreshStepsType == FreshSteps \in [StepKey -> StepStatus]
  BY DEF FreshSteps, StepStatus

LEMMA AbsentType == Absent \in AnalysisDoc
  BY FreshStepsType DEF Absent, AnalysisDoc, AnalysisStatus, ResultState

LEMMA SaveAnalysisType ==
    ASSUME TypeOK, NEW r \in Requests, NEW a \in Analyses, NEW doc \in AnalysisDoc,
           NEW saved \in Labels, NEW raised \in Labels,
           SaveAnalysis(r, a, doc, saved, raised)
    PROVE  /\ analysis' \in [Analyses -> AnalysisDoc]
           /\ analysisHolders' \in [Analyses -> SUBSET Requests]
           /\ copy' \in [Requests -> [Analyses -> AnalysisDoc]]
           /\ pc' \in [Requests -> Labels]
<1>1. CASE StoreAnalysis(r, a, doc) /\ Goto(r, saved)
  <2>1. copy[r] \in [Analyses -> AnalysisDoc]
    BY DEF TypeOK
  <2>2. copy' = [copy EXCEPT ![r] = [copy[r] EXCEPT ![a] = doc]]
    BY <1>1 DEF StoreAnalysis
  <2>3. copy' \in [Requests -> [Analyses -> AnalysisDoc]]
    BY <2>1, <2>2 DEF TypeOK
  <2> QED
    BY <1>1, <2>3 DEF TypeOK, StoreAnalysis, Goto
<1>2. CASE UNCHANGED analysisVars /\ Goto(r, raised)
  BY <1>2 DEF TypeOK, Goto, analysisVars
<1> QED
  BY <1>1, <1>2 DEF SaveAnalysis

LEMMA SaveResumeType ==
    ASSUME TypeOK, NEW r \in Requests, NEW x \in Resumes, NEW doc \in ResumeDoc,
           NEW kind \in WriteKinds, NEW saved \in Labels, NEW raised \in Labels,
           SaveResume(r, x, doc, kind, saved, raised)
    PROVE  /\ resume' \in [Resumes -> ResumeDoc]
           /\ resumeHolders' \in [Resumes -> SUBSET Requests]
           /\ resumeCopy' \in [Requests -> ResumeDoc]
           /\ pages' \in [Resumes -> SUBSET SUBSET Writes]
           /\ accepted' \in [Resumes -> SUBSET Writes]
           /\ pc' \in [Requests -> Labels]
<1>1. CASE StoreResume(r, x, doc, kind) /\ Goto(r, saved)
  <2> DEFINE written == [doc EXCEPT !.writes = doc.writes \cup {<<r, kind>>}]
  <2>1. <<r, kind>> \in Writes
    BY DEF Writes
  <2>2. written \in ResumeDoc
    BY <2>1 DEF ResumeDoc
  <2>3. /\ resume' = [resume EXCEPT ![x] = written]
        /\ resumeHolders' = [resumeHolders EXCEPT ![x] = {r}]
        /\ resumeCopy' = [resumeCopy EXCEPT ![r] = written]
        /\ pages' = [pages EXCEPT ![x] = @ \cup {Content(written.writes)}]
        /\ accepted' = [accepted EXCEPT ![x] = @ \cup {<<r, kind>>}]
    BY <1>1 DEF StoreResume
  <2>4. Content(written.writes) \in SUBSET Writes
    BY <2>2 DEF ResumeDoc, Content
  <2> HIDE DEF written
  <2>5. /\ resume' \in [Resumes -> ResumeDoc]
        /\ resumeHolders' \in [Resumes -> SUBSET Requests]
        /\ resumeCopy' \in [Requests -> ResumeDoc]
    BY <2>2, <2>3 DEF TypeOK
  <2>6. pages' \in [Resumes -> SUBSET SUBSET Writes]
    BY <2>3, <2>4 DEF TypeOK
  <2>7. accepted' \in [Resumes -> SUBSET Writes]
    BY <2>1, <2>3 DEF TypeOK
  <2>8. pc' \in [Requests -> Labels]
    BY <1>1 DEF TypeOK, Goto
  <2> QED
    BY <2>5, <2>6, <2>7, <2>8
<1>2. CASE UNCHANGED resumeVars /\ Goto(r, raised)
  BY <1>2 DEF TypeOK, Goto, resumeVars
<1> QED
  BY <1>1, <1>2 DEF SaveResume

LEMMA ReplacedType ==
    ASSUME NEW doc \in ResumeDoc, NEW shown \in SUBSET Writes
    PROVE  /\ Replaced(doc, shown) \in ResumeDoc
           /\ Replaced(doc, shown).deleted = doc.deleted
           /\ Replaced(doc, shown).rollup = doc.rollup
           /\ Replaced(doc, shown).writes = (doc.writes \ Content(doc.writes)) \cup shown
<1> DEFINE writes == (doc.writes \ Content(doc.writes)) \cup shown
<1>1. writes \in SUBSET Writes
  BY DEF ResumeDoc
<1>2. Replaced(doc, shown) = [doc EXCEPT !.writes = writes]
  BY DEF Replaced
<1> HIDE DEF writes
<1>3. /\ [doc EXCEPT !.writes = writes] \in ResumeDoc
      /\ [doc EXCEPT !.writes = writes].deleted = doc.deleted
      /\ [doc EXCEPT !.writes = writes].rollup = doc.rollup
      /\ [doc EXCEPT !.writes = writes].writes = writes
  BY <1>1 DEF ResumeDoc
<1> QED
  BY <1>2, <1>3 DEF writes

LEMMA LoadAnalysisType ==
    ASSUME TypeOK, NEW r \in Requests, NEW a \in Analyses, LoadAnalysis(r, a)
    PROVE  /\ analysis' \in [Analyses -> AnalysisDoc]
           /\ analysisHolders' \in [Analyses -> SUBSET Requests]
           /\ copy' \in [Requests -> [Analyses -> AnalysisDoc]]
  BY DEF TypeOK, LoadAnalysis, Hold

LEMMA LoadResumeType ==
    ASSUME TypeOK, NEW r \in Requests, NEW x \in Resumes, LoadResume(r, x)
    PROVE  /\ resume' \in [Resumes -> ResumeDoc]
           /\ resumeHolders' \in [Resumes -> SUBSET Requests]
           /\ resumeCopy' \in [Requests -> ResumeDoc]
           /\ pages' \in [Resumes -> SUBSET SUBSET Writes]
           /\ accepted' \in [Resumes -> SUBSET Writes]
  BY DEF TypeOK, LoadResume, Hold

LEMMA WithStepType ==
    ASSUME NEW doc \in AnalysisDoc, NEW k \in StepKey, NEW s \in StepStatus
    PROVE  WithStep(doc, k, s) \in AnalysisDoc
  BY DEF WithStep, AnalysisDoc

LEMMA ResetType ==
    ASSUME NEW doc \in AnalysisDoc
    PROVE  Reset(doc) \in AnalysisDoc
<1>1. doc.retries + 1 \in Nat
  BY DEF AnalysisDoc
<1>2. "pending" \in AnalysisStatus
  BY DEF AnalysisStatus
<1> QED
  BY <1>1, <1>2, FreshStepsType DEF Reset, AnalysisDoc

\* A save takes the request to one of its two continuations.
LEMMA SaveAnalysisGoto ==
    ASSUME NEW r, NEW a, NEW doc, NEW saved, NEW raised,
           SaveAnalysis(r, a, doc, saved, raised)
    PROVE  Goto(r, saved) \/ Goto(r, raised)
  BY DEF SaveAnalysis

LEMMA SaveResumeGoto ==
    ASSUME NEW r, NEW x, NEW doc, NEW kind, NEW saved, NEW raised,
           SaveResume(r, x, doc, kind, saved, raised)
    PROVE  Goto(r, saved) \/ Goto(r, raised)
  BY DEF SaveResume

\* The labels, so that no proof below has to enumerate them.
LEMMA AnswerLabels ==
    \A l \in Answers : l \in Labels /\ l \notin AboutAnalysis /\ l \notin AboutResume
  BY DEF Labels, Answers, AboutAnalysis, AboutResume

\* A request that moves on keeps what it is about, unless it just arrived.
LEMMA FocusStep ==
    ASSUME TypeOK, Focus, NEW r \in Requests, NEW l \in Labels, Goto(r, l),
           \A q \in Requests \ {r} : ana'[q] = ana[q] /\ res'[q] = res[q],
           l \in AboutAnalysis => ana'[r] \in Analyses,
           l \in AboutResume => res'[r] \in Resumes
    PROVE  Focus'
<1> SUFFICES ASSUME NEW q \in Requests
             PROVE  /\ pc'[q] \in AboutAnalysis => ana'[q] \in Analyses
                    /\ pc'[q] \in AboutResume => res'[q] \in Resumes
  BY DEF Focus
<1>1. CASE q = r
  BY <1>1 DEF TypeOK, Goto
<1>2. CASE q # r
  BY <1>2 DEF TypeOK, Focus, Goto
<1> QED
  BY <1>1, <1>2

---------------------------------------------------------------------------
(* Every step keeps the types, and every request knows what it is about. *)

\* The queries with which a request begins.
LEMMA ArriveTyped ==
    ASSUME TypeOK, Focus, NEW r \in Requests, Arrive(r)
    PROVE  TypeOK' /\ Focus'
<1>1. ASSUME CreateFind(r) PROVE TypeOK' /\ Focus'
  <2>1. PICK a \in Analyses :
            /\ ana' = [ana EXCEPT ![r] = a]
            /\ res' = [res EXCEPT ![r] = ResumeOf[a]]
            /\ \/ Goto(r, "refused") /\ UNCHANGED resumeVars
               \/ LoadResume(r, ResumeOf[a]) /\ Goto(r, "create_count")
    BY <1>1 DEF CreateFind
  <2>2. ResumeOf[a] \in Resumes
    OBVIOUS
  <2>3. /\ resume' \in [Resumes -> ResumeDoc]
        /\ resumeHolders' \in [Resumes -> SUBSET Requests]
        /\ resumeCopy' \in [Requests -> ResumeDoc]
        /\ pages' \in [Resumes -> SUBSET SUBSET Writes]
        /\ accepted' \in [Resumes -> SUBSET Writes]
    BY <2>1, <2>2, LoadResumeType DEF TypeOK, resumeVars
  <2>5. pc' \in [Requests -> Labels]
    BY <2>1 DEF TypeOK, Goto, Labels, Answers
  <2>6. TypeOK'
    BY <1>1, <2>1, <2>2, <2>3, <2>5
       DEF CreateFind, TypeOK, analysisVars
  <2>4. Focus'
    BY <2>1, <2>2, FocusStep DEF TypeOK, Labels, Answers, AboutAnalysis, AboutResume
  <2> QED
    BY <2>4, <2>6
<1>2. ASSUME RetryFind(r) \/ CancelFind(r) \/ DismissFind(r) \/ ApplyFind(r)
      PROVE  TypeOK' /\ Focus'
  <2>1. PICK a \in Analyses,
             next \in {"retry_save", "cancel_save", "dismiss_save", "apply_resume"} :
            /\ ana' = [ana EXCEPT ![r] = a]
            /\ res' = [res EXCEPT ![r] = ResumeOf[a]]
            /\ \/ Goto(r, "error") /\ UNCHANGED analysisVars
               \/ Goto(r, "refused") /\ UNCHANGED analysisVars
               \/ LoadAnalysis(r, a) /\ Goto(r, next)
    BY <1>2 DEF RetryFind, CancelFind, DismissFind, ApplyFind, AnalysisFind
  <2>2. UNCHANGED <<resumeVars, bell, step, goal, seen, batch>>
    BY <1>2 DEF RetryFind, CancelFind, DismissFind, ApplyFind, AnalysisFind
  <2>3. ResumeOf[a] \in Resumes
    OBVIOUS
  <2>4. /\ analysis' \in [Analyses -> AnalysisDoc]
        /\ analysisHolders' \in [Analyses -> SUBSET Requests]
        /\ copy' \in [Requests -> [Analyses -> AnalysisDoc]]
    BY <2>1, LoadAnalysisType DEF TypeOK, analysisVars
  <2>5. pc' \in [Requests -> Labels]
    BY <2>1 DEF TypeOK, Goto, Labels, Answers
  <2>6. TypeOK'
    BY <2>1, <2>2, <2>3, <2>4, <2>5 DEF TypeOK, resumeVars
  <2>7. Focus'
    BY <2>1, <2>3, FocusStep DEF TypeOK, Labels, Answers, AboutAnalysis, AboutResume
  <2> QED
    BY <2>6, <2>7
<1>3. ASSUME VisitFind(r) PROVE TypeOK' /\ Focus'
  <2>1. PICK a \in Analyses, l \in {"error", "ok", "visit_clear"} :
            /\ ana' = [ana EXCEPT ![r] = a]
            /\ Goto(r, l)
            /\ seen' = seen \/ seen' = [seen EXCEPT ![r] = bell[a]]
    BY <1>3 DEF VisitFind
  <2>5. pc' \in [Requests -> Labels]
    BY <2>1 DEF TypeOK, Goto, Labels, Answers
  <2>6. seen' \in [Requests -> SUBSET Notes]
    BY <2>1 DEF TypeOK
  <2>2. TypeOK'
    BY <1>3, <2>1, <2>5, <2>6
       DEF VisitFind, NoteUnchanged, TypeOK, analysisVars, resumeVars
  <2>3. /\ l \in Labels
        /\ l \notin AboutResume
        /\ res' = res
    BY <1>3, <2>1 DEF VisitFind, Labels, Answers, AboutResume
  <2>4. Focus'
    BY <2>1, <2>3, FocusStep DEF TypeOK
  <2> QED
    BY <2>2, <2>4
<1>4. ASSUME EditFind(r) \/ DeleteFind(r) \/ CascadeGet(r) PROVE TypeOK' /\ Focus'
  <2>1. PICK x \in Resumes, next \in {"edit_save", "delete_save", "cascade_list"} :
            /\ res' = [res EXCEPT ![r] = x]
            /\ \/ Goto(r, "refused") /\ UNCHANGED resumeVars
               \/ LoadResume(r, x) /\ Goto(r, next)
    BY <1>4 DEF EditFind, DeleteFind, CascadeGet, ResumeFind
  <2>2. UNCHANGED <<analysisVars, bell, ana, step, goal, seen, batch>>
    BY <1>4 DEF EditFind, DeleteFind, CascadeGet, ResumeFind
  <2>3. /\ resume' \in [Resumes -> ResumeDoc]
        /\ resumeHolders' \in [Resumes -> SUBSET Requests]
        /\ resumeCopy' \in [Requests -> ResumeDoc]
        /\ pages' \in [Resumes -> SUBSET SUBSET Writes]
        /\ accepted' \in [Resumes -> SUBSET Writes]
    BY <2>1, LoadResumeType DEF TypeOK, resumeVars
  <2>4. pc' \in [Requests -> Labels]
    BY <2>1 DEF TypeOK, Goto, Labels, Answers
  <2>5. TypeOK'
    BY <2>1, <2>2, <2>3, <2>4 DEF TypeOK, analysisVars
  <2>6. \A l \in {"refused", next} : l \in Labels /\ l \notin AboutAnalysis
    BY DEF Labels, Answers, AboutAnalysis, ResumeOnly
  <2>7. Focus'
    BY <2>1, <2>2, <2>6, FocusStep DEF TypeOK
  <2> QED
    BY <2>5, <2>7
<1> QED
  BY <1>1, <1>2, <1>3, <1>4 DEF Arrive

\* A step that saves the analysis the request is about.
LEMMA AnalysisStepTyped ==
    ASSUME TypeOK, Focus, NEW r \in Requests, NEW doc \in AnalysisDoc,
           NEW saved \in Labels, NEW raised \in Labels,
           ana[r] \in Analyses, res[r] \in Resumes,
           SaveAnalysis(r, ana[r], doc, saved, raised),
           UNCHANGED <<resumeVars, bell, ana, res, seen, batch>>,
           step' \in [Requests -> StepKey], goal' \in [Requests -> Goals]
    PROVE  TypeOK' /\ Focus'
<1>1. /\ analysis' \in [Analyses -> AnalysisDoc]
      /\ analysisHolders' \in [Analyses -> SUBSET Requests]
      /\ copy' \in [Requests -> [Analyses -> AnalysisDoc]]
      /\ pc' \in [Requests -> Labels]
  BY SaveAnalysisType
<1>2. TypeOK'
  BY <1>1 DEF TypeOK, resumeVars
<1>3. Focus'
  BY SaveAnalysisGoto, FocusStep
<1> QED
  BY <1>2, <1>3

\* A step that saves the resume the request is about.
LEMMA ResumeStepTyped ==
    ASSUME TypeOK, Focus, NEW r \in Requests, NEW doc \in ResumeDoc,
           NEW kind \in WriteKinds, NEW saved \in Labels, NEW raised \in Labels,
           res[r] \in Resumes,
           ana[r] \in Analyses \/ (saved \in Answers /\ raised \in Answers),
           SaveResume(r, res[r], doc, kind, saved, raised),
           UNCHANGED <<analysisVars, bell, requestVars>>
    PROVE  TypeOK' /\ Focus'
<1>1. /\ resume' \in [Resumes -> ResumeDoc]
      /\ resumeHolders' \in [Resumes -> SUBSET Requests]
      /\ resumeCopy' \in [Requests -> ResumeDoc]
      /\ pages' \in [Resumes -> SUBSET SUBSET Writes]
      /\ accepted' \in [Resumes -> SUBSET Writes]
      /\ pc' \in [Requests -> Labels]
  BY SaveResumeType
<1>2. TypeOK'
  BY <1>1 DEF TypeOK, analysisVars, requestVars
<1>3. UNCHANGED <<ana, res>>
  BY DEF requestVars
<1>4. Focus'
  BY <1>3, SaveResumeGoto, FocusStep, AnswerLabels
<1> QED
  BY <1>2, <1>4

\* A step that touches neither collection.
LEMMA OtherStepTyped ==
    ASSUME TypeOK, Focus, NEW r \in Requests, NEW l \in Labels, Goto(r, l),
           UNCHANGED <<analysisVars, resumeVars, ana, res>>,
           l \in AboutAnalysis => ana[r] \in Analyses,
           l \in AboutResume => res[r] \in Resumes,
           bell' \in [Analyses -> SUBSET Notes],
           step' \in [Requests -> StepKey], goal' \in [Requests -> Goals],
           seen' \in [Requests -> SUBSET Notes], batch' \in [Requests -> SUBSET Analyses]
    PROVE  TypeOK' /\ Focus'
<1>1. pc' \in [Requests -> Labels]
  BY DEF TypeOK, Goto
<1>2. TypeOK'
  BY <1>1 DEF TypeOK, analysisVars, resumeVars
<1>3. Focus'
  BY FocusStep
<1> QED
  BY <1>2, <1>3

\* The steps of a pipeline, of a retry, a cancellation and a dismissal that
\* save the analysis.
LEMMA PipelineTyped ==
    ASSUME TypeOK, Focus, NEW r \in Requests,
           \/ Begin(r) \/ StepStart(r) \/ StepDone(r) \/ StepFailed(r)
           \/ Complete(r) \/ Fail(r)
           \/ RetrySave(r) \/ CancelSave(r) \/ DismissSave(r) \/ ApplyAnalysis(r)
    PROVE  TypeOK' /\ Focus'
<1> DEFINE doc == copy[r][ana[r]]
<1>1. ana[r] \in Analyses /\ res[r] \in Resumes
  BY DEF Begin, StepStart, StepDone, StepFailed, Complete, Fail, RetrySave, CancelSave,
         DismissSave, ApplyAnalysis, Focus, AboutAnalysis, AboutResume, ResumeOnly,
         Labels, Answers
<1>2. doc \in AnalysisDoc
  BY <1>1 DEF TypeOK
<1>3. step[r] \in StepKey /\ goal[r] \in Goals
  BY DEF TypeOK
<1>4. \A k \in {"completed", "failed"} : [goal EXCEPT ![r] = k] \in [Requests -> Goals]
  BY DEF TypeOK, Goals
<1> HIDE DEF doc
<1>5. CASE Begin(r)
  <2>1. SaveAnalysis(r, ana[r], doc, "note_find", "error")
    BY <1>5 DEF Begin, doc
  <2>2. step' \in [Requests -> StepKey] /\ goal' \in [Requests -> Goals]
    BY <1>5 DEF Begin, TypeOK, Goals, StepKey
  <2> QED
    BY <1>1, <1>2, <1>5, <2>1, <2>2, AnalysisStepTyped DEF Begin, Labels, Answers
<1>6. CASE StepStart(r)
  <2>1. SaveAnalysis(r, ana[r], WithStep(doc, step[r], "in_progress"), "llm", "fail")
    BY <1>6 DEF StepStart, doc
  <2>2. WithStep(doc, step[r], "in_progress") \in AnalysisDoc
    BY <1>2, <1>3, WithStepType DEF StepStatus
  <2> QED
    BY <1>1, <1>6, <2>1, <2>2, AnalysisStepTyped
       DEF StepStart, requestVars, TypeOK, Labels
<1>7. CASE StepDone(r)
  <2>1. PICK saved \in {"complete", "step"} :
            SaveAnalysis(r, ana[r], WithStep(doc, step[r], "completed"), saved, "fail")
    BY <1>7 DEF StepDone, doc
  <2>2. WithStep(doc, step[r], "completed") \in AnalysisDoc
    BY <1>2, <1>3, WithStepType DEF StepStatus
  <2>3. step' \in [Requests -> StepKey]
    <3>1. CASE step[r] = 3
      <4>1. SaveAnalysis(r, ana[r], WithStep(doc, step[r], "completed"), "complete", "fail")
        BY <1>7, <3>1 DEF StepDone, doc
      <4>2. pc'[r] # "step"
        BY <4>1, SaveAnalysisGoto DEF TypeOK, Goto
      <4> QED
        BY <1>7, <4>2 DEF StepDone, TypeOK
    <3>2. CASE step[r] # 3
      <4>1. step[r] + 1 \in StepKey
        BY <1>3, <3>2 DEF StepKey
      <4> QED
        BY <1>7, <4>1 DEF StepDone, TypeOK
    <3> QED
      BY <3>1, <3>2
  <2> QED
    BY <1>1, <1>7, <2>1, <2>2, <2>3, AnalysisStepTyped DEF StepDone, TypeOK, Labels
<1>8. CASE StepFailed(r)
  <2>1. SaveAnalysis(r, ana[r], WithStep(doc, step[r], "failed"), "fail", "fail")
    BY <1>8 DEF StepFailed, doc
  <2>2. WithStep(doc, step[r], "failed") \in AnalysisDoc
    BY <1>2, <1>3, WithStepType DEF StepStatus
  <2> QED
    BY <1>1, <1>8, <2>1, <2>2, AnalysisStepTyped
       DEF StepFailed, requestVars, TypeOK, Labels
<1>9. CASE Complete(r)
  <2> DEFINE new == [doc EXCEPT !.status = "completed", !.result = "full", !.applied = FALSE]
  <2>1. SaveAnalysis(r, ana[r], new, "rollup_get", "fail")
    BY <1>9 DEF Complete, doc
  <2>2. new \in AnalysisDoc
    BY <1>2 DEF AnalysisDoc, AnalysisStatus, ResultState
  <2>3. goal' \in [Requests -> Goals]
    BY <1>4, <1>9 DEF Complete, TypeOK
  <2> QED
    BY <1>1, <1>9, <2>1, <2>2, <2>3, AnalysisStepTyped DEF Complete, TypeOK, Labels
<1>10. CASE Fail(r)
  <2>1. PICK result \in ResultState :
            SaveAnalysis(r, ana[r], [doc EXCEPT !.status = "failed", !.result = result,
                                                !.applied = @ /\ result = "full"],
                         "rollup_get", "error")
    BY <1>2, <1>10 DEF Fail, doc, ResultState, AnalysisDoc
  <2>2. [doc EXCEPT !.status = "failed", !.result = result,
                    !.applied = @ /\ result = "full"] \in AnalysisDoc
    BY <1>2 DEF AnalysisDoc, AnalysisStatus
  <2>3. goal' \in [Requests -> Goals]
    BY <1>4, <1>10 DEF Fail
  <2> QED
    BY <1>1, <1>10, <2>1, <2>2, <2>3, AnalysisStepTyped DEF Fail, TypeOK, Labels, Answers
<1>11. CASE RetrySave(r)
  <2>1. PICK saved \in {"error", "begin"} : SaveAnalysis(r, ana[r], Reset(doc), saved, "error")
    BY <1>11 DEF RetrySave, doc
  <2>2. Reset(doc) \in AnalysisDoc
    BY <1>2, ResetType
  <2> QED
    BY <1>1, <1>11, <2>1, <2>2, AnalysisStepTyped
       DEF RetrySave, requestVars, TypeOK, Labels, Answers
<1>12. CASE CancelSave(r)
  <2>1. SaveAnalysis(r, ana[r], [doc EXCEPT !.status = "cancelled"], "ok", "error")
    BY <1>12 DEF CancelSave, doc
  <2>2. [doc EXCEPT !.status = "cancelled"] \in AnalysisDoc
    BY <1>2 DEF AnalysisDoc, AnalysisStatus
  <2> QED
    BY <1>1, <1>12, <2>1, <2>2, AnalysisStepTyped
       DEF CancelSave, requestVars, TypeOK, Labels, Answers
<1>13. CASE DismissSave(r)
  <2>1. SaveAnalysis(r, ana[r], doc, "ok", "error")
    BY <1>13 DEF DismissSave, doc
  <2> QED
    BY <1>1, <1>2, <1>13, <2>1, AnalysisStepTyped
       DEF DismissSave, requestVars, TypeOK, Labels, Answers
<1>14. CASE ApplyAnalysis(r)
  <2>1. SaveAnalysis(r, ana[r], [doc EXCEPT !.applied = TRUE], "apply_save", "error")
    BY <1>14 DEF ApplyAnalysis, doc
  <2>2. [doc EXCEPT !.applied = TRUE] \in AnalysisDoc
    BY <1>2 DEF AnalysisDoc
  <2> QED
    BY <1>1, <1>14, <2>1, <2>2, AnalysisStepTyped
       DEF ApplyAnalysis, requestVars, TypeOK, Labels, Answers
<1> QED
  BY <1>5, <1>6, <1>7, <1>8, <1>9, <1>10, <1>11, <1>12, <1>13, <1>14

\* The steps that save the resume.
LEMMA ResumeSavesTyped ==
    ASSUME TypeOK, Focus, NEW r \in Requests,
           \/ CreateRollup(r) \/ RollupSave(r) \/ ApplySave(r) \/ EditSave(r)
           \/ DeleteSave(r) \/ CascadeResume(r)
    PROVE  TypeOK' /\ Focus'
<1> DEFINE doc == resumeCopy[r]
<1>1. res[r] \in Resumes
  BY DEF CreateRollup, RollupSave, ApplySave, EditSave, DeleteSave, CascadeResume,
         Focus, AboutResume, Labels, Answers
<1>2. doc \in ResumeDoc /\ goal[r] \in Goals
  BY DEF TypeOK
<1>3. Goals \subseteq Rollups /\ Goals \subseteq WriteKinds
  BY DEF Rollups, WriteKinds
<1>4. \A g \in Goals : [doc EXCEPT !.rollup = g] \in ResumeDoc
  BY <1>2, <1>3 DEF ResumeDoc
<1>5. [doc EXCEPT !.deleted = TRUE] \in ResumeDoc
  BY <1>2 DEF ResumeDoc
<1> HIDE DEF doc
<1>6. CASE CreateRollup(r)
  <2>1. SaveResume(r, res[r], [doc EXCEPT !.rollup = "in_progress"], "in_progress",
                   "begin", "error")
    BY <1>6 DEF CreateRollup, doc
  <2>2. ana[r] \in Analyses
    BY <1>6 DEF CreateRollup, Focus, AboutAnalysis, ResumeOnly, Labels, Answers
  <2> QED
    BY <1>1, <1>3, <1>4, <1>6, <2>1, <2>2, ResumeStepTyped
       DEF CreateRollup, Goals, Labels, Answers
<1>7. CASE RollupSave(r)
  <2>1. PICK raised \in {"fail", "error"} :
            SaveResume(r, res[r], [doc EXCEPT !.rollup = goal[r]], goal[r],
                       "note_find", raised)
    BY <1>7 DEF RollupSave, doc
  <2>2. ana[r] \in Analyses
    BY <1>7 DEF RollupSave, Focus, AboutAnalysis, ResumeOnly, Labels, Answers
  <2> QED
    BY <1>1, <1>2, <1>3, <1>4, <1>7, <2>1, <2>2, ResumeStepTyped
       DEF RollupSave, Labels, Answers
<1>8. CASE ApplySave(r)
  <2>1. SaveResume(r, res[r], doc, "apply", "ok", "conflict")
    BY <1>8 DEF ApplySave, doc
  <2> QED
    BY <1>1, <1>2, <1>8, <2>1, ResumeStepTyped
       DEF ApplySave, WriteKinds, ContentKinds, Labels, Answers
<1>9. CASE EditSave(r)
  <2>1. \A shown \in pages[res[r]] : Replaced(doc, shown) \in ResumeDoc
    BY <1>1, <1>2, ReplacedType DEF TypeOK
  <2>2. UNCHANGED <<analysisVars, bell, requestVars>>
    BY <1>9 DEF EditSave
  <2>3. "edit" \in WriteKinds /\ "rename" \in WriteKinds
        /\ "ok" \in Labels /\ "error" \in Labels
    BY DEF WriteKinds, ContentKinds, Labels, Answers
  <2>4. CASE \E shown \in pages[res[r]] :
                SaveResume(r, res[r], Replaced(doc, shown), "edit", "ok", "error")
    BY <1>1, <1>2, <1>9, <2>1, <2>2, <2>3, <2>4, ResumeStepTyped DEF Labels, Answers
  <2>5. CASE SaveResume(r, res[r], doc, "rename", "ok", "error")
    BY <1>1, <1>2, <1>9, <2>2, <2>3, <2>5, ResumeStepTyped DEF Labels, Answers
  <2>6. CASE Goto(r, "conflict") /\ UNCHANGED resumeVars
    BY <2>2, <2>6 DEF TypeOK, Focus, Goto, AboutAnalysis, AboutResume, Labels, Answers,
                      analysisVars, resumeVars, requestVars
  <2> QED
    BY <1>9, <2>4, <2>5, <2>6 DEF EditSave, doc
<1>10. CASE DeleteSave(r)
  <2>1. SaveResume(r, res[r], [doc EXCEPT !.deleted = TRUE], "delete", "ok", "error")
    BY <1>10 DEF DeleteSave, doc
  <2> QED
    BY <1>1, <1>5, <1>10, <2>1, ResumeStepTyped
       DEF DeleteSave, WriteKinds, Labels, Answers
<1>11. CASE CascadeResume(r)
  <2>1. CASE Goto(r, "ok") /\ UNCHANGED resumeVars
    BY <1>11, <2>1, OtherStepTyped, AnswerLabels
       DEF CascadeResume, requestVars, TypeOK, Answers
  <2>2. CASE SaveResume(r, res[r], [doc EXCEPT !.deleted = TRUE], "delete", "ok", "error")
    BY <1>1, <1>5, <1>11, <2>2, ResumeStepTyped
       DEF CascadeResume, WriteKinds, Labels, Answers
  <2> QED
    BY <1>11, <2>1, <2>2 DEF CascadeResume, doc
<1> QED
  BY <1>6, <1>7, <1>8, <1>9, <1>10, <1>11

\* The steps of a creation and of the bell, and the loads of a resume.
LEMMA OtherStepsTyped ==
    ASSUME TypeOK, Focus, NEW r \in Requests,
           \/ CreateCount(r) \/ CreateInsert(r) \/ RollupGet(r) \/ ApplyResume(r)
           \/ NoteFind(r) \/ NoteClear(r) \/ NoteInsert(r) \/ VisitClear(r)
    PROVE  TypeOK' /\ Focus'
<1>1. ana[r] \in Analyses /\ (pc[r] # "visit_clear" => res[r] \in Resumes)
  BY DEF CreateCount, CreateInsert, RollupGet, ApplyResume, NoteFind, NoteClear,
         NoteInsert, VisitClear, Focus, AboutAnalysis, AboutResume, ResumeOnly,
         Labels, Answers
<1>2. CASE CreateCount(r)
  <2>1. PICK l \in {"refused", "create_insert"} : Goto(r, l)
    BY <1>2 DEF CreateCount
  <2> QED
    BY <1>1, <1>2, <2>1, OtherStepTyped
       DEF CreateCount, requestVars, TypeOK, Labels, Answers
<1>3. CASE CreateInsert(r)
  <2> DEFINE doc == [Absent EXCEPT !.status = "pending"]
  <2>1. doc \in AnalysisDoc
    BY AbsentType DEF AnalysisDoc, AnalysisStatus
  <2>2. StoreAnalysis(r, ana[r], doc) /\ Goto(r, "create_rollup") /\ ana[r] \in Analyses
    BY <1>1, <1>3 DEF CreateInsert
  <2> HIDE DEF doc
  <2>3. copy[r] \in [Analyses -> AnalysisDoc]
    BY DEF TypeOK
  <2>4. copy' = [copy EXCEPT ![r] = [copy[r] EXCEPT ![ana[r]] = doc]]
    BY <2>2 DEF StoreAnalysis
  <2>5. copy' \in [Requests -> [Analyses -> AnalysisDoc]]
    BY <2>1, <2>2, <2>3, <2>4 DEF TypeOK
  <2>6. pc' \in [Requests -> Labels]
    BY <2>2 DEF TypeOK, Goto, Labels
  <2>7. TypeOK'
    BY <1>3, <2>1, <2>2, <2>5, <2>6
       DEF CreateInsert, StoreAnalysis, TypeOK, resumeVars, requestVars
  <2>8. Focus'
    BY <1>1, <1>3, <2>2, FocusStep DEF CreateInsert, requestVars, Labels
  <2> QED
    BY <2>7, <2>8
<1>4. CASE RollupGet(r) \/ ApplyResume(r)
  <2>1. ana[r] \in Analyses /\ res[r] \in Resumes
    BY <1>1, <1>4 DEF RollupGet, ApplyResume
  <2>2. PICK l \in {"rollup_save", "refused", "apply_analysis", "error"} :
            Goto(r, l) /\ (UNCHANGED resumeVars \/ LoadResume(r, res[r]))
    BY <1>4 DEF RollupGet, ApplyResume
  <2>3. UNCHANGED <<analysisVars, bell, requestVars>>
    BY <1>4 DEF RollupGet, ApplyResume
  <2>4. /\ resume' \in [Resumes -> ResumeDoc]
        /\ resumeHolders' \in [Resumes -> SUBSET Requests]
        /\ resumeCopy' \in [Requests -> ResumeDoc]
        /\ pages' \in [Resumes -> SUBSET SUBSET Writes]
        /\ accepted' \in [Resumes -> SUBSET Writes]
    BY <2>1, <2>2, LoadResumeType DEF TypeOK, resumeVars
  <2>5. l \in Labels
    BY DEF Labels, Answers
  <2>6. pc' \in [Requests -> Labels]
    BY <2>2, <2>5 DEF TypeOK, Goto
  <2>7. TypeOK'
    BY <2>3, <2>4, <2>6 DEF TypeOK, analysisVars, requestVars
  <2>8. Focus'
    BY <2>1, <2>2, <2>3, <2>5, FocusStep DEF requestVars
  <2> QED
    BY <2>7, <2>8
<1>5. CASE NoteFind(r)
  <2>1. PICK l \in {"note_insert", "note_clear"} : Goto(r, l)
    BY <1>5 DEF NoteFind
  <2>2. ana[r] \in Analyses /\ res[r] \in Resumes
    BY <1>1, <1>5 DEF NoteFind
  <2>3. seen' \in [Requests -> SUBSET Notes]
    BY <1>5, <2>2 DEF NoteFind, TypeOK
  <2> QED
    BY <1>5, <2>1, <2>2, <2>3, OtherStepTyped
       DEF NoteFind, NoteUnchanged, TypeOK, Labels
<1>6. CASE NoteClear(r) \/ VisitClear(r)
  <2>1. PICK l \in {"note_insert", "ok"} : Goto(r, l) /\ (l = "note_insert" => NoteClear(r))
    BY <1>6 DEF NoteClear, VisitClear
  <2>2. bell' \in [Analyses -> SUBSET Notes]
    <3>1. bell' = [bell EXCEPT ![ana[r]] = bell[ana[r]] \ seen[r]]
      BY <1>6 DEF NoteClear, VisitClear
    <3>2. bell[ana[r]] \ seen[r] \in SUBSET Notes
      BY <1>1 DEF TypeOK
    <3> QED
      BY <3>1, <3>2 DEF TypeOK
  <2>3. l = "note_insert" => ana[r] \in Analyses /\ res[r] \in Resumes
    BY <1>1, <2>1 DEF NoteClear
  <2>4. UNCHANGED <<analysisVars, resumeVars, requestVars>>
    BY <1>6 DEF NoteClear, VisitClear, NoteUnchanged
  <2> QED
    BY <2>1, <2>2, <2>3, <2>4, OtherStepTyped, AnswerLabels
       DEF requestVars, TypeOK, Labels, Answers
<1>7. CASE NoteInsert(r)
  <2>1. ana[r] \in Analyses /\ res[r] \in Resumes /\ goal[r] \in Goals
    BY <1>1, <1>7 DEF NoteInsert, TypeOK
  <2>2. PICK l \in {"step", "ok", "error", "fail"} : Goto(r, l)
    BY <1>7, <2>1 DEF NoteInsert, AfterNote, NoteRaised, Goals
  <2>3. bell' \in [Analyses -> SUBSET Notes]
    <3>1. {<<r, goal[r]>>} \in SUBSET Notes
      BY <2>1 DEF Notes
    <3> QED
      BY <1>7, <3>1 DEF NoteInsert, TypeOK
  <2> QED
    BY <1>7, <2>1, <2>2, <2>3, OtherStepTyped
       DEF NoteInsert, NoteUnchanged, requestVars, TypeOK, Labels, Answers
<1> QED
  BY <1>2, <1>3, <1>4, <1>5, <1>6, <1>7

\* The steps of an admin's cascade.
LEMMA CascadeTyped ==
    ASSUME TypeOK, Focus, NEW r \in Requests,
           \/ CascadeList(r) \/ CascadeAnalysis(r) \/ CascadeFind(r) \/ CascadeClear(r)
    PROVE  TypeOK' /\ Focus'
<1>1. res[r] \in Resumes
  BY DEF CascadeList, CascadeAnalysis, CascadeFind, CascadeClear, Focus, AboutResume,
         Labels, Answers
<1>2. CASE CascadeList(r)
  <2>1. PICK l \in {"error", "cascade_resume", "cascade_next"} : Goto(r, l)
    BY <1>2 DEF CascadeList
  <2>2. l \in Labels /\ l \notin AboutAnalysis
    BY DEF Labels, Answers, AboutAnalysis, ResumeOnly
  <2>3. LiveAnalysesOf(res[r]) \subseteq Analyses
    BY DEF LiveAnalysesOf
  <2>4. copy[r] \in [Analyses -> AnalysisDoc] /\ analysis \in [Analyses -> AnalysisDoc]
    BY DEF TypeOK
  <2>5. copy' \in [Requests -> [Analyses -> AnalysisDoc]]
    <3> DEFINE loaded == [a \in Analyses |-> IF a \in LiveAnalysesOf(res[r])
                                              THEN analysis[a] ELSE copy[r][a]]
    <3>1. copy' = copy \/ copy' = [copy EXCEPT ![r] = loaded]
      BY <1>2 DEF CascadeList
    <3>2. loaded \in [Analyses -> AnalysisDoc]
      BY <2>4
    <3> HIDE DEF loaded
    <3> QED
      BY <3>1, <3>2 DEF TypeOK
  <2>6. analysisHolders' \in [Analyses -> SUBSET Requests]
    BY <1>2 DEF CascadeList, TypeOK
  <2>7. batch' \in [Requests -> SUBSET Analyses]
    BY <1>2, <2>3 DEF CascadeList, TypeOK
  <2>8. pc' \in [Requests -> Labels]
    BY <2>1, <2>2 DEF TypeOK, Goto
  <2>9. UNCHANGED <<analysis, resumeVars, bell, ana, res, step, goal, seen>>
    BY <1>2 DEF CascadeList
  <2>10. TypeOK'
    BY <2>5, <2>6, <2>7, <2>8, <2>9 DEF TypeOK, resumeVars
  <2>11. Focus'
    BY <1>1, <2>1, <2>2, <2>9, FocusStep
  <2> QED
    BY <2>10, <2>11
<1>3. CASE CascadeAnalysis(r)
  <2>1. PICK a \in batch[r] :
            /\ ana' = [ana EXCEPT ![r] = a]
            /\ SaveAnalysis(r, a, [copy[r][a] EXCEPT !.deleted = TRUE],
                            "cascade_find", "error")
    BY <1>3 DEF CascadeAnalysis
  <2>2. a \in Analyses
    BY DEF TypeOK
  <2>3. [copy[r][a] EXCEPT !.deleted = TRUE] \in AnalysisDoc
    <3>1. copy[r][a] \in AnalysisDoc
      BY <2>2 DEF TypeOK
    <3> QED
      BY <3>1 DEF AnalysisDoc
  <2>4. "cascade_find" \in Labels /\ "error" \in Labels
    BY DEF Labels, Answers
  <2>5. /\ analysis' \in [Analyses -> AnalysisDoc]
        /\ analysisHolders' \in [Analyses -> SUBSET Requests]
        /\ copy' \in [Requests -> [Analyses -> AnalysisDoc]]
        /\ pc' \in [Requests -> Labels]
    BY <2>1, <2>2, <2>3, <2>4, SaveAnalysisType
  <2>6. TypeOK'
    BY <1>3, <2>1, <2>2, <2>5 DEF CascadeAnalysis, TypeOK, resumeVars
  <2>7. Focus'
    BY <1>1, <1>3, <2>1, <2>2, <2>4, SaveAnalysisGoto, FocusStep
       DEF CascadeAnalysis, TypeOK
  <2> QED
    BY <2>6, <2>7
<1>4. CASE CascadeFind(r)
  <2>1. ana[r] \in Analyses
    BY <1>4 DEF CascadeFind, Focus, AboutAnalysis, ResumeOnly, Labels, Answers
  <2>2. seen' \in [Requests -> SUBSET Notes]
    BY <1>4, <2>1 DEF CascadeFind, TypeOK
  <2> QED
    BY <1>1, <1>4, <2>1, <2>2, OtherStepTyped DEF CascadeFind, TypeOK, Labels
<1>5. CASE CascadeClear(r)
  <2>1. PICK l \in {"cascade_resume", "cascade_next"} : Goto(r, l)
    BY <1>5 DEF CascadeClear
  <2>2. l \in Labels /\ l \notin AboutAnalysis
    BY DEF Labels, Answers, AboutAnalysis, ResumeOnly
  <2>3. bell' \in [Analyses -> SUBSET Notes]
    BY <1>5 DEF CascadeClear, TypeOK
  <2>4. batch' \in [Requests -> SUBSET Analyses]
    BY <1>5 DEF CascadeClear, TypeOK
  <2> QED
    BY <1>1, <1>5, <2>1, <2>2, <2>3, <2>4, OtherStepTyped DEF CascadeClear, TypeOK
<1> QED
  BY <1>2, <1>3, <1>4, <1>5

\* The three disjuncts of a step of the system.
LEMMA StepTyped ==
    ASSUME TypeOK, Focus, [Next]_vars
    PROVE  TypeOK' /\ Focus'
<1>1. CASE Serve
  <2>1. PICK r \in Requests : Arrive(r) \/ Continue(r)
    BY <1>1 DEF Serve
  <2> QED
    BY <2>1, ArriveTyped, PipelineTyped, ResumeSavesTyped, OtherStepsTyped, CascadeTyped
       DEF Continue
<1>2. CASE Crash
  <2>1. \A r \in Requests : pc'[r] \in {pc[r], "lost"}
    BY <1>2 DEF Crash
  <2>2. pc' \in [Requests -> Labels]
    BY <1>2 DEF Crash, TypeOK, Labels, Answers
  <2>3. TypeOK'
    BY <1>2, <2>2 DEF Crash, TypeOK, analysisVars, resumeVars, requestVars
  <2>4. "lost" \notin AboutAnalysis /\ "lost" \notin AboutResume
    BY AnswerLabels DEF Answers
  <2>5. Focus'
    BY <1>2, <2>1, <2>4 DEF Crash, Focus, requestVars
  <2> QED
    BY <2>3, <2>5
<1>3. CASE UNCHANGED vars
  BY <1>3 DEF vars, TypeOK, Focus, analysisVars, resumeVars, requestVars
<1> QED
  BY <1>1, <1>2, <1>3 DEF Next

LEMMA InitTyped ==
    ASSUME Init
    PROVE  TypeOK /\ Focus
<1>1. NewResume \in ResumeDoc
  BY DEF NewResume, ResumeDoc, Rollups
<1>2. "idle" \in Labels /\ "in_progress" \in Goals /\ 1 \in StepKey
  BY DEF Labels, Goals, StepKey
<1>3. TypeOK
  BY <1>1, <1>2, AbsentType DEF Init, DocumentsInit, TypeOK
<1>4. Focus
  BY DEF Init, DocumentsInit, Focus, AboutAnalysis, AboutResume
<1> QED
  BY <1>3, <1>4

\* Every variable keeps its type: the documents stay documents, whatever
\* the handlers save, and no handler is at a point the code does not have.
THEOREM TypeCorrect == Spec => []TypeOK
<1>1. Init => TypeOK /\ Focus
  BY InitTyped
<1>2. TypeOK /\ Focus /\ [Next]_vars => (TypeOK /\ Focus)'
  BY StepTyped
<1> QED
  BY <1>1, <1>2, PTL DEF Spec

---------------------------------------------------------------------------
(* What a step of a request does to the resumes. *)

\* The request keeps its resume, or has only just arrived.
LeavesResumes(r) ==
    /\ UNCHANGED resumeVars
    /\ pc[r] = "idle" \/ res'[r] = res[r]

Loads(r, x) ==
    /\ LoadResume(r, x)
    /\ res'[r] = x
    /\ pc[r] = "idle" \/ res[r] = x

\* A save that the store accepted: the copy it wrote was the stored document,
\* but for the content that an edit replaced.
SavesResume(r) ==
    /\ pc[r] # "idle"
    /\ UNCHANGED res
    /\ res[r] \in Resumes
    /\ r \in resumeHolders[res[r]]
    /\ \E doc \in ResumeDoc, kind \in WriteKinds :
        /\ StoreResume(r, res[r], doc, kind)
        /\ \/ doc.writes = resumeCopy[r].writes
           \/ /\ pc[r] = "edit_save" /\ kind = "edit"
              /\ \E shown \in pages[res[r]] : doc = Replaced(resumeCopy[r], shown)
        /\ doc.deleted <=> resumeCopy[r].deleted \/ kind = "delete"

ResumeEffect(r) ==
    /\ \E l \in Labels \ {"idle"} : Goto(r, l)
    /\ \A q \in Requests \ {r} : res'[q] = res[q]
    /\ LeavesResumes(r) \/ SavesResume(r) \/ \E x \in Resumes : Loads(r, x)

LEMMA SaveResumeEffect ==
    ASSUME TypeOK, NEW r \in Requests, NEW doc \in ResumeDoc, NEW kind \in WriteKinds,
           NEW saved \in Labels \ {"idle"}, NEW raised \in Labels \ {"idle"},
           SaveResume(r, res[r], doc, kind, saved, raised),
           \/ doc.writes = resumeCopy[r].writes
           \/ /\ pc[r] = "edit_save" /\ kind = "edit"
              /\ \E shown \in pages[res[r]] : doc = Replaced(resumeCopy[r], shown),
           doc.deleted <=> resumeCopy[r].deleted \/ kind = "delete",
           pc[r] # "idle", res[r] \in Resumes, UNCHANGED res
    PROVE  ResumeEffect(r)
  BY DEF SaveResume, ResumeEffect, LeavesResumes, SavesResume

LEMMA ArriveResumeEffect ==
    ASSUME TypeOK, NEW r \in Requests, Arrive(r)
    PROVE  ResumeEffect(r)
<1>1. pc[r] = "idle"
  BY DEF Arrive, CreateFind, RetryFind, CancelFind, VisitFind, DismissFind, ApplyFind,
         EditFind, DeleteFind, CascadeGet, AnalysisFind, ResumeFind
<1>2. CASE CreateFind(r)
  <2>1. PICK a \in Analyses :
            /\ res' = [res EXCEPT ![r] = ResumeOf[a]]
            /\ \/ Goto(r, "refused") /\ UNCHANGED resumeVars
               \/ LoadResume(r, ResumeOf[a]) /\ Goto(r, "create_count")
    BY <1>2 DEF CreateFind
  <2>2. ResumeOf[a] \in Resumes
    OBVIOUS
  <2>3. LeavesResumes(r) \/ Loads(r, ResumeOf[a])
    BY <1>1, <2>1, <2>2 DEF LeavesResumes, Loads, TypeOK
  <2>4. PICK l \in {"refused", "create_count"} : Goto(r, l)
    BY <2>1
  <2>5. l \in Labels \ {"idle"}
    BY DEF Labels, Answers
  <2>6. \A q \in Requests \ {r} : res'[q] = res[q]
    BY <2>1 DEF TypeOK
  <2> QED
    BY <2>2, <2>3, <2>4, <2>5, <2>6 DEF ResumeEffect
<1>3. CASE RetryFind(r) \/ CancelFind(r) \/ DismissFind(r) \/ ApplyFind(r)
  <2>1. PICK a \in Analyses,
             l \in {"error", "refused", "retry_save", "cancel_save", "dismiss_save",
                    "apply_resume"} :
            /\ res' = [res EXCEPT ![r] = ResumeOf[a]]
            /\ Goto(r, l)
    BY <1>3 DEF RetryFind, CancelFind, DismissFind, ApplyFind, AnalysisFind
  <2>2. UNCHANGED resumeVars
    BY <1>3 DEF RetryFind, CancelFind, DismissFind, ApplyFind, AnalysisFind
  <2> QED
    BY <1>1, <2>1, <2>2 DEF ResumeEffect, LeavesResumes, TypeOK, Labels, Answers
<1>4. CASE VisitFind(r)
  <2>1. PICK l \in {"error", "ok", "visit_clear"} : Goto(r, l)
    BY <1>4 DEF VisitFind
  <2> QED
    BY <1>1, <1>4, <2>1
       DEF VisitFind, NoteUnchanged, ResumeEffect, LeavesResumes, Labels, Answers
<1>5. CASE EditFind(r) \/ DeleteFind(r) \/ CascadeGet(r)
  <2>1. PICK x \in Resumes,
             l \in {"refused", "edit_save", "delete_save", "cascade_list"} :
            /\ res' = [res EXCEPT ![r] = x]
            /\ Goto(r, l)
            /\ UNCHANGED resumeVars \/ LoadResume(r, x)
    BY <1>5 DEF EditFind, DeleteFind, CascadeGet, ResumeFind
  <2> QED
    BY <1>1, <2>1 DEF ResumeEffect, LeavesResumes, Loads, TypeOK, Labels, Answers
<1> QED
  BY <1>2, <1>3, <1>4, <1>5 DEF Arrive

LEMMA ContinueResumeEffect ==
    ASSUME TypeOK, Focus, NEW r \in Requests, Continue(r)
    PROVE  ResumeEffect(r)
<1> DEFINE doc == resumeCopy[r]
<1>1. doc \in ResumeDoc /\ goal[r] \in Goals
  BY DEF TypeOK
<1>2. \A g \in Goals :
        /\ g \in WriteKinds /\ g # "delete"
        /\ [doc EXCEPT !.rollup = g] \in ResumeDoc
  BY <1>1 DEF ResumeDoc, Rollups, WriteKinds, Goals
<1>3. [doc EXCEPT !.deleted = TRUE] \in ResumeDoc
  BY <1>1 DEF ResumeDoc
<1>4. \A l \in {"begin", "note_find", "fail", "error", "ok", "conflict"} :
        l \in Labels \ {"idle"}
  BY DEF Labels, Answers
<1>5. /\ "apply" \in WriteKinds /\ "edit" \in WriteKinds
      /\ "rename" \in WriteKinds /\ "delete" \in WriteKinds
  BY DEF WriteKinds, ContentKinds
<1> DEFINE Saves == CreateRollup(r) \/ RollupSave(r) \/ ApplySave(r) \/ EditSave(r)
                    \/ DeleteSave(r) \/ CascadeResume(r)
<1>6. Saves => res[r] \in Resumes
  BY DEF CreateRollup, RollupSave, ApplySave, EditSave, DeleteSave, CascadeResume,
         Focus, AboutResume, Labels, Answers
<1>7. "in_progress" \in Goals
  BY DEF Goals
<1>8. CASE CreateRollup(r)
  BY <1>1, <1>2, <1>4, <1>7, <1>8, <1>6, SaveResumeEffect DEF CreateRollup, requestVars, ResumeDoc
<1>9. CASE RollupSave(r)
  BY <1>1, <1>2, <1>4, <1>9, <1>6, SaveResumeEffect DEF RollupSave, requestVars, ResumeDoc
<1>10. CASE ApplySave(r)
  BY <1>1, <1>4, <1>5, <1>10, <1>6, SaveResumeEffect DEF ApplySave, requestVars
<1>16. CASE EditSave(r)
  <2>1. pc[r] = "edit_save" /\ UNCHANGED res
    BY <1>16 DEF EditSave, requestVars
  <2>2. \A shown \in pages[res[r]] :
            /\ Replaced(doc, shown) \in ResumeDoc
            /\ Replaced(doc, shown).deleted = doc.deleted
    BY <1>1, <1>6, <1>16, ReplacedType DEF TypeOK
  <2>3. ASSUME NEW shown \in pages[res[r]],
               SaveResume(r, res[r], Replaced(doc, shown), "edit", "ok", "error")
        PROVE  ResumeEffect(r)
    <3> DEFINE new == Replaced(doc, shown)
    <3>1. new \in ResumeDoc /\ SaveResume(r, res[r], new, "edit", "ok", "error")
          /\ \E s \in pages[res[r]] : new = Replaced(resumeCopy[r], s)
          /\ (new.deleted <=> resumeCopy[r].deleted \/ "edit" = "delete")
      BY <2>2, <2>3
    <3> HIDE DEF new
    <3> QED
      BY <1>4, <1>5, <1>6, <1>16, <2>1, <3>1, SaveResumeEffect
  <2>4. CASE SaveResume(r, res[r], doc, "rename", "ok", "error")
    BY <1>1, <1>4, <1>5, <1>6, <1>16, <2>1, <2>4, SaveResumeEffect
  <2>5. CASE Goto(r, "conflict") /\ UNCHANGED resumeVars
    BY <1>4, <2>1, <2>5 DEF ResumeEffect, LeavesResumes
  <2> QED
    BY <1>16, <2>3, <2>4, <2>5 DEF EditSave
<1>11. CASE DeleteSave(r)
  BY <1>1, <1>3, <1>4, <1>5, <1>11, <1>6, SaveResumeEffect DEF DeleteSave, requestVars, ResumeDoc
<1>12. CASE CascadeResume(r)
  <2>1. CASE Goto(r, "ok") /\ UNCHANGED resumeVars
    BY <1>4, <1>12, <2>1 DEF CascadeResume, requestVars, ResumeEffect, LeavesResumes
  <2>2. CASE SaveResume(r, res[r], [doc EXCEPT !.deleted = TRUE], "delete", "ok", "error")
    BY <1>1, <1>3, <1>4, <1>5, <1>12, <1>6, <2>2, SaveResumeEffect
       DEF CascadeResume, requestVars, ResumeDoc
  <2> QED
    BY <1>12, <2>1, <2>2 DEF CascadeResume
<1>13. CASE RollupGet(r) \/ ApplyResume(r)
  <2>1. res[r] \in Resumes
    BY <1>13 DEF RollupGet, ApplyResume, Focus, AboutResume, Labels, Answers
  <2>2. PICK l \in {"rollup_save", "refused", "apply_analysis", "error"} :
            /\ Goto(r, l)
            /\ UNCHANGED resumeVars \/ LoadResume(r, res[r])
            /\ UNCHANGED res
    BY <1>13 DEF RollupGet, ApplyResume, requestVars
  <2> QED
    BY <2>1, <2>2 DEF ResumeEffect, LeavesResumes, Loads, Labels, Answers
<1>14. CASE \/ Begin(r) \/ StepStart(r) \/ StepDone(r) \/ StepFailed(r)
            \/ Complete(r) \/ Fail(r)
            \/ RetrySave(r) \/ CancelSave(r) \/ DismissSave(r) \/ ApplyAnalysis(r)
            \/ CascadeAnalysis(r)
  <2>1. UNCHANGED <<resumeVars, res>>
    BY <1>14 DEF Begin, StepStart, StepDone, StepFailed, Complete, Fail, RetrySave,
                 CancelSave, DismissSave, ApplyAnalysis, CascadeAnalysis, requestVars
  <2>2. PICK l \in {"note_find", "error", "llm", "fail", "complete", "step", "rollup_get",
                    "begin", "ok", "apply_save", "cascade_find"} : Goto(r, l)
    BY <1>14, SaveAnalysisGoto
       DEF Begin, StepStart, StepDone, StepFailed, Complete, Fail, RetrySave,
           CancelSave, DismissSave, ApplyAnalysis, CascadeAnalysis
  <2> QED
    BY <2>1, <2>2 DEF ResumeEffect, LeavesResumes, Labels, Answers
<1>15. CASE \/ CreateCount(r) \/ CreateInsert(r) \/ NoteFind(r) \/ NoteClear(r)
            \/ NoteInsert(r) \/ VisitClear(r) \/ CascadeList(r) \/ CascadeFind(r)
            \/ CascadeClear(r)
  <2>1. UNCHANGED <<resumeVars, res>>
    BY <1>15 DEF CreateCount, CreateInsert, NoteFind, NoteClear, NoteInsert, VisitClear,
                 CascadeList, CascadeFind, CascadeClear, NoteUnchanged, requestVars
  <2>2. PICK l \in {"refused", "create_insert", "create_rollup", "note_insert",
                    "note_clear", "ok", "step", "error", "fail", "cascade_resume",
                    "cascade_next", "cascade_clear"} : Goto(r, l)
    BY <1>1, <1>15
       DEF CreateCount, CreateInsert, NoteFind, NoteClear, NoteInsert, VisitClear,
           CascadeList, CascadeFind, CascadeClear, AfterNote, NoteRaised, Goals
  <2> QED
    BY <2>1, <2>2 DEF ResumeEffect, LeavesResumes, Labels, Answers
<1> QED
  BY <1>8, <1>9, <1>10, <1>11, <1>12, <1>13, <1>14, <1>15, <1>16 DEF Continue

\* Whatever the effect, a copy that holds the stored revision remains the
\* stored document, and the store loses nothing but the content that an edit
\* replaces.
LEMMA ResumeInvariants ==
    ASSUME TypeOK, ResumeCopies, WritesKept,
           NEW r \in Requests, ResumeEffect(r)
    PROVE  ResumeCopies' /\ WritesKept' /\ LosesNoWrite
<1>1. PICK l \in Labels \ {"idle"} : Goto(r, l)
  BY DEF ResumeEffect
<1>2. \A q \in Requests : pc'[q] = IF q = r THEN l ELSE pc[q]
  BY <1>1 DEF Goto, TypeOK
<1>3. \A q \in Requests \ {r} : res'[q] = res[q]
  BY DEF ResumeEffect
<1>4. CASE LeavesResumes(r)
  <2>1. ResumeCopies'
    BY <1>2, <1>3, <1>4 DEF LeavesResumes, ResumeCopies, TypeOK, resumeVars
  <2>2. WritesKept' /\ LosesNoWrite
    BY <1>4 DEF LeavesResumes, WritesKept, LosesNoWrite, resumeVars
  <2> QED
    BY <2>1, <2>2
<1>5. ASSUME NEW x \in Resumes, Loads(r, x)
      PROVE  ResumeCopies' /\ WritesKept' /\ LosesNoWrite
  <2>1. /\ resumeCopy' = [resumeCopy EXCEPT ![r] = resume[x]]
        /\ resumeHolders' = [resumeHolders EXCEPT ![x] = resumeHolders[x] \cup {r}]
        /\ resume' = resume /\ pages' = pages /\ accepted' = accepted
    BY <1>5 DEF Loads, LoadResume, Hold
  <2>2. SUFFICES ASSUME NEW y \in Resumes, NEW q \in resumeHolders'[y]
                 PROVE  pc'[q] # "idle" /\ res'[q] = y /\ resumeCopy'[q] = resume'[y]
    BY <2>1 DEF ResumeCopies, WritesKept, LosesNoWrite
  <2>3. q \in Requests
    BY <2>1 DEF TypeOK
  <2>4. CASE q = r
    <3>1. y = x
      BY <1>5, <2>1, <2>4 DEF Loads, ResumeCopies, TypeOK
    <3> QED
      BY <1>2, <1>5, <2>1, <2>4, <3>1 DEF Loads, TypeOK
  <2>5. CASE q # r
    <3>1. q \in resumeHolders[y]
      BY <2>1, <2>5 DEF TypeOK
    <3> QED
      BY <1>2, <1>3, <2>1, <2>3, <2>5, <3>1 DEF ResumeCopies, TypeOK
  <2> QED
    BY <2>4, <2>5
<1>6. ASSUME SavesResume(r)
      PROVE  ResumeCopies' /\ WritesKept' /\ LosesNoWrite
  <2>1. PICK doc \in ResumeDoc, kind \in WriteKinds :
            /\ StoreResume(r, res[r], doc, kind)
            /\ \/ doc.writes = resumeCopy[r].writes
               \/ /\ pc[r] = "edit_save" /\ kind = "edit"
                  /\ \E shown \in pages[res[r]] : doc = Replaced(resumeCopy[r], shown)
            /\ doc.deleted <=> resumeCopy[r].deleted \/ kind = "delete"
    BY <1>6 DEF SavesResume
  <2> DEFINE x == res[r]
             w == <<r, kind>>
             new == [doc EXCEPT !.writes = doc.writes \cup {w}]
  <2>2. /\ resume' = [resume EXCEPT ![x] = new]
        /\ resumeHolders' = [resumeHolders EXCEPT ![x] = {r}]
        /\ resumeCopy' = [resumeCopy EXCEPT ![r] = new]
        /\ pages' = [pages EXCEPT ![x] = pages[x] \cup {Content(new.writes)}]
        /\ accepted' = [accepted EXCEPT ![x] = accepted[x] \cup {w}]
    BY <2>1 DEF StoreResume
  <2>3. x \in Resumes /\ r \in resumeHolders[x] /\ res' = res
    BY <1>6 DEF SavesResume, TypeOK
  <2>4. resumeCopy[r] = resume[x]
    BY <2>3 DEF ResumeCopies
  <2>5. /\ new.writes = doc.writes \cup {w}
        /\ new.deleted <=> resume[x].deleted \/ kind = "delete"
    BY <2>1, <2>4 DEF ResumeDoc
  <2>8. \/ doc.writes = resume[x].writes
        \/ /\ pc[r] = "edit_save" /\ w = <<r, "edit">>
           /\ \E shown \in pages[x] :
                doc.writes = (resume[x].writes \ Content(resume[x].writes)) \cup shown
    <3>1. resume[x] \in ResumeDoc
      BY <2>3 DEF TypeOK
    <3>2. \A shown \in pages[x] : Replaced(resume[x], shown).writes =
                (resume[x].writes \ Content(resume[x].writes)) \cup shown
      BY <2>3, <3>1, ReplacedType DEF TypeOK
    <3> QED
      BY <2>1, <2>4, <3>2
  <2> HIDE DEF new, x, w
  <2>6. ASSUME NEW y \in Resumes, NEW q \in resumeHolders'[y]
        PROVE  pc'[q] # "idle" /\ res'[q] = y /\ resumeCopy'[q] = resume'[y]
    <3>1. CASE y = x
      <4>1. q = r
        BY <2>2, <2>3, <2>6, <3>1 DEF TypeOK
      <4> QED
        BY <1>2, <2>2, <2>3, <3>1, <4>1 DEF TypeOK, x
    <3>2. CASE y # x
      <4>1. q \in resumeHolders[y]
        BY <2>2, <2>6, <3>2 DEF TypeOK
      <4>2. q \in Requests /\ res[q] = y /\ pc[q] # "idle" /\ resumeCopy[q] = resume[y]
        BY <4>1 DEF ResumeCopies, TypeOK
      <4>3. q # r
        BY <3>2, <4>2 DEF x
      <4> QED
        BY <1>2, <2>2, <2>3, <3>2, <4>2, <4>3 DEF TypeOK
    <3> QED
      BY <3>1, <3>2
  <2>7. ASSUME NEW y \in Resumes
        PROVE  /\ resume'[y].writes \subseteq accepted'[y]
               /\ \A shown \in pages'[y] : shown \subseteq Content(accepted'[y])
               /\ accepted'[y] \ Content(accepted'[y]) \subseteq resume'[y].writes
    <3>1. CASE y = x
      <4>1. /\ resume'[y] = new /\ accepted'[y] = accepted[x] \cup {w}
            /\ pages'[y] = pages[x] \cup {Content(new.writes)}
        BY <2>2, <2>3, <3>1 DEF TypeOK
      <4>2. /\ resume[x].writes \subseteq accepted[x]
            /\ \A shown \in pages[x] : shown \subseteq Content(accepted[x])
            /\ accepted[x] \ Content(accepted[x]) \subseteq resume[x].writes
        BY <2>3 DEF WritesKept
      <4>3. new.writes \subseteq accepted[x] \cup {w}
        BY <2>5, <2>8, <4>2 DEF Content
      <4>4. \A shown \in pages'[y] : shown \subseteq Content(accepted'[y])
        BY <4>1, <4>2, <4>3 DEF Content
      <4>5. accepted'[y] \ Content(accepted'[y]) \subseteq new.writes
        BY <2>5, <2>8, <4>1, <4>2 DEF Content
      <4> QED
        BY <4>1, <4>3, <4>4, <4>5
    <3>2. CASE y # x
      BY <2>2, <3>2 DEF TypeOK, WritesKept
    <3> QED
      BY <3>1, <3>2
  <2>9. ASSUME NEW y \in Resumes
        PROVE  /\ resume[y].writes \ resume'[y].writes \subseteq
                     IF \E q \in Requests : pc[q] = "edit_save" /\ <<q, "edit">> \in accepted'[y]
                       THEN Content(resume[y].writes) ELSE {}
               /\ resume[y].deleted => resume'[y].deleted
    <3>1. CASE y = x
      <4>1. resume'[y] = new /\ accepted'[y] = accepted[x] \cup {w}
        BY <2>2, <2>3, <3>1 DEF TypeOK
      <4>2. CASE doc.writes = resume[x].writes
        BY <2>5, <3>1, <4>1, <4>2
      <4>3. CASE /\ pc[r] = "edit_save" /\ w = <<r, "edit">>
                 /\ \E shown \in pages[x] :
                      doc.writes = (resume[x].writes \ Content(resume[x].writes)) \cup shown
        <5>1. resume[y].writes \ resume'[y].writes \subseteq Content(resume[y].writes)
          BY <2>5, <3>1, <4>1, <4>3
        <5>2. pc[r] = "edit_save" /\ <<r, "edit">> \in accepted'[y]
          BY <4>1, <4>3
        <5> QED
          BY <2>5, <3>1, <4>1, <5>1, <5>2
      <4> QED
        BY <2>8, <4>2, <4>3
    <3>2. CASE y # x
      BY <2>2, <3>2 DEF TypeOK
    <3> QED
      BY <3>1, <3>2
  <2> QED
    BY <2>6, <2>7, <2>9 DEF ResumeCopies, WritesKept, LosesNoWrite
<1> QED
  BY <1>4, <1>5, <1>6 DEF ResumeEffect

ResumeInv == TypeOK /\ Focus /\ ResumeCopies /\ WritesKept

LEMMA ResumeInvInit == ASSUME Init PROVE ResumeInv
  BY InitTyped DEF Init, DocumentsInit, ResumeInv, ResumeCopies, WritesKept, NewResume

LEMMA ResumeInvStep == ASSUME ResumeInv, [Next]_vars PROVE ResumeInv' /\ LosesNoWrite
<1>1. TypeOK' /\ Focus'
  BY StepTyped DEF ResumeInv
<1>2. ResumeCopies' /\ WritesKept' /\ LosesNoWrite
  <2>1. CASE Serve
    BY <2>1, ArriveResumeEffect, ContinueResumeEffect, ResumeInvariants DEF Serve, ResumeInv
  <2>2. CASE Crash
    <3>1. \A r \in Requests : pc[r] # "idle" => pc'[r] # "idle"
      BY <2>2 DEF Crash
    <3>2. UNCHANGED <<resumeVars, res>>
      BY <2>2 DEF Crash, requestVars
    <3> QED
      BY <3>1, <3>2 DEF ResumeInv, ResumeCopies, WritesKept, LosesNoWrite, TypeOK, resumeVars
  <2>3. CASE UNCHANGED vars
    BY <2>3 DEF vars, resumeVars, requestVars, ResumeInv, ResumeCopies, WritesKept,
                  LosesNoWrite
  <2> QED
    BY <2>1, <2>2, <2>3 DEF Next
<1> QED
  BY <1>1, <1>2 DEF ResumeInv

\* No save of a resume takes away a write that was accepted before, although
\* each of them writes the whole document from a copy loaded some awaits
\* earlier: but for the json_resume that an update_resume replaces on purpose.
THEOREM NoResumeWriteLost == Spec => NoLostResumeWrite
<1>1. Init => ResumeInv
  BY ResumeInvInit
<1>2. ResumeInv /\ [Next]_vars => ResumeInv' /\ [LosesNoWrite]_vars
  BY ResumeInvStep
<1> QED
  BY <1>1, <1>2, PTL DEF Spec, NoLostResumeWrite

---------------------------------------------------------------------------
(* What a step of a request does to the analyses. *)

\* The collection is only read: whoever holds a revision held it before, or
\* has just loaded the stored document.
Reads(r) ==
    /\ analysis' = analysis
    /\ \A a \in Analyses : \A q \in analysisHolders'[a] :
        \/ q \in analysisHolders[a] /\ copy'[q][a] = copy[q][a]
        \/ q = r /\ copy'[q][a] = analysis[a] /\ analysis[a].status # "absent"

Inserts(r) ==
    /\ pc[r] = "create_insert"
    /\ UNCHANGED ana
    /\ StoreAnalysis(r, ana[r], [Absent EXCEPT !.status = "pending"])

\* What an accepted save may do to the status of the analysis.
StatusMove(r, a) ==
    \/ analysis'[a].status = analysis[a].status
    \/ /\ a = ana[r]
       /\ analysis'[a].deleted = analysis[a].deleted
       /\ \/ pc[r] = "complete" /\ analysis'[a].status = "completed"
          \/ pc[r] = "fail" /\ analysis'[a].status = "failed" /\ ~Running(r)'
          \/ pc[r] = "retry_save" /\ analysis'[a].status = "pending"
          \/ pc[r] = "cancel_save" /\ analysis'[a].status = "cancelled" /\ ~Running(r)'

Updates(r, a) ==
    /\ r \in analysisHolders[a]
    /\ \E doc \in AnalysisDoc : StoreAnalysis(r, a, doc)
    /\ analysis'[a].status # "absent"
    /\ analysis[a].deleted => analysis'[a].deleted
    /\ StatusMove(r, a)

\* A request runs the pipeline because it did before, or because it has just
\* inserted or reset the analysis.
RunMove(r) ==
    Running(r)' =>
        /\ UNCHANGED ana
        /\ \/ Running(r) /\ (UNCHANGED analysisVars \/ Updates(r, ana[r]))
           \/ Inserts(r)
           \/ /\ pc[r] = "retry_save"
              /\ Updates(r, ana[r])
              /\ analysis'[ana[r]].status = "pending"

\* What a request read that it will rely on.
RelyMove(r) ==
    /\ pc'[r] = "retry_save" => Reads(r) /\ analysis[ana'[r]].status = "failed"
    /\ pc'[r] = "cancel_save" => Reads(r) /\ analysis[ana'[r]].status = "pending"
    /\ pc'[r] = "create_count" =>
        /\ Reads(r)
        /\ analysis[ana'[r]].status = "absent"
        /\ \A q \in Requests \ {r} : ana[q] # ana'[r]
    /\ pc'[r] = "create_insert" => pc[r] = "create_count" /\ UNCHANGED <<analysisVars, ana>>

\* A request turns only to an analysis that exists or is nobody's.
AnaMove(r) ==
    \/ ana'[r] = ana[r]
    \/ ana'[r] \in Analyses /\ analysis[ana'[r]].status # "absent"
    \/ ana'[r] \in Analyses /\ \A q \in Requests : ana[q] # ana'[r]

AnalysisEffect(r) ==
    /\ \E l \in Labels : Goto(r, l)
    /\ \A q \in Requests \ {r} : ana'[q] = ana[q] /\ goal'[q] = goal[q] /\ batch'[q] = batch[q]
    /\ Reads(r) \/ Inserts(r) \/ \E a \in Analyses : Updates(r, a)
    /\ RunMove(r)
    /\ RelyMove(r)
    /\ AnaMove(r)
    /\ \A a \in batch'[r] : a \in batch[r] \/ analysis[a].status # "absent"

LEMMA ReadsNothing ==
    ASSUME NEW r \in Requests, UNCHANGED analysisVars
    PROVE  Reads(r)
  BY DEF Reads, analysisVars

LEMMA SaveAnalysisEffect ==
    ASSUME TypeOK, AnalysisCopies, NEW r \in Requests, NEW a \in Analyses, NEW doc,
           NEW saved, NEW raised, SaveAnalysis(r, a, doc, saved, raised)
    PROVE  \/ UNCHANGED analysisVars /\ Goto(r, raised)
           \/ /\ r \in analysisHolders[a]
              /\ copy[r][a] = analysis[a]
              /\ analysis[a].status # "absent"
              /\ StoreAnalysis(r, a, doc)
              /\ analysis'[a] = doc
              /\ Goto(r, saved)
  BY DEF SaveAnalysis, StoreAnalysis, AnalysisCopies, TypeOK

\* What the document of an accepted save may say.
NewStatus(r, doc) ==
    \/ doc.status = copy[r][ana[r]].status
    \/ pc[r] = "complete" /\ doc.status = "completed"
    \/ pc[r] = "fail" /\ doc.status = "failed" /\ ~Running(r)'
    \/ pc[r] = "retry_save" /\ doc.status = "pending"
    \/ pc[r] = "cancel_save" /\ doc.status = "cancelled" /\ ~Running(r)'

\* A save of the analysis the request is about.
LEMMA OwnSaveEffect ==
    ASSUME TypeOK, AnalysisCopies, NEW r \in Requests, ana[r] \in Analyses,
           NEW doc \in AnalysisDoc,
           NEW saved \in Labels \ {"retry_save", "cancel_save", "create_count", "create_insert"},
           NEW raised \in Labels \ {"retry_save", "cancel_save", "create_count", "create_insert"},
           SaveAnalysis(r, ana[r], doc, saved, raised),
           UNCHANGED <<ana, batch>>,
           \A q \in Requests \ {r} : goal'[q] = goal[q],
           doc.deleted = copy[r][ana[r]].deleted,
           NewStatus(r, doc),
           Running(r)' => \/ Running(r)
                          \/ /\ pc[r] = "retry_save" /\ doc.status = "pending"
                             /\ r \in analysisHolders[ana[r]]
    PROVE  AnalysisEffect(r)
<1> DEFINE a == ana[r]
<1>1. CASE UNCHANGED analysisVars /\ Goto(r, raised) /\ r \notin analysisHolders[a]
  <2>1. Reads(r)
    BY <1>1, ReadsNothing
  <2>2. RunMove(r)
    BY <1>1 DEF RunMove
  <2>3. RelyMove(r)
    BY <1>1 DEF RelyMove, Goto, TypeOK
  <2> QED
    BY <1>1, <2>1, <2>2, <2>3 DEF AnalysisEffect, AnaMove
<1>2. CASE /\ r \in analysisHolders[a]
           /\ copy[r][a] = analysis[a]
           /\ analysis[a].status # "absent"
           /\ StoreAnalysis(r, a, doc)
           /\ analysis'[a] = doc
           /\ Goto(r, saved)
  <2>1. Updates(r, a)
    BY <1>2 DEF Updates, StatusMove, NewStatus
  <2>2. RunMove(r)
    BY <1>2, <2>1 DEF RunMove
  <2>3. RelyMove(r)
    BY <1>2 DEF RelyMove, Goto, TypeOK
  <2> QED
    BY <1>2, <2>1, <2>2, <2>3 DEF AnalysisEffect, AnaMove
<1> QED
  BY <1>1, <1>2, SaveAnalysisEffect DEF SaveAnalysis, AnalysisCopies, StoreAnalysis, TypeOK

\* A step of the pipeline that leaves the analyses alone.
LEMMA QuietEffect ==
    ASSUME TypeOK, NEW r \in Requests,
           NEW l \in Labels \ {"retry_save", "cancel_save", "create_count", "create_insert"},
           Goto(r, l), UNCHANGED <<analysisVars, ana, goal>>,
           \A q \in Requests \ {r} : batch'[q] = batch[q],
           batch'[r] \subseteq batch[r],
           Running(r)' => Running(r)
    PROVE  AnalysisEffect(r)
<1>1. Reads(r)
  BY ReadsNothing
<1>2. RunMove(r)
  BY DEF RunMove
<1>3. RelyMove(r)
  BY DEF RelyMove, Goto, TypeOK
<1> QED
  BY <1>1, <1>2, <1>3 DEF AnalysisEffect, AnaMove

\* The steps that save the analysis of the request.
LEMMA PipelineEffect ==
    ASSUME TypeOK, Focus, AnalysisCopies, NEW r \in Requests,
           \/ Begin(r) \/ StepStart(r) \/ StepDone(r) \/ StepFailed(r)
           \/ Complete(r) \/ Fail(r)
           \/ RetrySave(r) \/ CancelSave(r) \/ DismissSave(r) \/ ApplyAnalysis(r)
    PROVE  AnalysisEffect(r)
<1> DEFINE doc == copy[r][ana[r]]
           Plain == Labels \ {"retry_save", "cancel_save", "create_count", "create_insert"}
<1>1. ana[r] \in Analyses
  BY DEF Begin, StepStart, StepDone, StepFailed, Complete, Fail, RetrySave, CancelSave,
         DismissSave, ApplyAnalysis, Focus, AboutAnalysis, ResumeOnly, Labels, Answers
<1>2. doc \in AnalysisDoc /\ step[r] \in StepKey
  BY <1>1 DEF TypeOK
<1>3. \A l \in {"note_find", "error", "llm", "fail", "complete", "step", "rollup_get",
                "begin", "ok", "apply_save"} : l \in Plain
  BY DEF Labels, Answers
<1>4. \A s \in StepStatus :
        /\ WithStep(doc, step[r], s) \in AnalysisDoc
        /\ WithStep(doc, step[r], s).status = doc.status
        /\ WithStep(doc, step[r], s).deleted = doc.deleted
  BY <1>2, WithStepType DEF WithStep, AnalysisDoc
<1>5. UNCHANGED <<ana, batch>> /\ \A q \in Requests \ {r} : goal'[q] = goal[q]
  BY DEF Begin, StepStart, StepDone, StepFailed, Complete, Fail, RetrySave, CancelSave,
         DismissSave, ApplyAnalysis, requestVars, TypeOK
<1> HIDE DEF doc, Plain
<1>6. CASE Begin(r) \/ DismissSave(r)
  <2>1. PICK saved \in {"note_find", "ok"} :
            /\ SaveAnalysis(r, ana[r], doc, saved, "error")
            /\ saved = "note_find" => pc[r] = "begin"
    BY <1>6 DEF Begin, DismissSave, doc
  <2>2. NewStatus(r, doc)
    BY DEF NewStatus, doc
  <2>3. Running(r)' => Running(r)
    BY <2>1, SaveAnalysisGoto DEF Running, Goto, TypeOK
  <2> QED
    BY <1>1, <1>2, <1>3, <1>5, <2>1, <2>2, <2>3, OwnSaveEffect DEF doc, Plain
<1>7. CASE StepStart(r) \/ StepDone(r) \/ StepFailed(r)
  <2>1. PICK s \in StepStatus, saved \in {"llm", "complete", "step", "fail"} :
            SaveAnalysis(r, ana[r], WithStep(doc, step[r], s), saved, "fail")
    BY <1>7 DEF StepStart, StepDone, StepFailed, StepStatus, doc
  <2>2. NewStatus(r, WithStep(doc, step[r], s))
    BY <1>4 DEF NewStatus, doc
  <2>3. Running(r)
    BY <1>7 DEF StepStart, StepDone, StepFailed, Running
  <2> QED
    BY <1>1, <1>3, <1>4, <1>5, <2>1, <2>2, <2>3, OwnSaveEffect DEF doc, Plain
<1>8. CASE Complete(r)
  <2> DEFINE new == [doc EXCEPT !.status = "completed", !.result = "full", !.applied = FALSE]
  <2>1. SaveAnalysis(r, ana[r], new, "rollup_get", "fail") /\ pc[r] = "complete"
    BY <1>8 DEF Complete, doc
  <2>2. /\ new \in AnalysisDoc
        /\ new.status = "completed"
        /\ new.deleted = doc.deleted
    BY <1>2 DEF AnalysisDoc, AnalysisStatus, ResultState
  <2> HIDE DEF new
  <2>3. NewStatus(r, new) /\ Running(r)
    BY <2>1, <2>2 DEF NewStatus, Running
  <2> QED
    BY <1>1, <1>3, <1>5, <2>1, <2>2, <2>3, OwnSaveEffect DEF doc, Plain
<1>9. CASE Fail(r)
  <2>1. PICK result \in ResultState :
            SaveAnalysis(r, ana[r], [doc EXCEPT !.status = "failed", !.result = result,
                                                !.applied = @ /\ result = "full"],
                         "rollup_get", "error")
    BY <1>2, <1>9 DEF Fail, doc, ResultState, AnalysisDoc
  <2> DEFINE new == [doc EXCEPT !.status = "failed", !.result = result,
                                !.applied = @ /\ result = "full"]
  <2>2. /\ new \in AnalysisDoc
        /\ new.status = "failed"
        /\ new.deleted = doc.deleted
    BY <1>2 DEF AnalysisDoc, AnalysisStatus
  <2>3. SaveAnalysis(r, ana[r], new, "rollup_get", "error")
    BY <2>1
  <2> HIDE DEF new
  <2>4. pc[r] = "fail" /\ goal'[r] = "failed"
    BY <1>9 DEF Fail, TypeOK
  <2>5. pc'[r] \in {"rollup_get", "error"}
    BY <2>3, SaveAnalysisGoto DEF Goto, TypeOK
  <2>6. ~Running(r)'
    BY <2>4, <2>5 DEF Running
  <2>7. NewStatus(r, new)
    BY <2>2, <2>4, <2>6 DEF NewStatus
  <2> QED
    BY <1>1, <1>3, <1>5, <2>2, <2>3, <2>6, <2>7, OwnSaveEffect DEF doc, Plain
<1>10. CASE RetrySave(r)
  <2>1. PICK saved \in {"error", "begin"} :
            SaveAnalysis(r, ana[r], Reset(doc), saved, "error") /\ pc[r] = "retry_save"
    BY <1>10 DEF RetrySave, doc
  <2>2. /\ Reset(doc) \in AnalysisDoc
        /\ Reset(doc).status = "pending"
        /\ Reset(doc).deleted = doc.deleted
    BY <1>2, ResetType DEF Reset, AnalysisDoc
  <2>3. Running(r)' => r \in analysisHolders[ana[r]]
    BY <2>1 DEF SaveAnalysis, Running, Goto, TypeOK
  <2>4. NewStatus(r, Reset(doc))
    BY <2>1, <2>2 DEF NewStatus
  <2> QED
    BY <1>1, <1>3, <1>5, <2>1, <2>2, <2>3, <2>4, OwnSaveEffect DEF doc, Plain
<1>11. CASE CancelSave(r)
  <2> DEFINE new == [doc EXCEPT !.status = "cancelled"]
  <2>1. SaveAnalysis(r, ana[r], new, "ok", "error") /\ pc[r] = "cancel_save"
    BY <1>11 DEF CancelSave, doc
  <2>2. /\ new \in AnalysisDoc
        /\ new.status = "cancelled"
        /\ new.deleted = doc.deleted
    BY <1>2 DEF AnalysisDoc, AnalysisStatus
  <2> HIDE DEF new
  <2>3. ~Running(r)'
    BY <2>1, SaveAnalysisGoto DEF Running, Goto, TypeOK
  <2>4. NewStatus(r, new)
    BY <2>1, <2>2, <2>3 DEF NewStatus
  <2> QED
    BY <1>1, <1>3, <1>5, <2>1, <2>2, <2>3, <2>4, OwnSaveEffect DEF doc, Plain
<1>12. CASE ApplyAnalysis(r)
  <2> DEFINE new == [doc EXCEPT !.applied = TRUE]
  <2>1. SaveAnalysis(r, ana[r], new, "apply_save", "error")
    BY <1>12 DEF ApplyAnalysis, doc
  <2>2. /\ new \in AnalysisDoc
        /\ new.status = doc.status
        /\ new.deleted = doc.deleted
    BY <1>2 DEF AnalysisDoc
  <2> HIDE DEF new
  <2>3. ~Running(r)'
    BY <2>1, SaveAnalysisGoto DEF Running, Goto, TypeOK
  <2>4. NewStatus(r, new)
    BY <2>2 DEF NewStatus, doc
  <2> QED
    BY <1>1, <1>3, <1>5, <2>1, <2>2, <2>3, <2>4, OwnSaveEffect DEF doc, Plain
<1> QED
  BY <1>6, <1>7, <1>8, <1>9, <1>10, <1>11, <1>12

\* The steps that leave the analyses alone.
LEMMA BookkeepingEffect ==
    ASSUME TypeOK, Focus, NEW r \in Requests,
           \/ CreateRollup(r) \/ RollupGet(r) \/ RollupSave(r)
           \/ NoteFind(r) \/ NoteClear(r) \/ NoteInsert(r) \/ VisitClear(r)
           \/ ApplyResume(r) \/ ApplySave(r) \/ EditSave(r) \/ DeleteSave(r)
           \/ CascadeFind(r) \/ CascadeClear(r) \/ CascadeResume(r)
    PROVE  AnalysisEffect(r)
<1> DEFINE Plain == Labels \ {"retry_save", "cancel_save", "create_count", "create_insert"}
<1>1. /\ UNCHANGED <<analysisVars, ana, goal>>
      /\ \A q \in Requests \ {r} : batch'[q] = batch[q]
      /\ batch'[r] \subseteq batch[r]
  BY DEF CreateRollup, RollupGet, RollupSave, NoteFind, NoteClear, NoteInsert, VisitClear,
         ApplyResume, ApplySave, EditSave, DeleteSave, CascadeFind, CascadeClear,
         CascadeResume, NoteUnchanged, requestVars, TypeOK
<1>2. goal[r] \in Goals
  BY DEF TypeOK
<1>3. CASE CreateRollup(r) \/ RollupGet(r) \/ RollupSave(r)
           \/ NoteFind(r) \/ NoteClear(r) \/ NoteInsert(r)
  <2>1. PICK l \in {"begin", "error", "rollup_save", "note_find", "fail", "note_insert",
                    "note_clear", "step", "ok"} :
            /\ Goto(r, l)
            /\ l \in {"rollup_save", "note_find", "note_insert", "note_clear"} =>
                    pc[r] \in {"rollup_get", "rollup_save", "note_find", "note_clear"}
            /\ l = "begin" => pc[r] = "create_rollup"
            /\ l = "step" => pc[r] = "note_insert" /\ goal[r] = "in_progress"
            /\ l = "fail" => /\ pc[r] \in {"note_insert", "rollup_save"}
                             /\ goal[r] = "completed"
    BY <1>2, <1>3, SaveResumeGoto
       DEF CreateRollup, RollupGet, RollupSave, NoteFind, NoteClear, NoteInsert,
           AfterNote, NoteRaised, Goals
  <2>2. l \in Plain
    BY DEF Labels, Answers
  <2>3. Running(r)' => Running(r)
    BY <1>1, <2>1 DEF Running, Goto, TypeOK
  <2> QED
    BY <1>1, <2>1, <2>2, <2>3, QuietEffect
<1>4. CASE VisitClear(r) \/ ApplyResume(r) \/ ApplySave(r) \/ EditSave(r) \/ DeleteSave(r)
           \/ CascadeFind(r) \/ CascadeClear(r) \/ CascadeResume(r)
  <2>1. PICK l \in {"ok", "refused", "apply_analysis", "conflict", "error",
                    "cascade_clear", "cascade_resume", "cascade_next"} : Goto(r, l)
    BY <1>4, SaveResumeGoto
       DEF VisitClear, ApplyResume, ApplySave, EditSave, DeleteSave, CascadeFind,
           CascadeClear, CascadeResume
  <2>2. l \in Plain
    BY DEF Labels, Answers
  <2>3. ~Running(r)'
    BY <2>1 DEF Running, Goto, TypeOK
  <2> QED
    BY <1>1, <2>1, <2>2, <2>3, QuietEffect
<1> QED
  BY <1>3, <1>4

\* The steps of a creation, and the two steps of a cascade that touch the
\* analyses.
LEMMA CreateCascadeEffect ==
    ASSUME TypeOK, Focus, AnalysisCopies, BatchExists, NEW r \in Requests,
           CreateCount(r) \/ CreateInsert(r) \/ CascadeList(r) \/ CascadeAnalysis(r)
    PROVE  AnalysisEffect(r)
<1>1. CASE CreateCount(r)
  <2>1. PICK l \in {"refused", "create_insert"} : Goto(r, l) /\ pc[r] = "create_count"
    BY <1>1 DEF CreateCount
  <2>2. UNCHANGED <<analysisVars, ana, goal, batch>>
    BY <1>1 DEF CreateCount, requestVars
  <2>3. l \in Labels
    BY DEF Labels, Answers
  <2>4. pc'[r] = l
    BY <2>1 DEF Goto, TypeOK
  <2>5. RunMove(r)
    BY <2>4 DEF RunMove, Running
  <2>6. RelyMove(r)
    BY <2>1, <2>2, <2>4 DEF RelyMove
  <2> QED
    BY <2>1, <2>2, <2>3, <2>5, <2>6, ReadsNothing DEF AnalysisEffect, AnaMove
<1>2. CASE CreateInsert(r)
  <2>1. Goto(r, "create_rollup") /\ UNCHANGED <<ana, goal, batch>>
    BY <1>2 DEF CreateInsert, requestVars
  <2>2. Inserts(r)
    BY <1>2, <2>1 DEF CreateInsert, Inserts
  <2>3. RunMove(r) /\ RelyMove(r)
    BY <2>1, <2>2 DEF RunMove, RelyMove, Goto, TypeOK
  <2> QED
    BY <2>1, <2>2, <2>3 DEF AnalysisEffect, AnaMove, Labels
<1>3. CASE CascadeList(r)
  <2> DEFINE found == LiveAnalysesOf(res[r])
  <2>1. PICK l \in {"error", "cascade_resume", "cascade_next"} : Goto(r, l)
    BY <1>3 DEF CascadeList
  <2>2. UNCHANGED <<analysis, ana, goal>>
    BY <1>3 DEF CascadeList
  <2>3. \A a \in found : a \in Analyses /\ analysis[a].status # "absent"
    BY DEF LiveAnalysesOf, Live
  <2>4. /\ \A q \in Requests \ {r} : batch'[q] = batch[q]
        /\ \A a \in batch'[r] : a \in batch[r] \/ analysis[a].status # "absent"
    BY <1>3, <2>3 DEF CascadeList, TypeOK
  <2>5. Reads(r)
    <3> SUFFICES ASSUME NEW a \in Analyses, NEW q \in analysisHolders'[a]
                 PROVE  \/ q \in analysisHolders[a] /\ copy'[q][a] = copy[q][a]
                        \/ q = r /\ copy'[q][a] = analysis[a] /\ analysis[a].status # "absent"
      BY <2>2 DEF Reads
    <3>1. CASE UNCHANGED <<analysisHolders, copy>>
      BY <3>1
    <3>2. CASE /\ analysisHolders' =
                     [b \in Analyses |-> IF b \in found THEN analysisHolders[b] \cup {r}
                                        ELSE analysisHolders[b]]
               /\ copy' = [copy EXCEPT ![r] =
                     [b \in Analyses |-> IF b \in found THEN analysis[b] ELSE copy[r][b]]]
      <4>1. q \in analysisHolders[a] \/ (q = r /\ a \in found)
        BY <3>2
      <4>2. q # r => copy'[q][a] = copy[q][a]
        BY <3>2, <4>1 DEF TypeOK
      <4>3. copy'[r][a] = IF a \in found THEN analysis[a] ELSE copy[r][a]
        BY <3>2 DEF TypeOK
      <4> QED
        BY <2>3, <4>1, <4>2, <4>3
    <3> QED
      BY <1>3, <3>1, <3>2 DEF CascadeList
  <2>6. pc'[r] = l /\ l \in Labels
    BY <2>1 DEF Goto, TypeOK, Labels, Answers
  <2>7. RunMove(r) /\ RelyMove(r)
    BY <2>6 DEF RunMove, RelyMove, Running
  <2> QED
    BY <2>1, <2>2, <2>4, <2>5, <2>6, <2>7 DEF AnalysisEffect, AnaMove
<1>4. CASE CascadeAnalysis(r)
  <2>1. PICK a \in batch[r] :
            /\ ana' = [ana EXCEPT ![r] = a]
            /\ SaveAnalysis(r, a, [copy[r][a] EXCEPT !.deleted = TRUE],
                            "cascade_find", "error")
    BY <1>4 DEF CascadeAnalysis
  <2>2. a \in Analyses /\ analysis[a].status # "absent"
    BY DEF TypeOK, BatchExists
  <2> DEFINE new == [copy[r][a] EXCEPT !.deleted = TRUE]
  <2>3. copy[r][a] \in AnalysisDoc
    BY <2>2 DEF TypeOK
  <2>4. /\ new \in AnalysisDoc
        /\ new.status = copy[r][a].status
        /\ new.deleted = TRUE
    BY <2>3 DEF AnalysisDoc
  <2>5. SaveAnalysis(r, a, new, "cascade_find", "error")
    BY <2>1
  <2> HIDE DEF new
  <2>6. UNCHANGED <<goal, batch>>
    BY <1>4 DEF CascadeAnalysis
  <2>7. PICK l \in {"cascade_find", "error"} : Goto(r, l)
    BY <2>5, SaveAnalysisGoto
  <2>8. pc'[r] = l /\ l \in Labels
    BY <2>7 DEF Goto, TypeOK, Labels, Answers
  <2>9. RunMove(r) /\ RelyMove(r)
    BY <2>8 DEF RunMove, RelyMove, Running
  <2>10. Reads(r) \/ Updates(r, a)
    BY <2>2, <2>4, <2>5, SaveAnalysisEffect, ReadsNothing DEF Updates, StatusMove
  <2>11. AnaMove(r) /\ \A q \in Requests \ {r} : ana'[q] = ana[q]
    BY <2>1, <2>2 DEF AnaMove, TypeOK
  <2> QED
    BY <2>2, <2>6, <2>7, <2>8, <2>9, <2>10, <2>11 DEF AnalysisEffect
<1> QED
  BY <1>1, <1>2, <1>3, <1>4

\* The queries with which a request begins.
LEMMA ArriveEffect ==
    ASSUME TypeOK, Focus, NEW r \in Requests, Arrive(r)
    PROVE  AnalysisEffect(r)
<1>1. UNCHANGED <<analysis, goal, batch>>
  BY DEF Arrive, CreateFind, RetryFind, CancelFind, VisitFind, DismissFind, ApplyFind,
         EditFind, DeleteFind, CascadeGet, AnalysisFind, ResumeFind, LoadAnalysis,
         NoteUnchanged, analysisVars
<1>2. CASE CreateFind(r)
  <2>1. PICK a \in Analyses :
            /\ analysis[a].status = "absent"
            /\ \A q \in Requests : ana[q] # a
            /\ ana' = [ana EXCEPT ![r] = a]
            /\ Goto(r, "refused") \/ Goto(r, "create_count")
    BY <1>2 DEF CreateFind
  <2>2. UNCHANGED analysisVars
    BY <1>2 DEF CreateFind
  <2>3. Reads(r)
    BY <2>2, ReadsNothing
  <2>4. PICK l \in {"refused", "create_count"} : Goto(r, l)
    BY <2>1
  <2>5. pc'[r] = l /\ l \in Labels /\ ana'[r] = a
    BY <2>1, <2>4 DEF Goto, TypeOK, Labels, Answers
  <2>6. RunMove(r)
    BY <2>5 DEF RunMove, Running
  <2>7. RelyMove(r)
    BY <2>1, <2>3, <2>5 DEF RelyMove
  <2>8. AnaMove(r) /\ \A q \in Requests \ {r} : ana'[q] = ana[q]
    BY <2>1, <2>5 DEF AnaMove, TypeOK
  <2> QED
    BY <1>1, <2>3, <2>4, <2>5, <2>6, <2>7, <2>8 DEF AnalysisEffect
<1>3. CASE RetryFind(r) \/ CancelFind(r) \/ DismissFind(r) \/ ApplyFind(r)
  <2>1. PICK a \in Analyses,
             l \in {"error", "refused", "retry_save", "cancel_save", "dismiss_save",
                    "apply_resume"} :
            /\ Live(a)
            /\ ana' = [ana EXCEPT ![r] = a]
            /\ Goto(r, l)
            /\ UNCHANGED analysisVars \/ LoadAnalysis(r, a)
            /\ l = "retry_save" => analysis[a].status = "failed"
            /\ l = "cancel_save" => analysis[a].status = "pending"
    BY <1>3 DEF RetryFind, CancelFind, DismissFind, ApplyFind, AnalysisFind,
                IsFailed, IsPending
  <2>2. Reads(r)
    <3>1. CASE LoadAnalysis(r, a)
      <4>1. /\ copy' = [copy EXCEPT ![r] = [copy[r] EXCEPT ![a] = analysis[a]]]
            /\ analysisHolders' = [analysisHolders EXCEPT ![a] = analysisHolders[a] \cup {r}]
        BY <3>1 DEF LoadAnalysis, Hold
      <4>2. ASSUME NEW b \in Analyses, NEW q \in analysisHolders'[b]
            PROVE  \/ q \in analysisHolders[b] /\ copy'[q][b] = copy[q][b]
                   \/ q = r /\ copy'[q][b] = analysis[b] /\ analysis[b].status # "absent"
        <5>1. CASE q = r /\ b = a
          BY <2>1, <4>1, <5>1 DEF Live, TypeOK
        <5>2. CASE q # r \/ b # a
          BY <4>1, <5>2 DEF TypeOK
        <5> QED
          BY <5>1, <5>2
      <4> QED
        BY <1>1, <4>2 DEF Reads
    <3> QED
      BY <2>1, <3>1, ReadsNothing
  <2>3. pc'[r] = l /\ l \in Labels /\ ana'[r] = a
    BY <2>1 DEF Goto, TypeOK, Labels, Answers
  <2>4. RunMove(r)
    BY <2>3 DEF RunMove, Running
  <2>5. RelyMove(r)
    BY <2>1, <2>2, <2>3 DEF RelyMove
  <2>6. AnaMove(r) /\ \A q \in Requests \ {r} : ana'[q] = ana[q]
    BY <2>1, <2>3 DEF AnaMove, Live, TypeOK
  <2> QED
    BY <1>1, <2>1, <2>2, <2>3, <2>4, <2>5, <2>6 DEF AnalysisEffect
<1>4. CASE VisitFind(r)
  <2>1. PICK a \in Analyses, l \in {"error", "ok", "visit_clear"} :
            Live(a) /\ ana' = [ana EXCEPT ![r] = a] /\ Goto(r, l)
    BY <1>4 DEF VisitFind
  <2>2. Reads(r)
    BY <1>4, ReadsNothing DEF VisitFind, NoteUnchanged
  <2>3. pc'[r] = l /\ l \in Labels /\ ana'[r] = a
    BY <2>1 DEF Goto, TypeOK, Labels, Answers
  <2>4. RunMove(r) /\ RelyMove(r)
    BY <2>3 DEF RunMove, RelyMove, Running
  <2>5. AnaMove(r) /\ \A q \in Requests \ {r} : ana'[q] = ana[q]
    BY <2>1, <2>3 DEF AnaMove, Live, TypeOK
  <2> QED
    BY <1>1, <2>1, <2>2, <2>3, <2>4, <2>5 DEF AnalysisEffect
<1>5. CASE EditFind(r) \/ DeleteFind(r) \/ CascadeGet(r)
  <2>1. PICK l \in {"refused", "edit_save", "delete_save", "cascade_list"} : Goto(r, l)
    BY <1>5 DEF EditFind, DeleteFind, CascadeGet, ResumeFind
  <2>2. UNCHANGED <<analysisVars, ana>>
    BY <1>5 DEF EditFind, DeleteFind, CascadeGet, ResumeFind
  <2>3. l \in Labels \ {"retry_save", "cancel_save", "create_count", "create_insert"}
    BY DEF Labels, Answers
  <2>4. ~Running(r)'
    BY <2>1 DEF Running, Goto, TypeOK
  <2> QED
    BY <1>1, <2>1, <2>2, <2>3, <2>4, QuietEffect
<1> QED
  BY <1>2, <1>3, <1>4, <1>5 DEF Arrive

LEMMA ServeEffect ==
    ASSUME TypeOK, Focus, AnalysisCopies, BatchExists, NEW r \in Requests,
           Arrive(r) \/ Continue(r)
    PROVE  AnalysisEffect(r)
  BY ArriveEffect, PipelineEffect, BookkeepingEffect, CreateCascadeEffect DEF Continue

---------------------------------------------------------------------------
(* The effects keep the invariants about the analyses. *)

\* A write makes its writer the only holder and its copy the document.
LEMMA StoreFacts ==
    ASSUME TypeOK, NEW r \in Requests, NEW a \in Analyses, NEW doc,
           StoreAnalysis(r, a, doc)
    PROVE  /\ analysis'[a] = doc
           /\ \A b \in Analyses \ {a} : analysis'[b] = analysis[b]
           /\ analysisHolders'[a] = {r}
           /\ \A b \in Analyses \ {a} : analysisHolders'[b] = analysisHolders[b]
           /\ copy'[r][a] = doc
           /\ \A q \in Requests, b \in Analyses :
                (q # r \/ b # a) => copy'[q][b] = copy[q][b]
<1>1. copy' = [copy EXCEPT ![r] = [copy[r] EXCEPT ![a] = doc]]
  BY DEF StoreAnalysis
<1>2. copy[r] \in [Analyses -> AnalysisDoc]
  BY DEF TypeOK
<1>3. copy'[r] = [copy[r] EXCEPT ![a] = doc] /\ \A q \in Requests \ {r} : copy'[q] = copy[q]
  BY <1>1 DEF TypeOK
<1> QED
  BY <1>2, <1>3 DEF StoreAnalysis, TypeOK

LEMMA CopiesStep ==
    ASSUME TypeOK, Focus, AnalysisCopies, NEW r \in Requests, AnalysisEffect(r)
    PROVE  AnalysisCopies'
<1>1. CASE Reads(r)
  BY <1>1 DEF Reads, AnalysisCopies
<1>2. ASSUME NEW a \in Analyses, NEW doc, StoreAnalysis(r, a, doc), doc.status # "absent"
      PROVE  AnalysisCopies'
  <2> SUFFICES ASSUME NEW b \in Analyses, NEW q \in analysisHolders'[b]
               PROVE  copy'[q][b] = analysis'[b] /\ analysis'[b].status # "absent"
    BY DEF AnalysisCopies
  <2>1. CASE b = a
    BY <1>2, <2>1, StoreFacts
  <2>2. CASE b # a
    <3>1. q \in analysisHolders[b] /\ q \in Requests
      BY <1>2, <2>2, StoreFacts DEF TypeOK
    <3> QED
      BY <1>2, <2>2, <3>1, StoreFacts DEF AnalysisCopies
  <2> QED
    BY <2>1, <2>2
<1>3. CASE Inserts(r)
  <2>1. ana[r] \in Analyses
    BY <1>3 DEF Inserts, Focus, AboutAnalysis, ResumeOnly, Labels, Answers
  <2>2. [Absent EXCEPT !.status = "pending"].status # "absent"
    BY DEF Absent
  <2> QED
    BY <1>2, <1>3, <2>1, <2>2 DEF Inserts
<1>4. ASSUME NEW a \in Analyses, Updates(r, a) PROVE AnalysisCopies'
  BY <1>2, <1>4, StoreFacts DEF Updates
<1> QED
  BY <1>1, <1>3, <1>4 DEF AnalysisEffect

\* No step makes an analysis absent or revives it, and none cancels or
\* completes an analysis that is not the request's own.
LEMMA StatusFacts ==
    ASSUME TypeOK, Focus, NEW r \in Requests, AnalysisEffect(r), NEW a \in Analyses
    PROVE  \/ analysis'[a] = analysis[a]
           \/ /\ Inserts(r) /\ a = ana[r]
              /\ analysis'[a] = [Absent EXCEPT !.status = "pending"]
              /\ analysisHolders'[a] = {r}
           \/ Updates(r, a) /\ analysisHolders'[a] = {r}
<1>1. CASE Reads(r)
  BY <1>1 DEF Reads
<1>2. CASE Inserts(r)
  <2>1. ana[r] \in Analyses
    BY <1>2 DEF Inserts, Focus, AboutAnalysis, ResumeOnly, Labels, Answers
  <2> QED
    BY <1>2, <2>1, StoreFacts DEF Inserts
<1>3. ASSUME NEW b \in Analyses, Updates(r, b)
      PROVE  analysis'[a] = analysis[a] \/ (Updates(r, a) /\ analysisHolders'[a] = {r})
  BY <1>3, StoreFacts DEF Updates
<1> QED
  BY <1>1, <1>2, <1>3 DEF AnalysisEffect

\* Who still holds a revision after another's step held it before, and the
\* document is the same.
LEMMA CurrentStep ==
    ASSUME TypeOK, Focus, NEW r \in Requests, AnalysisEffect(r), NEW q \in Requests \ {r},
           NEW a \in Analyses, q \in analysisHolders'[a]
    PROVE  q \in analysisHolders[a] /\ analysis'[a] = analysis[a]
<1>1. analysis'[a] = analysis[a]
  BY StatusFacts
<1>2. CASE Reads(r)
  BY <1>1, <1>2 DEF Reads
<1>3. ASSUME NEW b \in Analyses, NEW doc, StoreAnalysis(r, b, doc)
      PROVE  q \in analysisHolders[a]
  BY <1>3, StoreFacts
<1>4. CASE Inserts(r)
  <2>1. ana[r] \in Analyses
    BY <1>4 DEF Inserts, Focus, AboutAnalysis, ResumeOnly, Labels, Answers
  <2> QED
    BY <1>1, <1>3, <1>4, <2>1 DEF Inserts
<1> QED
  BY <1>1, <1>2, <1>3, <1>4 DEF AnalysisEffect, Updates

LEMMA ExistenceStep ==
    ASSUME TypeOK, Focus, AbsentIsLive, BatchExists, NEW r \in Requests, AnalysisEffect(r),
           TypeOK'
    PROVE  AbsentIsLive' /\ BatchExists'
<1>1. [Absent EXCEPT !.status = "pending"].status = "pending"
  BY DEF Absent
<1>2. \A a \in Analyses :
        \/ analysis'[a] = analysis[a]
        \/ analysis'[a].status # "absent"
  BY <1>1, StatusFacts DEF Updates
<1>3. AbsentIsLive'
  BY <1>2 DEF AbsentIsLive
<1>4. BatchExists'
  <2> SUFFICES ASSUME NEW q \in Requests, NEW a \in batch'[q]
               PROVE  analysis'[a].status # "absent"
    BY DEF BatchExists
  <2>1. a \in Analyses
    BY DEF TypeOK
  <2>2. a \in batch[q] \/ analysis[a].status # "absent"
    BY DEF AnalysisEffect
  <2>3. analysis[a].status # "absent"
    BY <2>2 DEF BatchExists
  <2> QED
    BY <1>2, <2>1, <2>3
<1> QED
  BY <1>3, <1>4

LEMMA ReservedStep ==
    ASSUME TypeOK, Focus, AnalysisCopies, Reserved, NEW r \in Requests, AnalysisEffect(r),
           TypeOK', Focus'
    PROVE  Reserved'
<1> SUFFICES ASSUME NEW q \in Requests, pc'[q] \in {"create_count", "create_insert"}
             PROVE  /\ analysis'[ana'[q]].status = "absent"
                    /\ \A p \in Requests : ana'[p] = ana'[q] => p = q
  BY DEF Reserved
<1>1. ana'[q] \in Analyses
  BY DEF Focus, AboutAnalysis, ResumeOnly, Labels, Answers
<1>2. \A p \in Requests \ {r} : ana'[p] = ana[p] /\ pc'[p] = pc[p]
  BY DEF AnalysisEffect, Goto, TypeOK
<1>3. CASE q = r
  <2>1. CASE pc'[r] = "create_count"
    BY <1>2, <1>3, <2>1 DEF AnalysisEffect, RelyMove, Reads
  <2>2. CASE pc'[r] = "create_insert"
    BY <1>2, <1>3, <2>2 DEF AnalysisEffect, RelyMove, Reserved, analysisVars, TypeOK
  <2> QED
    BY <1>3, <2>1, <2>2
<1>4. CASE q # r
  <2>1. /\ pc[q] \in {"create_count", "create_insert"}
        /\ ana'[q] = ana[q]
        /\ analysis[ana[q]].status = "absent"
        /\ \A p \in Requests : ana[p] = ana[q] => p = q
    BY <1>2, <1>4 DEF Reserved
  <2>2. ana'[r] # ana[q]
    BY <1>4, <2>1 DEF AnalysisEffect, AnaMove
  <2>3. analysis'[ana[q]] = analysis[ana[q]]
    <3>1. ~Updates(r, ana[q])
      BY <1>1, <2>1 DEF Updates, AnalysisCopies
    <3>2. ~(Inserts(r) /\ ana[q] = ana[r])
      BY <1>4, <2>1
    <3> QED
      BY <1>1, <2>1, <3>1, <3>2, StatusFacts
  <2> QED
    BY <1>2, <2>1, <2>2, <2>3
<1> QED
  BY <1>3, <1>4

\* What becomes of the status of the analysis of a running request.
LEMMA RunnerStep ==
    ASSUME TypeOK, Focus, AnalysisCopies, Reserved, RunnerStatus, RunnerCurrent, OneRunner,
           NEW r \in Requests, AnalysisEffect(r), TypeOK', Focus'
    PROVE  RunnerStatus' /\ RunnerCurrent' /\ OneRunner'
<1>1. \A q \in Requests \ {r} :
        ana'[q] = ana[q] /\ pc'[q] = pc[q] /\ goal'[q] = goal[q]
  BY DEF AnalysisEffect, Goto, TypeOK
<1>2. \A q \in Requests \ {r} : Running(q)' <=> Running(q)
  BY <1>1 DEF Running
<1>3. \A q \in Requests : Running(q) => ana[q] \in Analyses
  BY DEF Running, Focus, AboutAnalysis, ResumeOnly, Labels, Answers
<1>4. \A q \in Requests : Running(q)' => ana'[q] \in Analyses
  BY DEF Running, Focus, AboutAnalysis, ResumeOnly, Labels, Answers
<1>5. [Absent EXCEPT !.status = "pending"].status = "pending"
  BY DEF Absent
<1>6. RunMove(r)
  BY DEF AnalysisEffect
\* The request whose reset is accepted finds the analysis failed.
<1>7. \A a \in Analyses : pc[r] = "retry_save" /\ a = ana[r] /\ Updates(r, a)
                            => analysis[a].status = "failed"
  BY DEF Updates, RunnerCurrent, Current
<1>8. pc[r] \in {"complete", "fail"} => Running(r)
  BY DEF Running
<1>9. Inserts(r) => analysis'[ana[r]].status = "pending" /\ ana'[r] = ana[r]
  <2> SUFFICES ASSUME Inserts(r) PROVE analysis'[ana[r]].status = "pending"
    BY DEF Inserts
  <2> DEFINE doc == [Absent EXCEPT !.status = "pending"]
  <2>1. ana[r] \in Analyses
    BY DEF Inserts, Focus, AboutAnalysis, ResumeOnly, Labels, Answers
  <2>2. StoreAnalysis(r, ana[r], doc)
    BY DEF Inserts
  <2> HIDE DEF doc
  <2>3. analysis'[ana[r]] = doc
    BY <2>1, <2>2, StoreFacts
  <2> QED
    BY <1>5, <2>3 DEF doc
<1>10. RunnerStatus'
  <2> SUFFICES ASSUME NEW q \in Requests, Running(q)'
               PROVE  analysis'[ana'[q]].status \in {"pending", "completed", "cancelled"}
    BY DEF RunnerStatus
  <2>1. CASE q = r
    <3>1. CASE Running(r) /\ UNCHANGED ana /\ UNCHANGED analysisVars
      BY <2>1, <3>1 DEF RunnerStatus, analysisVars
    <3>2. CASE Running(r) /\ UNCHANGED ana /\ Updates(r, ana[r])
      BY <2>1, <3>2 DEF RunnerStatus, Updates, StatusMove
    <3>3. CASE UNCHANGED ana /\ Inserts(r)
      BY <1>9, <2>1, <3>3
    <3>4. CASE UNCHANGED ana /\ analysis'[ana[r]].status = "pending"
      BY <2>1, <3>4
    <3> QED
      BY <1>6, <2>1, <3>1, <3>2, <3>3, <3>4 DEF RunMove
  <2>2. CASE q # r
    <3> DEFINE a == ana[q]
    <3>1. /\ Running(q) /\ ana'[q] = a /\ a \in Analyses
          /\ analysis[a].status \in {"pending", "completed", "cancelled"}
      BY <1>1, <1>2, <1>3, <2>2 DEF RunnerStatus
    <3>2. CASE analysis'[a] = analysis[a]
      BY <3>1, <3>2
    <3>3. CASE Inserts(r) /\ a = ana[r]
      BY <2>2, <3>3 DEF Inserts, Reserved
    <3>4. CASE Updates(r, a)
      <4>1. ~(pc[r] = "fail" /\ a = ana[r])
        BY <1>8, <2>2, <3>1 DEF OneRunner
      <4> QED
        BY <3>1, <3>4, <4>1 DEF Updates, StatusMove
    <3> QED
      BY <3>1, <3>2, <3>3, <3>4, StatusFacts
  <2> QED
    BY <2>1, <2>2
<1>11. OneRunner'
  <2>1. ASSUME NEW q \in Requests \ {r}, Running(r)', Running(q)', ana'[r] = ana'[q]
        PROVE  FALSE
    <3>1. Running(q) /\ ana[q] = ana[r] /\ ana[r] \in Analyses
      BY <1>1, <1>2, <1>3, <1>6, <2>1 DEF RunMove
    <3>2. CASE Running(r)
      BY <2>1, <3>1, <3>2 DEF OneRunner
    <3>3. CASE Inserts(r)
      BY <2>1, <3>1, <3>3 DEF Inserts, Reserved
    <3>4. CASE pc[r] = "retry_save" /\ Updates(r, ana[r])
      BY <1>7, <3>1, <3>4 DEF RunnerStatus
    <3> QED
      BY <1>6, <2>1, <3>2, <3>3, <3>4 DEF RunMove
  <2>2. ASSUME NEW p \in Requests \ {r}, NEW q \in Requests \ {r},
               Running(p)', Running(q)', ana'[p] = ana'[q]
        PROVE  p = q
    BY <1>1, <1>2, <2>2 DEF OneRunner
  <2> QED
    BY <2>1, <2>2 DEF OneRunner
<1>12. RunnerCurrent'
  <2>1. ASSUME NEW q \in Requests \ {r}, ana[q] \in Analyses, Current(q)'
        PROVE  Current(q) /\ analysis'[ana[q]] = analysis[ana[q]]
    BY <1>1, <2>1, CurrentStep DEF Current
  <2>2. ASSUME NEW q \in Requests, Running(q)', Current(q)'
        PROVE  analysis'[ana'[q]].status # "cancelled"
    <3>1. CASE q # r
      BY <1>1, <1>2, <1>3, <2>1, <2>2, <3>1 DEF RunnerCurrent
    <3>2. CASE q = r
      <4>1. CASE Running(r) /\ UNCHANGED ana /\ UNCHANGED analysisVars
        BY <2>2, <3>2, <4>1 DEF RunnerCurrent, Current, analysisVars
      <4>2. CASE Running(r) /\ UNCHANGED ana /\ Updates(r, ana[r])
        <5>1. analysis[ana[r]].status # "cancelled"
          BY <4>2 DEF RunnerCurrent, Current, Updates
        <5> QED
          BY <2>2, <3>2, <4>2, <5>1 DEF Updates, StatusMove
      <4>3. CASE UNCHANGED ana /\ Inserts(r)
        BY <1>9, <3>2, <4>3
      <4>4. CASE UNCHANGED ana /\ analysis'[ana[r]].status = "pending"
        BY <3>2, <4>4
      <4> QED
        BY <1>6, <2>2, <3>2, <4>1, <4>2, <4>3, <4>4 DEF RunMove
    <3> QED
      BY <3>1, <3>2
  <2>3. ASSUME NEW q \in Requests, NEW l \in {"retry_save", "cancel_save"},
               pc'[q] = l, Current(q)'
        PROVE  analysis'[ana'[q]].status = IF l = "retry_save" THEN "failed" ELSE "pending"
    <3>1. CASE q # r
      <4>1. ana[q] \in Analyses /\ pc[q] = l
        BY <1>1, <2>3, <3>1 DEF Focus, AboutAnalysis, ResumeOnly, Labels, Answers
      <4> QED
        BY <1>1, <2>1, <2>3, <3>1, <4>1 DEF RunnerCurrent
    <3>2. CASE q = r
      BY <2>3, <3>2 DEF AnalysisEffect, RelyMove, Reads
    <3> QED
      BY <3>1, <3>2
  <2> QED
    BY <2>2, <2>3 DEF RunnerCurrent
<1> QED
  BY <1>10, <1>11, <1>12

---------------------------------------------------------------------------
(* The inductive invariant and the theorems. *)

LEMMA IInvInit == ASSUME Init PROVE IInv
<1>1. TypeOK /\ Focus /\ ResumeCopies /\ WritesKept
  BY ResumeInvInit DEF ResumeInv
<1>2. AnalysisCopies /\ Reserved /\ BatchExists
  BY DEF Init, DocumentsInit, AnalysisCopies, Reserved, BatchExists
<1>3. AbsentIsLive
  BY DEF Init, DocumentsInit, AbsentIsLive, Absent
<1>4. \A r \in Requests : ~Running(r)
  BY DEF Init, DocumentsInit, Running
<1>5. RunnerStatus /\ OneRunner /\ RunnerCurrent
  BY <1>4 DEF Init, DocumentsInit, RunnerStatus, OneRunner, RunnerCurrent
<1> QED
  BY <1>1, <1>2, <1>3, <1>5 DEF IInv

LEMMA IInvStep == ASSUME IInv, [Next]_vars PROVE IInv'
<1>1. TypeOK' /\ Focus' /\ ResumeCopies' /\ WritesKept'
  BY ResumeInvStep DEF ResumeInv, IInv
<1>2. CASE Serve
  <2>1. PICK r \in Requests : Arrive(r) \/ Continue(r)
    BY <1>2 DEF Serve
  <2>2. AnalysisEffect(r)
    BY <2>1, ServeEffect DEF IInv
  <2> QED
    BY <1>1, <2>2, CopiesStep, ExistenceStep, ReservedStep, RunnerStep DEF IInv
<1>3. CASE Crash
  <2>1. \A r \in Requests : pc'[r] \in {pc[r], "lost"}
    BY <1>3 DEF Crash
  <2>2. UNCHANGED <<analysisVars, ana, goal, batch>>
    BY <1>3 DEF Crash, requestVars
  <2>3. \A r \in Requests : Running(r)' => Running(r)
    BY <2>1, <2>2 DEF Running
  <2>4. AnalysisCopies' /\ Reserved' /\ AbsentIsLive' /\ BatchExists'
    BY <2>1, <2>2 DEF IInv, AnalysisCopies, Reserved, AbsentIsLive, BatchExists, analysisVars
  <2>5. RunnerStatus' /\ OneRunner'
    BY <2>2, <2>3 DEF IInv, RunnerStatus, OneRunner, analysisVars
  <2>6. RunnerCurrent'
    BY <2>1, <2>2, <2>3 DEF IInv, RunnerCurrent, Current, analysisVars
  <2> QED
    BY <1>1, <2>4, <2>5, <2>6 DEF IInv
<1>4. CASE UNCHANGED vars
  <2>1. UNCHANGED <<analysisVars, pc, ana, goal, batch>>
    BY <1>4 DEF vars, requestVars
  <2>2. AnalysisCopies' /\ Reserved' /\ AbsentIsLive' /\ BatchExists'
    BY <2>1 DEF IInv, AnalysisCopies, Reserved, AbsentIsLive, BatchExists, analysisVars
  <2>3. RunnerStatus' /\ OneRunner' /\ RunnerCurrent'
    BY <2>1 DEF IInv, RunnerStatus, OneRunner, RunnerCurrent, Current, Running, analysisVars
  <2> QED
    BY <1>1, <2>2, <2>3 DEF IInv
<1> QED
  BY <1>2, <1>3, <1>4 DEF Next

\* The invariant holds in every reachable state.
THEOREM Invariance == Spec => []IInv
  BY IInvInit, IInvStep, PTL DEF Spec

\* The paid steps of an analysis are never run by two requests at once: the
\* insert and the reset of an analysis each find it without a runner.
THEOREM OneRunnerAtATime == Spec => []OneRunner
<1>1. IInv => OneRunner
  BY DEF IInv
<1> QED
  BY <1>1, Invariance, PTL

\* No step takes an analysis out of its cancelled or its deleted state.
LEMMA FinalStep ==
    ASSUME IInv, [Next]_vars, NEW a \in Analyses
    PROVE  /\ analysis[a].status = "cancelled" => analysis'[a].status = "cancelled"
           /\ analysis[a].deleted => analysis'[a].deleted
<1>1. CASE Serve
  <2>1. PICK r \in Requests : Arrive(r) \/ Continue(r)
    BY <1>1 DEF Serve
  <2>2. AnalysisEffect(r)
    BY <2>1, ServeEffect DEF IInv
  <2>3. CASE analysis'[a] = analysis[a]
    BY <2>3
  <2>4. CASE Inserts(r) /\ a = ana[r]
    <3>1. analysis[a].status = "absent" /\ ~analysis[a].deleted
      BY <2>4 DEF IInv, Inserts, Reserved, AbsentIsLive
    <3> QED
      BY <3>1
  <2>5. CASE Updates(r, a)
    <3>1. a = ana[r] /\ Running(r) => analysis[a].status # "cancelled"
      BY <2>5 DEF IInv, RunnerCurrent, Current, Updates
    <3>2. pc[r] \in {"complete", "fail"} => Running(r)
      BY DEF Running
    <3>3. a = ana[r] /\ pc[r] = "retry_save" => analysis[a].status = "failed"
      BY <2>5 DEF IInv, RunnerCurrent, Current, Updates
    <3> QED
      BY <2>5, <3>1, <3>2, <3>3 DEF Updates, StatusMove
  <2> QED
    BY <2>2, <2>3, <2>4, <2>5, StatusFacts DEF IInv
<1>2. CASE Crash
  BY <1>2 DEF Crash, analysisVars
<1>3. CASE UNCHANGED vars
  BY <1>3 DEF vars, analysisVars
<1> QED
  BY <1>1, <1>2, <1>3 DEF Next

\* Cancelled stays cancelled and deleted stays deleted: a pipeline, a retry
\* or a dismissal that loaded the analysis before cannot write it after.
THEOREM CancellationIsFinal == Spec => CancelledIsFinal
<1>1. IInv /\ [Next]_vars =>
        [\A a \in Analyses :
            /\ analysis[a].status = "cancelled" => analysis'[a].status = "cancelled"
            /\ analysis[a].deleted => analysis'[a].deleted]_vars
  BY FinalStep
<1> QED
  BY <1>1, Invariance, PTL DEF Spec, CancelledIsFinal

---------------------------------------------------------------------------
(* What every step of a request has in common. *)

\* A request that was answered takes no further step.
LEMMA NotAnswered ==
    ASSUME NEW r \in Requests, Arrive(r) \/ Continue(r)
    PROVE  pc[r] \notin Answers
<1>1. CASE Arrive(r)
  BY <1>1 DEF Arrive, CreateFind, RetryFind, CancelFind, VisitFind, DismissFind, ApplyFind,
              EditFind, DeleteFind, CascadeGet, AnalysisFind, ResumeFind, Answers
<1>2. CASE Continue(r)
  BY <1>2 DEF Continue, CreateCount, CreateInsert, CreateRollup, Begin, StepStart, StepDone,
              StepFailed, Complete, Fail, RollupGet, RollupSave, NoteFind, NoteClear,
              NoteInsert, VisitClear, RetrySave, CancelSave, DismissSave, ApplyResume,
              ApplyAnalysis, ApplySave, EditSave, DeleteSave, CascadeList, CascadeAnalysis,
              CascadeFind, CascadeClear, CascadeResume, Answers
<1> QED
  BY <1>1, <1>2

\* A step leaves what the other requests have in memory alone.
LEMMA OthersStay ==
    ASSUME TypeOK, Focus, AnalysisCopies, BatchExists, NEW r \in Requests,
           Arrive(r) \/ Continue(r), NEW q \in Requests \ {r}
    PROVE  /\ pc'[q] = pc[q] /\ ana'[q] = ana[q] /\ res'[q] = res[q]
           /\ goal'[q] = goal[q] /\ step'[q] = step[q] /\ batch'[q] = batch[q]
           /\ copy'[q] = copy[q]
<1>1. AnalysisEffect(r)
  BY ServeEffect
<1>2. ResumeEffect(r)
  BY ArriveResumeEffect, ContinueResumeEffect
<1>3. step'[q] = step[q]
  BY DEF Arrive, CreateFind, RetryFind, CancelFind, VisitFind, DismissFind, ApplyFind,
         EditFind, DeleteFind, CascadeGet, AnalysisFind, ResumeFind,
         Continue, CreateCount, CreateInsert, CreateRollup, Begin, StepStart, StepDone,
         StepFailed, Complete, Fail, RollupGet, RollupSave, NoteFind, NoteClear,
         NoteInsert, VisitClear, RetrySave, CancelSave, DismissSave, ApplyResume,
         ApplyAnalysis, ApplySave, EditSave, DeleteSave, CascadeList, CascadeAnalysis,
         CascadeFind, CascadeClear, CascadeResume, requestVars, TypeOK
<1>4. copy'[q] = copy[q]
  <2>1. ASSUME NEW a, NEW doc, NEW saved, NEW raised, SaveAnalysis(r, a, doc, saved, raised)
        PROVE  copy'[q] = copy[q]
    BY <2>1 DEF SaveAnalysis, StoreAnalysis, analysisVars, TypeOK
  <2>2. CASE Arrive(r)
    BY <2>2 DEF Arrive, CreateFind, RetryFind, CancelFind, VisitFind, DismissFind, ApplyFind,
         EditFind, DeleteFind, CascadeGet, AnalysisFind, ResumeFind, LoadAnalysis,
         NoteUnchanged, analysisVars, TypeOK
  <2>3. CASE Begin(r) \/ StepStart(r) \/ StepDone(r) \/ StepFailed(r) \/ Complete(r) \/ Fail(r)
             \/ RetrySave(r) \/ CancelSave(r) \/ DismissSave(r) \/ ApplyAnalysis(r)
             \/ CascadeAnalysis(r)
    BY <2>1, <2>3 DEF Begin, StepStart, StepDone, StepFailed, Complete, Fail, RetrySave,
                      CancelSave, DismissSave, ApplyAnalysis, CascadeAnalysis
  <2>4. CASE CreateInsert(r) \/ CascadeList(r)
    BY <2>4 DEF CreateInsert, CascadeList, StoreAnalysis, TypeOK
  <2>5. CASE CreateCount(r) \/ CreateRollup(r) \/ RollupGet(r) \/ RollupSave(r)
             \/ NoteFind(r) \/ NoteClear(r) \/ NoteInsert(r) \/ VisitClear(r)
             \/ ApplyResume(r) \/ ApplySave(r) \/ EditSave(r) \/ DeleteSave(r)
             \/ CascadeFind(r) \/ CascadeClear(r) \/ CascadeResume(r)
    BY <2>5 DEF CreateCount, CreateRollup, RollupGet, RollupSave, NoteFind, NoteClear,
                NoteInsert, VisitClear, ApplyResume, ApplySave, EditSave, DeleteSave,
                CascadeFind, CascadeClear, CascadeResume, NoteUnchanged, analysisVars
  <2> QED
    BY <2>2, <2>3, <2>4, <2>5 DEF Continue
<1> QED
  BY <1>1, <1>2, <1>3, <1>4 DEF AnalysisEffect, ResumeEffect, Goto, TypeOK

\* What a save of the request's own analysis does to it.
LEMMA OwnSave ==
    ASSUME TypeOK, AnalysisCopies, NEW r \in Requests, ana[r] \in Analyses, NEW doc,
           NEW saved, NEW raised, SaveAnalysis(r, ana[r], doc, saved, raised), ana' = ana
    PROVE  \/ pc'[r] = raised /\ UNCHANGED analysisVars /\ ~Current(r)'
           \/ /\ pc'[r] = saved
              /\ Current(r)
              /\ copy[r][ana[r]] = analysis[ana[r]]
              /\ analysis'[ana[r]] = doc
              /\ \A b \in Analyses \ {ana[r]} : analysis'[b] = analysis[b]
<1>1. CASE r \in analysisHolders[ana[r]] /\ StoreAnalysis(r, ana[r], doc) /\ Goto(r, saved)
  BY <1>1, StoreFacts DEF Current, AnalysisCopies, Goto, TypeOK
<1>2. CASE r \notin analysisHolders[ana[r]] /\ UNCHANGED analysisVars /\ Goto(r, raised)
  BY <1>2 DEF Current, Goto, analysisVars, TypeOK
<1> QED
  BY <1>1, <1>2 DEF SaveAnalysis

---------------------------------------------------------------------------
(* What a request reports. *)

LEMMA GoalStep ==
    ASSUME TypeOK, Focus, AnalysisCopies, BatchExists, GoalKnown, NEW r \in Requests,
           Arrive(r) \/ Continue(r)
    PROVE  GoalKnown'
<1>1. \A q \in Requests \ {r} : pc'[q] = pc[q] /\ goal'[q] = goal[q]
  BY OthersStay
<1>2. pc[r] \in Labels /\ goal[r] \in Goals
  BY DEF TypeOK
<1>3. CASE Arrive(r)
  <2>1. pc[r] = "idle" /\ goal' = goal
    BY <1>3 DEF Arrive, CreateFind, RetryFind, CancelFind, VisitFind, DismissFind, ApplyFind,
         EditFind, DeleteFind, CascadeGet, AnalysisFind, ResumeFind, NoteUnchanged
  <2>2. goal'[r] = "in_progress"
    BY <2>1 DEF GoalKnown, Labels, Answers
  <2>3. pc'[r] \notin {"rollup_get", "rollup_save"}
    BY <1>3 DEF Arrive, CreateFind, RetryFind, CancelFind, VisitFind, DismissFind, ApplyFind,
         EditFind, DeleteFind, CascadeGet, AnalysisFind, ResumeFind, Goto, TypeOK
  <2> QED
    BY <1>1, <2>2, <2>3 DEF GoalKnown, Goals
<1>4. CASE Complete(r) \/ Fail(r) \/ RollupGet(r) \/ RollupSave(r) \/ NoteFind(r) \/ NoteClear(r)
           \/ NoteInsert(r)
  <2>1. CASE Complete(r)
    <3>1. goal[r] = "in_progress"
      BY <2>1 DEF Complete, GoalKnown, Labels, Answers
    <3>2. \/ pc'[r] = "fail" /\ goal'[r] = "in_progress"
          \/ pc'[r] = "rollup_get" /\ goal'[r] = "completed"
      BY <2>1, <3>1, SaveAnalysisGoto DEF Complete, Goto, TypeOK
    <3> QED
      BY <1>1, <3>2 DEF GoalKnown
  <2>2. CASE Fail(r)
    <3>1. pc'[r] \in {"rollup_get", "error"} /\ goal'[r] = "failed"
      BY <2>2, SaveAnalysisGoto DEF Fail, Goto, TypeOK
    <3> QED
      BY <1>1, <3>1 DEF GoalKnown, Answers
  <2>3. CASE RollupGet(r) \/ RollupSave(r)
    <3>1. goal[r] # "in_progress" /\ goal' = goal
      BY <2>3 DEF RollupGet, RollupSave, GoalKnown, requestVars
    <3>2. \/ pc'[r] \in {"rollup_save", "note_find", "error"}
          \/ pc'[r] = "fail" /\ goal[r] = "completed"
      BY <2>3, SaveResumeGoto DEF RollupGet, RollupSave, Goto, TypeOK
    <3> QED
      BY <1>1, <3>1, <3>2 DEF GoalKnown, Answers
  <2>4. CASE NoteFind(r) \/ NoteClear(r)
    <3>1. pc'[r] \in {"note_clear", "note_insert"} /\ goal' = goal
      BY <2>4 DEF NoteFind, NoteClear, Goto, TypeOK, requestVars
    <3> QED
      BY <1>1, <3>1 DEF GoalKnown
  <2>5. CASE NoteInsert(r)
    <3>1. /\ goal' = goal
          /\ \/ pc'[r] \in {"ok", "error"}
             \/ pc'[r] = "step" /\ goal[r] = "in_progress"
             \/ pc'[r] = "fail" /\ goal[r] = "completed"
      BY <1>2, <2>5 DEF NoteInsert, AfterNote, NoteRaised, Goto, TypeOK, requestVars, Goals
    <3> QED
      BY <1>1, <3>1 DEF GoalKnown, Answers
  <2> QED
    BY <1>4, <2>1, <2>2, <2>3, <2>4, <2>5
<1>5. CASE CreateCount(r) \/ CreateInsert(r) \/ CreateRollup(r) \/ Begin(r) \/ StepStart(r)
           \/ StepDone(r) \/ StepFailed(r) \/ RetrySave(r) \/ CancelSave(r) \/ DismissSave(r)
           \/ ApplyAnalysis(r) \/ VisitClear(r) \/ ApplyResume(r) \/ ApplySave(r)
           \/ EditSave(r) \/ DeleteSave(r) \/ CascadeList(r) \/ CascadeAnalysis(r)
           \/ CascadeFind(r) \/ CascadeClear(r) \/ CascadeResume(r)
  <2>1. pc[r] \in Labels \ ({"fail", "rollup_get", "rollup_save", "note_find",
                             "note_clear", "note_insert"} \cup Answers)
    BY <1>5 DEF CreateCount, CreateInsert, CreateRollup, Begin, StepStart, StepDone, StepFailed,
         RetrySave, CancelSave, DismissSave, ApplyAnalysis, VisitClear, ApplyResume, ApplySave,
         EditSave, DeleteSave, CascadeList, CascadeAnalysis, CascadeFind, CascadeClear,
         CascadeResume, Labels, Answers
  <2>2. goal'[r] = "in_progress"
    <3>1. goal[r] = "in_progress"
      BY <2>1 DEF GoalKnown
    <3> QED
      BY <1>5, <3>1
      DEF CreateCount, CreateInsert, CreateRollup, Begin, StepStart, StepDone, StepFailed,
         RetrySave, CancelSave, DismissSave, ApplyAnalysis, VisitClear, ApplyResume, ApplySave,
         EditSave, DeleteSave, CascadeList, CascadeAnalysis, CascadeFind, CascadeClear,
         CascadeResume, requestVars, TypeOK
  <2>3. pc'[r] \notin {"rollup_get", "rollup_save"}
    <3>1. CASE Begin(r) \/ StepStart(r) \/ StepDone(r) \/ StepFailed(r) \/ RetrySave(r)
               \/ CancelSave(r) \/ DismissSave(r) \/ ApplyAnalysis(r) \/ CascadeAnalysis(r)
      <4>1. PICK l \in {"note_find", "error", "llm", "fail", "complete", "step", "begin", "ok",
                        "apply_save", "cascade_find"} : Goto(r, l)
        BY <3>1, SaveAnalysisGoto
        DEF Begin, StepStart, StepDone, StepFailed, RetrySave, CancelSave, DismissSave,
            ApplyAnalysis, CascadeAnalysis
      <4> QED
        BY <4>1 DEF Goto, TypeOK
    <3>2. CASE CreateRollup(r) \/ ApplySave(r) \/ EditSave(r) \/ DeleteSave(r) \/ CascadeResume(r)
      BY <3>2, SaveResumeGoto
      DEF CreateRollup, ApplySave, EditSave, DeleteSave, CascadeResume, Goto, TypeOK
    <3>3. CASE CreateCount(r) \/ CreateInsert(r) \/ VisitClear(r) \/ ApplyResume(r)
               \/ CascadeList(r) \/ CascadeFind(r) \/ CascadeClear(r)
      BY <3>3
      DEF CreateCount, CreateInsert, VisitClear, ApplyResume, CascadeList, CascadeFind,
          CascadeClear, Goto, TypeOK
    <3> QED
      BY <1>5, <3>1, <3>2, <3>3
  <2> QED
    BY <1>1, <2>2, <2>3 DEF GoalKnown
<1> QED
  BY <1>3, <1>4, <1>5 DEF Continue

---------------------------------------------------------------------------
(* The contents of an analysis. *)

\* What the two properties ask of one document.
Sound(doc) ==
    /\ \A k \in {2, 3} : doc.steps[k] # "pending" => doc.steps[k - 1] = "completed"
    /\ doc.status = "completed" =>
         doc.result = "full" /\ \A k \in StepKey : doc.steps[k] = "completed"

LEMMA SoundDocuments ==
    StepsInOrder /\ CompletedIsWhole <=> \A a \in Analyses : Sound(analysis[a])
  BY DEF StepsInOrder, CompletedIsWhole, Sound

LEMMA FreshIsWorked == FreshSteps = WorkedTo(1, "pending")
  BY DEF FreshSteps, WorkedTo, StepKey

\* A run that has worked off its steps up to k goes on with the next one.
LEMMA NextIsWorked ==
    ASSUME NEW k \in StepKey, k # 3
    PROVE  WorkedTo(k, "completed") = WorkedTo(k + 1, "pending")
  BY DEF WorkedTo, StepKey

\* Saving the state of step k keeps the steps around it.
LEMMA WithStepWorked ==
    ASSUME NEW doc \in AnalysisDoc, NEW k \in StepKey, NEW s, NEW t,
           doc.steps = WorkedTo(k, s)
    PROVE  /\ WithStep(doc, k, t).steps = WorkedTo(k, t)
           /\ WithStep(doc, k, t).status = doc.status
           /\ WithStep(doc, k, t).result = doc.result
<1>1. WithStep(doc, k, t) = [doc EXCEPT !.steps = [doc.steps EXCEPT ![k] = t]]
  BY DEF WithStep
<1>2. [doc.steps EXCEPT ![k] = t] = WorkedTo(k, t)
  BY DEF WorkedTo, StepKey
<1> QED
  BY <1>1, <1>2 DEF AnalysisDoc

LEMMA WorkedIsSound ==
    ASSUME NEW doc \in AnalysisDoc, NEW k \in StepKey, NEW s, doc.steps = WorkedTo(k, s),
           doc.status # "completed"
    PROVE  Sound(doc)
  BY DEF Sound, WorkedTo, StepKey

\* The frame of the step: only the documents that it writes and what its
\* request knows of its own analysis are in question.
LEMMA WorkStep ==
    ASSUME WorkInv, NEW r \in Requests, Arrive(r) \/ Continue(r),
           \A a \in Analyses : analysis'[a] = analysis[a] \/ Sound(analysis'[a]),
           Running(r)' /\ Current(r)' => Progress(r)'
    PROVE  StepsInOrder' /\ CompletedIsWhole' /\ Progressing'
<1>1. AnalysisEffect(r)
  BY ServeEffect DEF WorkInv, IInv
<1>2. \A a \in Analyses : Sound(analysis'[a])
  BY SoundDocuments DEF WorkInv
<1>3. StepsInOrder' /\ CompletedIsWhole'
  BY <1>2 DEF StepsInOrder, CompletedIsWhole, Sound
<1>4. ASSUME NEW q \in Requests \ {r}, Running(q)', Current(q)'
      PROVE  Progress(q)'
  <2>1. pc'[q] = pc[q] /\ ana'[q] = ana[q] /\ goal'[q] = goal[q] /\ step'[q] = step[q]
    BY OthersStay DEF WorkInv, IInv
  <2>2. Running(q) /\ ana[q] \in Analyses
    BY <1>4, <2>1 DEF Running, WorkInv, IInv, Focus, AboutAnalysis, ResumeOnly, Labels, Answers
  <2>3. Current(q) /\ analysis'[ana[q]] = analysis[ana[q]]
    BY <1>1, <1>4, <2>1, <2>2, CurrentStep DEF Current, WorkInv, IInv
  <2>4. Progress(q)
    BY <2>2, <2>3 DEF WorkInv, Progressing
  <2> QED
    BY <2>1, <2>3, <2>4 DEF Progress, Announcing
<1> QED
  BY <1>3, <1>4 DEF Progressing

\* A save of the request's own analysis: a conflict writes nothing and
\* leaves the request without a current copy.
LEMMA SaveWork ==
    ASSUME WorkInv, NEW r \in Requests, Continue(r), ana[r] \in Analyses, ana' = ana,
           NEW doc, NEW saved, NEW raised, SaveAnalysis(r, ana[r], doc, saved, raised),
           Current(r) /\ copy[r][ana[r]] = analysis[ana[r]] =>
             Sound(doc) /\ (pc'[r] = saved /\ analysis'[ana[r]] = doc => Progress(r)')
    PROVE  StepsInOrder' /\ CompletedIsWhole' /\ Progressing'
<1>1. CASE pc'[r] = raised /\ UNCHANGED analysisVars /\ ~Current(r)'
  BY <1>1, WorkStep DEF analysisVars
<1>2. CASE /\ pc'[r] = saved
           /\ Current(r)
           /\ copy[r][ana[r]] = analysis[ana[r]]
           /\ analysis'[ana[r]] = doc
           /\ \A b \in Analyses \ {ana[r]} : analysis'[b] = analysis[b]
  <2>1. \A a \in Analyses : analysis'[a] = analysis[a] \/ Sound(analysis'[a])
    BY <1>2
  <2> QED
    BY <1>2, <2>1, WorkStep
<1>3. TypeOK /\ AnalysisCopies
  BY DEF WorkInv, IInv
<1>4. \/ pc'[r] = raised /\ UNCHANGED analysisVars /\ ~Current(r)'
      \/ /\ pc'[r] = saved
         /\ Current(r)
         /\ copy[r][ana[r]] = analysis[ana[r]]
         /\ analysis'[ana[r]] = doc
         /\ \A b \in Analyses \ {ana[r]} : analysis'[b] = analysis[b]
  BY <1>3, OwnSave
<1> QED
  BY ONLY <1>1, <1>2, <1>4

\* The steps that leave the analyses alone.
LEMMA QuietWork ==
    ASSUME WorkInv, NEW r \in Requests,
           \/ Arrive(r) \/ CreateCount(r)
           \/ CreateRollup(r) \/ RollupGet(r) \/ RollupSave(r)
           \/ NoteFind(r) \/ NoteClear(r) \/ NoteInsert(r) \/ VisitClear(r)
           \/ ApplyResume(r) \/ ApplySave(r) \/ EditSave(r) \/ DeleteSave(r)
           \/ CascadeList(r) \/ CascadeFind(r) \/ CascadeClear(r) \/ CascadeResume(r)
    PROVE  StepsInOrder' /\ CompletedIsWhole' /\ Progressing'
<1>1. Arrive(r) \/ Continue(r)
  BY DEF Continue
<1>2. pc[r] \in Labels /\ goal[r] \in Goals
  BY DEF WorkInv, IInv, TypeOK
<1>3. CASE CreateRollup(r) \/ RollupGet(r) \/ RollupSave(r) \/ NoteFind(r) \/ NoteClear(r)
           \/ NoteInsert(r)
  <2>1. UNCHANGED <<analysisVars, ana, goal, step>>
    BY <1>3 DEF CreateRollup, RollupGet, RollupSave, NoteFind, NoteClear, NoteInsert,
                NoteUnchanged, requestVars
  <2>2. \/ pc[r] = "create_rollup" /\ pc'[r] \in {"begin", "error"}
        \/ /\ pc[r] \in {"rollup_get", "rollup_save"}
           /\ \/ pc'[r] \in {"rollup_save", "note_find", "error"}
              \/ pc'[r] = "fail" /\ goal[r] = "completed"
        \/ /\ pc[r] \in {"note_find", "note_clear"}
           /\ pc'[r] \in {"note_clear", "note_insert"}
        \/ /\ pc[r] = "note_insert"
           /\ \/ pc'[r] = "step" /\ goal[r] = "in_progress"
              \/ pc'[r] \in {"ok", "error"}
              \/ pc'[r] = "fail" /\ goal[r] = "completed"
    BY <1>2, <1>3, SaveResumeGoto
       DEF CreateRollup, RollupGet, RollupSave, NoteFind, NoteClear, NoteInsert, Goto,
           WorkInv, IInv, TypeOK, AfterNote, NoteRaised, Goals
  <2>3. Current(r)' <=> Current(r)
    BY <2>1 DEF Current, analysisVars
  <2>4. pc[r] \in {"rollup_get", "rollup_save"} => goal[r] # "in_progress"
    BY DEF WorkInv, GoalKnown
  <2>5. ASSUME Running(r)', Current(r)' PROVE Progress(r)'
    <3>1. Running(r) /\ Current(r)
      BY <2>1, <2>2, <2>3, <2>5 DEF Running
    <3>2. Progress(r)
      BY <3>1 DEF WorkInv, Progressing
    <3> QED
      BY <2>1, <2>2, <2>4, <3>2 DEF Progress, Announcing, analysisVars
  <2> QED
    BY <1>1, <2>1, <2>5, WorkStep DEF analysisVars
<1>4. CASE \/ Arrive(r) \/ CreateCount(r) \/ VisitClear(r) \/ ApplyResume(r) \/ ApplySave(r)
           \/ EditSave(r) \/ DeleteSave(r) \/ CascadeList(r) \/ CascadeFind(r)
           \/ CascadeClear(r) \/ CascadeResume(r)
  <2>1. analysis' = analysis
    BY <1>4
    DEF Arrive, CreateFind, RetryFind, CancelFind, VisitFind, DismissFind, ApplyFind, EditFind,
        DeleteFind, CascadeGet, AnalysisFind, ResumeFind, LoadAnalysis, CreateCount, VisitClear,
        ApplyResume, ApplySave, EditSave, DeleteSave, CascadeList, CascadeFind, CascadeClear,
        CascadeResume, NoteUnchanged, analysisVars
  <2>2. ~Running(r)'
    <3>1. CASE Arrive(r)
      <4>1. PICK l \in {"refused", "create_count", "error", "retry_save", "cancel_save", "ok",
                        "visit_clear", "dismiss_save", "apply_resume", "edit_save",
                        "delete_save", "cascade_list"} : Goto(r, l)
        BY <3>1 DEF Arrive, CreateFind, RetryFind, CancelFind, VisitFind, DismissFind, ApplyFind,
                    EditFind, DeleteFind, CascadeGet, AnalysisFind, ResumeFind
      <4> QED
        BY <4>1 DEF Goto, Running, WorkInv, IInv, TypeOK
    <3>2. CASE CreateCount(r) \/ VisitClear(r) \/ ApplyResume(r) \/ CascadeList(r)
               \/ CascadeFind(r) \/ CascadeClear(r)
      BY <3>2 DEF CreateCount, VisitClear, ApplyResume, CascadeList, CascadeFind, CascadeClear,
                  Goto, Running, WorkInv, IInv, TypeOK
    <3>3. CASE ApplySave(r) \/ EditSave(r) \/ DeleteSave(r) \/ CascadeResume(r)
      <4>1. PICK l \in {"ok", "conflict", "error"} : Goto(r, l)
        BY <3>3, SaveResumeGoto DEF ApplySave, EditSave, DeleteSave, CascadeResume
      <4> QED
        BY <4>1 DEF Goto, Running, WorkInv, IInv, TypeOK
    <3> QED
      BY <1>4, <3>1, <3>2, <3>3
  <2> QED
    BY <1>1, <2>1, <2>2, WorkStep
<1> QED
  BY <1>3, <1>4

\* The steps of a run that save the analysis.
LEMMA RunWork ==
    ASSUME WorkInv, NEW r \in Requests,
           \/ Begin(r) \/ StepStart(r) \/ StepDone(r) \/ StepFailed(r) \/ Complete(r) \/ Fail(r)
    PROVE  StepsInOrder' /\ CompletedIsWhole' /\ Progressing'
<1> DEFINE doc == copy[r][ana[r]]
<1>1. /\ Continue(r)
      /\ ana[r] \in Analyses
      /\ ana' = ana
  BY DEF Continue, Begin, StepStart, StepDone, StepFailed, Complete, Fail, WorkInv, IInv,
         Focus, AboutAnalysis, ResumeOnly, Labels, Answers, requestVars
<1>2. doc \in AnalysisDoc /\ step[r] \in StepKey /\ TypeOK
  BY <1>1 DEF WorkInv, IInv, TypeOK
<1>3. Running(r)
  BY DEF Begin, StepStart, StepDone, StepFailed, Complete, Fail, Running
<1>4. Sound(analysis[ana[r]])
  BY <1>1, SoundDocuments DEF WorkInv
<1>5. Current(r) => Progress(r)
  BY <1>3 DEF WorkInv, Progressing
<1> HIDE DEF doc
<1>6. CASE Begin(r)
  <2>1. SaveAnalysis(r, ana[r], doc, "note_find", "error")
    BY <1>6 DEF Begin, doc
  <2>2. pc[r] = "begin" /\ goal'[r] = "in_progress" /\ step'[r] = 1
    BY <1>2, <1>6 DEF Begin, TypeOK
  <2>3. ASSUME Current(r), doc = analysis[ana[r]]
        PROVE  /\ Sound(doc)
               /\ pc'[r] = "note_find" /\ analysis'[ana[r]] = doc => Progress(r)'
    <3>1. doc.status = "pending" /\ doc.steps = WorkedTo(1, "pending")
      BY <1>5, <2>2, <2>3 DEF Progress
    <3> QED
      BY <1>1, <1>4, <2>2, <2>3, <3>1 DEF Progress, Announcing
  <2> QED
    BY <1>1, <2>1, <2>3, SaveWork DEF doc
<1>7. CASE StepStart(r)
  <2> DEFINE new == WithStep(doc, step[r], "in_progress")
  <2>1. SaveAnalysis(r, ana[r], new, "llm", "fail")
    BY <1>7 DEF StepStart, doc
  <2>2. pc[r] = "step" /\ step' = step
    BY <1>7 DEF StepStart, requestVars
  <2>3. ASSUME Current(r), doc = analysis[ana[r]]
        PROVE  /\ Sound(new)
               /\ pc'[r] = "llm" /\ analysis'[ana[r]] = new => Progress(r)'
    <3>1. doc.status = "pending" /\ doc.steps = WorkedTo(step[r], "pending")
      BY <1>5, <2>2, <2>3 DEF Progress
    <3>2. new.status = "pending" /\ new.steps = WorkedTo(step[r], "in_progress")
      BY <1>2, <3>1, WithStepWorked
    <3>3. new \in AnalysisDoc
      BY <1>2, WithStepType DEF StepStatus
    <3>4. Sound(new)
      BY <1>2, <3>2, <3>3, WorkedIsSound
    <3> HIDE DEF new
    <3> QED
      BY <1>1, <2>2, <3>2, <3>4 DEF Progress, Announcing
  <2> HIDE DEF new
  <2> QED
    BY <1>1, <2>1, <2>3, SaveWork DEF doc
<1>8. CASE StepDone(r)
  <2> DEFINE new == WithStep(doc, step[r], "completed")
             next == IF step[r] = 3 THEN "complete" ELSE "step"
  <2>1. SaveAnalysis(r, ana[r], new, next, "fail")
    BY <1>8 DEF StepDone, doc
  <2>2. pc[r] = "llm" /\ (pc'[r] = "step" => step'[r] = step[r] + 1)
    BY <1>2, <1>8 DEF StepDone, TypeOK
  <2>3. ASSUME Current(r), doc = analysis[ana[r]]
        PROVE  /\ Sound(new)
               /\ pc'[r] = next /\ analysis'[ana[r]] = new => Progress(r)'
    <3>1. doc.status = "pending" /\ doc.steps = WorkedTo(step[r], "in_progress")
      BY <1>5, <2>2, <2>3 DEF Progress
    <3>2. new.status = "pending" /\ new.steps = WorkedTo(step[r], "completed")
      BY <1>2, <3>1, WithStepWorked
    <3>3. new \in AnalysisDoc
      BY <1>2, WithStepType DEF StepStatus
    <3>4. Sound(new)
      BY <1>2, <3>2, <3>3, WorkedIsSound
    <3>5. step[r] # 3 => new.steps = WorkedTo(step[r] + 1, "pending")
      BY <1>2, <3>2, NextIsWorked
    <3> HIDE DEF new
    <3> QED
      BY <1>1, <2>2, <3>2, <3>4, <3>5 DEF Progress, Announcing
  <2> HIDE DEF new, next
  <2> QED
    BY <1>1, <2>1, <2>3, SaveWork DEF doc
<1>9. CASE StepFailed(r)
  <2> DEFINE new == WithStep(doc, step[r], "failed")
  <2>1. SaveAnalysis(r, ana[r], new, "fail", "fail")
    BY <1>9 DEF StepFailed, doc
  <2>2. pc[r] = "llm"
    BY <1>9 DEF StepFailed
  <2>3. ASSUME Current(r), doc = analysis[ana[r]]
        PROVE  /\ Sound(new)
               /\ pc'[r] = "fail" /\ analysis'[ana[r]] = new => Progress(r)'
    <3>1. doc.status = "pending" /\ doc.steps = WorkedTo(step[r], "in_progress")
      BY <1>5, <2>2, <2>3 DEF Progress
    <3>2. new.status = "pending" /\ new.steps = WorkedTo(step[r], "failed")
      BY <1>2, <3>1, WithStepWorked
    <3>3. new \in AnalysisDoc
      BY <1>2, WithStepType DEF StepStatus
    <3>4. Sound(new)
      BY <1>2, <3>2, <3>3, WorkedIsSound
    <3> HIDE DEF new
    <3> QED
      BY <3>4 DEF Progress, Announcing
  <2> HIDE DEF new
  <2> QED
    BY <1>1, <2>1, <2>3, SaveWork DEF doc
<1>10. CASE Complete(r)
  <2> DEFINE new == [doc EXCEPT !.status = "completed", !.result = "full", !.applied = FALSE]
  <2>1. SaveAnalysis(r, ana[r], new, "rollup_get", "fail") /\ pc[r] = "complete"
    BY <1>10 DEF Complete, doc
  <2>2. new.result = "full" /\ new.steps = doc.steps
    BY <1>2 DEF AnalysisDoc
  <2>3. pc'[r] = "rollup_get" => goal'[r] = "completed"
    BY <1>2, <1>10 DEF Complete, TypeOK
  <2> HIDE DEF new
  <2>4. ASSUME Current(r), doc = analysis[ana[r]]
        PROVE  /\ Sound(new)
               /\ pc'[r] = "rollup_get" /\ analysis'[ana[r]] = new => Progress(r)'
    <3>1. doc.steps = WorkedTo(3, "completed")
      BY <1>5, <2>1, <2>4 DEF Progress
    <3>2. Sound(new)
      BY <2>2, <3>1 DEF Sound, WorkedTo, StepKey
    <3> QED
      BY <2>3, <3>2 DEF Progress, Announcing
  <2> QED
    BY <1>1, <2>1, <2>4, SaveWork DEF doc
<1>11. CASE Fail(r)
  <2>1. PICK result :
            SaveAnalysis(r, ana[r], [doc EXCEPT !.status = "failed", !.result = result,
                                                !.applied = @ /\ result = "full"],
                         "rollup_get", "error")
    BY <1>11 DEF Fail, doc
  <2> DEFINE new == [doc EXCEPT !.status = "failed", !.result = result,
                                !.applied = @ /\ result = "full"]
  <2>2. SaveAnalysis(r, ana[r], new, "rollup_get", "error")
    BY <2>1
  <2>3. new.status = "failed" /\ new.steps = doc.steps
    BY <1>2 DEF AnalysisDoc
  <2>4. goal'[r] = "failed"
    BY <1>2, <1>11 DEF Fail, TypeOK
  <2> HIDE DEF new
  <2>5. ASSUME Current(r), doc = analysis[ana[r]]
        PROVE  /\ Sound(new)
               /\ pc'[r] = "rollup_get" /\ analysis'[ana[r]] = new => Progress(r)'
    BY <1>4, <2>3, <2>4, <2>5 DEF Sound, Progress, Announcing
  <2> QED
    BY <1>1, <2>2, <2>5, SaveWork DEF doc
<1> QED
  BY <1>6, <1>7, <1>8, <1>9, <1>10, <1>11

\* The other saves of an analysis.
LEMMA EndpointWork ==
    ASSUME WorkInv, NEW r \in Requests,
           RetrySave(r) \/ CancelSave(r) \/ DismissSave(r) \/ ApplyAnalysis(r)
    PROVE  StepsInOrder' /\ CompletedIsWhole' /\ Progressing'
<1> DEFINE doc == copy[r][ana[r]]
<1>1. /\ Continue(r)
      /\ ana[r] \in Analyses
      /\ ana' = ana
  BY DEF Continue, RetrySave, CancelSave, DismissSave, ApplyAnalysis, WorkInv, IInv,
         Focus, AboutAnalysis, ResumeOnly, Labels, Answers, requestVars
<1>2. doc \in AnalysisDoc /\ TypeOK
  BY <1>1 DEF WorkInv, IInv, TypeOK
<1>3. Sound(analysis[ana[r]])
  BY <1>1, SoundDocuments DEF WorkInv
<1> HIDE DEF doc
<1>4. CASE RetrySave(r)
  <2>1. PICK saved \in {"error", "begin"} : SaveAnalysis(r, ana[r], Reset(doc), saved, "error")
    BY <1>4 DEF RetrySave, doc
  <2>2. Reset(doc).status = "pending" /\ Reset(doc).steps = WorkedTo(1, "pending")
    BY <1>2, FreshIsWorked DEF Reset, AnalysisDoc
  <2>3. Sound(Reset(doc))
    BY <1>2, <2>2, ResetType, WorkedIsSound DEF StepKey
  <2>4. pc'[r] = saved /\ analysis'[ana[r]] = Reset(doc) => Progress(r)'
    BY <1>1, <2>2 DEF Progress, Announcing
  <2> QED
    BY <1>1, <2>1, <2>3, <2>4, SaveWork
<1>5. CASE CancelSave(r)
  <2> DEFINE new == [doc EXCEPT !.status = "cancelled"]
  <2>1. SaveAnalysis(r, ana[r], new, "ok", "error")
    BY <1>5 DEF CancelSave, doc
  <2>2. new.status = "cancelled" /\ new.steps = doc.steps
    BY <1>2 DEF AnalysisDoc
  <2> HIDE DEF new
  <2>3. doc = analysis[ana[r]] => Sound(new)
    BY <1>3, <2>2 DEF Sound
  <2>4. pc'[r] = "ok" => Progress(r)'
    BY DEF Progress, Announcing
  <2> QED
    BY <1>1, <2>1, <2>3, <2>4, SaveWork DEF doc
<1>6. CASE DismissSave(r)
  <2>1. SaveAnalysis(r, ana[r], doc, "ok", "error")
    BY <1>6 DEF DismissSave, doc
  <2>2. pc'[r] = "ok" => Progress(r)'
    BY DEF Progress, Announcing
  <2> QED
    BY <1>1, <1>3, <2>1, <2>2, SaveWork DEF doc
<1>7. CASE ApplyAnalysis(r)
  <2> DEFINE new == [doc EXCEPT !.applied = TRUE]
  <2>1. SaveAnalysis(r, ana[r], new, "apply_save", "error")
    BY <1>7 DEF ApplyAnalysis, doc
  <2>2. new.status = doc.status /\ new.steps = doc.steps /\ new.result = doc.result
    BY <1>2 DEF AnalysisDoc
  <2> HIDE DEF new
  <2>3. doc = analysis[ana[r]] => Sound(new)
    BY <1>3, <2>2 DEF Sound
  <2>4. pc'[r] = "apply_save" => Progress(r)'
    BY DEF Progress, Announcing
  <2> QED
    BY <1>1, <2>1, <2>3, <2>4, SaveWork DEF doc
<1> QED
  BY <1>4, <1>5, <1>6, <1>7

\* The insert of an analysis, and its deletion by a cascade.
LEMMA CreateCascadeWork ==
    ASSUME WorkInv, NEW r \in Requests, CreateInsert(r) \/ CascadeAnalysis(r)
    PROVE  StepsInOrder' /\ CompletedIsWhole' /\ Progressing'
<1>1. Continue(r) /\ TypeOK /\ AnalysisCopies
  BY DEF Continue, WorkInv, IInv
<1>2. CASE CreateInsert(r)
  <2> DEFINE new == [Absent EXCEPT !.status = "pending"]
  <2>1. /\ ana[r] \in Analyses
        /\ StoreAnalysis(r, ana[r], new)
        /\ Goto(r, "create_rollup")
        /\ ana' = ana
    BY <1>2 DEF CreateInsert, requestVars, WorkInv, IInv, Focus, AboutAnalysis, ResumeOnly,
                Labels, Answers
  <2>2. new.status = "pending" /\ new.steps = WorkedTo(1, "pending") /\ new \in AnalysisDoc
    BY FreshIsWorked, AbsentType DEF Absent, AnalysisDoc, AnalysisStatus
  <2> HIDE DEF new
  <2>3. Sound(new)
    BY <2>2, WorkedIsSound DEF StepKey
  <2>4. /\ analysis'[ana[r]] = new
        /\ \A a \in Analyses \ {ana[r]} : analysis'[a] = analysis[a]
        /\ pc'[r] = "create_rollup"
    BY <1>1, <2>1, StoreFacts DEF Goto, TypeOK
  <2>5. Progress(r)'
    BY <2>1, <2>2, <2>4 DEF Progress, Announcing
  <2>6. \A a \in Analyses : analysis'[a] = analysis[a] \/ Sound(analysis'[a])
    BY <2>3, <2>4
  <2> QED
    BY <1>1, <2>5, <2>6, WorkStep
<1>3. CASE CascadeAnalysis(r)
  <2>1. PICK a \in batch[r] :
            SaveAnalysis(r, a, [copy[r][a] EXCEPT !.deleted = TRUE], "cascade_find", "error")
    BY <1>3 DEF CascadeAnalysis
  <2>2. a \in Analyses
    BY <1>1 DEF TypeOK
  <2> DEFINE new == [copy[r][a] EXCEPT !.deleted = TRUE]
  <2>3. copy[r][a] \in AnalysisDoc
    BY <1>1, <2>2 DEF TypeOK
  <2>4. /\ new.status = copy[r][a].status /\ new.steps = copy[r][a].steps
        /\ new.result = copy[r][a].result
    BY <2>3 DEF AnalysisDoc
  <2>5. SaveAnalysis(r, a, new, "cascade_find", "error")
    BY <2>1
  <2> HIDE DEF new
  <2>6. Sound(analysis[a])
    BY <2>2, SoundDocuments DEF WorkInv
  <2>7. \/ UNCHANGED analysisVars
        \/ copy[r][a] = analysis[a] /\ StoreAnalysis(r, a, new)
    BY <1>1, <2>2, <2>5, SaveAnalysisEffect
  <2>8. ASSUME NEW b \in Analyses PROVE analysis'[b] = analysis[b] \/ Sound(analysis'[b])
    <3>1. CASE UNCHANGED analysisVars
      BY <3>1 DEF analysisVars
    <3>2. CASE copy[r][a] = analysis[a] /\ StoreAnalysis(r, a, new)
      BY <1>1, <2>2, <2>4, <2>6, <3>2, StoreFacts DEF Sound
    <3> QED
      BY <2>7, <3>1, <3>2
  <2>9. ~Running(r)'
    BY <1>1, <2>5, SaveAnalysisGoto DEF Goto, Running, TypeOK
  <2> QED
    BY <1>1, <2>8, <2>9, WorkStep
<1> QED
  BY <1>2, <1>3

\* What a running request does to its verdict.
LEMMA VerdictMove ==
    ASSUME WorkInv, NEW r \in Requests, Continue(r), Running(r), Running(r)'
    PROVE  /\ ana'[r] = ana[r]
           /\ \/ /\ pc[r] = "complete" /\ goal'[r] = "completed"
                 /\ analysis'[ana[r]].status = "completed"
              \/ /\ goal'[r] = goal[r]
                 /\ analysis'[ana[r]].status = analysis[ana[r]].status
<1> DEFINE doc == copy[r][ana[r]]
<1>1. ana[r] \in Analyses /\ TypeOK /\ AnalysisCopies
  BY DEF WorkInv, IInv, Running, Focus, AboutAnalysis, ResumeOnly, Labels, Answers
<1>2. doc \in AnalysisDoc /\ step[r] \in StepKey
  BY <1>1 DEF TypeOK
<1>3. CASE CreateRollup(r) \/ RollupGet(r) \/ RollupSave(r) \/ NoteFind(r) \/ NoteClear(r)
           \/ NoteInsert(r)
  BY <1>3 DEF CreateRollup, RollupGet, RollupSave, NoteFind, NoteClear, NoteInsert,
              NoteUnchanged, analysisVars, requestVars
<1> HIDE DEF doc
<1>4. CASE Begin(r) \/ StepStart(r) \/ StepDone(r) \/ StepFailed(r)
  <2>1. ana' = ana
    BY <1>4 DEF Begin, StepStart, StepDone, StepFailed, requestVars
  <2>2. goal'[r] = goal[r]
    <3>1. CASE Begin(r)
      <4>1. goal[r] = "in_progress"
        BY <3>1 DEF Begin, WorkInv, GoalKnown, Labels, Answers
      <4> QED
        BY <1>1, <3>1, <4>1 DEF Begin, TypeOK
    <3> QED
      BY <1>4, <3>1 DEF StepStart, StepDone, StepFailed, requestVars
  <2>3. PICK new, saved, raised : /\ SaveAnalysis(r, ana[r], new, saved, raised)
                                  /\ new.status = doc.status
    <3>1. CASE Begin(r)
      BY <3>1 DEF Begin, doc
    <3>2. \A s : WithStep(doc, step[r], s).status = doc.status
      BY <1>2 DEF WithStep, AnalysisDoc
    <3> QED
      BY <1>4, <3>1, <3>2 DEF StepStart, StepDone, StepFailed, doc
  <2> QED
    BY <1>1, <2>1, <2>2, <2>3, OwnSave DEF doc, analysisVars
<1>5. CASE Complete(r)
  <2> DEFINE new == [doc EXCEPT !.status = "completed", !.result = "full", !.applied = FALSE]
  <2>1. SaveAnalysis(r, ana[r], new, "rollup_get", "fail") /\ pc[r] = "complete" /\ ana' = ana
    BY <1>5 DEF Complete, doc
  <2>2. new.status = "completed"
    BY <1>2 DEF AnalysisDoc
  <2>3. /\ pc'[r] = "rollup_get" => goal'[r] = "completed"
        /\ pc'[r] = "fail" => goal'[r] = goal[r]
    BY <1>1, <1>5 DEF Complete, TypeOK
  <2> HIDE DEF new
  <2>4. \/ pc'[r] = "fail" /\ UNCHANGED analysisVars /\ ~Current(r)'
        \/ pc'[r] = "rollup_get" /\ analysis'[ana[r]] = new
    <3>1. \/ pc'[r] = "fail" /\ UNCHANGED analysisVars /\ ~Current(r)'
          \/ /\ pc'[r] = "rollup_get"
             /\ Current(r)
             /\ copy[r][ana[r]] = analysis[ana[r]]
             /\ analysis'[ana[r]] = new
             /\ \A b \in Analyses \ {ana[r]} : analysis'[b] = analysis[b]
      BY <1>1, <2>1, OwnSave
    <3> QED
      BY ONLY <3>1
  <2> QED
    BY <2>1, <2>2, <2>3, <2>4 DEF analysisVars
<1>6. CASE Fail(r)
  <2>1. pc'[r] \in {"rollup_get", "error"} /\ goal'[r] = "failed"
    BY <1>1, <1>6, SaveAnalysisGoto DEF Fail, Goto, TypeOK
  <2> QED
    BY <2>1 DEF Running
<1>7. CASE \/ CreateCount(r) \/ CreateInsert(r) \/ VisitClear(r) \/ RetrySave(r)
           \/ CancelSave(r) \/ DismissSave(r) \/ ApplyResume(r) \/ ApplyAnalysis(r)
           \/ ApplySave(r) \/ EditSave(r) \/ DeleteSave(r) \/ CascadeList(r)
           \/ CascadeAnalysis(r) \/ CascadeFind(r) \/ CascadeClear(r) \/ CascadeResume(r)
  BY <1>7 DEF CreateCount, CreateInsert, VisitClear, RetrySave, CancelSave, DismissSave,
              ApplyResume, ApplyAnalysis, ApplySave, EditSave, DeleteSave, CascadeList,
              CascadeAnalysis, CascadeFind, CascadeClear, CascadeResume, Running
<1> QED
  BY <1>3, <1>4, <1>5, <1>6, <1>7 DEF Continue

LEMMA VerdictStep ==
    ASSUME WorkInv, NEW r \in Requests, Arrive(r) \/ Continue(r), IInv'
    PROVE  Verdict'
<1>1. AnalysisEffect(r) /\ TypeOK /\ Focus
  BY ServeEffect DEF WorkInv, IInv
<1> SUFFICES ASSUME NEW q \in Requests, Running(q)'
             PROVE  IF goal'[q] = "completed" THEN analysis'[ana'[q]].status = "completed"
                    ELSE analysis'[ana'[q]].status \in {"pending", "cancelled"}
  BY DEF Verdict
<1>2. CASE q # r
  <2> DEFINE a == ana[q]
  <2>1. pc'[q] = pc[q] /\ ana'[q] = a /\ goal'[q] = goal[q]
    BY <1>2, OthersStay DEF WorkInv, IInv
  <2>2. Running(q) /\ a \in Analyses
    BY <2>1 DEF Running, WorkInv, IInv, Focus, AboutAnalysis, ResumeOnly, Labels, Answers
  <2>3. IF goal[q] = "completed" THEN analysis[a].status = "completed"
        ELSE analysis[a].status \in {"pending", "cancelled"}
    BY <2>2 DEF WorkInv, Verdict
  <2>4. CASE analysis'[a] = analysis[a]
    BY <2>1, <2>3, <2>4
  <2>5. CASE Inserts(r) /\ a = ana[r]
    BY <1>2, <2>5 DEF Inserts, WorkInv, IInv, Reserved
  <2>6. CASE Updates(r, a)
    <3>1. a = ana[r] => ~Running(r)
      BY <1>2, <2>2 DEF WorkInv, IInv, OneRunner
    <3>2. a = ana[r] => pc[r] \notin {"complete", "fail"}
      BY <3>1 DEF Running
    <3>3. a = ana[r] /\ pc[r] = "retry_save" => analysis[a].status = "failed"
      BY <2>6 DEF WorkInv, IInv, RunnerCurrent, Current, Updates
    <3>4. a = ana[r] /\ pc[r] = "cancel_save" => analysis[a].status = "pending"
      BY <2>6 DEF WorkInv, IInv, RunnerCurrent, Current, Updates
    <3> QED
      BY <2>1, <2>3, <2>6, <3>2, <3>3, <3>4 DEF Updates, StatusMove
  <2> QED
    BY <1>1, <2>2, <2>4, <2>5, <2>6, StatusFacts
<1>3. CASE q = r
  <2>1. Continue(r)
    <3>1. ASSUME Arrive(r) PROVE FALSE
      <4>1. PICK l \in {"refused", "create_count", "error", "retry_save", "cancel_save", "ok",
                        "visit_clear", "dismiss_save", "apply_resume", "edit_save",
                        "delete_save", "cascade_list"} : Goto(r, l)
        BY <3>1 DEF Arrive, CreateFind, RetryFind, CancelFind, VisitFind, DismissFind, ApplyFind,
                    EditFind, DeleteFind, CascadeGet, AnalysisFind, ResumeFind
      <4> QED
        BY <1>1, <1>3, <4>1 DEF Goto, Running, TypeOK
    <3> QED
      BY <3>1
  <2>2. CASE Running(r)
    BY <1>3, <2>1, <2>2, VerdictMove DEF WorkInv, Verdict
  <2>3. CASE ~Running(r)
    <3>1. ana' = ana /\ analysis'[ana[r]].status = "pending"
      <4>1. CASE Inserts(r)
        <5>1. ana[r] \in Analyses
          BY <4>1 DEF Inserts, WorkInv, IInv, Focus, AboutAnalysis, ResumeOnly, Labels, Answers
        <5> DEFINE new == [Absent EXCEPT !.status = "pending"]
        <5>2. new.status = "pending"
          BY DEF Absent
        <5>3. StoreAnalysis(r, ana[r], new) /\ ana' = ana
          BY <4>1 DEF Inserts
        <5> HIDE DEF new
        <5> QED
          BY <1>1, <5>1, <5>2, <5>3, StoreFacts
      <4> QED
        BY <1>1, <1>3, <2>3, <4>1 DEF AnalysisEffect, RunMove
    <3>2. pc[r] \in {"create_insert", "retry_save"}
      BY <1>1, <1>3, <2>3 DEF AnalysisEffect, RunMove, Inserts
    <3>3. goal[r] = "in_progress"
      BY <3>2 DEF WorkInv, GoalKnown, Labels, Answers
    <3>4. goal' = goal
      BY <2>1, <3>2 DEF Continue, CreateCount, CreateInsert, CreateRollup, Begin, StepStart, StepDone,
              StepFailed, Complete, Fail, RollupGet, RollupSave, NoteFind, NoteClear,
              NoteInsert, VisitClear, RetrySave, CancelSave, DismissSave, ApplyResume,
              ApplyAnalysis, ApplySave, EditSave, DeleteSave, CascadeList, CascadeAnalysis,
              CascadeFind, CascadeClear, CascadeResume, requestVars
    <3> QED
      BY <1>3, <3>1, <3>3, <3>4
  <2> QED
    BY <2>2, <2>3
<1> QED
  BY <1>2, <1>3

---------------------------------------------------------------------------
(* The contents and the lifecycle, as theorems. *)

\* A crash takes requests out of the run they are in; it leaves the rest.
LEMMA CrashFacts ==
    ASSUME Crash
    PROVE  /\ \A q \in Requests : pc'[q] \in {pc[q], "lost"}
           /\ UNCHANGED <<analysisVars, resumeVars, bell, ana, res, step, goal, seen, batch>>
           /\ \A q \in Requests : Running(q)' => Running(q) /\ pc'[q] = pc[q]
<1>1. /\ \A q \in Requests : pc'[q] \in {pc[q], "lost"}
      /\ UNCHANGED <<analysisVars, resumeVars, bell, ana, res, step, goal, seen, batch>>
  BY DEF Crash, requestVars
<1>2. ASSUME NEW q \in Requests, Running(q)' PROVE Running(q) /\ pc'[q] = pc[q]
  BY <1>1, <1>2 DEF Running
<1> QED
  BY <1>1, <1>2

LEMMA WorkInvInit == ASSUME Init PROVE WorkInv
<1>1. \A r \in Requests : pc[r] = "idle" /\ goal[r] = "in_progress"
  BY DEF Init, DocumentsInit
<1>2. \A a \in Analyses : analysis[a] = Absent
  BY DEF Init, DocumentsInit
<1>3. GoalKnown /\ Progressing /\ Verdict
  BY <1>1 DEF GoalKnown, Progressing, Verdict, Running
<1>4. StepsInOrder /\ CompletedIsWhole
  BY <1>2 DEF StepsInOrder, CompletedIsWhole, Absent, FreshSteps, StepKey
<1> QED
  BY <1>3, <1>4, IInvInit DEF WorkInv

LEMMA WorkInvStep == ASSUME WorkInv, [Next]_vars PROVE WorkInv'
<1>1. IInv'
  BY IInvStep DEF WorkInv
<1>2. CASE Serve
  <2>1. PICK r \in Requests : Arrive(r) \/ Continue(r)
    BY <1>2 DEF Serve
  <2>2. GoalKnown'
    BY <2>1, GoalStep DEF WorkInv, IInv
  <2>3. StepsInOrder' /\ CompletedIsWhole' /\ Progressing'
    BY <2>1, QuietWork, RunWork, EndpointWork, CreateCascadeWork DEF Continue
  <2>4. Verdict'
    BY <1>1, <2>1, VerdictStep
  <2> QED
    BY <1>1, <2>2, <2>3, <2>4 DEF WorkInv
<1>3. CASE Crash
  <2>1. /\ UNCHANGED <<analysisVars, ana, step, goal>>
        /\ \A q \in Requests : pc'[q] \in {pc[q], "lost"}
        /\ \A q \in Requests : Running(q)' => Running(q) /\ pc'[q] = pc[q]
    BY <1>3, CrashFacts
  <2>2. GoalKnown'
    BY <2>1 DEF WorkInv, GoalKnown, Answers
  <2>3. StepsInOrder' /\ CompletedIsWhole'
    BY <2>1 DEF WorkInv, StepsInOrder, CompletedIsWhole, analysisVars
  <2>4. Progressing'
    BY <2>1 DEF WorkInv, Progressing, Progress, Announcing, Current, analysisVars
  <2>5. Verdict'
    BY <2>1 DEF WorkInv, Verdict, analysisVars
  <2> QED
    BY <1>1, <2>2, <2>3, <2>4, <2>5 DEF WorkInv
<1>4. CASE UNCHANGED vars
  <2>1. UNCHANGED <<analysisVars, pc, ana, step, goal>>
    BY <1>4 DEF vars, requestVars
  <2>2. GoalKnown' /\ Verdict' /\ Progressing'
    BY <2>1 DEF WorkInv, GoalKnown, Verdict, Progressing, Progress, Announcing, Current, Running,
                analysisVars
  <2>3. StepsInOrder' /\ CompletedIsWhole'
    BY <2>1 DEF WorkInv, StepsInOrder, CompletedIsWhole, analysisVars
  <2> QED
    BY <1>1, <2>2, <2>3 DEF WorkInv
<1> QED
  BY <1>2, <1>3, <1>4 DEF Next

\* The invariant of the runs and their documents holds in every reachable state.
THEOREM WorkInvariance == Spec => []WorkInv
  BY WorkInvInit, WorkInvStep, PTL DEF Spec

\* A step of an analysis has begun only if the one before it is completed,
\* also after retries: a run writes the document of its predecessor only
\* reset, and only the holder of the stored copy moves the steps on.
THEOREM StepsAreInOrder == Spec => []StepsInOrder
<1>1. WorkInv => StepsInOrder
  BY DEF WorkInv
<1> QED
  BY <1>1, WorkInvariance, PTL

\* A completed analysis has its whole result and three completed steps,
\* whoever dismissed, applied, cancelled or deleted while it was worked off.
THEOREM CompletedAnalysisIsWhole == Spec => []CompletedIsWhole
<1>1. WorkInv => CompletedIsWhole
  BY DEF WorkInv
<1> QED
  BY <1>1, WorkInvariance, PTL

\* One accepted write of an analysis is one step of its lifecycle.
LEMMA LifecycleStep ==
    ASSUME WorkInv, NEW r \in Requests, AnalysisEffect(r)
    PROVE  Lifecycle!Next \/ UNCHANGED <<[a \in Analyses |-> analysis[a].status],
                                         [a \in Analyses |-> analysis[a].deleted]>>
<1> DEFINE status == [a \in Analyses |-> analysis[a].status]
           deleted == [a \in Analyses |-> analysis[a].deleted]
           status1 == [a \in Analyses |-> analysis'[a].status]
           deleted1 == [a \in Analyses |-> analysis'[a].deleted]
<1>1. TypeOK /\ Focus
  BY DEF WorkInv, IInv
<1>2. CASE Reads(r)
  BY <1>2 DEF Reads
\* One document changes: the others keep their status and their deletion.
<1>3. ASSUME NEW b \in Analyses, \A a \in Analyses \ {b} : analysis'[a] = analysis[a]
      PROVE  /\ status1 = [status EXCEPT ![b] = analysis'[b].status]
             /\ deleted1 = [deleted EXCEPT ![b] = analysis'[b].deleted]
  BY <1>3
<1>4. CASE Inserts(r)
  <2> DEFINE new == [Absent EXCEPT !.status = "pending"]
  <2>1. new.status = "pending" /\ ~new.deleted
    BY DEF Absent
  <2>2. ana[r] \in Analyses
    BY <1>1, <1>4 DEF Inserts, Focus, AboutAnalysis, ResumeOnly, Labels, Answers
  <2>3. StoreAnalysis(r, ana[r], new)
    BY <1>4 DEF Inserts
  <2>4. analysis[ana[r]].status = "absent" /\ analysis[ana[r]].deleted = FALSE
    <3>1. analysis[ana[r]].status = "absent"
      BY <1>4 DEF Inserts, WorkInv, IInv, Reserved
    <3> QED
      BY <1>1, <2>2, <3>1 DEF WorkInv, IInv, AbsentIsLive, TypeOK, AnalysisDoc
  <2>5. new.deleted = FALSE
    BY DEF Absent
  <2> HIDE DEF new
  <2>6. analysis'[ana[r]] = new /\ \A a \in Analyses \ {ana[r]} : analysis'[a] = analysis[a]
    BY <1>1, <2>2, <2>3, StoreFacts
  <2>7. status1 = [status EXCEPT ![ana[r]] = "pending"] /\ deleted1 = deleted
    <3>1. /\ status1 = [status EXCEPT ![ana[r]] = analysis'[ana[r]].status]
          /\ deleted1 = [deleted EXCEPT ![ana[r]] = analysis'[ana[r]].deleted]
      BY <1>3, <2>2, <2>6
    <3>2. analysis'[ana[r]].status = "pending" /\ analysis'[ana[r]].deleted = FALSE
      BY <2>1, <2>5, <2>6
    <3>3. deleted = [deleted EXCEPT ![ana[r]] = FALSE]
      BY <2>2, <2>4
    <3> QED
      BY <3>1, <3>2, <3>3
  <2>8. PICK a \in Analyses : a = ana[r]
    BY <2>2
  <2>9. Lifecycle!Create(a)
    BY <2>4, <2>7, <2>8 DEF Lifecycle!Create, Lifecycle!Move
  <2> QED
    BY ONLY <2>9 DEF Lifecycle!Next
<1>5. ASSUME NEW b \in Analyses, Updates(r, b)
      PROVE  \/ \E a \in Analyses : \/ Lifecycle!Create(a) \/ Lifecycle!Complete(a)
                                    \/ Lifecycle!Fail(a) \/ Lifecycle!Cancel(a)
                                    \/ Lifecycle!Retry(a) \/ Lifecycle!Delete(a)
             \/ status1 = status /\ deleted1 = deleted
  <2>1. \A a \in Analyses \ {b} : analysis'[a] = analysis[a]
    BY <1>1, <1>5, StoreFacts DEF Updates
  <2>2. /\ status1 = [status EXCEPT ![b] = analysis'[b].status]
        /\ deleted1 = [deleted EXCEPT ![b] = analysis'[b].deleted]
    BY <1>3, <2>1
  <2>3. analysis[b].status # "absent" /\ (b = ana[r] => Current(r))
    BY <1>5 DEF Updates, Current, WorkInv, IInv, AnalysisCopies
  <2>4. analysis'[b].deleted \in BOOLEAN /\ analysis[b].deleted \in BOOLEAN
    <3>1. analysis'[b] \in AnalysisDoc
      BY <1>1, <1>5, StoreFacts DEF Updates
    <3> QED
      BY <1>1, <3>1 DEF TypeOK, AnalysisDoc
  <2>5. CASE analysis'[b].status = analysis[b].status
    <3>1. status1 = status
      BY <2>2, <2>5
    <3>2. analysis'[b].deleted = TRUE \/ analysis'[b].deleted = analysis[b].deleted
      BY <1>5, <2>4 DEF Updates
    <3>3. deleted1 = deleted \/ deleted1 = [deleted EXCEPT ![b] = TRUE]
      BY <2>2, <3>2
    <3> QED
      BY <2>3, <3>1, <3>3 DEF Lifecycle!Delete
  <2>6. CASE b = ana[r] /\ analysis'[b].deleted = analysis[b].deleted
    <3>1. deleted1 = deleted
      BY <2>2, <2>6
    <3>2. CASE pc[r] = "complete" /\ analysis'[b].status = "completed"
      <4>1. analysis[b].status = "pending"
        BY <2>3, <2>6, <3>2 DEF WorkInv, Progressing, Progress, Running
      <4> QED
        BY <2>2, <3>1, <3>2, <4>1 DEF Lifecycle!Complete, Lifecycle!Move
    <3>3. CASE pc[r] = "fail" /\ analysis'[b].status = "failed"
      <4>1. Running(r)
        BY <3>3 DEF Running
      <4>2. analysis[b].status \in {"pending", "completed"}
        BY <2>3, <2>6, <4>1 DEF WorkInv, IInv, RunnerStatus, RunnerCurrent
      <4> QED
        BY <2>2, <3>1, <3>3, <4>2 DEF Lifecycle!Fail, Lifecycle!Move
    <3>4. CASE pc[r] = "retry_save" /\ analysis'[b].status = "pending"
      <4>1. analysis[b].status = "failed"
        BY <2>3, <2>6, <3>4 DEF WorkInv, IInv, RunnerCurrent
      <4> QED
        BY <2>2, <3>1, <3>4, <4>1 DEF Lifecycle!Retry, Lifecycle!Move
    <3>5. CASE pc[r] = "cancel_save" /\ analysis'[b].status = "cancelled"
      <4>1. analysis[b].status = "pending"
        BY <2>3, <2>6, <3>5 DEF WorkInv, IInv, RunnerCurrent
      <4> QED
        BY <2>2, <3>1, <3>5, <4>1 DEF Lifecycle!Cancel, Lifecycle!Move
    <3> QED
      BY <1>5, <2>5, <2>6, <3>2, <3>3, <3>4, <3>5 DEF Updates, StatusMove
  <2> QED
    BY <1>5, <2>5, <2>6 DEF Updates, StatusMove
<1> QED
  BY <1>2, <1>4, <1>5 DEF AnalysisEffect, Lifecycle!Next

\* The requests implement the life the endpoints promise: every step of any
\* of them is one move of one analysis, or none that the promise speaks of.
THEOREM RequestsFollowLifecycle == Spec => FollowsLifecycle
<1> DEFINE status == [a \in Analyses |-> analysis[a].status]
           deleted == [a \in Analyses |-> analysis[a].deleted]
<1>1. Init => Lifecycle!Init
  BY DEF Init, DocumentsInit, Lifecycle!Init, Absent
<1>2. WorkInv /\ [Next]_vars => [Lifecycle!Next]_<<status, deleted>>
  <2> SUFFICES ASSUME WorkInv, [Next]_vars
               PROVE  Lifecycle!Next \/ UNCHANGED <<status, deleted>>
    OBVIOUS
  <2>1. CASE Serve
    <3>1. PICK r \in Requests : Arrive(r) \/ Continue(r)
      BY <2>1 DEF Serve
    <3>2. AnalysisEffect(r)
      BY <3>1, ServeEffect DEF WorkInv, IInv
    <3> QED
      BY <3>2, LifecycleStep
  <2>2. CASE Crash
    BY <2>2 DEF Crash, analysisVars
  <2>3. CASE UNCHANGED vars
    BY <2>3 DEF vars, analysisVars
  <2> QED
    BY <2>1, <2>2, <2>3 DEF Next
<1> QED
  BY <1>1, <1>2, WorkInvariance, PTL DEF Spec, FollowsLifecycle, Lifecycle!Spec

---------------------------------------------------------------------------
(* The order of a cascade. *)

\* A write that the store accepts is the acting request's.
LEMMA AcceptedStep ==
    ASSUME TypeOK, NEW r \in Requests, ResumeEffect(r), NEW x \in Resumes
    PROVE  /\ accepted[x] \subseteq accepted'[x]
           /\ \A q \in Requests, k \in WriteKinds :
                <<q, k>> \in accepted'[x] => <<q, k>> \in accepted[x] \/ q = r
<1>1. CASE UNCHANGED accepted
  BY <1>1
<1>2. ASSUME NEW kind, accepted' = [accepted EXCEPT ![res[r]] = @ \cup {<<r, kind>>}]
      PROVE  /\ accepted[x] \subseteq accepted'[x]
             /\ \A q \in Requests, k \in WriteKinds :
                  <<q, k>> \in accepted'[x] => <<q, k>> \in accepted[x] \/ q = r
  BY <1>2 DEF TypeOK
<1>3. UNCHANGED accepted
      \/ \E kind : accepted' = [accepted EXCEPT ![res[r]] = @ \cup {<<r, kind>>}]
  BY DEF ResumeEffect, LeavesResumes, Loads, LoadResume, SavesResume, StoreResume, resumeVars
<1> QED
  BY <1>1, <1>2, <1>3

\* The steps that do not save a resume.
LEMMA AcceptsNothing ==
    ASSUME NEW r \in Requests,
           \/ Arrive(r)
           \/ CreateCount(r) \/ CreateInsert(r) \/ Begin(r) \/ StepStart(r) \/ StepDone(r)
           \/ StepFailed(r) \/ Complete(r) \/ Fail(r) \/ RollupGet(r) \/ NoteFind(r)
           \/ NoteClear(r) \/ NoteInsert(r) \/ VisitClear(r) \/ RetrySave(r) \/ CancelSave(r)
           \/ DismissSave(r) \/ ApplyResume(r) \/ ApplyAnalysis(r) \/ CascadeList(r)
           \/ CascadeAnalysis(r) \/ CascadeFind(r) \/ CascadeClear(r)
    PROVE  UNCHANGED <<accepted, resume>>
  BY DEF Arrive, CreateFind, RetryFind, CancelFind, VisitFind, DismissFind, ApplyFind,
         EditFind, DeleteFind, CascadeGet, AnalysisFind, ResumeFind, CreateCount, CreateInsert,
         Begin, StepStart, StepDone, StepFailed, Complete, Fail, RollupGet, NoteFind, NoteClear,
         NoteInsert, VisitClear, RetrySave, CancelSave, DismissSave, ApplyResume, ApplyAnalysis,
         CascadeList, CascadeAnalysis, CascadeFind, CascadeClear, NoteUnchanged, LoadResume,
         resumeVars

\* The kind of write that each save of a resume makes, and where it leads.
LEMMA AcceptsKind ==
    ASSUME TypeOK, NEW r \in Requests, NEW x \in Resumes, NEW k \in WriteKinds,
           <<r, k>> \notin accepted[x], <<r, k>> \in accepted'[x],
           Arrive(r) \/ Continue(r)
    PROVE  /\ x = res[r]
           /\ \/ CreateRollup(r) /\ k = "in_progress" /\ pc'[r] = "begin"
              \/ RollupSave(r) /\ k = goal[r] /\ pc'[r] = "note_find"
              \/ ApplySave(r) /\ k = "apply" /\ pc'[r] = "ok"
              \/ EditSave(r) /\ k \in {"edit", "rename"} /\ pc'[r] = "ok"
              \/ (DeleteSave(r) \/ CascadeResume(r)) /\ k = "delete" /\ pc'[r] = "ok"
<1>1. ASSUME NEW doc, NEW kind, NEW saved, NEW raised,
             SaveResume(r, res[r], doc, kind, saved, raised)
      PROVE  x = res[r] /\ k = kind /\ pc'[r] = saved
  <2>1. CASE StoreResume(r, res[r], doc, kind) /\ Goto(r, saved)
    <3>1. accepted' = [accepted EXCEPT ![res[r]] = @ \cup {<<r, kind>>}]
      BY <2>1 DEF StoreResume
    <3>2. pc'[r] = saved
      BY <2>1 DEF Goto, TypeOK
    <3>3. x = res[r] /\ <<r, k>> = <<r, kind>>
      BY <3>1 DEF TypeOK
    <3> QED
      BY <3>2, <3>3
  <2>2. CASE UNCHANGED resumeVars
    BY <2>2 DEF resumeVars
  <2> QED
    BY <1>1, <2>1, <2>2 DEF SaveResume
<1>2. CreateRollup(r) \/ RollupSave(r) \/ ApplySave(r) \/ EditSave(r) \/ DeleteSave(r)
      \/ CascadeResume(r)
  BY AcceptsNothing DEF Continue
<1>3. CASE CreateRollup(r)
  BY <1>1, <1>3 DEF CreateRollup
<1>4. CASE RollupSave(r)
  BY <1>1, <1>4 DEF RollupSave
<1>5. CASE ApplySave(r) \/ DeleteSave(r)
  BY <1>1, <1>5 DEF ApplySave, DeleteSave
<1>7. CASE EditSave(r)
  BY <1>1, <1>7 DEF EditSave, resumeVars
<1>6. CASE CascadeResume(r)
  BY <1>1, <1>6 DEF CascadeResume, resumeVars
<1> QED
  BY <1>2, <1>3, <1>4, <1>5, <1>6, <1>7

\* What the steps of a cascade know, and what the other steps leave.
LEMMA CascadeStep ==
    ASSUME CascadeInv, NEW r \in Requests, Arrive(r) \/ Continue(r), Gone \subseteq Gone', IInv'
    PROVE  CascadeProgress'
<1>1. TypeOK /\ TypeOK' /\ AnalysisCopies
  BY DEF CascadeInv, IInv
<1>2. \A q \in Requests \ {r} : /\ pc'[q] = pc[q] /\ ana'[q] = ana[q] /\ batch'[q] = batch[q]
                                /\ Known(q)' = Known(q)
  BY OthersStay DEF CascadeInv, IInv, Known
<1> DEFINE Start == {"idle", "edit_save", "delete_save", "cascade_list"}
           Under == {"cascade_next", "cascade_find", "cascade_clear", "cascade_resume"}
\* It is enough that the acting request keeps its part.
<1>3. ASSUME /\ pc'[r] \in Start => Known(r)' = {}
             /\ pc'[r] \in Under => Known(r)' \subseteq batch'[r] \cup Gone'
             /\ pc'[r] \in {"cascade_find", "cascade_clear"} => ana'[r] \in Gone'
             /\ pc'[r] = "cascade_resume" => batch'[r] = {}
      PROVE  CascadeProgress'
  BY <1>2, <1>3 DEF CascadeInv, CascadeProgress
<1>4. CASE Arrive(r)
  <2>1. pc[r] = "idle"
    BY <1>4 DEF Arrive, CreateFind, RetryFind, CancelFind, VisitFind, DismissFind, ApplyFind,
                EditFind, DeleteFind, CascadeGet, AnalysisFind, ResumeFind
  <2>2. Known(r) = {}
    BY <2>1 DEF CascadeInv, CascadeProgress
  <2>3. CASE EditFind(r) \/ DeleteFind(r) \/ CascadeGet(r)
    <3>1. copy' = copy
      BY <2>3 DEF EditFind, DeleteFind, CascadeGet, ResumeFind, analysisVars
    <3>2. pc'[r] \in {"refused", "edit_save", "delete_save", "cascade_list"}
      BY <1>1, <2>3 DEF EditFind, DeleteFind, CascadeGet, ResumeFind, Goto, TypeOK
    <3>3. Known(r)' = {}
      BY <2>2, <3>1 DEF Known
    <3> QED
      BY <1>3, <3>2, <3>3
  <2>4. CASE CreateFind(r) \/ RetryFind(r) \/ CancelFind(r) \/ VisitFind(r) \/ DismissFind(r)
             \/ ApplyFind(r)
    <3>1. PICK l \in {"refused", "create_count", "error", "retry_save", "cancel_save", "ok",
                      "visit_clear", "dismiss_save", "apply_resume"} : Goto(r, l)
      BY <2>4 DEF CreateFind, RetryFind, CancelFind, VisitFind, DismissFind, ApplyFind,
                  AnalysisFind
    <3>2. pc'[r] \notin Start \cup Under
      BY <1>1, <3>1 DEF Goto, TypeOK
    <3> QED
      BY <1>3, <3>2
  <2> QED
    BY <1>4, <2>3, <2>4 DEF Arrive
<1>5. CASE CascadeList(r)
  <2> DEFINE found == LiveAnalysesOf(res[r])
  <2>1. Known(r) = {}
    BY <1>5 DEF CascadeList, CascadeInv, CascadeProgress
  <2>2. CASE pc'[r] = "error"
    BY <1>3, <2>2
  <2>3. CASE /\ copy' = [copy EXCEPT ![r] =
                   [a \in Analyses |-> IF a \in found THEN analysis[a] ELSE @[a]]]
             /\ batch' = [batch EXCEPT ![r] = found]
             /\ Goto(r, IF found = {} THEN "cascade_resume" ELSE "cascade_next")
    <3>1. batch'[r] = found
      BY <1>1, <2>3 DEF TypeOK
    <3>2. \A a \in Analyses : copy'[r][a] = IF a \in found THEN analysis[a] ELSE copy[r][a]
      BY <1>1, <2>3 DEF TypeOK
    <3>3. Known(r)' \subseteq found
      BY <2>1, <3>2 DEF Known
    <3>4. pc'[r] = IF found = {} THEN "cascade_resume" ELSE "cascade_next"
      BY <1>1, <2>3 DEF Goto, TypeOK
    <3> HIDE DEF found
    <3> QED
      BY <1>3, <3>1, <3>3, <3>4
  <2> QED
    BY <1>1, <1>5, <2>2, <2>3 DEF CascadeList, Goto, TypeOK
<1>6. CASE CascadeAnalysis(r)
  <2>1. PICK a \in batch[r] :
            /\ ana' = [ana EXCEPT ![r] = a]
            /\ SaveAnalysis(r, a, [copy[r][a] EXCEPT !.deleted = TRUE],
                            "cascade_find", "error")
    BY <1>6 DEF CascadeAnalysis
  <2>2. a \in Analyses /\ copy[r][a] \in AnalysisDoc /\ batch' = batch
    BY <1>1, <1>6 DEF TypeOK, CascadeAnalysis
  <2> DEFINE new == [copy[r][a] EXCEPT !.deleted = TRUE]
  <2>3. new.deleted = TRUE
    BY <2>2 DEF AnalysisDoc
  <2>4. SaveAnalysis(r, a, new, "cascade_find", "error")
    BY <2>1
  <2>5. Known(r) \subseteq batch[r] \cup Gone
    BY <1>6 DEF CascadeAnalysis, CascadeInv, CascadeProgress
  <2> HIDE DEF new
  <2>6. CASE UNCHANGED analysisVars /\ Goto(r, "error")
    BY <1>1, <1>3, <2>6 DEF Goto, TypeOK
  <2>7. CASE StoreAnalysis(r, a, new) /\ Goto(r, "cascade_find")
    <3>1. a \in Gone' /\ \A b \in Analyses \ {a} : copy'[r][b] = copy[r][b]
      BY <1>1, <2>2, <2>3, <2>7, StoreFacts DEF Gone
    <3>2. Known(r)' \subseteq Known(r) \cup {a}
      BY <3>1 DEF Known
    <3>3. pc'[r] = "cascade_find" /\ ana'[r] = a
      BY <1>1, <2>1, <2>7 DEF Goto, TypeOK
    <3> QED
      BY <1>3, <2>2, <2>5, <3>1, <3>2, <3>3
  <2> QED
    BY <2>4, <2>6, <2>7 DEF SaveAnalysis
<1>7. CASE CascadeFind(r) \/ CascadeClear(r)
  <2>1. /\ Known(r) \subseteq batch[r] \cup Gone
        /\ ana[r] \in Gone
    BY <1>7 DEF CascadeFind, CascadeClear, CascadeInv, CascadeProgress
  <2>2. UNCHANGED <<analysisVars, ana>>
    BY <1>7 DEF CascadeFind, CascadeClear
  <2>3. Known(r)' = Known(r) /\ Gone' = Gone
    BY <2>2 DEF Known, Gone, analysisVars
  <2>4. CASE CascadeFind(r)
    <3>1. pc'[r] = "cascade_clear" /\ batch' = batch
      BY <1>1, <2>4 DEF CascadeFind, Goto, TypeOK
    <3> QED
      BY <1>3, <2>1, <2>2, <2>3, <3>1
  <2>5. CASE CascadeClear(r)
    <3>1. /\ batch'[r] = batch[r] \ {ana[r]}
          /\ pc'[r] = IF batch'[r] = {} THEN "cascade_resume" ELSE "cascade_next"
      BY <1>1, <2>5 DEF CascadeClear, Goto, TypeOK
    <3> QED
      BY <1>3, <2>1, <2>2, <2>3, <3>1
  <2> QED
    BY <1>7, <2>4, <2>5
<1>8. CASE \/ CreateCount(r) \/ CreateInsert(r) \/ CreateRollup(r) \/ Begin(r) \/ StepStart(r)
           \/ StepDone(r) \/ StepFailed(r) \/ Complete(r) \/ Fail(r) \/ RollupGet(r)
           \/ RollupSave(r) \/ NoteFind(r) \/ NoteClear(r) \/ NoteInsert(r) \/ VisitClear(r)
           \/ RetrySave(r) \/ CancelSave(r) \/ DismissSave(r) \/ ApplyResume(r)
           \/ ApplyAnalysis(r) \/ ApplySave(r) \/ EditSave(r) \/ DeleteSave(r)
           \/ CascadeResume(r)
  <2>1. PICK l \in {"refused", "create_insert", "create_rollup", "begin", "error", "note_find",
                    "llm", "fail", "step", "complete", "rollup_get", "rollup_save", "note_clear",
                    "note_insert", "ok", "apply_analysis", "apply_save", "conflict"} :
            Goto(r, l)
    <3>1. CASE Begin(r) \/ StepStart(r) \/ StepDone(r) \/ StepFailed(r) \/ Complete(r) \/ Fail(r)
               \/ RetrySave(r) \/ CancelSave(r) \/ DismissSave(r) \/ ApplyAnalysis(r)
      BY <3>1, SaveAnalysisGoto
      DEF Begin, StepStart, StepDone, StepFailed, Complete, Fail, RetrySave, CancelSave,
          DismissSave, ApplyAnalysis
    <3>2. CASE CreateRollup(r) \/ RollupSave(r) \/ ApplySave(r) \/ EditSave(r) \/ DeleteSave(r)
               \/ CascadeResume(r)
      BY <3>2, SaveResumeGoto
      DEF CreateRollup, RollupSave, ApplySave, EditSave, DeleteSave, CascadeResume
    <3>3. CASE CreateCount(r) \/ CreateInsert(r) \/ RollupGet(r) \/ NoteFind(r) \/ NoteClear(r)
               \/ NoteInsert(r) \/ VisitClear(r) \/ ApplyResume(r)
      BY <1>1, <3>3
      DEF CreateCount, CreateInsert, RollupGet, NoteFind, NoteClear, NoteInsert, VisitClear,
          ApplyResume, AfterNote, NoteRaised, Goals, TypeOK
    <3> QED
      BY <1>8, <3>1, <3>2, <3>3
  <2>2. pc'[r] \notin Start \cup Under
    BY <1>1, <2>1 DEF Goto, TypeOK
  <2> QED
    BY <1>3, <2>2
<1> QED
  BY <1>4, <1>5, <1>6, <1>7, <1>8 DEF Continue

\* A request that is answered with a deletion knows only deleted analyses.
LEMMA DeletedStep ==
    ASSUME CascadeInv, NEW r \in Requests, Arrive(r) \/ Continue(r), Gone \subseteq Gone'
    PROVE  Deleted'
<1> SUFFICES ASSUME NEW x \in Resumes, NEW q \in Requests, <<q, "delete">> \in accepted'[x]
             PROVE  pc'[q] \in Answers /\ Known(q)' \subseteq Gone'
  BY DEF Deleted
<1>1. TypeOK /\ ResumeEffect(r)
  BY ArriveResumeEffect, ContinueResumeEffect DEF CascadeInv, IInv
<1>2. "delete" \in WriteKinds
  BY DEF WriteKinds
<1>3. CASE q # r
  <2>1. <<q, "delete">> \in accepted[x]
    BY <1>1, <1>2, <1>3, AcceptedStep
  <2>2. pc'[q] = pc[q] /\ Known(q)' = Known(q)
    BY <1>3, OthersStay DEF CascadeInv, IInv, Known
  <2> QED
    BY <2>1, <2>2 DEF CascadeInv, Deleted
<1>4. CASE q = r
  <2>1. <<r, "delete">> \notin accepted[x]
    BY NotAnswered DEF CascadeInv, Deleted
  <2>2. (DeleteSave(r) \/ CascadeResume(r)) /\ pc'[r] = "ok"
    <3>1. goal[r] \in Goals
      BY <1>1 DEF TypeOK
    <3> QED
      BY <1>1, <1>2, <1>4, <2>1, <3>1, AcceptsKind DEF Goals
  <2>3. Known(r) \subseteq Gone
    BY <2>2 DEF DeleteSave, CascadeResume, CascadeInv, CascadeProgress
  <2>4. Known(r)' = Known(r)
    BY <2>2 DEF DeleteSave, CascadeResume, analysisVars, Known
  <2> QED
    BY <1>4, <2>2, <2>3, <2>4 DEF Answers
<1> QED
  BY <1>3, <1>4

LEMMA CascadeInvInit == ASSUME Init PROVE CascadeInv
<1>1. \A r \in Requests : Known(r) = {} /\ pc[r] = "idle"
  BY DEF Init, DocumentsInit, Known, Absent
<1>2. \A x \in Resumes : accepted[x] = {}
  BY DEF Init, DocumentsInit
<1> QED
  BY <1>1, <1>2, IInvInit DEF CascadeInv, CascadeProgress, Deleted

LEMMA CascadeInvStep == ASSUME CascadeInv, [Next]_vars PROVE CascadeInv'
<1>1. IInv'
  BY IInvStep DEF CascadeInv
<1>2. Gone \subseteq Gone'
  BY FinalStep DEF CascadeInv, Gone
<1>3. CASE Serve
  BY <1>1, <1>2, <1>3, CascadeStep, DeletedStep DEF Serve, CascadeInv
<1>4. CASE Crash
  <2>1. /\ UNCHANGED <<analysis, copy, accepted, ana, batch>>
        /\ \A q \in Requests : pc'[q] \in {pc[q], "lost"}
    BY <1>4, CrashFacts DEF analysisVars, resumeVars
  <2>2. Gone' = Gone /\ \A q \in Requests : Known(q)' = Known(q)
    BY <2>1 DEF Gone, Known
  <2> QED
    BY <1>1, <2>1, <2>2 DEF CascadeInv, CascadeProgress, Deleted, Answers
<1>5. CASE UNCHANGED vars
  <2>1. UNCHANGED <<analysis, copy, accepted, ana, batch, pc>>
    BY <1>5 DEF vars, analysisVars, resumeVars, requestVars
  <2>2. Gone' = Gone /\ \A q \in Requests : Known(q)' = Known(q)
    BY <2>1 DEF Gone, Known
  <2> QED
    BY <1>1, <2>1, <2>2 DEF CascadeInv, CascadeProgress, Deleted
<1> QED
  BY <1>3, <1>4, <1>5 DEF Next

\* A resume is deleted last: whoever deleted it has deleted every analysis
\* it found, also when analyses of the resume were saved, cancelled or
\* deleted by others while the cascade worked through its list.
THEOREM CascadeIsInOrder == Spec => []CascadeInOrder
<1>1. Init => CascadeInv
  BY CascadeInvInit
<1>2. CascadeInv /\ [Next]_vars => CascadeInv'
  BY CascadeInvStep
<1>3. CascadeInv => CascadeInOrder
  BY DEF CascadeInv, Deleted, CascadeInOrder, Known, Gone
<1> QED
  BY <1>1, <1>2, <1>3, PTL DEF Spec

---------------------------------------------------------------------------
(* Who answers for what is unfinished. *)

\* A running request runs on, fails, has stored a failure, or has announced
\* the completion it stored.
LEMMA RunLeave ==
    ASSUME WorkInv, NEW r \in Requests, Arrive(r) \/ Continue(r), Running(r)
    PROVE  /\ ana'[r] = ana[r]
           /\ \/ Running(r)'
              \/ pc'[r] = "error"
              \/ analysis'[ana[r]].status = "failed"
              \/ goal[r] = "completed"
<1>1. ana[r] \in Analyses /\ TypeOK /\ AnalysisCopies /\ goal[r] \in Goals /\ pc[r] \in Labels
  BY DEF WorkInv, IInv, Running, Focus, AboutAnalysis, ResumeOnly, Labels, Answers, TypeOK
<1>2. CASE CreateRollup(r) \/ RollupGet(r) \/ RollupSave(r) \/ NoteFind(r) \/ NoteClear(r)
  <2>1. UNCHANGED <<ana, goal>>
    BY <1>2 DEF CreateRollup, RollupGet, RollupSave, NoteFind, NoteClear, requestVars
  <2>2. pc'[r] \in {"begin", "rollup_save", "note_find", "note_clear", "note_insert", "error"}
        \/ goal[r] = "completed"
    BY <1>1, <1>2, SaveResumeGoto
       DEF CreateRollup, RollupGet, RollupSave, NoteFind, NoteClear, Goto, TypeOK
  <2>3. pc[r] # "create_rollup" => goal[r] \in {"in_progress", "completed"}
    BY <1>2 DEF Running, CreateRollup, RollupGet, RollupSave, NoteFind, NoteClear
  <2>4. pc[r] = "create_rollup" => pc'[r] \in {"begin", "error"}
    BY <1>1, <1>2, SaveResumeGoto
       DEF CreateRollup, RollupGet, RollupSave, NoteFind, NoteClear, Goto, TypeOK
  <2> QED
    BY <2>1, <2>2, <2>3, <2>4 DEF Running
<1>3. CASE NoteInsert(r)
  <2>1. UNCHANGED <<ana, goal>> /\ goal[r] \in {"in_progress", "completed"}
    BY <1>3 DEF NoteInsert, requestVars, Running
  <2>2. goal[r] = "in_progress" => pc'[r] \in {"step", "error"}
    BY <1>1, <1>3 DEF NoteInsert, AfterNote, NoteRaised, Goto, TypeOK
  <2> QED
    BY <2>1, <2>2 DEF Running
<1>4. CASE Begin(r) \/ StepStart(r) \/ StepDone(r) \/ StepFailed(r) \/ Complete(r)
  <2>1. ana' = ana
    BY <1>4 DEF Begin, StepStart, StepDone, StepFailed, Complete, requestVars
  <2>2. CASE Begin(r)
    <3>1. pc'[r] \in {"note_find", "error"} /\ goal'[r] = "in_progress"
      BY <1>1, <2>2, SaveAnalysisGoto DEF Begin, Goto, TypeOK
    <3> QED
      BY <2>1, <3>1 DEF Running
  <2>3. CASE StepStart(r) \/ StepDone(r) \/ StepFailed(r)
    <3>1. PICK l \in {"llm", "fail", "complete", "step"} : Goto(r, l)
      BY <2>3, SaveAnalysisGoto DEF StepStart, StepDone, StepFailed
    <3> QED
      BY <1>1, <2>1, <3>1 DEF Goto, Running, TypeOK
  <2>4. CASE Complete(r)
    <3>1. \/ pc'[r] = "fail"
          \/ pc'[r] = "rollup_get" /\ goal'[r] = "completed"
      BY <1>1, <2>4, SaveAnalysisGoto DEF Complete, Goto, TypeOK
    <3> QED
      BY <2>1, <3>1 DEF Running
  <2> QED
    BY <1>4, <2>2, <2>3, <2>4
<1>5. CASE Fail(r)
  <2> DEFINE doc == copy[r][ana[r]]
  <2>1. PICK result :
            SaveAnalysis(r, ana[r], [doc EXCEPT !.status = "failed", !.result = result,
                                                !.applied = @ /\ result = "full"],
                         "rollup_get", "error")
    BY <1>5 DEF Fail
  <2> DEFINE new == [doc EXCEPT !.status = "failed", !.result = result,
                                !.applied = @ /\ result = "full"]
  <2>2. SaveAnalysis(r, ana[r], new, "rollup_get", "error") /\ ana' = ana
    BY <1>5, <2>1 DEF Fail
  <2>3. new.status = "failed"
    BY <1>1 DEF TypeOK, AnalysisDoc
  <2> HIDE DEF new
  <2>4. pc'[r] = "error" \/ analysis'[ana[r]] = new
    BY <1>1, <2>2, OwnSave
  <2> QED
    BY <2>2, <2>3, <2>4
<1>6. ASSUME \/ Arrive(r)
             \/ CreateCount(r) \/ CreateInsert(r) \/ VisitClear(r) \/ RetrySave(r)
             \/ CancelSave(r) \/ DismissSave(r) \/ ApplyResume(r) \/ ApplyAnalysis(r)
             \/ ApplySave(r) \/ EditSave(r) \/ DeleteSave(r) \/ CascadeList(r)
             \/ CascadeAnalysis(r) \/ CascadeFind(r) \/ CascadeClear(r) \/ CascadeResume(r)
      PROVE  FALSE
  BY <1>6 DEF Arrive, CreateFind, RetryFind, CancelFind, VisitFind, DismissFind, ApplyFind,
              EditFind, DeleteFind, CascadeGet, AnalysisFind, ResumeFind,
              CreateCount, CreateInsert, VisitClear, RetrySave, CancelSave, DismissSave,
              ApplyResume, ApplyAnalysis, ApplySave, EditSave, DeleteSave, CascadeList,
              CascadeAnalysis, CascadeFind, CascadeClear, CascadeResume, Running
<1> QED
  BY <1>2, <1>3, <1>4, <1>5, <1>6 DEF Continue

\* An insert and a reset that are accepted lead into the run.
LEMMA RunEnter ==
    ASSUME WorkInv, NEW r \in Requests, Arrive(r) \/ Continue(r),
           pc[r] \in {"create_insert", "retry_save"}
    PROVE  /\ ana'[r] = ana[r]
           /\ Running(r)' \/ pc'[r] = "error"
<1>1. TypeOK
  BY DEF WorkInv, IInv
<1>2. CreateInsert(r) \/ RetrySave(r)
  BY DEF Arrive, CreateFind, RetryFind, CancelFind, VisitFind, DismissFind, ApplyFind,
         EditFind, DeleteFind, CascadeGet, AnalysisFind, ResumeFind,
         Continue, CreateCount, CreateInsert, CreateRollup, Begin, StepStart, StepDone,
         StepFailed, Complete, Fail, RollupGet, RollupSave, NoteFind, NoteClear,
         NoteInsert, VisitClear, RetrySave, CancelSave, DismissSave, ApplyResume,
         ApplyAnalysis, ApplySave, EditSave, DeleteSave, CascadeList, CascadeAnalysis,
         CascadeFind, CascadeClear, CascadeResume
<1>3. pc'[r] \in {"create_rollup", "begin", "error"}
  BY <1>1, <1>2, SaveAnalysisGoto DEF CreateInsert, RetrySave, Goto, TypeOK
<1> QED
  BY <1>2, <1>3 DEF CreateInsert, RetrySave, requestVars, Running

LEMMA AbandonStep ==
    ASSUME OwnerInv, NEW r \in Requests, Arrive(r) \/ Continue(r)
    PROVE  NoSilentAbandon'
<1>1. WorkInv /\ TypeOK /\ Focus /\ AnalysisEffect(r)
  BY ServeEffect DEF OwnerInv, WorkInv, IInv
<1> SUFFICES ASSUME NEW a \in Analyses, analysis'[a].status = "pending"
             PROVE  \E q \in Requests : ana'[q] = a /\ (Running(q)' \/ pc'[q] \in {"error", "lost"})
  BY DEF NoSilentAbandon, Active
\* An analysis that was pending before keeps an owner.
<1>2. CASE analysis[a].status = "pending"
  <2>1. PICK q \in Requests : ana[q] = a /\ (Running(q) \/ pc[q] \in {"error", "lost"})
    BY <1>2 DEF OwnerInv, NoSilentAbandon, Active
  <2>2. CASE q # r
    <3>1. pc'[q] = pc[q] /\ ana'[q] = ana[q] /\ goal'[q] = goal[q]
      BY <2>2, OthersStay DEF OwnerInv, WorkInv, IInv
    <3> QED
      BY <2>1, <3>1 DEF Running
  <2>3. CASE q = r
    <3>1. Running(r)
      BY <2>1, <2>3, NotAnswered DEF Answers
    <3>2. goal[r] # "completed"
      BY <1>1, <1>2, <2>1, <2>3, <3>1 DEF WorkInv, Verdict
    <3>3. ana'[r] = a /\ (Running(r)' \/ pc'[r] = "error")
      BY <1>1, <2>1, <2>3, <3>1, <3>2, RunLeave
    <3> QED
      BY <3>3
  <2> QED
    BY <2>2, <2>3
\* One that becomes pending is inserted or reset by a request that runs it.
<1>3. CASE analysis[a].status # "pending"
  <2>1. a = ana[r] /\ pc[r] \in {"create_insert", "retry_save"}
    <3>1. analysis'[a] # analysis[a]
      BY <1>3
    <3>2. (Inserts(r) /\ a = ana[r]) \/ Updates(r, a)
      BY <1>1, <3>1, StatusFacts
    <3> QED
      BY <1>3, <3>2 DEF Inserts, Updates, StatusMove
  <2> QED
    BY <1>1, <2>1, RunEnter
<1> QED
  BY <1>2, <1>3

\* Entries of the bell come from inserts only.
LEMMA BellStep ==
    ASSUME TypeOK, Focus, NEW r \in Requests, Arrive(r) \/ Continue(r), NEW a \in Analyses,
           NEW n \in bell'[a], n \notin bell[a]
    PROVE  /\ NoteInsert(r) /\ a = ana[r] /\ n = <<r, goal[r]>>
           /\ pc'[r] = AfterNote[goal[r]]
<1>1. CASE NoteInsert(r)
  <2>1. ana[r] \in Analyses
    BY <1>1 DEF NoteInsert, Focus, AboutAnalysis, ResumeOnly, Labels, Answers
  <2> QED
    BY <1>1, <2>1 DEF NoteInsert, Goto, TypeOK
<1>2. CASE NoteClear(r) \/ VisitClear(r) \/ CascadeClear(r)
  BY <1>2 DEF NoteClear, VisitClear, CascadeClear, TypeOK
<1>3. CASE UNCHANGED bell
  BY <1>3
<1>4. NoteInsert(r) \/ NoteClear(r) \/ VisitClear(r) \/ CascadeClear(r) \/ UNCHANGED bell
  BY DEF Arrive, CreateFind, RetryFind, CancelFind, VisitFind, DismissFind, ApplyFind,
         EditFind, DeleteFind, CascadeGet, AnalysisFind, ResumeFind,
         Continue, CreateCount, CreateInsert, CreateRollup, Begin, StepStart, StepDone,
         StepFailed, Complete, Fail, RollupGet, RollupSave, NoteFind, RetrySave, CancelSave,
         DismissSave, ApplyResume, ApplyAnalysis, ApplySave, EditSave, DeleteSave, CascadeList,
         CascadeAnalysis, CascadeFind, CascadeResume
<1> QED
  BY <1>1, <1>2, <1>3, <1>4

LEMMA BellOverStep ==
    ASSUME OwnerInv, NEW r \in Requests, Arrive(r) \/ Continue(r)
    PROVE  BellIsOver'
<1>1. WorkInv /\ TypeOK /\ Focus /\ AnalysisEffect(r)
  BY ServeEffect DEF OwnerInv, WorkInv, IInv
<1> SUFFICES ASSUME NEW a \in Analyses, NEW q \in Requests, <<q, "completed">> \in bell'[a]
             PROVE  /\ analysis'[a].status = "completed"
                    /\ \A p \in Requests : Running(p)' => ana'[p] # a
  BY DEF BellIsOver
<1>2. \A p \in Requests \ {r} : /\ ana'[p] = ana[p]
                                /\ Running(p)' <=> Running(p)
  BY OthersStay DEF OwnerInv, WorkInv, IInv, Running
<1>3. CASE <<q, "completed">> \in bell[a]
  <2>1. /\ analysis[a].status = "completed"
        /\ \A p \in Requests : Running(p) => ana[p] # a
    BY <1>3 DEF OwnerInv, BellIsOver
  <2>2. pc[r] \in {"complete", "fail"} => ana[r] # a
    BY <2>1 DEF Running
  <2>3. ~(Inserts(r) /\ ana[r] = a)
    BY <1>1, <2>1 DEF Inserts, WorkInv, IInv, Reserved
  <2>4. Updates(r, a) => ~(pc[r] \in {"retry_save", "cancel_save"} /\ ana[r] = a)
    BY <1>1, <2>1 DEF Updates, Current, WorkInv, IInv, RunnerCurrent
  <2>5. analysis'[a].status = "completed"
    BY <1>1, <2>1, <2>2, <2>3, <2>4, StatusFacts DEF Updates, StatusMove
  <2>6. Running(r)' => ana'[r] # a
    BY <1>1, <2>1, <2>3, <2>4 DEF AnalysisEffect, RunMove
  <2> QED
    BY <1>2, <2>1, <2>5, <2>6
<1>4. CASE <<q, "completed">> \notin bell[a]
  <2>1. /\ NoteInsert(r) /\ a = ana[r] /\ q = r /\ goal[r] = "completed"
        /\ pc'[r] = AfterNote[goal[r]]
    BY <1>1, <1>4, BellStep
  <2>2. Running(r) /\ pc'[r] = "ok" /\ analysis' = analysis
    BY <2>1 DEF NoteInsert, Running, AfterNote, NoteUnchanged, analysisVars
  <2>3. analysis[a].status = "completed"
    BY <1>1, <2>1, <2>2 DEF WorkInv, Verdict
  <2>4. \A p \in Requests \ {r} : Running(p) => ana[p] # a
    BY <1>1, <2>1, <2>2 DEF WorkInv, IInv, OneRunner
  <2>5. ~Running(r)'
    BY <2>2 DEF Running
  <2> QED
    BY <1>2, <2>2, <2>3, <2>4, <2>5
<1> QED
  BY <1>3, <1>4

\* A resume's rollup changes by the two saves that report on a run.
LEMMA RollupMove ==
    ASSUME IInv, NEW r \in Requests, Arrive(r) \/ Continue(r), NEW x \in Resumes
    PROVE  \/ resume'[x].rollup = resume[x].rollup
           \/ /\ CreateRollup(r) /\ x = res[r] /\ pc'[r] = "begin"
              /\ <<r, "in_progress">> \in resume'[x].writes
           \/ RollupSave(r) /\ x = res[r] /\ resume'[x].rollup = goal[r]
<1>1. TypeOK /\ Focus /\ ResumeCopies
  BY DEF IInv
<1>2. ASSUME NEW doc \in ResumeDoc, NEW kind, NEW saved, NEW raised,
             SaveResume(r, res[r], doc, kind, saved, raised)
      PROVE  \/ resume'[x].rollup = resume[x].rollup
             \/ /\ x = res[r] /\ pc'[r] = saved /\ <<r, kind>> \in resume'[x].writes
                /\ resume'[x].rollup = doc.rollup
                /\ resumeCopy[r] = resume[x]
  <2>1. CASE r \in resumeHolders[res[r]] /\ StoreResume(r, res[r], doc, kind) /\ Goto(r, saved)
    <3> DEFINE written == [doc EXCEPT !.writes = doc.writes \cup {<<r, kind>>}]
    <3>1. written.rollup = doc.rollup /\ <<r, kind>> \in written.writes
      BY DEF ResumeDoc
    <3>2. resume' = [resume EXCEPT ![res[r]] = written]
      BY <2>1 DEF StoreResume
    <3> HIDE DEF written
    <3>3. CASE x = res[r]
      BY <1>1, <2>1, <3>1, <3>2, <3>3 DEF ResumeCopies, Goto, TypeOK
    <3>4. CASE x # res[r]
      BY <1>1, <3>2, <3>4 DEF TypeOK
    <3> QED
      BY <3>3, <3>4
  <2>2. CASE UNCHANGED resumeVars
    BY <2>2 DEF resumeVars
  <2> QED
    BY <1>2, <2>1, <2>2 DEF SaveResume
<1>3. resumeCopy[r] \in ResumeDoc /\ goal[r] \in Goals
  BY <1>1 DEF TypeOK
<1>4. CASE CreateRollup(r)
  <2> DEFINE doc == [resumeCopy[r] EXCEPT !.rollup = "in_progress"]
  <2>1. doc \in ResumeDoc
    BY <1>3 DEF ResumeDoc, Rollups, Goals
  <2>2. SaveResume(r, res[r], doc, "in_progress", "begin", "error")
    BY <1>4 DEF CreateRollup
  <2> HIDE DEF doc
  <2> QED
    BY <1>2, <1>4, <2>1, <2>2
<1>5. CASE RollupSave(r)
  <2> DEFINE doc == [resumeCopy[r] EXCEPT !.rollup = goal[r]]
  <2>1. doc \in ResumeDoc /\ doc.rollup = goal[r]
    BY <1>3 DEF ResumeDoc, Rollups
  <2>2. PICK raised : SaveResume(r, res[r], doc, goal[r], "note_find", raised)
    BY <1>5 DEF RollupSave
  <2> HIDE DEF doc
  <2> QED
    BY <1>2, <1>5, <2>1, <2>2
<1>6. CASE ApplySave(r) \/ EditSave(r)
  <2>1. /\ res[r] \in Resumes
        /\ \A shown \in pages[res[r]] :
               /\ Replaced(resumeCopy[r], shown) \in ResumeDoc
               /\ Replaced(resumeCopy[r], shown).rollup = resumeCopy[r].rollup
    <3>1. res[r] \in Resumes
      BY <1>1, <1>6 DEF ApplySave, EditSave, Focus, AboutResume, Labels, Answers
    <3> QED
      BY <1>1, <1>3, <3>1, ReplacedType DEF TypeOK
  <2>2. \/ \E doc \in ResumeDoc : \E kind, raised :
              SaveResume(r, res[r], doc, kind, "ok", raised) /\ doc.rollup = resumeCopy[r].rollup
        \/ UNCHANGED resumeVars
    BY <1>3, <1>6, <2>1 DEF ApplySave, EditSave
  <2>3. UNCHANGED resumeVars => resume'[x].rollup = resume[x].rollup
    BY DEF resumeVars
  <2> QED
    BY <1>2, <2>2, <2>3
<1>7. CASE DeleteSave(r) \/ CascadeResume(r)
  <2> DEFINE doc == [resumeCopy[r] EXCEPT !.deleted = TRUE]
  <2>1. doc \in ResumeDoc /\ doc.rollup = resumeCopy[r].rollup
    BY <1>3 DEF ResumeDoc
  <2>2. SaveResume(r, res[r], doc, "delete", "ok", "error") \/ UNCHANGED resumeVars
    BY <1>7 DEF DeleteSave, CascadeResume
  <2> HIDE DEF doc
  <2>3. UNCHANGED resumeVars => resume'[x].rollup = resume[x].rollup
    BY DEF resumeVars
  <2> QED
    BY <1>2, <2>1, <2>2, <2>3
<1> QED
  BY <1>4, <1>5, <1>6, <1>7, AcceptsNothing DEF Continue

\* A request that has reported a start goes on, fails, or reports the end.
LEMMA ReportMove ==
    ASSUME WorkInv, NEW r \in Requests, Arrive(r) \/ Continue(r), Reporting(r)
    PROVE  /\ res'[r] = res[r]
           /\ \/ Reporting(r)'
              \/ pc'[r] = "error"
              \/ RollupSave(r) /\ resume'[res[r]].rollup = goal[r]
<1>1. TypeOK /\ goal[r] \in Goals /\ res[r] \in Resumes
  BY DEF WorkInv, IInv, TypeOK, Reporting, Announcing, Focus, AboutResume, Labels, Answers
<1>2. CASE Begin(r) \/ StepStart(r) \/ StepDone(r) \/ StepFailed(r) \/ Complete(r) \/ Fail(r)
  <2>1. res' = res
    BY <1>2 DEF Begin, StepStart, StepDone, StepFailed, Complete, Fail, requestVars
  <2>2. PICK l \in {"note_find", "error", "llm", "fail", "complete", "step", "rollup_get"} :
            Goto(r, l) /\ (l = "note_find" => Begin(r))
    BY <1>2, SaveAnalysisGoto DEF Begin, StepStart, StepDone, StepFailed, Complete, Fail
  <2>3. Begin(r) => goal'[r] = "in_progress"
    BY <1>1 DEF Begin, TypeOK
  <2> QED
    BY <1>1, <2>1, <2>2, <2>3 DEF Reporting, Announcing, Goto, TypeOK
<1>3. CASE RollupGet(r) \/ NoteFind(r) \/ NoteClear(r) \/ NoteInsert(r)
  <2>1. UNCHANGED <<res, goal>>
    BY <1>3 DEF RollupGet, NoteFind, NoteClear, NoteInsert, requestVars
  <2>2. \/ pc'[r] = "rollup_save"
        \/ goal[r] = "in_progress" /\ pc'[r] \in {"note_clear", "note_insert", "step", "error"}
    BY <1>1, <1>3 DEF RollupGet, NoteFind, NoteClear, NoteInsert, AfterNote, NoteRaised, Goto,
                      TypeOK, Reporting, Announcing
  <2> QED
    BY <2>1, <2>2 DEF Reporting, Announcing
<1>4. CASE RollupSave(r)
  <2> DEFINE doc == [resumeCopy[r] EXCEPT !.rollup = goal[r]]
  <2>0. resumeCopy[r] \in ResumeDoc
    BY <1>1 DEF TypeOK
  <2>1. doc \in ResumeDoc /\ doc.rollup = goal[r]
    BY <1>1, <2>0 DEF ResumeDoc, Rollups
  <2>2. PICK raised \in {"fail", "error"} :
            SaveResume(r, res[r], doc, goal[r], "note_find", raised) /\ res' = res
    BY <1>4 DEF RollupSave, requestVars
  <2> HIDE DEF doc
  <2>3. CASE Goto(r, raised)
    BY <1>1, <2>2, <2>3 DEF Goto, TypeOK, Reporting
  <2>4. CASE StoreResume(r, res[r], doc, goal[r])
    <3> DEFINE written == [doc EXCEPT !.writes = doc.writes \cup {<<r, goal[r]>>}]
    <3>1. written.rollup = doc.rollup
      BY <2>1 DEF ResumeDoc
    <3>2. resume' = [resume EXCEPT ![res[r]] = written]
      BY <2>4 DEF StoreResume
    <3> HIDE DEF written
    <3> QED
      BY <1>1, <1>4, <2>1, <2>2, <3>1, <3>2 DEF TypeOK
  <2> QED
    BY <2>2, <2>3, <2>4 DEF SaveResume
<1>5. ASSUME \/ Arrive(r)
             \/ CreateCount(r) \/ CreateInsert(r) \/ CreateRollup(r) \/ VisitClear(r)
             \/ RetrySave(r) \/ CancelSave(r) \/ DismissSave(r) \/ ApplyResume(r)
             \/ ApplyAnalysis(r) \/ ApplySave(r) \/ EditSave(r) \/ DeleteSave(r)
             \/ CascadeList(r) \/ CascadeAnalysis(r) \/ CascadeFind(r) \/ CascadeClear(r)
             \/ CascadeResume(r)
      PROVE  FALSE
  BY <1>5 DEF Arrive, CreateFind, RetryFind, CancelFind, VisitFind, DismissFind, ApplyFind,
              EditFind, DeleteFind, CascadeGet, AnalysisFind, ResumeFind,
              CreateCount, CreateInsert, CreateRollup, VisitClear, RetrySave, CancelSave,
              DismissSave, ApplyResume, ApplyAnalysis, ApplySave, EditSave, DeleteSave,
              CascadeList, CascadeAnalysis, CascadeFind, CascadeClear, CascadeResume,
              Reporting, Announcing
<1> QED
  BY <1>2, <1>3, <1>4, <1>5 DEF Continue

LEMMA RollupStep ==
    ASSUME OwnerInv, IInv', NEW r \in Requests, Arrive(r) \/ Continue(r)
    PROVE  RollupOwned'
<1>1. WorkInv /\ IInv /\ TypeOK /\ ResumeEffect(r)
  BY ArriveResumeEffect, ContinueResumeEffect DEF OwnerInv, WorkInv, IInv
<1> SUFFICES ASSUME NEW x \in Resumes, resume'[x].rollup = "in_progress"
             PROVE  \E q \in Requests :
                        /\ <<q, "in_progress">> \in resume'[x].writes
                        /\ Reporting(q)' \/ pc'[q] \in {"error", "lost"}
                        /\ res'[q] = x
  BY DEF RollupOwned
<1>2. ASSUME NEW q \in Requests, <<q, "in_progress">> \in resume[x].writes
      PROVE  <<q, "in_progress">> \in resume'[x].writes
  <2>1. <<q, "in_progress">> \in accepted[x]
    BY <1>1, <1>2 DEF IInv, WritesKept
  <2>2. <<q, "in_progress">> \in accepted'[x]
    BY <1>1, <2>1, AcceptedStep DEF WriteKinds, Goals
  <2>3. <<q, "in_progress">> \notin Content(accepted'[x])
    BY DEF Content, ContentKinds
  <2> QED
    BY <2>2, <2>3 DEF IInv, WritesKept
\* The rollup was in progress before: its owner is not done.
<1>3. CASE resume[x].rollup = "in_progress"
  <2>1. PICK q \in Requests :
            /\ <<q, "in_progress">> \in resume[x].writes
            /\ Reporting(q) \/ pc[q] \in {"error", "lost"}
            /\ res[q] = x
    BY <1>3 DEF OwnerInv, RollupOwned
  <2>2. CASE q # r
    <3>1. pc'[q] = pc[q] /\ res'[q] = res[q] /\ goal'[q] = goal[q]
      BY <1>1, <2>2, OthersStay DEF IInv
    <3> QED
      BY <1>2, <2>1, <3>1 DEF Reporting, Announcing
  <2>3. CASE q = r
    <3>1. Reporting(r)
      BY <2>1, <2>3, NotAnswered DEF Answers
    <3>2. RollupSave(r) => goal[r] # "in_progress"
      BY <1>1 DEF RollupSave, WorkInv, GoalKnown
    <3>3. res'[r] = x /\ (Reporting(r)' \/ pc'[r] = "error")
      BY <1>1, <2>1, <2>3, <3>1, <3>2, ReportMove
    <3> QED
      BY <1>2, <2>1, <2>3, <3>3
  <2> QED
    BY <2>2, <2>3
\* It is now: a creation reports the start of its run.
<1>4. CASE resume[x].rollup # "in_progress"
  <2>1. RollupSave(r) => goal[r] # "in_progress"
    BY <1>1 DEF RollupSave, WorkInv, GoalKnown
  <2>2. /\ CreateRollup(r) /\ x = res[r] /\ pc'[r] = "begin"
        /\ <<r, "in_progress">> \in resume'[x].writes
    BY <1>1, <1>4, <2>1, RollupMove
  <2>3. res' = res
    BY <2>2 DEF CreateRollup, requestVars
  <2> QED
    BY <2>2, <2>3 DEF Reporting
<1> QED
  BY <1>3, <1>4

LEMMA OwnerInvInit == ASSUME Init PROVE OwnerInv
<1>1. NoSilentAbandon
  BY DEF Init, DocumentsInit, NoSilentAbandon, Active, Absent
<1>2. BellIsOver
  BY DEF Init, DocumentsInit, BellIsOver
<1>3. RollupOwned
  BY DEF Init, DocumentsInit, RollupOwned, NewResume
<1> QED
  BY <1>1, <1>2, <1>3, WorkInvInit DEF OwnerInv

LEMMA OwnerInvStep == ASSUME OwnerInv, [Next]_vars PROVE OwnerInv'
<1>1. WorkInv'
  BY WorkInvStep DEF OwnerInv
<1>2. CASE Serve
  <2>1. IInv'
    BY <1>1 DEF WorkInv
  <2> QED
    BY <1>1, <1>2, <2>1, AbandonStep, BellOverStep, RollupStep DEF Serve, OwnerInv
<1>3. CASE Crash
  <2>1. /\ UNCHANGED <<analysis, resume, bell, ana, res, goal>>
        /\ \A q \in Requests : pc'[q] \in {pc[q], "lost"}
        /\ \A q \in Requests : Running(q)' => Running(q)
    BY <1>3, CrashFacts DEF analysisVars, resumeVars
  <2>2. NoSilentAbandon'
    BY <2>1 DEF OwnerInv, NoSilentAbandon, Active, Running
  <2>3. BellIsOver'
    BY <2>1 DEF OwnerInv, BellIsOver
  <2>4. RollupOwned'
    BY <2>1 DEF OwnerInv, RollupOwned, Reporting, Announcing
  <2> QED
    BY <1>1, <2>2, <2>3, <2>4 DEF OwnerInv
<1>4. CASE UNCHANGED vars
  <2>1. UNCHANGED <<analysis, resume, bell, ana, res, goal, pc>>
    BY <1>4 DEF vars, analysisVars, resumeVars, requestVars
  <2>2. NoSilentAbandon'
    BY <2>1 DEF OwnerInv, NoSilentAbandon, Active, Running
  <2>3. BellIsOver'
    BY <2>1 DEF OwnerInv, BellIsOver, Running
  <2>4. RollupOwned'
    BY <2>1 DEF OwnerInv, RollupOwned, Reporting, Announcing
  <2> QED
    BY <1>1, <2>2, <2>3, <2>4 DEF OwnerInv
<1> QED
  BY <1>2, <1>3, <1>4 DEF Next

\* What is unfinished has an owner, in every reachable state.
THEOREM OwnerInvariance == Spec => []OwnerInv
  BY OwnerInvInit, OwnerInvStep, PTL DEF Spec

\* A pending analysis is being run, or its request ended in a server error
\* or was lost: no success and no refusal leaves one behind.
THEOREM NothingSilentlyAbandoned == Spec => []NoSilentAbandon
<1>1. OwnerInv => NoSilentAbandon
  BY DEF OwnerInv
<1> QED
  BY <1>1, OwnerInvariance, PTL

\* The bell announces a completion only of a completed analysis: the run
\* that announces holds the analysis in that status until it is over, and
\* no other run can begin.
THEOREM CompletionBellTells == Spec => []CompletionBellIsTrue
<1>1. OwnerInv => CompletionBellIsTrue
  BY DEF OwnerInv, BellIsOver, CompletionBellIsTrue
<1> QED
  BY <1>1, OwnerInvariance, PTL

\* A rollup that says "in progress" was written by a request that is still
\* underway or ended in an error, whoever saved the resume in between.
THEOREM RollupIsOwned == Spec => []RollupHasOwner
<1>1. OwnerInv => RollupHasOwner
  BY DEF OwnerInv, RollupOwned, RollupHasOwner, Reporting, Announcing, Underway, Answers
<1> QED
  BY <1>1, OwnerInvariance, PTL

---------------------------------------------------------------------------
(* How often a suggestion is applied. *)

\* How a request comes to the parts of an apply.
LEMMA ApplyMove ==
    ASSUME TypeOK, NEW r \in Requests, Arrive(r) \/ Continue(r),
           pc'[r] \in {"apply_resume", "apply_analysis", "apply_save"}
    PROVE  \/ pc'[r] = "apply_resume" /\ ApplyFind(r)
           \/ pc'[r] = "apply_analysis" /\ ApplyResume(r)
           \/ pc'[r] = "apply_save" /\ ApplyAnalysis(r)
<1> DEFINE Elsewhere == Labels \ {"apply_resume", "apply_analysis", "apply_save"}
<1>1. ASSUME NEW l \in Elsewhere, Goto(r, l) PROVE FALSE
  BY <1>1 DEF Goto, TypeOK
<1>2. CASE Arrive(r)
  <2>1. CASE ApplyFind(r)
    BY <2>1 DEF ApplyFind, AnalysisFind, Goto, TypeOK
  <2>2. CASE \/ CreateFind(r) \/ RetryFind(r) \/ CancelFind(r) \/ VisitFind(r)
             \/ DismissFind(r) \/ EditFind(r) \/ DeleteFind(r) \/ CascadeGet(r)
    <3>1. PICK l \in {"refused", "create_count", "error", "retry_save", "cancel_save", "ok",
                      "visit_clear", "dismiss_save", "edit_save", "delete_save",
                      "cascade_list"} : Goto(r, l)
      BY <2>2 DEF CreateFind, RetryFind, CancelFind, VisitFind, DismissFind,
                  EditFind, DeleteFind, CascadeGet, AnalysisFind, ResumeFind
    <3> QED
      BY <1>1, <3>1 DEF Labels, Answers
  <2> QED
    BY <1>2, <2>1, <2>2 DEF Arrive
<1>3. CASE \/ Begin(r) \/ StepStart(r) \/ StepDone(r) \/ StepFailed(r) \/ Complete(r)
           \/ Fail(r) \/ RetrySave(r) \/ CancelSave(r) \/ DismissSave(r) \/ CascadeAnalysis(r)
  <2>1. PICK l \in {"note_find", "error", "llm", "fail", "complete", "step", "rollup_get",
                    "begin", "ok", "cascade_find"} : Goto(r, l)
    BY <1>3, SaveAnalysisGoto
    DEF Begin, StepStart, StepDone, StepFailed, Complete, Fail, RetrySave, CancelSave,
        DismissSave, CascadeAnalysis
  <2> QED
    BY <1>1, <2>1 DEF Labels, Answers
<1>4. CASE \/ CreateRollup(r) \/ RollupSave(r) \/ ApplySave(r) \/ EditSave(r)
           \/ DeleteSave(r) \/ CascadeResume(r)
  <2>1. PICK l \in {"begin", "error", "note_find", "fail", "ok", "conflict"} : Goto(r, l)
    BY <1>4, SaveResumeGoto
    DEF CreateRollup, RollupSave, ApplySave, EditSave, DeleteSave, CascadeResume
  <2> QED
    BY <1>1, <2>1 DEF Labels, Answers
<1>5. CASE \/ CreateCount(r) \/ CreateInsert(r) \/ RollupGet(r) \/ NoteFind(r)
           \/ NoteClear(r) \/ NoteInsert(r) \/ VisitClear(r) \/ CascadeList(r)
           \/ CascadeFind(r) \/ CascadeClear(r)
  <2>1. PICK l \in {"refused", "create_insert", "create_rollup", "rollup_save", "note_clear",
                    "note_insert", "step", "fail", "error", "ok", "cascade_resume",
                    "cascade_next", "cascade_clear"} : Goto(r, l)
    BY <1>5 DEF CreateCount, CreateInsert, RollupGet, NoteFind, NoteClear, NoteInsert,
                VisitClear, CascadeList, CascadeFind, CascadeClear, AfterNote, NoteRaised,
                TypeOK, Goals
  <2> QED
    BY <1>1, <2>1 DEF Labels, Answers
<1>6. CASE ApplyResume(r) \/ ApplyAnalysis(r)
  <2>1. CASE ApplyResume(r)
    BY <2>1 DEF ApplyResume, Goto, TypeOK
  <2>2. CASE ApplyAnalysis(r)
    BY <2>2, SaveAnalysisGoto DEF ApplyAnalysis, Goto, TypeOK
  <2> QED
    BY <1>6, <2>1, <2>2
<1> QED
  BY <1>2, <1>3, <1>4, <1>5, <1>6 DEF Continue

\* An apply saves the resume of the analysis, and then it is over.
LEMMA ApplyLastStep ==
    ASSUME ApplyInv, NEW r \in Requests, Arrive(r) \/ Continue(r)
    PROVE  ApplyLast'
<1>1. TypeOK /\ Focus /\ ResumeEffect(r)
  BY ArriveResumeEffect, ContinueResumeEffect DEF ApplyInv, WorkInv, IInv
<1>2. \A q \in Requests \ {r} : pc'[q] = pc[q] /\ ana'[q] = ana[q] /\ res'[q] = res[q]
  BY OthersStay DEF ApplyInv, WorkInv, IInv
<1>3. ASSUME pc'[r] \in {"apply_resume", "apply_analysis", "apply_save"}
      PROVE  res'[r] = ResumeOf[ana'[r]]
  <2>1. CASE ApplyFind(r)
    BY <1>1, <2>1 DEF ApplyFind, AnalysisFind, TypeOK
  <2>2. CASE ApplyResume(r) \/ ApplyAnalysis(r)
    BY <2>2 DEF ApplyResume, ApplyAnalysis, requestVars, ApplyInv, ApplyLast
  <2> QED
    BY <1>1, <1>3, <2>1, <2>2, ApplyMove
<1>4. ASSUME NEW q \in Requests, NEW x \in Resumes, <<q, "apply">> \in accepted'[x]
      PROVE  pc'[q] \in Answers
  <2>1. "apply" \in WriteKinds
    BY DEF WriteKinds, ContentKinds
  <2>2. CASE <<q, "apply">> \in accepted[x]
    <3>1. pc[q] \in Answers
      BY <2>2 DEF ApplyInv, ApplyLast
    <3> QED
      BY <1>2, <3>1, NotAnswered
  <2>3. CASE <<q, "apply">> \notin accepted[x]
    <3>1. q = r
      BY <1>1, <1>4, <2>1, <2>3, AcceptedStep
    <3>2. goal[r] \in Goals
      BY <1>1 DEF TypeOK
    <3>3. pc'[r] = "ok"
      BY <1>1, <1>4, <2>1, <2>3, <3>1, <3>2, AcceptsKind DEF Goals
    <3> QED
      BY <3>1, <3>3 DEF Answers
  <2> QED
    BY <2>2, <2>3
<1> QED
  BY <1>2, <1>3, <1>4 DEF ApplyInv, ApplyLast

\* The appliers are requests, so they can be counted.
LEMMA UsesType ==
    ASSUME NEW a \in Analyses
    PROVE  /\ Appliers(a) \subseteq Requests
           /\ IsFiniteSet(Appliers(a))
           /\ Uses[a] = Cardinality(Appliers(a))
           /\ Uses[a] \in Nat
<1>1. Appliers(a) \subseteq Requests
  BY DEF Appliers
<1>2. IsFiniteSet(Appliers(a))
  BY <1>1, RequestsAssumption, FS_Subset
<1>3. Uses[a] = Cardinality(Appliers(a))
  BY DEF Uses
<1> QED
  BY <1>1, <1>2, <1>3, FS_CardinalityType

\* A request becomes an applier when it marks the suggestion as applied.
LEMMA AppliersMove ==
    ASSUME ApplyInv, NEW r \in Requests, Arrive(r) \/ Continue(r), NEW a \in Analyses
    PROVE  \/ Appliers(a)' \subseteq Appliers(a)
           \/ /\ ApplyAnalysis(r) /\ pc'[r] = "apply_save" /\ a = ana[r]
              /\ Appliers(a)' \subseteq Appliers(a) \cup {r}
<1>1. TypeOK /\ ResumeEffect(r) /\ ResumeOf[a] \in Resumes /\ "apply" \in WriteKinds
  BY ArriveResumeEffect, ContinueResumeEffect
     DEF ApplyInv, WorkInv, IInv, WriteKinds, ContentKinds
<1>2. ASSUME NEW q \in Appliers(a)', q # r
      PROVE  q \in Appliers(a)
  <2>1. q \in Requests /\ pc'[q] = pc[q] /\ ana'[q] = ana[q]
    BY <1>2, OthersStay DEF Appliers, ApplyInv, WorkInv, IInv
  <2>2. <<q, "apply">> \in accepted'[ResumeOf[a]] => <<q, "apply">> \in accepted[ResumeOf[a]]
    BY <1>1, <1>2, <2>1, AcceptedStep
  <2> QED
    BY <1>2, <2>1, <2>2 DEF Appliers
<1>3. ASSUME r \in Appliers(a)', r \notin Appliers(a)
      PROVE  ApplyAnalysis(r) /\ pc'[r] = "apply_save" /\ a = ana[r]
  <2>1. ana'[r] = a
    BY <1>3 DEF Appliers
  <2>2. CASE pc'[r] = "apply_save"
    <3>1. ApplyAnalysis(r)
      BY <1>1, <2>2, ApplyMove
    <3> QED
      BY <2>1, <2>2, <3>1 DEF ApplyAnalysis, requestVars
  <2>3. CASE <<r, "apply">> \in accepted'[ResumeOf[a]]
    <3>1. <<r, "apply">> \notin accepted[ResumeOf[a]]
      BY <1>1, NotAnswered DEF ApplyInv, ApplyLast
    <3>2. goal[r] \in Goals
      BY <1>1 DEF TypeOK
    <3>3. ApplySave(r)
      BY <1>1, <2>3, <3>1, <3>2, AcceptsKind DEF Goals
    <3> QED
      BY <1>3, <2>1, <3>3 DEF ApplySave, requestVars, Appliers
  <2> QED
    BY <1>3, <2>2, <2>3 DEF Appliers
<1> QED
  BY <1>2, <1>3

LEMMA UsesMove ==
    ASSUME ApplyInv, NEW r \in Requests, Arrive(r) \/ Continue(r), NEW a \in Analyses
    PROVE  /\ Uses[a] \in Nat /\ Uses'[a] \in Nat
           /\ \/ Uses'[a] <= Uses[a]
              \/ /\ ApplyAnalysis(r) /\ pc'[r] = "apply_save" /\ a = ana[r]
                 /\ Uses'[a] <= Uses[a] + 1
<1>1. /\ Uses[a] = Cardinality(Appliers(a)) /\ Uses[a] \in Nat
      /\ IsFiniteSet(Appliers(a))
  BY UsesType
<1>2. Appliers(a)' \subseteq Requests
  BY DEF Appliers
<1>3. /\ Uses'[a] = Cardinality(Appliers(a)')
      /\ IsFiniteSet(Appliers(a)')
  BY <1>2, RequestsAssumption, FS_Subset DEF Uses
<1> DEFINE old == Appliers(a)
           new == Appliers(a)'
<1>4. \/ new \subseteq old
      \/ /\ ApplyAnalysis(r) /\ pc'[r] = "apply_save" /\ a = ana[r]
         /\ new \subseteq old \cup {r}
  BY AppliersMove
<1>5. Uses[a] = Cardinality(old) /\ Uses'[a] = Cardinality(new) /\ IsFiniteSet(old)
      /\ IsFiniteSet(new) /\ Uses[a] \in Nat
  BY <1>1, <1>3
<1> HIDE DEF old, new
<1>6. Uses'[a] \in Nat
  BY <1>5, FS_CardinalityType
<1>7. new \subseteq old => Uses'[a] <= Uses[a]
  BY <1>5, FS_Subset
<1>8. new \subseteq old \cup {r} => Uses'[a] <= Uses[a] + 1
  <2>1. /\ IsFiniteSet(old \cup {r})
        /\ Cardinality(old \cup {r}) \in {Uses[a], Uses[a] + 1}
    BY <1>5, FS_AddElement
  <2>2. new \subseteq old \cup {r} => Cardinality(new) <= Cardinality(old \cup {r})
    BY <2>1, FS_Subset
  <2> QED
    BY <1>5, <1>6, <2>1, <2>2
<1> QED
  BY <1>4, <1>5, <1>6, <1>7, <1>8

\* An analysis about to be inserted has no applier.
LEMMA InsertedUnused ==
    ASSUME ApplyInv, NEW r \in Requests, Inserts(r)
    PROVE  ana[r] \in Analyses /\ Uses[ana[r]] = 0
<1>1. ana[r] \in Analyses /\ pc[r] = "create_insert"
  BY DEF Inserts, ApplyInv, WorkInv, IInv, Focus, AboutAnalysis, ResumeOnly, Labels, Answers
<1>2. \A q \in Requests : ana[q] = ana[r] => q = r
  BY <1>1 DEF ApplyInv, WorkInv, IInv, Reserved
<1>3. <<r, "apply">> \notin accepted[ResumeOf[ana[r]]]
  BY <1>1 DEF ApplyInv, ApplyLast, Answers
<1>4. Appliers(ana[r]) = {}
  BY <1>1, <1>2, <1>3 DEF Appliers
<1> QED
  BY <1>1, <1>4, UsesType, FS_EmptySet

\* What a step does to the fields of a document that an apply looks at.
SameTerms(new, old) ==
    new.retries = old.retries /\ (CanApply(new) => CanApply(old))

LEMMA OwnTerms ==
    ASSUME ApplyInv, NEW r \in Requests, ana[r] \in Analyses, ana' = ana, NEW doc,
           NEW saved, NEW raised, SaveAnalysis(r, ana[r], doc, saved, raised),
           NEW a \in Analyses
    PROVE  \/ analysis'[a] = analysis[a]
           \/ /\ a = ana[r] /\ analysis'[a] = doc /\ Current(r)
              /\ copy[r][a] = analysis[a]
              /\ pc'[r] = saved
<1>1. TypeOK /\ AnalysisCopies
  BY DEF ApplyInv, WorkInv, IInv
<1>2. \/ pc'[r] = raised /\ UNCHANGED analysisVars /\ ~Current(r)'
      \/ /\ pc'[r] = saved
         /\ Current(r)
         /\ copy[r][ana[r]] = analysis[ana[r]]
         /\ analysis'[ana[r]] = doc
         /\ \A b \in Analyses \ {ana[r]} : analysis'[b] = analysis[b]
  BY <1>1, OwnSave
<1> QED
  BY <1>2 DEF analysisVars

\* A failing run leaves nothing to apply that was not there before: after a
\* completion the result is the stored one, and otherwise the full result
\* of an earlier run survives only if step 1 did not replace it.
LEMMA FailTerms ==
    ASSUME ApplyInv, NEW r \in Requests, Fail(r), NEW a \in Analyses
    PROVE  analysis'[a] = analysis[a] \/ SameTerms(analysis'[a], analysis[a])
<1> DEFINE doc == copy[r][ana[r]]
           result == IF goal[r] = "completed" THEN "full"
                     ELSE IF step[r] > 1 THEN "partial" ELSE doc.result
           new == [doc EXCEPT !.status = "failed",
                              !.result = result,
                              !.applied = doc.applied /\ result = "full"]
<1>1. ana[r] \in Analyses /\ ana' = ana /\ Running(r)
  BY DEF Fail, Running, ApplyInv, WorkInv, IInv, Focus, AboutAnalysis, ResumeOnly, Labels, Answers
<1>2. doc \in AnalysisDoc
  BY <1>1 DEF ApplyInv, WorkInv, IInv, TypeOK
<1>3. SaveAnalysis(r, ana[r], new, "rollup_get", "error")
  BY DEF Fail
<1>4. new.retries = doc.retries /\ new.result = result /\ new.applied = (doc.applied /\ result = "full")
  BY <1>2 DEF AnalysisDoc
<1>5. analysis'[a] = analysis[a] \/ (a = ana[r] /\ analysis'[a] = new /\ doc = analysis[a])
  <2> HIDE DEF new, doc
  <2>1. \/ analysis'[a] = analysis[a]
        \/ a = ana[r] /\ analysis'[a] = new /\ copy[r][a] = analysis[a]
    BY <1>1, <1>3, OwnTerms
  <2> QED
    BY <2>1 DEF doc
<1>6. goal[r] = "completed" /\ doc = analysis[ana[r]] => doc.result = "full"
  BY <1>1 DEF ApplyInv, WorkInv, Verdict, CompletedIsWhole
<1>7. doc = analysis[ana[r]] => SameTerms(new, doc)
  <2> HIDE DEF new, doc
  <2> QED
    BY <1>4, <1>6 DEF SameTerms, CanApply
<1> HIDE DEF new, doc
<1> QED
  BY <1>5, <1>7

\* The saves of a run and of the endpoints.
LEMMA SaveTerms ==
    ASSUME ApplyInv, NEW r \in Requests, NEW a \in Analyses,
           \/ Begin(r) \/ StepStart(r) \/ StepDone(r) \/ StepFailed(r)
           \/ CancelSave(r) \/ DismissSave(r) \/ ApplyAnalysis(r)
    PROVE  analysis'[a] = analysis[a] \/ SameTerms(analysis'[a], analysis[a])
<1> DEFINE doc == copy[r][ana[r]]
<1>1. ana[r] \in Analyses /\ ana' = ana
  BY DEF Begin, StepStart, StepDone, StepFailed, CancelSave, DismissSave, ApplyAnalysis,
         ApplyInv, WorkInv, IInv, Focus, AboutAnalysis, ResumeOnly, Labels, Answers, requestVars
<1>2. doc \in AnalysisDoc /\ step[r] \in StepKey
  BY <1>1 DEF ApplyInv, WorkInv, IInv, TypeOK
<1>3. PICK new, saved, raised : SaveAnalysis(r, ana[r], new, saved, raised) /\ SameTerms(new, doc)
  <2>1. CASE Begin(r) \/ DismissSave(r)
    <3>1. SameTerms(doc, doc)
      BY DEF SameTerms
    <3> QED
      BY <2>1, <3>1 DEF Begin, DismissSave
  <2>2. CASE StepStart(r) \/ StepDone(r) \/ StepFailed(r)
    <3>1. \A s : SameTerms(WithStep(doc, step[r], s), doc)
      BY <1>2 DEF SameTerms, WithStep, CanApply, AnalysisDoc
    <3> QED
      BY <2>2, <3>1 DEF StepStart, StepDone, StepFailed
  <2>3. CASE CancelSave(r)
    <3> DEFINE new == [doc EXCEPT !.status = "cancelled"]
    <3>1. SameTerms(new, doc)
      BY <1>2 DEF SameTerms, CanApply, AnalysisDoc
    <3>2. SaveAnalysis(r, ana[r], new, "ok", "error")
      BY <2>3 DEF CancelSave
    <3> HIDE DEF new
    <3> QED
      BY <3>1, <3>2
  <2>4. CASE ApplyAnalysis(r)
    <3> DEFINE new == [doc EXCEPT !.applied = TRUE]
    <3>1. SameTerms(new, doc)
      BY <1>2 DEF SameTerms, CanApply, AnalysisDoc
    <3>2. SaveAnalysis(r, ana[r], new, "apply_save", "error")
      BY <2>4 DEF ApplyAnalysis
    <3> HIDE DEF new
    <3> QED
      BY <3>1, <3>2
  <2> QED
    BY <2>1, <2>2, <2>3, <2>4
<1> HIDE DEF doc
<1>4. analysis'[a] = analysis[a] \/ (a = ana[r] /\ analysis'[a] = new /\ copy[r][a] = analysis[a])
  BY <1>1, <1>3, OwnTerms
<1> QED
  BY <1>3, <1>4 DEF doc

\* A completion stores a suggestion to apply, and its run has no applier of
\* its own yet; a retry makes room for one; a cascade only deletes.
LEMMA CompleteTerms ==
    ASSUME ApplyInv, NEW r \in Requests, Complete(r), NEW a \in Analyses
    PROVE  \/ analysis'[a] = analysis[a]
           \/ /\ analysis'[a].retries = analysis[a].retries
              /\ Uses[a] <= analysis[a].retries
<1> DEFINE doc == copy[r][ana[r]]
           new == [doc EXCEPT !.status = "completed", !.result = "full", !.applied = FALSE]
<1>1. ana[r] \in Analyses /\ ana' = ana /\ Producing(r)
  BY DEF Complete, Producing, ApplyInv, WorkInv, IInv, Focus, AboutAnalysis, ResumeOnly, Labels,
         Answers
<1>2. doc \in AnalysisDoc
  BY <1>1 DEF ApplyInv, WorkInv, IInv, TypeOK
<1>3. SaveAnalysis(r, ana[r], new, "rollup_get", "fail")
  BY DEF Complete
<1>4. new.retries = doc.retries
  BY <1>2 DEF AnalysisDoc
<1>5. Current(r) => Uses[ana[r]] <= analysis[ana[r]].retries
  BY <1>1 DEF ApplyInv, ApplyBudget
<1> HIDE DEF new, doc
<1>6. \/ analysis'[a] = analysis[a]
      \/ a = ana[r] /\ analysis'[a] = new /\ Current(r) /\ copy[r][a] = analysis[a]
  BY <1>1, <1>3, OwnTerms
<1> QED
  BY <1>4, <1>5, <1>6 DEF doc

LEMMA RetryTerms ==
    ASSUME ApplyInv, NEW r \in Requests, RetrySave(r), NEW a \in Analyses
    PROVE  \/ analysis'[a] = analysis[a]
           \/ a = ana[r] /\ analysis'[a].retries = analysis[a].retries + 1
<1> DEFINE doc == copy[r][ana[r]]
           new == Reset(doc)
<1>1. ana[r] \in Analyses /\ ana' = ana
  BY DEF RetrySave, ApplyInv, WorkInv, IInv, Focus, AboutAnalysis, ResumeOnly, Labels, Answers,
         requestVars
<1>2. doc \in AnalysisDoc
  BY <1>1 DEF ApplyInv, WorkInv, IInv, TypeOK
<1>3. PICK saved, raised : SaveAnalysis(r, ana[r], new, saved, raised)
  BY DEF RetrySave
<1>4. new.retries = doc.retries + 1
  BY <1>2 DEF Reset, AnalysisDoc
<1> HIDE DEF new, doc
<1>5. \/ analysis'[a] = analysis[a]
      \/ a = ana[r] /\ analysis'[a] = new /\ copy[r][a] = analysis[a]
  BY <1>1, <1>3, OwnTerms
<1> QED
  BY <1>4, <1>5 DEF doc

LEMMA CascadeTerms ==
    ASSUME ApplyInv, NEW r \in Requests, CascadeAnalysis(r), NEW a \in Analyses
    PROVE  analysis'[a] = analysis[a] \/ SameTerms(analysis'[a], analysis[a])
<1>1. TypeOK /\ AnalysisCopies
  BY DEF ApplyInv, WorkInv, IInv
<1>2. PICK b \in batch[r] :
          SaveAnalysis(r, b, [copy[r][b] EXCEPT !.deleted = TRUE], "cascade_find", "error")
  BY DEF CascadeAnalysis
<1> DEFINE doc == copy[r][b]
           new == [doc EXCEPT !.deleted = TRUE]
<1>3. b \in Analyses /\ doc \in AnalysisDoc
  BY <1>1 DEF TypeOK
<1>4. SameTerms(new, doc)
  BY <1>3 DEF SameTerms, CanApply, AnalysisDoc
<1>5. SaveAnalysis(r, b, new, "cascade_find", "error")
  BY <1>2
<1> HIDE DEF new, doc
<1>6. \/ UNCHANGED analysisVars
      \/ copy[r][b] = analysis[b] /\ StoreAnalysis(r, b, new)
  BY <1>1, <1>3, <1>5, SaveAnalysisEffect
<1>7. CASE copy[r][b] = analysis[b] /\ StoreAnalysis(r, b, new)
  BY <1>1, <1>3, <1>4, <1>7, StoreFacts DEF doc
<1> QED
  BY <1>6, <1>7 DEF analysisVars

\* What a step leaves of the terms on which a suggestion may be applied.
LEMMA DocsMove ==
    ASSUME ApplyInv, NEW r \in Requests, Arrive(r) \/ Continue(r), NEW a \in Analyses
    PROVE  \/ analysis'[a] = analysis[a]
           \/ Inserts(r) /\ a = ana[r] /\ analysis'[a] = [Absent EXCEPT !.status = "pending"]
           \/ RetrySave(r) /\ a = ana[r] /\ analysis'[a].retries = analysis[a].retries + 1
           \/ /\ analysis'[a].retries = analysis[a].retries
              /\ CanApply(analysis'[a]) => CanApply(analysis[a]) \/ Uses[a] <= analysis[a].retries
<1>1. CASE CreateInsert(r)
  <2>1. Inserts(r) /\ ana[r] \in Analyses /\ TypeOK
    BY <1>1, InsertedUnused DEF CreateInsert, Inserts, ApplyInv, WorkInv, IInv, requestVars
  <2> QED
    BY <2>1, StoreFacts DEF Inserts
<1>2. CASE \/ Arrive(r) \/ CreateCount(r) \/ VisitClear(r) \/ ApplyResume(r) \/ ApplySave(r)
           \/ EditSave(r) \/ DeleteSave(r) \/ CascadeList(r) \/ CascadeFind(r)
           \/ CascadeClear(r) \/ CascadeResume(r) \/ CreateRollup(r) \/ RollupGet(r)
           \/ RollupSave(r) \/ NoteFind(r) \/ NoteClear(r) \/ NoteInsert(r)
  BY <1>2
  DEF Arrive, CreateFind, RetryFind, CancelFind, VisitFind, DismissFind, ApplyFind, EditFind,
      DeleteFind, CascadeGet, AnalysisFind, ResumeFind, LoadAnalysis, CreateCount, VisitClear,
      ApplyResume, ApplySave, EditSave, DeleteSave, CascadeList, CascadeFind, CascadeClear,
      CascadeResume, CreateRollup, RollupGet, RollupSave, NoteFind, NoteClear, NoteInsert,
      NoteUnchanged, analysisVars
<1>3. CASE Complete(r) \/ RetrySave(r)
  BY <1>3, CompleteTerms, RetryTerms
<1>4. CASE \/ Begin(r) \/ StepStart(r) \/ StepDone(r) \/ StepFailed(r) \/ CancelSave(r)
           \/ DismissSave(r) \/ ApplyAnalysis(r) \/ Fail(r) \/ CascadeAnalysis(r)
  <2>1. analysis'[a] = analysis[a] \/ SameTerms(analysis'[a], analysis[a])
    BY <1>4, SaveTerms, FailTerms, CascadeTerms
  <2> QED
    BY <2>1 DEF SameTerms
<1> QED
  BY <1>1, <1>2, <1>3, <1>4 DEF Continue

\* The one step that uses a suggestion up.
LEMMA ApplyTaken ==
    ASSUME ApplyInv, NEW r \in Requests, ApplyAnalysis(r), pc'[r] = "apply_save"
    PROVE  /\ ana[r] \in Analyses
           /\ Uses[ana[r]] <= analysis[ana[r]].retries
           /\ analysis'[ana[r]].retries = analysis[ana[r]].retries
           /\ ~CanApply(analysis'[ana[r]])
           /\ analysisHolders'[ana[r]] = {r}
<1> DEFINE a == ana[r]
           doc == copy[r][a]
           new == [doc EXCEPT !.applied = TRUE]
<1>1. a \in Analyses /\ TypeOK /\ AnalysisCopies /\ pc[r] = "apply_analysis"
  BY DEF ApplyAnalysis, ApplyInv, WorkInv, IInv, Focus, AboutAnalysis, ResumeOnly, Labels, Answers
<1>2. doc \in AnalysisDoc
  BY <1>1 DEF TypeOK
<1>3. new.applied = TRUE /\ new.retries = doc.retries
  BY <1>2 DEF AnalysisDoc
<1>4. SaveAnalysis(r, a, new, "apply_save", "error")
  BY DEF ApplyAnalysis
<1> HIDE DEF new
<1>5. r \in analysisHolders[a] /\ StoreAnalysis(r, a, new)
  BY <1>1, <1>4 DEF SaveAnalysis, Goto, TypeOK
<1>6. doc = analysis[a] /\ CanApply(analysis[a])
  BY <1>1, <1>5 DEF AnalysisCopies, ApplyInv, ApplyBudget, Current
<1>7. Uses[a] <= analysis[a].retries
  BY <1>1, <1>6 DEF ApplyInv, ApplyBudget
<1>8. analysis'[a] = new /\ analysisHolders'[a] = {r}
  BY <1>1, <1>5, StoreFacts
<1> QED
  BY <1>1, <1>3, <1>6, <1>7, <1>8 DEF CanApply

LEMMA DocsBudget ==
    ASSUME ApplyInv, TypeOK', NEW r \in Requests, Arrive(r) \/ Continue(r), NEW a \in Analyses
    PROVE  /\ Uses'[a] <= 1 + analysis'[a].retries
           /\ CanApply(analysis'[a]) => Uses'[a] <= analysis'[a].retries
<1>1. analysis[a].retries \in Nat /\ analysis'[a].retries \in Nat
  BY DEF ApplyInv, WorkInv, IInv, TypeOK, AnalysisDoc
<1>2. /\ Uses[a] <= 1 + analysis[a].retries
      /\ CanApply(analysis[a]) => Uses[a] <= analysis[a].retries
  BY DEF ApplyInv, ApplyBudget
<1>3. /\ Uses[a] \in Nat /\ Uses'[a] \in Nat
      /\ \/ Uses'[a] <= Uses[a]
         \/ ApplyAnalysis(r) /\ pc'[r] = "apply_save" /\ a = ana[r] /\ Uses'[a] <= Uses[a] + 1
  BY UsesMove
<1>4. CASE ApplyAnalysis(r) /\ pc'[r] = "apply_save" /\ a = ana[r] /\ Uses'[a] <= Uses[a] + 1
  <2>1. /\ Uses[a] <= analysis[a].retries
        /\ analysis'[a].retries = analysis[a].retries
        /\ ~CanApply(analysis'[a])
    BY <1>4, ApplyTaken
  <2> QED
    BY <1>1, <1>3, <1>4, <2>1
<1>5. CASE Uses'[a] <= Uses[a]
  <2>1. Inserts(r) /\ a = ana[r] => Uses[a] = 0
    BY InsertedUnused
  <2>2. \/ analysis'[a] = analysis[a]
        \/ Inserts(r) /\ a = ana[r]
        \/ analysis'[a].retries = analysis[a].retries + 1
        \/ /\ analysis'[a].retries = analysis[a].retries
           /\ CanApply(analysis'[a]) => CanApply(analysis[a]) \/ Uses[a] <= analysis[a].retries
    BY DocsMove
  <2> QED
    BY <1>1, <1>2, <1>3, <1>5, <2>1, <2>2
<1> QED
  BY <1>3, <1>4, <1>5

\* A running request whose result is not stored had none stored before.
LEMMA ProducingMove ==
    ASSUME TypeOK, GoalKnown, NEW r \in Requests, Continue(r), Running(r), Producing(r)'
    PROVE  Producing(r)
<1> SUFFICES ASSUME ~Producing(r) PROVE FALSE
  OBVIOUS
<1>1. \/ pc[r] = "fail"
      \/ /\ pc[r] \in {"rollup_get", "rollup_save", "note_find", "note_clear", "note_insert"}
         /\ goal[r] = "completed"
  BY DEF Running, Producing, Announcing, GoalKnown
<1>2. CASE pc[r] = "fail"
  <2>1. Fail(r)
    BY <1>2 DEF Continue, CreateCount, CreateInsert, CreateRollup, Begin, StepStart, StepDone,
           StepFailed, Complete, RollupGet, RollupSave, NoteFind, NoteClear, NoteInsert,
           VisitClear, RetrySave, CancelSave, DismissSave, ApplyResume, ApplyAnalysis,
           ApplySave, EditSave, DeleteSave, CascadeList, CascadeAnalysis, CascadeFind,
           CascadeClear, CascadeResume
  <2>2. pc'[r] \in {"rollup_get", "error"}
    BY <2>1, SaveAnalysisGoto DEF Fail, Goto, TypeOK
  <2> QED
    BY <2>2 DEF Producing, Announcing
<1>3. CASE /\ pc[r] \in {"rollup_get", "rollup_save", "note_find", "note_clear", "note_insert"}
           /\ goal[r] = "completed"
  <2>1. RollupGet(r) \/ RollupSave(r) \/ NoteFind(r) \/ NoteClear(r) \/ NoteInsert(r)
    BY <1>3 DEF Continue, CreateCount, CreateInsert, CreateRollup, Begin, StepStart, StepDone,
           StepFailed, Complete, Fail, VisitClear, RetrySave, CancelSave, DismissSave,
           ApplyResume, ApplyAnalysis, ApplySave, EditSave, DeleteSave, CascadeList,
           CascadeAnalysis, CascadeFind, CascadeClear, CascadeResume
  <2>2. goal'[r] = "completed"
    BY <1>3, <2>1 DEF RollupGet, RollupSave, NoteFind, NoteClear, NoteInsert, requestVars
  <2>3. PICK l \in {"rollup_save", "note_find", "fail", "note_clear", "note_insert", "ok"} :
            Goto(r, l)
    BY <1>3, <2>1, SaveResumeGoto
    DEF RollupGet, RollupSave, NoteFind, NoteClear, NoteInsert, AfterNote, NoteRaised
  <2> QED
    BY <2>2, <2>3 DEF Producing, Announcing, Goto, TypeOK
<1> QED
  BY <1>1, <1>2, <1>3

LEMMA RetryTaken ==
    ASSUME ApplyInv, NEW r \in Requests, RetrySave(r), Current(r)
    PROVE  analysis'[ana[r]].retries = analysis[ana[r]].retries + 1
<1> DEFINE doc == copy[r][ana[r]]
           new == Reset(doc)
<1>1. ana[r] \in Analyses /\ ana' = ana
  BY DEF RetrySave, ApplyInv, WorkInv, IInv, Focus, AboutAnalysis, ResumeOnly, Labels, Answers,
         requestVars
<1>2. doc \in AnalysisDoc /\ TypeOK /\ AnalysisCopies
  BY <1>1 DEF ApplyInv, WorkInv, IInv, TypeOK
<1>3. PICK saved, raised : SaveAnalysis(r, ana[r], new, saved, raised)
  BY DEF RetrySave
<1>4. new.retries = doc.retries + 1
  BY <1>2 DEF Reset, AnalysisDoc
<1> HIDE DEF new, doc
<1>5. StoreAnalysis(r, ana[r], new) /\ copy[r][ana[r]] = analysis[ana[r]]
  BY <1>1, <1>2, <1>3 DEF SaveAnalysis, Current, AnalysisCopies
<1> QED
  BY <1>1, <1>2, <1>4, <1>5, StoreFacts DEF doc

\* What the acting request knows of the suggestion after its step.
LEMMA ActorBudget ==
    ASSUME ApplyInv, IInv', NEW r \in Requests, Arrive(r) \/ Continue(r)
    PROVE  /\ Producing(r)' /\ Current(r)' => Uses'[ana'[r]] <= analysis'[ana'[r]].retries
           /\ pc'[r] \in {"apply_resume", "apply_analysis"} /\ Current(r)' =>
                CanApply(analysis'[ana'[r]])
<1>1. TypeOK /\ GoalKnown /\ AnalysisEffect(r)
  BY ServeEffect DEF ApplyInv, WorkInv, IInv
<1>2. ASSUME Producing(r)', Current(r)'
      PROVE  Uses'[ana'[r]] <= analysis'[ana'[r]].retries
  <2> DEFINE a == ana[r]
  <2>1. Running(r)'
    BY <1>2 DEF Producing, Announcing, Running
  <2>2. /\ ana' = ana
        /\ \/ Running(r) /\ (UNCHANGED analysisVars \/ Updates(r, a))
           \/ Inserts(r)
           \/ pc[r] = "retry_save" /\ Updates(r, a)
    BY <1>1, <2>1 DEF AnalysisEffect, RunMove
  <2>3. a \in Analyses
    BY <2>1, <2>2 DEF Running, IInv, Focus, AboutAnalysis, ResumeOnly, Labels, Answers
  <2>4. analysis[a].retries \in Nat /\ analysis'[a].retries \in Nat
    BY <1>1, <2>3 DEF TypeOK, IInv, AnalysisDoc
  <2>5. pc[r] # "apply_analysis"
    BY <2>2 DEF Running, Inserts
  <2>6. Uses[a] \in Nat /\ Uses'[a] \in Nat /\ Uses'[a] <= Uses[a]
    BY <2>3, <2>5, UsesMove DEF ApplyAnalysis
  <2>7. CASE Inserts(r)
    BY <2>2, <2>4, <2>6, <2>7, InsertedUnused
  <2>8. CASE pc[r] = "retry_save" /\ Updates(r, a)
    <3>1. RetrySave(r)
      BY <2>8 DEF Arrive, CreateFind, RetryFind, CancelFind, VisitFind, DismissFind, ApplyFind,
         EditFind, DeleteFind, CascadeGet, AnalysisFind, ResumeFind,
         Continue, CreateCount, CreateInsert, CreateRollup, Begin, StepStart, StepDone,
         StepFailed, Complete, Fail, RollupGet, RollupSave, NoteFind, NoteClear,
         NoteInsert, VisitClear, CancelSave, DismissSave, ApplyResume,
         ApplyAnalysis, ApplySave, EditSave, DeleteSave, CascadeList, CascadeAnalysis,
         CascadeFind, CascadeClear, CascadeResume
    <3>2. analysis'[a].retries = analysis[a].retries + 1
      BY <2>8, <3>1, RetryTaken DEF Updates, Current
    <3>3. Uses[a] <= 1 + analysis[a].retries
      BY <2>3 DEF ApplyInv, ApplyBudget
    <3> QED
      BY <2>2, <2>4, <2>6, <3>2, <3>3
  <2>9. CASE Running(r) /\ (UNCHANGED analysisVars \/ Updates(r, a))
    <3>1. Continue(r)
      BY <2>9 DEF Arrive, CreateFind, RetryFind, CancelFind, VisitFind, DismissFind, ApplyFind,
         EditFind, DeleteFind, CascadeGet, AnalysisFind, ResumeFind, Running
    <3>2. Producing(r)
      BY <1>1, <1>2, <2>9, <3>1, ProducingMove
    <3>3. Current(r)
      BY <1>2, <2>2, <2>9 DEF Current, Updates, analysisVars
    <3>4. Uses[a] <= analysis[a].retries
      BY <3>2, <3>3 DEF ApplyInv, ApplyBudget
    <3>5. ~Inserts(r) /\ ~RetrySave(r)
      BY <2>9 DEF Inserts, RetrySave, Running
    <3>6. analysis'[a].retries = analysis[a].retries
      BY <2>3, <3>5, DocsMove
    <3> QED
      BY <2>2, <2>4, <2>6, <3>4, <3>6
  <2> QED
    BY <2>2, <2>7, <2>8, <2>9
<1>3. ASSUME pc'[r] \in {"apply_resume", "apply_analysis"}, Current(r)'
      PROVE  CanApply(analysis'[ana'[r]])
  <2>1. CASE ApplyFind(r) /\ pc'[r] = "apply_resume"
    BY <1>1, <2>1 DEF ApplyFind, AnalysisFind, LoadAnalysis, Goto, TypeOK
  <2>2. CASE ApplyResume(r)
    <3>1. UNCHANGED <<analysisVars, ana>> /\ pc[r] = "apply_resume"
      BY <2>2 DEF ApplyResume, requestVars
    <3>2. Current(r)
      BY <1>3, <3>1 DEF Current, analysisVars
    <3>3. CanApply(analysis[ana[r]])
      BY <3>1, <3>2 DEF ApplyInv, ApplyBudget
    <3> QED
      BY <3>1, <3>3 DEF analysisVars
  <2> QED
    BY <1>1, <1>3, <2>1, <2>2, ApplyMove
<1> QED
  BY <1>2, <1>3

LEMMA BudgetStep ==
    ASSUME ApplyInv, IInv', NEW r \in Requests, Arrive(r) \/ Continue(r)
    PROVE  ApplyBudget'
<1>1. TypeOK /\ TypeOK' /\ Focus /\ AnalysisEffect(r)
  BY ServeEffect DEF ApplyInv, WorkInv, IInv
<1>2. ASSUME NEW a \in Analyses
      PROVE  /\ Uses'[a] <= 1 + analysis'[a].retries
             /\ CanApply(analysis'[a]) => Uses'[a] <= analysis'[a].retries
  BY <1>1, DocsBudget
<1>3. ASSUME NEW q \in Requests \ {r}
      PROVE  /\ Producing(q)' /\ Current(q)' => Uses'[ana'[q]] <= analysis'[ana'[q]].retries
             /\ pc'[q] \in {"apply_resume", "apply_analysis"} /\ Current(q)' =>
                  CanApply(analysis'[ana'[q]])
  <2> DEFINE a == ana[q]
  <2>1. pc'[q] = pc[q] /\ ana'[q] = ana[q] /\ goal'[q] = goal[q]
    BY OthersStay DEF ApplyInv, WorkInv, IInv
  <2> SUFFICES ASSUME Current(q)', Producing(q) \/ pc[q] \in {"apply_resume", "apply_analysis"}
               PROVE  /\ Producing(q) => Uses'[a] <= analysis'[a].retries
                      /\ pc[q] \in {"apply_resume", "apply_analysis"} => CanApply(analysis'[a])
    BY <2>1 DEF Producing, Announcing
  <2>2. a \in Analyses
    BY <1>1 DEF Producing, Announcing, Focus, AboutAnalysis, ResumeOnly, Labels, Answers
  <2>3. Current(q) /\ analysis'[a] = analysis[a]
    BY <1>1, <2>1, <2>2, CurrentStep DEF Current
  <2>4. /\ Producing(q) => Uses[a] <= analysis[a].retries
        /\ pc[q] \in {"apply_resume", "apply_analysis"} => CanApply(analysis[a])
    BY <2>3 DEF ApplyInv, ApplyBudget
  <2>5. ~(ApplyAnalysis(r) /\ pc'[r] = "apply_save" /\ a = ana[r])
    BY <2>1, ApplyTaken DEF Current
  <2>6. Uses[a] \in Nat /\ Uses'[a] \in Nat /\ Uses'[a] <= Uses[a]
    BY <2>2, <2>5, UsesMove
  <2>7. analysis[a].retries \in Nat
    BY <1>1, <2>2 DEF TypeOK, AnalysisDoc
  <2> QED
    BY <2>3, <2>4, <2>6, <2>7
<1>4. /\ Producing(r)' /\ Current(r)' => Uses'[ana'[r]] <= analysis'[ana'[r]].retries
      /\ pc'[r] \in {"apply_resume", "apply_analysis"} /\ Current(r)' =>
           CanApply(analysis'[ana'[r]])
  BY ActorBudget
<1>5. ASSUME NEW q \in Requests
      PROVE  /\ Producing(q)' /\ Current(q)' => Uses'[ana'[q]] <= analysis'[ana'[q]].retries
             /\ pc'[q] \in {"apply_resume", "apply_analysis"} /\ Current(q)' =>
                  CanApply(analysis'[ana'[q]])
  BY <1>3, <1>4
<1> QED
  BY <1>2, <1>5 DEF ApplyBudget

LEMMA ApplyInvInit == ASSUME Init PROVE ApplyInv
<1>1. /\ \A r \in Requests : pc[r] = "idle" /\ ana[r] = None
      /\ \A x \in Resumes : accepted[x] = {}
      /\ \A a \in Analyses : analysis[a] = Absent
  BY DEF Init, DocumentsInit
<1>2. ApplyLast
  BY <1>1 DEF ApplyLast
<1>3. ASSUME NEW a \in Analyses PROVE Uses[a] = 0
  <2>1. Appliers(a) = {}
    BY <1>1 DEF Appliers
  <2> QED
    BY <2>1, UsesType, FS_EmptySet
<1>4. ASSUME NEW a \in Analyses
      PROVE  Uses[a] <= 1 + analysis[a].retries /\ ~CanApply(analysis[a])
  BY <1>1, <1>3 DEF CanApply, Absent
<1>5. ASSUME NEW r \in Requests
      PROVE  ~Producing(r) /\ pc[r] \notin {"apply_resume", "apply_analysis"}
  BY <1>1 DEF Producing, Announcing
<1> QED
  BY <1>2, <1>4, <1>5, WorkInvInit DEF ApplyInv, ApplyBudget

\* A crash turns appliers into lost requests.
LEMMA CrashBudget ==
    ASSUME ApplyInv, Crash \/ UNCHANGED vars
    PROVE  ApplyLast' /\ ApplyBudget'
<1>1. /\ \A q \in Requests : pc'[q] \in {pc[q], "lost"}
      /\ UNCHANGED <<analysis, analysisHolders, accepted, ana, res, goal>>
  BY CrashFacts DEF vars, analysisVars, resumeVars, requestVars
<1>2. ApplyLast'
  BY <1>1 DEF ApplyInv, ApplyLast, Answers
<1>3. ASSUME NEW a \in Analyses
      PROVE  Uses[a] \in Nat /\ Uses'[a] \in Nat /\ Uses'[a] <= Uses[a]
  <2> DEFINE old == Appliers(a)
             new == Appliers(a)'
  <2>1. new \subseteq old
    BY <1>1 DEF Appliers
  <2>2. /\ Uses[a] = Cardinality(old) /\ Uses[a] \in Nat
        /\ IsFiniteSet(old)
    BY UsesType
  <2>3. Uses'[a] = Cardinality(new)
    BY DEF Uses
  <2> HIDE DEF old, new
  <2>4. IsFiniteSet(new) /\ Cardinality(new) <= Cardinality(old)
    BY <2>1, <2>2, FS_Subset
  <2> QED
    BY <2>2, <2>3, <2>4, FS_CardinalityType
<1>4. \A a \in Analyses : analysis[a].retries \in Nat
  BY DEF ApplyInv, WorkInv, IInv, TypeOK, AnalysisDoc
<1>5. ASSUME NEW a \in Analyses
      PROVE  /\ Uses'[a] <= 1 + analysis'[a].retries
             /\ CanApply(analysis'[a]) => Uses'[a] <= analysis'[a].retries
  <2>1. /\ Uses[a] <= 1 + analysis[a].retries
        /\ CanApply(analysis[a]) => Uses[a] <= analysis[a].retries
    BY DEF ApplyInv, ApplyBudget
  <2> QED
    BY <1>1, <1>3, <1>4, <2>1
<1>6. ASSUME NEW q \in Requests
      PROVE  /\ Producing(q)' /\ Current(q)' => Uses'[ana'[q]] <= analysis'[ana'[q]].retries
             /\ pc'[q] \in {"apply_resume", "apply_analysis"} /\ Current(q)' =>
                  CanApply(analysis'[ana'[q]])
  <2>1. /\ Producing(q) /\ Current(q) =>
             ana[q] \in Analyses /\ Uses[ana[q]] <= analysis[ana[q]].retries
        /\ pc[q] \in {"apply_resume", "apply_analysis"} /\ Current(q) =>
             CanApply(analysis[ana[q]])
    BY DEF ApplyInv, ApplyBudget, WorkInv, IInv, Focus, Producing, Announcing, AboutAnalysis,
           ResumeOnly, Labels, Answers
  <2>2. /\ Producing(q)' => Producing(q)
        /\ Current(q)' <=> Current(q)
        /\ pc'[q] \in {"apply_resume", "apply_analysis"} => pc'[q] = pc[q]
    BY <1>1 DEF Producing, Announcing, Current
  <2> QED
    BY <1>1, <1>3, <1>4, <2>1, <2>2
<1> QED
  BY <1>2, <1>5, <1>6 DEF ApplyBudget

LEMMA ApplyInvStep == ASSUME ApplyInv, [Next]_vars PROVE ApplyInv'
<1>1. WorkInv'
  BY WorkInvStep DEF ApplyInv
<1>2. CASE Serve
  <2>1. IInv'
    BY <1>1 DEF WorkInv
  <2>2. PICK r \in Requests : Arrive(r) \/ Continue(r)
    BY <1>2 DEF Serve
  <2>3. ApplyLast' /\ ApplyBudget'
    BY <2>1, <2>2, ApplyLastStep, BudgetStep
  <2> QED
    BY <1>1, <2>3 DEF ApplyInv
<1>3. CASE Crash \/ UNCHANGED vars
  BY <1>1, <1>3, CrashBudget DEF ApplyInv
<1> QED
  BY <1>2, <1>3 DEF Next

\* How often a suggestion was applied is paid for by runs, in every state.
THEOREM ApplyInvariance == Spec => []ApplyInv
  BY ApplyInvInit, ApplyInvStep, PTL DEF Spec

\* One run's suggestion reaches the resume at most once, however many
\* requests apply it: the mark is saved under the revision of the analysis
\* before the resume is, and only a new run takes the mark away.
THEOREM AppliedAtMostOncePerRun == Spec => []AppliedOncePerRun
<1>1. ASSUME ApplyInv PROVE AppliedOncePerRun
  <2> SUFFICES ASSUME NEW a \in Analyses
               PROVE  Cardinality({r \in Requests :
                          ana[r] = a /\ <<r, "apply">> \in accepted[ResumeOf[a]]})
                        <= 1 + analysis[a].retries
    BY DEF AppliedOncePerRun
  <2> DEFINE applied == {r \in Requests :
                          ana[r] = a /\ <<r, "apply">> \in accepted[ResumeOf[a]]}
  <2>1. applied \subseteq Appliers(a)
    BY DEF Appliers
  <2> HIDE DEF applied
  <2>2. /\ IsFiniteSet(Appliers(a)) /\ Uses[a] = Cardinality(Appliers(a)) /\ Uses[a] \in Nat
        /\ Uses[a] <= 1 + analysis[a].retries
    BY <1>1, UsesType DEF ApplyInv, ApplyBudget
  <2>3. IsFiniteSet(applied) /\ Cardinality(applied) <= Cardinality(Appliers(a))
    BY <2>1, <2>2, FS_Subset
  <2>4. analysis[a].retries \in Nat
    BY <1>1 DEF ApplyInv, WorkInv, IInv, TypeOK, AnalysisDoc
  <2>5. Cardinality(applied) <= 1 + analysis[a].retries
    BY <2>2, <2>3, <2>4, FS_CardinalityType
  <2> QED
    BY <2>5 DEF applied
<1> QED
  BY <1>1, ApplyInvariance, PTL
=============================================================================
