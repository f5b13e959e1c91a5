----------------------------- MODULE Documents -----------------------------
(***************************************************************************)
(* The three Mongo collections that an analysis touches (analyses,         *)
(* resumes, notifications) and the in-memory copies of their documents     *)
(* that the request handlers work on.                                      *)
(*                                                                         *)
(* Analysis and Resume are declared with use_revision: save() writes the   *)
(* WHOLE document, and only if the revision the copy was loaded with is    *)
(* still the stored one; otherwise it raises RevisionIdWasChanged and      *)
(* writes nothing.  A revision is a fresh uuid per write, so all that can  *)
(* be observed of it is who still holds the stored one: `analysisHolders`  *)
(* and `resumeHolders` are those sets.  Notification has no revision: its  *)
(* saves are unconditional, and a unique partial index allows one ACTIVE   *)
(* notification per analysis.                                              *)
(*                                                                         *)
(* Every await of the code on the database is one step.  A request of this *)
(* model is one HTTP request, answered once, so the number of Requests is  *)
(* the bound on everything a run does.                                     *)
(***************************************************************************)
EXTENDS Naturals, FiniteSets

CONSTANTS
    Requests,      \* the HTTP requests of this run
    Analyses,      \* the analysis ids a create may generate
    Resumes,       \* the resumes of the (single) user
    ResumeOf,      \* the resume an analysis is created for
    RetryLimit,    \* the upper bound of Analysis.retry_count (5 in the code)
    None           \* no analysis, or no resume

ASSUME RequestsAssumption == IsFiniteSet(Requests)
ASSUME NoneAssumption == None \notin Analyses /\ None \notin Resumes
ASSUME ResumeOfAssumption == ResumeOf \in [Analyses -> Resumes]
ASSUME RetryLimitAssumption == RetryLimit \in Nat

VARIABLES
    analysis,          \* the analyses collection
    analysisHolders,   \* the requests whose copy has the stored revision
    copy,              \* copy[r][a]: what request r last loaded or saved of a
    resume,            \* the resumes collection
    resumeHolders,
    resumeCopy,        \* the one resume document a request has in memory
    pages,             \* every json_resume that a resume has had: what a page of
                       \* the client loaded at some time may still show
    accepted,          \* history: the resume writes that the store accepted
    bell,              \* the ACTIVE notifications of an analysis
    pc,                \* where each request is, or how it was answered
    ana,               \* the analysis a request is about
    res,               \* the resume a request is about
    step,              \* the pipeline step a request runs
    goal,              \* what its next rollup and notification report
    seen,              \* the ACTIVE notifications its last query returned
    batch              \* the analyses an admin cascade has still to delete

analysisVars == <<analysis, analysisHolders, copy>>
resumeVars == <<resume, resumeHolders, resumeCopy, pages, accepted>>
requestVars == <<ana, res, step, goal, seen, batch>>
vars == <<analysisVars, resumeVars, bell, pc, requestVars>>

---------------------------------------------------------------------------
(* The documents. *)

AnalysisStatus == {"pending", "completed", "failed", "cancelled"}
StepStatus == {"pending", "in_progress", "completed", "failed"}
StepKey == 1..3

\* What run_full_pipeline leaves in Analysis.result: nothing, the comparison
\* of step 1 alone, or the comparison with suggestions and questions.
ResultState == {"none", "partial", "full"}

\* `applied` stands for the applied flag of the one suggestion a full result
\* is modelled with; retries for retry_count; deleted for deleted_at.
AnalysisDoc ==
    [status  : AnalysisStatus \cup {"absent"},
     steps   : [StepKey -> StepStatus],
     result  : ResultState,
     retries : Nat,
     applied : BOOLEAN,
     deleted : BOOLEAN]

FreshSteps == [k \in StepKey |-> "pending"]

Absent == [status |-> "absent", steps |-> FreshSteps, result |-> "none",
           retries |-> 0, applied |-> FALSE, deleted |-> FALSE]

Goals == {"in_progress", "completed", "failed"}
Rollups == {"unanalyzed"} \cup Goals

\* A resume is the set of writes it contains, each named by the request that
\* made it and by what it did.  Those of json_resume are its content.
ContentKinds == {"edit", "apply"}
WriteKinds == Goals \cup ContentKinds \cup {"rename", "delete"}
Writes == Requests \X WriteKinds

Content(writes) == writes \cap (Requests \X ContentKinds)

ResumeDoc == [rollup : Rollups, writes : SUBSET Writes, deleted : BOOLEAN]

NewResume == [rollup |-> "unanalyzed", writes |-> {}, deleted |-> FALSE]

\* A notification is named by the request that inserted it and by its type.
Notes == Requests \X Goals

\* Reading a document whose retry_count exceeds the model's bound raises a
\* ValidationError: the document can no longer be loaded.
Readable(a) == analysis[a].retries <= RetryLimit

Live(a) == analysis[a].status # "absent" /\ ~analysis[a].deleted

---------------------------------------------------------------------------
(* How a request moves on and how it is answered. *)

\* ok: 200/201; refused: 404, 410, 422 or 429; conflict: 409; error: an
\* unhandled exception, 500; lost: the process stopped, no answer.
Answers == {"ok", "refused", "conflict", "error", "lost"}

Goto(r, label) == pc' = [pc EXCEPT ![r] = label]

---------------------------------------------------------------------------
(* Loading and saving. *)

Hold(holders, d, r) == [holders EXCEPT ![d] = @ \cup {r}]

LoadAnalysis(r, a) ==
    /\ copy' = [copy EXCEPT ![r][a] = analysis[a]]
    /\ analysisHolders' = Hold(analysisHolders, a, r)
    /\ UNCHANGED analysis

LoadResume(r, x) ==
    /\ resumeCopy' = [resumeCopy EXCEPT ![r] = resume[x]]
    /\ resumeHolders' = Hold(resumeHolders, x, r)
    /\ UNCHANGED <<resume, pages, accepted>>

\* The store takes a document: its writer alone holds the new revision.
StoreAnalysis(r, a, doc) ==
    /\ analysis' = [analysis EXCEPT ![a] = doc]
    /\ analysisHolders' = [analysisHolders EXCEPT ![a] = {r}]
    /\ copy' = [copy EXCEPT ![r][a] = doc]

\* Mutant of SaveAnalysis: the save ignores the revision.
SaveAnalysisUnchecked(r, a, doc, saved, raised) ==
    StoreAnalysis(r, a, doc) /\ Goto(r, saved)

\* Analysis.save(): the document is written if the revision still matches,
\* and otherwise RevisionIdWasChanged takes the handler to `raised`.
SaveAnalysis(r, a, doc, saved, raised) ==
    \/ /\ r \in analysisHolders[a]
       /\ StoreAnalysis(r, a, doc)
       /\ Goto(r, saved)
    \/ /\ r \notin analysisHolders[a]
       /\ UNCHANGED analysisVars
       /\ Goto(r, raised)

\* The store takes a resume, with the write it now contains named <<r, kind>>.
StoreResume(r, x, doc, kind) ==
    LET written == [doc EXCEPT !.writes = @ \cup {<<r, kind>>}]
    IN  /\ resume' = [resume EXCEPT ![x] = written]
        /\ resumeHolders' = [resumeHolders EXCEPT ![x] = {r}]
        /\ resumeCopy' = [resumeCopy EXCEPT ![r] = written]
        /\ pages' = [pages EXCEPT ![x] = @ \cup {Content(written.writes)}]
        /\ accepted' = [accepted EXCEPT ![x] = @ \cup {<<r, kind>>}]

\* Mutant of SaveResume: the save ignores the revision.
SaveResumeUnchecked(r, x, doc, kind, saved, raised) ==
    StoreResume(r, x, doc, kind) /\ Goto(r, saved)

\* Resume.save(), likewise.
SaveResume(r, x, doc, kind, saved, raised) ==
    \/ /\ r \in resumeHolders[x]
       /\ StoreResume(r, x, doc, kind)
       /\ Goto(r, saved)
    \/ /\ r \notin resumeHolders[x]
       /\ UNCHANGED resumeVars
       /\ Goto(r, raised)

---------------------------------------------------------------------------
DocumentsInit ==
    /\ analysis = [a \in Analyses |-> Absent]
    /\ analysisHolders = [a \in Analyses |-> {}]
    /\ copy = [r \in Requests |-> [a \in Analyses |-> Absent]]
    /\ resume = [x \in Resumes |-> NewResume]
    /\ resumeHolders = [x \in Resumes |-> {}]
    /\ resumeCopy = [r \in Requests |-> NewResume]
    /\ pages = [x \in Resumes |-> {{}}]
    /\ accepted = [x \in Resumes |-> {}]
    /\ bell = [a \in Analyses |-> {}]
    /\ pc = [r \in Requests |-> "idle"]
    /\ ana = [r \in Requests |-> None]
    /\ res = [r \in Requests |-> None]
    /\ step = [r \in Requests |-> 1]
    /\ goal = [r \in Requests |-> "in_progress"]
    /\ seen = [r \in Requests |-> {}]
    /\ batch = [r \in Requests |-> {}]
=============================================================================
