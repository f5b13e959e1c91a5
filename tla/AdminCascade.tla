---------------------------- MODULE AdminCascade ----------------------------
(***************************************************************************)
(* admin_delete_resume of admin/service.py: an admin soft-deletes a resume *)
(* after the analyses of that resume, one at a time, each followed by its  *)
(* notifications.  "Ordered, idempotent operations (no multi-doc           *)
(* transaction)": every step is a write of its own.                        *)
(***************************************************************************)
EXTENDS Documents

\* Resume.get, deleted or not.
CascadeGet(r) ==
    /\ pc[r] = "idle"
    /\ \E x \in Resumes :
        /\ res' = [res EXCEPT ![r] = x]
        /\ LoadResume(r, x)
    /\ Goto(r, "cascade_list")
    /\ UNCHANGED <<analysisVars, bell, ana, step, goal, seen, batch>>

LiveAnalysesOf(x) == {a \in Analyses : Live(a) /\ ResumeOf[a] = x}

\* The live analyses are loaded in one query; one of them out of bounds
\* makes the whole query raise.
CascadeList(r) ==
    LET found == LiveAnalysesOf(res[r])
    IN  /\ pc[r] = "cascade_list"
        /\ \/ /\ \E a \in found : ~Readable(a)
              /\ Goto(r, "error")
              /\ UNCHANGED <<analysisHolders, copy, batch>>
           \/ /\ \A a \in found : Readable(a)
              /\ analysisHolders' =
                    [a \in Analyses |-> IF a \in found
                                        THEN analysisHolders[a] \cup {r}
                                        ELSE analysisHolders[a]]
              /\ copy' = [copy EXCEPT ![r] =
                    [a \in Analyses |-> IF a \in found
                                        THEN analysis[a] ELSE @[a]]]
              /\ batch' = [batch EXCEPT ![r] = found]
              /\ Goto(r, IF found = {} THEN "cascade_resume" ELSE "cascade_next")
        /\ UNCHANGED <<analysis, resumeVars, bell, ana, res, step, goal, seen>>

\* Mutant of CascadeAnalysis: a conflict is skipped instead of raised.
CascadeAnalysisSkip(r) ==
    /\ pc[r] = "cascade_next"
    /\ \E a \in batch[r] :
        /\ ana' = [ana EXCEPT ![r] = a]
        /\ SaveAnalysis(r, a, [copy[r][a] EXCEPT !.deleted = TRUE],
                        "cascade_find", "cascade_find")
    /\ UNCHANGED <<resumeVars, bell, res, step, goal, seen, batch>>

\* The next analysis of the list; a conflict stops the whole cascade.
CascadeAnalysis(r) ==
    /\ pc[r] = "cascade_next"
    /\ \E a \in batch[r] :
        /\ ana' = [ana EXCEPT ![r] = a]
        /\ SaveAnalysis(r, a, [copy[r][a] EXCEPT !.deleted = TRUE],
                        "cascade_find", "error")
    /\ UNCHANGED <<resumeVars, bell, res, step, goal, seen, batch>>

CascadeFind(r) ==
    /\ pc[r] = "cascade_find"
    /\ seen' = [seen EXCEPT ![r] = bell[ana[r]]]
    /\ Goto(r, "cascade_clear")
    /\ UNCHANGED <<analysisVars, resumeVars, bell, ana, res, step, goal, batch>>

CascadeClear(r) ==
    LET rest == batch[r] \ {ana[r]}
    IN  /\ pc[r] = "cascade_clear"
        /\ bell' = [bell EXCEPT ![ana[r]] = @ \ seen[r]]
        /\ batch' = [batch EXCEPT ![r] = rest]
        /\ Goto(r, IF rest = {} THEN "cascade_resume" ELSE "cascade_next")
        /\ UNCHANGED <<analysisVars, resumeVars, ana, res, step, goal, seen>>

\* The resume itself, from the copy loaded before the cascade; on a re-run
\* it was already deleted and is left alone.
CascadeResume(r) ==
    /\ pc[r] = "cascade_resume"
    /\ \/ /\ resumeCopy[r].deleted
          /\ Goto(r, "ok")
          /\ UNCHANGED resumeVars
       \/ /\ ~resumeCopy[r].deleted
          /\ SaveResume(r, res[r], [resumeCopy[r] EXCEPT !.deleted = TRUE],
                        "delete", "ok", "error")
    /\ UNCHANGED <<analysisVars, bell, requestVars>>
=============================================================================
