---------------------------- MODULE ResumeIntake ----------------------------
(***************************************************************************)
(* How a candidate's resumes come and go: resumes/service.py, the upload   *)
(* and re-parse endpoints of resumes/router.py, and resumes/parsing.py,    *)
(* which both run inside the request.  Storing the uploaded file, the LLM  *)
(* and the audit entries are external; that they may raise is not.         *)
(***************************************************************************)
EXTENDS AccountDocuments

FileUnchanged == UNCHANGED <<fileVars, target>>

---------------------------------------------------------------------------
(* create_resume and upload_resume *)

\* The parse status of a new document: none, or UploadParse's default.
Born == [create |-> "none", upload |-> "pending"]

\* resume.insert().  create_resume answers a DuplicateKeyError with 409;
\* upload_resume does not handle it.
Insert(r) ==
    /\ pc[r] = "insert"
    /\ \E x \in Files :
        /\ file[x].state = "absent"
        /\ \/ /\ StoreFile(r, x, [state |-> "live", parse |-> Born[job[r]]])
              /\ target' = [target EXCEPT ![r] = x]
              /\ Goto(r, "count_up")
           \/ /\ NameTaken(x)
              /\ Goto(r, IF job[r] = "create" THEN "refused" ELSE "error")
              /\ FileUnchanged
    /\ UNCHANGED <<userVars, counted, job>>

CountUp(r) ==
    /\ pc[r] = "count_up"
    /\ IncResumeCount(r, target[r], 1)
    /\ Goto(r, IF job[r] = "create" THEN "ok" ELSE "parse_get")
    /\ FileUnchanged
    /\ UNCHANGED job

---------------------------------------------------------------------------
(* run_parse_job *)

\* The caller of run_parse_job: the upload swallows what it raised and
\* answers 201 with the resume as it finds it; the re-parse lets it through.
Raised(r) == IF job[r] = "upload" THEN "ok" ELSE "error"

ParseUnchanged == UNCHANGED <<userVars, counted, job, target>>

ParseGet(r) ==
    /\ pc[r] = "parse_get"
    /\ LoadFile(r, target[r])
    /\ Goto(r, "parse_start")
    /\ ParseUnchanged

\* This save is outside the try.
ParseStart(r) ==
    /\ pc[r] = "parse_start"
    /\ SaveFile(r, target[r], [fileCopy[r] EXCEPT !.parse = "processing"],
                "parse_text", Raised(r))
    /\ ParseUnchanged

\* The file is read and its text saved.
ParseText(r) ==
    /\ pc[r] = "parse_text"
    /\ SaveFile(r, target[r], fileCopy[r], "parse_llm", "parse_fail")
    /\ ParseUnchanged

\* The LLM answered: the parsed resume is saved with its status.
ParseDone(r) ==
    /\ pc[r] = "parse_llm"
    /\ SaveFile(r, target[r], [fileCopy[r] EXCEPT !.parse = "completed"],
                IF job[r] = "upload" THEN "ok" ELSE "reparse_get", "parse_fail")
    /\ ParseUnchanged

\* Reading or extracting the file, or the LLM, raised.
ParseError(r) ==
    /\ pc[r] \in {"parse_text", "parse_llm"}
    /\ Goto(r, "parse_fail")
    /\ UNCHANGED fileVars
    /\ ParseUnchanged

\* Mutant of ParseFail: the failed status is never saved.
ParseFailUnsaved(r) ==
    /\ pc[r] = "parse_fail"
    /\ Goto(r, Raised(r))
    /\ UNCHANGED fileVars
    /\ ParseUnchanged

\* The except block saves the failure from the same copy and re-raises.
ParseFail(r) ==
    /\ pc[r] = "parse_fail"
    /\ SaveFile(r, target[r], [fileCopy[r] EXCEPT !.parse = "failed"],
                Raised(r), Raised(r))
    /\ ParseUnchanged

---------------------------------------------------------------------------
(* reparse_resume, update_resume, delete_resume *)

\* Mutant of CanReparse: a parse still under way may be started again.
CanReparseUnfinished(x) == file[x].parse \notin {"none", "completed"}

\* Only failed parses can be retried.
CanReparse(x) == file[x].parse = "failed"

\* Resume.find_one of a live resume (404 otherwise); a re-parse is refused
\* with 422 unless the parse failed.
Find(r) ==
    /\ pc[r] = "find"
    /\ \E x \in Files :
        /\ file[x].state # "absent"
        /\ \/ /\ file[x].state = "live"
              /\ job[r] = "reparse" => CanReparse(x)
              /\ LoadFile(r, x)
              /\ target' = [target EXCEPT ![r] = x]
              /\ Goto(r, "save")
           \/ /\ \/ file[x].state = "deleted"
                 \/ job[r] = "reparse" /\ ~CanReparse(x)
              /\ Goto(r, "refused")
              /\ FileUnchanged
    /\ UNCHANGED <<userVars, counted, job>>

ReparseSave(r) ==
    /\ pc[r] = "save" /\ job[r] = "reparse"
    /\ SaveFile(r, target[r], [fileCopy[r] EXCEPT !.parse = "pending"],
                "parse_get", "error")
    /\ ParseUnchanged

\* The answer of a re-parse reads the resume again: 404 if deleted since.
ReparseGet(r) ==
    /\ pc[r] = "reparse_get"
    /\ Goto(r, IF file[target[r]].state = "live" THEN "ok" ELSE "refused")
    /\ UNCHANGED fileVars
    /\ ParseUnchanged

\* The new name or content is abstracted, the write and its revision are
\* not.  A name that is taken is a 409.
UpdateSave(r) ==
    /\ pc[r] = "save" /\ job[r] = "update"
    /\ \/ SaveFile(r, target[r], fileCopy[r], "ok", "error")
       \/ /\ r \in fileHolders[target[r]]
          /\ NameTaken(target[r])
          /\ Goto(r, "refused")
          /\ UNCHANGED fileVars
    /\ ParseUnchanged

DeleteSave(r) ==
    /\ pc[r] = "save" /\ job[r] = "delete"
    /\ SaveFile(r, target[r], [fileCopy[r] EXCEPT !.state = "deleted"],
                "count_down", "error")
    /\ ParseUnchanged

CountDown(r) ==
    /\ pc[r] = "count_down"
    /\ IncResumeCount(r, target[r], -1)
    /\ Goto(r, "ok")
    /\ FileUnchanged
    /\ UNCHANGED job
=============================================================================
