--------------------------- MODULE AccountsProofs ---------------------------
(***************************************************************************)
(* Safety of Accounts for any number of requests and resumes, and that its *)
(* uploads implement UploadParse.                                          *)
(***************************************************************************)
EXTENDS AccountsInvariant, FiniteSetTheorems, TLAPS

USE NoneAssumption

---------------------------------------------------------------------------
(* Types *)

\* What SaveUser leaves behind has its type.
LEMMA SaveUserType ==
    ASSUME TypeOK, NEW r \in Requests, NEW doc \in UserDoc, NEW saved \in Labels,
           SaveUser(r, doc, saved)
    PROVE  /\ user' \in UserDoc
           /\ userHolders' \subseteq Requests
           /\ userCopy' \in [Requests -> UserDoc]
           /\ pc' \in [Requests -> Labels]
  BY DEF SaveUser, StoreUser, Goto, TypeOK, userVars, Labels, Answers

\* What an accepted write of a resume leaves behind has its type.
LEMMA StoreFileType ==
    ASSUME TypeOK, NEW r \in Requests, NEW x \in Files, NEW doc \in FileDoc,
           StoreFile(r, x, doc)
    PROVE  /\ file' \in [Files -> FileDoc]
           /\ fileHolders' \in [Files -> SUBSET Requests]
           /\ fileCopy' \in [Requests -> FileDoc]
           /\ author' \in [Files -> Requests \cup {None}]
  BY DEF StoreFile, TypeOK

LEMMA LoadFileType ==
    ASSUME TypeOK, NEW r \in Requests, NEW x \in Files, LoadFile(r, x)
    PROVE  /\ file' \in [Files -> FileDoc]
           /\ fileHolders' \in [Files -> SUBSET Requests]
           /\ fileCopy' \in [Requests -> FileDoc]
           /\ author' \in [Files -> Requests \cup {None}]
  BY DEF LoadFile, TypeOK

\* What SaveFile leaves behind has its type.
LEMMA SaveFileType ==
    ASSUME TypeOK, NEW r \in Requests, NEW x \in Files, NEW doc \in FileDoc,
           NEW saved \in Labels, NEW raised \in Labels,
           SaveFile(r, x, doc, saved, raised)
    PROVE  /\ file' \in [Files -> FileDoc]
           /\ fileHolders' \in [Files -> SUBSET Requests]
           /\ fileCopy' \in [Requests -> FileDoc]
           /\ author' \in [Files -> Requests \cup {None}]
           /\ pc' \in [Requests -> Labels]
<1>1. CASE StoreFile(r, x, doc) /\ Goto(r, saved)
  BY <1>1, StoreFileType DEF Goto, TypeOK
<1>2. CASE UNCHANGED fileVars /\ Goto(r, raised)
  BY <1>2 DEF Goto, TypeOK, fileVars
<1> QED
  BY <1>1, <1>2 DEF SaveFile

LEMMA IncType ==
    ASSUME TypeOK, NEW r \in Requests, NEW x \in Files, NEW n \in {1, -1},
           IncResumeCount(r, x, n)
    PROVE  /\ user' \in UserDoc
           /\ userHolders' \subseteq Requests
           /\ userCopy' \in [Requests -> UserDoc]
           /\ counted' \subseteq Requests \X Files \X {1, -1}
<1>1. user.count \in Int /\ user.count + n \in Int
  BY DEF TypeOK, UserDoc
<1>2. user' \in UserDoc
  BY <1>1 DEF IncResumeCount, TypeOK, UserDoc
<1>3. <<r, x, n>> \in Requests \X Files \X {1, -1}
  OBVIOUS
<1> QED
  BY <1>2, <1>3 DEF IncResumeCount, TypeOK

\* The copies with another parse status, or deleted, are documents.
LEMMA CopyType ==
    ASSUME TypeOK, NEW r \in Requests
    PROVE  /\ fileCopy[r] \in FileDoc
           /\ \A s \in ParseStatus : [fileCopy[r] EXCEPT !.parse = s] \in FileDoc
           /\ [fileCopy[r] EXCEPT !.state = "deleted"] \in FileDoc
  BY DEF TypeOK, FileDoc

LEMMA RaisedType == ASSUME NEW r PROVE Raised(r) \in Labels
  BY DEF Raised, Labels, Answers

LEMMA TypeInit == Init => TypeOK
  BY DEF Init, AccountInit, TypeOK, UserDoc, FileDoc, NoFile, ParseStatus, Jobs,
         UserJobs, Labels, Answers

\* A request under way with a resume has one of Files.
LEMMA TargetType ==
    ASSUME TypeOK, Targets, NEW r \in Requests, pc[r] \in Focused
    PROVE  target[r] \in Files
  BY DEF Targets

LEMMA TypeArrive ==
    ASSUME TypeOK, NEW r \in Requests, Arrive(r)
    PROVE  TypeOK'
<1>1. CASE Authenticate(r)
  <2>1. PICK j \in UserJobs :
          /\ job' = [job EXCEPT ![r] = j]
          /\ \/ /\ pc' = [pc EXCEPT ![r] = "error"] /\ UNCHANGED userVars
             \/ /\ pc' = [pc EXCEPT ![r] = "refused"] /\ UNCHANGED userVars
             \/ /\ LoadUser(r) \/ UNCHANGED userVars
                /\ pc' = [pc EXCEPT ![r] = "touch"] \/ pc' = [pc EXCEPT ![r] = Handler[j]]
    BY <1>1 DEF Authenticate, Goto
  <2>2. Handler[j] \in Labels /\ j \in Jobs
    BY DEF Handler, UserJobs, Jobs, Labels
  <2>3. pc' \in [Requests -> Labels]
    BY <2>1, <2>2 DEF TypeOK, Labels, Answers
  <2>4. LoadUser(r) \/ UNCHANGED userVars
    BY <2>1
  <2> QED
    BY <1>1, <2>1, <2>2, <2>3, <2>4
       DEF Authenticate, TypeOK, LoadUser, FileUnchanged, fileVars, userVars
<1>2. CASE AdminUserFind(r)
  <2>1. PICK j \in AdminJobs :
          /\ job' = [job EXCEPT ![r] = j]
          /\ LoadUser(r) \/ UNCHANGED userVars
          /\ pc' = [pc EXCEPT ![r] = "error"] \/ pc' = [pc EXCEPT ![r] = "user_save"]
    BY <1>2 DEF AdminUserFind, Goto
  <2> QED
    BY <1>2, <2>1
       DEF AdminUserFind, TypeOK, LoadUser, FileUnchanged, fileVars, userVars,
           Labels, Answers, Jobs
<1>3. CASE AdminFileGet(r)
  <2>1. PICK x \in Files :
          /\ LoadFile(r, x)
          /\ target' = [target EXCEPT ![r] = x]
          /\ Goto(r, IF file[x].state = "deleted" THEN "ok" ELSE "save")
    BY <1>3 DEF AdminFileGet
  <2>2. pc' \in [Requests -> Labels]
    BY <2>1 DEF Goto, TypeOK, Labels, Answers
  <2> QED
    BY <1>3, <2>1, <2>2, LoadFileType
       DEF AdminFileGet, TypeOK, userVars, Jobs, AdminJobs
<1> QED
  BY <1>1, <1>2, <1>3 DEF Arrive

\* The actions that only save, load or answer for a request with a resume.
LEMMA TypeSave ==
    ASSUME TypeOK, NEW r \in Requests, target[r] \in Files,
           NEW doc \in FileDoc, NEW saved \in Labels, NEW raised \in Labels,
           SaveFile(r, target[r], doc, saved, raised),
           UNCHANGED <<userVars, counted, job, target>>
    PROVE  TypeOK'
  BY SaveFileType DEF TypeOK, userVars

LEMMA TypeGoto ==
    ASSUME TypeOK, NEW r \in Requests, NEW label \in Labels, Goto(r, label),
           UNCHANGED <<userVars, fileVars, counted, job, target>>
    PROVE  TypeOK'
  BY DEF Goto, TypeOK, userVars, fileVars

LEMMA TypeContinue ==
    ASSUME TypeOK, Targets, JobAt, NEW r \in Requests, Continue(r)
    PROVE  TypeOK'
<1> USE DEF FileUnchanged, ParseUnchanged
<1>0. ASSUME pc[r] \in Focused PROVE target[r] \in Files
  BY <1>0, TargetType
<1>1. CASE Touch(r)
  <2>1. job[r] \in UserJobs
    BY <1>1 DEF Touch, JobAt
  <2>2. Handler[job[r]] \in Labels
    BY <2>1 DEF Handler, UserJobs, Labels
  <2>3. userCopy[r] \in UserDoc
    BY DEF TypeOK
  <2> QED
    BY <1>1, <2>2, <2>3, SaveUserType DEF Touch, TypeOK, fileVars
<1>2. CASE UserUnsaved(r)
  <2>1. {"ok", "refused"} \subseteq Labels
    BY DEF Labels, Answers
  <2> QED
    BY <1>2, <2>1, TypeGoto DEF UserUnsaved
<1>3. CASE UserSave(r)
  <2>1. Edited(userCopy[r], job[r]) \in UserDoc /\ "ok" \in Labels
    BY DEF TypeOK, UserDoc, Edited, Labels, Answers
  <2> QED
    BY <1>3, <2>1, SaveUserType DEF UserSave, TypeOK, fileVars
<1>4. CASE Insert(r)
  <2>1. job[r] \in {"create", "upload"}
    BY <1>4 DEF Insert, JobAt
  <2>2. [state |-> "live", parse |-> Born[job[r]]] \in FileDoc
    BY <2>1 DEF Born, FileDoc, ParseStatus
  <2>3. PICK x \in Files :
          \/ /\ StoreFile(r, x, [state |-> "live", parse |-> Born[job[r]]])
             /\ target' = [target EXCEPT ![r] = x]
             /\ Goto(r, "count_up")
          \/ /\ \E label \in {"refused", "error"} : Goto(r, label)
             /\ UNCHANGED <<fileVars, target>>
    BY <1>4 DEF Insert
  <2>4. pc' \in [Requests -> Labels]
    BY <2>3 DEF Goto, TypeOK, Labels, Answers
  <2>5. UNCHANGED <<userVars, counted, job>>
    BY <1>4 DEF Insert
  <2>6. CASE /\ StoreFile(r, x, [state |-> "live", parse |-> Born[job[r]]])
             /\ target' = [target EXCEPT ![r] = x]
    BY <2>2, <2>4, <2>5, <2>6, StoreFileType DEF TypeOK, userVars
  <2>7. CASE UNCHANGED <<fileVars, target>>
    BY <2>4, <2>5, <2>7 DEF TypeOK, userVars, fileVars
  <2> QED
    BY <2>3, <2>6, <2>7
<1>5. CASE CountUp(r)
  <2>1. pc' \in [Requests -> Labels]
    BY <1>5 DEF CountUp, Goto, TypeOK, Labels, Answers
  <2>2. target[r] \in Files
    BY <1>0, <1>5 DEF CountUp, Focused, Labels, Answers, Unfocused
  <2> QED
    BY <1>5, <2>1, <2>2, IncType DEF CountUp, TypeOK, fileVars
<1>6. CASE ParseGet(r)
  <2>1. pc' \in [Requests -> Labels]
    BY <1>6 DEF ParseGet, Goto, TypeOK, Labels, Answers
  <2>2. target[r] \in Files
    BY <1>0, <1>6 DEF ParseGet, Focused, Labels, Answers, Unfocused
  <2> QED
    BY <1>6, <2>1, <2>2, LoadFileType DEF ParseGet, TypeOK, userVars
<1>7. CASE ParseStart(r)
  <2>1. target[r] \in Files
    BY <1>0, <1>7 DEF ParseStart, Focused, Labels, Answers, Unfocused
  <2>2. "parse_text" \in Labels /\ "processing" \in ParseStatus
    BY DEF Labels, ParseStatus
  <2> QED
    BY <1>7, <2>1, <2>2, CopyType, RaisedType, TypeSave DEF ParseStart
<1>8. CASE ParseText(r)
  <2>1. target[r] \in Files
    BY <1>0, <1>8 DEF ParseText, Focused, Labels, Answers, Unfocused
  <2>2. "parse_llm" \in Labels /\ "parse_fail" \in Labels
    BY DEF Labels
  <2> QED
    BY <1>8, <2>1, <2>2, CopyType, TypeSave DEF ParseText
<1>9. CASE ParseDone(r)
  <2>1. target[r] \in Files
    BY <1>0, <1>9 DEF ParseDone, Focused, Labels, Answers, Unfocused
  <2>2. /\ (IF job[r] = "upload" THEN "ok" ELSE "reparse_get") \in Labels
        /\ "parse_fail" \in Labels
        /\ "completed" \in ParseStatus
    BY DEF Labels, Answers, ParseStatus
  <2> QED
    BY <1>9, <2>1, <2>2, CopyType, TypeSave DEF ParseDone
<1>10. CASE ParseError(r)
  <2>1. "parse_fail" \in Labels
    BY DEF Labels
  <2> QED
    BY <1>10, <2>1, TypeGoto DEF ParseError
<1>11. CASE ParseFail(r)
  <2>1. target[r] \in Files
    BY <1>0, <1>11 DEF ParseFail, Focused, Labels, Answers, Unfocused
  <2>2. "failed" \in ParseStatus
    BY DEF ParseStatus
  <2> QED
    BY <1>11, <2>1, <2>2, CopyType, RaisedType, TypeSave DEF ParseFail
<1>12. CASE Find(r)
  <2>1. PICK x \in Files :
          \/ /\ LoadFile(r, x)
             /\ target' = [target EXCEPT ![r] = x]
             /\ Goto(r, "save")
          \/ /\ Goto(r, "refused")
             /\ UNCHANGED <<fileVars, target>>
    BY <1>12 DEF Find
  <2>2. pc' \in [Requests -> Labels]
    BY <2>1 DEF Goto, TypeOK, Labels, Answers
  <2>3. UNCHANGED <<userVars, counted, job>>
    BY <1>12 DEF Find
  <2>4. CASE LoadFile(r, x) /\ target' = [target EXCEPT ![r] = x]
    BY <2>2, <2>3, <2>4, LoadFileType DEF TypeOK, userVars
  <2>5. CASE UNCHANGED <<fileVars, target>>
    BY <2>2, <2>3, <2>5 DEF TypeOK, userVars, fileVars
  <2> QED
    BY <2>1, <2>4, <2>5
<1>13. CASE ReparseSave(r)
  <2>1. target[r] \in Files
    BY <1>0, <1>13 DEF ReparseSave, Focused, Labels, Answers, Unfocused
  <2>2. "parse_get" \in Labels /\ "error" \in Labels /\ "pending" \in ParseStatus
    BY DEF Labels, Answers, ParseStatus
  <2> QED
    BY <1>13, <2>1, <2>2, CopyType, TypeSave DEF ReparseSave
<1>14. CASE ReparseGet(r)
  <2>1. (IF file[target[r]].state = "live" THEN "ok" ELSE "refused") \in Labels
    BY DEF Labels, Answers
  <2> QED
    BY <1>14, <2>1, TypeGoto DEF ReparseGet
<1>15. CASE UpdateSave(r)
  <2>1. target[r] \in Files
    BY <1>0, <1>15 DEF UpdateSave, Focused, Labels, Answers, Unfocused
  <2>2. {"ok", "error", "refused"} \subseteq Labels
    BY DEF Labels, Answers
  <2> QED
    BY <1>15, <2>1, <2>2, CopyType, TypeSave, TypeGoto DEF UpdateSave
<1>16. CASE DeleteSave(r)
  <2>1. target[r] \in Files
    BY <1>0, <1>16 DEF DeleteSave, Focused, Labels, Answers, Unfocused
  <2>2. {"count_down", "error"} \subseteq Labels
    BY DEF Labels, Answers
  <2> QED
    BY <1>16, <2>1, <2>2, CopyType, TypeSave DEF DeleteSave
<1>17. CASE CountDown(r)
  <2>1. pc' \in [Requests -> Labels]
    BY <1>17 DEF CountDown, Goto, TypeOK, Labels, Answers
  <2>2. target[r] \in Files
    BY <1>0, <1>17 DEF CountDown, Focused, Labels, Answers, Unfocused
  <2> QED
    BY <1>17, <2>1, <2>2, IncType DEF CountDown, TypeOK, fileVars
<1>18. CASE AdminFileSave(r)
  <2>1. target[r] \in Files
    BY <1>0, <1>18 DEF AdminFileSave, Focused, Labels, Answers, Unfocused
  <2>2. {"ok", "error"} \subseteq Labels
    BY DEF Labels, Answers
  <2> QED
    BY <1>18, <2>1, <2>2, CopyType, TypeSave DEF AdminFileSave
<1> QED
  BY <1>1, <1>2, <1>3, <1>4, <1>5, <1>6, <1>7, <1>8, <1>9, <1>10, <1>11, <1>12,
     <1>13, <1>14, <1>15, <1>16, <1>17, <1>18 DEF Continue

\* Every step keeps the types.
LEMMA TypeStep ==
    ASSUME TypeOK, Targets, JobAt, [Next]_vars
    PROVE  TypeOK'
<1>1. ASSUME NEW r \in Requests, Arrive(r) PROVE TypeOK'
  BY <1>1, TypeArrive
<1>2. ASSUME NEW r \in Requests, Continue(r) PROVE TypeOK'
  BY <1>2, TypeContinue
<1>3. CASE Crash
  <2>1. "lost" \in Labels
    BY DEF Labels, Answers
  <2> QED
    BY <1>3, <2>1 DEF Crash, TypeOK, userVars, fileVars
<1>4. CASE UNCHANGED vars
  BY <1>4 DEF vars, userVars, fileVars, TypeOK
<1> QED
  BY <1>1, <1>2, <1>3, <1>4 DEF Next, Serve

---------------------------------------------------------------------------
(* What a step of request r does to the resumes, point by point. *)

\* No other request moves.
Aside(r) ==
    \A q \in Requests \ {r} :
        pc'[q] = pc[q] /\ job'[q] = job[q] /\ target'[q] = target[q]

\* Holders are only added by r itself.
Holding(r) == \A y \in Files : fileHolders'[y] \subseteq fileHolders[y] \cup {r}

SameParse == \A y \in Files : file'[y].parse = file[y].parse
SameState == \A y \in Files : file'[y].state = file[y].state

\* r wrote doc over its current copy of x.
Wrote(r, x, doc) ==
    /\ r \in fileHolders[x]
    /\ fileCopy[r] = file[x]
    /\ file[x].state # "absent"
    /\ file'[x] = doc
    /\ \A y \in Files \ {x} : file'[y] = file[y]
    /\ fileHolders'[x] = {r}
    /\ \A y \in Files \ {x} : fileHolders'[y] = fileHolders[y]
    /\ fileCopy'[r] = doc
    /\ \A q \in Requests \ {r} : fileCopy'[q] = fileCopy[q]

\* A save either wrote or changed nothing.
Saved(r, doc, saved, raised) ==
    /\ Aside(r)
    /\ \/ Wrote(r, target[r], doc) /\ pc'[r] = saved
       \/ UNCHANGED fileVars /\ pc'[r] = raised

LEMMA SaveEffect ==
    ASSUME TypeOK, FInv, NEW r \in Requests, target[r] \in Files,
           NEW doc, NEW saved, NEW raised,
           SaveFile(r, target[r], doc, saved, raised),
           UNCHANGED <<job, target>>
    PROVE  Saved(r, doc, saved, raised)
<1> USE DEF Saved
<1>1. Aside(r)
  BY DEF SaveFile, Goto, TypeOK, Aside
<1>2. CASE /\ r \in fileHolders[target[r]]
           /\ StoreFile(r, target[r], doc)
           /\ Goto(r, saved)
  <2>1. fileCopy[r] = file[target[r]] /\ file[target[r]].state # "absent"
    BY <1>2 DEF FInv, FileCopies, Targets
  <2>2. /\ file'[target[r]] = doc
        /\ \A y \in Files \ {target[r]} : file'[y] = file[y]
    BY <1>2 DEF StoreFile, TypeOK
  <2>3. /\ fileHolders'[target[r]] = {r}
        /\ \A y \in Files \ {target[r]} : fileHolders'[y] = fileHolders[y]
    BY <1>2 DEF StoreFile, TypeOK
  <2>4. /\ fileCopy'[r] = doc
        /\ \A q \in Requests \ {r} : fileCopy'[q] = fileCopy[q]
    BY <1>2 DEF StoreFile, TypeOK
  <2>5. pc'[r] = saved
    BY <1>2 DEF Goto, TypeOK
  <2> QED
    BY <1>1, <1>2, <2>1, <2>2, <2>3, <2>4, <2>5 DEF Wrote
<1>3. CASE UNCHANGED fileVars /\ Goto(r, raised)
  <2>1. pc'[r] = raised
    BY <1>3 DEF Goto, TypeOK
  <2> QED
    BY <1>1, <1>3, <2>1
<1> QED
  BY <1>2, <1>3 DEF SaveFile

LEMMA LoadEffect ==
    ASSUME TypeOK, NEW r \in Requests, NEW x \in Files, LoadFile(r, x)
    PROVE  /\ file' = file
           /\ fileHolders'[x] = fileHolders[x] \cup {r}
           /\ \A y \in Files \ {x} : fileHolders'[y] = fileHolders[y]
           /\ fileCopy'[r] = file[x]
           /\ \A q \in Requests \ {r} : fileCopy'[q] = fileCopy[q]
  BY DEF LoadFile, TypeOK

---------------------------------------------------------------------------
(* The copies of resumes *)

\* A write keeps the copies: its writer alone holds the new revision.
LEMMA CopiesWrote ==
    ASSUME TypeOK, TypeOK', FInv, NEW r \in Requests, target[r] \in Files,
           NEW doc \in FileDoc, Wrote(r, target[r], doc), doc.state # "absent",
           UNCHANGED target
    PROVE  FileCopies' /\ AbsentIsUnparsed'
<1>1. FileCopies'
  <2> SUFFICES ASSUME NEW x \in Files, NEW q \in fileHolders'[x]
               PROVE  target[q] = x /\ fileCopy'[q] = file'[x]
    BY DEF FileCopies
  <2>1. q \in Requests
    BY DEF TypeOK
  <2>2. CASE x = target[r]
    BY <2>2 DEF Wrote
  <2>3. CASE x # target[r]
    <3>1. q \in fileHolders[x] /\ file'[x] = file[x]
      BY <2>3 DEF Wrote
    <3>2. target[q] = x /\ fileCopy[q] = file[x]
      BY <3>1 DEF FInv, FileCopies
    <3>3. q # r
      BY <2>3, <3>2
    <3> QED
      BY <2>1, <3>1, <3>2, <3>3 DEF Wrote
  <2> QED
    BY <2>2, <2>3
<1>2. AbsentIsUnparsed'
  <2> SUFFICES ASSUME NEW x \in Files, file'[x].state = "absent"
               PROVE  file'[x].parse = "none"
    BY DEF AbsentIsUnparsed
  <2>1. x # target[r]
    BY DEF Wrote
  <2> QED
    BY <2>1 DEF Wrote, FInv, AbsentIsUnparsed
<1> QED
  BY <1>1, <1>2

\* So does a load of the one resume the request is about.
LEMMA CopiesLoaded ==
    ASSUME TypeOK, TypeOK', FInv, NEW r \in Requests, NEW x \in Files,
           LoadFile(r, x), target[r] \in {None, x}, Aside(r), target'[r] = x
    PROVE  FileCopies' /\ AbsentIsUnparsed'
<1>1. FileCopies'
  <2> SUFFICES ASSUME NEW y \in Files, NEW q \in fileHolders'[y]
               PROVE  target'[q] = y /\ fileCopy'[q] = file'[y]
    BY DEF FileCopies
  <2>1. q \in Requests
    BY DEF TypeOK
  <2>2. CASE q = r
    <3>1. y = x
      <4>1. CASE y # x
        <5>1. r \in fileHolders[y]
          BY <2>2, <4>1, LoadEffect
        <5> QED
          BY <4>1, <5>1 DEF FInv, FileCopies
      <4> QED
        BY <4>1
    <3> QED
      BY <2>2, <3>1, LoadEffect
  <2>3. CASE q # r
    <3>1. q \in fileHolders[y]
      BY <2>3, LoadEffect
    <3>2. target[q] = y /\ fileCopy[q] = file[y]
      BY <3>1 DEF FInv, FileCopies
    <3> QED
      BY <2>1, <2>3, <3>2, LoadEffect DEF Aside
  <2> QED
    BY <2>2, <2>3
<1>2. AbsentIsUnparsed'
  BY LoadEffect DEF FInv, AbsentIsUnparsed
<1> QED
  BY <1>1, <1>2

\* So does a step that leaves the resumes alone.
LEMMA CopiesUnchanged ==
    ASSUME FInv, UNCHANGED <<fileVars, target>>
    PROVE  FileCopies' /\ AbsentIsUnparsed'
  BY DEF FInv, FileCopies, AbsentIsUnparsed, fileVars

\* And so does an insert: nobody is about a resume that does not exist.
LEMMA CopiesInserted ==
    ASSUME TypeOK, TypeOK', FInv, NEW r \in Requests, NEW x \in Files, NEW doc,
           file[x].state = "absent", doc.state # "absent", StoreFile(r, x, doc),
           target[r] = None, target' = [target EXCEPT ![r] = x]
    PROVE  FileCopies' /\ AbsentIsUnparsed'
<1>0. /\ file'[x] = doc /\ fileHolders'[x] = {r} /\ fileCopy'[r] = doc
      /\ \A y \in Files \ {x} : file'[y] = file[y] /\ fileHolders'[y] = fileHolders[y]
      /\ \A q \in Requests \ {r} : fileCopy'[q] = fileCopy[q] /\ target'[q] = target[q]
      /\ target'[r] = x
  BY DEF StoreFile, TypeOK
<1>1. FileCopies'
  <2> SUFFICES ASSUME NEW y \in Files, NEW q \in fileHolders'[y]
               PROVE  target'[q] = y /\ fileCopy'[q] = file'[y]
    BY DEF FileCopies
  <2>1. q \in Requests
    BY DEF TypeOK
  <2>2. CASE y = x
    BY <1>0, <2>2
  <2>3. CASE y # x
    <3>1. q \in fileHolders[y]
      BY <1>0, <2>3
    <3>2. target[q] = y /\ fileCopy[q] = file[y]
      BY <3>1 DEF FInv, FileCopies
    <3> QED
      BY <1>0, <2>1, <2>3, <3>2
  <2> QED
    BY <2>2, <2>3
<1>2. AbsentIsUnparsed'
  BY <1>0 DEF FInv, AbsentIsUnparsed
<1> QED
  BY <1>1, <1>2

---------------------------------------------------------------------------
(* The invariant, by what a step of request r does to the resumes *)

\* What the label that r reaches says of its resume.
Aimed(r) ==
    /\ pc'[r] \in Unfocused => target'[r] = None
    /\ pc'[r] \in Focused => target'[r] \in Files
    /\ target'[r] \in Files => file'[target'[r]].state # "absent"

NotSaving(r) == pc'[r] # "save"

\* r does not become the parser, or one of the deleters, of a resume.
NoNewParser(r) ==
    /\ target'[r] = target[r]
    /\ BeforeStart(r)' => BeforeStart(r)
    /\ AfterStart(r)' => AfterStart(r)

NoNewDeleter(r) == \A y \in Files : Deleted(r, y)' => Deleted(r, y)

OnlyCounts(r) ==
    \A q \in Requests \ {r} : \A y \in Files :
        <<q, y, -1>> \in counted' <=> <<q, y, -1>> \in counted

\* Every resume that a request is about still exists.
LEMMA TargetsStep ==
    ASSUME TypeOK, FInv, NEW r \in Requests, Aside(r), Aimed(r),
           \A y \in Files : file'[y].state = "absent" => file[y].state = "absent"
    PROVE  Targets'
  BY DEF FInv, Targets, Aside, Aimed

\* The deletions of the other requests are as they were.
LEMMA OthersDeleted ==
    ASSUME NEW r \in Requests, Aside(r), OnlyCounts(r)
    PROVE  \A q \in Requests \ {r} : \A y \in Files : Deleted(q, y)' <=> Deleted(q, y)
  BY DEF Aside, OnlyCounts, Deleted

LEMMA OthersParse ==
    ASSUME NEW r \in Requests, Aside(r)
    PROVE  \A q \in Requests \ {r} :
               /\ BeforeStart(q)' <=> BeforeStart(q)
               /\ AfterStart(q)' <=> AfterStart(q)
               /\ Parsing(q)' <=> Parsing(q)
  BY DEF Aside, BeforeStart, AfterStart, Parsing

LEMMA ParsingIs ==
    ASSUME NEW r \in Requests
    PROVE  /\ Parsing(r) <=> BeforeStart(r) \/ AfterStart(r)
           /\ Parsing(r)' <=> BeforeStart(r)' \/ AfterStart(r)'
  BY DEF Parsing, BeforeStart, AfterStart

\* A step that changes no parse status keeps what parsers rely on.
LEMMA SameParseStep ==
    ASSUME TypeOK, FInv, NEW r \in Requests, Aside(r), Holding(r), SameParse,
           Targets', NoNewParser(r) \/ (~BeforeStart(r)' /\ ~AfterStart(r)'),
           pc'[r] = "save" /\ job'[r] = "reparse" =>
               file'[target'[r]].parse = "failed"
    PROVE  ParserStatus' /\ ReparserStatus' /\ OneParser'
<1>1. ASSUME NEW q \in Requests, pc'[q] \in Focused
      PROVE  target'[q] \in Files
  BY <1>1 DEF Targets
<1>2. ASSUME NEW q \in Requests, BeforeStart(q)' \/ AfterStart(q)' \/ pc'[q] = "save"
      PROVE  target'[q] \in Files
  BY <1>1, <1>2 DEF BeforeStart, AfterStart, Focused, Labels, Answers, Unfocused
<1>3. ASSUME NEW q \in Requests, BeforeStart(q)'
      PROVE  file'[target'[q]].parse = "pending"
  <2>1. BeforeStart(q) /\ target'[q] = target[q]
    BY <1>3, OthersParse DEF NoNewParser, Aside
  <2> QED
    BY <1>2, <1>3, <2>1 DEF FInv, ParserStatus, SameParse
<1>4. ASSUME NEW q \in Requests, AfterStart(q)'
      PROVE  file'[target'[q]].parse = "processing"
  <2>1. AfterStart(q) /\ target'[q] = target[q]
    BY <1>4, OthersParse DEF NoNewParser, Aside
  <2> QED
    BY <1>2, <1>4, <2>1 DEF FInv, ParserStatus, SameParse
<1>5. ASSUME NEW q \in Requests, pc'[q] = "save", job'[q] = "reparse",
             q \in fileHolders'[target'[q]]
      PROVE  file'[target'[q]].parse = "failed"
  <2>1. CASE q = r
    BY <1>5, <2>1
  <2>2. CASE q # r
    <3>1. /\ pc[q] = "save" /\ job[q] = "reparse" /\ target'[q] = target[q]
          /\ target[q] \in Files
      BY <1>2, <1>5, <2>2 DEF Aside
    <3>2. q \in fileHolders[target[q]]
      BY <1>5, <2>2, <3>1 DEF Holding
    <3> QED
      BY <3>1, <3>2 DEF FInv, ReparserStatus, SameParse
  <2> QED
    BY <2>1, <2>2
<1>6. ASSUME NEW q \in Requests, Parsing(q)'
      PROVE  Parsing(q) /\ target'[q] = target[q]
  BY <1>6, OthersParse, ParsingIs DEF NoNewParser, Aside
<1>7. OneParser'
  BY <1>6 DEF FInv, OneParser
<1> QED
  BY <1>3, <1>4, <1>5, <1>7 DEF ParserStatus, ReparserStatus

\* A step of r that changes resume x alone, leaving r its only holder.
Changes(r, x) ==
    /\ target'[r] = x
    /\ \A y \in Files \ {x} : file'[y] = file[y] /\ fileHolders'[y] = fileHolders[y]
    /\ fileHolders'[x] = {r}

\* So does a step in which r changes the one resume it parses, or starts to.
LEMMA ParseChangeStep ==
    ASSUME TypeOK, FInv, NEW r \in Requests, NEW x \in Files,
           Aside(r), Changes(r, x), Targets', NotSaving(r),
           \A q \in Requests \ {r} : Parsing(q) => target[q] # x,
           BeforeStart(r)' => file'[x].parse = "pending",
           AfterStart(r)' => file'[x].parse = "processing"
    PROVE  ParserStatus' /\ ReparserStatus' /\ OneParser'
<1>1. ASSUME NEW q \in Requests,
             BeforeStart(q)' \/ AfterStart(q)' \/ pc'[q] = "save"
      PROVE  target'[q] \in Files
  BY <1>1 DEF Targets, BeforeStart, AfterStart, Focused, Labels, Answers, Unfocused
<1>2. ASSUME NEW q \in Requests \ {r}, Parsing(q)'
      PROVE  /\ Parsing(q) /\ target'[q] = target[q] /\ target[q] \in Files \ {x}
             /\ BeforeStart(q)' <=> BeforeStart(q)
             /\ AfterStart(q)' <=> AfterStart(q)
  BY <1>1, <1>2, OthersParse, ParsingIs DEF Aside
<1>3. ASSUME NEW q \in Requests, BeforeStart(q)'
      PROVE  file'[target'[q]].parse = "pending"
  <2>1. CASE q = r
    BY <1>3, <2>1 DEF Changes
  <2>2. CASE q # r
    BY <1>2, <1>3, <2>2, ParsingIs DEF FInv, ParserStatus, Changes
  <2> QED
    BY <2>1, <2>2
<1>4. ASSUME NEW q \in Requests, AfterStart(q)'
      PROVE  file'[target'[q]].parse = "processing"
  <2>1. CASE q = r
    BY <1>4, <2>1 DEF Changes
  <2>2. CASE q # r
    BY <1>2, <1>4, <2>2, ParsingIs DEF FInv, ParserStatus, Changes
  <2> QED
    BY <2>1, <2>2
<1>5. ASSUME NEW q \in Requests, pc'[q] = "save", job'[q] = "reparse",
             q \in fileHolders'[target'[q]]
      PROVE  file'[target'[q]].parse = "failed"
  <2>1. q # r
    BY <1>5 DEF NotSaving
  <2>2. /\ pc[q] = "save" /\ job[q] = "reparse" /\ target'[q] = target[q]
        /\ target[q] \in Files
    BY <1>1, <1>5, <2>1 DEF Aside
  <2>3. target[q] # x
    BY <1>5, <2>1, <2>2 DEF Changes
  <2> QED
    BY <1>5, <2>2, <2>3 DEF FInv, ReparserStatus, Changes
<1>6. OneParser'
  <2> SUFFICES ASSUME NEW p \in Requests, NEW q \in Requests,
                      Parsing(p)', Parsing(q)', target'[p] = target'[q]
               PROVE  p = q
    BY DEF OneParser
  <2>1. CASE p # r /\ q # r
    BY <1>2, <2>1 DEF FInv, OneParser
  <2>2. CASE p = r /\ q # r
    BY <1>2, <2>2 DEF Changes
  <2>3. CASE p # r /\ q = r
    BY <1>2, <2>3 DEF Changes
  <2> QED
    BY <2>1, <2>2, <2>3
<1> QED
  BY <1>3, <1>4, <1>5, <1>6 DEF ParserStatus, ReparserStatus

\* A step that deletes nothing keeps what deleters rely on.
LEMMA SameStateStep ==
    ASSUME TypeOK, FInv, NEW r \in Requests, Aside(r), Holding(r), SameState,
           Targets', OnlyCounts(r), NoNewDeleter(r),
           pc'[r] = "save" /\ job'[r] = "delete" =>
               file'[target'[r]].state = "live"
    PROVE  DeleterStatus' /\ OneDeleter'
<1>1. ASSUME NEW q \in Requests, pc'[q] = "save"
      PROVE  target'[q] \in Files
  BY <1>1 DEF Targets, Focused, Labels, Answers, Unfocused
<1>2. ASSUME NEW q \in Requests, pc'[q] = "save", job'[q] = "delete",
             q \in fileHolders'[target'[q]]
      PROVE  file'[target'[q]].state = "live"
  <2>1. CASE q = r
    BY <1>2, <2>1
  <2>2. CASE q # r
    <3>1. /\ pc[q] = "save" /\ job[q] = "delete" /\ target'[q] = target[q]
          /\ target[q] \in Files
      BY <1>1, <1>2, <2>2 DEF Aside
    <3>2. q \in fileHolders[target[q]]
      BY <1>2, <2>2, <3>1 DEF Holding
    <3> QED
      BY <3>1, <3>2 DEF FInv, DeleterStatus, SameState
  <2> QED
    BY <2>1, <2>2
<1>3. ASSUME NEW q \in Requests, NEW y \in Files, Deleted(q, y)'
      PROVE  Deleted(q, y)
  BY <1>3, OthersDeleted DEF NoNewDeleter
<1>4. OneDeleter'
  BY <1>3 DEF FInv, OneDeleter, SameState
<1> QED
  BY <1>2, <1>4 DEF DeleterStatus

\* So does one that deletes a resume that was not deleted.
LEMMA StateChangeStep ==
    ASSUME TypeOK, FInv, NEW r \in Requests, NEW x \in Files,
           Aside(r), Changes(r, x), Targets', NotSaving(r), OnlyCounts(r),
           file'[x].state = "deleted" \/ file[x].state # "deleted",
           \A y \in Files :
               Deleted(r, y)' =>
                   \/ Deleted(r, y)
                   \/ /\ y = x /\ file[x].state # "deleted"
                      /\ file'[x].state = "deleted"
    PROVE  DeleterStatus' /\ OneDeleter'
<1>1. ASSUME NEW q \in Requests, pc'[q] = "save"
      PROVE  target'[q] \in Files
  BY <1>1 DEF Targets, Focused, Labels, Answers, Unfocused
<1>2. ASSUME NEW q \in Requests, pc'[q] = "save", job'[q] = "delete",
             q \in fileHolders'[target'[q]]
      PROVE  file'[target'[q]].state = "live"
  <2>1. q # r
    BY <1>2 DEF NotSaving
  <2>2. /\ pc[q] = "save" /\ job[q] = "delete" /\ target'[q] = target[q]
        /\ target[q] \in Files
    BY <1>1, <1>2, <2>1 DEF Aside
  <2>3. target[q] # x
    BY <1>2, <2>1, <2>2 DEF Changes
  <2> QED
    BY <1>2, <2>2, <2>3 DEF FInv, DeleterStatus, Changes
<1>3. ASSUME NEW q \in Requests, NEW y \in Files, Deleted(q, y)'
      PROVE  /\ Deleted(q, y) \/ (q = r /\ y = x /\ file[x].state # "deleted")
             /\ file'[y].state = "deleted"
  <2>1. Deleted(q, y) \/ (q = r /\ y = x /\ file[x].state # "deleted"
                                         /\ file'[x].state = "deleted")
    BY <1>3, OthersDeleted
  <2>2. CASE Deleted(q, y)
    BY <2>2 DEF FInv, OneDeleter, Changes
  <2> QED
    BY <2>1, <2>2
<1>4. ASSUME NEW q \in Requests, NEW p \in Requests, NEW y \in Files,
             Deleted(q, y)', Deleted(p, y)'
      PROVE  p = q
  <2>1. ASSUME NEW s \in Requests, Deleted(s, y) PROVE file[y].state = "deleted"
    BY <2>1 DEF FInv, OneDeleter
  <2> QED
    BY <1>3, <1>4, <2>1 DEF FInv, OneDeleter
<1> QED
  BY <1>2, <1>3, <1>4 DEF DeleterStatus, OneDeleter

Stops(r) == ~BeforeStart(r)' /\ ~AfterStart(r)'

\* A step that leaves the resumes alone.
LEMMA QuietStep ==
    ASSUME TypeOK, TypeOK', FInv, NEW r \in Requests,
           UNCHANGED <<fileVars, target>>, Aside(r), Aimed(r), NotSaving(r),
           NoNewParser(r) \/ Stops(r), OnlyCounts(r), NoNewDeleter(r)
    PROVE  FInv'
<1>1. Holding(r) /\ SameParse /\ SameState
  BY DEF Holding, SameParse, SameState, fileVars
<1>2. FileCopies' /\ AbsentIsUnparsed'
  BY CopiesUnchanged
<1>3. Targets'
  BY TargetsStep DEF fileVars
<1>4. ParserStatus' /\ ReparserStatus' /\ OneParser'
  BY <1>1, <1>3, SameParseStep DEF NotSaving, Stops
<1>5. DeleterStatus' /\ OneDeleter'
  BY <1>1, <1>3, SameStateStep DEF NotSaving
<1> QED
  BY <1>2, <1>3, <1>4, <1>5 DEF FInv

\* A step that loads the resume that r is, or comes to be, about.
LEMMA LoadStep ==
    ASSUME TypeOK, TypeOK', FInv, NEW r \in Requests, NEW x \in Files,
           LoadFile(r, x), target[r] \in {None, x}, target'[r] = x,
           file[x].state # "absent", Aside(r), UNCHANGED counted,
           pc'[r] \in Focused \cup Answers,
           NoNewParser(r) \/ Stops(r), pc'[r] # "count_down",
           pc'[r] = "save" /\ job'[r] = "reparse" => file[x].parse = "failed",
           pc'[r] = "save" /\ job'[r] = "delete" => file[x].state = "live"
    PROVE  FInv'
<1>1. Holding(r) /\ SameParse /\ SameState
  BY LoadEffect DEF Holding, SameParse, SameState
<1>2. FileCopies' /\ AbsentIsUnparsed'
  BY CopiesLoaded
<1>3. Aimed(r)
  BY LoadEffect DEF Aimed, Focused, Answers, Unfocused
<1>4. Targets'
  BY <1>3, LoadEffect, TargetsStep
<1>5. ParserStatus' /\ ReparserStatus' /\ OneParser'
  BY <1>1, <1>4, LoadEffect, SameParseStep DEF Stops
<1>6. OnlyCounts(r) /\ NoNewDeleter(r)
  BY DEF OnlyCounts, NoNewDeleter, Deleted
<1>7. DeleterStatus' /\ OneDeleter'
  BY <1>1, <1>4, <1>6, LoadEffect, SameStateStep
<1> QED
  BY <1>2, <1>4, <1>5, <1>7 DEF FInv

\* A save of the resume that r is about.
LEMMA WriteStep ==
    ASSUME TypeOK, TypeOK', FInv, NEW r \in Requests, target[r] \in Files,
           NEW doc \in FileDoc, Wrote(r, target[r], doc), Aside(r),
           UNCHANGED <<counted, job, target>>,
           pc'[r] \in Focused \cup Answers, NotSaving(r),
           \/ doc.parse = file[target[r]].parse /\ Stops(r)
           \/ /\ \A q \in Requests \ {r} : Parsing(q) => target[q] # target[r]
              /\ BeforeStart(r)' => doc.parse = "pending"
              /\ AfterStart(r)' => doc.parse = "processing",
           \/ doc.state = file[target[r]].state /\ pc'[r] # "count_down"
           \/ /\ doc.state = "deleted"
              /\ pc'[r] = "count_down" => file[target[r]].state = "live"
    PROVE  FInv'
<1>1. doc.state # "absent" /\ file'[target[r]] = doc
  BY DEF Wrote
<1>2. FileCopies' /\ AbsentIsUnparsed'
  BY <1>1, CopiesWrote
<1>3. Aimed(r)
  BY <1>1 DEF Aimed, Focused, Answers, Unfocused
<1>4. Targets'
  BY <1>1, <1>3, TargetsStep DEF Wrote
<1>5. Changes(r, target[r]) /\ Holding(r)
  BY DEF Changes, Wrote, Holding
<1>6. ParserStatus' /\ ReparserStatus' /\ OneParser'
  <2>1. CASE doc.parse = file[target[r]].parse /\ Stops(r)
    <3>1. SameParse
      BY <1>1, <2>1 DEF SameParse, Wrote
    <3> QED
      BY <1>4, <1>5, <2>1, <3>1, SameParseStep DEF Stops, NotSaving
  <2>2. CASE /\ \A q \in Requests \ {r} : Parsing(q) => target[q] # target[r]
             /\ BeforeStart(r)' => doc.parse = "pending"
             /\ AfterStart(r)' => doc.parse = "processing"
    BY <1>1, <1>4, <1>5, <2>2, ParseChangeStep
  <2> QED
    BY <2>1, <2>2
<1>7. OnlyCounts(r)
  BY DEF OnlyCounts
<1>8. DeleterStatus' /\ OneDeleter'
  <2>1. CASE doc.state = file[target[r]].state /\ pc'[r] # "count_down"
    <3>1. SameState
      BY <1>1, <2>1 DEF SameState, Wrote
    <3>2. NoNewDeleter(r)
      BY <2>1 DEF NoNewDeleter, Deleted
    <3> QED
      BY <1>4, <1>5, <1>7, <3>1, <3>2, SameStateStep DEF NotSaving
  <2>2. CASE /\ doc.state = "deleted"
             /\ pc'[r] = "count_down" => file[target[r]].state = "live"
    <3>1. \A y \in Files :
              Deleted(r, y)' =>
                  \/ Deleted(r, y)
                  \/ /\ y = target[r] /\ file[target[r]].state # "deleted"
                     /\ file'[target[r]].state = "deleted"
      BY <1>1, <2>2 DEF Deleted
    <3> QED
      BY <1>1, <1>4, <1>5, <1>7, <2>2, <3>1, StateChangeStep
  <2> QED
    BY <2>1, <2>2
<1> QED
  BY <1>2, <1>4, <1>6, <1>8 DEF FInv

---------------------------------------------------------------------------
(* The invariant, action by action *)

\* An answer, or a step on the user, that is not about any resume.
LEMMA AnswerStep ==
    ASSUME TypeOK, TypeOK', FInv, NEW r \in Requests,
           UNCHANGED <<fileVars, target, counted>>, Aside(r),
           \/ pc'[r] \in Answers
           \/ pc[r] \in Unfocused /\ pc'[r] \in Unfocused
    PROVE  FInv'
<1>1. Aimed(r) /\ NotSaving(r)
  BY DEF FInv, Targets, Aimed, NotSaving, Focused, Unfocused, Answers, fileVars
<1>2. Stops(r)
  BY DEF Stops, BeforeStart, AfterStart, Unfocused, Answers
<1>3. OnlyCounts(r) /\ NoNewDeleter(r)
  BY DEF OnlyCounts, NoNewDeleter, Deleted, Unfocused, Answers
<1> QED
  BY <1>1, <1>2, <1>3, QuietStep

LEMMA InvArrive ==
    ASSUME TypeOK, TypeOK', FInv, NEW r \in Requests, Arrive(r)
    PROVE  FInv'
<1>1. CASE Authenticate(r)
  <2>1. PICK j \in UserJobs :
          /\ job' = [job EXCEPT ![r] = j]
          /\ \/ pc' = [pc EXCEPT ![r] = "error"]
             \/ pc' = [pc EXCEPT ![r] = "refused"]
             \/ pc' = [pc EXCEPT ![r] = "touch"]
             \/ pc' = [pc EXCEPT ![r] = Handler[j]]
    BY <1>1 DEF Authenticate, Goto
  <2>2. Handler[j] \in Unfocused
    BY DEF Handler, UserJobs, Unfocused
  <2>3. pc'[r] \in Answers \cup Unfocused /\ Aside(r)
    BY <1>1, <2>1, <2>2
       DEF Authenticate, FileUnchanged, TypeOK, Aside, Answers, Unfocused
  <2> QED
    BY <1>1, <2>3, AnswerStep DEF Authenticate, FileUnchanged, Unfocused
<1>2. CASE AdminUserFind(r)
  <2>1. pc'[r] \in Answers \cup Unfocused /\ Aside(r)
    BY <1>2 DEF AdminUserFind, Goto, FileUnchanged, TypeOK, Aside, Answers, Unfocused
  <2> QED
    BY <1>2, <2>1, AnswerStep DEF AdminUserFind, FileUnchanged, Unfocused
<1>3. CASE AdminFileGet(r)
  <2>1. PICK x \in Files :
          /\ file[x].state # "absent"
          /\ LoadFile(r, x)
          /\ target' = [target EXCEPT ![r] = x]
          /\ Goto(r, IF file[x].state = "deleted" THEN "ok" ELSE "save")
    BY <1>3 DEF AdminFileGet
  <2>2. job' = [job EXCEPT ![r] = "admin_delete"] /\ pc[r] = "idle"
    BY <1>3 DEF AdminFileGet
  <2>3. /\ Aside(r) /\ target'[r] = x /\ job'[r] = "admin_delete"
        /\ pc'[r] \in {"ok", "save"}
    BY <2>1, <2>2 DEF Goto, TypeOK, Aside
  <2>4. target[r] = None
    BY <2>2 DEF FInv, Targets, Unfocused
  <2>5. Stops(r) /\ pc'[r] \in Focused \cup Answers
    BY <2>3 DEF Stops, BeforeStart, AfterStart, Focused, Labels, Answers, Unfocused
  <2> QED
    BY <1>3, <2>1, <2>3, <2>4, <2>5, LoadStep DEF AdminFileGet
<1> QED
  BY <1>1, <1>2, <1>3 DEF Arrive

\* What a request knows that is about to run or save a parse.
LEMMA ParserAlone ==
    ASSUME TypeOK, FInv, NEW r \in Requests, Parsing(r)
    PROVE  /\ target[r] \in Files
           /\ \A q \in Requests \ {r} : Parsing(q) => target[q] # target[r]
  BY DEF FInv, Targets, OneParser, Parsing, Focused, Labels, Answers, Unfocused

\* A save of the parse by its parser.
LEMMA ParseSaveStep ==
    ASSUME TypeOK, TypeOK', FInv, NEW r \in Requests, Parsing(r),
           NEW doc \in FileDoc, doc.state = fileCopy[r].state,
           NEW saved, NEW raised,
           Saved(r, doc, saved, raised), ParseUnchanged,
           saved \in (Focused \cup Answers) \ {"save", "count_down", "count_up"},
           saved \in {"parse_get", "parse_start"} => doc.parse = "pending",
           saved \in {"parse_text", "parse_llm", "parse_fail"} =>
               doc.parse = "processing",
           raised \in Answers \/ (raised = "parse_fail" /\ AfterStart(r))
    PROVE  FInv'
<1>0. /\ target[r] \in Files
      /\ \A q \in Requests \ {r} : Parsing(q) => target[q] # target[r]
  BY ParserAlone
<1>1. Aside(r)
  BY DEF Saved
<1>2. CASE Wrote(r, target[r], doc) /\ pc'[r] = saved
  <2>1. doc.state = file[target[r]].state
    BY <1>2 DEF Wrote
  <2>2. BeforeStart(r)' => doc.parse = "pending"
    BY <1>2 DEF BeforeStart
  <2>3. AfterStart(r)' => doc.parse = "processing"
    BY <1>2 DEF AfterStart
  <2>4. pc'[r] \in Focused \cup Answers /\ NotSaving(r) /\ pc'[r] # "count_down"
    BY <1>2 DEF NotSaving
  <2> QED
    BY <1>0, <1>1, <1>2, <2>1, <2>2, <2>3, <2>4, WriteStep DEF ParseUnchanged
<1>3. CASE UNCHANGED fileVars /\ pc'[r] = raised
  <2>1. CASE raised \in Answers
    BY <1>1, <1>3, <2>1, AnswerStep DEF ParseUnchanged
  <2>2. CASE raised = "parse_fail" /\ AfterStart(r)
    <3>1. Aimed(r) /\ NotSaving(r)
      BY <1>0, <1>3, <2>2 DEF ParseUnchanged, FInv, Targets, Aimed, NotSaving,
         Unfocused, Answers, fileVars
    <3>2. NoNewParser(r)
      BY <1>3, <2>2 DEF ParseUnchanged, NoNewParser, BeforeStart, AfterStart
    <3>3. OnlyCounts(r) /\ NoNewDeleter(r)
      BY <1>3, <2>2 DEF ParseUnchanged, OnlyCounts, NoNewDeleter, Deleted
    <3> QED
      BY <1>1, <1>3, <3>1, <3>2, <3>3, QuietStep DEF ParseUnchanged
  <2> QED
    BY <2>1, <2>2
<1> QED
  BY <1>2, <1>3 DEF Saved

\* The fields of the copies that handlers save.
LEMMA CopyFields ==
    ASSUME TypeOK, NEW r \in Requests
    PROVE  /\ \A s \in ParseStatus :
                  /\ [fileCopy[r] EXCEPT !.parse = s].parse = s
                  /\ [fileCopy[r] EXCEPT !.parse = s].state = fileCopy[r].state
           /\ [fileCopy[r] EXCEPT !.state = "deleted"].state = "deleted"
           /\ [fileCopy[r] EXCEPT !.state = "deleted"].parse = fileCopy[r].parse
  BY DEF TypeOK, FileDoc

LEMMA InvParse ==
    ASSUME TypeOK, TypeOK', FInv, NEW r \in Requests,
           ParseStart(r) \/ ParseText(r) \/ ParseDone(r) \/ ParseFail(r)
    PROVE  FInv'
<1>0. Parsing(r) /\ target[r] \in Files
  BY ParserAlone DEF ParseStart, ParseText, ParseDone, ParseFail, Parsing
<1>1. CASE ParseStart(r)
  <2> DEFINE doc == [fileCopy[r] EXCEPT !.parse = "processing"]
  <2>1. doc \in FileDoc /\ doc.parse = "processing" /\ doc.state = fileCopy[r].state
    BY CopyType, CopyFields DEF ParseStatus
  <2>2. SaveFile(r, target[r], doc, "parse_text", Raised(r)) /\ ParseUnchanged
    BY <1>1 DEF ParseStart
  <2> HIDE DEF doc
  <2>3. Saved(r, doc, "parse_text", Raised(r))
    BY <1>0, <2>2, SaveEffect DEF ParseUnchanged
  <2>4. Raised(r) \in Answers
    BY DEF Raised, Answers
  <2>5. "parse_text" \in (Focused \cup Answers) \ {"save", "count_down", "count_up"}
    BY DEF Focused, Labels, Answers, Unfocused
  <2> QED
    BY <1>0, <2>1, <2>2, <2>3, <2>4, <2>5, ParseSaveStep
<1>2. CASE ParseText(r)
  <2> DEFINE doc == fileCopy[r]
  <2>0. pc[r] = "parse_text" /\ AfterStart(r)
    BY <1>2 DEF ParseText, AfterStart
  <2>1. doc \in FileDoc
    BY CopyType
  <2>2. SaveFile(r, target[r], doc, "parse_llm", "parse_fail") /\ ParseUnchanged
    BY <1>2 DEF ParseText
  <2>3. Saved(r, doc, "parse_llm", "parse_fail")
    BY <1>0, <2>2, SaveEffect DEF ParseUnchanged
  <2>4. CASE Wrote(r, target[r], doc)
    <3>1. doc.parse = "processing"
      BY <2>0, <2>4 DEF FInv, ParserStatus, Wrote
    <3>2. "parse_llm" \in (Focused \cup Answers) \ {"save", "count_down", "count_up"}
      BY DEF Focused, Labels, Answers, Unfocused
    <3> QED
      BY <1>0, <2>0, <2>1, <2>2, <2>3, <3>1, <3>2, ParseSaveStep
  <2>5. CASE UNCHANGED fileVars /\ pc'[r] = "parse_fail"
    <3>1. Aside(r) /\ UNCHANGED <<fileVars, counted, job, target>>
      BY <2>2, <2>3, <2>5 DEF Saved, ParseUnchanged
    <3>2. Aimed(r) /\ NotSaving(r)
      BY <1>0, <2>5, <3>1 DEF FInv, Targets, Aimed, NotSaving, Unfocused, fileVars
    <3>3. NoNewParser(r) /\ OnlyCounts(r) /\ NoNewDeleter(r)
      BY <2>0, <2>5, <3>1
         DEF NoNewParser, BeforeStart, AfterStart, OnlyCounts, NoNewDeleter, Deleted
    <3> QED
      BY <3>1, <3>2, <3>3, QuietStep
  <2> QED
    BY <2>3, <2>4, <2>5 DEF Saved
<1>3. CASE ParseDone(r)
  <2> DEFINE doc == [fileCopy[r] EXCEPT !.parse = "completed"]
             next == IF job[r] = "upload" THEN "ok" ELSE "reparse_get"
  <2>0. AfterStart(r)
    BY <1>3 DEF ParseDone, AfterStart
  <2>1. doc \in FileDoc /\ doc.state = fileCopy[r].state
    BY CopyType, CopyFields DEF ParseStatus
  <2>2. SaveFile(r, target[r], doc, next, "parse_fail") /\ ParseUnchanged
    BY <1>3 DEF ParseDone
  <2>3. next \in {"ok", "reparse_get"}
    OBVIOUS
  <2> HIDE DEF doc, next
  <2>4. Saved(r, doc, next, "parse_fail")
    BY <1>0, <2>2, SaveEffect DEF ParseUnchanged
  <2>5. next \in (Focused \cup Answers) \ {"save", "count_down", "count_up"}
    BY <2>3 DEF Focused, Labels, Answers, Unfocused
  <2> QED
    BY <1>0, <2>0, <2>1, <2>2, <2>3, <2>4, <2>5, ParseSaveStep
<1>4. CASE ParseFail(r)
  <2> DEFINE doc == [fileCopy[r] EXCEPT !.parse = "failed"]
  <2>1. doc \in FileDoc /\ doc.state = fileCopy[r].state
    BY CopyType, CopyFields DEF ParseStatus
  <2>2. SaveFile(r, target[r], doc, Raised(r), Raised(r)) /\ ParseUnchanged
    BY <1>4 DEF ParseFail
  <2>3. Raised(r) \in {"ok", "error"}
    BY DEF Raised
  <2> HIDE DEF doc
  <2>4. Saved(r, doc, Raised(r), Raised(r))
    BY <1>0, <2>2, SaveEffect DEF ParseUnchanged
  <2>5. Raised(r) \in (Focused \cup Answers) \ {"save", "count_down", "count_up"}
    BY <2>3 DEF Answers
  <2>6. Raised(r) \in Answers
    BY <2>3 DEF Answers
  <2> QED
    BY <1>0, <2>1, <2>2, <2>3, <2>4, <2>5, <2>6, ParseSaveStep
<1> QED
  BY <1>1, <1>2, <1>3, <1>4

\* A save by a request that has found its resume and does not parse it.
LEMMA EditStep ==
    ASSUME TypeOK, TypeOK', FInv, NEW r \in Requests, target[r] \in Files,
           NEW doc \in FileDoc, NEW saved, NEW raised \in Answers,
           Saved(r, doc, saved, raised), ParseUnchanged,
           saved \in Answers \cup {"count_down"},
           doc.parse = fileCopy[r].parse,
           \/ doc.state = fileCopy[r].state /\ saved # "count_down"
           \/ /\ doc.state = "deleted"
              /\ saved = "count_down" =>
                     pc[r] = "save" /\ job[r] = "delete"
    PROVE  FInv'
<1>1. UNCHANGED <<counted, job, target>> /\ Aside(r)
  BY DEF ParseUnchanged, Saved
<1>2. CASE Wrote(r, target[r], doc) /\ pc'[r] = saved
  <2>1. pc'[r] \in Focused \cup Answers /\ NotSaving(r) /\ Stops(r)
    BY <1>2 DEF NotSaving, Stops, BeforeStart, AfterStart, Focused, Labels, Answers,
                Unfocused
  <2>2. /\ doc.parse = file[target[r]].parse
        /\ doc.state = fileCopy[r].state => doc.state = file[target[r]].state
        /\ r \in fileHolders[target[r]]
    BY <1>2 DEF Wrote
  <2>3. pc[r] = "save" /\ job[r] = "delete" => file[target[r]].state = "live"
    BY <2>2 DEF FInv, DeleterStatus
  <2>4. \/ doc.state = file[target[r]].state /\ pc'[r] # "count_down"
        \/ /\ doc.state = "deleted"
           /\ pc'[r] = "count_down" => file[target[r]].state = "live"
    BY <1>2, <2>2, <2>3
  <2> QED
    BY <1>1, <1>2, <2>1, <2>2, <2>4, WriteStep
<1>3. CASE UNCHANGED fileVars /\ pc'[r] = raised
  BY <1>1, <1>3, AnswerStep
<1> QED
  BY <1>2, <1>3 DEF Saved

LEMMA InvEdit ==
    ASSUME TypeOK, TypeOK', FInv, NEW r \in Requests,
           UpdateSave(r) \/ DeleteSave(r) \/ AdminFileSave(r)
    PROVE  FInv'
<1>0. target[r] \in Files /\ pc[r] = "save" /\ ParseUnchanged
  BY DEF UpdateSave, DeleteSave, AdminFileSave, FInv, Targets, Focused, Labels,
         Answers, Unfocused
<1>1. CASE UpdateSave(r)
  <2>1. CASE SaveFile(r, target[r], fileCopy[r], "ok", "error")
    <3>1. Saved(r, fileCopy[r], "ok", "error")
      BY <1>0, <2>1, SaveEffect DEF ParseUnchanged
    <3>2. fileCopy[r] \in FileDoc /\ {"ok", "error"} \subseteq Answers
      BY CopyType DEF Answers
    <3> QED
      BY <1>0, <3>1, <3>2, EditStep
  <2>2. CASE Goto(r, "refused") /\ UNCHANGED fileVars
    <3>1. pc'[r] \in Answers /\ Aside(r)
      BY <1>0, <2>2 DEF Goto, TypeOK, ParseUnchanged, Aside, Answers
    <3> QED
      BY <1>0, <2>2, <3>1, AnswerStep DEF ParseUnchanged
  <2> QED
    BY <1>1, <2>1, <2>2 DEF UpdateSave
<1>2. CASE DeleteSave(r) \/ AdminFileSave(r)
  <2> DEFINE doc == [fileCopy[r] EXCEPT !.state = "deleted"]
  <2>1. doc \in FileDoc /\ doc.state = "deleted" /\ doc.parse = fileCopy[r].parse
    BY CopyType, CopyFields
  <2>2. \/ /\ SaveFile(r, target[r], doc, "count_down", "error")
           /\ job[r] = "delete"
        \/ SaveFile(r, target[r], doc, "ok", "error")
    BY <1>2 DEF DeleteSave, AdminFileSave
  <2> HIDE DEF doc
  <2>3. {"ok", "error"} \subseteq Answers /\ "ok" # "count_down"
    BY DEF Answers
  <2>4. CASE /\ SaveFile(r, target[r], doc, "count_down", "error")
             /\ job[r] = "delete"
    <3>1. Saved(r, doc, "count_down", "error")
      BY <1>0, <2>4, SaveEffect DEF ParseUnchanged
    <3> QED
      BY <1>0, <2>1, <2>3, <2>4, <3>1, EditStep
  <2>5. CASE SaveFile(r, target[r], doc, "ok", "error")
    <3>1. Saved(r, doc, "ok", "error")
      BY <1>0, <2>5, SaveEffect DEF ParseUnchanged
    <3> QED
      BY <1>0, <2>1, <2>3, <3>1, EditStep
  <2> QED
    BY <2>2, <2>4, <2>5
<1> QED
  BY <1>1, <1>2

\* A re-parse that saves has found a failed parse, which nobody runs.
LEMMA InvReparse ==
    ASSUME TypeOK, TypeOK', FInv, NEW r \in Requests, ReparseSave(r)
    PROVE  FInv'
<1> DEFINE doc == [fileCopy[r] EXCEPT !.parse = "pending"]
<1>0. target[r] \in Files /\ pc[r] = "save" /\ job[r] = "reparse" /\ ParseUnchanged
  BY DEF ReparseSave, FInv, Targets, Focused, Labels, Answers, Unfocused
<1>1. doc \in FileDoc /\ doc.parse = "pending" /\ doc.state = fileCopy[r].state
  BY CopyType, CopyFields DEF ParseStatus
<1>2. SaveFile(r, target[r], doc, "parse_get", "error")
  BY DEF ReparseSave
<1> HIDE DEF doc
<1>3. Saved(r, doc, "parse_get", "error")
  BY <1>0, <1>2, SaveEffect DEF ParseUnchanged
<1>4. UNCHANGED <<counted, job, target>> /\ Aside(r)
  BY <1>0, <1>3 DEF ParseUnchanged, Saved
<1>5. CASE Wrote(r, target[r], doc) /\ pc'[r] = "parse_get"
  <2>1. file[target[r]].parse = "failed" /\ doc.state = file[target[r]].state
    BY <1>0, <1>1, <1>5 DEF FInv, ReparserStatus, Wrote
  <2>2. \A q \in Requests \ {r} : Parsing(q) => target[q] # target[r]
    BY <2>1, ParsingIs DEF FInv, ParserStatus
  <2>3. /\ pc'[r] \in Focused \cup Answers /\ NotSaving(r)
        /\ pc'[r] # "count_down" /\ ~AfterStart(r)'
    BY <1>5 DEF NotSaving, AfterStart, Focused, Labels, Answers, Unfocused
  <2> QED
    BY <1>0, <1>1, <1>4, <1>5, <2>1, <2>2, <2>3, WriteStep
<1>6. CASE UNCHANGED fileVars /\ pc'[r] = "error"
  <2>1. pc'[r] \in Answers
    BY <1>6 DEF Answers
  <2> QED
    BY <1>4, <1>6, <2>1, AnswerStep
<1> QED
  BY <1>3, <1>5, <1>6 DEF Saved

\* The steps on the user, which are about no resume.
LEMMA InvUser ==
    ASSUME TypeOK, TypeOK', JobAt, FInv, NEW r \in Requests,
           Touch(r) \/ UserUnsaved(r) \/ UserSave(r)
    PROVE  FInv'
<1>1. UNCHANGED <<fileVars, target, counted, job>>
  BY DEF Touch, UserUnsaved, UserSave, FileUnchanged
<1>2. CASE Touch(r)
  <2>1. job[r] \in UserJobs /\ pc[r] = "touch"
    BY <1>2 DEF Touch, JobAt
  <2>2. Handler[job[r]] \in Unfocused
    BY <2>1 DEF Handler, UserJobs, Unfocused
  <2>3. Goto(r, Handler[job[r]]) \/ Goto(r, "error")
    BY <1>2 DEF Touch, SaveUser
  <2>4. Aside(r) /\ (pc'[r] \in Unfocused \/ pc'[r] \in Answers)
    BY <1>1, <2>2, <2>3 DEF Goto, TypeOK, Aside, Answers
  <2> QED
    BY <1>1, <2>1, <2>4, AnswerStep DEF Unfocused
<1>3. CASE UserUnsaved(r) \/ UserSave(r)
  <2>1. Goto(r, "ok") \/ Goto(r, "refused") \/ Goto(r, "error")
    BY <1>3 DEF UserUnsaved, UserSave, SaveUser
  <2>2. Aside(r) /\ pc'[r] \in Answers
    BY <1>1, <2>1 DEF Goto, TypeOK, Aside, Answers
  <2> QED
    BY <1>1, <2>2, AnswerStep
<1> QED
  BY <1>2, <1>3

\* An insert makes a resume that nobody was about.
LEMMA InvInsert ==
    ASSUME TypeOK, TypeOK', JobAt, FInv, NEW r \in Requests, Insert(r)
    PROVE  FInv'
<1>0. /\ pc[r] = "insert" /\ target[r] = None /\ job[r] \in {"create", "upload"}
      /\ UNCHANGED <<counted, job>>
  BY DEF Insert, FInv, Targets, Unfocused, JobAt
<1>1. PICK x \in Files :
        /\ file[x].state = "absent"
        /\ \/ /\ StoreFile(r, x, [state |-> "live", parse |-> Born[job[r]]])
              /\ target' = [target EXCEPT ![r] = x]
              /\ Goto(r, "count_up")
           \/ /\ Goto(r, "refused") \/ Goto(r, "error")
              /\ FileUnchanged
  BY DEF Insert
<1>2. CASE /\ Goto(r, "refused") \/ Goto(r, "error")
           /\ FileUnchanged
  <2>1. Aside(r) /\ pc'[r] \in Answers
    BY <1>0, <1>2 DEF Goto, FileUnchanged, TypeOK, Aside, Answers
  <2> QED
    BY <1>0, <1>2, <2>1, AnswerStep DEF FileUnchanged
<1>3. CASE /\ StoreFile(r, x, [state |-> "live", parse |-> Born[job[r]]])
           /\ target' = [target EXCEPT ![r] = x]
           /\ Goto(r, "count_up")
  <2> DEFINE doc == [state |-> "live", parse |-> Born[job[r]]]
  <2>1. doc.state = "live" /\ (job[r] = "upload" => doc.parse = "pending")
    BY <1>0 DEF Born
  <2>2. StoreFile(r, x, doc)
    BY <1>3
  <2> HIDE DEF doc
  <2>3. Aside(r) /\ pc'[r] = "count_up" /\ target'[r] = x
    BY <1>0, <1>3 DEF Goto, TypeOK, Aside
  <2>4. Changes(r, x) /\ file'[x] = doc
    BY <2>2, <2>3 DEF StoreFile, TypeOK, Changes
  <2>5. \A q \in Requests : target[q] # x
    BY <1>1 DEF FInv, Targets
  <2>6. FileCopies' /\ AbsentIsUnparsed'
    BY <1>0, <1>1, <1>3, <2>1, <2>2, CopiesInserted
  <2>7. Aimed(r) /\ NotSaving(r)
    BY <2>1, <2>3, <2>4 DEF Aimed, NotSaving, Unfocused
  <2>8. Targets'
    BY <2>1, <2>3, <2>4, <2>7, TargetsStep DEF Changes
  <2>9. ParserStatus' /\ ReparserStatus' /\ OneParser'
    <3>1. BeforeStart(r)' => file'[x].parse = "pending"
      BY <1>0, <2>1, <2>3, <2>4 DEF BeforeStart
    <3>2. ~AfterStart(r)'
      BY <2>3 DEF AfterStart
    <3> QED
      BY <2>3, <2>4, <2>5, <2>7, <2>8, <3>1, <3>2, ParseChangeStep
  <2>10. OnlyCounts(r)
    BY <1>0 DEF OnlyCounts
  <2>11. \A y \in Files : Deleted(r, y)' => Deleted(r, y)
    BY <1>0, <2>3 DEF Deleted
  <2>12. DeleterStatus' /\ OneDeleter'
    BY <1>1, <2>3, <2>4, <2>7, <2>8, <2>10, <2>11, StateChangeStep
  <2> QED
    BY <2>6, <2>8, <2>9, <2>12 DEF FInv
<1> QED
  BY <1>1, <1>2, <1>3

\* The $inc of the owner's counter, after an insert or a deletion.
LEMMA InvCount ==
    ASSUME TypeOK, TypeOK', JobAt, FInv, NEW r \in Requests,
           CountUp(r) \/ CountDown(r)
    PROVE  FInv'
<1>1. /\ UNCHANGED <<fileVars, target, job>>
      /\ pc[r] \in {"count_up", "count_down"} /\ target[r] \in Files
  BY DEF CountUp, CountDown, FileUnchanged, FInv, Targets, Focused, Labels,
         Answers, Unfocused
<1>2. CASE CountUp(r)
  <2>1. /\ pc[r] = "count_up" /\ counted' = counted \cup {<<r, target[r], 1>>}
        /\ Goto(r, IF job[r] = "create" THEN "ok" ELSE "parse_get")
    BY <1>2 DEF CountUp, IncResumeCount
  <2>2. Aside(r) /\ pc'[r] = IF job[r] = "create" THEN "ok" ELSE "parse_get"
    BY <1>1, <2>1 DEF Goto, TypeOK, Aside
  <2>3. Aimed(r) /\ NotSaving(r)
    BY <1>1, <2>2 DEF Aimed, NotSaving, Unfocused, FInv, Targets, fileVars
  <2>4. NoNewParser(r)
    BY <1>1, <2>1, <2>2 DEF NoNewParser, BeforeStart, AfterStart, JobAt
  <2>5. \A q \in Requests : \A y \in Files :
            <<q, y, -1>> \in counted' <=> <<q, y, -1>> \in counted
    BY <2>1
  <2>6. OnlyCounts(r) /\ NoNewDeleter(r)
    BY <2>2, <2>5 DEF OnlyCounts, NoNewDeleter, Deleted
  <2> QED
    BY <1>1, <2>2, <2>3, <2>4, <2>6, QuietStep
<1>3. CASE CountDown(r)
  <2>1. /\ pc[r] = "count_down" /\ counted' = counted \cup {<<r, target[r], -1>>}
        /\ Goto(r, "ok")
    BY <1>3 DEF CountDown, IncResumeCount
  <2>2. Aside(r) /\ pc'[r] = "ok"
    BY <1>1, <2>1 DEF Goto, TypeOK, Aside
  <2>3. Aimed(r) /\ NotSaving(r) /\ Stops(r)
    BY <1>1, <2>2 DEF Aimed, NotSaving, Unfocused, FInv, Targets, fileVars, Focused,
                      Answers, Stops, BeforeStart, AfterStart
  <2>4. \A q \in Requests : \A y \in Files :
            <<q, y, -1>> \in counted' <=>
                \/ <<q, y, -1>> \in counted
                \/ q = r /\ y = target[r]
    BY <2>1
  <2>5. OnlyCounts(r)
    BY <2>4 DEF OnlyCounts
  <2>6. NoNewDeleter(r)
    BY <2>1, <2>2, <2>4 DEF NoNewDeleter, Deleted
  <2> QED
    BY <1>1, <2>2, <2>3, <2>5, <2>6, QuietStep
<1> QED
  BY <1>2, <1>3

\* The loads, and the failure that is yet to be saved.
LEMMA InvRead ==
    ASSUME TypeOK, TypeOK', FInv, NEW r \in Requests,
           ParseGet(r) \/ ParseError(r) \/ Find(r) \/ ReparseGet(r)
    PROVE  FInv'
<1>1. CASE ParseGet(r)
  <2>1. /\ pc[r] = "parse_get" /\ LoadFile(r, target[r])
        /\ UNCHANGED <<counted, job, target>> /\ Goto(r, "parse_start")
    BY <1>1 DEF ParseGet, ParseUnchanged
  <2>2. target[r] \in Files /\ file[target[r]].state # "absent"
    BY <2>1 DEF FInv, Targets, Focused, Labels, Answers, Unfocused
  <2>3. Aside(r) /\ pc'[r] = "parse_start"
    BY <2>1 DEF Goto, TypeOK, Aside
  <2>4. NoNewParser(r) /\ pc'[r] \in Focused \cup Answers
    BY <2>1, <2>3 DEF NoNewParser, BeforeStart, AfterStart, Focused, Labels, Answers,
                      Unfocused
  <2> QED
    BY <2>1, <2>2, <2>3, <2>4, LoadStep
<1>2. CASE ParseError(r)
  <2>1. /\ pc[r] \in {"parse_text", "parse_llm"} /\ Goto(r, "parse_fail")
        /\ UNCHANGED <<fileVars, counted, job, target>>
    BY <1>2 DEF ParseError, ParseUnchanged
  <2>2. target[r] \in Files
    BY <2>1 DEF FInv, Targets, Focused, Labels, Answers, Unfocused
  <2>3. Aside(r) /\ pc'[r] = "parse_fail"
    BY <2>1 DEF Goto, TypeOK, Aside
  <2>4. Aimed(r) /\ NotSaving(r)
    BY <2>1, <2>2, <2>3 DEF FInv, Targets, Aimed, NotSaving, Unfocused, fileVars
  <2>5. NoNewParser(r) /\ OnlyCounts(r) /\ NoNewDeleter(r)
    BY <2>1, <2>3
       DEF NoNewParser, BeforeStart, AfterStart, OnlyCounts, NoNewDeleter, Deleted
  <2> QED
    BY <2>1, <2>3, <2>4, <2>5, QuietStep
<1>3. CASE Find(r)
  <2>1. pc[r] = "find" /\ target[r] = None /\ UNCHANGED <<counted, job>>
    BY <1>3 DEF Find, FInv, Targets, Unfocused
  <2>2. PICK x \in Files :
          /\ file[x].state # "absent"
          /\ \/ /\ file[x].state = "live"
                /\ job[r] = "reparse" => CanReparse(x)
                /\ LoadFile(r, x)
                /\ target' = [target EXCEPT ![r] = x]
                /\ Goto(r, "save")
             \/ /\ Goto(r, "refused")
                /\ FileUnchanged
    BY <1>3 DEF Find
  <2>3. CASE Goto(r, "refused") /\ FileUnchanged
    <3>1. Aside(r) /\ pc'[r] \in Answers
      BY <2>1, <2>3 DEF Goto, FileUnchanged, TypeOK, Aside, Answers
    <3> QED
      BY <2>1, <2>3, <3>1, AnswerStep DEF FileUnchanged
  <2>4. CASE /\ file[x].state = "live"
             /\ job[r] = "reparse" => CanReparse(x)
             /\ LoadFile(r, x)
             /\ target' = [target EXCEPT ![r] = x]
             /\ Goto(r, "save")
    <3>1. Aside(r) /\ pc'[r] = "save" /\ target'[r] = x
      BY <2>1, <2>4 DEF Goto, TypeOK, Aside
    <3>2. Stops(r) /\ pc'[r] \in Focused \cup Answers
      BY <3>1 DEF Stops, BeforeStart, AfterStart, Focused, Labels, Answers, Unfocused
    <3>3. job'[r] = "reparse" => file[x].parse = "failed"
      BY <2>1, <2>4 DEF CanReparse
    <3> QED
      BY <2>1, <2>2, <2>4, <3>1, <3>2, <3>3, LoadStep
  <2> QED
    BY <2>2, <2>3, <2>4
<1>4. CASE ReparseGet(r)
  <2>1. UNCHANGED <<fileVars, target, counted, job>>
    BY <1>4 DEF ReparseGet, ParseUnchanged
  <2>2. Aside(r) /\ pc'[r] \in Answers
    BY <1>4, <2>1 DEF ReparseGet, Goto, TypeOK, Aside, Answers
  <2> QED
    BY <2>1, <2>2, AnswerStep
<1> QED
  BY <1>1, <1>2, <1>3, <1>4

LEMMA InvCrash ==
    ASSUME TypeOK, FInv, Crash
    PROVE  FInv'
<1>1. UNCHANGED <<fileVars, counted, job, target>>
  BY DEF Crash
<1>2. \A r \in Requests : pc'[r] = pc[r] \/ pc'[r] = "lost"
  BY DEF Crash, TypeOK
<1>3. "lost" \notin Focused /\ "lost" \notin Unfocused
  BY DEF Focused, Labels, Answers, Unfocused
<1>4. Targets' /\ FileCopies' /\ AbsentIsUnparsed'
  BY <1>1, <1>2, <1>3 DEF FInv, Targets, FileCopies, AbsentIsUnparsed, fileVars
<1>5. ParserStatus' /\ ReparserStatus' /\ OneParser'
  BY <1>1, <1>2 DEF FInv, ParserStatus, ReparserStatus, OneParser, BeforeStart,
                    AfterStart, Parsing, fileVars
<1>6. DeleterStatus' /\ OneDeleter'
  BY <1>1, <1>2 DEF FInv, DeleterStatus, OneDeleter, Deleted, fileVars
<1> QED
  BY <1>4, <1>5, <1>6 DEF FInv

LEMMA InvContinue ==
    ASSUME TypeOK, TypeOK', JobAt, FInv, NEW r \in Requests, Continue(r)
    PROVE  FInv'
  BY InvUser, InvInsert, InvCount, InvParse, InvRead, InvReparse, InvEdit
     DEF Continue

LEMMA InvStep ==
    ASSUME TypeOK, TypeOK', JobAt, FInv, [Next]_vars
    PROVE  FInv'
<1>1. ASSUME NEW r \in Requests, Arrive(r) PROVE FInv'
  BY <1>1, InvArrive
<1>2. ASSUME NEW r \in Requests, Continue(r) PROVE FInv'
  BY <1>2, InvContinue
<1>3. CASE Crash
  BY <1>3, InvCrash
<1>4. CASE UNCHANGED vars
  BY <1>4 DEF vars, fileVars, FInv, Targets, FileCopies, ParserStatus, ReparserStatus,
              DeleterStatus, OneParser, OneDeleter, AbsentIsUnparsed, BeforeStart,
              AfterStart, Parsing, Deleted
<1> QED
  BY <1>1, <1>2, <1>3, <1>4 DEF Next, Serve

---------------------------------------------------------------------------
(* What a request was asked to do, and the copies of the user *)

\* A step of r to a label that does not depend on its job.
LEMMA JobAtStep ==
    ASSUME TypeOK, JobAt, NEW r \in Requests, Aside(r),
           \/ pc'[r] \notin {"touch", "insert", "count_up"}
           \/ pc'[r] = "touch" /\ job'[r] \in UserJobs
           \/ pc'[r] \in {"insert", "count_up"} /\ job'[r] \in {"create", "upload"}
    PROVE  JobAt'
  BY DEF JobAt, Aside

LEMMA HandlerAt ==
    ASSUME NEW j \in UserJobs
    PROVE  /\ Handler[j] # "touch" /\ Handler[j] # "count_up"
           /\ Handler[j] = "insert" => j \in {"create", "upload"}
  BY DEF Handler, UserJobs

LEMMA JobAtArrive ==
    ASSUME TypeOK, JobAt, NEW r \in Requests, Arrive(r)
    PROVE  JobAt'
<1>1. CASE Authenticate(r)
  <2>1. PICK j \in UserJobs :
          /\ job' = [job EXCEPT ![r] = j]
          /\ \/ pc' = [pc EXCEPT ![r] = "error"]
             \/ pc' = [pc EXCEPT ![r] = "refused"]
             \/ pc' = [pc EXCEPT ![r] = "touch"]
             \/ pc' = [pc EXCEPT ![r] = Handler[j]]
    BY <1>1 DEF Authenticate, Goto
  <2>2. Aside(r)
    BY <1>1, <2>1 DEF Authenticate, FileUnchanged, TypeOK, Aside
  <2>3. /\ job'[r] = j
        /\ pc'[r] \in {"error", "refused", "touch"} \/ pc'[r] = Handler[j]
    BY <2>1 DEF TypeOK
  <2> QED
    BY <2>2, <2>3, HandlerAt, JobAtStep
<1>2. CASE AdminUserFind(r)
  <2>1. pc'[r] \in {"error", "user_save"} /\ Aside(r)
    BY <1>2 DEF AdminUserFind, Goto, FileUnchanged, TypeOK, Aside
  <2> QED
    BY <2>1, JobAtStep
<1>3. CASE AdminFileGet(r)
  <2>1. pc'[r] \in {"ok", "save"} /\ Aside(r)
    BY <1>3 DEF AdminFileGet, Goto, TypeOK, Aside
  <2> QED
    BY <2>1, JobAtStep
<1> QED
  BY <1>1, <1>2, <1>3 DEF Arrive

LEMMA JobAtContinue ==
    ASSUME TypeOK, JobAt, NEW r \in Requests, Continue(r)
    PROVE  JobAt'
<1>1. UNCHANGED job
  BY DEF Continue, Touch, UserUnsaved, UserSave, Insert, CountUp, ParseGet, ParseStart,
         ParseText, ParseDone, ParseError, ParseFail, Find, ReparseSave, ReparseGet,
         UpdateSave, DeleteSave, CountDown, AdminFileSave, ParseUnchanged
<1>2. CASE Touch(r)
  <2>1. job[r] \in UserJobs /\ UNCHANGED target
    BY <1>2 DEF Touch, JobAt, FileUnchanged
  <2>2. Goto(r, Handler[job[r]]) \/ Goto(r, "error")
    BY <1>2 DEF Touch, SaveUser
  <2>3. Aside(r) /\ (pc'[r] = Handler[job[r]] \/ pc'[r] = "error")
    BY <1>1, <2>1, <2>2 DEF Goto, TypeOK, Aside
  <2> QED
    BY <1>1, <2>1, <2>3, HandlerAt, JobAtStep
<1>3. CASE Insert(r)
  <2>1. /\ job[r] \in {"create", "upload"}
        /\ Goto(r, "count_up") \/ Goto(r, "refused") \/ Goto(r, "error")
        /\ \E x \in Files : target' = [target EXCEPT ![r] = x] \/ UNCHANGED target
    BY <1>3 DEF Insert, JobAt, FileUnchanged
  <2>2. Aside(r) /\ pc'[r] \in {"count_up", "refused", "error"}
    BY <1>1, <2>1 DEF Goto, TypeOK, Aside
  <2> QED
    BY <1>1, <2>1, <2>2, JobAtStep
<1>4. CASE ~Touch(r) /\ ~Insert(r)
  <2>1. \E label \in Labels \ {"touch", "insert", "count_up"} : Goto(r, label)
    BY <1>4 DEF Continue, UserUnsaved, UserSave, SaveUser, CountUp, ParseGet, ParseStart,
         ParseText, ParseDone, ParseError, ParseFail, Find, ReparseSave, ReparseGet,
         UpdateSave, DeleteSave, CountDown, AdminFileSave, SaveFile, Raised, Labels,
         Answers
  <2>2. \/ UNCHANGED target
        \/ Find(r) /\ \E x \in Files : target' = [target EXCEPT ![r] = x]
    BY <1>4 DEF Continue, UserUnsaved, UserSave, CountUp, ParseGet, ParseStart,
         ParseText, ParseDone, ParseError, ParseFail, Find, ReparseSave, ReparseGet,
         UpdateSave, DeleteSave, CountDown, AdminFileSave, ParseUnchanged, FileUnchanged
  <2>3. Aside(r) /\ pc'[r] \notin {"touch", "insert", "count_up"}
    BY <1>1, <2>1, <2>2 DEF Goto, TypeOK, Aside
  <2> QED
    BY <2>3, JobAtStep
<1> QED
  BY <1>2, <1>3, <1>4

\* What a step may do to the user: nothing, a load, a $inc or a save of a
\* current copy, which changes the status only at the request of an admin.
UserEffect(r) ==
    \/ UNCHANGED userVars
    \/ LoadUser(r)
    \/ user'.active = user.active /\ UNCHANGED <<userHolders, userCopy>>
    \/ \E doc \in UserDoc :
           /\ r \in userHolders
           /\ StoreUser(r, doc)
           /\ \/ doc.active = userCopy[r].active
              \/ pc[r] = "user_save" /\ job[r] = "reactivate"
              \/ ~doc.active

LEMMA UserEffectArrive ==
    ASSUME NEW r \in Requests, Arrive(r)
    PROVE  UserEffect(r)
  BY DEF Arrive, Authenticate, AdminUserFind, AdminFileGet, UserEffect, userVars

LEMMA UserEffectContinue ==
    ASSUME TypeOK, NEW r \in Requests, Continue(r)
    PROVE  UserEffect(r)
<1>1. CASE Touch(r)
  BY <1>1 DEF Touch, SaveUser, UserEffect, TypeOK
<1>2. CASE UserSave(r)
  <2> DEFINE doc == Edited(userCopy[r], job[r])
  <2>1. doc \in UserDoc
    BY DEF Edited, TypeOK, UserDoc
  <2>2. \/ doc.active = userCopy[r].active
        \/ job[r] = "reactivate"
        \/ ~doc.active
    BY DEF Edited, TypeOK, UserDoc
  <2>3. \/ r \in userHolders /\ StoreUser(r, doc)
        \/ UNCHANGED userVars
    BY <1>2 DEF UserSave, SaveUser
  <2>4. pc[r] = "user_save"
    BY <1>2 DEF UserSave
  <2> HIDE DEF doc
  <2> QED
    BY <2>1, <2>2, <2>3, <2>4 DEF UserEffect
<1>3. CASE CountUp(r) \/ CountDown(r)
  <2>1. user'.active = user.active
    BY <1>3 DEF CountUp, CountDown, IncResumeCount, TypeOK, UserDoc
  <2> QED
    BY <1>3, <2>1 DEF CountUp, CountDown, IncResumeCount, UserEffect
<1>4. CASE ~Touch(r) /\ ~UserSave(r) /\ ~CountUp(r) /\ ~CountDown(r)
  <2>1. UNCHANGED userVars
    BY <1>4 DEF Continue, UserUnsaved, Insert, ParseGet, ParseStart, ParseText,
         ParseDone, ParseError, ParseFail, Find, ReparseSave, ReparseGet, UpdateSave,
         DeleteSave, AdminFileSave, ParseUnchanged
  <2> QED
    BY <2>1 DEF UserEffect
<1> QED
  BY <1>1, <1>2, <1>3, <1>4

LEMMA UserCopiesStep ==
    ASSUME TypeOK, UserCopies, [Next]_vars
    PROVE  /\ UserCopies'
           /\ ~user.active /\ user'.active =>
                  \E r \in Requests : pc[r] = "user_save" /\ job[r] = "reactivate"
<1>1. ASSUME NEW r \in Requests, UserEffect(r)
      PROVE  /\ UserCopies'
             /\ ~user.active /\ user'.active =>
                    pc[r] = "user_save" /\ job[r] = "reactivate"
  <2>1. CASE UNCHANGED userVars
    BY <2>1 DEF UserCopies, userVars
  <2>2. CASE LoadUser(r)
    BY <2>2 DEF UserCopies, LoadUser, TypeOK
  <2>3. CASE user'.active = user.active /\ UNCHANGED <<userHolders, userCopy>>
    BY <2>3 DEF UserCopies
  <2>4. ASSUME NEW doc \in UserDoc, r \in userHolders, StoreUser(r, doc),
               \/ doc.active = userCopy[r].active
               \/ pc[r] = "user_save" /\ job[r] = "reactivate"
               \/ ~doc.active
        PROVE  /\ UserCopies'
               /\ ~user.active /\ user'.active =>
                      pc[r] = "user_save" /\ job[r] = "reactivate"
    BY <2>4 DEF UserCopies, StoreUser, TypeOK
  <2> QED
    BY <1>1, <2>1, <2>2, <2>3, <2>4 DEF UserEffect
<1>2. CASE Crash \/ UNCHANGED vars
  BY <1>2 DEF Crash, vars, userVars, UserCopies
<1> QED
  BY <1>1, <1>2, UserEffectArrive, UserEffectContinue DEF Next, Serve

---------------------------------------------------------------------------
(* Theorems *)

LEMMA InvInit == Init => JobAt /\ UserCopies /\ FInv
  BY DEF Init, AccountInit, JobAt, UserCopies, FInv, Targets, FileCopies, ParserStatus,
         ReparserStatus, DeleterStatus, OneParser, OneDeleter, AbsentIsUnparsed,
         BeforeStart, AfterStart, Parsing, Deleted, Focused, Unfocused, Labels, Answers,
         NoFile

LEMMA JobAtNext ==
    ASSUME TypeOK, JobAt, [Next]_vars
    PROVE  JobAt'
<1>1. CASE Crash
  BY <1>1 DEF Crash, JobAt, TypeOK
<1>2. CASE UNCHANGED vars
  BY <1>2 DEF vars, JobAt
<1> QED
  BY <1>1, <1>2, JobAtArrive, JobAtContinue DEF Next, Serve

LEMMA IInvStep == IInv /\ [Next]_vars => IInv'
<1> SUFFICES ASSUME IInv, [Next]_vars PROVE IInv'
  OBVIOUS
<1>1. TypeOK /\ JobAt /\ UserCopies /\ FInv /\ Targets
  BY DEF IInv, FInv
<1>2. TypeOK'
  BY <1>1, TypeStep
<1>3. JobAt'
  BY <1>1, JobAtNext
<1>4. UserCopies'
  BY <1>1, UserCopiesStep
<1>5. FInv'
  BY <1>1, <1>2, InvStep
<1> QED
  BY <1>2, <1>3, <1>4, <1>5 DEF IInv

\* The inductive invariant holds in every reachable state.
THEOREM AccountsInvariance == Spec => []IInv
<1>1. Init => IInv
  BY TypeInit, InvInit DEF IInv
<1> QED
  BY <1>1, IInvStep, PTL DEF Spec

\* The documents, the copies and the positions of the requests keep their
\* types.
THEOREM AccountsTypeCorrect == Spec => []TypeOK
<1>1. IInv => TypeOK
  BY DEF IInv
<1> QED
  BY <1>1, AccountsInvariance, PTL

\* However many requests upload, re-parse, edit and delete the same resume,
\* at most one of them is running its parse (a paid LLM call).
THEOREM OneParserCorrect == Spec => []OneParser
<1>1. IInv => OneParser
  BY DEF IInv, FInv
<1> QED
  BY <1>1, AccountsInvariance, PTL

\* The owner's counter is decremented at most once for each resume, and only
\* for a deleted one, however many requests delete it at once.
THEOREM DeletedOnceCorrect == Spec => []DeletedOnce
<1>1. ASSUME OneDeleter PROVE DeletedOnce
  <2> SUFFICES ASSUME NEW x \in Files
               PROVE  LET down == {r \in Requests : <<r, x, -1>> \in counted}
                      IN  Cardinality(down) <= 1
                          /\ (down # {} => file[x].state = "deleted")
    BY DEF DeletedOnce
  <2> DEFINE down == {r \in Requests : <<r, x, -1>> \in counted}
  <2>1. \A r \in down : file[x].state = "deleted" /\ \A q \in down : q = r
    BY <1>1 DEF OneDeleter, Deleted
  <2> HIDE DEF down
  <2>2. Cardinality(down) <= 1
    <3>1. Cardinality({}) = 0 /\ \A r \in down : Cardinality({r}) = 1
      BY FS_EmptySet, FS_Singleton
    <3>2. down = {} \/ \E r \in down : down = {r}
      BY <2>1
    <3> QED
      BY <3>1, <3>2
  <2>3. down # {} => file[x].state = "deleted"
    BY <2>1
  <2> USE DEF down
  <2> QED
    BY <2>2, <2>3
<1>2. IInv => OneDeleter
  BY DEF IInv, FInv
<1> QED
  BY <1>1, <1>2, AccountsInvariance, PTL

\* No handler that loaded the user before a deactivation undoes it: only a
\* reactivation makes an account active again.
THEOREM DeactivationSticksCorrect == Spec => DeactivationSticks
<1>1. IInv /\ [Next]_vars =>
        [~user.active /\ user'.active =>
           \E r \in Requests : pc[r] = "user_save" /\ job[r] = "reactivate"]_vars
  BY UserCopiesStep DEF IInv
<1> QED
  BY <1>1, AccountsInvariance, PTL DEF Spec, DeactivationSticks

---------------------------------------------------------------------------
(* The parse of every upload implements UploadParse *)

\* The moves of UploadParse.
LegalMove(from, to) ==
    \/ from = "none" /\ to = "pending"
    \/ from = "pending" /\ to = "processing"
    \/ from = "processing" /\ to \in {"completed", "failed"}
    \/ from = "failed" /\ to = "pending"

\* A step moves at most one parse, as UploadParse allows.
OneMove ==
    \/ SameParse
    \/ \E x \in Files :
           /\ LegalMove(file[x].parse, file'[x].parse)
           /\ \A y \in Files \ {x} : file'[y].parse = file[y].parse

LEMMA QuietMove == ASSUME UNCHANGED file PROVE OneMove
  BY DEF OneMove, SameParse

LEMMA SavedMove ==
    ASSUME NEW r \in Requests, target[r] \in Files, NEW doc, NEW saved, NEW raised,
           Saved(r, doc, saved, raised),
           r \in fileHolders[target[r]] =>
               \/ doc.parse = file[target[r]].parse
               \/ LegalMove(file[target[r]].parse, doc.parse)
    PROVE  OneMove
<1>1. CASE Wrote(r, target[r], doc)
  BY <1>1 DEF Wrote, OneMove, SameParse
<1>2. CASE UNCHANGED fileVars
  BY <1>2, QuietMove DEF fileVars
<1> QED
  BY <1>1, <1>2 DEF Saved

LEMMA ParseMove ==
    ASSUME TypeOK, FInv, NEW r \in Requests,
           ParseStart(r) \/ ParseText(r) \/ ParseDone(r) \/ ParseFail(r)
    PROVE  OneMove
<1>0. Parsing(r) /\ target[r] \in Files
  BY ParserAlone DEF ParseStart, ParseText, ParseDone, ParseFail, Parsing
<1>1. UNCHANGED <<job, target>> /\ (r \in fileHolders[target[r]] => fileCopy[r] = file[target[r]])
  BY <1>0 DEF ParseStart, ParseText, ParseDone, ParseFail, ParseUnchanged, FInv, FileCopies
<1>2. CASE ParseStart(r)
  <2> DEFINE doc == [fileCopy[r] EXCEPT !.parse = "processing"]
  <2>1. doc.parse = "processing"
    BY CopyFields DEF ParseStatus
  <2>2. SaveFile(r, target[r], doc, "parse_text", Raised(r)) /\ pc[r] = "parse_start"
    BY <1>2 DEF ParseStart
  <2> HIDE DEF doc
  <2>3. Saved(r, doc, "parse_text", Raised(r))
    BY <1>0, <1>1, <2>2, SaveEffect
  <2>4. LegalMove(file[target[r]].parse, doc.parse)
    BY <2>1, <2>2 DEF FInv, ParserStatus, BeforeStart, LegalMove
  <2> QED
    BY <1>0, <2>3, <2>4, SavedMove
<1>3. CASE ParseText(r)
  <2>1. SaveFile(r, target[r], fileCopy[r], "parse_llm", "parse_fail")
    BY <1>3 DEF ParseText
  <2>2. Saved(r, fileCopy[r], "parse_llm", "parse_fail")
    BY <1>0, <1>1, <2>1, SaveEffect
  <2> QED
    BY <1>0, <1>1, <2>2, SavedMove
<1>4. CASE ParseDone(r)
  <2> DEFINE doc == [fileCopy[r] EXCEPT !.parse = "completed"]
             next == IF job[r] = "upload" THEN "ok" ELSE "reparse_get"
  <2>1. doc.parse = "completed"
    BY CopyFields DEF ParseStatus
  <2>2. SaveFile(r, target[r], doc, next, "parse_fail") /\ pc[r] = "parse_llm"
    BY <1>4 DEF ParseDone
  <2> HIDE DEF doc, next
  <2>3. Saved(r, doc, next, "parse_fail")
    BY <1>0, <1>1, <2>2, SaveEffect
  <2>4. LegalMove(file[target[r]].parse, doc.parse)
    BY <2>1, <2>2 DEF FInv, ParserStatus, AfterStart, LegalMove
  <2> QED
    BY <1>0, <2>3, <2>4, SavedMove
<1>5. CASE ParseFail(r)
  <2> DEFINE doc == [fileCopy[r] EXCEPT !.parse = "failed"]
  <2>1. doc.parse = "failed"
    BY CopyFields DEF ParseStatus
  <2>2. SaveFile(r, target[r], doc, Raised(r), Raised(r)) /\ pc[r] = "parse_fail"
    BY <1>5 DEF ParseFail
  <2> HIDE DEF doc
  <2>3. Saved(r, doc, Raised(r), Raised(r))
    BY <1>0, <1>1, <2>2, SaveEffect
  <2>4. LegalMove(file[target[r]].parse, doc.parse)
    BY <2>1, <2>2 DEF FInv, ParserStatus, AfterStart, LegalMove
  <2> QED
    BY <1>0, <2>3, <2>4, SavedMove
<1> QED
  BY <1>2, <1>3, <1>4, <1>5

LEMMA EditMove ==
    ASSUME TypeOK, FInv, NEW r \in Requests,
           ReparseSave(r) \/ UpdateSave(r) \/ DeleteSave(r) \/ AdminFileSave(r)
    PROVE  OneMove
<1>0. target[r] \in Files /\ pc[r] = "save" /\ UNCHANGED <<job, target>>
  BY DEF ReparseSave, UpdateSave, DeleteSave, AdminFileSave, ParseUnchanged, FInv,
         Targets, Focused, Labels, Answers, Unfocused
<1>1. r \in fileHolders[target[r]] => fileCopy[r] = file[target[r]]
  BY <1>0 DEF FInv, FileCopies
<1>2. CASE ReparseSave(r)
  <2> DEFINE doc == [fileCopy[r] EXCEPT !.parse = "pending"]
  <2>1. doc.parse = "pending"
    BY CopyFields DEF ParseStatus
  <2>2. SaveFile(r, target[r], doc, "parse_get", "error") /\ job[r] = "reparse"
    BY <1>2 DEF ReparseSave
  <2> HIDE DEF doc
  <2>3. Saved(r, doc, "parse_get", "error")
    BY <1>0, <2>2, SaveEffect
  <2>4. r \in fileHolders[target[r]] => LegalMove(file[target[r]].parse, doc.parse)
    BY <1>0, <2>1, <2>2 DEF FInv, ReparserStatus, LegalMove
  <2> QED
    BY <1>0, <2>3, <2>4, SavedMove
<1>3. CASE UpdateSave(r)
  <2>1. CASE SaveFile(r, target[r], fileCopy[r], "ok", "error")
    <3>1. Saved(r, fileCopy[r], "ok", "error")
      BY <1>0, <2>1, SaveEffect
    <3> QED
      BY <1>0, <1>1, <3>1, SavedMove
  <2>2. CASE UNCHANGED fileVars
    BY <2>2, QuietMove DEF fileVars
  <2> QED
    BY <1>3, <2>1, <2>2 DEF UpdateSave
<1>4. CASE DeleteSave(r) \/ AdminFileSave(r)
  <2> DEFINE doc == [fileCopy[r] EXCEPT !.state = "deleted"]
  <2>1. doc.parse = fileCopy[r].parse
    BY CopyFields
  <2>2. \E saved \in {"count_down", "ok"} : SaveFile(r, target[r], doc, saved, "error")
    BY <1>4 DEF DeleteSave, AdminFileSave
  <2> HIDE DEF doc
  <2>3. \E saved \in {"count_down", "ok"} : Saved(r, doc, saved, "error")
    BY <1>0, <2>2, SaveEffect
  <2> QED
    BY <1>0, <1>1, <2>1, <2>3, SavedMove
<1> QED
  BY <1>2, <1>3, <1>4

LEMMA InsertMove ==
    ASSUME TypeOK, JobAt, FInv, NEW r \in Requests, Insert(r)
    PROVE  OneMove
<1>1. job[r] \in {"create", "upload"}
  BY DEF Insert, JobAt
<1>2. PICK x \in Files :
        /\ file[x].state = "absent"
        /\ \/ StoreFile(r, x, [state |-> "live", parse |-> Born[job[r]]])
           \/ UNCHANGED fileVars
  BY DEF Insert, FileUnchanged
<1>3. CASE StoreFile(r, x, [state |-> "live", parse |-> Born[job[r]]])
  <2>1. /\ file'[x].parse = Born[job[r]]
        /\ \A y \in Files \ {x} : file'[y] = file[y]
    BY <1>3 DEF StoreFile, TypeOK
  <2>2. file[x].parse = "none" /\ Born[job[r]] \in {"none", "pending"}
    BY <1>1, <1>2 DEF FInv, AbsentIsUnparsed, Born
  <2> QED
    BY <2>1, <2>2 DEF OneMove, SameParse, LegalMove
<1>4. CASE UNCHANGED fileVars
  BY <1>4, QuietMove DEF fileVars
<1> QED
  BY <1>2, <1>3, <1>4

LEMMA StepMove ==
    ASSUME TypeOK, JobAt, FInv, [Next]_vars
    PROVE  OneMove
<1>1. ASSUME NEW r \in Requests, Arrive(r) PROVE UNCHANGED file
  BY <1>1 DEF Arrive, Authenticate, AdminUserFind, AdminFileGet, LoadFile,
              FileUnchanged, fileVars
<1>2. ASSUME NEW r \in Requests,
             \/ Touch(r) \/ UserUnsaved(r) \/ UserSave(r) \/ CountUp(r) \/ CountDown(r)
             \/ ParseGet(r) \/ ParseError(r) \/ Find(r) \/ ReparseGet(r)
      PROVE  UNCHANGED file
  BY <1>2 DEF Touch, UserUnsaved, UserSave, CountUp, CountDown, ParseGet, ParseError,
              Find, ReparseGet, LoadFile, FileUnchanged, fileVars
<1>3. ASSUME NEW r \in Requests, Continue(r) PROVE OneMove
  BY <1>2, <1>3, QuietMove, ParseMove, EditMove, InsertMove DEF Continue
<1>4. CASE Crash \/ UNCHANGED vars
  BY <1>4, QuietMove DEF Crash, vars, fileVars
<1> QED
  BY <1>1, <1>3, <1>4, QuietMove DEF Next, Serve

\* Whatever uploads, re-parses, edits and deletions race, and wherever the
\* process stops, every parse goes through the states of UploadParse.
THEOREM ParseFollowsLifecycleCorrect == Spec => ParseFollowsLifecycle
<1>1. Init => Lifecycle!Init
  BY DEF Init, AccountInit, NoFile, Lifecycle!Init
<1>2. ASSUME IInv, [Next]_vars
      PROVE  [Lifecycle!Next]_[x \in Files |-> file[x].parse]
  <2>1. OneMove
    BY <1>2, StepMove DEF IInv
  <2>2. CASE SameParse
    BY <2>2 DEF SameParse
  <2>3. ASSUME NEW x \in Files, LegalMove(file[x].parse, file'[x].parse),
               \A y \in Files \ {x} : file'[y].parse = file[y].parse
        PROVE  Lifecycle!Next
    <3> DEFINE status == [y \in Files |-> file[y].parse]
    <3>1. /\ status' = [status EXCEPT ![x] = file'[x].parse]
          /\ status[x] = file[x].parse
      BY <2>3
    <3> QED
      BY <2>3, <3>1 DEF LegalMove, Lifecycle!Next, Lifecycle!Upload, Lifecycle!Start,
         Lifecycle!Finish, Lifecycle!Reparse, Lifecycle!Move
  <2> QED
    BY <2>1, <2>2, <2>3 DEF OneMove
<1> QED
  BY <1>1, <1>2, AccountsInvariance, PTL
     DEF Spec, ParseFollowsLifecycle, Lifecycle!Spec

---------------------------------------------------------------------------
(* Who answers for an unfinished parse *)

\* The requests whose write interrupts a parse that is running.
Interrupters == {"update", "delete", "admin_delete"}

\* What the last writer of an unfinished resume is.
LEMMA AuthorFacts ==
    ASSUME ParseInv, NEW x \in Files, Unfinished(x)
    PROVE  /\ author[x] \in Requests
           /\ author[x] \in fileHolders[x]
           /\ target[author[x]] = x
           /\ \/ pc[author[x]] = "lost"
              \/ job[author[x]] \in Interrupters
              \/ Parsing(author[x])
<1>1. file[x].state # "absent"
  BY DEF ParseInv, IInv, FInv, AbsentIsUnparsed, Unfinished
<1>2. author[x] \in fileHolders[x]
  BY <1>1 DEF ParseInv, Authors
<1>3. author[x] \in Requests /\ target[author[x]] = x
  BY <1>2 DEF ParseInv, IInv, TypeOK, FInv, FileCopies
<1> QED
  BY <1>2, <1>3 DEF ParseInv, ParseOwned, Interrupted, Interrupters

\* A step of r that writes no resume: the parser of a resume goes on, and a
\* request is not given another job.
LEMMA ParseFrame ==
    ASSUME ParseInv, NEW r \in Requests, Aside(r), UNCHANGED <<file, author>>,
           \A y \in Files : fileHolders[y] \subseteq fileHolders'[y],
           pc[r] # "lost",
           target[r] \in Files => job'[r] = job[r],
           Parsing(r) /\ r \in fileHolders[target[r]] => Parsing(r)'
    PROVE  Authors' /\ ParseOwned'
<1>1. Authors'
  BY DEF ParseInv, Authors
<1>2. ASSUME NEW x \in Files, Unfinished(x)'
      PROVE  Interrupted(x)' \/ Parsing(author[x])'
  <2> DEFINE a == author[x]
  <2>1. Unfinished(x) /\ author'[x] = a
    BY <1>2 DEF Unfinished
  <2>2. /\ a \in Requests /\ a \in fileHolders[x] /\ target[a] = x
        /\ pc[a] = "lost" \/ job[a] \in Interrupters \/ Parsing(a)
    BY <2>1, AuthorFacts
  <2>3. CASE a = r
    BY <2>1, <2>2, <2>3 DEF Interrupted, Interrupters, Parsing
  <2>4. CASE a # r
    BY <2>1, <2>2, <2>4 DEF Interrupted, Interrupters, Parsing, Aside
  <2> QED
    BY <2>3, <2>4
<1> QED
  BY <1>1, <1>2 DEF ParseOwned

\* A step of r that writes a resume: who leaves it unfinished parses it, or
\* has interrupted its parse.
LEMMA ParseWrite ==
    ASSUME ParseInv, NEW r \in Requests, Aside(r), NEW x \in Files, NEW doc,
           StoreFile(r, x, doc), target[r] \in {None, x},
           doc.parse \in {"pending", "processing"} =>
               Parsing(r)' \/ job'[r] \in Interrupters
    PROVE  Authors' /\ ParseOwned'
<1>1. /\ file'[x] = doc /\ author'[x] = r /\ fileHolders'[x] = {r}
      /\ \A y \in Files \ {x} : /\ file'[y] = file[y] /\ author'[y] = author[y]
                                /\ fileHolders'[y] = fileHolders[y]
  BY DEF StoreFile, ParseInv, IInv, TypeOK
<1>2. Authors'
  BY <1>1 DEF ParseInv, Authors
<1>3. ASSUME NEW y \in Files, Unfinished(y)'
      PROVE  Interrupted(y)' \/ Parsing(author[y])'
  <2>1. CASE y = x
    BY <1>1, <1>3, <2>1 DEF Unfinished, Interrupted, Interrupters, Parsing
  <2>2. CASE y # x
    <3> DEFINE a == author[y]
    <3>1. Unfinished(y) /\ author'[y] = a
      BY <1>1, <1>3, <2>2 DEF Unfinished
    <3>2. /\ a \in Requests /\ target[a] = y
          /\ pc[a] = "lost" \/ job[a] \in Interrupters \/ Parsing(a)
      BY <3>1, AuthorFacts
    <3>3. a # r
      BY <2>2, <3>2
    <3> QED
      BY <3>1, <3>2, <3>3 DEF Interrupted, Interrupters, Parsing, Aside
  <2> QED
    BY <2>1, <2>2
<1> QED
  BY <1>2, <1>3 DEF ParseOwned

\* A save by r of its resume, which is refused only if r has lost it.
LEMMA ParseSave ==
    ASSUME ParseInv, NEW r \in Requests, target[r] \in Files, pc[r] # "lost",
           NEW doc, NEW saved, NEW raised,
           SaveFile(r, target[r], doc, saved, raised), UNCHANGED <<job, target>>,
           r \in fileHolders[target[r]] /\ pc'[r] = saved
               /\ doc.parse \in {"pending", "processing"} =>
               Parsing(r)' \/ job'[r] \in Interrupters
    PROVE  Authors' /\ ParseOwned'
<1>1. TypeOK /\ Aside(r)
  BY DEF ParseInv, IInv, SaveFile, Goto, TypeOK, Aside
<1>2. CASE r \in fileHolders[target[r]] /\ StoreFile(r, target[r], doc) /\ Goto(r, saved)
  <2>1. pc'[r] = saved
    BY <1>1, <1>2 DEF Goto, TypeOK
  <2> QED
    BY <1>1, <1>2, <2>1, ParseWrite
<1>3. CASE r \notin fileHolders[target[r]] /\ UNCHANGED fileVars
  BY <1>1, <1>3, ParseFrame DEF fileVars
<1> QED
  BY <1>2, <1>3 DEF SaveFile

\* The saves of a running parse.
LEMMA OwnedParse ==
    ASSUME ParseInv, NEW r \in Requests,
           ParseStart(r) \/ ParseText(r) \/ ParseDone(r) \/ ParseFail(r)
    PROVE  Authors' /\ ParseOwned'
<1>0. /\ TypeOK /\ FInv /\ Parsing(r) /\ target[r] \in Files /\ pc[r] # "lost"
      /\ UNCHANGED <<job, target>>
  BY ParserAlone DEF ParseStart, ParseText, ParseDone, ParseFail, Parsing, ParseUnchanged,
                     ParseInv, IInv
<1>1. CASE ParseStart(r)
  <2> DEFINE doc == [fileCopy[r] EXCEPT !.parse = "processing"]
  <2>1. SaveFile(r, target[r], doc, "parse_text", Raised(r))
    BY <1>1 DEF ParseStart
  <2>2. pc'[r] = "parse_text" => Parsing(r)'
    BY DEF Parsing
  <2> HIDE DEF doc
  <2> QED
    BY <1>0, <2>1, <2>2, ParseSave
<1>2. CASE ParseText(r)
  <2>1. SaveFile(r, target[r], fileCopy[r], "parse_llm", "parse_fail")
    BY <1>2 DEF ParseText
  <2>2. pc'[r] = "parse_llm" => Parsing(r)'
    BY DEF Parsing
  <2> QED
    BY <1>0, <2>1, <2>2, ParseSave
<1>3. CASE ParseDone(r) \/ ParseFail(r)
  <2>1. PICK s \in {"completed", "failed"} :
            \E saved, raised :
                SaveFile(r, target[r], [fileCopy[r] EXCEPT !.parse = s], saved, raised)
    <3>1. CASE ParseDone(r)
      <4>1. SaveFile(r, target[r], [fileCopy[r] EXCEPT !.parse = "completed"],
                     IF job[r] = "upload" THEN "ok" ELSE "reparse_get", "parse_fail")
        BY <3>1 DEF ParseDone
      <4> QED
        BY <4>1
    <3>2. CASE ParseFail(r)
      <4>1. SaveFile(r, target[r], [fileCopy[r] EXCEPT !.parse = "failed"],
                     Raised(r), Raised(r))
        BY <3>2 DEF ParseFail
      <4> QED
        BY <4>1
    <3> QED
      BY <1>3, <3>1, <3>2
  <2> DEFINE doc == [fileCopy[r] EXCEPT !.parse = s]
  <2>2. doc.parse = s
    BY <1>0, CopyFields DEF ParseStatus
  <2>3. PICK saved, raised : SaveFile(r, target[r], doc, saved, raised)
    BY <2>1
  <2> HIDE DEF doc
  <2> QED
    BY <1>0, <2>2, <2>3, ParseSave
<1> QED
  BY <1>1, <1>2, <1>3

\* The saves of the requests that found their resume.
LEMMA OwnedEdit ==
    ASSUME ParseInv, NEW r \in Requests,
           ReparseSave(r) \/ UpdateSave(r) \/ DeleteSave(r) \/ AdminFileSave(r)
    PROVE  Authors' /\ ParseOwned'
<1>0. /\ TypeOK /\ target[r] \in Files /\ pc[r] = "save" /\ UNCHANGED <<job, target>>
      /\ ~Parsing(r)
  BY DEF ReparseSave, UpdateSave, DeleteSave, AdminFileSave, ParseUnchanged, ParseInv, IInv,
         FInv, Targets, Focused, Labels, Answers, Unfocused, Parsing
<1>1. CASE ReparseSave(r)
  <2> DEFINE doc == [fileCopy[r] EXCEPT !.parse = "pending"]
  <2>1. SaveFile(r, target[r], doc, "parse_get", "error")
    BY <1>1 DEF ReparseSave
  <2>2. pc'[r] = "parse_get" => Parsing(r)'
    BY DEF Parsing
  <2> HIDE DEF doc
  <2> QED
    BY <1>0, <2>1, <2>2, ParseSave
<1>2. CASE UpdateSave(r) \/ DeleteSave(r) \/ AdminFileSave(r)
  <2>1. job'[r] \in Interrupters
    BY <1>0, <1>2 DEF UpdateSave, DeleteSave, AdminFileSave, Interrupters
  <2>2. \/ \E doc, saved, raised : SaveFile(r, target[r], doc, saved, raised)
        \/ UNCHANGED fileVars /\ Aside(r)
    BY <1>0, <1>2 DEF UpdateSave, DeleteSave, AdminFileSave, Goto, Aside, TypeOK
  <2> QED
    BY <1>0, <2>1, <2>2, ParseSave, ParseFrame DEF fileVars
<1> QED
  BY <1>1, <1>2

LEMMA OwnedInsert ==
    ASSUME ParseInv, NEW r \in Requests, Insert(r)
    PROVE  Authors' /\ ParseOwned'
<1>1. TypeOK /\ job[r] \in {"create", "upload"} /\ target[r] = None /\ pc[r] = "insert"
      /\ job' = job
  BY DEF Insert, ParseInv, IInv, JobAt, FInv, Targets, Unfocused
<1>2. Aside(r)
  BY <1>1 DEF Insert, FileUnchanged, Goto, Aside, TypeOK
<1> DEFINE doc == [state |-> "live", parse |-> Born[job[r]]]
<1>3. PICK x \in Files :
        \/ StoreFile(r, x, doc) /\ Goto(r, "count_up")
        \/ UNCHANGED fileVars
  BY DEF Insert, FileUnchanged
<1>4. doc.parse \in {"pending", "processing"} => job[r] = "upload"
  BY <1>1 DEF Born
<1> HIDE DEF doc
<1>5. CASE StoreFile(r, x, doc) /\ Goto(r, "count_up")
  <2>1. pc'[r] = "count_up"
    BY <1>1, <1>5 DEF Goto, TypeOK
  <2>2. doc.parse \in {"pending", "processing"} => Parsing(r)'
    BY <1>1, <1>4, <2>1 DEF Parsing
  <2> QED
    BY <1>1, <1>2, <1>5, <2>2, ParseWrite
<1>6. CASE UNCHANGED fileVars
  <2>1. ~Parsing(r)
    BY <1>1 DEF Parsing
  <2> QED
    BY <1>1, <1>2, <1>6, <2>1, ParseFrame DEF fileVars
<1> QED
  BY <1>3, <1>5, <1>6

\* The steps that write no resume.
LEMMA OwnedQuiet ==
    ASSUME ParseInv, NEW r \in Requests,
           \/ Arrive(r)
           \/ Touch(r) \/ UserUnsaved(r) \/ UserSave(r) \/ CountUp(r) \/ CountDown(r)
           \/ ParseGet(r) \/ ParseError(r) \/ Find(r) \/ ReparseGet(r)
    PROVE  Authors' /\ ParseOwned'
<1>1. TypeOK /\ Targets
  BY DEF ParseInv, IInv, FInv
<1>2. /\ UNCHANGED <<file, author>>
      /\ \A y \in Files : fileHolders[y] \subseteq fileHolders'[y]
  BY <1>1 DEF Arrive, Authenticate, AdminUserFind, AdminFileGet, Touch, UserUnsaved, UserSave,
         CountUp, CountDown, ParseGet, ParseError, Find, ReparseGet, LoadFile, FileUnchanged,
         ParseUnchanged, fileVars, TypeOK
<1>3. Aside(r)
  BY <1>1 DEF Arrive, Authenticate, AdminUserFind, AdminFileGet, Touch, UserUnsaved, UserSave,
         SaveUser, CountUp, CountDown, ParseGet, ParseError, Find, ReparseGet, FileUnchanged,
         ParseUnchanged, Goto, Aside, TypeOK
<1>4. pc[r] # "lost" /\ (target[r] \in Files => job'[r] = job[r])
  BY <1>1 DEF Arrive, Authenticate, AdminUserFind, AdminFileGet, Touch, UserUnsaved, UserSave,
         CountUp, CountDown, ParseGet, ParseError, Find, ReparseGet, ParseUnchanged, Targets,
         Unfocused
<1>5. Parsing(r) => Parsing(r)'
  <2>1. CASE CountUp(r) \/ ParseGet(r) \/ ParseError(r)
    BY <1>1, <2>1 DEF CountUp, ParseGet, ParseError, ParseUnchanged, Goto, Parsing, TypeOK
  <2>2. CASE \/ Arrive(r) \/ Touch(r) \/ UserUnsaved(r) \/ UserSave(r) \/ CountDown(r)
             \/ Find(r) \/ ReparseGet(r)
    BY <2>2 DEF Arrive, Authenticate, AdminUserFind, AdminFileGet, Touch, UserUnsaved,
         UserSave, CountDown, Find, ReparseGet, Parsing
  <2> QED
    BY <2>1, <2>2
<1> QED
  BY <1>2, <1>3, <1>4, <1>5, ParseFrame

LEMMA ParseInvInit == Init => ParseInv
<1> SUFFICES ASSUME Init PROVE ParseInv
  OBVIOUS
<1>1. \A x \in Files : file[x].state = "absent" /\ file[x].parse = "none"
  BY DEF Init, AccountInit, NoFile
<1> QED
  BY <1>1, TypeInit, InvInit DEF ParseInv, IInv, Authors, ParseOwned, Unfinished

LEMMA ParseInvStep == ParseInv /\ [Next]_vars => ParseInv'
<1> SUFFICES ASSUME ParseInv, [Next]_vars PROVE ParseInv'
  OBVIOUS
<1>1. IInv'
  BY IInvStep DEF ParseInv
<1>2. ASSUME NEW r \in Requests, Arrive(r) \/ Continue(r)
      PROVE  Authors' /\ ParseOwned'
  BY <1>2, OwnedQuiet, OwnedInsert, OwnedParse, OwnedEdit DEF Continue
\* A crash leaves a running parse to a request that is lost.
<1>3. CASE Crash \/ UNCHANGED vars
  <2>1. /\ UNCHANGED <<file, fileHolders, author, job, target>>
        /\ \A q \in Requests : pc'[q] = pc[q] \/ pc'[q] = "lost"
    BY <1>3 DEF Crash, vars, fileVars, ParseInv, IInv, TypeOK
  <2>2. Authors'
    BY <2>1 DEF ParseInv, Authors
  <2>3. ASSUME NEW x \in Files, Unfinished(x)'
        PROVE  Interrupted(x)' \/ Parsing(author[x])'
    <3>1. Unfinished(x)
      BY <2>1, <2>3 DEF Unfinished
    <3> QED
      BY <2>1, <3>1, AuthorFacts DEF Interrupted, Interrupters, Parsing
  <2>4. ParseOwned'
    BY <2>3 DEF ParseOwned
  <2> QED
    BY <1>1, <2>2, <2>4 DEF ParseInv
<1>4. CASE Serve
  <2>1. PICK r \in Requests : Arrive(r) \/ Continue(r)
    BY <1>4 DEF Serve
  <2>2. Authors' /\ ParseOwned'
    BY <2>1, <1>2
  <2> QED
    BY <1>1, <2>2 DEF ParseInv
<1>5. CASE Crash \/ UNCHANGED vars
  BY <1>3, <1>5
<1> QED
  BY <1>4, <1>5 DEF Next

\* A parse is left unfinished only while it runs, or because the process
\* stopped under it or an edit or a deletion was saved over it; reading the
\* file or the LLM may fail without leaving it so.
THEOREM ParseHasOwnerCorrect == Spec => []ParseHasOwner
<1>1. ParseInv => ParseHasOwner
  <2> SUFFICES ASSUME ParseInv, NEW x \in Files, Unfinished(x)
               PROVE  Interrupted(x) \/ \E r \in Requests : Parsing(r) /\ target[r] = x
    BY DEF ParseHasOwner
  <2> QED
    BY AuthorFacts DEF Interrupted, Interrupters
<1> QED
  BY <1>1, ParseInvInit, ParseInvStep, PTL DEF Spec
=============================================================================
