---------------------------- MODULE ResumeFormats ----------------------------
(***************************************************************************)
(* The shapes that a json-resume has on its way from the form of the       *)
(* browser (jsonResume.ts) through the API (resumes/schemas.py) to the     *)
(* store (database/models.py) and back, and what each conversion keeps,    *)
(* drops and refuses.                                                      *)
(*                                                                         *)
(* A document is a function from fields <<section, name>> to values; a     *)
(* list section has at most one entry here.  A value is named for all that *)
(* the three schemas tell apart of it.                                     *)
(***************************************************************************)
EXTENDS Functions, FiniteSets

CONSTANTS
    Sections,     \* the sections of this run
    MaxFields,    \* at most so many fields of the stored document have a value
    None          \* no document

VARIABLES
    stored,       \* the json_resume of the one resume of this run
    shown,        \* the json_resume of the page that shows it
    failed,       \* the resume is an upload whose parse has failed
    answer,
    last,         \* history: the request that was answered last
    form          \* history: the form that was sent last, while nothing else is

vars == <<stored, shown, failed, answer, last, form>>

---------------------------------------------------------------------------
(* The schemas *)

\* What the form has.
FormNames ==
    [basics |-> {"name", "label", "email", "phone", "url", "image", "summary"},
     location |-> {"address", "postalCode", "city", "countryCode", "region"},
     profiles |-> {"network", "username", "url"},
     work |-> {"name", "position", "location", "url", "startDate", "endDate", "summary",
               "highlights"},
     volunteer |-> {"organization", "position", "url", "startDate", "endDate", "summary"},
     education |-> {"institution", "area", "studyType", "url", "startDate", "endDate",
                    "score"},
     awards |-> {"title", "date", "awarder", "summary"},
     certificates |-> {"name", "date", "issuer", "url"},
     publications |-> {"name", "publisher", "releaseDate", "url", "summary"},
     skills |-> {"name", "level", "keywords"},
     languages |-> {"language", "fluency"},
     interests |-> {"name", "keywords"},
     references |-> {"name", "reference"},
     projects |-> {"name", "description", "url", "entity", "type", "startDate", "endDate",
                   "highlights"},
     meta |-> {"canonical", "version", "lastModified"}]

ASSUME SectionsAssumption == Sections \subseteq DOMAIN FormNames

\* What the API takes and gives.
ApiNames ==
    [FormNames EXCEPT
        !.work = {"name", "position", "startDate", "endDate", "summary", "highlights", "url",
                  "isCurrentRole"},
        !.volunteer = @ \cup {"highlights"},
        !.education = (@ \ {"url"}) \cup {"courses"},
        !.publications = (@ \ {"url"}) \cup {"website"},
        !.projects = @ \cup {"keywords", "roles"}]

\* What the store takes.
DbNames ==
    [FormNames EXCEPT
        !.work = @ \cup {"description"},
        !.volunteer = @ \cup {"highlights"},
        !.education = @ \cup {"courses"},
        !.projects = @ \cup {"keywords", "roles"}]

Fields(names) == UNION {{s} \X names[s] : s \in Sections}

FormFields == Fields(FormNames)
ApiFields == Fields(ApiNames)
DbFields == Fields(DbNames)

\* The kinds of fields that the three agree on; all others are texts.
Kind(name) ==
    CASE name \in {"url", "image", "canonical", "website"} -> "url"
      [] name \in {"startDate", "endDate", "date", "releaseDate"} -> "date"
      [] name \in {"highlights", "keywords", "courses", "roles"} -> "list"
      [] name = "isCurrentRole" -> "flag"
      [] OTHER -> "text"

---------------------------------------------------------------------------
(* Values *)

\* A string: blank has white space only, long is longer than any limit of the
\* store; a link is a URL, a mail an address, a code has two letters, a year may
\* have a month.  Of these three the raw ones are well-formed, but not as the
\* schemas write them: https://jane.dev without its slash, a domain or a
\* country code that is not in its case.
Raw == {"rawlink", "rawmail", "rawcode"}
Strings == Raw \cup {"empty", "blank", "word", "long", "link", "mail", "code", "year", "day"}

\* A list of strings: empties has "" only, blanks has white space only.
Lists == {"empties", "blanks", "items"}

\* The other values: a PartialDate object, a date of Python, a Boolean.
Values == Strings \cup Lists \cup {"partial", "date", "flag"}

\* str.strip() and trim(), of the items of a list too.
Trim(v) == CASE v = "blank" -> "empty" [] v = "blanks" -> "empties" [] OTHER -> v

IsEmpty(v) == v \in {"empty", "empties"}

\* The fields of a document that have a value; an entry, a section or a list
\* that has none is gone with them.
Filled(doc) == Restrict(doc, {f \in DOMAIN doc : ~IsEmpty(doc[f])})

Trimmed(doc) == [f \in DOMAIN doc |-> Trim(doc[f])]

\* A document of one field, and the fields of two, the first one's if both
\* have it.
Single(f, v) == [g \in {f} |-> v]

Over(d, e) == [f \in DOMAIN d \cup DOMAIN e |-> IF f \in DOMAIN d THEN d[f] ELSE e[f]]

---------------------------------------------------------------------------
(* The browser *)

\* A new form, and what "Add" puts in it for a list section: empty fields.
EmptyForm(added) ==
    [f \in {g \in FormFields : g[1] \in added \cup {"basics", "location", "meta"}} |->
        IF Kind(f[2]) = "list" THEN "empties" ELSE "empty"]

\* What a user may put into a field.
Inputs(f) ==
    CASE Kind(f[2]) = "list" -> {"items", "blanks"}
      [] Kind(f[2]) = "date" -> {"year", "day"}
      [] Kind(f[2]) = "url" -> {"link", "rawlink", "blank", "word"}
      [] f[2] = "email" -> {"mail", "rawmail", "blank", "word"}
      [] f[2] = "countryCode" -> {"code", "rawcode", "blank", "word"}
      [] f[2] = "lastModified" -> {"day", "blank"}
      [] OTHER -> {"word", "blank", "long"}

\* Mutant of PruneEmpty: white space counts as a value.
PruneEmptyUntrimmed(doc) == Filled(doc)

\* pruneEmpty of jsonResume.ts
PruneEmpty(doc) == Filled(Trimmed(doc))

\* toJsonResume: the wrappers of keywords and highlights are taken off, and the
\* placeholders are pruned.
ToJsonResume(f) == PruneEmpty(f)

\* The fields that the page of a resume lets the user edit in place.
Editable ==
    {f \in {"basics"} \X {"name", "label", "email", "phone", "summary"} : f[1] \in Sections}

\* Mutant of SetDeep: the siblings are not copied.
SetDeepShallow(doc, f, v) == Single(f, v)

\* setDeep on the document that the page shows.
SetDeep(doc, f, v) == Over(Single(f, v), doc)

---------------------------------------------------------------------------
(* The API *)

\* What each field may hold.
ApiTakes ==
    [f \in ApiFields |->
        LET kind == Kind(f[2])
        IN  CASE f[2] = "lastModified" -> {"day"}
              [] kind = "url" -> {"link", "rawlink"}
              [] kind = "date" -> {"partial"}
              [] kind = "list" -> Lists
              [] kind = "flag" -> {"flag"}
              [] OTHER -> Strings]

\* No ValidationError: a field that the schema does not have is ignored.
ApiValid(doc) == \A f \in DOMAIN doc \cap ApiFields : doc[f] \in ApiTakes[f]

\* The entry of work has isCurrentRole, False unless it says otherwise.
WorkDefaults(doc) ==
    IF \E f \in DOMAIN doc : f[1] = "work"
      THEN Single(<<"work", "isCurrentRole">>, "flag")
      ELSE <<>>

\* HttpUrl.  An email and a country code are plain strings to the API.
ApiNormal(f, v) == IF v = "rawlink" /\ Kind(f[2]) = "url" THEN "link" ELSE v

\* Resume.model_validate: lastModified is a date from here on.
ApiParse(doc) ==
    Over([f \in DOMAIN doc \cap ApiFields |->
             IF f[2] = "lastModified" THEN "date" ELSE ApiNormal(f, doc[f])],
         WorkDefaults(doc))

\* resume_to_clean_dict, prune_empty: white space is a value, and so is False.
CleanDict(doc) == Filled(doc)

---------------------------------------------------------------------------
(* The store *)

DbTakes ==
    [f \in DbFields |->
        LET kind == Kind(f[2])
        IN  CASE f[2] = "email" -> {"mail", "rawmail"}
              [] f[2] = "countryCode" -> {"code", "rawcode"}
              [] kind = "url" -> {"link", "rawlink"}
              [] kind = "date" -> {"year", "day"}
              [] kind = "list" -> Lists
              [] OTHER -> Strings \ {"long"}]

\* No ValidationError: extra fields are forbidden.
DbValid(doc) == \A f \in DOMAIN doc : f \in DbFields /\ doc[f] \in DbTakes[f]

\* _prune
Prune(doc) == Filled(Trimmed(doc))

\* HttpUrl, EmailStr and to_upper.
DbNormal(f, v) ==
    CASE v = "rawlink" /\ Kind(f[2]) = "url" -> "link"
      [] v = "rawmail" /\ f[2] = "email" -> "mail"
      [] v = "rawcode" /\ f[2] = "countryCode" -> "code"
      [] OTHER -> v

\* DbJsonResume.model_validate strips the strings, writes URLs, addresses and
\* country codes in its own way and keeps what is left.
DbParse(doc) == [f \in DOMAIN doc |-> DbNormal(f, Trim(doc[f]))]

\* Resume(...), when it is built and whenever it is loaded: the placeholders
\* are stripped (_strip_placeholders), what is left is validated.
Build(doc) == DbParse(Prune(doc))

---------------------------------------------------------------------------
(* The endpoints *)

Answer(request, a) == last' = request /\ answer' = a

\* _to_resume_response of a loaded or saved document
Respond(request, doc) ==
    IF ApiValid(doc)
      THEN Answer(request, "ok") /\ shown' = ApiParse(doc)
      ELSE Answer(request, "error") /\ shown' = None

Refuse(request, a) == Answer(request, a) /\ UNCHANGED <<stored, shown>>

\* Mutant of Create: the document is built without validation.
CreateUnvalidated(payload) ==
    /\ last = "none"
    /\ stored' = CleanDict(ApiParse(payload))
    /\ Respond("create", CleanDict(ApiParse(payload)))
    /\ UNCHANGED failed

\* POST /resumes, create_resume
Create(payload) ==
    LET clean == CleanDict(ApiParse(payload))
    IN  /\ last = "none"
        /\ IF ApiValid(payload) /\ DbValid(clean)
             THEN /\ stored' = Build(DbParse(clean))
                  /\ Respond("create", Build(DbParse(clean)))
             ELSE Refuse("create", IF ApiValid(payload) THEN "error" ELSE "refused")
        /\ UNCHANGED failed

\* What a client sends of what it was given: JSON has no dates.
Sent(doc) == [f \in DOMAIN doc |-> IF doc[f] = "date" THEN "day" ELSE doc[f]]

\* PATCH /resumes/{id}, update_resume, of the resume that is shown with one
\* field changed.  What is assigned to a loaded resume is not built again.
Edit(f, v) ==
    LET payload == SetDeep(Sent(shown), f, v)
        clean == CleanDict(ApiParse(payload))
        ok == ApiValid(payload) /\ DbValid(stored) /\ DbValid(clean)
    IN  /\ shown # None
        /\ Cardinality(DOMAIN stored \cup {f}) <= MaxFields
        /\ IF ok THEN stored' = DbParse(clean) /\ Respond("edit", DbParse(clean))
                 ELSE Refuse("edit", IF ApiValid(payload) THEN "error" ELSE "refused")
        /\ form' = None
        /\ UNCHANGED failed

---------------------------------------------------------------------------
(* Their callers *)

\* The documents with one of these fields, and those with one or two.
Entries(fields, values(_)) == UNION {{Single(f, v) : v \in values(f)} : f \in fields}

Documents(fields, values(_)) ==
    {Over(d, e) : d \in Entries(fields, values), e \in Entries(fields, values)}

\* What the API may be sent in a field, well-formed or not.
ApiInputs(f) ==
    LET kind == Kind(f[2])
    IN  CASE kind = "url" -> {"link", "rawlink", "word"}
          [] kind = "date" -> {"partial", "year"}
          [] kind = "list" -> Lists
          [] kind = "flag" -> {"flag"}
          [] f[2] = "lastModified" -> {"day", "word"}
          [] f[2] = "email" -> {"mail", "rawmail", "word"}
          [] f[2] = "countryCode" -> {"code", "rawcode", "word"}
          [] OTHER -> {"word", "blank", "empty", "long"}

\* The new form is filled in and saved.
SubmitForm ==
    \E filled \in Documents(FormFields, Inputs) :
        LET filledIn == Over(filled, EmptyForm({f[1] : f \in DOMAIN filled}))
        IN  /\ form' = filledIn
            /\ Create(ToJsonResume(filledIn))

CreateByApi ==
    /\ \E doc \in Documents(ApiFields, ApiInputs) : Create(doc)
    /\ form' = None

\* A field of the page is edited in place.
EditField == \E f \in Editable : \E v \in Inputs(f) : Edit(f, Trim(v))

PatchByApi == \E f \in ApiFields : \E v \in ApiInputs(f) : Edit(f, v)

\* GET /resumes/{id}
Get ==
    /\ stored # None
    /\ IF DbValid(stored) THEN Respond("get", Build(stored))
                          ELSE Answer("get", "error") /\ shown' = None
    /\ form' = None
    /\ UNCHANGED <<stored, failed>>

\* run_parse_job on a document and the response of its endpoint: what the LLM
\* gives is a Resume of the API, or the call raises.
Parse(request, doc, llm) ==
    LET clean == CleanDict(ApiParse(llm))
        ok == ApiValid(llm) /\ DbValid(clean)
    IN  /\ stored' = IF ok THEN DbParse(clean) ELSE doc
        /\ failed' = ~ok
        /\ IF ok \/ request = "upload" THEN Respond(request, Build(stored'))
                                       ELSE Answer(request, "error") /\ shown' = None
        /\ form' = None

Upload ==
    /\ last = "none"
    /\ \E llm \in Entries(ApiFields, ApiInputs) : Parse("upload", <<>>, llm)

Reparse ==
    /\ failed
    /\ DbValid(stored)
    /\ \E llm \in Entries(ApiFields, ApiInputs) : Parse("reparse", Build(stored), llm)

---------------------------------------------------------------------------
(* apply_suggestion *)

\* The fields whose attribute has another name than in json-resume: a path
\* that has the name of json-resume leads nowhere.
Aliased ==
    {"postalCode", "countryCode", "startDate", "endDate", "studyType", "releaseDate",
     "lastModified"}

\* The path leads somewhere: every section on it is there.
Leads(doc, section) ==
    LET present == {f[1] : f \in DOMAIN doc}
    IN  \/ section \in present
        \/ section = "basics" /\ present \cap {"location", "profiles"} # {}

\* _set_deep_path: a string for whatever the field holds, and no validation.
ApplySuggestion ==
    /\ stored # None
    /\ LET doc == Build(stored)
           leads == {f \in DbFields : DbValid(stored) /\ Leads(doc, f[1])}
       IN  \/ \E f \in leads, v \in {"word", "rawlink", "long", "empty"} :
               /\ Cardinality(DOMAIN stored \cup {f}) <= MaxFields
               /\ stored' = Over(Single(f, v), doc)
               /\ shown' = None
               /\ Answer("apply", "ok")
           \/ /\ \/ leads # DbFields
                 \/ \E f \in leads : f[2] \in Aliased
              /\ Refuse("apply", "error")
    /\ form' = None
    /\ UNCHANGED failed

\* GET /resumes/{id}/export: the contact line joins strings, and a URL is none.
Export ==
    /\ stored # None
    /\ Answer("export", IF DbValid(stored) /\ <<"basics", "url">> \notin DOMAIN Build(stored)
                          THEN "ok" ELSE "error")
    /\ form' = None
    /\ UNCHANGED <<stored, shown, failed>>

---------------------------------------------------------------------------
Init ==
    /\ stored = None
    /\ shown = None
    /\ failed = FALSE
    /\ answer = "none"
    /\ last = "none"
    /\ form = None

Next ==
    \/ SubmitForm
    \/ CreateByApi
    \/ EditField
    \/ PatchByApi
    \/ Get
    \/ Upload
    \/ Reparse
    \/ ApplySuggestion
    \/ Export

Spec == Init /\ [][Next]_vars

---------------------------------------------------------------------------
(* Properties *)

\* The fields of a form that hold more than white space.
FilledIn == {f \in DOMAIN form : ~IsEmpty(Trim(form[f]))}

\* What the input of the form asks for in a field.
WellFormed(f, v) ==
    LET kind == Kind(f[2])
    IN  CASE f[2] = "email" -> v \in {"mail", "rawmail"}
          [] f[2] = "countryCode" -> v \in {"code", "rawcode"}
          [] kind = "url" -> v \in {"link", "rawlink"}
          [] kind = "date" -> v \in {"year", "day"}
          [] kind = "list" -> v = "items"
          [] f[2] = "lastModified" -> v = "day"
          [] OTHER -> v = "word"

\* The form came back: it was stored, and the page shows what it held, in the
\* way the store writes URLs, addresses and country codes.
CameBack ==
    /\ answer = "ok"
    /\ \A f \in FilledIn : f \in DOMAIN shown /\ shown[f] = DbNormal(f, form[f])
    /\ DOMAIN shown \cap DOMAIN form = FilledIn

\* A form that is well-formed is stored and comes back without its placeholders,
\* every field with the value that the store writes for what was filled in, if
\* it has no work entry, no date and none of the fields that the API does not
\* have.  The three prunes (jsonResume.ts, schemas.py, models.py) and the three
\* schemas agree on these.
PlainFormsAreStored ==
    (form # None /\ \A f \in FilledIn :
                        /\ WellFormed(f, form[f])
                        /\ f \in ApiFields
                        /\ f[1] # "work"
                        /\ Kind(f[2]) # "date"
                        /\ f[2] # "lastModified")
    => CameBack

\* Every form that is well-formed comes back: the sections round-trip.
SectionsRoundTrip ==
    (form # None /\ \A f \in FilledIn : WellFormed(f, form[f])) => CameBack

\* An edit of one field, from a page that shows the stored document, that is
\* answered 200 leaves every other field that the API knows as a load of it
\* was before: the page sends the whole document, and update_resume replaces
\* the whole document with what is left of it.  (A page that shows an older
\* document is the matter of ResumeEdits.)
EditKeepsTheRest ==
    [][(last' = "edit" /\ answer' = "ok") =>
          LET old == Build(stored)
              new == Build(stored')
              same(f) == f \in DOMAIN old \cap DOMAIN new /\ old[f] = new[f]
          IN  \E f \in ApiFields :
                 \A g \in (DOMAIN old \cup DOMAIN new) \cap ApiFields : g = f \/ same(g)]_vars

\* What a creation, an edit or a parse has stored can be loaded and shown,
\* whatever was typed, sent or answered by the LLM: a document that did not
\* pass the validation of the store fails every load after it.
SavedCanBeShown ==
    [][(last \in {"create", "edit", "upload", "reparse"} /\ answer = "ok" /\ last' = "get")
          => answer' = "ok"]_vars
=============================================================================
