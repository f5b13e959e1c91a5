---------------------------- MODULE FormatsProofs ----------------------------
(***************************************************************************)
(* What the conversions of ResumeFormats keep, for any sections of the     *)
(* document and any number of fields in it.                                *)
(***************************************************************************)
EXTENDS ResumeFormats, TLAPS

USE SectionsAssumption

---------------------------------------------------------------------------
(* Values and documents *)

LEMMA TrimOnce == ASSUME NEW v PROVE Trim(Trim(v)) = Trim(v)
  BY DEF Trim

LEMMA TrimEmpty == ASSUME NEW v, IsEmpty(v) PROVE IsEmpty(Trim(v))
  BY DEF Trim, IsEmpty

\* The value that the store writes for a trimmed one is trimmed, is written
\* again as it is, and is empty only if there was nothing to write.
LEMMA WrittenOnce ==
    ASSUME NEW f, NEW w, Trim(w) = w
    PROVE  /\ Trim(DbNormal(f, w)) = DbNormal(f, w)
           /\ DbNormal(f, DbNormal(f, w)) = DbNormal(f, w)
           /\ IsEmpty(DbNormal(f, w)) <=> IsEmpty(w)
<1>1. CASE DbNormal(f, w) = w
  BY <1>1
<1>2. CASE DbNormal(f, w) # w
  <2>1. w \in Raw /\ DbNormal(f, w) \in {"link", "mail", "code"}
    BY <1>2 DEF DbNormal, Raw
  <2>2. DbNormal(f, DbNormal(f, w)) = DbNormal(f, w)
    BY <2>1 DEF DbNormal
  <2>3. Trim(DbNormal(f, w)) = DbNormal(f, w)
    BY <2>1 DEF Trim
  <2>4. ~IsEmpty(DbNormal(f, w)) /\ ~IsEmpty(w)
    BY <2>1 DEF IsEmpty, Raw
  <2> QED
    BY <2>2, <2>3, <2>4
<1> QED
  BY <1>1, <1>2

LEMMA NormalOnce ==
    ASSUME NEW f, NEW v
    PROVE  /\ Trim(DbNormal(f, Trim(v))) = DbNormal(f, Trim(v))
           /\ DbNormal(f, DbNormal(f, Trim(v))) = DbNormal(f, Trim(v))
           /\ IsEmpty(DbNormal(f, Trim(v))) <=> IsEmpty(Trim(v))
  BY TrimOnce, WrittenOnce

\* The API writes a URL as the store does, and nothing else.
LEMMA ApiNormalIs ==
    ASSUME NEW f, NEW v
    PROVE  /\ DbNormal(f, Trim(ApiNormal(f, v))) = DbNormal(f, Trim(v))
           /\ IsEmpty(ApiNormal(f, v)) <=> IsEmpty(v)
           /\ IsEmpty(Trim(ApiNormal(f, v))) <=> IsEmpty(Trim(v))
           /\ ApiNormal(f, ApiNormal(f, v)) = ApiNormal(f, v)
           /\ ApiNormal(f, DbNormal(f, v)) = DbNormal(f, v)
           /\ ApiNormal(f, v) = "date" <=> v = "date"
<1>1. CASE v = "rawlink" /\ Kind(f[2]) = "url"
  <2>1. ApiNormal(f, v) = "link" /\ DbNormal(f, v) = "link"
    BY <1>1 DEF ApiNormal, DbNormal
  <2>2. Trim("link") = "link" /\ Trim(v) = v
    BY <1>1 DEF Trim
  <2>3. DbNormal(f, "link") = "link" /\ ApiNormal(f, "link") = "link"
    BY DEF DbNormal, ApiNormal
  <2>4. ~IsEmpty("link") /\ ~IsEmpty(v)
    BY <1>1 DEF IsEmpty
  <2> QED
    BY <1>1, <2>1, <2>2, <2>3, <2>4
<1>2. CASE ~(v = "rawlink" /\ Kind(f[2]) = "url")
  <2>1. ApiNormal(f, v) = v
    BY <1>2 DEF ApiNormal
  <2>2. ~(DbNormal(f, v) = "rawlink" /\ Kind(f[2]) = "url")
    BY <1>2 DEF DbNormal
  <2>3. ApiNormal(f, DbNormal(f, v)) = DbNormal(f, v)
    BY <2>2 DEF ApiNormal
  <2> QED
    BY <2>1, <2>3
<1> QED
  BY <1>1, <1>2

LEMMA FilledFields ==
    ASSUME NEW d
    PROVE  /\ DOMAIN Filled(d) = {f \in DOMAIN d : ~IsEmpty(d[f])}
           /\ \A f \in DOMAIN Filled(d) : Filled(d)[f] = d[f]
  BY DEF Filled, Restrict

LEMMA TrimmedFields ==
    ASSUME NEW d
    PROVE  /\ DOMAIN Trimmed(d) = DOMAIN d
           /\ \A f \in DOMAIN d : Trimmed(d)[f] = Trim(d[f])
  BY DEF Trimmed

LEMMA PruneIs ==
    ASSUME NEW d
    PROVE  Prune(d) = [f \in {g \in DOMAIN d : ~IsEmpty(Trim(d[g]))} |-> Trim(d[f])]
  BY TrimmedFields DEF Prune, Filled, Restrict

LEMMA PruneFields ==
    ASSUME NEW d
    PROVE  /\ DOMAIN Prune(d) = {f \in DOMAIN d : ~IsEmpty(Trim(d[f]))}
           /\ \A f \in DOMAIN Prune(d) : Prune(d)[f] = Trim(d[f])
  BY PruneIs

\* A field written over a document, and a document over a field.
LEMMA OverDocument ==
    ASSUME NEW d, NEW f, NEW v
    PROVE  /\ DOMAIN Over(Single(f, v), d) = DOMAIN d \cup {f}
           /\ \A h \in DOMAIN d \ {f} : Over(Single(f, v), d)[h] = d[h]
<1> Single(f, v) = [g \in {f} |-> v]
  BY DEF Single
<1> DOMAIN Single(f, v) = {f}
  OBVIOUS
<1>1. Over(Single(f, v), d) =
          [h \in {f} \cup DOMAIN d |-> IF h \in {f} THEN Single(f, v)[h] ELSE d[h]]
  BY DEF Over
<1>2. DOMAIN Over(Single(f, v), d) = {f} \cup DOMAIN d
  BY <1>1
<1>3. \A h \in DOMAIN d \ {f} : Over(Single(f, v), d)[h] = d[h]
  BY <1>1
<1> QED
  BY <1>2, <1>3

LEMMA OverField ==
    ASSUME NEW d, NEW f, NEW v
    PROVE  /\ f \in DOMAIN Over(d, Single(f, v))
           /\ Over(d, Single(f, v))[f] = IF f \in DOMAIN d THEN d[f] ELSE v
<1>1. Single(f, v) = [g \in {f} |-> v] /\ DOMAIN Single(f, v) = {f} /\ Single(f, v)[f] = v
  BY DEF Single
<1> QED
  BY <1>1 DEF Over

LEMMA BuildIs ==
    ASSUME NEW d
    PROVE  Build(d) = [f \in {g \in DOMAIN d : ~IsEmpty(Trim(d[g]))} |->
                          DbNormal(f, Trim(d[f]))]
<1>1. \A f \in DOMAIN Prune(d) : Trim(Prune(d)[f]) = Trim(d[f])
  BY PruneFields, TrimOnce
<1> QED
  BY <1>1, PruneFields DEF Build, DbParse

LEMMA BuildFields ==
    ASSUME NEW d
    PROVE  /\ DOMAIN Build(d) = {f \in DOMAIN d : ~IsEmpty(Trim(d[f]))}
           /\ \A f \in DOMAIN Build(d) : Build(d)[f] = DbNormal(f, Trim(d[f]))
  BY BuildIs

LEMMA ParsedFields ==
    ASSUME NEW d
    PROVE  /\ DOMAIN DbParse(d) = DOMAIN d
           /\ \A f \in DOMAIN d : DbParse(d)[f] = DbNormal(f, Trim(d[f]))
  BY DEF DbParse

\* A document that was built, or validated, is the same document to a load.
LEMMA BuildOnce ==
    ASSUME NEW d
    PROVE  /\ Build(Build(d)) = Build(d)
           /\ Build(DbParse(d)) = Build(d)
<1>1. ASSUME NEW e, DOMAIN e \subseteq DOMAIN d,
             \A f \in DOMAIN e : e[f] = DbNormal(f, Trim(d[f])),
             \A f \in DOMAIN d : ~IsEmpty(Trim(d[f])) => f \in DOMAIN e
      PROVE  Build(e) = Build(d)
  <2>1. \A f \in DOMAIN e : /\ Trim(e[f]) = e[f]
                            /\ DbNormal(f, Trim(e[f])) = DbNormal(f, Trim(d[f]))
                            /\ IsEmpty(Trim(e[f])) <=> IsEmpty(Trim(d[f]))
    BY <1>1, NormalOnce
  <2>2. {g \in DOMAIN e : ~IsEmpty(Trim(e[g]))} = {g \in DOMAIN d : ~IsEmpty(Trim(d[g]))}
    BY <1>1, <2>1
  <2> QED
    BY <1>1, <2>1, <2>2, BuildIs
<1>2. Build(Build(d)) = Build(d)
  <2>1. /\ DOMAIN Build(d) \subseteq DOMAIN d
        /\ \A f \in DOMAIN Build(d) : Build(d)[f] = DbNormal(f, Trim(d[f]))
        /\ \A f \in DOMAIN d : ~IsEmpty(Trim(d[f])) => f \in DOMAIN Build(d)
    BY BuildFields
  <2> QED
    BY <1>1, <2>1
<1>3. Build(DbParse(d)) = Build(d)
  <2>1. /\ DOMAIN DbParse(d) \subseteq DOMAIN d
        /\ \A f \in DOMAIN DbParse(d) : DbParse(d)[f] = DbNormal(f, Trim(d[f]))
        /\ \A f \in DOMAIN d : ~IsEmpty(Trim(d[f])) => f \in DOMAIN DbParse(d)
    BY ParsedFields
  <2> QED
    BY <1>1, <2>1
<1> QED
  BY <1>2, <1>3

---------------------------------------------------------------------------
(* The schemas *)

\* The value that the store writes is one that the store takes.
LEMMA DbTakesNormal ==
    ASSUME NEW f \in DbFields, NEW v \in DbTakes[f]
    PROVE  DbNormal(f, Trim(v)) \in DbTakes[f]
<1>1. Trim(v) \in DbTakes[f]
  BY DEF DbTakes, Trim, Strings, Raw, Lists
<1> DEFINE w == Trim(v)
<1> HIDE DEF w
<1>2. ASSUME w \in DbTakes[f] PROVE DbNormal(f, w) \in DbTakes[f]
  <2>1. CASE w = "rawlink" /\ Kind(f[2]) = "url"
    <3>1. DbNormal(f, w) = "link"
      BY <2>1 DEF DbNormal
    <3>2. f[2] # "email" /\ f[2] # "countryCode"
      BY <2>1 DEF Kind
    <3> QED
      BY <2>1, <3>1, <3>2 DEF DbTakes
  <2>2. CASE w = "rawmail" /\ f[2] = "email"
    <3>1. DbNormal(f, w) = "mail"
      BY <2>2 DEF DbNormal
    <3>2. DbTakes[f] = {"mail", "rawmail"}
      BY <2>2 DEF DbTakes, Kind
    <3> QED
      BY <3>1, <3>2
  <2>3. CASE w = "rawcode" /\ f[2] = "countryCode"
    <3>1. DbNormal(f, w) = "code"
      BY <2>3 DEF DbNormal
    <3>2. DbTakes[f] = {"code", "rawcode"}
      BY <2>3 DEF DbTakes, Kind
    <3> QED
      BY <3>1, <3>2
  <2>4. CASE ~(\/ w = "rawlink" /\ Kind(f[2]) = "url"
               \/ w = "rawmail" /\ f[2] = "email"
               \/ w = "rawcode" /\ f[2] = "countryCode")
    <3>1. DbNormal(f, w) = w
      BY <2>4 DEF DbNormal
    <3> QED
      BY <1>2, <3>1
  <2> QED
    BY <2>1, <2>2, <2>3, <2>4
<1> QED
  BY <1>1, <1>2 DEF w

LEMMA DbValidBuilt ==
    ASSUME NEW d, DbValid(d)
    PROVE  DbValid(DbParse(d)) /\ DbValid(Build(d))
<1>1. \A f \in DOMAIN d : f \in DbFields /\ DbNormal(f, Trim(d[f])) \in DbTakes[f]
  BY DbTakesNormal DEF DbValid
<1> QED
  BY <1>1, ParsedFields, BuildFields DEF DbValid

LEMMA ApiValidBuilt ==
    ASSUME NEW d, ApiValid(DbParse(d))
    PROVE  ApiValid(Build(d))
<1>1. \A f \in DOMAIN Build(d) : f \in DOMAIN DbParse(d) /\ Build(d)[f] = DbParse(d)[f]
  BY ParsedFields, BuildFields
<1> QED
  BY <1>1 DEF ApiValid

\* No field of the store is isCurrentRole, and the store has no date.
LEMMA NoRole == <<"work", "isCurrentRole">> \notin DbFields
<1>1. "isCurrentRole" \notin DbNames["work"]
  BY DEF DbNames, FormNames
<1> QED
  BY <1>1 DEF DbFields, Fields

LEMMA NoDate == ASSUME NEW f \in DbFields PROVE "date" \notin DbTakes[f]
  BY DEF DbTakes, Strings, Raw, Lists

LEMMA NoApiDate == ASSUME NEW f \in ApiFields PROVE "date" \notin ApiTakes[f]
  BY DEF ApiTakes, Strings, Raw, Lists

LEMMA RoleIsFlag ==
    ASSUME <<"work", "isCurrentRole">> \in ApiFields
    PROVE  ApiTakes[<<"work", "isCurrentRole">>] = {"flag"}
  BY DEF ApiTakes, Kind

LEMMA EditableInApi == Editable \subseteq ApiFields
<1>1. {"name", "label", "email", "phone", "summary"} \subseteq ApiNames["basics"]
  BY DEF ApiNames, FormNames
<1> QED
  BY <1>1 DEF Editable, ApiFields, Fields

LEMMA NoFormFlag == ASSUME NEW f \in FormFields PROVE f[2] # "isCurrentRole"
<1>1. ASSUME NEW s \in DOMAIN FormNames PROVE "isCurrentRole" \notin FormNames[s]
  BY DEF FormNames
<1> QED
  BY <1>1 DEF FormFields, Fields

LEMMA FormInDb == FormFields \subseteq DbFields
<1>1. ASSUME NEW s \in DOMAIN FormNames PROVE FormNames[s] \subseteq DbNames[s]
  BY DEF DbNames
<1> QED
  BY <1>1 DEF FormFields, DbFields, Fields

---------------------------------------------------------------------------
(* What is stored, and what is shown of it *)

\* What a creation, an edit or a parse has stored can be loaded and shown.
SavedLoads ==
    last \in {"create", "edit", "upload", "reparse"} /\ answer = "ok" =>
        DbValid(stored) /\ ApiValid(Build(stored))

\* The page shows the stored document, or what a load makes of it.
ShowsStored ==
    shown # None =>
        \E doc \in {stored, Build(stored)} : ApiValid(doc) /\ shown = ApiParse(doc)

\* A response that is an error shows nothing.
LEMMA Responds ==
    ASSUME NEW request, NEW doc, Respond(request, doc)
    PROVE  /\ last' = request
           /\ answer' = "ok" => ApiValid(doc)
           /\ shown' # None => ApiValid(doc) /\ shown' = ApiParse(doc)
  BY DEF Respond, Answer

LEMMA CreateEffect ==
    ASSUME NEW payload, Create(payload)
    PROVE  SavedLoads' /\ (ShowsStored => ShowsStored') /\ last' = "create"
<1> DEFINE clean == CleanDict(ApiParse(payload))
           doc == Build(DbParse(clean))
<1>1. CASE ApiValid(payload) /\ DbValid(clean)
  <2>1. stored' = doc /\ Respond("create", doc)
    BY <1>1 DEF Create
  <2>2. DbValid(doc) /\ Build(doc) = doc
    BY <1>1, DbValidBuilt, BuildOnce
  <2> HIDE DEF doc
  <2>3. ShowsStored'
    BY <2>1, Responds DEF ShowsStored
  <2>4. SavedLoads'
    BY <2>1, <2>2, Responds DEF SavedLoads
  <2> QED
    BY <2>1, <2>3, <2>4, Responds
<1>2. CASE ~(ApiValid(payload) /\ DbValid(clean))
  <2>1. last' = "create" /\ answer' \in {"error", "refused"} /\ UNCHANGED <<stored, shown>>
    BY <1>2 DEF Create, Refuse, Answer
  <2>2. ShowsStored => ShowsStored'
    BY <2>1 DEF ShowsStored
  <2> QED
    BY <2>1, <2>2 DEF SavedLoads
<1> QED
  BY <1>1, <1>2

LEMMA EditEffect ==
    ASSUME NEW f, NEW v, Edit(f, v)
    PROVE  SavedLoads' /\ (ShowsStored => ShowsStored') /\ last' = "edit" /\ form' = None
<1> DEFINE payload == SetDeep(Sent(shown), f, v)
           clean == CleanDict(ApiParse(payload))
           doc == DbParse(clean)
<1>0. form' = None
  BY DEF Edit
<1>1. CASE ApiValid(payload) /\ DbValid(stored) /\ DbValid(clean)
  <2>1. stored' = doc /\ Respond("edit", doc)
    BY <1>1 DEF Edit
  <2>2. DbValid(doc) /\ (ApiValid(doc) => ApiValid(Build(doc)))
    <3>1. Build(doc) = Build(clean)
      BY BuildOnce
    <3> QED
      BY <1>1, <3>1, DbValidBuilt, ApiValidBuilt
  <2> HIDE DEF doc
  <2>3. ShowsStored'
    BY <2>1, Responds DEF ShowsStored
  <2>4. SavedLoads'
    BY <2>1, <2>2, Responds DEF SavedLoads
  <2> QED
    BY <1>0, <2>1, <2>3, <2>4, Responds
<1>2. CASE ~(ApiValid(payload) /\ DbValid(stored) /\ DbValid(clean))
  <2>1. last' = "edit" /\ answer' \in {"error", "refused"} /\ UNCHANGED <<stored, shown>>
    BY <1>2 DEF Edit, Refuse, Answer
  <2>2. ShowsStored => ShowsStored'
    BY <2>1 DEF ShowsStored
  <2> QED
    BY <1>0, <2>1, <2>2 DEF SavedLoads
<1> QED
  BY <1>1, <1>2

\* A parse; of a reparse that fails nothing is said, its answer is an error.
LEMMA ParseEffect ==
    ASSUME NEW request \in {"upload", "reparse"}, NEW doc, NEW llm, Parse(request, doc, llm),
           request = "upload" => DbValid(doc)
    PROVE  SavedLoads' /\ ShowsStored' /\ last' = request /\ form' = None
<1> DEFINE clean == CleanDict(ApiParse(llm))
           ok == ApiValid(llm) /\ DbValid(clean)
<1>1. /\ stored' = IF ok THEN DbParse(clean) ELSE doc
      /\ form' = None
      /\ IF ok \/ request = "upload" THEN Respond(request, Build(stored'))
                                     ELSE Answer(request, "error") /\ shown' = None
  BY DEF Parse
<1>2. CASE ok \/ request = "upload"
  <2>1. DbValid(stored')
    BY <1>1, <1>2, DbValidBuilt
  <2>2. Respond(request, Build(stored'))
    BY <1>1, <1>2
  <2>3. SavedLoads'
    BY <2>1, <2>2, Responds DEF SavedLoads
  <2>4. ShowsStored'
    BY <2>2, Responds DEF ShowsStored
  <2> QED
    BY <1>1, <2>2, <2>3, <2>4, Responds
<1>3. CASE ~(ok \/ request = "upload")
  <2>1. last' = request /\ answer' = "error" /\ shown' = None
    BY <1>1, <1>3 DEF Answer
  <2> QED
    BY <1>1, <2>1 DEF SavedLoads, ShowsStored
<1> QED
  BY <1>2, <1>3

LEMMA GetEffect ==
    ASSUME Get
    PROVE  /\ ShowsStored' /\ last' = "get" /\ form' = None
           /\ DbValid(stored) /\ ApiValid(Build(stored)) => answer' = "ok"
<1>1. last' = "get" /\ form' = None /\ stored' = stored
  BY DEF Get, Respond, Answer
<1>2. CASE DbValid(stored)
  <2>1. Respond("get", Build(stored))
    BY <1>2 DEF Get
  <2>2. ShowsStored'
    BY <1>1, <2>1, Responds DEF ShowsStored
  <2> QED
    BY <1>1, <2>1, <2>2 DEF Respond, Answer
<1>3. CASE ~DbValid(stored)
  BY <1>1, <1>3 DEF Get, Answer, ShowsStored
<1> QED
  BY <1>2, <1>3

LEMMA ApplyEffect ==
    ASSUME ApplySuggestion
    PROVE  (ShowsStored => ShowsStored') /\ last' = "apply" /\ form' = None
<1>1. /\ last' = "apply" /\ form' = None
      /\ shown' = None \/ UNCHANGED <<stored, shown>>
  BY DEF ApplySuggestion, Refuse, Answer
<1> QED
  BY <1>1 DEF ShowsStored

LEMMA ExportEffect ==
    ASSUME Export
    PROVE  UNCHANGED <<stored, shown>> /\ last' = "export" /\ form' = None
  BY DEF Export, Answer

---------------------------------------------------------------------------
(* An edit *)

IsCurrentRole == <<"work", "isCurrentRole">>

\* A document with a field of work that went through the API has a value for
\* isCurrentRole, which the store refuses.
LEMMA WorkIsRefused ==
    ASSUME NEW payload, ApiValid(payload), DbValid(CleanDict(ApiParse(payload)))
    PROVE  /\ \A g \in DOMAIN payload : g[1] # "work"
           /\ WorkDefaults(payload) = <<>>
<1> DEFINE parsed == ApiParse(payload)
           kept == [f \in DOMAIN payload \cap ApiFields |->
                        IF f[2] = "lastModified" THEN "date"
                        ELSE ApiNormal(f, payload[f])]
<1>1. parsed = Over(kept, WorkDefaults(payload))
  BY DEF ApiParse
<1>2. ASSUME NEW g \in DOMAIN payload, g[1] = "work" PROVE FALSE
  <2>1. WorkDefaults(payload) = Single(IsCurrentRole, "flag")
    BY <1>2 DEF WorkDefaults, IsCurrentRole
  <2>3. IsCurrentRole \in DOMAIN kept => kept[IsCurrentRole] = "flag"
    BY RoleIsFlag DEF ApiValid, IsCurrentRole, ApiNormal
  <2> HIDE DEF kept
  <2>4. IsCurrentRole \in DOMAIN parsed /\ parsed[IsCurrentRole] = "flag"
    BY <1>1, <2>1, <2>3, OverField
  <2>5. IsCurrentRole \in DOMAIN CleanDict(parsed)
    BY <2>4, FilledFields DEF CleanDict, IsEmpty
  <2> QED
    BY <2>5, NoRole DEF DbValid, IsCurrentRole
<1>3. \A g \in DOMAIN payload : g[1] # "work"
  BY <1>2
<1> QED
  BY <1>3 DEF WorkDefaults

\* What is left then of a document that went through the API.
LEMMA PlainParse ==
    ASSUME NEW payload, WorkDefaults(payload) = <<>>
    PROVE  ApiParse(payload) = [f \in DOMAIN payload \cap ApiFields |->
                                    IF f[2] = "lastModified" THEN "date"
                        ELSE ApiNormal(f, payload[f])]
<1> DEFINE kept == [f \in DOMAIN payload \cap ApiFields |->
                        IF f[2] = "lastModified" THEN "date"
                        ELSE ApiNormal(f, payload[f])]
<1>1. DOMAIN <<>> = {}
  OBVIOUS
<1>2. Over(kept, <<>>) = kept
  BY <1>1 DEF Over
<1> QED
  BY <1>2 DEF ApiParse

\* The fields that the API was given and the store accepted.
LEMMA CleanFields ==
    ASSUME NEW payload, ApiValid(payload), DbValid(CleanDict(ApiParse(payload)))
    PROVE  /\ DOMAIN CleanDict(ApiParse(payload)) =
                  {f \in DOMAIN payload \cap ApiFields : ~IsEmpty(payload[f])}
           /\ \A f \in DOMAIN CleanDict(ApiParse(payload)) :
                  /\ f[2] # "lastModified"
                  /\ CleanDict(ApiParse(payload))[f] = ApiNormal(f, payload[f])
<1> DEFINE parsed == ApiParse(payload)
           clean == CleanDict(parsed)
<1>1. parsed = [f \in DOMAIN payload \cap ApiFields |->
                    IF f[2] = "lastModified" THEN "date"
                        ELSE ApiNormal(f, payload[f])]
  BY WorkIsRefused, PlainParse
<1>2. /\ DOMAIN clean = {f \in DOMAIN payload \cap ApiFields : ~IsEmpty(parsed[f])}
      /\ \A f \in DOMAIN clean : clean[f] = parsed[f]
  BY <1>1, FilledFields DEF CleanDict
\* What is left of lastModified is a date, which the store does not take.
<1>3. ASSUME NEW f \in DOMAIN payload \cap ApiFields, f[2] = "lastModified" PROVE FALSE
  <2>1. parsed[f] = "date"
    BY <1>1, <1>3
  <2>2. f \in DOMAIN clean /\ clean[f] = "date"
    BY <1>2, <2>1 DEF IsEmpty
  <2> QED
    BY <2>2, NoDate DEF DbValid
<1>4. \A f \in DOMAIN payload \cap ApiFields :
         /\ f[2] # "lastModified"
         /\ parsed[f] = ApiNormal(f, payload[f])
         /\ IsEmpty(parsed[f]) <=> IsEmpty(payload[f])
  BY <1>1, <1>3, ApiNormalIs
<1> QED
  BY <1>2, <1>4

\* The document that the page shows, sent back with one field changed, and
\* accepted: what the store keeps of it has the other fields as they were.
LEMMA RestIsKept ==
    ASSUME NEW doc, ApiValid(doc), shown = ApiParse(doc), NEW f, NEW v,
           ApiValid(SetDeep(Sent(shown), f, v)),
           DbValid(CleanDict(ApiParse(SetDeep(Sent(shown), f, v)))),
           NEW g \in ApiFields, g # f
    PROVE  LET clean == CleanDict(ApiParse(SetDeep(Sent(shown), f, v)))
           IN  /\ g \in DOMAIN clean <=> g \in DOMAIN doc /\ ~IsEmpty(doc[g])
               /\ g \in DOMAIN clean => clean[g] = ApiNormal(g, doc[g])
<1> DEFINE payload == SetDeep(Sent(shown), f, v)
           clean == CleanDict(ApiParse(payload))
<1>1. /\ DOMAIN Sent(shown) = DOMAIN shown
      /\ \A h \in DOMAIN shown : Sent(shown)[h] = IF shown[h] = "date" THEN "day" ELSE shown[h]
  BY DEF Sent
<1>2. /\ DOMAIN payload = DOMAIN shown \cup {f}
      /\ \A h \in DOMAIN shown \ {f} : payload[h] = Sent(shown)[h]
  <2>1. payload = Over(Single(f, v), Sent(shown))
    BY DEF SetDeep
  <2>2. /\ DOMAIN Over(Single(f, v), Sent(shown)) = DOMAIN Sent(shown) \cup {f}
        /\ \A h \in DOMAIN Sent(shown) \ {f} :
               Over(Single(f, v), Sent(shown))[h] = Sent(shown)[h]
    BY ONLY OverDocument, Zenon
  <2> QED
    BY ONLY <1>1, <2>1, <2>2
<1>3. /\ \A h \in DOMAIN payload : h[1] # "work"
      /\ DOMAIN clean = {h \in DOMAIN payload \cap ApiFields : ~IsEmpty(payload[h])}
      /\ \A h \in DOMAIN clean : /\ h[2] # "lastModified"
                                /\ clean[h] = ApiNormal(h, payload[h])
  BY WorkIsRefused, CleanFields
<1> HIDE DEF clean, payload
\* The page has no field of work, so that it has no more than the document.
<1>4. shown = [h \in DOMAIN doc \cap ApiFields |->
                   IF h[2] = "lastModified" THEN "date" ELSE ApiNormal(h, doc[h])]
  <2>1. WorkDefaults(doc) = <<>>
    <3>1. SUFFICES ASSUME WorkDefaults(doc) # <<>> PROVE FALSE
      OBVIOUS
    <3>2. WorkDefaults(doc) = Single(IsCurrentRole, "flag")
      BY <3>1 DEF WorkDefaults, IsCurrentRole
    <3>3. IsCurrentRole \in DOMAIN shown
      BY <3>2, OverField DEF ApiParse
    <3> QED
      BY <1>2, <1>3, <3>3 DEF IsCurrentRole
  <2> QED
    BY <2>1, PlainParse
<1>5. g \in DOMAIN payload <=> g \in DOMAIN doc
  BY <1>2, <1>4
<1>6. ASSUME g \in DOMAIN doc
      PROVE  payload[g] = IF g[2] = "lastModified" THEN "day" ELSE ApiNormal(g, doc[g])
  <2>1. ApiNormal(g, doc[g]) # "date"
    BY <1>6, NoApiDate, ApiNormalIs DEF ApiValid
  <2> QED
    BY <1>1, <1>2, <1>4, <1>6, <2>1
<1>7. g \in DOMAIN doc /\ g[2] = "lastModified" => g \in DOMAIN clean
  BY <1>3, <1>5, <1>6 DEF IsEmpty
<1>8. /\ g \in DOMAIN clean <=> g \in DOMAIN doc /\ ~IsEmpty(doc[g])
      /\ g \in DOMAIN clean => clean[g] = ApiNormal(g, doc[g])
  BY <1>3, <1>5, <1>6, <1>7, ApiNormalIs
<1> QED
  BY <1>8 DEF clean, payload

\* What EditKeepsTheRest says of one edit.
RestKept ==
    LET old == Build(stored)
        new == Build(stored')
        same(f) == f \in DOMAIN old \cap DOMAIN new /\ old[f] = new[f]
    IN  \E f \in ApiFields :
           \A g \in (DOMAIN old \cup DOMAIN new) \cap ApiFields : g = f \/ same(g)

LEMMA EditKeeps ==
    ASSUME ShowsStored, NEW f \in ApiFields, NEW v, Edit(f, v), answer' = "ok"
    PROVE  RestKept
<1> DEFINE payload == SetDeep(Sent(shown), f, v)
           clean == CleanDict(ApiParse(payload))
<1>1. ApiValid(payload) /\ DbValid(clean) /\ stored' = DbParse(clean) /\ shown # None
  BY DEF Edit, Refuse, Answer
<1>2. PICK doc \in {stored, Build(stored)} : ApiValid(doc) /\ shown = ApiParse(doc)
  BY <1>1 DEF ShowsStored
<1>3. Build(stored) = Build(doc) /\ Build(stored') = Build(clean)
  BY <1>1, BuildOnce
<1>4. ASSUME NEW g \in ApiFields, g # f
      PROVE  /\ g \in DOMAIN clean <=> g \in DOMAIN doc /\ ~IsEmpty(doc[g])
             /\ g \in DOMAIN clean => clean[g] = ApiNormal(g, doc[g])
  BY <1>1, <1>2, <1>4, RestIsKept
<1> HIDE DEF clean, payload
<1>5. ASSUME NEW g \in (DOMAIN Build(doc) \cup DOMAIN Build(clean)) \cap ApiFields, g # f
      PROVE  /\ g \in DOMAIN Build(doc) \cap DOMAIN Build(clean)
             /\ Build(doc)[g] = Build(clean)[g]
  <2>1. /\ g \in DOMAIN Build(doc) <=> g \in DOMAIN doc /\ ~IsEmpty(Trim(doc[g]))
        /\ g \in DOMAIN Build(doc) => Build(doc)[g] = DbNormal(g, Trim(doc[g]))
    BY BuildFields
  <2>2. /\ g \in DOMAIN Build(clean) <=> g \in DOMAIN clean /\ ~IsEmpty(Trim(clean[g]))
        /\ g \in DOMAIN Build(clean) => Build(clean)[g] = DbNormal(g, Trim(clean[g]))
    BY BuildFields
  <2>3. g \in DOMAIN doc /\ ~IsEmpty(Trim(doc[g])) => ~IsEmpty(doc[g])
    BY TrimEmpty
  <2>4. g \in DOMAIN clean =>
           /\ DbNormal(g, Trim(clean[g])) = DbNormal(g, Trim(doc[g]))
           /\ IsEmpty(Trim(clean[g])) <=> IsEmpty(Trim(doc[g]))
    BY <1>4, <1>5, ApiNormalIs
  <2> QED
    BY <1>4, <1>5, <2>1, <2>2, <2>3, <2>4
<1> QED
  BY <1>3, <1>5 DEF RestKept

---------------------------------------------------------------------------
(* A new form *)

\* A value that is well-formed for a field that the API has, other than a date
\* or one of work: nothing trims it, and both schemas take it.
Plain(f, v) ==
    /\ WellFormed(f, v)
    /\ f \in ApiFields
    /\ f[1] # "work"
    /\ Kind(f[2]) # "date"
    /\ f[2] # "lastModified"

LEMMA PlainIsTaken ==
    ASSUME NEW f \in FormFields, NEW v, Plain(f, v)
    PROVE  /\ Trim(v) = v /\ ~IsEmpty(v)
           /\ v \in ApiTakes[f]
           /\ f \in DbFields /\ ApiNormal(f, v) \in DbTakes[f]
           /\ DbNormal(f, v) \in ApiTakes[f]
<1>1. v \in Raw \cup {"mail", "code", "link", "items", "word"}
  BY DEF Plain, WellFormed, Raw
<1>2. Trim(v) = v /\ ~IsEmpty(v)
  BY <1>1 DEF Trim, IsEmpty, Raw
<1>3. v \in ApiTakes[f]
  <2>1. Kind(f[2]) # "flag"
    BY NoFormFlag DEF Kind
  <2>2. Kind(f[2]) = "url" => v \in {"link", "rawlink"}
    BY DEF Plain, WellFormed, Kind
  <2>3. Kind(f[2]) = "list" => v = "items"
    BY DEF Plain, WellFormed, Kind
  <2>4. f \in ApiFields /\ f[2] # "lastModified" /\ Kind(f[2]) # "date"
    BY DEF Plain
  <2>5. CASE Kind(f[2]) = "url"
    <3>1. ApiTakes[f] = {"link", "rawlink"}
      BY <2>4, <2>5 DEF ApiTakes
    <3> QED
      BY <2>2, <2>5, <3>1
  <2>6. CASE Kind(f[2]) = "list"
    <3>1. ApiTakes[f] = Lists
      BY <2>4, <2>6 DEF ApiTakes
    <3> QED
      BY <2>3, <2>6, <3>1 DEF Lists
  <2>7. CASE Kind(f[2]) \notin {"url", "list"}
    <3>1. ApiTakes[f] = Strings
      BY <2>1, <2>4, <2>7 DEF ApiTakes
    <3>2. v \in {"mail", "rawmail", "code", "rawcode", "word"}
      BY <2>4, <2>7 DEF Plain, WellFormed
    <3> QED
      BY <3>1, <3>2 DEF Strings, Raw
  <2> QED
    BY <2>5, <2>6, <2>7
<1>4. f \in DbFields
  BY FormInDb
<1>5. v \in DbTakes[f]
  BY <1>1, <1>4 DEF Plain, WellFormed, DbTakes, Strings, Raw, Lists, Kind
<1>6. ApiNormal(f, v) \in DbTakes[f]
  <2>1. CASE v = "rawlink" /\ Kind(f[2]) = "url"
    <3>1. ApiNormal(f, v) = "link" /\ f[2] # "email" /\ f[2] # "countryCode"
      BY <2>1 DEF ApiNormal, Kind
    <3> QED
      BY <1>4, <2>1, <3>1 DEF DbTakes
  <2>2. CASE ~(v = "rawlink" /\ Kind(f[2]) = "url")
    BY <1>5, <2>2 DEF ApiNormal
  <2> QED
    BY <2>1, <2>2
<1>7. DbNormal(f, v) \in ApiTakes[f]
  <2>1. CASE DbNormal(f, v) = v
    BY <1>3, <2>1
  <2>2. CASE v = "rawlink" /\ Kind(f[2]) = "url"
    <3>1. DbNormal(f, v) = "link"
      BY <2>2 DEF DbNormal
    <3>2. ApiTakes[f] = {"link", "rawlink"}
      BY <2>2 DEF ApiTakes, Plain, Kind
    <3> QED
      BY <3>1, <3>2
  <2>3. CASE v \in {"rawmail", "rawcode"} /\ DbNormal(f, v) # v
    <3>1. f[2] \in {"email", "countryCode"} /\ DbNormal(f, v) \in {"mail", "code"}
      BY <2>3 DEF DbNormal
    <3>2. ApiTakes[f] = Strings
      BY <3>1 DEF ApiTakes, Plain, Kind
    <3> QED
      BY <3>1, <3>2 DEF Strings
  <2> QED
    BY <2>1, <2>2, <2>3 DEF DbNormal
<1> QED
  BY <1>2, <1>3, <1>4, <1>6, <1>7

\* The document with every value as the store writes it.
Written(doc) == [f \in DOMAIN doc |-> DbNormal(f, doc[f])]

\* A document of plain values is accepted by both schemas, and all that the
\* conversions do is to write its values as the store does.
LEMMA PlainPasses ==
    ASSUME NEW doc, DOMAIN doc \subseteq FormFields,
           \A f \in DOMAIN doc : Plain(f, doc[f])
    PROVE  /\ ApiValid(doc) /\ DbValid(CleanDict(ApiParse(doc)))
           /\ Build(DbParse(CleanDict(ApiParse(doc)))) = Written(doc)
           /\ ApiValid(Written(doc)) /\ ApiParse(Written(doc)) = Written(doc)
<1> DEFINE parsed == ApiParse(doc)
<1>1. \A f \in DOMAIN doc :
         /\ Trim(doc[f]) = doc[f] /\ ~IsEmpty(doc[f])
         /\ doc[f] \in ApiTakes[f] /\ DbNormal(f, doc[f]) \in ApiTakes[f]
         /\ f \in DbFields /\ ApiNormal(f, doc[f]) \in DbTakes[f]
  BY PlainIsTaken
<1>2. DOMAIN doc \cap ApiFields = DOMAIN doc /\ \A f \in DOMAIN doc : f[2] # "lastModified"
  BY DEF Plain
<1>3. ASSUME NEW d, DOMAIN d = DOMAIN doc
      PROVE  ApiParse(d) = [f \in DOMAIN doc |-> ApiNormal(f, d[f])]
  <2>1. WorkDefaults(d) = <<>>
    BY <1>3 DEF WorkDefaults, Plain
  <2>2. ApiParse(d) = [f \in DOMAIN d \cap ApiFields |-> IF f[2] = "lastModified" THEN "date"
                                                        ELSE ApiNormal(f, d[f])]
    BY <2>1, PlainParse
  <2> QED
    BY <1>2, <1>3, <2>2
<1>4. parsed = [f \in DOMAIN doc |-> ApiNormal(f, doc[f])]
  BY <1>3
<1> HIDE DEF parsed
<1>5. CleanDict(parsed) = parsed
  <2>1. {f \in DOMAIN parsed : ~IsEmpty(parsed[f])} = DOMAIN parsed
    BY <1>1, <1>4, ApiNormalIs
  <2>2. CleanDict(parsed) = [f \in DOMAIN parsed |-> parsed[f]]
    BY <2>1 DEF CleanDict, Filled, Restrict
  <2> QED
    BY <1>4, <2>2
<1>6. ApiValid(doc) /\ DbValid(parsed)
  BY <1>1, <1>4 DEF ApiValid, DbValid
<1>7. Build(DbParse(parsed)) = Written(doc)
  <2>0. Build(DbParse(parsed)) = Build(parsed)
    BY BuildOnce
  <2>1. Build(parsed) = [f \in {g \in DOMAIN parsed : ~IsEmpty(Trim(parsed[g]))} |->
                                     DbNormal(f, Trim(parsed[f]))]
    BY BuildIs
  <2>2. \A f \in DOMAIN doc : /\ ~IsEmpty(Trim(parsed[f]))
                              /\ DbNormal(f, Trim(parsed[f])) = DbNormal(f, doc[f])
    BY <1>1, <1>4, ApiNormalIs
  <2>3. DOMAIN parsed = DOMAIN doc
    BY <1>4
  <2> QED
    BY <2>0, <2>1, <2>2, <2>3 DEF Written
<1>8. DOMAIN Written(doc) = DOMAIN doc /\ \A f \in DOMAIN doc : Written(doc)[f] = DbNormal(f, doc[f])
  BY DEF Written
<1>9. ApiValid(Written(doc))
  BY <1>1, <1>8 DEF ApiValid
<1>10. ApiParse(Written(doc)) = Written(doc)
  <2>1. ApiParse(Written(doc)) = [f \in DOMAIN doc |-> ApiNormal(f, Written(doc)[f])]
    BY <1>3, <1>8
  <2>2. \A f \in DOMAIN doc : ApiNormal(f, Written(doc)[f]) = DbNormal(f, doc[f])
    BY <1>8, ApiNormalIs
  <2> QED
    BY <2>1, <2>2 DEF Written
<1> QED
  BY <1>5, <1>6, <1>7, <1>9, <1>10 DEF parsed

\* The form that is sent has fields of forms only.
LEMMA SubmitEffect ==
    ASSUME SubmitForm
    PROVE  /\ Create(ToJsonResume(form'))
           /\ DOMAIN form' \subseteq FormFields
<1>1. PICK filled \in Documents(FormFields, Inputs) :
         LET filledIn == Over(filled, EmptyForm({f[1] : f \in DOMAIN filled}))
         IN  form' = filledIn /\ Create(ToJsonResume(filledIn))
  BY DEF SubmitForm
<1>2. DOMAIN filled \subseteq FormFields
  <2>1. ASSUME NEW d \in Entries(FormFields, Inputs) PROVE DOMAIN d \subseteq FormFields
    <3>1. PICK f \in FormFields : \E v \in Inputs(f) : d = Single(f, v)
      BY <2>1 DEF Entries
    <3> QED
      BY <3>1 DEF Single
  <2>2. PICK d \in Entries(FormFields, Inputs), e \in Entries(FormFields, Inputs) :
            filled = Over(d, e)
    BY DEF Documents
  <2>3. DOMAIN filled = DOMAIN d \cup DOMAIN e
    BY <2>2 DEF Over
  <2> QED
    BY <2>1, <2>3
<1>3. DOMAIN EmptyForm({f[1] : f \in DOMAIN filled}) \subseteq FormFields
  BY DEF EmptyForm
<1>4. DOMAIN form' = DOMAIN filled \cup DOMAIN EmptyForm({f[1] : f \in DOMAIN filled})
  BY <1>1 DEF Over
<1> QED
  BY <1>1, <1>2, <1>3, <1>4

LEMMA PlainFormStep ==
    ASSUME SubmitForm
    PROVE  PlainFormsAreStored'
<1> SUFFICES ASSUME \A f \in FilledIn' : Plain(f, form'[f])
             PROVE  CameBack'
  BY DEF PlainFormsAreStored, Plain
<1> DEFINE doc == ToJsonResume(form')
<1>1. Create(doc) /\ DOMAIN form' \subseteq FormFields
  BY SubmitEffect
<1>2. doc = [f \in FilledIn' |-> Trim(form'[f])]
  BY PruneIs DEF ToJsonResume, PruneEmpty, Prune, FilledIn
<1> HIDE DEF doc
<1>3. FilledIn' \subseteq DOMAIN form'
  BY DEF FilledIn
<1>4. \A f \in FilledIn' : f \in FormFields /\ Trim(form'[f]) = form'[f]
  BY <1>1, <1>3, PlainIsTaken
<1>5. DOMAIN doc = FilledIn' /\ \A f \in FilledIn' : doc[f] = form'[f]
  BY <1>2, <1>4
<1>6. DOMAIN doc \subseteq FormFields /\ \A f \in DOMAIN doc : Plain(f, doc[f])
  BY <1>4, <1>5
<1>7. Respond("create", Written(doc))
  BY <1>1, <1>6, PlainPasses DEF Create
<1>8. answer' = "ok" /\ shown' = Written(doc)
  BY <1>6, <1>7, PlainPasses DEF Respond, Answer
<1>9. DOMAIN shown' = FilledIn' /\ \A f \in FilledIn' : shown'[f] = DbNormal(f, form'[f])
  BY <1>5, <1>8 DEF Written
<1> QED
  BY <1>3, <1>8, <1>9 DEF CameBack

---------------------------------------------------------------------------
(* Theorems *)

FormatInv == SavedLoads /\ ShowsStored /\ PlainFormsAreStored

LEMMA FormatInvInit == Init => FormatInv
  BY DEF Init, FormatInv, SavedLoads, ShowsStored, PlainFormsAreStored

LEMMA FormGone == ASSUME form' = None PROVE PlainFormsAreStored'
  BY DEF PlainFormsAreStored

\* The document that a failed upload leaves is empty, and valid.
LEMMA NothingIsValid == DbValid(<<>>)
<1>1. DOMAIN <<>> = {}
  OBVIOUS
<1> QED
  BY <1>1 DEF DbValid

LEMMA FormatInvStep == FormatInv /\ [Next]_vars => FormatInv'
<1> SUFFICES ASSUME FormatInv, [Next]_vars PROVE FormatInv'
  OBVIOUS
<1>0. ShowsStored
  BY DEF FormatInv
<1>1. CASE SubmitForm
  BY <1>0, <1>1, SubmitEffect, CreateEffect, PlainFormStep DEF FormatInv
<1>2. CASE CreateByApi
  <2>1. form' = None /\ \E payload : Create(payload)
    BY <1>2 DEF CreateByApi
  <2> QED
    BY <1>0, <2>1, CreateEffect, FormGone DEF FormatInv
<1>3. CASE EditField \/ PatchByApi
  <2>1. PICK f, v : Edit(f, v)
    BY <1>3 DEF EditField, PatchByApi
  <2> QED
    BY <1>0, <2>1, EditEffect, FormGone DEF FormatInv
<1>4. CASE Get
  BY <1>4, GetEffect, FormGone DEF FormatInv, SavedLoads
<1>5. CASE Upload
  <2>1. PICK llm : Parse("upload", <<>>, llm)
    BY <1>5 DEF Upload
  <2> QED
    BY <2>1, ParseEffect, NothingIsValid, FormGone DEF FormatInv
<1>6. CASE Reparse
  <2>1. PICK llm : Parse("reparse", Build(stored), llm)
    BY <1>6 DEF Reparse
  <2> QED
    BY <2>1, ParseEffect, FormGone DEF FormatInv
<1>7. CASE ApplySuggestion
  BY <1>0, <1>7, ApplyEffect, FormGone DEF FormatInv, SavedLoads
<1>8. CASE Export
  BY <1>0, <1>8, ExportEffect, FormGone DEF FormatInv, SavedLoads, ShowsStored
<1>9. CASE UNCHANGED vars
  BY <1>9 DEF vars, FormatInv, SavedLoads, ShowsStored, PlainFormsAreStored, FilledIn, CameBack
<1> QED
  BY <1>1, <1>2, <1>3, <1>4, <1>5, <1>6, <1>7, <1>8, <1>9 DEF Next

\* What was saved can be loaded, and the page shows what is stored, whatever
\* sections and however many fields the document has.
THEOREM FormatInvariance == Spec => []FormatInv
  BY FormatInvInit, FormatInvStep, PTL DEF Spec

\* toJsonResume, create_resume and the response give a well-formed form back,
\* if all three schemas have its fields: nothing in it is pruned, renamed or
\* refused on the way, and the only change is the way in which the store writes
\* URLs, addresses and country codes.
THEOREM PlainFormsAreStoredCorrect == Spec => []PlainFormsAreStored
<1>1. FormatInv => PlainFormsAreStored
  BY DEF FormatInv
<1> QED
  BY <1>1, FormatInvariance, PTL

\* update_resume replaces the whole document by what the page sends of it,
\* and loses no other field that the API knows.
THEOREM EditKeepsTheRestCorrect == Spec => EditKeepsTheRest
<1>1. FormatInv /\ [Next]_vars => [last' = "edit" /\ answer' = "ok" => RestKept]_vars
  <2> SUFFICES ASSUME FormatInv, Next, last' = "edit", answer' = "ok" PROVE RestKept
    OBVIOUS
  <2>1. EditField \/ PatchByApi
    BY SubmitEffect, CreateEffect, GetEffect, ParseEffect, ApplyEffect, ExportEffect,
       NothingIsValid DEF Next, CreateByApi, Upload, Reparse
  <2>2. PICK f \in ApiFields : \E v : Edit(f, v)
    BY <2>1, EditableInApi DEF EditField, PatchByApi
  <2> QED
    BY <2>2, EditKeeps DEF FormatInv
<1> QED
  BY <1>1, FormatInvariance, PTL DEF Spec, EditKeepsTheRest, RestKept

\* A document that a creation, an edit or a parse has saved passes the
\* validation of the store and of the response when it is loaded again.
THEOREM SavedCanBeShownCorrect == Spec => SavedCanBeShown
<1>1. FormatInv /\ [Next]_vars =>
        [(last \in {"create", "edit", "upload", "reparse"} /\ answer = "ok" /\ last' = "get")
          => answer' = "ok"]_vars
  <2> SUFFICES ASSUME FormatInv, Next, last' = "get", answer = "ok",
                      last \in {"create", "edit", "upload", "reparse"}
               PROVE  answer' = "ok"
    OBVIOUS
  <2>1. Get
    BY SubmitEffect, CreateEffect, EditEffect, ParseEffect, ApplyEffect, ExportEffect,
       NothingIsValid
       DEF Next, CreateByApi, Upload, Reparse, EditField, PatchByApi
  <2> QED
    BY <2>1, GetEffect DEF FormatInv, SavedLoads
<1> QED
  BY <1>1, FormatInvariance, PTL DEF Spec, SavedCanBeShown
=============================================================================
