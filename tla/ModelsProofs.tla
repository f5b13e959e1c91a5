---------------------------- MODULE ModelsProofs ----------------------------
(***************************************************************************)
(* Safety of the AI models and of the LLM calls for any number of admin    *)
(* requests, models, usages and runs: types, the keys that are stored, the *)
(* guard of a deletion, and the provider of a run.                         *)
(***************************************************************************)
EXTENDS LlmCalls, TLAPS

USE ModelsAssumption, SeedAssumption, MastersAssumption, NoneAssumption,
    UsageOfAssumption, CallsAssumption

---------------------------------------------------------------------------
(* The invariant *)

Labels == {"idle", "create", "update", "rotate_ping", "rotate_get", "rotate",
           "count", "delete_get", "delete"} \cup Answers

ModelsTyped ==
    /\ model \in [Models -> ModelDoc \cup {NoModel}]
    /\ settings \in SettingsDoc
    /\ pinged \subseteq Requests \X Names

AdminTyped ==
    /\ pc \in [Requests -> Labels]
    /\ about \in [Requests -> Models \cup {None}]
    /\ copy \in [Requests -> ModelDoc \cup {NoModel} \cup NewDoc]
    /\ todo \in [Requests -> SUBSET Usages]
    /\ lone \subseteq Requests

RunsTyped ==
    /\ at \in [Runs -> {"idle", "call", "done", "failed"}]
    /\ provider \in [Runs -> {"none", "fake", "real"}]
    /\ returned \in [Runs -> Seq({"fake", "real"})]

\* A request that is about a model has loaded it; no other has one yet.
Holding == {"update", "rotate_ping", "rotate_get", "rotate", "count", "delete_get", "delete"}

AboutAgrees ==
    \A r \in Requests :
        /\ pc[r] \in {"idle", "create"} => about[r] = None
        /\ pc[r] = "create" => copy[r] \in NewDoc
        /\ pc[r] \in Holding =>
              about[r] \in Models /\ copy[r] \in ModelDoc /\ settings.master # None

\* The name of a model never changes, so a copy has it, even when the model was
\* deleted and its id is still in somebody's hands.
NamesAgree ==
    /\ \A r \in Requests : about[r] # None => copy[r].name \in Names
    /\ \A r \in Requests : about[r] # None /\ model[about[r]] # NoModel =>
          copy[r].name = model[about[r]].name
    /\ \A r, q \in Requests : about[r] # None /\ about[r] = about[q] =>
          copy[r].name = copy[q].name

\* The key of a document was tried with the name of that document.
Tried(doc, pairs) == doc.key = Seed \/ <<doc.key, doc.name>> \in pairs

KeysAgree ==
    /\ \A m \in Models : model[m] # NoModel => Tried(model[m], pinged)
    /\ \A r \in Requests : about[r] # None => Tried(copy[r], pinged)
    /\ \A r \in Requests : pc[r] \in {"create", "rotate_get", "rotate"} =>
          <<r, copy[r].name>> \in pinged

Deleting == {"count", "delete_get", "delete"}

\* A deletion that nothing has disturbed has found another model for each usage
\* of the one it deletes, or is still counting it.
DeleteAgrees ==
    \A r \in lone, u \in Usages :
        /\ pc[r] \in Deleting
        /\ about[r] \in Serving(u)
        => (pc[r] = "count" /\ u \in todo[r]) \/ Remaining(r, u) # {}

\* Every output of a run is of its provider, which is chosen before the first.
ProviderAgrees ==
    \A x \in Runs :
        /\ at[x] = "idle" => returned[x] = <<>>
        /\ \A i \in DOMAIN returned[x] : returned[x][i] = provider[x]

MInv ==
    /\ TypeOK
    /\ AboutAgrees /\ NamesAgree /\ KeysAgree
    /\ DeleteAgrees
    /\ ProviderAgrees

---------------------------------------------------------------------------
(* What a step of an admin request does to the documents and to its copy. *)

Waits(r) ==
    /\ UNCHANGED <<model, about, copy>>
    /\ pinged \subseteq pinged' /\ pinged' \subseteq Requests \X Names

Drafts(r) ==
    /\ about[r] = None
    /\ UNCHANGED <<model, about>>
    /\ \E d \in NewDoc : copy' = [copy EXCEPT ![r] = d]
    /\ pinged \subseteq pinged' /\ pinged' \subseteq Requests \X Names

Loads(r) ==
    /\ \E m \in Models :
          /\ model[m] # NoModel
          /\ copy' = [copy EXCEPT ![r] = model[m]]
          /\ about' = [about EXCEPT ![r] = m]
    /\ UNCHANGED <<model, pinged>>

Writes(r) ==
    /\ about[r] \in Models
    /\ \E doc \in ModelDoc :
          /\ doc.name = copy[r].name /\ Tried(doc, pinged)
          /\ model' = [model EXCEPT ![about[r]] = doc]
    /\ UNCHANGED <<about, copy, pinged>>

Inserts(r) ==
    /\ \E m \in Models, doc \in ModelDoc :
          /\ \A q \in Requests : about[q] # m
          /\ doc.name = copy[r].name /\ Tried(doc, pinged)
          /\ Tried(copy[r], pinged)
          /\ model' = [model EXCEPT ![m] = doc]
          /\ about' = [about EXCEPT ![r] = m]
    /\ UNCHANGED <<copy, pinged>>

Removes(r) ==
    /\ about[r] \in Models
    /\ model' = [model EXCEPT ![about[r]] = NoModel]
    /\ UNCHANGED <<about, copy, pinged>>

DocEffect(r) ==
    Waits(r) \/ Drafts(r) \/ Loads(r) \/ Writes(r) \/ Inserts(r) \/ Removes(r)

\* Where it goes, and what it has got there.
Goes(r) ==
    /\ \E l \in Labels \ {"idle"} :
          /\ pc' = [pc EXCEPT ![r] = l]
          /\ l = "create" => about'[r] = None /\ copy'[r] \in NewDoc
          /\ l \in Holding =>
                about'[r] \in Models /\ copy'[r] \in ModelDoc /\ settings.master # None
          /\ l \in {"create", "rotate_get", "rotate"} => <<r, copy'[r].name>> \in pinged'
    /\ todo' \in [Requests -> SUBSET Usages]
    /\ lone' \subseteq Requests
    /\ UNCHANGED settings

---------------------------------------------------------------------------
LEMMA DocFacts ==
    /\ NoModel \notin ModelDoc /\ NoModel.name = None /\ NoModel.key = Seed
    /\ \A d \in ModelDoc : d.name \in Names /\ d.usages \in SUBSET Usages
    /\ \A d \in NewDoc : d.name \in Names /\ d.key = Seed
    /\ \A n \in Names : [NoModel EXCEPT !.name = n] \in NewDoc
<1>1. NoModel \notin ModelDoc /\ NoModel.name = None /\ NoModel.key = Seed
  BY DEF NoModel, ModelDoc
<1>2. \A d \in ModelDoc : d.name \in Names /\ d.usages \in SUBSET Usages
  BY DEF ModelDoc
<1>3. \A n \in Names : LET d == [NoModel EXCEPT !.name = n] IN
          d \in NewDoc /\ d.name = n /\ d.key = Seed
  BY DEF NewDoc, NoModel
<1>4. \A d \in NewDoc : d.name \in Names /\ d.key = Seed
  <2> TAKE d \in NewDoc
  <2>1. PICK n \in Names : d = [NoModel EXCEPT !.name = n]
    BY Zenon DEF NewDoc
  <2> QED
    BY <1>3, <2>1, Zenon
<1> QED
  BY <1>1, <1>2, <1>3, <1>4

LEMMA NewFacts ==
    ASSUME NEW n \in Names, NEW us \in SUBSET Usages, NEW k \in Keys, NEW ms \in Masters,
           NEW e, e = [name |-> n, active |-> TRUE, usages |-> us, key |-> k, master |-> ms]
    PROVE  e \in ModelDoc /\ e.name = n /\ e.key = k
  BY DEF ModelDoc

LEMMA TypeParts == TypeOK <=> ModelsTyped /\ AdminTyped /\ RunsTyped
  BY DEF TypeOK, ModelsTyped, AdminTyped, RunsTyped, Labels

\* The same of the next state.
LEMMA TypeJoin ==
    ASSUME ModelsTyped', AdminTyped', RunsTyped'
    PROVE  TypeOK'
  BY DEF TypeOK, ModelsTyped, AdminTyped, RunsTyped, Labels

LEMMA LabelFacts ==
    /\ "idle" \notin Holding /\ "create" \notin Holding
    /\ Holding \subseteq Labels /\ "create" \in Labels
    /\ Answers \subseteq Labels \ {"idle", "create"} /\ Answers \cap Holding = {}
    /\ \A l \in Holding : l # "idle" /\ l # "create"
    /\ \A l \in Answers : l \notin {"create", "rotate_get", "rotate"}
    /\ {"ok", "refused", "error", "lost"} = Answers
  BY DEF Holding, Labels, Answers

---------------------------------------------------------------------------
(* Each action has one of the effects. *)

\* What the effect of a step has to be shown from.
Start == TypeOK /\ AboutAgrees /\ NamesAgree /\ KeysAgree

LEMMA StartFacts ==
    ASSUME Start, NEW r \in Requests
    PROVE  /\ pc[r] \in {"idle", "create"} => about[r] = None
           /\ pc[r] \in Holding => about[r] \in Models /\ copy[r] \in ModelDoc
                                    /\ settings.master # None /\ copy[r].name \in Names /\ Tried(copy[r], pinged)
                                    /\ (model[about[r]] # NoModel =>
                                          model[about[r]].name = copy[r].name)
           /\ pc[r] = "create" => copy[r] \in NewDoc
           /\ pc[r] \in {"create", "rotate_get", "rotate"} => <<r, copy[r].name>> \in pinged
           /\ \A m \in Models : model[m] # NoModel => model[m] \in ModelDoc
           /\ model \in [Models -> ModelDoc \cup {NoModel}]
           /\ settings \in SettingsDoc /\ settings.master \in Masters \cup {None}
           /\ pinged \subseteq Requests \X Names
           /\ pc \in [Requests -> Labels]
           /\ about \in [Requests -> Models \cup {None}]
           /\ copy \in [Requests -> ModelDoc \cup {NoModel} \cup NewDoc]
           /\ todo \in [Requests -> SUBSET Usages] /\ lone \subseteq Requests
<1>1. ModelsTyped /\ AdminTyped
  BY TypeParts, Zenon DEF Start
<1>2. settings.master \in Masters \cup {None}
  BY <1>1 DEF ModelsTyped, SettingsDoc
<1>3. \A m \in Models : model[m] # NoModel => model[m] \in ModelDoc
  BY <1>1 DEF ModelsTyped
<1>4. pc[r] \in Holding => /\ about[r] \in Models /\ copy[r] \in ModelDoc
                          /\ settings.master # None /\ copy[r].name \in Names
  BY DocFacts, Zenon DEF Start, AboutAgrees
<1>5. pc[r] \in Holding => about[r] # None
  BY <1>4
<1>6. pc[r] \in Holding => Tried(copy[r], pinged) /\ (model[about[r]] # NoModel =>
                                          model[about[r]].name = copy[r].name)
  BY <1>5 DEF Start, NamesAgree, KeysAgree
<1>7. /\ pc[r] = "create" => copy[r] \in NewDoc
      /\ pc[r] \in {"create", "rotate_get", "rotate"} => <<r, copy[r].name>> \in pinged
      /\ pc[r] \in {"idle", "create"} => about[r] = None
  BY DEF Start, NamesAgree, KeysAgree, AboutAgrees
<1> QED
  BY <1>1, <1>2, <1>3, <1>4, <1>6, <1>7 DEF ModelsTyped, AdminTyped

\* Get stays with what it was given, or loads the model.
LEMMA GetEffect ==
    ASSUME Start, NEW r \in Requests, NEW m \in Models, NEW l \in Holding,
           Get(r, m, l), UNCHANGED <<model, settings, pinged>>,
           todo' \in [Requests -> SUBSET Usages], lone' \subseteq Requests,
           l \notin {"rotate_get"},
           l = "rotate" => <<r, copy[r].name>> \in pinged /\ about[r] = m /\ pc[r] \in Holding
    PROVE  DocEffect(r) /\ Goes(r)
<1>1. CASE settings.master # None /\ Stored(m) /\ Load(r, m, l)
  <2>1. Loads(r)
    BY <1>1 DEF Stored, Load, Loads
  <2>2. model[m] \in ModelDoc
    BY <1>1, StartFacts DEF Stored
  <2>3. about'[r] = m /\ copy'[r] = model[m]
    BY <1>1, StartFacts DEF Load
  <2>4. l = "rotate" => copy'[r].name = copy[r].name
    BY <1>1, <2>3, StartFacts DEF Stored
  <2>5. /\ pc' = [pc EXCEPT ![r] = l] /\ l \in Labels \ {"idle"} /\ l # "create"
        /\ about'[r] \in Models /\ copy'[r] \in ModelDoc /\ settings.master # None
        /\ l \in {"create", "rotate_get", "rotate"} => <<r, copy'[r].name>> \in pinged'
    BY <1>1, <2>2, <2>3, <2>4, LabelFacts DEF Load, Goto
  <2> QED
    BY <2>1, <2>5 DEF DocEffect, Goes
<1>2. ASSUME NEW a \in {"error", "refused"}, Goto(r, a), UNCHANGED <<about, copy>>
      PROVE  DocEffect(r) /\ Goes(r)
  <2>1. Waits(r)
    BY <1>2, StartFacts DEF Waits
  <2>2. a \in Answers
    BY DEF Answers
  <2> QED
    BY <1>2, <2>1, <2>2, LabelFacts DEF DocEffect, Goes, Goto
<1> QED
  BY <1>1, <1>2 DEF Get

\* Save writes the document or raises.
LEMMA SaveEffect ==
    ASSUME Start, NEW r \in Requests, pc[r] \in Holding, NEW doc \in ModelDoc,
           doc.name = copy[r].name, Tried(doc, pinged), Save(r, doc),
           UNCHANGED <<settings, about, copy, todo, pinged>>
    PROVE  DocEffect(r) /\ Goes(r)
<1>1. about[r] \in Models /\ "ok" \in Answers /\ "error" \in Answers
  BY StartFacts DEF Answers
<1>2. CASE Put(r, about[r], doc) /\ Goto(r, "ok")
  <2>1. Writes(r)
    BY <1>1, <1>2 DEF Writes, Put
  <2>2. lone' \subseteq Requests
    BY <1>2, StartFacts DEF Put
  <2> QED
    BY <1>1, <1>2, <2>1, <2>2, StartFacts, LabelFacts DEF DocEffect, Goes, Goto
<1>3. CASE Goto(r, "error") /\ UNCHANGED <<model, lone>>
  <2>1. Waits(r)
    BY <1>3, StartFacts DEF Waits
  <2> QED
    BY <1>1, <1>3, <2>1, StartFacts, LabelFacts DEF DocEffect, Goes, Goto
<1> QED
  BY <1>2, <1>3 DEF Save

\* A key is tried before anything is loaded or after.
LEMMA ValidateEffect ==
    ASSUME Start, NEW r \in Requests, NEW name \in Names,
           NEW l \in {"create", "rotate_get"}, ValidateKey(r, name, l),
           UNCHANGED <<model, settings, about, todo, lone>>,
           copy'[r].name = name,
           l = "create" => /\ about[r] = None /\ copy'[r] \in NewDoc
                           /\ \E d \in NewDoc : copy' = [copy EXCEPT ![r] = d],
           l = "rotate_get" => UNCHANGED copy /\ pc[r] \in Holding
    PROVE  DocEffect(r) /\ Goes(r)
<1>1. pinged \subseteq pinged' /\ pinged' \subseteq Requests \X Names
  <2>1. pinged \subseteq Requests \X Names
    BY StartFacts
  <2>2. pinged' = pinged \/ pinged' = pinged \cup {<<r, name>>}
    BY DEF ValidateKey
  <2> QED
    BY <2>1, <2>2
<1>2. Waits(r) \/ Drafts(r)
  BY <1>1 DEF Waits, Drafts
<1>3. CASE Goto(r, l) /\ pinged' = pinged \cup {<<r, name>>}
  BY <1>2, <1>3, StartFacts, LabelFacts DEF DocEffect, Goes, Goto, Labels
<1>4. CASE Goto(r, "refused")
  <2>1. "refused" \in Answers
    BY DEF Answers
  <2> QED
    BY <1>2, <1>4, <2>1, StartFacts, LabelFacts DEF DocEffect, Goes, Goto
<1> QED
  BY <1>3, <1>4 DEF ValidateKey

LEMMA AdminEffect ==
    ASSUME Start, NEW r \in Requests, AdminStep(r)
    PROVE  DocEffect(r) /\ Goes(r)
<1>1. ASSUME NEW name \in Names, CreatePing(r, name)
      PROVE  DocEffect(r) /\ Goes(r)
  <2> DEFINE d == [NoModel EXCEPT !.name = name]
  <2>1. d \in NewDoc /\ d.name = name
    <3>1. d \in NewDoc
      BY DocFacts, Zenon
    <3>2. d.name = name
      BY DEF NoModel
    <3> QED
      BY <3>1, <3>2
  <2>2. about[r] = None /\ copy \in [Requests -> ModelDoc \cup {NoModel} \cup NewDoc]
    BY <1>1, StartFacts DEF CreatePing
  <2>3. copy' = [copy EXCEPT ![r] = d]
    BY <1>1 DEF CreatePing
  <2> HIDE DEF d
  <2>4. copy'[r] \in NewDoc /\ copy'[r].name = name
    BY <2>1, <2>2, <2>3
  <2> QED
    BY <1>1, <2>1, <2>2, <2>3, <2>4, ValidateEffect DEF CreatePing
<1>2. CASE CreateInsert(r)
  <2> about[r] = None /\ copy[r] \in NewDoc /\ <<r, copy[r].name>> \in pinged
    BY <1>2, StartFacts DEF CreateInsert
  <2> copy[r].name \in Names /\ copy[r].key = Seed
    BY DocFacts
  <2> UNCHANGED <<settings, copy, todo, pinged>>
    BY <1>2 DEF CreateInsert
  <2> "ok" \in Answers /\ "error" \in Answers /\ "refused" \in Answers
    BY DEF Answers
  <2>1. ASSUME NEW a \in Answers, Goto(r, a), UNCHANGED <<model, about, lone>>
        PROVE  DocEffect(r) /\ Goes(r)
    <3>1. Waits(r)
      BY <2>1, StartFacts DEF Waits
    <3> QED
      BY <2>1, <3>1, StartFacts, LabelFacts DEF DocEffect, Goes, Goto
  <2>2. ASSUME settings.master # None, Goto(r, "ok"),
               NEW m \in Models, NEW us \in SUBSET Usages,
               us # {}, NewId(m), NameIsFree(m, copy[r].name),
               Put(r, m, [name |-> copy[r].name, active |-> TRUE, usages |-> us,
                            key |-> r, master |-> settings.master]),
               about' = [about EXCEPT ![r] = m]
        PROVE  DocEffect(r) /\ Goes(r)
    <3> DEFINE doc == [name |-> copy[r].name, active |-> TRUE, usages |-> us,
                       key |-> r, master |-> settings.master]
    <3>1. settings.master \in Masters /\ r \in Keys
      BY <2>2, StartFacts DEF Keys
    <3>2. doc \in ModelDoc /\ doc.name = copy[r].name /\ doc.key = r
      BY <3>1, NewFacts
    <3>3. model' = [model EXCEPT ![m] = doc] /\ lone' \subseteq lone
      BY <2>2 DEF Put
    <3> HIDE DEF doc
    <3>4. Tried(doc, pinged)
      BY <3>2 DEF Tried
    <3>5. \A q \in Requests : about[q] # m
      BY <2>2 DEF NewId
    <3>6. Tried(copy[r], pinged)
      BY DEF Tried
    <3>7. Inserts(r)
      BY <2>2, <3>2, <3>3, <3>4, <3>5, <3>6 DEF Inserts
    <3>8. "ok" \in Labels \ {"idle", "create", "rotate_get", "rotate"} /\ "ok" \notin Holding
      BY DEF Labels, Answers, Holding
    <3>9. lone' \subseteq Requests
      BY <3>3, StartFacts
    <3> QED
      BY <2>2, <3>7, <3>8, <3>9, StartFacts DEF DocEffect, Goes, Goto
  <2> QED
    BY <1>2, <2>1, <2>2 DEF CreateInsert
<1>3. ASSUME NEW m \in Models, UpdateGet(r, m) \/ RotateGet(r, m)
      PROVE  DocEffect(r) /\ Goes(r)
  <2>1. \E l \in {"update", "rotate_ping"} : Get(r, m, l)
    BY <1>3 DEF UpdateGet, RotateGet
  <2>2. todo' \in [Requests -> SUBSET Usages] /\ lone' \subseteq Requests
    BY <1>3, StartFacts DEF UpdateGet, RotateGet
  <2> QED
    BY <1>3, <2>1, <2>2, GetEffect DEF UpdateGet, RotateGet, Holding
<1>4. ASSUME NEW m \in Models, DeleteGet(r, m)
      PROVE  DocEffect(r) /\ Goes(r)
  <2>1. PICK l \in {"count", "delete_get"} : Get(r, m, l)
    BY <1>4 DEF DeleteGet
  <2>2. lone' \subseteq Requests
    BY <1>4, StartFacts DEF DeleteGet
  <2>3. model[m].usages \in SUBSET Usages
    <3>1. model[m] = NoModel => model[m].usages = {}
      BY DEF NoModel
    <3> QED
      BY <3>1, StartFacts, DocFacts
  <2>4. todo' \in [Requests -> SUBSET Usages]
    BY <1>4, <2>3, StartFacts DEF DeleteGet
  <2> QED
    BY <1>4, <2>1, <2>2, <2>4, GetEffect DEF DeleteGet, Holding
<1>5. CASE UpdateSave(r)
  <2> pc[r] \in Holding
    BY <1>5 DEF UpdateSave, Holding
  <2>1. PICK on \in BOOLEAN, us \in SUBSET Usages :
            Save(r, [copy[r] EXCEPT !.active = on, !.usages = us])
    BY <1>5 DEF UpdateSave
  <2> DEFINE doc == [copy[r] EXCEPT !.active = on, !.usages = us]
  <2>2. copy[r] \in ModelDoc /\ Tried(copy[r], pinged)
    BY StartFacts
  <2>3. doc \in ModelDoc /\ doc.name = copy[r].name /\ doc.key = copy[r].key
    BY ONLY <2>2, Zenon DEF doc, ModelDoc
  <2> HIDE DEF doc
  <2>4. Tried(doc, pinged)
    BY <2>2, <2>3 DEF Tried
  <2>5. Save(r, doc)
    BY <2>1 DEF doc
  <2> QED
    BY <1>5, <2>3, <2>4, <2>5, SaveEffect DEF UpdateSave
<1>6. CASE RotatePing(r)
  <2> pc[r] = "rotate_ping" /\ "rotate_ping" \in Holding
    BY <1>6 DEF RotatePing, Holding
  <2>1. copy[r].name \in Names
    BY StartFacts
  <2> QED
    BY <1>6, <2>1, ValidateEffect DEF RotatePing
<1>7. CASE RotateKeyGet(r)
  <2> pc[r] = "rotate_get" /\ "rotate_get" \in Holding /\ "rotate" \in Holding
    BY <1>7 DEF RotateKeyGet, Holding
  <2>1. about[r] \in Models /\ <<r, copy[r].name>> \in pinged
        /\ todo \in [Requests -> SUBSET Usages] /\ lone \subseteq Requests
    BY StartFacts
  <2> QED
    BY <1>7, <2>1, GetEffect DEF RotateKeyGet
<1>8. CASE RotateKeySave(r)
  <2> pc[r] = "rotate" /\ "rotate" \in Holding
    BY <1>8 DEF RotateKeySave, Holding
  <2> DEFINE doc == [copy[r] EXCEPT !.key = r, !.master = settings.master]
  <2>1. copy[r] \in ModelDoc /\ <<r, copy[r].name>> \in pinged
    BY StartFacts
  <2>2. settings.master \in Masters
    BY StartFacts
  <2> QED
    <3>1. Save(r, doc)
      BY <1>8 DEF RotateKeySave
    <3>2. doc \in ModelDoc /\ doc.name = copy[r].name /\ doc.key = r
      <4>1. r \in Keys
        BY DEF Keys
      <4> QED
        BY ONLY <2>1, <2>2, <4>1, Zenon DEF doc, ModelDoc
    <3> HIDE DEF doc
    <3>3. Tried(doc, pinged)
      BY <2>1, <3>2 DEF Tried
    <3> QED
      BY <1>8, <3>1, <3>2, <3>3, SaveEffect DEF RotateKeySave
<1>9. CASE DeleteCount(r)
  <2>1. PICK u \in todo[r], l \in {"refused", "delete_get", "count"} :
            Goto(r, l) /\ todo' = [todo EXCEPT ![r] = @ \ {u}]
    BY <1>9 DEF DeleteCount
  <2>2. Waits(r)
    BY <1>9, StartFacts DEF DeleteCount, Waits
  <2>3. todo' \in [Requests -> SUBSET Usages]
    BY <2>1, StartFacts
  <2>4. about[r] \in Models /\ copy[r] \in ModelDoc /\ settings.master # None
    BY <1>9, StartFacts DEF DeleteCount, Holding
  <2>5. l \in Labels \ {"idle", "create", "rotate", "rotate_get"}
    BY DEF Labels, Answers
  <2> QED
    BY <1>9, <2>1, <2>2, <2>3, <2>4, <2>5, StartFacts DEF DeleteCount, Goto, DocEffect, Goes
<1>10. CASE DeleteReget(r)
  <2> "delete" \in Holding /\ pc[r] \in Holding
    BY <1>10 DEF DeleteReget, Holding
  <2>1. about[r] \in Models /\ todo \in [Requests -> SUBSET Usages] /\ lone \subseteq Requests
    BY StartFacts
  <2> QED
    BY <1>10, <2>1, GetEffect DEF DeleteReget
<1>11. CASE DeleteDoc(r)
  <2>1. about[r] \in Models
    BY <1>11, StartFacts DEF DeleteDoc, Holding
  <2>2. Removes(r)
    BY <1>11, <2>1 DEF DeleteDoc, Removes, Put
  <2>3. lone' \subseteq Requests /\ "ok" \in Answers
    BY <1>11, StartFacts DEF DeleteDoc, Put, Answers
  <2> QED
    BY <1>11, <2>2, <2>3, StartFacts, LabelFacts DEF DeleteDoc, Goto, DocEffect, Goes
<1> QED
  BY <1>1, <1>2, <1>3, <1>4, <1>5, <1>6, <1>7, <1>8, <1>9, <1>10, <1>11 DEF AdminStep

---------------------------------------------------------------------------
(* Each effect preserves the invariant. *)

LEMMA EffectTypes ==
    ASSUME Start, NEW r \in Requests, DocEffect(r), Goes(r)
    PROVE  ModelsTyped' /\ AdminTyped'
<1> USE StartFacts
<1>1. model' \in [Models -> ModelDoc \cup {NoModel}]
  BY DEF DocEffect, Waits, Drafts, Loads, Writes, Inserts, Removes
<1>2. about' \in [Requests -> Models \cup {None}]
  BY DEF DocEffect, Waits, Drafts, Loads, Writes, Inserts, Removes
<1>3. copy' \in [Requests -> ModelDoc \cup {NoModel} \cup NewDoc]
  BY DEF DocEffect, Waits, Drafts, Loads, Writes, Inserts, Removes
<1>4. pinged \subseteq pinged' /\ pinged' \subseteq Requests \X Names
  BY DEF DocEffect, Waits, Drafts, Loads, Writes, Inserts, Removes
<1>5. pc' \in [Requests -> Labels]
  BY DEF Goes
<1> QED
  BY <1>1, <1>2, <1>3, <1>4, <1>5 DEF Goes, ModelsTyped, AdminTyped

LEMMA EffectAbout ==
    ASSUME Start, NEW r \in Requests, DocEffect(r), Goes(r)
    PROVE  AboutAgrees'
<1> SUFFICES ASSUME NEW q \in Requests
             PROVE  /\ pc'[q] \in {"idle", "create"} => about'[q] = None
                    /\ pc'[q] = "create" => copy'[q] \in NewDoc
                    /\ pc'[q] \in Holding => /\ about'[q] \in Models /\ copy'[q] \in ModelDoc
                                             /\ settings'.master # None
  BY DEF AboutAgrees
<1>1. CASE q = r
  BY <1>1, StartFacts, LabelFacts DEF Goes
<1>2. CASE q # r
  <2>1. about'[q] = about[q] /\ copy'[q] = copy[q]
    BY <1>2, StartFacts DEF DocEffect, Waits, Drafts, Loads, Writes, Inserts, Removes
  <2>2. pc'[q] = pc[q] /\ settings' = settings
    BY <1>2, StartFacts DEF Goes
  <2> QED
    BY <2>1, <2>2, StartFacts
<1> QED
  BY <1>1, <1>2

LEMMA EffectNames ==
    ASSUME Start, NEW r \in Requests, DocEffect(r)
    PROVE  NamesAgree'
<1> USE StartFacts, DocFacts DEF NamesAgree
<1> NamesAgree
  BY DEF Start
<1>1. CASE Waits(r)
  BY <1>1 DEF Waits
<1>2. CASE Drafts(r)
  BY <1>2 DEF Drafts
<1>3. CASE Loads(r)
  <2>1. PICK m \in Models : /\ model[m] # NoModel
                            /\ copy' = [copy EXCEPT ![r] = model[m]]
                            /\ about' = [about EXCEPT ![r] = m]
    BY <1>3 DEF Loads
  <2>2. model' = model
    BY <1>3 DEF Loads
  <2>3. model[m].name \in Names
    BY <2>1
  <2>4. \A q \in Requests : about'[q] # None => copy'[q].name \in Names
    BY <2>1, <2>2, <2>3
  <2>5. \A q \in Requests : about'[q] # None /\ model'[about'[q]] # NoModel =>
            copy'[q].name = model'[about'[q]].name
    BY <2>1, <2>2, <2>3
  <2>6. \A p, q \in Requests : about'[p] # None /\ about'[p] = about'[q] =>
            copy'[p].name = copy'[q].name
    <3> TAKE p, q \in Requests
    <3>1. CASE about'[p] = m
      BY <2>1, <2>2, <2>5, <3>1
    <3>2. CASE about'[p] # m
      <4>1. about'[p] = about'[q] => p # r /\ q # r
        BY <2>1, <3>2
      <4> QED
        BY <2>1, <4>1
    <3> QED
      BY <3>1, <3>2
  <2> QED
    BY <2>4, <2>5, <2>6
<1>4. CASE Writes(r)
  BY <1>4 DEF Writes
<1>5. CASE Inserts(r)
  <2>1. PICK m \in Models, doc \in ModelDoc :
            /\ \A q \in Requests : about[q] # m
            /\ doc.name = copy[r].name
            /\ model' = [model EXCEPT ![m] = doc]
            /\ about' = [about EXCEPT ![r] = m]
    BY <1>5 DEF Inserts
  <2>2. copy' = copy
    BY <1>5 DEF Inserts
  <2>3. doc.name \in Names
    OBVIOUS
  <2>4. \A q \in Requests : about'[q] # None => copy'[q].name \in Names
    BY <2>1, <2>2, <2>3
  <2>5. \A q \in Requests : about'[q] # None /\ model'[about'[q]] # NoModel =>
            copy'[q].name = model'[about'[q]].name
    BY <2>1, <2>2, <2>3
  <2>6. \A p, q \in Requests : about'[p] # None /\ about'[p] = about'[q] =>
            copy'[p].name = copy'[q].name
    BY <2>1, <2>2, <2>3
  <2> QED
    BY <2>4, <2>5, <2>6
<1>6. CASE Removes(r)
  BY <1>6 DEF Removes
<1> QED
  BY <1>1, <1>2, <1>3, <1>4, <1>5, <1>6 DEF DocEffect

LEMMA EffectKeys ==
    ASSUME Start, NEW r \in Requests, DocEffect(r), Goes(r)
    PROVE  KeysAgree'
<1>1. pinged \subseteq pinged'
  BY DEF DocEffect, Waits, Drafts, Loads, Writes, Inserts, Removes
<1>2. \A d : Tried(d, pinged) => Tried(d, pinged')
  BY <1>1 DEF Tried
<1>3. ASSUME NEW m \in Models, model'[m] # NoModel
      PROVE  Tried(model'[m], pinged')
  <2>1. model[m] # NoModel => Tried(model[m], pinged)
    BY DEF Start, KeysAgree
  <2> QED
    BY <1>2, <1>3, <2>1, StartFacts
      DEF DocEffect, Waits, Drafts, Loads, Writes, Inserts, Removes
<1>4. ASSUME NEW q \in Requests, about'[q] # None
      PROVE  Tried(copy'[q], pinged')
  <2>1. about[q] # None => Tried(copy[q], pinged)
    BY DEF Start, KeysAgree
  <2>2. \A m \in Models : model[m] # NoModel => Tried(model[m], pinged)
    BY DEF Start, KeysAgree
  <2> QED
    BY <1>2, <1>4, <2>1, <2>2, StartFacts
      DEF DocEffect, Waits, Drafts, Loads, Writes, Inserts, Removes
<1>5. ASSUME NEW q \in Requests, pc'[q] \in {"create", "rotate_get", "rotate"}
      PROVE  <<q, copy'[q].name>> \in pinged'
  <2>1. CASE q = r
    BY <1>5, <2>1, StartFacts DEF Goes
  <2>2. CASE q # r
    <3>1. copy'[q] = copy[q]
      BY <2>2, StartFacts DEF DocEffect, Waits, Drafts, Loads, Writes, Inserts, Removes
    <3>2. pc'[q] = pc[q]
      BY <2>2, StartFacts DEF Goes
    <3> QED
      BY <1>1, <1>5, <3>1, <3>2 DEF Start, KeysAgree
  <2> QED
    BY <2>1, <2>2
<1> QED
  BY <1>3, <1>4, <1>5 DEF KeysAgree

---------------------------------------------------------------------------
(* Deletions *)

\* A step disturbs every deletion but its own or stores nothing.
LEMMA StepIsAlone ==
    ASSUME Start, NEW r \in Requests, AdminStep(r)
    PROVE  /\ model' = model \/ lone' \subseteq {r}
           /\ lone' \subseteq lone \cup {r}
<1>2. \A m, doc : Put(r, m, doc) => lone' \subseteq {r} /\ lone' \subseteq lone
  BY DEF Put
<1>3. ASSUME NEW doc, Save(r, doc), about[r] \in Models
      PROVE  (model' = model \/ lone' \subseteq {r}) /\ lone' \subseteq lone
  BY <1>2, <1>3 DEF Save
<1>4. CASE CreateInsert(r)
  BY <1>2, <1>4 DEF CreateInsert
<1>5. CASE UpdateSave(r)
  <2>1. about[r] \in Models
    BY <1>5, StartFacts DEF UpdateSave, Holding
  <2>2. \E doc : Save(r, doc)
    BY <1>5, Zenon DEF UpdateSave
  <2> QED
    BY <1>3, <2>1, <2>2
<1>6. CASE RotateKeySave(r)
  <2>1. about[r] \in Models
    BY <1>6, StartFacts DEF RotateKeySave, Holding
  <2>2. \E doc : Save(r, doc)
    BY <1>6, Zenon DEF RotateKeySave
  <2> QED
    BY <1>3, <2>1, <2>2
<1>7. CASE DeleteDoc(r)
  <2>1. about[r] \in Models
    BY <1>7, StartFacts DEF DeleteDoc, Holding
  <2> QED
    BY <1>2, <1>7, <2>1 DEF DeleteDoc
<1>8. CASE \E name \in Names : CreatePing(r, name)
  BY <1>8 DEF CreatePing
<1>9. CASE \E m \in Models : UpdateGet(r, m) \/ RotateGet(r, m) \/ DeleteGet(r, m)
  BY <1>9 DEF UpdateGet, RotateGet, DeleteGet
<1>10. CASE RotatePing(r) \/ RotateKeyGet(r) \/ DeleteCount(r) \/ DeleteReget(r)
  BY <1>10 DEF RotatePing, RotateKeyGet, DeleteCount, DeleteReget
<1> QED
  BY <1>4, <1>5, <1>6, <1>7, <1>8, <1>9, <1>10 DEF AdminStep

\* A request that deletes has taken one of three steps.
LEMMA StepsToDelete ==
    ASSUME Start, NEW r \in Requests, AdminStep(r), pc'[r] \in Deleting
    PROVE  (\E m \in Models : DeleteGet(r, m)) \/ DeleteCount(r) \/ DeleteReget(r)
<1> USE DEF Deleting, Goto
<1> pc \in [Requests -> Labels]
  BY StartFacts
<1>1. ASSUME NEW doc, Save(r, doc)
      PROVE  FALSE
  BY <1>1 DEF Save
<1>2. ~UpdateSave(r) /\ ~RotateKeySave(r)
  BY <1>1, Zenon DEF UpdateSave, RotateKeySave
<1>3. ASSUME NEW m, NEW l \in {"update", "rotate_ping", "rotate"}, Get(r, m, l)
      PROVE  FALSE
  BY <1>3 DEF Get, Load
<1>4. ~RotateKeyGet(r) /\ \A m \in Models : ~UpdateGet(r, m) /\ ~RotateGet(r, m)
  BY <1>3 DEF RotateKeyGet, UpdateGet, RotateGet
<1>5. ~CreateInsert(r) /\ ~DeleteDoc(r)
  BY DEF CreateInsert, DeleteDoc
<1>6. ~RotatePing(r) /\ \A name \in Names : ~CreatePing(r, name)
  BY DEF RotatePing, CreatePing, ValidateKey
<1> QED
  BY <1>2, <1>4, <1>5, <1>6, Zenon DEF AdminStep

\* A request counts for itself.
LEMMA StepsCount ==
    ASSUME Start, NEW r \in Requests, AdminStep(r), NEW q \in Requests, q # r
    PROVE  todo'[q] = todo[q]
<1> todo \in [Requests -> SUBSET Usages]
  BY StartFacts
<1>1. CASE \E m \in Models : DeleteGet(r, m)
  BY <1>1 DEF DeleteGet
<1>2. CASE DeleteCount(r)
  BY <1>2 DEF DeleteCount
<1>3. CASE UNCHANGED todo
  BY <1>3
<1>4. (\E m \in Models : DeleteGet(r, m)) \/ DeleteCount(r) \/ UNCHANGED todo
  BY DEF AdminStep, CreatePing, UpdateGet, RotateGet, CreateInsert, UpdateSave,
         RotatePing, RotateKeyGet, RotateKeySave, DeleteReget, DeleteDoc
<1> QED
  BY <1>1, <1>2, <1>3, <1>4

LEMMA StepDelete ==
    ASSUME Start, DeleteAgrees, NEW r \in Requests, AdminStep(r)
    PROVE  DeleteAgrees'
<1>1. DocEffect(r) /\ Goes(r)
  BY AdminEffect
<1> SUFFICES ASSUME NEW q \in lone', NEW u \in Usages,
                    pc'[q] \in Deleting, about'[q] \in Serving(u)'
             PROVE  (pc'[q] = "count" /\ u \in todo'[q]) \/ Remaining(q, u)' # {}
  BY DEF DeleteAgrees
<1>2. q \in Requests
  BY <1>1 DEF Goes
<1>3. CASE q # r
  <2>1. q \in lone /\ model' = model
    BY <1>3, StepIsAlone
  <2>2. about'[q] = about[q]
    BY <1>1, <1>2, <1>3, StartFacts DEF DocEffect, Waits, Drafts, Loads, Writes, Inserts, Removes
  <2>3. pc'[q] = pc[q]
    BY <1>1, <1>2, <1>3, StartFacts DEF Goes
  <2>4. Serving(u)' = Serving(u)
    BY <2>1 DEF Serving, Stored
  <2>5. todo'[q] = todo[q]
    BY <1>2, <1>3, StepsCount
  <2> QED
    BY <2>1, <2>2, <2>3, <2>4, <2>5 DEF DeleteAgrees, Remaining
<1>4. CASE q = r
  <2> USE StartFacts DEF Deleting, Goto
  <2>1. ASSUME NEW m \in Models, DeleteGet(r, m)
        PROVE  pc'[r] = "count" /\ u \in todo'[r]
    <3>1. Load(r, m, IF model[m].active /\ model[m].usages # {} THEN "count" ELSE "delete_get")
      BY <1>4, <2>1 DEF DeleteGet, Get
    <3>2. about'[r] = m /\ model' = model /\ todo'[r] = model[m].usages
      BY <2>1, <3>1 DEF Load, DeleteGet
    <3>3. model[m].active /\ u \in model[m].usages
      BY <1>4, <3>2 DEF Serving
    <3> QED
      BY <3>1, <3>2, <3>3 DEF Load
  <2>2. CASE DeleteCount(r)
    <3>1. PICK v \in todo[r] :
              /\ todo' = [todo EXCEPT ![r] = @ \ {v}]
              /\ Goto(r, IF Remaining(r, v) = {} THEN "refused"
                         ELSE IF todo[r] = {v} THEN "delete_get" ELSE "count")
      BY <2>2 DEF DeleteCount
    <3>2. pc[r] = "count" /\ UNCHANGED <<model, about, lone>>
      BY <2>2 DEF DeleteCount
    <3>3. Serving(u)' = Serving(u)
      BY <3>2 DEF Serving, Stored
    <3>4. u \in todo[r] \/ Remaining(r, u) # {}
      BY <1>4, <3>2, <3>3 DEF DeleteAgrees
    <3>5. Remaining(r, u)' = Remaining(r, u)
      BY <3>2, <3>3 DEF Remaining
    <3> QED
      BY <1>4, <3>1, <3>2, <3>4, <3>5
  <2>3. CASE DeleteReget(r)
    <3>1. Load(r, about[r], "delete") /\ pc[r] = "delete_get"
      BY <1>4, <2>3 DEF DeleteReget, Get
    <3>2. about'[r] = about[r] /\ UNCHANGED <<model, lone>>
      BY <2>3, <3>1 DEF Load, DeleteReget
    <3>3. Serving(u)' = Serving(u)
      BY <3>2 DEF Serving, Stored
    <3>4. Remaining(r, u) # {}
      BY <1>4, <3>1, <3>2, <3>3 DEF DeleteAgrees
    <3> QED
      BY <1>4, <3>2, <3>3, <3>4 DEF Remaining
  <2> QED
    BY <1>4, <2>1, <2>2, <2>3, StepsToDelete
<1> QED
  BY <1>3, <1>4

---------------------------------------------------------------------------
(* Runs and deployments *)

LEMMA RunStep ==
    ASSUME RunsTyped, ProviderAgrees, NEW x \in Runs, PickProvider(x) \/ StructuredCall(x)
    PROVE  RunsTyped' /\ ProviderAgrees' /\ UNCHANGED modelVars
<1> USE DEF RunsTyped, ProviderAgrees
<1>1. CASE PickProvider(x)
  <2>1. RunsTyped' /\ UNCHANGED modelVars
    BY <1>1 DEF PickProvider
  <2>2. returned' = returned /\ returned[x] = <<>>
    BY <1>1 DEF PickProvider
  <2>3. ASSUME NEW y \in Runs
        PROVE  /\ at'[y] = "idle" => returned'[y] = <<>>
               /\ \A i \in DOMAIN returned'[y] : returned'[y][i] = provider'[y]
    <3>1. CASE y = x
      BY <1>1, <2>2, <3>1 DEF PickProvider
    <3>2. CASE y # x
      BY <1>1, <2>2, <3>2 DEF PickProvider
    <3> QED
      BY <3>1, <3>2
  <2> QED
    BY <2>1, <2>3
<1>2. CASE StructuredCall(x)
  <2>1. provider' = provider /\ UNCHANGED modelVars
    BY <1>2 DEF StructuredCall
  <2>2. CASE Raises(x)
    BY <2>1, <2>2 DEF Raises
  <2>3. CASE provider[x] \in {"fake", "real"} /\ Returns(x, provider[x])
    <3>1. returned' = [returned EXCEPT ![x] = Append(returned[x], provider[x])]
          /\ at'[x] # "idle" /\ \A y \in Runs \ {x} : at'[y] = at[y]
      BY <2>3 DEF Returns
    <3>2. returned' \in [Runs -> Seq({"fake", "real"})]
          /\ at' \in [Runs -> {"idle", "call", "done", "failed"}]
      BY <2>3 DEF Returns
    <3>3. ASSUME NEW i \in DOMAIN returned'[x]
          PROVE  returned'[x][i] = provider[x]
      BY <3>1, <3>3
    <3> QED
      BY <2>1, <3>1, <3>2, <3>3
  <2> QED
    BY <1>2, <2>2, <2>3 DEF StructuredCall, RealCall, FakeCall
<1> QED
  BY <1>1, <1>2

LEMMA RedeployStep ==
    ASSUME MInv, Redeploy
    PROVE  MInv'
<1> Start /\ ModelsTyped /\ AdminTyped /\ RunsTyped
  BY TypeParts, Zenon DEF MInv, Start
<1>1. UNCHANGED <<model, about, copy, todo, pinged, provider, returned>>
      /\ lone' = {} /\ settings' \in SettingsDoc
  BY DEF Redeploy
<1>2. pc' \in [Requests -> Labels]
      /\ \A r \in Requests : pc'[r] \in Answers \/ (pc'[r] = "idle" /\ pc[r] = "idle")
  BY DEF Redeploy, Answers, Labels
<1>3. /\ at' \in [Runs -> {"idle", "call", "done", "failed"}]
      /\ \A x \in Runs : at'[x] = "idle" => at[x] = "idle"
  BY DEF Redeploy, RunsTyped
<1>4. TypeOK'
  BY <1>1, <1>2, <1>3, TypeJoin DEF ModelsTyped, AdminTyped, RunsTyped
<1>5. AboutAgrees'
  BY <1>1, <1>2, LabelFacts DEF Start, AboutAgrees
<1>6. NamesAgree'
  BY <1>1 DEF Start, NamesAgree
<1>7. KeysAgree'
  BY <1>1, <1>2, LabelFacts DEF Start, KeysAgree, Tried
<1>8. DeleteAgrees'
  BY <1>1 DEF DeleteAgrees
<1>9. ProviderAgrees'
  BY <1>1, <1>3 DEF MInv, ProviderAgrees
<1> QED
  BY <1>4, <1>5, <1>6, <1>7, <1>8, <1>9 DEF MInv

---------------------------------------------------------------------------
LEMMA InitMInv == Init => MInv
<1> SUFFICES ASSUME Init PROVE MInv
  OBVIOUS
<1> USE DEF Init, AdminInit
<1>1. model \in [Models -> ModelDoc \cup {NoModel}]
  BY DEF SeedDoc, ModelDoc, Keys
<1>2. \A m \in Models : model[m] # NoModel => model[m].key = Seed
  BY DEF SeedDoc
<1>3. "idle" \in Labels /\ "idle" \notin Holding
  BY LabelFacts DEF Labels
<1>4. TypeOK
  BY <1>1, <1>3, TypeParts DEF ModelsTyped, AdminTyped, RunsTyped
<1>5. AboutAgrees /\ NamesAgree /\ DeleteAgrees
  BY <1>3 DEF AboutAgrees, NamesAgree, DeleteAgrees
<1>6. KeysAgree
  BY <1>2 DEF KeysAgree, Tried
<1>7. ProviderAgrees
  BY DEF ProviderAgrees
<1> QED
  BY <1>4, <1>5, <1>6, <1>7 DEF MInv

LEMMA NextMInv == MInv /\ [Next]_vars => MInv'
<1> SUFFICES ASSUME MInv, [Next]_vars PROVE MInv'
  OBVIOUS
<1>1. Start /\ ModelsTyped /\ AdminTyped /\ RunsTyped
  BY TypeParts, Zenon DEF MInv, Start
<1>2. ASSUME NEW r \in Requests, AdminStep(r), UNCHANGED runVars
      PROVE  MInv'
  <2>1. DocEffect(r) /\ Goes(r)
    BY <1>1, <1>2, AdminEffect
  <2>2. ModelsTyped' /\ AdminTyped'
    BY <1>1, <2>1, EffectTypes
  <2>3. RunsTyped' /\ ProviderAgrees'
    BY <1>1, <1>2 DEF runVars, RunsTyped, MInv, ProviderAgrees
  <2>4. TypeOK'
    BY <2>2, <2>3, TypeJoin
  <2>5. AboutAgrees' /\ NamesAgree' /\ KeysAgree'
    BY <1>1, <2>1, EffectAbout, EffectNames, EffectKeys
  <2>6. DeleteAgrees'
    BY <1>1, <1>2, StepDelete DEF MInv
  <2> QED
    BY <2>3, <2>4, <2>5, <2>6 DEF MInv
<1>3. ASSUME UNCHANGED modelVars, RunsTyped', ProviderAgrees'
      PROVE  MInv'
  <2>1. UNCHANGED <<model, settings, pc, about, copy, todo, pinged, lone>>
    BY <1>3 DEF modelVars, adminVars
  <2>2. ModelsTyped' /\ AdminTyped'
    BY <1>1, <2>1 DEF ModelsTyped, AdminTyped
  <2>3. TypeOK'
    BY <1>3, <2>2, TypeJoin
  <2>4. AboutAgrees' /\ NamesAgree' /\ KeysAgree'
    BY <1>1, <2>1 DEF Start, AboutAgrees, NamesAgree, KeysAgree, Tried
  <2>5. DeleteAgrees'
    BY <2>1 DEF MInv, DeleteAgrees, Serving, Stored, Remaining
  <2> QED
    BY <1>3, <2>3, <2>4, <2>5 DEF MInv
<1>4. ASSUME NEW x \in Runs, PickProvider(x) \/ StructuredCall(x)
      PROVE  MInv'
  BY <1>1, <1>3, <1>4, RunStep DEF MInv
<1>5. CASE Redeploy
  BY <1>5, RedeployStep
<1>6. CASE UNCHANGED vars
  <2>1. UNCHANGED modelVars /\ UNCHANGED runVars
    BY <1>6 DEF vars
  <2>2. RunsTyped' /\ ProviderAgrees'
    BY <1>1, <2>1 DEF runVars, RunsTyped, MInv, ProviderAgrees
  <2> QED
    BY <1>3, <2>1, <2>2
<1> QED
  BY <1>2, <1>4, <1>5, <1>6 DEF Next

---------------------------------------------------------------------------
(* The theorems *)

\* The invariant: who knows of which model, whose names and keys agree, what a
\* deletion has counted, and whose the outputs of a run are.
THEOREM ModelsInvariance == Spec => []MInv
  BY InitMInv, NextMInv, PTL DEF Spec

\* Every variable keeps its type, whatever is configured and called.
THEOREM ModelsTypeCorrect == Spec => []TypeOK
<1>1. MInv => TypeOK
  BY DEF MInv
<1> QED
  BY <1>1, ModelsInvariance, PTL

\* The keys of admin_create_model and admin_rotate_model_key: whatever other
\* requests save between a key's trial and its save, a stored key is one that
\* the provider accepted for the name of its model.
THEOREM StoredKeysWerePingedCorrect == Spec => []StoredKeysWerePinged
<1>1. MInv => StoredKeysWerePinged
  BY DEF MInv, KeysAgree, StoredKeysWerePinged, Stored, Tried
<1> QED
  BY <1>1, ModelsInvariance, PTL

\* get_llm_provider and the calls of a run: its results are all of the real
\* model or all of the fake, however the models change meanwhile.
THEOREM NoMixedRunCorrect == Spec => []NoMixedRun
<1>1. MInv => NoMixedRun
  BY DEF MInv, ProviderAgrees, NoMixedRun
<1> QED
  BY <1>1, ModelsInvariance, PTL

\* The guard of admin_delete_model: a deletion that no other change of the
\* models has overlapped leaves every usage that was served served.
THEOREM LoneDeleteKeepsServedCorrect == Spec => LoneDeleteKeepsServed
<1>1. ASSUME MInv, [Next]_vars
      PROVE  [\A r \in Requests, u \in Usages :
        pc[r] = "delete" /\ r \in lone /\ Serving(u) # {} /\ pc'[r] = "ok" => Serving(u)' # {}]_vars
  <2> SUFFICES ASSUME NEW r \in Requests, NEW u \in Usages,
                      pc[r] = "delete", r \in lone, Serving(u) # {}, pc'[r] = "ok"
               PROVE  Serving(u)' # {}
    OBVIOUS
  <2>1. Start /\ DeleteAgrees
    BY <1>1 DEF MInv, Start
  <2>2. model \in [Models -> ModelDoc \cup {NoModel}] /\ pc \in [Requests -> Labels]
    BY <2>1, StartFacts
  <2>3. ASSUME NEW q \in Requests, q # r, AdminStep(q)
        PROVE  FALSE
    <3>1. Goes(q)
      BY <2>1, <2>3, AdminEffect
    <3> QED
      BY <2>2, <2>3, <3>1 DEF Goes
  <2>4. CASE AdminStep(r)
    <3>1. DeleteDoc(r)
      BY <2>4 DEF AdminStep, CreatePing, UpdateGet, RotateGet, DeleteGet, CreateInsert,
                  UpdateSave, RotatePing, RotateKeyGet, RotateKeySave, DeleteCount, DeleteReget
    <3>2. model' = [model EXCEPT ![about[r]] = NoModel]
      BY <3>1 DEF DeleteDoc, Put
    <3>3. PICK m \in Serving(u) : m # about[r]
      BY <2>1 DEF DeleteAgrees, Deleting, Remaining
    <3>4. m \in Models /\ model'[m] = model[m]
      BY <2>2, <3>2, <3>3 DEF Serving
    <3>5. m \in Serving(u)'
      BY <3>3, <3>4 DEF Serving, Stored
    <3> QED
      BY <3>5
  <2>5. ASSUME NEW x \in Runs, PickProvider(x) \/ StructuredCall(x)
        PROVE  FALSE
    BY <2>5 DEF PickProvider, StructuredCall, modelVars, adminVars
  <2>6. CASE Redeploy
    BY <2>6 DEF Redeploy, Answers
  <2>7. CASE UNCHANGED vars
    BY <2>7 DEF vars, modelVars, adminVars
  <2> QED
    BY <1>1, <2>3, <2>4, <2>5, <2>6, <2>7 DEF Next
<1> QED
  BY <1>1, ModelsInvariance, PTL DEF Spec, LoneDeleteKeepsServed
=============================================================================
