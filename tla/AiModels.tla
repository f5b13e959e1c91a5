------------------------------ MODULE AiModels ------------------------------
(***************************************************************************)
(* The AI models that admins configure: admin/service.py and               *)
(* ai/models.py.  A handler is cut at every await, on the database or on   *)
(* the provider that a new key is tried on.  AiModel has no revision:      *)
(* save() writes the whole copy whatever happened since it was loaded, and *)
(* inserts the document again if it was deleted.                           *)
(*                                                                         *)
(* A key is named by the request that brought it.  It is stored sealed     *)
(* under the master key of the moment and can be opened under that one     *)
(* only.                                                                   *)
(***************************************************************************)
EXTENDS Naturals, FiniteSets

CONSTANTS
    Requests,     \* the admin requests of this run, each answered once
    Models,       \* the ids of AiModel documents, in the order of created_at
    Names,        \* provider and model_name
    Usages,       \* AiModelUsage
    Masters,      \* the master encryption keys of the deployments
    Seed,         \* the key of the models configured before
    None          \* no model, no name, no master key

ASSUME ModelsAssumption == Models \subseteq Nat
ASSUME SeedAssumption == Seed \notin Requests
ASSUME MastersAssumption == None \notin Masters
ASSUME NoneAssumption == None \notin Models /\ None \notin Names

VARIABLES
    model,        \* the aimodels collection
    settings,     \* the settings of the running process
    pc, about,
    copy,         \* the AiModel a request has in memory
    todo,         \* the usages a deletion has still to count
    pinged,       \* history: the names that a key worked for
    lone          \* history: no request stored or deleted a model since the
                  \* deletion loaded it

adminVars == <<pc, about, copy, todo>>
modelVars == <<model, settings, adminVars, pinged, lone>>

---------------------------------------------------------------------------
Keys == Requests \cup {Seed}

ModelDoc ==
    [name : Names, active : BOOLEAN, usages : SUBSET Usages, key : Keys, master : Masters]
NoModel ==
    [name |-> None, active |-> FALSE, usages |-> {}, key |-> Seed, master |-> None]

\* A model that is not inserted yet has a name only.
NewDoc == {[NoModel EXCEPT !.name = n] : n \in Names}

SettingsDoc == [master : Masters \cup {None}, env : BOOLEAN]

Stored(m) == model[m] # NoModel

\* The query {"status": "active", "usages": usage}.
Serving(u) == {m \in Models : Stored(m) /\ model[m].active /\ u \in model[m].usages}

\* ok: 200/201; refused: 404, 409 or 422; error: 500; lost: the process
\* stopped.
Answers == {"ok", "refused", "error", "lost"}

Goto(r, label) == pc' = [pc EXCEPT ![r] = label]

\* Whether the unique index (provider, model_name) lets m have this name.
NameIsFree(m, name) == \A k \in Models \ {m} : model[k].name # name

\* The store takes or loses a document: no deletion under way is alone.
Put(r, m, doc) ==
    /\ model' = [model EXCEPT ![m] = doc]
    /\ lone' = lone \cap {r}

Load(r, m, label) ==
    /\ copy' = [copy EXCEPT ![r] = model[m]]
    /\ about' = [about EXCEPT ![r] = m]
    /\ Goto(r, label)

\* AiModelService.get, the 404 included; _ai_model_service raises when there is
\* no master key.
Get(r, m, label) ==
    IF settings.master = None THEN Goto(r, "error") /\ UNCHANGED <<about, copy>>
    ELSE IF Stored(m) THEN Load(r, m, label)
    ELSE Goto(r, "refused") /\ UNCHANGED <<about, copy>>

\* AiModel.save().
Save(r, doc) ==
    \/ NameIsFree(about[r], doc.name) /\ Put(r, about[r], doc) /\ Goto(r, "ok")
    \/ ~NameIsFree(about[r], doc.name) /\ Goto(r, "error") /\ UNCHANGED <<model, lone>>

---------------------------------------------------------------------------
(* admin_create_model *)

\* Mutant of ValidateKey: what the provider says is ignored.
ValidateKeyIgnored(r, name, next) ==
    Goto(r, next) /\ UNCHANGED pinged

\* validate_api_key: any exception means that the key is no good.
ValidateKey(r, name, next) ==
    \/ Goto(r, next) /\ pinged' = pinged \cup {<<r, name>>}
    \/ Goto(r, "refused") /\ UNCHANGED pinged

CreatePing(r, name) ==
    /\ pc[r] = "idle"
    /\ ValidateKey(r, name, "create")
    /\ copy' = [copy EXCEPT ![r] = [NoModel EXCEPT !.name = name]]
    /\ UNCHANGED <<model, settings, about, todo, lone>>

\* A new document has the greatest id so far, and nobody knows it yet.
NewId(m) ==
    \A k \in Models : k >= m => ~Stored(k) /\ \A r \in Requests : about[r] # k

\* The key is sealed and the document inserted, active; any exception of the
\* insert is answered 409.
CreateInsert(r) ==
    /\ pc[r] = "create"
    /\ \/ settings.master = None /\ Goto(r, "error") /\ UNCHANGED <<model, about, lone>>
       \/ /\ settings.master # None
          /\ \E m \in Models, us \in SUBSET Usages :
              /\ us # {} /\ NewId(m)
              /\ NameIsFree(m, copy[r].name)
              /\ Put(r, m, [name |-> copy[r].name, active |-> TRUE, usages |-> us,
                            key |-> r, master |-> settings.master])
              /\ about' = [about EXCEPT ![r] = m]
          /\ Goto(r, "ok")
       \/ settings.master # None /\ Goto(r, "refused") /\ UNCHANGED <<model, about, lone>>
    /\ UNCHANGED <<settings, copy, todo, pinged>>

---------------------------------------------------------------------------
(* admin_update_model *)

UpdateGet(r, m) ==
    /\ pc[r] = "idle"
    /\ Get(r, m, "update")
    /\ UNCHANGED <<model, settings, todo, pinged, lone>>

\* Nothing asks here whether another active model serves the usages.
UpdateSave(r) ==
    /\ pc[r] = "update"
    /\ \E on \in BOOLEAN, us \in SUBSET Usages :
        Save(r, [copy[r] EXCEPT !.active = on, !.usages = us])
    /\ UNCHANGED <<settings, about, copy, todo, pinged>>

---------------------------------------------------------------------------
(* admin_rotate_model_key *)

RotateGet(r, m) ==
    /\ pc[r] = "idle"
    /\ Get(r, m, "rotate_ping")
    /\ UNCHANGED <<model, settings, todo, pinged, lone>>

RotatePing(r) ==
    /\ pc[r] = "rotate_ping"
    /\ ValidateKey(r, copy[r].name, "rotate_get")
    /\ UNCHANGED <<model, settings, about, copy, todo, lone>>

\* AiModelService.rotate_key loads the model again.
RotateKeyGet(r) ==
    /\ pc[r] = "rotate_get"
    /\ Get(r, about[r], "rotate")
    /\ UNCHANGED <<model, settings, todo, pinged, lone>>

RotateKeySave(r) ==
    /\ pc[r] = "rotate"
    /\ Save(r, [copy[r] EXCEPT !.key = r, !.master = settings.master])
    /\ UNCHANGED <<settings, about, copy, todo, pinged>>

---------------------------------------------------------------------------
(* admin_delete_model *)

DeleteGet(r, m) ==
    /\ pc[r] = "idle"
    /\ Get(r, m, IF model[m].active /\ model[m].usages # {} THEN "count" ELSE "delete_get")
    /\ todo' = [todo EXCEPT ![r] = model[m].usages]
    /\ lone' = lone \cup {r}
    /\ UNCHANGED <<model, settings, pinged>>

\* Mutant of Remaining: the model that is to be deleted counts too.
RemainingAll(r, u) == Serving(u)

\* count_active_for_usage(usage, exclude_id=model_id)
Remaining(r, u) == Serving(u) \ {about[r]}

\* One usage of the copy after the other, each count an await.
DeleteCount(r) ==
    /\ pc[r] = "count"
    /\ \E u \in todo[r] :
        /\ todo' = [todo EXCEPT ![r] = @ \ {u}]
        /\ Goto(r, IF Remaining(r, u) = {} THEN "refused"
                   ELSE IF todo[r] = {u} THEN "delete_get" ELSE "count")
    /\ UNCHANGED <<model, settings, about, copy, pinged, lone>>

\* AiModelService.delete loads it again, ...
DeleteReget(r) ==
    /\ pc[r] = "delete_get"
    /\ Get(r, about[r], "delete")
    /\ UNCHANGED <<model, settings, todo, pinged, lone>>

\* ... and deletes it, if it is still there.
DeleteDoc(r) ==
    /\ pc[r] = "delete"
    /\ Put(r, about[r], NoModel)
    /\ Goto(r, "ok")
    /\ UNCHANGED <<settings, about, copy, todo, pinged>>

---------------------------------------------------------------------------
\* What earlier requests may have left behind.
SeedDoc ==
    [name : Names, active : BOOLEAN, usages : SUBSET Usages, key : {Seed}, master : Masters]

AdminInit ==
    /\ model \in [Models -> {NoModel} \cup SeedDoc]
    /\ \A m, k \in Models : m # k /\ Stored(m) => model[m].name # model[k].name
    /\ \A m, k \in Models : m < k /\ Stored(k) => Stored(m)
    /\ settings \in SettingsDoc
    /\ pc = [r \in Requests |-> "idle"]
    /\ about = [r \in Requests |-> None]
    /\ copy = [r \in Requests |-> NoModel]
    /\ todo = [r \in Requests |-> {}]
    /\ pinged = {}
    /\ lone = {}

AdminStep(r) ==
    \/ \E name \in Names : CreatePing(r, name)
    \/ \E m \in Models : UpdateGet(r, m) \/ RotateGet(r, m) \/ DeleteGet(r, m)
    \/ CreateInsert(r) \/ UpdateSave(r)
    \/ RotatePing(r) \/ RotateKeyGet(r) \/ RotateKeySave(r)
    \/ DeleteCount(r) \/ DeleteReget(r) \/ DeleteDoc(r)
=============================================================================
