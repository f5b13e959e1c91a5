------------------------------ MODULE LlmCalls ------------------------------
(***************************************************************************)
(* The LLM calls of analyses and upload parses (ai/provider.py, ai/llm.py) *)
(* while admins change the models (AiModels) and deployments change the    *)
(* keys.  A run picks its provider once, and the real provider looks up a  *)
(* model again for each of its calls.                                      *)
(***************************************************************************)
EXTENDS AiModels, Sequences

CONSTANTS
    Runs,         \* the pipelines and parses of this run
    UsageOf,      \* what each is for
    Calls         \* the number of calls of a run (3 of an analysis, 1 of a parse)

ASSUME UsageOfAssumption == UsageOf \in [Runs -> Usages]
ASSUME CallsAssumption == Calls \in Nat \ {0}

VARIABLES
    at,           \* idle, call, done or failed
    provider,     \* none, fake or real
    returned      \* history: who produced the outputs so far, in order

runVars == <<at, provider, returned>>
vars == <<modelVars, runVars>>

---------------------------------------------------------------------------
Newest(S) == CHOOSE m \in S : \A k \in S : k <= m

\* resolve_key: the newest active model of the usage; if its key cannot be
\* opened, or if there is none, the key of the environment, if any.
Resolves(u) ==
    \/ Serving(u) # {} /\ model[Newest(Serving(u))].master = settings.master
    \/ settings.env

\* get_llm_provider: any exception on the way means the fake one.
PickProvider(x) ==
    /\ at[x] = "idle"
    /\ at' = [at EXCEPT ![x] = "call"]
    /\ \/ /\ settings.master # None /\ Resolves(UsageOf[x])
          /\ provider' = [provider EXCEPT ![x] = "real"]
       \/ provider' = [provider EXCEPT ![x] = "fake"]
    /\ UNCHANGED <<modelVars, returned>>

\* The output of a call is there: the run goes on with the next.
Returns(x, who) ==
    /\ returned' = [returned EXCEPT ![x] = Append(@, who)]
    /\ at' = [at EXCEPT ![x] = IF Len(returned[x]) + 1 = Calls THEN "done" ELSE "call"]

\* LlmTimeoutError, LlmQuotaError or LlmInvalidOutputError of one attempt:
\* no retry is applied, and the step or the parse fails.
Raises(x) == at' = [at EXCEPT ![x] = "failed"] /\ UNCHANGED returned

\* Mutant of RealCall: without a key the call is answered by the fake.
RealCallOrFake(x) ==
    IF Resolves(UsageOf[x]) THEN Returns(x, "real") \/ Raises(x) ELSE Returns(x, "fake")

\* OpenAiLlmProvider.structured_call; without a key it is a LlmQuotaError.
RealCall(x) == (Resolves(UsageOf[x]) /\ Returns(x, "real")) \/ Raises(x)

\* FakeLlmProvider.structured_call: the schema's defaults, where it has any.
FakeCall(x) == Returns(x, "fake") \/ Raises(x)

StructuredCall(x) ==
    /\ at[x] = "call"
    /\ (provider[x] = "real" /\ RealCall(x)) \/ (provider[x] = "fake" /\ FakeCall(x))
    /\ UNCHANGED <<modelVars, provider>>

\* A deployment with other keys: what was under way is lost.
Redeploy ==
    /\ settings' \in SettingsDoc
    /\ pc' = [r \in Requests |-> IF pc[r] \in {"idle"} \cup Answers THEN pc[r] ELSE "lost"]
    /\ at' = [x \in Runs |-> IF at[x] = "call" THEN "failed" ELSE at[x]]
    /\ lone' = {}
    /\ UNCHANGED <<model, about, copy, todo, pinged, provider, returned>>

---------------------------------------------------------------------------
Init ==
    /\ AdminInit
    /\ at = [x \in Runs |-> "idle"]
    /\ provider = [x \in Runs |-> "none"]
    /\ returned = [x \in Runs |-> <<>>]

Next ==
    \/ \E r \in Requests : AdminStep(r) /\ UNCHANGED runVars
    \/ \E x \in Runs : PickProvider(x) \/ StructuredCall(x)
    \/ Redeploy

Spec == Init /\ [][Next]_vars

---------------------------------------------------------------------------
(* Properties. *)

TypeOK ==
    /\ model \in [Models -> ModelDoc \cup {NoModel}]
    /\ settings \in SettingsDoc
    /\ pc \in [Requests -> {"idle", "create", "update", "rotate_ping", "rotate_get", "rotate",
                            "count", "delete_get", "delete"} \cup Answers]
    /\ about \in [Requests -> Models \cup {None}]
    /\ copy \in [Requests -> ModelDoc \cup {NoModel} \cup NewDoc]
    /\ todo \in [Requests -> SUBSET Usages]
    /\ pinged \subseteq Requests \X Names
    /\ lone \subseteq Requests
    /\ at \in [Runs -> {"idle", "call", "done", "failed"}]
    /\ provider \in [Runs -> {"none", "fake", "real"}]
    /\ returned \in [Runs -> Seq({"fake", "real"})]

\* A key is stored with a model only after the provider of that model has
\* accepted it, although the model is loaded again between the two and other
\* requests save copies of it, with older keys, in between.
StoredKeysWerePinged ==
    \A m \in Models : Stored(m) => model[m].key = Seed \/ <<model[m].key, model[m].name>> \in pinged

\* The guard of admin_delete_model: a deletion during which no other request
\* stored or deleted a model takes the last active model from no usage.
LoneDeleteKeepsServed ==
    [][\A r \in Requests, u \in Usages :
        pc[r] = "delete" /\ r \in lone /\ Serving(u) # {} /\ pc'[r] = "ok" => Serving(u)' # {}]_vars

\* No result is made of outputs of the real model and of the fake one, however
\* the models and keys change during the run.
NoMixedRun ==
    \A x \in Runs : \A i, k \in DOMAIN returned[x] : returned[x][i] = returned[x][k]
=============================================================================
