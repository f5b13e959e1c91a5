# CVantage: verification project

CVantage is a FastAPI backend on MongoDB (Beanie documents) with a React
front end. Candidates register, create or upload resumes, and run analyses:
an analysis compares a resume with a job description in three LLM steps and
yields suggestions that can be applied to the resume. Admins manage users,
resumes and the AI models.

The modules here model the backend's request handlers as they interleave on
the database, the sessions of a browser with its several tabs, what a
server process keeps in memory, the job runner, the AI models that admins
configure and runs use, who an account belongs to, and the shapes of a resume
between the form, the API and the store. The program has no multi-document transactions (decision D15 of
PLAN.md); it relies on single-document writes, optimistic revisions, unique
indexes and the order of its awaits. What can go wrong therefore goes wrong
*between* two awaits of a handler, and that is where the models have their
steps.

## 1. Inventory

Paths are relative to `src/server/app/` unless they start with `src/`.

| Component | State | Operations | Correct means |
|---|---|---|---|
| Documents (`database/models.py`) | the collections of users, resumes, analyses, notifications, auth tokens, AI models and audit logs | load; `save()` of the whole document, conditional on the revision for User, Resume, Analysis, unconditional for the others (a late copy overwrites, and brings a deleted document back); raw `$inc`; unique indexes | no acknowledged write is lost; a stored document can be loaded again |
| Analyses (`analyses/service.py`, `analyses/router.py`) | Analysis: status, steps, result, retry_count, suggestions' flags | create (count, insert, rollup, run the pipeline inside the POST), retry, cancel, apply and dismiss a suggestion, visit | one runner, steps in order, a completed analysis is whole, cancelled is final, nothing is silently abandoned |
| Notifications (`notifications/service.py`) | at most one ACTIVE notification per analysis (partial unique index) | find, clear, insert; visit or dismiss | the bell tells the truth and does not stay "in progress" |
| Resumes (`resumes/service.py`, `resumes/router.py`) | Resume: content, rollup, deleted_at; unique live name per user; User.resume_count | create, update, delete | edits survive concurrent pipelines; the counter follows the resumes |
| Upload and parse (`resumes/parsing.py`, `resumes/router.py`) | Resume.upload_parse.status | upload (parse inside the request), re-parse | one parser; pending -> processing -> completed or failed; only failed starts again |
| Users and authentication of a request (`auth/dependencies.py`, `users/service.py`) | User: status, last_active_at, profile, counters | load, refuse the deactivated, save last_active_at, profile and password saves; `reconcile_user_counters` (no caller) | a stale copy undoes nothing |
| Resume formats (`resumes/schemas.py`, `database/models.py`, `src/frontend/src/features/resume/`) | the stored json-resume, and the one a page shows | fill in and submit a form, edit in place, create, update, upload, re-parse, apply, get, export | what was filled in is stored; an edit changes its field; what was saved can be read |
| Admin (`admin/service.py`) | the same documents; AuditLog | update, deactivate, reactivate a user, reset a password; cascade delete of a resume | ordered, repeatable cascade; a deactivation sticks |
| AI models (`ai/models.py`, `admin/service.py`) | AiModel: active, usages, sealed key; the master key of the deployment | create, update, rotate a key, delete, each after a ping of the provider or a count | a stored key works; a deletion leaves a model for every usage |
| LLM calls (`ai/provider.py`, `ai/llm.py`) | the provider of a run | pick a provider, resolve a key for each call, call | a result has one provider |
| Accounts' identities (`auth/service.py`, `auth/router.py`) | User: email, password, OAuth identities; AuthToken; the state cookie | register, login, OAuth sign-in, forgotten and reset passwords, changes | an identity stays with its account; an old password stays out; a spent token is refused |
| Sessions (`auth/service.py`, `auth/abuse.py`) | AuthToken: consumed_at, expires_at; failures and lock of a login | login, refresh with rotation, logout, lockout ladder | a session is continued or ended as a whole; a lock holds, a success clears the failures and leaves the count of lockouts |
| Job runner (`jobs/runner.py`) | the running flag, worker tasks; Analysis.status, heartbeat_at, retry_count | start, recover, worker loop, claim, process, heartbeat, shut down | one owner at a time; the workers stop when told. The claim raises as it is written (section 4), and the application starts no runner at this commit |
| Event stream (`analyses/events.py`) | connections per user; last snapshot sent | poll, diff, send, close | the terminal event arrives; connections are given back |
| Lifecycle (`lifecycle.py`, `main.py`) | accepting, in-flight count, drained event | start, finish, begin shutdown, wait | drained exactly when nothing is in flight |
| Browser client (`src/frontend/src/api/client.ts`) | access token, the shared refresh promise | request, 401, refresh, retry | one refresh for concurrent 401s |
| Storage, exports' layout, health, observability, configuration, CLI, SPA, other pages | none that the others share | pure I/O or formatting | external to the models |

Interactions. Every handler is a coroutine of one event loop (or of several
server processes); handlers meet in the database. Three things they share in
the memory of their process: the lockouts of `auth/abuse.py`, the stream counts
of `analyses/events.py` and the coordinator of `lifecycle.py`; the container
starts two workers, and each has its own. `create_analysis` and `retry_analysis` run the pipeline before they
answer, and the pipeline calls the resume rollup and the notification service.
The admin cascade writes analyses, notifications and the resume. Every
handler of a signed-in user starts with `get_current_user`, which may save the
user. Resume creation, upload and deletion `$inc` the user's counter. The
middleware of `main.py` puts every request on the coordinator's count and takes
it off; the lifespan of the application waits for it before it closes the
database. The pages of a browser share its refresh cookie, and each keeps an
access token of its own. The pipelines and the parses read the AI models while
admins change them. Registration, sign-in, resets, changes of the password, the
admins and the last-active save all write the whole User from a copy. A resume
goes through three schemas on its way in and two on its way out.

What is hard here: a document is read before an await and its whole copy is
written after it; one of several saves of a handler fails; a conflict surfaces
in a `try` that was written for something else; the process stops between two
saves and nothing resumes the work; a count is checked before an insert; a
bound on a field is enforced only when the document is read back; a token is
consumed in one step and replaced in another, while other tabs, answers
on their way and revocations touch the same family; a page sends back the
whole document that it was shown some time ago; times are stored with a zone and
read back without one; a task that fails tries again without an await;
a key is tried on one copy of a model and stored with another; three functions
prune the empty values of a resume and three schemas validate it, each in its own
way. The
`hazards` of PROJECT.json list each place with the properties that watch it.

## 2. Modules

```
Documents ── Notifications ── AnalysisPipeline ─┐
    ├─────── ResumeEdits ───────────────────────┼─ Backend ── BackendInvariant ── MCBackend
    └─────── AdminCascade ──────────────────────┘     │              └─ BackendProofs
                                     AnalysisLifecycle (abstract)
AccountDocuments ── ResumeIntake ── Accounts ── AccountsInvariant ── MCAccounts
                                       │                └─ AccountsProofs
                              UploadParse (abstract)

Sessions ── BrowserSession ── MCSession
                    └─ SessionProofs
Lockout ──────────┬─ ServerProcess ── ProcessProofs
EventStreams ─────┘
    └ environment: AnalysisLifecycle

Jobs ── JobsProofs
AiModels ── LlmCalls ──┬─ MCModels
                       └─ ModelsProofs
Identity ──┬─ MCIdentity
           └─ IdentityProofs
ResumeFormats ──┬─ MCFormats
                └─ FormatsProofs
```

| Module | Models |
|---|---|
| `Documents` | analyses, resumes, notifications and the handlers' in-memory copies; load and save under revisions |
| `Notifications` | `create_notification`, `auto_clear_for_analysis`, `clear_notification`; the visit of an analysis |
| `AnalysisPipeline` | `create_analysis`, `run_full_pipeline` with the three `run_step` functions, retry, cancel, dismiss, apply |
| `ResumeEdits` | `update_resume` (a content from a page of any age, or a name), `delete_resume` as far as analyses are concerned |
| `AdminCascade` | `admin_delete_resume` |
| `Backend` | all of these served concurrently, and the stop of the process; the properties |
| `AnalysisLifecycle` | the abstract life of an analysis: what the endpoints promise |
| `BackendInvariant` | the inductive invariant and the four that rest on it |
| `BackendProofs` | the TLAPS proofs |
| `AccountDocuments` | one user and its resumes; save and `$inc` |
| `ResumeIntake` | create, upload, `run_parse_job`, re-parse, update, delete, with the counter |
| `Accounts` | `get_current_user`, profile and admin saves of the user, admin deletion; the properties |
| `UploadParse` | the abstract life of an upload's parse |
| `AccountsInvariant`, `AccountsProofs` | its inductive invariant and the TLAPS proofs |
| `Sessions` | `login_user`, `refresh_user_session`, `logout_user_session` and `_revoke_user_refresh_family`, with the password changes and the deactivation that call it |
| `BrowserSession` | the tabs of one browser: the interceptors of `api/client.ts` and their shared refresh, the cookie, answers that overtake each other or are lost; the properties and the inductive invariant |
| `Lockout` | `ensure_not_locked`, `register_failure`, `register_success` |
| `EventStreams` | `stream_analysis_events` and its generator |
| `ServerProcess` | the coordinator, the middleware and the lifespan around sign-ins (`Lockout`) and streams; the properties and the inductive invariant |
| `Jobs` | `MongoJobRunner` on its event loop: start, the worker loop with the claim that raises, shutdown |
| `AiModels` | `admin_create_model`, `admin_update_model`, `admin_rotate_model_key`, `admin_delete_model` with `AiModelService` and `validate_api_key` |
| `LlmCalls` | `get_llm_provider`, `resolve_key`, `structured_call` of the real and the fake provider, while `AiModels` runs; deployments with other keys; the properties of both |
| `Identity` | registration, login, `oauth_callback_login`, `request_password_reset`, `reset_password_with_token`, changes of the password, and the other handlers that save a User |
| `ResumeFormats` | `jsonResume.ts`, the page's inline edits, the schemas and validators of `resumes/schemas.py` and `database/models.py`, the endpoints that convert between them, `_set_deep_path`, the export's contact line |
| `SessionProofs`, `ProcessProofs`, `JobsProofs`, `ModelsProofs`, `IdentityProofs`, `FormatsProofs` | the TLAPS proofs |

### Correspondence

*Requests.* A member of `Requests` is one HTTP request, answered once. `pc[r]`
says which database call the handler makes next, or how it was answered:
`ok`, `refused` (4xx other than a version conflict), `conflict` (409 "version
conflict"), `error` (an unhandled exception, 500) or `lost` (the process
stopped). Each awaited database call is one step, with the code up to the next
one; code between two awaits is atomic in an event loop. With several server
processes a handler's code touches only its own copies, so the same steps
suffice.

*Revisions.* Beanie gives each accepted save a fresh uuid and refuses a save
whose copy holds another one. All that can be observed of a uuid is who still
holds the stored one, so `analysisHolders[a]` (`resumeHolders`, `userHolders`,
`fileHolders`) is the set of requests whose copy is current. A save by a
holder writes the whole copy and makes the writer the only holder; any other
save raises `RevisionIdWasChanged`, and the action says where that exception
takes the handler. A `$inc` changes the document and no holder.

*Data.* A resume is the set of acknowledged writes that it still contains, beside
its rollup and its deletion; `accepted` is the history of all of them. Those of
`json_resume` (edits and applied suggestions) are its content, and an edit
replaces the content: `update_resume` stores the document that the PATCH brings,
made from what a page was shown (`pages`) however long ago, so that it contains
the writes of that version and its own. The PATCH carries no revision; the one
that is checked is that of the document which the handler has just loaded. So
`NoLostResumeWrite` says that no save takes a write away *but* the content writes
that an edit replaces, and `EditsOfOldVersionsConflict`, which is what the endpoint
promises, is violated (finding 4). Suggestions are reduced to one per result with
its `applied` flag; the result itself to none, partial (step 1 returned) or full.
In `Accounts`, names are abstracted to "an insert or rename may collide with any
other live resume", which is what the case-insensitive index allows.
`updated_at`, texts, scores and audit entries are left out.

*Bounds on fields.* `retry_count <= 5` and `resume_count >= 0` are checked
only when a document is parsed, that is when it is loaded and when `save()`
parses what it stored. Hence `Readable`, `UserReadable`, and `RetrySave`,
which writes a count over the limit and then raises.

*Crash.* Every request under way becomes `lost`; the collections stay. Nothing
in the program takes the work up again.

*Times.* `init_database` gives PyMongo the URI alone. No URI of the repository
has `?tz_aware=true`, so stored times are read back without a zone, which
`auth/dependencies.py:23` says too and repairs for `last_active_at`. The two
comparisons of an `expires_at` with an aware now (`auth/service.py:402` and
`:475`) do not: they raise TypeError, a 500. `zoned` is TRUE in the deployments
whose URI asks for zones, where the comparisons work; it is chosen at the start,
and every property and theorem covers both kinds. Where it is FALSE no refresh
and no reset by token succeeds (`NoRefreshWithoutZone`, `NoResetWithoutZone`), and
what `RotationConsumes`, `CookieIsGood` and `TokensAreSpent` say of rotated and
spent tokens is of interest where it is TRUE.

*Tokens.* `AuthToken` documents have no revision and every copy that is saved
is saved consumed, so a copy needs no variable: a save sets `consumed`. A token
is named after the request that issued it. `BrowserSession` has one browser
signed in to one account; a reload is the end of one tab and the start of
another. A wrong password is answered before any token is touched, so failed
sign-ins are in `Lockout`. The access tokens of the tabs get too old by
themselves, so any call may be answered 401 and they need no variable. An API call that the server accepts, or refuses with
403, changes nothing in the client and is left out; so are the TTL monitor,
which removes only tokens that the browser's cookie does not outlive, the audit
entries, reactivation, and sign-ins from another device, which add tokens that
this browser never holds. The answers of the password and deactivation handlers
matter to nobody here and are `settled` at once. `family`, `revoked`, `alarm`,
`failed` and `alone` are history variables.

*Process.* The functions under the coordinator's lock, and those of
`auth/abuse.py`, contain no await that another coroutine can use, so each is
one step of its caller. A 503 of a process that is draining changes nothing and
is a stutter. `BaseHTTPMiddleware` returns when the response *starts*, so a
stream is off the count while its body goes on: the drain does not wait for it
(`Finish`, `Advance`). The generator reports a change of status between two
polls; a stream whose first snapshot is already terminal is never told `done`,
which is why `StreamEnds` speaks of streams that saw `pending`. The branch for
an analysis that disappears is unreachable, as deletion is soft.
The analyses a stream watches follow `AnalysisLifecycle`, which `Backend` is
checked to implement, in place of `Backend` itself. `early` and `window` are
history variables; a restart loses everything here and is a new behaviour.

*Jobs.* The tasks of one runner share an event loop: `turn` is the task that has
not given it back. `_claim_job` calls `Analysis.find_one_and_update`, which a
Beanie document does not have (Beanie is external; version 2.1.0 in
`src/server/uv.lock`), so the call raises before anything is awaited, the worker
logs it and goes round. What follows a successful claim cannot be reached and is
left out: `_process_job`, the heartbeat, and the jobs that `recover_stale_jobs`
would find. Nothing in the program starts a runner, so the task that does is
external.

*AI models and calls.* A key is named by the request that brought it, and is
opened only under the master key of the deployment that sealed it. AiModel has
no revision: `Save` stores the whole copy, and stores it again if the document
was deleted. A provider that is slow or down is the refusal of a ping and the
failure of a call. `Redeploy` changes the master key or the key of the
environment and loses what was under way. `_build_retry_decorator` is applied
to nothing, so a call has one attempt. `pinged` and `lone` are history
variables; `lone` holds the deletions that nobody disturbed.

*Identity.* A password, an account and a token are named for the request that
made them, so equality says everything that a hash does. An email is in lower
case; `None` is an identity's profile without a verified email. The state cookie
of the OAuth dance is one for the browser: a second sign-in takes its place, and
the callback of the first is refused. The refresh tokens issued or revoked at the
end of these handlers are those of `Sessions` and are left out. `late` holds the
requests that came with a token after it had reset a password, `signedIn` who was
signed in by which identity, `replaced` the passwords that were replaced: history
variables.

*Formats.* A document is a function from fields to values; a field is a section
and a name, and a list section has one entry, so that an entry, a section and a
list that lose their last value go with it, as in the three prunes. A value is
named for what the schemas tell apart (blank, a word, too long for the store, a
URL, a date of the form, a `PartialDate` object, ...), as the form, a client or
the store writes it: the API's schemas normalise URLs and addresses, the store's
the country code too (`to_upper`), so a stored value may differ from the one
that was typed, and `PlainFormsAreStored` compares with the value as the store
writes it. The abstraction leaves out how many entries a list has, and the texts. One request at a time: the races of
edits are those of `Accounts`.

## 3. Runs

| Run | Instance | Shows |
|---|---|---|
| `backend` | 3 requests of any of the 9 kinds, 1 analysis, retry limit 1, pages of any age, crashes | `NoLostResumeWrite`, `CompletedIsWhole`, `NoSilentAbandon`, `CompletionBellIsTrue`, `CascadeInOrder`, `OneRunner`, `StepsInOrder`, `AppliedOncePerRun`, and `FollowsLifecycle`: the backend implements `AnalysisLifecycle` |
| `backend_live` | 2 requests, 2 analyses of one resume, no crash, fair handlers | `PipelineSettles`, `ProgressBellSettles`, `RollupHasOwner` |
| `accounts` | 3 requests of 10 kinds, 2 resumes, crashes | `OneParser`, `ParseHasOwner`, `DeactivationSticks`, and `ParseFollowsLifecycle`: uploads implement `UploadParse` |
| `session` | 1 sign-in and 3 more requests, 2 tabs, 2 calls, times with and without a zone | `RevocationHolds`, `QuietLogout`, `WaitersAreServed`, `RotationConsumes`, `RefreshConsumesItsToken`, `NoFalseAlarm`, `CookieIsGood` |
| `process` | 2 requests at a time, 1 analysis, 2 bodies, at most 1 stream, 2 failures to a lockout, 2 lockouts | `DrainIsTrue`, `NoRequestCut`, `LockHolds`, `StreamEnds`, `ShutdownEnds` |
| `models` | 2 admin requests, up to 2 models of 2 names, 2 usages, 1 master key, 1 run of 2 calls, redeployments | `StoredKeysWerePinged`, `LoneDeleteKeepsServed`, `NoMixedRun` |
| `identity` | 3 requests of 11 kinds, 2 emails, 2 identities, 1 account at first, times with and without a zone | `IdentityStays`, `ReplacedStaysOut`, `ResetConsumesItsToken`, `TokensAreSpent` |
| `formats` | 3 of the 15 sections, documents of 1 or 2 fields, edits to at most 2 | `PlainFormsAreStored`, `EditKeepsTheRest`, `SavedCanBeShown` |
| `counter_drift` | create, profile update, delete | a violation: the counter goes below zero and the user cannot be loaded |
| `sse_leak` | as `process` | a violation: a stream is refused though none is open |
| `round_trip` | all sections, forms of 1 or 2 fields | a violation: a form with a work entry is answered 500 |
| `stale_page` | 2 requests, 1 analysis | a violation: an edit from an old page takes away an acknowledged write and is answered 200 |

*Bounds.* The number of requests bounds everything. Two requests exhibit every
lost update, three an edit or cancellation against a pipeline and its retry, or
a failed create and two retries that race. One analysis is enough for properties
that speak of one analysis (analyses meet only in the resume's rollup, which
`backend_live` runs with two, and in the budget). Retry limit 1 instead of 5
makes the second retry reach the unreadable document; nothing else depends on
the number. Requests are
interchangeable, so the safety runs use symmetry; the liveness run does not.
Two resumes in `accounts` make names collide.
In `session` three requests after the sign-in are a rotation, a second use of
the rotated token and a revocation of both, or a rotation of a rotation against
a logout; two tabs share the cookie, two calls share a promise (1,178,739
states). In `process` two requests let an attempt pass the check before the
other's failure locks; a threshold of 2 and base 2, cap 3 make the second
lockout meet the cap; `MaxLockouts` stops new sign-ins after two lockouts so
that the count stays finite, and bounds nothing else (271,617 states). In `models`
two requests are a ping against a rotation or two deletions against each other, for which two
models suffice; two usages make the count an iteration. One master key suffices,
since a deployment may also have none. In `identity` three requests are a sign-in,
one that holds the account since before, and a third that changes it; two emails
and two identities let a link, a registration and a change of the email collide.
In `formats` the three sections have every kind of field that a section can have
without a work entry and dates, a field of one section beside one of another, and a
field beside its sibling; two fields make a prune lose one and keep the other. The
other sections differ in which fields each schema has; `round_trip` has them all,
but stops at its violation, so that the run checks the three properties for
`basics`, `location` and `skills` only; the theorems are about any sections.

*Fairness.* `RunningSpec` assumes weak fairness of each `Continue(r)`: the
event loop runs a handler whose awaited call returned, and the drivers and the
LLM client have timeouts, so every awaited call returns or raises. `Arrive` is
not fair (no client has to call), and `RunningSpec` has no `Crash`, since after
one nothing continues. `ServerProcess` assumes weak fairness of `GoDown` (the
lifespan goes on once a shutdown has begun; its wait has a deadline) and of
each `Advance(s)` (the generator of a client that reads is resumed every second
or so). It assumes nothing of the handlers, which may hang, nor that a
shutdown begins. `BrowserSession`, `LlmCalls`, `Identity`, `ResumeFormats`, `Jobs`
and the other safety runs assume none.

*Deadlock.* `CHECK_DEADLOCK FALSE` in the passing configurations: the run is
over when every request was answered or the process has gone down.

The invariants are stated around errors on purpose. `NoSilentAbandon`, for
example, does not claim that no analysis is ever left pending: it is, when the
bookkeeping of a create or the first save of a run conflicts, when a dismissal
takes the revision from a running pipeline, or when the process stops. The
property says that this happens only behind a server error or a stop, never
behind a success or a refusal.

## 4. Findings

1. *Counter* (`counter_drift`): a whole-document save of a user undoes a `$inc`
   made since its load; the following decrement stores -1, which
   `Field(ge=0)` refuses at every later load.
2. *Stream count* (`sse_leak`): `_active_connections` is incremented for each
   stream and never decremented (`analyses/events.py:110`); a user who has
   opened five streams, one after the other, is refused until the worker
   restarts.
3. *Round trip* (`round_trip`): a form with a work entry cannot be saved: the
   API's `Work` sets `isCurrentRole` to False, which `prune_empty` keeps and the
   store's `JrWork` forbids. Dates (a string of the form against a `PartialDate`
   object) are refused, and `work.location`, `education.url` and
   `publications.url` of the form are dropped.
4. *Stale page* (`stale_page`): `update_resume` puts the document of a PATCH in
   place of the stored one (`resumes/service.py:161`) and checks the revision
   that it has itself just loaded. An edit from a page that is older than the
   resume silently takes away what was written since: an edit of another tab, an
   applied suggestion. The endpoint promises a 409 (`resumes/router.py:240`), and
   the page waits for it (`ResumeViewPage.tsx:45`); where two PATCHes do overlap,
   nobody handles RevisionIdWasChanged and the answer is 500.

Three more make a feature fail altogether. The models have them as the behaviour
of the program; what follows from them is proved, for any instance:

- *Refresh*: `stored_token.expires_at <= now` (`auth/service.py:402`) compares a
  time read without a zone with an aware one and raises TypeError. With the
  configurations of the repository every refresh with a token that is not
  consumed is a 500, against `auth/router.py:224-225` ("Consumes the current
  refresh token cookie, rotates it"); a session ends with its access token. The
  tests use mocked documents, whose times have a zone. (`NoRefreshWithoutZone`)
- *Reset by mail*: the same comparison at `auth/service.py:475`; no password is
  ever reset by a token, against `auth/router.py:557`. (`NoResetWithoutZone`)
- *Job runner*: `_claim_job` calls a method that a Beanie document does not have
  (`jobs/runner.py:152`). The AttributeError is caught and logged
  (`jobs/runner.py:146`), and the loop goes round without an await: the first
  worker keeps the event loop for good, no job is claimed, and a shutdown, which
  is to "signal workers to stop and wait" (`jobs/runner.py:84`), does not run.
  `tests/test_job_runner.py:3` calls the parts of the runner "directly" and never
  starts one. (`LoopIsHeldCorrect`)

Other disagreements of the code with itself or with its documents, met while
modelling. The models have them as behaviours, and the properties are stated
around them:

- `create_analysis` counts, then inserts, so two creates pass the budget
  together (`analyses/service.py:126`).
- `apply_suggestion` saves the analysis as applied before the resume; a conflict
  of the second save answers "please retry", which is then refused as "already
  applied" (line 413).
- The rollup and the notification are inside the pipeline's `try`, so their
  failure turns a completed analysis into a failed one (lines 282-308), a move
  that `AnalysisLifecycle` has for that reason.
- The first save of `run_parse_job` is outside its `try`; a conflict there, or of
  the save in the `except`, leaves the parse unfinished behind a 201, and
  re-parse accepts only failed ones. A process stopped in mid-parse leaves the
  same state.
- An admin's deletion of a resume does not decrement its owner's counter.
- `_consume_one_time_token` reads, then saves without a revision: where times
  have a zone, overlapping requests with one token are both served, which
  SECURITY_REVIEW_AUTH.md:34-35 excludes. `TokensAreSpent` speaks of the requests that come afterwards.
- Of the two ways in which an admin resets a password, the mail does not revoke
  the user's sessions, against the description at `admin/router.py:169`.
- Nothing issues an email verification token.
- `admin_update_model` deactivates the last active model, or takes its usages,
  without the guard that `admin_delete_model` has; two deletions pass the guard
  together. `LoneDeleteKeepsServed` speaks of the deletion that is alone.
- `_build_retry_decorator` (`ai/llm.py:117`) is applied to nothing: a call that
  times out is not tried again, against PLAN.md:67. Any failure to find a key
  means the fake provider, silently; and the newest active model hides the older
  ones even when its key cannot be opened.
- `recover_stale_jobs` is called at the start of a runner only; PLAN.md:385 wants
  it "on boot and periodically".
- `apply_suggestion` stores a string that nothing validates: a resume to which
  one was applied may not load again. A PATCH keeps blank strings, which a POST
  drops. An edit in place drops the stored fields that the API does not know.
  `SavedCanBeShown` and `EditKeepsTheRest` are about the other writers and fields.
- An export of a resume with `basics.url` raises a TypeError.
- The container starts two workers (`src/Dockerfile:46`), each with lockouts and
  stream counts of its own, so the effective limits are twice the configured ones.

## 5. Proofs

For any sets of requests, analyses, resumes, tabs, calls, streams, workers, models, usages, emails, identities and sections of a resume,
any number of fields in a document, any retry limit,
budget, threshold, backoff and maximum of streams:

| Theorem | Statement |
|---|---|
| `TypeCorrect` | `Spec => []TypeOK` |
| `Invariance` | `Spec => []IInv` |
| `NoResumeWriteLost` | `Spec => NoLostResumeWrite` |
| `OneRunnerAtATime` | `Spec => []OneRunner` |
| `CancellationIsFinal` | `Spec => CancelledIsFinal` |
| `WorkInvariance`, `OwnerInvariance`, `ApplyInvariance` | `Spec => []WorkInv`, `Spec => []OwnerInv`, `Spec => []ApplyInv` |
| `StepsAreInOrder` | `Spec => []StepsInOrder` |
| `CompletedAnalysisIsWhole` | `Spec => []CompletedIsWhole` |
| `RequestsFollowLifecycle` | `Spec => FollowsLifecycle`: `Backend` implements `AnalysisLifecycle` |
| `NothingSilentlyAbandoned` | `Spec => []NoSilentAbandon` |
| `CompletionBellTells` | `Spec => []CompletionBellIsTrue` |
| `RollupIsOwned` | `Spec => []RollupHasOwner` |
| `CascadeIsInOrder` | `Spec => []CascadeInOrder` |
| `AppliedAtMostOncePerRun` | `Spec => []AppliedOncePerRun` |
| `AccountsTypeCorrect` | `Spec => []TypeOK` (of `Accounts`, as those below) |
| `AccountsInvariance` | `Spec => []IInv` |
| `OneParserCorrect` | `Spec => []OneParser` |
| `DeletedOnceCorrect` | `Spec => []DeletedOnce` |
| `DeactivationSticksCorrect` | `Spec => DeactivationSticks` |
| `ParseFollowsLifecycleCorrect` | `Spec => ParseFollowsLifecycle`: `Accounts` implements `UploadParse` |
| `ParseHasOwnerCorrect` | `Spec => []ParseHasOwner` |
| `SessionInvariance`, `SessionTypeCorrect` | `Spec => []IInv`, `Spec => []TypeOK` (of `BrowserSession`, as those below) |
| `RotationConsumesCorrect` | `Spec => []RotationConsumes` |
| `RefreshConsumesCorrect` | `Spec => []RefreshConsumesItsToken` |
| `NoRefreshWithoutZone` | `Spec => []NoRefreshSucceeds`: without zones no refresh does |
| `RevocationHoldsCorrect` | `Spec => []RevocationHolds` |
| `SingleFlightCorrect` | `Spec => []SingleFlight` |
| `WaitersAreServedCorrect` | `Spec => []WaitersAreServed` |
| `CookieInvariance` | `Spec => []CookieInv` |
| `NoFalseAlarmCorrect` | `Spec => []NoFalseAlarm` |
| `CookieIsGoodCorrect` | `Spec => []CookieIsGood` |
| `QuietLogoutCorrect` | `Spec => []QuietLogout` |
| `ProcessInvariance`, `ProcessTypeCorrect` | `Spec => []IInv`, `Spec => []TypeOK` (of `ServerProcess`, as those below) |
| `DrainIsTrueCorrect` | `Spec => []DrainIsTrue` |
| `CountsRequestsCorrect` | `Spec => []CountsRequests` |
| `NoRequestCutCorrect` | `Spec => []NoRequestCut` |
| `LockHoldsCorrect` | `Spec => LockHolds` |
| `SilentWhileLockedCorrect` | `Spec => SilentWhileLocked` |
| `LoopIsHeldCorrect` | `Spec => LoopIsHeld`, if the caller and None are no workers (of `Jobs`) |
| `ModelsInvariance`, `ModelsTypeCorrect` | `Spec => []MInv`, `Spec => []TypeOK` (of `LlmCalls`, as those below) |
| `StoredKeysWerePingedCorrect` | `Spec => []StoredKeysWerePinged` |
| `NoMixedRunCorrect` | `Spec => []NoMixedRun` |
| `LoneDeleteKeepsServedCorrect` | `Spec => LoneDeleteKeepsServed` |
| `IdentityInvariance`, `IdentityTypeCorrect` | `Spec => []IdInv`, `Spec => []TypeOK` (of `Identity`, as those below) |
| `IdentityStaysCorrect` | `Spec => []IdentityStays` |
| `ReplacedStaysOutCorrect` | `Spec => []ReplacedStaysOut` |
| `ResetConsumesCorrect` | `Spec => []ResetConsumesItsToken` |
| `NoResetWithoutZone` | `Spec => []NoResetSucceeds`: without zones no reset by token does |
| `TokensAreSpentCorrect` | `Spec => []TokensAreSpent` |
| `FormatInvariance` | `Spec => []FormatInv` (of `ResumeFormats`, as those below) |
| `PlainFormsAreStoredCorrect` | `Spec => []PlainFormsAreStored` |
| `EditKeepsTheRestCorrect` | `Spec => EditKeepsTheRest` |
| `SavedCanBeShownCorrect` | `Spec => SavedCanBeShown` |

`CancelledIsFinal`, `DeletedOnce`, `SingleFlight`, `CountsRequests`,
`SilentWhileLocked`, `NoRefreshSucceeds`, `NoResetSucceeds` and `LoopIsHeld` are
proved and in no run.

Assumptions: `NoneAssumption` (None is neither an analysis nor a resume),
`ResumeOfAssumption` (every analysis has a resume); for the browser, that None
is neither a request (`NoneAssumption`) nor a tab (`TabsAssumption`); for the
process, that finitely many requests are served at a time
(`RequestsAssumption`), that a lockout takes at least two failures
(`LadderAssumption`; the setting's default is 5) and that the stream maximum is
a number (`StreamAssumption`); for the models, that ids are
numbers (`ModelsAssumption`), that a run has a usage and makes at least one call
(`UsageOfAssumption`, `CallsAssumption`), and that the seed and None are
distinct from the rest; for the identities the same of the seed and None
(`SeedAssumption`, `EmailsAssumption`, `UserAssumption`: None is no document);
for the formats, that the sections are some of those that the tables of the
schemas list (`SectionsAssumption`).
Nothing about the sizes of the sets.

*The invariant of `Backend`.* No property is inductive. That a save loses no write
but those that an edit replaces follows from `ResumeCopies` (a request that holds the stored revision has
the stored document in memory, and it is the document of its own resume);
`AnalysisCopies` says the same of analyses, `Focus` that a request under way
has an analysis and a resume. `OneRunner` is kept by a retry because a retry
that may save has a current copy of a *failed* analysis (`RunnerCurrent`),
while a running request's analysis is pending, completed or cancelled
(`RunnerStatus`); and by a create because the id it is about to insert is
nobody else's (`Reserved`). `AbsentIsLive` and `BatchExists` keep the cascade
to analyses that exist. `CancelledIsFinal` needs that a runner with a current
copy does not hold a cancelled analysis, which again is `RunnerCurrent`.
`IInv` is their conjunction.

Four more invariants of `Backend` rest on it.

- `WorkInv` says what the documents contain. `Progressing` ties the place of a
  runner whose copy is the stored one to the document: at `step` the steps before
  its own are completed and the rest pending, at `complete` all three are
  completed. A runner whose copy is old can save nothing, so the contents change
  only where `Progressing` knows them, which gives `StepsInOrder` and
  `CompletedIsWhole`. `Verdict` (a runner that has stored the completion finds
  the analysis completed, one that has not finds it pending or cancelled) says of
  each of those saves which move of `AnalysisLifecycle` it is; each other save is
  one move or none, so that `Backend` implements it. `GoalKnown` says what a
  request reports next.
- `OwnerInv` says who accounts for what is unfinished. A pending analysis keeps a
  runner or a request that failed (`NoSilentAbandon`, inductive beside
  `WorkInv`); the writer of a rollup that says "in progress" has not reported the
  end (`RollupOwned`); and where the bell announces a completion nobody runs any
  more (`BellIsOver`), because the run that announced it is the only one
  (`OneRunner`) and a completed analysis cannot be retried.
- `CascadeInv`: the analyses that a cascade has read are on its list or deleted
  (`CascadeProgress`), and stay so after it (`Deleted`), since no save takes a
  deletion back.
- `ApplyInv` counts. The requests that have applied an analysis, or have marked it
  and have yet to save the resume, are at most its runs (one and its retries),
  and one fewer while a further apply could succeed or a run has yet to store its
  result (`ApplyBudget`). An apply that is admitted has a current copy that is
  completed and not applied, so it raises the count by one within the bound, and
  leaves a document which no other apply is admitted to until a retry raises
  the bound.

*The invariant of `Accounts`.* `FileCopies` and `UserCopies` say what a current
copy is worth: a copy of a resume is the stored document, a copy of the user
has the stored status but may lack a `$inc`, which is why the status is safe
and the counter (finding 1) is not. `OneParser` is kept by a re-parse because
one that may save has found a *failed* parse (`ReparserStatus`), while whoever
parses has left it pending or processing (`ParserStatus`, true even when an
edit has taken the parser's revision); the same two conjuncts make each accepted
save a move of `UploadParse`. `DeletedOnce` follows from `OneDeleter`, which
counts a deletion that is yet to be counted, and is kept because a delete that
may save has found a live resume (`DeleterStatus`). `Targets` and
`AbsentIsUnparsed` make an insert harmless: nobody is about a resume that does
not exist yet. `JobAt` ties the labels of two handlers to their operation.
`ParseInv` adds that the last writer of a resume still holds it until the next write
(`Authors`), so that an unfinished parse was written by the parser, which then
goes on or was stopped, or by somebody who saved over it (`ParseOwned`).

*The invariant of `BrowserSession`.* `RotationConsumes` rests on `ConsumedFirst`
(a refresh that is about to issue, or has issued, has consumed what it was
presented) with `TokenMonotone` (a token once issued is never absent, once
consumed never live, because the only insert is of a token that
`IssuedLast` says is absent). `StaysRevoked` gives `RevocationHolds` in the
same way. `KnownIssued` says that the tokens which the browser and the handlers
know of exist. `SingleFlight` and `PromiseIsRefresh` hold each other up: a
refresh under way is its tab's promise, so none is sent beside it, and the
promise is a refresh under way, so a waiting call is served; `JobAt` says that
only the answers end a request of the browser.

`CookieInv` goes on from there to the cookie. `WhyConsumed`: a consumed token was
revoked with its family, or a refresh presented it. `SettledBefore`: the browser
presents only tokens of answers that it has received. `CookieMoved`: a refresh
whose answer was received has left the cookie at another token. With them an
alarm, which finds its token consumed, has another refresh that presented the
same token; `OneTry` says that it cannot be one of the same tab, unless one of
the two failed, which is `NoFalseAlarm`. `CookieIsGood` is `WhyConsumed` with
`CookieMoved` when nothing is under way. `LoneLogout` follows a logout that
nothing overlaps through its labels: what is live has been listed, so that nothing
is live once it is done.

What a refresh comes to is followed through its labels: without zones none gets
past `refresh_find` alive (`RefreshAdvance`), with them the only ways to the end
of a refresh that is not refused lead through `issue`, where `ConsumedFirst`
knows its token.

*The invariant of `ServerProcess`.* `ClosedIntake` (the intake is open exactly
while the process is up) and `DrainedIsIdle` (the event implies that nothing is
in flight) make `DrainIsTrue` inductive, with `CountsRequests`, a fact about
cardinalities, for the last request; together they give `NoRequestCut`.
`EarlyAttempts` (during a lock every attempt under way was let in before it)
gives `LockHolds`.

*The invariant of `Jobs`.* A worker that has the event loop has seen the runner
running (`Held`), which only the caller could change, who would need the loop.

*The invariant of `LlmCalls`.* A key is stored in a step which knows the name
that the copy has, while the ping knew the name of another copy. `NamesAgree`
closes the gap: a document's name never changes and an id is not used again
while somebody has it in hand, so all copies of one id agree on it. `KeysAgree`
then says that every copy, and not only every stored document, has a key that
was tried under its name, which is what saves of old copies need.
`DeleteAgrees`: a deletion in `lone` has found another model for each usage of
its own, or has it still on its list. `ProviderAgrees`: all outputs of a run are
of the provider it picked. Each admin action is reduced to its effect on the
documents (`DocEffect`) and the labels it moves between.

*The invariant of `Identity`.* `CopiesAgree` (a request with the stored revision
has the stored user) makes every accepted save start from the present links and
password. `Born` and `PasswordsAgree`: a password and an account are made once,
by the request they are named for, so what is new is neither replaced nor
anyone else's. `IdentitiesAgree`: no two accounts share an identity (the unique
index), and a sign-in between its link and its answer still has it. `TokensAgree`:
what was mailed stays issued, and a request that has got past the consumption of
its token, or came late with it, finds it consumed; and past the comparison of
`expires_at` there are only requests of deployments with zones. Each action is reduced to one
effect on the users, one on the tokens and one on its inputs.

*The invariant of `ResumeFormats`.* `SavedLoads` (what a creation, an edit or a
parse has stored is valid in the store and, once loaded, in the response) and
`ShowsStored` (the page has the response made of the stored document or of what a
load makes of it). The lemmas they rest on are about the conversions: a prune
of a pruned document is that document, a value that a schema has written it
accepts again and writes as it is, what a schema accepts trimmed it accepts
pruned, the names of the form are among those of the store. A conversion
looks at each field by itself, so the lemmas are proved field by field, for
documents of any number of fields. The page sends the whole
document it shows with one field replaced, so `EditKeepsTheRest` needs
`ShowsStored`: what it shows is the stored document.

*The argument.* In `Backend` and `Accounts`, type correctness is proved first, action by action. For the
rest, each action is reduced once to one of a few effects on the resumes and
on the analyses (a load, an accepted save, a refused save, nothing), and the
conjuncts of `IInv` are proved preserved per effect, with the status
conjuncts action by action.

Each of these invariants was first checked by TLC on the instance of the
component's run, where a step that does not preserve it on a reachable state shows
as a violation; the run of `backend` visits 919,499 states of `WorkInv` and the
others, the one of `accounts` 611,393, of `session` 1,178,739, of `identity` 732,076
and of `formats` 18,774.

*Only model-checked:* liveness. Every invariant and every action property of the
passing runs is proved. `PipelineSettles`, `ProgressBellSettles`, `StreamEnds`
and `ShutdownEnds` hold under fairness, which is outside what
the prover handles, as are `ENABLED`, induction over data and `RECURSIVE` operators
(none is used).

## 6. Not modelled, and what is left

Not modelled: the content of prompts, results and exports; the formats of file
uploads; file storage, logging, metrics, health probes, the CLI and the static
pages (I/O without shared state); the rate limiter (a library); listing and
paging (reads); time, except as a choice (the five minutes of
`_touch_last_active`, an expired token; the 30-day TTL of
notifications is left out); `reconcile_user_counters`, which nothing calls; the
verification of an email by token, which no handler issues; the audit entries,
which nothing reads but a list. Authentication precedes every handler of
`Backend` too, but is modelled in `Accounts`, where the user document matters.
`AnalysisStatus.IN_PROGRESS` would only be written by a claim of the job runner,
which raises, so `Backend` has no such status; the processing of a claimed job,
its heartbeat and the recovery of stale jobs are not modelled for that reason.

What could be added:

1. Abstract specifications of a family of sessions and of an account's identity, with
   proofs that `Sessions` and `Identity` implement them, as there are for
   analyses and parses.
2. The life of a job, once a claim can succeed and the application starts a
   runner.
3. A larger `formats`: the pairs of fields of all sections.
