--------------------------- MODULE ServerProcess ---------------------------
(***************************************************************************)
(* What one worker process keeps in memory: ShutdownCoordinator            *)
(* (lifecycle.py) with the middleware and the lifespan of main.py around   *)
(* every request, and behind them the sign-in endpoints of auth/router.py  *)
(* (Lockout) and the event streams (EventStreams).  The sections under the *)
(* coordinator's lock have no await, so each is one step.  A restart loses *)
(* all of it: it is a new behaviour of this module.                        *)
(***************************************************************************)
EXTENDS Lockout, EventStreams

CONSTANTS
    Requests,     \* the requests served at a time
    MaxLockouts   \* bound: no sign-in begins after so many lockouts

ASSUME RequestsAssumption == IsFiniteSet(Requests)

VARIABLES
    pc,           \* where each request is
    early,        \* history: during a lock, the attempts let in before it
    accepting, inFlight, drained,   \* ShutdownCoordinator
    life,         \* where the lifespan is
    timedOut      \* the drain ended without all requests

coordinatorVars == <<accepting, inFlight, drained>>
lifeVars == <<life, timedOut>>
storeVars == <<status, deleted>>
vars == <<lockVars, storeVars, streamVars, pc, early, coordinatorVars, lifeVars>>

Goto(r, label) == pc' = [pc EXCEPT ![r] = label]

---------------------------------------------------------------------------
(* request_context_middleware and ShutdownCoordinator *)

\* Mutant of TryStart: requests are let in during the drain.
TryStartAlways ==
    /\ inFlight' = inFlight + 1
    /\ drained' = FALSE
    /\ UNCHANGED accepting

\* try_start_request; without it the answer is a 503 and nothing changes.
TryStart ==
    /\ accepting
    /\ inFlight' = inFlight + 1
    /\ drained' = FALSE
    /\ UNCHANGED accepting

FinishRequest ==
    /\ inFlight' = IF inFlight > 0 THEN inFlight - 1 ELSE 0
    /\ drained' = (drained \/ (~accepting /\ inFlight' = 0))
    /\ UNCHANGED accepting

SignIns == {"login", "register", "forgot"}

\* "large" is a body over max_request_body_bytes: the middleware answers.
Arrive(r) ==
    /\ pc[r] = "idle"
    /\ TryStart
    /\ \E kind \in SignIns \cup {"stream", "large"} :
        /\ kind \in SignIns => lockouts < MaxLockouts
        /\ Goto(r, kind)
    /\ UNCHANGED <<lockVars, storeVars, streamVars, early, lifeVars>>

\* "denied" is the 401 or 403 of a wrong sign-in, "busy" the 429 of a stream,
\* "answered" everything else.
Answers == {"answered", "denied", "busy", "large"}

\* Every path of the middleware ends with finish_request, also when the
\* handler raised.
FinishedBy == Answers

\* The response starts; the body of a stream goes on without the middleware.
Finish(r) ==
    /\ pc[r] \in Answers
    /\ \/ pc[r] \in FinishedBy /\ FinishRequest
       \/ pc[r] \notin FinishedBy /\ UNCHANGED coordinatorVars
    /\ Goto(r, "idle")
    /\ UNCHANGED <<lockVars, storeVars, streamVars, early, lifeVars>>

---------------------------------------------------------------------------
(* login, register and forgot_password *)

OnlyLockout == UNCHANGED <<storeVars, streamVars, coordinatorVars, lifeVars>>

AfterCheck(r) ==
    Goto(r, [login |-> "verify", register |-> "insert", forgot |-> "answered"][pc[r]])

Check(r) ==
    /\ pc[r] \in SignIns
    /\ EnsureNotLocked(AfterCheck(r))
    /\ early' = early \ {r}
    /\ OnlyLockout

\* 429
CheckLocked(r) ==
    /\ pc[r] \in SignIns
    /\ lock = "running"
    /\ Goto(r, "answered")
    /\ UNCHANGED <<lockVars, early>>
    /\ OnlyLockout

Attempting == {r \in Requests : pc[r] \in {"verify", "insert", "issue"}}

\* login_user found the user: a wrong password or a deactivated account.
Fails(r) ==
    /\ pc[r] = "verify"
    /\ \/ /\ RegisterFailure
          /\ Goto(r, "denied")
          /\ early' = IF lock' = "running" THEN Attempting \ {r} ELSE early
       \/ /\ ~CountsFailure
          /\ Goto(r, "answered")
          /\ UNCHANGED <<lockVars, early>>
    /\ OnlyLockout

\* The right password, or a registration that is new or not (409, 422);
\* the audit entry and the refresh token are still to be written.
Passes(r) ==
    /\ \/ pc[r] \in {"verify", "insert"} /\ Goto(r, "issue")
       \/ pc[r] = "insert" /\ Goto(r, "answered")
    /\ UNCHANGED <<lockVars, early>>
    /\ OnlyLockout

Succeeds(r) ==
    /\ pc[r] = "issue"
    /\ RegisterSuccess
    /\ Goto(r, "answered")
    /\ early' = {}
    /\ OnlyLockout

---------------------------------------------------------------------------
(* stream_analysis_events *)

OpenStream(r) ==
    /\ pc[r] = "stream"
    /\ \E a \in Analyses :
        \/ NotFound(a) /\ Goto(r, "answered")
        \/ TooMany(a) /\ Goto(r, "busy")
        \/ Accept(a) /\ Goto(r, "answered")
    /\ UNCHANGED <<lockVars, storeVars, early, coordinatorVars, lifeVars>>

\* Any database call may raise, and does when the database is closed.
Raise(r) ==
    /\ pc[r] \in {"verify", "insert", "issue", "stream"}
    /\ Goto(r, "answered")
    /\ UNCHANGED <<lockVars, early>>
    /\ OnlyLockout

Advance(s) ==
    /\ Snapshot(s) \/ Poll(s)
    /\ life # "closed"
    /\ UNCHANGED <<lockVars, storeVars, pc, early, coordinatorVars, lifeVars>>

---------------------------------------------------------------------------
(* lifespan *)

\* Mutant of BeginShutdown: an idle process is not noticed.
BeginShutdownUnchecked ==
    /\ life = "up" /\ life' = "draining"
    /\ accepting' = FALSE
    /\ UNCHANGED <<inFlight, drained, timedOut>>

\* begin_shutdown; the drain hook of the job runner is noop_job_drain.
BeginShutdown ==
    /\ life = "up" /\ life' = "draining"
    /\ accepting' = FALSE
    /\ drained' = (drained \/ inFlight = 0)
    /\ UNCHANGED <<inFlight, timedOut>>

\* Mutant of WaitForDrain: it waits as long as it takes.
WaitForever ==
    /\ life = "draining" /\ drained /\ life' = "drained"
    /\ UNCHANGED <<coordinatorVars, timedOut>>

\* wait_for_drain: the event is set, or shutdown_timeout_ms are over.
WaitForDrain ==
    /\ life = "draining" /\ life' = "drained"
    /\ \/ drained /\ UNCHANGED timedOut
       \/ ~drained /\ timedOut' = TRUE
    /\ UNCHANGED coordinatorVars

CloseDatabase ==
    /\ life = "drained" /\ life' = "closed"
    /\ UNCHANGED <<coordinatorVars, timedOut>>

OnlyLifespan == UNCHANGED <<lockVars, storeVars, streamVars, pc, early>>

GoDown == (WaitForDrain \/ CloseDatabase) /\ OnlyLifespan

---------------------------------------------------------------------------
Serve(r) ==
    \/ Arrive(r) \/ Finish(r)
    \/ Check(r) \/ CheckLocked(r) \/ Fails(r) \/ Passes(r) \/ Succeeds(r)
    \/ OpenStream(r) \/ Raise(r)

Elsewhere == UNCHANGED <<pc, early, coordinatorVars, lifeVars>>

Next ==
    \/ \E r \in Requests : Serve(r)
    \/ \E s \in Streams : Advance(s)
    \/ \E s \in Streams : Cut(s) /\ UNCHANGED <<lockVars, storeVars>> /\ Elsewhere
    \/ Lifecycle!Next /\ UNCHANGED <<lockVars, streamVars>> /\ Elsewhere
    \/ LockPasses /\ early' = {} /\ UNCHANGED pc /\ OnlyLockout
    \/ BeginShutdown /\ OnlyLifespan
    \/ GoDown

Init ==
    /\ LockoutInit
    /\ StreamsInit
    /\ pc = [r \in Requests |-> "idle"]
    /\ early = {}
    /\ accepting = TRUE /\ inFlight = 0 /\ drained = TRUE
    /\ life = "up" /\ timedOut = FALSE

\* The event loop runs a shutdown that has begun, and the generators as long
\* as the client reads (if it does not, Cut).  Nothing is assumed of the
\* handlers, which may hang in the database or an LLM call, and nothing
\* makes a shutdown begin.
Fairness == WF_vars(GoDown) /\ \A s \in Streams : WF_vars(Advance(s))

Spec == Init /\ [][Next]_vars /\ Fairness

---------------------------------------------------------------------------
(* Correctness *)

Labels == {"idle", "verify", "insert", "issue", "stream"} \cup SignIns \cup Answers

Final == {"completed", "failed", "cancelled"}

TypeOK ==
    /\ failures \in 0 .. Threshold - 1
    /\ lockouts \in Nat
    /\ lock \in {"none", "running", "over"}
    /\ status \in [Analyses -> {"absent", "pending"} \cup Final]
    /\ deleted \in [Analyses -> BOOLEAN]
    /\ connections \in 0 .. MaxStreams
    /\ stream \in [Streams -> [at : {"closed", "opened", "polling"},
                               on : Analyses \cup {None},
                               last : {"absent", "pending"} \cup Final]]
    /\ pc \in [Requests -> Labels]
    /\ early \subseteq Requests
    /\ accepting \in BOOLEAN /\ inFlight \in Nat /\ drained \in BOOLEAN
    /\ life \in {"up", "draining", "drained", "closed"}
    /\ timedOut \in BOOLEAN

\* Once the intake is closed the event that the shutdown waits for is set
\* exactly when no request is left, whichever came first.
DrainIsTrue == ~accepting => (drained <=> inFlight = 0)

\* The requests counted are those between try_start and finish_request.
CountsRequests == inFlight = Cardinality({r \in Requests : pc[r] # "idle"})

\* The database is not closed under a request, unless the time was up.
NoRequestCut ==
    life \in {"drained", "closed"} /\ ~timedOut => \A r \in Requests : pc[r] = "idle"

\* A lock ends when its time is over; until then only an attempt that was
\* let in before it was set can clear it, by succeeding.
LockHolds ==
    [][lock = "running" /\ lock' = "none" =>
        \E r \in early : pc[r] = "issue" /\ pc'[r] = "answered"]_vars

\* During a lock nobody learns whether a password is right: an attempt that
\* was let in before is answered 429 too if it fails, and counts nothing.
SilentWhileLocked ==
    [][lock = "running" =>
        /\ failures' <= failures
        /\ \A r \in Requests : pc'[r] = "denied" => pc[r] = "denied"]_vars

\* A stream that saw its analysis pending is ended by the end of the
\* analysis, unless a retry is faster than the next poll.
StreamEnds ==
    \A s \in Streams : \A a \in Analyses :
        (stream[s].at = "polling" /\ stream[s].on = a /\ stream[s].last = "pending"
            /\ status[a] \in Final)
        ~> (stream[s].at = "closed" \/ status[a] = "pending" \/ life = "closed")

\* "bounded by SHUTDOWN_TIMEOUT_MS": a shutdown that begins ends, whatever
\* the handlers do.
ShutdownEnds == life = "draining" ~> life = "closed"

---------------------------------------------------------------------------
(* The inductive invariant behind the safety properties *)

\* The intake is closed with the first step of the shutdown.
ClosedIntake == accepting <=> life = "up"

\* The event is cleared by the first request and not set before the last.
DrainedIsIdle == drained => inFlight = 0

\* During a lock every attempt under way was let in before it.
EarlyAttempts == lock = "running" => Attempting \subseteq early

OpenHasAnalysis == \A s \in Streams : stream[s].at # "closed" => stream[s].on \in Analyses

IInv ==
    /\ TypeOK
    /\ ClosedIntake
    /\ DrainedIsIdle
    /\ DrainIsTrue
    /\ CountsRequests
    /\ NoRequestCut
    /\ EarlyAttempts
    /\ OpenHasAnalysis

---------------------------------------------------------------------------
(* What a docstring says, and the code does not do *)

\* "Too many SSE connections per user": a stream is refused only when the
\* user has the maximum open.
RefusedOnlyWhenFull ==
    [][\A r \in Requests :
        pc[r] # "busy" /\ pc'[r] = "busy" => Cardinality(Open) >= MaxStreams]_vars
=============================================================================
