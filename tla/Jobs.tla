-------------------------------- MODULE Jobs --------------------------------
(***************************************************************************)
(* The job runner of jobs/runner.py in one process, as its code runs: the  *)
(* worker tasks and the task that starts and stops the runner share an     *)
(* event loop, and a task gives the loop back only where it awaits         *)
(* something that is not there yet.                                        *)
(*                                                                         *)
(* _claim_job calls Analysis.find_one_and_update.  Analysis is a Beanie    *)
(* Document (Beanie 2.1.0, external), which has find_one(...).update(...)  *)
(* and no method of that name, so the call raises AttributeError before    *)
(* anything is awaited.  _worker_loop catches it, logs it and tries again: *)
(* no job is ever claimed, and what follows a claim (_process_job, the     *)
(* heartbeat, the jobs that recover_stale_jobs looks for) is not reached.  *)
(***************************************************************************)

CONSTANTS
    Workers,    \* the worker tasks
    Caller,     \* the task that starts and stops the runner (external)
    None        \* no task

VARIABLES
    running,    \* _running
    worker,     \* "none"; "test": about to test _running; "claim": about to call
                \* find_one_and_update; "ended"
    caller,     \* "off"; "recovering": start awaits recover_stale_jobs; "on": start
                \* has returned, or it has "raised"; "waiting": shutdown awaits the
                \* tasks; "stopped"
    wanted,     \* the caller was told to stop the runner
    turn        \* the task that has not given the event loop back

vars == <<running, worker, caller, wanted, turn>>

\* The event loop is free, or the task has it.
MayRun(t) == turn \in {t, None}

---------------------------------------------------------------------------
(* The caller *)

\* The caller awaits a signal to stop.
Signal ==
    /\ wanted' = TRUE
    /\ UNCHANGED <<running, worker, caller, turn>>

\* start, to its first await
Start ==
    /\ caller = "off" /\ MayRun(Caller)
    /\ running' = TRUE
    /\ caller' = "recovering"
    /\ UNCHANGED <<worker, wanted, turn>>

\* recover_stale_jobs finds nothing: only _claim_job and _heartbeat_loop set the
\* heartbeat_at that it looks for.  If the caller has been told to stop, it goes
\* on to shutdown without giving the event loop back.
Started ==
    /\ caller = "recovering" /\ MayRun(Caller)
    /\ worker' = [w \in Workers |-> "test"]
    /\ caller' = "on"
    /\ turn' = IF wanted THEN Caller ELSE None
    /\ UNCHANGED <<running, wanted>>

StartRaises ==
    /\ caller = "recovering" /\ MayRun(Caller)
    /\ caller' = "raised"
    /\ UNCHANGED <<running, worker, wanted, turn>>

\* shutdown, to its first await
Shutdown ==
    /\ caller \in {"on", "raised"} /\ wanted /\ MayRun(Caller)
    /\ running' = FALSE
    /\ caller' = IF caller = "raised" THEN "stopped" ELSE "waiting"
    /\ turn' = None
    /\ UNCHANGED <<worker, wanted>>

\* All tasks have ended, or the time is up and the others are cancelled.
ShutdownReturns ==
    /\ caller = "waiting" /\ MayRun(Caller)
    /\ worker' = [w \in Workers |-> "ended"]
    /\ caller' = "stopped"
    /\ UNCHANGED <<running, wanted, turn>>

CallerStep == Start \/ Started \/ StartRaises \/ Shutdown \/ ShutdownReturns

---------------------------------------------------------------------------
(* _worker_loop *)

Test(w) ==
    /\ worker[w] = "test" /\ MayRun(w)
    /\ worker' = [worker EXCEPT ![w] = IF running THEN "claim" ELSE "ended"]
    /\ turn' = IF running THEN w ELSE None
    /\ UNCHANGED <<running, caller, wanted>>

\* The claim raises, the exception is logged, and the task is still running.
Claim(w) ==
    /\ worker[w] = "claim" /\ MayRun(w)
    /\ worker' = [worker EXCEPT ![w] = "test"]
    /\ UNCHANGED <<running, caller, wanted, turn>>

WorkerStep(w) == Test(w) \/ Claim(w)

---------------------------------------------------------------------------
Init ==
    /\ running = FALSE
    /\ worker = [w \in Workers |-> "none"]
    /\ caller = "off"
    /\ wanted = FALSE
    /\ turn = None

Next == Signal \/ CallerStep \/ \E w \in Workers : WorkerStep(w)

Spec == Init /\ [][Next]_vars

---------------------------------------------------------------------------
(* Properties *)

\* A worker that has got the event loop keeps it: no other task runs again,
\* neither a worker nor the one that would stop the runner.
LoopIsHeld ==
    [][\A w \in Workers : turn = w =>
           /\ turn' = w
           /\ UNCHANGED <<running, caller>>
           /\ \A v \in Workers \ {w} : worker'[v] = worker[v]]_vars
=============================================================================
