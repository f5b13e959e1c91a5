----------------------------- MODULE JobsProofs -----------------------------
(***************************************************************************)
(* What becomes of the event loop once a worker of jobs/runner.py has it,  *)
(* for any number of workers.                                              *)
(***************************************************************************)
EXTENDS Jobs, TLAPS

\* The worker that has the event loop has seen _running, which is still so.
Held ==
    turn \in Workers => running /\ worker[turn] \in {"test", "claim"}

JobsInv == worker \in [Workers -> {"none", "test", "claim", "ended"}] /\ Held

\* While a worker has the loop its steps are the only ones but the signal.
LEMMA HeldSteps ==
    ASSUME Caller \notin Workers, None \notin Workers, Next, turn \in Workers
    PROVE  Signal \/ WorkerStep(turn)
<1>1. ~CallerStep
  BY DEF CallerStep, Start, Started, StartRaises, Shutdown, ShutdownReturns, MayRun
<1>2. \A w \in Workers : WorkerStep(w) => w = turn
  BY DEF WorkerStep, Test, Claim, MayRun
<1> QED
  BY <1>1, <1>2 DEF Next

LEMMA JobsStep ==
    ASSUME Caller \notin Workers, None \notin Workers, JobsInv, [Next]_vars
    PROVE  JobsInv'
<1> USE DEF JobsInv, Held
<1>1. CASE Signal
  BY <1>1 DEF Signal
<1>2. CASE CallerStep
  BY <1>2 DEF CallerStep, Start, Started, StartRaises, Shutdown, ShutdownReturns, MayRun
<1>3. ASSUME NEW w \in Workers, WorkerStep(w) PROVE JobsInv'
  <2>1. CASE Test(w)
    BY <2>1 DEF Test, MayRun
  <2>2. CASE Claim(w)
    BY <2>2 DEF Claim, MayRun
  <2> QED
    BY <1>3, <2>1, <2>2 DEF WorkerStep
<1>4. CASE UNCHANGED vars
  BY <1>4 DEF vars
<1> QED
  BY <1>1, <1>2, <1>3, <1>4 DEF Next

LEMMA HeldStep ==
    ASSUME Caller \notin Workers, None \notin Workers, JobsInv, [Next]_vars,
           NEW w \in Workers, turn = w
    PROVE  /\ turn' = w
           /\ UNCHANGED <<running, caller>>
           /\ \A v \in Workers \ {w} : worker'[v] = worker[v]
<1> USE DEF JobsInv, Held
<1>1. CASE Signal
  BY <1>1 DEF Signal
<1>2. CASE Test(w)
  BY <1>2 DEF Test
<1>3. CASE Claim(w)
  BY <1>3 DEF Claim
<1>4. CASE UNCHANGED vars
  BY <1>4 DEF vars
<1> QED
  BY <1>1, <1>2, <1>3, <1>4, HeldSteps DEF WorkerStep

---------------------------------------------------------------------------
(* The theorem *)

\* _worker_loop: the first worker that tests _running has the event loop for
\* good, because its claim raises before it awaits anything.
THEOREM LoopIsHeldCorrect ==
    ASSUME Caller \notin Workers, None \notin Workers PROVE Spec => LoopIsHeld
<1>1. Init => JobsInv
  BY DEF Init, JobsInv, Held
<1>2. JobsInv /\ [Next]_vars => JobsInv'
  BY JobsStep
<1>3. JobsInv /\ [Next]_vars =>
          [\A w \in Workers : turn = w =>
               /\ turn' = w
               /\ UNCHANGED <<running, caller>>
               /\ \A v \in Workers \ {w} : worker'[v] = worker[v]]_vars
  BY HeldStep
<1> QED
  BY <1>1, <1>2, <1>3, PTL DEF Spec, LoopIsHeld
=============================================================================
