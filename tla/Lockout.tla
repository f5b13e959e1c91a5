------------------------------ MODULE Lockout ------------------------------
(***************************************************************************)
(* auth/abuse.py: how failed sign-ins of one address from one IP lock it   *)
(* out, each time for longer.  The state is in the memory of the process.  *)
(* The functions have no await, so each is one step of its caller; the     *)
(* check and the verdict of an attempt are two.                            *)
(***************************************************************************)
EXTENDS Naturals

CONSTANTS
    Threshold,   \* auth_lockout_failure_threshold
    Base, Cap    \* auth_lockout_backoff_base_seconds and _max_seconds

ASSUME LadderAssumption ==
    Threshold \in Nat /\ Threshold >= 2 /\ Base \in Nat \ {0} /\ Cap \in Nat \ {0}

VARIABLES
    failures,
    lockouts,
    lock,        \* locked_until: "none", in the future ("running") or past ("over")
    window       \* history: the duration of the last lockout

lockVars == <<failures, lockouts, lock, window>>

\* The duration of the n-th lockout.
Duration(n) ==
    LET backoff == Base * 2^(n - 1)
    IN  IF backoff < Cap THEN backoff ELSE Cap

\* Mutant of EnsureNotLocked: a lock does not stop an attempt.
EnsureNothing(passes) == passes /\ UNCHANGED lockVars

\* ensure_not_locked, of a caller that passes: a lock that is over is cleared.
EnsureNotLocked(passes) ==
    /\ lock # "running"
    /\ lock' = "none"
    /\ passes
    /\ UNCHANGED <<failures, lockouts, window>>

\* register_failure raises a 429 of its own, and counts nothing, if another
\* attempt has set the lock since the check.
CountsFailure == lock # "running"

RegisterFailure ==
    /\ CountsFailure
    /\ \/ /\ failures + 1 < Threshold
          /\ failures' = failures + 1
          /\ lock' = "none"
          /\ UNCHANGED <<lockouts, window>>
       \/ /\ failures + 1 >= Threshold
          /\ failures' = 0
          /\ lockouts' = lockouts + 1
          /\ window' = Duration(lockouts + 1)
          /\ lock' = "running"

\* register_success: the number of lockouts, and so the ladder, stays.
RegisterSuccess ==
    /\ failures' = 0
    /\ lock' = "none"
    /\ UNCHANGED <<lockouts, window>>

\* The time of the lockout is up.
LockPasses ==
    /\ lock = "running"
    /\ lock' = "over"
    /\ UNCHANGED <<failures, lockouts, window>>

LockoutInit ==
    /\ failures = 0
    /\ lockouts = 0
    /\ lock = "none"
    /\ window = 0
=============================================================================
