------------------------- MODULE AnalysisLifecycle -------------------------
(***************************************************************************)
(* What the analyses endpoints promise of an analysis, whoever works on it *)
(* at the same time: it starts pending; a run ends it as completed or      *)
(* failed; while it is pending it may be cancelled, for good; only a       *)
(* failed one runs again; and a deletion leaves its status alone and is    *)
(* never undone.  A completed analysis may still turn failed, when the     *)
(* bookkeeping of its run fails.                                           *)
(***************************************************************************)
CONSTANT Analyses

VARIABLES status, deleted

Init ==
    /\ status = [a \in Analyses |-> "absent"]
    /\ deleted = [a \in Analyses |-> FALSE]

Move(a, from, to) ==
    /\ status[a] \in from
    /\ status' = [status EXCEPT ![a] = to]
    /\ UNCHANGED deleted

Create(a) == Move(a, {"absent"}, "pending")
Complete(a) == Move(a, {"pending"}, "completed")
Fail(a) == Move(a, {"pending", "completed"}, "failed")
Cancel(a) == Move(a, {"pending"}, "cancelled")
Retry(a) == Move(a, {"failed"}, "pending")

Delete(a) ==
    /\ status[a] # "absent"
    /\ deleted' = [deleted EXCEPT ![a] = TRUE]
    /\ UNCHANGED status

Next ==
    \E a \in Analyses :
        \/ Create(a) \/ Complete(a) \/ Fail(a) \/ Cancel(a) \/ Retry(a)
        \/ Delete(a)

Spec == Init /\ [][Next]_<<status, deleted>>
=============================================================================
