------------------------------ MODULE MCModels ------------------------------
(***************************************************************************)
(* Small instances of LlmCalls: analyses, which make two calls here.       *)
(***************************************************************************)
EXTENDS LlmCalls, TLC

MCUsageOf == [x \in Runs |-> "analysis"]
MCSymmetry == Permutations(Requests) \cup Permutations(Names)
=============================================================================
