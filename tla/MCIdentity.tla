----------------------------- MODULE MCIdentity -----------------------------
(***************************************************************************)
(* Small instances of Identity.                                            *)
(***************************************************************************)
EXTENDS Identity, TLC

MCSymmetry == Permutations(Requests) \cup Permutations(Identities)
=============================================================================
