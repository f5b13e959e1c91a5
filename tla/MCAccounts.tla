----------------------------- MODULE MCAccounts -----------------------------
(***************************************************************************)
(* Small instances of Accounts.                                            *)
(***************************************************************************)
EXTENDS AccountsInvariant, TLC

MCSymmetry == Permutations(Requests)
=============================================================================
