----------------------------- MODULE MCSession -----------------------------
(***************************************************************************)
(* Small instances of BrowserSession.                                      *)
(***************************************************************************)
EXTENDS BrowserSession, TLC

MCSymmetry == Permutations(Requests) \cup Permutations(Tabs) \cup Permutations(Calls)
=============================================================================
