----------------------------- MODULE MCBackend -----------------------------
(***************************************************************************)
(* Small instances of Backend: one user with one resume.  Requests are     *)
(* interchangeable.                                                        *)
(***************************************************************************)
EXTENDS BackendInvariant, TLC

CONSTANT TheResume

MCResumes == {TheResume}
MCResumeOf == [a \in Analyses |-> TheResume]

MCSymmetry == Permutations(Requests)
=============================================================================
