----------------------------- MODULE MCFormats -----------------------------
(***************************************************************************)
(* Small instances of ResumeFormats: a few sections, documents of a few    *)
(* fields.                                                                 *)
(***************************************************************************)
EXTENDS ResumeFormats

MCSome == {"basics", "location", "skills"}
MCAll == DOMAIN FormNames
=============================================================================
