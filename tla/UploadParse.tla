---------------------------- MODULE UploadParse ----------------------------
(***************************************************************************)
(* What the upload and re-parse endpoints promise of one resume's          *)
(* upload_parse.status: an upload starts pending, a run takes it through   *)
(* processing to exactly one of completed and failed, and only a failed    *)
(* parse starts again.  A completed parse is final.                        *)
(***************************************************************************)
CONSTANT Files

VARIABLE status

Init == status = [x \in Files |-> "none"]

Move(x, from, to) ==
    /\ status[x] \in from
    /\ \E s \in to : status' = [status EXCEPT ![x] = s]

Upload(x) == Move(x, {"none"}, {"pending"})
Start(x) == Move(x, {"pending"}, {"processing"})
Finish(x) == Move(x, {"processing"}, {"completed", "failed"})
Reparse(x) == Move(x, {"failed"}, {"pending"})

Next == \E x \in Files : Upload(x) \/ Start(x) \/ Finish(x) \/ Reparse(x)

Spec == Init /\ [][Next]_status
=============================================================================
