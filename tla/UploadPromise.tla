---------------------------- MODULE UploadPromise ----------------------------
(***************************************************************************)
(* What a chunked upload promises its client                               *)
(* (apps/api/src/uploads/uploads.service.ts): one file, whose bytes are    *)
(* fixed when it is materialized; it is available only with its bytes, a   *)
(* submitted file is kept for good, and bytes go only after the upload was *)
(* withdrawn (aborted or expired).  It ends where the failure of the very  *)
(* first request is noticed after later ones were served: such an upload   *)
(* is void, and nothing is promised of it.  UploadSessions implements it.  *)
(***************************************************************************)
CONSTANTS Contents, Nil

VARIABLES
    stage,      \* uploading, available, submitted or withdrawn
    bytes,      \* what a reader of the file gets, Nil while there is none
    void        \* is nothing promised any more?

Init == stage = "uploading" /\ bytes = Nil /\ ~void

Materialize ==
    /\ stage = "uploading" /\ bytes = Nil
    /\ bytes' \in Contents
    /\ UNCHANGED stage

Complete ==
    /\ stage = "uploading" /\ bytes # Nil
    /\ stage' = "available"
    /\ UNCHANGED bytes

Submit ==
    /\ stage = "available"
    /\ stage' = "submitted"
    /\ UNCHANGED bytes

Withdraw ==
    /\ stage \in {"uploading", "available"}
    /\ stage' = "withdrawn"
    /\ UNCHANGED bytes

Purge ==
    /\ stage = "withdrawn"
    /\ bytes' = Nil
    /\ UNCHANGED stage

Void == void'

Next ==
    \/ ~void' /\ (Materialize \/ Complete \/ Submit \/ Withdraw \/ Purge)
    \/ Void

Spec == Init /\ [][Next]_<<stage, bytes, void>>
=============================================================================
