-------------------------- MODULE MCUploadSessions --------------------------
(***************************************************************************)
(* Instance of UploadSessions for TLC.                                     *)
(***************************************************************************)
EXTENDS UploadSessions, TLC

CONSTANTS r1, r2

Alike == Permutations({r1, r2})
=============================================================================
