----------------------------- MODULE MCHandles -----------------------------
(***************************************************************************)
(* The handle modules together, for TLC.                                   *)
(***************************************************************************)
EXTENDS Remember, SageRefsStore

=============================================================================
