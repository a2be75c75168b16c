--------------------------- MODULE MCLogPipeline ---------------------------
(***************************************************************************)
(* A small log pipeline for TLC.                                           *)
(***************************************************************************)
EXTENDS LogPipeline
=============================================================================
