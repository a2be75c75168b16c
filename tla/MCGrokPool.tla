----------------------------- MODULE MCGrokPool -----------------------------
(***************************************************************************)
(* Small Grok pools for TLC.                                               *)
(***************************************************************************)
EXTENDS GrokPool
=============================================================================
