---------------------------- MODULE MCProxyPool ----------------------------
(***************************************************************************)
(* Small proxy pools for TLC.                                              *)
(***************************************************************************)
EXTENDS ProxyPool, TLC

\* Requests are interchangeable, and so are administrators and settings.
Symmetry == Permutations(Requests) \cup Permutations(Admins) \cup Permutations(Configs)

=============================================================================
