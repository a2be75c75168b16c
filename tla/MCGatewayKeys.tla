--------------------------- MODULE MCGatewayKeys ---------------------------
(***************************************************************************)
(* Small sets of gateway keys for TLC.                                     *)
(***************************************************************************)
EXTENDS GatewayKeys, TLC

\* Requests are interchangeable, and so are administrators.
Symmetry == Permutations(Requests) \cup Permutations(Admins)

=============================================================================
