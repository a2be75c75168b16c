------------------------------- MODULE MCEdge -------------------------------
(***************************************************************************)
(* A small edge for TLC.                                                   *)
(***************************************************************************)
EXTENDS Edge, TLC

MCClients == {"address", "key"}
MCKeyLimits == {<<1, 0>>, <<2, 2>>, <<0, 0>>}
Symmetry == Permutations(Requests)

ASSUME RefillAssumption
=============================================================================
