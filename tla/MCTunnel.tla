------------------------------ MODULE MCTunnel ------------------------------
(***************************************************************************)
(* Values of the constants of Tunnel are in the configurations.            *)
(***************************************************************************)
EXTENDS Tunnel
=============================================================================
