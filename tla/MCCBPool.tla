------------------------------ MODULE MCCBPool ------------------------------
(***************************************************************************)
(* Small CodeBuddy pools for TLC.                                          *)
(***************************************************************************)
EXTENDS CBPool, TLC

\* Requests are interchangeable; keys are not, since BootKeys names some.
Symmetry == Permutations(Requests)

=============================================================================
