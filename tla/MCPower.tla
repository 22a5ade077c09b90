------------------------------ MODULE MCPower ------------------------------
(***************************************************************************)
(* Power for TLC.  Nothing tells two jobs apart.                           *)
(***************************************************************************)
EXTENDS Power, TLC

Symmetry == Permutations(Job)
=============================================================================
