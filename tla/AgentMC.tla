------------------------------ MODULE AgentMC -------------------------------
(***************************************************************************)
(* Instances of Agent for TLC, with the inductive invariant of its proofs.  *)
(* Questions are interchangeable.                                          *)
(***************************************************************************)
EXTENDS AgentInv, TLC

Symmetry == Permutations(Questions)
=============================================================================
