------------------------------ MODULE SessionMC ------------------------------
(***************************************************************************)
(* Instances of Session for TLC: two versions of one file, a file that does *)
(* not parse, a sample dataset, two questions.                              *)
(***************************************************************************)
EXTENDS SessionInv, TLC

CONSTANTS a1, a2, b, s

MCUploads == {a1, a2, b}
MCBroken == {b}
MCSamples == {s}
MCNameOf == (a1 :> "a") @@ (a2 :> "a") @@ (b :> "b") @@ (s :> "s")

Symmetry == Permutations(Questions)
=============================================================================
