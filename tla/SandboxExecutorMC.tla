------------------------- MODULE SandboxExecutorMC --------------------------
(***************************************************************************)
(* The instance of SandboxExecutor for TLC, with the inductive invariant of *)
(* its proofs.  Calls and workers are interchangeable, but the run checks   *)
(* temporal properties, which symmetry would not be sound for.  The calls   *)
(* start alike, so one order of each pair of kinds stands for both.  At    *)
(* least one call of a pair runs its code to an end or for ever, or both    *)
(* end in a reply that is too long; the other pairs are left out.           *)
(***************************************************************************)
EXTENDS SandboxExecutorInv, TLC

CONSTANTS c1, c2

Pairs ==
    {<<"halts", k>> : k \in Kinds}
    \cup {<<"loops", k>> : k \in Kinds \ {"halts"}}
    \cup {<<"overlong", "overlong">>}

MCInputs == {c1 :> p[1] @@ c2 :> p[2] : p \in Pairs}
=============================================================================
