------------------------------ MODULE IngestMC ------------------------------
(***************************************************************************)
(* Instances of Ingest for TLC: headers of up to four names that differ in  *)
(* spaces, or look like numbered names.                                     *)
(***************************************************************************)
EXTENDS IngestInv

MCNames ==
    LET a == Letter("a")
    IN  {<<a>>, <<a, Space>>, <<Space, a>>, <<a, Dot(1)>>, <<Letter("b")>>, <<Space>>}

MCHeaders == BoundedSeq(MCNames, 4) \ {<<>>}
=============================================================================
