---------------------------- MODULE MCIngestAuth ----------------------------
(***************************************************************************)
(* TLC instance of IngestAuth: the names of its model values.              *)
(***************************************************************************)
EXTENDS IngestAuth, TLC

CONSTANTS k1, p1, p2, r1, r2

MCSymmetry == Permutations({r1, r2})
=============================================================================
