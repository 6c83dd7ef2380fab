---------------------------- MODULE MCContentPlane ----------------------------
(* Small instances of ContentPlane: a few runs that may retain equal bodies. *)
EXTENDS ContentPlane, TLC

CONSTANTS r1, r2, b1, b2

TwoRuns == {r1, r2}
TwoBodies == {b1, b2}

RunBodySymmetry == Permutations(Runs) \cup Permutations(Bodies)
=============================================================================
