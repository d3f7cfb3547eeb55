--------------------------- MODULE MCFollowUpPass ---------------------------
(* Instances of FollowUpPass for TLC.                                         *)
EXTENDS FollowUpPass, TLC

CONSTANTS r1, r2, t1, build, codeql, nobody

Symmetric == Permutations(Runs)
=============================================================================
