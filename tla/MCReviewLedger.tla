--------------------------- MODULE MCReviewLedger ----------------------------
(* Instances of ReviewLedger for TLC.                                         *)
EXTENDS ReviewLedger

CONSTANTS s1, s2

TwoSessions == {s1, s2}
=============================================================================
