--------------------------- MODULE MCFollowUpSweep ---------------------------
(* Instance of FollowUpSweep for TLC: a check a person may have run again and *)
(* one that is left alone.                                                    *)
EXTENDS FollowUpSweep, TLC

CONSTANTS s1, s2, build, codeql

JustOne == {{build}}
=============================================================================
