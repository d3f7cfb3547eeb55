------------------------------ MODULE MCIntake -------------------------------
(* Instances of Intake for TLC.                                               *)
EXTENDS Intake

CONSTANTS run, other

TwoRuns == {run, other}
=============================================================================
