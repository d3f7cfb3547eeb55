---------------------------- MODULE MCIntakeRound ----------------------------
(* Instances of IntakeRound for TLC.                                          *)
EXTENDS IntakeRound

\* At most four of them, anywhere.
AnyFour == {set \in SUBSET Issues : Cardinality(set) <= 4}
=============================================================================
