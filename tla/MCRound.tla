------------------------------ MODULE MCRound ------------------------------
(* Issues and paths are interchangeable: only the planner's order, which is    *)
(* chosen in every possible way, tells issues apart.                          *)
EXTENDS Round, TLC

Symmetric == Permutations(Issues) \union Permutations(Files)
=============================================================================
