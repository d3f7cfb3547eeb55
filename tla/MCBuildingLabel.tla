--------------------------- MODULE MCBuildingLabel ---------------------------
(* Model values for BuildingLabel's run.                                      *)
EXTENDS BuildingLabel

CONSTANTS r1, r2, i1
=============================================================================
