--------------------------- MODULE MCBuildPipeline ---------------------------
(* Model-checking instances of BuildPipeline.                                 *)
EXTENDS BuildPipeline

\* The shortest and the longest pipeline.
MCOptional == {{}, {"architect", "ui", "scribe"}}
==============================================================================
