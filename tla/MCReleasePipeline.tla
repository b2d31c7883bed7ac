--------------------------- MODULE MCReleasePipeline ---------------------------
(* Finite instances of ReleasePipeline; the bound is in the .cfg file. *)
EXTENDS ReleasePipeline, TLC
==============================================================================
