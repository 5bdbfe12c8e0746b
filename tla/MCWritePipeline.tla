--------------------------- MODULE MCWritePipeline ---------------------------
(* Small instances of WritePipeline for TLC.                               *)
EXTENDS WritePipelineRefinement
CONSTANTS anon, alice
MCUsers == {anon, alice}
=============================================================================
