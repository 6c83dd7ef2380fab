------------------------------ MODULE MCPipeline ------------------------------
(* Small instances of a run of the pipeline, judged at any moment. *)
EXTENDS Judge

MCDepths == {"TINY", "MINIMAL", "STANDARD"}
StandardOnly == {"STANDARD"}
=============================================================================
