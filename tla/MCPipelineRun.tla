--------------------------- MODULE MCPipelineRun ---------------------------
(* Small instances of the pipeline run.                                     *)
EXTENDS PipelineRun
=============================================================================
