----------------------------- MODULE MCPipeline -----------------------------
(* Small instances of Pipeline.  The cfg files give the constants.         *)
EXTENDS PipelineInvariants
=============================================================================
