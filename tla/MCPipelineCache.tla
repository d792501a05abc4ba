--------------------------- MODULE MCPipelineCache ---------------------------
(* Instantiates PipelineCache with shader sources as model values. *)
EXTENDS PipelineCache

CONSTANTS r1, c1
=============================================================================
