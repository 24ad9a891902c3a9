--------------------------- MODULE MCPipelineRuns ---------------------------
(***************************************************************************)
(* Two stages with a gate between them.  One tab starts runs, the other    *)
(* resumes them behind the gate; a hub is kept only until the next run.    *)
(***************************************************************************)
EXTENDS PipelineRuns, TLC

CONSTANTS tab, other

MCAsks == (tab :> {<<0, TRUE>>}) @@ (other :> {<<2, TRUE>>})
=============================================================================
