--------------------------- MODULE MCPipelineView ---------------------------
(* Instances of PipelineView for TLC. *)
EXTENDS PipelineView

OwnerTwo == [v \in Versions |-> v]
=============================================================================
