--------------------------- MODULE MCPipelineGroups ---------------------------
(* Small instances of PipelineGroups for TLC. *)
EXTENDS PipelineGroups, TLC

TaskSymmetry == Permutations(CoprTasks) \cup Permutations(TestTasks)
=============================================================================
