---------------------------- MODULE MCPipeline ----------------------------
(* Pipeline on a small instance: tasks are interchangeable. *)
EXTENDS Pipeline, TLC

Symmetry == Permutations(Tasks)
===========================================================================
