-------------------------- MODULE MCPipelineCache ---------------------------
(***************************************************************************)
(* Instances of PipelineCache for TLC.                                     *)
(***************************************************************************)
EXTENDS PipelineCache

CONSTANTS p, q, s, t, x, y, z

\* Saves are interchangeable, and so are compiles.
Symmetry == Permutations(Saves) \cup Permutations(Compiles)
=============================================================================
