---------------------------- MODULE MCStepStore ----------------------------
(***************************************************************************)
(* Instances of StepStore for TLC.                                         *)
(***************************************************************************)
EXTENDS StepStore

CONSTANTS a, b, c
=============================================================================
