---------------------------- MODULE MCRunEngine ----------------------------
(***************************************************************************)
(* Instances of RunEngine for TLC: a fan-out of two nodes joined by a      *)
(* third one, where the second node has an auto-bound slot.                *)
(***************************************************************************)
EXTENDS RunEngine

CONSTANTS a, b, c

\* {a, b} run in one super-step, c joins them.
JoinPreds == [n \in {a, b, c} |-> IF n = c THEN {a, b} ELSE {}]
\* With a resolver cost of 1, a cap of 3 is kept or crossed at any node,
\* depending on which handlers report.
JoinCost == [n \in {a, b, c} |-> IF n = b THEN 2 ELSE 1]
=============================================================================
