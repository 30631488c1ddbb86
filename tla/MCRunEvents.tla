---------------------------- MODULE MCRunEvents ----------------------------
(***************************************************************************)
(* Instances of RunEvents for TLC: two concurrent nodes, the run's own     *)
(* listener, the request that started the run and one that joins it.       *)
(***************************************************************************)
EXTENDS RunEvents

CONSTANTS a, b, listener, post, get

NoPreds == [n \in {a, b} |-> {}]
NoCost  == [n \in {a, b} |-> 0]

\* The caller's own AbortSignal adds nothing here to engine.abort().
MCInit == EventsInit /\ signal = "absent"
MCFairSpec == MCInit /\ [][EventsNext]_allVars /\ EventsFairness
=============================================================================
