--------------------------- MODULE MCBuilderStore ---------------------------
(***************************************************************************)
(* Instances of BuilderStore for TLC: three nodes, of which the id of one  *)
(* is the beginning of another one's; a draft like the playground's seed,  *)
(* and one nobody has validated.                                           *)
(***************************************************************************)
EXTENDS BuilderStore

CONSTANTS a, ab, c, slot

Prefixes == {<<a, ab>>}

\* Two nodes and the edge between them, without a label (backend.ts).
Chain ==
    [nodes  |-> {a, c},
     edges  |-> {[id |-> 1, from |-> a, to |-> c, label |-> "undefined"]},
     inputs |-> [Empty EXCEPT ![c][slot] = [reads |-> a, rest |-> ".x"]]]

\* An edge and a binding to a node that is not there.
Torn ==
    [nodes  |-> {a, c},
     edges  |-> {[id |-> 1, from |-> a, to |-> ab, label |-> "null"]},
     inputs |-> [Empty EXCEPT ![c][slot] = [reads |-> ab, rest |-> ""]]]

HostDrafts == {Chain, Torn}

\* Bound: while saves are under way the graph is small and nothing is selected.
\* A save sees the graph only as a whole.
SmallWhileSaving ==
    (\E s \in Saves : save[s] # "none") =>
        ab \notin nodes /\ Cardinality(edges) < 2 /\ selected = None
=============================================================================
