----------------------------- MODULE GraphCheck -----------------------------
(***************************************************************************)
(* What the compiler does to a pipeline graph before it builds anything:   *)
(* analyzeTopology, then the validation pass validateGraph, with its       *)
(* Kahn worklist, its forward walk, and computeAncestors for the state     *)
(* bindings that read another node's outputs.                              *)
(*                                                                         *)
(* A worklist is a set: the order in which the code takes its elements is  *)
(* left open.  The checks of one node against its own spec (node type,     *)
(* required slots) look at no other node and are left out.                 *)
(***************************************************************************)
EXTENDS Integers, FiniteSets, Sequences

CONSTANTS
    Graphs,  \* the saved graphs looked at
    None

\* The rows of the edge table by position: nothing in a store keeps an edge's
\* ends inside the node table.
ASSUME GraphAssumption ==
    \A g \in Graphs :
        /\ IsFiniteSet(g.nodes)
        /\ DOMAIN g.edges \subseteq Nat /\ IsFiniteSet(DOMAIN g.edges)
        /\ \A r \in g.refs : r.reader \in g.nodes

VARIABLES
    graph,      \* [nodes, edges: position -> [from, to, label], ifs, refs]
    at,         \* where the compiler is
    issues,     \* the issues reported so far, as [code, node]
    indeg,      \* Kahn's in-degrees, in validateGraph or in computeAncestors
    queue,      \* the worklist of the loop that runs
    visited,    \* validateGraph's count of drained nodes
    drained,    \* history: which ones
    reachable,  \* the forward walk
    ref,        \* the binding whose reader's ancestors are computed, or None
    checked,    \* the bindings looked at
    ancestors,  \* computeAncestors: the reverse walk
    ordered     \* computeAncestors: its result

checkVars == <<graph, at, issues, indeg, queue, visited, drained, reachable, ref, checked,
               ancestors, ordered>>

Edges == DOMAIN graph.edges
From(e) == graph.edges[e].from
To(e) == graph.edges[e].to
Into(n) == {e \in Edges : To(e) = n}
OutOf(n) == {e \in Edges : From(e) = n}
Between(m, n) == Into(n) \cap OutOf(m)

\* The ids in-degrees are kept for: the nodes, and whatever an edge points at.
Known == graph.nodes \cup {To(e) : e \in Edges}

\* analyzeTopology.
EntryNodes == {n \in graph.nodes : Into(n) = {}}
ExitNodes  == {n \in graph.nodes : OutOf(n) = {}}

\* toCompiledNodeMap: an id that is not a node has neither.
Predecessors(n) == IF n \in graph.nodes THEN {From(e) : e \in Into(n)} ELSE {}
Successors(n)   == IF n \in graph.nodes THEN {To(e) : e \in OutOf(n)} ELSE {}

Init ==
    /\ graph \in Graphs
    /\ at = "topology"
    /\ issues = {}
    /\ indeg = << >> /\ queue = {} /\ visited = 0 /\ drained = {}
    /\ reachable = {}
    /\ ref = None /\ checked = {} /\ ancestors = {} /\ ordered = << >>

-----------------------------------------------------------------------------
\* compile() rejects a graph without an entry or an exit before it validates.
NoEntry ==
    /\ at = "topology"
    /\ EntryNodes = {} \/ ExitNodes = {}
    /\ at' = "no_entry"
    /\ UNCHANGED <<graph, issues, indeg, queue, visited, drained, reachable, ref, checked,
                   ancestors, ordered>>

Analyze ==
    /\ at = "topology"
    /\ EntryNodes # {} /\ ExitNodes # {}
    /\ at' = "kahn"
    /\ indeg' = [n \in Known |-> Cardinality(Into(n))]
    /\ queue' = {n \in Known : indeg'[n] = 0}
    /\ UNCHANGED <<graph, issues, visited, drained, reachable, ref, checked, ancestors, ordered>>

\* Mutation: an edge listed twice counts once.
LessOnce(degrees, n) ==
    [m \in DOMAIN degrees |-> degrees[m] - (IF Between(n, m) = {} THEN 0 ELSE 1)]

\* One decrement per edge that leaves n.
Less(degrees, n) == [m \in DOMAIN degrees |-> degrees[m] - Cardinality(Between(n, m))]

\* Ids whose in-degree the edges of n bring to 0.
Freed(n) == {m \in Known : Between(n, m) # {} /\ indeg'[m] = 0}

Drain(n) ==
    /\ at = "kahn" /\ n \in queue
    /\ indeg' = Less(indeg, n)
    /\ queue' = (queue \ {n}) \cup Freed(n)
    /\ visited' = visited + 1
    /\ drained' = drained \cup {n}
    /\ UNCHANGED <<graph, at, issues, reachable, ref, checked, ancestors, ordered>>

\* Mutation: the last node that is left may be on its own.
CycleWhenTwoLeft == visited + 1 < Cardinality(graph.nodes)

CycleLeft == visited < Cardinality(graph.nodes)

Drained ==
    /\ at = "kahn" /\ queue = {}
    /\ issues' = issues \cup
          (IF CycleLeft THEN {[code |-> "TOPOLOGY_CYCLE", node |-> None]} ELSE {})
    /\ at' = "reach"
    /\ reachable' = EntryNodes
    /\ queue' = EntryNodes
    /\ UNCHANGED <<graph, indeg, visited, drained, ref, checked, ancestors, ordered>>

Walk(n) ==
    /\ at = "reach" /\ n \in queue
    /\ LET fresh == {To(e) : e \in OutOf(n)} \ reachable
       IN  /\ reachable' = reachable \cup fresh
           /\ queue' = (queue \ {n}) \cup fresh
    /\ UNCHANGED <<graph, at, issues, indeg, visited, drained, ref, checked, ancestors, ordered>>

\* Mutation: only the forward walk reports.
OrphansUnseen == {}

\* Entries without an outgoing edge, in a graph that has other nodes and edges.
Orphans ==
    {n \in EntryNodes : OutOf(n) = {} /\ Cardinality(graph.nodes) > 1 /\ Edges # {}}

Walked ==
    /\ at = "reach" /\ queue = {}
    /\ issues' = issues \cup {[code |-> "TOPOLOGY_UNREACHABLE", node |-> n] :
                                n \in (graph.nodes \ reachable) \cup Orphans}
    /\ at' = "bindings"
    /\ UNCHANGED <<graph, indeg, queue, visited, drained, reachable, ref, checked, ancestors,
                   ordered>>

-----------------------------------------------------------------------------
\* A binding that reads outputs.<source>, of a source that does not exist.
SourceMissing(r) ==
    /\ at = "bindings" /\ r \in graph.refs \ checked
    /\ r.source \notin graph.nodes
    /\ issues' = issues \cup {[code |-> "REF_SOURCE_MISSING", node |-> r.reader]}
    /\ checked' = checked \cup {r}
    /\ UNCHANGED <<graph, at, indeg, queue, visited, drained, reachable, ref, ancestors, ordered>>

\* computeAncestors(r.reader): the reverse walk starts.
ComputeAncestors(r) ==
    /\ at = "bindings" /\ r \in graph.refs \ checked
    /\ r.source \in graph.nodes
    /\ at' = "ancestors"
    /\ ref' = r
    /\ ancestors' = {}
    /\ queue' = Predecessors(r.reader)
    /\ UNCHANGED <<graph, issues, indeg, visited, drained, reachable, checked, ordered>>

VisitAncestor(n) ==
    /\ at = "ancestors" /\ n \in queue
    /\ ancestors' = ancestors \cup {n}
    /\ queue' = (queue \cup Predecessors(n)) \ ancestors'
    /\ UNCHANGED <<graph, at, issues, indeg, visited, drained, reachable, ref, checked, ordered>>

\* The in-degrees inside the sub-graph of the ancestors.
SortAncestors ==
    /\ at = "ancestors" /\ queue = {}
    /\ at' = "sort"
    /\ indeg' = [a \in ancestors |->
                    Cardinality({e \in Into(a) : From(e) \in ancestors \cap graph.nodes})]
    /\ queue' = {a \in ancestors : indeg'[a] = 0}
    /\ ordered' = << >>
    /\ UNCHANGED <<graph, issues, visited, drained, reachable, ref, checked, ancestors>>

ReadyAfter(n) == {m \in Successors(n) \cap ancestors : indeg'[m] = 0}

PlaceAncestor(n) ==
    /\ at = "sort" /\ n \in queue
    /\ ordered' = Append(ordered, n)
    /\ indeg' = IF n \in graph.nodes THEN Less(indeg, n) ELSE indeg
    /\ queue' = (queue \ {n}) \cup ReadyAfter(n)
    /\ UNCHANGED <<graph, at, issues, visited, drained, reachable, ref, checked, ancestors>>

\* Mutation: only the direct predecessors are looked at.
ReadsPredecessor == ref.source \in Predecessors(ref.reader)

\* Mutation: any existing node may be read.
ReadsAnything == TRUE

ReadsAncestor == \E i \in DOMAIN ordered : ordered[i] = ref.source

CheckRef ==
    /\ at = "sort" /\ queue = {}
    /\ issues' = issues \cup
          (IF ReadsAncestor THEN {} ELSE {[code |-> "REF_NOT_PREDECESSOR", node |-> ref.reader]})
    /\ checked' = checked \cup {ref}
    /\ ref' = None
    /\ at' = "bindings"
    /\ UNCHANGED <<graph, indeg, queue, visited, drained, reachable, ancestors, ordered>>

Verdict ==
    /\ at = "bindings" /\ checked = graph.refs
    /\ at' = IF issues = {} THEN "valid" ELSE "invalid"
    /\ UNCHANGED <<graph, issues, indeg, queue, visited, drained, reachable, ref, checked,
                   ancestors, ordered>>

Check ==
    \/ NoEntry \/ Analyze \/ Drained \/ Walked \/ SortAncestors \/ CheckRef \/ Verdict
    \/ \E n \in queue : Drain(n) \/ Walk(n) \/ VisitAncestor(n) \/ PlaceAncestor(n)
    \/ \E r \in graph.refs : SourceMissing(r) \/ ComputeAncestors(r)

CheckSpec == Init /\ [][Check]_checkVars
-----------------------------------------------------------------------------
\* Every edge joins two nodes.
Closed == \A e \in Edges : From(e) \in graph.nodes /\ To(e) \in graph.nodes

\* No set of nodes keeps feeding itself.
Acyclic ==
    \A S \in SUBSET graph.nodes :
        S # {} => \E n \in S : \A m \in S : Between(m, n) = {}

\* a comes before d along the edges: every set that holds what follows a and
\* all that follows from it holds d.
Precedes(a, d) ==
    \A S \in SUBSET graph.nodes :
        /\ Successors(a) \cap graph.nodes \subseteq S
        /\ \A n \in S : Successors(n) \cap graph.nodes \subseteq S
        => d \in S

Reported(code) == {i.node : i \in {j \in issues : j.code = code}}

\* The nodes, and both ends of every edge.
Ids == Known \cup {From(e) : e \in Edges}

\* The worklists hold ids of the graph, dangling ends included.
GraphTypeOK ==
    /\ at \in {"topology", "no_entry", "kahn", "reach", "bindings", "ancestors", "sort",
               "valid", "invalid",
               "if_missing", "langgraph_rejects", "running", "ended"}  \* GraphRun
    /\ visited \in Nat
    /\ drained \subseteq Known /\ queue \subseteq Ids /\ ancestors \subseteq Ids
    /\ DOMAIN indeg \subseteq Ids /\ \A n \in DOMAIN indeg : indeg[n] \in Int
    /\ reachable \subseteq Known
    /\ ref \in graph.refs \cup {None} /\ checked \subseteq graph.refs

\* Once the worklist has drained, a graph whose edges join its nodes is
\* reported cyclic exactly when it is (validateGraph step 1).
CycleExact ==
    at \notin {"topology", "no_entry", "kahn"} /\ Closed =>
        (Acyclic <=> None \notin Reported("TOPOLOGY_CYCLE"))

\* The comment of validateGraph step 2: an unreachable node that is no orphan
\* "implies the graph is cyclic"; and no node is passed over in silence: one
\* without any edge, in a graph with edges, is reported.
UnreachableExact ==
    at \notin {"topology", "no_entry", "kahn", "reach"} /\ Closed =>
        /\ Reported("TOPOLOGY_UNREACHABLE") \subseteq Orphans \/ ~Acyclic
        /\ Edges # {} => \A n \in graph.nodes :
               n \in Reported("TOPOLOGY_UNREACHABLE") \/ \E e \in Edges : n \in {From(e), To(e)}

\* In an accepted graph every binding reads a node that comes before its
\* reader; and a binding that does is reported only beside a cycle, where
\* computeAncestors loses the nodes it cannot sort.
RefsExact ==
    /\ at = "valid" => \A r \in graph.refs : Precedes(r.source, r.reader)
    /\ at = "invalid" /\ Closed => \A r \in graph.refs :
           r.source \in graph.nodes /\ Precedes(r.source, r.reader) /\ Acyclic
               => r.reader \notin Reported("REF_NOT_PREDECESSOR")
                  \/ \E s \in graph.refs \ {r} : s.reader = r.reader
=============================================================================
