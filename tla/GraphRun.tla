------------------------------ MODULE GraphRun ------------------------------
(***************************************************************************)
(* The graph that compile() builds out of a checked pipeline, and the      *)
(* order in which LangGraph runs its nodes.  LangGraph is not part of the  *)
(* repository: its two trigger channels are modelled from what             *)
(* nodes/test/compiler.test.ts (K13) says of them, and its own compile     *)
(* from the edges it is handed.                                            *)
(*                                                                         *)
(* Nodes succeed here; failing runs are the subject of RunEngine.          *)
(***************************************************************************)
EXTENDS GraphCheck

VARIABLES
    pending,  \* nodes triggered for the next super-step
    waiting,  \* deferred nodes written to: they run when nothing is pending
    runs      \* runs[n]: how often n ran, up to twice

runVars == <<pending, waiting, runs>>
allVars == <<checkVars, runVars>>

Branches == {"true", "false"}

\* Mutation: the in-degree of a fan-in starts at 3.
JoinsOfThree == {n \in graph.nodes : Cardinality(Into(n)) >= 3}

\* Fan-in: added to the graph with defer.
Joins == {n \in graph.nodes : Cardinality(Into(n)) >= 2}

\* The edge an IF node takes for a label: the last one in the table.
Labelled(n, label) == {e \in OutOf(n) : graph.edges[e].label = label}
Branch(n, label) == CHOOSE e \in Labelled(n, label) : \A f \in Labelled(n, label) : f <= e
Routers == {n \in graph.ifs : OutOf(n) # {}}

MissingBranch == \E n \in Routers : \E label \in Branches : Labelled(n, label) = {}

\* The edges LangGraph is given: all those of ordinary nodes, two per IF node.
Wired == {e \in Edges : From(e) \notin graph.ifs}
         \cup {Branch(n, label) : n \in Routers, label \in Branches}

\* LangGraph's compile() wants known ends, and an edge into every node.
LangGraphAccepts ==
    /\ \A e \in Wired : From(e) \in graph.nodes /\ To(e) \in graph.nodes
    /\ graph.nodes \subseteq EntryNodes \cup {To(e) : e \in Wired}

RunInit ==
    /\ Init
    /\ pending = {} /\ waiting = {} /\ runs = [n \in graph.nodes |-> 0]

\* The rest of compile(), then START triggers the entries.
Build ==
    /\ at = "valid"
    /\ at' = IF MissingBranch THEN "if_missing"
             ELSE IF ~LangGraphAccepts THEN "langgraph_rejects" ELSE "running"
    /\ pending' = IF at' = "running" THEN EntryNodes ELSE {}
    /\ UNCHANGED <<graph, issues, indeg, queue, visited, drained, reachable, ref, checked,
                   ancestors, ordered, waiting, runs>>

\* An ephemeral channel triggers its node with the first write; a
\* LastValueAfterFinish channel holds its node back until nothing else would
\* run, then all of them trigger together.
Tasks == IF pending # {} THEN pending ELSE waiting

\* Where the tasks of a super-step write when the IF nodes among them choose so.
Targets(choice) ==
    {To(e) : e \in {w \in Wired : From(w) \in Tasks \ graph.ifs}
                   \cup {Branch(n, choice[n]) : n \in Tasks \cap Routers}}

Superstep ==
    /\ at = "running" /\ Tasks # {}
    /\ runs' = [n \in graph.nodes |->
                   IF n \in Tasks /\ runs[n] < 2 THEN runs[n] + 1 ELSE runs[n]]
    /\ \E choice \in [Tasks \cap Routers -> Branches] :
          /\ pending' = Targets(choice) \ Joins
          /\ waiting' = (waiting \ Tasks) \cup (Targets(choice) \cap Joins)
    /\ UNCHANGED checkVars

Ended ==
    /\ at = "running" /\ Tasks = {}
    /\ at' = "ended"
    /\ UNCHANGED <<graph, issues, indeg, queue, visited, drained, reachable, ref, checked,
                   ancestors, ordered, runVars>>

RunNext == (Check /\ UNCHANGED runVars) \/ Build \/ Superstep \/ Ended

RunSpec == RunInit /\ [][RunNext]_allVars

\* Nothing here waits for anybody.
FairRunSpec == RunSpec /\ WF_allVars(RunNext)
-----------------------------------------------------------------------------
\* No fan-in lies below another one.
FlatJoins == \A j, k \in Joins : ~Precedes(j, k)

\* compiler.ts: fan-in nodes "are deferred so they run once, after all
\* reachable parents complete".  In a graph whose fan-ins are not nested, no
\* node runs when one it feeds already ran or runs beside it, and none runs
\* twice.
RunsOnceAfterParents ==
    [][at = "running" /\ FlatJoins =>
          \A n \in graph.nodes : runs'[n] > runs[n] =>
              /\ runs[n] = 0
              /\ \A m \in Successors(n) \cap graph.nodes : runs'[m] = 0]_allVars

\* The same words of compiler.ts, for every graph that is accepted.
RunsOnce == at \in {"running", "ended"} => \A n \in graph.nodes : runs[n] <= 1

\* What the reference checks are for: a node that runs finds the outputs it
\* reads, unless an IF node stands before the one that writes them.
ReadersFindOutputs ==
    [][at = "running" /\ FlatJoins =>
          \A r \in graph.refs : runs'[r.reader] > runs[r.reader] =>
              runs[r.source] > 0 \/ \E i \in graph.ifs : Precedes(i, r.source)]_allVars

\* Every compilation ends, and so does the run of every graph it accepts.
CompilesAndEnds ==
    <>(at \in {"no_entry", "invalid", "if_missing", "langgraph_rejects", "ended"})
=============================================================================
