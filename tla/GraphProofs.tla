---------------------------- MODULE GraphProofs -----------------------------
(***************************************************************************)
(* Machine-checked proofs about GraphCheck and GraphRun, for every set of  *)
(* finite graphs.                                                          *)
(***************************************************************************)
EXTENDS GraphRun, FiniteSetTheorems, WellFoundedInduction, TLAPS

\* The edges into m that Kahn's loop has not taken away yet.
Left(m) == {e \in Into(m) : From(e) \notin drained}

\* Inside S, somebody is fed by nobody.
HasSource(S) == \E n \in S : \A m \in S : Between(m, n) = {}

GraphInv == graph \in Graphs

FreshInv == at = "topology" => drained = {} /\ visited = 0 /\ issues = {}

\* Kahn's loop: the in-degrees count the edges that are left, the worklist
\* holds exactly the undrained ids without any, and the drained ones are
\* acyclic among themselves.
KahnInv ==
    at = "kahn" =>
        /\ issues = {}
        /\ indeg = [m \in Known |-> Cardinality(Left(m))]
        /\ queue = {m \in Known : m \notin drained /\ Left(m) = {}}
        /\ drained \subseteq Known
        /\ IsFiniteSet(drained) /\ visited = Cardinality(drained)
        /\ \A m \in drained : Left(m) = {}
        /\ \A S \in SUBSET drained : S # {} => HasSource(S)

\* The forward walk: what was taken from the worklist was followed.
ReachInv ==
    at = "reach" =>
        /\ EntryNodes \subseteq reachable
        /\ \A e \in Edges : From(e) \in reachable \ queue => To(e) \in reachable
        /\ Reported("TOPOLOGY_UNREACHABLE") = {}

CheckInv == GraphInv /\ FreshInv /\ KahnInv /\ CycleExact /\ ReachInv /\ UnreachableExact
-----------------------------------------------------------------------------
(* Facts about one graph.                                                  *)

\* The edges into an id are finitely many.
LEMMA FiniteEdges ==
    ASSUME graph \in Graphs
    PROVE  /\ IsFiniteSet(Edges) /\ IsFiniteSet(graph.nodes)
           /\ \A m, S : S \subseteq Into(m) => IsFiniteSet(S)
<1>1. IsFiniteSet(Edges) /\ IsFiniteSet(graph.nodes)
  BY GraphAssumption DEF GraphAssumption, Edges
<1>2. ASSUME NEW m, NEW S, S \subseteq Into(m) PROVE IsFiniteSet(S)
  <2>1. S \in SUBSET Edges
    BY <1>2 DEF Into
  <2> QED
    BY <1>1, <2>1, FS_Subset
<1> QED
  BY <1>1, <1>2

\* What is said of the graph alone stays true while it is not changed.
LEMMA GraphOnly ==
    ASSUME graph' = graph
    PROVE  /\ Edges' = Edges /\ Closed' = Closed /\ Acyclic' = Acyclic
           /\ EntryNodes' = EntryNodes /\ Orphans' = Orphans
           /\ \A e : From(e)' = From(e) /\ To(e)' = To(e)
<1>1. Edges' = Edges
  BY DEF Edges
<1>2. \A e : From(e)' = From(e) /\ To(e)' = To(e)
  BY DEF From, To
<1>3. \A m, n : Between(m, n)' = Between(m, n) /\ Into(n)' = Into(n) /\ OutOf(n)' = OutOf(n)
  BY <1>1, <1>2 DEF Between, Into, OutOf
<1>4. Closed' = Closed
  BY <1>1, <1>2 DEF Closed
<1>5. Acyclic' = Acyclic
  BY <1>3 DEF Acyclic
<1>6. EntryNodes' = EntryNodes
  BY <1>3 DEF EntryNodes
<1>7. Orphans' = Orphans
  BY <1>1, <1>3, <1>6 DEF Orphans
<1> QED
  BY <1>1, <1>2, <1>4, <1>5, <1>6, <1>7

LEMMA ReportedIs ==
    \A code, n : n \in Reported(code) <=> \E i \in issues : i.code = code /\ i.node = n
BY DEF Reported

LEMMA ReportedWillBe ==
    \A code, n : n \in Reported(code)' <=> \E i \in issues' : i.code = code /\ i.node = n
BY DEF Reported

\* Draining n takes exactly the edges between n and m from those left at m.
LEMMA LeftAfter ==
    ASSUME graph \in Graphs, graph' = graph,
           NEW n, n \notin drained, drained' = drained \cup {n}, NEW m
    PROVE  /\ Left(m)' = Left(m) \ Between(n, m)
           /\ Between(n, m) \subseteq Left(m)
           /\ Cardinality(Left(m)) \in Nat
           /\ Cardinality(Left(m)') = Cardinality(Left(m)) - Cardinality(Between(n, m))
<1>1. Left(m)' = Left(m) \ Between(n, m)
  BY DEF Left, Between, Into, OutOf, From, To, Edges
<1>2. Between(n, m) \subseteq Left(m)
  BY DEF Left, Between, Into, OutOf, From
<1>3. IsFiniteSet(Left(m))
  <2>1. Left(m) \subseteq Into(m)
    BY DEF Left
  <2> QED
    BY <2>1, FiniteEdges
<1>4. Left(m) \cap Between(n, m) = Between(n, m)
  BY <1>2
<1> QED
  BY <1>1, <1>2, <1>3, <1>4, FS_Difference, FS_CardinalityType

\* The in-degree is 0 exactly when no edge is left.
LEMMA ZeroIsEmpty ==
    ASSUME graph \in Graphs, NEW m
    PROVE  /\ IsFiniteSet(Left(m)) /\ Cardinality(Left(m)) \in Nat
           /\ Cardinality(Left(m)) = 0 <=> Left(m) = {}
<1>1. Left(m) \subseteq Into(m)
  BY DEF Left
<1> QED
  BY <1>1, FiniteEdges, FS_EmptySet, FS_CardinalityType

\* A drained set stays acyclic when an id joins it that has no edge left: such
\* an id feeds none of the others.
LEMMA JoiningKeepsSources ==
    ASSUME NEW n, n \notin drained, Left(n) = {},
           \A m \in drained : Left(m) = {},
           \A S \in SUBSET drained : S # {} => HasSource(S),
           NEW S \in SUBSET (drained \cup {n}), S # {}
    PROVE  HasSource(S)
<1>1. \A m \in drained \cup {n} : Between(n, m) = {}
  BY DEF Left, Between, Into, OutOf
<1>2. CASE S \ {n} = {}
  <2>1. S = {n}
    BY <1>2
  <2> QED
    BY <1>1, <2>1 DEF HasSource
<1>3. CASE S \ {n} # {}
  <2>1. S \ {n} \in SUBSET drained
    OBVIOUS
  <2>2. PICK k \in S \ {n} : \A m \in S \ {n} : Between(m, k) = {}
    BY <1>3, <2>1 DEF HasSource
  <2>3. \A m \in S : Between(m, k) = {}
    BY <1>1, <2>2
  <2> QED
    BY <2>2, <2>3 DEF HasSource
<1> QED
  BY <1>2, <1>3
-----------------------------------------------------------------------------
(* The invariant.                                                          *)

LEMMA InitCheck == Init => CheckInv
BY DEF Init, CheckInv, GraphInv, FreshInv, KahnInv, CycleExact, ReachInv, UnreachableExact

\* Analyze establishes the loop invariant.
LEMMA AnalyzeKahn == CheckInv /\ Analyze => KahnInv'
<1> SUFFICES ASSUME CheckInv, Analyze PROVE KahnInv'
  OBVIOUS
<1>1. graph \in Graphs /\ graph' = graph /\ drained = {} /\ drained' = {}
      /\ visited = 0 /\ visited' = 0 /\ issues' = {}
  BY DEF CheckInv, GraphInv, FreshInv, Analyze
<1>2. \A m : Left(m)' = Into(m) /\ Left(m) = Into(m)
  BY <1>1 DEF Left, Into, To, From, Edges
<1>3. Known' = Known /\ indeg' = [m \in Known |-> Cardinality(Left(m)')]
  BY <1>1, <1>2 DEF Analyze, Known, Edges, To
<1>4. queue' = {m \in Known : m \notin drained' /\ Left(m)' = {}}
  <2>1. queue' = {m \in Known : indeg'[m] = 0}
    BY DEF Analyze
  <2>2. \A m \in Known : indeg'[m] = 0 <=> Left(m)' = {}
    BY <1>1, <1>2, <1>3, ZeroIsEmpty
  <2> QED
    BY <1>1, <2>1, <2>2
<1>5. IsFiniteSet(drained') /\ visited' = Cardinality(drained')
  BY <1>1, FS_EmptySet
<1> QED
  BY <1>1, <1>3, <1>4, <1>5 DEF KahnInv

\* Drain keeps it.
LEMMA DrainKahn == ASSUME CheckInv, NEW n \in queue, Drain(n) PROVE KahnInv'
<1>1. /\ at = "kahn" /\ at' = "kahn" /\ KahnInv /\ graph \in Graphs /\ graph' = graph
      /\ issues' = {} /\ drained' = drained \cup {n} /\ visited' = visited + 1
  BY DEF CheckInv, GraphInv, KahnInv, Drain
<1>2. n \in Known /\ n \notin drained /\ Left(n) = {}
  BY <1>1 DEF KahnInv
<1>3. Known' = Known
  BY <1>1 DEF Known, Edges, To
<1>4. indeg' = [m \in Known |-> Cardinality(Left(m)')]
  <2>1. indeg' = [m \in Known |-> Cardinality(Left(m)) - Cardinality(Between(n, m))]
    BY <1>1 DEF KahnInv, Drain, Less
  <2> QED
    BY <1>1, <1>2, <2>1, LeftAfter
<1>5. \A m \in Known : indeg'[m] = 0 <=> Left(m)' = {}
  <2>1. \A m : Left(m)' \subseteq Into(m)
    <3>1. \A m : Left(m)' \subseteq Left(m)
      BY <1>1, <1>2, LeftAfter
    <3> QED
      BY <3>1 DEF Left
  <2>2. \A m : IsFiniteSet(Left(m)')
    BY <1>1, <2>1, FiniteEdges
  <2> QED
    BY <1>4, <2>2, FS_EmptySet
<1>6. queue' = {m \in Known : m \notin drained' /\ Left(m)' = {}}
  <2>1. queue' = (queue \ {n}) \cup {m \in Known : Between(n, m) # {} /\ Left(m)' = {}}
    BY <1>5 DEF Drain, Freed
  <2>2. \A m : Left(m)' = Left(m) \ Between(n, m) /\ Between(n, m) \subseteq Left(m)
    BY <1>1, <1>2, LeftAfter
  <2>3. queue = {m \in Known : m \notin drained /\ Left(m) = {}}
    BY <1>1 DEF KahnInv
  <2>4. \A m \in drained : Left(m) = {}
    BY <1>1 DEF KahnInv
  <2> QED
    BY <1>1, <1>2, <2>1, <2>2, <2>3, <2>4
<1>7. IsFiniteSet(drained') /\ visited' = Cardinality(drained')
  BY <1>1, <1>2, FS_AddElement DEF KahnInv
<1>8. \A m \in drained' : Left(m)' = {}
  BY <1>1, <1>2, LeftAfter DEF KahnInv
<1>9. \A S \in SUBSET drained' : S # {} => HasSource(S)'
  <2>1. \A S : HasSource(S)' = HasSource(S)
    BY <1>1 DEF HasSource, Between, Into, OutOf, Edges, To, From
  <2>2. \A m \in drained : Left(m) = {}
    BY <1>1 DEF KahnInv
  <2>3. \A S \in SUBSET drained : S # {} => HasSource(S)
    BY <1>1 DEF KahnInv
  <2>4. \A S \in SUBSET (drained \cup {n}) : S # {} => HasSource(S)
    BY <1>2, <2>2, <2>3, JoiningKeepsSources
  <2> QED
    BY <1>1, <2>1, <2>4
<1>10. drained' \subseteq Known'
  BY <1>1, <1>2, <1>3 DEF KahnInv
<1> QED
  BY <1>1, <1>3, <1>4, <1>6, <1>7, <1>8, <1>9, <1>10 DEF KahnInv

\* When the worklist is empty, the ids that are left are the cycle.
LEMMA VerdictOnCycles == CheckInv /\ Drained => CycleExact'
<1> SUFFICES ASSUME CheckInv, Drained, Closed PROVE Acyclic <=> None \notin Reported("TOPOLOGY_CYCLE")'
  BY GraphOnly DEF CycleExact, Drained
<1>1. KahnInv /\ at = "kahn" /\ graph \in Graphs /\ queue = {}
  BY DEF CheckInv, GraphInv, Drained
<1>2. Known = graph.nodes
  BY DEF Known, Closed
<1>3. (None \notin Reported("TOPOLOGY_CYCLE")') <=> ~CycleLeft
  <2> DEFINE cycle == [code |-> "TOPOLOGY_CYCLE", node |-> None]
  <2>1. issues' = IF CycleLeft THEN {cycle} ELSE {}
    BY <1>1 DEF Drained, KahnInv
  <2>2. cycle.code = "TOPOLOGY_CYCLE" /\ cycle.node = None
    OBVIOUS
  <2>3. CASE CycleLeft
    <3>1. cycle \in issues'
      BY <2>1, <2>3
    <3> HIDE DEF cycle
    <3> QED
      BY <2>2, <2>3, <3>1, ReportedWillBe
  <2>4. CASE ~CycleLeft
    BY <2>1, <2>4, ReportedWillBe
  <2> QED
    BY <2>3, <2>4
<1>4. ~CycleLeft <=> drained = graph.nodes
  <2>1. drained \in SUBSET graph.nodes /\ visited = Cardinality(drained)
    BY <1>1, <1>2 DEF KahnInv
  <2>2. /\ IsFiniteSet(drained) /\ IsFiniteSet(graph.nodes)
        /\ Cardinality(drained) <= Cardinality(graph.nodes)
        /\ Cardinality(graph.nodes) = Cardinality(drained) => graph.nodes = drained
        /\ Cardinality(drained) \in Nat /\ Cardinality(graph.nodes) \in Nat
    BY <1>1, <2>1, FiniteEdges, FS_Subset, FS_CardinalityType
  <2> QED
    BY <2>1, <2>2 DEF CycleLeft
<1>5. ASSUME drained = graph.nodes PROVE Acyclic
  BY <1>1, <1>5 DEF KahnInv, HasSource, Acyclic
<1>6. ASSUME drained # graph.nodes, Acyclic PROVE FALSE
  <2> DEFINE S == graph.nodes \ drained
  <2>1. S # {} /\ S \in SUBSET graph.nodes
    BY <1>1, <1>2, <1>6 DEF KahnInv
  <2>2. PICK n \in S : \A m \in S : Between(m, n) = {}
    BY <1>6, <2>1 DEF Acyclic
  <2>3. Left(n) # {}
    BY <1>1, <1>2, <2>2 DEF KahnInv
  <2>4. PICK e \in Into(n) : From(e) \notin drained
    BY <2>3 DEF Left
  <2>5. From(e) \in S /\ e \in Between(From(e), n)
    BY <2>4 DEF Closed, Into, Between, OutOf
  <2> QED
    BY <2>2, <2>5
<1> QED
  BY <1>3, <1>4, <1>5, <1>6

\* The other steps report no cycle and keep the graph.
LEMMA CycleStays == CheckInv /\ [Check]_checkVars => CycleExact'
<1> SUFFICES ASSUME CheckInv, [Check]_checkVars PROVE CycleExact'
  OBVIOUS
<1>1. CASE Drained
  BY <1>1, VerdictOnCycles
<1>2. CASE NoEntry \/ Analyze \/ \E n \in queue : Drain(n)
  BY <1>2 DEF NoEntry, Analyze, Drain, CycleExact
<1>3. ASSUME graph' = graph, at \notin {"topology", "no_entry", "kahn"},
             \A i \in issues' \ issues : i.code # "TOPOLOGY_CYCLE", issues \subseteq issues'
      PROVE  CycleExact'
  <2>1. (None \in Reported("TOPOLOGY_CYCLE")') <=> None \in Reported("TOPOLOGY_CYCLE")
    BY <1>3, ReportedIs, ReportedWillBe
  <2> QED
    BY <1>3, <2>1, GraphOnly DEF CheckInv, CycleExact
<1>4. CASE UNCHANGED checkVars
  BY <1>4, GraphOnly, ReportedIs, ReportedWillBe DEF CheckInv, checkVars, CycleExact
<1>5. CASE Walked
  BY <1>3, <1>5 DEF Walked
<1>6. CASE SortAncestors \/ Verdict \/ \E n \in queue : Walk(n) \/ VisitAncestor(n) \/ PlaceAncestor(n)
  BY <1>3, <1>6 DEF SortAncestors, Verdict, Walk, VisitAncestor, PlaceAncestor
<1>7. CASE CheckRef
  BY <1>3, <1>7 DEF CheckRef
<1>8. CASE \E r \in graph.refs : SourceMissing(r) \/ ComputeAncestors(r)
  BY <1>3, <1>8 DEF SourceMissing, ComputeAncestors
<1> QED
  BY <1>1, <1>2, <1>4, <1>5, <1>6, <1>7, <1>8 DEF Check

\* The forward walk.
LEMMA WalkReach == CheckInv /\ [Check]_checkVars => ReachInv'
<1> SUFFICES ASSUME CheckInv, [Check]_checkVars, at' = "reach" PROVE ReachInv'
  BY DEF ReachInv
<1>1. CASE Drained
  <2>1. graph' = graph /\ reachable' = EntryNodes /\ queue' = EntryNodes /\ issues = {}
    BY <1>1 DEF Drained, CheckInv, KahnInv
  <2>2. Reported("TOPOLOGY_UNREACHABLE")' = {}
    BY <1>1, <2>1, ReportedWillBe DEF Drained
  <2> QED
    BY <2>1, <2>2, GraphOnly DEF ReachInv
<1>2. ASSUME NEW n \in queue, Walk(n) PROVE ReachInv'
  <2>1. /\ ReachInv /\ at = "reach" /\ graph' = graph /\ issues' = issues
        /\ reachable' = reachable \cup {To(e) : e \in OutOf(n)}
        /\ queue' = (queue \ {n}) \cup ({To(e) : e \in OutOf(n)} \ reachable)
    BY <1>2 DEF Walk, CheckInv
  <2>2. ASSUME NEW e \in Edges, From(e) \in reachable' \ queue' PROVE To(e) \in reachable'
    <3>1. From(e) \in reachable
      BY <2>1, <2>2
    <3>2. CASE From(e) = n
      BY <2>1, <3>2 DEF OutOf
    <3>3. CASE From(e) # n
      BY <2>1, <2>2, <3>1, <3>3 DEF ReachInv
    <3> QED
      BY <3>2, <3>3
  <2>3. Reported("TOPOLOGY_UNREACHABLE")' = {}
    BY <2>1, ReportedIs, ReportedWillBe DEF ReachInv
  <2> QED
    BY <2>1, <2>2, <2>3, GraphOnly DEF ReachInv
<1>3. CASE UNCHANGED checkVars
  BY <1>3, GraphOnly, ReportedIs, ReportedWillBe DEF checkVars, CheckInv, ReachInv
<1> QED
  BY <1>1, <1>2, <1>3
  DEF Check, NoEntry, Analyze, Walked, SortAncestors, CheckRef, Verdict, Drain, VisitAncestor,
      PlaceAncestor, SourceMissing, ComputeAncestors

\* A node the walk did not reach sits on, or below, a cycle of such nodes.
LEMMA UnreachedIsCyclic ==
    ASSUME Closed, ReachInv, at = "reach", queue = {}, graph.nodes \ reachable # {}
    PROVE  ~Acyclic
<1> DEFINE S == graph.nodes \ reachable
<1> SUFFICES ASSUME Acyclic PROVE FALSE
  OBVIOUS
<1>1. PICK n \in S : \A m \in S : Between(m, n) = {}
  BY DEF Acyclic
<1>2. Into(n) # {}
  BY DEF ReachInv, EntryNodes
<1>3. PICK e \in Into(n) : TRUE
  BY <1>2
<1>4. e \in Edges /\ To(e) = n /\ From(e) \in graph.nodes
  BY <1>3 DEF Into, Closed
<1>5. From(e) \in S
  BY <1>1, <1>4 DEF ReachInv
<1>6. e \in Between(From(e), n)
  BY <1>4 DEF Between, Into, OutOf
<1> QED
  BY <1>1, <1>5, <1>6

\* A node without edges is an orphan as soon as there is an edge at all.
LEMMA IsolatedIsOrphan ==
    ASSUME graph \in Graphs, Closed, Edges # {}, NEW n \in graph.nodes,
           \A e \in Edges : n \notin {From(e), To(e)}
    PROVE  n \in Orphans
<1>1. Into(n) = {} /\ OutOf(n) = {}
  BY DEF Into, OutOf
<1>2. PICK m \in graph.nodes : m # n
  BY DEF Closed
<1>3. Cardinality(graph.nodes) > 1
  <2>1. IsFiniteSet(graph.nodes)
    BY FiniteEdges
  <2>2. Cardinality(graph.nodes) \in Nat
    BY <2>1, FS_CardinalityType
  <2>3. Cardinality(graph.nodes) # 0 /\ Cardinality(graph.nodes) # 1
    BY <1>2, <2>1, FS_EmptySet, FS_Singleton
  <2> QED
    BY <2>2, <2>3
<1> QED
  BY <1>1, <1>3 DEF Orphans, EntryNodes

LEMMA VerdictOnReach == CheckInv /\ Walked => UnreachableExact'
<1> SUFFICES ASSUME CheckInv, Walked, Closed PROVE UnreachableExact'
  BY GraphOnly DEF UnreachableExact, Walked
<1>1. /\ graph \in Graphs /\ graph' = graph /\ ReachInv /\ at = "reach" /\ queue = {}
      /\ issues' = issues \cup {[code |-> "TOPOLOGY_UNREACHABLE", node |-> n] :
                                   n \in (graph.nodes \ reachable) \cup Orphans}
  BY DEF CheckInv, GraphInv, Walked
<1>2. Reported("TOPOLOGY_UNREACHABLE")' = (graph.nodes \ reachable) \cup Orphans
  <2>1. \A i \in issues : i.code # "TOPOLOGY_UNREACHABLE"
    BY <1>1, ReportedIs DEF ReachInv
  <2>2. \A n : n \in Reported("TOPOLOGY_UNREACHABLE")'
                  <=> n \in (graph.nodes \ reachable) \cup Orphans
    <3> DEFINE issue(m) == [code |-> "TOPOLOGY_UNREACHABLE", node |-> m]
               reported == (graph.nodes \ reachable) \cup Orphans
    <3>1. issues' = issues \cup {issue(m) : m \in reported}
      BY <1>1
    <3>2. \A m : issue(m).code = "TOPOLOGY_UNREACHABLE" /\ issue(m).node = m
      OBVIOUS
    <3> HIDE DEF issue, reported
    <3>3. \A n : (\E i \in issues' : i.code = "TOPOLOGY_UNREACHABLE" /\ i.node = n) <=> n \in reported
      BY <2>1, <3>1, <3>2
    <3> QED
      BY <3>3, ReportedWillBe DEF reported
  <2> QED
    BY <2>2
<1>3. graph.nodes \ reachable # {} => ~Acyclic
  BY <1>1, UnreachedIsCyclic
<1>4. Edges # {} => \A n \in graph.nodes :
         n \in Orphans \/ \E e \in Edges : n \in {From(e), To(e)}
  BY <1>1, IsolatedIsOrphan
<1> QED
  BY <1>1, <1>2, <1>3, <1>4, GraphOnly DEF UnreachableExact

LEMMA UnreachableStays == CheckInv /\ [Check]_checkVars => UnreachableExact'
<1> SUFFICES ASSUME CheckInv, [Check]_checkVars PROVE UnreachableExact'
  OBVIOUS
<1>1. CASE Walked
  BY <1>1, VerdictOnReach
<1>2. CASE NoEntry \/ Analyze \/ Drained \/ \E n \in queue : Drain(n) \/ Walk(n)
  BY <1>2 DEF NoEntry, Analyze, Drained, Drain, Walk, UnreachableExact
<1>3. ASSUME graph' = graph, at \notin {"topology", "no_entry", "kahn", "reach"},
             \A i \in issues' \ issues : i.code # "TOPOLOGY_UNREACHABLE", issues \subseteq issues'
      PROVE  UnreachableExact'
  <2>1. \A n : n \in Reported("TOPOLOGY_UNREACHABLE")' <=> n \in Reported("TOPOLOGY_UNREACHABLE")
    BY <1>3, ReportedIs, ReportedWillBe
  <2>2. Reported("TOPOLOGY_UNREACHABLE")' = Reported("TOPOLOGY_UNREACHABLE")
    BY <2>1
  <2> QED
    BY <1>3, <2>2, GraphOnly DEF CheckInv, UnreachableExact
<1>4. CASE UNCHANGED checkVars
  <2>1. Reported("TOPOLOGY_UNREACHABLE")' = Reported("TOPOLOGY_UNREACHABLE")
    BY <1>4 DEF checkVars, Reported
  <2> QED
    BY <1>4, <2>1, GraphOnly DEF CheckInv, checkVars, UnreachableExact
<1>5. CASE SortAncestors \/ Verdict \/ \E n \in queue : VisitAncestor(n) \/ PlaceAncestor(n)
  BY <1>3, <1>5 DEF SortAncestors, Verdict, VisitAncestor, PlaceAncestor
<1>6. CASE CheckRef
  BY <1>3, <1>6 DEF CheckRef
<1>7. CASE \E r \in graph.refs : SourceMissing(r) \/ ComputeAncestors(r)
  BY <1>3, <1>7 DEF SourceMissing, ComputeAncestors
<1> QED
  BY <1>1, <1>2, <1>4, <1>5, <1>6, <1>7 DEF Check

\* Outside Kahn's loop there is nothing to keep.
LEMMA KahnStays == CheckInv /\ [Check]_checkVars => KahnInv'
<1> SUFFICES ASSUME CheckInv, [Check]_checkVars, at' = "kahn" PROVE KahnInv'
  BY DEF KahnInv
<1>1. CASE Analyze
  BY <1>1, AnalyzeKahn
<1>2. ASSUME NEW n \in queue, Drain(n) PROVE KahnInv'
  BY <1>2, DrainKahn
<1>3. CASE UNCHANGED checkVars
  <2>1. \A m : Left(m)' = Left(m)
    BY <1>3 DEF checkVars, Left, Into, From, To, Edges
  <2>2. \A S : HasSource(S)' = HasSource(S)
    BY <1>3 DEF checkVars, HasSource, Between, Into, OutOf, Edges, To, From
  <2>3. Known' = Known
    BY <1>3 DEF checkVars, Known, Edges, To
  <2> QED
    BY <1>3, <2>1, <2>2, <2>3 DEF checkVars, CheckInv, KahnInv
<1> QED
  BY <1>1, <1>2, <1>3
  DEF Check, NoEntry, Drained, Walked, SortAncestors, CheckRef, Verdict, Walk, VisitAncestor,
      PlaceAncestor, SourceMissing, ComputeAncestors

LEMMA GraphStays == CheckInv /\ [Check]_checkVars => GraphInv' /\ FreshInv'
BY DEF CheckInv, GraphInv, FreshInv, checkVars, Check, NoEntry, Analyze, Drained, Walked,
       SortAncestors, CheckRef, Verdict, Drain, Walk, VisitAncestor, PlaceAncestor,
       SourceMissing, ComputeAncestors
-----------------------------------------------------------------------------
(* The theorems.                                                           *)

\* The invariant holds throughout every check of every graph.
THEOREM CheckInvariance == CheckSpec => []CheckInv
<1>1. CheckInv /\ [Check]_checkVars => CheckInv'
  BY GraphStays, KahnStays, CycleStays, WalkReach, UnreachableStays DEF CheckInv
<1> QED
  BY InitCheck, <1>1, PTL DEF CheckSpec

\* validateGraph reports a cycle exactly when the graph has one, for every
\* finite graph whose edges join its nodes, duplicates and self-loops included.
THEOREM CycleVerdictIsExact == CheckSpec => []CycleExact
<1>1. CheckInv => CycleExact
  BY DEF CheckInv
<1> QED
  BY CheckInvariance, <1>1, PTL

\* validateGraph's claim about step 2: what the forward walk does not reach,
\* orphans aside, is only found in graphs with a cycle; and no isolated node
\* of a graph with edges is passed over.
THEOREM UnreachableVerdictIsExact == CheckSpec => []UnreachableExact
<1>1. CheckInv => UnreachableExact
  BY DEF CheckInv
<1> QED
  BY CheckInvariance, <1>1, PTL
-----------------------------------------------------------------------------
(* The reference checks.                                                   *)

\* The edges into m that do not come out of D.
LeftOf(D, m) == {e \in Into(m) : From(e) \notin D}

\* The ancestors that computeAncestors has sorted already.
Placed == {ordered[i] : i \in DOMAIN ordered}

\* The nodes before the reader of the binding that is looked at.
Above == {a \in graph.nodes : Precedes(a, ref.reader)}

\* The reverse walk finds only nodes above the reader, and loses none.
AncestorsInv ==
    at \in {"ancestors", "sort"} =>
        LET seen == IF at = "ancestors" THEN ancestors \cup queue ELSE ancestors
        IN  /\ ref \in graph.refs /\ ref.source \in graph.nodes
            /\ seen \cap graph.nodes \subseteq Above
            /\ Closed => seen \subseteq graph.nodes
            /\ \A n \in ancestors \cup {ref.reader} : Predecessors(n) \subseteq seen

\* The sort of the ancestors is Kahn's loop again, over a part of the graph.
SortInv ==
    at = "sort" =>
        /\ ordered \in Seq(ancestors) /\ queue \subseteq ancestors
        /\ Closed =>
            /\ indeg = [a \in ancestors |-> Cardinality(LeftOf(Placed, a))]
            /\ queue = {a \in ancestors : a \notin Placed /\ LeftOf(Placed, a) = {}}
            /\ \A a \in Placed : LeftOf(Placed, a) = {}

\* A binding that was looked at reads a node before its reader, or the graph
\* is not valid any more.
CheckedInv ==
    /\ issues = {} => \A r \in checked : Precedes(r.source, r.reader)
    /\ at = "valid" => issues = {} /\ checked = graph.refs

\* Whoever is reported has a binding to blame, unless there is a cycle.
BlameInv ==
    Closed /\ Acyclic =>
        \A n \in Reported("REF_NOT_PREDECESSOR") :
            \E r \in graph.refs : r.reader = n /\ ~Precedes(r.source, n)

RefsInv == AncestorsInv /\ SortInv /\ CheckedInv /\ BlameInv

\* An edge makes its source precede its target, and whoever its target precedes.
LEMMA PrecedesStep ==
    ASSUME NEW p, NEW n \in graph.nodes, n \in Successors(p)
    PROVE  Precedes(p, n) /\ \A d : Precedes(n, d) => Precedes(p, d)
<1>1. Precedes(p, n)
  BY DEF Precedes
<1>2. ASSUME NEW d, Precedes(n, d) PROVE Precedes(p, d)
  <2> SUFFICES ASSUME NEW S \in SUBSET graph.nodes,
                      Successors(p) \cap graph.nodes \subseteq S,
                      \A m \in S : Successors(m) \cap graph.nodes \subseteq S
               PROVE  d \in S
    BY DEF Precedes
  <2>1. Successors(n) \cap graph.nodes \subseteq S
    OBVIOUS
  <2> QED
    BY <1>2, <2>1 DEF Precedes
<1> QED
  BY <1>1, <1>2

\* A set that holds its members' predecessors, and those of d, holds all that
\* precedes d.
LEMMA ClosedUnderPredecessors ==
    ASSUME NEW A, NEW d \in graph.nodes, NEW a \in graph.nodes,
           \A n \in A \cup {d} : Predecessors(n) \subseteq A,
           Precedes(a, d)
    PROVE  a \in A
<1> SUFFICES ASSUME a \notin A PROVE FALSE
  OBVIOUS
<1> DEFINE S == graph.nodes \ (A \cup {d})
<1>1. ASSUME NEW n \in graph.nodes \ A PROVE Successors(n) \cap graph.nodes \subseteq S
  BY DEF Successors, Predecessors, Into, OutOf
<1>2. Successors(a) \cap graph.nodes \subseteq S /\ \A n \in S : Successors(n) \cap graph.nodes \subseteq S
  BY <1>1
<1>3. d \in S
  BY <1>2 DEF Precedes
<1> QED
  BY <1>3

\* Taking n away takes away exactly the edges between n and m.
LEMMA LeftOfAfter ==
    ASSUME graph \in Graphs, NEW D, NEW n, n \notin D, NEW m
    PROVE  /\ LeftOf(D \cup {n}, m) = LeftOf(D, m) \ Between(n, m)
           /\ Between(n, m) \subseteq LeftOf(D, m)
           /\ Cardinality(LeftOf(D \cup {n}, m))
                 = Cardinality(LeftOf(D, m)) - Cardinality(Between(n, m))
           /\ Cardinality(LeftOf(D \cup {n}, m)) = 0 <=> LeftOf(D \cup {n}, m) = {}
<1>1. LeftOf(D \cup {n}, m) = LeftOf(D, m) \ Between(n, m)
  BY DEF LeftOf, Between, Into, OutOf, From
<1>2. Between(n, m) \subseteq LeftOf(D, m)
  BY DEF LeftOf, Between, Into, OutOf, From
<1>3. IsFiniteSet(LeftOf(D, m)) /\ IsFiniteSet(LeftOf(D \cup {n}, m))
  <2>1. LeftOf(D, m) \subseteq Into(m) /\ LeftOf(D \cup {n}, m) \subseteq Into(m)
    BY DEF LeftOf
  <2> QED
    BY <2>1, FiniteEdges
<1>4. LeftOf(D, m) \cap Between(n, m) = Between(n, m)
  BY <1>2
<1>5. Cardinality(LeftOf(D, m) \ Between(n, m))
         = Cardinality(LeftOf(D, m)) - Cardinality(Between(n, m))
  BY <1>3, <1>4, FS_Difference
<1>6. Cardinality(LeftOf(D \cup {n}, m)) = 0 <=> LeftOf(D \cup {n}, m) = {}
  BY <1>3, FS_EmptySet
<1> QED
  BY <1>1, <1>2, <1>5, <1>6

\* What is said of the graph and the binding alone stays true while they stay.
LEMMA PathsStay ==
    ASSUME graph' = graph
    PROVE  /\ \A a, d : Precedes(a, d)' = Precedes(a, d)
           /\ \A n : Predecessors(n)' = Predecessors(n) /\ Successors(n)' = Successors(n)
           /\ \A D, m : LeftOf(D, m)' = LeftOf(D, m)
           /\ ref' = ref => Above' = Above
<1>1. Edges' = Edges /\ \A e : From(e)' = From(e) /\ To(e)' = To(e)
  BY DEF Edges, From, To
<1>2. \A n : Into(n)' = Into(n) /\ OutOf(n)' = OutOf(n)
  BY <1>1 DEF Into, OutOf
<1>3. \A n : Predecessors(n)' = Predecessors(n) /\ Successors(n)' = Successors(n)
  BY <1>1, <1>2 DEF Predecessors, Successors
<1>4. \A a, d : Precedes(a, d)' = Precedes(a, d)
  BY <1>3 DEF Precedes
<1>5. \A D, m : LeftOf(D, m)' = LeftOf(D, m)
  BY <1>1, <1>2 DEF LeftOf
<1>6. ref' = ref => Above' = Above
  BY <1>3 DEF Above, Precedes
<1> QED
  BY <1>3, <1>4, <1>5, <1>6

LEMMA AncestorsStep == CheckInv /\ RefsInv /\ [Check]_checkVars => AncestorsInv'
<1> SUFFICES ASSUME CheckInv, RefsInv, [Check]_checkVars, at' \in {"ancestors", "sort"}
             PROVE  AncestorsInv'
  BY DEF AncestorsInv
<1>1. ASSUME NEW r \in graph.refs, ComputeAncestors(r) PROVE AncestorsInv'
  <2>1. /\ graph' = graph /\ at' = "ancestors" /\ ref' = r /\ ancestors' = {}
        /\ queue' = Predecessors(r.reader) /\ r.source \in graph.nodes
    BY <1>1 DEF ComputeAncestors
  <2>2. r.reader \in graph.nodes
    BY GraphAssumption DEF GraphAssumption, CheckInv, GraphInv
  <2>3. ASSUME NEW a \in queue', a \in graph.nodes PROVE a \in Above'
    <3>1. r.reader \in Successors(a)
      BY <2>1, <2>2, <2>3 DEF Predecessors, Successors, Into, OutOf
    <3>2. Precedes(a, r.reader)
      BY <2>2, <3>1, PrecedesStep
    <3> QED
      BY <2>1, <2>3, <3>2, PathsStay DEF Above, Precedes
  <2>4. Closed => queue' \subseteq graph.nodes
    BY <2>1 DEF Closed, Predecessors, Into
  <2>5. Closed' = Closed /\ \A n : Predecessors(n)' = Predecessors(n)
    BY <2>1, GraphOnly, PathsStay
  <2> QED
    BY <2>1, <2>3, <2>4, <2>5 DEF AncestorsInv
<1>2. ASSUME NEW n \in queue, VisitAncestor(n) PROVE AncestorsInv'
  <2>1. /\ graph' = graph /\ at = "ancestors" /\ at' = "ancestors" /\ ref' = ref
        /\ ancestors' = ancestors \cup {n}
        /\ queue' = (queue \cup Predecessors(n)) \ ancestors'
    BY <1>2 DEF VisitAncestor
  <2>2. ancestors' \cup queue' = ancestors \cup queue \cup Predecessors(n)
    BY <2>1
  <2>3. n \in graph.nodes => Precedes(n, ref.reader)
    BY <2>1 DEF RefsInv, AncestorsInv, Above
  <2>4. ASSUME NEW a \in Predecessors(n), a \in graph.nodes PROVE a \in Above
    <3>1. n \in graph.nodes /\ n \in Successors(a)
      BY <2>4 DEF Predecessors, Successors, Into, OutOf
    <3> QED
      BY <2>3, <2>4, <3>1, PrecedesStep DEF Above
  <2>5. Closed => Predecessors(n) \subseteq graph.nodes
    BY DEF Closed, Predecessors, Into
  <2>6. Above' = Above /\ Closed' = Closed /\ \A m : Predecessors(m)' = Predecessors(m)
    BY <2>1, GraphOnly, PathsStay
  <2> QED
    BY <2>1, <2>2, <2>4, <2>5, <2>6 DEF RefsInv, AncestorsInv
<1>3. CASE SortAncestors \/ \E n \in queue : PlaceAncestor(n)
  <2>1. /\ graph' = graph /\ at' = "sort" /\ ref' = ref /\ ancestors' = ancestors
        /\ at = "sort" \/ (at = "ancestors" /\ queue = {})
    BY <1>3 DEF SortAncestors, PlaceAncestor
  <2>2. Above' = Above /\ Closed' = Closed /\ \A m : Predecessors(m)' = Predecessors(m)
    BY <2>1, GraphOnly, PathsStay
  <2> QED
    BY <2>1, <2>2 DEF RefsInv, AncestorsInv
<1>4. CASE UNCHANGED checkVars
  <2>1. /\ graph' = graph /\ at' = at /\ ref' = ref /\ ancestors' = ancestors
        /\ queue' = queue
    BY <1>4 DEF checkVars
  <2>2. Above' = Above /\ Closed' = Closed /\ \A m : Predecessors(m)' = Predecessors(m)
    BY <2>1, GraphOnly, PathsStay
  <2> QED
    BY <2>1, <2>2 DEF RefsInv, AncestorsInv
<1> QED
  BY <1>1, <1>2, <1>3, <1>4
  DEF Check, NoEntry, Analyze, Drained, Walked, CheckRef, Verdict, Drain, Walk, SourceMissing

\* The sub-graph of the ancestors of a closed graph keeps all its edges, so
\* that the in-degrees start as those of the whole graph.
LEMMA SortStarts == CheckInv /\ RefsInv /\ SortAncestors => SortInv'
<1> SUFFICES ASSUME CheckInv, RefsInv, SortAncestors PROVE SortInv'
  OBVIOUS
<1>1. /\ graph \in Graphs /\ graph' = graph /\ at = "ancestors" /\ ancestors' = ancestors
      /\ ordered' = << >> /\ queue = {} /\ queue' = {a \in ancestors : indeg'[a] = 0}
      /\ indeg' = [a \in ancestors |->
                      Cardinality({e \in Into(a) : From(e) \in ancestors \cap graph.nodes})]
  BY DEF CheckInv, GraphInv, SortAncestors
<1>2. Placed' = {} /\ ordered' \in Seq(ancestors')
  BY <1>1 DEF Placed
<1>3. ASSUME Closed
      PROVE  /\ indeg' = [a \in ancestors |-> Cardinality(LeftOf({}, a))]
             /\ queue' = {a \in ancestors : LeftOf({}, a) = {}}
  <2>1. ASSUME NEW a \in ancestors
        PROVE  /\ {e \in Into(a) : From(e) \in ancestors \cap graph.nodes} = LeftOf({}, a)
               /\ Cardinality(LeftOf({}, a)) = 0 <=> LeftOf({}, a) = {}
    <3>1. a \in graph.nodes /\ Predecessors(a) \subseteq ancestors
      BY <1>1, <1>3 DEF RefsInv, AncestorsInv
    <3>2. LeftOf({}, a) \subseteq Into(a)
      BY DEF LeftOf
    <3>3. \A e \in Into(a) : From(e) \in ancestors \cap graph.nodes
      BY <1>3, <3>1 DEF Predecessors, Closed, Into
    <3> QED
      BY <1>1, <3>2, <3>3, FiniteEdges, FS_EmptySet DEF LeftOf
  <2> QED
    BY <1>1, <2>1
<1>4. \A D, m : LeftOf(D, m)' = LeftOf(D, m)
  BY <1>1, PathsStay
<1>5. Closed' = Closed
  BY <1>1, GraphOnly
<1>6. queue' \subseteq ancestors'
  BY <1>1
<1>7. ASSUME Closed
      PROVE  /\ indeg' = [a \in ancestors |-> Cardinality(LeftOf(Placed', a))]
             /\ queue' = {a \in ancestors : a \notin Placed' /\ LeftOf(Placed', a) = {}}
             /\ \A a \in Placed' : LeftOf(Placed', a) = {}
  BY <1>2, <1>3, <1>7
<1> QED
  BY <1>1, <1>2, <1>4, <1>5, <1>6, <1>7 DEF SortInv

LEMMA PlacedAppend ==
    ASSUME NEW n, ordered \in Seq(ancestors), ordered' = Append(ordered, n)
    PROVE  Placed' = Placed \cup {n}
<1>1. /\ DOMAIN ordered = 1..Len(ordered) /\ DOMAIN ordered' = 1..(Len(ordered) + 1)
      /\ Len(ordered) \in Nat
      /\ \A i \in 1..Len(ordered) : ordered'[i] = ordered[i]
      /\ ordered'[Len(ordered) + 1] = n
  OBVIOUS
<1>2. DOMAIN ordered' = DOMAIN ordered \cup {Len(ordered) + 1}
  BY <1>1
<1> QED
  BY <1>1, <1>2 DEF Placed

LEMMA SortGoesOn ==
    ASSUME CheckInv, RefsInv, NEW n \in queue, PlaceAncestor(n)
    PROVE  SortInv'
<1>1. /\ graph \in Graphs /\ graph' = graph /\ at = "sort" /\ ancestors' = ancestors
      /\ ordered \in Seq(ancestors) /\ queue \subseteq ancestors
      /\ ordered' = Append(ordered, n)
      /\ indeg' = IF n \in graph.nodes THEN Less(indeg, n) ELSE indeg
      /\ queue' = (queue \ {n}) \cup {m \in Successors(n) \cap ancestors : indeg'[m] = 0}
  BY DEF CheckInv, GraphInv, RefsInv, SortInv, PlaceAncestor, ReadyAfter
<1>2. Placed' = Placed \cup {n} /\ ordered' \in Seq(ancestors')
  BY <1>1, PlacedAppend
<1>3. \A D, m : LeftOf(D, m)' = LeftOf(D, m)
  BY <1>1, PathsStay
<1>4. Closed' = Closed
  BY <1>1, GraphOnly
<1>5. ASSUME Closed
      PROVE  /\ indeg' = [a \in ancestors |-> Cardinality(LeftOf(Placed', a))]
             /\ queue' = {a \in ancestors : a \notin Placed' /\ LeftOf(Placed', a) = {}}
             /\ \A a \in Placed' : LeftOf(Placed', a) = {}
  <2>1. /\ indeg = [a \in ancestors |-> Cardinality(LeftOf(Placed, a))]
        /\ queue = {a \in ancestors : a \notin Placed /\ LeftOf(Placed, a) = {}}
        /\ \A a \in Placed : LeftOf(Placed, a) = {}
        /\ n \in graph.nodes /\ n \notin Placed /\ LeftOf(Placed, n) = {}
    BY <1>1, <1>5 DEF RefsInv, AncestorsInv, SortInv
  <2>2. \A m : /\ LeftOf(Placed', m) = LeftOf(Placed, m) \ Between(n, m)
               /\ Between(n, m) \subseteq LeftOf(Placed, m)
               /\ Cardinality(LeftOf(Placed', m))
                     = Cardinality(LeftOf(Placed, m)) - Cardinality(Between(n, m))
               /\ Cardinality(LeftOf(Placed', m)) = 0 <=> LeftOf(Placed', m) = {}
    BY <1>1, <1>2, <2>1, LeftOfAfter
  <2>3. indeg' = [a \in ancestors |-> Cardinality(LeftOf(Placed', a))]
    BY <1>1, <2>1, <2>2 DEF Less
  <2>4. \A m : m \in Successors(n) <=> Between(n, m) # {}
    BY <2>1 DEF Successors, Between, Into, OutOf
  <2>5. queue' = (queue \ {n}) \cup {m \in ancestors : Between(n, m) # {} /\ LeftOf(Placed', m) = {}}
    BY <1>1, <2>2, <2>3, <2>4
  <2>6. queue' = {a \in ancestors : a \notin Placed' /\ LeftOf(Placed', a) = {}}
    BY <1>2, <2>1, <2>2, <2>5
  <2>7. \A a \in Placed' : LeftOf(Placed', a) = {}
    BY <1>2, <2>1, <2>2
  <2> QED
    BY <2>3, <2>6, <2>7
<1>6. queue' \subseteq ancestors'
  BY <1>1
<1> QED
  BY <1>1, <1>2, <1>3, <1>4, <1>5, <1>6 DEF SortInv

LEMMA SortStep == CheckInv /\ RefsInv /\ [Check]_checkVars => SortInv'
<1> SUFFICES ASSUME CheckInv, RefsInv, [Check]_checkVars, at' = "sort" PROVE SortInv'
  BY DEF SortInv
<1>1. CASE UNCHANGED checkVars
  <2>1. /\ graph' = graph /\ at' = at /\ ancestors' = ancestors /\ ordered' = ordered
        /\ queue' = queue /\ indeg' = indeg
    BY <1>1 DEF checkVars
  <2>2. Placed' = Placed /\ Closed' = Closed /\ \A D, m : LeftOf(D, m)' = LeftOf(D, m)
    BY <2>1, GraphOnly, PathsStay DEF Placed
  <2> QED
    BY <2>1, <2>2 DEF RefsInv, SortInv
<1> QED
  BY <1>1, SortStarts, SortGoesOn
  DEF Check, NoEntry, Analyze, Drained, Walked, CheckRef, Verdict, Drain, Walk, VisitAncestor,
      SourceMissing, ComputeAncestors

\* What the sort placed are ancestors, and in an acyclic graph all of them.
LEMMA SortIsComplete ==
    ASSUME CheckInv, RefsInv, at = "sort", queue = {}
    PROVE  /\ Placed \subseteq ancestors
           /\ ReadsAncestor => Precedes(ref.source, ref.reader)
           /\ Closed /\ Acyclic /\ Precedes(ref.source, ref.reader) => ReadsAncestor
<1>1. ordered \in Seq(ancestors) /\ ref \in graph.refs /\ ref.source \in graph.nodes
  BY DEF RefsInv, AncestorsInv, SortInv
<1>2. Placed \subseteq ancestors
  BY <1>1 DEF Placed
<1>3. ReadsAncestor <=> ref.source \in Placed
  BY DEF ReadsAncestor, Placed
<1>4. ASSUME ReadsAncestor PROVE Precedes(ref.source, ref.reader)
  BY <1>1, <1>2, <1>3, <1>4 DEF RefsInv, AncestorsInv, Above
<1>5. ASSUME Closed, Acyclic, Precedes(ref.source, ref.reader) PROVE ReadsAncestor
  <2>1. ref.reader \in graph.nodes
    BY <1>1, GraphAssumption DEF GraphAssumption, CheckInv, GraphInv
  <2>2. /\ \A n \in ancestors \cup {ref.reader} : Predecessors(n) \subseteq ancestors
        /\ ancestors \subseteq graph.nodes
        /\ \A a \in ancestors \ Placed : LeftOf(Placed, a) # {}
    BY <1>5 DEF RefsInv, AncestorsInv, SortInv
  <2>3. ref.source \in ancestors
    BY <1>1, <1>5, <2>1, <2>2, ClosedUnderPredecessors
  <2>4. ancestors \ Placed = {}
    <3> SUFFICES ASSUME ancestors \ Placed # {} PROVE FALSE
      OBVIOUS
    <3>1. PICK n \in ancestors \ Placed : \A m \in ancestors \ Placed : Between(m, n) = {}
      BY <1>5, <2>2 DEF Acyclic
    <3>2. PICK e \in Into(n) : From(e) \notin Placed
      BY <2>2, <3>1 DEF LeftOf
    <3>3. From(e) \in ancestors /\ e \in Between(From(e), n)
      BY <2>2, <3>1, <3>2 DEF Predecessors, Between, Into, OutOf
    <3> QED
      BY <3>1, <3>2, <3>3
  <2> QED
    BY <1>3, <2>3, <2>4
<1> QED
  BY <1>2, <1>4, <1>5

LEMMA CheckedStep == CheckInv /\ RefsInv /\ [Check]_checkVars => CheckedInv'
<1> SUFFICES ASSUME CheckInv, RefsInv, [Check]_checkVars PROVE CheckedInv'
  OBVIOUS
<1>1. ASSUME graph' = graph, checked' = checked, issues \subseteq issues', at' # "valid"
      PROVE  CheckedInv'
  <2>1. \A r : Precedes(r.source, r.reader)' = Precedes(r.source, r.reader)
    BY <1>1, PathsStay
  <2> QED
    BY <1>1, <2>1 DEF RefsInv, CheckedInv
<1>2. CASE NoEntry \/ Analyze \/ Drained \/ Walked \/ SortAncestors
           \/ \E n \in queue : Drain(n) \/ Walk(n) \/ VisitAncestor(n) \/ PlaceAncestor(n)
  BY <1>1, <1>2
  DEF NoEntry, Analyze, Drained, Walked, SortAncestors, Drain, Walk, VisitAncestor, PlaceAncestor
<1>3. ASSUME NEW r \in graph.refs, SourceMissing(r) \/ ComputeAncestors(r) PROVE CheckedInv'
  <2>1. CASE SourceMissing(r)
    BY <2>1 DEF SourceMissing, CheckedInv
  <2>2. CASE ComputeAncestors(r)
    BY <1>1, <2>2 DEF ComputeAncestors
  <2> QED
    BY <1>3, <2>1, <2>2
<1>4. CASE CheckRef
  <2>1. /\ graph' = graph /\ at = "sort" /\ queue = {} /\ at' = "bindings"
        /\ checked' = checked \cup {ref} /\ issues \subseteq issues'
    BY <1>4 DEF CheckRef
  <2>2. \A r : Precedes(r.source, r.reader)' = Precedes(r.source, r.reader)
    BY <2>1, PathsStay
  <2>3. issues' = {} => ReadsAncestor
    BY <1>4 DEF CheckRef
  <2> QED
    BY <2>1, <2>2, <2>3, SortIsComplete DEF RefsInv, CheckedInv
<1>5. CASE Verdict
  <2>1. graph' = graph /\ checked' = checked /\ issues' = issues /\ checked = graph.refs
        /\ (at' = "valid" => issues = {})
    BY <1>5 DEF Verdict
  <2>2. \A r : Precedes(r.source, r.reader)' = Precedes(r.source, r.reader)
    BY <2>1, PathsStay
  <2> QED
    BY <2>1, <2>2 DEF RefsInv, CheckedInv
<1>6. CASE UNCHANGED checkVars
  <2>1. graph' = graph /\ checked' = checked /\ issues' = issues /\ at' = at
    BY <1>6 DEF checkVars
  <2>2. \A r : Precedes(r.source, r.reader)' = Precedes(r.source, r.reader)
    BY <2>1, PathsStay
  <2> QED
    BY <2>1, <2>2 DEF RefsInv, CheckedInv
<1> QED
  BY <1>2, <1>3, <1>4, <1>5, <1>6 DEF Check

LEMMA BlameStep == CheckInv /\ RefsInv /\ [Check]_checkVars => BlameInv'
<1> SUFFICES ASSUME CheckInv, RefsInv, [Check]_checkVars PROVE BlameInv'
  OBVIOUS
<1>1. ASSUME graph' = graph, issues \subseteq issues',
             \A i \in issues' \ issues :
                 i.code = "REF_NOT_PREDECESSOR" /\ Closed /\ Acyclic =>
                     \E r \in graph.refs : r.reader = i.node /\ ~Precedes(r.source, i.node)
      PROVE  BlameInv'
  <2>1. /\ Closed' = Closed /\ Acyclic' = Acyclic
        /\ \A a, d : Precedes(a, d)' = Precedes(a, d)
    BY <1>1, GraphOnly, PathsStay
  <2> SUFFICES ASSUME Closed, Acyclic, NEW n, n \in Reported("REF_NOT_PREDECESSOR")'
               PROVE  \E r \in graph.refs : r.reader = n /\ ~Precedes(r.source, n)
    BY <1>1, <2>1 DEF BlameInv
  <2>2. PICK i \in issues' : i.code = "REF_NOT_PREDECESSOR" /\ i.node = n
    BY ReportedWillBe
  <2>3. CASE i \in issues
    <3>1. n \in Reported("REF_NOT_PREDECESSOR")
      BY <2>2, <2>3, ReportedIs
    <3> QED
      BY <3>1 DEF RefsInv, BlameInv
  <2> QED
    BY <1>1, <2>2, <2>3
<1>2. CASE NoEntry \/ Analyze \/ Drained \/ Walked \/ SortAncestors \/ Verdict
           \/ \E n \in queue : Drain(n) \/ Walk(n) \/ VisitAncestor(n) \/ PlaceAncestor(n)
  BY <1>1, <1>2
  DEF NoEntry, Analyze, Drained, Walked, SortAncestors, Verdict, Drain, Walk, VisitAncestor,
      PlaceAncestor
<1>3. CASE \E r \in graph.refs : SourceMissing(r) \/ ComputeAncestors(r)
  BY <1>1, <1>3 DEF SourceMissing, ComputeAncestors
<1>4. CASE CheckRef
  <2>1. /\ graph' = graph /\ at = "sort" /\ queue = {} /\ ref \in graph.refs
        /\ issues \subseteq issues'
    BY <1>4 DEF CheckRef, RefsInv, AncestorsInv
  <2>2. \A i \in issues' \ issues : i.node = ref.reader /\ ~ReadsAncestor
    BY <1>4 DEF CheckRef
  <2> QED
    BY <1>1, <2>1, <2>2, SortIsComplete
<1>5. CASE UNCHANGED checkVars
  BY <1>1, <1>5 DEF checkVars
<1> QED
  BY <1>2, <1>3, <1>4, <1>5 DEF Check

\* The worklists of computeAncestors hold, at every moment, what its result
\* needs.
THEOREM RefsInvariance == CheckSpec => []RefsInv
<1>1. Init => RefsInv
  BY DEF Init, RefsInv, AncestorsInv, SortInv, CheckedInv, BlameInv, Reported
<1>2. CheckInv /\ RefsInv /\ [Check]_checkVars => RefsInv'
  BY AncestorsStep, SortStep, CheckedStep, BlameStep DEF RefsInv
<1> QED
  BY <1>1, <1>2, CheckInvariance, PTL DEF CheckSpec

\* In an accepted graph every binding reads a node before its reader; a binding
\* that does is not what its reader is reported for, unless there is a cycle.
THEOREM BindingVerdictIsExact == CheckSpec => []RefsExact
<1>1. RefsInv => RefsExact
  <2> SUFFICES ASSUME RefsInv PROVE RefsExact
    OBVIOUS
  <2>1. at = "valid" => \A r \in graph.refs : Precedes(r.source, r.reader)
    BY DEF RefsInv, CheckedInv
  <2>2. ASSUME Closed, Acyclic, NEW r \in graph.refs, Precedes(r.source, r.reader),
               r.reader \in Reported("REF_NOT_PREDECESSOR")
        PROVE  \E s \in graph.refs \ {r} : s.reader = r.reader
    BY <2>2 DEF RefsInv, BlameInv
  <2> QED
    BY <2>1, <2>2 DEF RefsExact
<1> QED
  BY <1>1, RefsInvariance, PTL
-----------------------------------------------------------------------------
(* The graph that runs.                                                    *)

\* Every edge leaves a node.
FromNodes == \A e \in Edges : From(e) \in graph.nodes

\* n is an entry, or comes after one.
Rooted(n) == n \in EntryNodes \/ \E m \in EntryNodes : Precedes(m, n)

\* The forward walk reaches only what comes after an entry, and a graph
\* without an issue altogether.
RootedInv ==
    /\ at = "reach" => queue \subseteq reachable
    /\ at \notin {"topology", "no_entry", "kahn"} /\ FromNodes =>
           \A n \in reachable \cap graph.nodes : Rooted(n)
    /\ at \notin {"topology", "no_entry", "kahn", "reach"} /\ issues = {} =>
           graph.nodes \subseteq reachable

\* What compile() has made sure of once the graph runs.
AcceptedInv ==
    /\ at \in {"valid", "if_missing", "langgraph_rejects", "running", "ended"} =>
           issues = {} /\ checked = graph.refs
    /\ at = "running" => ~MissingBranch /\ LangGraphAccepts

\* The nodes that ran.
Ran == {n \in graph.nodes : runs[n] > 0}

\* No IF node stands before n.
NoIf(n) == \A i \in graph.ifs : ~Precedes(i, n)

\* Where the triggers of the next super-steps are.
TokensInv ==
    /\ runs \in [graph.nodes -> Nat]
    /\ pending \subseteq graph.nodes \ Joins /\ waiting \subseteq Joins
    /\ at \notin {"running", "ended"} => pending = {} /\ waiting = {} /\ Ran = {}

\* Nothing runs again; what ran or is due has its parents behind it, fan-ins
\* aside; after the first fan-in all that is due lies below a fan-in.
OrderInv ==
    at = "running" /\ FlatJoins =>
        /\ (pending \cup waiting) \cap Ran = {}
        /\ \A n \in (Ran \cup pending) \ Joins : Predecessors(n) \subseteq Ran
        /\ Ran \cap Joins # {} =>
              waiting = {} /\ \A p \in pending : \E k \in Joins : Precedes(k, p)

\* What no IF node decides about has run before whatever comes after it, and a
\* node with neither an IF nor a fan-in before it is on its way.
OutputsInv ==
    at = "running" /\ FlatJoins =>
        /\ \A n \in Ran \cup pending : \A a \in graph.nodes : Precedes(a, n) /\ NoIf(a) => a \in Ran
        /\ \A n \in graph.nodes \ Joins :
              NoIf(n) /\ (\A k \in Joins : ~Precedes(k, n)) =>
                  n \in Ran \cup pending \/ \E m \in pending : Precedes(m, n)

RunInv == RootedInv /\ AcceptedInv /\ TokensInv /\ OrderInv /\ OutputsInv

-----------------------------------------------------------------------------
(* More facts about one graph.                                             *)

\* Only nodes precede, and are preceded.
LEMMA PrecedesNodes ==
    ASSUME NEW a, NEW d, Precedes(a, d)
    PROVE  a \in graph.nodes /\ d \in graph.nodes
<1>1. d \in graph.nodes
  BY DEF Precedes
<1>2. ASSUME a \notin graph.nodes PROVE FALSE
  <2>1. Successors(a) = {}
    BY <1>2 DEF Successors
  <2> QED
    BY <2>1 DEF Precedes
<1> QED
  BY <1>1, <1>2

LEMMA PrecedesTrans ==
    ASSUME NEW a, NEW b, NEW d, Precedes(a, b), Precedes(b, d)
    PROVE  Precedes(a, d)
<1> SUFFICES ASSUME NEW S \in SUBSET graph.nodes,
                    Successors(a) \cap graph.nodes \subseteq S,
                    \A m \in S : Successors(m) \cap graph.nodes \subseteq S
             PROVE  d \in S
  BY DEF Precedes
<1>1. b \in S
  BY DEF Precedes
<1> QED
  BY <1>1 DEF Precedes

\* The first edge of a path.
LEMMA PrecedesFirst ==
    ASSUME NEW a, NEW d, Precedes(a, d)
    PROVE  \E k \in Successors(a) \cap graph.nodes : k = d \/ Precedes(k, d)
<1> DEFINE S == {x \in graph.nodes : \E k \in Successors(a) \cap graph.nodes : k = x \/ Precedes(k, x)}
<1>1. Successors(a) \cap graph.nodes \subseteq S
  OBVIOUS
<1>2. ASSUME NEW x \in S, NEW y \in Successors(x) \cap graph.nodes PROVE y \in S
  <2>1. PICK k \in Successors(a) \cap graph.nodes : k = x \/ Precedes(k, x)
    OBVIOUS
  <2>2. Precedes(x, y)
    BY <1>2, PrecedesStep
  <2>3. Precedes(k, y)
    BY <2>1, <2>2, PrecedesTrans
  <2> QED
    BY <2>1, <2>3
<1>3. S \in SUBSET graph.nodes
  OBVIOUS
<1>4. d \in S
  <2> HIDE DEF S
  <2> QED
    BY <1>1, <1>2, <1>3 DEF Precedes
<1> QED
  BY <1>4

\* The last edge of a path into a node with one parent.
LEMMA PrecedesLast ==
    ASSUME NEW a, NEW p, NEW d, Precedes(a, d), Predecessors(d) \subseteq {p}
    PROVE  a = p \/ Precedes(a, p)
<1> SUFFICES ASSUME a # p, ~Precedes(a, p) PROVE FALSE
  OBVIOUS
<1> DEFINE S == {x \in graph.nodes : Precedes(a, x)} \ {d}
<1>1. d \in graph.nodes
  BY PrecedesNodes
<1>2. \A x \in graph.nodes : d \in Successors(x) => x = p
  BY <1>1 DEF Predecessors, Successors, Into, OutOf
<1>3. Successors(a) \cap graph.nodes \subseteq S
  BY <1>2, PrecedesStep, PrecedesNodes
<1>4. ASSUME NEW x \in S, NEW y \in Successors(x) \cap graph.nodes PROVE y \in S
  <2>1. Precedes(x, y) /\ Precedes(a, x)
    BY <1>4, PrecedesStep
  <2>2. Precedes(a, y)
    BY <2>1, PrecedesTrans
  <2>3. y # d
    BY <1>2, <1>4, <2>1
  <2> QED
    BY <2>2, <2>3
<1>5. S \in SUBSET graph.nodes
  OBVIOUS
<1>6. d \in S
  <2> HIDE DEF S
  <2> QED
    BY <1>3, <1>4, <1>5 DEF Precedes
<1> QED
  BY <1>6

\* A finite set of positions has a last one.
LEMMA LastOf ==
    ASSUME NEW X, X \subseteq Nat, X # {}, IsFiniteSet(X)
    PROVE  \E x \in X : \A y \in X : y <= x
<1> SUFFICES ASSUME \A x \in X : \E y \in X : y > x PROVE FALSE
  OBVIOUS
<1> DEFINE Beyond(x) == {y \in X : y > x}
           F == {Beyond(x) : x \in X}
<1>1. F \subseteq FiniteSubsetsOf(X) /\ F # {}
  <2>1. F \subseteq SUBSET X /\ F # {}
    OBVIOUS
  <2>2. FiniteSubsetsOf(X) = SUBSET X
    BY FS_FiniteSubsetsOfFinite
  <2> QED
    BY <2>1, <2>2
<1>2. IsWellFoundedOn(StrictSubsetOrdering(X), FiniteSubsetsOf(X))
  BY FS_StrictSubsetOrderingWellFounded
<1>3. PICK U \in F : \A V \in F : <<V, U>> \notin StrictSubsetOrdering(X)
  <2> HIDE DEF F
  <2> QED
    BY <1>1, <1>2, WFMin
<1>4. PICK x \in X : U = Beyond(x)
  OBVIOUS
<1>5. PICK y \in X : y > x
  OBVIOUS
<1>6. Beyond(y) \subseteq U /\ Beyond(y) # U
  <2>1. y \in Nat /\ x \in Nat
    OBVIOUS
  <2>2. \A z \in X : z > y => z > x
    BY <1>5, <2>1
  <2>3. Beyond(y) \subseteq Beyond(x)
    BY <2>2
  <2>4. y \in Beyond(x) /\ y \notin Beyond(y)
    BY <1>5, <2>1
  <2> QED
    BY <1>4, <2>3, <2>4
<1>7. <<Beyond(y), U>> \in StrictSubsetOrdering(X)
  BY <1>4, <1>6 DEF StrictSubsetOrdering
<1> QED
  BY <1>3, <1>7

\* The branch of an IF node is one of its edges.
LEMMA BranchIsEdge ==
    ASSUME graph \in Graphs, ~MissingBranch, NEW n \in Routers, NEW label \in Branches
    PROVE  Branch(n, label) \in OutOf(n)
<1> DEFINE X == Labelled(n, label)
<1>1. X # {} /\ X \subseteq Edges /\ X \subseteq OutOf(n)
  BY DEF MissingBranch, Labelled, OutOf
<1>2. X \subseteq Nat /\ IsFiniteSet(X)
  <2>1. Edges \subseteq Nat /\ IsFiniteSet(Edges)
    BY GraphAssumption DEF Edges
  <2>2. X \in SUBSET Edges
    BY <1>1
  <2> HIDE DEF X
  <2> QED
    BY <2>1, <2>2, FS_Subset
<1>3. \E x \in X : \A y \in X : y <= x
  <2> HIDE DEF X
  <2> QED
    BY <1>1, <1>2, LastOf
<1>4. Branch(n, label) \in X
  BY <1>3 DEF Branch
<1> QED
  BY <1>1, <1>4

\* What GraphRun says of the graph alone stays true while it is not changed.
LEMMA RunGraphOnly ==
    ASSUME graph' = graph
    PROVE  /\ Joins' = Joins /\ FlatJoins' = FlatJoins /\ FromNodes' = FromNodes
           /\ MissingBranch' = MissingBranch /\ LangGraphAccepts' = LangGraphAccepts
           /\ \A n : Rooted(n)' = Rooted(n) /\ NoIf(n)' = NoIf(n)
<1>1. Edges' = Edges /\ EntryNodes' = EntryNodes /\ \A e : From(e)' = From(e) /\ To(e)' = To(e)
  BY GraphOnly
<1>2. \A a, d : Precedes(a, d)' = Precedes(a, d)
  BY PathsStay
<1>3. \A n : Into(n)' = Into(n) /\ OutOf(n)' = OutOf(n)
  BY <1>1 DEF Into, OutOf
<1>4. Joins' = Joins
  BY <1>3 DEF Joins
<1>5. FlatJoins' = FlatJoins
  BY <1>2, <1>4 DEF FlatJoins
<1>6. FromNodes' = FromNodes
  BY <1>1 DEF FromNodes
<1>7. \A n : Rooted(n)' = Rooted(n) /\ NoIf(n)' = NoIf(n)
  BY <1>1, <1>2 DEF Rooted, NoIf
<1>8. Routers' = Routers /\ \A n, label : Labelled(n, label)' = Labelled(n, label)
  BY <1>3 DEF Routers, Labelled
<1>9. MissingBranch' = MissingBranch
  BY <1>8 DEF MissingBranch
<1>10. \A n, label : Branch(n, label)' = Branch(n, label)
  BY DEF Branch, Labelled, OutOf, From, Edges
<1>11. Wired' = Wired
  BY <1>1, <1>8, <1>10 DEF Wired
<1>12. LangGraphAccepts' = LangGraphAccepts
  BY <1>1, <1>11 DEF LangGraphAccepts
<1> QED
  BY <1>4, <1>5, <1>6, <1>7, <1>9, <1>12

\* Nothing precedes an entry, and an entry is no fan-in.
LEMMA EntriesAreFirst ==
    ASSUME NEW n \in EntryNodes
    PROVE  n \notin Joins /\ Predecessors(n) = {} /\ \A a : ~Precedes(a, n)
<1>1. n \in graph.nodes /\ Into(n) = {}
  BY DEF EntryNodes
<1>2. n \notin Joins
  BY <1>1, FS_EmptySet DEF Joins
<1>3. Predecessors(n) = {}
  BY <1>1 DEF Predecessors
<1>4. ASSUME NEW a, Precedes(a, n) PROVE FALSE
  <2> DEFINE S == graph.nodes \ {n}
  <2>1. \A m : Successors(m) \cap graph.nodes \subseteq S
    BY <1>1 DEF Successors, OutOf, Into
  <2>2. n \in S
    <3> HIDE DEF S
    <3>1. S \in SUBSET graph.nodes
      BY DEF S
    <3> QED
      BY <1>4, <2>1, <3>1 DEF Precedes
  <2> QED
    BY <2>2
<1> QED
  BY <1>2, <1>3, <1>4

\* A node that is no fan-in has at most one parent.
LEMMA OneParent ==
    ASSUME graph \in Graphs, NEW n \in graph.nodes \ Joins, NEW p \in Predecessors(n)
    PROVE  Predecessors(n) = {p}
<1>1. IsFiniteSet(Into(n)) /\ Cardinality(Into(n)) \in Nat /\ ~(Cardinality(Into(n)) >= 2)
  BY FiniteEdges, FS_CardinalityType DEF Joins
<1>2. PICK e \in Into(n) : From(e) = p
  BY DEF Predecessors
<1>3. Cardinality(Into(n)) = 1
  BY <1>1, <1>2, FS_EmptySet
<1>4. PICK x : Into(n) = {x}
  BY <1>1, <1>3, FS_Singleton
<1> QED
  BY <1>2, <1>4 DEF Predecessors

\* In a graph that LangGraph accepts every edge leaves a node.
LEMMA EdgesLeaveNodes ==
    ASSUME graph \in Graphs, ~MissingBranch, LangGraphAccepts
    PROVE  FromNodes
<1> SUFFICES ASSUME NEW e \in Edges PROVE From(e) \in graph.nodes
  BY DEF FromNodes
<1>1. CASE From(e) \notin graph.ifs
  BY <1>1 DEF LangGraphAccepts, Wired
<1>2. CASE From(e) \in graph.ifs
  <2>1. From(e) \in Routers
    BY <1>2 DEF Routers, OutOf
  <2>2. Branch(From(e), "true") \in Wired
    BY <2>1 DEF Wired, Branches
  <2>3. From(Branch(From(e), "true")) = From(e)
    BY <2>1, BranchIsEdge DEF Branches, OutOf
  <2> QED
    BY <2>2, <2>3 DEF LangGraphAccepts
<1> QED
  BY <1>1, <1>2
-----------------------------------------------------------------------------
(* A super-step.                                                           *)

\* Its tasks trigger nodes they have an edge to, and all of them but for IFs.
LEMMA TargetsFollowTasks ==
    ASSUME graph \in Graphs, ~MissingBranch, LangGraphAccepts, Tasks \subseteq graph.nodes,
           NEW choice \in [Tasks \cap Routers -> Branches]
    PROVE  /\ Targets(choice) \subseteq graph.nodes
           /\ \A x \in Targets(choice) : \E p \in Tasks : x \in Successors(p)
           /\ \A p \in Tasks \ graph.ifs : Successors(p) \subseteq Targets(choice)
<1> DEFINE Plain == {w \in Wired : From(w) \in Tasks \ graph.ifs}
           Chosen == {Branch(n, choice[n]) : n \in Tasks \cap Routers}
<1>1. \A n \in Routers, label \in Branches : Branch(n, label) \in OutOf(n) \cap Wired
  BY BranchIsEdge DEF Wired
<1>2. Wired \subseteq Edges
  BY <1>1 DEF Wired, OutOf
<1>3. \A w \in Plain : w \in Wired /\ From(w) \in Tasks /\ w \in OutOf(From(w))
  BY <1>2 DEF OutOf
<1>4. \A w \in Chosen : w \in Wired /\ From(w) \in Tasks /\ w \in OutOf(From(w))
  BY <1>1 DEF OutOf
<1>5. \A w \in Plain \cup Chosen : To(w) \in graph.nodes /\ To(w) \in Successors(From(w))
  BY <1>3, <1>4 DEF LangGraphAccepts, Successors
<1>6. Targets(choice) = {To(w) : w \in Plain \cup Chosen}
  BY DEF Targets
<1>7. ASSUME NEW p \in Tasks \ graph.ifs PROVE Successors(p) \subseteq Targets(choice)
  <2>1. OutOf(p) \subseteq Plain
    BY DEF OutOf, Wired
  <2> QED
    BY <1>6, <2>1 DEF Successors
<1> HIDE DEF Plain, Chosen
<1> QED
  BY <1>3, <1>4, <1>5, <1>6, <1>7

\* X is what the tasks of a super-step trigger.
Triggers(X) ==
    /\ X \subseteq graph.nodes
    /\ \A x \in X : \E p \in Tasks : x \in Successors(p)
    /\ \A p \in Tasks \ graph.ifs : Successors(p) \subseteq X
    /\ pending' = X \ Joins
    /\ waiting' = (waiting \ Tasks) \cup (X \cap Joins)

LEMMA SuperstepTriggers ==
    ASSUME GraphInv, AcceptedInv, TokensInv, Superstep
    PROVE  /\ at = "running" /\ UNCHANGED checkVars
           /\ Tasks \subseteq graph.nodes
           /\ runs' \in [graph.nodes -> Nat] /\ Ran' = Ran \cup Tasks
           /\ \A n \in graph.nodes : runs'[n] > runs[n] => n \in Tasks
           /\ \E X : Triggers(X)
<1>1. at = "running" /\ UNCHANGED checkVars /\ graph' = graph
  BY DEF Superstep, checkVars
<1>2. Tasks \subseteq graph.nodes
  BY DEF TokensInv, Tasks, Joins
<1>3. /\ runs \in [graph.nodes -> Nat]
      /\ runs' = [n \in graph.nodes |->
                     IF n \in Tasks /\ runs[n] < 2 THEN runs[n] + 1 ELSE runs[n]]
  BY DEF TokensInv, Superstep
<1>4. runs' \in [graph.nodes -> Nat] /\ \A n \in graph.nodes : runs'[n] > runs[n] => n \in Tasks
  BY <1>3
<1>5. \A n \in graph.nodes : runs'[n] > 0 <=> (runs[n] > 0 \/ n \in Tasks)
  BY <1>3
<1>6. Ran' = Ran \cup Tasks
  BY <1>1, <1>2, <1>5 DEF Ran
<1>7. PICK choice \in [Tasks \cap Routers -> Branches] :
          /\ pending' = Targets(choice) \ Joins
          /\ waiting' = (waiting \ Tasks) \cup (Targets(choice) \cap Joins)
  BY DEF Superstep
<1>8. Triggers(Targets(choice))
  BY <1>1, <1>2, <1>7, TargetsFollowTasks DEF GraphInv, AcceptedInv, Triggers
<1> QED
  BY <1>1, <1>2, <1>4, <1>6, <1>8

\* The node that triggers one which is no fan-in is its only parent.
LEMMA OnlyTrigger ==
    ASSUME graph \in Graphs, NEW X, Triggers(X), Tasks \subseteq graph.nodes,
           NEW x \in X \ Joins
    PROVE  \E p \in Tasks : x \in Successors(p) /\ Predecessors(x) = {p}
<1>1. PICK p \in Tasks : x \in Successors(p)
  BY DEF Triggers
<1>2. p \in Predecessors(x) /\ x \in graph.nodes \ Joins
  BY <1>1 DEF Triggers, Successors, Predecessors, OutOf, Into
<1> QED
  BY <1>1, <1>2, OneParent

\* A child of a fan-in is no fan-in, and neither is that of a node below one.
LEMMA NoJoinBelowJoin ==
    ASSUME FlatJoins, NEW k \in Joins, NEW p, k = p \/ Precedes(k, p),
           NEW x \in graph.nodes, x \in Successors(p)
    PROVE  x \notin Joins /\ Precedes(k, x)
<1>1. Precedes(p, x)
  BY PrecedesStep
<1>2. Precedes(k, x)
  BY <1>1, PrecedesTrans
<1> QED
  BY <1>2 DEF FlatJoins

LEMMA TokensAfterSuperstep ==
    ASSUME GraphInv, AcceptedInv, TokensInv, Superstep
    PROVE  TokensInv'
<1>1. /\ at = "running" /\ graph' = graph /\ at' = at
      /\ runs' \in [graph.nodes -> Nat] /\ Ran' = Ran \cup Tasks
  BY SuperstepTriggers DEF checkVars
<1>2. PICK X : Triggers(X)
  BY SuperstepTriggers
<1>3. Joins' = Joins
  BY <1>1, RunGraphOnly
<1>4. pending' \subseteq graph.nodes \ Joins /\ waiting' \subseteq Joins
  BY <1>2 DEF Triggers, TokensInv
<1> QED
  BY <1>1, <1>3, <1>4 DEF TokensInv

\* While ordinary nodes run, fan-ins wait; then the fan-ins run, once.
LEMMA OrderAfterSuperstep ==
    ASSUME GraphInv, AcceptedInv, TokensInv, OrderInv, Superstep
    PROVE  OrderInv'
<1>1. /\ at = "running" /\ graph' = graph /\ at' = at /\ Tasks \subseteq graph.nodes
      /\ graph \in Graphs /\ Ran' = Ran \cup Tasks
  BY SuperstepTriggers DEF checkVars, GraphInv
<1>2. PICK X : Triggers(X)
  BY SuperstepTriggers
<1>3. Joins' = Joins /\ FlatJoins' = FlatJoins /\ \A n : Predecessors(n)' = Predecessors(n)
      /\ \A a, d : Precedes(a, d)' = Precedes(a, d)
  BY <1>1, RunGraphOnly, PathsStay
<1> SUFFICES ASSUME FlatJoins
             PROVE  /\ (pending' \cup waiting') \cap (Ran \cup Tasks) = {}
                    /\ \A n \in (Ran \cup Tasks \cup pending') \ Joins :
                          Predecessors(n) \subseteq Ran \cup Tasks
                    /\ (Ran \cup Tasks) \cap Joins # {} =>
                          /\ waiting' = {}
                          /\ \A p \in pending' : \E k \in Joins : Precedes(k, p)
  BY <1>1, <1>3 DEF OrderInv
<1>4. /\ (pending \cup waiting) \cap Ran = {}
      /\ \A n \in (Ran \cup pending) \ Joins : Predecessors(n) \subseteq Ran
      /\ Ran \cap Joins # {} =>
            waiting = {} /\ \A p \in pending : \E k \in Joins : Precedes(k, p)
      /\ pending \subseteq graph.nodes \ Joins /\ waiting \subseteq Joins
  BY <1>1 DEF OrderInv, TokensInv
<1>5. /\ pending' = X \ Joins /\ waiting' = (waiting \ Tasks) \cup (X \cap Joins)
      /\ X \subseteq graph.nodes
      /\ \A x \in X : \E p \in Tasks : x \in Successors(p)
  BY <1>2 DEF Triggers
<1>6. \A x \in X \ Joins : \E p \in Tasks : x \in Successors(p) /\ Predecessors(x) = {p}
  BY <1>1, <1>2, OnlyTrigger
<1>7. Tasks \cap Ran = {} /\ Tasks \subseteq pending \cup waiting /\ Tasks # {}
  BY <1>4 DEF Tasks, Superstep
<1>8. (X \ Joins) \cap (Ran \cup Tasks) = {}
  <2>1. ASSUME NEW x \in X \ Joins, x \in Ran \cup Tasks PROVE FALSE
    <3>1. PICK p \in Tasks : Predecessors(x) = {p}
      BY <1>6
    <3>2. x \in (Ran \cup pending) \ Joins
      BY <1>4, <1>7, <2>1
    <3> QED
      BY <1>4, <1>7, <3>1, <3>2
  <2> QED
    BY <2>1
<1>9. \A n \in (Ran \cup Tasks \cup pending') \ Joins : Predecessors(n) \subseteq Ran \cup Tasks
  BY <1>4, <1>5, <1>6, <1>7
<1>10. CASE (Ran \cup Tasks) \cap Joins # {}
  <2>1. \A p \in Tasks : \E k \in Joins : k = p \/ Precedes(k, p)
    <3>1. CASE pending # {}
      <4>1. Tasks = pending
        BY <3>1 DEF Tasks
      <4> QED
        BY <1>4, <1>10, <4>1
    <3>2. CASE pending = {}
      <4>1. Tasks = waiting
        BY <3>2 DEF Tasks
      <4> QED
        BY <1>4, <4>1
    <3> QED
      BY <3>1, <3>2
  <2>2. \A x \in X : x \notin Joins /\ \E k \in Joins : Precedes(k, x)
    <3> SUFFICES ASSUME NEW x \in X PROVE x \notin Joins /\ \E k \in Joins : Precedes(k, x)
      OBVIOUS
    <3>1. PICK p \in Tasks : x \in Successors(p)
      BY <1>5
    <3>2. PICK k \in Joins : k = p \/ Precedes(k, p)
      BY <2>1
    <3>3. x \in graph.nodes
      BY <1>5
    <3> QED
      BY <3>1, <3>2, <3>3, NoJoinBelowJoin
  <2>3. waiting \subseteq Tasks
    <3>1. CASE Ran \cap Joins # {}
      BY <1>4, <3>1
    <3>2. CASE Ran \cap Joins = {}
      BY <1>4, <1>10, <3>2 DEF Tasks
    <3> QED
      BY <3>1, <3>2
  <2> QED
    BY <1>5, <1>8, <1>9, <2>2, <2>3
<1>11. CASE (Ran \cup Tasks) \cap Joins = {}
  <2>1. (waiting' \cap (Ran \cup Tasks)) = {}
    BY <1>4, <1>5, <1>11
  <2> QED
    BY <1>5, <1>8, <1>9, <1>11, <2>1
<1> QED
  BY <1>10, <1>11

\* When a task runs, what no IF node decides about before it has run.
LEMMA BehindTasks ==
    ASSUME at = "running", FlatJoins, TokensInv, OutputsInv,
           NEW n \in Tasks, NEW a, Precedes(a, n), NoIf(a)
    PROVE  a \in Ran
<1>1. a \in graph.nodes
  BY PrecedesNodes
<1>2. CASE pending # {}
  BY <1>1, <1>2 DEF OutputsInv, Tasks
<1>3. CASE pending = {}
  <2>1. n \in Joins
    BY <1>3 DEF Tasks, TokensInv
  <2>2. a \notin Joins /\ \A k \in Joins : ~Precedes(k, a)
    BY <2>1, PrecedesTrans DEF FlatJoins
  <2> QED
    BY <1>1, <1>3, <2>2 DEF OutputsInv
<1> QED
  BY <1>2, <1>3

LEMMA OutputsAfterSuperstep ==
    ASSUME GraphInv, AcceptedInv, TokensInv, OrderInv, OutputsInv, Superstep
    PROVE  OutputsInv'
<1>1. /\ at = "running" /\ graph' = graph /\ at' = at /\ Tasks \subseteq graph.nodes
      /\ graph \in Graphs /\ Ran' = Ran \cup Tasks
  BY SuperstepTriggers DEF checkVars, GraphInv
<1>2. PICK X : Triggers(X)
  BY SuperstepTriggers
<1>3. /\ Joins' = Joins /\ FlatJoins' = FlatJoins /\ \A n : NoIf(n)' = NoIf(n)
      /\ \A a, d : Precedes(a, d)' = Precedes(a, d)
  BY <1>1, RunGraphOnly, PathsStay
<1> SUFFICES ASSUME FlatJoins
             PROVE  /\ \A n \in Ran \cup Tasks \cup pending' : \A a \in graph.nodes :
                          Precedes(a, n) /\ NoIf(a) => a \in Ran \cup Tasks
                    /\ \A n \in graph.nodes \ Joins :
                          NoIf(n) /\ (\A k \in Joins : ~Precedes(k, n)) =>
                              \/ n \in Ran \cup Tasks \cup pending'
                              \/ \E m \in pending' : Precedes(m, n)
  BY <1>1, <1>3 DEF OutputsInv
<1>4. /\ pending' = X \ Joins /\ X \subseteq graph.nodes
      /\ \A p \in Tasks \ graph.ifs : Successors(p) \subseteq X
  BY <1>2 DEF Triggers
<1>5. ASSUME NEW n \in Ran \cup Tasks \cup pending', NEW a \in graph.nodes,
             Precedes(a, n), NoIf(a)
      PROVE  a \in Ran \cup Tasks
  <2>1. CASE n \in Ran
    BY <1>1, <1>5, <2>1 DEF OutputsInv
  <2>2. CASE n \in Tasks
    BY <1>1, <1>5, <2>2, BehindTasks
  <2>3. CASE n \in pending'
    <3>1. PICK p \in Tasks : Predecessors(n) = {p}
      BY <1>1, <1>2, <1>4, <2>3, OnlyTrigger
    <3>2. a = p \/ Precedes(a, p)
      BY <1>5, <3>1, PrecedesLast
    <3> QED
      BY <1>1, <1>5, <3>2, BehindTasks
  <2> QED
    BY <1>5, <2>1, <2>2, <2>3
<1>6. ASSUME NEW n \in graph.nodes \ Joins, NoIf(n), \A k \in Joins : ~Precedes(k, n)
      PROVE  \/ n \in Ran \cup Tasks \cup pending'
             \/ \E m \in pending' : Precedes(m, n)
  <2>1. n \in Ran \cup pending \/ \E m \in pending : Precedes(m, n)
    BY <1>1, <1>6 DEF OutputsInv
  <2>2. pending \subseteq Tasks
    BY DEF Tasks
  <2>3. ASSUME NEW m \in pending, Precedes(m, n)
        PROVE  n \in pending' \/ \E k \in pending' : Precedes(k, n)
    <3>1. PICK k \in Successors(m) \cap graph.nodes : k = n \/ Precedes(k, n)
      BY <2>3, PrecedesFirst
    <3>2. m \in Tasks \ graph.ifs
      BY <1>6, <2>2, <2>3 DEF NoIf
    <3>3. k \in X \ Joins
      BY <1>4, <1>6, <3>1, <3>2
    <3> QED
      BY <1>4, <3>1, <3>3
  <2> QED
    BY <2>1, <2>2, <2>3
<1> QED
  BY <1>5, <1>6

\* The graph starts with its entries, and every node comes after one.
LEMMA RunAfterBuild ==
    ASSUME CheckInv, RunInv, Build
    PROVE  TokensInv' /\ OrderInv' /\ OutputsInv'
<1>1. /\ at = "valid" /\ graph' = graph /\ graph \in Graphs /\ runs' = runs /\ waiting' = waiting
      /\ at' \in {"if_missing", "langgraph_rejects", "running"}
      /\ pending' = IF at' = "running" THEN EntryNodes ELSE {}
      /\ at' = "running" => ~MissingBranch /\ LangGraphAccepts
  BY DEF Build, CheckInv, GraphInv
<1>2. waiting = {} /\ Ran = {} /\ runs \in [graph.nodes -> Nat]
  BY <1>1 DEF RunInv, TokensInv
<1>3. /\ Joins' = Joins /\ FlatJoins' = FlatJoins /\ Ran' = Ran
      /\ \A n : NoIf(n)' = NoIf(n) /\ Predecessors(n)' = Predecessors(n)
      /\ \A a, d : Precedes(a, d)' = Precedes(a, d)
  BY <1>1, RunGraphOnly, PathsStay DEF Ran
<1>4. \A n \in EntryNodes :
          n \notin Joins /\ n \in graph.nodes /\ Predecessors(n) = {} /\ \A a : ~Precedes(a, n)
  BY EntriesAreFirst DEF EntryNodes
<1>5. TokensInv'
  BY <1>1, <1>2, <1>3, <1>4 DEF TokensInv
<1>6. OrderInv'
  BY <1>1, <1>2, <1>3, <1>4 DEF OrderInv
<1>7. OutputsInv'
  <2> SUFFICES ASSUME at' = "running", NEW n \in graph.nodes
               PROVE  n \in EntryNodes \/ \E m \in EntryNodes : Precedes(m, n)
    BY <1>1, <1>2, <1>3, <1>4 DEF OutputsInv
  <2>1. FromNodes
    BY <1>1, EdgesLeaveNodes
  <2>2. issues = {}
    BY <1>1 DEF RunInv, AcceptedInv
  <2>3. n \in reachable
    BY <1>1, <2>2 DEF RunInv, RootedInv
  <2>4. Rooted(n)
    BY <1>1, <2>1, <2>3 DEF RunInv, RootedInv
  <2> QED
    BY <2>4 DEF Rooted
<1> QED
  BY <1>5, <1>6, <1>7
-----------------------------------------------------------------------------
(* Every step.                                                             *)

LEMMA RootedStep == CheckInv /\ RunInv /\ [RunNext]_allVars => RootedInv'
<1> SUFFICES ASSUME CheckInv, RunInv, [RunNext]_allVars PROVE RootedInv'
  OBVIOUS
<1>1. RootedInv
  BY DEF RunInv
<1>2. ASSUME graph' = graph, reachable' = reachable, issues \subseteq issues',
             at' # "reach", at' = "kahn" \/ at \notin {"topology", "no_entry", "kahn", "reach"}
      PROVE  RootedInv'
  <2>1. FromNodes' = FromNodes /\ \A n : Rooted(n)' = Rooted(n)
    BY <1>2, RunGraphOnly
  <2> QED
    BY <1>1, <1>2, <2>1 DEF RootedInv
<1>3. CASE Check
  <2>1. CASE NoEntry
    BY <2>1 DEF NoEntry, RootedInv
  <2>2. CASE Analyze
    BY <2>2 DEF Analyze, RootedInv
  <2>3. CASE \E n \in queue : Drain(n)
    BY <2>3 DEF Drain, RootedInv
  <2>4. CASE Drained
    <3>1. at' = "reach" /\ reachable' = EntryNodes /\ queue' = EntryNodes /\ graph' = graph
      BY <2>4 DEF Drained
    <3>2. \A n : Rooted(n)' = Rooted(n)
      BY <3>1, RunGraphOnly
    <3> QED
      BY <3>1, <3>2 DEF RootedInv, Rooted
  <2>5. ASSUME NEW n \in queue, Walk(n) PROVE RootedInv'
    <3> DEFINE fresh == {To(e) : e \in OutOf(n)} \ reachable
    <3>1. /\ at = "reach" /\ at' = "reach" /\ graph' = graph
          /\ reachable' = reachable \cup fresh /\ queue' = (queue \ {n}) \cup fresh
      BY <2>5 DEF Walk
    <3>2. FromNodes' = FromNodes /\ \A m : Rooted(m)' = Rooted(m)
      BY <3>1, RunGraphOnly
    <3>3. n \in reachable /\ queue \subseteq reachable
      BY <1>1, <2>5, <3>1 DEF RootedInv
    <3>4. ASSUME FromNodes, NEW m \in fresh \cap graph.nodes PROVE Rooted(m)
      <4>1. n \in graph.nodes /\ m \in Successors(n)
        BY <3>4 DEF FromNodes, OutOf, Successors
      <4>2. Precedes(n, m)
        BY <4>1, PrecedesStep
      <4>3. Rooted(n)
        BY <1>1, <3>1, <3>3, <3>4, <4>1 DEF RootedInv
      <4> QED
        BY <4>2, <4>3, PrecedesTrans DEF Rooted
    <3> HIDE DEF fresh
    <3> QED
      BY <1>1, <3>1, <3>2, <3>3, <3>4 DEF RootedInv
  <2>6. CASE Walked
    <3>1. /\ at = "reach" /\ at' = "bindings" /\ graph' = graph /\ reachable' = reachable
          /\ issues' = {} => graph.nodes \subseteq reachable
      BY <2>6 DEF Walked
    <3>2. FromNodes' = FromNodes /\ \A m : Rooted(m)' = Rooted(m)
      BY <3>1, RunGraphOnly
    <3> QED
      BY <1>1, <3>1, <3>2 DEF RootedInv
  <2>7. CASE SortAncestors \/ CheckRef \/ Verdict
             \/ (\E n \in queue : VisitAncestor(n) \/ PlaceAncestor(n))
             \/ \E r \in graph.refs : SourceMissing(r) \/ ComputeAncestors(r)
    BY <1>2, <2>7 DEF SortAncestors, CheckRef, Verdict, VisitAncestor, PlaceAncestor,
                      SourceMissing, ComputeAncestors
  <2> QED
    BY <1>3, <2>1, <2>2, <2>3, <2>4, <2>5, <2>6, <2>7 DEF Check
<1>4. CASE Build \/ Superstep \/ Ended
  BY <1>2, <1>4 DEF Build, Superstep, Ended, checkVars
<1>5. CASE UNCHANGED allVars
  <2>1. UNCHANGED checkVars
    BY <1>5 DEF allVars
  <2>2. FromNodes' = FromNodes /\ \A m : Rooted(m)' = Rooted(m)
    BY <2>1, RunGraphOnly DEF checkVars
  <2> QED
    BY <1>1, <2>1, <2>2 DEF RootedInv, checkVars
<1> QED
  BY <1>3, <1>4, <1>5 DEF RunNext

\* The checks never touch what the compiler has built.
LEMMA ChecksBuildNothing ==
    ASSUME Check
    PROVE  /\ graph' = graph
           /\ at \notin {"valid", "if_missing", "langgraph_rejects", "running", "ended"}
           /\ at' \notin {"if_missing", "langgraph_rejects", "running", "ended"}
BY DEF Check, NoEntry, Analyze, Drained, Walked, SortAncestors, CheckRef, Verdict, Drain, Walk,
       VisitAncestor, PlaceAncestor, SourceMissing, ComputeAncestors

\* Building and running a graph unchecks nothing.
LEMMA ChecksStand == CheckInv /\ RefsInv /\ [RunNext]_allVars => CheckInv' /\ RefsInv'
<1> SUFFICES ASSUME CheckInv, RefsInv, [RunNext]_allVars PROVE CheckInv' /\ RefsInv'
  OBVIOUS
<1>1. CASE [Check]_checkVars
  BY <1>1, GraphStays, KahnStays, CycleStays, WalkReach, UnreachableStays,
     AncestorsStep, SortStep, CheckedStep, BlameStep DEF CheckInv, RefsInv
<1>2. CASE Build \/ Ended
  <2>1. /\ graph' = graph /\ issues' = issues /\ queue' = queue /\ visited' = visited
        /\ indeg' = indeg /\ drained' = drained /\ reachable' = reachable /\ checked' = checked
        /\ at \in {"valid", "running"} /\ at' \in {"if_missing", "langgraph_rejects", "running", "ended"}
    BY <1>2 DEF Build, Ended, runVars
  <2>2. /\ Edges' = Edges /\ Closed' = Closed /\ Acyclic' = Acyclic /\ Orphans' = Orphans
        /\ \A e : From(e)' = From(e) /\ To(e)' = To(e)
        /\ \A a, d : Precedes(a, d)' = Precedes(a, d)
        /\ \A code : Reported(code)' = Reported(code)
    BY <2>1, GraphOnly, PathsStay DEF Reported
  <2>3. CheckInv'
    BY <2>1, <2>2
    DEF CheckInv, GraphInv, FreshInv, KahnInv, CycleExact, ReachInv, UnreachableExact
  <2>4. RefsInv'
    BY <2>1, <2>2 DEF RefsInv, AncestorsInv, SortInv, CheckedInv, BlameInv
  <2> QED
    BY <2>3, <2>4
<1> QED
  BY <1>1, <1>2 DEF RunNext, Superstep, allVars

LEMMA AcceptedStep == RefsInv /\ RunInv /\ [RunNext]_allVars => AcceptedInv'
<1> SUFFICES ASSUME RefsInv, RunInv, [RunNext]_allVars PROVE AcceptedInv'
  OBVIOUS
<1>1. AcceptedInv
  BY DEF RunInv
<1>2. CASE Check
  <2>1. CASE Verdict
    BY <2>1 DEF Verdict, AcceptedInv
  <2>2. CASE ~Verdict
    <3>1. at' # "valid"
      BY <1>2, <2>2 DEF Check, NoEntry, Analyze, Drained, Walked, SortAncestors, CheckRef, Drain,
         Walk, VisitAncestor, PlaceAncestor, SourceMissing, ComputeAncestors
    <3> QED
      BY <1>2, <3>1, ChecksBuildNothing DEF AcceptedInv
  <2> QED
    BY <2>1, <2>2
<1>3. ASSUME graph' = graph, issues' = issues, checked' = checked,
             at \in {"valid", "if_missing", "langgraph_rejects", "running", "ended"}
                 \/ at' = at,
             at' = "running" => at = "running" \/ (~MissingBranch /\ LangGraphAccepts)
      PROVE  AcceptedInv'
  <2>1. MissingBranch' = MissingBranch /\ LangGraphAccepts' = LangGraphAccepts
    BY <1>3, RunGraphOnly
  <2> QED
    BY <1>1, <1>3, <2>1 DEF AcceptedInv
<1>4. CASE Build
  BY <1>3, <1>4 DEF Build
<1>5. CASE Superstep \/ Ended \/ UNCHANGED allVars
  BY <1>3, <1>5 DEF Superstep, Ended, allVars, checkVars
<1> QED
  BY <1>2, <1>4, <1>5 DEF RunNext

LEMMA OnTheWayStep ==
    CheckInv /\ RunInv /\ [RunNext]_allVars => TokensInv' /\ OrderInv' /\ OutputsInv'
<1> SUFFICES ASSUME CheckInv, RunInv, [RunNext]_allVars
             PROVE  TokensInv' /\ OrderInv' /\ OutputsInv'
  OBVIOUS
<1>1. CASE Check /\ UNCHANGED runVars
  <2>1. /\ graph' = graph /\ pending' = pending /\ waiting' = waiting /\ runs' = runs
        /\ at \notin {"running", "ended"} /\ at' \notin {"running", "ended"}
    BY <1>1, ChecksBuildNothing DEF runVars
  <2>2. Joins' = Joins /\ Ran' = Ran
    BY <2>1, RunGraphOnly DEF Ran
  <2> QED
    BY <2>1, <2>2 DEF RunInv, TokensInv, OrderInv, OutputsInv
<1>2. CASE Build
  BY <1>2, RunAfterBuild
<1>3. CASE Superstep
  BY <1>3, TokensAfterSuperstep, OrderAfterSuperstep, OutputsAfterSuperstep DEF CheckInv, RunInv
<1>4. CASE Ended \/ UNCHANGED allVars
  <2>1. /\ graph' = graph /\ pending' = pending /\ waiting' = waiting /\ runs' = runs
        /\ at' = at \/ (at = "running" /\ at' = "ended")
    BY <1>4 DEF Ended, allVars, checkVars, runVars
  <2>2. /\ Joins' = Joins /\ FlatJoins' = FlatJoins /\ Ran' = Ran
        /\ \A n : NoIf(n)' = NoIf(n) /\ Predecessors(n)' = Predecessors(n)
        /\ \A a, d : Precedes(a, d)' = Precedes(a, d)
    BY <2>1, RunGraphOnly, PathsStay DEF Ran
  <2> QED
    BY <2>1, <2>2 DEF RunInv, TokensInv, OrderInv, OutputsInv
<1> QED
  BY <1>1, <1>2, <1>3, <1>4 DEF RunNext

\* The checks keep their invariants while the graph is built and runs, and the
\* run keeps its own.
THEOREM RunInvariance == RunSpec => [](CheckInv /\ RefsInv /\ RunInv)
<1> DEFINE Inv == CheckInv /\ RefsInv /\ RunInv
<1>1. RunInit => Inv
  <2> SUFFICES ASSUME RunInit PROVE Inv
    OBVIOUS
  <2>1. CheckInv
    BY InitCheck DEF RunInit
  <2>2. RefsInv
    BY DEF RunInit, Init, RefsInv, AncestorsInv, SortInv, CheckedInv, BlameInv, Reported
  <2>3. RunInv
    BY DEF RunInit, Init, RunInv, RootedInv, AcceptedInv, TokensInv, OrderInv, OutputsInv, Ran
  <2> QED
    BY <2>1, <2>2, <2>3
<1>2. Inv /\ [RunNext]_allVars => Inv'
  <2>1. Inv /\ [RunNext]_allVars => RunInv'
    BY RootedStep, AcceptedStep, OnTheWayStep DEF RunInv
  <2> QED
    BY <2>1, ChecksStand
<1> QED
  BY <1>1, <1>2, PTL DEF RunSpec

\* compiler.ts on fan-ins: in a graph whose fan-ins are not nested, no node
\* runs twice, and none when one it feeds already ran or runs beside it.
THEOREM FanInsWaitForParents == RunSpec => RunsOnceAfterParents
<1> DEFINE Once ==
        at = "running" /\ FlatJoins =>
            \A n \in graph.nodes : runs'[n] > runs[n] =>
                /\ runs[n] = 0
                /\ \A m \in Successors(n) \cap graph.nodes : runs'[m] = 0
<1>1. ASSUME CheckInv, RunInv, [RunNext]_allVars PROVE [Once]_allVars
  <2> SUFFICES ASSUME at = "running", FlatJoins, NEW n \in graph.nodes, runs'[n] > runs[n]
               PROVE  /\ runs[n] = 0
                      /\ \A m \in Successors(n) \cap graph.nodes : runs'[m] = 0
    OBVIOUS
  <2>1. runs \in [graph.nodes -> Nat] /\ GraphInv /\ AcceptedInv /\ TokensInv /\ OrderInv
    BY <1>1 DEF CheckInv, RunInv, TokensInv
  <2>2. runs' # runs
    BY <2>1
  <2>3. Superstep
    BY <1>1, <2>2, ChecksBuildNothing DEF RunNext, Build, Ended, runVars, allVars
  <2>4. /\ n \in Tasks /\ Tasks \subseteq graph.nodes /\ graph' = graph
        /\ runs' \in [graph.nodes -> Nat] /\ Ran' = Ran \cup Tasks
    BY <2>1, <2>3, SuperstepTriggers DEF checkVars
  <2>5. /\ (pending \cup waiting) \cap Ran = {}
        /\ \A m \in (Ran \cup pending) \ Joins : Predecessors(m) \subseteq Ran
        /\ Ran \cap Joins # {} =>
              waiting = {} /\ \A p \in pending : \E k \in Joins : Precedes(k, p)
        /\ pending \subseteq graph.nodes \ Joins /\ waiting \subseteq Joins
        /\ Tasks = IF pending # {} THEN pending ELSE waiting
    BY <2>1 DEF OrderInv, TokensInv, Tasks
  <2>6. n \notin Ran
    BY <2>4, <2>5
  <2>7. ASSUME NEW m \in Successors(n) \cap graph.nodes, m \in Ran \cup Tasks PROVE FALSE
    <3>1. n \in Predecessors(m) /\ Precedes(n, m)
      BY <2>7, PrecedesStep DEF Successors, Predecessors, OutOf, Into
    <3>2. CASE m \notin Joins
      BY <2>5, <2>6, <2>7, <3>1, <3>2
    <3>3. CASE m \in Joins /\ n \in pending
      <4>1. Ran \cap Joins # {}
        BY <2>5, <2>7, <3>3
      <4>2. PICK k \in Joins : Precedes(k, n)
        BY <2>5, <3>3, <4>1
      <4> QED
        BY <2>7, <3>3, <4>2, NoJoinBelowJoin
    <3>4. CASE m \in Joins /\ n \in waiting
      BY <2>5, <3>1, <3>4 DEF FlatJoins
    <3> QED
      BY <2>4, <2>5, <3>2, <3>3, <3>4
  <2>8. \A m \in Successors(n) \cap graph.nodes : m \notin Ran'
    BY <2>4, <2>7
  <2>9. runs[n] = 0 /\ \A m \in Successors(n) \cap graph.nodes : runs'[m] = 0
    BY <2>1, <2>4, <2>6, <2>8 DEF Ran
  <2> QED
    BY <2>9
<1> QED
  BY <1>1, RunInvariance, PTL DEF RunSpec, RunsOnceAfterParents

\* What validateGraph's reference checks buy: a node that runs finds the
\* outputs it reads, unless an IF node stands before the one that writes them.
THEOREM OutputsAreThere == RunSpec => ReadersFindOutputs
<1> DEFINE Found ==
        at = "running" /\ FlatJoins =>
            \A r \in graph.refs : runs'[r.reader] > runs[r.reader] =>
                runs[r.source] > 0 \/ \E i \in graph.ifs : Precedes(i, r.source)
<1>1. ASSUME CheckInv, RefsInv, RunInv, [RunNext]_allVars PROVE [Found]_allVars
  <2> SUFFICES ASSUME at = "running", FlatJoins, NEW r \in graph.refs,
                      runs'[r.reader] > runs[r.reader]
               PROVE  runs[r.source] > 0 \/ \E i \in graph.ifs : Precedes(i, r.source)
    OBVIOUS
  <2>1. /\ runs \in [graph.nodes -> Nat] /\ GraphInv /\ AcceptedInv /\ TokensInv /\ OutputsInv
        /\ r.reader \in graph.nodes
    BY <1>1, GraphAssumption DEF CheckInv, GraphInv, RunInv, TokensInv
  <2>2. runs' # runs
    BY <2>1
  <2>3. Superstep
    BY <1>1, <2>2, ChecksBuildNothing DEF RunNext, Build, Ended, runVars, allVars
  <2>4. r.reader \in Tasks
    BY <2>1, <2>3, SuperstepTriggers
  <2>5. Precedes(r.source, r.reader)
    BY <1>1, <2>1 DEF AcceptedInv, RefsInv, CheckedInv
  <2>6. NoIf(r.source) => r.source \in Ran
    BY <2>1, <2>4, <2>5, BehindTasks
  <2> QED
    BY <2>6 DEF NoIf, Ran
<1> QED
  BY <1>1, RunInvariance, PTL DEF RunSpec, ReadersFindOutputs

\* What the checks keep is of its type, throughout the run: ids of the graph,
\* in-degrees that are numbers.
LEMMA GraphTypeStep ==
    CheckInv /\ RefsInv /\ GraphTypeOK /\ [RunNext]_allVars => GraphTypeOK'
<1> SUFFICES ASSUME CheckInv, RefsInv, GraphTypeOK, [RunNext]_allVars PROVE GraphTypeOK'
  OBVIOUS
<1>1. graph' = graph /\ graph \in Graphs
  BY ChecksBuildNothing DEF CheckInv, GraphInv, RunNext, Build, Superstep, Ended, checkVars, allVars
<1>2. Known' = Known /\ Ids' = Ids
  BY <1>1 DEF Known, Ids, Edges, From, To
<1>3. /\ Known \subseteq Ids /\ EntryNodes \subseteq Known
      /\ \A n : Predecessors(n) \subseteq Ids /\ {To(e) : e \in OutOf(n)} \subseteq Known
  BY DEF Known, Ids, EntryNodes, Predecessors, Into, OutOf
<1>4. \A n, S : S \subseteq Into(n) => Cardinality(S) \in Nat
  BY <1>1, FiniteEdges, FS_CardinalityType
<1>5. ASSUME NEW n, \A m \in DOMAIN indeg : indeg[m] \in Int
      PROVE  /\ DOMAIN Less(indeg, n) = DOMAIN indeg
             /\ \A m \in DOMAIN indeg : Less(indeg, n)[m] \in Int
  <2>1. \A m : Cardinality(Between(n, m)) \in Nat
    BY <1>4 DEF Between
  <2> QED
    BY <1>5, <2>1 DEF Less
<1> USE <1>1, <1>2 DEF GraphTypeOK
<1>6. CASE NoEntry \/ Drained \/ Walked \/ Verdict
  BY <1>3, <1>6 DEF NoEntry, Drained, Walked, Verdict
<1>7. CASE Analyze
  <2>1. /\ at' = "kahn" /\ indeg' = [n \in Known |-> Cardinality(Into(n))] /\ queue' \subseteq Known
        /\ UNCHANGED <<visited, drained, reachable, ref, checked, ancestors>>
    BY <1>7 DEF Analyze
  <2>2. \A n \in Known : indeg'[n] \in Int
    BY <1>4, <2>1
  <2> QED
    BY <1>3, <2>1, <2>2
<1>8. ASSUME NEW n \in queue, Drain(n) PROVE GraphTypeOK'
  <2>1. /\ at' = at /\ indeg' = Less(indeg, n) /\ queue' \subseteq queue \cup Known
        /\ visited' = visited + 1 /\ drained' = drained \cup {n}
        /\ UNCHANGED <<reachable, ref, checked, ancestors>>
    BY <1>8 DEF Drain, Freed
  <2>2. n \in Known
    BY <1>8 DEF Drain, CheckInv, KahnInv
  <2>3. DOMAIN indeg' = DOMAIN indeg /\ \A m \in DOMAIN indeg : indeg'[m] \in Int
    BY <1>5, <2>1
  <2> QED
    BY <1>3, <2>1, <2>2, <2>3
<1>9. CASE \E n \in queue : Walk(n) \/ VisitAncestor(n)
  BY <1>3, <1>9 DEF Walk, VisitAncestor
<1>10. ASSUME NEW n \in queue, PlaceAncestor(n) PROVE GraphTypeOK'
  <2>1. /\ at' = at /\ (indeg' = Less(indeg, n) \/ indeg' = indeg)
        /\ queue' \subseteq queue \cup ancestors
        /\ UNCHANGED <<visited, drained, reachable, ref, checked, ancestors>>
    BY <1>10 DEF PlaceAncestor, ReadyAfter
  <2>2. DOMAIN indeg' = DOMAIN indeg /\ \A m \in DOMAIN indeg : indeg'[m] \in Int
    BY <1>5, <2>1
  <2> QED
    BY <2>1, <2>2
<1>11. CASE SortAncestors
  <2>1. /\ at' = "sort" /\ queue' \subseteq ancestors
        /\ indeg' = [a \in ancestors |->
                        Cardinality({e \in Into(a) : From(e) \in ancestors \cap graph.nodes})]
        /\ UNCHANGED <<visited, drained, reachable, ref, checked, ancestors>>
    BY <1>11 DEF SortAncestors
  <2>2. \A a \in ancestors : indeg'[a] \in Int
    BY <1>4, <2>1
  <2> QED
    BY <2>1, <2>2
<1>12. ASSUME NEW r \in graph.refs, SourceMissing(r) \/ ComputeAncestors(r) PROVE GraphTypeOK'
  BY <1>3, <1>12 DEF SourceMissing, ComputeAncestors
<1>13. CASE CheckRef
  BY <1>13 DEF CheckRef, RefsInv, AncestorsInv
<1>14. CASE Build \/ Superstep \/ Ended \/ UNCHANGED allVars
  BY <1>14 DEF Build, Superstep, Ended, allVars, checkVars, runVars
<1> QED
  BY <1>6, <1>7, <1>8, <1>9, <1>10, <1>11, <1>12, <1>13, <1>14 DEF RunNext, Check

\* The state of the checks is what the declarations say.
THEOREM TypeCorrect == RunSpec => []GraphTypeOK
<1>1. RunInit => GraphTypeOK
  BY DEF RunInit, Init, GraphTypeOK
<1> QED
  BY <1>1, GraphTypeStep, RunInvariance, PTL DEF RunSpec
=============================================================================
