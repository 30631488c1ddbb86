------------------------------ MODULE MCGraph -------------------------------
(***************************************************************************)
(* Instances of GraphRun for TLC: families of small graphs.                *)
(***************************************************************************)
EXTENDS GraphRun, SequencesExt

\* A row of the edge table out of a pair of ids.
Row(pair, label) == [from |-> pair[1], to |-> pair[2], label |-> label]
Plain(pairs) == [e \in DOMAIN pairs |-> Row(pairs[e], None)]

\* Pairs of ids in one order: only the order of the edges of an IF node counts.
Before(p, q) == p[1] < q[1] \/ (p[1] = q[1] /\ p[2] <= q[2])
Tables(ids, n) ==
    {s \in UNION {[1..k -> ids \X ids] : k \in 0..n} :
        \A i \in 1..(Len(s) - 1) : Before(s[i], s[i + 1])}

\* At most one binding, of a node of the graph.
AtMostOneRef(nodes, ids) == {{}} \cup {{[reader |-> n, source |-> m]} : n \in nodes, m \in ids}

\* Any three edges between three ids, not all of which need be nodes: cycles,
\* self-loops, duplicates, dangling ends, islands.
Multigraphs ==
    UNION {{[nodes |-> 1..k, edges |-> Plain(s), ifs |-> {}, refs |-> r] :
               s \in Tables(1..3, 3), r \in AtMostOneRef(1..k, 1..3)} : k \in 1..3}

\* The pairs of ids that point forward, as a table.
ForwardPairs == <<<<1, 2>>, <<1, 3>>, <<1, 4>>, <<2, 3>>, <<2, 4>>, <<3, 4>>>>
Forward == ToSet(ForwardPairs)
ForwardTable(S) == SelectSeq(ForwardPairs, LAMBDA p : p \in S)

\* Every acyclic graph of four nodes, with any forward binding.
Dags ==
    {[nodes |-> 1..4, edges |-> Plain(ForwardTable(S)), ifs |-> {}, refs |-> r] :
        S \in SUBSET Forward, r \in {{}} \cup {{[reader |-> p[2], source |-> p[1]]} : p \in Forward}}

\* The same with the first or the second node an IF, its edges labelled anyhow.
Branching ==
    UNION {{[nodes |-> 1..4, ifs |-> {i}, refs |-> r,
             edges |-> LET table == ForwardTable(S)
                       IN  [e \in DOMAIN table |->
                               Row(table[e], IF table[e][1] = i THEN l[table[e][2]] ELSE None)]] :
               S \in SUBSET Forward, l \in [(i + 1)..4 -> {"true", "false", "other"}],
               r \in {{}, {[reader |-> 4, source |-> i]}, {[reader |-> 4, source |-> 3]}}} :
           i \in {1, 2}}

AllGraphs == Multigraphs \cup Dags \cup Branching
=============================================================================
