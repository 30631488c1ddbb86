----------------------------- MODULE MCPlanner -----------------------------
(***************************************************************************)
(* Instances of Planner for TLC.  m and n are mcp keys: m is in every      *)
(* catalog, n only in some; s is a static key.                             *)
(***************************************************************************)
EXTENDS Planner

CONSTANTS x, y, s, m, n

Node(id, key) == [id |-> id, key |-> key]
Draft(nodes, edges, flaws) == [nodes |-> nodes, edges |-> edges, flaws |-> flaws]

\* A sound draft, drafts that need one or two MCP tools, a repeated short id,
\* an edge to nowhere, and a graph-level defect beside a missing tool.
SmallAnswers ==
    {Draft(<<Node(x, s)>>, {}, {}),
     Draft(<<Node(x, m)>>, {}, {}),
     Draft(<<Node(x, m), Node(y, n)>>, {<<x, y>>}, {}),
     Draft(<<Node(x, n), Node(x, s)>>, {}, {}),
     Draft(<<Node(y, s)>>, {<<y, x>>}, {}),
     Draft(<<Node(x, n), Node(y, s)>>, {}, {y})}

SmallOffers == {{m}, {m, n}}
=============================================================================
