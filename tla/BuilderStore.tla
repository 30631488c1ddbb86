---------------------------- MODULE BuilderStore ----------------------------
(***************************************************************************)
(* The builder store of the React kit (packages/react), as BuilderCanvas   *)
(* and the host edit it: nodes, edges, the targets of the start and end    *)
(* markers, the selection and the dirty flag; with the host that loads     *)
(* drafts into it and saves toDraft() in the background (the playground).  *)
(*                                                                         *)
(* Every store action is one set(), so steps do not overlap; what overlaps *)
(* are saves with one another and with the edits made meanwhile.  Labels   *)
(* of nodes, positions, name and description are left out: writing one     *)
(* only counts as an edit.  A binding is the node it reads and how its     *)
(* path goes on after outputs.<id>; literals are left out.  So is the      *)
(* draft's id: of two saves, each may overwrite the other's pipeline.      *)
(***************************************************************************)
EXTENDS Integers, FiniteSets

CONSTANTS
    Ids,       \* ids of nodes
    Longer,    \* pairs of ids of which the first is a prefix of the second
    EdgeIds,   \* ids of edges
    Labels,    \* labels the canvas gives a connection, "null" for none
    Slots,     \* input slots of a node
    Drafts,    \* drafts the host may load: [nodes, edges, inputs]
    Saves,     \* bound: saves under way at a time
    MaxBound,  \* bound: state bindings made in the builder
    MaxMarked, \* bound: marker edges drawn in the builder
    None

START == "__start__"
END   == "__end__"
Rests == {"", ".x", "[0]"}  \* outputs.<id>, outputs.<id>.x, outputs.<id>[0]

\* A draft's edge may also come without a label.
Edge    == [id : EdgeIds, from : Ids, to : Ids, label : Labels \cup {"undefined"}]
Binding == [reads : Ids, rest : Rests]

\* Ids are strings the host and the canvas generate (UUIDs).
ASSUME IdsAssumption ==
    /\ Ids \cap {START, END, None} = {} /\ None \notin {START, END} \cup Binding
    /\ Longer \subseteq Ids \X Ids /\ \A i \in Ids : <<i, i>> \notin Longer

\* Nobody has validated a draft: its edges may be loops or twins, and edges and
\* bindings may name nodes it does not have.  Ids are distinct.
ASSUME DraftsAssumption ==
    \A d \in Drafts :
        /\ d.nodes \subseteq Ids /\ d.edges \subseteq Edge
        /\ d.inputs \in [Ids -> [Slots -> Binding \cup {None}]]
        /\ \A e, f \in d.edges : e.id = f.id => e = f
        /\ \A i \in Ids \ d.nodes, p \in Slots : d.inputs[i][p] = None

VARIABLES
    nodes,        \* ids of the nodes
    inputs,       \* inputs[i][p]: the binding of slot p of node i, or None
    edges,        \* the edges
    startTargets, \* nodes an edge from the start marker points to
    endSources,   \* nodes an edge to the end marker comes from
    selected,     \* selectedNodeId
    dirty,        \* the flag
    save,         \* save[s]: where a save() of the host is
    brought,      \* history: what dangled in the draft last loaded
    fresh,        \* history: saves of what toDraft() still answers, posted with
                  \* none of another draft under way
    kept,         \* history: the server surely holds what toDraft() answers
    disturbed     \* history: the flag went down on a save that settled nothing

graph  == <<nodes, inputs, edges>>
marked == <<startTargets, endSources>>
hosted == <<save, disturbed>>
clean  == <<dirty, kept, fresh, hosted>>
vars   == <<graph, marked, selected, dirty, save, brought, fresh, kept, disturbed>>

Empty == [i \in Ids |-> [p \in Slots |-> None]]

Init ==
    /\ nodes = {} /\ edges = {} /\ inputs = Empty
    /\ startTargets = {} /\ endSources = {}
    /\ selected = None
    /\ dirty = FALSE
    /\ save = [s \in Saves |-> "none"]
    /\ brought = [edges |-> {}, reads |-> {}]
    /\ fresh = {} /\ kept = TRUE /\ disturbed = FALSE

\* An action that marks the graph dirty; `changed`, for the history: what
\* toDraft() answers is another draft now.
Dirties(changed) ==
    /\ dirty' = TRUE
    /\ kept' = (kept /\ ~changed)
    /\ fresh' = IF changed THEN {} ELSE fresh
    /\ UNCHANGED hosted

\* Saves the server may still carry out; nobody awaits the answer of a lost one.
Pending == {s \in Saves : save[s] \in {"posted", "lost"}}

\* Those that may put another draft in the place of this one.
Rivals == Pending \ fresh

-----------------------------------------------------------------------------
(* Drafts.                                                                 *)

deriveEntryExit(ns, es) ==
    /\ startTargets' = {n \in ns : \A e \in es : e.to # n}
    /\ endSources' = {n \in ns : \A e \in es : e.from # n}

\* References to nodes that are not there.
DanglingEdges == {e \in edges : ~({e.from, e.to} \subseteq nodes)}
DanglingReads ==
    {s \in nodes \X Slots :
        LET b == inputs[s[1]][s[2]]
        IN  b # None /\ b.rest # "[0]" /\ b.reads \notin nodes}

\* The store's content is replaced; if `unsaved`, by the host's word, it is not
\* what the server holds.  A save under way is one of the draft before.
Replace(unsaved) ==
    /\ selected' = None
    /\ dirty' = unsaved
    /\ kept' = ~unsaved
    /\ UNCHANGED save
    /\ fresh' = {} /\ disturbed' = (Pending # {})
    /\ brought' = [edges |-> DanglingEdges', reads |-> DanglingReads']

\* The host loads a draft, as saved or, with opts.dirty, as unsaved.
loadDraft ==
    /\ \E d \in Drafts :
          /\ nodes' = d.nodes /\ inputs' = d.inputs /\ edges' = d.edges
          /\ deriveEntryExit(d.nodes, d.edges)
    /\ \E unsaved \in BOOLEAN : Replace(unsaved)

reset ==
    /\ nodes' = {} /\ edges' = {} /\ inputs' = Empty
    /\ startTargets' = {} /\ endSources' = {}
    /\ Replace(FALSE)

-----------------------------------------------------------------------------
(* Nodes.                                                                  *)

\* setName, setDescription, updateNodeLabel and updateNodePosition, also of no
\* node or to what is there already.
decorate ==
    /\ \E changed \in BOOLEAN : Dirties(changed)
    /\ UNCHANGED <<graph, marked, selected, brought>>

\* setNodePositions, which no node it names may match.
setNodePositions ==
    /\ \/ nodes # {} /\ Dirties(TRUE)
       \/ UNCHANGED clean
    /\ UNCHANGED <<graph, marked, selected, brought>>

\* A marker's position is no part of the draft, yet it is a change.
updateMarkerPosition ==
    /\ Dirties(FALSE)
    /\ UNCHANGED <<graph, marked, selected, brought>>

\* The host has minted the id.
addNode ==
    /\ \E i \in Ids \ nodes :
          /\ nodes' = nodes \cup {i}
          /\ inputs' = [inputs EXCEPT ![i] = Empty[i]]
    /\ Dirties(TRUE)
    /\ UNCHANGED <<edges, marked, selected, brought>>

\* Mutation: every path that starts with outputs.<id> is pruned.
StartsWith(b, i) == b.reads = i \/ <<i, b.reads>> \in Longer

\* outputs.<id> and outputs.<id>.… read the node; outputs.<id>[0] is not
\* looked at.
ReadsOutputs(b, i) == b.reads = i /\ b.rest \in {"", ".x"}

\* Mutation: the edges out of the node are dropped.
LeavesNode(e, i) == e.from = i

Incident(e, i) == e.from = i \/ e.to = i

removeNode(i) ==
    /\ i \in nodes
    /\ nodes' = nodes \ {i}
    /\ inputs' = [j \in Ids |-> [p \in Slots |->
           IF j = i \/ (inputs[j][p] # None /\ ReadsOutputs(inputs[j][p], i))
           THEN None ELSE inputs[j][p]]]
    /\ edges' = {e \in edges : ~Incident(e, i)}
    /\ startTargets' = startTargets \ {i}
    /\ endSources' = endSources \ {i}
    /\ selected' = IF selected = i THEN None ELSE selected
    /\ Dirties(TRUE)
    /\ UNCHANGED brought

Bound == {s \in Ids \X Slots : inputs[s[1]][s[2]] # None}

\* The host binds a slot to the output of another node of the graph.
updateNodeInput ==
    /\ \E i, j \in nodes, p \in Slots, rest \in Rests :
          /\ i # j
          /\ Cardinality(Bound \cup {<<i, p>>}) <= MaxBound
          /\ inputs' = [inputs EXCEPT ![i][p] = [reads |-> j, rest |-> rest]]
    /\ Dirties(TRUE)
    /\ UNCHANGED <<nodes, edges, marked, selected, brought>>

removeNodeInput ==
    /\ \E i \in nodes, p \in Slots : inputs' = [inputs EXCEPT ![i][p] = None]
    /\ Dirties(inputs' # inputs)
    /\ UNCHANGED <<nodes, edges, marked, selected, brought>>

-----------------------------------------------------------------------------
(* Edges, as handleConnect and handleDeleteEdge of the canvas make them.   *)

\* Labels are compared with ===: null is not undefined.
Twin(e, f) == e.from = f.from /\ e.to = f.to /\ e.label = f.label

\* A second edge with the same ends and label is ignored, and so is a loop.
addEdge(e) ==
    IF e.from = e.to \/ \E f \in edges : Twin(e, f)
    THEN UNCHANGED <<edges, clean>>
    ELSE edges' = edges \cup {e} /\ Dirties(TRUE)

\* genEdgeId() mints an id nothing else has.
NewEdgeId == CHOOSE id \in EdgeIds : \A f \in edges : f.id # id

connect ==
    /\ {f.id : f \in edges} # EdgeIds
    /\ \E i, j \in nodes, label \in Labels :
          addEdge([id |-> NewEdgeId, from |-> i, to |-> j, label |-> label])
    /\ UNCHANGED <<nodes, inputs, marked, selected, brought>>

\* Mutation: nothing is marked dirty.
RemovedUnmarked == kept' = FALSE /\ fresh' = {} /\ UNCHANGED <<dirty, hosted>>

RemovedMarked == Dirties(TRUE)

removeEdge ==
    /\ \E e \in edges : edges' = {f \in edges : f.id # e.id}
    /\ RemovedMarked
    /\ UNCHANGED <<nodes, inputs, marked, selected, brought>>

CanMark == Cardinality(startTargets) + Cardinality(endSources) < MaxMarked

\* A connection from the start marker, also one drawn to the end marker.
addStartTarget ==
    /\ CanMark
    /\ UNCHANGED <<graph, endSources, selected, brought>>
    /\ \E i \in nodes \cup {END} :
          IF i \in startTargets
          THEN UNCHANGED <<startTargets, clean>>
          ELSE startTargets' = startTargets \cup {i} /\ Dirties(FALSE)

addEndSource ==
    /\ CanMark
    /\ UNCHANGED <<graph, startTargets, selected, brought>>
    /\ \E i \in nodes :
          IF i \in endSources
          THEN UNCHANGED <<endSources, clean>>
          ELSE endSources' = endSources \cup {i} /\ Dirties(FALSE)

\* Deleting a marker edge: its id names the node.
removeStartTarget ==
    /\ \E i \in startTargets : startTargets' = startTargets \ {i}
    /\ Dirties(FALSE)
    /\ UNCHANGED <<graph, endSources, selected, brought>>

removeEndSource ==
    /\ \E i \in endSources : endSources' = endSources \ {i}
    /\ Dirties(FALSE)
    /\ UNCHANGED <<graph, startTargets, selected, brought>>

\* A marker can be selected like a node; a selection is no change.
selectNode ==
    /\ selected' \in nodes \cup {START, END, None}
    /\ UNCHANGED <<graph, marked, brought, clean>>

-----------------------------------------------------------------------------
(* The host's save(): toDraft(), POST /pipeline, the answer's JSON, and     *)
(* markClean().  Nothing keeps a second one from starting meanwhile: the    *)
(* Save button is never disabled, and run() saves too.                      *)

Save(s) ==
    /\ save[s] = "none"
    /\ save' = [save EXCEPT ![s] = "posted"]
    /\ fresh' = IF Rivals = {} THEN fresh \cup {s} ELSE fresh
    /\ UNCHANGED <<graph, marked, selected, dirty, brought, kept, disturbed>>

\* What is remembered of a save ends with it, or with its refusal.
Moves(s, state) ==
    /\ save' = [save EXCEPT ![s] = state]
    /\ fresh' = {t \in fresh : save'[t] \in {"posted", "lost", "stored"}}

\* The server carries out a save and answers: 200, or 500, which a transaction
\* may come to after its commit.
Serve(s) ==
    /\ s \in Pending
    /\ \E effect \in BOOLEAN, status \in {"stored", "refused"} :
          /\ status = "stored" => effect
          /\ kept' = IF effect THEN s \in fresh ELSE kept
          /\ Moves(s, IF save[s] = "lost" THEN "none" ELSE status)
    /\ UNCHANGED <<graph, marked, selected, dirty, brought, disturbed>>

\* Nothing that another draft can have undone: stored, not edited since it was
\* posted, and not posted while an older draft was under way.
Settles(s) == save[s] = "stored" /\ s \in fresh

\* The answer is JSON, whatever its status: res.ok is not looked at.
markClean(s) ==
    /\ save[s] \in {"stored", "refused"}
    /\ Moves(s, "none")
    /\ dirty' = FALSE
    /\ disturbed' = ~Settles(s)
    /\ UNCHANGED <<graph, marked, selected, brought, kept>>

\* The request fails, or its answer is no JSON; the server may not have seen
\* the last of it.
SaveFails(s) ==
    /\ save[s] \in {"posted", "stored", "refused"}
    /\ Moves(s, IF save[s] = "posted" THEN "lost" ELSE "none")
    /\ UNCHANGED <<graph, marked, selected, dirty, brought, kept, disturbed>>

Hosting == \E s \in Saves : Save(s) \/ Serve(s) \/ markClean(s) \/ SaveFails(s)

Editing ==
    \/ decorate \/ setNodePositions \/ updateMarkerPosition
    \/ addNode \/ (\E i \in Ids : removeNode(i)) \/ updateNodeInput \/ removeNodeInput
    \/ connect \/ removeEdge
    \/ addStartTarget \/ addEndSource \/ removeStartTarget \/ removeEndSource
    \/ selectNode

Next == loadDraft \/ reset \/ Editing \/ Hosting

Spec == Init /\ [][Next]_vars

-----------------------------------------------------------------------------
BuilderTypeOK ==
    /\ nodes \subseteq Ids
    /\ inputs \in [Ids -> [Slots -> Binding \cup {None}]]
    /\ edges \subseteq Edge
    /\ startTargets \subseteq Ids \cup {END} /\ endSources \subseteq Ids
    /\ selected \in Ids \cup {START, END, None}
    /\ dirty \in BOOLEAN
    /\ save \in [Saves -> {"none", "posted", "lost", "stored", "refused"}]
    /\ brought \in [edges : SUBSET Edge, reads : SUBSET (Ids \X Slots)]
    /\ fresh \subseteq Saves
    /\ kept \in BOOLEAN /\ disturbed \in BOOLEAN

\* However nodes come and go, no marker edge, selection, edge or binding whose
\* path is outputs.<id> or outputs.<id>.… refers to a node that is not there,
\* unless it came so with the draft last loaded (builder-store.ts removeNode,
\* #S12; loadDraft, which replaces all that refers to the draft before).
NothingDangles ==
    /\ DanglingEdges \subseteq brought.edges /\ DanglingReads \subseteq brought.reads
    /\ startTargets \subseteq nodes \cup {END} /\ endSources \subseteq nodes
    /\ selected \in nodes \cup {START, END, None}

\* Removing a node takes what is about it and nothing else: its edges, marks,
\* selection, and the bindings to its outputs, but for outputs.<id>[0]; other
\* edges and bindings stay as they were, one to a node with a longer id of the
\* same beginning included ("exact path-segment match only").
RemovalIsExact ==
    [][\A i \in Ids : removeNode(i) =>
          /\ \A e \in edges : e \in edges' <=> i \notin {e.from, e.to}
          /\ \A j \in nodes', p \in Slots : inputs[j][p] # None =>
                inputs'[j][p] = IF inputs[j][p].reads = i /\ inputs[j][p].rest # "[0]"
                                THEN None ELSE inputs[j][p]
          /\ i \notin startTargets' \cup endSources' \cup {selected'}]_vars

\* While the store is not dirty the server holds what toDraft() answers (the
\* comment on `dirty`: "Has the graph changed since the last save?"), unless
\* the flag went down on a save that was refused, that an edit or a load overtook
\* or an older draft's save may have overwritten, or by loading a draft while a
\* save is under way.
DirtyIsHonest == ~dirty => kept \/ disturbed
=============================================================================
