------------------------- MODULE BuilderStoreProofs -------------------------
(***************************************************************************)
(* Machine-checked proofs about BuilderStore, for all ids, labels, slots,  *)
(* drafts and any number of saves at a time, and without its other bounds: *)
(* type correctness, that nothing dangles but what a draft brought, that a  *)
(* removal is exact, and what the dirty flag tells.                        *)
(***************************************************************************)
EXTENDS BuilderStore, TLAPS

BindingOrNone == Binding \cup {None}
Inputs == [Ids -> [Slots -> BindingOrNone]]

\* What the parts of the graph are, folded for the provers.
Shape ==
    /\ nodes \subseteq Ids
    /\ inputs \in Inputs
    /\ edges \subseteq Edge
    /\ startTargets \subseteq Ids \cup {END} /\ endSources \subseteq Ids
    /\ selected \in Ids \cup {START, END, None}

Flags ==
    /\ dirty \in BOOLEAN
    /\ save \in [Saves -> {"none", "posted", "lost", "stored", "refused"}]
    /\ fresh \subseteq Saves
    /\ kept \in BOOLEAN /\ disturbed \in BOOLEAN

BroughtOK == brought \in [edges : SUBSET Edge, reads : SUBSET (Ids \X Slots)]

LEMMA TypeParts == BuilderTypeOK <=> Shape /\ Flags /\ BroughtOK
BY DEF BuilderTypeOK, Shape, Flags, BroughtOK, Inputs, BindingOrNone

-----------------------------------------------------------------------------
(* The flags.                                                              *)

\* Every action is one of these, as far as the flags are concerned.
Edits    == \E changed \in BOOLEAN : Dirties(changed)
NoEdit   == UNCHANGED clean
Replaces == \E unsaved \in BOOLEAN : Replace(unsaved)

LEMMA FlagKinds == [Next]_vars => Edits \/ NoEdit \/ Replaces \/ Hosting
<1> SUFFICES ASSUME [Next]_vars
             PROVE  Edits \/ NoEdit \/ Replaces \/ Hosting
  OBVIOUS
<1>t. Dirties(TRUE) => Edits
  BY Zenon DEF Edits
<1>f. Dirties(FALSE) => Edits
  BY Zenon DEF Edits
<1>1. CASE loadDraft \/ reset
  BY <1>1, Zenon DEF loadDraft, reset, Replaces
<1>2. CASE decorate
  BY <1>2, Zenon DEF decorate, graph, Edits
<1>3. CASE setNodePositions \/ updateMarkerPosition
  BY <1>3, <1>t, <1>f DEF setNodePositions, updateMarkerPosition, graph, NoEdit
<1>4. CASE addNode \/ (\E i \in Ids : removeNode(i)) \/ updateNodeInput
  BY <1>4, <1>t DEF addNode, removeNode, updateNodeInput
<1>5. CASE removeNodeInput
  <2>1. (inputs' # inputs) \in BOOLEAN
    OBVIOUS
  <2>2. Dirties(inputs' # inputs)
    BY <1>5 DEF removeNodeInput
  <2> QED
    BY <2>1, <2>2, Zenon DEF Edits
<1>6. CASE connect
  BY <1>6, <1>t DEF connect, addEdge, NoEdit
<1>7. CASE removeEdge
  BY <1>7, <1>t DEF removeEdge, RemovedMarked
<1>8. CASE addStartTarget \/ addEndSource
  BY <1>8, <1>f DEF addStartTarget, addEndSource, NoEdit, graph
<1>9. CASE removeStartTarget \/ removeEndSource
  BY <1>9, <1>f DEF removeStartTarget, removeEndSource, graph
<1>10. CASE selectNode \/ UNCHANGED vars
  BY <1>10 DEF selectNode, vars, NoEdit, clean, hosted, graph
<1> QED
  BY <1>1, <1>2, <1>3, <1>4, <1>5, <1>6, <1>7, <1>8, <1>9, <1>10 DEF Next, Editing

LEMMA FlagsStep == Shape /\ Flags /\ [Next]_vars => Flags'
<1> SUFFICES ASSUME Shape, Flags, [Next]_vars PROVE Flags'
  OBVIOUS
<1>1. CASE Edits
  BY <1>1 DEF Edits, Dirties, hosted, Flags
<1>2. CASE NoEdit
  BY <1>2 DEF NoEdit, clean, hosted, Flags
<1>3. CASE Replaces
  BY <1>3 DEF Replaces, Replace, Flags
<1>4. ASSUME NEW s \in Saves, Save(s) \/ Serve(s) \/ markClean(s) \/ SaveFails(s)
      PROVE  Flags'
  <2>1. CASE Save(s)
    BY <1>4, <2>1 DEF Save, Flags, Shape
  <2>2. CASE Serve(s)
    <3>1. PICK effect \in BOOLEAN, status \in {"stored", "refused"} :
              /\ kept' = IF effect THEN s \in fresh ELSE kept
              /\ Moves(s, IF save[s] = "lost" THEN "none" ELSE status)
      BY <2>2 DEF Serve
    <3>2. kept' \in BOOLEAN
      <4>1. (s \in fresh) \in BOOLEAN /\ kept \in BOOLEAN
        BY DEF Flags
      <4>2. CASE effect
        BY <3>1, <4>1, <4>2, Zenon
      <4>3. CASE ~effect
        BY <3>1, <4>1, <4>3, Zenon
      <4> QED
        BY <4>2, <4>3
    <3>3. save' \in [Saves -> {"none", "posted", "lost", "stored", "refused"}]
      BY <3>1 DEF Moves, Flags
    <3>4. fresh' \subseteq Saves
      BY <3>1 DEF Moves, Flags
    <3> QED
      BY <2>2, <3>2, <3>3, <3>4 DEF Serve, Flags
  <2>3. CASE markClean(s)
    BY <1>4, <2>3 DEF markClean, Moves, Flags
  <2>4. CASE SaveFails(s)
    BY <1>4, <2>4 DEF SaveFails, Moves, Flags
  <2> QED
    BY <1>4, <2>1, <2>2, <2>3, <2>4
<1> QED
  BY <1>1, <1>2, <1>3, <1>4, FlagKinds DEF Hosting

\* A flag that is down on its merits has a server behind it that no save under
\* way will take off it; and so has the answer of a save that settles it.
SavesInv ==
    /\ ~dirty /\ ~disturbed => kept /\ Rivals = {}
    /\ \A s \in fresh :
          /\ Rivals = {}
          /\ save[s] = "stored" => kept

LEMMA SavesStep == Flags /\ SavesInv /\ [Next]_vars => SavesInv'
<1> SUFFICES ASSUME Flags, SavesInv, [Next]_vars PROVE SavesInv'
  OBVIOUS
<1>1. CASE Edits
  <2>1. PICK changed \in BOOLEAN : Dirties(changed)
    BY <1>1 DEF Edits
  <2>2. CASE changed
    BY <2>1, <2>2 DEF Dirties, SavesInv
  <2>3. CASE ~changed
    <3>1. dirty' /\ fresh' = fresh /\ kept' = kept /\ save' = save
      BY <2>1, <2>3 DEF Dirties, hosted, Flags
    <3> QED
      BY <3>1 DEF SavesInv, Rivals, Pending
  <2> QED
    BY <2>2, <2>3
<1>2. CASE NoEdit
  BY <1>2 DEF NoEdit, clean, hosted, SavesInv, Rivals, Pending
<1>3. CASE Replaces
  <2>1. PICK unsaved \in BOOLEAN : Replace(unsaved)
    BY <1>3 DEF Replaces
  <2>2. /\ fresh' = {} /\ save' = save /\ dirty' = unsaved /\ kept' = ~unsaved
        /\ disturbed' = (Pending # {})
    BY <2>1 DEF Replace
  <2> QED
    BY <2>2 DEF SavesInv, Rivals, Pending
<1>4. ASSUME NEW s \in Saves, Save(s) PROVE SavesInv'
  <2>1. /\ save' = [save EXCEPT ![s] = "posted"] /\ save[s] = "none"
        /\ fresh' = IF Rivals = {} THEN fresh \cup {s} ELSE fresh
        /\ UNCHANGED <<dirty, kept, disturbed>>
    BY <1>4 DEF Save
  <2>2. CASE Rivals = {}
    <3>1. Rivals' = {}
      BY <1>4, <2>1, <2>2 DEF Flags, Rivals, Pending
    <3>2. \A t \in fresh' : save'[t] = "stored" => t \in fresh /\ save[t] = "stored"
      BY <1>4, <2>1, <2>2 DEF Flags
    <3> QED
      BY <2>1, <3>1, <3>2 DEF SavesInv
  <2>3. CASE Rivals # {}
    BY <2>1, <2>3 DEF SavesInv
  <2> QED
    BY <2>2, <2>3
\* A save that moves on leaves no rival that was none before.
<1>m. ASSUME NEW s \in Saves, NEW state \in {"none", "lost", "stored", "refused"},
             Moves(s, state), state = "lost" => s \in Pending
      PROVE  /\ Rivals' \subseteq Rivals
             /\ \A t \in fresh' : t \in fresh /\ (t # s => save'[t] = save[t])
             /\ save'[s] = state
  <2>1. /\ save' = [save EXCEPT ![s] = state]
        /\ fresh' = {t \in fresh : save'[t] \in {"posted", "lost", "stored"}}
    BY <1>m DEF Moves
  <2>2. save'[s] = state /\ \A t \in Saves : t # s => save'[t] = save[t]
    BY <1>m, <2>1 DEF Flags
  <2> QED
    BY <1>m, <2>1, <2>2 DEF Flags, Rivals, Pending
<1>5. ASSUME NEW s \in Saves, Serve(s) PROVE SavesInv'
  <2>1. PICK effect \in BOOLEAN, status \in {"stored", "refused"} :
            /\ status = "stored" => effect
            /\ kept' = IF effect THEN s \in fresh ELSE kept
            /\ Moves(s, IF save[s] = "lost" THEN "none" ELSE status)
    BY <1>5 DEF Serve
  <2> DEFINE state == IF save[s] = "lost" THEN "none" ELSE status
  <2>2. UNCHANGED <<dirty, disturbed>> /\ s \in Pending
    BY <1>5 DEF Serve
  <2>3. state \in {"none", "stored", "refused"} /\ (state = "stored" => effect)
    BY <2>1
  <2>4. Moves(s, state)
    BY <2>1
  <2> HIDE DEF state
  <2>5. /\ Rivals' \subseteq Rivals
        /\ \A t \in fresh' : t \in fresh /\ (t # s => save'[t] = save[t])
        /\ save'[s] = state
    BY <1>m, <2>3, <2>4
  <2>6. Rivals = {} => s \in fresh
    BY <2>2 DEF Rivals
  <2>7. Rivals = {} /\ kept => kept'
    BY <2>1, <2>6
  <2>8. s \in fresh /\ save'[s] = "stored" => kept'
    BY <2>1, <2>3, <2>5
  <2> QED
    BY <2>2, <2>5, <2>7, <2>8 DEF SavesInv
<1>6. ASSUME NEW s \in Saves, markClean(s) PROVE SavesInv'
  <2>1. Moves(s, "none") /\ disturbed' = ~Settles(s) /\ kept' = kept
    BY <1>6 DEF markClean
  <2>2. /\ Rivals' \subseteq Rivals
        /\ \A t \in fresh' : t \in fresh /\ (t # s => save'[t] = save[t])
        /\ save'[s] = "none"
    BY <1>m, <2>1
  <2>3. Settles(s) => kept /\ Rivals = {}
    BY DEF Settles, SavesInv
  <2> QED
    BY <2>1, <2>2, <2>3 DEF SavesInv
<1>7. ASSUME NEW s \in Saves, SaveFails(s) PROVE SavesInv'
  <2>1. /\ Moves(s, IF save[s] = "posted" THEN "lost" ELSE "none")
        /\ UNCHANGED <<dirty, kept, disturbed>>
    BY <1>7 DEF SaveFails
  <2> DEFINE state == IF save[s] = "posted" THEN "lost" ELSE "none"
  <2>2. state \in {"none", "lost"} /\ (state = "lost" => s \in Pending)
    BY DEF Pending
  <2>3. Moves(s, state)
    BY <2>1
  <2> HIDE DEF state
  <2>4. /\ Rivals' \subseteq Rivals
        /\ \A t \in fresh' : t \in fresh /\ (t # s => save'[t] = save[t])
        /\ save'[s] = state
    BY <1>m, <2>2, <2>3
  <2> QED
    BY <2>1, <2>2, <2>4 DEF SavesInv
<1> QED
  BY <1>1, <1>2, <1>3, <1>4, <1>5, <1>6, <1>7, FlagKinds DEF Hosting

LEMMA HonestBySaves == SavesInv => DirtyIsHonest
BY DEF SavesInv, DirtyIsHonest

-----------------------------------------------------------------------------
(* The graph.                                                              *)

\* NothingDangles, part by part.
EdgesInv == DanglingEdges \subseteq brought.edges
ReadsInv == DanglingReads \subseteq brought.reads
MarksInv ==
    /\ startTargets \subseteq nodes \cup {END} /\ endSources \subseteq nodes
    /\ selected \in nodes \cup {START, END, None}

LEMMA DanglingParts == NothingDangles <=> EdgesInv /\ MarksInv /\ ReadsInv
BY DEF NothingDangles, EdgesInv, MarksInv, ReadsInv

\* A binding counts, and reads nothing that is there.
Dangles(b) == b # None /\ b.rest # "[0]" /\ b.reads \notin nodes

LEMMA DanglingSlot ==
    /\ \A i \in nodes, p \in Slots : <<i, p>> \in DanglingReads <=> Dangles(inputs[i][p])
    /\ DanglingReads \subseteq nodes \X Slots
BY DEF DanglingReads, Dangles

\* An id nothing has is there when not all are taken.
LEMMA NewId ==
    ASSUME edges \subseteq Edge, {f.id : f \in edges} # EdgeIds
    PROVE  NewEdgeId \in EdgeIds /\ \A f \in edges : f.id # NewEdgeId
<1>1. {f.id : f \in edges} \subseteq EdgeIds
  BY DEF Edge
<1>2. \E id \in EdgeIds : \A f \in edges : f.id # id
  BY <1>1
<1> QED
  BY <1>2 DEF NewEdgeId

\* A connection adds an edge between nodes that are there, or nothing.
LEMMA Connected ==
    ASSUME edges \subseteq Edge, nodes \subseteq Ids, connect
    PROVE  \/ edges' = edges
           \/ \E e \in Edge : edges' = edges \cup {e} /\ {e.from, e.to} \subseteq nodes
<1>1. {f.id : f \in edges} # EdgeIds
  BY DEF connect
<1>2. NewEdgeId \in EdgeIds
  BY <1>1, NewId
<1> DEFINE new(i, j, label) == [id |-> NewEdgeId, from |-> i, to |-> j, label |-> label]
<1>3. PICK i \in nodes, j \in nodes, label \in Labels : addEdge(new(i, j, label))
  BY DEF connect
<1> DEFINE e == new(i, j, label)
<1>4. e \in Edge /\ {e.from, e.to} \subseteq nodes
  BY <1>2 DEF Edge
<1> HIDE DEF e
<1>5. addEdge(e)
  BY <1>3 DEF e
<1> QED
  BY <1>4, <1>5 DEF addEdge

\* What a draft is.
LEMMA Loaded ==
    ASSUME NEW d \in Drafts
    PROVE  /\ d.nodes \subseteq Ids
           /\ d.edges \subseteq Edge /\ d.inputs \in Inputs
BY DraftsAssumption DEF DraftsAssumption, Inputs, BindingOrNone

\* What a loaded draft or a reset puts in the store.
LEMMA Replaced ==
    ASSUME loadDraft \/ reset
    PROVE  /\ Shape' /\ selected' = None
           /\ startTargets' \subseteq nodes' /\ endSources' \subseteq nodes'
           /\ brought' = [edges |-> DanglingEdges', reads |-> DanglingReads']
<1>e. Empty \in Inputs
  BY DEF Empty, Inputs, BindingOrNone
<1>1. CASE loadDraft
  <2>1. PICK d \in Drafts :
            /\ nodes' = d.nodes /\ inputs' = d.inputs /\ edges' = d.edges
            /\ deriveEntryExit(d.nodes, d.edges)
    BY <1>1 DEF loadDraft
  <2>2. startTargets' \subseteq d.nodes /\ endSources' \subseteq d.nodes
    BY <2>1 DEF deriveEntryExit
  <2>3. PICK unsaved \in BOOLEAN : Replace(unsaved)
    BY <1>1 DEF loadDraft
  <2>4. selected' = None /\ brought' = [edges |-> DanglingEdges', reads |-> DanglingReads']
    BY <2>3 DEF Replace
  <2> QED
    BY <2>1, <2>2, <2>4, Loaded DEF Shape
<1>2. CASE reset
  <2>1. selected' = None /\ brought' = [edges |-> DanglingEdges', reads |-> DanglingReads']
    BY <1>2 DEF reset, Replace
  <2> QED
    BY <1>2, <1>e, <2>1 DEF reset, Shape
<1> QED
  BY <1>1, <1>2

\* Nothing but these actions touch the graph, the markers or the selection, and
\* only a load or a reset what it brought.
Alike == UNCHANGED <<nodes, inputs, edges, startTargets, endSources, selected>>
Frames ==
    \/ loadDraft \/ reset
    \/ /\ brought' = brought
       /\ \/ addNode \/ (\E i \in Ids : removeNode(i))
          \/ updateNodeInput \/ removeNodeInput \/ connect \/ removeEdge
          \/ addStartTarget \/ addEndSource \/ removeStartTarget \/ removeEndSource
          \/ selectNode \/ Alike

LEMMA FramesHold == [Next]_vars => Frames
<1> SUFFICES ASSUME [Next]_vars PROVE Frames
  OBVIOUS
<1> USE DEF graph, marked
<1>1. CASE decorate \/ setNodePositions \/ updateMarkerPosition
  BY <1>1 DEF decorate, setNodePositions, updateMarkerPosition, Alike, Frames
<1>2. CASE Hosting \/ UNCHANGED vars
  BY <1>2 DEF Hosting, Save, Serve, markClean, SaveFails, vars, Alike, Frames
<1>3. CASE loadDraft \/ reset
  BY <1>3 DEF Frames
<1>4. CASE addNode \/ (\E i \in Ids : removeNode(i)) \/ updateNodeInput \/ removeNodeInput
  BY <1>4 DEF addNode, removeNode, updateNodeInput, removeNodeInput, Frames
<1>5. CASE connect \/ removeEdge
  BY <1>5 DEF connect, removeEdge, Frames
<1>6. CASE addStartTarget \/ addEndSource \/ removeStartTarget \/ removeEndSource \/ selectNode
  BY <1>6 DEF addStartTarget, addEndSource, removeStartTarget, removeEndSource, selectNode,
              Frames
<1> QED
  BY <1>1, <1>2, <1>3, <1>4, <1>5, <1>6 DEF Next, Editing

LEMMA ShapeStep == Shape /\ [Next]_vars => Shape'
<1> SUFFICES ASSUME Shape, [Next]_vars PROVE Shape'
  OBVIOUS
<1>0. /\ nodes \subseteq Ids /\ inputs \in Inputs /\ edges \subseteq Edge
      /\ startTargets \subseteq Ids \cup {END} /\ endSources \subseteq Ids
      /\ selected \in Ids \cup {START, END, None}
  BY DEF Shape
<1>e. Empty \in Inputs
  BY DEF Empty, Inputs, BindingOrNone
<1> USE DEF graph, marked
<1>1. CASE loadDraft \/ reset
  BY <1>1, Replaced
<1>3. CASE addNode
  <2>1. PICK i \in Ids : nodes' = nodes \cup {i} /\ inputs' = [inputs EXCEPT ![i] = Empty[i]]
    BY <1>3 DEF addNode
  <2>2. inputs' \in Inputs
    BY <1>0, <1>e, <2>1 DEF Inputs
  <2> QED
    BY <1>0, <1>3, <2>1, <2>2 DEF addNode, Shape
<1>4. ASSUME NEW i \in Ids, removeNode(i) PROVE Shape'
  <2>1. inputs' \in Inputs
    BY <1>0, <1>4 DEF removeNode, Inputs, BindingOrNone
  <2> QED
    BY <1>0, <1>4, <2>1 DEF removeNode, Shape
<1>5. CASE updateNodeInput
  <2>1. PICK i \in nodes, j \in nodes, p \in Slots, rest \in Rests :
            inputs' = [inputs EXCEPT ![i][p] = [reads |-> j, rest |-> rest]]
    BY <1>5 DEF updateNodeInput
  <2> DEFINE b == [reads |-> j, rest |-> rest]
  <2>2. b \in BindingOrNone
    BY <1>0 DEF BindingOrNone, Binding
  <2> HIDE DEF b
  <2>3. inputs' = [inputs EXCEPT ![i][p] = b]
    BY <2>1 DEF b
  <2>4. inputs' \in Inputs
    BY <1>0, <2>2, <2>3 DEF Inputs
  <2> QED
    BY <1>0, <1>5, <2>4 DEF updateNodeInput, Shape
<1>6. CASE removeNodeInput
  <2>1. PICK i \in nodes, p \in Slots : inputs' = [inputs EXCEPT ![i][p] = None]
    BY <1>6 DEF removeNodeInput
  <2>2. inputs' \in Inputs
    BY <1>0, <2>1 DEF Inputs, BindingOrNone
  <2> QED
    BY <1>0, <1>6, <2>2 DEF removeNodeInput, Shape
<1>7. CASE connect
  <2>1. edges' \subseteq Edge
    BY <1>0, <1>7, Connected
  <2> QED
    BY <1>0, <1>7, <2>1 DEF connect, Shape
<1>8. CASE removeEdge
  <2>1. edges' \subseteq edges
    BY <1>8 DEF removeEdge
  <2> QED
    BY <1>0, <1>8, <2>1 DEF removeEdge, Shape
<1>9. CASE addStartTarget \/ addEndSource
  <2>1. startTargets' \subseteq startTargets \cup nodes \cup {END}
        /\ endSources' \subseteq endSources \cup nodes
    BY <1>9 DEF addStartTarget, addEndSource
  <2>2. UNCHANGED <<nodes, inputs, edges, selected>>
    BY <1>9 DEF addStartTarget, addEndSource
  <2> QED
    BY <1>0, <2>1, <2>2 DEF Shape
<1>10. CASE removeStartTarget \/ removeEndSource \/ selectNode
  BY <1>0, <1>10 DEF removeStartTarget, removeEndSource, selectNode, Shape
<1>11. CASE Alike
  BY <1>0, <1>11 DEF Alike, Shape
<1> QED
  BY <1>1, <1>3, <1>4, <1>5, <1>6, <1>7, <1>8, <1>9, <1>10, <1>11, FramesHold DEF Frames

LEMMA BroughtStep == Shape /\ BroughtOK /\ [Next]_vars => BroughtOK'
<1> SUFFICES ASSUME Shape, BroughtOK, [Next]_vars PROVE BroughtOK'
  OBVIOUS
<1>1. CASE loadDraft \/ reset
  <2>1. brought' = [edges |-> DanglingEdges', reads |-> DanglingReads']
    BY <1>1, Replaced
  <2>2. nodes' \subseteq Ids /\ edges' \subseteq Edge
    BY <1>1, Replaced DEF Shape
  <2>3. DanglingEdges' \subseteq Edge
    BY <2>2 DEF DanglingEdges
  <2>4. DanglingReads' \subseteq Ids \X Slots
    BY <2>2 DEF DanglingReads
  <2> QED
    BY <2>1, <2>3, <2>4 DEF BroughtOK
<1>2. CASE brought' = brought
  BY <1>2 DEF BroughtOK
<1> QED
  BY <1>1, <1>2, FramesHold DEF Frames

LEMMA DangleStep == Shape /\ NothingDangles /\ [Next]_vars => NothingDangles'
<1> SUFFICES ASSUME Shape, EdgesInv, MarksInv, ReadsInv, [Next]_vars
             PROVE  EdgesInv' /\ MarksInv' /\ ReadsInv'
  BY DanglingParts DEF NothingDangles, EdgesInv, MarksInv, ReadsInv
<1>0. /\ nodes \subseteq Ids /\ inputs \in Inputs /\ edges \subseteq Edge
  BY DEF Shape
<1>m. startTargets \subseteq nodes \cup {END} /\ endSources \subseteq nodes
      /\ selected \in nodes \cup {START, END, None}
  BY DEF MarksInv
<1>l. CASE loadDraft \/ reset
  <2>1. /\ selected' = None /\ startTargets' \subseteq nodes' /\ endSources' \subseteq nodes'
        /\ brought' = [edges |-> DanglingEdges', reads |-> DanglingReads']
    BY <1>l, Replaced
  <2> QED
    BY <2>1 DEF EdgesInv, MarksInv, ReadsInv
<1>b. SUFFICES ASSUME brought' = brought PROVE EdgesInv' /\ MarksInv' /\ ReadsInv'
  BY <1>l, FramesHold DEF Frames
\* Where nodes stay and edges only go, no edge dangles that did not; where no
\* binding dangles that did not, none does that was not brought.
<1>e. nodes \subseteq nodes' /\ edges' \subseteq edges => EdgesInv'
  BY <1>b DEF EdgesInv, DanglingEdges
<1>s. ASSUME \A i \in nodes', p \in Slots :
                 Dangles(inputs[i][p])' => i \in nodes /\ Dangles(inputs[i][p])
      PROVE  ReadsInv'
  <2>1. \A i \in nodes', p \in Slots : <<i, p>> \in DanglingReads' => <<i, p>> \in DanglingReads
    BY <1>s DEF DanglingReads, Dangles
  <2>2. DanglingReads' \subseteq nodes' \X Slots
    BY DEF DanglingReads
  <2>3. DanglingReads' \subseteq DanglingReads
    BY <2>1, <2>2
  <2> QED
    BY <1>b, <2>3 DEF ReadsInv
<1>r. nodes' = nodes /\ inputs' = inputs => ReadsInv'
  BY <1>s DEF Dangles
<1> USE DEF graph, marked
<1>3. CASE addNode
  <2>1. PICK i \in Ids \ nodes :
            nodes' = nodes \cup {i} /\ inputs' = [inputs EXCEPT ![i] = Empty[i]]
    BY <1>3 DEF addNode
  <2>2. EdgesInv' /\ MarksInv'
    BY <1>3, <1>e, <1>m, <2>1 DEF addNode, MarksInv
  <2>3. \A j \in nodes', p \in Slots :
            \/ j \in nodes /\ inputs'[j][p] = inputs[j][p]
            \/ inputs'[j][p] = None
    BY <1>0, <2>1 DEF Inputs, Empty
  <2>4. ReadsInv'
    BY <1>s, <2>1, <2>3 DEF Dangles
  <2> QED
    BY <2>2, <2>4
<1>4. ASSUME NEW i \in Ids, removeNode(i) PROVE EdgesInv' /\ MarksInv' /\ ReadsInv'
  <2>1. nodes' = nodes \ {i} /\ edges' = {e \in edges : ~Incident(e, i)}
    BY <1>4 DEF removeNode
  <2>2. EdgesInv'
    BY <1>b, <2>1 DEF EdgesInv, DanglingEdges, Incident
  <2>3. MarksInv'
    BY <1>4, <1>m DEF removeNode, MarksInv
  <2>4. \A j \in Ids, p \in Slots :
            inputs'[j][p] # None => /\ inputs'[j][p] = inputs[j][p]
                                    /\ ~ReadsOutputs(inputs[j][p], i)
    BY <1>4 DEF removeNode
  <2>5. \A j \in Ids, p \in Slots : inputs[j][p] # None => inputs[j][p] \in Binding
    BY <1>0 DEF Inputs, BindingOrNone
  <2>6. \A b \in Binding : b.rest # "[0]" /\ ~ReadsOutputs(b, i) => b.reads # i
    BY DEF Binding, Rests, ReadsOutputs
  <2>7. ASSUME NEW j \in nodes', NEW p \in Slots, Dangles(inputs[j][p])'
        PROVE  j \in nodes /\ Dangles(inputs[j][p])
    <3>1. j \in Ids /\ j \in nodes
      BY <1>0, <2>1, <2>7
    <3>2. inputs'[j][p] = inputs[j][p] /\ inputs[j][p] # None /\ ~ReadsOutputs(inputs[j][p], i)
      BY <2>4, <2>7, <3>1 DEF Dangles
    <3>3. inputs[j][p].reads # i
      BY <2>5, <2>6, <2>7, <3>1, <3>2 DEF Dangles
    <3> QED
      BY <2>1, <2>7, <3>1, <3>2, <3>3 DEF Dangles
  <2>8. ReadsInv'
    BY <1>s, <2>7
  <2> QED
    BY <2>2, <2>3, <2>8
<1>5. CASE updateNodeInput
  <2>1. PICK i \in nodes, j \in nodes, p \in Slots, rest \in Rests :
            inputs' = [inputs EXCEPT ![i][p] = [reads |-> j, rest |-> rest]]
    BY <1>5 DEF updateNodeInput
  <2>2. nodes' = nodes /\ edges' = edges /\ MarksInv'
    BY <1>5, <1>m DEF updateNodeInput, MarksInv
  <2>3. \A k \in Ids, q \in Slots : inputs'[k][q] = inputs[k][q]
                                     \/ inputs'[k][q] = [reads |-> j, rest |-> rest]
    BY <1>0, <2>1 DEF Inputs
  <2>4. ReadsInv'
    BY <1>0, <1>s, <2>2, <2>3 DEF Dangles
  <2> QED
    BY <1>e, <2>2, <2>4
<1>6. CASE removeNodeInput
  <2>1. PICK i \in nodes, p \in Slots : inputs' = [inputs EXCEPT ![i][p] = None]
    BY <1>6 DEF removeNodeInput
  <2>2. nodes' = nodes /\ edges' = edges /\ MarksInv'
    BY <1>6, <1>m DEF removeNodeInput, MarksInv
  <2>3. \A k \in Ids, q \in Slots : inputs'[k][q] = inputs[k][q] \/ inputs'[k][q] = None
    BY <1>0, <2>1 DEF Inputs
  <2>4. ReadsInv'
    BY <1>0, <1>s, <2>2, <2>3 DEF Dangles
  <2> QED
    BY <1>e, <2>2, <2>4
<1>7. CASE connect
  <2>1. nodes' = nodes /\ inputs' = inputs /\ MarksInv'
    BY <1>7, <1>m DEF connect, MarksInv
  <2>2. CASE edges' = edges
    BY <1>e, <1>r, <2>1, <2>2
  <2>3. ASSUME NEW e \in Edge, edges' = edges \cup {e}, {e.from, e.to} \subseteq nodes
        PROVE  EdgesInv'
    BY <1>b, <2>1, <2>3 DEF EdgesInv, DanglingEdges
  <2> QED
    BY <1>0, <1>7, <1>r, <2>1, <2>2, <2>3, Connected
<1>8. CASE removeEdge
  <2>1. nodes' = nodes /\ inputs' = inputs /\ edges' \subseteq edges
    BY <1>8 DEF removeEdge
  <2>2. MarksInv'
    BY <1>8, <1>m DEF removeEdge, MarksInv
  <2> QED
    BY <1>e, <1>r, <2>1, <2>2
<1>9. CASE addStartTarget \/ addEndSource
  <2>1. nodes' = nodes /\ inputs' = inputs /\ edges' = edges
    BY <1>9 DEF addStartTarget, addEndSource
  <2>2. MarksInv'
    BY <1>9, <1>m DEF addStartTarget, addEndSource, MarksInv
  <2> QED
    BY <1>e, <1>r, <2>1, <2>2
<1>10. CASE removeStartTarget \/ removeEndSource \/ selectNode
  <2>1. nodes' = nodes /\ inputs' = inputs /\ edges' = edges
    BY <1>10 DEF removeStartTarget, removeEndSource, selectNode
  <2>2. MarksInv'
    BY <1>10, <1>m DEF removeStartTarget, removeEndSource, selectNode, MarksInv
  <2> QED
    BY <1>e, <1>r, <2>1, <2>2
<1>11. CASE Alike
  BY <1>e, <1>r, <1>m, <1>11 DEF Alike, MarksInv
<1> QED
  BY <1>l, <1>3, <1>4, <1>5, <1>6, <1>7, <1>8, <1>9, <1>10, <1>11, FramesHold DEF Frames

-----------------------------------------------------------------------------
(* The theorems.                                                           *)

\* The inductive invariant: types, references and saves.
THEOREM Invariance == Spec => [](BuilderTypeOK /\ NothingDangles /\ SavesInv)
<1>1. Init => BuilderTypeOK /\ NothingDangles /\ SavesInv
  <2> SUFFICES ASSUME Init PROVE BuilderTypeOK /\ NothingDangles /\ SavesInv
    OBVIOUS
  <2>1. inputs \in Inputs
    BY DEF Init, Empty, Inputs, BindingOrNone
  <2>2. Shape
    BY <2>1 DEF Init, Shape
  <2>3. Flags /\ BroughtOK
    BY DEF Init, Flags, BroughtOK
  <2>4. SavesInv
    BY DEF Init, SavesInv, Rivals, Pending
  <2>5. EdgesInv /\ MarksInv /\ ReadsInv
    BY DEF Init, EdgesInv, MarksInv, ReadsInv, DanglingEdges, DanglingReads
  <2> QED
    BY <2>2, <2>3, <2>4, <2>5, TypeParts, DanglingParts
<1>2. BuilderTypeOK /\ [Next]_vars => BuilderTypeOK'
  <2>1. BuilderTypeOK' <=> Shape' /\ Flags' /\ BroughtOK'
    BY DEF BuilderTypeOK, Shape, Flags, BroughtOK, Inputs, BindingOrNone
  <2> QED
    BY <2>1, TypeParts, ShapeStep, FlagsStep, BroughtStep
<1>3. BuilderTypeOK /\ NothingDangles /\ [Next]_vars => NothingDangles'
  BY TypeParts, DangleStep
<1>4. BuilderTypeOK /\ SavesInv /\ [Next]_vars => SavesInv'
  BY TypeParts, SavesStep
<1> QED
  BY <1>1, <1>2, <1>3, <1>4, PTL DEF Spec

\* The variables keep their types (BuilderTypeOK).
THEOREM TypeCorrect == Spec => []BuilderTypeOK
BY Invariance, PTL

\* Nothing in the store refers to a node that is gone, but for what a draft
\* brought and for outputs.<id>[0] (builder-store.ts removeNode, addEdge).
THEOREM NothingLeftBehind == Spec => []NothingDangles
BY Invariance, PTL

\* While the store is clean the server holds its draft, unless the save that
\* made it clean settled nothing, or its pipeline was loaded during a save
\* (builder-store.ts markClean, App.tsx save).
THEOREM DirtyMeansUnsaved == Spec => []DirtyIsHonest
BY Invariance, HonestBySaves, PTL

\* A removal takes what is about the node, but for outputs.<id>[0] bindings, and
\* nothing else (builder-store.ts removeNode).
THEOREM RemovalsAreExact == Spec => RemovalIsExact
<1> DEFINE Exact(i) ==
    /\ \A e \in edges : e \in edges' <=> i \notin {e.from, e.to}
    /\ \A j \in nodes', p \in Slots : inputs[j][p] # None =>
          inputs'[j][p] = IF inputs[j][p].reads = i /\ inputs[j][p].rest # "[0]"
                          THEN None ELSE inputs[j][p]
    /\ i \notin startTargets' \cup endSources' \cup {selected'}
<1>1. ASSUME BuilderTypeOK, NEW i \in Ids, removeNode(i) PROVE Exact(i)
  <2>0. Shape
    BY <1>1, TypeParts
  <2>1. nodes' = nodes \ {i} /\ edges' = {e \in edges : ~Incident(e, i)}
    BY <1>1 DEF removeNode
  <2>2. \A e \in edges : e \in edges' <=> i \notin {e.from, e.to}
    BY <2>1 DEF Incident
  <2>3. ASSUME NEW j \in nodes', NEW p \in Slots, inputs[j][p] # None
        PROVE  inputs'[j][p] = IF inputs[j][p].reads = i /\ inputs[j][p].rest # "[0]"
                               THEN None ELSE inputs[j][p]
    <3>1. j \in Ids /\ j # i
      BY <2>0, <2>1 DEF Shape
    <3>2. inputs'[j][p] = IF ReadsOutputs(inputs[j][p], i) THEN None ELSE inputs[j][p]
      BY <1>1, <2>3, <3>1 DEF removeNode
    <3>3. inputs[j][p].rest \in Rests
      BY <2>0, <2>3, <3>1 DEF Shape, Inputs, BindingOrNone, Binding
    <3> QED
      BY <3>2, <3>3 DEF ReadsOutputs, Rests
  <2>4. i \notin startTargets' \cup endSources' \cup {selected'}
    BY <1>1, IdsAssumption DEF removeNode, IdsAssumption
  <2> QED
    BY <2>2, <2>3, <2>4
<1>2. BuilderTypeOK => \A i \in Ids : removeNode(i) => Exact(i)
  BY <1>1
<1> QED
  BY <1>2, TypeCorrect, PTL DEF RemovalIsExact
=============================================================================
