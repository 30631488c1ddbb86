--------------------------- MODULE PlannerProofs ---------------------------
(***************************************************************************)
(* Machine-checked proofs about Planner, for all drafts, catalogs and      *)
(* every maxAttempts: type correctness, the recursion limit, what plan()   *)
(* promises, and what its rounds and its issues keep.                      *)
(***************************************************************************)
EXTENDS Planner, TLAPS

\* The states of a round before its design call, and from that call on.
SelectAwaits == {"loading", "choosing", "rechoosing", "picking", "resolving"}
BeforeDesign == {"idle", "intent", "asking", "select", "design"} \cup SelectAwaits
FromDesign   == {"designing", "validate", "correct", "end"}
Over         == {"closing", "settled"}

\* The nodes of a round.
RoundLength == IF catalogPathActive THEN 4 ELSE 3

\* The super-steps taken when the first node of a round is due: select, or,
\* without a catalog, design as if it followed one.
RoundStart == IF RoundLength = 4 THEN 4 * attempts - 2 ELSE 3 * attempts - 3

\* One design call per attempt, made by a round that has taken so many
\* super-steps and no more.
RoundInv ==
    /\ at = "idle" => attempts = 1
    /\ at \in {"intent", "asking", "select"} \cup SelectAwaits => RoundLength = 4
    /\ at \in BeforeDesign => designs = attempts - 1
    /\ at \in FromDesign => designs = attempts
    /\ at = "intent" => supersteps <= RoundStart - 1
    /\ at \in {"asking", "select"} => supersteps <= RoundStart
    /\ at \in SelectAwaits \cup {"design"} => supersteps <= RoundStart + 1
    /\ at \in {"designing", "validate"} => supersteps <= RoundStart + 2
    /\ at = "correct" => supersteps <= RoundStart + 3

\* A draft speaks of persisted ids only.
DraftInv ==
    \A d \in draft : /\ NodeIds(d) \subseteq Uuids
                     /\ d.flaws \subseteq Uuids
                     /\ \A e \in d.edges : e[1] \in Uuids /\ e[2] \in Uuids

-----------------------------------------------------------------------------
(* One design call per attempt.                                            *)

\* Entering a node takes a super-step, and ends in the node or in an abort.
LEMMA Entered ==
    ASSUME NEW node, NEW next, Enter(node, next)
    PROVE  /\ at = node /\ supersteps' = supersteps + 1
           /\ catalogPathActive' = catalogPathActive
           /\ \/ aborted /\ at' = "closing" /\ verdict' = "aborted"
              \/ ~aborted /\ at' = next /\ verdict' = verdict
BY Zenon DEF Enter, Leave

\* How a round goes on when attempts is counted up.
LEMMA NextRound ==
    ASSUME attempts \in Nat, RoundLength' = RoundLength
    PROVE  /\ RoundStart \in Int
           /\ attempts' = attempts => RoundStart' = RoundStart
           /\ attempts' = attempts + 1 =>
                 /\ RoundStart' >= RoundStart + 3 /\ RoundStart' \in Int
                 /\ RoundLength = 4 => RoundStart' = RoundStart + 4
BY DEF RoundStart

\* Whether there is a catalog was settled by the constructor.
LEMMA PathFixed == [Next]_vars => RoundLength' = RoundLength
<1> SUFFICES ASSUME [Next]_vars PROVE catalogPathActive' = catalogPathActive
  BY DEF RoundLength
<1>1. CASE PlanRejected \/ Plan
  BY <1>1 DEF PlanRejected, Refuse, Plan
<1>2. CASE Intent
  BY <1>2, Entered DEF Intent, EnterIntent, IntentAnswered, Await
<1>3. CASE Select
  BY <1>3, Entered DEF Select, EnterSelect, CatalogLoads, CatalogUnavailable, LoadAborts,
     KeysChosen, FirstChoiceEmpty, SecondChoiceEmpty, ResolveNext, SpecResolved, SelectDone, Await
<1>4. CASE Design
  BY <1>4, Entered DEF Design, EnterDesign, DraftDesigned, DraftUnparsable, ModelFails, Await
<1>5. CASE Checking
  BY <1>5, Entered DEF Checking, Validate, Correct
<1>6. CASE InvokeReturns \/ CleanUp \/ Abort \/ UNCHANGED vars
  BY <1>6 DEF InvokeReturns, CleanUp, Abort, vars
<1> QED
  BY <1>1, <1>2, <1>3, <1>4, <1>5, <1>6 DEF Next, Planning

LEMMA RoundInit == Init => RoundInv
BY DEF Init, RoundInv, RoundStart, BeforeDesign, FromDesign, SelectAwaits

LEMMA RoundStep == PlannerTypeOK /\ RoundInv /\ [Next]_vars => RoundInv'
<1> SUFFICES ASSUME PlannerTypeOK, RoundInv, [Next]_vars PROVE RoundInv'
  OBVIOUS
<1>0. attempts \in Nat /\ designs \in Nat /\ supersteps \in Nat
  BY OptionsAssumption DEF PlannerTypeOK, PipelinePlannerOptions
<1>p. RoundLength' = RoundLength
  BY PathFixed
<1>q. /\ RoundStart \in Int
      /\ attempts' = attempts => RoundStart' = RoundStart
      /\ attempts' = attempts + 1 =>
            /\ RoundStart' >= RoundStart + 3 /\ RoundStart' \in Int
            /\ RoundLength = 4 => RoundStart' = RoundStart + 4
  BY <1>0, <1>p, NextRound
<1> USE <1>0, <1>p, <1>q DEF RoundInv, BeforeDesign, FromDesign, SelectAwaits
<1>1. CASE PlanRejected
  <2>1. at' = "settled"
    BY <1>1 DEF PlanRejected, Refuse
  <2> QED
    BY <2>1
<1>2. CASE Plan
  <2>1. /\ at = "idle" /\ attempts' = attempts /\ designs' = designs /\ supersteps' = 1
        /\ \/ RoundLength = 4 /\ at' = "intent"
           \/ RoundLength = 3 /\ at' = "design"
    BY <1>2, Zenon DEF Plan, state, RoundLength
  <2> QED
    BY <2>1 DEF RoundStart
<1>3. CASE Intent
  <2>1. CASE EnterIntent
    <3>1. at = "intent" /\ attempts' = attempts /\ designs' = designs
          /\ supersteps' = supersteps + 1 /\ at' \in {"asking", "closing"}
      BY <2>1, Entered DEF EnterIntent, state
    <3> QED
      BY <3>1
  <2>2. CASE IntentAnswered
    <3>1. at = "asking" /\ attempts' = attempts /\ designs' = designs
          /\ supersteps' = supersteps /\ at' \in {"select", "design"}
      BY <2>2 DEF IntentAnswered, Await, state
    <3> QED
      BY <3>1
  <2> QED
    BY <1>3, <2>1, <2>2 DEF Intent
<1>4. CASE EnterSelect
  <2>1. at = "select" /\ attempts' = attempts /\ designs' = designs
        /\ supersteps' = supersteps + 1 /\ at' \in {"loading", "choosing", "closing"}
    BY <1>4, Entered DEF EnterSelect, state
  <2> QED
    BY <2>1
<1>5. CASE CatalogLoads \/ CatalogUnavailable \/ LoadAborts \/ KeysChosen \/ FirstChoiceEmpty
           \/ SecondChoiceEmpty \/ ResolveNext \/ SpecResolved \/ SelectDone
  <2>1. at \in SelectAwaits /\ attempts' = attempts /\ designs' = designs
        /\ supersteps' = supersteps /\ at' \in SelectAwaits \cup {"design", "closing"}
    BY <1>5 DEF CatalogLoads, CatalogUnavailable, LoadAborts, KeysChosen, FirstChoiceEmpty,
       SecondChoiceEmpty, ResolveNext, SpecResolved, SelectDone, WithoutSelection, Leave,
       Await, state
  <2> QED
    BY <2>1
<1>6. CASE EnterDesign
  <2>1. /\ at = "design" /\ attempts' = attempts /\ supersteps' = supersteps + 1
        /\ at' = "closing" \/ (at' = "designing" /\ designs' = designs + 1)
    <3>1. attempts' = attempts
      BY <1>6 DEF EnterDesign, state
    <3>2. ~aborted => designs' = designs + 1
      BY <1>6 DEF EnterDesign
    <3>3. at = "design" /\ supersteps' = supersteps + 1
      BY <1>6, Entered DEF EnterDesign
    <3>4. (aborted /\ at' = "closing") \/ (~aborted /\ at' = "designing")
      BY <1>6, Entered, Zenon DEF EnterDesign
    <3> QED
      BY <3>1, <3>2, <3>3, <3>4, Zenon
  <2> QED
    BY <2>1
<1>7. CASE DraftDesigned \/ DraftUnparsable
  <2>1. at = "designing" /\ attempts' = attempts /\ designs' = designs
        /\ supersteps' = supersteps /\ at' \in {"validate", "correct"}
    BY <1>7 DEF DraftDesigned, DraftUnparsable, Await
  <2> QED
    BY <2>1
<1>8. CASE ModelFails
  <2>1. at' = "closing"
    BY <1>8 DEF ModelFails, Leave
  <2> QED
    BY <2>1
<1>9. CASE Validate
  <2>1. at = "validate" /\ attempts' = attempts /\ designs' = designs
        /\ supersteps' = supersteps + 1 /\ at' \in {"end", "correct", "closing"}
    BY <1>9, Entered DEF Validate
  <2> QED
    BY <2>1
<1>10. CASE Correct
  <2>1. /\ at = "correct" /\ designs' = designs /\ supersteps' = supersteps + 1
        /\ \/ at' \in {"end", "closing"} /\ attempts' = attempts
           \/ at' = "design" /\ attempts' = attempts + 1
           \/ at' = "select" /\ attempts' = attempts + 1 /\ RoundLength = 4
    <3>1. CASE aborted \/ Exhausted
      BY <1>10, <3>1, Entered, Zenon DEF Correct
    <3>2. CASE ~(aborted \/ Exhausted)
      <4>1. at = "correct" /\ designs' = designs /\ supersteps' = supersteps + 1
            /\ attempts' = attempts + 1 /\ at' = CorrectTarget
        BY <1>10, <3>2, Entered, Zenon DEF Correct
      <4>2. CorrectTarget = "design" \/ (CorrectTarget = "select" /\ RoundLength = 4)
        <5>1. catalogPathActive => RoundLength = 4
          BY DEF RoundLength
        <5>2. ~catalogPathActive => CorrectTarget = "design"
          BY DEF CorrectTarget
        <5>3. CorrectTarget \in {"design", "select"}
          BY DEF CorrectTarget
        <5>4. CorrectTarget = "design" \/ CorrectTarget = "select"
          BY <5>3
        <5> QED
          BY <5>1, <5>2, <5>4, Zenon
      <4> QED
        BY <4>1, <4>2
    <3> QED
      BY <3>1, <3>2
  <2> QED
    BY <2>1
<1>11. CASE InvokeReturns \/ CleanUp
  <2>1. at' \in {"closing", "settled"}
    BY <1>11 DEF InvokeReturns, CleanUp, Leave
  <2> QED
    BY <2>1
<1>12. CASE Abort \/ UNCHANGED vars
  <2>1. at' = at /\ attempts' = attempts /\ designs' = designs /\ supersteps' = supersteps
    BY <1>12 DEF Abort, vars, state
  <2> QED
    BY <2>1
<1> QED
  BY <1>1, <1>2, <1>3, <1>4, <1>5, <1>6, <1>7, <1>8, <1>9, <1>10, <1>11, <1>12
     DEF Next, Planning, Select, Design, Checking

-----------------------------------------------------------------------------
(* Which actions write what.                                               *)

Frames ==
    /\ DraftDesigned \/ (draft' = draft /\ idMap' = idMap)
    /\ DraftUnparsable \/ Validate \/ issues' = issues
    /\ KeysChosen \/ SpecResolved \/ (chosen' = chosen /\ resolved' = resolved)
    /\ SelectDone \/ mcpSpecs' = mcpSpecs
    /\ CatalogLoads \/ (boxed' = boxed /\ offered' = offered)
    /\ CatalogLoads \/ CleanUp \/ open' = open
    /\ Correct \/ attempts' = attempts
    /\ EnterDesign \/ designs' = designs

LEMMA FramesHold == [Next]_vars => Frames
<1> SUFFICES ASSUME [Next]_vars PROVE Frames
  OBVIOUS
<1> USE DEF Frames, state, selecting, loaded
<1>1. CASE PlanRejected \/ Plan
  BY <1>1 DEF PlanRejected, Refuse, Plan
<1>2. CASE Intent
  BY <1>2 DEF Intent, EnterIntent, IntentAnswered
<1>3. CASE EnterSelect \/ CatalogLoads \/ CatalogUnavailable \/ LoadAborts \/ KeysChosen
  BY <1>3 DEF EnterSelect, CatalogLoads, CatalogUnavailable, LoadAborts, KeysChosen,
     WithoutSelection
<1>4. CASE FirstChoiceEmpty \/ SecondChoiceEmpty \/ ResolveNext \/ SpecResolved \/ SelectDone
  BY <1>4 DEF FirstChoiceEmpty, SecondChoiceEmpty, ResolveNext, SpecResolved, SelectDone,
     WithoutSelection
<1>5. CASE Design
  BY <1>5 DEF Design, EnterDesign, DraftDesigned, DraftUnparsable, ModelFails
<1>6. CASE Checking
  BY <1>6 DEF Checking, Validate, Correct
<1>7. CASE InvokeReturns \/ CleanUp \/ Abort \/ UNCHANGED vars
  BY <1>7 DEF InvokeReturns, CleanUp, Abort, vars
<1> QED
  BY <1>1, <1>2, <1>3, <1>4, <1>5, <1>6, <1>7 DEF Next, Planning, Select

-----------------------------------------------------------------------------
(* Type correctness.                                                       *)

\* What the model answers with, under persisted ids.
LEMMA Designed ==
    ASSUME PlannerTypeOK, designs \in 1..MaxAttempts, NEW answer \in Answers
    PROVE  LET ids == buildIdAssignment(answer)
               d == Persisted(answer, ids)
           IN  /\ DOMAIN ids \subseteq ShortIds /\ \A i \in DOMAIN ids : ids[i] \in Uuids
               /\ NodeIds(d) \subseteq Uuids /\ d.flaws \subseteq Uuids
               /\ \A e \in d.edges : e[1] \in Uuids /\ e[2] \in Uuids
<1> DEFINE ids == buildIdAssignment(answer)
           d == Persisted(answer, ids)
<1>1. PlannerDraftSchema(answer)
  BY AnswersAssumption
<1>2. \A k \in DOMAIN answer.nodes : answer.nodes[k].id \in ShortIds
  <2> DEFINE Node == [id : ShortIds, key : Keys]
             ns == answer.nodes
  <2>1. ns \in Seq(Node)
    BY <1>1 DEF PlannerDraftSchema
  <2>2. \A n \in Node : n.id \in ShortIds
    OBVIOUS
  <2> HIDE DEF Node, ns
  <2>3. \A k \in DOMAIN ns : ns[k] \in Node
    BY <2>1
  <2>4. \A k \in DOMAIN ns : ns[k].id \in ShortIds
    BY <2>2, <2>3
  <2> QED
    BY <2>4 DEF ns
<1>3. \A e \in answer.edges : e[1] \in ShortIds /\ e[2] \in ShortIds
  BY <1>1 DEF PlannerDraftSchema
<1>4. ShortIdsOf(answer) \subseteq ShortIds
  BY <1>2, <1>3 DEF ShortIdsOf
<1>5. DOMAIN idMap \subseteq ShortIds /\ \A i \in DOMAIN idMap : idMap[i] \in Uuids
  BY DEF PlannerTypeOK
<1>6. DOMAIN ids = DOMAIN idMap \cup ShortIdsOf(answer)
  BY DEF buildIdAssignment
<1>7. \A i \in DOMAIN ids : ids[i] \in Uuids
  <2>1. \A i \in ShortIds : <<i, designs>> \in Uuids
    BY DEF Uuids
  <2> QED
    BY <1>4, <1>5, <2>1 DEF buildIdAssignment
<1>8. \A i \in ShortIdsOf(answer) : ids[i] \in Uuids
  BY <1>6, <1>7
<1> HIDE DEF ids
<1>9. NodeIds(d) \subseteq Uuids
  <2>1. \A k \in DOMAIN answer.nodes : answer.nodes[k].id \in ShortIdsOf(answer)
    BY DEF ShortIdsOf
  <2> QED
    BY <1>8, <2>1 DEF NodeIds, Persisted
<1>10. d.flaws \subseteq Uuids
  <2>1. answer.flaws \subseteq ShortIdsOf(answer)
    BY <1>1 DEF PlannerDraftSchema, ShortIdsOf
  <2> QED
    BY <1>8, <2>1 DEF Persisted
<1>11. \A e \in d.edges : e[1] \in Uuids /\ e[2] \in Uuids
  <2>1. \A e \in answer.edges : e[1] \in ShortIdsOf(answer) /\ e[2] \in ShortIdsOf(answer)
    BY DEF ShortIdsOf
  <2> QED
    BY <1>8, <2>1 DEF Persisted
<1> QED
  BY <1>4, <1>5, <1>6, <1>7, <1>9, <1>10, <1>11 DEF ids

LEMMA TypeInit == Init => PlannerTypeOK /\ DraftInv
<1> SUFFICES ASSUME Init PROVE PlannerTypeOK /\ DraftInv
  OBVIOUS
<1>1. attempts \in 1..MaxAttempts /\ designs \in 0..MaxAttempts /\ supersteps \in Nat /\ open \in Nat
  BY OptionsAssumption DEF Init, PipelinePlannerOptions
<1>2. DOMAIN idMap = {} /\ issues = {} /\ draft = {}
  BY DEF Init
<1>3. /\ mcpSpecs \subseteq McpKeys /\ chosen \subseteq McpKeys /\ resolved \subseteq McpKeys
      /\ offered \subseteq McpKeys
  BY DEF Init
<1>4. /\ catalogPathActive \in BOOLEAN /\ aborted \in BOOLEAN /\ designError \in BOOLEAN
      /\ boxed \in BOOLEAN /\ at = "idle" /\ verdict = "none"
  BY DEF Init
<1> QED
  BY <1>1, <1>2, <1>3, <1>4 DEF PlannerTypeOK, DraftInv

\* The ids of drafts, of issues and of the id map.
LEMMA IdsStep ==
    PlannerTypeOK /\ RoundInv /\ DraftInv /\ [Next]_vars =>
        /\ DOMAIN idMap' \subseteq ShortIds /\ \A i \in DOMAIN idMap' : idMap'[i] \in Uuids
        /\ \A issue \in issues' : issue.node \in Uuids \cup {NoNode}
        /\ DraftInv'
<1> SUFFICES ASSUME PlannerTypeOK, RoundInv, DraftInv, [Next]_vars
             PROVE  /\ DOMAIN idMap' \subseteq ShortIds
                    /\ \A i \in DOMAIN idMap' : idMap'[i] \in Uuids
                    /\ \A issue \in issues' : issue.node \in Uuids \cup {NoNode}
                    /\ DraftInv'
  OBVIOUS
<1>0. /\ DOMAIN idMap \subseteq ShortIds /\ \A i \in DOMAIN idMap : idMap[i] \in Uuids
      /\ \A issue \in issues : issue.node \in Uuids \cup {NoNode}
  BY DEF PlannerTypeOK
<1>1. CASE DraftDesigned
  <2>1. designs \in 1..MaxAttempts
    BY <1>1, OptionsAssumption DEF DraftDesigned, Await, PlannerTypeOK, RoundInv, FromDesign,
       PipelinePlannerOptions
  <2>2. PICK answer \in Answers :
            /\ draft' = {Persisted(answer, buildIdAssignment(answer))}
            /\ idMap' = MergeIds(buildIdAssignment(answer))
    BY <1>1 DEF DraftDesigned
  <2> DEFINE ids == buildIdAssignment(answer)
             d == Persisted(answer, ids)
  <2>3. /\ DOMAIN ids \subseteq ShortIds /\ \A i \in DOMAIN ids : ids[i] \in Uuids
        /\ NodeIds(d) \subseteq Uuids /\ d.flaws \subseteq Uuids
        /\ \A e \in d.edges : e[1] \in Uuids /\ e[2] \in Uuids
    BY <2>1, Designed
  <2> HIDE DEF ids
  <2>4. draft' = {d} /\ idMap' = MergeIds(ids)
    BY <2>2 DEF ids
  <2>5. DOMAIN idMap' \subseteq ShortIds /\ \A i \in DOMAIN idMap' : idMap'[i] \in Uuids
    BY <1>0, <2>3, <2>4 DEF MergeIds
  <2>6. issues' = issues
    BY <1>1 DEF DraftDesigned
  <2> HIDE DEF d
  <2>7. DraftInv'
    BY <2>3, <2>4 DEF DraftInv, NodeIds, Uuids
  <2> QED
    BY <1>0, <2>5, <2>6, <2>7
<1>2. CASE ~DraftDesigned
  <2>1. draft' = draft /\ idMap' = idMap
    BY <1>2, FramesHold DEF Frames
  <2>2. DraftInv'
    BY <2>1 DEF DraftInv, NodeIds, Uuids
  <2>3. \A issue \in issues' : issue.node \in Uuids \cup {NoNode}
    <3>1. CASE DraftUnparsable
      BY <1>0, <3>1 DEF DraftUnparsable, KeepComplaint
    <3>2. CASE Validate
      <4>1. \A d \in draft : \A issue \in IssuesOf(d) : issue.node \in Uuids
        <5> SUFFICES ASSUME NEW d \in draft, NEW issue \in IssuesOf(d)
                     PROVE  issue.node \in Uuids
          OBVIOUS
        <5>1. NodeIds(d) \subseteq Uuids /\ d.flaws \subseteq Uuids
              /\ \A e \in d.edges : e[1] \in Uuids /\ e[2] \in Uuids
          BY DEF DraftInv
        <5>2. DuplicateIds(d) \subseteq Uuids /\ UnknownKeyNodes(d) \subseteq Uuids
          BY <5>1 DEF DuplicateIds, UnknownKeyNodes, NodeIds
        <5>3. DanglingEnds(d) \subseteq Uuids
          BY <5>1 DEF DanglingEnds
        <5> QED
          BY <5>1, <5>2, <5>3 DEF IssuesOf
      <4>2. issues' = issues \/ issues' = UNION {IssuesOf(d) : d \in draft}
        BY <3>2 DEF Validate
      <4> QED
        BY <1>0, <4>1, <4>2
    <3>3. CASE issues' = issues
      BY <1>0, <3>3
    <3> QED
      BY <3>1, <3>2, <3>3, FramesHold DEF Frames
  <2> QED
    BY <1>0, <2>1, <2>2, <2>3
<1> QED
  BY <1>1, <1>2

\* The numbers.
LEMMA CountsStep ==
    PlannerTypeOK /\ RoundInv /\ [Next]_vars =>
        attempts' \in 1..MaxAttempts /\ designs' \in 0..MaxAttempts
<1> SUFFICES ASSUME PlannerTypeOK, RoundInv, [Next]_vars
             PROVE  attempts' \in 1..MaxAttempts /\ designs' \in 0..MaxAttempts
  OBVIOUS
<1>0. /\ MaxAttempts \in Nat \ {0} /\ attempts \in 1..MaxAttempts
      /\ designs \in 0..MaxAttempts
  BY OptionsAssumption DEF PlannerTypeOK, PipelinePlannerOptions
<1>1. attempts' \in 1..MaxAttempts
  <2>1. CASE Correct
    <3>1. CASE aborted \/ Exhausted
      BY <1>0, <2>1, <3>1, Zenon DEF Correct
    <3>2. CASE ~(aborted \/ Exhausted)
      <4>1. attempts' = attempts + 1
        BY <2>1, <3>2, Zenon DEF Correct
      <4>2. ~(attempts >= MaxAttempts)
        BY <3>2, Zenon DEF Exhausted
      <4> QED
        BY <1>0, <4>1, <4>2
    <3> QED
      BY <3>1, <3>2
  <2> QED
    BY <1>0, <2>1, FramesHold DEF Frames
<1>2. designs' \in 0..MaxAttempts
  <2>1. CASE EnterDesign
    <3>1. designs' = designs \/ designs' = designs + 1
      BY <2>1 DEF EnterDesign
    <3>2. at = "design"
      BY <2>1, Entered DEF EnterDesign
    <3>3. designs = attempts - 1
      BY <3>2 DEF RoundInv, BeforeDesign
    <3> QED
      BY <1>0, <3>1, <3>3
  <2> QED
    BY <1>0, <2>1, FramesHold DEF Frames
<1> QED
  BY <1>1, <1>2

\* The flags, and the position of plan().
LEMMA PlaceStep ==
    PlannerTypeOK /\ [Next]_vars =>
        /\ catalogPathActive' \in BOOLEAN /\ aborted' \in BOOLEAN
        /\ designError' \in BOOLEAN /\ boxed' \in BOOLEAN
        /\ at' \in {"idle", "end", "closing", "settled"} \cup Due \cup Awaited
        /\ verdict' \in {"none", "clean", "unresolved", "exhausted", "aborted", "failed"}
        /\ supersteps' \in Nat
<1> DEFINE At == {"idle", "end", "closing", "settled"} \cup Due \cup Awaited
           Verdict == {"none", "clean", "unresolved", "exhausted", "aborted", "failed"}
           Goal == /\ catalogPathActive' \in BOOLEAN /\ aborted' \in BOOLEAN
                   /\ designError' \in BOOLEAN /\ boxed' \in BOOLEAN
                   /\ at' \in At /\ verdict' \in Verdict /\ supersteps' \in Nat
<1> SUFFICES ASSUME PlannerTypeOK, [Next]_vars PROVE Goal
  OBVIOUS
<1>0. /\ catalogPathActive \in BOOLEAN /\ aborted \in BOOLEAN
      /\ designError \in BOOLEAN /\ boxed \in BOOLEAN
      /\ at \in At /\ verdict \in Verdict /\ supersteps \in Nat
  BY DEF PlannerTypeOK
<1>e. ASSUME NEW node, NEW next \in At, Enter(node, next), designError' = designError, boxed' = boxed
      PROVE  Goal
  <2>1. supersteps' \in Nat /\ at' \in At /\ verdict' \in Verdict
    BY <1>0, <1>e, Entered
  <2>2. catalogPathActive' \in BOOLEAN /\ aborted' \in BOOLEAN
    BY <1>0, <1>e DEF Enter
  <2> QED
    BY <1>0, <1>e, <2>1, <2>2
<1> USE DEF Due, Awaited, state, selecting, loaded
<1>1. CASE PlanRejected \/ Plan
  BY <1>0, <1>1 DEF PlanRejected, Refuse, Plan
<1>2. CASE EnterIntent \/ EnterSelect \/ EnterDesign
  BY <1>e, <1>2 DEF EnterIntent, EnterSelect, EnterDesign
<1>3. CASE IntentAnswered \/ CatalogLoads \/ CatalogUnavailable \/ LoadAborts \/ KeysChosen
  BY <1>0, <1>3 DEF IntentAnswered, CatalogLoads, CatalogUnavailable, LoadAborts, KeysChosen,
     Await, Leave, WithoutSelection
<1>4. CASE FirstChoiceEmpty \/ SecondChoiceEmpty \/ ResolveNext \/ SpecResolved \/ SelectDone
  BY <1>0, <1>4 DEF FirstChoiceEmpty, SecondChoiceEmpty, ResolveNext, SpecResolved, SelectDone,
     Await, Leave, WithoutSelection
<1>5. CASE DraftDesigned \/ DraftUnparsable \/ ModelFails
  BY <1>0, <1>5 DEF DraftDesigned, DraftUnparsable, ModelFails, Await, Leave
<1>6. CASE Validate \/ Correct
  BY <1>e, <1>6 DEF Validate, Correct, CorrectTarget
<1>7. CASE InvokeReturns \/ CleanUp
  BY <1>0, <1>7 DEF InvokeReturns, CleanUp, Leave
<1>8. CASE Abort
  BY <1>0, <1>8, Zenon DEF Abort
<1>9. CASE UNCHANGED vars
  BY <1>0, <1>9, Zenon DEF vars
<1> QED
  BY <1>1, <1>2, <1>3, <1>4, <1>5, <1>6, <1>7, <1>8, <1>9
     DEF Next, Planning, Intent, Select, Design, Checking

\* The sets of keys.
LEMMA KeysStep ==
    PlannerTypeOK /\ [Next]_vars =>
        /\ mcpSpecs' \subseteq McpKeys /\ chosen' \subseteq McpKeys /\ resolved' \subseteq McpKeys
        /\ offered' \subseteq McpKeys
<1> SUFFICES ASSUME PlannerTypeOK, [Next]_vars
             PROVE  /\ mcpSpecs' \subseteq McpKeys /\ chosen' \subseteq McpKeys
                    /\ resolved' \subseteq McpKeys /\ offered' \subseteq McpKeys
  OBVIOUS
<1>0. /\ mcpSpecs \subseteq McpKeys /\ chosen \subseteq McpKeys /\ resolved \subseteq McpKeys
      /\ offered \subseteq McpKeys
  BY DEF PlannerTypeOK
<1>1. chosen' \subseteq McpKeys /\ resolved' \subseteq McpKeys
  <2>1. CASE KeysChosen
    BY <1>0, <2>1 DEF KeysChosen
  <2>2. CASE SpecResolved
    BY <1>0, <2>2 DEF SpecResolved
  <2> QED
    BY <1>0, <2>1, <2>2, FramesHold DEF Frames
<1>2. mcpSpecs' \subseteq McpKeys
  BY <1>0, FramesHold DEF Frames, SelectDone, mergeResolvedMcpSpecs
<1>3. offered' \subseteq McpKeys
  BY <1>0, FramesHold, OptionsAssumption DEF Frames, CatalogLoads, PipelinePlannerOptions
<1> QED
  BY <1>1, <1>2, <1>3

-----------------------------------------------------------------------------
(* Where plan() may go.                                                    *)

Moves ==
    /\ at' = "idle" => at = "idle"
    /\ at' = "loading" => at = "loading" \/ (at = "select" /\ ~boxed)
    /\ at = "validate" => Validate \/ at' = at
    /\ at' = "validate" => DraftDesigned \/ at = "validate"
    /\ at' = "end" => Validate \/ (Correct /\ Exhausted) \/ at = "end"
    /\ at' = "settled" => PlanRejected \/ CleanUp \/ at = "settled"
    /\ at = "settled" => at' = "settled"
    /\ at \in Over => at' \in Over /\ verdict' = verdict
    /\ at \notin Over => \/ at' \notin Over /\ verdict' = verdict
                         \/ at' \in Over /\ verdict' \in {"aborted", "failed"}
                         \/ InvokeReturns

LEMMA MovesHold == [Next]_vars => Moves
<1> SUFFICES ASSUME [Next]_vars PROVE Moves
  OBVIOUS
<1> USE DEF Moves, Over, state, selecting, loaded
<1>1. CASE PlanRejected \/ Plan
  BY <1>1 DEF PlanRejected, Refuse, Plan
<1>2. CASE EnterIntent \/ EnterSelect \/ EnterDesign
  <2>1. CASE EnterIntent
    BY <2>1, Entered DEF EnterIntent
  <2>2. CASE EnterSelect
    <3>1. at = "select" /\ at' \in {"loading", "choosing", "closing"}
      BY <2>2, Entered DEF EnterSelect
    <3>2. at' = "loading" => ~boxed
      <4> SUFFICES ASSUME boxed PROVE at' # "loading"
        OBVIOUS
      <4>1. (IF MustLoad THEN "loading" ELSE "choosing") = "choosing"
        BY DEF MustLoad
      <4> QED
        BY <2>2, <4>1, Entered DEF EnterSelect
    <3>3. verdict' = verdict \/ (at' = "closing" /\ verdict' = "aborted")
      BY <2>2, Entered, Zenon DEF EnterSelect
    <3>4. at' = "closing" => verdict' = "aborted"
      BY <2>2, Entered DEF EnterSelect
    <3> QED
      BY <3>1, <3>2, <3>3, <3>4
  <2>3. CASE EnterDesign
    BY <2>3, Entered DEF EnterDesign
  <2> QED
    BY <1>2, <2>1, <2>2, <2>3
<1>3. CASE IntentAnswered \/ CatalogLoads \/ CatalogUnavailable \/ LoadAborts \/ KeysChosen
  BY <1>3 DEF IntentAnswered, CatalogLoads, CatalogUnavailable, LoadAborts, KeysChosen,
     Await, Leave, WithoutSelection
<1>4. CASE FirstChoiceEmpty \/ SecondChoiceEmpty \/ ResolveNext \/ SpecResolved \/ SelectDone
  BY <1>4 DEF FirstChoiceEmpty, SecondChoiceEmpty, ResolveNext, SpecResolved, SelectDone,
     Await, Leave, WithoutSelection
<1>5. CASE DraftDesigned \/ DraftUnparsable \/ ModelFails
  BY <1>5 DEF DraftDesigned, DraftUnparsable, ModelFails, Await, Leave
<1>6. CASE Validate
  BY <1>6, Entered DEF Validate
<1>7. CASE Correct
  <2>1. at = "correct" /\ at' \in {"end", "closing", "design", "select"}
    BY <1>7, Entered DEF Correct, CorrectTarget
  <2>2. at' = "end" => Exhausted
    BY <1>7, Entered DEF Correct, CorrectTarget
  <2>3. IF at' = "closing" THEN verdict' = "aborted" ELSE verdict' = verdict
    BY <1>7, Entered DEF Correct, CorrectTarget
  <2> QED
    BY <1>7, <2>1, <2>2, <2>3
<1>8. CASE InvokeReturns \/ CleanUp
  BY <1>8 DEF InvokeReturns, CleanUp, Leave
<1>9. CASE Abort \/ UNCHANGED vars
  BY <1>9 DEF Abort, vars
<1> QED
  BY <1>1, <1>2, <1>3, <1>4, <1>5, <1>6, <1>7, <1>8, <1>9
     DEF Next, Planning, Intent, Select, Design, Checking

-----------------------------------------------------------------------------
(* The catalog.                                                            *)

\* A loaded catalog is open until plan() settles.
OpenInv ==
    /\ at \in {"idle", "loading"} => ~boxed
    /\ at = "settled" => open = 0
    /\ at # "settled" => (boxed => open = 1) /\ (~boxed => open = 0)

LEMMA OpenStep == PlannerTypeOK /\ OpenInv /\ [Next]_vars => OpenInv'
<1> SUFFICES ASSUME PlannerTypeOK, OpenInv, [Next]_vars PROVE OpenInv'
  OBVIOUS
<1>m. Moves
  BY MovesHold
<1>f. Frames
  BY FramesHold
<1>1. CASE CatalogLoads
  <2>1. at = "loading" /\ at' = "choosing" /\ open' = open + 1 /\ boxed'
    BY <1>1 DEF CatalogLoads, Await
  <2> QED
    BY <2>1 DEF OpenInv
<1>2. CASE CleanUp
  <2>1. at = "closing" /\ at' = "settled"
    BY <1>2 DEF CleanUp
  <2>2. boxed => open' = open - 1
    BY <1>2, Zenon DEF CleanUp, CleanUpDue
  <2>3. ~boxed => open' = open
    BY <1>2, Zenon DEF CleanUp, CleanUpDue
  <2>4. open' = 0
    BY <2>1, <2>2, <2>3 DEF OpenInv, PlannerTypeOK
  <2> QED
    BY <2>1, <2>4 DEF OpenInv
<1>3. CASE ~CatalogLoads /\ ~CleanUp
  <2>1. boxed' = boxed /\ open' = open
    BY <1>3, <1>f DEF Frames
  <2>2. at' \in {"idle", "loading"} => ~boxed
    BY <1>m DEF Moves, OpenInv
  <2>3. at' = "settled" => open = 0
    <3>1. PlanRejected => at = "idle"
      BY DEF PlanRejected, Refuse
    <3> QED
      BY <1>3, <1>m, <3>1 DEF Moves, OpenInv
  <2>4. at = "settled" => at' = "settled"
    BY <1>m DEF Moves
  <2> QED
    BY <2>1, <2>2, <2>3, <2>4 DEF OpenInv
<1> QED
  BY <1>1, <1>2, <1>3

-----------------------------------------------------------------------------
(* Verdicts.                                                               *)

\* Giving up takes every attempt, a clean verdict a draft.
EndInv ==
    /\ draft # {} => designs > 0
    /\ at = "validate" => draft # {}
    /\ at = "end" => attempts = MaxAttempts \/ (issues = {} /\ draft # {})
    /\ at \notin Over => verdict = "none"
    /\ at \in Over =>
          /\ verdict \in {"clean", "unresolved", "exhausted", "aborted", "failed"}
          /\ verdict \in {"unresolved", "exhausted"} => designs = MaxAttempts
          /\ verdict = "clean" => designs > 0

LEMMA EndInit == Init => EndInv
BY DEF Init, EndInv, Over

LEMMA EndStep == PlannerTypeOK /\ RoundInv /\ EndInv /\ [Next]_vars => EndInv'
<1> SUFFICES ASSUME PlannerTypeOK, RoundInv, EndInv, [Next]_vars PROVE EndInv'
  OBVIOUS
<1>m. Moves
  BY MovesHold
<1>f. Frames
  BY FramesHold
<1>0. /\ MaxAttempts \in Nat \ {0} /\ attempts \in 1..MaxAttempts
      /\ designs \in 0..MaxAttempts
  BY OptionsAssumption DEF PlannerTypeOK, PipelinePlannerOptions
<1>1. designs' = designs \/ designs' = designs + 1
  BY <1>f DEF Frames, EnterDesign
<1>2. at \in Over => designs' = designs
  <2>1. EnterDesign => at = "design"
    BY Entered DEF EnterDesign
  <2> QED
    BY <1>f, <2>1 DEF Frames, Over
<1>3. draft' # {} => designs' > 0
  <2>1. CASE DraftDesigned
    BY <1>0, <2>1 DEF DraftDesigned, Await, RoundInv, FromDesign
  <2>2. CASE draft' = draft
    BY <1>0, <1>1, <2>2 DEF EndInv
  <2> QED
    BY <1>f, <2>1, <2>2 DEF Frames
<1>4. at' = "validate" => draft' # {}
  <2>1. CASE DraftDesigned
    BY <2>1 DEF DraftDesigned
  <2>2. CASE ~DraftDesigned
    BY <2>2, <1>m, <1>f DEF Frames, Moves, EndInv
  <2> QED
    BY <2>1, <2>2
<1>5. at' = "end" => attempts' = MaxAttempts \/ (issues' = {} /\ draft' # {})
  <2> SUFFICES ASSUME at' = "end" PROVE attempts' = MaxAttempts \/ (issues' = {} /\ draft' # {})
    OBVIOUS
  <2>1. CASE Validate
    <3>1. at = "validate" /\ draft' = draft
      BY <2>1, Entered DEF Validate
    <3>2. ~aborted
      BY <2>1, Entered DEF Validate
    <3>3. issues' = UNION {IssuesOf(d) : d \in draft}
      BY <2>1, <3>2 DEF Validate
    <3>4. UNION {IssuesOf(d) : d \in draft} = {}
      <4> DEFINE found == UNION {IssuesOf(d) : d \in draft}
      <4> SUFFICES ASSUME found # {} PROVE FALSE
        OBVIOUS
      <4>1. Enter("validate", "correct")
        BY <2>1 DEF Validate
      <4> QED
        BY <4>1, Entered
    <3> QED
      BY <3>1, <3>3, <3>4 DEF EndInv
  <2>2. CASE Correct /\ Exhausted
    <3>1. attempts' = attempts
      BY <2>2, Zenon DEF Correct
    <3> QED
      BY <1>0, <2>2, <3>1 DEF Exhausted
  <2>3. CASE at = "end"
    <3>1. ~DraftDesigned /\ ~DraftUnparsable /\ ~Validate /\ ~Correct
      BY <2>3, Entered DEF DraftDesigned, DraftUnparsable, Validate, Correct, Await
    <3> QED
      BY <2>3, <3>1, <1>f DEF Frames, EndInv
  <2> QED
    BY <2>1, <2>2, <2>3, <1>m DEF Moves
<1>6. at' \notin Over => verdict' = "none"
  <2>1. CASE InvokeReturns
    BY <2>1 DEF InvokeReturns, Leave, Over
  <2> QED
    BY <2>1, <1>m DEF Moves, EndInv
<1>7. ASSUME at' \in Over
      PROVE  /\ verdict' \in {"clean", "unresolved", "exhausted", "aborted", "failed"}
             /\ verdict' \in {"unresolved", "exhausted"} => designs' = MaxAttempts
             /\ verdict' = "clean" => designs' > 0
  <2>1. CASE InvokeReturns
    <3>1. at = "end" /\ designs' = designs
      BY <2>1 DEF InvokeReturns
    <3>2. designs = attempts /\ (attempts = MaxAttempts \/ (issues = {} /\ draft # {}))
      BY <3>1 DEF RoundInv, EndInv, FromDesign
    <3>3. \/ verdict' = "exhausted" /\ draft = {}
          \/ verdict' = "clean" /\ draft # {}
          \/ verdict' = "unresolved" /\ issues # {}
      BY <2>1 DEF InvokeReturns, Leave
    <3> QED
      BY <1>0, <3>1, <3>2, <3>3 DEF EndInv
  <2>2. CASE at \notin Over /\ verdict' \in {"aborted", "failed"}
    BY <2>2
  <2>3. CASE at \in Over
    BY <1>2, <1>m, <2>3 DEF Moves, EndInv
  <2> QED
    BY <1>7, <2>1, <2>2, <2>3, <1>m DEF Moves
<1> QED
  BY <1>3, <1>4, <1>5, <1>6, <1>7 DEF EndInv

-----------------------------------------------------------------------------
(* Issues.                                                                 *)

\* Between its validation and the next draft the issues cover the draft.
TellInv ==
    at # "validate" /\ verdict \in {"none", "clean", "unresolved"} =>
        \A d \in draft : IssuesOf(d) \subseteq issues

\* Specs are only ever added.
LEMMA SpecsGrow == [Next]_vars => mcpSpecs \subseteq mcpSpecs'
<1> SUFFICES ASSUME [Next]_vars PROVE mcpSpecs \subseteq mcpSpecs'
  OBVIOUS
<1> QED
  BY FramesHold DEF Frames, SelectDone, mergeResolvedMcpSpecs

\* With more specs a draft has fewer issues.
LEMMA IssuesShrink ==
    ASSUME mcpSpecs \subseteq mcpSpecs', NEW d
    PROVE  IssuesOf(d)' \subseteq IssuesOf(d)
<1>1. UnknownKeyNodes(d)' \subseteq UnknownKeyNodes(d)
  BY DEF UnknownKeyNodes, KnownKeys
<1>2. DuplicateIds(d)' = DuplicateIds(d) /\ DanglingEnds(d)' = DanglingEnds(d)
  BY DEF DuplicateIds, DanglingEnds, NodeIds
<1> QED
  BY <1>1, <1>2 DEF IssuesOf

LEMMA TellStep == EndInv /\ TellInv /\ [Next]_vars => TellInv'
<1> SUFFICES ASSUME EndInv, TellInv, [Next]_vars,
                    at' # "validate", verdict' \in {"none", "clean", "unresolved"}
             PROVE  \A d \in draft' : IssuesOf(d)' \subseteq issues'
  BY DEF TellInv
<1>m. Moves
  BY MovesHold
<1>f. Frames
  BY FramesHold
<1>g. \A d : IssuesOf(d)' \subseteq IssuesOf(d)
  BY SpecsGrow, IssuesShrink
<1>1. draft' = draft
  BY <1>f DEF Frames, DraftDesigned
<1>2. CASE Validate
  <2>1. ~aborted
    BY <1>2, Entered DEF Validate
  <2>2. issues' = UNION {IssuesOf(d) : d \in draft}
    BY <1>2, <2>1 DEF Validate
  <2> QED
    BY <1>1, <1>g, <2>2
<1>3. CASE ~Validate
  <2>1. at # "validate"
    BY <1>3, <1>m DEF Moves
  <2>2. verdict \in {"none", "clean", "unresolved"}
    BY <1>m DEF Moves, EndInv
  <2>3. issues \subseteq issues'
    BY <1>3, <1>f DEF Frames, DraftUnparsable, KeepComplaint
  <2> QED
    BY <1>1, <1>g, <2>1, <2>2, <2>3 DEF TellInv
<1> QED
  BY <1>2, <1>3

-----------------------------------------------------------------------------
(* The theorems.                                                           *)

IInv == PlannerTypeOK /\ DraftInv /\ RoundInv /\ OpenInv /\ EndInv /\ TellInv

LEMMA TypeStep == IInv /\ [Next]_vars => PlannerTypeOK'
<1> SUFFICES ASSUME IInv, [Next]_vars PROVE PlannerTypeOK'
  OBVIOUS
<1>1. OpenInv' /\ boxed' \in BOOLEAN
  BY OpenStep, PlaceStep DEF IInv
<1>2. open' \in Nat
  BY <1>1 DEF OpenInv
<1> QED
  BY <1>2, PlaceStep, CountsStep, KeysStep, IdsStep DEF IInv, PlannerTypeOK

\* The inductive invariant: rounds, drafts, the catalog, issues and endings.
THEOREM Invariance == Spec => []IInv
<1>1. Init => IInv
  <2>1. Init => OpenInv /\ TellInv
    BY DEF Init, OpenInv, TellInv
  <2> QED
    BY <2>1, TypeInit, RoundInit, EndInit DEF IInv
<1>2. IInv /\ [Next]_vars => IInv'
  BY TypeStep, IdsStep, RoundStep, OpenStep, EndStep, TellStep DEF IInv
<1> QED
  BY <1>1, <1>2, PTL DEF Spec

\* The variables keep their types (PlannerTypeOK).
THEOREM TypeCorrect == Spec => []PlannerTypeOK
<1>1. IInv => PlannerTypeOK
  BY DEF IInv
<1> QED
  BY <1>1, Invariance, PTL

\* LangGraph's recursion limit never stops a planner, whatever maxAttempts is
\* (planner.ts: recursionLimit).
THEOREM LimitNeverBites == Spec => []WithinRecursionLimit
<1>1. IInv => WithinRecursionLimit
  <2> SUFFICES ASSUME IInv, at \in Due PROVE supersteps < RecursionLimit
    BY DEF WithinRecursionLimit
  <2>0. attempts \in 1..MaxAttempts /\ supersteps \in Nat /\ MaxAttempts \in Nat
    BY OptionsAssumption DEF IInv, PlannerTypeOK, PipelinePlannerOptions
  <2>1. RoundStart \in Int
    BY <2>0 DEF RoundStart
  <2>2. supersteps <= RoundStart + 3
    BY <2>0, <2>1 DEF IInv, RoundInv, Due, SelectAwaits
  <2>3. CASE catalogPathActive
    <3>1. RoundLength = 4 /\ RecursionLimit = MaxAttempts * 4 + 3
      BY <2>3 DEF RoundLength, RecursionLimit
    <3>2. RoundStart = 4 * attempts - 2
      BY <3>1 DEF RoundStart
    <3> QED
      BY <2>0, <2>2, <3>1, <3>2
  <2>4. CASE ~catalogPathActive
    <3>1. RoundLength = 3 /\ RecursionLimit = MaxAttempts * 3 + 2
      BY <2>4 DEF RoundLength, RecursionLimit
    <3>2. RoundStart = 3 * attempts - 3
      BY <3>1 DEF RoundStart
    <3> QED
      BY <2>0, <2>2, <3>1, <3>2
  <2> QED
    BY <2>3, <2>4
<1> QED
  BY <1>1, Invariance, PTL

\* What is returned with a draft tells all that is wrong with it
\* (design.node.ts: a complaint joins the issues).
THEOREM NothingHidden == Spec => []IssuesTellAll
<1>1. IInv => IssuesTellAll
  BY DEF IInv, TellInv, EndInv, IssuesTellAll, Over
<1> QED
  BY <1>1, Invariance, PTL

\* A round loses neither a resolved spec nor the persisted id of a short id
\* (mcp-routing.ts mergeResolvedMcpSpecs, id-map.ts buildIdAssignment).
THEOREM RoundsKeep == Spec => RoundsBuildOn
<1>1. [Next]_vars => mcpSpecs \subseteq mcpSpecs'
                     /\ \A i \in DOMAIN idMap : i \in DOMAIN idMap' /\ idMap'[i] = idMap[i]
  <2> SUFFICES ASSUME [Next]_vars
               PROVE  \A i \in DOMAIN idMap : i \in DOMAIN idMap' /\ idMap'[i] = idMap[i]
    BY SpecsGrow
  <2>1. CASE DraftDesigned
    <3>1. PICK answer \in Answers : idMap' = MergeIds(buildIdAssignment(answer))
      BY <2>1 DEF DraftDesigned
    <3> DEFINE ids == buildIdAssignment(answer)
    <3>2. \A i \in DOMAIN idMap : i \in DOMAIN ids /\ ids[i] = idMap[i]
      BY DEF buildIdAssignment
    <3> HIDE DEF ids
    <3> QED
      BY <3>1, <3>2 DEF MergeIds, ids
  <2>2. CASE idMap' = idMap
    BY <2>2
  <2> QED
    BY <2>1, <2>2, FramesHold DEF Frames
<1> QED
  BY <1>1, PTL DEF Spec, RoundsBuildOn

\* An abort in time is not answered with a draft: whatever node is entered next
\* leaves plan(), and no await leads past a node.
THEOREM AbortIsAnswered == Spec => AbortWins
<1> DEFINE InTime == aborted /\ at \notin {"end", "closing", "settled"}
           Doomed == /\ aborted
                     /\ \/ at \notin {"end", "closing", "settled"}
                        \/ at \in {"closing", "settled"} /\ verdict \in {"aborted", "failed"}
<1>1. InTime => Doomed
  OBVIOUS
<1>2. Doomed /\ [Next]_vars => Doomed'
  <2> SUFFICES ASSUME Doomed, [Next]_vars PROVE Doomed'
    OBVIOUS
  <2>1. CASE PlanRejected \/ Plan
    BY <2>1 DEF PlanRejected, Refuse, Plan
  <2>2. CASE Intent
    BY <2>2, Entered DEF Intent, EnterIntent, IntentAnswered, Await, Enter
  <2>3. CASE EnterSelect \/ EnterDesign \/ Checking
    BY <2>3, Entered DEF EnterSelect, EnterDesign, Checking, Validate, Correct, Enter
  <2>4. CASE CatalogLoads \/ CatalogUnavailable \/ LoadAborts \/ KeysChosen \/ FirstChoiceEmpty
             \/ SecondChoiceEmpty \/ ResolveNext \/ SpecResolved \/ SelectDone
    BY <2>4 DEF CatalogLoads, CatalogUnavailable, LoadAborts, KeysChosen, FirstChoiceEmpty,
       SecondChoiceEmpty, ResolveNext, SpecResolved, SelectDone, WithoutSelection, Leave, Await
  <2>5. CASE DraftDesigned \/ DraftUnparsable \/ ModelFails
    BY <2>5 DEF DraftDesigned, DraftUnparsable, ModelFails, Leave, Await
  <2>6. CASE InvokeReturns \/ CleanUp \/ Abort \/ UNCHANGED vars
    BY <2>6 DEF InvokeReturns, CleanUp, Abort, vars
  <2> QED
    BY <2>1, <2>2, <2>3, <2>4, <2>5, <2>6 DEF Next, Planning, Select, Design
<1>3. Doomed => (at = "settled" => verdict \in {"aborted", "failed"})
  OBVIOUS
<1> QED
  BY <1>1, <1>2, <1>3, PTL DEF Spec, AbortWins

\* plan() keeps its promise: the design calls, the one verdict, the catalog
\* (planner.ts plan(), correct.node.ts, select.node.ts).
THEOREM PromiseIsKept == Spec => ImplementsPromise
<1>1. Init => Promise!Init
  BY DEF Init, Promise!Init
<1>2. IInv /\ IInv' /\ [Next]_vars => [Promise!Next]_(Promise!promise)
  <2> SUFFICES ASSUME IInv, IInv', [Next]_vars PROVE [Promise!Next]_(Promise!promise)
    OBVIOUS
  <2>m. Moves /\ Frames
    BY MovesHold, FramesHold
  <2>0. attempts \in 1..MaxAttempts /\ designs \in 0..MaxAttempts /\ MaxAttempts \in Nat
    BY OptionsAssumption DEF IInv, PlannerTypeOK, PipelinePlannerOptions
  <2>1. CASE at # "settled" /\ at' = "settled"
    <3>1. designs' = designs
      <4>1. PlanRejected \/ CleanUp
        BY <2>1, <2>m DEF Moves
      <4> QED
        BY <4>1 DEF PlanRejected, Refuse, CleanUp
    <3>2. open' = 0
      BY <2>1 DEF IInv, OpenInv
    <3>3. /\ verdict' \in {"clean", "unresolved", "exhausted", "aborted", "failed"}
          /\ verdict' \in {"unresolved", "exhausted"} => designs' = MaxAttempts
          /\ verdict' = "clean" => designs' > 0
      BY <2>1 DEF IInv, EndInv, Over
    <3>4. Promise!Settle(verdict')
      BY <2>1, <3>1, <3>2, <3>3 DEF Promise!Settle, Promise!GivenUp
    <3> QED
      BY <3>3, <3>4 DEF Promise!Next, Promise!Verdicts, Promise!GivenUp
  <2>2. CASE at # "settled" /\ at' # "settled"
    <3>1. CASE CatalogLoads
      <4>1. at = "loading" /\ open' = open + 1 /\ designs' = designs
        BY <3>1 DEF CatalogLoads, Await
      <4>2. open = 0
        BY <4>1 DEF IInv, OpenInv
      <4>3. Promise!Open
        BY <2>2, <4>1, <4>2 DEF Promise!Open
      <4> QED
        BY <4>3 DEF Promise!Next
    <3>2. CASE EnterDesign
      <4>1. at = "design" /\ open' = open /\ (designs' = designs \/ designs' = designs + 1)
        BY <3>2, Entered DEF EnterDesign, loaded
      <4>2. designs = attempts - 1
        BY <4>1 DEF IInv, RoundInv, BeforeDesign
      <4>3. designs' = designs + 1 => Promise!Design
        BY <2>0, <2>2, <4>1, <4>2 DEF Promise!Design
      <4>4. designs' = designs => UNCHANGED Promise!promise
        BY <2>2, <4>1 DEF Promise!promise
      <4> QED
        BY <4>1, <4>3, <4>4 DEF Promise!Next
    <3>3. CASE ~CatalogLoads /\ ~EnterDesign
      <4>1. ~CleanUp
        BY <2>2 DEF CleanUp
      <4>2. open' = open /\ designs' = designs
        BY <2>m, <3>3, <4>1 DEF Frames
      <4> QED
        BY <2>2, <4>2 DEF Promise!promise
    <3> QED
      BY <3>1, <3>2, <3>3
  <2>3. CASE at = "settled"
    <3>1. at' = "settled" /\ verdict' = verdict
      BY <2>3, <2>m DEF Moves, Over
    <3>2. designs' = designs
      BY <2>3, <2>m, Entered DEF Frames, EnterDesign
    <3>3. open' = 0 /\ open = 0
      BY <2>3, <3>1 DEF IInv, OpenInv
    <3> QED
      BY <2>3, <3>1, <3>2, <3>3 DEF Promise!promise
  <2> QED
    BY <2>1, <2>2, <2>3
<1> QED
  BY <1>1, <1>2, Invariance, PTL DEF Spec, ImplementsPromise, Promise!Spec
=============================================================================
