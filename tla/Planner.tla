------------------------------ MODULE Planner ------------------------------
(***************************************************************************)
(* One call of PipelinePlanner.plan() (packages/planner): the LangGraph of *)
(* the nodes intent, select, design, validate and correct, in its two      *)
(* topologies (with an MCP catalog or without), each call of the model,    *)
(* the catalog loader and the node resolver being an await.                *)
(*                                                                         *)
(* `at` names the node that is due, or the answer that is awaited.  The    *)
(* caller may abort its signal in every state.  Prompts, warnings, labels, *)
(* layout and auto-fill are left out; what validateGraph and the IF rule   *)
(* object to is an input of the model's answer (`flaws`).                  *)
(***************************************************************************)
EXTENDS Integers, Sequences, FiniteSets

CONSTANTS
    ShortIds,     \* node ids the model makes up ("n1")
    Keys,         \* node keys it may write
    StaticKeys,   \* keys of the specs the planner was constructed with
    McpKeys,      \* keys that start with "mcp:"
    Offers,       \* sets of mcp keys a loaded catalog may expose
    Answers,      \* drafts (PlannerDraft) the model may answer with
    MaxAttempts   \* maxAttempts

\* The constructor rejects a maxAttempts that is not a positive integer.
PipelinePlannerOptions ==
    /\ MaxAttempts \in Nat \ {0}
    /\ StaticKeys \subseteq Keys /\ McpKeys \subseteq Keys
    /\ Offers \subseteq SUBSET McpKeys

\* The schema, with the nodes that graph-level issues of the draft name.
PlannerDraftSchema(a) ==
    /\ a.nodes \in Seq([id : ShortIds, key : Keys]) /\ a.nodes # <<>>
    /\ a.edges \subseteq ShortIds \X ShortIds
    /\ a.flaws \subseteq {a.nodes[k].id : k \in DOMAIN a.nodes}

ASSUME OptionsAssumption == PipelinePlannerOptions
ASSUME AnswersAssumption == \A a \in Answers : PlannerDraftSchema(a)

VARIABLES
    catalogPathActive, \* catalogLoader and mcpNodeResolver are configured
    at,          \* the node that is due, or what plan() awaits
    aborted,     \* request.signal.aborted
    attempts,    \* state.attempts
    draft,       \* state.draft: at most one draft, as a set
    idMap,       \* state.idMap: short id -> persisted id
    issues,      \* state.validationIssues
    designError, \* state.designError is set
    mcpSpecs,    \* keys of state.mcpSpecs
    chosen,      \* keys select still has to resolve
    resolved,    \* keys select has resolved in this round
    boxed,       \* runtime.mcpCatalogBox.loaded is set
    open,        \* catalogs loaded and not closed
    offered,     \* keys the loaded catalog exposes
    supersteps,  \* LangGraph super-steps taken
    designs,     \* design calls made
    verdict      \* how app.invoke() and the checks after it ended

selecting == <<chosen, resolved>>
loaded    == <<boxed, open, offered>>
state     == <<attempts, draft, idMap, issues, designError, mcpSpecs>>
vars == <<catalogPathActive, at, aborted, attempts, draft, idMap, issues, designError, mcpSpecs, chosen,
          resolved, boxed, open, offered, supersteps, designs, verdict>>

Due     == {"intent", "select", "design", "validate", "correct"}
Awaited == {"asking", "loading", "choosing", "rechoosing", "picking",
            "resolving", "designing"}

\* An id crypto.randomUUID() minted for a short id: nothing else is equal to it.
Uuids == ShortIds \X (1..MaxAttempts)

\* The constructor takes the loader and the resolver together or not at all.
Init ==
    /\ catalogPathActive \in BOOLEAN
    /\ at = "idle"
    /\ aborted \in BOOLEAN
    /\ attempts = 1
    /\ draft = {}
    /\ idMap = [i \in {} |-> <<>>]
    /\ issues = {}
    /\ designError = FALSE
    /\ mcpSpecs = {}
    /\ chosen = {}
    /\ resolved = {}
    /\ boxed = FALSE
    /\ open = 0
    /\ offered = {}
    /\ supersteps = 0
    /\ designs = 0
    /\ verdict = "none"

-----------------------------------------------------------------------------
(* plan() and its graph.                                                   *)

\* Mutation: a round of the catalog path is budgeted like one without.
LimitForThreeSteps == MaxAttempts * 3 + 3

RecursionLimit ==
    IF catalogPathActive THEN MaxAttempts * 4 + 3 ELSE MaxAttempts * 3 + 2

\* app.invoke() settles; the finally block is next.
Leave(how) ==
    /\ verdict' = how
    /\ at' = "closing"

\* Mutation: the nodes do not look at the signal.
EnterUnchecked(node, next) ==
    /\ at = node
    /\ supersteps' = supersteps + 1
    /\ at' = next
    /\ UNCHANGED <<catalogPathActive, aborted, verdict>>

\* A node is one super-step; checkAbort is the first thing it does.
Enter(node, next) ==
    /\ at = node
    /\ supersteps' = supersteps + 1
    /\ IF aborted THEN Leave("aborted") ELSE at' = next /\ UNCHANGED verdict
    /\ UNCHANGED <<catalogPathActive, aborted>>

\* What plan() awaits settles.
Await(what) == at = what /\ UNCHANGED <<catalogPathActive, aborted, supersteps>>

\* What plan() refuses before it runs the graph: a signal that is aborted
\* already, or a specs factory that throws or returns nothing.
Refuse(why) ==
    /\ at = "idle"
    /\ at' = "settled"
    /\ verdict' = why
    /\ UNCHANGED <<catalogPathActive, aborted, state, selecting, loaded, supersteps, designs>>

PlanRejected ==
    \/ aborted /\ Refuse("aborted")
    \/ ~aborted /\ Refuse("failed")

Plan ==
    /\ at = "idle"
    /\ ~aborted
    /\ at' = IF catalogPathActive THEN "intent" ELSE "design"
    /\ supersteps' = 1      \* START
    /\ UNCHANGED <<catalogPathActive, aborted, state, selecting, loaded, designs, verdict>>

-----------------------------------------------------------------------------
(* intent: does the instruction need an MCP tool?                          *)

EnterIntent ==
    /\ Enter("intent", "asking")
    /\ UNCHANGED <<state, selecting, loaded, designs>>

\* needsMcp sends the run to select; needsMcp = false, or an answer that does
\* not match the schema, straight to design.
IntentAnswered ==
    /\ Await("asking")
    /\ at' \in {"select", "design"}
    /\ UNCHANGED <<state, selecting, loaded, designs, verdict>>

-----------------------------------------------------------------------------
(* select: load the catalog, choose keys from it, resolve them.            *)

\* Mutation: every entry of select loads a catalog.
AlwaysLoads == TRUE

MustLoad == ~boxed

EnterSelect ==
    /\ Enter("select", IF MustLoad THEN "loading" ELSE "choosing")
    /\ UNCHANGED <<state, selecting, loaded, designs>>

CatalogLoads ==
    /\ Await("loading")
    /\ offered' \in Offers
    /\ boxed' = TRUE
    /\ open' = open + 1
    /\ at' = "choosing"
    /\ UNCHANGED <<state, selecting, designs, verdict>>

\* The round goes on with the specs of earlier rounds; without any there is
\* nothing to reset.
WithoutSelection ==
    /\ at' = "design"
    /\ UNCHANGED <<state, selecting, designs, verdict>>

\* A catalog that cannot be loaded only costs the MCP tools.
CatalogUnavailable ==
    /\ Await("loading")
    /\ WithoutSelection
    /\ UNCHANGED loaded

\* PipelineAbortedError is the one error of load() that is rethrown.
LoadAborts ==
    /\ Await("loading")
    /\ Leave("aborted")
    /\ UNCHANGED <<state, selecting, loaded, designs>>

\* Keys the catalog exposes, each once, are resolved one after the other.
KeysChosen ==
    /\ \E attempt \in {"choosing", "rechoosing"} : Await(attempt)
    /\ \E keys \in SUBSET offered \ {{}} : chosen' = keys
    /\ resolved' = {}
    /\ at' = "picking"
    /\ UNCHANGED <<state, loaded, designs, verdict>>

\* Nothing valid was selected, or the answer did not match the schema: the
\* signal is checked, and the model is asked once more.
FirstChoiceEmpty ==
    /\ Await("choosing")
    /\ IF aborted THEN Leave("aborted") ELSE at' = "rechoosing" /\ UNCHANGED verdict
    /\ UNCHANGED <<state, selecting, loaded, designs>>

\* Mutation: the model is asked until it selects something.
RetryForever ==
    /\ Await("rechoosing")
    /\ at' = "choosing"
    /\ UNCHANGED <<state, selecting, loaded, designs, verdict>>

SecondChoiceEmpty ==
    /\ Await("rechoosing")
    /\ WithoutSelection
    /\ UNCHANGED loaded

\* The head of the resolve loop: the next key, with the signal checked first.
ResolveNext ==
    /\ Await("picking")
    /\ chosen # {}
    /\ IF aborted THEN Leave("aborted") ELSE at' = "resolving" /\ UNCHANGED verdict
    /\ UNCHANGED <<state, selecting, loaded, designs>>

\* resolveSpec answers, or rejects, which only drops the key.
SpecResolved ==
    /\ Await("resolving")
    /\ \E key \in chosen :
          /\ chosen' = chosen \ {key}
          /\ resolved' \in {resolved, resolved \cup {key}}
    /\ at' = "picking"
    /\ UNCHANGED <<state, loaded, designs, verdict>>

\* Mutation: this round's specs replace those of earlier rounds.
ReplaceResolvedMcpSpecs(previous, current) == current

mergeResolvedMcpSpecs(previous, current) == previous \cup current

SelectDone ==
    /\ Await("picking")
    /\ chosen = {}
    /\ mcpSpecs' = mergeResolvedMcpSpecs(mcpSpecs, resolved)
    /\ at' = "design"
    /\ UNCHANGED <<attempts, draft, idMap, issues, designError, selecting, loaded,
                   designs, verdict>>

-----------------------------------------------------------------------------
(* design: ask the model for a draft, give its nodes persisted ids.        *)

EnterDesign ==
    /\ Enter("design", "designing")
    /\ designs' = IF aborted THEN designs ELSE designs + 1
    /\ UNCHANGED <<state, selecting, loaded>>

\* Every short id of the answer: of a node or of an edge's end, a dangling one
\* too; what state bindings read is left out with the bindings.
ShortIdsOf(answer) ==
    {answer.nodes[k].id : k \in DOMAIN answer.nodes}
        \cup UNION {{e[1], e[2]} : e \in answer.edges}

\* buildIdAssignment: an id the model has used before keeps its persisted id.
buildIdAssignment(answer) ==
    [i \in DOMAIN idMap \cup ShortIdsOf(answer) |->
        IF i \in DOMAIN idMap THEN idMap[i] ELSE <<i, designs>>]

\* The reducer of the idMap channel: merged, the update wins.
MergeIds(update) ==
    [i \in DOMAIN idMap \cup DOMAIN update |->
        IF i \in DOMAIN update THEN update[i] ELSE idMap[i]]

Persisted(answer, ids) ==
    [nodes |-> [k \in DOMAIN answer.nodes |->
                   [id |-> ids[answer.nodes[k].id], key |-> answer.nodes[k].key]],
     edges |-> {<<ids[e[1]], ids[e[2]]>> : e \in answer.edges},
     flaws |-> {ids[i] : i \in answer.flaws}]

DraftDesigned ==
    /\ Await("designing")
    /\ \E answer \in Answers :
          LET ids == buildIdAssignment(answer)
          IN  /\ draft' = {Persisted(answer, ids)}
              /\ idMap' = MergeIds(ids)
    /\ designError' = FALSE
    /\ at' = "validate"
    /\ UNCHANGED <<attempts, issues, mcpSpecs, selecting, loaded, designs, verdict>>

NoNode == <<>>

\* Mutation: the complaint replaces the issues of the draft that is kept.
OnlyComplaint == issues' = {[code |-> "NODE_TYPE_MISMATCH", node |-> NoNode]}

\* The schema complaint joins the issues of the draft that is kept.
KeepComplaint ==
    issues' = issues \cup {[code |-> "NODE_TYPE_MISMATCH", node |-> NoNode]}

\* The answer does not match the schema: there is no graph to validate.
DraftUnparsable ==
    /\ Await("designing")
    /\ designError' = TRUE
    /\ KeepComplaint
    /\ at' = "correct"
    /\ UNCHANGED <<attempts, draft, idMap, mcpSpecs, selecting, loaded, designs, verdict>>

\* An error that is not about the schema, of a call of intent, select or design.
ModelFails ==
    /\ \E call \in {"asking", "choosing", "rechoosing", "designing"} : Await(call)
    /\ Leave("failed")
    /\ UNCHANGED <<state, selecting, loaded, designs>>

-----------------------------------------------------------------------------
(* validate and correct.                                                   *)

\* mergeSpecs
KnownKeys == StaticKeys \cup mcpSpecs

NodeIds(d) == {d.nodes[k].id : k \in DOMAIN d.nodes}

DuplicateIds(d) ==
    {d.nodes[k].id : k \in {k \in DOMAIN d.nodes :
                              \E j \in DOMAIN d.nodes : j # k /\ d.nodes[j].id = d.nodes[k].id}}

UnknownKeyNodes(d) ==
    {d.nodes[k].id : k \in {k \in DOMAIN d.nodes : d.nodes[k].key \notin KnownKeys}}

DanglingEnds(d) == UNION {{e[1], e[2]} : e \in d.edges} \ NodeIds(d)

\* An issue about an edge names the missing end.
IssuesOf(d) ==
    [code : {"NODE_TYPE_MISMATCH"}, node : DuplicateIds(d) \cup UnknownKeyNodes(d)]
        \cup [code : {"OTHER"}, node : DanglingEnds(d) \cup d.flaws]

Validate ==
    LET found == UNION {IssuesOf(d) : d \in draft}
    IN  /\ Enter("validate", IF found = {} THEN "end" ELSE "correct")
        /\ issues' = IF aborted THEN issues ELSE found
        /\ UNCHANGED <<attempts, draft, idMap, designError, mcpSpecs, selecting,
                       loaded, designs>>

\* The last node with an id is the one an issue is taken to be about.
NodeOfIssue(d, issue) ==
    {k \in DOMAIN d.nodes : /\ d.nodes[k].id = issue.node
                            /\ \A j \in DOMAIN d.nodes : d.nodes[j].id = issue.node => j <= k}

unresolvedMcpKeysFromIssues ==
    {key \in McpKeys :
        \E d \in draft, issue \in issues :
            /\ issue.code = "NODE_TYPE_MISMATCH"
            /\ \E k \in NodeOfIssue(d, issue) : d.nodes[k].key = key}

\* Mutation: attempts are counted before the limit is looked at.
ExhaustedAfterIncrement == attempts + 1 >= MaxAttempts

Exhausted == attempts >= MaxAttempts

\* A schema complaint is never a reason to select again.
CorrectTarget ==
    IF ~designError /\ catalogPathActive /\ unresolvedMcpKeysFromIssues # {} THEN "select" ELSE "design"

Correct ==
    /\ Enter("correct", IF Exhausted THEN "end" ELSE CorrectTarget)
    /\ attempts' = IF aborted \/ Exhausted THEN attempts ELSE attempts + 1
    /\ UNCHANGED <<draft, idMap, issues, designError, mcpSpecs, selecting, loaded,
                   designs>>

-----------------------------------------------------------------------------
(* The way out of plan().                                                  *)

\* app.invoke() returned: no draft at all is PlannerExhaustedError, issues are
\* returned next to the draft.
InvokeReturns ==
    /\ at = "end"
    /\ Leave(IF draft = {} THEN "exhausted" ELSE IF issues = {} THEN "clean" ELSE "unresolved")
    /\ UNCHANGED <<catalogPathActive, aborted, state, selecting, loaded, supersteps, designs>>

\* Mutation: the catalog is closed after a success only.
CleanUpAfterSuccess == verdict \in {"clean", "unresolved"} /\ boxed

CleanUpDue == boxed

\* The finally block: cleanup() of a loaded catalog settles; its rejection is
\* a warning and changes no verdict.
CleanUp ==
    /\ at = "closing"
    /\ open' = IF CleanUpDue THEN open - 1 ELSE open
    /\ at' = "settled"
    /\ UNCHANGED <<catalogPathActive, aborted, state, selecting, boxed, offered, supersteps, designs, verdict>>

\* The caller aborts request.signal.
Abort ==
    /\ ~aborted
    /\ at # "settled"
    /\ aborted' = TRUE
    /\ UNCHANGED <<catalogPathActive, at, state, selecting, loaded, supersteps, designs, verdict>>

Intent   == EnterIntent \/ IntentAnswered
Select   == EnterSelect \/ CatalogLoads \/ CatalogUnavailable \/ LoadAborts \/ KeysChosen
            \/ FirstChoiceEmpty \/ SecondChoiceEmpty \/ ResolveNext \/ SpecResolved \/ SelectDone
Design   == EnterDesign \/ DraftDesigned \/ DraftUnparsable \/ ModelFails
Checking == Validate \/ Correct
Planning == PlanRejected \/ Plan \/ Intent \/ Select \/ Design \/ Checking \/ InvokeReturns \/ CleanUp

Next == Planning \/ Abort

Spec == Init /\ [][Next]_vars

\* Every await is answered: the model, the loader, the resolver and cleanup()
\* settle their promises.  Nobody has to abort.
FairSpec == Spec /\ WF_vars(Planning)

-----------------------------------------------------------------------------
PlannerTypeOK ==
    /\ catalogPathActive \in BOOLEAN
    /\ at \in {"idle", "end", "closing", "settled"} \cup Due \cup Awaited
    /\ aborted \in BOOLEAN
    /\ attempts \in 1..MaxAttempts
    /\ DOMAIN idMap \subseteq ShortIds /\ \A i \in DOMAIN idMap : idMap[i] \in Uuids
    /\ \A issue \in issues : issue.node \in Uuids \cup {NoNode}
    /\ designError \in BOOLEAN
    /\ mcpSpecs \subseteq McpKeys /\ chosen \subseteq McpKeys /\ resolved \subseteq McpKeys
    /\ boxed \in BOOLEAN /\ open \in Nat /\ offered \subseteq McpKeys
    /\ supersteps \in Nat
    /\ designs \in 0..MaxAttempts
    /\ verdict \in {"none", "clean", "unresolved", "exhausted", "aborted", "failed"}

Promise == INSTANCE PlanPromise WITH
    verdict <- IF at = "settled" THEN verdict ELSE "none"

\* plan() keeps PlanPromise: never more than maxAttempts design calls and all
\* of them before it gives up (correct.node.ts: the gate comes before the
\* increment), one verdict, never a second catalog (select.node.ts: the box),
\* and none open after the call, whichever way it ends (planner.ts, finally).
ImplementsPromise == Promise!Spec

\* The recursion limit plan() computes is never what stops it: whenever a node
\* is due LangGraph may take another super-step, START counted as one
\* (planner.ts: an exhausted run must not end in a GraphRecursionError).
WithinRecursionLimit == at \in Due => supersteps < RecursionLimit

\* What is returned with a draft tells all that is wrong with that draft, also
\* when the last attempts did not parse and the draft is an earlier one; a
\* clean result has nothing wrong with it, given the specs resolved so far
\* (design.node.ts: issues are merged, never replaced).
IssuesTellAll ==
    verdict \in {"clean", "unresolved"} => \A d \in draft : IssuesOf(d) \subseteq issues

\* A later round loses nothing an earlier one settled: neither a resolved spec
\* the draft may rely on, nor the persisted id of a short id
\* (mcp-routing.ts mergeResolvedMcpSpecs, id-map.ts buildIdAssignment).
RoundsBuildOn ==
    [][/\ mcpSpecs \subseteq mcpSpecs'
       /\ \A i \in DOMAIN idMap : i \in DOMAIN idMap' /\ idMap'[i] = idMap[i]]_vars

\* An abort that arrives before the last node has been entered is never
\* answered with a draft or as exhaustion (abort.ts: checked by every node).
AbortWins ==
    [](aborted /\ at \notin {"end", "closing", "settled"}
        => [](at = "settled" => verdict \in {"aborted", "failed"}))

\* plan() settles: the correction loop ends.
PlanSettles == <>(at = "settled")
=============================================================================
