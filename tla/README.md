# OpenPipeline in TLA+

Formal models of the pipeline engine of this repository, checked with TLC and,
where a result should hold for every graph, cost and bound, proved with TLAPS.
Each module is a translation of named lines of the source; `PROJECT.json`
("map") gives, for every definition, the lines it stands for.

## 1. The system

OpenPipeline stores graphs of nodes (tools, LLM calls, IF branches, MCP tools)
and runs them. A run goes through these parts:

    host / HTTP --> PipelineEngine --> PipelineStore, StepRecorder (memory | prisma)
       |               |   |   \
       |  onEvent      |   |    CatalogLoader (MCP)
       |               |   PipelineCompiler --> LangGraph --> node runners
       +--- abort(), AbortSignal, timeout           cost guard, bindings, handlers

    planner (LLM repair loop) --> drafts --> save()      builder (React) --> save()

### Inventory

| Component | State it keeps | Operations | What is hard about it | Correct when |
|---|---|---|---|---|
| Run engine (`runtime/src/index.ts`) | `inFlight`, `listeners`; per run: controller, timer, catalog, verdict | `run`, `execute`, `abort`, `onEvent`, `emit`, timer and signal handlers | `execute` is a chain of awaits; abort, timeout, signal and a sweeper of the run table come between any two; siblings of a failed node keep running after the run is over | one honest verdict per run; it settles on timeout and abort; nothing starts once it is over; everything it acquired is released |
| Node runner (`nodes/src/node-runner.ts`) | step id, cost accumulator | start, resolve, handle, check the cap, finish; the catch block | seven awaits, each followed or not by an abort check; several runners share the cost guard | no spend lost; no success over the cap; every started step ends |
| Cost guard and accumulator (`core/src/cost*.ts`) | running total | `add`, `check` | charged by concurrent runners and by their catch blocks | see node runner |
| Events and streaming (`event-translator.ts`, `server/src/*.ts`) | listener sets, open responses | translate, emit, `streamRun`, the two routes | a subscriber may attach, leave or vanish at any await of the run | nobody misses the end; no listener outlives the run |
| Stores (`store-memory`, `store-prisma`) | run, step and pipeline rows; per-run counters and queues | `createRun`, `completeRun`, `start`, `finish`, `finalizeStaleSteps`, `save` | concurrent `start`s; contested terminal writes; calls that reject with or without effect; overlapping updates | first terminal status wins; distinct, ordered step numbers; `updatedAt` strictly grows |
| Compiler (`nodes/src/compiler.ts`) | LRU list of ten compiled graphs | `compile` | awaits between lookup and insertion; the key is `id:updatedAt` | a run executes the graph it loaded, after its own `validate` hook |
| Graph checks (`graph-validator.ts`, `topology.ts`) | worklists | `validateGraph`, `analyzeTopology`, `computeAncestors` | duplicate edges, self-loops, dangling ends, islands, IF labels, nested fan-ins | cycles, unreachable nodes and dead references are reported exactly |
| Planner (`planner/src`) | draft, issues, attempts, id map, MCP catalog | intent, select, design, validate, correct | bounded repair loop, re-entry into select, soft failures, abort at every await | at most `maxAttempts` designs, then a clean draft, or all that is wrong with it, or the exhaustion error; never a LangGraph recursion error; catalog closed once |
| MCP catalog and tools (`mcp/src`) | open clients | `load`, `cleanup`, `resolveSpec`, tool call with one retry | a server or a policy callback failing after others were connected; keys put together and taken apart again; a retry of a call that may have happened | no client leaks; a key means one tool; at most two calls |
| Builder store (`react/src/store`, the canvas, the host) | nodes, edges, markers, selection, dirty flag | load, reset, add, remove, bind, connect, mark, `toDraft`, `markClean` | sequences of edits; drafts nobody validated; saves that overlap with edits and with one another, or are refused | nothing refers to a removed node; a clean store is a saved one |
| OAuth base, schema conversion, layout, rendering | little or none | | | |

Section 6 says which of these are not modelled (yet) and why.

## 2. The modules

| Module | Models | Composes |
|---|---|---|
| `RunLifecycle` | abstract: a run row and the caller's answer | |
| `RunEngine` | one run: `run`/`execute`, the node runners, the cost guard, abort, timer, signal, sweeper, the store calls | implements `RunLifecycle` |
| `RunEngineProofs` | theorems about `RunEngine` | extends it |
| `RunEvents` | listeners, emitted node events, streaming requests | extends `RunEngine`: every step is an engine step with its events, or a step of a request |
| `RunEventsProofs` | theorems about `RunEvents`, and that it implements `RunEngine` | extends both and `RunEngineProofs` |
| `StepStore` | how concurrent `start()` calls get `sequenceIndex` in both stores | |
| `GraphCheck` | `analyzeTopology`, `validateGraph`, `computeAncestors` | |
| `GraphRun` | IF wiring, deferred fan-ins, the order in which LangGraph runs nodes | extends `GraphCheck`: runs what it accepts |
| `GraphProofs` | theorems about `GraphCheck` and `GraphRun` | extends both |
| `PipelineCache` | the compiler's cache with the saves of both stores | |
| `PlanPromise` | abstract: what `plan()` promises its caller | |
| `Planner` | one `plan()` call: both graph topologies, every await of its nodes, the attempt and recursion limits, the catalog, the caller's abort | implements `PlanPromise` |
| `McpCatalog` | one catalog from `load()` to `cleanup()`, and the tool nodes that use it meanwhile | |
| `BuilderStore` | the builder's store, the canvas handlers that call it, the host that loads and saves | |
| `PlannerProofs`, `McpCatalogProofs`, `BuilderStoreProofs`, `StepStoreProofs`, `PipelineCacheProofs` | theorems about the module of that name | extend it |
| `MC*` | instances for TLC | |

### RunEngine

One variable group per place of the code:

* `engine` is the await at which `run()`/`execute()` stands: `loading`,
  `creating`, `catalog`, `compiling`, `streaming`, then `finalizing` and
  `writing` (the awaits before and at `completeRun`), `wrote`, `cleaning`
  (`mcpCatalog.cleanup()`), `returning`, `settled`. One action is the code from
  one await to the next, so every other actor may step in exactly where
  JavaScript would let it.
* `runner[n]` is the await of node `n`'s runner; `fault`, `acc` and `step` are
  what it has caught, what it has been charged, and its step row.
* `controller` remembers *who* aborted the `AbortController`; the code only sees
  the boolean (`Aborted`).
* `row`, `reply`, `swept`: the run row, what `completeRun` answered, and whether
  a sweeper outside the engine ended the row.
* `inFlight`, `timer`, `linked`, `catalog`: what the run holds.

`UserAborts`, `TimerFires`, `SignalAborts` and `Sweep` are the other actors. A
store call either returns or rejects, and a rejected write may have taken
effect; `MaxStoreFailures` bounds how many do. LangGraph is external: a
super-step runs all ready nodes concurrently; when one fails or the signal
fires, the stream ends and the siblings are left running, as the comments at
`runtime/src/index.ts:182-208` describe. The graph is the constant `Preds`, and a node
is ready when all its predecessors are done. That is exact for graphs without IF nodes
whose fan-ins are not nested (`GraphRun` shows what happens below a nested
one). Data (inputs, outputs, messages) is abstracted to success or failure;
cost is an integer per handler and per resolver.

`RunLifecycle` is what a caller may rely on: the row is created once, decided
once, and the answer agrees with the row unless somebody else decided it. The
refinement mapping takes the row and the answer of `RunEngine`.

### RunEvents

`emitted[n]` is what the `for await` loop has seen of node `n`; `caught` is the set
of failed nodes whose errors LangGraph aggregated; `listeners`, `open` and
`complete` say who is subscribed and what they were told; `response` and
`stream` are the HTTP side. Listeners are called synchronously inside the
engine's step, as `emit` does. `Posts` start the run and stream it, `Gets` join
it later; both may disconnect, and a `Post` may vanish while `startRun()` is
awaited.

### StepStore

`call[c]` follows one `start()`/`startChild()`; `prev[c]` is the promise it chained onto and
`tail` what the per-run map holds. Store-memory reads and bumps its counter in one
callback; store-prisma reads the highest index and inserts in a transaction
that may reject before or after its commit, and `Release` is the
`catch().finally()` that frees the queue.

### GraphCheck and GraphRun

The loops of `validateGraph` and `computeAncestors` are worklists; each
iteration is an action, and the element taken is left open, so the results do
not rest on the order of the code's arrays. `GraphRun` continues with the rest of
`compile()` and lets the graph run. Its two trigger channels are LangGraph's, taken
from what `nodes/test/compiler.test.ts:192-210` says: a plain node runs after the
first write of a predecessor; a deferred one is held back until nothing else
would run, and then all deferred nodes that were written to become available.

### PipelineCache

`row[p]` is the committed version of a pipeline; its graph is the save that
wrote it. Store-memory saves in one step. Store-prisma reads `updatedAt` and
commits later; two transactions may overlap. Compiles load a version, await the
`validate` hook, look the key up, and insert after an await.
`Date.now()` may answer anything in `Times`, in any order.

### Planner

`at` is the node of the planner graph that is due, or the await at which it
stands: `asking` (intent), `loading`, `choosing`, `rechoosing`, `picking` and
`resolving` (select), `designing` (design); `closing` is the `finally` block.
`Enter` is what every node does first: count a super-step, and look at the
signal. The other variables are the channels of the planner's state; `idMap` and
`issues` are merged as their reducers merge them. The model's answers are the constant
`Answers`: drafts of short ids and keys, with the nodes that `validateGraph` and the
IF rule would complain about (`flaws`); unknown keys, duplicate ids and dangling ends
are computed as `validate.node.ts` does, because the route back to `select` depends on
them. `PlanPromise` counts designs and open catalogs; the refinement mapping takes
both, and the verdict once `plan()` has settled.

### McpCatalog

`at` is the await of `load()` or `cleanup()`, `here` the server it is about;
`client[i]` is the client of a server, `none`, `open`, `closing` or `closed`. `todo` is a
set because the policy may reorder what it keeps. Names are sequences of their
colon-separated segments, which is all `parseMcpKey` sees of them. The tool nodes
(`Calls`) resolve a key against the loaded catalog and invoke the tool, also
while `cleanup()` is under way: nothing makes the two wait for each other. A
graph with MCP nodes is never cached, so the tool captured at compile time and the one
of the run's own catalog are the same.

### BuilderStore

Every store action is one `set()`. A binding is the node it reads and how its path
goes on (`""`, `.x`, `[0]`), and `Longer` says which ids begin with another one: that is
what `removeNode` must tell apart. A label is `"null"` (what the canvas gives a plain
connection), another one, or `"undefined"` (a loaded edge without one): `addEdge`
compares with `===`, `toDraft()` writes null for both. Drafts are not assumed to be
valid: their edges and bindings may name nodes they do not have.

`save[s]` is one call of the host's `save()`: `posted`, then `stored` or `refused` as the
server answered (200 or 500, both JSON), or `lost` when nobody will read the answer although
the server may still carry it out. Nothing keeps saves from overlapping, and `markClean`
follows either answer, as in the code. A draft's id is left out: any save under way may
overwrite what another one stores, as in the playground, which has one pipeline. The rest
are history variables, read by properties only: `brought`, what dangled in the draft last
loaded; `fresh`, the saves of what `toDraft()` still answers that were posted with none of
another draft under way; `kept`, the server surely holds what `toDraft()` answers;
`disturbed`, the flag went down on a save that settled nothing (`Settles`), or by loading a
draft while a save was under way.

## 3. What is checked

| Run | Instance | Shows |
|---|---|---|
| `join` | two concurrent nodes and their join, one auto-bound; cap 3 with costs 1, 2, 1 and resolver cost 1; recursion limit 1 or 2; all other actors; two store failures | safety of a run: the verdict names its cause (`VerdictNamesTheCause`); SUCCESS means all steps succeeded (`SuccessMeansStepsSucceeded`) and the cap held (`SuccessWithinCap`); no spend is lost; the catalog outlives the handlers; nothing is left behind; nothing starts once the run is over; `RunLifecycle` is implemented |
| `hang` | the two nodes and their join, recursion limit 1 or 2, one store failure, handlers and resolvers may hang | a timeout or an abort settles the run whatever the handlers do (`StoppedRunsSettle`); an abort seen in time is never answered SUCCESS (`AbortSticks`); started step rows end (`StepsEnd`) |
| `events` | two nodes, the run's own listener and one streaming request | who is told what; no listener outlives the run; streams that attach in time end |
| `step_store` | three concurrent calls in each store | numbers are distinct and in call order, the queue is a mutex, survives rejections and is freed |
| `graph` | 7372 graphs: all tables of up to three edges over three ids (not all of them nodes) with at most one reference; every acyclic graph of four nodes with any forward reference; the same with an IF node and arbitrary labels | the cycle, unreachable and reference verdicts are exact; accepted graphs without nested fan-ins run each node once, after its parents, and find what they read; everything ends |
| `pipeline_cache` | two saves, three compiles, a plain and an MCP pipeline, capacity 2, both stores | no stale graph; `updatedAt` grows |
| `planner` | three attempts, both topologies, six drafts, two catalogs, every failure, an abort at any time | `PlanPromise` is implemented; the recursion limit is never met (`WithinRecursionLimit`); the issues returned tell all that is wrong with the draft returned (`IssuesTellAll`); a round loses nothing an earlier one settled (`RoundsBuildOn`); an abort wins, and `plan()` settles |
| `mcp_catalog` | three servers, one that cannot be connected; a tool with a colon in its name; two calls | no client outlives its catalog; a key means one tool; load, cleanup and calls end |
| `builder` | three nodes, one id the beginning of another; two edges, one binding, one drawn marker edge; a draft with an unlabelled edge and one with an edge and a binding to a node it lacks; two saves that may overlap, each stored, refused or lost | whatever refers to a missing node came so with a draft (`NothingDangles`); a removal takes what is about its node, and only that (`RemovalIsExact`), both except `outputs.<id>[0]`; a clean store is a saved one, except after a save that settled nothing or a load during a save (`DirtyIsHonest`) |

Three runs state something the documentation says and show the code doing
otherwise:

* `late_stream`: a stream that attaches between `RUN_COMPLETE` and the clearing
  of `inFlight` never resolves (`server/src/handlers.ts:134`).
* `nested_joins`: a fan-in fed by another fan-in runs beside it, without its
  outputs, and once more afterwards (`nodes/src/compiler.ts:166`).
* `save_race`: overlapping updates in store-prisma can write the same
  `updatedAt`, and the cache then serves the older graph (`store-prisma/src/index.ts:218`).

Every property of a passing run has a mutant in `PROJECT.json`: a plausible bug
in one mapped definition that makes TLC refute it. The mutated forms stand in the
modules, marked "Mutation", before what they replace.

### Observations without a run

Met while translating; the models contain the step, and no property forbids it: where one
comes near, its exception is named here.

* Engine: `abort()` answers true, which says that the run "is now being aborted"
  (`runtime/src/index.ts:287`), while `completeRun(SUCCESS)` is awaited (`:526`) or the
  catalog cleaned up, and the run succeeds; `AbortSticks` is about aborts before the
  last check. The hard timeout does not bound a catalog loader that never answers (`:445`, against `:90`):
  `FairSpec` has to ask the loader to answer. A node that trips the cost cap is
  charged to the guard twice (`node-runner.ts:195`, `:253`), which only shows in the
  `spentUsd` of a later error.
* Stores: a `start()` after somebody else completed the run re-creates the run's
  entries in store-memory and numbers from 0 (`store-memory/src/index.ts:248`).
* Graphs: an edge to an unknown node makes `validateGraph` count one node too many, which
  can hide a cycle from it (`graph-validator.ts:153`); LangGraph's own compile then
  rejects the graph.
* Planner: an unresolved result may carry an "unknown key" issue that a later
  selection has settled, when the designs after it did not parse; `IssuesTellAll` is
  an inclusion for that reason. Nothing looks at the signal between the catalog load
  and the first question to the model (`select.node.ts`).
* MCP: a comment calls the split of a key "last-colon", the code and its tests split at
  the first one; a provider name with a colon would make keys ambiguous, and of two
  providers with one name the first is found. `ServersAssumption` excludes both. A
  tool whose transport fails after it ran runs twice.
* Builder, excepted by `DirtyIsHonest`: the playground's `save()` never looks at `res.ok`, and
  a failed save is answered 500 with JSON (`node-http.ts:53`), so the store is marked clean
  although nothing was stored (`App.tsx:58-60`); so it is when the graph was edited while the
  answer was awaited, or when two saves cross and the older draft is stored last. The
  comment on `dirty` says otherwise (`builder-store.ts:37`), and that selections count,
  which `selectNode` (`:293`) and its test deny.
* Builder, excepted by `NothingDangles` and `RemovalIsExact`: a binding `outputs.<id>[0]`
  survives the removal of the node (`builder-store.ts:179`), although `validateGraph` reads
  it as one to that node (`graph-validator.ts:263`). A connection from the start to the end
  marker puts `__end__` among the start targets.
* Builder, forbidden by no property: a connection that a loaded draft has without a label can
  be drawn, and saved, a second time, because `undefined === null` is false
  (`builder-store.ts:260`, against `builder-store.test.ts:185`). Moving a marker, or adding or
  removing a marker edge, dirties a store whose draft has not changed.

### Bounds and why they are enough

* RunEngine: two concurrent nodes and a join give every pair of a failing node and a
  sibling at each of its awaits, and a successor that must not start. Two store
  failures (`MaxStoreFailures`) cover a failure on the way out of a failure. Costs and
  cap are chosen so that the cap is kept or crossed at any node depending on which
  handlers report. `RecursionLimits` {1, 2} lets the join trip the limit or not.
* StepStore: three `start()` calls are the smallest number where a rejected one has
  both a predecessor and a successor.
* GraphCheck, GraphRun: four nodes and all forward edges contain every shape of fan-in,
  nested fan-in and IF diamond; three ids with three arbitrary edges contain
  self-loops, duplicates, two-cycles beside an entry, islands and dangling ends. A
  node's runs are counted up to 2.
* PipelineCache: two saves and three compiles allow a cached, a stale and a fresh
  version at once.
* Planner: with three attempts there is a first round, one that builds on another and
  a last one; two short ids and two MCP keys, one of which only some catalogs expose,
  give unknown keys, repeated and dangling ids, and a re-entry into select that
  succeeds, fails softly, or finds nothing.
* McpCatalog: three servers leave a client open before and after the one that
  fails; `Pages` = 2 gives a page with a cursor and one without; two calls are at
  different stages when `cleanup()` starts.
* BuilderStore: three nodes leave an edge and a binding between two others when one is
  removed; `MaxBound` limits the state bindings made in the builder (drafts bring
  more), `MaxMarked` the marker edges drawn in it. Two `Saves` are the fewest that can
  cross. A save sees the graph only as a whole; so, while one is under way, the instance
  goes no further from a state with the third node, a second edge or a selection
  (`SmallWhileSaving`). The theorems need none of these bounds.

### Deadlock

Deadlock checking is off where the system really stops: a settled run or plan, all
calls served, a rejected or finished graph, a catalog that has been cleaned up. The
liveness properties say that it does not stop earlier. It stays on in `builder`,
where something can always be edited.

### Fairness

* `FairSpec` (RunEngine): the engine's own continuations, the catalog loader, the
  store and the timer make progress; node handlers and resolvers do *not* have to. Node
  promises that are resolved run eventually, and store calls answer or reject.
  This is what a timeout may rely on.
* `EventsFairSpec` (RunEvents): the same, plus that handlers and resolvers return and a
  due response is written. Requests and aborts are never required to come.
* `FairSpec` (StepStore): promises that are due run, the database answers or rejects.
* `FairRunSpec` (GraphRun): the single-threaded compile and the super-steps go on.
* `FairSpec` (Planner): what `plan()` awaits settles: the model, the loader, the resolver,
  `cleanup()`. Nobody has to abort.
* `FairSpec` (McpCatalog): policy callbacks, servers and `close()` answer, a listing has a
  last page, an invoked tool answers or its transport fails; and the owner of a loaded
  catalog calls `cleanup()`, which the engine and the planner do in `finally`.

Only weak fairness is used: a promise continuation that is enabled stays enabled.

## 4. What is proved

`RunEngineProofs`, for every finite graph, cost table, cap, limit and option (the
`ASSUME`s of `RunEngine` give the types only):

* `TypeCorrect`, and the invariants `SuccessfulSteps`, `SpendStaysWithinCap`,
  `VerdictIsHonest`, `CatalogStaysOpen`, `SettledIsClean`, `StaleStepsEnd`;
* `SpendIsCounted`: the guard holds at least what all charged nodes reported. The sum is
  the community modules' `MapThenSumSet`; since no induction theorem can be used, its
  recursive table is shown to exist, and to give any order of the summands the same
  sum, by taking a smallest set for which that fails (`Smallest`, from `WFMin`);
* the action property `NothingNewOnceOver`;
* `AbortIsKept`: from an abort in time on, `Doomed` holds for ever: some node that will
  still meet an abort check, or has failed, stands between the run and SUCCESS;
* `EngineImplementsLifecycle`: `RunEngine` implements `RunLifecycle`.

None of the invariants is inductive alone. `IInv` adds what ties the actors
together: the outcome is fixed exactly when the engine leaves the stream
(`OutcomeInv`) and matches who aborted the controller (`ControllerInv`); the row
follows the engine's progress unless it was swept (`RowInv`); step rows follow
their runners (`StepInv`); a successful run has no runner under way and none due (`QuietInv`);
the guard exceeds the cap only while some runner has failed or is failing
(`SpendInv`); resources follow the engine (`ResourceInv`); and after
finalizing, only runners on their way out own a RUNNING step (`StaleInv`). Each
action is shown to keep each conjunct it can disturb.

`RunEventsProofs`, for every set of listeners and requests:

* `EventsImplementEngine`: hiding the events leaves a behaviour of `RunEngine`, so every
  theorem above holds with listeners attached.
* `CallerIsTold`, `FailuresAreTold`, `NobodyListensLate`, from `EventsInv`: a listener holds
  open only nodes that have begun, the run's own listener all of them (`OpenInv`); a
  node whose start was told has a runner, and a success leaves none begun
  (`EmittedInv`); RUN_COMPLETE and the answer are one step (`CompleteInv`); a request that
  has not subscribed was told nothing (`StrangerInv`); listeners go last (`DropInv`).

`GraphProofs`, for every finite graph, with duplicate edges, self-loops, dangling ends
and islands. Paths and cycles are stated without recursion, by closed sets
(`Precedes`, `Acyclic`), which is what makes them provable:

* `CycleVerdictIsExact`: on graphs whose edges join their nodes, `TOPOLOGY_CYCLE`
  is reported if and only if there is a cycle, duplicates and self-loops
  included. "Acyclic": every non-empty set of nodes
  has a member that nobody in the set feeds. The loop invariant says that the
  in-degrees count the edges of undrained nodes, that the worklist is exactly
  the undrained ids without such edges, and that every non-empty set of drained
  ids has such a member.
* `UnreachableVerdictIsExact`: what the comment of `validateGraph` claims of its
  step 2, that an unreachable node which is no orphan proves a cycle, and that no
  isolated node of a graph with edges is passed over.
* `BindingVerdictIsExact`: an accepted graph has no binding that reads a node which does
  not come before its reader, dangling edges or not; and in an acyclic graph nobody is
  reported for a binding that does. `RefsInv`: the reverse walk never leaves what
  precedes the reader and loses none of it (`AncestorsInv`); the sort is Kahn's loop over
  that part (`SortInv`), so it places all of it unless there is a cycle; what was
  looked at is right, or an issue is there (`CheckedInv`), with a binding to blame
  (`BlameInv`).
* `FanInsWaitForParents` and `OutputsAreThere`, of the run of an accepted graph whose fan-ins
  are not nested. `RunInv`: what an accepted graph runs comes after an entry
  (`RootedInv`, `AcceptedInv`); fan-ins are only ever deferred (`TokensInv`); what ran or is
  due has its parent behind it, and once a fan-in ran, all that is due lies below a
  fan-in (`OrderInv`); what no IF node decides about has run before whatever comes
  after it, and is on its way meanwhile, which is what a waiting fan-in
  needs (`OutputsInv`). Neither is true of nested fan-ins: `nested_joins`.
* `TypeCorrect`, throughout checks and run.

The others follow one pattern: the property, and what makes it inductive.

* `McpCatalogProofs`, for every list of servers. `ClientsAreClosed`: `LifeInv` says which
  states of a client go with which phase, so that whatever is open when `load()`
  fails or `cleanup()` starts is closed by it. `KeysAreExact`: a key is its server's
  one segment followed by the tool's, hence taking off the first segment inverts
  `buildSpec`; it rests on `ServersAssumption` (no colon in a server's name, names
  differ).
* `PlannerProofs`, for every set of answers, every catalog and every `maxAttempts`.
  `LimitNeverBites`: `RoundInv` counts one design per attempt and bounds the
  super-steps at each place of a round, so a round takes four with a catalog and three
  without; the limit of the code leaves one to spare. `NothingHidden` and `RoundsKeep`
  follow the issues and the id map through unparsable answers. `PromiseIsKept` is the
  refinement: each step of the planner is a step of `PlanPromise` or a stutter.
  `AbortIsAnswered`: once aborted in time, `plan()` cannot enter another node. The
  invariants about the issues, the catalog and the endings are separate conjuncts,
  each proved action by action.
* `BuilderStoreProofs`, for all ids, labels, slots, drafts and any number of saves.
  `NothingLeftBehind`: `NothingDangles`, with its exceptions, is inductive by parts (edges,
  marks, bindings). `DirtyMeansUnsaved` needs `SavesInv`: while the store is clean on its
  merits, or a save could still make it so, no save of another draft is under way; every
  action is shown to be an edit, no edit, a replacement or a step of a save (`FlagKinds`).
  `RemovalsAreExact` is the effect of one step, from the types alone. None says more than
  its property, exceptions included.
* `StepStoreProofs`, for any finite set of calls. The heart is `ChainInv`: each call waits
  for the one before it, and a call has its turn only when all before it have settled;
  from it `CounterInv` (store-memory) and `TableInv` (store-prisma) say that a number
  handed out is ahead of every earlier one.
* `PipelineCacheProofs`, for every number of pipelines, saves and runs, every clock and
  capacity. `Known` are the versions that runs have loaded or the cache holds.
  `KeysAgree` says that two known versions with one key have one graph, which is what a
  hit needs; it is kept because the row is never behind what is known (`RowLeads`), and
  because a transaction that has its pipeline for itself will write something newer
  (`OpenSaves`). Both need `~overlapped`, the exception `save_race` shows to be real.

## 5. What is only model-checked

Liveness (out of the prover's reach): `StoppedRunsSettle`, `StepsEnd`, `EarlyStreamsEnd`,
`CallsEnd`, `CompilesAndEnds`, `PlanSettles`, `EverythingSettles`. Every invariant, action
property and refinement that a passing run checks is also a theorem.

## 6. What is not modelled, and the plan

The order of the plan is the order of what matters to a run: the run engine and its
abstract specification, who watches it, the stores below it, the graphs it runs, the
cache, and then the three components beside it: planner, MCP catalog, builder. All of
these exist. What follows:

1. The state channels of a run: `mergeOutputs` and the other reducers of
   `core/src/state.ts` under concurrent writers, beside `GraphRun`.

Left out for good: prompts, auto-fill, zod schemas, JSON-Schema conversion, SSE text,
layout and rendering (data without state of its own); what a binding resolves to (a path
into a JSON value); the OAuth base class (the protocol is the MCP SDK's); list queries
and pipeline creation; the planner's progress callbacks. Assumptions about code outside
the repository: LangGraph as in section 2; a store's `load` returns one committed
version; host hooks (loggers, listeners, tracing and progress callbacks) return, and do
not throw the engine's own `PipelineAbortedError`; the process does not crash during a
run (a crash leaves the row RUNNING, which is the sweeper's case, `Sweep`).
