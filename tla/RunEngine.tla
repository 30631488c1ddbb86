----------------------------- MODULE RunEngine -----------------------------
(***************************************************************************)
(* One run of a pipeline through PipelineEngine (packages/runtime), with   *)
(* the node runners of packages/nodes that LangGraph drives concurrently,  *)
(* and the run row and step rows they write through the store.             *)
(*                                                                         *)
(* Every await of the code is a place where another actor may step in:     *)
(* engine.abort(), the wall-clock timer, the caller's AbortSignal, an      *)
(* external sweeper of the run table, and the other node runners.  A store *)
(* call either takes effect and answers, or rejects (at most               *)
(* MaxStoreFailures times), with or without having taken effect.           *)
(***************************************************************************)
EXTENDS Integers, FiniteSets, FiniteSetsExt

CONSTANTS
    Nodes,             \* node ids of the pipeline graph
    Preds,             \* Preds[n]: the nodes with an edge into n
    AutoNodes,         \* nodes with auto-bound slots (AutoParamResolver is called)
    Cost,              \* Cost[n]: dollars the handler of n reports, if it reports
    ResolveCost,       \* dollars one AutoParamResolver.resolve reports
    Capped,            \* costCapUsd is configured ...
    CostCap,           \* ... to this amount
    RecursionLimits,   \* values of recursionLimit: super-steps LangGraph may take
    HasMcpNode,        \* some node key starts with "mcp:"
    TimerEnabled,      \* runTimeoutMs > 0
    SweeperEnabled,    \* some other process may terminate RUNNING rows
    MaxStoreFailures   \* bound: store calls that reject in one behaviour

ASSUME GraphAssumption ==
    /\ IsFiniteSet(Nodes)
    /\ Preds \in [Nodes -> SUBSET Nodes]
    /\ AutoNodes \subseteq Nodes

ASSUME CostAssumption ==
    /\ Cost \in [Nodes -> Nat]
    /\ ResolveCost \in Nat
    /\ CostCap \in Nat

ASSUME OptionAssumption ==
    /\ RecursionLimits \subseteq Nat
    /\ MaxStoreFailures \in Nat
    /\ Capped \in BOOLEAN /\ HasMcpNode \in BOOLEAN
    /\ TimerEnabled \in BOOLEAN /\ SweeperEnabled \in BOOLEAN

VARIABLES
    engine,       \* where run()/execute() stands
    row,          \* status column of the run row, "none" before createRun
    reply,        \* what completeRun answered the engine
    outcome,      \* {status, kind, code} the engine decided on
    controller,   \* the run's AbortController: "live", or who aborted it first
    inFlight,     \* runId is a key of PipelineEngine.inFlight
    timer,        \* the setTimeout of execute() is armed
    signal,       \* RunOptions.signal: "absent", "clear" or "aborted"
    linked,       \* the abort listener is registered on RunOptions.signal
    catalog,      \* the MCP catalog of the run: "none", "open" or "closed"
    stepsLeft,    \* LangGraph super-steps the run may still start
    runner,       \* runner[n]: where the node runner of n stands
    fault,        \* fault[n]: kind of the error the runner of n threw
    acc,          \* acc[n]: the runner's cost accumulator
    step,         \* step[n]: status of the step row of n, "none" before start()
    spent,        \* spentUsd of the run's cost guard
    swept,        \* the sweeper terminated the row
    storeFailures \* store calls that have rejected so far

control  == <<controller, inFlight, timer, signal, linked>>
rows     == <<row, reply, swept>>
nodeVars == <<stepsLeft, runner, fault, acc, step, spent>>
vars == <<engine, row, reply, outcome, controller, inFlight, timer, signal,
          linked, catalog, stepsLeft, runner, fault, acc, step, spent, swept,
          storeFailures>>

Terminal   == {"SUCCESS", "FAILED", "ABORTED"}
EngineAt   == {"idle", "loading", "creating", "created", "catalog", "compiling",
               "streaming", "finalizing", "writing", "wrote", "cleaning",
               "returning", "settled", "rejected"}
RunnerAt   == {"idle", "starting", "started", "resolving", "handling",
               "finishing", "failing", "done", "failed"}
NoOutcome  == [status |-> "none", kind |-> "none", code |-> "none"]

TypeOK ==
    /\ engine \in EngineAt
    /\ row \in {"none", "RUNNING"} \cup Terminal
    /\ reply \in {"none", "won", "lost", "error"}
    /\ outcome \in [status : {"none"} \cup Terminal,
                    kind   : {"none", "ABORTED", "COST_CAP", "RUNTIME"},
                    code   : {"none", "RECURSION_LIMIT", "COST_CAP", "RUN"}]
    /\ controller \in {"live", "user", "timer", "signal", "engine"}
    /\ inFlight \in BOOLEAN /\ timer \in BOOLEAN /\ linked \in BOOLEAN /\ swept \in BOOLEAN
    /\ signal \in {"absent", "clear", "aborted"}
    /\ catalog \in {"none", "open", "closed"}
    /\ stepsLeft \in Nat
    /\ runner \in [Nodes -> RunnerAt]
    /\ fault \in [Nodes -> {"none", "ABORTED", "COST_CAP", "RUNTIME", "STORE"}]
    /\ acc \in [Nodes -> Nat]
    /\ step \in [Nodes -> {"none", "RUNNING", "SUCCESS", "FAILED"}]
    /\ spent \in Nat
    /\ storeFailures \in 0..MaxStoreFailures

Init ==
    /\ engine = "idle"
    /\ row = "none"
    /\ reply = "none"
    /\ outcome = NoOutcome
    /\ controller = "live"
    /\ inFlight = FALSE
    /\ timer = FALSE
    /\ signal \in {"absent", "clear"}
    /\ linked = FALSE
    /\ catalog = "none"
    /\ stepsLeft \in RecursionLimits
    /\ runner = [n \in Nodes |-> "idle"]
    /\ fault = [n \in Nodes |-> "none"]
    /\ acc = [n \in Nodes |-> 0]
    /\ step = [n \in Nodes |-> "none"]
    /\ spent = 0
    /\ swept = FALSE
    /\ storeFailures = 0

-----------------------------------------------------------------------------
(* Shared pieces.  An operator introduced by "Mutation:" is not the code:   *)
(* it is the operator below it with a plausible bug, and shows that some   *)
(* property depends on the code being the way it is.                       *)

Aborted == controller # "live"

\* Mutation: the catch block of execute() does not abort the siblings.
AbortNotByEngine(who) ==
    controller' = IF Aborted \/ who = "engine" THEN controller ELSE who

\* controller.abort(): the first abort is the one that counts.
AbortController(who) ==
    controller' = IF Aborted THEN controller ELSE who

StoreRejects ==
    /\ storeFailures < MaxStoreFailures
    /\ storeFailures' = storeFailures + 1

\* costGuard.check(): strictly more than the cap has been spent.
OverCap(dollars) == Capped /\ dollars > CostCap

\* classifyRunFailure: "aborted" wins; otherwise any cost-cap error among the
\* underlying errors makes the kind, and a recursion error makes the code.
ClassifyRunFailure(causes, aborted) ==
    LET recursion == ~aborted /\ "RECURSION_LIMIT" \in causes
        costCap   == ~aborted /\ "COST_CAP" \in causes
    IN  [kind |-> IF aborted THEN "ABORTED" ELSE IF costCap THEN "COST_CAP" ELSE "RUNTIME",
         code |-> IF recursion THEN "RECURSION_LIMIT" ELSE IF costCap THEN "COST_CAP" ELSE "RUN"]

\* Mutation: the controller is aborted first and `aborted` read after it.
CatchAbortsFirst(causes) ==
    /\ outcome' = [status |-> "ABORTED", kind |-> "ABORTED", code |-> "RUN"]
    /\ AbortController("engine")
    /\ engine' = "finalizing"
    /\ UNCHANGED <<rows, inFlight, timer, signal, linked, catalog, nodeVars, storeFailures>>

\* The head of execute()'s catch block, up to the call of finalizeStaleSteps:
\* the abort status is captured BEFORE the controller is aborted to stop the
\* sibling branches that still run.
Catch(causes) ==
    LET verdict == ClassifyRunFailure(causes, Aborted)
    IN  /\ outcome' = [status |-> IF Aborted THEN "ABORTED" ELSE "FAILED",
                       kind   |-> verdict.kind,
                       code   |-> verdict.code]
        /\ AbortController("engine")
        /\ engine' = "finalizing"
        /\ UNCHANGED <<rows, inFlight, timer, signal, linked, catalog, nodeVars,
                       storeFailures>>

-----------------------------------------------------------------------------
(* run(): load the graph, create the row, register the run and start       *)
(* execute(), all of the last part synchronously after createRun.          *)

Run ==
    /\ engine = "idle"
    /\ engine' = "loading"
    /\ UNCHANGED <<rows, outcome, control, catalog, nodeVars, storeFailures>>

LoadReturns ==
    /\ engine = "loading"
    /\ engine' = "creating"
    /\ UNCHANGED <<rows, outcome, control, catalog, nodeVars, storeFailures>>

LoadRejects ==
    /\ engine = "loading"
    /\ StoreRejects
    /\ engine' = "rejected"
    /\ UNCHANGED <<rows, outcome, control, catalog, nodeVars>>

CreateRunReturns ==
    /\ engine = "creating"
    /\ row' = "RUNNING"
    /\ engine' = "created"
    /\ UNCHANGED <<reply, swept, outcome, control, catalog, nodeVars, storeFailures>>

CreateRunRejects ==
    /\ engine = "creating"
    /\ StoreRejects
    /\ row' \in {row, "RUNNING"}
    /\ engine' = "rejected"
    /\ UNCHANGED <<reply, swept, outcome, control, catalog, nodeVars>>

\* Mutation: the timer replaces the caller's signal instead of joining it.
TimerUnlessSignal == TimerEnabled /\ signal = "absent"

\* runTimeoutMs > 0 arms the timer; 0 disables it.
ArmTimer == TimerEnabled

\* The continuation of createRun.  A signal that was aborted meanwhile aborts
\* the new controller at once; otherwise its listener is linked.
Launch ==
    /\ engine = "created"
    /\ inFlight' = TRUE
    /\ IF signal = "aborted" THEN AbortController("signal") ELSE UNCHANGED controller
    /\ linked' = (signal = "clear")
    /\ timer' = ArmTimer
    /\ engine' = IF HasMcpNode THEN "catalog" ELSE "compiling"
    /\ UNCHANGED <<rows, outcome, signal, catalog, nodeVars, storeFailures>>

CatalogLoads ==
    /\ engine = "catalog"
    /\ catalog' = "open"
    /\ engine' = "compiling"
    /\ UNCHANGED <<rows, outcome, control, nodeVars, storeFailures>>

\* No catalogLoader is configured, or its load() rejects.  Here and in
\* CompileFails the error is the host's: PipelineAbortedError, which the catch
\* block would also read as an abort, is only ever thrown inside a node runner.
CatalogFails ==
    /\ engine = "catalog"
    /\ Catch({"OTHER"})

CompileReturns ==
    /\ engine = "compiling"
    /\ engine' = "streaming"
    /\ UNCHANGED <<rows, outcome, control, catalog, nodeVars, storeFailures>>

CompileFails ==
    /\ engine = "compiling"
    /\ Catch({"OTHER"})

-----------------------------------------------------------------------------
(* LangGraph, as streamEvents uses it: super-steps of concurrent runners.  *)

Unstarted == {n \in Nodes : runner[n] = "idle"}
Done      == {n \in Nodes : runner[n] = "done"}
Failed    == {n \in Nodes : runner[n] = "failed"}
\* Mutation: the SUCCESS write of a step is not awaited.
RunningUnawaited == {n \in Nodes : runner[n] \in {"starting", "started", "resolving",
                                                 "handling", "failing"}}
Running   == Nodes \ (Unstarted \cup Done \cup Failed)
Ready     == {n \in Unstarted : Preds[n] \subseteq Done}

\* Every node of the super-step calls stepRecorder.start() first, before any
\* abort check.
BeginSuperstep ==
    /\ engine = "streaming"
    /\ Running = {} /\ Failed = {} /\ Ready # {}
    /\ stepsLeft > 0
    /\ stepsLeft' = stepsLeft - 1
    /\ runner' = [n \in Nodes |-> IF n \in Ready THEN "starting" ELSE runner[n]]
    /\ UNCHANGED <<engine, rows, outcome, control, catalog, fault, acc, step, spent,
                   storeFailures>>

RecursionLimitTrips ==
    /\ engine = "streaming"
    /\ Running = {} /\ Failed = {} /\ Ready # {}
    /\ stepsLeft = 0
    /\ Catch({"RECURSION_LIMIT"})

\* The for-await loop ends normally; completeRun(SUCCESS) is called.
StreamEnds ==
    /\ engine = "streaming"
    /\ Running = {} /\ Failed = {} /\ Ready = {}
    /\ outcome' = [status |-> "SUCCESS", kind |-> "none", code |-> "none"]
    /\ engine' = "writing"
    /\ UNCHANGED <<rows, control, catalog, nodeVars, storeFailures>>

\* The stream rejects with the failures it has consumed so far: one error, or
\* an AggregateError of several.  Sibling runners are left running.
StreamFailsWith(consumed) ==
    /\ engine = "streaming"
    /\ consumed # {}
    /\ Catch({fault[n] : n \in consumed})

StreamFails == \E consumed \in SUBSET Failed : StreamFailsWith(consumed)

\* LangGraph's own signal handling rejects the stream with a generic error.
StreamAborts ==
    /\ engine = "streaming"
    /\ Aborted
    /\ Catch({"OTHER"})

-----------------------------------------------------------------------------
(* The node runner (makeNodeRunner).  It keeps going after the run has     *)
(* ended: nothing awaits a sibling of a failed node.                       *)

runnerFrame == <<engine, rows, outcome, control, catalog, stepsLeft>>

\* The catch block of the runner is entered: finish(FAILED) is called.
Throw(n, kind) ==
    /\ runner' = [runner EXCEPT ![n] = "failing"]
    /\ fault' = [fault EXCEPT ![n] = kind]

Proceed(n, next) ==
    /\ runner' = [runner EXCEPT ![n] = next]
    /\ UNCHANGED fault

StepStarted(n) ==
    /\ runner[n] = "starting"
    /\ step' = [step EXCEPT ![n] = "RUNNING"]
    /\ Proceed(n, "started")
    /\ UNCHANGED <<runnerFrame, acc, spent, storeFailures>>

\* start() sits outside the runner's try: its rejection is thrown bare, with
\* no step id, no FAILED step and no node attribution.
StepStartRejects(n) ==
    /\ runner[n] = "starting"
    /\ StoreRejects
    /\ step' \in {step, [step EXCEPT ![n] = "RUNNING"]}
    /\ runner' = [runner EXCEPT ![n] = "failed"]
    /\ fault' = [fault EXCEPT ![n] = "STORE"]
    /\ UNCHANGED <<runnerFrame, acc, spent>>

\* Up to the first await: abort check, explicit bindings, auto slots or input
\* parse.  A binding or a parse may throw.
Prepare(n) ==
    /\ runner[n] = "started"
    /\ \/ Aborted /\ Throw(n, "ABORTED")
       \/ ~Aborted /\ Throw(n, "RUNTIME")
       \/ ~Aborted /\ Proceed(n, IF n \in AutoNodes THEN "resolving" ELSE "handling")
    /\ UNCHANGED <<runnerFrame, acc, step, spent, storeFailures>>

\* autoParamResolver.resolve() returned: its cost counts, then the abort
\* check, then the input parse, then the handler is called.
Resolved(n) ==
    /\ runner[n] = "resolving"
    /\ acc' = [acc EXCEPT ![n] = @ + ResolveCost]
    /\ \/ Aborted /\ Throw(n, "ABORTED")
       \/ ~Aborted /\ Throw(n, "RUNTIME")
       \/ ~Aborted /\ Proceed(n, "handling")
    /\ UNCHANGED <<runnerFrame, step, spent, storeFailures>>

ResolveRejects(n) ==
    /\ runner[n] = "resolving"
    /\ \E kind \in {"RUNTIME", "ABORTED"} : Throw(n, kind)
    /\ UNCHANGED <<runnerFrame, acc, step, spent, storeFailures>>

\* reportCost() may have been called by the time the handler ends.
Report(n) ==
    \E dollars \in {0, Cost[n]} : acc' = [acc EXCEPT ![n] = @ + dollars]

\* Mutation: no abort check after the handler returned.
HandlerReturnsUnchecked(n) ==
    /\ runner[n] = "handling"
    /\ Report(n)
    /\ Throw(n, "RUNTIME") \/ Proceed(n, "finishing")
    /\ UNCHANGED <<runnerFrame, step, spent, storeFailures>>

\* The handler returned, having called ctx.reportCost or not: abort check,
\* output parse, then finish(SUCCESS).
HandlerReturns(n) ==
    /\ runner[n] = "handling"
    /\ Report(n)
    /\ \/ Aborted /\ Throw(n, "ABORTED")
       \/ ~Aborted /\ Throw(n, "RUNTIME")
       \/ ~Aborted /\ Proceed(n, "finishing")
    /\ UNCHANGED <<runnerFrame, step, spent, storeFailures>>

\* The handler throws before or after reporting its cost; an AbortError of its
\* own is recorded as ABORTED whether or not the run was aborted.
HandlerThrows(n) ==
    /\ runner[n] = "handling"
    /\ Report(n)
    /\ \E kind \in {"RUNTIME", "ABORTED"} : Throw(n, kind)
    /\ UNCHANGED <<runnerFrame, step, spent, storeFailures>>

\* Mutation: the guard is checked before it is charged.
TripsBeforeCharge(n) == OverCap(spent)

\* costGuard.add() then costGuard.check(), without an await in between.
Trips(n) == OverCap(spent + acc[n])

\* finish(SUCCESS) took effect and returned: the guard is charged and checked.
FinishReturns(n) ==
    /\ runner[n] = "finishing"
    /\ step' = [step EXCEPT ![n] = "SUCCESS"]
    /\ spent' = spent + acc[n]
    /\ IF Trips(n) THEN Throw(n, "COST_CAP") ELSE Proceed(n, "done")
    /\ UNCHANGED <<runnerFrame, acc, storeFailures>>

FinishRejects(n) ==
    /\ runner[n] = "finishing"
    /\ StoreRejects
    /\ step' \in {step, [step EXCEPT ![n] = "SUCCESS"]}
    /\ Throw(n, "RUNTIME")
    /\ UNCHANGED <<runnerFrame, acc, spent>>

\* Mutation: an aborted node is rethrown without writing its step.
WriteFailedUnlessAborted(n) ==
    step' = IF fault[n] = "ABORTED" THEN step ELSE [step EXCEPT ![n] = "FAILED"]

WriteFailed(n) == step' = [step EXCEPT ![n] = "FAILED"]

\* Mutation: only successful nodes charge the guard.
ChargeNothing(n) == UNCHANGED spent

\* What a failed node reported counts against the cap as well.
ChargeFailure(n) == spent' = spent + acc[n]

\* finish(FAILED) overwrites whatever the step holds; the guard is charged
\* (again, when it was the guard that threw) and the error is rethrown.
FailureRecorded(n) ==
    /\ runner[n] = "failing"
    /\ WriteFailed(n)
    /\ ChargeFailure(n)
    /\ Proceed(n, "failed")
    /\ UNCHANGED <<runnerFrame, acc, storeFailures>>

FailureNotRecorded(n) ==
    /\ runner[n] = "failing"
    /\ StoreRejects
    /\ WriteFailed(n) \/ UNCHANGED step
    /\ ChargeFailure(n)
    /\ Proceed(n, "failed")
    /\ UNCHANGED <<runnerFrame, acc>>

-----------------------------------------------------------------------------
(* The way out of execute().                                               *)

\* Mutation: the siblings are awaited before the run is finalized.
FinalizeAfterSiblings == engine = "finalizing" /\ Running = {}

\* Nothing is awaited between the catch and finalizeStaleSteps.
FinalizeDue == engine = "finalizing"

\* Mutation: stale steps are left to their runners.
NotFinalized == step

\* store.finalizeStaleSteps: every RUNNING step of the run becomes FAILED.
Finalized == [n \in Nodes |-> IF step[n] = "RUNNING" THEN "FAILED" ELSE step[n]]

FinalizeReturns ==
    /\ FinalizeDue
    /\ step' = Finalized
    /\ engine' = "writing"
    /\ UNCHANGED <<rows, outcome, control, catalog, stepsLeft, runner, fault, acc,
                   spent, storeFailures>>

FinalizeRejects ==
    /\ FinalizeDue
    /\ StoreRejects
    /\ engine' = "writing"
    /\ UNCHANGED <<rows, outcome, control, catalog, nodeVars>>

\* Mutation: the terminal write is not conditional.
AnyTerminalWins == row # "none"

FirstTerminalWins == row = "RUNNING"

\* completeRun(outcome.status) in the store: first terminal write wins.
CompleteRun ==
    /\ engine = "writing"
    /\ IF FirstTerminalWins
       THEN row' = outcome.status /\ reply' = "won"
       ELSE UNCHANGED row /\ reply' = "lost"
    /\ engine' = "wrote"
    /\ UNCHANGED <<swept, outcome, control, catalog, nodeVars, storeFailures>>

CompleteRunRejects ==
    /\ engine = "writing"
    /\ StoreRejects
    /\ row' \in IF FirstTerminalWins THEN {row, outcome.status} ELSE {row}
    /\ reply' = "error"
    /\ engine' = "wrote"
    /\ UNCHANGED <<swept, outcome, control, catalog, nodeVars>>

\* Mutation: the catalog is only cleaned up after a success.
FinallyAfterSuccess ==
    IF catalog = "open" /\ outcome.status = "SUCCESS" THEN "cleaning" ELSE "returning"

FinallyAt == IF catalog = "open" THEN "cleaning" ELSE "returning"

\* The continuation of completeRun: RUN_COMPLETE is emitted, the result is
\* returned into the finally block, which clears the timer and, if a catalog
\* was loaded, awaits its cleanup.
Announce ==
    /\ engine = "wrote"
    /\ timer' = FALSE
    /\ engine' = FinallyAt
    /\ UNCHANGED <<rows, outcome, controller, inFlight, signal, linked, catalog,
                   nodeVars, storeFailures>>

\* cleanup() settles; a rejection is only logged.
CatalogCleanedUp ==
    /\ engine = "cleaning"
    /\ catalog' = "closed"
    /\ engine' = "returning"
    /\ UNCHANGED <<rows, outcome, control, nodeVars, storeFailures>>

\* The .finally() of run(), one microtask after execute() settled.
Settle ==
    /\ engine = "returning"
    /\ inFlight' = FALSE
    /\ linked' = FALSE
    /\ engine' = "settled"
    /\ UNCHANGED <<rows, outcome, controller, timer, signal, catalog, nodeVars,
                   storeFailures>>

-----------------------------------------------------------------------------
(* The other actors.                                                       *)

\* engine.abort(runId): does something, and answers true, only when in flight.
UserAborts ==
    /\ inFlight
    /\ AbortController("user")
    /\ UNCHANGED <<engine, rows, outcome, inFlight, timer, signal, linked, catalog,
                   nodeVars, storeFailures>>

TimerFires ==
    /\ timer
    /\ timer' = FALSE
    /\ AbortController("timer")
    /\ UNCHANGED <<engine, rows, outcome, inFlight, signal, linked, catalog, nodeVars,
                   storeFailures>>

\* The caller aborts its own AbortSignal, at any time.
SignalAborts ==
    /\ signal = "clear"
    /\ signal' = "aborted"
    /\ IF linked THEN AbortController("signal") ELSE UNCHANGED controller
    /\ linked' = FALSE
    /\ UNCHANGED <<engine, rows, outcome, inFlight, timer, catalog, nodeVars,
                   storeFailures>>

Sweep ==
    /\ SweeperEnabled
    /\ row = "RUNNING"
    /\ row' = "FAILED"
    /\ swept' = TRUE
    /\ UNCHANGED <<engine, reply, outcome, control, catalog, nodeVars, storeFailures>>

-----------------------------------------------------------------------------
Starting  == LoadReturns \/ LoadRejects \/ CreateRunReturns \/ CreateRunRejects \/ Launch
Compiling == CatalogLoads \/ CatalogFails \/ CompileReturns \/ CompileFails
Streaming == BeginSuperstep \/ RecursionLimitTrips \/ StreamEnds \/ StreamFails \/ StreamAborts
Ending    == FinalizeReturns \/ FinalizeRejects \/ CompleteRun \/ CompleteRunRejects
             \/ Announce \/ CatalogCleanedUp \/ Settle
Handling(n)  == Resolved(n) \/ ResolveRejects(n) \/ HandlerReturns(n) \/ HandlerThrows(n)
Recording(n) == StepStarted(n) \/ StepStartRejects(n) \/ Prepare(n) \/ FinishReturns(n)
                \/ FinishRejects(n) \/ FailureRecorded(n) \/ FailureNotRecorded(n)
Others    == Run \/ UserAborts \/ TimerFires \/ SignalAborts \/ Sweep

Next ==
    \/ Starting \/ Compiling \/ Streaming \/ Ending \/ Others
    \/ \E n \in Nodes : Handling(n) \/ Recording(n)

Spec == Init /\ [][Next]_vars

(* The event loop runs every continuation that is due, store calls and     *)
(* timers answer, LangGraph keeps stepping.  Nothing makes a handler or an *)
(* AutoParamResolver return (no WF on Handling), and nobody has to abort.  *)
EngineFairness ==
    /\ WF_vars(Starting)
    /\ WF_vars(Compiling)
    /\ WF_vars(Streaming)
    /\ WF_vars(Ending)
    /\ WF_vars(TimerFires)
    /\ \A n \in Nodes : WF_vars(Recording(n))

FairSpec == Spec /\ EngineFairness
-----------------------------------------------------------------------------
(* Safety.                                                                 *)

\* A run persisted as SUCCESS has no RUNNING or FAILED step row: every runner
\* that started was awaited and its SUCCESS write returned (node-runner.ts
\* finish before return; index.ts completes only after the stream ended).
SuccessMeansStepsSucceeded ==
    row = "SUCCESS" => \A n \in Nodes : step[n] \in {"none", "SUCCESS"}

\* A run that succeeds never spent more than costCapUsd, however the boundary
\* checks of concurrently finishing nodes interleave (node-runner.ts add then
\* check; cost-guard.ts).
SuccessWithinCap ==
    outcome.status = "SUCCESS" /\ Capped => spent <= CostCap

\* What the nodes that have reached the guard reported.
Charged == {n \in Nodes :
              \/ runner[n] = "done"
              \/ runner[n] = "failed" /\ fault[n] # "STORE"
              \/ runner[n] = "failing" /\ fault[n] = "COST_CAP"}
Reported == MapThenSumSet(LAMBDA n : acc[n], Charged)

\* No spend is lost: also what a node reported before it failed counts
\* against the cap (#24, node-runner.ts catch block).
NoSpendLost == spent >= Reported

\* ABORTED is reported exactly when somebody outside the engine aborted the
\* run before the failure was caught; a FAILED run is one the engine itself
\* stopped.  The controller.abort() of the catch block never turns a failure
\* into an abort (index.ts: `aborted` is captured first).
VerdictNamesTheCause ==
    /\ outcome.status = "ABORTED" => controller \in {"user", "timer", "signal"}
    /\ outcome.status = "FAILED" => controller = "engine"
    /\ outcome.kind = "ABORTED" <=> outcome.status = "ABORTED"

\* The MCP catalog is closed under a runner that may still use its tools only
\* after that runner was told to stop: never under a healthy one.
CatalogOutlivesHandlers ==
    catalog = "closed" =>
        \A n \in Nodes : runner[n] \in {"resolving", "handling"} => Aborted

\* A settled run leaves nothing behind in the process: no timer, no listener
\* on the caller's signal, no inFlight entry, no open catalog.
NothingLeftBehind ==
    engine = "settled" =>
        /\ ~timer /\ ~linked /\ ~inFlight
        /\ catalog # "open"

\* Unless a store call was lost, the only step rows still RUNNING after the
\* answer are those of late starters already on their way out: no row waits
\* for a handler that may never return, and once the runners have ended none
\* is RUNNING (finalizeStaleSteps, then each late runner's finish(FAILED)).
NoStepLeftRunning ==
    engine \in {"cleaning", "returning", "settled"} /\ storeFailures = 0 =>
        \A n \in Nodes : step[n] = "RUNNING" => runner[n] \in {"started", "failing"}

\* Once execute() is in its catch block no sibling branch starts a resolver
\* or a handler any more (#7: it would keep billing after the run failed).
Over == outcome.status \in {"FAILED", "ABORTED"}
NoNewWorkOnceOver ==
    [][\A n \in Nodes :
          runner'[n] \in {"resolving", "handling"} /\ runner'[n] # runner[n] => ~Over]_vars

\* An abort that arrives while some node of the run has not yet passed its
\* last abort check is never lost: the run does not end SUCCESS.
BeforeLastCheck == {"idle", "starting", "started", "resolving", "handling"}
AbortSticks ==
    []((Aborted /\ \E n \in Ready \cup Running : runner[n] \in BeforeLastCheck)
        => [](outcome.status # "SUCCESS"))

(* Refinement of the abstract life cycle.                                  *)
Answered == engine \in {"cleaning", "returning", "settled"}
Lifecycle == INSTANCE RunLifecycle WITH
    answer    <- IF Answered THEN outcome.status ELSE "none",
    contested <- swept \/ reply = "error"

\* The engine implements RunLifecycle: one terminal status per row, one answer
\* per caller, and the two agree unless the terminal write was contested.
ImplementsLifecycle == Lifecycle!Spec

(* Liveness.                                                               *)

\* An aborted run settles, and under a wall-clock timeout every run does, even
\* if a handler never returns (index.ts runTimeoutMs, and the catch block that
\* awaits no sibling).
StoppedRunsSettle == inFlight /\ (Aborted \/ TimerEnabled) ~> engine = "settled"

\* Every step row that was started ends though handlers may never return: by
\* its runner, or once the timeout has stopped the run by finalizeStaleSteps;
\* the rows of late starters included, unless the store lost a call.
StepsEnd ==
    \A n \in Nodes : step[n] = "RUNNING" /\ TimerEnabled ~>
        step[n] \in {"SUCCESS", "FAILED"} \/ storeFailures > 0
=============================================================================
