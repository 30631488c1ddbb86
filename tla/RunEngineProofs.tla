-------------------------- MODULE RunEngineProofs --------------------------
(***************************************************************************)
(* Machine-checked proofs about RunEngine, for every graph, every cost     *)
(* table and every bound: type correctness, the safety invariants, and the *)
(* refinement of RunLifecycle.                                             *)
(***************************************************************************)
EXTENDS RunEngine, FiniteSetTheorems, WellFoundedInduction, TLAPS

Prior    == {"idle", "loading", "creating", "rejected"}
Deciding == {"created", "catalog", "compiling", "streaming"}
Told     == {"cleaning", "returning", "settled"}

\* The outcome is fixed exactly when the engine leaves the stream.
OutcomeInv ==
    /\ outcome.status = "none" <=> engine \in Prior \cup Deciding
    /\ engine = "finalizing" => outcome.status # "SUCCESS"
    /\ outcome.kind = "ABORTED" <=> outcome.status = "ABORTED"

\* Who aborted the controller, against the outcome.
ControllerInv ==
    /\ outcome.status = "ABORTED" => controller \in {"user", "timer", "signal"}
    /\ outcome.status = "FAILED" <=> controller = "engine"

\* The run row against the engine's progress and completeRun's answer.
RowInv ==
    /\ engine \in {"idle", "loading", "creating"} => row = "none"
    /\ engine \notin Prior => row # "none"
    /\ row \in Terminal /\ ~swept => engine \in {"wrote"} \cup Told
    /\ row = "SUCCESS" => outcome.status = "SUCCESS"
    /\ reply = "none" <=> engine \notin {"wrote"} \cup Told
    /\ reply = "won" => row = outcome.status
    /\ reply = "lost" => swept

\* The step rows against the runners that write them.
StepInv ==
    \A n \in Nodes :
        /\ runner[n] = "idle" => step[n] = "none"
        /\ runner[n] = "done" => step[n] = "SUCCESS"

\* A successful run has no runner under way, none failed and none still due.
QuietInv == outcome.status = "SUCCESS" => Running = {} /\ Failed = {} /\ Ready = {}

\* The guard exceeds the cap only if some runner has failed or is failing.
SpendInv ==
    Capped => spent <= CostCap \/ \E n \in Nodes : runner[n] \in {"failing", "failed"}

\* Process resources against the engine's progress.
ResourceInv ==
    /\ engine \in Prior \cup {"created"} => ~inFlight /\ ~timer /\ ~linked
    /\ engine \in Told => ~timer
    /\ engine = "settled" => ~inFlight /\ ~linked
    /\ engine \in {"returning", "settled"} => catalog # "open"
    /\ catalog = "closed" => engine \in {"returning", "settled"}

\* NoStepLeftRunning from finalizeStaleSteps on.
StaleInv ==
    engine \in {"writing", "wrote"} \cup Told /\ storeFailures = 0 =>
        \A n \in Nodes : step[n] = "RUNNING" => runner[n] \in {"started", "failing"}

IInv ==
    /\ TypeOK /\ OutcomeInv /\ ControllerInv /\ RowInv /\ StepInv
    /\ QuietInv /\ SpendInv /\ ResourceInv /\ StaleInv
-----------------------------------------------------------------------------
(* Type correctness.                                                       *)

LEMMA InitType == Init => TypeOK
<1> SUFFICES ASSUME Init PROVE TypeOK
  OBVIOUS
<1>1. inFlight \in BOOLEAN /\ timer \in BOOLEAN /\ linked \in BOOLEAN /\ swept \in BOOLEAN
  BY Zenon DEF Init
<1> QED
  BY <1>1, OptionAssumption
  DEF OptionAssumption, Init, TypeOK, NoOutcome, EngineAt, RunnerAt, Terminal

LEMMA TypeStep == TypeOK /\ [Next]_vars => TypeOK'
<1> USE CostAssumption, OptionAssumption
    DEF CostAssumption, OptionAssumption, TypeOK, EngineAt, RunnerAt, Terminal,
        control, rows, nodeVars, runnerFrame, StoreRejects
<1> SUFFICES ASSUME TypeOK, [Next]_vars PROVE TypeOK'
  OBVIOUS
<1>1. CASE Run
  BY <1>1 DEF Run
<1>2. CASE LoadReturns
  BY <1>2 DEF LoadReturns
<1>3. CASE LoadRejects
  BY <1>3 DEF LoadRejects
<1>4. CASE CreateRunReturns
  BY <1>4 DEF CreateRunReturns
<1>5. CASE CreateRunRejects
  BY <1>5 DEF CreateRunRejects
<1>6. CASE Launch
  BY <1>6 DEF Launch, AbortController, Aborted, ArmTimer
<1>7. CASE CatalogLoads
  BY <1>7 DEF CatalogLoads
<1>8. CASE CatalogFails
  BY <1>8 DEF CatalogFails, Catch, AbortController, Aborted, ClassifyRunFailure
<1>9. CASE CompileReturns
  BY <1>9 DEF CompileReturns
<1>10. CASE CompileFails
  BY <1>10 DEF CompileFails, Catch, AbortController, Aborted, ClassifyRunFailure
<1>11. CASE BeginSuperstep
  BY <1>11 DEF BeginSuperstep
<1>12. CASE RecursionLimitTrips
  BY <1>12 DEF RecursionLimitTrips, Catch, AbortController, Aborted, ClassifyRunFailure
<1>13. CASE StreamEnds
  BY <1>13 DEF StreamEnds
<1>14. CASE StreamFails
  BY <1>14 DEF StreamFails, StreamFailsWith, Catch, AbortController, Aborted, ClassifyRunFailure
<1>15. CASE StreamAborts
  BY <1>15 DEF StreamAborts, Catch, AbortController, Aborted, ClassifyRunFailure
<1>16. CASE FinalizeReturns
  BY <1>16 DEF FinalizeReturns, FinalizeDue, Finalized
<1>17. CASE FinalizeRejects
  BY <1>17 DEF FinalizeRejects, FinalizeDue, Finalized
<1>18. CASE CompleteRun
  BY <1>18 DEF CompleteRun, FirstTerminalWins
<1>19. CASE CompleteRunRejects
  BY <1>19 DEF CompleteRunRejects, FirstTerminalWins
<1>20. CASE Announce
  <2>1. timer' \in BOOLEAN
    BY <1>20, Zenon DEF Announce
  <2> QED
    BY <1>20, <2>1 DEF Announce, FinallyAt
<1>21. CASE CatalogCleanedUp
  BY <1>21 DEF CatalogCleanedUp
<1>22. CASE Settle
  <2>1. inFlight' \in BOOLEAN /\ linked' \in BOOLEAN
    BY <1>22, Zenon DEF Settle
  <2> QED
    BY <1>22, <2>1 DEF Settle
<1>23. CASE UserAborts
  BY <1>23 DEF UserAborts, AbortController, Aborted
<1>24. CASE TimerFires
  <2>1. timer' \in BOOLEAN
    BY <1>24, Zenon DEF TimerFires
  <2> QED
    BY <1>24, <2>1 DEF TimerFires, AbortController, Aborted
<1>25. CASE SignalAborts
  <2>1. linked' \in BOOLEAN
    BY <1>25, Zenon DEF SignalAborts
  <2> QED
    BY <1>25, <2>1 DEF SignalAborts, AbortController, Aborted
<1>26. CASE Sweep
  BY <1>26 DEF Sweep
<1>27. ASSUME NEW n \in Nodes, Resolved(n) PROVE TypeOK'
  BY <1>27 DEF Resolved, Throw, Proceed
<1>28. ASSUME NEW n \in Nodes, ResolveRejects(n) PROVE TypeOK'
  BY <1>28 DEF ResolveRejects, Throw
<1>29. ASSUME NEW n \in Nodes, HandlerReturns(n) PROVE TypeOK'
  BY <1>29 DEF HandlerReturns, Report, Throw, Proceed
<1>30. ASSUME NEW n \in Nodes, HandlerThrows(n) PROVE TypeOK'
  BY <1>30 DEF HandlerThrows, Report, Throw
<1>31. ASSUME NEW n \in Nodes, StepStarted(n) PROVE TypeOK'
  BY <1>31 DEF StepStarted, Proceed
<1>32. ASSUME NEW n \in Nodes, StepStartRejects(n) PROVE TypeOK'
  BY <1>32 DEF StepStartRejects
<1>33. ASSUME NEW n \in Nodes, Prepare(n) PROVE TypeOK'
  BY <1>33 DEF Prepare, Throw, Proceed
<1>34. ASSUME NEW n \in Nodes, FinishReturns(n) PROVE TypeOK'
  BY <1>34 DEF FinishReturns, Trips, OverCap, Throw, Proceed
<1>35. ASSUME NEW n \in Nodes, FinishRejects(n) PROVE TypeOK'
  BY <1>35 DEF FinishRejects, Throw
<1>36. ASSUME NEW n \in Nodes, FailureRecorded(n) PROVE TypeOK'
  BY <1>36 DEF FailureRecorded, WriteFailed, ChargeFailure, Proceed
<1>37. ASSUME NEW n \in Nodes, FailureNotRecorded(n) PROVE TypeOK'
  BY <1>37 DEF FailureNotRecorded, WriteFailed, ChargeFailure, Proceed
<1>38. CASE UNCHANGED vars
  BY <1>38 DEF vars
<1> QED
  BY <1>1, <1>2, <1>3, <1>4, <1>5, <1>6, <1>7, <1>8, <1>9, <1>10, <1>11, <1>12,
     <1>13, <1>14, <1>15, <1>16, <1>17, <1>18, <1>19, <1>20, <1>21, <1>22, <1>23,
     <1>24, <1>25, <1>26, <1>27, <1>28, <1>29, <1>30, <1>31, <1>32, <1>33, <1>34,
     <1>35, <1>36, <1>37, <1>38
  DEF Next, Starting, Compiling, Streaming, Ending, Others, Handling, Recording
-----------------------------------------------------------------------------
(* The inductive invariant.  The frame lemma says that node     *)
(* runners touch nothing of the engine; each part of IInv then has a lemma *)
(* with one step per group of actions.                                     *)

LEMMA RunnerFrame ==
    ASSUME NEW n \in Nodes, Handling(n) \/ Recording(n)
    PROVE  UNCHANGED runnerFrame
BY DEF Handling, Recording, Resolved, ResolveRejects, HandlerReturns, HandlerThrows,
       StepStarted, StepStartRejects, Prepare, FinishReturns, FinishRejects,
       FailureRecorded, FailureNotRecorded, runnerFrame

LEMMA OutcomeStep == TypeOK /\ OutcomeInv /\ [Next]_vars => OutcomeInv'
<1> USE DEF TypeOK, OutcomeInv, control, nodeVars, rows,
        Aborted, AbortController, StoreRejects, Prior, Deciding, Told, Terminal, EngineAt
<1> SUFFICES ASSUME TypeOK /\ OutcomeInv, [Next]_vars PROVE OutcomeInv'
  OBVIOUS
<1>1. CASE Starting
  BY <1>1
  DEF Starting, LoadReturns, LoadRejects, CreateRunReturns, CreateRunRejects, Launch,
      ArmTimer
<1>2. CASE Compiling
  BY <1>2
  DEF Compiling, CatalogLoads, CatalogFails, CompileReturns, CompileFails, Catch,
      ClassifyRunFailure
<1>3. CASE Streaming
  BY <1>3
  DEF Streaming, BeginSuperstep, RecursionLimitTrips, StreamEnds, StreamFails, StreamFailsWith,
      StreamAborts,
         Catch, ClassifyRunFailure
<1>4. CASE Ending
  BY <1>4
  DEF Ending, FinalizeReturns, FinalizeRejects, CompleteRun, CompleteRunRejects,
      Announce,
         CatalogCleanedUp, Settle, FinalizeDue, Finalized, FirstTerminalWins, FinallyAt
<1>5. CASE Others
  BY <1>5 DEF Others, Run, UserAborts, TimerFires, SignalAborts, Sweep
<1>6. ASSUME NEW n \in Nodes, Handling(n) \/ Recording(n) PROVE OutcomeInv'
  BY <1>6, RunnerFrame DEF runnerFrame
<1>7. CASE UNCHANGED vars
  BY <1>7 DEF vars
<1> QED
  BY <1>1, <1>2, <1>3, <1>4, <1>5, <1>6, <1>7 DEF Next

LEMMA ControllerStep == TypeOK /\ OutcomeInv /\ ControllerInv /\ [Next]_vars => ControllerInv'
<1> USE DEF TypeOK, ControllerInv, OutcomeInv, control, nodeVars, rows,
        Aborted, AbortController, StoreRejects, Prior, Deciding, Told, Terminal, EngineAt
<1> SUFFICES ASSUME TypeOK /\ OutcomeInv /\ ControllerInv, [Next]_vars PROVE ControllerInv'
  OBVIOUS
<1>1. CASE Starting
  BY <1>1
  DEF Starting, LoadReturns, LoadRejects, CreateRunReturns, CreateRunRejects, Launch,
      ArmTimer
<1>2. CASE Compiling
  BY <1>2
  DEF Compiling, CatalogLoads, CatalogFails, CompileReturns, CompileFails, Catch,
      ClassifyRunFailure
<1>3. CASE Streaming
  BY <1>3
  DEF Streaming, BeginSuperstep, RecursionLimitTrips, StreamEnds, StreamFails, StreamFailsWith,
      StreamAborts,
         Catch, ClassifyRunFailure
<1>4. CASE Ending
  BY <1>4
  DEF Ending, FinalizeReturns, FinalizeRejects, CompleteRun, CompleteRunRejects,
      Announce,
         CatalogCleanedUp, Settle, FinalizeDue, Finalized, FirstTerminalWins, FinallyAt
<1>5. CASE Others
  BY <1>5 DEF Others, Run, UserAborts, TimerFires, SignalAborts, Sweep
<1>6. ASSUME NEW n \in Nodes, Handling(n) \/ Recording(n) PROVE ControllerInv'
  BY <1>6, RunnerFrame DEF runnerFrame
<1>7. CASE UNCHANGED vars
  BY <1>7 DEF vars
<1> QED
  BY <1>1, <1>2, <1>3, <1>4, <1>5, <1>6, <1>7 DEF Next

LEMMA RowStep == TypeOK /\ OutcomeInv /\ RowInv /\ [Next]_vars => RowInv'
<1> USE DEF TypeOK, RowInv, OutcomeInv, control, nodeVars, rows,
        Aborted, AbortController, StoreRejects, Prior, Deciding, Told, Terminal, EngineAt
<1> SUFFICES ASSUME TypeOK /\ OutcomeInv /\ RowInv, [Next]_vars PROVE RowInv'
  OBVIOUS
<1>1. CASE Starting
  BY <1>1
  DEF Starting, LoadReturns, LoadRejects, CreateRunReturns, CreateRunRejects, Launch,
      ArmTimer
<1>2. CASE Compiling
  BY <1>2
  DEF Compiling, CatalogLoads, CatalogFails, CompileReturns, CompileFails, Catch,
      ClassifyRunFailure
<1>3. CASE Streaming
  BY <1>3
  DEF Streaming, BeginSuperstep, RecursionLimitTrips, StreamEnds, StreamFails, StreamFailsWith,
      StreamAborts,
         Catch, ClassifyRunFailure
<1>4. CASE Ending
  BY <1>4
  DEF Ending, FinalizeReturns, FinalizeRejects, CompleteRun, CompleteRunRejects,
      Announce,
         CatalogCleanedUp, Settle, FinalizeDue, Finalized, FirstTerminalWins, FinallyAt
<1>5. CASE Others
  BY <1>5 DEF Others, Run, UserAborts, TimerFires, SignalAborts, Sweep
<1>6. ASSUME NEW n \in Nodes, Handling(n) \/ Recording(n) PROVE RowInv'
  BY <1>6, RunnerFrame DEF runnerFrame
<1>7. CASE UNCHANGED vars
  BY <1>7 DEF vars
<1> QED
  BY <1>1, <1>2, <1>3, <1>4, <1>5, <1>6, <1>7 DEF Next

LEMMA ResourceStep == TypeOK /\ OutcomeInv /\ ResourceInv /\ [Next]_vars => ResourceInv'
<1> USE DEF TypeOK, ResourceInv, OutcomeInv, control, nodeVars, rows,
        Aborted, AbortController, StoreRejects, Prior, Deciding, Told, Terminal, EngineAt
<1> SUFFICES ASSUME TypeOK /\ OutcomeInv /\ ResourceInv, [Next]_vars PROVE ResourceInv'
  OBVIOUS
<1>1. CASE Starting
  BY <1>1
  DEF Starting, LoadReturns, LoadRejects, CreateRunReturns, CreateRunRejects, Launch,
      ArmTimer
<1>2. CASE Compiling
  BY <1>2
  DEF Compiling, CatalogLoads, CatalogFails, CompileReturns, CompileFails, Catch,
      ClassifyRunFailure
<1>3. CASE Streaming
  BY <1>3
  DEF Streaming, BeginSuperstep, RecursionLimitTrips, StreamEnds, StreamFails, StreamFailsWith,
      StreamAborts,
         Catch, ClassifyRunFailure
<1>4. CASE Ending
  BY <1>4
  DEF Ending, FinalizeReturns, FinalizeRejects, CompleteRun, CompleteRunRejects,
      Announce,
         CatalogCleanedUp, Settle, FinalizeDue, Finalized, FirstTerminalWins, FinallyAt
<1>5. CASE Others
  BY <1>5 DEF Others, Run, UserAborts, TimerFires, SignalAborts, Sweep
<1>6. ASSUME NEW n \in Nodes, Handling(n) \/ Recording(n) PROVE ResourceInv'
  BY <1>6, RunnerFrame DEF runnerFrame
<1>7. CASE UNCHANGED vars
  BY <1>7 DEF vars
<1> QED
  BY <1>1, <1>2, <1>3, <1>4, <1>5, <1>6, <1>7 DEF Next

LEMMA StepStep == TypeOK /\ StepInv /\ [Next]_vars => StepInv'
<1> USE DEF TypeOK, StepInv, control, nodeVars, rows,
        runnerFrame, Aborted, AbortController, StoreRejects, Prior, Deciding, Told,
        Terminal, EngineAt, RunnerAt, Running, Failed, Done, Unstarted, Ready
<1> SUFFICES ASSUME TypeOK /\ StepInv, [Next]_vars PROVE StepInv'
  OBVIOUS
<1>1. CASE Starting
  BY <1>1
  DEF Starting, LoadReturns, LoadRejects, CreateRunReturns, CreateRunRejects, Launch,
      ArmTimer
<1>2. CASE Compiling
  BY <1>2
  DEF Compiling, CatalogLoads, CatalogFails, CompileReturns, CompileFails, Catch,
      ClassifyRunFailure
<1>3. CASE Streaming
  BY <1>3
  DEF Streaming, BeginSuperstep, RecursionLimitTrips, StreamEnds, StreamFails, StreamFailsWith,
      StreamAborts,
         Catch, ClassifyRunFailure
<1>4. CASE Ending
  BY <1>4
  DEF Ending, FinalizeReturns, FinalizeRejects, CompleteRun, CompleteRunRejects,
      Announce,
         CatalogCleanedUp, Settle, FinalizeDue, Finalized, FirstTerminalWins, FinallyAt
<1>5. CASE Others
  BY <1>5 DEF Others, Run, UserAborts, TimerFires, SignalAborts, Sweep
<1>6. ASSUME NEW m \in Nodes, Handling(m) \/ Recording(m) PROVE StepInv'
  <2>1. CASE StepStarted(m)
    BY <2>1 DEF StepStarted, Proceed
  <2>2. CASE StepStartRejects(m)
    BY <2>2 DEF StepStartRejects, StoreRejects
  <2>3. CASE Prepare(m)
    BY <2>3 DEF Prepare, Throw, Proceed
  <2>4. CASE Resolved(m)
    BY <2>4 DEF Resolved, Throw, Proceed
  <2>5. CASE ResolveRejects(m)
    BY <2>5 DEF ResolveRejects, Throw
  <2>6. CASE HandlerReturns(m)
    BY <2>6 DEF HandlerReturns, Report, Throw, Proceed
  <2>7. CASE HandlerThrows(m)
    BY <2>7 DEF HandlerThrows, Report, Throw
  <2>8. CASE FinishReturns(m)
    BY <2>8 DEF FinishReturns, Trips, OverCap, Throw, Proceed
  <2>9. CASE FinishRejects(m)
    BY <2>9 DEF FinishRejects, StoreRejects, Throw
  <2>10. CASE FailureRecorded(m)
    BY <2>10 DEF FailureRecorded, WriteFailed, ChargeFailure, Proceed
  <2>11. CASE FailureNotRecorded(m)
    BY <2>11 DEF FailureNotRecorded, StoreRejects, WriteFailed, ChargeFailure, Proceed
  <2> QED
    BY <1>6, <2>1, <2>2, <2>3, <2>4, <2>5, <2>6, <2>7, <2>8, <2>9, <2>10, <2>11
    DEF Handling, Recording
<1>7. CASE UNCHANGED vars
  BY <1>7 DEF vars
<1> QED
  BY <1>1, <1>2, <1>3, <1>4, <1>5, <1>6, <1>7 DEF Next

LEMMA QuietStep == TypeOK /\ OutcomeInv /\ QuietInv /\ [Next]_vars => QuietInv'
<1> USE DEF TypeOK, QuietInv, OutcomeInv, control, nodeVars, rows,
        runnerFrame, Aborted, AbortController, StoreRejects, Prior, Deciding, Told,
        Terminal, EngineAt, RunnerAt, Running, Failed, Done, Unstarted, Ready
<1> SUFFICES ASSUME TypeOK /\ OutcomeInv /\ QuietInv, [Next]_vars PROVE QuietInv'
  OBVIOUS
<1>1. CASE Starting
  BY <1>1
  DEF Starting, LoadReturns, LoadRejects, CreateRunReturns, CreateRunRejects, Launch,
      ArmTimer
<1>2. CASE Compiling
  BY <1>2
  DEF Compiling, CatalogLoads, CatalogFails, CompileReturns, CompileFails, Catch,
      ClassifyRunFailure
<1>3. CASE Streaming
  BY <1>3
  DEF Streaming, BeginSuperstep, RecursionLimitTrips, StreamEnds, StreamFails, StreamFailsWith,
      StreamAborts,
         Catch, ClassifyRunFailure
<1>4. CASE Ending
  BY <1>4
  DEF Ending, FinalizeReturns, FinalizeRejects, CompleteRun, CompleteRunRejects,
      Announce,
         CatalogCleanedUp, Settle, FinalizeDue, Finalized, FirstTerminalWins, FinallyAt
<1>5. CASE Others
  BY <1>5 DEF Others, Run, UserAborts, TimerFires, SignalAborts, Sweep
<1>6. ASSUME NEW m \in Nodes, Handling(m) \/ Recording(m) PROVE QuietInv'
  <2>1. CASE StepStarted(m)
    BY <2>1 DEF StepStarted, Proceed
  <2>2. CASE StepStartRejects(m)
    BY <2>2 DEF StepStartRejects, StoreRejects
  <2>3. CASE Prepare(m)
    BY <2>3 DEF Prepare, Throw, Proceed
  <2>4. CASE Resolved(m)
    BY <2>4 DEF Resolved, Throw, Proceed
  <2>5. CASE ResolveRejects(m)
    BY <2>5 DEF ResolveRejects, Throw
  <2>6. CASE HandlerReturns(m)
    BY <2>6 DEF HandlerReturns, Report, Throw, Proceed
  <2>7. CASE HandlerThrows(m)
    BY <2>7 DEF HandlerThrows, Report, Throw
  <2>8. CASE FinishReturns(m)
    BY <2>8 DEF FinishReturns, Trips, OverCap, Throw, Proceed
  <2>9. CASE FinishRejects(m)
    BY <2>9 DEF FinishRejects, StoreRejects, Throw
  <2>10. CASE FailureRecorded(m)
    BY <2>10 DEF FailureRecorded, WriteFailed, ChargeFailure, Proceed
  <2>11. CASE FailureNotRecorded(m)
    BY <2>11 DEF FailureNotRecorded, StoreRejects, WriteFailed, ChargeFailure, Proceed
  <2> QED
    BY <1>6, <2>1, <2>2, <2>3, <2>4, <2>5, <2>6, <2>7, <2>8, <2>9, <2>10, <2>11
    DEF Handling, Recording
<1>7. CASE UNCHANGED vars
  BY <1>7 DEF vars
<1> QED
  BY <1>1, <1>2, <1>3, <1>4, <1>5, <1>6, <1>7 DEF Next

LEMMA SpendStep == TypeOK /\ SpendInv /\ [Next]_vars => SpendInv'
<1> USE CostAssumption DEF CostAssumption, TypeOK, SpendInv, control, nodeVars, rows,
        runnerFrame, Aborted, AbortController, StoreRejects, Prior, Deciding, Told,
        Terminal, EngineAt, RunnerAt, Running, Failed, Done, Unstarted, Ready
<1> SUFFICES ASSUME TypeOK /\ SpendInv, [Next]_vars PROVE SpendInv'
  OBVIOUS
<1>1. CASE Starting
  BY <1>1
  DEF Starting, LoadReturns, LoadRejects, CreateRunReturns, CreateRunRejects, Launch,
      ArmTimer
<1>2. CASE Compiling
  BY <1>2
  DEF Compiling, CatalogLoads, CatalogFails, CompileReturns, CompileFails, Catch,
      ClassifyRunFailure
<1>3. CASE Streaming
  BY <1>3
  DEF Streaming, BeginSuperstep, RecursionLimitTrips, StreamEnds, StreamFails, StreamFailsWith,
      StreamAborts,
         Catch, ClassifyRunFailure
<1>4. CASE Ending
  BY <1>4
  DEF Ending, FinalizeReturns, FinalizeRejects, CompleteRun, CompleteRunRejects,
      Announce,
         CatalogCleanedUp, Settle, FinalizeDue, Finalized, FirstTerminalWins, FinallyAt
<1>5. CASE Others
  BY <1>5 DEF Others, Run, UserAborts, TimerFires, SignalAborts, Sweep
<1>6. ASSUME NEW m \in Nodes, Handling(m) \/ Recording(m) PROVE SpendInv'
  <2>1. CASE StepStarted(m)
    BY <2>1 DEF StepStarted, Proceed
  <2>2. CASE StepStartRejects(m)
    BY <2>2 DEF StepStartRejects, StoreRejects
  <2>3. CASE Prepare(m)
    BY <2>3 DEF Prepare, Throw, Proceed
  <2>4. CASE Resolved(m)
    BY <2>4 DEF Resolved, Throw, Proceed
  <2>5. CASE ResolveRejects(m)
    BY <2>5 DEF ResolveRejects, Throw
  <2>6. CASE HandlerReturns(m)
    BY <2>6 DEF HandlerReturns, Report, Throw, Proceed
  <2>7. CASE HandlerThrows(m)
    BY <2>7 DEF HandlerThrows, Report, Throw
  <2>8. CASE FinishReturns(m)
    BY <2>8 DEF FinishReturns, Trips, OverCap, Throw, Proceed
  <2>9. CASE FinishRejects(m)
    BY <2>9 DEF FinishRejects, StoreRejects, Throw
  <2>10. CASE FailureRecorded(m)
    BY <2>10 DEF FailureRecorded, WriteFailed, ChargeFailure, Proceed
  <2>11. CASE FailureNotRecorded(m)
    BY <2>11 DEF FailureNotRecorded, StoreRejects, WriteFailed, ChargeFailure, Proceed
  <2> QED
    BY <1>6, <2>1, <2>2, <2>3, <2>4, <2>5, <2>6, <2>7, <2>8, <2>9, <2>10, <2>11
    DEF Handling, Recording
<1>7. CASE UNCHANGED vars
  BY <1>7 DEF vars
<1> QED
  BY <1>1, <1>2, <1>3, <1>4, <1>5, <1>6, <1>7 DEF Next

LEMMA StaleStep == IInv /\ [Next]_vars => StaleInv'
<1> USE
DEF TypeOK, StaleInv, IInv, OutcomeInv, ControllerInv, QuietInv, StepInv, control,
    nodeVars, rows,
        runnerFrame, Aborted, AbortController, StoreRejects, Prior, Deciding, Told,
        Terminal, EngineAt, RunnerAt, Running, Failed, Done, Unstarted, Ready
<1> SUFFICES ASSUME IInv, [Next]_vars PROVE StaleInv'
  OBVIOUS
<1>1. CASE Starting
  BY <1>1
  DEF Starting, LoadReturns, LoadRejects, CreateRunReturns, CreateRunRejects, Launch,
      ArmTimer
<1>2. CASE Compiling
  BY <1>2
  DEF Compiling, CatalogLoads, CatalogFails, CompileReturns, CompileFails, Catch,
      ClassifyRunFailure
<1>3. CASE Streaming
  BY <1>3
  DEF Streaming, BeginSuperstep, RecursionLimitTrips, StreamEnds, StreamFails, StreamFailsWith,
      StreamAborts,
         Catch, ClassifyRunFailure
<1>4. CASE Ending
  BY <1>4
  DEF Ending, FinalizeReturns, FinalizeRejects, CompleteRun, CompleteRunRejects,
      Announce,
         CatalogCleanedUp, Settle, FinalizeDue, Finalized, FirstTerminalWins, FinallyAt
<1>5. CASE Others
  BY <1>5 DEF Others, Run, UserAborts, TimerFires, SignalAborts, Sweep
<1>6. ASSUME NEW m \in Nodes, Handling(m) \/ Recording(m) PROVE StaleInv'
  <2>1. CASE StepStarted(m)
    BY <2>1 DEF StepStarted, Proceed
  <2>2. CASE StepStartRejects(m)
    BY <2>2 DEF StepStartRejects, StoreRejects
  <2>3. CASE Prepare(m)
    BY <2>3 DEF Prepare, Throw, Proceed
  <2>4. CASE Resolved(m)
    BY <2>4 DEF Resolved, Throw, Proceed
  <2>5. CASE ResolveRejects(m)
    BY <2>5 DEF ResolveRejects, Throw
  <2>6. CASE HandlerReturns(m)
    BY <2>6 DEF HandlerReturns, Report, Throw, Proceed
  <2>7. CASE HandlerThrows(m)
    BY <2>7 DEF HandlerThrows, Report, Throw
  <2>8. CASE FinishReturns(m)
    BY <2>8 DEF FinishReturns, Trips, OverCap, Throw, Proceed
  <2>9. CASE FinishRejects(m)
    BY <2>9 DEF FinishRejects, StoreRejects, Throw
  <2>10. CASE FailureRecorded(m)
    BY <2>10 DEF FailureRecorded, WriteFailed, ChargeFailure, Proceed
  <2>11. CASE FailureNotRecorded(m)
    BY <2>11 DEF FailureNotRecorded, StoreRejects, WriteFailed, ChargeFailure, Proceed
  <2> QED
    BY <1>6, <2>1, <2>2, <2>3, <2>4, <2>5, <2>6, <2>7, <2>8, <2>9, <2>10, <2>11
    DEF Handling, Recording
<1>7. CASE UNCHANGED vars
  BY <1>7 DEF vars
<1> QED
  BY <1>1, <1>2, <1>3, <1>4, <1>5, <1>6, <1>7 DEF Next

-----------------------------------------------------------------------------
(* The theorems.                                                           *)

\* IInv is an invariant: it holds initially and every step preserves it.
\* The inductive invariant: every actor's progress, and what ties them together.
THEOREM Invariance == Spec => []IInv
<1>1. Init => IInv
  <2> SUFFICES ASSUME Init PROVE IInv
    OBVIOUS
  <2>1. TypeOK
    BY InitType
  <2>2. ~inFlight /\ ~timer /\ ~linked /\ ~swept
    BY Zenon DEF Init
  <2> QED
    BY <2>1, <2>2, CostAssumption
    DEF CostAssumption, Init, NoOutcome, IInv, OutcomeInv, ControllerInv, RowInv, StepInv,
        QuietInv, SpendInv, ResourceInv, StaleInv, Prior, Deciding, Told, Terminal,
        Running, Failed, Done, Unstarted, Ready
<1>2. IInv /\ [Next]_vars => IInv'
  BY TypeStep, OutcomeStep, ControllerStep, RowStep, ResourceStep, StepStep, QuietStep,
     SpendStep, StaleStep DEF IInv
<1> QED
  BY <1>1, <1>2, PTL DEF Spec

\* Every reachable state is well typed, for every graph, cost table and bound.
THEOREM TypeCorrect == Spec => []TypeOK
<1>1. IInv => TypeOK
  BY DEF IInv
<1> QED
  BY <1>1, Invariance, PTL

\* A run persisted as SUCCESS has no RUNNING or FAILED step row.
THEOREM SuccessfulSteps == Spec => []SuccessMeansStepsSucceeded
<1>1. IInv => SuccessMeansStepsSucceeded
  <2> SUFFICES ASSUME IInv, row = "SUCCESS", NEW n \in Nodes
               PROVE  step[n] \in {"none", "SUCCESS"}
    BY DEF SuccessMeansStepsSucceeded
  <2>1. n \notin Running /\ n \notin Failed
    BY DEF IInv, RowInv, QuietInv
  <2>2. runner[n] = "idle" \/ runner[n] = "done"
    BY <2>1 DEF Running, Failed, Unstarted, Done
  <2> QED
    BY <2>2 DEF IInv, StepInv
<1> QED
  BY <1>1, Invariance, PTL

\* A successful run stayed within costCapUsd.
THEOREM SpendStaysWithinCap == Spec => []SuccessWithinCap
<1>1. IInv => SuccessWithinCap
  <2> SUFFICES ASSUME IInv, outcome.status = "SUCCESS", Capped PROVE spent <= CostCap
    BY DEF SuccessWithinCap
  <2>1. ASSUME NEW n \in Nodes PROVE runner[n] \notin {"failing", "failed"}
    BY DEF IInv, QuietInv, Running, Failed, Unstarted, Done
  <2> QED
    BY <2>1 DEF IInv, SpendInv
<1> QED
  BY <1>1, Invariance, PTL

\* ABORTED means that somebody asked; FAILED means that nobody had.
THEOREM VerdictIsHonest == Spec => []VerdictNamesTheCause
<1>1. IInv => VerdictNamesTheCause
  BY DEF IInv, OutcomeInv, ControllerInv, VerdictNamesTheCause
<1> QED
  BY <1>1, Invariance, PTL

\* The catalog is never closed under a runner that was not told to stop.
THEOREM CatalogStaysOpen == Spec => []CatalogOutlivesHandlers
<1>1. IInv => CatalogOutlivesHandlers
  <2> SUFFICES ASSUME IInv, catalog = "closed", NEW n \in Nodes,
                      runner[n] \in {"resolving", "handling"}
               PROVE  Aborted
    BY DEF CatalogOutlivesHandlers
  <2>1. outcome.status \in Terminal
    BY DEF IInv, TypeOK, ResourceInv, OutcomeInv, Prior, Deciding, Terminal
  <2>2. outcome.status # "SUCCESS"
    BY DEF IInv, QuietInv, Running, Failed, Unstarted, Done
  <2> QED
    BY <2>1, <2>2 DEF IInv, ControllerInv, Aborted, Terminal
<1> QED
  BY <1>1, Invariance, PTL

\* A settled run leaves no timer, listener, inFlight entry or open catalog.
THEOREM SettledIsClean == Spec => []NothingLeftBehind
<1>1. IInv => NothingLeftBehind
  BY DEF IInv, ResourceInv, NothingLeftBehind, Told
<1> QED
  BY <1>1, Invariance, PTL

\* Unless a store call was lost, no step row outlives the run as RUNNING.
THEOREM StaleStepsEnd == Spec => []NoStepLeftRunning
<1>1. IInv => NoStepLeftRunning
  BY DEF IInv, StaleInv, NoStepLeftRunning, Told
<1> QED
  BY <1>1, Invariance, PTL

\* Once the run is over no sibling starts a resolver or a handler.
THEOREM NothingNewOnceOver == Spec => NoNewWorkOnceOver
<1> DEFINE Entry == \A n \in Nodes :
             runner'[n] \in {"resolving", "handling"} /\ runner'[n] # runner[n] => ~Over
<1>1. IInv /\ [Next]_vars => [Entry]_vars
  <2> SUFFICES ASSUME IInv, Next, NEW n \in Nodes,
                      runner'[n] \in {"resolving", "handling"}, runner'[n] # runner[n]
               PROVE  ~Over
    OBVIOUS
  <2>1. Over => Aborted
    BY DEF IInv, ControllerInv, Over, Aborted
  <2>2. CASE \E m \in Nodes : Handling(m) \/ Recording(m)
    BY <2>1, <2>2
    DEF IInv, TypeOK, RunnerAt, Handling, Recording, Resolved, ResolveRejects, HandlerReturns,
        HandlerThrows, StepStarted, StepStartRejects, Prepare, FinishReturns, FinishRejects,
        FailureRecorded, FailureNotRecorded, Throw, Proceed
  <2>3. CASE Starting \/ Compiling \/ Streaming \/ Ending \/ Others
    <3>1. runner' = runner \/ BeginSuperstep
      BY <2>3
      DEF Starting, LoadReturns, LoadRejects, CreateRunReturns, CreateRunRejects, Launch,
          Compiling, CatalogLoads, CatalogFails, CompileReturns, CompileFails,
          Streaming, RecursionLimitTrips, StreamEnds, StreamFails, StreamFailsWith, StreamAborts,
          Ending, FinalizeReturns, FinalizeRejects, CompleteRun, CompleteRunRejects, Announce,
          CatalogCleanedUp, Settle, Others, Run, UserAborts, TimerFires, SignalAborts, Sweep,
          nodeVars, rows, Catch
    <3>2. ~ BeginSuperstep
      <4> SUFFICES ASSUME BeginSuperstep PROVE FALSE
        OBVIOUS
      <4>1. runner'[n] = "starting" \/ runner'[n] = runner[n]
        BY DEF BeginSuperstep
      <4> QED
        BY <4>1
    <3> QED
      BY <3>1, <3>2
  <2> QED
    BY <2>2, <2>3 DEF Next
<1> QED
  BY <1>1, Invariance, PTL DEF Spec, NoNewWorkOnceOver

\* Some node of the run will meet an abort check, or has failed.
Sentenced(n) ==
    n \in Ready \/ runner[n] \in {"starting", "started", "resolving", "handling", "failing", "failed"}
Doomed == outcome.status # "SUCCESS" /\ Aborted /\ \E n \in Nodes : Sentenced(n)

\* An abort is never taken back.
LEMMA AbortStays == IInv /\ [Next]_vars /\ Aborted => Aborted'
<1> USE DEF Aborted, AbortController, control
<1> SUFFICES ASSUME IInv, [Next]_vars, Aborted PROVE Aborted'
  OBVIOUS
<1>1. CASE Starting
  BY <1>1
  DEF Starting, LoadReturns, LoadRejects, CreateRunReturns, CreateRunRejects, Launch
<1>2. CASE Compiling
  BY <1>2 DEF Compiling, CatalogLoads, CatalogFails, CompileReturns, CompileFails, Catch
<1>3. CASE Streaming
  BY <1>3
  DEF Streaming, BeginSuperstep, RecursionLimitTrips, StreamEnds, StreamFails, StreamFailsWith,
      StreamAborts, Catch
<1>4. CASE Ending
  BY <1>4
  DEF Ending, FinalizeReturns, FinalizeRejects, CompleteRun, CompleteRunRejects,
      Announce, CatalogCleanedUp, Settle
<1>5. CASE Others
  BY <1>5 DEF Others, Run, UserAborts, TimerFires, SignalAborts, Sweep
<1>6. ASSUME NEW n \in Nodes, Handling(n) \/ Recording(n) PROVE Aborted'
  BY <1>6, RunnerFrame DEF runnerFrame
<1>7. CASE UNCHANGED vars
  BY <1>7 DEF vars
<1> QED
  BY <1>1, <1>2, <1>3, <1>4, <1>5, <1>6, <1>7 DEF Next

\* Only the start of a super-step and a runner's own steps move a runner.
LEMMA RunnersMove ==
    ASSUME [Next]_vars
    PROVE  \/ UNCHANGED runner
           \/ BeginSuperstep
           \/ \E m \in Nodes : Handling(m) \/ Recording(m)
BY DEF Next, vars, nodeVars, Starting, LoadReturns, LoadRejects, CreateRunReturns,
       CreateRunRejects, Launch, Compiling, CatalogLoads, CatalogFails, CompileReturns,
       CompileFails, Catch, Streaming, RecursionLimitTrips, StreamEnds, StreamFails,
       StreamFailsWith, StreamAborts, Ending, FinalizeReturns, FinalizeRejects, CompleteRun,
       CompleteRunRejects, Announce, CatalogCleanedUp, Settle, Others, Run, UserAborts,
       TimerFires, SignalAborts, Sweep

\* A runner's step moves that runner alone, and forward.
LEMMA RunnerMoves ==
    ASSUME TypeOK, NEW m \in Nodes, Handling(m) \/ Recording(m)
    PROVE  /\ \A n \in Nodes \ {m} : runner'[n] = runner[n]
           /\ runner[m] \notin {"idle", "done", "failed"} /\ runner'[m] # "idle"
           /\ runner'[m] = "finishing" => ~Aborted
           /\ runner'[m] = "done" => runner[m] = "finishing"
BY DEF TypeOK, RunnerAt, Handling, Recording, Resolved, ResolveRejects, HandlerReturns,
       HandlerThrows, StepStarted, StepStartRejects, Prepare, FinishReturns, FinishRejects,
       FailureRecorded, FailureNotRecorded, Throw, Proceed, Aborted

LEMMA SentenceStands ==
    ASSUME IInv, [Next]_vars, Doomed
    PROVE  \E n \in Nodes : Sentenced(n)'
<1>1. PICK n \in Nodes : Sentenced(n)
  BY DEF Doomed
<1>2. runner \in [Nodes -> RunnerAt] /\ runner' \in [Nodes -> RunnerAt] /\ TypeOK
  BY TypeStep DEF IInv, TypeOK
<1>3. CASE UNCHANGED runner
  BY <1>1, <1>3 DEF Sentenced, Ready, Unstarted, Done
<1>4. CASE BeginSuperstep
  <2>1. runner'[n] = runner[n] \/ runner'[n] = "starting"
    BY <1>2, <1>4 DEF BeginSuperstep
  <2>2. n \in Ready => runner'[n] = "starting"
    BY <1>2, <1>4 DEF BeginSuperstep
  <2> QED
    BY <1>1, <2>1, <2>2 DEF Sentenced
<1>5. ASSUME NEW m \in Nodes, Handling(m) \/ Recording(m) PROVE Sentenced(n)'
  <2>1. CASE n \in Ready
    <3>1. n # m
      BY <1>2, <1>5, <2>1, RunnerMoves DEF Ready, Unstarted
    <3>2. Done \subseteq Done'
      BY <1>2, <1>5, RunnerMoves DEF Done
    <3> QED
      BY <1>2, <1>5, <2>1, <3>1, <3>2, RunnerMoves DEF Sentenced, Ready, Unstarted
  <2>2. CASE runner[n] \in {"starting", "started", "resolving", "handling", "failing", "failed"}
    BY <1>2, <1>5, <2>2, RunnerMoves DEF Sentenced, Doomed, RunnerAt
  <2> QED
    BY <1>1, <2>1, <2>2 DEF Sentenced
<1> QED
  BY <1>3, <1>4, <1>5, RunnersMove

\* An abort that arrives while a node still has an abort check ahead of it is
\* never lost: the run does not succeed after it.
THEOREM AbortIsKept == Spec => AbortSticks
<1> DEFINE Early == Aborted /\ \E n \in Ready \cup Running : runner[n] \in BeforeLastCheck
<1>1. IInv /\ Early => Doomed
  BY DEF IInv, QuietInv, Doomed, Sentenced, BeforeLastCheck, Running, Ready, Unstarted
<1>2. IInv /\ [Next]_vars /\ Doomed => Doomed'
  <2> SUFFICES ASSUME IInv, [Next]_vars, Doomed PROVE outcome'.status # "SUCCESS"
    BY AbortStays, SentenceStands DEF Doomed
  <2>1. ~StreamEnds
    BY DEF StreamEnds, Doomed, Sentenced, IInv, TypeOK, RunnerAt, Running, Failed, Ready,
           Unstarted, Done
  <2>2. outcome' = outcome \/ outcome'.status \in {"FAILED", "ABORTED"}
    <3>1. ASSUME NEW causes, Catch(causes) PROVE outcome'.status \in {"FAILED", "ABORTED"}
      BY <3>1 DEF Catch
    <3>2. CASE \E n \in Nodes : Handling(n) \/ Recording(n)
      BY <3>2, RunnerFrame DEF runnerFrame
    <3>3. CASE Starting \/ Compiling \/ Streaming \/ Ending \/ Others \/ UNCHANGED vars
      BY <2>1, <3>1, <3>3
      DEF Starting, LoadReturns, LoadRejects, CreateRunReturns, CreateRunRejects, Launch,
          Compiling, CatalogLoads, CatalogFails, CompileReturns, CompileFails,
          Streaming, BeginSuperstep, RecursionLimitTrips, StreamFails, StreamFailsWith,
          StreamAborts, Ending, FinalizeReturns, FinalizeRejects, CompleteRun,
          CompleteRunRejects, Announce, CatalogCleanedUp, Settle, Others, Run, UserAborts,
          TimerFires, SignalAborts, Sweep, vars
    <3> QED
      BY <3>2, <3>3 DEF Next
  <2> QED
    BY <2>2 DEF Doomed
<1>3. Doomed => outcome.status # "SUCCESS"
  BY DEF Doomed
<1> QED
  BY <1>1, <1>2, <1>3, Invariance, PTL DEF Spec, AbortSticks

\* What the life cycle sees of a step that it does not see.
LEMMA Stutter ==
    ASSUME UNCHANGED <<row, swept, reply>>, Answered' <=> Answered,
           Answered => UNCHANGED outcome
    PROVE  UNCHANGED Lifecycle!lifecycle
<1>1. UNCHANGED (swept \/ reply = "error")
  OBVIOUS
<1>2. UNCHANGED (IF Answered THEN outcome.status ELSE "none")
  OBVIOUS
<1> QED
  BY <1>1, <1>2 DEF Lifecycle!lifecycle

\* The engine implements the abstract life cycle of a run: every step of the
\* engine creates the row, decides it, contests it, answers, or stutters.
THEOREM EngineImplementsLifecycle == Spec => ImplementsLifecycle
<1> DEFINE Answer == IF Answered THEN outcome.status ELSE "none"
           Contested == swept \/ reply = "error"
<1>1. Init => Lifecycle!Init
  BY DEF Init, Lifecycle!Init, Answered
<1>2. IInv /\ [Next]_vars => [Lifecycle!Next]_(Lifecycle!lifecycle)
  <2> SUFFICES ASSUME IInv, [Next]_vars
               PROVE  [Lifecycle!Next]_(Lifecycle!lifecycle)
    OBVIOUS
  <2>1. CASE CreateRunReturns \/ CreateRunRejects
    <3>1. UNCHANGED <<swept, reply, outcome>> /\ ~Answered /\ ~Answered' /\ row = "none"
      BY <2>1 DEF CreateRunReturns, CreateRunRejects, Answered, IInv, RowInv
    <3>2. UNCHANGED Answer /\ UNCHANGED Contested
      BY <3>1
    <3>3. CASE row' = row
      BY <3>1, <3>3, Stutter
    <3>4. CASE row' = "RUNNING"
      BY <3>1, <3>2, <3>4 DEF Lifecycle!Next, Lifecycle!Create
    <3> QED
      BY <2>1, <3>3, <3>4 DEF CreateRunReturns, CreateRunRejects
  <2>2. CASE CompleteRun
    <3>1. UNCHANGED <<swept, outcome>> /\ ~Answered /\ ~Answered' /\ reply = "none"
      BY <2>2 DEF CompleteRun, Answered, IInv, RowInv, Told
    <3>2. UNCHANGED Answer /\ UNCHANGED Contested
      BY <2>2, <3>1 DEF CompleteRun
    <3>3. outcome.status \in Terminal
      BY <2>2 DEF CompleteRun, IInv, TypeOK, OutcomeInv, Prior, Deciding, Terminal
    <3>4. CASE row = "RUNNING"
      <4>1. row' = outcome.status
        BY <2>2, <3>4 DEF CompleteRun, FirstTerminalWins
      <4>2. Lifecycle!Decide(outcome.status)
        BY <3>2, <3>4, <4>1 DEF Lifecycle!Decide
      <4> QED
        BY <3>3, <4>2 DEF Lifecycle!Next, Terminal, Lifecycle!Terminal
    <3>5. CASE row # "RUNNING"
      BY <2>2, <3>2, <3>5 DEF CompleteRun, FirstTerminalWins, Lifecycle!lifecycle
    <3> QED
      BY <3>4, <3>5
  <2>3. CASE CompleteRunRejects
    <3>1. UNCHANGED <<swept, outcome>> /\ ~Answered /\ ~Answered' /\ reply' = "error"
      BY <2>3 DEF CompleteRunRejects, Answered
    <3>2. UNCHANGED Answer /\ Contested' = TRUE
      BY <3>1
    <3>3. outcome.status \in Terminal
      BY <2>3 DEF CompleteRunRejects, IInv, TypeOK, OutcomeInv, Prior, Deciding, Terminal
    <3>4. CASE row' = row
      <4>1. Lifecycle!Contest
        BY <3>2, <3>4 DEF Lifecycle!Contest
      <4> QED
        BY <4>1 DEF Lifecycle!Next
    <3>5. CASE row' # row
      <4>1. row = "RUNNING" /\ row' = outcome.status
        BY <2>3, <3>5 DEF CompleteRunRejects, FirstTerminalWins
      <4>2. Lifecycle!Decide(outcome.status)
        BY <3>2, <4>1 DEF Lifecycle!Decide
      <4> QED
        BY <3>3, <4>2 DEF Lifecycle!Next, Terminal, Lifecycle!Terminal
    <3> QED
      BY <3>4, <3>5
  <2>4. CASE Announce
    <3>1. UNCHANGED <<row, swept, reply, outcome>> /\ ~Answered /\ Answered'
      BY <2>4 DEF Announce, FinallyAt, rows, Answered
    <3>2. Answer = "none" /\ Answer' = outcome.status /\ UNCHANGED Contested
      BY <3>1
    <3>3. outcome.status \in Terminal /\ row # "none"
      BY <2>4 DEF Announce, IInv, TypeOK, OutcomeInv, RowInv, Prior, Deciding, Terminal
    <3>4. Contested \/ row = outcome.status
      BY <2>4 DEF Announce, IInv, TypeOK, RowInv
    <3>5. Lifecycle!Answer(outcome.status)
      BY <3>1, <3>2, <3>3, <3>4 DEF Lifecycle!Answer
    <3> QED
      BY <3>3, <3>5 DEF Lifecycle!Next, Terminal, Lifecycle!Terminal
  <2>5. CASE Sweep
    <3>1. row = "RUNNING" /\ row' = "FAILED" /\ swept' = TRUE
          /\ UNCHANGED <<reply, outcome, engine>>
      BY <2>5 DEF Sweep, rows
    <3>2. UNCHANGED Answer /\ Contested' = TRUE
      BY <3>1 DEF Answered
    <3>3. Lifecycle!Decide("FAILED")
      BY <3>1, <3>2 DEF Lifecycle!Decide
    <3> QED
      BY <3>3 DEF Lifecycle!Next, Lifecycle!Terminal
  <2>6. CASE LoadReturns \/ LoadRejects \/ Launch \/ Compiling \/ Streaming \/ FinalizeReturns
             \/ FinalizeRejects \/ CatalogCleanedUp \/ Settle \/ Run \/ UserAborts
             \/ TimerFires \/ SignalAborts
    <3>1. UNCHANGED <<row, swept, reply>> /\ (Answered' <=> Answered)
          /\ (Answered => UNCHANGED outcome)
      BY <2>6
      DEF LoadReturns, LoadRejects, Launch, Compiling, CatalogLoads, CatalogFails,
          CompileReturns, CompileFails, Catch, Streaming, BeginSuperstep,
          RecursionLimitTrips, StreamEnds, StreamFails, StreamFailsWith, StreamAborts, FinalizeReturns,
          FinalizeRejects, FinalizeDue, CatalogCleanedUp, Settle, Run, UserAborts,
          TimerFires, SignalAborts, control, rows, Answered
    <3> QED
      BY <3>1, Stutter
  <2>7. CASE \E n \in Nodes : Handling(n) \/ Recording(n)
    <3>1. UNCHANGED <<row, swept, reply, outcome>> /\ (Answered' <=> Answered)
      BY <2>7, RunnerFrame DEF runnerFrame, rows, Answered
    <3> QED
      BY <3>1, Stutter
  <2>8. CASE UNCHANGED vars
    <3>1. UNCHANGED <<row, swept, reply, outcome>> /\ (Answered' <=> Answered)
      BY <2>8 DEF vars, Answered
    <3> QED
      BY <3>1, Stutter
  <2> QED
    BY <2>1, <2>2, <2>3, <2>4, <2>5, <2>6, <2>7, <2>8 DEF Next, Starting, Ending, Others
<1> QED
  BY <1>1, <1>2, Invariance, PTL DEF Spec, ImplementsLifecycle, Lifecycle!Spec
-----------------------------------------------------------------------------
(* The spend that is counted, a sum over the nodes.                        *)

\* The sum of f over S, as MapThenSumSet computes it: with a table of the
\* sums over the subsets of S.
Total(f, S) == MapThenSumSet(LAMBDA n : f[n], S)
Pick(s) == CHOOSE x \in s : TRUE
SumsOf(g, f, S) ==
    g = [s \in SUBSET S |-> IF s = {} THEN 0 ELSE f[Pick(s)] + g[s \ {Pick(s)}]]
Sums(f, S) == CHOOSE g : SumsOf(g, f, S)

\* A family of subsets of a finite set has a smallest member.
LEMMA Smallest ==
    ASSUME NEW N, IsFiniteSet(N), NEW F, F \subseteq SUBSET N, F # {}
    PROVE  \E T \in F : \A V \in F : V \subseteq T => V = T
<1>1. IsWellFoundedOn(StrictSubsetOrdering(N), SUBSET N)
  BY FS_StrictSubsetOrderingWellFounded, FS_FiniteSubsetsOfFinite
<1>2. PICK T \in F : \A V \in F : <<V, T>> \notin StrictSubsetOrdering(N)
  BY <1>1, WFMin
<1>3. ASSUME NEW V \in F, V \subseteq T, V # T PROVE FALSE
  <2>1. <<V, T>> \in (SUBSET N) \X (SUBSET N)
    OBVIOUS
  <2>2. <<V, T>> \in StrictSubsetOrdering(N)
    BY <1>3, <2>1 DEF StrictSubsetOrdering
  <2> QED
    BY <1>2, <2>2
<1> QED
  BY <1>2, <1>3

\* Two tables agree where both are defined.
LEMMA SumsAgree ==
    ASSUME NEW f, NEW S, IsFiniteSet(S), NEW R \in SUBSET S,
           NEW g, SumsOf(g, f, S), NEW h, SumsOf(h, f, R)
    PROVE  \A s \in SUBSET R : g[s] = h[s]
<1> DEFINE F == {s \in SUBSET R : g[s] # h[s]}
<1> SUFFICES ASSUME F # {} PROVE FALSE
  OBVIOUS
<1>1. F \subseteq SUBSET S
  OBVIOUS
<1>2. PICK T \in F : \A V \in F : V \subseteq T => V = T
  <2> HIDE DEF F
  <2> QED
    BY <1>1, Smallest
<1>3. /\ g[T] = IF T = {} THEN 0 ELSE f[Pick(T)] + g[T \ {Pick(T)}]
      /\ h[T] = IF T = {} THEN 0 ELSE f[Pick(T)] + h[T \ {Pick(T)}]
  BY DEF SumsOf
<1>4. T # {} => T \ {Pick(T)} # T
  BY DEF Pick
<1>5. T # {} => g[T \ {Pick(T)}] = h[T \ {Pick(T)}]
  BY <1>2, <1>4
<1> QED
  BY <1>3, <1>5

\* There is a table for every finite set.
LEMMA SumsExist ==
    ASSUME NEW f, NEW N, IsFiniteSet(N)
    PROVE  \A S \in SUBSET N : SumsOf(Sums(f, S), f, S)
<1> DEFINE F == {S \in SUBSET N : ~SumsOf(Sums(f, S), f, S)}
<1> SUFFICES ASSUME F # {} PROVE FALSE
  OBVIOUS
<1>1. F \subseteq SUBSET N
  OBVIOUS
<1>2. PICK T \in F : \A V \in F : V \subseteq T => V = T
  <2> HIDE DEF F
  <2> QED
    BY <1>1, Smallest
<1>3. \A s \in SUBSET T : s # T => SumsOf(Sums(f, s), f, s)
  BY <1>2
<1> DEFINE Below(s) == Sums(f, s)[s]
           g == [s \in SUBSET T |-> IF s = {} THEN 0 ELSE f[Pick(s)] + Below(s \ {Pick(s)})]
<1>4. ASSUME NEW s \in SUBSET T, s # {} PROVE s \ {Pick(s)} \in SUBSET T /\ s \ {Pick(s)} # T
  BY <1>4 DEF Pick
<1>5. ASSUME NEW s \in SUBSET T, s # T PROVE g[s] = Below(s)
  <2>1. SumsOf(Sums(f, s), f, s)
    BY <1>3, <1>5
  <2>2. Below(s) = IF s = {} THEN 0 ELSE f[Pick(s)] + Sums(f, s)[s \ {Pick(s)}]
    BY <2>1 DEF SumsOf
  <2>3. ASSUME s # {} PROVE Sums(f, s)[s \ {Pick(s)}] = Below(s \ {Pick(s)})
    <3> DEFINE r == s \ {Pick(s)}
    <3>1. r \in SUBSET T /\ r # T /\ r \in SUBSET s
      BY <1>4, <2>3
    <3>2. SumsOf(Sums(f, r), f, r)
      BY <1>3, <3>1
    <3>3. IsFiniteSet(s)
      BY FS_Subset
    <3> HIDE DEF r
    <3>4. Sums(f, s)[r] = Sums(f, r)[r]
      BY <2>1, <3>1, <3>2, <3>3, SumsAgree
    <3> QED
      BY <3>4 DEF r
  <2> QED
    BY <2>2, <2>3
<1>6. SumsOf(g, f, T)
  <2>1. \A s \in SUBSET T : s # {} => g[s \ {Pick(s)}] = Below(s \ {Pick(s)})
    BY <1>4, <1>5
  <2>2. g = [s \in SUBSET T |-> IF s = {} THEN 0 ELSE f[Pick(s)] + g[s \ {Pick(s)}]]
    BY <2>1
  <2> QED
    BY <2>2 DEF SumsOf
<1>7. SumsOf(Sums(f, T), f, T)
  <2> HIDE DEF g
  <2> QED
    BY <1>6 DEF Sums
<1> QED
  BY <1>7

\* One element is taken away after the other.
LEMMA TotalUnfolds ==
    ASSUME NEW f, NEW S, IsFiniteSet(S)
    PROVE  /\ Total(f, {}) = 0
           /\ S # {} => Total(f, S) = f[Pick(S)] + Total(f, S \ {Pick(S)})
<1>1. \A s : Total(f, s) = Sums(f, s)[s]
  BY DEF Total, Sums, SumsOf, Pick, MapThenSumSet, MapThenFoldSet
<1>2. \A s \in SUBSET S : SumsOf(Sums(f, s), f, s)
  BY SumsExist
<1>3. Total(f, {}) = 0
  BY <1>1, <1>2 DEF SumsOf
<1>4. ASSUME S # {} PROVE Total(f, S) = f[Pick(S)] + Total(f, S \ {Pick(S)})
  <2> DEFINE r == S \ {Pick(S)}
  <2>1. Sums(f, S)[S] = f[Pick(S)] + Sums(f, S)[r]
    BY <1>2, <1>4 DEF SumsOf
  <2>2. r \in SUBSET S
    OBVIOUS
  <2> HIDE DEF r
  <2>3. Sums(f, S)[r] = Sums(f, r)[r]
    BY <1>2, <2>2, SumsAgree
  <2>4. Sums(f, S)[S] = f[Pick(S)] + Sums(f, r)[r]
    BY <2>1, <2>3
  <2> QED
    BY <1>1, <2>4 DEF r
<1> QED
  BY <1>3, <1>4

\* Sums of natural numbers, for values that agree on S, are the same number.
LEMMA TotalSame ==
    ASSUME NEW N, IsFiniteSet(N), NEW f \in [N -> Nat], NEW g \in [N -> Nat],
           NEW S \in SUBSET N, \A n \in S : f[n] = g[n]
    PROVE  Total(f, S) \in Nat /\ Total(f, S) = Total(g, S)
<1> DEFINE F == {s \in SUBSET S : ~(Total(f, s) \in Nat /\ Total(f, s) = Total(g, s))}
<1> SUFFICES ASSUME F # {} PROVE FALSE
  OBVIOUS
<1>1. F \subseteq SUBSET N
  OBVIOUS
<1>2. PICK T \in F : \A V \in F : V \subseteq T => V = T
  <2> HIDE DEF F
  <2> QED
    BY <1>1, Smallest
<1>3. IsFiniteSet(T)
  BY <1>1, FS_Subset
<1>4. T # {} => Pick(T) \in T
  BY DEF Pick
<1>5. ASSUME T # {} PROVE FALSE
  <2>1. T \ {Pick(T)} \notin F
    BY <1>2, <1>4, <1>5
  <2>2. /\ Total(f, T \ {Pick(T)}) \in Nat
        /\ Total(f, T \ {Pick(T)}) = Total(g, T \ {Pick(T)})
    BY <2>1
  <2>3. /\ Total(f, T) = f[Pick(T)] + Total(f, T \ {Pick(T)})
        /\ Total(g, T) = g[Pick(T)] + Total(g, T \ {Pick(T)})
    BY <1>3, <1>5, TotalUnfolds
  <2>4. f[Pick(T)] \in Nat /\ f[Pick(T)] = g[Pick(T)]
    BY <1>4, <1>5
  <2>5. Total(f, T) \in Nat /\ Total(f, T) = Total(g, T)
    BY <2>2, <2>3, <2>4
  <2> QED
    BY <2>5
<1>6. Total(f, {}) = 0 /\ Total(g, {}) = 0
  BY <1>3, TotalUnfolds
<1> QED
  BY <1>5, <1>6

\* Any element may be taken away first.
LEMMA TotalOfMore ==
    ASSUME NEW N, IsFiniteSet(N), NEW f \in [N -> Nat], NEW S \in SUBSET N, NEW n \in S
    PROVE  Total(f, S) = f[n] + Total(f, S \ {n})
<1> DEFINE F == {s \in SUBSET N : \E m \in s : Total(f, s) # f[m] + Total(f, s \ {m})}
<1> SUFFICES ASSUME F # {} PROVE FALSE
  OBVIOUS
<1>1. F \subseteq SUBSET N
  OBVIOUS
<1>2. PICK T \in F : \A V \in F : V \subseteq T => V = T
  <2> HIDE DEF F
  <2> QED
    BY <1>1, Smallest
<1>3. PICK m \in T : Total(f, T) # f[m] + Total(f, T \ {m})
  OBVIOUS
<1> DEFINE p == Pick(T)
<1>4. p \in T
  BY DEF Pick
<1>5. IsFiniteSet(T) /\ T \subseteq N
  BY <1>1, FS_Subset
<1>6. Total(f, T) = f[p] + Total(f, T \ {p})
  BY <1>4, <1>5, TotalUnfolds
<1> HIDE DEF p
<1>7. p # m
  BY <1>3, <1>6
<1>8. T \ {p} \notin F /\ T \ {m} \notin F
  BY <1>2, <1>4
<1>9. /\ Total(f, T \ {p}) = f[m] + Total(f, (T \ {p}) \ {m})
      /\ Total(f, T \ {m}) = f[p] + Total(f, (T \ {m}) \ {p})
  BY <1>4, <1>5, <1>7, <1>8
<1>10. (T \ {p}) \ {m} = T \ {p, m} /\ (T \ {m}) \ {p} = T \ {p, m}
  OBVIOUS
<1>11. Total(f, T \ {p, m}) \in Nat /\ f[p] \in Nat /\ f[m] \in Nat
  BY <1>4, <1>5, TotalSame
<1>12. Total(f, T) = f[m] + Total(f, T \ {m})
  BY <1>6, <1>9, <1>10, <1>11
<1> QED
  BY <1>3, <1>12

LEMMA ReportedIsTotal ==
    Reported = Total(acc, Charged) /\ Reported' = Total(acc', Charged')
BY DEF Reported, Total, MapThenSumSet, MapThenFoldSet

\* A step that charges nobody anew.
LEMMA SpendKept ==
    ASSUME TypeOK, TypeOK', NoSpendLost, Charged' = Charged,
           \A n \in Charged : acc'[n] = acc[n], spent' >= spent
    PROVE  NoSpendLost'
<1>1. acc \in [Nodes -> Nat] /\ acc' \in [Nodes -> Nat] /\ spent \in Nat /\ spent' \in Nat
  BY DEF TypeOK
<1>2. Charged \in SUBSET Nodes
  BY DEF Charged
<1>3. Total(acc, Charged) \in Nat /\ Total(acc, Charged) = Total(acc', Charged)
  BY <1>1, <1>2, GraphAssumption, TotalSame DEF GraphAssumption
<1> QED
  BY <1>1, <1>3, ReportedIsTotal DEF NoSpendLost

\* A step that charges n.
LEMMA SpendAdded ==
    ASSUME TypeOK, TypeOK', NoSpendLost, NEW n \in Nodes \ Charged,
           Charged' = Charged \cup {n}, acc' = acc, spent' = spent + acc[n]
    PROVE  NoSpendLost'
<1>1. acc \in [Nodes -> Nat] /\ spent \in Nat
  BY DEF TypeOK
<1>2. Charged \in SUBSET Nodes /\ Charged' \in SUBSET Nodes /\ Charged' \ {n} = Charged
  BY DEF Charged
<1>3. Total(acc, Charged') = acc[n] + Total(acc, Charged)
  BY <1>1, <1>2, GraphAssumption, TotalOfMore DEF GraphAssumption
<1>4. Total(acc, Charged) \in Nat /\ acc[n] \in Nat
  BY <1>1, <1>2, GraphAssumption, TotalSame DEF GraphAssumption
<1> QED
  BY <1>1, <1>3, <1>4, ReportedIsTotal DEF NoSpendLost

LEMMA NoSpendLostStep == TypeOK /\ NoSpendLost /\ [Next]_vars => NoSpendLost'
<1> SUFFICES ASSUME TypeOK, NoSpendLost, [Next]_vars PROVE NoSpendLost'
  OBVIOUS
<1>1. TypeOK'
  BY TypeStep
<1>2. spent \in Nat /\ acc \in [Nodes -> Nat] /\ runner \in [Nodes -> RunnerAt]
      /\ DOMAIN fault = Nodes /\ fault = [m \in Nodes |-> fault[m]]
  BY DEF TypeOK
<1>3. CASE UNCHANGED <<runner, fault, acc, spent>>
  <2>1. Charged' = Charged
    BY <1>3 DEF Charged
  <2> QED
    BY <1>1, <1>2, <1>3, <2>1, SpendKept
<1>4. CASE BeginSuperstep
  <2>1. /\ runner' = [n \in Nodes |-> IF n \in Ready THEN "starting" ELSE runner[n]]
        /\ UNCHANGED <<fault, acc, spent>>
    BY <1>4 DEF BeginSuperstep
  <2>2. \A n \in Ready : runner[n] = "idle"
    BY DEF Ready, Unstarted
  <2>3. Charged' = Charged
    BY <2>1, <2>2 DEF Charged
  <2> QED
    BY <1>1, <1>2, <2>1, <2>3, SpendKept
<1>5. ASSUME NEW n \in Nodes, Handling(n) \/ Recording(n) PROVE NoSpendLost'
  <2>1. ASSUME n \notin Charged, n \notin Charged', spent' = spent,
               \A m \in Nodes \ {n} :
                   runner'[m] = runner[m] /\ fault'[m] = fault[m] /\ acc'[m] = acc[m]
        PROVE  NoSpendLost'
    <3>1. Charged' = Charged
      BY <2>1 DEF Charged
    <3> QED
      BY <1>1, <1>2, <2>1, <3>1, SpendKept DEF Charged
  <2>2. CASE Handling(n) \/ StepStarted(n) \/ StepStartRejects(n) \/ Prepare(n) \/ FinishRejects(n)
    <3>1. /\ runner[n] \in {"starting", "started", "resolving", "handling", "finishing"}
          /\ spent' = spent
          /\ \A m \in Nodes \ {n} :
                 runner'[m] = runner[m] /\ fault'[m] = fault[m] /\ acc'[m] = acc[m]
      BY <1>2, <2>2 DEF Handling, Resolved, ResolveRejects, HandlerReturns, HandlerThrows, Report,
                        StepStarted, StepStartRejects, Prepare, FinishRejects, Throw, Proceed
    <3>2. \/ runner'[n] \in {"started", "resolving", "handling", "finishing"}
          \/ runner'[n] = "failing" /\ fault'[n] \in {"RUNTIME", "ABORTED"}
          \/ runner'[n] = "failed" /\ fault'[n] = "STORE"
      BY <1>2, <2>2 DEF Handling, Resolved, ResolveRejects, HandlerReturns, HandlerThrows,
                        StepStarted, StepStartRejects, Prepare, FinishRejects, Throw, Proceed
    <3>3. n \notin Charged /\ n \notin Charged'
      BY <3>1, <3>2 DEF Charged
    <3> QED
      BY <2>1, <3>1, <3>3
  <2>3. CASE FinishReturns(n)
    <3>1. /\ runner[n] = "finishing" /\ acc' = acc /\ spent' = spent + acc[n]
          /\ \A m \in Nodes \ {n} : runner'[m] = runner[m] /\ fault'[m] = fault[m]
          /\ runner'[n] = "done" \/ (runner'[n] = "failing" /\ fault'[n] = "COST_CAP")
      BY <1>2, <2>3 DEF FinishReturns, Throw, Proceed
    <3>2. n \notin Charged /\ Charged' = Charged \cup {n}
      BY <3>1 DEF Charged
    <3> QED
      BY <1>1, <3>1, <3>2, SpendAdded
  <2>4. CASE FailureRecorded(n) \/ FailureNotRecorded(n)
    <3>1. /\ runner[n] = "failing" /\ runner'[n] = "failed" /\ acc' = acc /\ fault' = fault
          /\ spent' = spent + acc[n]
          /\ \A m \in Nodes \ {n} : runner'[m] = runner[m]
      BY <1>2, <2>4 DEF FailureRecorded, FailureNotRecorded, ChargeFailure, Proceed
    <3>2. CASE n \notin Charged /\ fault[n] # "STORE"
      <4>1. Charged' = Charged \cup {n}
        BY <3>1, <3>2 DEF Charged
      <4> QED
        BY <1>1, <3>1, <3>2, <4>1, SpendAdded
    <3>3. CASE n \in Charged \/ fault[n] = "STORE"
      <4>1. Charged' = Charged
        BY <3>1, <3>3 DEF Charged
      <4>2. acc[n] \in Nat
        BY <1>2
      <4> QED
        BY <1>1, <1>2, <3>1, <4>1, <4>2, SpendKept
    <3> QED
      BY <3>2, <3>3
  <2> QED
    BY <1>5, <2>2, <2>3, <2>4 DEF Recording
<1>6. CASE Starting \/ Compiling \/ Ending \/ Others \/ UNCHANGED vars \/ (Streaming /\ ~BeginSuperstep)
  BY <1>3, <1>6
  DEF Starting, LoadReturns, LoadRejects, CreateRunReturns, CreateRunRejects, Launch, Compiling,
      CatalogLoads, CatalogFails, CompileReturns, CompileFails, Catch, Ending, FinalizeReturns,
      FinalizeRejects, CompleteRun, CompleteRunRejects, Announce, CatalogCleanedUp, Settle,
      Others, Run, UserAborts, TimerFires, SignalAborts, Sweep, Streaming, RecursionLimitTrips,
      StreamEnds, StreamFails, StreamFailsWith, StreamAborts, nodeVars, vars
<1> QED
  BY <1>4, <1>5, <1>6 DEF Next

\* Whatever a node reported before it succeeded or failed is in the guard.
THEOREM SpendIsCounted == Spec => []NoSpendLost
<1>1. Init => NoSpendLost
  <2> SUFFICES ASSUME Init PROVE NoSpendLost
    OBVIOUS
  <2>1. Charged = {} /\ spent = 0
    BY DEF Init, Charged
  <2>2. Total(acc, {}) = 0
    BY FS_EmptySet, TotalUnfolds
  <2> QED
    BY <2>1, <2>2, ReportedIsTotal DEF NoSpendLost
<1> QED
  BY <1>1, NoSpendLostStep, TypeCorrect, PTL DEF Spec
=============================================================================
