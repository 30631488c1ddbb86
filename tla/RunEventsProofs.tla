-------------------------- MODULE RunEventsProofs --------------------------
(***************************************************************************)
(* Machine-checked proofs about RunEvents, for every graph and every set   *)
(* of subscribers: the events leave the engine as it is, and no listener   *)
(* misses what it must be told or outlives its run.                        *)
(***************************************************************************)
EXTENDS RunEvents, RunEngineProofs

\* Before run() returns its handle.
Early == {"idle", "loading", "creating", "created", "rejected"}

\* The nodes whose start was announced and whose end was not.
Begun == {n \in Nodes : emitted[n] = "start"}

\* Nothing is announced to anybody before the run is launched.
SilenceInv ==
    engine \in Early =>
        /\ emitted = [n \in Nodes |-> "none"]
        /\ listeners = {}
        /\ open = [s \in Subscribers |-> {}]

\* A request that has not subscribed was told nothing.
StrangerInv ==
    \A c \in Requests : stream[c] = "none" =>
        c \notin listeners /\ open[c] = {}

\* What a listener holds open has begun; the run's own listener holds all of it.
OpenInv ==
    engine \in Before =>
        /\ \A s \in listeners : open[s] \subseteq Begun
        /\ \A s \in OnEvent : s \in listeners /\ open[s] = Begun

\* The node events against the runners, the caught errors against the failures.
EmittedInv ==
    /\ \A n \in Nodes : emitted[n] # "none" => runner[n] # "idle"
    /\ outcome.status = "SUCCESS" => Begun = {}
    /\ caught \subseteq Failed

\* RUN_COMPLETE is told in the step that answers the caller, and to the run's
\* own listener.
CompleteInv ==
    /\ \A s \in Subscribers : complete[s] => engine \in Told
    /\ \A s \in OnEvent : engine \in Told => complete[s]

\* The listeners are dropped last.
DropInv == dropped => engine = "settled" /\ listeners = {}

EventsInv ==
    /\ EventsTypeOK /\ SilenceInv /\ StrangerInv /\ OpenInv /\ EmittedInv
    /\ CompleteInv /\ DropInv /\ CompleteClosesNodes
-----------------------------------------------------------------------------
(* The engine below the events.                                            *)

LEMMA EventsStepEngine == [EventsNext]_allVars => [Next]_vars
BY DEF EventsNext, allVars, Unseen, Emitting, LaunchAndRegister, EmitStart, EmitEnd,
       StreamDrains, StreamRejects, AnnounceToListeners, DropListeners, Attach, Vanish,
       Disconnect, EndResponse, Next, Starting, Streaming, Ending, StreamFails

\* Emitting events and serving requests leaves the engine to itself: every
\* behaviour of RunEvents is one of RunEngine.
THEOREM EventsImplementEngine == EventsSpec => Spec
<1>1. EventsInit => Init
  BY DEF EventsInit
<1> QED
  BY <1>1, EventsStepEngine, PTL DEF EventsSpec, Spec

\* What a step that no listener sees cannot do.
LEMMA UnseenKeeps ==
    ASSUME IInv, Unseen
    PROVE  /\ engine \in Before <=> engine' \in Before
           /\ engine \in Early <=> engine' \in Early
           /\ engine \in Told <=> engine' \in Told
           /\ engine = "settled" => engine' = "settled"
           /\ outcome'.status = "SUCCESS" => outcome.status = "SUCCESS"
           /\ \A n \in Nodes : runner[n] # "idle" => runner'[n] # "idle"
           /\ \A n \in Failed : n \in Failed' /\ fault'[n] = fault[n]
<1> DEFINE Kept ==
      /\ engine \in Before <=> engine' \in Before
      /\ engine \in Early <=> engine' \in Early
      /\ engine \in Told <=> engine' \in Told
      /\ engine = "settled" => engine' = "settled"
      /\ outcome'.status = "SUCCESS" => outcome.status = "SUCCESS"
           RunnersKept ==
      /\ \A n \in Nodes : runner[n] # "idle" => runner'[n] # "idle"
      /\ \A n \in Failed : n \in Failed' /\ fault'[n] = fault[n]
<1>1. CASE LoadReturns \/ LoadRejects \/ CreateRunReturns \/ CreateRunRejects
  BY <1>1 DEF LoadReturns, LoadRejects, CreateRunReturns, CreateRunRejects, nodeVars,
         Before, Early, Told, Failed
<1>2. CASE Compiling \/ RecursionLimitTrips \/ StreamAborts
  BY <1>2 DEF Compiling, CatalogLoads, CatalogFails, CompileReturns, CompileFails,
         RecursionLimitTrips, StreamAborts, Catch, nodeVars, Before, Early, Told, Failed
<1>3. CASE BeginSuperstep
  <2>1. runner \in [Nodes -> RunnerAt]
    BY DEF IInv, TypeOK
  <2>2. \A n \in Nodes : runner'[n] = runner[n] \/ runner'[n] = "starting"
    BY <1>3 DEF BeginSuperstep
  <2>3. \A n \in Failed : runner'[n] = runner[n]
    BY <1>3 DEF BeginSuperstep, Ready, Unstarted, Failed
  <2> QED
    BY <1>3, <2>2, <2>3 DEF BeginSuperstep, Failed
<1>4. CASE FinalizeReturns \/ FinalizeRejects \/ CompleteRun \/ CompleteRunRejects
           \/ CatalogCleanedUp \/ Settle
  BY <1>4 DEF FinalizeReturns, FinalizeRejects, FinalizeDue, CompleteRun, CompleteRunRejects,
         CatalogCleanedUp, Settle, nodeVars, Before, Early, Told, Failed
<1>5. CASE Others
  BY <1>5 DEF Others, Run, UserAborts, TimerFires, SignalAborts, Sweep, nodeVars, Before,
         Early, Told, Failed
<1>6. ASSUME NEW m \in Nodes, Handling(m) \/ Recording(m) PROVE Kept /\ RunnersKept
  <2>1. UNCHANGED <<engine, outcome>>
    BY <1>6, RunnerFrame DEF runnerFrame
  <2>2. \A n \in Failed : n \in Failed' /\ n # m
    BY <1>6, RunnerMoves DEF IInv, Failed
  <2>3. \A n \in Nodes \ {m} : fault'[n] = fault[n]
    BY <1>6 DEF IInv, TypeOK, Handling, Recording, Resolved, ResolveRejects,
         HandlerReturns, HandlerThrows, StepStarted, StepStartRejects, Prepare, FinishReturns,
         FinishRejects, FailureRecorded, FailureNotRecorded, Throw, Proceed
  <2>4. \A n \in Nodes : runner[n] # "idle" => runner'[n] # "idle"
    BY <1>6, RunnerMoves DEF IInv
  <2> QED
    BY <2>1, <2>2, <2>3, <2>4 DEF Failed
<1> QED
  BY <1>1, <1>2, <1>3, <1>4, <1>5, <1>6 DEF Unseen
-----------------------------------------------------------------------------
(* Each part of the invariant.                                             *)

LEMMA EventsTypeStep == TypeOK /\ EventsTypeOK /\ [EventsNext]_allVars => EventsTypeOK'
<1> SUFFICES ASSUME EventsTypeOK, [EventsNext]_allVars PROVE EventsTypeOK'
  OBVIOUS
<1> USE DEF EventsTypeOK, Subscribers, Requests
<1>1. CASE Unseen
  BY <1>1 DEF Unseen, eventVars, subscriptions
<1>2. CASE LaunchAndRegister
  BY <1>2 DEF LaunchAndRegister, RegisterFirst
<1>3. CASE StreamDrains
  BY <1>3 DEF StreamDrains, eventVars, subscriptions
<1>4. CASE StreamRejects
  BY <1>4 DEF StreamRejects, UnderlyingErrors, Failed
<1>5. CASE AnnounceToListeners
  <2>1. complete' \in [Subscribers -> BOOLEAN]
    BY <1>5, Zenon DEF AnnounceToListeners, CompletesAlways
  <2> QED
    BY <1>5, <2>1 DEF AnnounceToListeners, CompletesAlways
<1>6. CASE DropListeners
  BY <1>6 DEF DropListeners
<1>7. ASSUME NEW n \in Nodes, EmitStart(n) \/ EmitEnd(n) PROVE EventsTypeOK'
  BY <1>7 DEF EmitStart, EmitEnd
<1>8. ASSUME NEW c \in Requests, Attach(c) \/ Vanish(c) \/ Disconnect(c) \/ EndResponse(c)
      PROVE  EventsTypeOK'
  BY <1>8 DEF Attach, Vanish, Disconnect, EndResponse
<1>9. CASE UNCHANGED allVars
  BY <1>9 DEF allVars, eventVars, subscriptions
<1> QED
  BY <1>1, <1>2, <1>3, <1>4, <1>5, <1>6, <1>7, <1>8, <1>9 DEF EventsNext, Emitting

\* Each of the invariant's conjuncts against the three kinds of steps that keep
\* it for the same reason everywhere.
LEMMA UnseenStep == IInv /\ EventsInv /\ Unseen => EventsInv'
<1> SUFFICES ASSUME IInv, EventsInv, Unseen PROVE EventsInv'
  OBVIOUS
<1>1. UNCHANGED <<emitted, caught, listeners, open, complete, response, stream, dropped>>
  BY DEF Unseen, eventVars, subscriptions
<1>2. EventsTypeOK'
  BY <1>1 DEF EventsInv, EventsTypeOK
<1>3. SilenceInv' /\ StrangerInv' /\ OpenInv' /\ CompleteInv' /\ DropInv'
  BY <1>1, UnseenKeeps
  DEF EventsInv, SilenceInv, StrangerInv, OpenInv, CompleteInv, DropInv, Begun
<1>4. EmittedInv'
  BY <1>1, UnseenKeeps DEF EventsInv, EmittedInv, Begun
<1>5. CompleteClosesNodes'
  <2>1. \A n \in caught : fault'[n] = fault[n]
    BY UnseenKeeps DEF EventsInv, EmittedInv
  <2> QED
    BY <1>1, <2>1, UnseenKeeps DEF EventsInv, CompleteClosesNodes
<1> QED
  BY <1>2, <1>3, <1>4, <1>5 DEF EventsInv

\* run() registers its own listener before anything can be announced.
LEMMA LaunchStep == IInv /\ EventsInv /\ LaunchAndRegister => EventsInv'
<1> SUFFICES ASSUME IInv, EventsInv, LaunchAndRegister PROVE EventsInv'
  OBVIOUS
<1>1. /\ UNCHANGED <<emitted, caught, open, complete, response, stream, dropped>>
      /\ listeners' = OnEvent
      /\ engine = "created" /\ engine' \in {"catalog", "compiling"}
      /\ UNCHANGED <<outcome, runner, fault>>
  BY DEF LaunchAndRegister, RegisterFirst, Launch, nodeVars, EventsInv, SilenceInv, Early
<1>2. EventsTypeOK'
  BY EventsTypeStep DEF IInv, EventsInv, EventsNext, Emitting
<1>3. SilenceInv' /\ CompleteInv' /\ DropInv'
  BY <1>1 DEF EventsInv, SilenceInv, CompleteInv, DropInv, Early, Told
<1>4. StrangerInv'
  BY <1>1, SubscriberAssumption
  DEF SubscriberAssumption, Requests, EventsInv, SilenceInv, StrangerInv, Early
<1>5. OpenInv'
  <2>1. Begun' = {} /\ \A s \in OnEvent : open[s] = {}
    BY <1>1 DEF EventsInv, SilenceInv, Early, Begun, Subscribers
  <2> QED
    BY <1>1, <2>1 DEF OpenInv
<1>6. EmittedInv' /\ CompleteClosesNodes'
  BY <1>1 DEF EventsInv, EmittedInv, CompleteClosesNodes, Begun, Failed
<1> QED
  BY <1>2, <1>3, <1>4, <1>5, <1>6 DEF EventsInv

\* A node event reaches every listener in the step that emits it.
LEMMA EmitStep ==
    ASSUME IInv, EventsInv, NEW n \in Nodes, EmitStart(n) \/ EmitEnd(n)
    PROVE  EventsInv'
<1>1. /\ UNCHANGED <<caught, listeners, complete, response, stream, dropped>>
      /\ engine = "streaming"
      /\ UNCHANGED <<engine, outcome, runner, fault>>
      /\ runner[n] # "idle"
  BY DEF EmitStart, EmitEnd, vars
<1>2. EventsTypeOK'
  BY EventsTypeStep DEF IInv, EventsInv, EventsNext, Emitting
<1>3. SilenceInv' /\ CompleteInv' /\ DropInv'
  BY <1>1 DEF EventsInv, SilenceInv, CompleteInv, DropInv, Early
<1>4. \A s \in Subscribers \ listeners : open'[s] = open[s]
  BY DEF EmitStart, EmitEnd
<1>5. StrangerInv'
  BY <1>1, <1>4 DEF EventsInv, StrangerInv, Subscribers
<1>6. OpenInv'
  <2>1. /\ listeners \subseteq Subscribers /\ OnEvent \subseteq listeners
        /\ emitted \in [Nodes -> {"none", "start", "end"}]
        /\ \A s \in listeners : open[s] \subseteq Begun
        /\ \A s \in OnEvent : open[s] = Begun
    BY <1>1 DEF EventsInv, OpenInv, EventsTypeOK, Before
  <2>2. CASE EmitStart(n)
    <3>1. Begun' = Begun \cup {n}
      BY <2>1, <2>2 DEF EmitStart, Begun
    <3>2. \A s \in listeners : open'[s] = open[s] \cup {n}
      BY <2>1, <2>2 DEF EmitStart
    <3> QED
      BY <1>1, <2>1, <3>1, <3>2 DEF OpenInv
  <2>3. CASE EmitEnd(n)
    <3>1. Begun' = Begun \ {n}
      BY <2>1, <2>3 DEF EmitEnd, Begun
    <3>2. \A s \in listeners : open'[s] = open[s] \ {n}
      BY <2>1, <2>3 DEF EmitEnd
    <3> QED
      BY <1>1, <2>1, <3>1, <3>2 DEF OpenInv
  <2> QED
    BY <2>2, <2>3
<1>7. EmittedInv'
  <2>1. \A m \in Nodes \ {n} : emitted'[m] = emitted[m]
    BY DEF EmitStart, EmitEnd, EventsInv, EventsTypeOK
  <2>2. outcome.status = "none"
    BY <1>1 DEF IInv, OutcomeInv, Deciding
  <2> QED
    BY <1>1, <2>1, <2>2 DEF EventsInv, EmittedInv, Failed
<1>8. CompleteClosesNodes'
  BY <1>1 DEF EventsInv, CompleteInv, CompleteClosesNodes, Told
<1> QED
  BY <1>2, <1>3, <1>5, <1>6, <1>7, <1>8 DEF EventsInv

\* A drained stream has announced the end of every node it began.
LEMMA DrainStep == IInv /\ EventsInv /\ StreamDrains => EventsInv'
<1> SUFFICES ASSUME IInv, EventsInv, StreamDrains PROVE EventsInv'
  OBVIOUS
<1>1. /\ UNCHANGED <<emitted, caught, listeners, open, complete, response, stream, dropped>>
      /\ engine = "streaming" /\ engine' = "writing"
      /\ UNCHANGED <<runner, fault>>
  BY DEF StreamDrains, StreamEnds, eventVars, subscriptions, nodeVars
<1>2. EventsTypeOK'
  BY <1>1 DEF EventsInv, EventsTypeOK
<1>3. SilenceInv' /\ StrangerInv' /\ OpenInv' /\ CompleteInv' /\ DropInv'
  BY <1>1
  DEF EventsInv, SilenceInv, StrangerInv, OpenInv, CompleteInv, DropInv, Begun, Before,
      Early, Told
<1>4. EmittedInv'
  <2>1. \A n \in Nodes : n \in Unstarted \/ n \in Done
    BY DEF StreamDrains, StreamEnds, Running, Failed
  <2>2. \A n \in Nodes : emitted[n] # "start"
    BY <2>1 DEF StreamDrains, Unstarted, EventsInv, EmittedInv
  <2> QED
    BY <1>1, <2>2 DEF EventsInv, EmittedInv, Begun, Failed
<1>5. CompleteClosesNodes'
  BY <1>1 DEF EventsInv, CompleteInv, CompleteClosesNodes, Told
<1> QED
  BY <1>2, <1>3, <1>4, <1>5 DEF EventsInv

LEMMA RejectStep == IInv /\ EventsInv /\ StreamRejects => EventsInv'
<1> SUFFICES ASSUME IInv, EventsInv, StreamRejects PROVE EventsInv'
  OBVIOUS
<1>1. /\ UNCHANGED <<emitted, listeners, open, complete, response, stream, dropped>>
      /\ engine = "streaming" /\ engine' = "finalizing"
      /\ outcome'.status # "SUCCESS" /\ UNCHANGED <<runner, fault>>
      /\ caught' \subseteq Failed
  BY DEF StreamRejects, StreamFailsWith, Catch, UnderlyingErrors, nodeVars
<1>2. EventsTypeOK'
  BY EventsTypeStep DEF IInv, EventsInv, EventsNext, Emitting
<1>3. SilenceInv' /\ StrangerInv' /\ OpenInv' /\ CompleteInv' /\ DropInv'
  BY <1>1
  DEF EventsInv, SilenceInv, StrangerInv, OpenInv, CompleteInv, DropInv, Begun, Before,
      Early, Told
<1>4. EmittedInv'
  BY <1>1 DEF EventsInv, EmittedInv, Begun, Failed
<1>5. CompleteClosesNodes'
  BY <1>1 DEF EventsInv, CompleteInv, CompleteClosesNodes, Told
<1> QED
  BY <1>2, <1>3, <1>4, <1>5 DEF EventsInv

\* The failed nodes are closed, and RUN_COMPLETE is told, in one step.
LEMMA AnnounceStep == IInv /\ EventsInv /\ AnnounceToListeners => EventsInv'
<1> SUFFICES ASSUME IInv, EventsInv, AnnounceToListeners PROVE EventsInv'
  OBVIOUS
<1>1. /\ UNCHANGED <<emitted, caught, response, dropped>>
      /\ engine = "wrote" /\ engine' \in {"cleaning", "returning"}
      /\ UNCHANGED <<outcome, runner, fault>>
      /\ open' = [s \in Subscribers |-> IF s \in listeners THEN open[s] \ Attributable ELSE open[s]]
      /\ listeners' = listeners \ Requests
      /\ stream' = [c \in Requests |-> IF c \in listeners THEN "resolved" ELSE stream[c]]
  BY DEF AnnounceToListeners, CompletesAlways, Announce, FinallyAt, nodeVars
<1>2. EventsTypeOK'
  BY EventsTypeStep DEF IInv, EventsInv, EventsNext, Emitting
<1>3. \A s \in Subscribers : complete'[s] <=> s \in listeners
  <2>1. \A s \in Subscribers : ~complete[s]
    BY <1>1 DEF EventsInv, CompleteInv, Told
  <2>2. \A s \in Subscribers : complete'[s] = (complete[s] \/ s \in listeners)
    BY Zenon DEF AnnounceToListeners, CompletesAlways
  <2> QED
    BY <2>1, <2>2, Zenon
<1>4. SilenceInv' /\ OpenInv' /\ DropInv'
  BY <1>1 DEF EventsInv, SilenceInv, OpenInv, DropInv, Early, Before
<1>5. CompleteInv'
  <2>1. OnEvent \subseteq listeners
    BY <1>1 DEF EventsInv, OpenInv, Before
  <2> QED
    BY <1>1, <1>3, <2>1 DEF CompleteInv, Told, Subscribers
<1>6. StrangerInv'
  BY <1>1 DEF EventsInv, StrangerInv, Subscribers
<1>7. EmittedInv'
  BY <1>1 DEF EventsInv, EmittedInv, Begun, Failed
<1>8. CompleteClosesNodes'
  <2> SUFFICES ASSUME NEW s \in Subscribers, s \in listeners
               PROVE  /\ \A n \in open'[s] \cap caught : fault[n] = "STORE"
                      /\ outcome.status = "SUCCESS" => open'[s] = {}
    BY <1>1, <1>3 DEF CompleteClosesNodes
  <2>1. open'[s] = open[s] \ Attributable /\ open[s] \subseteq Begun
    BY <1>1 DEF EventsInv, OpenInv, Before
  <2> QED
    BY <2>1 DEF Attributable, EventsInv, EmittedInv
<1> QED
  BY <1>2, <1>4, <1>5, <1>6, <1>7, <1>8 DEF EventsInv

LEMMA DropStep == IInv /\ EventsInv /\ DropListeners => EventsInv'
<1> SUFFICES ASSUME IInv, EventsInv, DropListeners PROVE EventsInv'
  OBVIOUS
<1>1. /\ UNCHANGED <<emitted, caught, open, complete, response, stream>>
      /\ UNCHANGED <<engine, outcome, runner, fault>>
      /\ engine = "settled" /\ listeners' = {}
  BY DEF DropListeners, vars
<1>2. EventsTypeOK'
  BY EventsTypeStep DEF IInv, EventsInv, EventsNext, Emitting
<1>3. SilenceInv' /\ StrangerInv' /\ OpenInv' /\ CompleteInv' /\ DropInv'
  BY <1>1
  DEF EventsInv, SilenceInv, StrangerInv, OpenInv, CompleteInv, DropInv, Before, Early
<1>4. EmittedInv' /\ CompleteClosesNodes'
  BY <1>1 DEF EventsInv, EmittedInv, CompleteClosesNodes, Begun, Failed
<1> QED
  BY <1>2, <1>3, <1>4 DEF EventsInv

\* A request subscribes only to a run in flight, and once.
LEMMA RequestStep ==
    ASSUME IInv, EventsInv, NEW c \in Requests,
           Attach(c) \/ Vanish(c) \/ Disconnect(c) \/ EndResponse(c)
    PROVE  EventsInv'
<1>1. /\ UNCHANGED <<emitted, caught, open, complete, dropped>>
      /\ UNCHANGED <<engine, outcome, runner, fault>>
  BY DEF Attach, Vanish, Disconnect, EndResponse, vars
<1>2. \/ UNCHANGED <<listeners, stream>>
      \/ /\ listeners' = listeners \ {c}
         /\ stream' = [stream EXCEPT ![c] = "resolved"]
      \/ /\ listeners' = listeners \cup {c}
         /\ stream' = [stream EXCEPT ![c] = "waiting"]
         /\ stream[c] = "none" /\ HandleReturned /\ inFlight
  BY DEF Attach, Vanish, Disconnect, EndResponse, Subscribable
<1>3. EventsTypeOK'
  BY EventsTypeStep DEF IInv, EventsInv, EventsNext
<1>4. c \notin OnEvent /\ stream \in [Requests -> {"none", "waiting", "resolved"}]
  BY SubscriberAssumption DEF SubscriberAssumption, Requests, EventsInv, EventsTypeOK
<1>5. SilenceInv'
  BY <1>1, <1>2 DEF EventsInv, SilenceInv, HandleReturned, Early
<1>6. StrangerInv'
  BY <1>1, <1>2, <1>4 DEF EventsInv, StrangerInv
<1>7. OpenInv'
  BY <1>1, <1>2, <1>4 DEF EventsInv, OpenInv, StrangerInv, Begun
<1>8. CompleteInv' /\ EmittedInv' /\ CompleteClosesNodes'
  BY <1>1 DEF EventsInv, CompleteInv, EmittedInv, CompleteClosesNodes, Begun, Failed
<1>9. DropInv'
  <2>1. engine = "settled" => ~inFlight
    BY DEF IInv, ResourceInv
  <2> QED
    BY <1>1, <1>2, <2>1 DEF EventsInv, DropInv
<1> QED
  BY <1>3, <1>5, <1>6, <1>7, <1>8, <1>9 DEF EventsInv
-----------------------------------------------------------------------------
(* The theorems.                                                           *)

\* Who listens, what each listener holds open and what it was told stay in
\* step with the engine.
THEOREM EventsInvariance == EventsSpec => []EventsInv
<1>1. EventsInit => EventsInv
  <2> SUFFICES ASSUME EventsInit PROVE EventsInv
    OBVIOUS
  <2>1. /\ engine = "idle" /\ outcome.status = "none"
        /\ emitted = [n \in Nodes |-> "none"] /\ caught = {} /\ listeners = {}
        /\ open = [s \in Subscribers |-> {}]
        /\ response = [c \in Requests |-> "none"] /\ stream = [c \in Requests |-> "none"]
    BY DEF EventsInit, Init, NoOutcome
  <2>2. complete \in [Subscribers -> BOOLEAN] /\ ~dropped /\ \A s \in Subscribers : ~complete[s]
    BY Zenon DEF EventsInit
  <2>3. dropped \in BOOLEAN
    BY Zenon DEF EventsInit
  <2>4. EventsTypeOK
    BY <2>1, <2>2, <2>3 DEF EventsTypeOK
  <2> QED
    BY <2>1, <2>2, <2>4
    DEF EventsInv, SilenceInv, StrangerInv, OpenInv, EmittedInv, CompleteInv, DropInv,
        CompleteClosesNodes, Begun, Before, Early, Told, Subscribers, Requests
<1>2. IInv /\ EventsInv /\ [EventsNext]_allVars => EventsInv'
  <2> SUFFICES ASSUME IInv, EventsInv, [EventsNext]_allVars PROVE EventsInv'
    OBVIOUS
  <2>1. CASE UNCHANGED allVars
    BY <2>1 DEF allVars, vars, eventVars, subscriptions, EventsInv, EventsTypeOK, SilenceInv,
           StrangerInv, OpenInv, EmittedInv, CompleteInv, DropInv, CompleteClosesNodes, Begun,
           Failed
  <2> QED
    BY <2>1, UnseenStep, LaunchStep, EmitStep, DrainStep, RejectStep, AnnounceStep, DropStep,
       RequestStep DEF EventsNext, Emitting
<1> QED
  BY <1>1, <1>2, EventsImplementEngine, Invariance, PTL DEF EventsSpec

\* The listener passed to run() holds open what has begun and not ended, and
\* has RUN_COMPLETE once the caller is answered.
THEOREM CallerIsTold == EventsSpec => []CallerMissesNothing
<1>1. EventsInv => CallerMissesNothing
  BY DEF EventsInv, OpenInv, CompleteInv, CallerMissesNothing, Begun, Before, Told, Answered
<1> QED
  BY <1>1, EventsInvariance, PTL

\* Whoever was told RUN_COMPLETE holds no node open that failed by name, and
\* none at all after a success.
THEOREM FailuresAreTold == EventsSpec => []CompleteClosesNodes
<1>1. EventsInv => CompleteClosesNodes
  BY DEF EventsInv
<1> QED
  BY <1>1, EventsInvariance, PTL

\* Nobody is registered for a run whose listeners were dropped.
THEOREM NobodyListensLate == EventsSpec => []NoLateListener
<1>1. EventsInv => NoLateListener
  BY DEF EventsInv, DropInv, NoLateListener
<1> QED
  BY <1>1, EventsInvariance, PTL
=============================================================================
