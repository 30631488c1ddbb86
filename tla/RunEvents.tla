----------------------------- MODULE RunEvents -----------------------------
(***************************************************************************)
(* The live events of one run: the engine of RunEngine emitting them, and  *)
(* the subscribers that receive them.  A subscriber is the listener passed *)
(* to run() itself (RunOptions.onEvent), or the streamRun() call of an     *)
(* HTTP request: POST /run/stream, which started the run, or               *)
(* GET /runs/:id/stream, which joins a run in flight.                      *)
(*                                                                         *)
(* Every step of RunEngine is a step here, joined with what it does to the *)
(* listeners; the rest is the for-await loop over LangGraph's events and   *)
(* the requests.                                                           *)
(***************************************************************************)
EXTENDS RunEngine

CONSTANTS
    OnEvent,   \* listeners passed as RunOptions.onEvent (at most one in the code)
    Posts,     \* POST /run/stream requests (the one that started the run)
    Gets       \* GET /runs/:id/stream requests

ASSUME SubscriberAssumption ==
    OnEvent \cap Posts = {} /\ OnEvent \cap Gets = {} /\ Posts \cap Gets = {}

Requests    == Posts \cup Gets
Subscribers == OnEvent \cup Requests

VARIABLES
    emitted,   \* emitted[n]: last node event of n the for-await loop emitted
    caught,    \* nodes whose errors execute()'s catch block caught
    listeners, \* PipelineEngine.listeners.get(runId)
    open,      \* open[s]: nodes whose NODE_START s received, and no end event
    complete,  \* complete[s]: s received RUN_COMPLETE
    response,  \* response[c]: the HTTP response of request c
    stream,    \* stream[c]: the streamRun() call of request c
    dropped    \* listeners.delete(runId) ran

subscriptions == <<caught, listeners, open, complete, response, stream, dropped>>
eventVars == <<emitted, subscriptions>>
allVars   == <<vars, eventVars>>

EventsTypeOK ==
    /\ emitted \in [Nodes -> {"none", "start", "end"}]
    /\ caught \in SUBSET Nodes
    /\ listeners \in SUBSET Subscribers
    /\ open \in [Subscribers -> SUBSET Nodes]
    /\ complete \in [Subscribers -> BOOLEAN]
    /\ response \in [Requests -> {"none", "gone", "streaming", "refused", "closed", "ended"}]
    /\ stream \in [Requests -> {"none", "waiting", "resolved"}]
    /\ dropped \in BOOLEAN

EventsInit ==
    /\ Init
    /\ emitted = [n \in Nodes |-> "none"]
    /\ caught = {}
    /\ listeners = {}
    /\ open = [s \in Subscribers |-> {}]
    /\ complete = [s \in Subscribers |-> FALSE]
    /\ response = [c \in Requests |-> "none"]
    /\ stream = [c \in Requests |-> "none"]
    /\ dropped = FALSE

-----------------------------------------------------------------------------
(* The engine's side.                                                      *)

\* Mutation: run() starts execute() without registering the listener first.
RegisterLater == UNCHANGED listeners

\* RunOptions.onEvent is registered in the step that starts execute().
RegisterFirst == listeners' = listeners \cup OnEvent

LaunchAndRegister ==
    /\ Launch
    /\ RegisterFirst
    /\ UNCHANGED <<emitted, caught, open, complete, response, stream, dropped>>

\* The for-await loop emits what translateEvent makes of LangGraph's
\* on_chain_start of a node that was scheduled ...
EmitStart(n) ==
    /\ engine = "streaming"
    /\ emitted[n] = "none" /\ runner[n] # "idle"
    /\ emitted' = [emitted EXCEPT ![n] = "start"]
    /\ open' = [s \in Subscribers |-> IF s \in listeners THEN open[s] \cup {n} ELSE open[s]]
    /\ UNCHANGED <<vars, caught, listeners, complete, response, stream, dropped>>

\* ... and of its on_chain_end, which a node that threw never has.
EmitEnd(n) ==
    /\ engine = "streaming"
    /\ emitted[n] = "start" /\ runner[n] = "done"
    /\ emitted' = [emitted EXCEPT ![n] = "end"]
    /\ open' = [s \in Subscribers |-> IF s \in listeners THEN open[s] \ {n} ELSE open[s]]
    /\ UNCHANGED <<vars, caught, listeners, complete, response, stream, dropped>>

\* The loop ends when LangGraph closes the stream: all of its events are read.
StreamDrains ==
    /\ StreamEnds
    /\ \A n \in Done : emitted[n] = "end"
    /\ UNCHANGED eventVars

\* underlyingErrors: all of an AggregateError's errors, or the single one.
UnderlyingErrors(consumed) == consumed

\* Mutation: only the first error of an AggregateError is looked at.
FirstAttributable ==
    LET named == {n \in caught : fault[n] # "STORE"}
    IN  IF named = {} THEN {} ELSE {CHOOSE n \in named : TRUE}

\* nodeFailureEvent: every error that carries a node id, i.e. not the bare
\* rejection of stepRecorder.start().
Attributable == {n \in caught : fault[n] # "STORE"}

\* The stream rejects; events LangGraph had buffered are not read any more.
StreamRejects ==
    /\ \E consumed \in SUBSET Failed :
          StreamFailsWith(consumed) /\ caught' = UnderlyingErrors(consumed)
    /\ UNCHANGED <<emitted, listeners, open, complete, response, stream, dropped>>

\* Mutation: RUN_COMPLETE is only emitted by the success path.
CompletesOnSuccess == outcome.status = "SUCCESS"

CompletesAlways == TRUE

\* emit() of the NODE_FAILED / NODE_ABORTED events and of RUN_COMPLETE, one
\* synchronous burst.  A streamRun() listener unsubscribes itself and resolves
\* on RUN_COMPLETE.
AnnounceToListeners ==
    /\ Announce
    /\ open' = [s \in Subscribers |-> IF s \in listeners THEN open[s] \ Attributable ELSE open[s]]
    /\ IF CompletesAlways
       THEN /\ complete' = [s \in Subscribers |-> complete[s] \/ s \in listeners]
            /\ listeners' = listeners \ Requests
            /\ stream' = [c \in Requests |-> IF c \in listeners THEN "resolved" ELSE stream[c]]
       ELSE UNCHANGED <<complete, listeners, stream>>
    /\ UNCHANGED <<emitted, caught, response, dropped>>

\* The microtask queued by run()'s finally.
DropListeners ==
    /\ engine = "settled" /\ ~dropped
    /\ listeners' = {}
    /\ dropped' = TRUE
    /\ UNCHANGED <<vars, emitted, caught, open, complete, response, stream>>

-----------------------------------------------------------------------------
(* The server's side.                                                      *)

\* engine.run() has returned its handle.
HandleReturned == engine \notin {"idle", "loading", "creating", "created", "rejected"}

\* Mutation: neither streamRun nor onEvent asks whether the run is in flight.
SubscribableEver == TRUE

\* isInFlight(), asked by the route, by streamRun and again by onEvent.
Subscribable == inFlight

\* From the route's last await to streamRun's promise: writeHead, the 'close'
\* handler and the subscription are one synchronous step.  POST has committed
\* to a 200 before it asks, and ends an empty stream; GET answers 404.
Attach(c) ==
    /\ HandleReturned
    /\ response[c] \in {"none", "gone"}
    /\ stream[c] = "none"
    /\ IF Subscribable
       THEN /\ response' = [response EXCEPT ![c] = IF @ = "gone" THEN "gone" ELSE "streaming"]
            /\ listeners' = listeners \cup {c}
            /\ stream' = [stream EXCEPT ![c] = "waiting"]
       ELSE /\ response' = [response EXCEPT ![c] = IF c \in Posts THEN "ended" ELSE "refused"]
            /\ UNCHANGED <<listeners, stream>>
    /\ UNCHANGED <<vars, emitted, caught, open, complete, dropped>>

\* The client of a POST goes away while startRun() is awaited: 'close' fires
\* before anybody listens to it, and nothing tells the route.
Vanish(c) ==
    /\ c \in Posts
    /\ response[c] = "none" /\ engine # "idle"
    /\ response' = [response EXCEPT ![c] = "gone"]
    /\ UNCHANGED <<vars, emitted, caught, listeners, open, complete, stream, dropped>>

\* The 'close' handler aborts the request's signal: streamRun's onAbort
\* unsubscribes and resolves at once.
Disconnect(c) ==
    /\ response[c] = "streaming"
    /\ response' = [response EXCEPT ![c] = "closed"]
    /\ listeners' = listeners \ {c}
    /\ stream' = [stream EXCEPT ![c] = "resolved"]
    /\ UNCHANGED <<vars, emitted, caught, open, complete, dropped>>

\* streamRun resolved: res.end(), unless the connection is gone.
EndResponse(c) ==
    /\ response[c] = "streaming" /\ stream[c] = "resolved"
    /\ response' = [response EXCEPT ![c] = "ended"]
    /\ UNCHANGED <<vars, emitted, caught, listeners, open, complete, stream, dropped>>

-----------------------------------------------------------------------------
\* Steps of RunEngine that no listener sees.
Unseen ==
    /\ \/ LoadReturns \/ LoadRejects \/ CreateRunReturns \/ CreateRunRejects
       \/ Compiling \/ BeginSuperstep \/ RecursionLimitTrips \/ StreamAborts
       \/ FinalizeReturns \/ FinalizeRejects \/ CompleteRun \/ CompleteRunRejects
       \/ CatalogCleanedUp \/ Settle \/ Others
       \/ \E n \in Nodes : Handling(n) \/ Recording(n)
    /\ UNCHANGED eventVars

Emitting == LaunchAndRegister \/ StreamDrains \/ StreamRejects \/ AnnounceToListeners
            \/ DropListeners \/ \E n \in Nodes : EmitStart(n) \/ EmitEnd(n)

EventsNext ==
    \/ Unseen \/ Emitting
    \/ \E c \in Requests : Attach(c) \/ Vanish(c) \/ Disconnect(c) \/ EndResponse(c)

EventsSpec == EventsInit /\ [][EventsNext]_allVars

(* The event loop again: continuations that are due run, handlers return.  *)
(* Nobody has to attach, to disconnect or to abort.                        *)
EventsFairness ==
    /\ WF_allVars(Emitting)
    /\ WF_allVars(Unseen /\ ~(Others \/ StreamAborts))
    /\ \A n \in Nodes : WF_allVars(Unseen /\ (Handling(n) \/ Recording(n)))
    /\ \A c \in Requests : WF_allVars(EndResponse(c))

EventsFairSpec == EventsSpec /\ EventsFairness
-----------------------------------------------------------------------------
\* The listener passed to run() misses nothing (#S11b): it has an open start
\* for exactly the nodes the loop has announced as started and not as ended,
\* and it has RUN_COMPLETE as soon as execute() is past announcing it.
CallerMissesNothing ==
    \A s \in OnEvent :
        /\ engine = "streaming" => open[s] = {n \in Nodes : emitted[n] = "start"}
        /\ Answered => complete[s]

\* A subscriber that was told RUN_COMPLETE is not left with an open node the
\* run's failure is attributed to, nor, after a success, with any open node
\* (K15/#6: a node failure does not evaporate, also when several nodes fail).
CompleteClosesNodes ==
    \A s \in Subscribers : complete[s] =>
        /\ \A n \in open[s] \cap caught : fault[n] = "STORE"
        /\ outcome.status = "SUCCESS" => open[s] = {}

\* After the run's finally has dropped the listeners no subscriber is ever
\* registered for it again (K16: it would stay for the life of the process).
NoLateListener == dropped => listeners = {}

\* A stream that is waiting before RUN_COMPLETE is emitted resolves, and its
\* response is ended unless the client has gone (handlers.ts streamRun).
Before == {"catalog", "compiling", "streaming", "finalizing", "writing", "wrote"}
EarlyStreamsEnd ==
    \A c \in Requests :
        (stream[c] = "waiting" /\ engine \in Before) ~>
            stream[c] = "resolved" /\ response[c] # "streaming"

\* server/src/handlers.ts 64-70: streamRun resolves once RUN_COMPLETE fires,
\* or at once when the run is unknown or finished.
StreamsResolve == \A c \in Requests : stream[c] = "waiting" ~> stream[c] = "resolved"
=============================================================================
