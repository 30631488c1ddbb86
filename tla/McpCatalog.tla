----------------------------- MODULE McpCatalog -----------------------------
(***************************************************************************)
(* One catalog of createEnvCatalogLoader (packages/mcp), from load() to    *)
(* cleanup(), and the calls of MCP tool nodes that use it meanwhile.       *)
(*                                                                         *)
(* load() connects the servers one after the other, in whatever order the  *)
(* policy has put them; every call of the policy, of an MCP client and of  *)
(* a tool is an await that may reject.  A client counts as open from the   *)
(* moment it is pushed onto `clients` until its close() has settled,       *)
(* either way.  Tokens, descriptions, icons and the conversion of JSON     *)
(* schemas are left out; that a schema cannot be converted, or an output   *)
(* does not match it, is an outcome.                                       *)
(***************************************************************************)
EXTENDS Integers, Sequences, FiniteSets, SequencesExt

CONSTANTS
    Servers,   \* the configured servers: Servers[i] = [key, tools, allowed, connects]
    Pages,     \* the most pages a tools/list answer has
    Calls      \* runs of MCP tool nodes

Ids == DOMAIN Servers

Segments(name) == name \in Seq(Range(name))

\* A server's key is one segment: it has no colon.  Names of tools may have
\* colons, a name is the sequence of its segments.
ASSUME ServersAssumption ==
    /\ \A i \in Ids :
          /\ Segments(Servers[i].key) /\ Len(Servers[i].key) = 1
          /\ \A t \in Servers[i].tools : Segments(t) /\ t # <<>>
          /\ Servers[i].allowed \subseteq Servers[i].tools
          /\ Servers[i].connects \in BOOLEAN
    /\ \A i, j \in Ids : Servers[i].key = Servers[j].key => i = j
    /\ Pages \in Nat \ {0}

VARIABLES
    at,        \* what load() awaits, or how it ended
    todo,      \* the servers still to connect
    here,      \* the server at hand
    client,    \* client[i]: the MultiServerMCPClient of Servers[i]
    listed,    \* tools of the server at hand, filtered so far
    pages,     \* pages of raw schemas read from it
    providers, \* the catalog: a set of [server, tools]
    call       \* call[c]: [at, key, spec], a node and the tool it resolved to

vars == <<at, todo, here, client, listed, pages, providers, call>>

NoSpec == [server |-> 0, tool |-> <<>>]
Tools  == UNION {Servers[i].tools : i \in Ids}
Keys   == {Servers[i].key \o t : i \in Ids, t \in Tools} \cup {Servers[i].key : i \in Ids}

Provider == [server : Ids, tools : SUBSET Tools]
NodeSpec == [server : Ids, tool : Tools]
Call     == [at : {"idle", "rejected", "resolved", "invoking", "retrying", "returned", "failed"},
             key : Keys \cup {<<>>},
             spec : NodeSpec \cup {NoSpec}]

Init ==
    /\ at = "idle"
    /\ todo = {} /\ here = 0
    /\ client = [i \in Ids |-> "none"]
    /\ listed = {}
    /\ pages = 0
    /\ providers = {}
    /\ call = [c \in Calls |-> [at |-> "idle", key |-> <<>>, spec |-> NoSpec]]

-----------------------------------------------------------------------------
(* load(): one server after the other.                                     *)

Opened == {i \in Ids : client[i] = "open"}

\* policy.filterProviders narrows the servers; it runs outside the try.
Load ==
    /\ at = "idle"
    /\ todo' \in SUBSET Ids
    /\ at' = "next"
    /\ UNCHANGED <<here, client, listed, pages, providers, call>>

FilterProvidersRejects ==
    /\ at = "idle"
    /\ at' = "rejected"
    /\ UNCHANGED <<todo, here, client, listed, pages, providers, call>>

Skip == at' = "next"

NextServer ==
    /\ at = "next"
    /\ here' \in todo
    /\ todo' = todo \ {here'}
    /\ at' = "authorizing"
    /\ UNCHANGED <<client, listed, pages, providers, call>>

\* A config without the url or the command its transport needs makes it throw.
createClient(i) == Servers[i].connects

\* resolveAuthProvider gave a provider, or the token has been resolved too:
\* createClient is next, and only its failure is survived.
Connect ==
    /\ IF createClient(here)
       THEN client' = [client EXCEPT ![here] = "open"] /\ at' = "listing"
       ELSE Skip /\ UNCHANGED client
    /\ UNCHANGED <<todo, here, listed, pages, providers, call>>

AuthProviderResolved == at = "authorizing" /\ Connect

\* No provider: resolveToken is consulted, then server.accessToken.
NoAuthProvider ==
    /\ at = "authorizing"
    /\ at' = "resolving token"
    /\ UNCHANGED <<todo, here, client, listed, pages, providers, call>>

TokenResolved == at = "resolving token" /\ Connect

\* getFilteredTools: the tools the server lists, within its allowedTools.
ToolsListed ==
    /\ at = "listing"
    /\ listed' = Servers[here].tools \cap Servers[here].allowed
    /\ at' = "filtering tools"
    /\ UNCHANGED <<todo, here, client, pages, providers, call>>

\* The server is skipped; its client stays among `clients`.
ListingRejects ==
    /\ at = "listing"
    /\ Skip
    /\ UNCHANGED <<todo, here, client, listed, pages, providers, call>>

\* policy.filterTools answers with some tools, of this server or not.
ToolsFiltered ==
    /\ at = "filtering tools"
    /\ \E allowed \in SUBSET Tools : listed' = listed \cap allowed
    /\ pages' = 0
    /\ at' = "reading schemas"
    /\ UNCHANGED <<todo, here, client, providers, call>>

\* A page with a nextCursor.
PageRead ==
    /\ at = "reading schemas"
    /\ pages + 1 < Pages
    /\ pages' = pages + 1
    /\ UNCHANGED <<at, todo, here, client, listed, providers, call>>

\* The last page, or any error: getRawSchemas swallows it and the tools go
\* without their raw schemas.
SchemasRead ==
    /\ at = "reading schemas"
    /\ providers' = providers \cup {[server |-> here, tools |-> listed]}
    /\ Skip
    /\ UNCHANGED <<todo, here, client, listed, pages, call>>

\* The variables of the loop are gone.
LoadReturns ==
    /\ at = "next"
    /\ todo = {}
    /\ at' = "loaded"
    /\ here' = 0 /\ listed' = {} /\ pages' = 0
    /\ UNCHANGED <<todo, client, providers, call>>

\* Mutation: the clients of the providers found so far are closed.
ProvidersClients == {p.server : p \in providers}

\* Every client pushed so far, also of servers that were skipped afterwards.
ToClose == Opened

Closing(next) ==
    /\ client' = [i \in Ids |-> IF i \in ToClose THEN "closing" ELSE client[i]]
    /\ at' = next

\* A callback of the policy rejects: what is open is closed before the error
\* goes on to the caller.
PolicyRejects ==
    /\ at \in {"authorizing", "resolving token", "filtering tools"}
    /\ Closing("failing")
    /\ UNCHANGED <<todo, here, listed, pages, providers, call>>

-----------------------------------------------------------------------------
(* cleanup(), and what closes the clients.                                 *)

\* The owner of the catalog calls cleanup() once.
CleanUp ==
    /\ at = "loaded"
    /\ Closing("cleaning up")
    /\ UNCHANGED <<todo, here, listed, pages, providers, call>>

\* A close() resolves, or rejects, which is only logged.
Closed(i) ==
    /\ client[i] = "closing"
    /\ client' = [client EXCEPT ![i] = "closed"]
    /\ UNCHANGED <<at, todo, here, listed, pages, providers, call>>

\* Promise.all has every answer.
AllClosed ==
    /\ \A i \in Ids : client[i] # "closing"
    /\ \/ at = "failing" /\ at' = "rejected"
       \/ at = "cleaning up" /\ at' = "cleaned up"
    /\ UNCHANGED <<todo, here, client, listed, pages, providers, call>>

-----------------------------------------------------------------------------
(* MCP tool nodes: resolveSpec and the handler of the spec.                *)

\* Mutation: the last colon separates provider and tool.
SplitAtLastColon(key) == [provider |-> Front(key), tool |-> <<Last(key)>>]

\* The first colon separates them, later ones belong to the tool.
parseMcpKey(key) == [provider |-> <<Head(key)>>, tool |-> Tail(key)]

\* The first provider of that name, if it exposes the tool.
Find(key) ==
    {[server |-> p.server, tool |-> parseMcpKey(key).tool] :
        p \in {p \in providers : /\ Servers[p.server].key = parseMcpKey(key).provider
                                 /\ parseMcpKey(key).tool \in p.tools}}

CatalogInUse == at \in {"loaded", "cleaning up", "cleaned up"}

\* resolveSpec: a key without a tool, one the catalog does not expose, or a
\* schema that cannot be converted is rejected.
ResolveSpec(c) ==
    /\ CatalogInUse
    /\ call[c].at = "idle"
    /\ \E key \in Keys :
          \/ /\ Len(key) > 1
             /\ \E spec \in Find(key) :
                   call' = [call EXCEPT ![c] = [at |-> "resolved", key |-> key,
                                                spec |-> spec]]
          \/ call' = [call EXCEPT ![c].at = "rejected", ![c].key = key]
    /\ UNCHANGED <<at, todo, here, client, listed, pages, providers>>

\* The handler finds the tool in the run's catalog, or else takes the tool it
\* was built with: the same one, a graph with MCP nodes being compiled anew
\* for every run.
Handle(c) ==
    /\ call[c].at = "resolved"
    /\ call' = [call EXCEPT ![c].at = "invoking"]
    /\ UNCHANGED <<at, todo, here, client, listed, pages, providers>>

\* The tool has run: it answers, in accord with its output schema or not, or
\* fails by itself.  A closed client has no tool to run.
ToolAnswers(c) ==
    /\ call[c].at \in {"invoking", "retrying"}
    /\ client[call[c].spec.server] # "closed"
    /\ \E end \in {"returned", "failed"} : call' = [call EXCEPT ![c].at = end]
    /\ UNCHANGED <<at, todo, here, client, listed, pages, providers>>

\* Mutation: every transport error is retried.
RetryAlways(c) == call[c].at \in {"invoking", "retrying"}

RetryDue(c) == call[c].at = "invoking"

\* An error of the transport, ConnectionClosed or RequestTimeout: the tool may
\* have run all the same.
TransportFails(c) ==
    /\ call[c].at \in {"invoking", "retrying"}
    /\ call' = [call EXCEPT ![c].at = IF RetryDue(c) THEN "retrying" ELSE "failed"]
    /\ UNCHANGED <<at, todo, here, client, listed, pages, providers>>

Loading ==
    \/ Load \/ FilterProvidersRejects \/ NextServer \/ AuthProviderResolved
    \/ NoAuthProvider \/ TokenResolved \/ ToolsListed \/ ListingRejects \/ ToolsFiltered
    \/ PageRead \/ SchemasRead \/ LoadReturns \/ PolicyRejects

Calling(c) == Handle(c) \/ ToolAnswers(c) \/ TransportFails(c)

Next ==
    \/ Loading \/ CleanUp \/ AllClosed
    \/ \E i \in Ids : Closed(i)
    \/ \E c \in Calls : ResolveSpec(c) \/ Calling(c)

Spec == Init /\ [][Next]_vars

\* The policy, the servers and close() answer, and a tools/list answer has a
\* last page; the owner of the catalog calls cleanup(), as the engine and the
\* planner do in their finally blocks.
FairSpec ==
    /\ Spec
    /\ WF_vars(Loading) /\ WF_vars(CleanUp) /\ WF_vars(AllClosed)
    /\ \A i \in Ids : WF_vars(Closed(i))
    /\ \A c \in Calls : WF_vars(Calling(c))

-----------------------------------------------------------------------------
CatalogTypeOK ==
    /\ at \in {"idle", "next", "authorizing", "resolving token", "listing", "filtering tools",
               "reading schemas", "failing", "rejected", "loaded", "cleaning up", "cleaned up"}
    /\ todo \subseteq Ids /\ here \in Ids \cup {0}
    /\ client \in [Ids -> {"none", "open", "closing", "closed"}]
    /\ listed \subseteq Tools
    /\ pages \in 0..Pages
    /\ providers \subseteq Provider
    /\ call \in [Calls -> Call]

\* No client outlives its catalog: when load() has rejected, or cleanup() has
\* resolved, no client ever opened is open, the ones of skipped servers and
\* those whose close() fails beside another included (env-catalog-loader.ts,
\* catch of load() and cleanup).
NoClientLeaks ==
    at \in {"rejected", "cleaned up"} => \A i \in Ids : client[i] \in {"none", "closed"}

\* A key the catalog offers means one tool: whichever node resolves it gets
\* the tool of the provider the key was made from, and that one is allowed by
\* the server's list (node-resolver.ts parseMcpKey and buildSpec agree on
\* mcp:<provider>:<tool>, also for tools with a colon in their name).
KeysMeanOneTool ==
    /\ \A p \in providers : \A t \in p.tools :
          LET key == Servers[p.server].key \o t
          IN  Find(key) = {[server |-> p.server, tool |-> t]}
    /\ \A c \in Calls : call[c].spec # NoSpec =>
          /\ call[c].key = Servers[call[c].spec.server].key \o call[c].spec.tool
          /\ call[c].spec.tool \in Servers[call[c].spec.server].allowed

\* load() settles; a catalog that was loaded ends with every client closed;
\* a node whose tool was invoked ends, though its transport fail again and the
\* catalog be closed under it (node-resolver.ts: "retrying once").
EverythingSettles ==
    /\ at = "next" ~> at \in {"rejected", "cleaned up"}
    /\ \A c \in Calls : call[c].at = "invoking" ~> call[c].at \in {"returned", "failed"}
=============================================================================
