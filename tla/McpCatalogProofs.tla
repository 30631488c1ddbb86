-------------------------- MODULE McpCatalogProofs --------------------------
(***************************************************************************)
(* Machine-checked proofs about McpCatalog, for all servers, page bounds   *)
(* and calls: type correctness, that no client outlives its catalog, and   *)
(* that a key means one tool.                                              *)
(***************************************************************************)
EXTENDS McpCatalog, SequenceTheorems, TLAPS

\* A client is only ever opened while load() runs, and marked for closing
\* when load() fails or cleanup() is called.
LoadingAt == {"next", "authorizing", "resolving token", "listing", "filtering tools",
              "reading schemas"}

\* load() and cleanup() are never both under way: what is open is all of what
\* has been opened until one of them closes it, and then nothing is.
LifeInv ==
    /\ at = "idle" => \A i \in Ids : client[i] = "none"
    /\ at \in LoadingAt \cup {"loaded"} => \A i \in Ids : client[i] \in {"none", "open"}
    /\ at \in {"failing", "cleaning up"} => Opened = {}
    /\ at \in {"rejected", "cleaned up"} => \A i \in Ids : client[i] \in {"none", "closed"}

\* The server at hand is one, while there is one.
HereInv == at \in LoadingAt \ {"next"} => here \in Ids

-----------------------------------------------------------------------------
(* Type correctness.                                                       *)

LEMMA InitType == Init => CatalogTypeOK /\ HereInv
BY ServersAssumption
DEF ServersAssumption, Init, CatalogTypeOK, HereInv, LoadingAt, Call

\* A key that is found names a server and one of its tools.
LEMMA FindType ==
    ASSUME CatalogTypeOK, NEW key, NEW spec \in Find(key)
    PROVE  spec \in NodeSpec
<1>1. PICK p \in providers : /\ spec = [server |-> p.server, tool |-> parseMcpKey(key).tool]
                              /\ parseMcpKey(key).tool \in p.tools
  BY DEF Find
<1>2. p.server \in Ids /\ p.tools \subseteq Tools
  BY DEF CatalogTypeOK, Provider
<1> QED
  BY <1>1, <1>2 DEF NodeSpec

LEMMA LoadType == CatalogTypeOK /\ HereInv /\ Loading => CatalogTypeOK' /\ HereInv'
<1> SUFFICES ASSUME CatalogTypeOK, HereInv, Loading PROVE CatalogTypeOK' /\ HereInv'
  OBVIOUS
<1>n. Pages \in Nat
  BY ServersAssumption DEF ServersAssumption
<1>t. \A i \in Ids : Servers[i].tools \subseteq Tools
  BY DEF Tools
<1>p. pages \in 0..Pages /\ listed \subseteq Tools
  BY Zenon DEF CatalogTypeOK
<1>h. at \in LoadingAt \ {"next"} => here \in Ids
  BY Zenon DEF HereInv
<1> USE DEF CatalogTypeOK, HereInv, LoadingAt
<1>1. CASE Load
  BY <1>1 DEF Load
<1>2. CASE FilterProvidersRejects
  BY <1>2 DEF FilterProvidersRejects
<1>3. CASE NextServer
  BY <1>3 DEF NextServer
<1>4. CASE AuthProviderResolved
  BY <1>4 DEF AuthProviderResolved, Connect, Skip
<1>5. CASE NoAuthProvider
  BY <1>5 DEF NoAuthProvider
<1>6. CASE TokenResolved
  BY <1>6 DEF TokenResolved, Connect, Skip
<1>7. CASE ToolsListed
  BY <1>t, <1>h, <1>7 DEF ToolsListed
<1>8. CASE ListingRejects
  BY <1>8 DEF ListingRejects, Skip
<1>9. CASE ToolsFiltered
  <2>1. listed' \subseteq Tools
    BY <1>9 DEF ToolsFiltered
  <2>2. pages' \in 0..Pages
    <3>1. pages' = 0
      BY <1>9 DEF ToolsFiltered
    <3> HIDE DEF CatalogTypeOK, HereInv
    <3> QED
      BY <1>n, <3>1
  <2> QED
    BY <1>9, <2>1, <2>2 DEF ToolsFiltered
<1>10. CASE PageRead
  <2>1. pages' \in 0..Pages
    <3>1. pages + 1 < Pages /\ pages' = pages + 1
      BY <1>10, Zenon DEF PageRead
    <3>2. pages \in 0..Pages
      BY <1>p, Zenon
    <3> HIDE DEF CatalogTypeOK, HereInv
    <3> QED
      BY <1>n, <3>1, <3>2
  <2> QED
    BY <1>10, <2>1 DEF PageRead
<1>11. CASE SchemasRead
  <2>1. [server |-> here, tools |-> listed] \in Provider
    <3> HIDE DEF CatalogTypeOK, HereInv
    <3>1. here \in Ids
      BY <1>h, <1>11 DEF SchemasRead
    <3> QED
      BY <1>p, <3>1 DEF Provider
  <2>2. providers' \subseteq Provider
    BY <1>11, <2>1 DEF SchemasRead
  <2> QED
    BY <1>11, <2>2 DEF SchemasRead, Skip
<1>12. CASE LoadReturns
  BY <1>n, <1>12 DEF LoadReturns
<1>13. CASE PolicyRejects
  BY <1>13 DEF PolicyRejects, Closing
<1> QED
  BY <1>1, <1>2, <1>3, <1>4, <1>5, <1>6, <1>7, <1>8, <1>9, <1>10, <1>11, <1>12, <1>13
  DEF Loading

LEMMA TypeStep ==
    CatalogTypeOK /\ HereInv /\ [Next]_vars => CatalogTypeOK' /\ HereInv'
<1> SUFFICES ASSUME CatalogTypeOK, HereInv, [Next]_vars PROVE CatalogTypeOK' /\ HereInv'
  OBVIOUS
<1> USE DEF CatalogTypeOK, HereInv, LoadingAt
<1>1. CASE Loading
  BY <1>1, LoadType
<1>2. CASE CleanUp
  BY <1>2 DEF CleanUp, Closing
<1>3. CASE AllClosed
  BY <1>3 DEF AllClosed
<1>4. ASSUME NEW i \in Ids, Closed(i) PROVE CatalogTypeOK' /\ HereInv'
  BY <1>4 DEF Closed
<1>5. ASSUME NEW c \in Calls, ResolveSpec(c) PROVE CatalogTypeOK' /\ HereInv'
  <2>1. PICK key \in Keys :
           \/ \E spec \in Find(key) :
                 call' = [call EXCEPT ![c] = [at |-> "resolved", key |-> key, spec |-> spec]]
           \/ call' = [call EXCEPT ![c].at = "rejected", ![c].key = key]
    BY <1>5 DEF ResolveSpec
  <2>2. UNCHANGED <<at, todo, here, client, listed, pages, providers>>
    BY <1>5 DEF ResolveSpec
  <2>3. ASSUME NEW spec \in Find(key) PROVE spec \in NodeSpec
    BY <2>3, FindType
  <2>4. call \in [Calls -> Call]
    BY Zenon DEF CatalogTypeOK
  <2>5. call' \in [Calls -> Call]
    <3> HIDE DEF CatalogTypeOK, HereInv
    <3>1. ASSUME NEW spec \in Find(key)
          PROVE  [at |-> "resolved", key |-> key, spec |-> spec] \in Call
      BY <2>3 DEF Call
    <3>2. [call EXCEPT ![c].at = "rejected", ![c].key = key] \in [Calls -> Call]
      BY <2>4 DEF Call
    <3> QED
      BY <2>1, <2>4, <3>1, <3>2
  <2> QED
    BY <2>2, <2>5
<1>6. ASSUME NEW c \in Calls, Calling(c) PROVE CatalogTypeOK' /\ HereInv'
  <2>1. PICK next \in {"invoking", "retrying", "returned", "failed"} :
           call' = [call EXCEPT ![c].at = next]
    BY <1>6 DEF Calling, Handle, ToolAnswers, TransportFails
  <2>2. UNCHANGED <<at, todo, here, client, listed, pages, providers>>
    BY <1>6 DEF Calling, Handle, ToolAnswers, TransportFails
  <2>3. call' \in [Calls -> Call]
    BY <2>1 DEF Call
  <2> QED
    BY <2>2, <2>3
<1>7. CASE UNCHANGED vars
  BY <1>7 DEF vars
<1> QED
  BY <1>1, <1>2, <1>3, <1>4, <1>5, <1>6, <1>7 DEF Next

-----------------------------------------------------------------------------
(* Keys.                                                                   *)

RightTool(node) ==
    node.spec # NoSpec =>
        /\ node.key = Servers[node.spec.server].key \o node.spec.tool
        /\ node.spec.tool \in Servers[node.spec.server].allowed

\* What the catalog offers is allowed by the server's list, and a node that was
\* resolved has the tool its key is made of.
KeyInv ==
    /\ at \in {"filtering tools", "reading schemas"} => listed \subseteq Servers[here].allowed
    /\ \A p \in providers : p.tools \subseteq Servers[p.server].allowed
    /\ \A c \in Calls : RightTool(call[c])
    /\ \A c \in Calls : call[c].at = "idle" => call[c].spec = NoSpec

LEMMA HeadAndTail ==
    ASSUME NEW A, NEW B, NEW k \in Seq(A), NEW t \in Seq(B), Len(k) = 1
    PROVE  <<Head(k \o t)>> = k /\ Tail(k \o t) = t
<1>1. k \in Seq(A \cup B) /\ t \in Seq(A \cup B)
  OBVIOUS
<1>2. k \o t \in Seq(A \cup B) /\ Len(k \o t) = 1 + Len(t) /\ (k \o t)[1] = k[1]
      /\ \A j \in 1..Len(t) : (k \o t)[j + 1] = t[j]
  <2>1. /\ k \o t \in Seq(A \cup B) /\ Len(k \o t) = Len(k) + Len(t)
        /\ \A i \in 1 .. Len(k) + Len(t) : (k \o t)[i] =
               IF i <= Len(k) THEN k[i] ELSE t[i - Len(k)]
    BY <1>1, ConcatProperties
  <2>2. Len(t) \in Nat
    OBVIOUS
  <2> QED
    BY <2>1, <2>2
<1>3. k = <<k[1]>>
  OBVIOUS
<1>4. Head(k \o t) = k[1]
  BY <1>2
<1>5. Tail(k \o t) \in Seq(A \cup B) /\ Len(Tail(k \o t)) = Len(t)
  BY <1>2, HeadTailProperties
<1>6. \A j \in 1..Len(t) : Tail(k \o t)[j] = t[j]
  BY <1>2, <1>5, HeadTailProperties
<1>7. Tail(k \o t) = t
  BY <1>1, <1>5, <1>6, SeqEqual
<1> QED
  BY <1>3, <1>4, <1>7

\* parseMcpKey undoes what buildSpec does, for tools with colons too.
LEMMA ParseBuilt ==
    ASSUME NEW i \in Ids, NEW t \in Tools
    PROVE  /\ parseMcpKey(Servers[i].key \o t).provider = Servers[i].key
           /\ parseMcpKey(Servers[i].key \o t).tool = t
<1>1. Servers[i].key \in Seq(Range(Servers[i].key)) /\ Len(Servers[i].key) = 1
  BY ServersAssumption DEF ServersAssumption, Segments
<1>2. t \in Seq(Range(t)) /\ t # <<>>
  BY ServersAssumption DEF ServersAssumption, Segments, Tools
<1> QED
  BY <1>1, <1>2, HeadAndTail DEF parseMcpKey

\* A key with a tool, looked up, is the key of what is found.
LEMMA FoundByKey ==
    ASSUME CatalogTypeOK, KeyInv, NEW key \in Keys, Len(key) > 1, NEW spec \in Find(key)
    PROVE  /\ key = Servers[spec.server].key \o spec.tool
           /\ spec.tool \in Servers[spec.server].allowed
<1>1. PICK p \in providers : /\ spec = [server |-> p.server, tool |-> parseMcpKey(key).tool]
                             /\ Servers[p.server].key = parseMcpKey(key).provider
                             /\ parseMcpKey(key).tool \in p.tools
  BY DEF Find
<1>2. PICK i \in Ids, t \in Tools : key = Servers[i].key \o t
  <2>1. \A i \in Ids : Len(Servers[i].key) = 1
    BY ServersAssumption DEF ServersAssumption
  <2>2. key \notin {Servers[i].key : i \in Ids}
    <3> SUFFICES ASSUME NEW i \in Ids, key = Servers[i].key PROVE FALSE
      OBVIOUS
    <3>1. Len(key) = Len(Servers[i].key)
      OBVIOUS
    <3>2. Len(key) = 1
      BY <2>1, <3>1
    <3> QED
      BY <3>2
  <2>3. key \in {Servers[i].key \o t : i \in Ids, t \in Tools}
    BY <2>2 DEF Keys
  <2> QED
    BY <2>3
<1>3. Servers[p.server].key = Servers[i].key /\ spec.tool = t /\ spec.server = p.server
  BY <1>1, <1>2, ParseBuilt
<1>4. spec.tool \in Servers[p.server].allowed
  BY <1>1, <1>3 DEF KeyInv
<1> QED
  BY <1>2, <1>3, <1>4

LEMMA KeyInit == Init => KeyInv
<1> SUFFICES ASSUME Init PROVE KeyInv
  OBVIOUS
<1>1. providers = {} /\ at = "idle" /\ \A c \in Calls : call[c].spec = NoSpec
  BY DEF Init
<1> QED
  BY <1>1 DEF KeyInv, RightTool

LEMMA KeyStep == CatalogTypeOK /\ HereInv /\ KeyInv /\ [Next]_vars => KeyInv'
<1> SUFFICES ASSUME CatalogTypeOK, HereInv, KeyInv, [Next]_vars PROVE KeyInv'
  OBVIOUS
<1>1. CASE ToolsListed
  BY <1>1 DEF ToolsListed, KeyInv
<1>2. CASE ToolsFiltered
  BY <1>2 DEF ToolsFiltered, KeyInv
<1>3. CASE SchemasRead
  <2>1. /\ providers' = providers \cup {[server |-> here, tools |-> listed]}
        /\ at' = "next" /\ UNCHANGED call /\ listed \subseteq Servers[here].allowed
    BY <1>3 DEF SchemasRead, Skip, KeyInv
  <2>2. \A p \in providers' : p.tools \subseteq Servers[p.server].allowed
    <3> SUFFICES ASSUME NEW p \in providers' PROVE p.tools \subseteq Servers[p.server].allowed
      OBVIOUS
    <3>1. CASE p \in providers
      BY <3>1 DEF KeyInv
    <3>2. CASE p = [server |-> here, tools |-> listed]
      <4>1. p.tools = listed /\ p.server = here
        BY <3>2
      <4> QED
        BY <4>1, <2>1
    <3> QED
      BY <2>1, <3>1, <3>2
  <2> QED
    BY <2>1, <2>2 DEF KeyInv
<1>4. CASE PageRead \/ NoAuthProvider \/ NextServer \/ Load \/ FilterProvidersRejects
           \/ ListingRejects \/ LoadReturns \/ PolicyRejects \/ CleanUp \/ AllClosed
           \/ AuthProviderResolved \/ TokenResolved
  BY <1>4 DEF PageRead, NoAuthProvider, NextServer, Load, FilterProvidersRejects,
              ListingRejects, LoadReturns, PolicyRejects, CleanUp, AllClosed, Closing,
              AuthProviderResolved, TokenResolved, Connect, Skip, KeyInv
<1>5. CASE (\E i \in Ids : Closed(i)) \/ UNCHANGED vars
  BY <1>5 DEF Closed, vars, KeyInv
<1>6. ASSUME NEW c \in Calls, ResolveSpec(c) PROVE KeyInv'
  <2>1. call \in [Calls -> Call]
    BY Zenon DEF CatalogTypeOK
  <2>2. UNCHANGED <<at, here, listed, providers>>
    BY <1>6 DEF ResolveSpec
  <2>3. call[c].at = "idle" /\ call[c].spec = NoSpec
    BY <1>6 DEF ResolveSpec, KeyInv
  <2>4. PICK key \in Keys :
           \/ /\ Len(key) > 1
              /\ \E spec \in Find(key) :
                    call' = [call EXCEPT ![c] = [at |-> "resolved", key |-> key,
                                                 spec |-> spec]]
           \/ call' = [call EXCEPT ![c].at = "rejected", ![c].key = key]
    BY <1>6 DEF ResolveSpec
  <2>5. \A d \in Calls \ {c} : call'[d] = call[d]
    BY <2>1, <2>4
  <2>6. RightTool(call'[c]) /\ call'[c].at # "idle"
    <3>1. CASE call' = [call EXCEPT ![c].at = "rejected", ![c].key = key]
      <4>1. call'[c].spec = NoSpec /\ call'[c].at = "rejected"
        BY <3>1, <2>1, <2>3 DEF Call
      <4> QED
        BY <4>1 DEF RightTool
    <3>2. ASSUME Len(key) > 1, NEW spec \in Find(key),
                 call' = [call EXCEPT ![c] = [at |-> "resolved", key |-> key, spec |-> spec]]
          PROVE  RightTool(call'[c]) /\ call'[c].at # "idle"
      <4>1. call'[c] = [at |-> "resolved", key |-> key, spec |-> spec]
        BY <3>2, <2>1
      <4>2. key = Servers[spec.server].key \o spec.tool
            /\ spec.tool \in Servers[spec.server].allowed
        BY <3>2, FoundByKey
      <4> QED
        <5>1. call'[c].key = key /\ call'[c].spec = spec /\ call'[c].at = "resolved"
          BY ONLY <4>1
        <5> QED
          BY <4>2, <5>1 DEF RightTool
    <3> QED
      BY <2>4, <3>1, <3>2
  <2> QED
    BY <2>2, <2>5, <2>6 DEF KeyInv
<1>7. ASSUME NEW c \in Calls, Calling(c) PROVE KeyInv'
  <2>1. call \in [Calls -> Call]
    BY Zenon DEF CatalogTypeOK
  <2>2. UNCHANGED <<at, here, listed, providers>>
    BY <1>7 DEF Calling, Handle, ToolAnswers, TransportFails
  <2>3. \E next \in {"invoking", "retrying", "returned", "failed"} : call' = [call EXCEPT ![c].at = next]
    BY <1>7 DEF Calling, Handle, ToolAnswers, TransportFails
  <2>4. \A d \in Calls \ {c} : call'[d] = call[d]
    BY <2>1, <2>3
  <2>5. call'[c].key = call[c].key /\ call'[c].spec = call[c].spec /\ call'[c].at # "idle"
    BY <2>1, <2>3 DEF Call
  <2> QED
    BY <2>2, <2>4, <2>5 DEF KeyInv, RightTool
<1> QED
  BY <1>1, <1>2, <1>3, <1>4, <1>5, <1>6, <1>7 DEF Next, Loading

-----------------------------------------------------------------------------
(* Clients.                                                                *)

LEMMA LifeInit == Init => LifeInv
BY DEF Init, LifeInv, LoadingAt

LEMMA LifeStep ==
    CatalogTypeOK /\ HereInv /\ LifeInv /\ [Next]_vars => LifeInv'
<1> SUFFICES ASSUME CatalogTypeOK, HereInv, LifeInv, [Next]_vars PROVE LifeInv'
  OBVIOUS
<1> USE DEF CatalogTypeOK, HereInv, LoadingAt, LifeInv, Opened
<1>1. CASE Load \/ FilterProvidersRejects
  BY <1>1 DEF Load, FilterProvidersRejects
<1>2. CASE NextServer \/ NoAuthProvider \/ ToolsListed \/ ListingRejects \/ ToolsFiltered
           \/ PageRead \/ SchemasRead \/ LoadReturns
  BY <1>2 DEF NextServer, NoAuthProvider, ToolsListed, ListingRejects, ToolsFiltered,
              PageRead, SchemasRead, LoadReturns, Skip
<1>3. CASE AuthProviderResolved \/ TokenResolved
  BY <1>3 DEF AuthProviderResolved, TokenResolved, Connect, Skip
<1>4. CASE PolicyRejects \/ CleanUp
  BY <1>4 DEF PolicyRejects, CleanUp, Closing, ToClose
<1>5. CASE AllClosed
  BY <1>5 DEF AllClosed
<1>6. ASSUME NEW i \in Ids, Closed(i) PROVE LifeInv'
  BY <1>6 DEF Closed
<1>7. CASE (\E c \in Calls : ResolveSpec(c) \/ Calling(c)) \/ UNCHANGED vars
  BY <1>7 DEF ResolveSpec, Calling, Handle, ToolAnswers, TransportFails, vars
<1> QED
  BY <1>1, <1>2, <1>3, <1>4, <1>5, <1>6, <1>7 DEF Next, Loading

\* The inductive invariant: types, the server at hand, the keys, and which
\* clients are open in which phase of load() and cleanup().
THEOREM Invariance == Spec => [](CatalogTypeOK /\ HereInv /\ KeyInv /\ LifeInv)
<1>1. Init => CatalogTypeOK /\ HereInv /\ KeyInv /\ LifeInv
  BY InitType, KeyInit, LifeInit
<1>2. CatalogTypeOK /\ HereInv /\ KeyInv /\ LifeInv /\ [Next]_vars
        => (CatalogTypeOK /\ HereInv /\ KeyInv /\ LifeInv)'
  BY TypeStep, KeyStep, LifeStep
<1> QED
  BY <1>1, <1>2, PTL DEF Spec

\* The variables keep their types (CatalogTypeOK).
THEOREM TypeCorrect == Spec => []CatalogTypeOK
BY Invariance, PTL

\* No client outlives its catalog (env-catalog-loader.ts, catch of load() and
\* cleanup).
THEOREM ClientsAreClosed == Spec => []NoClientLeaks
<1>1. LifeInv => NoClientLeaks
  BY DEF LifeInv, NoClientLeaks
<1> QED
  BY <1>1, Invariance, PTL

\* A key the catalog offers means one tool, and a node has the tool its key is
\* made of (node-resolver.ts parseMcpKey and buildSpec).
THEOREM KeysAreExact == Spec => []KeysMeanOneTool
<1>1. CatalogTypeOK /\ KeyInv => KeysMeanOneTool
  <2> SUFFICES ASSUME CatalogTypeOK, KeyInv PROVE KeysMeanOneTool
    OBVIOUS
  <2>1. ASSUME NEW p \in providers, NEW t \in p.tools
        PROVE  Find(Servers[p.server].key \o t) = {[server |-> p.server, tool |-> t]}
    <3> DEFINE key == Servers[p.server].key \o t
    <3>1. p.server \in Ids /\ t \in Tools
      BY DEF CatalogTypeOK, Provider
    <3>2. parseMcpKey(key).provider = Servers[p.server].key /\ parseMcpKey(key).tool = t
      BY <3>1, ParseBuilt
    <3>3. \A q \in providers : Servers[q.server].key = Servers[p.server].key
                                 => q.server = p.server
      BY <3>1, ServersAssumption DEF ServersAssumption, CatalogTypeOK, Provider
    <3> HIDE DEF key
    <3>4. ASSUME NEW spec \in Find(key) PROVE spec = [server |-> p.server, tool |-> t]
      BY <3>2, <3>3 DEF Find
    <3>5. [server |-> p.server, tool |-> t] \in Find(key)
      BY <3>2, <2>1 DEF Find
    <3>6. Find(key) = {[server |-> p.server, tool |-> t]}
      BY <3>4, <3>5
    <3> QED
      BY <3>6 DEF key
  <2> QED
    BY <2>1 DEF KeysMeanOneTool, KeyInv, RightTool
<1> QED
  BY <1>1, Invariance, PTL
=============================================================================
