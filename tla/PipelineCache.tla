--------------------------- MODULE PipelineCache ----------------------------
(***************************************************************************)
(* The LRU cache of compiled graphs in PipelineCompiler, together with the *)
(* saves of the two stores that give a pipeline its updatedAt: the cache   *)
(* key is <<pipeline, updatedAt>>, so a save that does not move updatedAt  *)
(* leaves the graph compiled before it in use.                             *)
(*                                                                         *)
(* A graph is a model value: the save that wrote it.  store-memory saves   *)
(* in one go; store-prisma reads updatedAt and writes the row in one       *)
(* transaction, at the default isolation of the database, where two        *)
(* transactions may read the same value before either commits.  load()     *)
(* returns one committed version of the pipeline.                          *)
(***************************************************************************)
EXTENDS Integers, Sequences, FiniteSets, SequencesExt

CONSTANTS
    Pipelines,
    McpPipelines,   \* those with an mcp: node
    Saves,          \* calls of save() with the id of a pipeline
    Compiles,       \* runs, each loading and compiling one pipeline
    Capacity,       \* CAPACITY of the cache
    Times,          \* what Date.now() may answer, in any order
    Adapters,       \* a subset of {"memory", "prisma"}
    None

ASSUME CacheAssumption ==
    /\ McpPipelines \subseteq Pipelines
    /\ Capacity \in Nat
    /\ Times \subseteq Nat
    /\ Adapters \subseteq {"memory", "prisma"}
    /\ None \notin Pipelines \cup Saves

VARIABLES
    adapter,     \* the store in use
    row,         \* row[p]: [updatedAt, graph] of the pipeline, committed
    save,        \* save[s]: [at, pipeline, updatedAt], updatedAt as computed by s
    cache,       \* entries [pipeline, updatedAt, graph], the most recent first
    compile,     \* compile[c]: [at, pipeline, updatedAt, graph], as loaded
    served,      \* served[c]: the compiled graph c was given, or None
    overlapped   \* history: two transactions of one pipeline were open at once

vars == <<adapter, row, save, cache, compile, served, overlapped>>

Version == [pipeline : Pipelines, updatedAt : Nat, graph : Saves \cup {None}]
Idle == [at |-> "idle", pipeline |-> None, updatedAt |-> 0, graph |-> None]

CacheTypeOK ==
    /\ adapter \in Adapters
    /\ row \in [Pipelines -> [updatedAt : Nat, graph : Saves \cup {None}]]
    /\ save \in [Saves -> [at : {"idle", "open", "saved", "rejected"},
                           pipeline : Pipelines \cup {None}, updatedAt : Nat]]
    /\ cache \in Seq(Version) /\ Len(cache) <= Capacity
    /\ compile \in [Compiles -> [at : {"idle", "loaded", "validated", "resolving", "served",
                                       "rejected"},
                                 pipeline : Pipelines \cup {None}, updatedAt : Nat,
                                 graph : Saves \cup {None}]]
    /\ served \in [Compiles -> Saves \cup {None}]
    /\ overlapped \in BOOLEAN

\* The pipelines have been created.
Init ==
    /\ adapter \in Adapters
    /\ row = [p \in Pipelines |-> [updatedAt |-> 0, graph |-> None]]
    /\ save = [s \in Saves |-> [at |-> "idle", pipeline |-> None, updatedAt |-> 0]]
    /\ cache = << >>
    /\ compile = [c \in Compiles |-> Idle]
    /\ served = [c \in Compiles |-> None]
    /\ overlapped = FALSE

-----------------------------------------------------------------------------
(* save()                                                                  *)

\* Mutation: the clock alone.
NowOnly(now, previous) == now

\* Strictly later than the previous save, whatever the clock says.
Monotonic(now, previous) == IF now > previous THEN now ELSE previous + 1

SaveInMemory(s, p) ==
    /\ adapter = "memory" /\ save[s].at = "idle"
    /\ \E now \in Times :
          row' = [row EXCEPT ![p] = [updatedAt |-> Monotonic(now, row[p].updatedAt), graph |-> s]]
    /\ save' = [save EXCEPT ![s] = [at |-> "saved", pipeline |-> p, updatedAt |-> row'[p].updatedAt]]
    /\ UNCHANGED <<adapter, cache, compile, served, overlapped>>

\* The transaction of updatePipeline has read updatedAt and the clock.
ReadUpdatedAt(s, p) ==
    /\ adapter = "prisma" /\ save[s].at = "idle"
    /\ \E now \in Times :
          save' = [save EXCEPT ![s] = [at |-> "open", pipeline |-> p,
                                       updatedAt |-> Monotonic(now, row[p].updatedAt)]]
    /\ overlapped' = (overlapped \/ \E t \in Saves : save[t].at = "open" /\ save[t].pipeline = p)
    /\ UNCHANGED <<adapter, row, cache, compile, served>>

\* It writes the row, the nodes and the edges, and commits.
CommitUpdate(s) ==
    /\ save[s].at = "open"
    /\ row' = [row EXCEPT ![save[s].pipeline] = [updatedAt |-> save[s].updatedAt, graph |-> s]]
    /\ save' = [save EXCEPT ![s].at = "saved"]
    /\ UNCHANGED <<adapter, cache, compile, served, overlapped>>

\* A node id that belongs to another pipeline, or the database, rejects it.
UpdateRejects(s) ==
    /\ save[s].at = "open"
    /\ save' = [save EXCEPT ![s].at = "rejected"]
    /\ UNCHANGED <<adapter, row, cache, compile, served, overlapped>>

-----------------------------------------------------------------------------
(* run(): load(), then compile()                                           *)

Load(c, p) ==
    /\ compile[c].at = "idle"
    /\ compile' = [compile EXCEPT ![c] = [at |-> "loaded", pipeline |-> p,
                                          updatedAt |-> row[p].updatedAt, graph |-> row[p].graph]]
    /\ UNCHANGED <<adapter, row, save, cache, served, overlapped>>

\* The consumer's validate hook is awaited, and may reject.
ValidateHook(c) ==
    /\ compile[c].at = "loaded"
    /\ \E answer \in {"validated", "rejected"} : compile' = [compile EXCEPT ![c].at = answer]
    /\ UNCHANGED <<adapter, row, save, cache, served, overlapped>>

\* Mutation: the pipeline alone is the key.
SamePipeline(entry, c) == entry.pipeline = compile[c].pipeline

SameKey(entry, c) ==
    entry.pipeline = compile[c].pipeline /\ entry.updatedAt = compile[c].updatedAt

Cached(c) == compile[c].pipeline \notin McpPipelines /\ \E i \in DOMAIN cache : SameKey(cache[i], c)

Hit(c) ==
    /\ compile[c].at = "validated" /\ Cached(c)
    /\ LET i == SelectInSeq(cache, LAMBDA entry : SameKey(entry, c))
       IN  /\ cache' = <<cache[i]>> \o RemoveAt(cache, i)
           /\ served' = [served EXCEPT ![c] = cache[i].graph]
    /\ compile' = [compile EXCEPT ![c].at = "served"]
    /\ UNCHANGED <<adapter, row, save, overlapped>>

\* The registry resolves the specs of the nodes, asynchronously.
Miss(c) ==
    /\ compile[c].at = "validated" /\ ~Cached(c)
    /\ compile' = [compile EXCEPT ![c].at = "resolving"]
    /\ UNCHANGED <<adapter, row, save, cache, served, overlapped>>

AtMostCapacity(entries) == IF Len(entries) > Capacity THEN Front(entries) ELSE entries

\* The graph is built from what c loaded, and inserted without another lookup.
Insert(c) ==
    /\ compile[c].at = "resolving"
    /\ served' = [served EXCEPT ![c] = compile[c].graph]
    /\ cache' = IF compile[c].pipeline \in McpPipelines THEN cache
                ELSE AtMostCapacity(<<[pipeline |-> compile[c].pipeline,
                                       updatedAt |-> compile[c].updatedAt,
                                       graph |-> compile[c].graph]>> \o cache)
    /\ compile' = [compile EXCEPT ![c].at = "served"]
    /\ UNCHANGED <<adapter, row, save, overlapped>>

\* A node cannot be resolved, or the graph is rejected (GraphCheck).
CompileRejects(c) ==
    /\ compile[c].at = "resolving"
    /\ compile' = [compile EXCEPT ![c].at = "rejected"]
    /\ UNCHANGED <<adapter, row, save, cache, served, overlapped>>

Next ==
    \/ \E s \in Saves, p \in Pipelines : SaveInMemory(s, p) \/ ReadUpdatedAt(s, p)
    \/ \E s \in Saves : CommitUpdate(s) \/ UpdateRejects(s)
    \/ \E c \in Compiles, p \in Pipelines : Load(c, p)
    \/ \E c \in Compiles :
          ValidateHook(c) \/ Hit(c) \/ Miss(c) \/ Insert(c) \/ CompileRejects(c)

Spec == Init /\ [][Next]_vars
-----------------------------------------------------------------------------
\* A run executes the graph it loaded: the cache never answers with the graph
\* of another version of the pipeline (compiler.ts, #12/S3).  Overlapping
\* updates of one pipeline in store-prisma are excepted.
ServesWhatWasLoaded ==
    ~overlapped =>
        \A c \in Compiles : compile[c].at = "served" => served[c] = compile[c].graph

\* PipelineStore.save: "the persisted pipeline's updatedAt MUST be strictly
\* greater than the value it had before this call", with a clock that stands
\* still or steps back, one update at a time.
UpdatedAtGrows ==
    [][~overlapped =>
          \A p \in Pipelines : row'[p].graph # row[p].graph => row'[p].updatedAt > row[p].updatedAt]_vars

\* updatePipeline (#12) sets updatedAt "to strictly max(now, prev + 1)" so that
\* no save "silently keeps serving the STALE pre-edit compiled graph":
\* ServesWhatWasLoaded without the exception.
AlwaysServesWhatWasLoaded ==
    \A c \in Compiles : compile[c].at = "served" => served[c] = compile[c].graph
=============================================================================
